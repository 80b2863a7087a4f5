------------------------------ MODULE RangeFetch ------------------------------
(****************************************************************************)
(* How the ranges of a target are obtained: from the cached range file, the *)
(* provider's own feeds, or the backup file on the two mirrors, in the      *)
(* order the options give; and what is then kept in the range file, or, by  *)
(* the updater, published in the file the mirrors serve.                    *)
(*                                                                          *)
(* An answer to a request is Down (an error, a status other than 200, a     *)
(* timeout) or a body [shape, cidrs].  The entries of a body are Usable,    *)
(* Special (well formed, but loopback, multicast and the like) or Junk.     *)
(* A list of ranges is the set of its entries: lists are sorted at the end. *)
(* A write that fails leaves the file as it was, or cut short, and then it   *)
(* is read like a missing one.                                              *)
(****************************************************************************)
EXTENDS Naturals, Sequences, FiniteSets

CONSTANTS Usable, Special, Junk,
          Bodies,             \* bodies a server may answer with
          Down, Unasked, NoFile

Shapes == {"rangefile", "array", "aws", "text"}
Cidrs  == Usable \union Special \union Junk

ASSUME FetchAssumption ==
    /\ Bodies \subseteq [shape : Shapes, cidrs : SUBSET Cidrs]
    /\ Down \notin Bodies /\ Unasked \notin Bodies /\ Down # Unasked
    /\ Usable \intersect Special = {} /\ Junk \intersect (Usable \union Special) = {}

Urls == {"api", "api6", "raw", "cdn"}

\* A request: who makes it; the parser of the manifest entry, or "own" for a
\* feed that is not the manifest's; whether the entry has a feed of its own for
\* IPv6; options.  A feed of one's own is only asked by a reload, which does not
\* use the cache.  The updater goes through the manifest, without the backup,
\* and passes over manual entries, whose files their owners write.
Wants == {w \in [by : {"program", "updater"},
                 parser : {"scrape", "aws", "manual", "unknown", "own"}, v6 : BOOLEAN,
                 PreferBackup : BOOLEAN, NoBackup : BOOLEAN, force : BOOLEAN] :
            /\ w.parser = "own" => w.force
            /\ w.by = "updater" => /\ w.NoBackup /\ ~w.PreferBackup /\ w.force
                                  /\ w.parser \notin {"own", "manual"}}

VARIABLES want,       \* the current request
          plan,       \* the sources still to be tried, in order
          at,         \* which URL of Head(plan) is next
          replies,    \* the answers so far
          result, source,   \* what was found, and where
          file,       \* the ranges in ips/<name>.json, or NoFile
          published,  \* those in the updater's inside-api/<name>.json
          status      \* "idle" | "fetching" | "done" | "failed"

vars == <<want, plan, at, replies, result, source, file, published, status>>

-----------------------------------------------------------------------------
(* What a body yields *)

\* scrapeCIDRBytes, normalizeCIDRs: the usable entries of any text.
scraped(b) == b.cidrs \intersect Usable

\* fetchBackupFile: a structured file is taken as it is, any other is scraped.
fromBackup(b) == IF b = Down THEN {}
                 ELSE IF b.shape = "rangefile" /\ b.cidrs # {} THEN b.cidrs ELSE scraped(b)

\* ScrapeCIDRs and FetchCIDRs; fetchAWSCloudFront.
fromFeed(b) == IF b = Down THEN {} ELSE scraped(b)
fromAWS(b)  == IF b # Down /\ b.shape = "aws" THEN b.cidrs ELSE {}

\* An entry that is scraped from one feed for each family, or from one.
TwoFeeds(w) == w.parser = "scrape" /\ w.v6
OneFeed(w)  == w.parser \in {"scrape", "own"} /\ ~TwoFeeds(w)

\* Faulty variant: the IPv6 feed is only a replacement for the other one.
fromOneFeed(w, r) ==
    CASE w.parser = "aws" -> fromAWS(r["api"])
      [] TwoFeeds(w) -> IF fromFeed(r["api"]) = {} THEN fromFeed(r["api6"]) ELSE fromFeed(r["api"])
      [] OneFeed(w) -> fromFeed(r["api"])
      [] OTHER -> {}

\* runParser, scrapeBothFamilies: the two feeds fail independently.
fromOfficial(w, r) ==
    CASE w.parser = "aws" -> fromAWS(r["api"])
      [] TwoFeeds(w) -> fromFeed(r["api"]) \union fromFeed(r["api6"])
      [] OneFeed(w) -> fromFeed(r["api"])
      [] OTHER -> {}

\* iprange.Filter before a list is stored.
Filter(list) == list \ Junk

-----------------------------------------------------------------------------
(* Requests *)

\* The URLs of a source, in the order they are asked.
UrlsOf(src, w) ==
    IF src = "backup" THEN <<"raw", "cdn">>
    ELSE CASE TwoFeeds(w) -> <<"api", "api6">>
           [] OneFeed(w) \/ w.parser = "aws" -> <<"api">>
           [] OTHER -> <<>>

\* FetchRanges: the sources in the order they are tried.
sources(w) ==
    CASE w.parser = "own" -> <<"official">>
      [] w.parser = "manual" -> IF w.NoBackup THEN <<>> ELSE <<"backup">>
      [] OTHER -> IF w.NoBackup THEN <<"official">>
                  ELSE IF w.PreferBackup THEN <<"backup", "official">>
                  ELSE <<"official", "backup">>

Init == /\ want \in Wants
        /\ plan = <<>> /\ at = 1
        /\ replies = [u \in Urls |-> Unasked]
        /\ result = {} /\ source = "none"
        /\ file = NoFile /\ published = NoFile
        /\ status = "idle"

\* LoadOrRefresh: the file serves if it has ranges and no fetch is forced.
Cached(w) == ~w.force /\ file \notin {NoFile, {}}

\* A new request.
Start == /\ status \in {"idle", "done", "failed"}
         /\ want' \in Wants
         /\ replies' = [u \in Urls |-> Unasked]
         /\ at' = 1
         /\ IF Cached(want')
            THEN /\ status' = "done" /\ result' = file /\ source' = "cache"
                 /\ plan' = <<>>
            ELSE /\ status' = "fetching" /\ result' = {} /\ source' = "none"
                 /\ plan' = sources(want')
         /\ UNCHANGED <<file, published>>

Asking(src) == status = "fetching" /\ plan # <<>> /\ Head(plan) = src
NextUrl     == UrlsOf(Head(plan), want)[at]
Left        == at <= Len(UrlsOf(Head(plan), want))

Answer(b) == replies' = [replies EXCEPT ![NextUrl] = b] /\ at' = at + 1

\* One request to the provider; the parser looks at the answers at the end.
AskOfficial == /\ Asking("official") /\ Left
               /\ \E b \in Bodies \union {Down} : Answer(b)
               /\ UNCHANGED <<want, plan, result, source, file, published, status>>

\* Faulty variant: the source of a manual entry has a name of its own.
FoundManual(list, src) == /\ result' = list /\ plan' = <<>>
                          /\ source' = IF want.parser = "manual" THEN "manual" ELSE src

Found(list, src) == result' = list /\ source' = src /\ plan' = <<>>
NotFound         == plan' = Tail(plan) /\ UNCHANGED <<result, source>>

ParseOfficial == /\ Asking("official") /\ ~Left
                 /\ IF fromOfficial(want, replies) # {}
                    THEN Found(fromOfficial(want, replies), "official") ELSE NotFound
                 /\ at' = 1
                 /\ UNCHANGED <<want, replies, file, published, status>>

\* Faulty variant: a mirror that answers nothing useful ends the search.
AskBackupOnce == /\ Asking("backup") /\ Left
                 /\ \E b \in Bodies \union {Down} :
                      /\ replies' = [replies EXCEPT ![NextUrl] = b]
                      /\ at' = IF b = Down THEN at + 1 ELSE 1
                      /\ IF fromBackup(b) # {} THEN Found(fromBackup(b), NextUrl)
                         ELSE IF b # Down THEN NotFound
                         ELSE UNCHANGED <<plan, result, source>>
                 /\ UNCHANGED <<want, file, published, status>>

\* One request to a mirror, whose answer is looked at immediately.
AskBackup == /\ Asking("backup") /\ Left
             /\ \E b \in Bodies \union {Down} :
                  /\ Answer(b)
                  /\ IF fromBackup(b) # {} THEN Found(fromBackup(b), NextUrl)
                     ELSE UNCHANGED <<plan, result, source>>
             /\ UNCHANGED <<want, file, published, status>>

NoBackupLeft == /\ Asking("backup") /\ ~Left
                /\ NotFound /\ at' = 1
                /\ UNCHANGED <<want, replies, file, published, status>>

\* What is stored: the program filters it, the updater does not.
kept(list) == IF want.by = "updater" THEN list ELSE Filter(list)

Writes(v) == \/ want.by = "program" /\ file' = v /\ UNCHANGED published
             \/ want.by = "updater" /\ published' = v /\ UNCHANGED file

\* Faulty variant: the file is written whatever came of the search.
SaveAnyway == /\ status = "fetching" /\ plan = <<>>
              /\ Writes(kept(result)) /\ result' = kept(result)
              /\ status' = IF source = "none" THEN "failed" ELSE "done"
              /\ UNCHANGED <<want, plan, at, replies, source>>

\* Refresh, Reload and runUpdater: what was found is saved.  The write may fail,
\* and then so does the request; the program and the updater go on.
Save == /\ status = "fetching" /\ plan = <<>> /\ source # "none"
        /\ \/ /\ Writes(kept(result)) /\ result' = kept(result)
              /\ status' = "done"
           \/ /\ Writes(NoFile) \/ UNCHANGED <<file, published>>
              /\ status' = "failed" /\ result' = result
        /\ UNCHANGED <<want, plan, at, replies, source>>

\* All sources failed.
Fail == /\ status = "fetching" /\ plan = <<>> /\ source = "none"
        /\ status' = "failed"
        /\ UNCHANGED <<want, plan, at, replies, result, source, file, published>>

Next == Start \/ AskOfficial \/ ParseOfficial \/ AskBackup \/ NoBackupLeft \/ Save \/ Fail

Spec == Init /\ [][Next]_vars

-----------------------------------------------------------------------------
(* Properties *)

Answers == Bodies \union {Down, Unasked}

\* Type invariant of a fetch.
TypeOK == /\ want \in Wants
          /\ plan \in Seq({"official", "backup"}) /\ at \in 1..3
          /\ replies \in [Urls -> Answers]
          /\ result \subseteq Cidrs
          /\ source \in {"none", "cache", "official", "raw", "cdn"}
          /\ \A f \in {file, published} : f = NoFile \/ f \subseteq Cidrs
          /\ status \in {"idle", "fetching", "done", "failed"}

Asked(u)  == replies[u] # Unasked
GoodFeed(u)   == replies[u] \in Bodies /\ replies[u].cidrs \intersect Usable # {}
GoodMirror(u) == /\ replies[u] \in Bodies
                 /\ \/ replies[u].shape = "rangefile" /\ replies[u].cidrs # {}
                    \/ replies[u].cidrs \intersect Usable # {}
GoodOfficial  == IF want.parser = "aws"
                 THEN replies["api"] \in Bodies /\ replies["api"].shape = "aws"
                      /\ replies["api"].cidrs # {}
                 ELSE GoodFeed("api") \/ GoodFeed("api6")

\* Whichever source the ranges come from, every source that comes before it
\* failed to give any, and "an error is returned only when all attempted sources
\* fail": a failed search has tried everything the options allow.  Nor does a
\* search ask anybody the options exclude: no mirror when the backup is disabled
\* or the feed is the user's own, only the mirrors for a manual entry, and
\* nobody when a cached file serves.
FirstAnswerWins ==
    /\ want.NoBackup \/ want.parser = "own" => ~Asked("raw") /\ ~Asked("cdn")
    /\ want.parser \in {"manual", "unknown"} => ~Asked("api") /\ ~Asked("api6")
    /\ Asked("api6") => want.v6
    /\ source = "cache" => ~want.force /\ result # {} /\ \A u \in Urls : ~Asked(u)
    /\ source = "official" => /\ GoodOfficial
                              /\ Asked("raw") => want.PreferBackup /\ ~GoodMirror("cdn")
                                                 /\ ~GoodMirror("raw") /\ Asked("cdn")
    /\ source \in {"raw", "cdn"} => /\ GoodMirror(source)
                                    /\ source = "cdn" => Asked("raw") /\ ~GoodMirror("raw")
                                    /\ Asked("api") => ~want.PreferBackup /\ ~GoodOfficial
    /\ status = "failed" /\ source = "none" =>
         /\ want.parser \in {"scrape", "aws", "own"} => Asked("api") /\ ~GoodOfficial
         /\ ~want.NoBackup /\ want.parser # "own" =>
              Asked("raw") /\ Asked("cdn") /\ ~GoodMirror("raw") /\ ~GoodMirror("cdn")

\* A provider that splits its families over two feeds loses neither because of
\* the other: the result has all the usable ranges of every feed that answered.
FeedsFailIndependently ==
    source = "official" /\ want.parser = "scrape" =>
        \A u \in {"api", "api6"} : GoodFeed(u) => replies[u].cidrs \intersect Usable \subseteq result

\* The ranges of a file are replaced only by ranges that were found in this
\* request, or lost to a write that broke off: a fetch that fails, in whatever
\* way, leaves the cached ranges as they were, and the published ones.
Rewritten(f) == /\ source \notin {"none", "cache"}
                /\ \/ status' = "done" /\ f = result'
                   \/ status' = "failed" /\ f = NoFile

FailureKeepsFile ==
    [][/\ file' # file => want.by = "program" /\ Rewritten(file')
       /\ published' # published => want.by = "updater" /\ Rewritten(published')]_vars

=============================================================================
