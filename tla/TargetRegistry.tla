---------------------------- MODULE TargetRegistry ----------------------------
(****************************************************************************)
(* The targets of RainScanner: the in-memory registry of package targets,   *)
(* the files FileStore keeps it in, the manifest that names the built-in    *)
(* CDNs, and restarts of the program.                                       *)
(*                                                                          *)
(* Every operation of Registry runs under its lock and is one step, with    *)
(* its writes.  A write may fail (bound: MayFail), and a failed one leaves   *)
(* the file as it was or torn.  A crash in the middle of an operation is a   *)
(* failed write followed by Restart: nothing else outlives the process.      *)
(* Reload is no single step: it copies the record, fetches without the lock  *)
(* and then upserts the copy.  And the registry is not alone with its files: *)
(* a scan that fetches a built-in writes the range file of that name itself, *)
(* and the registry learns of it when it reads the file again.               *)
(*                                                                          *)
(* A name is a spelling: trim[n] is the spelling without surrounding        *)
(* spaces, lower[n] the key case-insensitive lookups compare.  Range files  *)
(* are named by spelling.  Ranges and URLs are opaque values.               *)
(****************************************************************************)
EXTENDS Integers, Sequences, SequencesExt

CONSTANTS Names, trim, lower,   \* spellings and their normal forms
          Ranges, NoRanges,     \* lists of CIDRs; the empty list
          Feed,                 \* the URL of a manifest entry (empty or not)
          Urls, NoUrl,          \* the URLs users give; none given
          FirstManifest,        \* the entries of the manifest at the start
          Upcoming,             \* entries published later
          Reloaders,            \* requests that reload one target or all
          Scanned               \* names under which scans fetch ranges (bound)

\* The names entries of the manifest have; they differ in more than case, as
\* those of inside-api/index.json do.  Trimming twice is trimming once, and
\* spellings that differ in case only still do when trimmed.
Published == Upcoming \union Range(FirstManifest)

ASSUME RegistryAssumption ==
    /\ trim \in [Names -> Names] /\ \A n \in Names : trim[trim[n]] = trim[n]
    /\ DOMAIN lower = Names
    /\ \A m, n \in Names : lower[m] = lower[n] => lower[trim[m]] = lower[trim[n]]
    /\ FirstManifest \in Seq(Names) /\ Upcoming \subseteq Names
    /\ \A n \in Published : trim[n] = n
    /\ \A m, n \in Published : lower[m] = lower[n] => m = n
    /\ IsInjective(FirstManifest) /\ Scanned \subseteq Names
    /\ NoRanges \notin Ranges
    /\ NoUrl \notin Urls /\ Feed # NoUrl

Keys    == {lower[n] : n \in Names}
AllUrls == Urls \union {Feed, NoUrl}
Lists   == Ranges \union {NoRanges}
Record  == [name : Names, cidrs : Lists, api : AllUrls, builtin : BOOLEAN]
Customs == {r \in Record : ~r.builtin}

VARIABLES upstream,      \* the published manifest (environment)
          manifest,      \* the active manifest
          recs,          \* Registry.recs
          builtinNames, hidden,
          files,         \* files[n]: the ranges in ips/<n>.json; none if it is
                         \* missing or torn, which Open does not tell apart
          envelope,      \* ips/custom.json
          torn,          \* ips/custom.json is torn
          up,            \* the program runs
          todo,          \* todo[p]: names a reload request still has to reload
          held,          \* held[p]: the record its Reload copied, or <<>>
          failed,        \* a write of the registry failed since the last start
          refetched      \* names whose range file a scan wrote since the
                         \* registry last wrote or read it (both history)

memVars  == <<recs, builtinNames, hidden>>
diskVars == <<files, envelope, torn, refetched>>
vars == <<upstream, manifest, recs, builtinNames, hidden, files, envelope,
          torn, up, todo, held, failed, refetched>>

-----------------------------------------------------------------------------
(* Lookups *)

\* Faulty variant: the lookup is case-sensitive.
sameSpelling(m, n) == m = n

\* strings.EqualFold
EqualFold(m, n) == lower[m] = lower[n]

\* The first position whose name is n up to case, or 0.
indexOf(rs, n) ==
    LET at == {i \in DOMAIN rs : EqualFold(rs[i].name, trim[n])}
    IN  IF at = {} THEN 0 ELSE CHOOSE i \in at : \A j \in at : i <= j

Has(rs, k) == \E i \in DOMAIN rs : lower[rs[i].name] = k

\* providers.Entries and GetEntry: every entry's URL is Feed.
EntryKeys == {lower[manifest[i]] : i \in DOMAIN manifest}

\* The elements of s that are in K, in their order: the loops over the records
\* and the entries that skip the others.
Only(s, K) ==
    LET kept[i \in 0..Len(s)] == IF i = 0 THEN <<>>
                                 ELSE IF s[i] \in K THEN Append(kept[i - 1], s[i])
                                 ELSE kept[i - 1]
    IN  kept[Len(s)]

-----------------------------------------------------------------------------
(* FileStore *)

customsOf(rs) == Only(rs, Customs)

\* Faulty variant: the envelope is rewritten from the hidden list alone.
SaveHiddenAlone(h) == [targets |-> <<>>, hidden |-> h]

SaveHidden(h)  == [envelope EXCEPT !.hidden = h]
SaveCustoms(t) == [envelope EXCEPT !.targets = t]

\* A built-in from the manifest, with the ranges of its file.
Builtin(n) == [name |-> n, cidrs |-> files[n], api |-> Feed, builtin |-> TRUE]

\* Faulty variant: deleted built-ins are seeded again.
OpenedAll(m) == [i \in DOMAIN m |-> Builtin(m[i])] \o envelope.targets

\* Open, over the manifest m.
Opened(m) ==
    LET shown == Only(m, {n \in Names : lower[n] \notin envelope.hidden})
    IN  [i \in DOMAIN shown |-> Builtin(shown[i])] \o envelope.targets

-----------------------------------------------------------------------------
Init == /\ upstream = FirstManifest
        /\ manifest = FirstManifest
        /\ files = [n \in Names |-> NoRanges]
        /\ envelope = [targets |-> <<>>, hidden |-> {}]
        /\ torn = FALSE
        /\ up = TRUE
        /\ recs = Opened(FirstManifest)
        /\ builtinNames = EntryKeys
        /\ hidden = {}
        /\ todo = [p \in Reloaders |-> <<>>]
        /\ held = [p \in Reloaders |-> <<>>]
        /\ failed = FALSE
        /\ refetched = {}

-----------------------------------------------------------------------------
(* Registry *)

Unpublished == upstream = FirstManifest

\* Bound: one write fails of itself between two starts, none after a publication.
MayFail == ~failed /\ Unpublished

\* saveEnvelope of e, over the file as loadEnvelope reads it: that fails too
\* while the file is torn.
SavesEnvelope(ok, e) ==
    \/ /\ ok /\ ~torn
       /\ envelope' = e /\ torn' = torn
    \/ /\ ~ok /\ (torn \/ MayFail)
       /\ envelope' = envelope /\ torn' \in {torn, TRUE}

KeepsEnvelope == UNCHANGED <<envelope, torn>>

SavesRanges(ok, n, c) ==
    \/ ok /\ files' = [files EXCEPT ![n] = c]
    \/ ~ok /\ MayFail /\ files' \in {files, [files EXCEPT ![n] = NoRanges]}

\* What Upsert stores for r: the registry decides the flag, and an existing
\* record lends its flag and, if r has none, its URL.
merged(r) ==
    LET i   == indexOf(recs, r.name)
        isB == lower[r.name] \in builtinNames
    IN  IF i = 0 THEN [r EXCEPT !.builtin = isB]
        ELSE [r EXCEPT !.builtin = recs[i].builtin \/ isB,
                       !.api = IF @ = NoUrl THEN recs[i].api ELSE @]

stored(r) == LET i == indexOf(recs, r.name)
             IN  IF i = 0 THEN Append(recs, merged(r)) ELSE [recs EXCEPT ![i] = merged(r)]

\* Upsert of a record with a trimmed name.  A built-in that was deleted is
\* taken out of the hidden list first; if that cannot be saved, it is left at
\* that.  Only then the record is stored and written.
Unhides(r) == lower[r.name] \in builtinNames /\ lower[r.name] \in hidden

Upserted(r, ok) ==
    LET shown == hidden \ {lower[r.name]} IN
    /\ UNCHANGED <<upstream, manifest, builtinNames, up>>
    /\ hidden' = IF Unhides(r) THEN shown ELSE hidden
    /\ failed' = (failed \/ ~ok)
    /\ \/ /\ Unhides(r) /\ ~ok
          /\ SavesEnvelope(FALSE, envelope)
          /\ UNCHANGED <<recs, files, refetched>>
       \/ /\ merged(r).builtin
          /\ recs' = stored(r)
          /\ SavesRanges(ok, r.name, r.cidrs)
          /\ refetched' = refetched \ {r.name}
          /\ IF Unhides(r) THEN SavesEnvelope(TRUE, SaveHidden(shown)) ELSE KeepsEnvelope
       \/ /\ ~merged(r).builtin
          /\ recs' = stored(r)
          /\ SavesEnvelope(ok, SaveCustoms(customsOf(stored(r))))
          /\ UNCHANGED <<files, refetched>>

\* POST /api/targets
Upsert == /\ up
          /\ \E n \in Names, c \in Lists, u \in Urls \union {NoUrl}, ok \in BOOLEAN :
               Upserted([name |-> trim[n], cidrs |-> c, api |-> u, builtin |-> FALSE], ok)
          /\ UNCHANGED <<todo, held>>

\* Faulty variant: a deleted built-in is not recorded as hidden.
deletedUnrecorded(n, ok) ==
    LET i == indexOf(recs, n) IN
    /\ i # 0
    /\ recs' = RemoveAt(recs, i)
    /\ hidden' = hidden
    /\ SavesEnvelope(ok, SaveCustoms(customsOf(RemoveAt(recs, i))))

\* Faulty variant: the name is recorded as it was spelled.
deletedAsSpelled(n, ok) ==
    LET i == indexOf(recs, n) IN
    /\ i # 0
    /\ recs' = RemoveAt(recs, i)
    /\ hidden' = IF recs[i].builtin THEN hidden \union {n} ELSE hidden
    /\ SavesEnvelope(ok, IF recs[i].builtin THEN SaveHidden(hidden')
                         ELSE SaveCustoms(customsOf(RemoveAt(recs, i))))

\* The lookup trims the name; the hidden key is taken from it as given.
deleted(n, ok) ==
    LET i == indexOf(recs, n) IN
    /\ i # 0
    /\ recs' = RemoveAt(recs, i)
    /\ \/ /\ recs[i].builtin
          /\ hidden' = hidden \union {lower[n]}
          /\ SavesEnvelope(ok, SaveHidden(hidden'))
       \/ /\ ~recs[i].builtin
          /\ hidden' = hidden
          /\ SavesEnvelope(ok, SaveCustoms(customsOf(recs')))

\* DELETE /api/targets
Delete == /\ up
          /\ \E n \in Names, ok \in BOOLEAN : /\ deleted(n, ok)
                                            /\ failed' = (failed \/ ~ok)
          /\ UNCHANGED <<upstream, manifest, builtinNames, files, refetched, up, todo, held>>

-----------------------------------------------------------------------------
(* Reloads *)

Idle(p) == todo[p] = <<>> /\ held[p] = <<>>

\* POST /api/targets/reload
ReloadOne(p) == /\ Idle(p)
                /\ \E n \in Names : todo' = [todo EXCEPT ![p] = <<n>>]
                /\ UNCHANGED <<upstream, manifest, memVars, diskVars, up, held, failed>>

\* Built-ins of the manifest m that are missing from the registry.
Missing(m) == Only(m, {n \in Names : indexOf(recs, n) = 0})

\* RestoreBuiltins, over the manifest m.  A failed write of the hidden list
\* leaves it at that.
Restored(m, ok) ==
    /\ hidden' = {}
    /\ failed' = (failed \/ ~ok)
    /\ \/ hidden # {} /\ SavesEnvelope(ok, SaveHidden({}))
       \/ hidden = {} /\ ok /\ KeepsEnvelope
    /\ \/ /\ ok
          /\ builtinNames' = builtinNames \union {lower[m[i]] : i \in DOMAIN m}
          /\ recs' = recs \o [i \in DOMAIN Missing(m) |-> Builtin(Missing(m)[i])]
          /\ refetched' = refetched \ Range(Missing(m))
       \/ ~ok /\ UNCHANGED <<recs, builtinNames, refetched>>

\* List, without the customs that have no feed: what ReloadAll goes through.
Reloadable(rs) ==
    LET all == Only(rs, Record \ Customs) \o Only(rs, {r \in Customs : r.api # NoUrl})
    IN  [i \in DOMAIN all |-> all[i].name]

\* POST /api/targets/reload-all: the manifest is fetched, or read from its
\* local copy, and installed; the built-ins are restored; the list is taken.
\* Without a manifest only the last is done.
ReloadAll(p) == /\ Idle(p)
                /\ \/ /\ manifest' \in {upstream, manifest}
                      /\ \E ok \in BOOLEAN : Restored(manifest', ok)
                   \/ UNCHANGED <<manifest, memVars, envelope, torn, refetched, failed>>
                /\ todo' = [todo EXCEPT ![p] = Reloadable(recs')]
                /\ UNCHANGED <<upstream, files, up, held>>

\* Reload, first half: Get copies the record; the fetch starts, or there is
\* nothing to fetch.
Fetch(p) ==
    /\ todo[p] # <<>> /\ held[p] = <<>>
    /\ LET i == indexOf(recs, Head(todo[p])) IN
       /\ IF i # 0 /\ recs[i].api # NoUrl
          THEN held' = [held EXCEPT ![p] = <<recs[i]>>] /\ todo' = todo
          ELSE todo' = [todo EXCEPT ![p] = Tail(@)] /\ held' = held
    /\ UNCHANGED <<upstream, manifest, memVars, diskVars, up, failed>>

\* Reload, second half: the fetched ranges, which a backup of junk entries
\* leaves empty, are upserted with the copied record.
Store(p) ==
    /\ held[p] # <<>>
    /\ \E c \in Lists, ok \in BOOLEAN :
         Upserted([Head(held[p]) EXCEPT !.cidrs = c], ok)
    /\ held' = [held EXCEPT ![p] = <<>>]
    /\ todo' = [todo EXCEPT ![p] = Tail(@)]

\* The fetch fails; ReloadAll goes on with the next target.
FetchFails(p) ==
    /\ held[p] # <<>>
    /\ held' = [held EXCEPT ![p] = <<>>]
    /\ todo' = [todo EXCEPT ![p] = Tail(@)]
    /\ UNCHANGED <<upstream, manifest, memVars, diskVars, up, failed>>

-----------------------------------------------------------------------------
\* A scan fetches the ranges of a target that has an entry in the manifest, or
\* is told to fetch them again, and writes them under the name it was given:
\* without the registry and its lock, between any two operations.  A write that
\* fails leaves the old ranges or none, which are among the Lists as well.
ScanRefreshes ==
    /\ \E n \in Scanned, c \in Lists :
         /\ lower[n] \in EntryKeys
         /\ files' = [files EXCEPT ![n] = c]
         /\ refetched' = refetched \union {n}
    /\ UNCHANGED <<upstream, manifest, memVars, envelope, torn, up, todo, held, failed>>

-----------------------------------------------------------------------------
\* The manifest gains an entry (bound: not while the files are behind).
Publish == /\ ~failed
           /\ \E n \in Upcoming : /\ ~Contains(upstream, n)
                                  /\ upstream' = Append(upstream, n)
           /\ UNCHANGED <<manifest, memVars, diskVars, up, todo, held, failed>>

\* The program stops and starts again: New loads the manifest, or its local
\* copy when the mirror is out of reach, and Open rebuilds the registry.
Restart == /\ up /\ ~torn
           /\ todo' = [p \in Reloaders |-> <<>>]
           /\ held' = [p \in Reloaders |-> <<>>]
           /\ failed' = FALSE
           /\ refetched' = {}
           /\ UNCHANGED <<upstream, files, envelope, torn, up>>
           /\ manifest' \in {upstream, manifest}
           /\ builtinNames' = {lower[manifest'[i]] : i \in DOMAIN manifest'}
           /\ hidden' = envelope.hidden
           /\ recs' = Opened(manifest')

\* The program stops and does not start again: Open cannot read custom.json.
Refuse == /\ up /\ torn
          /\ up' = FALSE
          /\ recs' = <<>> /\ builtinNames' = {} /\ hidden' = {}
          /\ todo' = [p \in Reloaders |-> <<>>]
          /\ held' = [p \in Reloaders |-> <<>>]
          /\ UNCHANGED <<upstream, manifest, diskVars, failed>>

Reloader(p) == ReloadOne(p) \/ ReloadAll(p) \/ Fetch(p) \/ Store(p) \/ FetchFails(p)

Next == \/ Upsert \/ Delete
        \/ up /\ \E p \in Reloaders : Reloader(p)
        \/ up /\ ScanRefreshes
        \/ up /\ Publish
        \/ Restart \/ Refuse

Spec == Init /\ [][Next]_vars

-----------------------------------------------------------------------------
(* Properties *)

\* Type invariant of the registry and its files.
TypeOK == /\ upstream \in Seq(Names) /\ manifest \in Seq(Names)
          /\ recs \in Seq(Record)
          /\ builtinNames \subseteq Keys /\ hidden \subseteq Keys
          /\ files \in [Names -> Lists] /\ refetched \subseteq Names
          /\ envelope \in [targets : Seq(Record), hidden : SUBSET Keys]
          /\ todo \in [Reloaders -> Seq(Names)]
          /\ held \in [Reloaders -> {<<>>} \union {<<r>> : r \in Record}]
          /\ failed \in BOOLEAN /\ torn \in BOOLEAN /\ up \in BOOLEAN

\* As long as no entry is published, a name means one target: whatever is
\* upserted, deleted, reloaded and restored, and after any restart, no two
\* records have the same name up to case.
NamesUnique ==
    Unpublished => \A i, j \in DOMAIN recs :
                       lower[recs[i].name] = lower[recs[j].name] => i = j

\* As long as no entry is published, exactly the targets the manifest names
\* are built-ins, none is listed and hidden at once, and each is listed or
\* hidden unless a write failed.
BuiltinsAccounted ==
    Unpublished =>
        /\ \A i \in DOMAIN recs : recs[i].builtin <=> lower[recs[i].name] \in EntryKeys
        /\ \A k \in EntryKeys : /\ ~(Has(recs, k) /\ k \in hidden)
                                /\ ~failed => Has(recs, k) \/ k \in hidden

\* Unless a write of the registry failed, the files say what it says, through
\* deletions, restores, scans and reloads that overlap them: custom.json is
\* readable and holds the hidden names and, as long as no entry is published,
\* the customs; neither half of it is lost when the other is saved.  The range
\* file of a built-in holds the ranges listed for it, whoever wrote it before,
\* unless a scan fetched it after the registry last wrote or read it.
FilesCurrent ==
    ~failed => /\ ~torn
               /\ envelope.hidden = hidden
               /\ Unpublished => envelope.targets = customsOf(recs)
               /\ \A i \in DOMAIN recs :
                    recs[i].builtin /\ recs[i].name \notin refetched
                      => files[recs[i].name] = recs[i].cidrs

\* A restart under the same manifest and without a failed write brings back the
\* same targets: each with the ranges that were listed for it, but a built-in a
\* scan has fetched since with what that scan wrote, which no list showed.
RangesSurviveRestart ==
    [][~failed /\ Unpublished /\ Restart =>
         /\ \A k \in Keys : Has(recs, k) <=> Has(recs', k)
         /\ \A i \in DOMAIN recs, j \in DOMAIN recs' :
              EqualFold(recs[i].name, recs'[j].name) =>
                recs'[j].cidrs = IF recs[i].builtin /\ recs[i].name \in refetched
                                 THEN files[recs[i].name] ELSE recs[i].cidrs]_vars

=============================================================================
