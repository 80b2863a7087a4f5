----------------------------- MODULE RangesProofs -----------------------------
(****************************************************************************)
(* Proofs about RangeFetch, for all answers of the servers and all options, *)
(* and about HostExpand, for all lists of prefixes and all strategies.      *)
(****************************************************************************)
EXTENDS RangeFetch, HostExpand, FiniteSetTheorems, SequenceTheorems, TLAPS

-----------------------------------------------------------------------------
(* The orders in which sources are tried. *)

Both     == <<"official", "backup">>
Reversed == <<"backup", "official">>
Plans    == {<<>>, <<"official">>, <<"backup">>, Both, Reversed}

Uses(p, src) == p \in {<<src>>, Both, Reversed}

\* What is left of an order when its head is taken.
LEMMA PlanOrders ==
    /\ \A p \in Plans : p \in Seq({"official", "backup"})
    /\ \A p \in Plans : p # <<>> => /\ Head(p) \in {"official", "backup"}
                                    /\ Uses(p, Head(p)) /\ Tail(p) \in Plans
    /\ <<"official">> # <<"backup">> /\ Both # Reversed
    /\ \A src \in {"official", "backup"} :
         /\ <<src>> # <<>> /\ <<src>> # Both /\ <<src>> # Reversed
         /\ Head(<<src>>) = src /\ Tail(<<src>>) = <<>>
    /\ Both # <<>> /\ Head(Both) = "official" /\ Tail(Both) = <<"backup">>
    /\ Reversed # <<>> /\ Head(Reversed) = "backup" /\ Tail(Reversed) = <<"official">>
<1>1. ASSUME NEW src \in {"official", "backup"}
      PROVE  /\ <<src>> # <<>> /\ Head(<<src>>) = src /\ Tail(<<src>>) = <<>>
             /\ <<src>> \in Seq({"official", "backup"})
             /\ <<src>> # Both /\ <<src>> # Reversed
  BY DEF Both, Reversed
<1>2. /\ Both # <<>> /\ Head(Both) = "official" /\ Tail(Both) = <<"backup">>
      /\ Both \in Seq({"official", "backup"})
  BY DEF Both
<1>3. /\ Reversed # <<>> /\ Head(Reversed) = "backup" /\ Tail(Reversed) = <<"official">>
      /\ Reversed \in Seq({"official", "backup"})
  BY DEF Reversed
<1>4. <<"official">> # <<"backup">> /\ Both # Reversed
  BY DEF Both, Reversed
<1>5. \A p \in Plans : p # <<>> => /\ Head(p) \in {"official", "backup"}
                                   /\ Uses(p, Head(p)) /\ Tail(p) \in Plans
  BY <1>1, <1>2, <1>3 DEF Plans, Uses
<1>6. \A p \in Plans : p \in Seq({"official", "backup"})
  BY <1>1, <1>2, <1>3, EmptySeq DEF Plans
<1> QED
  BY <1>1, <1>2, <1>3, <1>4, <1>5, <1>6

\* FetchRanges tries the sources in one of these orders, the mirrors only if
\* they are allowed, the provider only if the entry is not a manual one.
LEMMA SourcesOf ==
    ASSUME NEW w \in Wants
    PROVE  /\ sources(w) \in Plans
           /\ Uses(sources(w), "backup") <=> (~w.NoBackup /\ w.parser # "own")
           /\ Uses(sources(w), "official") <=> w.parser # "manual"
           /\ sources(w) = Reversed => w.PreferBackup
           /\ sources(w) = Both => ~w.PreferBackup
<1>1. CASE w.parser = "own"
  <2>1. sources(w) = <<"official">>
    BY <1>1 DEF sources
  <2> QED
    BY <1>1, <2>1, PlanOrders DEF Plans, Uses
<1>2. CASE w.parser = "manual"
  <2>1. sources(w) = IF w.NoBackup THEN <<>> ELSE <<"backup">>
    BY <1>2 DEF sources
  <2> QED
    BY <1>2, <2>1, PlanOrders DEF Plans, Uses
<1>3. CASE w.parser # "own" /\ w.parser # "manual"
  <2>1. sources(w) = IF w.NoBackup THEN <<"official">>
                     ELSE IF w.PreferBackup THEN Reversed ELSE Both
    BY <1>3 DEF sources, Both, Reversed
  <2> QED
    BY <1>3, <2>1, PlanOrders DEF Plans, Uses
<1> QED
  BY <1>1, <1>2, <1>3

Parsed(w) == w.parser \in {"scrape", "aws", "own"}

\* The URLs of a source.
LEMMA UrlOrders ==
    ASSUME NEW w \in Wants
    PROVE  /\ UrlsOf("backup", w) = <<"raw", "cdn">>
           /\ TwoFeeds(w) => UrlsOf("official", w) = <<"api", "api6">>
           /\ Parsed(w) /\ ~TwoFeeds(w) => UrlsOf("official", w) = <<"api">>
           /\ ~Parsed(w) => UrlsOf("official", w) = <<>>
<1>1. UrlsOf("backup", w) = <<"raw", "cdn">>
  BY DEF UrlsOf
<1>2. UrlsOf("official", w) = CASE TwoFeeds(w) -> <<"api", "api6">>
                                [] OneFeed(w) \/ w.parser = "aws" -> <<"api">>
                                [] OTHER -> <<>>
  BY DEF UrlsOf
<1>3. TwoFeeds(w) => ~(OneFeed(w) \/ w.parser = "aws")
  BY DEF TwoFeeds, OneFeed
<1>4. Parsed(w) /\ ~TwoFeeds(w) => OneFeed(w) \/ w.parser = "aws"
  BY DEF OneFeed, Parsed
<1>5. ~Parsed(w) => ~TwoFeeds(w) /\ ~(OneFeed(w) \/ w.parser = "aws")
  BY DEF TwoFeeds, OneFeed, Parsed
<1> QED
  BY <1>1, <1>2, <1>3, <1>4, <1>5

-----------------------------------------------------------------------------
(* The inductive invariant: what each source has been asked, and with what    *)
(* outcome, at every point of the search.                                     *)

MirrorsSilent == ~Asked("raw") /\ ~Asked("cdn")
MirrorsGoing  == /\ Asked("raw") <=> at # 1
                 /\ Asked("cdn") <=> at = 3
                 /\ Asked("raw") => fromBackup(replies["raw"]) = {}
                 /\ Asked("cdn") => fromBackup(replies["cdn"]) = {}
MirrorsTried  == /\ Asked("raw") /\ fromBackup(replies["raw"]) = {}
                 /\ Asked("cdn") /\ fromBackup(replies["cdn"]) = {}

ProviderSilent == ~Asked("api") /\ ~Asked("api6")
ProviderGoing  == /\ Asked("api") <=> at # 1
                  /\ Asked("api6") <=> at = 3
                  /\ at # 1 => Parsed(want)
                  /\ at = 3 => TwoFeeds(want)
ProviderAsked  == (Asked("api") <=> Parsed(want)) /\ (Asked("api6") <=> TwoFeeds(want))
ProviderTried  == ProviderAsked /\ fromOfficial(want, replies) = {}

\* A source is passed over, exhausted, being asked, or still to come.
Mirrors  == IF ~Uses(sources(want), "backup") THEN MirrorsSilent
            ELSE IF ~Uses(plan, "backup") THEN MirrorsTried
            ELSE IF Head(plan) = "backup" THEN MirrorsGoing ELSE MirrorsSilent
Provider == IF ~Uses(sources(want), "official") THEN ProviderSilent
            ELSE IF ~Uses(plan, "official") THEN ProviderTried
            ELSE IF Head(plan) = "official" THEN ProviderGoing ELSE ProviderSilent

\* What is left of the plan is an end of the order the options give.
Remains == \/ plan = sources(want)
           \/ plan = <<>>
           \/ plan = Tail(sources(want)) /\ sources(want) \in {Both, Reversed}

Searching == source = "none" /\ status # "idle" => Mirrors /\ Provider /\ Remains

ProviderFound == source = "official" =>
    /\ Uses(sources(want), "official") /\ ProviderAsked
    /\ fromOfficial(want, replies) # {}
    /\ result \in {fromOfficial(want, replies), kept(fromOfficial(want, replies))}
    /\ IF sources(want) = Reversed THEN MirrorsTried ELSE MirrorsSilent

MirrorFound == source \in {"raw", "cdn"} =>
    /\ Uses(sources(want), "backup") /\ Asked("raw")
    /\ source = "raw" => fromBackup(replies["raw"]) # {} /\ ~Asked("cdn")
    /\ source = "cdn" => /\ fromBackup(replies["raw"]) = {}
                         /\ Asked("cdn") /\ fromBackup(replies["cdn"]) # {}
    /\ IF sources(want) = Both THEN ProviderTried ELSE ProviderSilent

CacheServed == source = "cache" =>
    ~want.force /\ result # {} /\ status = "done" /\ MirrorsSilent /\ ProviderSilent

Phase == /\ plan \in Plans
         /\ plan # <<>> => status = "fetching" /\ source = "none"
         /\ status = "idle" => source = "none" /\ MirrorsSilent /\ ProviderSilent
         /\ status = "done" => source # "none"

IInv == TypeOK /\ Phase /\ Searching /\ ProviderFound /\ MirrorFound /\ CacheServed

-----------------------------------------------------------------------------
(* What a body yields. *)

LEMMA Yields ==
    ASSUME NEW b \in Bodies \union {Down}
    PROVE  /\ fromBackup(b) \subseteq Cidrs /\ fromFeed(b) \subseteq Usable
           /\ fromAWS(b) \subseteq Cidrs /\ b # Unasked
           /\ fromFeed(b) # {} <=> b \in Bodies /\ b.cidrs \intersect Usable # {}
           /\ fromAWS(b) # {} <=> b \in Bodies /\ b.shape = "aws" /\ b.cidrs # {}
           /\ fromBackup(b) # {} <=>
                b \in Bodies /\ \/ b.shape = "rangefile" /\ b.cidrs # {}
                                \/ b.cidrs \intersect Usable # {}
<1>1. b # Unasked
  BY FetchAssumption
<1>2. CASE b = Down
  BY <1>1, <1>2, FetchAssumption DEF fromBackup, fromFeed, fromAWS
<1>3. CASE b \in Bodies
  <2>1. b # Down /\ b.cidrs \subseteq Cidrs
    BY <1>3, FetchAssumption
  <2>2. Usable \subseteq Cidrs
    BY DEF Cidrs
  <2> QED
    BY <1>1, <1>3, <2>1, <2>2 DEF fromBackup, fromFeed, fromAWS, scraped
<1> QED
  BY <1>2, <1>3

LEMMA UsableKept ==
    ASSUME NEW list
    PROVE  /\ list \subseteq Cidrs => kept(list) \subseteq Cidrs
           /\ list \intersect Usable \subseteq kept(list)
BY FetchAssumption DEF kept, Filter, Cidrs

\* The provider's ranges are found exactly if one of its feeds is good.
LEMMA OfficialIsGood ==
    ASSUME TypeOK, ProviderAsked
    PROVE  /\ fromOfficial(want, replies) \subseteq Cidrs
           /\ Parsed(want) => (fromOfficial(want, replies) # {} <=> GoodOfficial)
           /\ fromOfficial(want, replies) # {} => Parsed(want)
<1>1. replies \in [Urls -> Answers]
  BY DEF TypeOK
<1>2. ASSUME NEW u \in Urls, Asked(u)
      PROVE  replies[u] \in Bodies \union {Down}
  BY <1>1, <1>2 DEF Asked, Answers
<1>3. ASSUME NEW u \in Urls, ~Asked(u)
      PROVE  ~GoodFeed(u)
  BY <1>3, FetchAssumption DEF Asked, GoodFeed
<1>4. ASSUME NEW u \in Urls, Asked(u)
      PROVE  GoodFeed(u) <=> fromFeed(replies[u]) # {}
  BY <1>2, <1>4, Yields DEF GoodFeed
<1>5. "api" \in Urls /\ "api6" \in Urls
  BY DEF Urls
<1>6. CASE want.parser = "aws"
  <2>1. Asked("api")
    BY <1>6 DEF ProviderAsked, Parsed
  <2>2. fromOfficial(want, replies) = fromAWS(replies["api"])
    BY <1>6 DEF fromOfficial, TwoFeeds, OneFeed
  <2>3. replies["api"] \in Bodies \union {Down}
    BY <1>2, <1>5, <2>1
  <2> QED
    BY <1>6, <2>2, <2>3, Yields DEF GoodOfficial, Parsed
<1>7. CASE TwoFeeds(want)
  <2>1. Asked("api") /\ Asked("api6") /\ want.parser = "scrape" /\ Parsed(want)
    BY <1>7 DEF ProviderAsked, Parsed, TwoFeeds
  <2>2. fromOfficial(want, replies) = fromFeed(replies["api"]) \union fromFeed(replies["api6"])
    BY <1>7, <2>1 DEF fromOfficial, TwoFeeds, OneFeed
  <2>3. /\ fromFeed(replies["api"]) \subseteq Usable /\ fromFeed(replies["api6"]) \subseteq Usable
        /\ GoodFeed("api") <=> fromFeed(replies["api"]) # {}
        /\ GoodFeed("api6") <=> fromFeed(replies["api6"]) # {}
    BY <1>2, <1>4, <1>5, <2>1, Yields
  <2> QED
    BY <2>1, <2>2, <2>3 DEF GoodOfficial, Cidrs
<1>8. CASE OneFeed(want)
  <2>1. Asked("api") /\ ~Asked("api6") /\ want.parser # "aws" /\ Parsed(want)
    BY <1>8 DEF ProviderAsked, Parsed, TwoFeeds, OneFeed
  <2>2. fromOfficial(want, replies) = fromFeed(replies["api"])
    BY <1>8, <2>1 DEF fromOfficial, TwoFeeds, OneFeed
  <2>3. /\ fromFeed(replies["api"]) \subseteq Usable /\ ~GoodFeed("api6")
        /\ GoodFeed("api") <=> fromFeed(replies["api"]) # {}
    BY <1>2, <1>3, <1>4, <1>5, <2>1, Yields
  <2> QED
    BY <2>1, <2>2, <2>3 DEF GoodOfficial, Cidrs
<1>9. CASE ~(want.parser = "aws" \/ TwoFeeds(want) \/ OneFeed(want))
  <2>1. fromOfficial(want, replies) = {} /\ ~Parsed(want)
    BY <1>9 DEF fromOfficial, TwoFeeds, OneFeed, Parsed
  <2> QED
    BY <2>1
<1> QED
  BY <1>6, <1>7, <1>8, <1>9

LEMMA MirrorIsGood ==
    ASSUME TypeOK, NEW u \in {"raw", "cdn"}, Asked(u)
    PROVE  /\ fromBackup(replies[u]) # {} <=> GoodMirror(u)
           /\ fromBackup(replies[u]) \subseteq Cidrs
<1>1. replies[u] \in Bodies \union {Down}
  BY DEF TypeOK, Asked, Answers, Urls
<1> QED
  BY <1>1, Yields DEF GoodMirror

-----------------------------------------------------------------------------
LEMMA InitIInv == Init => IInv
<1> SUFFICES ASSUME Init PROVE IInv
  OBVIOUS
<1>1. ~Asked("api") /\ ~Asked("api6") /\ ~Asked("raw") /\ ~Asked("cdn")
  BY DEF Init, Asked, Urls
<1>2. TypeOK
  <2>1. plan \in Seq({"official", "backup"})
    BY EmptySeq DEF Init
  <2> QED
    BY <2>1 DEF Init, TypeOK, Answers
<1> QED
  BY <1>1, <1>2 DEF Init, IInv, Phase, Plans, Searching, ProviderFound, MirrorFound, CacheServed,
                    MirrorsSilent, ProviderSilent

\* While a source is asked, what remains of the order tells what became of the
\* other one.
LEMMA Order ==
    ASSUME IInv, NEW src \in {"official", "backup"}, Asking(src)
    PROVE  /\ want \in Wants /\ status = "fetching" /\ source = "none" /\ Head(plan) = src
           /\ Mirrors /\ Provider /\ Tail(plan) \in Plans
           /\ \/ plan = <<src>> /\ sources(want) = <<src>>
              \/ plan = <<"official">> /\ src = "official" /\ sources(want) = Reversed
              \/ plan = Both /\ src = "official" /\ sources(want) = Both
              \/ plan = <<"backup">> /\ src = "backup" /\ sources(want) = Both
              \/ plan = Reversed /\ src = "backup" /\ sources(want) = Reversed
<1>1. /\ want \in Wants /\ status = "fetching" /\ plan # <<>> /\ Head(plan) = src
      /\ plan \in Plans /\ source = "none"
  BY DEF IInv, TypeOK, Asking, Phase
<1>2. Mirrors /\ Provider /\ Remains
  BY <1>1 DEF IInv, Searching
<1>3. sources(want) \in Plans
  BY <1>1, SourcesOf
<1>4. plan \in {<<"official">>, <<"backup">>, Both, Reversed}
  BY <1>1 DEF Plans
<1>5. Tail(plan) \in Plans
  BY <1>1, PlanOrders
<1>6. CASE plan = sources(want)
  <2>1. CASE plan \in {<<"official">>, <<"backup">>}
    BY <1>1, <1>2, <1>5, <1>6, <2>1, PlanOrders
  <2>2. CASE plan \in {Both, Reversed}
    BY <1>1, <1>2, <1>5, <1>6, <2>2, PlanOrders
  <2> QED
    BY <1>4, <2>1, <2>2
<1>7. CASE plan = Tail(sources(want)) /\ sources(want) \in {Both, Reversed}
  <2>1. CASE sources(want) = Both
    BY <1>1, <1>2, <1>5, <1>7, <2>1, PlanOrders
  <2>2. CASE sources(want) = Reversed
    BY <1>1, <1>2, <1>5, <1>7, <2>2, PlanOrders
  <2> QED
    BY <1>7, <2>1, <2>2
<1> QED
  BY <1>1, <1>2, <1>6, <1>7 DEF Remains

\* The URL that is asked next, and what was asked when none is left.
LEMMA MirrorAsked ==
    ASSUME IInv, Asking("backup")
    PROVE  /\ MirrorsGoing
           /\ Left => \/ at = 1 /\ NextUrl = "raw"
                      \/ at = 2 /\ NextUrl = "cdn"
           /\ ~Left => at = 3
<1>1. /\ want \in Wants /\ Head(plan) = "backup" /\ Mirrors
      /\ plan \in {<<"backup">>, Reversed} /\ sources(want) \in {<<"backup">>, Both, Reversed}
  BY Order, PlanOrders
<1>2. MirrorsGoing
  BY <1>1, PlanOrders DEF Mirrors, Uses
<1>3. UrlsOf("backup", want) = <<"raw", "cdn">>
  BY <1>1, UrlOrders
<1>4. at \in 1..3
  BY DEF IInv, TypeOK
<1>5. /\ Len(<<"raw", "cdn">>) = 2
      /\ <<"raw", "cdn">>[1] = "raw" /\ <<"raw", "cdn">>[2] = "cdn"
  OBVIOUS
<1>6. (Left <=> at <= 2) /\ NextUrl = <<"raw", "cdn">>[at]
  BY <1>1, <1>3, <1>5 DEF Left, NextUrl
<1>7. at = 1 \/ at = 2 \/ at = 3
  BY <1>4
<1>8. (at = 1 => NextUrl = "raw") /\ (at = 2 => NextUrl = "cdn")
  BY <1>5, <1>6
<1>9. (Left => at = 1 \/ at = 2) /\ (~Left => at = 3)
  BY <1>6, <1>7
<1> QED
  BY <1>2, <1>8, <1>9

LEMMA FeedAsked ==
    ASSUME IInv, Asking("official")
    PROVE  /\ ProviderGoing
           /\ Left => \/ at = 1 /\ NextUrl = "api" /\ Parsed(want)
                      \/ at = 2 /\ NextUrl = "api6" /\ TwoFeeds(want)
           /\ ~Left => ProviderAsked
<1>1. /\ want \in Wants /\ Head(plan) = "official" /\ Provider
      /\ plan \in {<<"official">>, Both} /\ sources(want) \in {<<"official">>, Both, Reversed}
  BY Order, PlanOrders
<1>2. ProviderGoing
  BY <1>1, PlanOrders DEF Provider, Uses
<1>3. at \in 1..3
  BY DEF IInv, TypeOK
<1>4. CASE TwoFeeds(want)
  <2>1. UrlsOf("official", want) = <<"api", "api6">> /\ Parsed(want)
    BY <1>1, <1>4, UrlOrders DEF TwoFeeds, Parsed
  <2>2. /\ Len(<<"api", "api6">>) = 2
        /\ <<"api", "api6">>[1] = "api" /\ <<"api", "api6">>[2] = "api6"
    OBVIOUS
  <2>3. (Left <=> at <= 2) /\ NextUrl = <<"api", "api6">>[at]
    BY <1>1, <2>1, <2>2 DEF Left, NextUrl
  <2>4. at = 1 \/ at = 2 \/ at = 3
    BY <1>3
  <2>5. (at = 1 => NextUrl = "api") /\ (at = 2 => NextUrl = "api6")
    BY <2>2, <2>3
  <2>6. (Left => at = 1 \/ at = 2) /\ (~Left => at = 3)
    BY <2>3, <2>4
  <2>7. at = 3 => ProviderAsked
    BY <1>2, <1>4, <2>1 DEF ProviderGoing, ProviderAsked
  <2> QED
    BY <1>2, <1>4, <2>1, <2>5, <2>6, <2>7
<1>5. CASE ~TwoFeeds(want) /\ Parsed(want)
  <2>1. UrlsOf("official", want) = <<"api">>
    BY <1>1, <1>5, UrlOrders
  <2>2. Len(<<"api">>) = 1 /\ <<"api">>[1] = "api"
    OBVIOUS
  <2>3. (Left <=> at <= 1) /\ NextUrl = <<"api">>[at]
    BY <1>1, <2>1, <2>2 DEF Left, NextUrl
  <2>4. at = 1 => NextUrl = "api"
    BY <2>2, <2>3
  <2>5. (Left => at = 1) /\ (~Left => at # 1)
    BY <1>3, <2>3
  <2> QED
    BY <1>2, <1>5, <2>4, <2>5 DEF ProviderGoing, ProviderAsked
<1>6. CASE ~Parsed(want)
  <2>1. UrlsOf("official", want) = <<>> /\ ~TwoFeeds(want)
    BY <1>1, <1>6, UrlOrders DEF TwoFeeds, Parsed
  <2>2. Len(<<>>) = 0
    BY EmptySeq
  <2>3. ~Left
    BY <1>1, <1>3, <2>1, <2>2 DEF Left
  <2> QED
    BY <1>2, <1>6, <2>1, <2>3 DEF ProviderGoing, ProviderAsked
<1> QED
  BY <1>4, <1>5, <1>6

\* One more answer, and what it leaves alone.
LEMMA Answered ==
    ASSUME TypeOK, NEW b \in Bodies \union {Down}, NEW u \in Urls,
           replies' = [replies EXCEPT ![u] = b]
    PROVE  /\ replies' \in [Urls -> Answers]
           /\ replies'[u] = b /\ Asked(u)'
           /\ \A v \in Urls \ {u} : replies'[v] = replies[v] /\ (Asked(v)' <=> Asked(v))
<1>1. replies \in [Urls -> Answers] /\ b # Unasked
  BY FetchAssumption DEF TypeOK
<1> QED
  BY <1>1 DEF Asked, Answers

-----------------------------------------------------------------------------
(* The steps. *)

LEMMA StartStep == IInv /\ Start => IInv'
<1> SUFFICES ASSUME IInv, Start PROVE IInv'
  OBVIOUS
<1>1. /\ want' \in Wants /\ replies' = [u \in Urls |-> Unasked] /\ at' = 1
      /\ UNCHANGED <<file, published>>
  BY DEF Start
<1>2. MirrorsSilent' /\ ProviderSilent'
  BY <1>1 DEF MirrorsSilent, ProviderSilent, Asked, Urls
<1>3. \A f \in {file, published} : f = NoFile \/ f \subseteq Cidrs
  BY DEF IInv, TypeOK
<1>4. CASE Cached(want')
  <2>1. /\ status' = "done" /\ result' = file /\ source' = "cache" /\ plan' = <<>>
        /\ ~want'.force /\ file # NoFile /\ file # {}
    BY <1>4 DEF Start, Cached
  <2>2. TypeOK'
    <3>1. plan' \in Seq({"official", "backup"})
      BY <2>1, EmptySeq
    <3>2. replies' \in [Urls -> Answers]
      BY <1>1 DEF Answers
    <3> QED
      BY <1>1, <1>3, <2>1, <3>1, <3>2 DEF TypeOK
  <2>3. Phase' /\ Searching' /\ ProviderFound' /\ MirrorFound' /\ CacheServed'
    BY <1>2, <2>1 DEF Phase, Plans, Searching, ProviderFound, MirrorFound, CacheServed
  <2> QED
    BY <2>2, <2>3 DEF IInv
<1>5. CASE ~Cached(want')
  <2>1. /\ status' = "fetching" /\ result' = {} /\ source' = "none"
        /\ plan' = sources(want')
    BY <1>5 DEF Start
  <2>2. plan' \in Plans
    BY <1>1, <2>1, SourcesOf
  <2>3. TypeOK'
    <3>1. plan' \in Seq({"official", "backup"})
      BY <2>2, PlanOrders
    <3>2. replies' \in [Urls -> Answers]
      BY <1>1 DEF Answers
    <3> QED
      BY <1>1, <1>3, <2>1, <3>1, <3>2 DEF TypeOK
  <2>4. MirrorsGoing' /\ ProviderGoing'
    BY <1>1, <1>2 DEF MirrorsGoing, ProviderGoing, MirrorsSilent, ProviderSilent
  <2>5. Mirrors' /\ Provider' /\ Remains'
    BY <1>2, <2>1, <2>4 DEF Mirrors, Provider, Remains
  <2>6. Phase' /\ Searching' /\ ProviderFound' /\ MirrorFound' /\ CacheServed'
    BY <1>2, <2>1, <2>2, <2>5 DEF Phase, Searching, ProviderFound, MirrorFound, CacheServed
  <2> QED
    BY <2>3, <2>6 DEF IInv
<1> QED
  BY <1>4, <1>5

LEMMA AskOfficialStep == IInv /\ AskOfficial => IInv'
<1> SUFFICES ASSUME IInv, AskOfficial PROVE IInv'
  OBVIOUS
<1>1. PICK b \in Bodies \union {Down} : Answer(b)
  BY DEF AskOfficial
<1>2. /\ Asking("official") /\ Left /\ TypeOK
      /\ UNCHANGED <<want, plan, result, source, file, published, status>>
  BY DEF AskOfficial, IInv
<1>3. /\ want \in Wants /\ status = "fetching" /\ source = "none" /\ Head(plan) = "official"
      /\ Mirrors /\ Provider /\ plan \in {<<"official">>, Both}
      /\ sources(want) \in {<<"official">>, Both, Reversed}
  BY <1>2, Order, PlanOrders
<1>4. \/ at = 1 /\ NextUrl = "api" /\ Parsed(want)
      \/ at = 2 /\ NextUrl = "api6" /\ TwoFeeds(want)
  BY <1>2, FeedAsked
<1>5. PICK u \in Urls : u = NextUrl /\ replies' = [replies EXCEPT ![u] = b]
  BY <1>1, <1>4 DEF Answer, Urls
<1>6. /\ replies' \in [Urls -> Answers] /\ Asked(u)'
      /\ \A v \in Urls \ {u} : replies'[v] = replies[v] /\ (Asked(v)' <=> Asked(v))
  BY <1>2, <1>5, Answered
<1>6a. (at = 1 => at' = 2) /\ (at = 2 => at' = 3)
  BY <1>1 DEF Answer
<1>7. TypeOK'
  <2>1. at' \in 1..3
    BY <1>4, <1>6a
  <2> QED
    BY <1>2, <1>6, <2>1 DEF TypeOK
<1>8. ProviderGoing'
  <2>1. ProviderGoing
    BY <1>2, FeedAsked
  <2>2. CASE at = 1 /\ NextUrl = "api" /\ Parsed(want)
    <3>1. at' = 2 /\ Asked("api")' /\ (Asked("api6")' <=> Asked("api6"))
      BY <1>5, <1>6, <1>6a, <2>2 DEF Urls
    <3> QED
      BY <1>2, <2>1, <2>2, <3>1 DEF ProviderGoing
  <2>3. CASE at = 2 /\ NextUrl = "api6" /\ TwoFeeds(want)
    <3>1. at' = 3 /\ Asked("api6")' /\ (Asked("api")' <=> Asked("api"))
      BY <1>5, <1>6, <1>6a, <2>3 DEF Urls
    <3> QED
      BY <1>2, <2>1, <2>3, <3>1 DEF ProviderGoing
  <2> QED
    BY <1>4, <2>2, <2>3
<1>9. /\ replies'["raw"] = replies["raw"] /\ replies'["cdn"] = replies["cdn"]
      /\ Asked("raw")' <=> Asked("raw")
      /\ Asked("cdn")' <=> Asked("cdn")
  BY <1>4, <1>5, <1>6 DEF Urls
<1>10. Mirrors'
  BY <1>2, <1>3, <1>9 DEF Mirrors, MirrorsSilent, MirrorsTried
<1>11. Provider'
  BY <1>2, <1>3, <1>8, PlanOrders DEF Provider, Uses
<1>12. Remains' /\ Phase'
  BY <1>2, <1>3 DEF IInv, Searching, Remains, Phase
<1> QED
  BY <1>2, <1>3, <1>7, <1>10, <1>11, <1>12
     DEF IInv, Searching, ProviderFound, MirrorFound, CacheServed

LEMMA AskBackupStep == IInv /\ AskBackup => IInv'
<1> SUFFICES ASSUME IInv, AskBackup PROVE IInv'
  OBVIOUS
<1>1. PICK b \in Bodies \union {Down} :
        /\ Answer(b)
        /\ IF fromBackup(b) # {} THEN Found(fromBackup(b), NextUrl)
           ELSE UNCHANGED <<plan, result, source>>
  BY DEF AskBackup
<1>2. /\ Asking("backup") /\ Left /\ TypeOK
      /\ UNCHANGED <<want, file, published, status>>
  BY DEF AskBackup, IInv
<1>3. /\ want \in Wants /\ status = "fetching" /\ source = "none" /\ Head(plan) = "backup"
      /\ Mirrors /\ Provider /\ plan \in {<<"backup">>, Reversed}
      /\ \/ plan = <<"backup">> /\ sources(want) \in {<<"backup">>, Both}
         \/ plan = Reversed /\ sources(want) = Reversed
  BY <1>2, Order, PlanOrders
<1>4. \/ at = 1 /\ NextUrl = "raw"
      \/ at = 2 /\ NextUrl = "cdn"
  BY <1>2, MirrorAsked
<1>5. PICK u \in Urls : u = NextUrl /\ replies' = [replies EXCEPT ![u] = b]
  BY <1>1, <1>4 DEF Answer, Urls
<1>6. /\ replies' \in [Urls -> Answers] /\ Asked(u)' /\ replies'[u] = b
      /\ \A v \in Urls \ {u} : replies'[v] = replies[v] /\ (Asked(v)' <=> Asked(v))
  BY <1>2, <1>5, Answered
<1>7. /\ replies'["api"] = replies["api"] /\ replies'["api6"] = replies["api6"]
      /\ Asked("api")' <=> Asked("api")
      /\ Asked("api6")' <=> Asked("api6")
  BY <1>4, <1>5, <1>6 DEF Urls
<1>8. fromOfficial(want, replies)' = fromOfficial(want, replies)
  BY <1>2, <1>7 DEF fromOfficial
<1>9. /\ ProviderTried' <=> ProviderTried
      /\ ProviderSilent' <=> ProviderSilent
  BY <1>2, <1>7, <1>8 DEF ProviderTried, ProviderSilent, ProviderAsked
<1>10. MirrorsGoing
  BY <1>2, MirrorAsked
<1>10a. (at = 1 => at' = 2) /\ (at = 2 => at' = 3)
  BY <1>1 DEF Answer
<1>11. at' \in 1..3
  BY <1>4, <1>10a
<1>12. CASE fromBackup(b) # {}
  <2>1. result' = fromBackup(b) /\ source' = NextUrl /\ plan' = <<>> /\ source' \in {"raw", "cdn"}
    BY <1>1, <1>4, <1>12 DEF Found
  <2>2. TypeOK'
    <3>1. plan' \in Seq({"official", "backup"})
      BY <2>1, EmptySeq
    <3> QED
      BY <1>2, <1>6, <1>11, <2>1, <3>1, Yields DEF TypeOK
  <2>3. Phase' /\ Searching' /\ ProviderFound' /\ CacheServed'
    BY <1>2, <1>3, <2>1 DEF Phase, Plans, Searching, ProviderFound, CacheServed
  <2>4. IF sources(want) = Both THEN ProviderTried ELSE ProviderSilent
    <3>1. CASE plan = <<"backup">> /\ sources(want) \in {<<"backup">>, Both}
      BY <1>3, <3>1, PlanOrders DEF Provider, Uses
    <3>2. CASE plan = Reversed /\ sources(want) = Reversed
      BY <1>3, <3>2, PlanOrders DEF Provider, Uses
    <3> QED
      BY <1>3, <3>1, <3>2
  <2>5. Asked("raw")' /\ (source' = "raw" => fromBackup(replies["raw"])' # {} /\ ~Asked("cdn")')
    BY <1>4, <1>5, <1>6, <1>10, <1>12, <2>1 DEF MirrorsGoing, Urls
  <2>6. source' = "cdn" => /\ fromBackup(replies["raw"])' = {}
                           /\ Asked("cdn")' /\ fromBackup(replies["cdn"])' # {}
    BY <1>4, <1>5, <1>6, <1>10, <1>12, <2>1 DEF MirrorsGoing, Urls
  <2>7. Uses(sources(want), "backup")
    BY <1>3 DEF Uses
  <2>8. MirrorFound'
    BY <1>2, <1>9, <2>4, <2>5, <2>6, <2>7 DEF MirrorFound
  <2> QED
    BY <2>2, <2>3, <2>8 DEF IInv
<1>13. CASE fromBackup(b) = {}
  <2>1. UNCHANGED <<plan, result, source>>
    BY <1>1, <1>13
  <2>2. TypeOK'
    BY <1>2, <1>6, <1>11, <2>1 DEF TypeOK
  <2>3. MirrorsGoing'
    <3>1. CASE at = 1 /\ NextUrl = "raw"
      <4>1. at' = 2 /\ Asked("raw")' /\ (Asked("cdn")' <=> Asked("cdn"))
        BY <1>5, <1>6, <1>10a, <3>1 DEF Urls
      <4> QED
        BY <1>5, <1>6, <1>10, <1>13, <3>1, <4>1 DEF MirrorsGoing
    <3>2. CASE at = 2 /\ NextUrl = "cdn"
      <4>1. at' = 3 /\ Asked("cdn")' /\ (Asked("raw")' <=> Asked("raw"))
            /\ replies'["raw"] = replies["raw"]
        BY <1>5, <1>6, <1>10a, <3>2 DEF Urls
      <4> QED
        BY <1>5, <1>6, <1>10, <1>13, <3>2, <4>1 DEF MirrorsGoing
    <3> QED
      BY <1>4, <3>1, <3>2
  <2>4. Mirrors'
    BY <1>2, <1>3, <2>1, <2>3, PlanOrders DEF Mirrors, Uses
  <2>5. Provider'
    BY <1>2, <1>3, <1>9, <2>1 DEF Provider
  <2>6. Remains' /\ Phase'
    BY <1>2, <1>3, <2>1 DEF IInv, Searching, Remains, Phase
  <2> QED
    BY <1>2, <1>3, <2>1, <2>2, <2>4, <2>5, <2>6
       DEF IInv, Searching, ProviderFound, MirrorFound, CacheServed
<1> QED
  BY <1>12, <1>13

LEMMA ParseOfficialStep == IInv /\ ParseOfficial => IInv'
<1> SUFFICES ASSUME IInv, ParseOfficial PROVE IInv'
  OBVIOUS
<1>1. /\ Asking("official") /\ ~Left /\ TypeOK /\ at' = 1
      /\ UNCHANGED <<want, replies, file, published, status>>
  BY DEF ParseOfficial, IInv
<1>2. /\ want \in Wants /\ status = "fetching" /\ source = "none" /\ Head(plan) = "official"
      /\ Mirrors /\ Provider /\ Tail(plan) \in Plans
      /\ \/ plan = <<"official">> /\ sources(want) \in {<<"official">>, Reversed}
         \/ plan = Both /\ sources(want) = Both
  BY <1>1, Order, PlanOrders
<1>3. ProviderAsked
  BY <1>1, FeedAsked
<1>4. IF sources(want) = Reversed THEN MirrorsTried ELSE MirrorsSilent
  <2>1. CASE plan = <<"official">> /\ sources(want) \in {<<"official">>, Reversed}
    BY <1>2, <2>1, PlanOrders DEF Mirrors, Uses
  <2>2. CASE plan = Both /\ sources(want) = Both
    BY <1>2, <2>2, PlanOrders DEF Mirrors, Uses
  <2> QED
    BY <1>2, <2>1, <2>2
<1>5. UNCHANGED <<MirrorsTried, MirrorsSilent, ProviderAsked, fromOfficial(want, replies)>>
  BY <1>1 DEF MirrorsTried, MirrorsSilent, ProviderAsked, Asked
<1>6. Uses(sources(want), "official")
  BY <1>2 DEF Uses
<1>7. CASE fromOfficial(want, replies) # {}
  <2>1. result' = fromOfficial(want, replies) /\ source' = "official" /\ plan' = <<>>
    BY <1>7 DEF ParseOfficial, Found
  <2>2. TypeOK'
    <3>1. plan' \in Seq({"official", "backup"})
      BY <2>1, EmptySeq
    <3> QED
      BY <1>1, <1>3, <2>1, <3>1, OfficialIsGood DEF TypeOK
  <2>3. Phase' /\ Searching' /\ MirrorFound' /\ CacheServed'
    BY <1>1, <1>2, <2>1 DEF Phase, Plans, Searching, MirrorFound, CacheServed
  <2>4. ProviderFound'
    BY <1>1, <1>3, <1>4, <1>5, <1>6, <1>7, <2>1 DEF ProviderFound
  <2> QED
    BY <2>2, <2>3, <2>4 DEF IInv
<1>8. CASE fromOfficial(want, replies) = {}
  <2>1. plan' = Tail(plan) /\ UNCHANGED <<result, source>>
    BY <1>8 DEF ParseOfficial, NotFound
  <2>2. \/ plan' = <<>> /\ sources(want) \in {<<"official">>, Reversed}
        \/ plan' = <<"backup">> /\ sources(want) = Both
    BY <1>2, <2>1, PlanOrders
  <2>3. TypeOK'
    <3>1. plan' \in Seq({"official", "backup"})
      BY <1>2, <2>1, PlanOrders
    <3> QED
      BY <1>1, <2>1, <3>1 DEF TypeOK
  <2>4. ProviderTried'
    BY <1>3, <1>5, <1>8 DEF ProviderTried
  <2>5. ~Uses(plan', "official")
    BY <2>2, PlanOrders DEF Uses
  <2>6. Provider'
    BY <1>1, <1>6, <2>4, <2>5 DEF Provider
  <2>7. MirrorsSilent' => MirrorsGoing'
    BY <1>1 DEF MirrorsSilent, MirrorsGoing
  <2>8. Mirrors'
    <3>1. CASE plan' = <<>> /\ sources(want) \in {<<"official">>, Reversed}
      BY <1>1, <1>4, <1>5, <3>1, PlanOrders DEF Mirrors, Uses
    <3>2. CASE plan' = <<"backup">> /\ sources(want) = Both
      BY <1>1, <1>4, <1>5, <2>7, <3>2, PlanOrders DEF Mirrors, Uses
    <3> QED
      BY <2>2, <3>1, <3>2
  <2>9. Remains'
    BY <1>1, <2>2, PlanOrders DEF Remains
  <2>10. Phase'
    BY <1>1, <1>2, <2>1 DEF Phase
  <2> QED
    BY <1>2, <2>1, <2>3, <2>6, <2>8, <2>9, <2>10
       DEF IInv, Searching, ProviderFound, MirrorFound, CacheServed
<1> QED
  BY <1>7, <1>8

LEMMA NoBackupLeftStep == IInv /\ NoBackupLeft => IInv'
<1> SUFFICES ASSUME IInv, NoBackupLeft PROVE IInv'
  OBVIOUS
<1>1. /\ Asking("backup") /\ ~Left /\ TypeOK /\ at' = 1
      /\ plan' = Tail(plan) /\ UNCHANGED <<result, source>>
      /\ UNCHANGED <<want, replies, file, published, status>>
  BY DEF NoBackupLeft, NotFound, IInv
<1>2. /\ want \in Wants /\ status = "fetching" /\ source = "none" /\ Head(plan) = "backup"
      /\ Mirrors /\ Provider /\ Tail(plan) \in Plans
      /\ \/ plan = <<"backup">> /\ sources(want) \in {<<"backup">>, Both}
         \/ plan = Reversed /\ sources(want) = Reversed
  BY <1>1, Order, PlanOrders
<1>3. MirrorsTried'
  <2>1. at = 3 /\ MirrorsGoing
    BY <1>1, MirrorAsked
  <2> QED
    BY <1>1, <2>1 DEF MirrorsGoing, MirrorsTried, Asked
<1>4. \/ plan' = <<>> /\ sources(want) \in {<<"backup">>, Both}
      \/ plan' = <<"official">> /\ sources(want) = Reversed
  BY <1>1, <1>2, PlanOrders
<1>5. TypeOK'
  <2>1. plan' \in Seq({"official", "backup"})
    BY <1>1, <1>2, PlanOrders
  <2> QED
    BY <1>1, <2>1 DEF TypeOK
<1>6. Mirrors'
  <2>1. Uses(sources(want), "backup") /\ ~Uses(plan', "backup")
    BY <1>2, <1>4, PlanOrders DEF Uses
  <2> QED
    BY <1>1, <1>3, <2>1 DEF Mirrors
<1>7. UNCHANGED <<ProviderTried, ProviderSilent>>
  BY <1>1 DEF ProviderTried, ProviderSilent, ProviderAsked, Asked
<1>8. ProviderSilent' => ProviderGoing'
  BY <1>1 DEF ProviderSilent, ProviderGoing
<1>9. Provider'
  <2>1. CASE plan = <<"backup">> /\ sources(want) = <<"backup">>
    <3>1. ProviderSilent
      BY <1>2, <2>1, PlanOrders DEF Provider, Uses
    <3> QED
      BY <1>1, <1>7, <2>1, <3>1, PlanOrders DEF Provider, Uses
  <2>2. CASE plan = <<"backup">> /\ sources(want) = Both
    <3>1. ProviderTried
      BY <1>2, <2>2, PlanOrders DEF Provider, Uses
    <3>2. plan' = <<>>
      BY <1>1, <2>2, PlanOrders
    <3> QED
      BY <1>1, <1>7, <2>2, <3>1, <3>2, PlanOrders DEF Provider, Uses
  <2>3. CASE plan = Reversed /\ sources(want) = Reversed
    <3>1. ProviderSilent
      BY <1>2, <2>3, PlanOrders DEF Provider, Uses
    <3>2. plan' = <<"official">>
      BY <1>1, <2>3, PlanOrders
    <3> QED
      BY <1>1, <1>7, <1>8, <2>3, <3>1, <3>2, PlanOrders DEF Provider, Uses
  <2> QED
    BY <1>2, <2>1, <2>2, <2>3
<1>10. Remains'
  BY <1>1, <1>4, PlanOrders DEF Remains
<1>11. Phase'
  BY <1>1, <1>2 DEF Phase
<1> QED
  BY <1>1, <1>2, <1>5, <1>6, <1>9, <1>10, <1>11
     DEF IInv, Searching, ProviderFound, MirrorFound, CacheServed

LEMMA EndStep == IInv /\ (Save \/ Fail) => IInv'
<1> SUFFICES ASSUME IInv, Save \/ Fail PROVE IInv'
  OBVIOUS
<1>1. /\ status = "fetching" /\ plan = <<>> /\ TypeOK
      /\ status' \in {"done", "failed"} /\ (status' = "done" => source # "none")
      /\ result' \in {result, kept(result)}
      /\ UNCHANGED <<want, plan, at, replies, source>>
  BY DEF Save, Fail, IInv
<1>2. \A f \in {file', published'} : f \in {file, published, kept(result), NoFile}
  BY DEF Save, Fail, Writes
<1>3. TypeOK'
  <2>1. kept(result) \subseteq Cidrs
    BY <1>1, UsableKept DEF TypeOK
  <2>2. \A f \in {file', published'} : f = NoFile \/ f \subseteq Cidrs
    BY <1>1, <1>2, <2>1 DEF TypeOK
  <2> QED
    BY <1>1, <2>1, <2>2 DEF TypeOK
<1>4. Phase'
  BY <1>1 DEF IInv, Phase
<1>5. UNCHANGED <<MirrorsTried, MirrorsSilent, ProviderAsked, ProviderTried, ProviderSilent,
                  fromOfficial(want, replies), fromBackup(replies["raw"]),
                  fromBackup(replies["cdn"]), Asked("raw"), Asked("cdn")>>
  BY <1>1 DEF MirrorsTried, MirrorsSilent, ProviderAsked, ProviderTried, ProviderSilent, Asked
<1>6. Searching'
  <2>1. source = "none" => Mirrors /\ Provider /\ Remains
    BY <1>1 DEF IInv, Searching
  <2>2. ~Uses(plan, "backup") /\ ~Uses(plan, "official")
    BY <1>1, PlanOrders DEF Uses
  <2> QED
    BY <1>1, <1>5, <2>1, <2>2 DEF Searching, Mirrors, Provider, Remains
<1>7. ProviderFound'
  <2>1. /\ kept(fromOfficial(want, replies))' = kept(fromOfficial(want, replies))
        /\ kept(kept(fromOfficial(want, replies))) = kept(fromOfficial(want, replies))
    BY <1>1 DEF kept, Filter
  <2> QED
    BY <1>1, <1>5, <2>1 DEF IInv, ProviderFound
<1>8. MirrorFound'
  BY <1>1, <1>5 DEF IInv, MirrorFound
<1>9. CacheServed'
  BY <1>1 DEF IInv, CacheServed
<1> QED
  BY <1>3, <1>4, <1>6, <1>7, <1>8, <1>9 DEF IInv

LEMMA Invariance == Spec => []IInv
<1>1. IInv /\ UNCHANGED vars => IInv'
  BY DEF vars, IInv, TypeOK, Phase, Searching, Mirrors, Provider, Remains, ProviderFound,
         MirrorFound, CacheServed, MirrorsSilent, MirrorsGoing, MirrorsTried, ProviderSilent,
         ProviderGoing, ProviderAsked, ProviderTried, Asked, kept
<1>2. IInv /\ [Next]_vars => IInv'
  BY <1>1, StartStep, AskOfficialStep, ParseOfficialStep, AskBackupStep, NoBackupLeftStep,
     EndStep DEF Next
<1> QED
  BY <1>2, InitIInv, PTL DEF Spec

-----------------------------------------------------------------------------
\* Every variable of FetchRanges, Refresh and runUpdater keeps its type: also a
\* body of junk never puts more than the entries of bodies into a file.
THEOREM RangesTyped == Spec => []TypeOK
<1>1. IInv => TypeOK
  BY DEF IInv
<1> QED
  BY <1>1, Invariance, PTL

\* The parsers of FetchRanges find nothing exactly when no feed they ask is good.
LEMMA ProviderTriedBad ==
    ASSUME TypeOK, ProviderTried, Parsed(want)
    PROVE  Asked("api") /\ ~GoodOfficial
BY OfficialIsGood DEF ProviderTried, ProviderAsked

LEMMA MirrorsTriedBad ==
    ASSUME TypeOK, MirrorsTried
    PROVE  Asked("raw") /\ Asked("cdn") /\ ~GoodMirror("raw") /\ ~GoodMirror("cdn")
BY MirrorIsGood DEF MirrorsTried

\* FetchRanges and fetchBackupFile return the first useful answer in the order
\* of the options, and an error only when every allowed source was asked and
\* gave nothing; nobody else is asked.
THEOREM FirstAnswer == Spec => []FirstAnswerWins
<1>1. IInv => FirstAnswerWins
  <2> SUFFICES ASSUME IInv PROVE FirstAnswerWins
    OBVIOUS
  <2>1. /\ TypeOK /\ want \in Wants /\ status \in {"idle", "fetching", "done", "failed"}
        /\ source \in {"none", "cache", "official", "raw", "cdn"}
        /\ Phase /\ Searching /\ ProviderFound /\ MirrorFound /\ CacheServed
    BY DEF IInv, TypeOK
  <2>2. /\ Uses(sources(want), "backup") <=> (~want.NoBackup /\ want.parser # "own")
        /\ Uses(sources(want), "official") <=> want.parser # "manual"
        /\ sources(want) = Reversed => want.PreferBackup
        /\ sources(want) = Both => ~want.PreferBackup
        /\ sources(want) \in Plans
    BY <2>1, SourcesOf
  \* What was asked of the mirrors, and of the provider.
  <2>4. Asked("raw") \/ Asked("cdn") => Uses(sources(want), "backup")
    <3>1. CASE source = "none" /\ status # "idle"
      BY <2>1, <3>1 DEF Searching, Mirrors, MirrorsSilent
    <3>2. CASE source = "official"
      BY <2>1, <3>2, PlanOrders DEF ProviderFound, MirrorsSilent, Uses
    <3>3. CASE source \in {"raw", "cdn"}
      BY <2>1, <3>3 DEF MirrorFound
    <3>4. CASE source = "cache" \/ status = "idle"
      BY <2>1, <3>4 DEF CacheServed, Phase, MirrorsSilent
    <3> QED
      BY <2>1, <3>1, <3>2, <3>3, <3>4
  <2>5. /\ Asked("api") => Uses(sources(want), "official") /\ Parsed(want)
        /\ Asked("api6") => Uses(sources(want), "official") /\ TwoFeeds(want)
    <3>1. CASE source = "none" /\ status # "idle"
      <4>1. \/ ~Uses(sources(want), "official") /\ ProviderSilent
            \/ Uses(sources(want), "official") /\ (ProviderTried \/ ProviderGoing \/ ProviderSilent)
        BY <2>1, <3>1 DEF Searching, Provider
      <4> QED
        BY <4>1 DEF ProviderTried, ProviderAsked, ProviderGoing, ProviderSilent
    <3>2. CASE source = "official"
      BY <2>1, <3>2 DEF ProviderFound, ProviderAsked
    <3>3. CASE source \in {"raw", "cdn"}
      <4>1. sources(want) = Both => Uses(sources(want), "official")
        BY DEF Uses
      <4> QED
        BY <2>1, <3>3, <4>1 DEF MirrorFound, ProviderTried, ProviderAsked, ProviderSilent
    <3>4. CASE source = "cache" \/ status = "idle"
      BY <2>1, <3>4 DEF CacheServed, Phase, ProviderSilent
    <3> QED
      BY <2>1, <3>1, <3>2, <3>3, <3>4
  <2>6. source = "cache" => ~want.force /\ result # {} /\ \A u \in Urls : ~Asked(u)
    BY <2>1 DEF CacheServed, MirrorsSilent, ProviderSilent, Urls
  <2>7. source = "official" => /\ GoodOfficial
                               /\ Asked("raw") => want.PreferBackup /\ ~GoodMirror("cdn")
                                                  /\ ~GoodMirror("raw") /\ Asked("cdn")
    <3> SUFFICES ASSUME source = "official"
                 PROVE  /\ GoodOfficial
                        /\ Asked("raw") => want.PreferBackup /\ ~GoodMirror("cdn")
                                           /\ ~GoodMirror("raw") /\ Asked("cdn")
      OBVIOUS
    <3>1. /\ ProviderAsked /\ fromOfficial(want, replies) # {}
          /\ IF sources(want) = Reversed THEN MirrorsTried ELSE MirrorsSilent
      BY <2>1 DEF ProviderFound
    <3>2. GoodOfficial
      BY <2>1, <3>1, OfficialIsGood
    <3>3. Asked("raw") => sources(want) = Reversed /\ MirrorsTried
      BY <3>1 DEF MirrorsSilent
    <3> QED
      BY <2>1, <2>2, <3>2, <3>3, MirrorsTriedBad
  <2>8. source \in {"raw", "cdn"} =>
          /\ GoodMirror(source)
          /\ source = "cdn" => Asked("raw") /\ ~GoodMirror("raw")
          /\ Asked("api") => ~want.PreferBackup /\ ~GoodOfficial
    <3> SUFFICES ASSUME source \in {"raw", "cdn"}
                 PROVE  /\ GoodMirror(source)
                        /\ source = "cdn" => Asked("raw") /\ ~GoodMirror("raw")
                        /\ Asked("api") => ~want.PreferBackup /\ ~GoodOfficial
      OBVIOUS
    <3>1. GoodMirror(source) /\ (source = "cdn" => Asked("raw") /\ ~GoodMirror("raw"))
      BY <2>1, MirrorIsGood DEF MirrorFound
    <3>2. Asked("api") => sources(want) = Both /\ ProviderTried
      BY <2>1 DEF MirrorFound, ProviderSilent
    <3> QED
      BY <2>1, <2>2, <2>5, <3>1, <3>2, ProviderTriedBad
  <2>9. status = "failed" /\ source = "none" =>
          /\ want.parser \in {"scrape", "aws", "own"} => Asked("api") /\ ~GoodOfficial
          /\ ~want.NoBackup /\ want.parser # "own" =>
               Asked("raw") /\ Asked("cdn") /\ ~GoodMirror("raw") /\ ~GoodMirror("cdn")
    <3> SUFFICES ASSUME status = "failed", source = "none"
                 PROVE  /\ want.parser \in {"scrape", "aws", "own"} => Asked("api") /\ ~GoodOfficial
                        /\ ~want.NoBackup /\ want.parser # "own" =>
                             Asked("raw") /\ Asked("cdn")
                             /\ ~GoodMirror("raw") /\ ~GoodMirror("cdn")
      OBVIOUS
    <3>1. plan = <<>> /\ Mirrors /\ Provider
      BY <2>1 DEF Phase, Searching
    <3>2. /\ Uses(sources(want), "backup") => MirrorsTried
          /\ Uses(sources(want), "official") => ProviderTried
      BY <3>1, PlanOrders DEF Mirrors, Provider, Uses
    <3>3. want.parser \in {"scrape", "aws", "own"} => Parsed(want) /\ want.parser # "manual"
      BY DEF Parsed
    <3> QED
      BY <2>1, <2>2, <3>2, <3>3, ProviderTriedBad, MirrorsTriedBad
  <2> QED
    BY <2>1, <2>2, <2>4, <2>5, <2>6, <2>7, <2>8, <2>9
       DEF FirstAnswerWins, Parsed, TwoFeeds
<1> QED
  BY <1>1, Invariance, PTL

\* scrapeBothFamilies: whatever one feed answers, the usable ranges of the other
\* are in the result, and filtering before the file is written loses none.
THEOREM FeedsIndependent == Spec => []FeedsFailIndependently
<1>1. IInv => FeedsFailIndependently
  <2> SUFFICES ASSUME IInv, source = "official", want.parser = "scrape",
                      NEW u \in {"api", "api6"}, GoodFeed(u)
               PROVE  replies[u].cidrs \intersect Usable \subseteq result
    BY DEF FeedsFailIndependently
  <2>1. /\ TypeOK /\ ProviderAsked
        /\ result \in {fromOfficial(want, replies), kept(fromOfficial(want, replies))}
    BY DEF IInv, ProviderFound
  <2>2. Asked(u) /\ replies[u] \in Bodies
    BY FetchAssumption DEF GoodFeed, Asked
  <2>3. u = "api" \/ (u = "api6" /\ TwoFeeds(want))
    BY <2>1, <2>2 DEF ProviderAsked
  <2>4. fromFeed(replies[u]) = replies[u].cidrs \intersect Usable
    BY <2>2, FetchAssumption DEF fromFeed, scraped
  <2>5. fromFeed(replies[u]) \subseteq fromOfficial(want, replies)
    <3>1. CASE TwoFeeds(want)
      <4>1. fromOfficial(want, replies)
              = fromFeed(replies["api"]) \union fromFeed(replies["api6"])
        BY <3>1 DEF fromOfficial, OneFeed, TwoFeeds
      <4> QED
        BY <2>3, <4>1
    <3>2. CASE ~TwoFeeds(want)
      <4>1. fromOfficial(want, replies) = fromFeed(replies["api"])
        BY <3>2 DEF fromOfficial, OneFeed
      <4> QED
        BY <2>3, <3>2, <4>1
    <3> QED
      BY <3>1, <3>2
  <2> QED
    BY <2>1, <2>4, <2>5, UsableKept
<1> QED
  BY <1>1, Invariance, PTL

\* Refresh, Reload and runUpdater: the file of the program and the published one
\* change only when this request found ranges, to those, or are cut short.
THEOREM FilesKept == Spec => FailureKeepsFile
<1>1. ASSUME IInv, [Next]_vars
      PROVE  /\ file' # file => want.by = "program" /\ Rewritten(file')
             /\ published' # published => want.by = "updater" /\ Rewritten(published')
  <2>1. CASE Save
    <3>1. source \notin {"none", "cache"}
      BY <1>1, <2>1 DEF IInv, CacheServed, Save
    <3>2. \/ Writes(result') /\ status' = "done"
          \/ (Writes(NoFile) \/ UNCHANGED <<file, published>>) /\ status' = "failed"
      BY <2>1 DEF Save
    <3> QED
      BY <3>1, <3>2 DEF Writes, Rewritten
  <2>2. CASE ~Save
    BY <1>1, <2>2 DEF Next, Start, AskOfficial, ParseOfficial, AskBackup, NoBackupLeft, Fail, vars
  <2> QED
    BY <2>1, <2>2
<1>2. IInv /\ [Next]_vars
        => [/\ file' # file => want.by = "program" /\ Rewritten(file')
            /\ published' # published => want.by = "updater" /\ Rewritten(published')]_vars
  BY <1>1
<1> QED
  BY <1>2, Invariance, PTL DEF Spec, FailureKeepsFile

-----------------------------------------------------------------------------
(* HostExpand: sizes. *)

\* A block of addresses is not empty, however wide.
LEMMA PowerPositive ==
    ASSUME NEW k \in Nat
    PROVE  2^k \in Nat \ {0}
<1>1. IsFiniteSet(1..k) /\ Cardinality(1..k) = k
  BY FS_Interval
<1>2. IsFiniteSet(SUBSET (1..k)) /\ Cardinality(SUBSET (1..k)) = 2^k
  BY <1>1, FS_SUBSET
<1>3. SUBSET (1..k) # {}
  OBVIOUS
<1> QED
  BY <1>2, <1>3, FS_CardinalityType, FS_EmptySet

LEMMA EntrySizes ==
    ASSUME NEW e \in Entry
    PROVE  /\ e.fam \in {4, 6} /\ e.base \in Nat /\ e.bare \in BOOLEAN /\ e # Invalid
           /\ Width(e) - e.bits \in Nat /\ total(e) \in Nat \ {0}
           /\ e.bare => total(e) = 1
<1>1. e.fam \in {4, 6} /\ e.bare \in BOOLEAN /\ e # Invalid
  BY ExpandAssumption DEF Entry
<1>2. W4 \in Nat /\ W6 \in Nat /\ 2^W4 \in Nat /\ 2^W6 \in Nat
  BY ExpandAssumption, PowerPositive
<1>3. e.base \in Nat
  BY <1>2 DEF Entry
<1>4. Width(e) \in Nat /\ e.bits \in 0..Width(e) /\ (e.bare => e.bits = Width(e))
  BY <1>2 DEF Entry, Width
<1>5. Width(e) - e.bits \in Nat /\ (e.bare => Width(e) - e.bits = 0)
  BY <1>4
<1>6. total(e) \in Nat \ {0}
  BY <1>5, PowerPositive DEF total
<1>7. e.bare => total(e) = 1
  <2>1. total(e) = 2^(Width(e) - e.bits) /\ 2^0 = 1
    BY DEF total
  <2> QED
    BY <1>5, <2>1
<1> QED
  BY <1>1, <1>3, <1>5, <1>6, <1>7

LEMMA PoolOf ==
    ASSUME NEW e \in Entry
    PROVE  /\ Pool(e) \subseteq {4, 6} \X Int
           /\ \A k \in Nat : k < total(e) => <<e.fam, e.base + k>> \in Pool(e)
           /\ IsFiniteSet(Pool(e))
<1>1. e.fam \in {4, 6} /\ e.base \in Nat /\ total(e) \in Nat
  BY EntrySizes
<1>2. Pool(e) \subseteq {4, 6} \X Int
  BY <1>1 DEF Pool
<1>3. \A k \in Nat : k < total(e) => <<e.fam, e.base + k>> \in Pool(e)
  BY <1>1 DEF Pool
<1>4. IsFiniteSet(Pool(e))
  <2>1. IsFiniteSet(0..(total(e) - 1))
    BY <1>1, FS_Interval
  <2> DEFINE host == [k \in 0..(total(e) - 1) |-> <<e.fam, e.base + k>>]
  <2>2. Pool(e) = {host[k] : k \in 0..(total(e) - 1)}
    BY DEF Pool
  <2>3. host \in [0..(total(e) - 1) -> Pool(e)]
    BY DEF Pool
  <2>4. \A h \in Pool(e) : \E k \in 0..(total(e) - 1) : host[k] = h
    BY <2>2
  <2>5. host \in Surjection(0..(total(e) - 1), Pool(e))
    BY <2>3, <2>4 DEF Surjection
  <2> HIDE DEF host
  <2> QED
    BY <2>1, <2>5, FS_Surjection
<1> QED
  BY <1>2, <1>3, <1>4

LEMMA Limits ==
    ASSUME NEW st \in Strategy
    PROVE  /\ limit(st) \in Nat \ {0}
           /\ st.MaxHostsPerCIDR > 0 => limit(st) <= st.MaxHostsPerCIDR
           /\ limit(st) <= (IF st.MaxHostsPerV6CIDR > 0 THEN st.MaxHostsPerV6CIDR
                            ELSE DefaultV6HostsPerCIDR)
<1>1. st.MaxHostsPerCIDR \in Int /\ st.MaxHostsPerV6CIDR \in Int
  BY DEF Strategy
<1> QED
  BY <1>1, ExpandAssumption DEF limit

-----------------------------------------------------------------------------
(* The inductive invariant of an expansion. *)

\* Where the loop over the list is.
Cursor == /\ Range(todo) \subseteq Range(asked.cidrs)
          /\ cur = <<>> \/ \E e \in Allowed : cur = <<e>>
          /\ cur # <<>> => outcome = "running"
          /\ outcome = "done" => todo = <<>> /\ cur = <<>>
          /\ outcome = "error" => out = <<>>
          /\ s = [asked.strategy EXCEPT !.MaxTotal = autoTotal(asked.cidrs, asked.strategy)]

\* What the current prefix has given so far: as many hosts as were drawn, or as
\* were counted, within its caps.
Tallied(e) == /\ Cardinality(drawn) <= limit(s)
              /\ Sampled(e) => emitted = Cardinality(drawn)
              /\ ~Sampled(e) /\ e.fam = 6 => emitted = i /\ i <= total(e)
              /\ e.fam = 4 /\ s.MaxHostsPerCIDR > 0 => emitted <= s.MaxHostsPerCIDR
Budgets == \A e \in Allowed : cur = <<e>> => Tallied(e)

Reservoir == s.MaxTotal > 0 /\ outcome # "error" =>
                Len(out) = IF n < s.MaxTotal THEN n ELSE s.MaxTotal

Distinct == s.MaxTotal <= 0 /\ outcome # "error" => seen = Range(out) /\ IsInjective(out)

Inside == Range(out) \subseteq Hosts

\* Without caps, each prefix that is not sampled is to come, or was emitted up
\* to the current offset, or wholly.
Uncapped == s.MaxTotal <= 0 /\ s.MaxHostsPerCIDR <= 0 /\ s.SamplePer24 <= 0
Scanned(f) == \A k \in 0..(total(f) - 1) : k < i => <<f.fam, f.base + k>> \in Range(out)
Covered == Uncapped /\ outcome # "error" =>
    \A f \in Allowed : ~Sampled(f) =>
        \/ f \in Range(todo)
        \/ cur = <<f>> /\ Scanned(f)
        \/ Pool(f) \subseteq Range(out)

ExpandInv == ExpandTypeOK /\ Cursor /\ Budgets /\ Reservoir /\ Distinct /\ Inside /\ Covered

-----------------------------------------------------------------------------
(* The lists an expansion works on. *)

LEMMA RangeOfAppend ==
    ASSUME NEW S, NEW q \in Seq(S), NEW x \in S
    PROVE  /\ Range(Append(q, x)) = Range(q) \union {x}
           /\ IsInjective(q) /\ x \notin Range(q) => IsInjective(Append(q, x))
<1>1. /\ Len(q) \in Nat /\ DOMAIN q = 1..Len(q)
      /\ Append(q, x) \in Seq(S) /\ DOMAIN Append(q, x) = 1..(Len(q) + 1)
      /\ \A k \in 1..Len(q) : Append(q, x)[k] = q[k]
      /\ Append(q, x)[Len(q) + 1] = x
  BY AppendProperties, LenProperties
<1>2. \A k \in 1..(Len(q) + 1) : k \in 1..Len(q) \/ k = Len(q) + 1
  BY <1>1
<1>3. 1..Len(q) \subseteq 1..(Len(q) + 1) /\ Len(q) + 1 \in 1..(Len(q) + 1)
  BY <1>1
<1> QED
  BY <1>1, <1>2, <1>3 DEF Range, IsInjective

LEMMA RangeOfTail ==
    ASSUME NEW S, NEW q \in Seq(S), q # <<>>
    PROVE  /\ Range(q) = {Head(q)} \union Range(Tail(q))
           /\ Head(q) \in S /\ Tail(q) \in Seq(S)
<1>0. /\ Head(q) \in S /\ Tail(q) \in Seq(S) /\ Len(Tail(q)) = Len(q) - 1
      /\ \A k \in 1..Len(Tail(q)) : Tail(q)[k] = q[k + 1]
  BY HeadTailProperties
<1>1. /\ Len(q) \in Nat /\ Len(q) # 0 /\ DOMAIN q = 1..Len(q)
      /\ Head(q) = q[1] /\ Head(q) \in S /\ Tail(q) \in Seq(S)
      /\ DOMAIN Tail(q) = 1..(Len(q) - 1)
      /\ \A k \in 1..(Len(q) - 1) : Tail(q)[k] = q[k + 1]
  <2>1. Len(q) \in Nat /\ Len(q) # 0 /\ DOMAIN q = 1..Len(q) /\ Head(q) = q[1]
    BY LenProperties, EmptySeq
  <2>2. DOMAIN Tail(q) = 1..Len(Tail(q))
    BY <1>0, LenProperties
  <2> QED
    BY <1>0, <2>1, <2>2
<1>2. ASSUME NEW k \in 1..Len(q), k # 1
      PROVE  k - 1 \in 1..(Len(q) - 1) /\ q[k] = Tail(q)[k - 1]
  <2>1. k - 1 \in 1..(Len(q) - 1) /\ (k - 1) + 1 = k
    BY <1>0, <1>2, LenProperties
  <2> QED
    BY <1>1, <2>1
<1>3. 1 \in 1..Len(q) /\ \A k \in 1..(Len(q) - 1) : k + 1 \in 1..Len(q)
  BY <1>1
<1>4. ASSUME NEW k \in 1..Len(q)
      PROVE  q[k] \in {Head(q)} \union Range(Tail(q))
  <2>1. CASE k = 1
    BY <1>1, <2>1
  <2>2. CASE k # 1
    BY <1>1, <1>2, <2>2 DEF Range
  <2> QED
    BY <2>1, <2>2
<1>5. {Head(q)} \union Range(Tail(q)) \subseteq Range(q)
  BY <1>1, <1>3 DEF Range
<1>6. Range(q) \subseteq {Head(q)} \union Range(Tail(q))
  BY <1>1, <1>4 DEF Range
<1> QED
  BY <1>1, <1>5, <1>6

LEMMA RangeOfReplaced ==
    ASSUME NEW S, NEW q \in Seq(S), NEW x \in S, NEW k \in 1..Len(q)
    PROVE  /\ [q EXCEPT ![k] = x] \in Seq(S) /\ Len([q EXCEPT ![k] = x]) = Len(q)
           /\ Range([q EXCEPT ![k] = x]) \subseteq Range(q) \union {x}
<1>1. DOMAIN q = 1..Len(q) /\ Len(q) \in Nat /\ q \in [1..Len(q) -> S]
  BY LenProperties
<1>2. /\ [q EXCEPT ![k] = x] \in Seq(S) /\ Len([q EXCEPT ![k] = x]) = Len(q)
  BY ExceptSeq
<1>3. Range([q EXCEPT ![k] = x]) \subseteq Range(q) \union {x}
  BY <1>1 DEF Range
<1> QED
  BY <1>2, <1>3

\* emit: what a candidate does to the result, with and without MaxTotal.
LEMMA Emitted ==
    ASSUME ExpandInv, outcome = "running", NEW a \in {4, 6} \X Int, emit(a)
    PROVE  /\ out' \in Seq({4, 6} \X Int) /\ IsFiniteSet(seen') /\ n' \in Nat
           /\ Range(out) \union {a} = Range(out') \/ s.MaxTotal > 0
           /\ Range(out') \subseteq Range(out) \union {a}
           /\ s.MaxTotal <= 0 => seen' = Range(out') /\ IsInjective(out')
           /\ s.MaxTotal > 0 => Len(out') = IF n' < s.MaxTotal THEN n' ELSE s.MaxTotal
<1>1. /\ out \in Seq({4, 6} \X Int) /\ IsFiniteSet(seen) /\ n \in Nat
      /\ s.MaxTotal \in Int /\ Len(out) \in Nat
  BY LenProperties DEF ExpandInv, ExpandTypeOK, Strategy
<1>2. s.MaxTotal <= 0 => seen = Range(out) /\ IsInjective(out)
  BY DEF ExpandInv, Distinct
<1>3. s.MaxTotal > 0 => Len(out) = IF n < s.MaxTotal THEN n ELSE s.MaxTotal
  BY DEF ExpandInv, Reservoir
<1>4. /\ Append(out, a) \in Seq({4, 6} \X Int) /\ Len(Append(out, a)) = Len(out) + 1
      /\ Range(Append(out, a)) = Range(out) \union {a}
      /\ IsInjective(out) /\ a \notin Range(out) => IsInjective(Append(out, a))
  BY <1>1, AppendProperties, RangeOfAppend
<1>5. CASE s.MaxTotal <= 0
  <2>1. /\ out' = IF a \in seen THEN out ELSE Append(out, a)
        /\ seen' = seen \union {a} /\ n' = n
    BY <1>5 DEF emit
  <2>2. ~(s.MaxTotal > 0)
    BY <1>1, <1>5
  <2>3. IsFiniteSet(seen')
    BY <1>1, <2>1, FS_AddElement
  <2> QED
    BY <1>1, <1>2, <1>4, <1>5, <2>1, <2>2, <2>3
<1>6. CASE ~(s.MaxTotal <= 0) /\ Len(out) < s.MaxTotal
  <2>1. out' = Append(out, a) /\ n' = n + 1 /\ seen' = seen
    BY <1>6 DEF emit
  <2>2. Len(out') = IF n' < s.MaxTotal THEN n' ELSE s.MaxTotal
    BY <1>1, <1>3, <1>4, <1>6, <2>1
  <2>3. s.MaxTotal > 0 /\ n' \in Nat
    BY <1>1, <1>6, <2>1
  <2> QED
    BY <1>1, <1>4, <1>6, <2>1, <2>2, <2>3
<1>7. CASE ~(s.MaxTotal <= 0) /\ ~(Len(out) < s.MaxTotal)
  <2>1. n' = n + 1 /\ seen' = seen
    BY <1>7 DEF emit
  <2>2. PICK j \in 0..n : out' = IF j < s.MaxTotal THEN [out EXCEPT ![j + 1] = a] ELSE out
    BY <1>7 DEF emit
  <2>3. s.MaxTotal > 0 /\ n' \in Nat /\ Len(out) = s.MaxTotal /\ ~(n' < s.MaxTotal)
    BY <1>1, <1>3, <1>7, <2>1
  <2>4. j < s.MaxTotal => j + 1 \in 1..Len(out)
    BY <1>1, <2>3
  <2>5. /\ out' \in Seq({4, 6} \X Int) /\ Len(out') = Len(out)
        /\ Range(out') \subseteq Range(out) \union {a}
    <3>1. CASE j < s.MaxTotal
      <4> DEFINE S == {4, 6} \X Int
      <4>1. out \in Seq(S) /\ a \in S
        BY <1>1
      <4> HIDE DEF S
      <4>2. PICK k \in 1..Len(out) : k = j + 1
        BY <2>4, <3>1
      <4>3. /\ [out EXCEPT ![k] = a] \in Seq(S) /\ Len([out EXCEPT ![k] = a]) = Len(out)
            /\ Range([out EXCEPT ![k] = a]) \subseteq Range(out) \union {a}
        BY <4>1, RangeOfReplaced
      <4> QED
        BY <2>2, <3>1, <4>2, <4>3 DEF S
    <3>2. CASE ~(j < s.MaxTotal)
      BY <1>1, <2>2, <3>2
    <3> QED
      BY <3>1, <3>2
  <2> QED
    BY <1>1, <1>7, <2>1, <2>3, <2>5
<1> QED
  BY <1>5, <1>6, <1>7

-----------------------------------------------------------------------------
(* The steps of an expansion. *)

LEMMA AllowedEntry ==
    ASSUME ExpandInv
    PROVE  /\ \A e \in Allowed : e \in Entry /\ e # Invalid /\ Pool(e) \subseteq Hosts
           /\ asked.cidrs \in Seq(Entry \union {Invalid}) /\ asked.strategy \in Strategy
           /\ \A e \in Range(asked.cidrs) : e \in Entry \union {Invalid}
           /\ s.Family = asked.strategy.Family
           /\ \A e, f \in Allowed : <<e>> = <<f>> => e = f
           /\ \A e \in Allowed : Head(<<e>>) = e /\ <<e>> # <<>>
<1>1. asked.cidrs \in Seq(Entry \union {Invalid}) /\ asked.strategy \in Strategy
  BY ExpandAssumption DEF ExpandInv, ExpandTypeOK
<1>2. \A e \in Range(asked.cidrs) : e \in Entry \union {Invalid}
  BY <1>1, RangeOfSeq
<1>3. \A e \in Allowed : e \in Entry /\ e # Invalid /\ Pool(e) \subseteq Hosts
  BY <1>2 DEF Allowed, Hosts
<1>4. s.Family = asked.strategy.Family
  BY <1>1 DEF ExpandInv, Cursor, Strategy
<1>5. \A e : Head(<<e>>) = e /\ <<e>> # <<>>
  OBVIOUS
<1>6. \A e, f \in Allowed : <<e>> = <<f>> => e = f
  BY <1>5
<1> QED
  BY <1>1, <1>2, <1>3, <1>4, <1>5, <1>6

LEMMA ExpandInitInv == ExpandInit => ExpandInv
<1> SUFFICES ASSUME ExpandInit PROVE ExpandInv
  OBVIOUS
<1>1. PICK input \in Inputs :
        /\ asked = input /\ todo = input.cidrs
        /\ s = [input.strategy EXCEPT !.MaxTotal = autoTotal(input.cidrs, input.strategy)]
  BY DEF ExpandInit
<1>2. /\ cur = <<>> /\ i = 0 /\ emitted = 0 /\ drawn = {} /\ tries = 0
      /\ seen = {} /\ out = <<>> /\ n = 0 /\ outcome = "running"
  BY DEF ExpandInit
<1>3. input.cidrs \in Seq(Entry \union {Invalid}) /\ input.strategy \in Strategy
  BY ExpandAssumption
<1>4. s \in Strategy
  <2>1. autoTotal(input.cidrs, input.strategy) \in Int
    BY <1>3, ExpandAssumption DEF autoTotal, Strategy
  <2> QED
    BY <1>1, <1>3, <2>1 DEF Strategy
<1>5. ExpandTypeOK
  BY <1>1, <1>2, <1>3, <1>4, EmptySeq, FS_EmptySet DEF ExpandTypeOK
<1>6. Cursor /\ Budgets
  <2>1. \A e : <<e>> # <<>>
    OBVIOUS
  <2> QED
    BY <1>1, <1>2, <2>1 DEF Cursor, Budgets
<1>7. Len(out) = 0 /\ Range(out) = {} /\ IsInjective(out)
  BY <1>2, EmptySeq DEF Range, IsInjective
<1>8. Reservoir
  BY <1>2, <1>7 DEF Reservoir
<1>9. Distinct /\ Inside
  BY <1>2, <1>7 DEF Distinct, Inside
<1>10. Covered
  BY <1>1 DEF Covered, Allowed
<1> QED
  BY <1>5, <1>6, <1>8, <1>9, <1>10 DEF ExpandInv

LEMMA NextEntryStep == ExpandInv /\ NextEntry => ExpandInv'
<1> SUFFICES ASSUME ExpandInv, NextEntry PROVE ExpandInv'
  OBVIOUS
<1> DEFINE e == Head(todo)
<1>1. /\ outcome = "running" /\ cur = <<>> /\ todo # <<>>
      /\ todo' = Tail(todo) /\ i' = 0 /\ emitted' = 0 /\ drawn' = {} /\ tries' = 0
      /\ UNCHANGED <<s, asked, seen, n>>
  BY DEF NextEntry
<1>2. /\ todo \in Seq(Entry \union {Invalid}) /\ s \in Strategy
  BY DEF ExpandInv, ExpandTypeOK
<1>3. /\ Range(todo) = {e} \union Range(Tail(todo)) /\ e \in Entry \union {Invalid}
      /\ Tail(todo) \in Seq(Entry \union {Invalid})
  BY <1>1, <1>2, RangeOfTail
<1>4. Range(todo) \subseteq Range(asked.cidrs)
  BY DEF ExpandInv, Cursor
<1>5. UNCHANGED <<Allowed, Hosts>>
  BY <1>1 DEF Allowed, Hosts
<1>6. Cardinality({}) = 0 /\ IsFiniteSet({})
  BY FS_EmptySet
<1>7. CASE e = Invalid
  <2>1. outcome' = "error" /\ out' = <<>> /\ cur' = <<>>
    BY <1>1, <1>7 DEF NextEntry
  <2>2. ExpandTypeOK'
    BY <1>1, <1>3, <1>6, <2>1, EmptySeq DEF ExpandInv, ExpandTypeOK
  <2>3. Cursor'
    BY <1>1, <1>3, <1>4, <2>1 DEF ExpandInv, Cursor
  <2>4. Budgets'
    <3>1. \A f : <<f>> # <<>>
      OBVIOUS
    <3> QED
      BY <2>1, <3>1 DEF Budgets
  <2>5. Inside'
    BY <2>1, EmptySeq DEF Inside, Range
  <2>6. Reservoir' /\ Distinct' /\ Covered'
    BY <2>1 DEF Reservoir, Distinct, Covered
  <2> QED
    BY <2>2, <2>3, <2>4, <2>5, <2>6 DEF ExpandInv
<1>8. CASE e # Invalid
  <2>1. /\ cur' = IF e.fam \in s.Family THEN <<e>> ELSE <<>>
        /\ UNCHANGED <<outcome, out>>
    BY <1>1, <1>8 DEF NextEntry
  <2>2. e \in Entry /\ e \in Range(asked.cidrs)
    BY <1>3, <1>4, <1>8
  <2>3. e.fam \in s.Family <=> e \in Allowed
    BY <1>8, <2>2, AllowedEntry DEF Allowed
  <2>4. ExpandTypeOK'
    <3>1. cur' = <<>> \/ Head(cur') \in Entry
      BY <2>1, <2>2
    <3> QED
      BY <1>1, <1>3, <1>6, <2>1, <3>1 DEF ExpandInv, ExpandTypeOK
  <2>5. Cursor'
    <3>1. cur' = <<>> \/ \E f \in Allowed : cur' = <<f>>
      BY <2>1, <2>3
    <3> QED
      BY <1>1, <1>3, <1>4, <1>5, <2>1, <3>1 DEF ExpandInv, Cursor
  <2>6. Budgets'
    <3> SUFFICES ASSUME NEW f \in Allowed PROVE Tallied(f)'
      BY <1>5 DEF Budgets
    <3>1. total(f) \in Nat /\ limit(s) \in Nat /\ f.fam \in {4, 6}
      BY <1>2, AllowedEntry, EntrySizes, Limits
    <3>2. s.MaxHostsPerCIDR \in Int
      BY <1>2 DEF Strategy
    <3> QED
      BY <1>1, <1>6, <3>1, <3>2 DEF Tallied
  <2>7. Reservoir' /\ Distinct' /\ Inside'
    BY <1>1, <1>5, <2>1 DEF ExpandInv, Reservoir, Distinct, Inside
  <2>8. Covered'
    <3> SUFFICES ASSUME Uncapped, NEW f \in Allowed, ~Sampled(f)
                 PROVE  \/ f \in Range(todo')
                        \/ cur' = <<f>> /\ Scanned(f)'
                        \/ Pool(f) \subseteq Range(out')
      BY <1>1, <1>5, <2>1 DEF Covered, Uncapped, Sampled
    <3>1. cur # <<f>>
      BY <1>1, AllowedEntry
    <3>2. f \in Range(todo) \/ Pool(f) \subseteq Range(out)
      BY <1>1, <3>1 DEF ExpandInv, Covered
    <3>3. CASE f = e
      <4>1. cur' = <<f>>
        BY <2>1, <2>3, <3>3
      <4>2. Scanned(f)'
        BY <1>1 DEF Scanned
      <4> QED
        BY <4>1, <4>2
    <3>4. CASE f # e
      BY <1>1, <1>3, <2>1, <3>2, <3>4
    <3> QED
      BY <3>3, <3>4
  <2> QED
    BY <2>4, <2>5, <2>6, <2>7, <2>8 DEF ExpandInv
<1> QED
  BY <1>7, <1>8

LEMMA Products ==
    ASSUME NEW a \in Nat \ {0}, NEW b \in Nat \ {0}
    PROVE  a * b \in Nat \ {0}
OBVIOUS

LEMMA Quotients ==
    ASSUME NEW a \in Nat, NEW b \in Nat \ {0}
    PROVE  a \div b \in Nat
OBVIOUS

\* The stride is a distance, and 1 unless hosts are sampled per /24.
LEMMA Strides ==
    ASSUME s \in Strategy, NEW e \in Entry
    PROVE  /\ stride(e) \in Nat
           /\ s.SamplePer24 <= 0 => stride(e) = 1
<1> DEFINE want24 == 2 ^ (Width(e) - e.bits - SubBits) * s.SamplePer24
<1>1. s.SamplePer24 \in Int /\ total(e) \in Nat /\ Width(e) - e.bits \in Nat
  BY EntrySizes DEF Strategy
<1>2. s.SamplePer24 <= 0 => stride(e) = 1
  BY <1>1 DEF stride
<1>3. CASE s.SamplePer24 > 0 /\ Width(e) - e.bits > SubBits /\ want24 < total(e)
  <2>1. W4 \in Nat /\ SubBits \in 0..W4
    BY ExpandAssumption
  <2>2. Width(e) - e.bits - SubBits \in Nat
    BY <1>1, <1>3, <2>1
  <2>3. 2 ^ (Width(e) - e.bits - SubBits) \in Nat \ {0}
    BY <2>2, PowerPositive
  <2>4. want24 \in Nat \ {0}
    BY <1>1, <1>3, <2>3, Products
  <2>5. total(e) \div want24 \in Nat
    BY <1>1, <2>4, Quotients
  <2> QED
    BY <1>2, <1>3, <2>5 DEF stride
<1>4. CASE ~(s.SamplePer24 > 0 /\ Width(e) - e.bits > SubBits /\ want24 < total(e))
  BY <1>2, <1>4 DEF stride
<1> QED
  BY <1>3, <1>4

\* A candidate of the prefix being expanded keeps what is promised of the
\* result, whatever else the step counts.
LEMMA EmitKeeps ==
    ASSUME ExpandInv, outcome = "running", UNCHANGED <<s, asked, outcome>>,
           NEW e \in Allowed, NEW a \in Pool(e), emit(a)
    PROVE  /\ out' \in Seq({4, 6} \X Int) /\ IsFiniteSet(seen') /\ n' \in Nat
           /\ Reservoir' /\ Distinct' /\ Inside'
           /\ s.MaxTotal <= 0 => Range(out') = Range(out) \union {a}
<1>1. a \in {4, 6} \X Int /\ a \in Hosts
  BY AllowedEntry, PoolOf
<1>2. /\ out' \in Seq({4, 6} \X Int) /\ IsFiniteSet(seen') /\ n' \in Nat
      /\ Range(out) \union {a} = Range(out') \/ s.MaxTotal > 0
      /\ Range(out') \subseteq Range(out) \union {a}
      /\ s.MaxTotal <= 0 => seen' = Range(out') /\ IsInjective(out')
      /\ s.MaxTotal > 0 => Len(out') = IF n' < s.MaxTotal THEN n' ELSE s.MaxTotal
  BY <1>1, Emitted
<1>3. s.MaxTotal \in Int
  BY DEF ExpandInv, ExpandTypeOK, Strategy
<1>4. Reservoir' /\ Distinct'
  BY <1>2 DEF Reservoir, Distinct
<1>5. Hosts' = Hosts
  BY DEF Hosts, Allowed
<1>6. Inside'
  BY <1>1, <1>2, <1>5 DEF ExpandInv, Inside
<1>7. s.MaxTotal <= 0 => Range(out') = Range(out) \union {a}
  BY <1>2, <1>3
<1> QED
  BY <1>2, <1>4, <1>6, <1>7

LEMMA EnumerateStep == ExpandInv /\ Enumerate => ExpandInv'
<1> SUFFICES ASSUME ExpandInv, Enumerate PROVE ExpandInv'
  OBVIOUS
<1>1. /\ cur # <<>> /\ ~Sampled(Head(cur)) /\ More(Head(cur))
      /\ emit(<<Head(cur).fam, Head(cur).base + i>>)
      /\ i' = i + (IF Head(cur).fam = 4 THEN stride(Head(cur)) ELSE 1)
      /\ emitted' = emitted + 1
      /\ UNCHANGED <<s, asked, todo, cur, drawn, tries, outcome>>
  BY DEF Enumerate
<1>2. PICK e \in Allowed : cur = <<e>>
  BY <1>1 DEF ExpandInv, Cursor
<1>3. /\ e = Head(cur) /\ e \in Entry /\ s \in Strategy /\ i \in Nat /\ emitted \in Nat
      /\ outcome = "running" /\ s.MaxHostsPerCIDR \in Int /\ s.SamplePer24 \in Int
  BY <1>1, <1>2, AllowedEntry DEF ExpandInv, ExpandTypeOK, Cursor, Strategy
<1>4. total(e) \in Nat /\ i < total(e) /\ e.fam \in {4, 6} /\ stride(e) \in Nat
  BY <1>1, <1>3, EntrySizes, Strides DEF More
<1>5. PICK a \in Pool(e) : a = <<e.fam, e.base + i>>
  BY <1>3, <1>4, PoolOf
<1>6. emit(a)
  BY <1>1, <1>3, <1>5
<1>7. /\ out' \in Seq({4, 6} \X Int) /\ IsFiniteSet(seen') /\ n' \in Nat
      /\ Reservoir' /\ Distinct' /\ Inside'
      /\ s.MaxTotal <= 0 => Range(out') = Range(out) \union {a}
  BY <1>1, <1>3, <1>6, EmitKeeps
<1>8. i' \in Nat /\ emitted' \in Nat /\ (e.fam = 6 => i' = i + 1)
  BY <1>1, <1>3, <1>4
<1>9. ExpandTypeOK'
  BY <1>1, <1>7, <1>8 DEF ExpandInv, ExpandTypeOK
<1>10. Cursor'
  <2>1. Allowed' = Allowed
    BY <1>1 DEF Allowed
  <2> QED
    BY <1>1, <1>3, <2>1 DEF ExpandInv, Cursor
<1>11. Tallied(e)'
  <2>1. Tallied(e) /\ ~Sampled(e)
    BY <1>1, <1>2, <1>3 DEF ExpandInv, Budgets
  <2>2. ~Sampled(e)' /\ Cardinality(drawn') = Cardinality(drawn) /\ limit(s)' = limit(s)
    BY <1>1, <2>1 DEF Sampled
  <2>3. e.fam = 6 => emitted' = i' /\ i' <= total(e)
    BY <1>1, <1>3, <1>4, <1>8, <2>1 DEF Tallied
  <2>4. e.fam = 4 /\ s.MaxHostsPerCIDR > 0 => emitted' <= s.MaxHostsPerCIDR
    BY <1>1, <1>3 DEF More
  <2> QED
    BY <1>1, <2>1, <2>2, <2>3, <2>4 DEF Tallied
<1>12. Budgets'
  BY <1>1, <1>2, <1>11, AllowedEntry DEF Budgets, Allowed
<1>13. Covered'
  <2> SUFFICES ASSUME Uncapped, NEW f \in Allowed, ~Sampled(f)
               PROVE  \/ f \in Range(todo')
                      \/ cur' = <<f>> /\ Scanned(f)'
                      \/ Pool(f) \subseteq Range(out')
    BY <1>1, <1>3 DEF Covered, Uncapped, Sampled, Allowed
  <2>1. Range(out') = Range(out) \union {a}
    BY <1>7 DEF Uncapped
  <2>2. \/ f \in Range(todo)
        \/ cur = <<f>> /\ Scanned(f)
        \/ Pool(f) \subseteq Range(out)
    BY <1>3 DEF ExpandInv, Covered
  <2>3. CASE cur = <<f>> /\ Scanned(f)
    <3>1. f = e
      BY <1>2, <2>3, AllowedEntry
    <3>2. i' = i + 1
      BY <1>1, <1>3, Strides DEF Uncapped
    <3>3. \A k \in 0..(total(e) - 1) : k < i' => k < i \/ k = i
      BY <1>3, <1>4, <3>2
    <3>4. Scanned(f)'
      BY <1>5, <2>1, <2>3, <3>1, <3>3 DEF Scanned
    <3> QED
      BY <1>1, <2>3, <3>4
  <2> QED
    BY <1>1, <2>1, <2>2, <2>3
<1> QED
  BY <1>7, <1>9, <1>10, <1>12, <1>13 DEF ExpandInv

LEMMA DrawStep == ExpandInv /\ Draw => ExpandInv'
<1> SUFFICES ASSUME ExpandInv, Draw PROVE ExpandInv'
  OBVIOUS
<1>1. /\ cur # <<>> /\ Sampled(Head(cur)) /\ Cardinality(drawn) < limit(s)
      /\ tries' = tries + 1
      /\ UNCHANGED <<s, asked, todo, cur, i, outcome>>
  BY DEF Draw
<1>2. PICK e \in Allowed : cur = <<e>>
  BY <1>1 DEF ExpandInv, Cursor
<1>3. /\ e = Head(cur) /\ e \in Entry /\ s \in Strategy /\ emitted \in Nat /\ tries \in Nat
      /\ outcome = "running" /\ s.MaxHostsPerCIDR \in Int /\ IsFiniteSet(drawn)
  BY <1>1, <1>2, AllowedEntry DEF ExpandInv, ExpandTypeOK, Cursor, Strategy
<1>4. PICK a \in Pool(e) :
        /\ drawn' = drawn \union {a}
        /\ IF a \in drawn THEN UNCHANGED <<emitted, seen, out, n>>
           ELSE emitted' = emitted + 1 /\ emit(a)
  BY <1>3 DEF Draw
<1>5. /\ IsFiniteSet(drawn') /\ Cardinality(drawn) \in Nat
      /\ Cardinality(drawn') = IF a \in drawn THEN Cardinality(drawn) ELSE Cardinality(drawn) + 1
  BY <1>3, <1>4, FS_AddElement, FS_CardinalityType
<1>6. /\ out' \in Seq({4, 6} \X Int) /\ IsFiniteSet(seen') /\ n' \in Nat
      /\ Reservoir' /\ Distinct' /\ Inside'
      /\ s.MaxTotal > 0 \/ Range(out) \subseteq Range(out')
  <2>1. CASE a \in drawn
    <3>1. UNCHANGED <<seen, out, n, s, outcome, Hosts>>
      BY <1>1, <1>4, <2>1 DEF Hosts, Allowed
    <3> QED
      BY <3>1 DEF ExpandInv, ExpandTypeOK, Reservoir, Distinct, Inside
  <2>2. CASE a \notin drawn
    <3>1. emit(a)
      BY <1>4, <2>2
    <3>2. s.MaxTotal \in Int
      BY <1>3 DEF Strategy
    <3> QED
      BY <1>1, <1>3, <3>1, <3>2, EmitKeeps
  <2> QED
    BY <2>1, <2>2
<1>7. Tallied(e)'
  <2>1. Tallied(e) /\ Sampled(e) /\ limit(s) \in Nat
    BY <1>1, <1>2, <1>3, Limits DEF ExpandInv, Budgets
  <2>2. emitted' = Cardinality(drawn') /\ Cardinality(drawn') <= limit(s)
    BY <1>1, <1>4, <1>5, <2>1 DEF Tallied
  <2>3. Sampled(e)' /\ limit(s)' = limit(s) /\ e.fam = 6
    BY <1>1, <2>1 DEF Sampled
  <2> QED
    BY <2>2, <2>3 DEF Tallied
<1>8. ExpandTypeOK'
  <2>1. emitted' \in Nat /\ tries' \in Nat
    BY <1>1, <1>3, <1>4
  <2> QED
    BY <1>1, <1>5, <1>6, <2>1 DEF ExpandInv, ExpandTypeOK
<1>9. Cursor'
  <2>1. Allowed' = Allowed
    BY <1>1 DEF Allowed
  <2> QED
    BY <1>1, <1>3, <2>1 DEF ExpandInv, Cursor
<1>10. Budgets'
  BY <1>1, <1>2, <1>7, AllowedEntry DEF Budgets, Allowed
<1>11. Covered'
  <2> SUFFICES ASSUME Uncapped, NEW f \in Allowed, ~Sampled(f)
               PROVE  \/ f \in Range(todo')
                      \/ cur' = <<f>> /\ Scanned(f)'
                      \/ Pool(f) \subseteq Range(out')
    BY <1>1, <1>3 DEF Covered, Uncapped, Sampled, Allowed
  <2>1. Range(out) \subseteq Range(out')
    <3>1. s.MaxTotal \in Int /\ ~(s.MaxTotal > 0)
      BY <1>3 DEF Strategy, Uncapped
    <3> QED
      BY <1>6, <3>1
  <2>2. \/ f \in Range(todo)
        \/ cur = <<f>> /\ Scanned(f)
        \/ Pool(f) \subseteq Range(out)
    BY <1>3 DEF ExpandInv, Covered
  <2>3. Scanned(f) => Scanned(f)'
    BY <1>1, <2>1 DEF Scanned
  <2> QED
    BY <1>1, <2>1, <2>2, <2>3
<1> QED
  BY <1>6, <1>8, <1>9, <1>10, <1>11 DEF ExpandInv

\* A loop that ends without caps has come to the end of its prefix.
LEMMA EndEntryStep == ExpandInv /\ EndEntry => ExpandInv'
<1> SUFFICES ASSUME ExpandInv, EndEntry PROVE ExpandInv'
  OBVIOUS
<1>1. /\ cur # <<>> /\ cur' = <<>>
      /\ IF Sampled(Head(cur)) THEN Cardinality(drawn) >= limit(s) \/ tries >= 4 * limit(s)
         ELSE ~More(Head(cur))
      /\ UNCHANGED <<s, asked, todo, i, emitted, drawn, tries, seen, out, n, outcome>>
  BY DEF EndEntry
<1>2. PICK e \in Allowed : cur = <<e>>
  BY <1>1 DEF ExpandInv, Cursor
<1>3. /\ e = Head(cur) /\ e \in Entry /\ s \in Strategy /\ i \in Nat /\ emitted \in Nat
      /\ outcome = "running" /\ s.MaxHostsPerCIDR \in Int
  BY <1>1, <1>2, AllowedEntry DEF ExpandInv, ExpandTypeOK, Cursor, Strategy
<1>4. /\ Allowed' = Allowed /\ Hosts' = Hosts
  BY <1>1 DEF Allowed, Hosts
<1>5. ExpandTypeOK' /\ Cursor' /\ Budgets'
  <2>1. \A f : cur' # <<f>>
    BY <1>1
  <2> QED
    BY <1>1, <1>3, <1>4, <2>1 DEF ExpandInv, ExpandTypeOK, Cursor, Budgets
<1>6. Reservoir' /\ Distinct' /\ Inside'
  BY <1>1, <1>4 DEF ExpandInv, Reservoir, Distinct, Inside
<1>7. Covered'
  <2> SUFFICES ASSUME Uncapped, NEW f \in Allowed, ~Sampled(f)
               PROVE  f \in Range(todo) \/ Pool(f) \subseteq Range(out)
    BY <1>1, <1>3, <1>4 DEF Covered, Uncapped, Sampled
  <2>1. \/ f \in Range(todo)
        \/ cur = <<f>> /\ Scanned(f)
        \/ Pool(f) \subseteq Range(out)
    BY <1>3 DEF ExpandInv, Covered
  <2>2. CASE cur = <<f>> /\ Scanned(f)
    <3>1. f = e
      BY <1>2, <2>2
    <3>2. total(f) \in Nat /\ ~(i < total(f))
      BY <1>1, <1>3, <3>1, EntrySizes DEF More, Uncapped
    <3>3. \A k \in 0..(total(f) - 1) : k < i
      BY <1>3, <3>2
    <3> QED
      BY <2>2, <3>3 DEF Scanned, Pool
  <2> QED
    BY <2>1, <2>2
<1> QED
  BY <1>5, <1>6, <1>7 DEF ExpandInv

LEMMA ReturnStep == ExpandInv /\ Return => ExpandInv'
<1> SUFFICES ASSUME ExpandInv, Return PROVE ExpandInv'
  OBVIOUS
<1>1. /\ outcome = "running" /\ cur = <<>> /\ todo = <<>> /\ outcome' = "done"
      /\ UNCHANGED <<s, asked, todo, cur, i, emitted, drawn, tries, seen, out, n>>
  BY DEF Return, entryVars
<1>2. /\ Allowed' = Allowed /\ Hosts' = Hosts
  BY <1>1 DEF Allowed, Hosts
<1>3. ExpandTypeOK' /\ Cursor' /\ Budgets'
  <2>1. \A f : cur' # <<f>>
    BY <1>1
  <2> QED
    BY <1>1, <1>2, <2>1 DEF ExpandInv, ExpandTypeOK, Cursor, Budgets
<1>4. Reservoir' /\ Distinct' /\ Inside'
  BY <1>1, <1>2 DEF ExpandInv, Reservoir, Distinct, Inside
<1>5. \A f : (Sampled(f)' <=> Sampled(f)) /\ (Scanned(f)' <=> Scanned(f))
  BY <1>1 DEF Sampled, Scanned
<1>6. Covered'
  BY <1>1, <1>2, <1>5 DEF ExpandInv, Covered, Uncapped
<1> QED
  BY <1>3, <1>4, <1>6 DEF ExpandInv

LEMMA ExpandInvariance == ExpandSpec => []ExpandInv
<1>1. ExpandInit => ExpandInv
  BY ExpandInitInv
<1>2. ExpandInv /\ [ExpandNext]_expandVars => ExpandInv'
  <2> SUFFICES ASSUME ExpandInv, [ExpandNext]_expandVars PROVE ExpandInv'
    OBVIOUS
  <2>1. CASE NextEntry
    BY <2>1, NextEntryStep
  <2>2. CASE Enumerate
    BY <2>2, EnumerateStep
  <2>3. CASE Draw
    BY <2>3, DrawStep
  <2>4. CASE EndEntry
    BY <2>4, EndEntryStep
  <2>5. CASE Return
    BY <2>5, ReturnStep
  <2>6. CASE UNCHANGED expandVars
    <3>1. UNCHANGED <<s, asked, todo, cur, i, emitted, drawn, tries, seen, out, n, outcome>>
      BY <2>6 DEF expandVars, entryVars
    <3>2. /\ Allowed' = Allowed /\ Hosts' = Hosts
          /\ \A f : (Sampled(f)' <=> Sampled(f)) /\ (Scanned(f)' <=> Scanned(f))
          /\ \A f : Tallied(f)' <=> Tallied(f)
      BY <3>1 DEF Allowed, Hosts, Sampled, Scanned, Tallied
    <3>3. ExpandTypeOK' /\ Cursor' /\ Budgets'
      BY <3>1, <3>2 DEF ExpandInv, ExpandTypeOK, Cursor, Budgets
    <3>4. Reservoir' /\ Distinct' /\ Inside' /\ Covered'
      BY <3>1, <3>2 DEF ExpandInv, Reservoir, Distinct, Inside, Covered, Uncapped
    <3> QED
      BY <3>3, <3>4 DEF ExpandInv
  <2> QED
    BY <2>1, <2>2, <2>3, <2>4, <2>5, <2>6 DEF ExpandNext
<1> QED
  BY <1>1, <1>2, PTL DEF ExpandSpec

\* The expansion keeps its types.
THEOREM ExpandTyped == ExpandSpec => []ExpandTypeOK
<1>1. ExpandInv => ExpandTypeOK
  BY DEF ExpandInv
<1> QED
  BY <1>1, ExpandInvariance, PTL

\* Whatever the order, the overlaps and the random choices: only hosts of the
\* listed prefixes are scanned, and without a cap each IPv4 host of them, and
\* each host of an IPv6 prefix within its limit, is in the result, once.
THEOREM PoolScanned == ExpandSpec => []FullPoolOnce
<1>1. ExpandInv => FullPoolOnce
  <2> SUFFICES ASSUME ExpandInv PROVE FullPoolOnce
    OBVIOUS
  <2>1. Range(out) \subseteq Hosts
    BY DEF ExpandInv, Inside
  <2>2. ASSUME outcome = "done", Uncapped
        PROVE  /\ IsInjective(out)
               /\ UNION {Pool(e) : e \in {f \in Allowed : ~Sampled(f)}} \subseteq Range(out)
    <3>1. IsInjective(out) /\ todo = <<>> /\ cur = <<>>
      BY <2>2 DEF ExpandInv, Distinct, Cursor, Uncapped
    <3>2. Range(todo) = {}
      BY <3>1 DEF Range
    <3>3. \A f \in Allowed : ~Sampled(f) => Pool(f) \subseteq Range(out)
      BY <2>2, <3>1, <3>2 DEF ExpandInv, Covered
    <3> QED
      BY <3>1, <3>3
  <2> QED
    BY <2>1, <2>2 DEF FullPoolOnce, Uncapped
<1> QED
  BY <1>1, ExpandInvariance, PTL

-----------------------------------------------------------------------------
(* The budgets.  The guard counts every IPv4 host once for each prefix that *)
(* has it, so a result without repetitions is no longer than its count.     *)

LEMMA CountedFinite ==
    ASSUME NEW cidrs \in Seq(Entry \union {Invalid})
    PROVE  IsFiniteSet(Counted(cidrs))
<1> DEFINE J == {j \in DOMAIN cidrs : cidrs[j] # Invalid /\ cidrs[j].fam = 4 /\ ~cidrs[j].bare}
           part == [j \in J |-> {j} \X Pool(cidrs[j])]
           parts == {part[j] : j \in J}
<1>1. IsFiniteSet(J)
  <2>1. DOMAIN cidrs = 1..Len(cidrs) /\ Len(cidrs) \in Nat
    BY LenProperties
  <2>2. IsFiniteSet(1..Len(cidrs))
    BY <2>1, FS_Interval
  <2> QED
    BY <2>1, <2>2, FS_Subset
<1>2. \A j \in J : IsFiniteSet({j} \X Pool(cidrs[j]))
  <2> TAKE j \in J
  <2>1. cidrs[j] \in Entry
    BY ElementOfSeq, LenProperties
  <2>2. IsFiniteSet(Pool(cidrs[j])) /\ IsFiniteSet({j})
    BY <2>1, PoolOf, FS_Singleton
  <2> HIDE DEF J
  <2> QED
    BY <2>2, FS_Product
<1>3. IsFiniteSet(parts)
  <2>1. part \in Surjection(J, parts)
    BY DEF Surjection
  <2> HIDE DEF J, part, parts
  <2> QED
    BY <1>1, <2>1, FS_Surjection
<1>4. \A T \in parts : IsFiniteSet(T)
  <2> HIDE DEF J
  <2> QED
    BY <1>2
<1>5. Counted(cidrs) = UNION parts
  BY DEF Counted
<1> HIDE DEF parts
<1> QED
  BY <1>3, <1>4, <1>5, FS_UNION

\* A result without repetitions, of IPv4 hosts only.
LEMMA CountBounds ==
    ASSUME ExpandInv, IsInjective(out), asked.strategy.Family = {4}
    PROVE  /\ Cardinality(Counted(asked.cidrs)) \in Nat /\ Cardinality(Bare) \in Nat
           /\ Len(out) <= Cardinality(Counted(asked.cidrs)) + Cardinality(Bare)
<1> DEFINE c == asked.cidrs
           C == Counted(c)
           J == {j \in DOMAIN c : c[j] # Invalid /\ c[j].fam = 4 /\ ~c[j].bare}
           L == 1..Len(out)
           P == {p \in L : \E j \in J : out[p] \in Pool(c[j])}
<1>1. /\ c \in Seq(Entry \union {Invalid}) /\ DOMAIN c = 1..Len(c) /\ Len(c) \in Nat
      /\ out \in Seq({4, 6} \X Int) /\ DOMAIN out = L /\ Len(out) \in Nat
  BY AllowedEntry, LenProperties DEF ExpandInv, ExpandTypeOK
<1>2. IsFiniteSet(C) /\ IsFiniteSet(Bare) /\ Cardinality(C) \in Nat /\ Cardinality(Bare) \in Nat
  <2>1. IsFiniteSet(C)
    BY <1>1, CountedFinite
  <2>2. IsFiniteSet(1..Len(c)) /\ Bare \in SUBSET (1..Len(c))
    BY <1>1, FS_Interval DEF Bare
  <2> QED
    BY <2>1, <2>2, FS_Subset, FS_CardinalityType
<1>3. \A j \in 1..Len(c) : c[j] \in Entry \union {Invalid}
  BY <1>1, ElementOfSeq
<1>4. \A p \in L : \E j \in 1..Len(c) :
        c[j] \in Entry /\ c[j] # Invalid /\ c[j].fam = 4 /\ out[p] \in Pool(c[j])
  <2> TAKE p \in L
  <2>1. out[p] \in Hosts
    BY <1>1 DEF ExpandInv, Inside, Range
  <2>2. PICK f \in Allowed : out[p] \in Pool(f)
    BY <2>1 DEF Hosts
  <2>3. f \in Range(c) /\ f # Invalid /\ f.fam = 4 /\ f \in Entry
    BY <2>2, AllowedEntry DEF Allowed
  <2>4. PICK j \in 1..Len(c) : c[j] = f
    BY <1>1, <2>3 DEF Range
  <2> QED
    BY <2>2, <2>3, <2>4
<1>5. \A p, q \in L : out[p] = out[q] => p = q
  BY <1>1 DEF IsInjective
<1>6. IsFiniteSet(P) /\ Cardinality(P) <= Cardinality(C)
  <2> DEFINE g == [p \in P |-> <<CHOOSE j \in J : out[p] \in Pool(c[j]), out[p]>>]
  <2>1. \A p \in P : g[p] \in C
    <3> TAKE p \in P
    <3>1. PICK j \in J : j = CHOOSE k \in J : out[p] \in Pool(c[k])
      OBVIOUS
    <3>2. out[p] \in Pool(c[j]) /\ g[p] = <<j, out[p]>>
      BY <3>1
    <3>3. g[p] \in {j} \X Pool(c[j])
      BY <3>2
    <3> QED
      BY <3>3 DEF Counted
  <2>2. \A p, q \in P : g[p] = g[q] => p = q
    BY <1>5
  <2>3. g \in Injection(P, C)
    <3> HIDE DEF C
    <3> QED
      BY <2>1, <2>2 DEF Injection, IsInjective
  <2> HIDE DEF g, P, C
  <2> QED
    BY <1>2, <2>3, FS_Injection
<1>7. IsFiniteSet(L \ P) /\ Cardinality(L \ P) <= Cardinality(Bare)
  <2> DEFINE h == [p \in L \ P |-> CHOOSE j \in Bare : c[j] \in Entry /\ c[j].fam = 4 /\ out[p] \in Pool(c[j])]
  <2>1. \A p \in L \ P : /\ h[p] \in Bare /\ c[h[p]] \in Entry /\ c[h[p]].fam = 4
                         /\ out[p] \in Pool(c[h[p]])
    <3> TAKE p \in L \ P
    <3>1. PICK j \in 1..Len(c) : /\ c[j] \in Entry /\ c[j] # Invalid /\ c[j].fam = 4
                                 /\ out[p] \in Pool(c[j])
      BY <1>4
    <3>2. j \in Bare
      BY <1>1, <3>1, EntrySizes DEF Bare
    <3> QED
      BY <3>1, <3>2
  <2>2. \A p \in L \ P : out[p] = <<4, c[h[p]].base>>
    <3> TAKE p \in L \ P
    <3>1. PICK e \in Entry : e = c[h[p]] /\ e.bare /\ e.fam = 4 /\ out[p] \in Pool(e)
      BY <2>1 DEF Bare
    <3>2. total(e) = 1 /\ e.base \in Nat
      BY <3>1, EntrySizes
    <3>3. PICK k \in 0..(total(e) - 1) : out[p] = <<e.fam, e.base + k>>
      BY <3>1 DEF Pool
    <3>4. k = 0 /\ e.base + k = e.base
      BY <3>2, <3>3
    <3> QED
      BY <3>1, <3>3, <3>4
  <2>3. h \in Injection(L \ P, Bare)
    <3>1. \A p, q \in L \ P : h[p] = h[q] => p = q
      <4> HIDE DEF h, P
      <4> QED
        BY <1>5, <2>2
    <3> HIDE DEF P
    <3> QED
      BY <2>1, <3>1 DEF Injection, IsInjective
  <2> HIDE DEF h, P
  <2> QED
    BY <1>2, <2>3, FS_Injection
<1>8. Len(out) <= Cardinality(P) + Cardinality(L \ P)
  <2>1. Cardinality(L) = Len(out)
    <3>1. PICK m \in Nat : m = Len(out)
      BY <1>1
    <3>2. Cardinality(1..m) = m
      <4>1. Cardinality(1..m) = IF 1 > m THEN 0 ELSE m - 1 + 1
        BY FS_Interval
      <4> QED
        BY <4>1
    <3> QED
      BY <3>1, <3>2
  <2> HIDE DEF J, L
  <2>2. P \subseteq L
    OBVIOUS
  <2> HIDE DEF P
  <2>3. L = P \union (L \ P) /\ P \intersect (L \ P) = {}
    BY <2>2
  <2>4. Cardinality(P \intersect (L \ P)) = 0
    BY <2>3, FS_EmptySet
  <2>5. Cardinality(L) = Cardinality(P) + Cardinality(L \ P) - Cardinality(P \intersect (L \ P))
    BY <1>6, <1>7, <2>3, FS_Union
  <2>6. Cardinality(P) \in Nat /\ Cardinality(L \ P) \in Nat
    BY <1>6, <1>7, FS_CardinalityType
  <2> QED
    BY <2>1, <2>4, <2>5, <2>6
<1>9. Cardinality(P) \in Nat /\ Cardinality(L \ P) \in Nat
  BY <1>6, <1>7, FS_CardinalityType
<1> HIDE DEF C, P, L
<1> QED
  BY <1>2, <1>6, <1>7, <1>8, <1>9 DEF C

\* The sample is never larger than MaxTotal, a default expansion never larger
\* than the guard's pool and the bare addresses, and no prefix gives more hosts
\* than its caps.
THEOREM BudgetsHold == ExpandSpec => []BudgetsKept
<1>1. ExpandInv => BudgetsKept
  <2> SUFFICES ASSUME ExpandInv PROVE BudgetsKept
    OBVIOUS
  <2>1. s.MaxTotal > 0 /\ outcome # "error" =>
          Len(out) = IF n < s.MaxTotal THEN n ELSE s.MaxTotal
    BY DEF ExpandInv, Reservoir
  <2>2. ASSUME asked.strategy.Family = {4}, asked.strategy.MaxHostsPerCIDR <= 0,
               asked.strategy.SamplePer24 <= 0, asked.strategy.MaxTotal <= 0
        PROVE  Len(out) <= maxAutoPool + Cardinality(Bare)
    <3>1. /\ s.MaxTotal = autoTotal(asked.cidrs, asked.strategy)
          /\ maxAutoPool \in Nat \ {0} /\ asked.strategy.MaxTotal \in Int
      BY AllowedEntry, ExpandAssumption DEF ExpandInv, Cursor, Strategy
    <3>2. Len(out) \in Nat /\ n \in Nat
      BY LenProperties DEF ExpandInv, ExpandTypeOK
    <3>3. IsFiniteSet(Bare) /\ Cardinality(Bare) \in Nat
      <4>1. DOMAIN asked.cidrs = 1..Len(asked.cidrs) /\ Len(asked.cidrs) \in Nat
        BY AllowedEntry, LenProperties
      <4>2. IsFiniteSet(1..Len(asked.cidrs)) /\ Bare \in SUBSET (1..Len(asked.cidrs))
        BY <4>1, FS_Interval DEF Bare
      <4> QED
        BY <4>2, FS_Subset, FS_CardinalityType
    <3>4. CASE outcome = "error"
      <4>1. Len(out) = 0
        BY <3>4, EmptySeq DEF ExpandInv, Cursor
      <4> QED
        BY <3>1, <3>3, <4>1
    <3>5. CASE outcome # "error" /\ Cardinality(Counted(asked.cidrs)) > maxAutoPool
      <4>1. s.MaxTotal = maxAutoPool
        BY <2>2, <3>1, <3>5 DEF autoTotal
      <4>2. Len(out) <= maxAutoPool
        BY <2>1, <3>1, <3>2, <3>5, <4>1
      <4> QED
        BY <3>1, <3>2, <3>3, <4>2
    <3>6. CASE outcome # "error" /\ ~(Cardinality(Counted(asked.cidrs)) > maxAutoPool)
      <4>1. s.MaxTotal <= 0
        BY <2>2, <3>1, <3>6 DEF autoTotal
      <4>2. IsInjective(out)
        BY <3>6, <4>1 DEF ExpandInv, Distinct
      <4> QED
        BY <2>2, <3>1, <3>2, <3>3, <3>6, <4>2, CountBounds
    <3> QED
      BY <3>4, <3>5, <3>6
  <2>3. ASSUME cur # <<>>
        PROVE  /\ s.MaxHostsPerCIDR > 0 => emitted <= s.MaxHostsPerCIDR
               /\ Head(cur).fam = 6 => emitted <= (IF s.MaxHostsPerV6CIDR > 0 THEN s.MaxHostsPerV6CIDR
                                                   ELSE DefaultV6HostsPerCIDR)
    <3>1. PICK e \in Allowed : cur = <<e>> /\ e = Head(cur)
      BY <2>3, AllowedEntry DEF ExpandInv, Cursor
    <3>2. /\ Tallied(e) /\ e \in Entry /\ e.fam \in {4, 6} /\ total(e) \in Nat
      BY <3>1, AllowedEntry, EntrySizes DEF ExpandInv, Budgets
    <3>3. /\ s \in Strategy /\ s.MaxHostsPerCIDR \in Int /\ s.MaxHostsPerV6CIDR \in Int
          /\ limit(s) \in Nat /\ emitted \in Nat /\ i \in Nat /\ IsFiniteSet(drawn)
      BY Limits DEF ExpandInv, ExpandTypeOK, Strategy
    <3>4. Cardinality(drawn) \in Nat /\ DefaultV6HostsPerCIDR \in Nat
      BY <3>3, FS_CardinalityType, ExpandAssumption
    <3>5. e.fam = 6 => emitted <= limit(s)
      <4>1. CASE e.fam = 6 /\ Sampled(e)
        BY <3>2, <3>3, <3>4, <4>1 DEF Tallied
      <4>2. CASE e.fam = 6 /\ ~Sampled(e)
        BY <3>2, <3>3, <4>2 DEF Tallied, Sampled
      <4> QED
        BY <4>1, <4>2
    <3>6. /\ s.MaxHostsPerCIDR > 0 => limit(s) <= s.MaxHostsPerCIDR
          /\ limit(s) <= (IF s.MaxHostsPerV6CIDR > 0 THEN s.MaxHostsPerV6CIDR
                          ELSE DefaultV6HostsPerCIDR)
      BY <3>3, Limits
    <3>7. e.fam = 4 /\ s.MaxHostsPerCIDR > 0 => emitted <= s.MaxHostsPerCIDR
      BY <3>2 DEF Tallied
    <3>8. s.MaxHostsPerCIDR > 0 => emitted <= s.MaxHostsPerCIDR
      BY <3>2, <3>3, <3>5, <3>6, <3>7
    <3>9. e.fam = 6 => emitted <= (IF s.MaxHostsPerV6CIDR > 0 THEN s.MaxHostsPerV6CIDR
                                   ELSE DefaultV6HostsPerCIDR)
      BY <3>3, <3>4, <3>5, <3>6
    <3> QED
      BY <3>1, <3>8, <3>9
  <2> QED
    BY <2>1, <2>2, <2>3 DEF BudgetsKept
<1> QED
  BY <1>1, ExpandInvariance, PTL

-----------------------------------------------------------------------------
(* Sampling per /24: arithmetic. *)

\* Powers of two multiply, as choosing a set from two halves chooses from each.
LEMMA PowerSum ==
    ASSUME NEW a \in Nat, NEW b \in Nat
    PROVE  2^(a + b) = 2^a * 2^b
<1> DEFINE A == 1..a
           B == (a + 1)..(a + b)
           C == 1..(a + b)
           halves == [T \in SUBSET C |-> <<T \cap A, T \cap B>>]
<1>1. /\ IsFiniteSet(A) /\ Cardinality(A) = a
      /\ IsFiniteSet(B) /\ Cardinality(B) = b
      /\ IsFiniteSet(C) /\ Cardinality(C) = a + b
  <2>1. /\ IsFiniteSet(1..a) /\ Cardinality(1..a) = IF 1 > a THEN 0 ELSE a - 1 + 1
        /\ IsFiniteSet(1..(a + b))
        /\ Cardinality(1..(a + b)) = IF 1 > a + b THEN 0 ELSE (a + b) - 1 + 1
    BY FS_Interval
  <2>2. PICK l \in Int, h \in Int : l = a + 1 /\ h = a + b
    OBVIOUS
  <2>3. IsFiniteSet(l..h) /\ Cardinality(l..h) = IF l > h THEN 0 ELSE h - l + 1
    BY FS_Interval
  <2> QED
    BY <2>1, <2>2, <2>3
<1>2. C = A \union B /\ A \cap B = {}
  OBVIOUS
<1> HIDE DEF A, B, C
<1> DEFINE PA == SUBSET A
           PB == SUBSET B
           PC == SUBSET C
<1>3. /\ IsFiniteSet(PA) /\ Cardinality(PA) = 2^a
      /\ IsFiniteSet(PB) /\ Cardinality(PB) = 2^b
      /\ IsFiniteSet(PC) /\ Cardinality(PC) = 2^(a + b)
  BY <1>1, FS_SUBSET
<1>4. halves \in [PC -> PA \X PB]
  OBVIOUS
<1>5. \A T, U \in PC : halves[T] = halves[U] => T = U
  BY <1>2
<1>6. ASSUME NEW X \in PA, NEW Y \in PB
      PROVE  \E T \in PC : halves[T] = <<X, Y>>
  <2>1. X \subseteq A /\ Y \subseteq B
    OBVIOUS
  <2>2. X \union Y \in PC /\ (X \union Y) \cap A = X /\ (X \union Y) \cap B = Y
    BY <1>2, <2>1
  <2> QED
    BY <2>2
<1> HIDE DEF halves, PA, PB, PC
<1>7. \A h \in PA \X PB : \E T \in PC : halves[T] = h
  BY <1>6
<1>8. halves \in Bijection(PC, PA \X PB)
  BY <1>4, <1>5, <1>7 DEF Bijection, Injection, Surjection, IsInjective
<1>9. Cardinality(PA \X PB) = 2^a * 2^b
  <2>1. Cardinality(PA \X PB) = Cardinality(PA) * Cardinality(PB)
    BY <1>3, FS_Product
  <2> QED
    BY <1>3, <2>1, Zenon
<1>10. Cardinality(PA \X PB) = Cardinality(PC)
  BY <1>3, <1>8, FS_Bijection DEF ExistsBijection
<1> QED
  BY <1>3, <1>9, <1>10

\* Multiplication is monotonic, and a positive factor cancels.
LEMMA Monotonic ==
    ASSUME NEW k \in Nat, NEW a \in Int, NEW b \in Int, a <= b
    PROVE  a * k <= b * k
  OBVIOUS

LEMMA Cancels ==
    ASSUME NEW k \in Nat \ {0}, NEW a \in Int, NEW b \in Int
    PROVE  a * k <= b * k => a <= b
<1> SUFFICES ASSUME b + 1 <= a PROVE ~(a * k <= b * k)
  OBVIOUS
<1>1. (b + 1) * k <= a * k
  BY Monotonic
<1>2. (b + 1) * k = b * k + k /\ b * k \in Int /\ a * k \in Int
  OBVIOUS
<1> QED
  BY <1>1, <1>2

LEMMA Division ==
    ASSUME NEW x \in Nat, NEW S \in Nat \ {0}
    PROVE  /\ x \div S \in Nat
           /\ (x \div S) * S <= x /\ x < (x \div S) * S + S
           /\ x % S = 0 => x = (x \div S) * S
  OBVIOUS

\* A quotient is determined by its bounds.
LEMMA DivisionUnique ==
    ASSUME NEW x \in Nat, NEW S \in Nat \ {0}, NEW q \in Int, q * S <= x, x < (q + 1) * S
    PROVE  x \div S = q
<1>1. PICK r \in Nat : r = x \div S
  BY Division
<1>2. r * S <= x /\ x < r * S + S /\ r * S + S = (r + 1) * S
  BY <1>1, Division
<1>3. /\ r * S \in Int /\ (r + 1) * S \in Int /\ q * S \in Int /\ (q + 1) * S \in Int
  BY <1>1
<1>4. ~(r + 1 <= q) /\ ~(q + 1 <= r)
  BY <1>2, <1>3, Monotonic
<1> QED
  BY <1>1, <1>4

\* A window that is wide enough for some strides has as many multiples of it.
LEMMA Window ==
    ASSUME NEW d \in Nat \ {0}, NEW S \in Nat, NEW few \in Nat, few * d <= S, NEW q \in Nat
    PROVE  \E t \in Nat : \A j \in 0..(few - 1) :
               q * S <= (t + j) * d /\ (t + j) * d < (q + 1) * S
<1>1. PICK u \in Nat : u = q * S
  OBVIOUS
<1>2. PICK t \in Nat : t = (u + d - 1) \div d
  BY <1>1, Division
<1>3. t * d \in Nat /\ u <= t * d /\ t * d <= u + d - 1
  <2>1. u + d - 1 \in Nat
    OBVIOUS
  <2>2. t * d <= u + d - 1 /\ u + d - 1 < t * d + d /\ t * d \in Nat
    BY <1>2, <2>1, Division
  <2> QED
    BY <2>2
<1>4. ASSUME NEW j \in 0..(few - 1)
      PROVE  q * S <= (t + j) * d /\ (t + j) * d < (q + 1) * S
  <2>1. (t + j) * d = t * d + j * d /\ j * d \in Nat
    OBVIOUS
  <2>2. j * d <= few * d - d
    <3>1. j * d <= (few - 1) * d
      BY Monotonic
    <3> QED
      BY <3>1
  <2>3. (q + 1) * S = u + S
    BY <1>1
  <2>4. few * d \in Nat
    OBVIOUS
  <2> QED
    BY <1>1, <1>3, <2>1, <2>2, <2>3, <2>4
<1> QED
  BY <1>4
-----------------------------------------------------------------------------
(* Sampling per /24: the invariant. *)

\* Every stride of a prefix below the offset u is in the result.
Visited(f, u) == \A m \in Nat : m * stride(f) < u => <<f.fam, f.base + m * stride(f)>> \in Range(out)

\* With no budget but SamplePer24, each IPv4 prefix is to come, or its strides
\* are in the result up to the current offset, or all are.
Strided == OnlyStrided /\ outcome # "error" =>
    \A f \in Allowed : f.fam = 4 =>
        \/ f \in Range(todo)
        \/ cur = <<f>> /\ (\E t \in Nat : i = t * stride(f)) /\ Visited(f, i)
        \/ Visited(f, total(f))

LEMMA StridedOnly ==
    ASSUME ExpandInv, OnlyStrided
    PROVE  s.MaxTotal <= 0 /\ s.MaxHostsPerCIDR <= 0 /\ s.SamplePer24 > 0
           /\ s.SamplePer24 = asked.strategy.SamplePer24
<1>1. asked.strategy \in Strategy
  BY AllowedEntry
<1>2. s = [asked.strategy EXCEPT !.MaxTotal = autoTotal(asked.cidrs, asked.strategy)]
  BY DEF ExpandInv, Cursor
<1>3. autoTotal(asked.cidrs, asked.strategy) = asked.strategy.MaxTotal
  BY <1>1 DEF autoTotal, OnlyStrided, Strategy
<1> QED
  BY <1>1, <1>2, <1>3 DEF OnlyStrided, Strategy

LEMMA StridedInit == ExpandInit => Strided
<1> SUFFICES ASSUME ExpandInit PROVE Strided
  OBVIOUS
<1>1. todo = asked.cidrs
  BY DEF ExpandInit
<1> QED
  BY <1>1 DEF Strided, Allowed

LEMMA StridedNextEntry == ExpandInv /\ Strided /\ NextEntry => Strided'
<1> SUFFICES ASSUME ExpandInv, Strided, NextEntry, OnlyStrided', outcome' # "error",
                    NEW f \in Allowed', f.fam = 4
             PROVE  \/ f \in Range(todo')
                    \/ cur' = <<f>> /\ (\E t \in Nat : i' = t * stride(f)') /\ Visited(f, i)'
                    \/ Visited(f, total(f))'
  BY DEF Strided
<1> DEFINE e == Head(todo)
<1>1. /\ outcome = "running" /\ cur = <<>> /\ todo # <<>> /\ i' = 0 /\ todo' = Tail(todo)
      /\ e # Invalid /\ cur' = (IF e.fam \in s.Family THEN <<e>> ELSE <<>>)
      /\ UNCHANGED <<s, asked, out>>
  BY DEF NextEntry
<1>2. /\ todo \in Seq(Entry \union {Invalid}) /\ s \in Strategy
  BY DEF ExpandInv, ExpandTypeOK
<1>3. Range(todo) = {e} \union Range(Tail(todo))
  BY <1>1, <1>2, RangeOfTail
<1>4. OnlyStrided /\ f \in Allowed /\ f \in Entry /\ stride(f)' = stride(f) /\ cur # <<f>>
  BY <1>1, AllowedEntry DEF OnlyStrided, Allowed, stride
<1>5. f \in Range(todo) \/ Visited(f, total(f))
  BY <1>1, <1>4 DEF Strided
<1>6. CASE f = e
  <2>1. cur' = <<f>>
    BY <1>1, <1>4, <1>6, AllowedEntry DEF Allowed
  <2>2. PICK d \in Nat : d = stride(f)
    BY <1>2, <1>4, Strides
  <2>3. i' = 0 * d /\ \A m \in Nat : ~(m * d < 0)
    BY <1>1
  <2>4. Visited(f, i)'
    BY <1>1, <1>4, <2>2, <2>3 DEF Visited
  <2> QED
    BY <1>4, <2>1, <2>2, <2>3, <2>4
<1>7. CASE f # e /\ f \in Range(todo)
  BY <1>1, <1>3, <1>7
<1>8. CASE Visited(f, total(f))
  BY <1>1, <1>4, <1>8 DEF Visited
<1> QED
  BY <1>5, <1>6, <1>7, <1>8

LEMMA StridedEnumerate == ExpandInv /\ Strided /\ Enumerate => Strided'
<1> SUFFICES ASSUME ExpandInv, Strided, Enumerate, OnlyStrided', outcome' # "error",
                    NEW f \in Allowed', f.fam = 4
             PROVE  \/ f \in Range(todo')
                    \/ cur' = <<f>> /\ (\E t \in Nat : i' = t * stride(f)') /\ Visited(f, i)'
                    \/ Visited(f, total(f))'
  BY DEF Strided
<1>1. /\ cur # <<>> /\ ~Sampled(Head(cur)) /\ More(Head(cur))
      /\ emit(<<Head(cur).fam, Head(cur).base + i>>)
      /\ i' = i + (IF Head(cur).fam = 4 THEN stride(Head(cur)) ELSE 1)
      /\ UNCHANGED <<s, asked, todo, cur, outcome>>
  BY DEF Enumerate
<1>2. PICK e \in Allowed : cur = <<e>>
  BY <1>1 DEF ExpandInv, Cursor
<1>3. /\ e = Head(cur) /\ e \in Entry /\ s \in Strategy /\ i \in Nat /\ outcome = "running"
  BY <1>1, <1>2, AllowedEntry DEF ExpandInv, ExpandTypeOK, Cursor
<1>4. total(e) \in Nat /\ i < total(e) /\ e.fam \in {4, 6}
  BY <1>1, <1>3, EntrySizes DEF More
<1>5. PICK a \in Pool(e) : a = <<e.fam, e.base + i>>
  BY <1>3, <1>4, PoolOf
<1>6. OnlyStrided /\ f \in Allowed /\ f \in Entry /\ stride(f)' = stride(f)
  BY <1>1, AllowedEntry DEF OnlyStrided, Allowed, stride
<1>7. Range(out') = Range(out) \union {a}
  BY <1>1, <1>3, <1>5, <1>6, EmitKeeps, StridedOnly
<1>8. \/ f \in Range(todo)
      \/ cur = <<f>> /\ (\E t \in Nat : i = t * stride(f)) /\ Visited(f, i)
      \/ Visited(f, total(f))
  BY <1>3, <1>6 DEF Strided
<1>9. CASE cur = <<f>> /\ (\E t \in Nat : i = t * stride(f)) /\ Visited(f, i)
  <2>1. f = e
    BY <1>2, <1>6, <1>9, AllowedEntry
  <2>2. PICK d \in Nat : d = stride(f)
    BY <1>3, <1>6, Strides
  <2>3. PICK t \in Nat : i = t * d
    BY <1>9, <2>2
  <2>4. i' = i + d
    BY <1>1, <1>3, <2>1, <2>2
  <2>5. i' = (t + 1) * d /\ t + 1 \in Nat
    BY <2>3, <2>4
  <2>6. ASSUME NEW m \in Nat, m * d < (t + 1) * d PROVE m * d < i \/ m * d = i
    <3>1. m <= t
      <4>1. m >= t + 1 => (t + 1) * d <= m * d
        BY Monotonic
      <4>2. m * d \in Int /\ (t + 1) * d \in Int
        OBVIOUS
      <4> QED
        BY <2>6, <4>1, <4>2
    <3>2. m * d <= t * d
      BY <3>1, Monotonic
    <3>3. m * d \in Int /\ t * d \in Int
      OBVIOUS
    <3> QED
      BY <2>3, <3>2, <3>3
  <2>7. ASSUME NEW m \in Nat, m * d < i' PROVE <<f.fam, f.base + m * d>> \in Range(out')
    <3>1. CASE m * d < i
      BY <1>7, <1>9, <2>2, <3>1 DEF Visited
    <3>2. CASE m * d = i
      BY <1>5, <1>7, <2>1, <3>2
    <3> QED
      BY <2>5, <2>6, <2>7, <3>1, <3>2
  <2>8. Visited(f, i)'
    BY <1>6, <2>2, <2>7 DEF Visited
  <2> QED
    BY <1>1, <1>6, <1>9, <2>2, <2>5, <2>8
<1>10. CASE Visited(f, total(f))
  BY <1>6, <1>7, <1>10 DEF Visited
<1> QED
  BY <1>1, <1>8, <1>9, <1>10

\* Whatever else the step does, the other prefixes keep what they have.
LEMMA StridedKept ==
    ASSUME ExpandInv, Strided, UNCHANGED <<s, asked, todo, i, outcome>>,
           Range(out) \subseteq Range(out') \/ ~OnlyStrided,
           \A f \in Allowed : f.fam = 4 => cur # <<f>> \/ cur' = cur
    PROVE  Strided'
<1> SUFFICES ASSUME OnlyStrided', outcome' # "error", NEW f \in Allowed', f.fam = 4
             PROVE  \/ f \in Range(todo')
                    \/ cur' = <<f>> /\ (\E t \in Nat : i' = t * stride(f)') /\ Visited(f, i)'
                    \/ Visited(f, total(f))'
  BY DEF Strided
<1>1. OnlyStrided /\ f \in Allowed /\ stride(f)' = stride(f)
  BY DEF OnlyStrided, Allowed, stride
<1>2. Range(out) \subseteq Range(out')
  BY <1>1
<1>3. \/ f \in Range(todo)
      \/ cur = <<f>> /\ (\E t \in Nat : i = t * stride(f)) /\ Visited(f, i)
      \/ Visited(f, total(f))
  BY <1>1 DEF Strided
<1>4. /\ Visited(f, i) => Visited(f, i)'
      /\ Visited(f, total(f)) => Visited(f, total(f))'
  BY <1>1, <1>2 DEF Visited
<1> QED
  BY <1>1, <1>3, <1>4

LEMMA StridedDraw == ExpandInv /\ Strided /\ Draw => Strided'
<1> SUFFICES ASSUME ExpandInv, Strided, Draw PROVE Strided'
  OBVIOUS
<1>1. cur # <<>> /\ Sampled(Head(cur)) /\ UNCHANGED <<s, asked, todo, cur, i, outcome>>
  BY DEF Draw
<1>2. PICK e \in Allowed : cur = <<e>>
  BY <1>1 DEF ExpandInv, Cursor
<1>3. e \in Entry /\ e = Head(cur) /\ outcome = "running"
  BY <1>1, <1>2, AllowedEntry DEF ExpandInv, Cursor
<1>4. PICK a \in Pool(e) : IF a \in drawn THEN UNCHANGED <<emitted, seen, out, n>>
                           ELSE emitted' = emitted + 1 /\ emit(a)
  BY <1>3 DEF Draw
<1>5. ASSUME OnlyStrided PROVE Range(out) \subseteq Range(out')
  <2>1. CASE a \in drawn
    BY <1>4, <2>1
  <2>2. CASE a \notin drawn
    BY <1>1, <1>3, <1>4, <1>5, <2>2, EmitKeeps, StridedOnly
  <2> QED
    BY <2>1, <2>2
<1> QED
  BY <1>1, <1>5, StridedKept

LEMMA StridedEndEntry == ExpandInv /\ Strided /\ EndEntry => Strided'
<1> SUFFICES ASSUME ExpandInv, Strided, EndEntry, OnlyStrided', outcome' # "error",
                    NEW f \in Allowed', f.fam = 4
             PROVE  f \in Range(todo') \/ Visited(f, total(f))'
  BY DEF Strided
<1>1. /\ cur # <<>> /\ (Sampled(Head(cur)) \/ ~More(Head(cur)))
      /\ UNCHANGED <<s, asked, todo, i, out, outcome>>
  BY DEF EndEntry
<1>2. OnlyStrided /\ f \in Allowed /\ f \in Entry /\ stride(f)' = stride(f)
  BY <1>1, AllowedEntry DEF OnlyStrided, Allowed, stride
<1>3. \/ f \in Range(todo)
      \/ cur = <<f>> /\ Visited(f, i)
      \/ Visited(f, total(f))
  BY <1>1, <1>2 DEF Strided
<1>4. CASE cur = <<f>> /\ Visited(f, i)
  <2>1. Head(cur) = f /\ s \in Strategy /\ i \in Nat /\ total(f) \in Nat
    BY <1>2, <1>4, AllowedEntry, EntrySizes DEF ExpandInv, ExpandTypeOK
  <2>2. ~Sampled(f) /\ ~(s.MaxHostsPerCIDR > 0)
    BY <1>2, <2>1, StridedOnly DEF Sampled, Strategy
  <2>3. total(f) <= i
    BY <1>1, <2>1, <2>2 DEF More
  <2>4. PICK d \in Nat : d = stride(f)
    BY <1>2, <2>1, Strides
  <2>5. \A m \in Nat : m * d < total(f) => m * d < i
    <3> SUFFICES ASSUME NEW m \in Nat, m * d < total(f) PROVE m * d < i
      OBVIOUS
    <3>1. m * d \in Int
      OBVIOUS
    <3> QED
      BY <2>1, <2>3, <3>1
  <2>6. Visited(f, total(f))
    BY <1>4, <2>4, <2>5 DEF Visited
  <2> QED
    BY <1>1, <1>2, <2>6 DEF Visited
<1> QED
  BY <1>1, <1>2, <1>3, <1>4 DEF Visited

LEMMA StridedStep == ExpandInv /\ Strided /\ [ExpandNext]_expandVars => Strided'
<1> SUFFICES ASSUME ExpandInv, Strided, [ExpandNext]_expandVars PROVE Strided'
  OBVIOUS
<1>1. CASE NextEntry
  BY <1>1, StridedNextEntry
<1>2. CASE Enumerate
  BY <1>2, StridedEnumerate
<1>3. CASE Draw
  BY <1>3, StridedDraw
<1>4. CASE EndEntry
  BY <1>4, StridedEndEntry
<1>5. CASE Return
  <2>1. /\ outcome = "running" /\ UNCHANGED <<s, asked, todo, cur, i, out>>
    BY <1>5 DEF Return, entryVars
  <2>2. OnlyStrided' = OnlyStrided /\ Allowed' = Allowed
    BY <2>1 DEF OnlyStrided, Allowed
  <2>3. \A f : /\ stride(f)' = stride(f) /\ (Visited(f, i)' <=> Visited(f, i))
               /\ Visited(f, total(f))' <=> Visited(f, total(f))
    BY <2>1 DEF Visited, stride
  <2> QED
    BY <2>1, <2>2, <2>3 DEF Strided
<1>6. CASE UNCHANGED expandVars
  <2>1. UNCHANGED <<s, asked, todo, cur, i, out, outcome>>
    BY <1>6 DEF expandVars, entryVars
  <2> QED
    BY <2>1, StridedKept
<1> QED
  BY <1>1, <1>2, <1>3, <1>4, <1>5, <1>6 DEF ExpandNext

-----------------------------------------------------------------------------
(* Sampling per /24: the subnets. *)

\* A prefix longer than a /24 is a number of whole subnets, and its strides are
\* short enough for each.
LEMMA WholeSubnets ==
    ASSUME s \in Strategy, s.SamplePer24 > 0, NEW e \in Entry, e.fam = 4, e.bits <= W4 - SubBits
    PROVE  /\ \E b \in Nat, Q \in Nat \ {0} : e.base = b * 2^SubBits /\ total(e) = Q * 2^SubBits
           /\ stride(e) \in Nat \ {0}
           /\ Min({s.SamplePer24, 2^SubBits}) \in Nat
           /\ Min({s.SamplePer24, 2^SubBits}) * stride(e) <= 2^SubBits
<1>1. W4 \in Nat /\ SubBits \in 0..W4 /\ Width(e) = W4 /\ s.SamplePer24 \in Nat \ {0}
  BY ExpandAssumption DEF Width, Strategy
<1>2. PICK S \in Nat \ {0} : S = 2^SubBits
  BY <1>1, PowerPositive
<1>3. e.base \in Nat /\ W4 - e.bits \in Nat /\ e.bits \in Int /\ total(e) \in Nat \ {0}
  <2>1. e.bits \in Int
    BY <1>1, ExpandAssumption DEF Entry
  <2> QED
    BY <1>1, <2>1, EntrySizes
<1>4. PICK w \in Nat : w = W4 - e.bits - SubBits
  BY <1>1, <1>3
<1>5. PICK Q \in Nat \ {0} : Q = 2^w
  BY PowerPositive
<1>6. total(e) = Q * S
  <2>1. 2^(w + SubBits) = Q * S
    BY <1>1, <1>2, <1>5, PowerSum
  <2>2. w + SubBits = W4 - e.bits
    BY <1>1, <1>3, <1>4
  <2> QED
    BY <1>1, <2>1, <2>2 DEF total
<1>7. PICK b \in Nat : e.base = b * S
  <2>1. e.base % total(e) = 0
    BY <1>1 DEF Entry, total
  <2>2. PICK r \in Nat : e.base = r * total(e)
    BY <1>3, <2>1, Division
  <2>3. r * (Q * S) = (r * Q) * S /\ r * Q \in Nat
    OBVIOUS
  <2> QED
    BY <1>6, <2>2, <2>3
<1>8. PICK k \in Nat \ {0} : k = s.SamplePer24
  BY <1>1
<1>9. /\ Min({k, S}) = (IF k <= S THEN k ELSE S)
  BY DEF Min
<1>10. PICK few \in Nat : few = Min({k, S}) /\ few <= S /\ (k < S => few = k)
  BY <1>9
<1>11. stride(e) = IF w > 0 /\ Q * k < Q * S THEN (Q * S) \div (Q * k) ELSE 1
  <2>1. Width(e) - e.bits > SubBits <=> w > 0
    BY <1>1, <1>3, <1>4
  <2>2. Width(e) - e.bits - SubBits = w
    BY <1>1, <1>4
  <2> QED
    BY <1>5, <1>6, <1>8, <2>1, <2>2 DEF stride
<1>12. stride(e) \in Nat \ {0} /\ few * stride(e) <= S
  <2>1. CASE ~(w > 0 /\ Q * k < Q * S)
    BY <1>10, <1>11, <2>1
  <2>2. CASE w > 0 /\ Q * k < Q * S
    <3>1. PICK x \in Nat \ {0}, y \in Nat \ {0} : x = Q * S /\ y = Q * k
      BY Products
    <3>2. PICK d \in Nat : d = x \div y
      BY <3>1, Division
    <3>3. d * y <= x /\ x < d * y + y /\ y < x /\ stride(e) = d
      BY <1>11, <2>2, <3>1, <3>2, Division
    <3>4. d # 0
      BY <3>3
    <3>5. k < S
      <4>1. Q * k = k * Q /\ Q * S = S * Q
        OBVIOUS
      <4>2. S <= k => S * Q <= k * Q
        BY Monotonic
      <4> QED
        BY <2>2, <3>1, <4>1, <4>2
    <3>6. k * d <= S
      <4>1. d * y = (k * d) * Q /\ x = S * Q
        BY <3>1
      <4>2. k * d \in Int
        OBVIOUS
      <4> QED
        BY <3>3, <4>1, <4>2, Cancels
    <3> QED
      BY <1>10, <3>3, <3>4, <3>5, <3>6
  <2> QED
    BY <2>1, <2>2
<1> QED
  BY <1>2, <1>6, <1>7, <1>8, <1>10, <1>12

\* Each of its subnets has as many strides as were asked for.
LEMMA SubnetVisited ==
    ASSUME ExpandInv, OnlyStrided, outcome # "error",
           NEW e \in Allowed, e.fam = 4, e.bits <= W4 - SubBits,
           Visited(e, total(e)), NEW k \in Subnets(e)
    PROVE  Cardinality(Taken(k)) >= Min({asked.strategy.SamplePer24, 2^SubBits})
<1>1. s \in Strategy /\ s.SamplePer24 > 0 /\ s.SamplePer24 = asked.strategy.SamplePer24 /\ e \in Entry
  BY StridedOnly, AllowedEntry DEF ExpandInv, ExpandTypeOK
<1>2. PICK S \in Nat \ {0} : S = 2^SubBits
  BY ExpandAssumption, PowerPositive
<1>3. PICK b \in Nat, Q \in Nat \ {0} : e.base = b * S /\ total(e) = Q * S
  BY <1>1, <1>2, WholeSubnets
<1>4. PICK d \in Nat \ {0} : d = stride(e)
  BY <1>1, WholeSubnets
<1>5. PICK few \in Nat : few = Min({asked.strategy.SamplePer24, 2^SubBits}) /\ few * d <= S
  BY <1>1, <1>2, <1>4, WholeSubnets
<1>6. /\ k \in Nat
      /\ \E l \in Nat : l < Q * S /\ (b * S + l) \div S = k
  <2>1. k \in Nat
    <3>1. 2^(W4 - SubBits) \in Nat
      BY ExpandAssumption, PowerPositive
    <3> QED
      BY <3>1 DEF Subnets
  <2>2. PICK h \in Pool(e) : h[2] \div 2^SubBits = k
    BY DEF Subnets
  <2>3. PICK l \in 0..(total(e) - 1) : h = <<e.fam, e.base + l>>
    BY DEF Pool
  <2>4. l \in Nat /\ l < Q * S /\ h[2] = b * S + l
    BY <1>3, <2>3
  <2> QED
    BY <1>2, <2>1, <2>2, <2>4
<1>7. PICK l \in Nat : l < Q * S /\ (b * S + l) \div S = k
  BY <1>6
<1>8. PICK q \in Nat : k = b + q /\ q < Q
  <2>1. b * S + l \in Nat /\ b * S \in Nat /\ Q * S \in Nat /\ k * S \in Nat
    BY <1>6
  <2>2. k * S <= b * S + l /\ b * S + l < k * S + S
    BY <1>7, <2>1, Division
  <2>3. k * S < (b + Q) * S /\ b * S < (k + 1) * S
    <3>1. (b + Q) * S = b * S + Q * S /\ (k + 1) * S = k * S + S
      BY <1>6
    <3> QED
      BY <1>7, <2>1, <2>2, <3>1
  <2>4. k < b + Q /\ b < k + 1
    <3>1. (b + Q) * S \in Int /\ (k + 1) * S \in Int
      BY <1>6
    <3>2. /\ b + Q <= k => (b + Q) * S <= k * S
          /\ k + 1 <= b => (k + 1) * S <= b * S
      BY <1>6, Monotonic
    <3> QED
      BY <1>6, <2>1, <2>3, <3>1, <3>2
  <2>5. k - b \in Nat /\ k = b + (k - b) /\ k - b < Q
    BY <1>6, <2>4
  <2> QED
    BY <2>5
<1>9. PICK t \in Nat : \A j \in 0..(few - 1) : q * S <= (t + j) * d /\ (t + j) * d < (q + 1) * S
  BY <1>5, Window
<1> DEFINE J == 0..(few - 1)
           place == [j \in J |-> <<4, e.base + (t + j) * d>>]
<1>10. ASSUME NEW j \in J PROVE place[j] \in Taken(k)
  <2>1. PICK m \in Nat : m = t + j
    OBVIOUS
  <2>2. PICK o \in Nat : o = m * d
    OBVIOUS
  <2>3. q * S <= o /\ o < (q + 1) * S
    BY <1>9, <2>1, <2>2
  <2>4. o < total(e)
    <3>1. (q + 1) * S <= Q * S
      BY <1>8, Monotonic
    <3>2. (q + 1) * S \in Int /\ Q * S \in Int
      OBVIOUS
    <3> QED
      BY <1>3, <2>3, <3>1, <3>2
  <2>5. <<4, e.base + o>> \in Range(out)
    BY <1>4, <2>2, <2>4 DEF Visited
  <2>6. (b * S + o) \div S = k
    <3>1. b * S + o \in Nat
      OBVIOUS
    <3>2. k * S = b * S + q * S /\ (k + 1) * S = b * S + (q + 1) * S
      BY <1>8
    <3>3. b * S \in Int /\ q * S \in Int /\ (q + 1) * S \in Int
      OBVIOUS
    <3>4. k * S <= b * S + o /\ b * S + o < (k + 1) * S
      BY <2>3, <3>2, <3>3
    <3> QED
      BY <1>6, <3>1, <3>4, DivisionUnique
  <2>7. place[j] = <<4, e.base + o>>
    BY <2>1, <2>2
  <2>8. place[j][1] = 4 /\ place[j][2] = b * S + o
    BY <1>3, <2>7
  <2> QED
    BY <1>2, <2>5, <2>6, <2>7, <2>8 DEF Taken
<1>11. \A j, l2 \in J : place[j] = place[l2] => j = l2
  <2> SUFFICES ASSUME NEW j \in J, NEW m \in J, place[j] = place[m] PROVE j = m
    OBVIOUS
  <2>1. (t + j) * d \in Int /\ (t + m) * d \in Int /\ e.base \in Int
    BY <1>1, EntrySizes
  <2>2. (t + j) * d = (t + m) * d
    BY <2>1
  <2>3. t + j <= t + m /\ t + m <= t + j
    BY <2>1, <2>2, Cancels
  <2> QED
    BY <2>3
<1>12. IsFiniteSet(Taken(k))
  <2>1. IsFiniteSet(Range(out))
    <3>1. seen = Range(out) /\ IsFiniteSet(seen)
      BY StridedOnly DEF ExpandInv, Distinct, ExpandTypeOK
    <3> QED
      BY <3>1
  <2>2. Taken(k) \subseteq Range(out)
    BY DEF Taken
  <2> QED
    BY <2>1, <2>2, FS_Subset
<1>13. place \in Injection(J, Taken(k))
  <2>1. place \in [J -> Taken(k)]
    BY <1>10
  <2> QED
    BY <1>11, <2>1 DEF Injection, IsInjective
<1> HIDE DEF place
<1>14. Cardinality(J) <= Cardinality(Taken(k))
  BY <1>12, <1>13, FS_Injection
<1>15. Cardinality(J) = few
  BY FS_Interval
<1>16. Cardinality(Taken(k)) \in Nat
  BY <1>12, FS_CardinalityType
<1> QED
  BY <1>5, <1>14, <1>15, <1>16

\* Sampling passes over no /24 (`expandPrefix4` with `SamplePer24`): each one of
\* a prefix longer than a /24 gives at least as many hosts as asked for, or all,
\* for every width, every list and every sample.
THEOREM SubnetsSampled == ExpandSpec => []EverySubnetSampled
<1>1. ExpandInv /\ Strided => EverySubnetSampled
  <2> SUFFICES ASSUME ExpandInv, Strided, outcome = "done", OnlyStrided,
                      NEW e \in Allowed, e.fam = 4, e.bits <= W4 - SubBits, NEW k \in Subnets(e)
               PROVE  Cardinality(Taken(k)) >= Min({asked.strategy.SamplePer24, 2^SubBits})
    BY DEF EverySubnetSampled
  <2>1. todo = <<>> /\ cur = <<>>
    BY DEF ExpandInv, Cursor
  <2>2. e \notin Range(todo) /\ cur # <<e>>
    BY <2>1 DEF Range
  <2>3. Visited(e, total(e))
    BY <2>2 DEF Strided
  <2> QED
    BY <2>3, SubnetVisited
<1> QED
  BY <1>1, StridedInit, StridedStep, ExpandInvariance, PTL DEF ExpandSpec

=============================================================================
