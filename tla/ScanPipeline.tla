----------------------------- MODULE ScanPipeline -----------------------------
(****************************************************************************)
(* A scan from the request to the saved results: the targets of the request *)
(* one after the other, each with its configuration, its ranges, the two    *)
(* stages and the results file; while the user edits targets and may cancel *)
(* the scan at any moment.                                                  *)
(*                                                                          *)
(* The ranges of a target are the set of hosts they expand to (HostExpand   *)
(* has the expansion), a stage is one step that keeps some of them          *)
(* (TcpSweep and XrayBatches have the stages), and the fetch is one step    *)
(* that succeeds or not (RangeFetch).  A request of the command line has    *)
(* several targets, all of the manifest; one of the browser has one, or its *)
(* own custom ranges.  Files are truncated and then written: a write that   *)
(* fails leaves the old file, or one that is cut short and cannot be read.  *)
(****************************************************************************)
EXTENDS Naturals, Sequences, FiniteSets, Functions, SequencesExt

CONSTANTS Targets, Builtins,   \* names; those of the manifest
          Hosts, Usable,       \* all hosts; those of the families scanned
          Lists,               \* the ranges that users and feeds give
          NoFile, CutShort,    \* no results file; one that is cut short
          Queues               \* the target lists that are requested

ASSUME PipelineAssumption ==
    /\ Builtins \subseteq Targets /\ Usable \subseteq Hosts
    /\ Lists \subseteq SUBSET Hosts
    /\ Queues \subseteq Seq(Targets) \ {<<>>}
    /\ \A q \in Queues : Len(q) > 1 => Range(q) \subseteq Builtins

Ranges == SUBSET Hosts
Request == [Custom : {<<>>} \union {<<r>> : r \in Lists \ {{}}},
            Link : {"none", "good", "bad"}, Refresh : BOOLEAN]

VARIABLES ranges,      \* the ranges of each target in the registry
          cache,       \* cache[t]: ips/<t>.json, or NoFile: missing or cut
                       \* short, which Load does not tell apart
          results,     \* results[t]: results/<t>.json, or NoFile or CutShort
          before,      \* results when the request was made (history)
          req, given,  \* the request and its targets
          queue,       \* those not yet scanned
          custom,      \* the ranges the configuration carries, or <<>>
          stage,       \* where the scan of Head(queue) is
          live,        \* the context was live when the stage began
          hosts, survivors, entries,   \* of the scan of Head(queue)
          summaries, failures,         \* of the request
          cancelled

scanVars == <<req, given, queue, custom, stage, live, hosts, survivors, entries,
              summaries, failures>>
vars == <<ranges, cache, results, before, scanVars, cancelled>>

Init == /\ ranges = [t \in Targets |-> IF t \in Builtins THEN {} ELSE Hosts]
        /\ cache = [t \in Targets |-> NoFile]
        /\ results = [t \in Targets |-> NoFile] /\ before = results
        /\ req = [Custom |-> <<>>, Link |-> "none", Refresh |-> FALSE]
        /\ given = <<>> /\ queue = <<>> /\ custom = <<>> /\ stage = "idle" /\ live = TRUE
        /\ hosts = {} /\ survivors = {} /\ entries = {}
        /\ summaries = <<>> /\ failures = <<>>
        /\ cancelled = FALSE

cdn == Head(queue)

Goto(st) == stage' = st /\ live' = ~cancelled

-----------------------------------------------------------------------------
(* The user *)

\* A request; explicit ranges come with one name.
Submit == /\ stage = "idle"
          /\ \E r \in Request, q \in Queues :
               /\ r.Custom # <<>> => Len(q) = 1
               /\ req' = r /\ given' = q /\ queue' = q
          /\ summaries' = <<>> /\ failures' = <<>> /\ before' = results
          /\ cancelled' = FALSE
          /\ stage' = "config" /\ live' = TRUE
          /\ UNCHANGED <<ranges, cache, results, custom, hosts, survivors, entries>>

\* What a write of r to the range file of t leaves, if it fails too.
Rewritten(t, r) == [cache EXCEPT ![t] = r]
NotSaved(t) == {cache, [cache EXCEPT ![t] = NoFile]}

\* A target is saved in the browser, whose requests have one target: the registry
\* has it although a built-in's range file could not be written.  (After a list
\* of the command line an edit waits for the next request: buildConfig sees it.)
Edit == /\ Len(given) <= 1
        /\ \E t \in Targets, r \in Lists :
             /\ ranges' = [ranges EXCEPT ![t] = r]
             /\ \/ t \notin Builtins /\ cache' = cache
                \/ t \in Builtins /\ cache' \in {Rewritten(t, r)} \union NotSaved(t)
        /\ UNCHANGED <<results, before, scanVars, cancelled>>

\* Stop, or an interrupt.
Cancel == /\ stage # "idle" /\ ~cancelled
          /\ cancelled' = TRUE
          /\ UNCHANGED <<ranges, cache, results, before, scanVars>>

-----------------------------------------------------------------------------
(* One target *)

\* Faulty variant: a target without ranges is not fetched.
configEmpty == IF req.Custom # <<>> THEN req.Custom
               ELSE IF ~req.Refresh THEN <<ranges[cdn]>> ELSE <<>>

\* The ranges buildConfig puts into the configuration.
configRanges == IF req.Custom # <<>> THEN req.Custom
                ELSE IF ranges[cdn] # {} /\ ~req.Refresh THEN <<ranges[cdn]>> ELSE <<>>

\* The scan of a target is over, and its variables are gone; the next one
\* follows.
Onward == /\ queue' = Tail(queue) /\ Goto(IF Tail(queue) = <<>> THEN "idle" ELSE "config")
          /\ custom' = <<>> /\ hosts' = {} /\ survivors' = {} /\ entries' = {}

\* buildConfig: a link that does not parse ends the whole request, and so does a
\* good one when no xray binary can be resolved or no prober made of it.
BuildConfig ==
    /\ stage = "config"
    /\ \/ \E why \in {"link", "xray"} :
            /\ req.Link = IF why = "link" THEN "bad" ELSE "good"
            /\ failures' = Append(failures, [target |-> cdn, why |-> why])
            /\ queue' = <<>> /\ Goto("idle")
            /\ custom' = custom
       \/ /\ req.Link # "bad"
          /\ custom' = configRanges /\ Goto("ranges")
          /\ UNCHANGED <<queue, failures>>
    /\ UNCHANGED <<ranges, cache, results, before, req, given, hosts, survivors, entries,
                   summaries, cancelled>>

\* Faulty variant: a failed target ends the request.
FailedLast(why) == /\ failures' = Append(failures, [target |-> cdn, why |-> why])
                   /\ queue' = <<>> /\ Goto("idle")
                   /\ custom' = <<>> /\ hosts' = {} /\ survivors' = {} /\ entries' = {}
                   /\ UNCHANGED summaries

\* The scan of a target fails: it is logged, the next one follows.
Failed(why) == /\ failures' = Append(failures, [target |-> cdn, why |-> why])
               /\ Onward
               /\ UNCHANGED summaries

\* The hosts to scan, of the families that are scanned.
Scan(r) == /\ hosts' = r \intersect Usable
           /\ Goto("tcp")
           /\ UNCHANGED <<queue, custom, survivors, entries, summaries, failures>>

CacheServes == ~req.Refresh /\ cache[cdn] # NoFile /\ cache[cdn] # {}

\* runOne up to stage 1: the configured ranges, those of the cache, or fetched
\* ones, which are cached but not given to the registry; ranges that cannot be
\* cached are not scanned.
Resolve ==
    /\ stage = "ranges"
    /\ \/ custom # <<>> /\ Scan(Head(custom)) /\ cache' = cache
       \/ custom = <<>> /\ CacheServes /\ Scan(cache[cdn]) /\ cache' = cache
       \/ /\ custom = <<>> /\ ~CacheServes
          /\ \/ cdn \notin Builtins /\ Failed("unknown CDN") /\ cache' = cache
             \/ cdn \in Builtins /\ Failed("fetch") /\ cache' = cache
             \/ /\ cdn \in Builtins /\ live
                /\ \/ \E r \in Lists : Scan(r) /\ cache' = Rewritten(cdn, r)
                   \/ Failed("save") /\ cache' \in NotSaved(cdn)
    /\ UNCHANGED <<ranges, results, before, req, given, cancelled>>

\* stage1: some of the hosts answer; none if the context was done before.
Stage1 == /\ stage = "tcp"
          /\ survivors' \in IF live THEN SUBSET hosts ELSE {{}}
          /\ Goto("xray")
          /\ UNCHANGED <<ranges, cache, results, before, req, given, queue, custom, hosts,
                         entries, summaries, failures, cancelled>>

\* stage2: without a link there are no entries.
Stage2 == /\ stage = "xray"
          /\ entries' \in IF live /\ req.Link = "good" THEN SUBSET survivors ELSE {{}}
          /\ Goto("write")
          /\ UNCHANGED <<ranges, cache, results, before, req, given, queue, custom, hosts,
                         survivors, summaries, failures, cancelled>>

\* Faulty variant: a summary names the target that comes last.
SummaryOfLast == [target |-> Last(queue), hosts |-> hosts, endpoints |-> survivors,
                  entries |-> entries]

Summary == [target |-> cdn, hosts |-> hosts, endpoints |-> survivors, entries |-> entries]

\* results/<cdn>.json, written or not.
Written == [results EXCEPT ![cdn] = entries]
NotWritten == {results, [results EXCEPT ![cdn] = CutShort]}

\* Faulty variant: a failed write still gives a summary.
WriteUnchecked ==
    /\ stage = "write"
    /\ results' \in {Written} \union NotWritten
    /\ summaries' = Append(summaries, Summary) /\ Onward
    /\ UNCHANGED <<ranges, cache, before, req, given, failures, cancelled>>

\* output.Write, whatever the entries; without a file there is no summary.
Write ==
    /\ stage = "write"
    /\ \/ /\ results' = Written
          /\ summaries' = Append(summaries, Summary) /\ Onward
          /\ failures' = failures
       \/ Failed("write") /\ results' \in NotWritten
    /\ UNCHANGED <<ranges, cache, before, req, given, cancelled>>

Step == BuildConfig \/ Resolve \/ Stage1 \/ Stage2 \/ Write

Next == Submit \/ Edit \/ Cancel \/ Step

Spec == Init /\ [][Next]_vars

-----------------------------------------------------------------------------
(* Properties *)

File == Ranges \union {NoFile}
ResultFile == File \union {CutShort}
Reasons == {"link", "xray", "unknown CDN", "fetch", "save", "write"}

\* Type invariant of the pipeline.
TypeOK == /\ ranges \in [Targets -> Ranges] /\ cache \in [Targets -> File]
          /\ results \in [Targets -> ResultFile] /\ before \in [Targets -> ResultFile]
          /\ req \in Request /\ given \in Seq(Targets) /\ queue \in Seq(Targets)
          /\ custom = <<>> \/ custom \in {<<r>> : r \in Ranges \ {{}}}
          /\ stage \in {"idle", "config", "ranges", "tcp", "xray", "write"}
          /\ live \in BOOLEAN /\ cancelled \in BOOLEAN
          /\ hosts \subseteq Hosts /\ survivors \subseteq Hosts /\ entries \subseteq Hosts
          /\ \A k \in DOMAIN summaries : summaries[k].target \in Targets
          /\ \A k \in DOMAIN failures : failures[k].why \in Reasons

Reported(t) == \E k \in DOMAIN summaries : summaries[k].target = t
WriteFailed(t) == \E k \in DOMAIN failures : failures[k] = [target |-> t, why |-> "write"]

\* A summary is never given without its file: the last summary of a target and
\* its results file agree, until the next scan of the target is written; and
\* what it reports are hosts of the scanned families that passed every stage
\* before, although targets are edited meanwhile.  Only a later write of the
\* same target that fails can spoil the file: a request may name one twice.
SummaryIsSaved ==
    /\ \A k \in DOMAIN summaries :
         /\ summaries[k].entries \subseteq summaries[k].endpoints
         /\ summaries[k].endpoints \subseteq summaries[k].hosts
         /\ summaries[k].hosts \subseteq Usable
    /\ \A k \in DOMAIN summaries :
         (\A j \in DOMAIN summaries : j > k => summaries[j].target # summaries[k].target)
           => \/ results[summaries[k].target] = summaries[k].entries
              \/ /\ results[summaries[k].target] = CutShort
                 /\ WriteFailed(summaries[k].target)

taken == Len(summaries) + Len(failures)

\* The request was given up by buildConfig.
GivenUp == \E k \in DOMAIN failures : failures[k].why \in {"link", "xray"}

\* The k-th outcome of a log is one of the targets taken from the k-th on.
InOrder(log) == \A k \in DOMAIN log : \E j \in k..taken : log[k].target = given[j]

\* One failing target does not take the others with it: every target of the
\* request has a summary or a failure or is still to come, in the order of the
\* request.  Only buildConfig gives up the targets that are left, and then the
\* last failure is of the target it gave up at, and those before it have their
\* outcomes.
EveryTargetAccounted ==
    /\ ~GivenUp => taken + Len(queue) = Len(given)
    /\ GivenUp => /\ queue = <<>> /\ taken \in DOMAIN given
                  /\ Last(failures).target = given[taken]
    /\ InOrder(summaries) /\ InOrder(failures)

\* A target holds the results it had before the request until it has a summary
\* of its own, whatever the scans of other targets, the cancellation and all its
\* failures do, but for one: a failed write may cut its old results short.
OldResultsKept ==
    \A t \in Targets :
        \/ results[t] = before[t]
        \/ Reported(t)
        \/ results[t] = CutShort /\ WriteFailed(t)

=============================================================================
