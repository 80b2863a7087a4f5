-------------------------- MODULE ScanPipelineProofs --------------------------
(* Proofs about ScanPipeline, for all targets, hosts and requests.          *)
EXTENDS ScanPipeline, SequenceTheorems, TLAPS

SummaryRec == [target : Targets, hosts : Ranges, endpoints : Ranges, entries : Ranges]
FailureRec == [target : Targets, why : Reasons]

Logs == summaries \in Seq(SummaryRec) /\ failures \in Seq(FailureRec)

\* A request is under way as long as targets are left, and what a stage keeps
\* is part of what it was given; before a stage there is nothing.
Funnel == /\ stage = "idle" <=> queue = <<>>
          /\ hosts \subseteq Usable /\ survivors \subseteq hosts /\ entries \subseteq survivors
          /\ stage \in {"idle", "config", "ranges"} => hosts = {}
          /\ stage \in {"idle", "config", "ranges", "tcp"} => survivors = {}

\* The targets left are the last ones of the request.
Suffix == /\ Len(queue) <= Len(given)
          /\ \A i \in 1..Len(queue) : queue[i] = given[Len(given) - Len(queue) + i]

IInv == /\ TypeOK /\ Logs /\ Funnel /\ Suffix
        /\ SummaryIsSaved /\ EveryTargetAccounted /\ OldResultsKept

-----------------------------------------------------------------------------
\* What Append does to a log, seen from its positions.
LEMMA Longer ==
    ASSUME NEW S, NEW s \in Seq(S), NEW x \in S
    PROVE  /\ Append(s, x) \in Seq(S) /\ Len(s) \in Nat
           /\ Len(Append(s, x)) = Len(s) + 1
           /\ DOMAIN s = 1..Len(s) /\ DOMAIN Append(s, x) = 1..(Len(s) + 1)
           /\ \A k \in DOMAIN s : k \in DOMAIN Append(s, x) /\ Append(s, x)[k] = s[k]
           /\ \A k \in DOMAIN Append(s, x) : k \in DOMAIN s \/ k = Len(s) + 1
           /\ Append(s, x)[Len(s) + 1] = x
           /\ Last(Append(s, x)) = x
<1>1. /\ Append(s, x) \in Seq(S) /\ Len(Append(s, x)) = Len(s) + 1
      /\ \A k \in 1..Len(s) : Append(s, x)[k] = s[k]
      /\ Append(s, x)[Len(s) + 1] = x
  BY AppendProperties
<1>2. Len(s) \in Nat /\ DOMAIN s = 1..Len(s) /\ DOMAIN Append(s, x) = 1..(Len(s) + 1)
  BY <1>1, LenProperties
<1>3. Last(Append(s, x)) = x
  BY <1>1 DEF Last
<1> QED
  BY <1>1, <1>2, <1>3

\* The target being scanned is the first one of the request without an outcome.
LEMMA CurrentTarget ==
    ASSUME IInv, stage # "idle"
    PROVE  /\ queue \in Seq(Targets) /\ queue # <<>> /\ Len(queue) \in Nat \ {0}
           /\ given \in Seq(Targets) /\ Len(given) \in Nat
           /\ Len(summaries) \in Nat /\ Len(failures) \in Nat /\ taken \in Nat
           /\ ~GivenUp /\ taken + Len(queue) = Len(given)
           /\ taken + 1 \in DOMAIN given
           /\ cdn \in Targets /\ cdn = given[taken + 1]
           /\ Tail(queue) \in Seq(Targets) /\ Len(Tail(queue)) = Len(queue) - 1
           /\ \A i \in 1..Len(Tail(queue)) : Tail(queue)[i] = queue[i + 1]
<1>1. queue \in Seq(Targets) /\ queue # <<>> /\ given \in Seq(Targets)
  BY DEF IInv, TypeOK, Funnel
<1>2. Len(queue) \in Nat \ {0} /\ Len(given) \in Nat /\ DOMAIN given = 1..Len(given)
  BY <1>1, EmptySeq, LenProperties
<1>3. Len(summaries) \in Nat /\ Len(failures) \in Nat /\ taken \in Nat
  BY LenProperties DEF IInv, Logs, taken
<1>4. cdn = queue[1] /\ cdn \in Targets
  BY <1>1, <1>2 DEF cdn
<1>5. ~GivenUp /\ taken + Len(queue) = Len(given)
  BY <1>1 DEF IInv, EveryTargetAccounted
<1>6. queue[1] = given[Len(given) - Len(queue) + 1]
  BY <1>2 DEF IInv, Suffix
<1>7. Len(given) - Len(queue) + 1 = taken + 1 /\ taken + 1 \in DOMAIN given
  BY <1>2, <1>3, <1>5
<1> QED
  BY <1>1, <1>2, <1>3, <1>4, <1>5, <1>6, <1>7, HeadTailProperties

LEMMA InitIInv == Init => IInv
<1> SUFFICES ASSUME Init PROVE IInv
  OBVIOUS
<1>1. /\ given = <<>> /\ queue = <<>> /\ summaries = <<>> /\ failures = <<>>
      /\ Len(given) = 0 /\ Len(queue) = 0 /\ Len(summaries) = 0 /\ Len(failures) = 0
      /\ DOMAIN summaries = {} /\ DOMAIN failures = {}
  BY EmptySeq DEF Init
<1>2. TypeOK
  <2>1. req \in Request
    BY DEF Init, Request
  <2>2. /\ ranges \in [Targets -> Ranges] /\ cache \in [Targets -> File]
        /\ results \in [Targets -> ResultFile] /\ before \in [Targets -> ResultFile]
    BY DEF Init, Ranges, File, ResultFile
  <2>3. given \in Seq(Targets) /\ queue \in Seq(Targets)
    BY <1>1
  <2> QED
    BY <1>1, <2>1, <2>2, <2>3 DEF Init, TypeOK
<1>3. Logs
  BY <1>1 DEF Logs
<1>4. Funnel
  BY DEF Init, Funnel
<1>5. Suffix
  BY <1>1 DEF Suffix
<1>6. SummaryIsSaved /\ EveryTargetAccounted
  BY <1>1 DEF SummaryIsSaved, EveryTargetAccounted, GivenUp, InOrder, taken
<1>7. OldResultsKept
  BY DEF Init, OldResultsKept
<1> QED
  BY <1>2, <1>3, <1>4, <1>5, <1>6, <1>7 DEF IInv

-----------------------------------------------------------------------------
(* What the steps have in common. *)

\* The record of a failed scan.
LEMMA FailureLogged ==
    ASSUME IInv, stage # "idle", NEW w \in Reasons,
           failures' = Append(failures, [target |-> cdn, why |-> w]), summaries' = summaries
    PROVE  /\ Logs' /\ \A k \in DOMAIN failures' : failures'[k].why \in Reasons
           /\ taken' = taken + 1 /\ Last(failures').target = cdn
           /\ \A k \in DOMAIN failures : k \in DOMAIN failures' /\ failures'[k] = failures[k]
           /\ \A k \in DOMAIN failures' : \/ k \in DOMAIN failures
                                          \/ k = Len(failures) + 1 /\ failures'[k].target = cdn
           /\ \A t : WriteFailed(t) => WriteFailed(t)'
           /\ w = "write" => \E k \in DOMAIN failures' :
                               failures'[k] = [target |-> cdn, why |-> "write"]
           /\ GivenUp' <=> w \in {"link", "xray"}
<1> DEFINE f == [target |-> cdn, why |-> w]
<1>1. f \in FailureRec /\ f.target = cdn /\ f.why = w
  BY CurrentTarget DEF FailureRec
<1>2. failures \in Seq(FailureRec) /\ failures' = Append(failures, f)
  BY DEF IInv, Logs
<1>3. /\ failures' \in Seq(FailureRec) /\ Len(failures) \in Nat
      /\ Len(failures') = Len(failures) + 1
      /\ DOMAIN failures = 1..Len(failures) /\ DOMAIN failures' = 1..(Len(failures) + 1)
      /\ \A k \in DOMAIN failures : k \in DOMAIN failures' /\ failures'[k] = failures[k]
      /\ \A k \in DOMAIN failures' : k \in DOMAIN failures \/ k = Len(failures) + 1
      /\ failures'[Len(failures) + 1] = f
      /\ Last(failures') = f
  <2> HIDE DEF f
  <2> QED
    BY <1>1, <1>2, Longer
<1>4. Logs'
  BY <1>3 DEF IInv, Logs
<1>5. \A k \in DOMAIN failures' : failures'[k].why \in Reasons
  <2>1. \A k \in DOMAIN failures' : failures'[k] \in FailureRec
    BY <1>3, ElementOfSeq
  <2> QED
    BY <2>1 DEF FailureRec
<1>6. taken' = taken + 1
  BY <1>3, CurrentTarget DEF taken
<1>7. \A t : WriteFailed(t) => WriteFailed(t)'
  BY <1>3 DEF WriteFailed
<1>8. w = "write" => \E k \in DOMAIN failures' :
                       failures'[k] = [target |-> cdn, why |-> "write"]
  <2>1. Len(failures) + 1 \in DOMAIN failures'
    BY <1>3
  <2> QED
    BY <1>3, <2>1
<1>9. GivenUp' <=> w \in {"link", "xray"}
  <2>1. ~GivenUp
    BY CurrentTarget
  <2>2. Len(failures) + 1 \in DOMAIN failures'
    BY <1>3
  <2> QED
    BY <1>1, <1>3, <2>1, <2>2 DEF GivenUp
<1> QED
  BY <1>1, <1>3, <1>4, <1>5, <1>6, <1>7, <1>8, <1>9

\* The record of a scan that ended well.
LEMMA SummaryLogged ==
    ASSUME IInv, stage # "idle", summaries' = Append(summaries, Summary), failures' = failures
    PROVE  /\ Logs' /\ \A k \in DOMAIN summaries' : summaries'[k].target \in Targets
           /\ taken' = taken + 1
           /\ \A k \in DOMAIN summaries : k \in DOMAIN summaries' /\ summaries'[k] = summaries[k]
           /\ Len(summaries) + 1 \in DOMAIN summaries' /\ summaries'[Len(summaries) + 1] = Summary
           /\ \A k \in DOMAIN summaries' :
                \/ k \in DOMAIN summaries /\ k \in Nat /\ Len(summaries) + 1 > k
                \/ k = Len(summaries) + 1
<1>1. hosts \in Ranges /\ survivors \in Ranges /\ entries \in Ranges
  BY DEF IInv, TypeOK, Ranges
<1>2. Summary \in SummaryRec
  BY <1>1, CurrentTarget DEF Summary, SummaryRec
<1>3. summaries \in Seq(SummaryRec)
  BY DEF IInv, Logs
<1>4. /\ summaries' \in Seq(SummaryRec) /\ Len(summaries) \in Nat
      /\ Len(summaries') = Len(summaries) + 1
      /\ DOMAIN summaries = 1..Len(summaries) /\ DOMAIN summaries' = 1..(Len(summaries) + 1)
      /\ \A k \in DOMAIN summaries : k \in DOMAIN summaries' /\ summaries'[k] = summaries[k]
      /\ \A k \in DOMAIN summaries' : k \in DOMAIN summaries \/ k = Len(summaries) + 1
      /\ summaries'[Len(summaries) + 1] = Summary
  BY <1>2, <1>3, Longer
<1>5. Logs'
  BY <1>4 DEF IInv, Logs
<1>6. \A k \in DOMAIN summaries' : summaries'[k].target \in Targets
  <2>1. \A k \in DOMAIN summaries' : summaries'[k] \in SummaryRec
    BY <1>4, ElementOfSeq
  <2> QED
    BY <2>1 DEF SummaryRec
<1>7. taken' = taken + 1
  BY <1>4, CurrentTarget DEF taken
<1>8. \A k \in DOMAIN summaries : k \in Nat /\ Len(summaries) + 1 > k
  BY <1>4
<1>9. Len(summaries) + 1 \in DOMAIN summaries'
  BY <1>4
<1> QED
  BY <1>4, <1>5, <1>6, <1>7, <1>8, <1>9

\* Going on to the next target of the request, or ending it.
LEMMA GoOn ==
    ASSUME IInv, stage # "idle", Onward, given' = given
    PROVE  /\ queue' \in Seq(Targets) /\ Len(queue') = Len(queue) - 1
           /\ stage' \in {"idle", "config"} /\ (stage' = "idle" <=> queue' = <<>>)
           /\ live' \in BOOLEAN /\ custom' = <<>>
           /\ hosts' = {} /\ survivors' = {} /\ entries' = {}
           /\ Suffix' /\ Funnel'
<1>1. queue' = Tail(queue) /\ queue' \in Seq(Targets) /\ Len(queue') = Len(queue) - 1
  BY CurrentTarget DEF Onward
<1>2. stage' \in {"idle", "config"} /\ (stage' = "idle" <=> queue' = <<>>)
  BY DEF Onward, Goto
<1>3. live' \in BOOLEAN /\ custom' = <<>> /\ hosts' = {} /\ survivors' = {} /\ entries' = {}
  BY DEF Onward, Goto
<1>4. Len(queue) <= Len(given) /\ Len(queue) \in Nat /\ Len(given) \in Nat
  BY CurrentTarget DEF IInv, Suffix
<1>5. ASSUME NEW i \in 1..Len(queue')
      PROVE  queue'[i] = given'[Len(given') - Len(queue') + i]
  <2>1. i + 1 \in 1..Len(queue)
    BY <1>1, <1>4
  <2>2. queue'[i] = queue[i + 1]
    BY <1>1, CurrentTarget
  <2>3. queue[i + 1] = given[Len(given) - Len(queue) + (i + 1)]
    BY <2>1 DEF IInv, Suffix
  <2>4. Len(given) - Len(queue) + (i + 1) = Len(given') - Len(queue') + i
    BY <1>1, <1>4
  <2> QED
    BY <2>2, <2>3, <2>4
<1>6. Suffix'
  <2>1. Len(queue') <= Len(given')
    BY <1>1, <1>4
  <2> QED
    BY <1>5, <2>1 DEF Suffix
<1>7. Funnel'
  BY <1>2, <1>3 DEF Funnel
<1> QED
  BY <1>1, <1>2, <1>3, <1>6, <1>7

\* A step that gives no summary, and spoils only files that it logs as spoilt,
\* keeps the promises about the files.
LEMMA FilesStay ==
    ASSUME IInv, summaries' = summaries, before' = before,
           \A t : WriteFailed(t) => WriteFailed(t)',
           \A t \in Targets : \/ results'[t] = results[t]
                              \/ results'[t] = CutShort /\ WriteFailed(t)'
    PROVE  SummaryIsSaved' /\ OldResultsKept'
<1>1. SummaryIsSaved'
  <2>1. \A k \in DOMAIN summaries : summaries[k].target \in Targets
    BY DEF IInv, TypeOK
  <2> QED
    BY <2>1 DEF IInv, SummaryIsSaved
<1>2. OldResultsKept'
  BY DEF IInv, OldResultsKept, Reported
<1> QED
  BY <1>1, <1>2

\* An outcome of the target being scanned follows the order of the request.
LEMMA OrderStays ==
    ASSUME IInv, stage # "idle", given' = given, taken' = taken + 1,
           NEW old, InOrder(old), NEW new,
           \A k \in DOMAIN new : /\ k \in Nat
                                 /\ \/ k \in DOMAIN old /\ new[k].target = old[k].target
                                    \/ k <= taken + 1 /\ new[k].target = cdn
    PROVE  \A k \in DOMAIN new : \E j \in k..taken' : new[k].target = given'[j]
<1> SUFFICES ASSUME NEW k \in DOMAIN new
             PROVE  \E j \in k..taken' : new[k].target = given'[j]
  OBVIOUS
<1>1. taken \in Nat /\ k \in Nat /\ cdn = given[taken + 1]
  BY CurrentTarget
<1>2. CASE k \in DOMAIN old /\ new[k].target = old[k].target
  <2>1. PICK j \in k..taken : old[k].target = given[j]
    BY <1>2 DEF InOrder
  <2>2. j \in k..taken'
    BY <1>1
  <2> QED
    BY <1>2, <2>1, <2>2
<1>3. CASE k <= taken + 1 /\ new[k].target = cdn
  <2>1. taken + 1 \in k..taken'
    BY <1>1, <1>3
  <2> QED
    BY <1>1, <1>3, <2>1
<1> QED
  BY <1>2, <1>3

\* One more failure for the target at the head of the queue, which goes on or,
\* if buildConfig gives up, is dropped.
LEMMA FailureAccounted ==
    ASSUME IInv, stage # "idle", given' = given, NEW w \in Reasons,
           failures' = Append(failures, [target |-> cdn, why |-> w]), summaries' = summaries,
           IF w \in {"link", "xray"} THEN queue' = <<>> ELSE Len(queue') = Len(queue) - 1
    PROVE  EveryTargetAccounted'
<1>1. /\ taken' = taken + 1 /\ Last(failures').target = cdn
      /\ \A k \in DOMAIN failures : k \in DOMAIN failures' /\ failures'[k] = failures[k]
      /\ \A k \in DOMAIN failures' : \/ k \in DOMAIN failures
                                     \/ k = Len(failures) + 1 /\ failures'[k].target = cdn
      /\ GivenUp' <=> w \in {"link", "xray"}
  BY FailureLogged
<1>2. /\ taken \in Nat /\ Len(queue) \in Nat /\ taken + Len(queue) = Len(given)
      /\ taken + 1 \in DOMAIN given /\ cdn = given[taken + 1]
      /\ Len(failures) \in Nat /\ Len(summaries) \in Nat
  BY CurrentTarget
<1>3. DOMAIN failures = 1..Len(failures) /\ DOMAIN summaries = 1..Len(summaries)
  BY LenProperties DEF IInv, Logs
<1>4. InOrder(summaries) /\ InOrder(failures)
  BY DEF IInv, EveryTargetAccounted
<1>5. InOrder(summaries)'
  <2>1. \A k \in DOMAIN summaries' : /\ k \in Nat
                                     /\ k \in DOMAIN summaries
                                     /\ summaries'[k].target = summaries[k].target
    BY <1>2, <1>3
  <2>2. \A k \in DOMAIN summaries' : \E j \in k..taken' : summaries'[k].target = given'[j]
    BY <1>1, <1>4, <2>1, OrderStays
  <2> QED
    BY <2>2 DEF InOrder
<1>6. InOrder(failures)'
  <2>1. ASSUME NEW k \in DOMAIN failures'
        PROVE  /\ k \in Nat
               /\ \/ k \in DOMAIN failures /\ failures'[k].target = failures[k].target
                  \/ k <= taken + 1 /\ failures'[k].target = cdn
    <3>1. CASE k \in DOMAIN failures
      BY <1>1, <1>2, <1>3, <3>1
    <3>2. CASE k = Len(failures) + 1 /\ failures'[k].target = cdn
      BY <1>2, <3>2 DEF taken
    <3> QED
      BY <1>1, <3>1, <3>2
  <2>2. \A k \in DOMAIN failures' : \E j \in k..taken' : failures'[k].target = given'[j]
    BY <1>1, <1>4, <2>1, OrderStays
  <2> QED
    BY <2>2 DEF InOrder
<1>7. ~GivenUp' => taken' + Len(queue') = Len(given')
  BY <1>1, <1>2
<1>8. GivenUp' => /\ queue' = <<>> /\ taken' \in DOMAIN given'
                  /\ Last(failures').target = given'[taken']
  BY <1>1, <1>2
<1> QED
  BY <1>5, <1>6, <1>7, <1>8 DEF EveryTargetAccounted

-----------------------------------------------------------------------------
\* A failure is logged and the request goes on, whatever else the step does to
\* the cache; the results file changes only if it could not be written.
LEMMA FailedStep ==
    ASSUME IInv, stage # "idle", NEW w \in {"unknown CDN", "fetch", "save", "write"}, Failed(w),
           UNCHANGED <<ranges, before, req, given, cancelled>>,
           cache' \in [Targets -> File],
           \/ results' = results
           \/ w = "write" /\ results' = [results EXCEPT ![cdn] = CutShort]
    PROVE  IInv'
<1>1. /\ w \in Reasons /\ failures' = Append(failures, [target |-> cdn, why |-> w])
      /\ Onward /\ summaries' = summaries
  BY DEF Failed, Reasons
<1>2. /\ queue' \in Seq(Targets) /\ Len(queue') = Len(queue) - 1
      /\ stage' \in {"idle", "config"}
      /\ live' \in BOOLEAN /\ custom' = <<>>
      /\ hosts' = {} /\ survivors' = {} /\ entries' = {}
      /\ Suffix' /\ Funnel'
  BY <1>1, GoOn
<1>3. /\ Logs' /\ \A k \in DOMAIN failures' : failures'[k].why \in Reasons
      /\ \A t : WriteFailed(t) => WriteFailed(t)'
      /\ w = "write" => \E k \in DOMAIN failures' :
                          failures'[k] = [target |-> cdn, why |-> "write"]
  BY <1>1, FailureLogged
<1>4. cdn \in Targets /\ results \in [Targets -> ResultFile]
  BY CurrentTarget DEF IInv, TypeOK
<1>5. results' \in [Targets -> ResultFile]
  BY <1>4 DEF ResultFile
<1>6. TypeOK'
  BY <1>1, <1>2, <1>3, <1>5 DEF IInv, TypeOK
<1>7. SummaryIsSaved' /\ OldResultsKept'
  <2>1. ASSUME NEW t \in Targets
        PROVE  results'[t] = results[t] \/ (results'[t] = CutShort /\ WriteFailed(t)')
    <3>1. CASE results' = results
      BY <3>1
    <3>2. CASE w = "write" /\ results' = [results EXCEPT ![cdn] = CutShort] /\ t = cdn
      BY <1>3, <1>4, <3>2 DEF WriteFailed
    <3>3. CASE w = "write" /\ results' = [results EXCEPT ![cdn] = CutShort] /\ t # cdn
      BY <1>4, <3>3
    <3> QED
      BY <3>1, <3>2, <3>3
  <2> QED
    BY <1>1, <1>3, <2>1, FilesStay
<1>8. EveryTargetAccounted'
  BY <1>1, <1>2, FailureAccounted
<1> QED
  BY <1>2, <1>3, <1>6, <1>7, <1>8 DEF IInv

\* A step within the scan of one target that logs nothing and writes nothing.
LEMMA InnerStep ==
    ASSUME IInv, stage # "idle",
           UNCHANGED <<ranges, results, before, req, given, queue, summaries, failures, cancelled>>,
           cache' \in [Targets -> File],
           custom' = <<>> \/ custom' \in {<<r>> : r \in Ranges \ {{}}},
           stage' \in {"ranges", "tcp", "xray", "write"}, live' \in BOOLEAN,
           hosts' \subseteq Usable, survivors' \subseteq hosts', entries' \subseteq survivors',
           stage' = "ranges" => hosts' = {},
           stage' \in {"ranges", "tcp"} => survivors' = {}
    PROVE  IInv'
<1>1. queue # <<>>
  BY CurrentTarget
<1>2. hosts' \subseteq Hosts /\ survivors' \subseteq Hosts /\ entries' \subseteq Hosts
  BY PipelineAssumption
<1>3. TypeOK'
  BY <1>2 DEF IInv, TypeOK
<1>4. Logs' /\ Suffix'
  BY DEF IInv, Logs, Suffix
<1>5. Funnel'
  BY <1>1 DEF Funnel
<1>6. SummaryIsSaved' /\ OldResultsKept'
  BY FilesStay DEF WriteFailed
<1>7. EveryTargetAccounted'
  BY DEF IInv, EveryTargetAccounted, GivenUp, InOrder, taken
<1> QED
  BY <1>3, <1>4, <1>5, <1>6, <1>7 DEF IInv

-----------------------------------------------------------------------------
(* The steps. *)

LEMMA SubmitStep == IInv /\ Submit => IInv'
<1> SUFFICES ASSUME IInv, Submit PROVE IInv'
  OBVIOUS
<1>1. PICK r \in Request, q \in Queues : req' = r /\ given' = q /\ queue' = q
  BY DEF Submit
<1>2. q \in Seq(Targets) /\ q # <<>>
  BY PipelineAssumption
<1>3. /\ summaries' = <<>> /\ failures' = <<>>
      /\ Len(summaries') = 0 /\ Len(failures') = 0
      /\ DOMAIN summaries' = {} /\ DOMAIN failures' = {}
      /\ results' = results /\ before' = results
  BY EmptySeq DEF Submit
<1>4. Len(q) \in Nat
  BY <1>2, LenProperties
<1>5. TypeOK'
  BY <1>1, <1>2, <1>3 DEF Submit, IInv, TypeOK
<1>6. Logs'
  BY <1>3 DEF Logs
<1>7. Funnel'
  BY <1>1, <1>2 DEF Submit, IInv, Funnel
<1>8. Suffix'
  BY <1>1, <1>4 DEF Suffix
<1>9. SummaryIsSaved' /\ OldResultsKept'
  BY <1>3 DEF SummaryIsSaved, OldResultsKept
<1>10. EveryTargetAccounted'
  BY <1>1, <1>3, <1>4 DEF EveryTargetAccounted, GivenUp, InOrder, taken
<1> QED
  BY <1>5, <1>6, <1>7, <1>8, <1>9, <1>10 DEF IInv

LEMMA UserStep == IInv /\ (Edit \/ Cancel \/ UNCHANGED vars) => IInv'
<1> SUFFICES ASSUME IInv, Edit \/ Cancel \/ UNCHANGED vars PROVE IInv'
  OBVIOUS
<1>1. UNCHANGED <<results, before, scanVars>>
  BY DEF Edit, Cancel, vars
<1>2. /\ ranges' \in [Targets -> Ranges] /\ cache' \in [Targets -> File]
      /\ cancelled' \in BOOLEAN
  <2>1. ranges \in [Targets -> Ranges] /\ cache \in [Targets -> File] /\ cancelled \in BOOLEAN
    BY DEF IInv, TypeOK
  <2>2. CASE Edit
    <3>1. PICK t \in Targets, r \in Lists :
            /\ ranges' = [ranges EXCEPT ![t] = r]
            /\ \/ cache' = cache
               \/ cache' \in {Rewritten(t, r)} \union NotSaved(t)
      BY <2>2 DEF Edit
    <3>2. r \in Ranges /\ r \in File /\ NoFile \in File
      BY PipelineAssumption DEF Ranges, File
    <3>3. cache' \in [Targets -> File]
      BY <2>1, <3>1, <3>2 DEF Rewritten, NotSaved
    <3> QED
      BY <2>1, <2>2, <3>1, <3>2, <3>3 DEF Edit
  <2>3. CASE Cancel \/ UNCHANGED vars
    BY <2>1, <2>3 DEF Cancel, vars
  <2> QED
    BY <2>2, <2>3
<1>3. TypeOK'
  BY <1>1, <1>2 DEF IInv, TypeOK, scanVars
<1>4. Logs' /\ Funnel' /\ Suffix'
  BY <1>1 DEF IInv, Logs, Funnel, Suffix, scanVars
<1>5. SummaryIsSaved' /\ OldResultsKept'
  BY <1>1, FilesStay DEF WriteFailed, scanVars
<1>6. EveryTargetAccounted'
  BY <1>1 DEF IInv, EveryTargetAccounted, GivenUp, InOrder, taken, scanVars
<1> QED
  BY <1>3, <1>4, <1>5, <1>6 DEF IInv

LEMMA BuildConfigStep == IInv /\ BuildConfig => IInv'
<1> SUFFICES ASSUME IInv, BuildConfig PROVE IInv'
  OBVIOUS
<1>1. /\ stage = "config"
      /\ UNCHANGED <<ranges, cache, results, before, req, given, hosts, survivors, entries,
                     summaries, cancelled>>
  BY DEF BuildConfig
<1>2. cache' \in [Targets -> File]
  BY <1>1 DEF IInv, TypeOK
<1>3. hosts = {} /\ survivors = {} /\ entries = {}
  BY <1>1 DEF IInv, Funnel
<1>4. CASE custom' = configRanges /\ Goto("ranges") /\ UNCHANGED <<queue, failures>>
  <2>1. custom' = <<>> \/ custom' \in {<<r>> : r \in Ranges \ {{}}}
    <3>1. req.Custom \in {<<>>} \union {<<r>> : r \in Ranges \ {{}}}
      BY PipelineAssumption DEF IInv, TypeOK, Request, Ranges
    <3>2. ranges[cdn] \in Ranges
      BY <1>1, CurrentTarget DEF IInv, TypeOK
    <3> QED
      BY <1>4, <3>1, <3>2 DEF configRanges
  <2>2. stage' = "ranges" /\ live' \in BOOLEAN
    BY <1>4 DEF Goto
  <2> QED
    BY <1>1, <1>2, <1>3, <1>4, <2>1, <2>2, InnerStep
<1>5. ASSUME NEW w \in {"link", "xray"},
             failures' = Append(failures, [target |-> cdn, why |-> w]),
             queue' = <<>>, Goto("idle"), custom' = custom
      PROVE  IInv'
  <2>1. w \in Reasons /\ stage' = "idle" /\ live' \in BOOLEAN
    BY <1>5 DEF Goto, Reasons
  <2>2. /\ Logs' /\ \A k \in DOMAIN failures' : failures'[k].why \in Reasons
        /\ \A t : WriteFailed(t) => WriteFailed(t)'
    BY <1>1, <1>5, <2>1, FailureLogged
  <2>3. queue' \in Seq(Targets) /\ Len(queue') = 0
    BY <1>5
  <2>4. TypeOK'
    BY <1>1, <1>5, <2>1, <2>2, <2>3 DEF IInv, TypeOK
  <2>5. Funnel'
    BY <1>1, <1>3, <1>5, <2>1 DEF Funnel
  <2>6. Suffix'
    <3>1. Len(given') \in Nat
      BY <1>1, CurrentTarget
    <3> QED
      BY <2>3, <3>1 DEF Suffix
  <2>7. SummaryIsSaved' /\ OldResultsKept'
    BY <1>1, <2>2, FilesStay
  <2>8. EveryTargetAccounted'
    BY <1>1, <1>5, <2>1, FailureAccounted
  <2> QED
    BY <2>2, <2>4, <2>5, <2>6, <2>7, <2>8 DEF IInv
<1> QED
  BY <1>4, <1>5 DEF BuildConfig

LEMMA ResolveStep == IInv /\ Resolve => IInv'
<1> SUFFICES ASSUME IInv, Resolve PROVE IInv'
  OBVIOUS
<1>1. stage = "ranges" /\ UNCHANGED <<ranges, results, before, req, given, cancelled>>
  BY DEF Resolve
<1>2. cdn \in Targets /\ cache \in [Targets -> File]
  BY <1>1, CurrentTarget DEF IInv, TypeOK
<1>3. ASSUME NEW r, Scan(r), cache' \in [Targets -> File]
      PROVE  IInv'
  <2>1. hosts' \subseteq Usable /\ stage' = "tcp" /\ live' \in BOOLEAN
    BY <1>3 DEF Scan, Goto
  <2>2. UNCHANGED <<queue, custom, survivors, entries, summaries, failures>>
    BY <1>3 DEF Scan
  <2>3. custom' = <<>> \/ custom' \in {<<x>> : x \in Ranges \ {{}}}
    BY <2>2 DEF IInv, TypeOK
  <2>4. survivors' = {} /\ entries' = {}
    BY <1>1, <2>2 DEF IInv, Funnel
  <2> QED
    BY <1>1, <1>3, <2>1, <2>2, <2>3, <2>4, InnerStep
<1>4. ASSUME NEW w \in {"unknown CDN", "fetch", "save", "write"}, Failed(w),
             cache' \in [Targets -> File]
      PROVE  IInv'
  BY <1>1, <1>4, FailedStep
<1>5. CASE custom # <<>> /\ Scan(Head(custom)) /\ cache' = cache
  BY <1>2, <1>3, <1>5
<1>6. CASE custom = <<>> /\ CacheServes /\ Scan(cache[cdn]) /\ cache' = cache
  BY <1>2, <1>3, <1>6
<1>7. CASE cdn \notin Builtins /\ Failed("unknown CDN") /\ cache' = cache
  BY <1>2, <1>4, <1>7
<1>8. CASE cdn \in Builtins /\ Failed("fetch") /\ cache' = cache
  BY <1>2, <1>4, <1>8
<1>9. CASE \E r \in Lists : Scan(r) /\ cache' = Rewritten(cdn, r)
  <2>1. PICK r \in Lists : Scan(r) /\ cache' = Rewritten(cdn, r)
    BY <1>9
  <2>2. cache' \in [Targets -> File]
    BY <1>2, <2>1, PipelineAssumption DEF File, Ranges, Rewritten
  <2> QED
    BY <1>3, <2>1, <2>2
<1>10. CASE Failed("save") /\ cache' \in NotSaved(cdn)
  <2>1. cache' \in [Targets -> File]
    BY <1>2, <1>10 DEF File, NotSaved
  <2> QED
    BY <1>4, <1>10, <2>1
<1> QED
  BY <1>5, <1>6, <1>7, <1>8, <1>9, <1>10 DEF Resolve

LEMMA StageStep == IInv /\ (Stage1 \/ Stage2) => IInv'
<1> SUFFICES ASSUME IInv, Stage1 \/ Stage2 PROVE IInv'
  OBVIOUS
<1>1. /\ stage # "idle" /\ stage' \in {"xray", "write"} /\ live' \in BOOLEAN
      /\ UNCHANGED <<ranges, cache, results, before, req, given, queue, custom, hosts,
                     summaries, failures, cancelled>>
  BY DEF Stage1, Stage2, Goto
<1>2. /\ cache' \in [Targets -> File]
      /\ custom' = <<>> \/ custom' \in {<<r>> : r \in Ranges \ {{}}}
  BY <1>1 DEF IInv, TypeOK
<1>3. hosts' \subseteq Usable /\ survivors' \subseteq hosts' /\ entries' \subseteq survivors'
  <2>1. /\ hosts \subseteq Usable /\ survivors \subseteq hosts /\ entries \subseteq survivors
        /\ stage = "tcp" => survivors = {}
    BY DEF IInv, Funnel
  <2>2. CASE Stage1
    BY <2>1, <2>2 DEF Stage1
  <2>3. CASE Stage2
    BY <2>1, <2>3 DEF Stage2
  <2> QED
    BY <2>2, <2>3
<1> QED
  BY <1>1, <1>2, <1>3, InnerStep

\* The scan of a target that ends well: its file is written, its summary logged.
WriteDone == /\ stage = "write"
             /\ results' = Written
             /\ summaries' = Append(summaries, Summary) /\ Onward
             /\ UNCHANGED <<ranges, cache, before, req, given, failures, cancelled>>

\* The new summary takes the place of the older ones of its target, and agrees
\* with the file written in the same step.
LEMMA WriteSaved == IInv /\ WriteDone => SummaryIsSaved' /\ OldResultsKept'
<1> SUFFICES ASSUME IInv, WriteDone PROVE SummaryIsSaved' /\ OldResultsKept'
  OBVIOUS
<1> DEFINE n == Len(summaries) + 1
<1>1. /\ stage # "idle" /\ results' = [results EXCEPT ![cdn] = entries]
      /\ summaries' = Append(summaries, Summary) /\ failures' = failures
      /\ before' = before
  BY DEF WriteDone, Written
<1>2. /\ \A k \in DOMAIN summaries : k \in DOMAIN summaries' /\ summaries'[k] = summaries[k]
      /\ n \in DOMAIN summaries' /\ summaries'[n] = Summary
      /\ \A k \in DOMAIN summaries' : (k \in DOMAIN summaries /\ n > k) \/ k = n
  BY <1>1, SummaryLogged
<1>3. cdn \in Targets /\ results \in [Targets -> ResultFile]
  BY <1>1, CurrentTarget DEF IInv, TypeOK
<1>4. /\ Summary.target = cdn /\ Summary.entries = entries
      /\ Summary.entries \subseteq Summary.endpoints
      /\ Summary.endpoints \subseteq Summary.hosts
      /\ Summary.hosts \subseteq Usable
  BY DEF Summary, IInv, Funnel
<1>5. \A t : WriteFailed(t) => WriteFailed(t)'
  BY <1>1 DEF WriteFailed
<1> HIDE DEF n
<1>6. ASSUME NEW k \in DOMAIN summaries'
      PROVE  /\ summaries'[k].entries \subseteq summaries'[k].endpoints
             /\ summaries'[k].endpoints \subseteq summaries'[k].hosts
             /\ summaries'[k].hosts \subseteq Usable
  <2>1. CASE k = n
    BY <1>2, <1>4, <2>1
  <2>2. CASE k \in DOMAIN summaries
    BY <1>2, <2>2 DEF IInv, SummaryIsSaved
  <2> QED
    BY <1>2, <2>1, <2>2
<1>7. ASSUME NEW k \in DOMAIN summaries',
             \A j \in DOMAIN summaries' : j > k => summaries'[j].target # summaries'[k].target
      PROVE  \/ results'[summaries'[k].target] = summaries'[k].entries
             \/ /\ results'[summaries'[k].target] = CutShort
                /\ \E f \in DOMAIN failures' :
                     failures'[f] = [target |-> summaries'[k].target, why |-> "write"]
  <2>1. CASE k = n
    BY <1>1, <1>2, <1>3, <1>4, <2>1
  <2>2. CASE k \in DOMAIN summaries /\ n > k
    <3>1. summaries[k].target # cdn
      BY <1>2, <1>4, <1>7, <2>2
    <3>2. \A j \in DOMAIN summaries : j > k => summaries[j].target # summaries[k].target
      BY <1>2, <1>7, <2>2
    <3>3. \/ results[summaries[k].target] = summaries[k].entries
          \/ /\ results[summaries[k].target] = CutShort
             /\ WriteFailed(summaries[k].target)
      BY <2>2, <3>2 DEF IInv, SummaryIsSaved
    <3>4. summaries[k].target \in Targets
      BY <2>2 DEF IInv, TypeOK
    <3>5. results'[summaries'[k].target] = results[summaries[k].target]
      BY <1>1, <1>2, <1>3, <2>2, <3>1, <3>4
    <3> QED
      BY <1>1, <1>2, <2>2, <3>3, <3>5 DEF WriteFailed
  <2> QED
    BY <1>2, <2>1, <2>2
<1>8. SummaryIsSaved'
  BY <1>6, <1>7 DEF SummaryIsSaved, WriteFailed
<1>9. ASSUME NEW t \in Targets
      PROVE  \/ results'[t] = before'[t]
             \/ Reported(t)'
             \/ results'[t] = CutShort /\ WriteFailed(t)'
  <2>1. CASE t = cdn
    BY <1>2, <1>4, <2>1 DEF Reported
  <2>2. CASE t # cdn
    <3>1. results'[t] = results[t]
      BY <1>1, <1>3, <2>2
    <3>2. Reported(t) => Reported(t)'
      BY <1>2 DEF Reported
    <3> QED
      BY <1>1, <1>5, <3>1, <3>2 DEF IInv, OldResultsKept
  <2> QED
    BY <2>1, <2>2
<1> QED
  BY <1>8, <1>9 DEF OldResultsKept

\* The new summary is about the first target of the request without an outcome.
LEMMA WriteAccounted == IInv /\ WriteDone => EveryTargetAccounted'
<1> SUFFICES ASSUME IInv, WriteDone PROVE EveryTargetAccounted'
  OBVIOUS
<1>1. /\ stage # "idle" /\ summaries' = Append(summaries, Summary) /\ Onward
      /\ given' = given /\ failures' = failures
  BY DEF WriteDone
<1>2. /\ taken \in Nat /\ Len(queue) \in Nat /\ taken + Len(queue) = Len(given) /\ ~GivenUp
      /\ Len(failures) \in Nat /\ Len(summaries) \in Nat
  BY <1>1, CurrentTarget
<1>3. /\ taken' = taken + 1
      /\ \A k \in DOMAIN summaries : k \in DOMAIN summaries' /\ summaries'[k] = summaries[k]
      /\ summaries'[Len(summaries) + 1] = Summary
      /\ \A k \in DOMAIN summaries' : \/ k \in DOMAIN summaries /\ k \in Nat
                                      \/ k = Len(summaries) + 1
  BY <1>1, SummaryLogged
<1>4. InOrder(summaries) /\ InOrder(failures) /\ DOMAIN failures = 1..Len(failures)
  BY LenProperties DEF IInv, EveryTargetAccounted, Logs
<1>5. InOrder(summaries)'
  <2>1. ASSUME NEW k \in DOMAIN summaries'
        PROVE  /\ k \in Nat
               /\ \/ k \in DOMAIN summaries /\ summaries'[k].target = summaries[k].target
                  \/ k <= taken + 1 /\ summaries'[k].target = cdn
    <3>1. CASE k \in DOMAIN summaries /\ k \in Nat
      BY <1>3, <3>1
    <3>2. CASE k = Len(summaries) + 1
      <4>1. k \in Nat /\ k <= taken + 1
        BY <1>2, <3>2 DEF taken
      <4>2. Summary.target = cdn
        BY DEF Summary
      <4> QED
        BY <1>3, <3>2, <4>1, <4>2
    <3> QED
      BY <1>3, <3>1, <3>2
  <2>2. stage # "idle" /\ given' = given /\ taken' = taken + 1 /\ InOrder(summaries)
    BY <1>1, <1>3, <1>4
  <2>3. \A k \in DOMAIN summaries' : \E j \in k..taken' : summaries'[k].target = given'[j]
    BY <2>1, <2>2, OrderStays
  <2> QED
    BY <2>3 DEF InOrder
<1>6. InOrder(failures)'
  <2>1. \A k \in DOMAIN failures' : /\ k \in Nat
                                    /\ k \in DOMAIN failures
                                    /\ failures'[k].target = failures[k].target
    BY <1>1, <1>2, <1>4
  <2>2. \A k \in DOMAIN failures' : \E j \in k..taken' : failures'[k].target = given'[j]
    BY <1>1, <1>3, <1>4, <2>1, OrderStays
  <2> QED
    BY <2>2 DEF InOrder
<1>7. taken' + Len(queue') = Len(given')
  <2>1. Len(queue') = Len(queue) - 1
    BY <1>1, GoOn
  <2> QED
    BY <1>1, <1>2, <1>3, <2>1
<1>8. ~GivenUp'
  BY <1>1, <1>2 DEF GivenUp
<1> QED
  BY <1>5, <1>6, <1>7, <1>8 DEF EveryTargetAccounted

LEMMA WriteStep == IInv /\ Write => IInv'
<1> SUFFICES ASSUME IInv, Write PROVE IInv'
  OBVIOUS
<1>1. stage = "write" /\ UNCHANGED <<ranges, cache, before, req, given, cancelled>>
  BY DEF Write
<1>2. /\ cdn \in Targets
      /\ results \in [Targets -> ResultFile] /\ cache \in [Targets -> File]
  BY <1>1, CurrentTarget DEF IInv, TypeOK
<1>3. CASE Failed("write") /\ results' \in NotWritten
  BY <1>1, <1>2, <1>3, FailedStep DEF NotWritten
<1>4. CASE WriteDone
  <2>1. EveryTargetAccounted' /\ SummaryIsSaved' /\ OldResultsKept'
    BY <1>4, WriteSaved, WriteAccounted
  <2>2. /\ queue' \in Seq(Targets) /\ stage' \in {"idle", "config"}
        /\ live' \in BOOLEAN /\ custom' = <<>>
        /\ hosts' = {} /\ survivors' = {} /\ entries' = {}
        /\ Suffix' /\ Funnel'
    BY <1>1, <1>4, GoOn DEF WriteDone
  <2>3. Logs' /\ \A k \in DOMAIN summaries' : summaries'[k].target \in Targets
    BY <1>1, <1>4, SummaryLogged DEF WriteDone
  <2>4. results' \in [Targets -> ResultFile]
    <3>1. entries \in ResultFile
      BY DEF IInv, TypeOK, ResultFile, File, Ranges
    <3> QED
      BY <1>2, <1>4, <3>1 DEF WriteDone, Written
  <2>5. TypeOK'
    BY <1>1, <1>4, <2>2, <2>3, <2>4 DEF IInv, TypeOK, WriteDone
  <2> QED
    BY <2>1, <2>2, <2>3, <2>5 DEF IInv
<1> QED
  BY <1>3, <1>4 DEF Write, WriteDone

LEMMA Invariance == Spec => []IInv
<1>1. IInv /\ [Next]_vars => IInv'
  BY SubmitStep, UserStep, BuildConfigStep, ResolveStep, StageStep, WriteStep DEF Next, Step
<1> QED
  BY <1>1, InitIInv, PTL DEF Spec

-----------------------------------------------------------------------------
\* Every variable of a scan keeps its type, in every interleaving of the user's
\* edits and cancellations with the steps of pipeline.Run and runOne.
THEOREM TypeCorrect == Spec => []TypeOK
<1>1. IInv => TypeOK
  BY DEF IInv
<1> QED
  BY <1>1, Invariance, PTL

\* The last summary of a target and the file output.Write left agree unless a
\* later write of it failed, and a summary reports only hosts that passed every
\* stage before it.
THEOREM SummariesBacked == Spec => []SummaryIsSaved
<1>1. IInv => SummaryIsSaved
  BY DEF IInv
<1> QED
  BY <1>1, Invariance, PTL

\* Whatever fails, every target of a request has an outcome or is to come, in
\* the order of the request, unless buildConfig gives the request up; then the
\* targets before the one it gave up at have theirs.
THEOREM TargetsAccounted == Spec => []EveryTargetAccounted
<1>1. IInv => EveryTargetAccounted
  BY DEF IInv
<1> QED
  BY <1>1, Invariance, PTL

\* A target without a summary of its own holds the results from before the
\* request, whatever fails, unless the very write of its file failed.
THEOREM ResultsKept == Spec => []OldResultsKept
<1>1. IInv => OldResultsKept
  BY DEF IInv
<1> QED
  BY <1>1, Invariance, PTL

=============================================================================
