---------------------------- MODULE ScanPageProofs ----------------------------
(* Proofs about ScanServer, for every set of requests and of stops, every   *)
(* retention time and every bound on the clock; and about ScanPage, for any *)
(* number of pages as well.  The pages' steps are server steps or none, so  *)
(* that all that is shown of the server holds of it between its pages.      *)
EXTENDS ScanPage, TLAPS

-----------------------------------------------------------------------------
(* ScanServer: what its invariants rest on. *)

\* The flag is up while a scan is active, so that the next compare-and-swap
\* fails.
FlagCoversScan == \A r \in Reqs : pc[r] \in Active => scanning

\* s.cancel is the cancel function of the scan that published it, and of no
\* other.
CancelIsPublished == \A r \in Reqs : cancel = r <=> pc[r] \in Published

\* A job is done from j.finish() on.
DoneMatchesPc ==
    \A r \in Reqs : done[r] <=> pc[r] \in {"finished", "unwinding", "cleared", "over"}

\* A kept job was created, and not in the future.
JobsAge == \A r \in jobs : pc[r] \notin Jobless /\ createdAt[r] <= clock

IInv == /\ TypeOK
        /\ OneScanAtATime /\ FlagCoversScan /\ CancelIsPublished
        /\ DoneMatchesPc /\ JobsAge /\ RetentionBounded
        /\ CancelledByItsStop

-----------------------------------------------------------------------------
LEMMA InitIInv == Init => IInv
<1> SUFFICES ASSUME Init PROVE IInv
  OBVIOUS
<1>1. TypeOK
  <2>1. 0 \in Times
    BY ServerAssumption DEF Times
  <2>2. /\ pc \in [Reqs -> PcValues]
        /\ done \in [Reqs -> BOOLEAN]
        /\ createdAt \in [Reqs -> Times]
    BY <2>1 DEF Init, PcValues
  <2>3. /\ stopPc \in [Stops -> {"idle", "read", "replied"}]
        /\ held \in [Stops -> Reqs \union {NoReq}]
    BY DEF Init
  <2> QED
    BY <2>1, <2>2, <2>3 DEF Init, TypeOK
<1>2. OneScanAtATime /\ FlagCoversScan /\ CancelIsPublished
  BY ServerAssumption
     DEF Init, OneScanAtATime, FlagCoversScan, CancelIsPublished, Active, Published
<1>3. DoneMatchesPc /\ JobsAge /\ RetentionBounded /\ CancelledByItsStop
  BY DEF Init, DoneMatchesPc, JobsAge, RetentionBounded, CancelledByItsStop, Active
<1> QED
  BY <1>1, <1>2, <1>3 DEF IInv

LEMMA TypeInductive == TypeOK /\ [Next]_vars => TypeOK'
<1> SUFFICES ASSUME TypeOK, [Next]_vars PROVE TypeOK'
  OBVIOUS
<1> USE ServerAssumption
    DEF TypeOK, PcValues, Active, Times, Step, scanVars, jobVars, stopVars
<1>1. ASSUME NEW r \in Reqs, Handler(r) PROVE TypeOK'
  <2>1. CASE Admit(r) \/ Reject(r)
    BY <2>1 DEF Admit, Reject
  <2>2. CASE NewJob(r)
    <3>1. createdAt' \in [Reqs -> Times] /\ jobs' \subseteq Reqs
      BY <2>2 DEF NewJob
    <3>2. pc' \in [Reqs -> PcValues]
      BY <2>2 DEF NewJob
    <3> QED
      BY <2>2, <3>1, <3>2 DEF NewJob
  <2> QED
    BY <1>1, <2>1, <2>2 DEF Handler
<1>2. ASSUME NEW r \in Reqs, Publish(r) \/ ScanReturns(r) \/ Finish(r) PROVE TypeOK'
  <2>1. CASE Publish(r) \/ ScanReturns(r)
    BY <2>1 DEF Publish, ScanReturns
  <2>2. CASE Finish(r)
    <3>1. done' \in [Reqs -> BOOLEAN]
      BY <2>2 DEF Finish
    <3> QED
      BY <2>2, <3>1 DEF Finish
  <2> QED
    BY <1>2, <2>1, <2>2
<1>3. ASSUME NEW r \in Reqs, Epilogue(r) PROVE TypeOK'
  BY <1>3 DEF Epilogue
<1>4. ASSUME NEW t \in Stops, StopRead(t) PROVE TypeOK'
  BY <1>4 DEF StopRead
<1>5. ASSUME NEW t \in Stops, StopCancel(t) PROVE TypeOK'
  BY <1>5 DEF StopCancel
<1>6. CASE Tick
  BY <1>6 DEF Tick
<1>7. CASE UNCHANGED vars
  BY <1>7 DEF vars
<1> QED
  BY <1>1, <1>2, <1>3, <1>4, <1>5, <1>6, <1>7 DEF Next, Goroutine, Stop

\* The flag and s.cancel, step by step of the scans; the stops and the clock
\* leave both alone.
LEMMA MutualExclusion ==
    IInv /\ [Next]_vars => (OneScanAtATime /\ FlagCoversScan /\ CancelIsPublished)'
<1> SUFFICES ASSUME IInv, [Next]_vars
             PROVE  (OneScanAtATime /\ FlagCoversScan /\ CancelIsPublished)'
  OBVIOUS
<1> USE ServerAssumption
    DEF IInv, TypeOK, OneScanAtATime, FlagCoversScan, CancelIsPublished,
        Active, Published, PcValues, Step
<1>1. ASSUME NEW r \in Reqs, Handler(r)
      PROVE  (OneScanAtATime /\ FlagCoversScan /\ CancelIsPublished)'
  BY <1>1 DEF Handler, Admit, Reject, NewJob
<1>2. ASSUME NEW r \in Reqs, Publish(r) \/ ScanReturns(r) \/ Finish(r)
      PROVE  (OneScanAtATime /\ FlagCoversScan /\ CancelIsPublished)'
  BY <1>2 DEF Publish, ScanReturns, Finish
<1>3. ASSUME NEW r \in Reqs, Epilogue(r)
      PROVE  (OneScanAtATime /\ FlagCoversScan /\ CancelIsPublished)'
  BY <1>3 DEF Epilogue
<1>4. CASE UNCHANGED <<pc, scanning, cancel>>
  BY <1>4
<1> QED
  BY <1>1, <1>2, <1>3, <1>4
     DEF Next, Goroutine, Stop, StopRead, StopCancel, Tick, vars, scanVars

\* The job map: when a request sweeps it, the jobs of all other requests are
\* done, as none of them is active; so the sweep spares no job for running.
LEMMA Retention == IInv /\ [Next]_vars => (DoneMatchesPc /\ JobsAge /\ RetentionBounded)'
<1> SUFFICES ASSUME IInv, [Next]_vars
             PROVE  (DoneMatchesPc /\ JobsAge /\ RetentionBounded)'
  OBVIOUS
<1> USE ServerAssumption
    DEF IInv, TypeOK, DoneMatchesPc, JobsAge, RetentionBounded, Active, PcValues, Jobless,
        Times, Step
<1>1. ASSUME NEW r \in Reqs, Admit(r) \/ Reject(r)
      PROVE  (DoneMatchesPc /\ JobsAge /\ RetentionBounded)'
  BY <1>1 DEF Admit, Reject, jobVars
<1>2. ASSUME NEW r \in Reqs, NewJob(r)
      PROVE  (DoneMatchesPc /\ JobsAge /\ RetentionBounded)'
  <2>1. DoneMatchesPc'
    BY <1>2 DEF NewJob
  <2>2. \A q \in jobs : q # r /\ done[q]
    BY <1>2 DEF NewJob, OneScanAtATime
  <2>3. /\ jobs' = {q \in jobs : ~(createdAt[q] < clock - Hour)} \union {r}
        /\ createdAt' = [createdAt EXCEPT ![r] = clock] /\ clock' = clock
        /\ pc' = [pc EXCEPT ![r] = "spawned"]
    BY <1>2, <2>2 DEF NewJob, reap
  <2>4. JobsAge'
    BY <2>2, <2>3
  <2>5. \A q \in jobs' \ {r} : /\ q \in jobs /\ createdAt'[q] = createdAt[q]
                               /\ createdAt[q] \in Nat /\ createdAt[q] <= clock
                               /\ clock - createdAt[q] <= Hour
    BY <2>2, <2>3
  <2>6. \A p, q \in jobs' : createdAt'[q] - createdAt'[p] <= Hour
    <3> SUFFICES ASSUME NEW p \in jobs', NEW q \in jobs'
                 PROVE  createdAt'[q] - createdAt'[p] <= Hour
      OBVIOUS
    <3>1. createdAt'[r] = clock /\ clock \in Nat
      BY <2>3
    <3>2. CASE p # r /\ q # r
      BY <2>5, <3>2
    <3>3. CASE p = r \/ q = r
      BY <2>5, <3>1, <3>3
    <3> QED
      BY <3>2, <3>3
  <2>7. \A q \in Reqs : pc'[q] \in Active \ {"admitted"} => q \in jobs'
    BY <1>2, <2>3 DEF NewJob, OneScanAtATime
  <2> QED
    BY <2>1, <2>4, <2>6, <2>7
<1>3. ASSUME NEW r \in Reqs, Publish(r) \/ ScanReturns(r) \/ Epilogue(r)
      PROVE  (DoneMatchesPc /\ JobsAge /\ RetentionBounded)'
  BY <1>3 DEF Publish, ScanReturns, Epilogue, jobVars
<1>4. ASSUME NEW r \in Reqs, Finish(r) PROVE (DoneMatchesPc /\ JobsAge /\ RetentionBounded)'
  BY <1>4 DEF Finish
<1>5. CASE Tick
  BY <1>5 DEF Tick, scanVars, jobVars
<1>6. CASE UNCHANGED <<pc, jobVars, clock>>
  BY <1>6 DEF jobVars
<1> QED
  BY <1>1, <1>2, <1>3, <1>4, <1>5, <1>6
     DEF Next, Handler, Goroutine, Stop, StopRead, StopCancel, vars, scanVars, jobVars

\* A context is cancelled by its own goroutine on the way out, or by a stop
\* that read s.cancel while it was this scan's.
LEMMA StopsAreOwn == IInv /\ [Next]_vars => CancelledByItsStop'
<1> SUFFICES ASSUME IInv, [Next]_vars PROVE CancelledByItsStop'
  OBVIOUS
<1> USE ServerAssumption DEF IInv, TypeOK, CancelledByItsStop, PcValues, Active, Step
<1>1. ASSUME NEW r \in Reqs, Handler(r) \/ Publish(r) \/ ScanReturns(r) \/ Finish(r)
      PROVE  CancelledByItsStop'
  BY <1>1 DEF Handler, Admit, Reject, NewJob, Publish, ScanReturns, Finish, stopVars
<1>2. ASSUME NEW r \in Reqs, Epilogue(r) PROVE CancelledByItsStop'
  BY <1>2 DEF Epilogue, stopVars
<1>3. ASSUME NEW t \in Stops, StopRead(t) PROVE CancelledByItsStop'
  BY <1>3 DEF StopRead, scanVars
<1>4. ASSUME NEW t \in Stops, StopCancel(t) PROVE CancelledByItsStop'
  BY <1>4 DEF StopCancel
<1>5. CASE UNCHANGED <<pc, cancelled, stopVars>>
  BY <1>5 DEF stopVars
<1> QED
  BY <1>1, <1>2, <1>3, <1>4, <1>5
     DEF Next, Goroutine, Stop, Tick, vars, scanVars, stopVars

LEMMA Invariance == Spec => []IInv
<1>1. IInv /\ [Next]_vars => IInv'
  BY TypeInductive, MutualExclusion, Retention, StopsAreOwn DEF IInv
<1> QED
  BY <1>1, InitIInv, PTL DEF Spec

\* The variables of the server stay in their types.
THEOREM TypeCorrect == Spec => []TypeOK
<1>1. IInv => TypeOK
  BY DEF IInv
<1> QED
  BY <1>1, Invariance, PTL

\* No two scans are ever active together.
THEOREM ScansExclude == Spec => []OneScanAtATime
<1>1. IInv => OneScanAtATime
  BY DEF IInv
<1> QED
  BY <1>1, Invariance, PTL

\* s.cancel belongs to the scan that runs.
THEOREM CancelBelongsToRunningScan == Spec => []RunningScanIsStoppable
<1>1. IInv => RunningScanIsStoppable
  BY DEF IInv, CancelIsPublished, RunningScanIsStoppable
<1> QED
  BY <1>1, Invariance, PTL

\* A stop never cancels a scan other than the one whose function it read.
THEOREM StopsHitTheirScan == Spec => []CancelledByItsStop
<1>1. IInv => CancelledByItsStop
  BY DEF IInv
<1> QED
  BY <1>1, Invariance, PTL

\* Kept jobs were created within the retention time of each other, and the
\* running one is among them (`Server.newJob`, `sweepJobsLocked`).
THEOREM JobsRetained == Spec => []RetentionBounded
<1>1. IInv => RetentionBounded
  BY DEF IInv
<1> QED
  BY <1>1, Invariance, PTL

-----------------------------------------------------------------------------
(* ScanPage: what its invariants rest on. *)

\* A stream or a stop is about a scan that has its job.
ShownHaveJobs ==
    /\ \A p \in Pages : es[p] # NoReq => pc[es[p]] \notin Jobless
    /\ \A t \in Stops : target[t] # NoReq => pc[target[t]] \notin Jobless
    /\ \A t \in Stops : stopPc[t] # "idle" => target[t] # NoReq

\* A request of page p that is neither awaited nor shown any more was refused,
\* has reported its end, was lost, or was stopped.
Settled(p, r) == \/ r \in awaited[p] \/ es[p] = r
                 \/ pc[r] = "rejected" \/ done[r] \/ r \in dropped
                 \/ \E t \in Stops : target[t] = r

\* On a page that awaits one reply at a time.
Orderly(p) == /\ running[p] <=> es[p] # NoReq \/ awaited[p] # {}
              /\ streams[p] = {es[p]} \ {NoReq}
              /\ awaited[p] # {} => es[p] = NoReq
              /\ \A r, q \in awaited[p] : r = q
              /\ \A r \in asked[p] : Settled(p, r)

PInv == /\ PagesTypeOK
        /\ ShownHaveJobs
        /\ StopsReachTheScanShown
        /\ \A p \in Pages \ crossed : Orderly(p)

-----------------------------------------------------------------------------
\* Every step of the composition is one of the server, or leaves it alone.
LEMMA ServerSteps == [PageNext]_allVars => [Next]_vars
BY DEF PageNext, Page, ClickStop, ClickStart, Refused, Accepted, OnDone, OnError,
       Receive, ReceiveStop, Serve, Next, Stop, allVars

\* The server between its pages is the server as specified, with its fairness.
THEOREM PagesUseTheServer == PageSpec => Spec
<1>1. PageInit => Init
  BY DEF PageInit
<1> QED
  BY <1>1, ServerSteps, PTL DEF PageSpec, Spec

\* What a step of the server may do to a request that has its job.
LEMMA JobsStay ==
    ASSUME IInv, [Next]_vars, NEW r \in Reqs
    PROVE  /\ pc[r] \notin Jobless => pc'[r] \notin Jobless
           /\ pc[r] = "rejected" => pc'[r] = "rejected"
           /\ done[r] => done'[r]
           /\ pc[r] \in {"cleared", "over"} => pc'[r] \in {"cleared", "over"}
<1> USE DEF IInv, TypeOK, PcValues, Active, Jobless, Step
<1>1. ASSUME NEW q \in Reqs, Handler(q)
      PROVE  /\ pc[r] \notin Jobless => pc'[r] \notin Jobless
             /\ pc[r] = "rejected" => pc'[r] = "rejected"
             /\ done[r] => done'[r]
             /\ pc[r] \in {"cleared", "over"} => pc'[r] \in {"cleared", "over"}
  BY <1>1 DEF Handler, Admit, Reject, NewJob, jobVars
<1>2. ASSUME NEW q \in Reqs, Goroutine(q)
      PROVE  /\ pc[r] \notin Jobless => pc'[r] \notin Jobless
             /\ pc[r] = "rejected" => pc'[r] = "rejected"
             /\ done[r] => done'[r]
             /\ pc[r] \in {"cleared", "over"} => pc'[r] \in {"cleared", "over"}
  BY <1>2 DEF Goroutine, Publish, ScanReturns, Finish, Epilogue, jobVars
<1>3. CASE UNCHANGED <<pc, done>>
  BY <1>3
<1> QED
  BY <1>1, <1>2, <1>3
     DEF Next, Stop, StopRead, StopCancel, Tick, vars, scanVars, jobVars

\* Only the two steps of handleStop touch what it holds.
LEMMA StopsStay ==
    ASSUME TypeOK, [PageNext]_allVars, NEW t \in Stops
    PROVE  \/ UNCHANGED <<stopPc[t], held[t]>>
           \/ stopPc[t] = "read" /\ UNCHANGED held[t]
           \/ ReceiveStop(t)
<1>1. CASE UNCHANGED stopVars
  BY <1>1 DEF stopVars
<1>2. ASSUME NEW u \in Stops, ReceiveStop(u)
      PROVE  UNCHANGED <<stopPc[t], held[t]>> \/ ReceiveStop(t)
  BY <1>2 DEF ReceiveStop, StopRead, TypeOK
<1>3. ASSUME NEW u \in Stops, StopCancel(u)
      PROVE  \/ UNCHANGED <<stopPc[t], held[t]>>
             \/ stopPc[t] = "read" /\ UNCHANGED held[t]
  BY <1>3 DEF StopCancel, TypeOK
<1>4. ASSUME NEW r \in Reqs, Handler(r) \/ Goroutine(r) PROVE UNCHANGED stopVars
  BY <1>4 DEF Handler, Goroutine, Admit, Reject, NewJob, Publish, ScanReturns, Finish,
              Epilogue, stopVars
<1>5. ASSUME NEW p \in Pages, Page(p) PROVE UNCHANGED stopVars
  BY <1>5 DEF Page, ClickStop, ClickStart, Refused, Accepted, OnDone, OnError, vars,
              stopVars
<1>6. Tick \/ UNCHANGED allVars => UNCHANGED stopVars
  BY DEF Tick, allVars, vars, stopVars
<1> QED
  BY <1>1, <1>2, <1>3, <1>4, <1>5, <1>6 DEF PageNext, Receive, Serve

-----------------------------------------------------------------------------
LEMMA InitPInv == PageInit => PInv
<1> SUFFICES ASSUME PageInit PROVE PInv
  OBVIOUS
<1>1. TypeOK
  BY InitIInv DEF PageInit, IInv
<1>2. PagesTypeOK
  BY <1>1 DEF PageInit, PagesTypeOK
<1>3. ShownHaveJobs /\ StopsReachTheScanShown
  BY DEF PageInit, Init, ShownHaveJobs, StopsReachTheScanShown
<1>4. ASSUME NEW p \in Pages PROVE Orderly(p)
  BY DEF PageInit, Orderly
<1> QED
  BY <1>2, <1>3, <1>4 DEF PInv

LEMMA PagesTypeInductive == IInv /\ PInv /\ [PageNext]_allVars => PagesTypeOK'
<1> SUFFICES ASSUME IInv, PInv, [PageNext]_allVars PROVE PagesTypeOK'
  OBVIOUS
<1>0. TypeOK'
  BY ServerSteps, TypeInductive DEF IInv
<1> USE <1>0, ServerAssumption DEF PInv, PagesTypeOK
<1>1. ASSUME NEW p \in Pages, NEW t \in Stops, ClickStop(p, t) PROVE PagesTypeOK'
  BY <1>1 DEF ClickStop, reqVars
<1>2. ASSUME NEW p \in Pages, NEW r \in Reqs, ClickStart(p, r) PROVE PagesTypeOK'
  BY <1>2 DEF ClickStart
<1>3. ASSUME NEW p \in Pages, NEW r \in Reqs, Refused(p, r) PROVE PagesTypeOK'
  BY <1>3 DEF Refused, Awaited
<1>4. ASSUME NEW p \in Pages, NEW r \in Reqs, Accepted(p, r) PROVE PagesTypeOK'
  BY <1>4 DEF Accepted, Awaited
<1>5. ASSUME NEW p \in Pages, NEW r \in Reqs, OnDone(p, r) \/ OnError(p, r)
      PROVE  PagesTypeOK'
  <2>1. /\ UNCHANGED <<asked, awaited, target, early, crossed>>
        /\ dropped' \subseteq Reqs
    BY <1>5 DEF OnDone, OnError, reqVars
  <2>2. /\ streams' \in [Pages -> SUBSET Reqs]
        /\ es' \in [Pages -> Reqs \union {NoReq}]
        /\ running' \in [Pages -> BOOLEAN]
    <3>1. CloseEs(p)
      BY <1>5 DEF OnDone, OnError
    <3>2. streams[p] \ {es[p]} \subseteq Reqs
      OBVIOUS
    <3> QED
      BY <3>1, <3>2 DEF CloseEs
  <2> QED
    BY <2>1, <2>2
<1>6. ASSUME NEW t \in Stops, ReceiveStop(t) PROVE PagesTypeOK'
  BY <1>6 DEF ReceiveStop
<1>7. CASE UNCHANGED pageVars
  BY <1>7 DEF pageVars
<1> QED
  BY <1>1, <1>2, <1>3, <1>4, <1>5, <1>6, <1>7
     DEF PageNext, Page, Receive, allVars

LEMMA ShownInductive == IInv /\ PInv /\ [PageNext]_allVars => ShownHaveJobs'
<1> SUFFICES ASSUME IInv, PInv, [PageNext]_allVars PROVE ShownHaveJobs'
  OBVIOUS
<1> USE DEF PInv, PagesTypeOK
<1>1. \A r \in Reqs : pc[r] \notin Jobless => pc'[r] \notin Jobless
  BY ServerSteps, JobsStay
<1>2. ASSUME NEW p \in Pages PROVE es'[p] \in {es[p], NoReq}
                                   \/ (es'[p] \in Reqs /\ pc'[es'[p]] \notin Jobless)
  <2>1. ASSUME NEW q \in Pages, NEW r \in Reqs, Accepted(q, r)
        PROVE  es'[p] = es[p] \/ (es'[p] \in Reqs /\ pc'[es'[p]] \notin Jobless)
    BY <2>1 DEF Accepted, vars
  <2>2. ASSUME NEW q \in Pages, NEW r \in Reqs, NEW t \in Stops,
               \/ ClickStop(q, t) \/ ClickStart(q, r) \/ Refused(q, r)
               \/ OnDone(q, r) \/ OnError(q, r)
        PROVE  es'[p] \in {es[p], NoReq}
    BY <2>2 DEF ClickStop, ClickStart, Refused, OnDone, OnError, CloseEs
  <2>3. ASSUME NEW q \in Pages, Page(q)
        PROVE  \/ es'[p] \in {es[p], NoReq}
               \/ es'[p] \in Reqs /\ pc'[es'[p]] \notin Jobless
    BY <2>1, <2>2, <2>3 DEF Page, ClickStop, ClickStart, Refused, OnDone, OnError, CloseEs
  <2>4. ASSUME (\E r \in Reqs : Receive(r)) \/ (\E t \in Stops : ReceiveStop(t))
               \/ (Serve /\ UNCHANGED pageVars) \/ UNCHANGED allVars
        PROVE  es'[p] = es[p]
    BY <2>4 DEF Receive, ReceiveStop, allVars, pageVars
  <2> QED
    BY <2>3, <2>4 DEF PageNext
<1>3. ASSUME NEW t \in Stops
      PROVE  \/ target'[t] = target[t]
             \/ \E p \in Pages : es[p] # NoReq /\ target'[t] = es[p]
  BY DEF PageNext, Page, ClickStop, ClickStart, Refused, Accepted, OnDone, OnError,
         Receive, ReceiveStop, Serve, allVars, pageVars
<1>4. ASSUME NEW t \in Stops, target[t] # NoReq PROVE target'[t] = target[t]
  BY <1>4 DEF PageNext, Page, ClickStop, ClickStart, Refused, Accepted, OnDone, OnError,
         Receive, ReceiveStop, Serve, allVars, pageVars, Unsent
<1>5. ASSUME NEW t \in Stops, stopPc'[t] # "idle" PROVE target'[t] # NoReq
  <2>1. CASE stopPc[t] # "idle"
    BY <1>4, <2>1 DEF ShownHaveJobs
  <2>2. CASE ReceiveStop(t)
    BY <2>2 DEF ReceiveStop, Unsent
  <2> QED
    BY <1>5, <2>1, <2>2, StopsStay DEF IInv
<1> QED
  BY <1>1, <1>2, <1>3, <1>5 DEF ShownHaveJobs

LEMMA StopsInductive ==
    IInv /\ PInv /\ [PageNext]_allVars => StopsReachTheScanShown'
<1> SUFFICES ASSUME IInv, PInv, [PageNext]_allVars,
                    NEW t \in Stops, stopPc'[t] # "idle"
             PROVE  \/ held'[t] = target'[t]
                    \/ t \in early' /\ held'[t] = NoReq
                    \/ pc'[target'[t]] \in {"cleared", "over"}
  BY DEF StopsReachTheScanShown
<1> USE DEF PInv, PagesTypeOK
<1>1. CASE stopPc[t] # "idle"
  <2>1. target'[t] = target[t] /\ target[t] \in Reqs /\ (t \in early => t \in early')
    BY <1>1 DEF ShownHaveJobs, PageNext, Page, ClickStop, ClickStart, Refused, Accepted,
           OnDone, OnError, Receive, ReceiveStop, Serve, allVars, pageVars, Unsent
  <2>2. held'[t] = held[t]
    BY <1>1, StopsStay DEF IInv, ReceiveStop, StopRead
  <2>3. pc[target[t]] \in {"cleared", "over"} => pc'[target[t]] \in {"cleared", "over"}
    BY <2>1, ServerSteps, JobsStay
  <2> QED
    BY <1>1, <2>1, <2>2, <2>3 DEF StopsReachTheScanShown
<1>2. CASE ReceiveStop(t)
  <2> DEFINE r == target[t]
  <2>1. /\ r \in Reqs /\ target' = target /\ pc' = pc
        /\ held'[t] = cancel
        /\ pc[r] = "spawned" => t \in early'
    BY <1>2 DEF ReceiveStop, StopRead, Unsent, scanVars, TypeOK
  <2>2. pc[r] \in PcValues \ Jobless
    BY <1>2, <2>1, ServerAssumption DEF ShownHaveJobs, TypeOK
  <2>3. CASE pc[r] \in Published
    BY <2>1, <2>3 DEF IInv, CancelIsPublished
  <2>4. CASE pc[r] = "spawned"
    <3>1. cancel = NoReq
      <4>1. \A q \in Reqs : pc[q] \in Published => q = r
        BY <2>1, <2>4 DEF IInv, OneScanAtATime, Active, Published
      <4> QED
        BY <2>1, <2>4, <4>1 DEF IInv, CancelIsPublished, TypeOK, Published
    <3> QED
      BY <2>1, <2>4, <3>1
  <2>5. CASE pc[r] \in {"cleared", "over"}
    BY <2>1, <2>5
  <2> QED
    BY <2>2, <2>3, <2>4, <2>5 DEF PcValues, Active, Published, Jobless
<1> QED
  BY <1>1, <1>2, StopsStay DEF IInv

\* What a page knows of its requests is not disturbed from outside.
LEMMA SettledStays ==
    ASSUME IInv, PInv, [PageNext]_allVars, NEW p \in Pages, NEW r \in Reqs,
           UNCHANGED <<awaited[p], es[p]>>, Settled(p, r)
    PROVE  Settled(p, r)'
<1>1. (pc[r] = "rejected" => pc'[r] = "rejected") /\ (done[r] => done'[r])
  BY ServerSteps, JobsStay
<1>2. dropped \subseteq dropped'
  BY DEF PageNext, Page, ClickStop, ClickStart, Refused, Accepted, OnDone, OnError,
         Receive, ReceiveStop, Serve, allVars, pageVars
<1>3. \A t \in Stops : target[t] = r => target'[t] = r
  BY ServerAssumption
     DEF PageNext, Page, ClickStop, ClickStart, Refused, Accepted, OnDone, OnError,
         Receive, ReceiveStop, Serve, allVars, pageVars, Unsent, PInv, PagesTypeOK
<1> QED
  BY <1>1, <1>2, <1>3 DEF Settled

LEMMA OrderlyInductive ==
    ASSUME IInv, PInv, [PageNext]_allVars, NEW p \in Pages \ crossed', PagesTypeOK'
    PROVE  Orderly(p)'
<1> USE ServerAssumption DEF PInv, PagesTypeOK
<1>0. p \in Pages \ crossed /\ Orderly(p)
  BY DEF PageNext, Page, ClickStop, ClickStart, Refused, Accepted, OnDone, OnError,
         Receive, ReceiveStop, Serve, allVars, pageVars
<1>1. ASSUME NEW t \in Stops, ClickStop(p, t) PROVE Orderly(p)'
  <2>1. /\ es[p] # NoReq /\ es'[p] = NoReq /\ awaited[p] = {} /\ UNCHANGED <<asked, awaited>>
        /\ streams'[p] = streams[p] \ {es[p]} /\ ~running'[p]
        /\ target'[t] = es[p] /\ UNCHANGED <<pc, done, dropped>>
        /\ \A u \in Stops \ {t} : target'[u] = target[u]
        /\ target[t] = NoReq
    BY <1>0, <1>1 DEF ClickStop, reqVars, vars, Unsent, Orderly
  <2>2. \A r \in asked[p] : Settled(p, r)'
    BY <1>0, <2>1 DEF Orderly, Settled
  <2> QED
    BY <1>0, <2>1, <2>2 DEF Orderly
<1>2. ASSUME NEW r \in Reqs, ClickStart(p, r) PROVE Orderly(p)'
  <2>1. /\ es[p] = NoReq /\ awaited[p] = {} /\ es' = es /\ streams' = streams
        /\ asked'[p] = asked[p] \union {r} /\ awaited'[p] = {r} /\ running'[p]
        /\ UNCHANGED <<pc, done, dropped, target>>
    BY <1>2 DEF ClickStart, vars
  <2>2. \A q \in asked'[p] : Settled(p, q)'
    BY <1>0, <2>1 DEF Orderly, Settled
  <2> QED
    BY <1>0, <2>1, <2>2 DEF Orderly
<1>3. ASSUME NEW r \in Reqs, Refused(p, r) PROVE Orderly(p)'
  <2>1. /\ r \in awaited[p] /\ awaited'[p] = awaited[p] \ {r} /\ es' = es
        /\ streams' = streams /\ asked' = asked /\ ~running'[p]
        /\ UNCHANGED <<pc, done, target>> /\ dropped \subseteq dropped'
        /\ pc'[r] = "rejected" \/ r \in dropped'
    BY <1>3 DEF Refused, Awaited, vars
  <2>2. es[p] = NoReq /\ awaited'[p] = {}
    BY <1>0, <2>1 DEF Orderly
  <2>3. \A q \in asked[p] : Settled(p, q)'
    BY <1>0, <2>1, <2>2 DEF Orderly, Settled
  <2> QED
    BY <1>0, <2>1, <2>2, <2>3 DEF Orderly
<1>4. ASSUME NEW r \in Reqs, Accepted(p, r) PROVE Orderly(p)'
  <2>1. /\ r \in awaited[p] /\ awaited'[p] = awaited[p] \ {r} /\ es'[p] = r
        /\ streams'[p] = streams[p] \union {r} /\ asked' = asked /\ running' = running
        /\ UNCHANGED <<pc, done, target, dropped>>
    BY <1>4 DEF Accepted, Awaited, vars
  <2>2. es[p] = NoReq /\ awaited'[p] = {} /\ running[p] /\ r # NoReq
    BY <1>0, <2>1 DEF Orderly
  <2>3. \A q \in asked[p] : Settled(p, q)'
    BY <1>0, <2>1, <2>2 DEF Orderly, Settled
  <2> QED
    BY <1>0, <2>1, <2>2, <2>3 DEF Orderly
<1>5. ASSUME NEW r \in Reqs, OnDone(p, r) \/ OnError(p, r) PROVE Orderly(p)'
  <2>1. /\ r \in streams[p] /\ streams'[p] = streams[p] \ {es[p]} /\ es'[p] = NoReq
        /\ ~running'[p] /\ UNCHANGED <<asked, awaited, pc, done, target>>
        /\ dropped \subseteq dropped' /\ (done[r] \/ r \in dropped')
    BY <1>5 DEF OnDone, OnError, CloseEs, reqVars, vars
  <2>2. r = es[p] /\ r # NoReq /\ awaited[p] = {}
    BY <1>0, <2>1 DEF Orderly
  <2>3. \A q \in asked[p] : Settled(p, q)'
    BY <1>0, <2>1, <2>2 DEF Orderly, Settled
  <2> QED
    BY <1>0, <2>1, <2>2, <2>3 DEF Orderly
<1>6. CASE UNCHANGED <<asked[p], awaited[p], es[p], streams[p], running[p]>>
  <2>1. \A r \in asked[p] : Settled(p, r)'
    BY <1>0, <1>6, SettledStays DEF Orderly
  <2> QED
    BY <1>0, <1>6, <2>1 DEF Orderly
<1> QED
  <2>1. ASSUME NEW q \in Pages, q # p, Page(q)
        PROVE  UNCHANGED <<asked[p], awaited[p], es[p], streams[p], running[p]>>
    BY <2>1 DEF Page, ClickStop, ClickStart, Refused, Accepted, Awaited, OnDone, OnError,
                CloseEs, reqVars
  <2>2. ASSUME (\E r \in Reqs : Receive(r)) \/ (\E t \in Stops : ReceiveStop(t))
               \/ (Serve /\ UNCHANGED pageVars) \/ UNCHANGED allVars
        PROVE  UNCHANGED <<asked[p], awaited[p], es[p], streams[p], running[p]>>
    BY <2>2 DEF Receive, ReceiveStop, allVars, pageVars
  <2> QED
    BY <1>1, <1>2, <1>3, <1>4, <1>5, <1>6, <2>1, <2>2 DEF PageNext, Page

LEMMA PageInvariance == PageSpec => [](IInv /\ PInv)
<1>1. PageSpec => []IInv
  BY PagesUseTheServer, Invariance, PTL
<1>2. IInv /\ PInv /\ [PageNext]_allVars => PInv'
  <2> SUFFICES ASSUME IInv, PInv, [PageNext]_allVars PROVE PInv'
    OBVIOUS
  <2>1. PagesTypeOK' /\ ShownHaveJobs' /\ StopsReachTheScanShown'
    BY PagesTypeInductive, ShownInductive, StopsInductive
  <2>2. ASSUME NEW p \in Pages \ crossed' PROVE Orderly(p)'
    BY <2>1, OrderlyInductive
  <2> QED
    BY <2>1, <2>2 DEF PInv
<1> QED
  BY <1>1, <1>2, InitPInv, PTL DEF PageSpec

-----------------------------------------------------------------------------
\* The pages and the server keep their types.
THEOREM PagesTypeCorrect == PageSpec => []PagesTypeOK
<1>1. PInv => PagesTypeOK
  BY DEF PInv
<1> QED
  BY <1>1, PageInvariance, PTL

\* A stop hits the scan its page showed, or comes before that scan has
\* published its cancel function or after it has withdrawn it.
THEOREM StopsReachTheirScan == PageSpec => []StopsReachTheScanShown
<1>1. PInv => StopsReachTheScanShown
  BY DEF PInv
<1> QED
  BY <1>1, PageInvariance, PTL

\* A page that sends one request at a time agrees with the server on whether
\* its scan runs.
THEOREM PagesFollowTheirScans == PageSpec => []PageFollowsItsScan
<1>1. PInv => PageFollowsItsScan
  <2> SUFFICES ASSUME PInv, NEW p \in Pages \ crossed, Orderly(p),
                      NEW r \in asked[p], ~running[p], pc[r] \in Active
               PROVE  done[r] \/ r \in dropped \/ \E t \in Stops : target[t] = r
    BY DEF PInv, PageFollowsItsScan, Orderly
  <2>1. Settled(p, r) /\ r \notin awaited[p] /\ es[p] # r
    BY ServerAssumption DEF Orderly, PInv, PagesTypeOK
  <2> QED
    BY <2>1 DEF Settled, Active
<1> QED
  BY <1>1, PageInvariance, PTL

\* Between its pages, too, the server runs one scan at a time, and its stops
\* hit their own scan.
THEOREM PagesKeepScansApart == PageSpec => [](OneScanAtATime /\ CancelledByItsStop)
BY PagesUseTheServer, ScansExclude, StopsHitTheirScan, PTL

=============================================================================
