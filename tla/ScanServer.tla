------------------------------ MODULE ScanServer ------------------------------
(****************************************************************************)
(* The scan lifecycle of the web server: the scanning flag, the published   *)
(* cancel function and the job map of type Server, as handleScan, its       *)
(* goroutine, handleStop, newJob and sweepJobsLocked use them.              *)
(*                                                                          *)
(* A request to POST /api/scan that is admitted becomes a job, a context    *)
(* and a goroutine; all four are named by the request.  Critical sections   *)
(* of Server.mu, atomic operations on Server.scanning and calls of a cancel *)
(* function are single steps.  What the scan does and what it pushes to its *)
(* job are in the modules of the pipeline and in JobStream.                 *)
(****************************************************************************)
EXTENDS Integers

CONSTANTS Reqs,       \* well-formed requests to POST /api/scan
          Stops,      \* requests to POST /api/stop
          NoReq,      \* s.cancel == nil
          Hour,       \* job retention
          MaxClock    \* bound on the wall clock

ASSUME ServerAssumption == /\ NoReq \notin Reqs
                           /\ Hour \in Nat
                           /\ MaxClock \in Nat

VARIABLES pc,         \* where the handler of the request, then its goroutine, is
          scanning,   \* s.scanning
          cancel,     \* s.cancel, as the request whose context it cancels
          cancelled,  \* the contexts cancelled so far
          jobs,       \* s.jobs
          done,       \* done[r]: job.done
          createdAt,  \* job.createdAt
          stopPc,     \* where handleStop is
          held,       \* its local variable cancel
          clock       \* wall clock

scanVars == <<pc, scanning, cancel, cancelled>>
jobVars  == <<jobs, done, createdAt>>
stopVars == <<stopPc, held>>
vars     == <<pc, scanning, cancel, cancelled, jobs, done, createdAt,
              stopPc, held, clock>>

\* From the compare-and-swap to the deferred Store(false).
Active    == {"admitted", "spawned", "running", "returned", "finished",
              "unwinding", "cleared"}
\* While s.cancel holds the scan's cancel function.
Published == {"running", "returned", "finished", "unwinding"}
\* Before newJob has run.
Jobless   == {"new", "rejected", "admitted"}
PcValues  == Active \union {"new", "rejected", "over"}

Times == 0..MaxClock

Init == /\ pc = [r \in Reqs |-> "new"]
        /\ scanning = FALSE
        /\ cancel = NoReq
        /\ cancelled = {}
        /\ jobs = {}
        /\ done = [r \in Reqs |-> FALSE]
        /\ createdAt = [r \in Reqs |-> 0]
        /\ stopPc = [t \in Stops |-> "idle"]
        /\ held = [t \in Stops |-> NoReq]
        /\ clock = 0

-----------------------------------------------------------------------------
(* handleScan *)

Step(r, p, q) == pc[r] = p /\ pc' = [pc EXCEPT ![r] = q]

\* s.scanning.CompareAndSwap(false, true)
Admit(r) == /\ Step(r, "new", "admitted")
            /\ ~scanning
            /\ scanning' = TRUE
            /\ UNCHANGED <<cancel, cancelled, jobVars, stopVars, clock>>

\* 409 Conflict
Reject(r) == /\ Step(r, "new", "rejected")
             /\ scanning
             /\ UNCHANGED <<scanning, cancel, cancelled, jobVars, stopVars, clock>>

\* sweepJobsLocked's verdict on a job of the map.
reap(j) == done[j] /\ createdAt[j] < clock - Hour

\* newJob: under s.mu, the new job enters the map and the map is swept.
NewJob(r) == /\ Step(r, "admitted", "spawned")
             /\ createdAt' = [createdAt EXCEPT ![r] = clock]
             /\ jobs' = {j \in jobs : ~reap(j)} \union {r}
             /\ UNCHANGED <<scanning, cancel, cancelled, done,
                            stopVars, clock>>

-----------------------------------------------------------------------------
(* The goroutine of handleScan *)

\* s.cancel = cancel, under s.mu.
Publish(r) == /\ Step(r, "spawned", "running")
              /\ cancel' = r
              /\ UNCHANGED <<scanning, cancelled, jobVars, stopVars, clock>>

\* Faulty variant: the server is freed when the scan returns, before its job is
\* finished.
ScanReturnsFreed(r) == /\ Step(r, "running", "returned")
                       /\ scanning' = FALSE
                       /\ UNCHANGED <<cancel, cancelled, jobVars, stopVars, clock>>

\* s.svc.Scan returns, on its own or because its context was cancelled.
ScanReturns(r) == /\ Step(r, "running", "returned")
                  /\ UNCHANGED <<scanning, cancel, cancelled, jobVars, stopVars, clock>>

\* Faulty variant: the server is freed as soon as the page is told "done".
FinishAndFree(r) == /\ Step(r, "returned", "finished")
                    /\ done' = [done EXCEPT ![r] = TRUE]
                    /\ scanning' = FALSE
                    /\ UNCHANGED <<cancel, cancelled, jobs, createdAt, stopVars, clock>>

\* j.finish()
Finish(r) == /\ Step(r, "returned", "finished")
             /\ done' = [done EXCEPT ![r] = TRUE]
             /\ UNCHANGED <<scanning, cancel, cancelled, jobs, createdAt,
                            stopVars, clock>>

\* Faulty variant: the defers are registered in the other order, so that the
\* flag is released before s.cancel is cleared.
EpilogueSwapped(r) ==
    /\ \/ /\ Step(r, "finished", "unwinding")
          /\ cancelled' = cancelled \union {r}
          /\ UNCHANGED <<scanning, cancel>>
       \/ /\ Step(r, "unwinding", "cleared")
          /\ scanning' = FALSE
          /\ UNCHANGED <<cancel, cancelled>>
       \/ /\ Step(r, "cleared", "over")
          /\ cancel' = NoReq
          /\ UNCHANGED <<scanning, cancelled>>
    /\ UNCHANGED <<jobVars, stopVars, clock>>

\* The deferred calls, last registered first: cancel(), then s.cancel = nil
\* under s.mu, then s.scanning.Store(false).
Epilogue(r) ==
    /\ \/ /\ Step(r, "finished", "unwinding")
          /\ cancelled' = cancelled \union {r}
          /\ UNCHANGED <<scanning, cancel>>
       \/ /\ Step(r, "unwinding", "cleared")
          /\ cancel' = NoReq
          /\ UNCHANGED <<scanning, cancelled>>
       \/ /\ Step(r, "cleared", "over")
          /\ scanning' = FALSE
          /\ UNCHANGED <<cancel, cancelled>>
    /\ UNCHANGED <<jobVars, stopVars, clock>>

-----------------------------------------------------------------------------
(* handleStop *)

\* cancel := s.cancel, under s.mu.
StopRead(t) == /\ stopPc[t] = "idle"
               /\ stopPc' = [stopPc EXCEPT ![t] = "read"]
               /\ held' = [held EXCEPT ![t] = cancel]
               /\ UNCHANGED <<scanVars, jobVars, clock>>

\* Faulty variant: s.cancel is read again after the nil check.
StopCancelRereads(t) ==
    /\ stopPc[t] = "read"
    /\ stopPc' = [stopPc EXCEPT ![t] = "replied"]
    /\ cancelled' = IF held[t] = NoReq \/ cancel = NoReq
                    THEN cancelled ELSE cancelled \union {cancel}
    /\ UNCHANGED <<pc, scanning, cancel, held, jobVars, clock>>

\* Faulty variant: nothing is cancelled.
StopCancelForgets(t) ==
    /\ stopPc[t] = "read"
    /\ stopPc' = [stopPc EXCEPT ![t] = "replied"]
    /\ UNCHANGED <<scanVars, held, jobVars, clock>>

\* if cancel != nil { cancel() }, outside the lock; then the reply.
StopCancel(t) == /\ stopPc[t] = "read"
                 /\ stopPc' = [stopPc EXCEPT ![t] = "replied"]
                 /\ cancelled' = cancelled \union ({held[t]} \ {NoReq})
                 /\ UNCHANGED <<pc, scanning, cancel, held, jobVars, clock>>

-----------------------------------------------------------------------------
\* Bounded by MaxClock.
Tick == /\ clock < MaxClock
        /\ clock' = clock + 1
        /\ UNCHANGED <<scanVars, jobVars, stopVars>>

Handler(r)   == Admit(r) \/ Reject(r) \/ NewJob(r)
Goroutine(r) == Publish(r) \/ ScanReturns(r) \/ Finish(r) \/ Epilogue(r)
Stop(t)      == StopRead(t) \/ StopCancel(t)

Next == \/ \E r \in Reqs : Handler(r) \/ Goroutine(r)
        \/ \E t \in Stops : Stop(t)
        \/ Tick

\* Goroutines and handlers that have started are scheduled.  A scan may take
\* arbitrarily long, but returns once its context is cancelled, which is what
\* TcpSweep and XrayBatches show of its two stages.
Fairness == /\ \A r \in Reqs :
                 /\ WF_vars(NewJob(r)) /\ WF_vars(Publish(r))
                 /\ WF_vars(r \in cancelled /\ ScanReturns(r))
                 /\ WF_vars(Finish(r)) /\ WF_vars(Epilogue(r))
            /\ \A t \in Stops : WF_vars(StopCancel(t))

Spec == Init /\ [][Next]_vars /\ Fairness

-----------------------------------------------------------------------------
(* Properties *)

\* Type invariant of the server.
TypeOK == /\ pc \in [Reqs -> PcValues]
          /\ scanning \in BOOLEAN
          /\ cancel \in Reqs \union {NoReq}
          /\ cancelled \subseteq Reqs
          /\ jobs \subseteq Reqs
          /\ done \in [Reqs -> BOOLEAN]
          /\ createdAt \in [Reqs -> Times]
          /\ stopPc \in [Stops -> {"idle", "read", "replied"}]
          /\ held \in [Stops -> Reqs \union {NoReq}]
          /\ clock \in Times

\* Two scans never overlap, from the admission of one to the last deferred
\* call of its goroutine: they would share the results file, the embedded
\* binary and s.cancel.
OneScanAtATime ==
    \A r, q \in Reqs : pc[r] \in Active /\ pc[q] \in Active => r = q

\* As long as a scan runs after publishing its cancel function, s.cancel is
\* that function: neither a late goroutine of an earlier scan nor another
\* request takes it away.
RunningScanIsStoppable ==
    \A r \in Reqs : pc[r] \in Published => cancel = r

\* A scan whose context is cancelled before it unwinds was cancelled by a
\* stop request that held its own cancel function.  Once a stop has read the
\* function of one scan it cannot hit a later one, however late it gets to call
\* it; a stop that is late to read it can, see StopsReachTheScanShown.
CancelledByItsStop ==
    \A r \in cancelled :
        \/ pc[r] \in {"unwinding", "cleared", "over"}
        \/ \E t \in Stops : held[t] = r /\ stopPc[t] = "replied"

\* The event buffers that are kept, which may hold credentials, belong to jobs
\* created within an Hour of each other, although the sweep spares whatever is
\* not done: a job is done before the flag is released, and so before the next
\* request sweeps.  The job of a running scan is always there to be opened.
RetentionBounded ==
    /\ \A r, q \in jobs : createdAt[q] - createdAt[r] <= Hour
    /\ \A r \in Reqs : pc[r] \in Active \ {"admitted"} => r \in jobs

\* A scan that a stop found, or that finished by itself, comes to its end and
\* frees the server: the flag is released, or held by another scan that was
\* admitted since.
ScansEnd ==
    \A r \in Reqs :
        (done[r] \/ \E t \in Stops : held[t] = r) ~>
            /\ pc[r] = "over"
            /\ scanning => \E q \in Reqs \ {r} : pc[q] \in Active

=============================================================================
