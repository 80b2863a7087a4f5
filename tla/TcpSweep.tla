------------------------------- MODULE TcpSweep -------------------------------
(****************************************************************************)
(* Stage 1: stage1 of package pipeline and scan.Run, which it calls once    *)
(* per port.  A pass is one call of Run: a launcher goroutine starts one    *)
(* worker per host, at most Concurrency at a time; a worker dials, sends a  *)
(* reachable host to the channel out, counts itself and reports progress;   *)
(* the launcher closes out when every worker has left; stage1 receives      *)
(* until out is closed and starts the next pass.                            *)
(*                                                                          *)
(* A pass stands for a place in the list of ports, which no front-end rids  *)
(* of repetitions: a port given twice is two passes, each with its own      *)
(* endpoints here, and its survivors are in the code's list twice.          *)
(*                                                                          *)
(* The counting semaphore sem and the wait group wg are represented by the  *)
(* sets of workers that hold a slot and that have not called Done.          *)
(****************************************************************************)
EXTENDS Integers, Sequences, FiniteSets

CONSTANTS NumHosts,     \* len(hosts)
          NumPorts,     \* len(ports), the number of passes
          Concurrency,  \* opt.Concurrency, after its default
          OutCap,       \* capacity of out: 256
          Percent       \* progress is reported in steps of total/Percent: 100

ASSUME SweepAssumption == /\ NumHosts \in Nat
                          /\ NumPorts \in Nat \ {0}
                          /\ Concurrency \in Nat \ {0}
                          /\ OutCap \in Nat \ {0}
                          /\ Percent \in Nat \ {0}

VARIABLES pass,         \* which place of ports is swept, NumPorts + 1 after the last
          base,         \* stage1's base
          launcher,     \* where the goroutine of Run is
          next,         \* how many hosts its loop has taken
          wPc,          \* where the worker of each host is
          sem, wg,
          out,          \* the buffer of the channel
          done,         \* Run's done
          ticket,       \* the worker's d, plus the pass's offset
          survivors,    \* stage1's survivors
          cancelled,    \* the scan's context is cancelled
          opened,       \* the endpoints whose dial succeeded (history)
          reported      \* the values passed to cfg.Progress (history)

passVars == <<pass, base, launcher, next>>
histVars == <<opened, reported>>
vars == <<pass, base, launcher, next, wPc, sem, wg, out, done, ticket,
          survivors, cancelled, opened, reported>>

Hosts     == 1..NumHosts
Endpoints == Hosts \X (1..NumPorts)      \* a host and a place in ports
total     == NumHosts * NumPorts
step      == IF total \div Percent < 1 THEN 1 ELSE total \div Percent
Working   == {"dialing", "sending", "counting", "reporting", "releasing", "leaving"}
Finished  == pass > NumPorts

Init == /\ pass = 1
        /\ base = 0
        /\ launcher = "launching"
        /\ next = 0
        /\ wPc = [h \in Hosts |-> "idle"]
        /\ sem = {} /\ wg = {}
        /\ out = <<>>
        /\ done = 0
        /\ ticket = [h \in Hosts |-> 0]
        /\ survivors = <<>>
        /\ cancelled = FALSE
        /\ opened = {} /\ reported = {}

-----------------------------------------------------------------------------
(* The launcher of Run.  When the context is cancelled and a slot is free,  *)
(* its select may take either branch.                                       *)

Launch == /\ launcher = "launching"
          /\ next < NumHosts
          /\ Cardinality(sem) < Concurrency
          /\ next' = next + 1
          /\ sem' = sem \union {next + 1}
          /\ wg' = wg \union {next + 1}
          /\ wPc' = [wPc EXCEPT ![next + 1] = "dialing"]
          /\ UNCHANGED <<pass, base, launcher, out, done, ticket, survivors,
                         cancelled, histVars>>

\* The loop ends, or ctx.Done() is taken; both lead to wg.Wait().
Drain == /\ launcher = "launching"
         /\ next = NumHosts \/ cancelled
         /\ launcher' = "waiting"
         /\ UNCHANGED <<pass, base, next, wPc, sem, wg, out, done, ticket,
                        survivors, cancelled, histVars>>

\* Faulty variant: a cancelled launcher does not wait for its workers.
CloseEarly == /\ launcher = "waiting"
              /\ wg = {} \/ cancelled
              /\ launcher' = "closed"
              /\ UNCHANGED <<pass, base, next, wPc, sem, wg, out, done, ticket,
                             survivors, cancelled, histVars>>

\* wg.Wait() returns; the deferred close(out).
Close == /\ launcher = "waiting"
         /\ wg = {}
         /\ launcher' = "closed"
         /\ UNCHANGED <<pass, base, next, wPc, sem, wg, out, done, ticket,
                        survivors, cancelled, histVars>>

-----------------------------------------------------------------------------
(* The worker of host h *)

Goto(h, p, q) == wPc[h] = p /\ wPc' = [wPc EXCEPT ![h] = q]

\* dial: it succeeds, or fails, times out or is cancelled.  A dial that
\* starts on a cancelled context fails at once; the model lets it succeed too.
Dial(h) == /\ \/ Goto(h, "dialing", "sending") /\ opened' = opened \union {<<h, pass>>}
              \/ Goto(h, "dialing", "counting") /\ opened' = opened
           /\ UNCHANGED <<passVars, sem, wg, out, done, ticket, survivors,
                          cancelled, reported>>

\* Faulty variant: the capacity is not respected.
SendUnbounded(h) == /\ Goto(h, "sending", "counting")
                    /\ out' = Append(out, h)
                    /\ UNCHANGED <<passVars, sem, wg, done, ticket, survivors,
                                   cancelled, histVars>>

\* Faulty variant: a full buffer drops the host instead of blocking.
SendOrDrop(h) == /\ Goto(h, "sending", "counting")
                 /\ out' = IF Len(out) < OutCap THEN Append(out, h) ELSE out
                 /\ UNCHANGED <<passVars, sem, wg, done, ticket, survivors,
                                cancelled, histVars>>

\* out <- Result{...}, unless ctx.Done() is taken.
Send(h) == /\ Goto(h, "sending", "counting")
           /\ \/ Len(out) < OutCap /\ out' = Append(out, h)
              \/ cancelled /\ out' = out
           /\ UNCHANGED <<passVars, sem, wg, done, ticket, survivors,
                          cancelled, histVars>>

\* Faulty variant: the hosts of earlier passes are not counted.
CountInPass(h) == /\ Goto(h, "counting", "reporting")
                  /\ done' = done + 1
                  /\ ticket' = [ticket EXCEPT ![h] = done + 1]
                  /\ UNCHANGED <<passVars, sem, wg, out, survivors, cancelled,
                                 opened, reported>>

\* done++; d := done, under mu; the callback adds the offset of the pass.
Count(h) == /\ Goto(h, "counting", "reporting")
            /\ done' = done + 1
            /\ ticket' = [ticket EXCEPT ![h] = base + done + 1]
            /\ UNCHANGED <<passVars, sem, wg, out, survivors, cancelled,
                           opened, reported>>

isReported(d) == d = total \/ d % step = 0

\* The callback, outside mu: reports of two workers may be made out of order.
Report(h) == /\ Goto(h, "reporting", "releasing")
             /\ reported' = reported \union {d \in {ticket[h]} : isReported(d)}
             /\ UNCHANGED <<passVars, sem, wg, out, done, ticket, survivors,
                            cancelled, opened>>

\* Faulty variant: the slot of a host that did not answer is not given back.
ReleaseIfOpen(h) == /\ Goto(h, "releasing", "leaving")
                    /\ sem' = IF <<h, pass>> \in opened THEN sem \ {h} ELSE sem
                    /\ UNCHANGED <<passVars, wg, out, done, ticket, survivors,
                                   cancelled, histVars>>

\* The deferred <-sem, and after it the deferred wg.Done().
Release(h) == /\ Goto(h, "releasing", "leaving")
              /\ sem' = sem \ {h}
              /\ UNCHANGED <<passVars, wg, out, done, ticket, survivors,
                             cancelled, histVars>>

Leave(h) == /\ Goto(h, "leaving", "idle")
            /\ wg' = wg \ {h}
            /\ UNCHANGED <<passVars, sem, out, done, ticket, survivors,
                           cancelled, histVars>>

-----------------------------------------------------------------------------
(* stage1 *)

\* for r := range resCh
Receive == /\ out # <<>>
           /\ survivors' = Append(survivors, <<Head(out), pass>>)
           /\ out' = Tail(out)
           /\ UNCHANGED <<passVars, wPc, sem, wg, done, ticket, cancelled, histVars>>

\* The range ends; the next port, if any, is swept by a new call of Run.
NextPass == /\ ~Finished
            /\ launcher = "closed" /\ out = <<>>
            /\ pass' = pass + 1
            /\ base' = base + NumHosts
            /\ launcher' = IF pass = NumPorts THEN "closed" ELSE "launching"
            /\ next' = 0
            /\ done' = 0
            /\ sem' = {} /\ wg' = {}
            /\ ticket' = [h \in Hosts |-> 0]
            /\ UNCHANGED <<wPc, out, survivors, cancelled, histVars>>

\* handleStop, Ctrl-C, or the end of the scan's goroutine.
Cancel == /\ ~cancelled /\ ~Finished
          /\ cancelled' = TRUE
          /\ UNCHANGED <<passVars, wPc, sem, wg, out, done, ticket, survivors, histVars>>

-----------------------------------------------------------------------------
Worker(h) == Dial(h) \/ Send(h) \/ Count(h) \/ Report(h) \/ Release(h) \/ Leave(h)

Next == \/ Launch \/ Drain \/ Close
        \/ \E h \in Hosts : Worker(h)
        \/ Receive \/ NextPass
        \/ Cancel

\* Goroutines are scheduled and a dial returns within its timeout.  Nobody
\* has to cancel.
Fairness == /\ WF_vars(Launch \/ Drain) /\ WF_vars(Close)
            /\ WF_vars(Receive) /\ WF_vars(NextPass)
            /\ \A h \in Hosts : WF_vars(Worker(h))

Spec == Init /\ [][Next]_vars /\ Fairness

-----------------------------------------------------------------------------
(* Properties *)

\* Type invariant of the sweep.
TypeOK == /\ pass \in 1..(NumPorts + 1)
          /\ base \in Nat
          /\ launcher \in {"launching", "waiting", "closed"}
          /\ next \in 0..NumHosts
          /\ wPc \in [Hosts -> Working \union {"idle"}]
          /\ sem \subseteq Hosts
          /\ wg \subseteq Hosts
          /\ out \in Seq(Hosts) /\ Len(out) <= OutCap
          /\ done \in Nat
          /\ ticket \in [Hosts -> Nat]
          /\ survivors \in Seq(Endpoints)
          /\ cancelled \in BOOLEAN
          /\ opened \subseteq Endpoints
          /\ reported \subseteq Nat

\* When out is closed no worker of the pass is left: none can send on the
\* closed channel, dial, or call back into the job after the sweep returned,
\* also when it was cancelled.
QuietWhenClosed == launcher = "closed" => \A h \in Hosts : wPc[h] = "idle"

\* At most Concurrency connections are being dialled, over all interleavings
\* of the launcher with workers that release their slot before they leave.
DialsBounded == Cardinality({h \in Hosts : wPc[h] = "dialing"}) <= Concurrency

\* The endpoints stage1 returns are those that answered, each once; without a
\* cancellation none is lost between dial, channel and slice, whatever the
\* buffer holds when the pass ends.
Received == {survivors[i] : i \in DOMAIN survivors}

SurvivorsExact ==
    /\ Received \subseteq opened
    /\ \A i, j \in DOMAIN survivors : survivors[i] = survivors[j] => i = j
    /\ Finished /\ ~cancelled => Received = opened

\* A sweep that was not cancelled has reported its total, so that the
\* progress of the stage reaches its end whichever worker came last.
ProgressReachesTotal ==
    Finished /\ ~cancelled /\ NumHosts > 0 => total \in reported

\* The sweep returns: every worker is waited for, no slot is lost, and the
\* channel is drained.
SweepEnds == <>Finished

=============================================================================
