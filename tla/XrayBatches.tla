----------------------------- MODULE XrayBatches -----------------------------
(****************************************************************************)
(* Stage 2: stage2 of package pipeline, Prober.TestBatch and freePorts of   *)
(* package xray, and, as an external component, the xray processes.         *)
(*                                                                          *)
(* The survivors of stage 1 are cut into batches.  A batch takes a slot,    *)
(* picks one free loopback port per candidate, starts one process that is   *)
(* to listen on those ports, waits for the last port, probes its candidates *)
(* through their ports, kills the process, and appends the accepted         *)
(* candidates to the entries.  The ports are free, not reserved, from the   *)
(* moment freePorts closes its listeners until the process binds them.      *)
(*                                                                          *)
(* A candidate is a position of survivors.  A probe session (probeEndpoint) *)
(* is one step here; ProbeVerdict looks inside.                             *)
(****************************************************************************)
EXTENDS Integers, Sequences, FiniteSets, Functions

CONSTANTS NumCands,         \* len(survivors)
          BatchSize,        \* cfg.BatchSize, after its default
          XrayConcurrency,  \* batches tested at once
          BatchConcurrency, \* probe sessions at once within a batch
          Ports             \* the loopback ports of the machine

ASSUME BatchAssumption == /\ NumCands \in Nat
                          /\ BatchSize \in Nat \ {0}
                          /\ XrayConcurrency \in Nat \ {0}
                          /\ BatchConcurrency \in Nat \ {0}
                          /\ 0 \notin Ports

VARIABLES stage,      \* where stage2 is: "launching", "waiting" or "returned"
          next,       \* how many batches its loop has taken
          sem,        \* the batches that hold a slot of sem
          bPc,        \* where the goroutine of each batch is
          port,       \* port[c]: the inbound port of candidate c, or 0
          proc,       \* the process of each batch
          bound,      \* bound[p]: the batch whose process listens on p, or 0
          cPc,        \* where the probe goroutine of each candidate is
          verdict,    \* verdict[c]: res[i].OK
          entries,    \* stage2's entries
          told,       \* how many results of a batch stage2 has gone through
          done,       \* stage2's done
          cancelled,  \* the scan's context is cancelled
          good,       \* candidates whose outbound works (environment)
          via         \* the candidate whose outbound carried c's probes (history)

stageVars == <<stage, next, sem>>
probeVars == <<cPc, verdict, via>>
tallyVars == <<entries, told, done>>
envVars   == <<cancelled, good>>
vars == <<stage, next, sem, bPc, port, proc, bound, cPc, verdict, entries,
          told, done, cancelled, good, via>>

Cands == 1..NumCands

\* Faulty variant: an incomplete last batch is dropped.
NumBatchesFloor == NumCands \div BatchSize

\* chunkEndpoints
NumBatches == (NumCands + BatchSize - 1) \div BatchSize
Batches    == 1..NumBatches
Batch(c)   == (c - 1) \div BatchSize + 1
Items(b)   == {c \in Cands : Batch(c) = b}
LastItem(b) == CHOOSE c \in Items(b) : \A d \in Items(b) : d <= c

Alive == {"starting", "serving"}

Init == /\ stage = IF NumCands = 0 THEN "returned" ELSE "launching"
        /\ next = 0
        /\ sem = {}
        /\ bPc = [b \in Batches |-> "idle"]
        /\ port = [c \in Cands |-> 0]
        /\ proc = [b \in Batches |-> "none"]
        /\ bound = [p \in Ports |-> 0]
        /\ cPc = [c \in Cands |-> "idle"]
        /\ verdict = [c \in Cands |-> FALSE]
        /\ entries = <<>>
        /\ told = [b \in Batches |-> 0]
        /\ done = 0
        /\ cancelled = FALSE
        /\ good \in SUBSET Cands
        /\ via = [c \in Cands |-> 0]

-----------------------------------------------------------------------------
(* stage2 *)

Goto(b, p, q) == bPc[b] = p /\ bPc' = [bPc EXCEPT ![b] = q]

Launch == /\ stage = "launching"
          /\ next < NumBatches
          /\ Cardinality(sem) < XrayConcurrency
          /\ next' = next + 1
          /\ sem' = sem \union {next + 1}
          /\ Goto(next + 1, "idle", "allocating")
          /\ UNCHANGED <<stage, port, proc, bound, probeVars, tallyVars, envVars>>

\* The loop ends, or its select takes ctx.Done(); both lead to wg.Wait().
Drain == /\ stage = "launching"
         /\ next = NumBatches \/ cancelled
         /\ stage' = "waiting"
         /\ UNCHANGED <<next, sem, bPc, port, proc, bound, probeVars, tallyVars, envVars>>

Return == /\ stage = "waiting"
          /\ \A b \in Batches : bPc[b] = "idle"
          /\ stage' = "returned"
          /\ UNCHANGED <<next, sem, bPc, port, proc, bound, probeVars, tallyVars, envVars>>

-----------------------------------------------------------------------------
(* TestBatch, run by the goroutine of batch b *)

\* freePorts: all listeners are open at once, so the ports are distinct and
\* nobody listens on them; then they are closed.
Allocate(b) ==
    /\ Goto(b, "allocating", "spawning")
    /\ \E f \in Injection(Items(b), {p \in Ports : bound[p] = 0}) :
         port' = [c \in Cands |-> IF c \in Items(b) THEN f[c] ELSE port[c]]
    /\ UNCHANGED <<stageVars, proc, bound, probeVars, tallyVars, envVars>>

\* cmd.Start()
Spawn(b) == /\ Goto(b, "spawning", "starting")
            /\ proc' = [proc EXCEPT ![b] = "starting"]
            /\ UNCHANGED <<stageVars, port, bound, probeVars, tallyVars, envVars>>

\* freePorts, GenerateBatchConfig or cmd.Start() fails: setErr.
Fail(b) == /\ Goto(b, "allocating", "telling") \/ Goto(b, "spawning", "telling")
           /\ UNCHANGED <<stageVars, port, proc, bound, probeVars, tallyVars, envVars>>

\* waitPort finds somebody listening on the last port.
InboundsUp(b) == /\ Goto(b, "starting", "probing")
                 /\ bound[port[LastItem(b)]] # 0
                 /\ cPc' = [c \in Cands |-> IF c \in Items(b) THEN "queued" ELSE cPc[c]]
                 /\ UNCHANGED <<stageVars, port, proc, bound, verdict, via,
                                tallyVars, envVars>>

\* waitPort times out or sees the cancellation: setErr.
InboundsDown(b) == /\ Goto(b, "starting", "stopping")
                   /\ UNCHANGED <<stageVars, port, proc, bound, probeVars,
                                  tallyVars, envVars>>

\* wg.Wait() of the probe goroutines.
Probed(b) == /\ Goto(b, "probing", "stopping")
             /\ \A c \in Items(b) : cPc[c] = "tested"
             /\ UNCHANGED <<stageVars, port, proc, bound, probeVars, tallyVars, envVars>>

Unbind(b) == bound' = [p \in Ports |-> IF bound[p] = b THEN 0 ELSE bound[p]]

\* Faulty variant: the process is signalled and not waited for.
StopWithoutWait(b) == /\ Goto(b, "stopping", "telling")
                      /\ UNCHANGED <<stageVars, port, proc, bound, probeVars,
                                     tallyVars, envVars>>

\* Faulty variant: the process is waited for and not killed.
StopWithoutKill(b) == /\ Goto(b, "stopping", "telling")
                      /\ proc[b] = "dead"
                      /\ UNCHANGED <<stageVars, port, proc, bound, probeVars,
                                     tallyVars, envVars>>

\* The deferred cancel() and cmd.Wait(): the process is killed and gone.
Stop(b) == /\ Goto(b, "stopping", "telling")
           /\ proc' = [proc EXCEPT ![b] = "dead"]
           /\ Unbind(b)
           /\ UNCHANGED <<stageVars, port, probeVars, tallyVars, envVars>>

-----------------------------------------------------------------------------
(* The probe goroutine of candidate c *)

InFlight(b) == {c \in Items(b) : cPc[c] = "probing"}

ProbeStarts(c) ==
    /\ cPc[c] = "queued"
    /\ Cardinality(InFlight(Batch(c))) < BatchConcurrency
    /\ cPc' = [cPc EXCEPT ![c] = "probing"]
    /\ UNCHANGED <<stageVars, bPc, port, proc, bound, verdict, via, tallyVars, envVars>>

\* Its select takes ctx.Done(): the result keeps its zero OK.
ProbeSkipped(c) ==
    /\ cPc[c] = "queued"
    /\ cancelled
    /\ cPc' = [cPc EXCEPT ![c] = "tested"]
    /\ UNCHANGED <<stageVars, bPc, port, proc, bound, verdict, via, tallyVars, envVars>>

\* The candidates whose outbound answers on c's port: the item of the batch
\* that listens there, which GenerateBatchConfig wired to that port.
Behind(c) == {d \in Cands : Batch(d) = bound[port[c]] /\ port[d] = port[c]}

\* probeEndpoint succeeds only over a working outbound, and may always fail.
ProbeEnds(c) ==
    /\ cPc[c] = "probing"
    /\ cPc' = [cPc EXCEPT ![c] = "tested"]
    /\ \/ UNCHANGED <<verdict, via>>
       \/ \E d \in Behind(c) \intersect good :
            /\ verdict' = [verdict EXCEPT ![c] = TRUE]
            /\ via' = [via EXCEPT ![c] = d]
    /\ UNCHANGED <<stageVars, bPc, port, proc, bound, tallyVars, envVars>>

-----------------------------------------------------------------------------
(* The results of batch b, in stage2's goroutine *)

\* Results are told in the order of the items.
Current(b) == (b - 1) * BatchSize + told[b] + 1

\* Faulty variant: an accepted result is counted twice.
TellTwice(b) ==
    /\ bPc[b] = "telling"
    /\ told[b] < Cardinality(Items(b))
    /\ entries' = IF verdict[Current(b)] THEN Append(entries, Current(b)) ELSE entries
    /\ told' = [told EXCEPT ![b] = @ + 1]
    /\ done' = IF verdict[Current(b)] THEN done + 2 ELSE done + 1
    /\ UNCHANGED <<stageVars, bPc, port, proc, bound, probeVars, envVars>>

\* tr.OK: the candidate is appended to entries, under mu; then done is
\* incremented, which no other operation of the stage reads.
Tell(b) == /\ bPc[b] = "telling"
           /\ told[b] < Cardinality(Items(b))
           /\ entries' = IF verdict[Current(b)] THEN Append(entries, Current(b)) ELSE entries
           /\ told' = [told EXCEPT ![b] = @ + 1]
           /\ done' = done + 1
           /\ UNCHANGED <<stageVars, bPc, port, proc, bound, probeVars, envVars>>

\* The deferred <-sem and wg.Done().
Leave(b) == /\ Goto(b, "telling", "idle")
            /\ told[b] = Cardinality(Items(b))
            /\ sem' = sem \ {b}
            /\ UNCHANGED <<stage, next, port, proc, bound, probeVars, tallyVars, envVars>>

-----------------------------------------------------------------------------
(* The xray processes (external) and the user *)

PortsOf(b) == {port[c] : c \in Items(b)}

\* The process binds its ports; when one is taken it exits or goes without.
XrayBinds(b) ==
    /\ proc[b] = "starting"
    /\ proc' = [proc EXCEPT ![b] = "serving"]
    /\ bound' = [p \in Ports |-> IF p \in PortsOf(b) /\ bound[p] = 0 THEN b ELSE bound[p]]
    /\ UNCHANGED <<stageVars, bPc, port, probeVars, tallyVars, envVars>>

XrayExits(b) ==
    /\ proc[b] \in Alive
    /\ proc' = [proc EXCEPT ![b] = "dead"]
    /\ Unbind(b)
    /\ UNCHANGED <<stageVars, bPc, port, probeVars, tallyVars, envVars>>

Cancel == /\ ~cancelled /\ stage # "returned"
          /\ cancelled' = TRUE
          /\ UNCHANGED <<stageVars, bPc, port, proc, bound, probeVars, tallyVars, good>>

-----------------------------------------------------------------------------
BatchStep(b) == \/ Allocate(b) \/ Fail(b) \/ Spawn(b) \/ InboundsUp(b) \/ InboundsDown(b)
                \/ Probed(b) \/ Stop(b) \/ Tell(b) \/ Leave(b)
Probe(c) == ProbeStarts(c) \/ ProbeSkipped(c) \/ ProbeEnds(c)
Xray(b)  == XrayBinds(b) \/ XrayExits(b)

Next == \/ Launch \/ Drain \/ Return
        \/ \E b \in Batches : BatchStep(b) \/ Xray(b)
        \/ \E c \in Cands : Probe(c)
        \/ Cancel

\* Goroutines are scheduled; waitPort and every probe have a timeout.  Of the
\* processes nothing is assumed.
Fairness == /\ WF_vars(Launch \/ Drain) /\ WF_vars(Return)
            /\ \A b \in Batches : WF_vars(BatchStep(b))
            /\ \A c \in Cands : WF_vars(Probe(c))

Spec == Init /\ [][Next]_vars /\ Fairness

-----------------------------------------------------------------------------
(* Properties *)

\* Type invariant of the stage.
TypeOK == /\ stage \in {"launching", "waiting", "returned"}
          /\ next \in 0..NumBatches
          /\ sem \subseteq Batches
          /\ bPc \in [Batches -> {"idle", "allocating", "spawning", "starting",
                                  "probing", "stopping", "telling"}]
          /\ port \in [Cands -> Ports \union {0}]
          /\ proc \in [Batches -> Alive \union {"none", "dead"}]
          /\ bound \in [Ports -> Batches \union {0}]
          /\ cPc \in [Cands -> {"idle", "queued", "probing", "tested"}]
          /\ verdict \in [Cands -> BOOLEAN]
          /\ entries \in Seq(Cands)
          /\ told \in [Batches -> 0..BatchSize]
          /\ done \in 0..NumCands
          /\ cancelled \in BOOLEAN
          /\ good \subseteq Cands
          /\ via \in [Cands -> Cands \union {0}]

\* Processes live only inside the slot of their batch: never more than
\* XrayConcurrency at once, and none is left when the stage returns, also when
\* it was cancelled.
NoStrayProcess ==
    /\ \A b \in Batches : proc[b] \in Alive => b \in sem
    /\ Cardinality(sem) <= XrayConcurrency
    /\ stage = "returned" => sem = {}

Accepted == {entries[i] : i \in DOMAIN entries}

\* The entries are accepted candidates, each once, and a stage that ran to its
\* end accounted for every survivor and kept every accepted one.
EntriesExact ==
    /\ \A c \in Accepted : verdict[c]
    /\ \A i, j \in DOMAIN entries : entries[i] = entries[j] => i = j
    /\ stage = "returned" /\ ~cancelled =>
         done = NumCands /\ \A c \in Cands : verdict[c] => c \in Accepted

\* The stage returns, whatever its processes do and whether or not it is
\* cancelled.
StageReturns == <>(stage = "returned")

\* A candidate is accepted over its own outbound, or it was misrouted by another
\* batch that is probing at the same time: never by a candidate of its own batch
\* and never by a process that outlived its batch.
MisroutedOnlyByConcurrentBatch ==
    [][\A c \in Cands : ~verdict[c] /\ verdict'[c] =>
         \/ via'[c] = c
         \/ Batch(via'[c]) # Batch(c) /\ Batch(via'[c]) \in sem]_vars

\* A candidate is accepted only over its own outbound.  With two batches at a
\* time this is violated: the comment on freePorts ("a lost port just means that
\* candidate's probes fail and it's dropped") is not what happens when the
\* other batch's process has the port.
AcceptedOverOwnOutbound == \A c \in Cands : verdict[c] => via[c] = c

=============================================================================
