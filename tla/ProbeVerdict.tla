----------------------------- MODULE ProbeVerdict -----------------------------
(****************************************************************************)
(* The accuracy controls of stage 2: one run of probeEndpoint, which        *)
(* measures a candidate with at most Probes requests, stops as soon as      *)
(* K-of-N is decided, and accepts on the median.  N, K and the budget are   *)
(* what ScanLimits makes of the user's settings.                            *)
(*                                                                          *)
(* Latencies are in units of the budget's resolution.  answer fixes, for    *)
(* each of the N requests, what it would measure if it were made, so that   *)
(* the run that stops early can be compared with the one that does not.     *)
(****************************************************************************)
EXTENDS ScanLimits, Sequences, FiniteSets

CONSTANTS Frontend, Given,      \* where the scan was started, with what settings
          Latency               \* what a request may measure

ASSUME ProbeAssumption == /\ Frontend \in Frontends
                          /\ Given \in Settings
                          /\ Latency \subseteq Nat \ {0}

Config     == effective(Frontend, Given)
Probes     == Config.Probes
Confirm    == Config.Confirm
MaxLatency == Config.MaxLatency

Failure == 0

VARIABLES pc,         \* where probeEndpoint is
          answer,     \* what each request measures, or Failure (environment)
          cancelled,  \* parentCtx is cancelled
          attempts, lats, fails,
          spoiled,    \* a request failed because of the cancellation (history)
          res         \* the result: ok, successes, total, err

vars == <<pc, answer, cancelled, attempts, lats, fails, spoiled, res>>

NoResult == [ok |-> FALSE, successes |-> 0, total |-> Probes, err |-> FALSE]

Init == /\ pc = "warmup"
        /\ answer \in [1..Probes -> Latency \union {Failure}]
        /\ cancelled = FALSE
        /\ attempts = 0
        /\ lats = <<>>
        /\ fails = 0
        /\ spoiled = FALSE
        /\ res = NoResult

-----------------------------------------------------------------------------
\* The element that sorting ds would put at index k, from 0.
ranked(ds, k) ==
    CHOOSE v \in {ds[i] : i \in DOMAIN ds} :
        /\ Cardinality({i \in DOMAIN ds : ds[i] < v}) <= k
        /\ k < Cardinality({i \in DOMAIN ds : ds[i] <= v})

\* Faulty variant: the fastest request counts for all.
medianLow(ds) == LET n == Len(ds) IN IF n = 0 THEN 0 ELSE ranked(ds, 0)

median(ds) == LET n == Len(ds) IN
              IF n = 0 THEN 0
              ELSE IF n % 2 = 1 THEN ranked(ds, n \div 2)
              ELSE (ranked(ds, n \div 2 - 1) + ranked(ds, n \div 2)) \div 2

-----------------------------------------------------------------------------
\* The warmup request; its result is discarded.
Warmup == /\ pc = "warmup"
          /\ pc' = "checking"
          /\ UNCHANGED <<answer, cancelled, attempts, lats, fails, spoiled, res>>

\* The head of the loop: leave at the bound, or because of a cancellation.
Check == /\ pc = "checking"
         /\ \/ attempts = Probes /\ pc' = "deciding" /\ res' = res
            \/ /\ attempts < Probes
               /\ ~cancelled
               /\ pc' = "probing" /\ res' = res
            \/ /\ attempts < Probes
               /\ cancelled
               /\ pc' = "returned"
               /\ res' = [NoResult EXCEPT !.total = attempts, !.err = TRUE]
         /\ UNCHANGED <<answer, cancelled, attempts, lats, fails, spoiled>>

\* Faulty variant: the reject path gives up one failure early.
maxFailsStrict == Probes - Confirm - 1

maxFails == Probes - Confirm

\* The two breaks of the loop, after a request.
settled == Len(lats') >= Confirm \/ fails' > maxFails

Probe == /\ pc = "probing"
         /\ attempts' = attempts + 1
         /\ \/ /\ answer[attempts + 1] # Failure
               /\ lats' = Append(lats, answer[attempts + 1])
               /\ UNCHANGED <<fails, spoiled>>
            \/ /\ answer[attempts + 1] = Failure \/ cancelled
               /\ fails' = fails + 1
               /\ spoiled' = (spoiled \/ answer[attempts + 1] # Failure)
               /\ UNCHANGED lats
         /\ pc' = IF settled THEN "deciding" ELSE "checking"
         /\ UNCHANGED <<answer, cancelled, res>>

accepted(ds) == Len(ds) >= Confirm /\ median(ds) > 0 /\ median(ds) <= MaxLatency

Decide == /\ pc = "deciding"
          /\ pc' = "returned"
          /\ res' = [ok |-> accepted(lats), successes |-> Len(lats),
                     total |-> attempts, err |-> FALSE]
          /\ UNCHANGED <<answer, cancelled, attempts, lats, fails, spoiled>>

Cancel == /\ ~cancelled /\ pc # "returned"
          /\ cancelled' = TRUE
          /\ UNCHANGED <<pc, answer, attempts, lats, fails, spoiled, res>>

Next == Warmup \/ Check \/ Probe \/ Decide \/ Cancel

Spec == Init /\ [][Next]_vars

-----------------------------------------------------------------------------
(* Properties *)

\* Type invariant; in particular the settings in effect are within their bounds,
\* and a candidate is asked for at least one and at most Probes successes.
ProbeTypeOK ==
    /\ Bounded(Config)
    /\ pc \in {"warmup", "checking", "probing", "deciding", "returned"}
    /\ answer \in [1..Probes -> Latency \union {Failure}]
    /\ cancelled \in BOOLEAN /\ spoiled \in BOOLEAN
    /\ attempts \in 0..Probes
    /\ lats \in Seq(Latency)
    /\ fails \in 0..Probes
    /\ res \in [ok : BOOLEAN, successes : 0..Probes, total : 0..Probes, err : BOOLEAN]

\* How many of the first n requests measure something.
good(n) == Cardinality({i \in 1..n : answer[i] # Failure})

\* Stopping early does not change K-of-N: a candidate reaches Confirm
\* successes exactly if all Probes requests would have given that many, unless
\* a cancellation made a request fail.
VerdictIsKofN ==
    pc = "returned" /\ ~res.err /\ ~spoiled =>
        (res.successes >= Confirm <=> good(Probes) >= Confirm)

\* No request is made once the outcome is decided: the accept path stops at
\* the Confirm-th success and the reject path when the remaining requests
\* cannot make up for the failures.
NoWastedProbe ==
    pc = "probing" => /\ Len(lats) < Confirm
                      /\ Len(lats) + (Probes - attempts) >= Confirm

\* An accepted candidate answered at least half of its measured requests
\* within the budget, whatever the order in which they came.
AcceptedIsFast ==
    res.ok => /\ Len(lats) >= Confirm
              /\ 2 * Cardinality({i \in DOMAIN lats : lats[i] <= MaxLatency}) >= Len(lats)

=============================================================================
