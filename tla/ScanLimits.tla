------------------------------ MODULE ScanLimits ------------------------------
(****************************************************************************)
(* The numbers a scan runs with.  A front-end hands over what the user gave *)
(* (the browser as it is, the command line after defaults of its own), the  *)
(* service clamps it, the prober and the pipeline fill in the rest.  0 or   *)
(* less means that nothing was given.                                       *)
(****************************************************************************)
EXTENDS Integers

CONSTANT NumCPU      \* processors of the machine

ASSUME CPUAssumption == NumCPU \in Nat \ {0}

\* What the user gives; times are in milliseconds.
Settings == [tcp : Int, xray : Int, batch : Int, lite : BOOLEAN,
             Probes : Int, Confirm : Int, MaxLatency : Int, ProbeTimeout : Int]

Frontends == {"browser", "command line"}

Smaller(a, b) == IF a < b THEN a ELSE b
Larger(a, b)  == IF a > b THEN a ELSE b

\* Faulty variant: only zero is taken for nothing.
orIntZero(v, def) == IF v = 0 THEN def ELSE v

orInt(v, def) == IF v <= 0 THEN def ELSE v

clampMax(v, m) == IF v > m THEN m ELSE v

DefaultTCPConcurrency  == Smaller(Larger(NumCPU * 8, 64), 128)
DefaultXrayConcurrency == Smaller(Larger(NumCPU \div 6, 1), 3)
DefaultBatchSize == 50

Lite(c) == [c EXCEPT !.tcp = 100, !.xray = 1, !.batch = 25]

\* toScanRequest hands the settings over; main applies auto and lite first.
submitted(frontend, g) ==
    LET auto == [g EXCEPT !.tcp = orInt(@, DefaultTCPConcurrency)] IN
    IF frontend = "browser" THEN g ELSE IF g.lite THEN Lite(auto) ELSE auto

\* buildConfig: defaults and ceilings of the service, then lite mode.
clamped(c) ==
    [tcp          |-> clampMax(orInt(c.tcp, DefaultTCPConcurrency), 4096),
     xray         |-> clampMax(c.xray, 32),
     batch        |-> clampMax(c.batch, 500),
     lite         |-> c.lite,
     Probes       |-> clampMax(orInt(c.Probes, 5), 64),
     Confirm      |-> clampMax(orInt(c.Confirm, 3), 64),
     MaxLatency   |-> clampMax(orInt(c.MaxLatency, 800), 60000),
     ProbeTimeout |-> clampMax(c.ProbeTimeout, 120000)]

buildConfig(c) == IF c.lite THEN Lite(clamped(c)) ELSE clamped(c)

\* Half of n probes and one more.
majority(n) == n \div 2 + 1

\* NewProber: defaults of its own, and no more confirmations than probes.
NewProber(c) ==
    LET n == orInt(c.Probes, 5)
        m == orInt(c.MaxLatency, 1000) IN
    [tcp |-> c.tcp, xray |-> c.xray, batch |-> c.batch, lite |-> c.lite,
     Probes       |-> n,
     Confirm      |-> Smaller(orInt(c.Confirm, majority(n)), n),
     MaxLatency   |-> m,
     ProbeTimeout |-> orInt(c.ProbeTimeout, Larger(2 * m, 1500))]

\* The defaults of Run.
RunDefaults(c) == [c EXCEPT !.xray  = orInt(@, DefaultXrayConcurrency),
                            !.batch = orInt(@, DefaultBatchSize)]

effective(frontend, g) == RunDefaults(NewProber(buildConfig(submitted(frontend, g))))

-----------------------------------------------------------------------------
UpTo(m, v) == v \in Nat \ {0} /\ v <= m

\* "A single scan request cannot exhaust host resources", none of the zeros
\* that mean auto reaches a semaphore, and the verdict is a possible one: at
\* least one and at most all of the probes must succeed.
Bounded(c) == /\ UpTo(4096, c.tcp) /\ UpTo(32, c.xray) /\ UpTo(500, c.batch)
              /\ UpTo(64, c.Probes) /\ UpTo(c.Probes, c.Confirm)
              /\ UpTo(60000, c.MaxLatency) /\ UpTo(120000, c.ProbeTimeout)

\* A probe that is given no timeout of its own can be slower than the latency
\* budget and still answer, so that a slow candidate is told from a dead one.
SlowIsMeasured(g, c) == g.ProbeTimeout <= 0 => c.ProbeTimeout > c.MaxLatency

\* What settings mean, whichever front-end they were given to: lite mode
\* overrides everything, a value in bounds is used as it is.
meant(g) ==
    [tcp   |-> IF g.lite THEN 100 ELSE Smaller(orInt(g.tcp, DefaultTCPConcurrency), 4096),
     xray  |-> IF g.lite THEN 1 ELSE Smaller(orInt(g.xray, DefaultXrayConcurrency), 32),
     batch |-> IF g.lite THEN 25 ELSE Smaller(orInt(g.batch, DefaultBatchSize), 500)]
=============================================================================
