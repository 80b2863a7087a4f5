--------------------------- MODULE CandidateProofs ---------------------------
(* Proofs about ScanLimits, for every machine and all settings; about       *)
(* ProbeVerdict, for every set of latencies and every sequence of answers   *)
(* as well; and about Candidate, for every link a scan may be given and     *)
(* every address and port of a candidate.                                   *)
EXTENDS Candidate, FiniteSetTheorems, SequenceTheorems, WellFoundedInduction, TLAPS

-----------------------------------------------------------------------------
(* ScanLimits *)

LEMMA Fields ==
    ASSUME NEW g \in Settings
    PROVE  /\ g.tcp \in Int /\ g.xray \in Int /\ g.batch \in Int /\ g.lite \in BOOLEAN
           /\ g.Probes \in Int /\ g.Confirm \in Int
           /\ g.MaxLatency \in Int /\ g.ProbeTimeout \in Int
  BY DEF Settings

LEMMA SettingsType ==
    ASSUME NEW t \in Int, NEW x \in Int, NEW b \in Int, NEW l \in BOOLEAN,
           NEW p \in Int, NEW k \in Int, NEW m \in Int, NEW o \in Int
    PROVE  [tcp |-> t, xray |-> x, batch |-> b, lite |-> l,
            Probes |-> p, Confirm |-> k, MaxLatency |-> m, ProbeTimeout |-> o] \in Settings
  BY Zenon DEF Settings

LEMMA Defaults == /\ DefaultTCPConcurrency \in 64..128
                  /\ DefaultXrayConcurrency \in 1..3
                  /\ DefaultBatchSize = 50
<1>1. NumCPU \div 6 \in Nat
  BY CPUAssumption
<1> QED
  BY <1>1, CPUAssumption
  DEF DefaultTCPConcurrency, DefaultXrayConcurrency, DefaultBatchSize, Smaller, Larger

\* A default that is positive leaves a positive value.
LEMMA OrPositive ==
    ASSUME NEW v \in Int, NEW d \in Nat \ {0}
    PROVE  orInt(v, d) \in Nat \ {0} /\ orInt(orInt(v, d), d) = orInt(v, d)
  BY DEF orInt

-----------------------------------------------------------------------------
(* What each layer does to the settings *)

LEMMA LiteFields ==
    ASSUME NEW c \in Settings
    PROVE  /\ Lite(c) \in Settings
           /\ Lite(c).tcp = 100 /\ Lite(c).xray = 1 /\ Lite(c).batch = 25
           /\ Lite(c).lite = c.lite
           /\ Lite(c).Probes = c.Probes /\ Lite(c).Confirm = c.Confirm
           /\ Lite(c).MaxLatency = c.MaxLatency /\ Lite(c).ProbeTimeout = c.ProbeTimeout
<1>1. 100 \in Int /\ 1 \in Int /\ 25 \in Int
  OBVIOUS
<1>2. Lite(c) \in Settings
  BY <1>1, Zenon DEF Lite, Settings
<1>3. /\ Lite(c).tcp = 100 /\ Lite(c).xray = 1 /\ Lite(c).batch = 25
      /\ Lite(c).lite = c.lite
  BY DEF Lite, Settings
<1>4. /\ Lite(c).Probes = c.Probes /\ Lite(c).Confirm = c.Confirm
      /\ Lite(c).MaxLatency = c.MaxLatency /\ Lite(c).ProbeTimeout = c.ProbeTimeout
  BY DEF Lite, Settings
<1> QED
  BY <1>2, <1>3, <1>4

LEMMA Submitted ==
    ASSUME NEW f \in Frontends, NEW g \in Settings
    PROVE  LET s == submitted(f, g) IN
           /\ s \in Settings /\ s.lite = g.lite
           /\ s.Probes = g.Probes /\ s.Confirm = g.Confirm
           /\ s.MaxLatency = g.MaxLatency /\ s.ProbeTimeout = g.ProbeTimeout
           /\ ~g.lite => /\ s.xray = g.xray /\ s.batch = g.batch
                         /\ s.tcp \in {g.tcp, orInt(g.tcp, DefaultTCPConcurrency)}
<1> DEFINE auto == [g EXCEPT !.tcp = orInt(@, DefaultTCPConcurrency)]
<1>1. orInt(g.tcp, DefaultTCPConcurrency) \in Int
  <2>1. g.tcp \in Int /\ DefaultTCPConcurrency \in Nat \ {0}
    BY Fields, Defaults
  <2> QED
    BY <2>1, OrPositive
<1>2. auto \in Settings
  BY <1>1, Zenon DEF Settings
<1>3. /\ auto.lite = g.lite
      /\ auto.tcp = orInt(g.tcp, DefaultTCPConcurrency)
      /\ auto.xray = g.xray /\ auto.batch = g.batch
      /\ auto.Probes = g.Probes /\ auto.Confirm = g.Confirm
      /\ auto.MaxLatency = g.MaxLatency /\ auto.ProbeTimeout = g.ProbeTimeout
  BY DEF Settings
<1>4. CASE f = "browser"
  BY <1>4 DEF submitted
<1>5. CASE f # "browser" /\ g.lite
  <2>1. submitted(f, g) = Lite(auto)
    BY <1>5 DEF submitted
  <2> HIDE DEF auto
  <2> QED
    BY <1>2, <1>3, <1>5, <2>1, LiteFields
<1>6. CASE f # "browser" /\ ~g.lite
  <2>1. submitted(f, g) = auto
    BY <1>6 DEF submitted
  <2> HIDE DEF auto
  <2> QED
    BY <1>2, <1>3, <2>1
<1> QED
  BY <1>4, <1>5, <1>6

LEMMA Clamped ==
    ASSUME NEW s \in Settings
    PROVE  LET c == clamped(s) IN
           /\ c \in Settings /\ c.lite = s.lite
           /\ c.tcp = clampMax(orInt(s.tcp, DefaultTCPConcurrency), 4096)
           /\ c.xray = clampMax(s.xray, 32) /\ c.batch = clampMax(s.batch, 500)
           /\ c.Probes = clampMax(orInt(s.Probes, 5), 64)
           /\ c.Confirm = clampMax(orInt(s.Confirm, 3), 64)
           /\ c.MaxLatency = clampMax(orInt(s.MaxLatency, 800), 60000)
           /\ c.ProbeTimeout = clampMax(s.ProbeTimeout, 120000)
<1>1. /\ s.tcp \in Int /\ s.xray \in Int /\ s.batch \in Int /\ s.lite \in BOOLEAN
      /\ s.Probes \in Int /\ s.Confirm \in Int
      /\ s.MaxLatency \in Int /\ s.ProbeTimeout \in Int
  BY Fields
<1>2. clamped(s) \in Settings
  <2> DEFINE t == clampMax(orInt(s.tcp, DefaultTCPConcurrency), 4096)
             x == clampMax(s.xray, 32)
             b == clampMax(s.batch, 500)
             p == clampMax(orInt(s.Probes, 5), 64)
             k == clampMax(orInt(s.Confirm, 3), 64)
             m == clampMax(orInt(s.MaxLatency, 800), 60000)
             o == clampMax(s.ProbeTimeout, 120000)
  <2>1. t \in Int /\ x \in Int /\ b \in Int /\ o \in Int
    BY <1>1, Defaults DEF clampMax, orInt
  <2>2. p \in Int /\ k \in Int /\ m \in Int
    BY <1>1 DEF clampMax, orInt
  <2>3. clamped(s) = [tcp |-> t, xray |-> x, batch |-> b, lite |-> s.lite,
                      Probes |-> p, Confirm |-> k, MaxLatency |-> m, ProbeTimeout |-> o]
    BY DEF clamped
  <2> HIDE DEF t, x, b, p, k, m, o
  <2>4. s.lite \in BOOLEAN
    BY <1>1
  <2>5. [tcp |-> t, xray |-> x, batch |-> b, lite |-> s.lite,
         Probes |-> p, Confirm |-> k, MaxLatency |-> m, ProbeTimeout |-> o] \in Settings
    BY <2>1, <2>2, <2>4, SettingsType, ZenonT(40)
  <2> QED
    BY <2>3, <2>5, Zenon
<1>3. /\ clamped(s).lite = s.lite
      /\ clamped(s).tcp = clampMax(orInt(s.tcp, DefaultTCPConcurrency), 4096)
      /\ clamped(s).xray = clampMax(s.xray, 32)
      /\ clamped(s).batch = clampMax(s.batch, 500)
  BY DEF clamped, Settings
<1>4. /\ clamped(s).Probes = clampMax(orInt(s.Probes, 5), 64)
      /\ clamped(s).Confirm = clampMax(orInt(s.Confirm, 3), 64)
      /\ clamped(s).MaxLatency = clampMax(orInt(s.MaxLatency, 800), 60000)
      /\ clamped(s).ProbeTimeout = clampMax(s.ProbeTimeout, 120000)
  BY DEF clamped, Settings
<1> QED
  BY <1>2, <1>3, <1>4

LEMMA Built ==
    ASSUME NEW s \in Settings
    PROVE  LET b == buildConfig(s) IN
           /\ b \in Settings
           /\ b.Probes = clampMax(orInt(s.Probes, 5), 64)
           /\ b.Confirm = clampMax(orInt(s.Confirm, 3), 64)
           /\ b.MaxLatency = clampMax(orInt(s.MaxLatency, 800), 60000)
           /\ b.ProbeTimeout = clampMax(s.ProbeTimeout, 120000)
           /\ b.tcp = IF s.lite THEN 100
                      ELSE clampMax(orInt(s.tcp, DefaultTCPConcurrency), 4096)
           /\ b.xray = IF s.lite THEN 1 ELSE clampMax(s.xray, 32)
           /\ b.batch = IF s.lite THEN 25 ELSE clampMax(s.batch, 500)
<1>1. CASE s.lite
  BY <1>1, Clamped, LiteFields DEF buildConfig
<1>2. CASE ~s.lite
  BY <1>2, Clamped DEF buildConfig
<1> QED
  BY <1>1, <1>2

LEMMA Prober ==
    ASSUME NEW b \in Settings,
           b.Probes > 0, b.Confirm > 0, b.MaxLatency > 0
    PROVE  LET p == NewProber(b) IN
           /\ p \in Settings
           /\ p.tcp = b.tcp /\ p.xray = b.xray /\ p.batch = b.batch
           /\ p.Probes = b.Probes
           /\ p.Confirm = Smaller(b.Confirm, b.Probes)
           /\ p.MaxLatency = b.MaxLatency
           /\ p.ProbeTimeout = orInt(b.ProbeTimeout, Larger(2 * b.MaxLatency, 1500))
<1>1. /\ b.Probes \in Int /\ b.Confirm \in Int
      /\ b.MaxLatency \in Int /\ b.ProbeTimeout \in Int
  BY Fields
<1>2. /\ orInt(b.Probes, 5) = b.Probes
      /\ orInt(b.Confirm, majority(b.Probes)) = b.Confirm
      /\ orInt(b.MaxLatency, 1000) = b.MaxLatency
  BY <1>1 DEF orInt
<1>3. /\ Smaller(b.Confirm, b.Probes) \in Int
      /\ orInt(b.ProbeTimeout, Larger(2 * b.MaxLatency, 1500)) \in Int
  BY <1>1 DEF orInt, Smaller, Larger
<1> DEFINE k == Smaller(b.Confirm, b.Probes)
           o == orInt(b.ProbeTimeout, Larger(2 * b.MaxLatency, 1500))
<1>4. NewProber(b) = [tcp |-> b.tcp, xray |-> b.xray, batch |-> b.batch, lite |-> b.lite,
                      Probes |-> b.Probes, Confirm |-> k, MaxLatency |-> b.MaxLatency,
                      ProbeTimeout |-> o]
  BY <1>2 DEF NewProber
<1>5. k \in Int /\ o \in Int
  BY <1>3
<1> HIDE DEF k, o
<1>6. NewProber(b) \in Settings
  BY <1>4, <1>5, Fields DEF Settings
<1>7. LET p == NewProber(b) IN
      /\ p.tcp = b.tcp /\ p.xray = b.xray /\ p.batch = b.batch
      /\ p.Probes = b.Probes /\ p.Confirm = k
      /\ p.MaxLatency = b.MaxLatency /\ p.ProbeTimeout = o
  BY <1>4
<1> QED
  BY <1>6, <1>7 DEF k, o

\* What is left of settings g given to a front-end when a scan runs.
LEMMA EffectiveSettings ==
    ASSUME NEW f \in Frontends, NEW g \in Settings
    PROVE  LET c == effective(f, g)
               n == clampMax(orInt(g.Probes, 5), 64)
               m == clampMax(orInt(g.MaxLatency, 800), 60000) IN
           /\ c.tcp   = meant(g).tcp
           /\ c.xray  = meant(g).xray
           /\ c.batch = meant(g).batch
           /\ c.Probes = n
           /\ c.Confirm = Smaller(clampMax(orInt(g.Confirm, 3), 64), n)
           /\ c.MaxLatency = m
           /\ c.ProbeTimeout = orInt(clampMax(g.ProbeTimeout, 120000), Larger(2 * m, 1500))
<1> DEFINE s == submitted(f, g)
           b == buildConfig(s)
           p == NewProber(b)
           c == effective(f, g)
<1> HIDE DEF s, b, p
<1>1. /\ s \in Settings /\ s.lite = g.lite
      /\ s.Probes = g.Probes /\ s.Confirm = g.Confirm
      /\ s.MaxLatency = g.MaxLatency /\ s.ProbeTimeout = g.ProbeTimeout
      /\ ~g.lite => /\ s.xray = g.xray /\ s.batch = g.batch
                    /\ s.tcp \in {g.tcp, orInt(g.tcp, DefaultTCPConcurrency)}
  BY Submitted DEF s
<1>2. /\ b \in Settings
      /\ b.Probes = clampMax(orInt(g.Probes, 5), 64)
      /\ b.Confirm = clampMax(orInt(g.Confirm, 3), 64)
      /\ b.MaxLatency = clampMax(orInt(g.MaxLatency, 800), 60000)
      /\ b.ProbeTimeout = clampMax(g.ProbeTimeout, 120000)
      /\ b.tcp = IF g.lite THEN 100
                 ELSE clampMax(orInt(s.tcp, DefaultTCPConcurrency), 4096)
      /\ b.xray = IF g.lite THEN 1 ELSE clampMax(g.xray, 32)
      /\ b.batch = IF g.lite THEN 25 ELSE clampMax(g.batch, 500)
  BY <1>1, Built DEF b
<1>0. /\ g.tcp \in Int /\ g.xray \in Int /\ g.batch \in Int
      /\ g.Probes \in Int /\ g.Confirm \in Int /\ g.MaxLatency \in Int
  BY Fields
<1>3. b.Probes > 0 /\ b.Confirm > 0 /\ b.MaxLatency > 0
  <2>1. /\ clampMax(orInt(g.Probes, 5), 64) > 0
        /\ clampMax(orInt(g.Confirm, 3), 64) > 0
        /\ clampMax(orInt(g.MaxLatency, 800), 60000) > 0
    BY <1>0 DEF orInt, clampMax
  <2> QED
    BY <1>2, <2>1
<1>4. /\ p \in Settings /\ p.tcp = b.tcp /\ p.xray = b.xray /\ p.batch = b.batch
      /\ p.Probes = b.Probes /\ p.Confirm = Smaller(b.Confirm, b.Probes)
      /\ p.MaxLatency = b.MaxLatency
      /\ p.ProbeTimeout = orInt(b.ProbeTimeout, Larger(2 * b.MaxLatency, 1500))
  BY <1>2, <1>3, Prober DEF p
<1>5. c = RunDefaults(p)
  BY DEF effective, p, b, s
<1>6. /\ c.tcp = p.tcp /\ c.Probes = p.Probes /\ c.Confirm = p.Confirm
      /\ c.MaxLatency = p.MaxLatency /\ c.ProbeTimeout = p.ProbeTimeout
      /\ c.xray = orInt(p.xray, DefaultXrayConcurrency)
      /\ c.batch = orInt(p.batch, DefaultBatchSize)
  BY <1>4, <1>5 DEF RunDefaults, Settings
<1>7. c.tcp = meant(g).tcp
  <2>1. CASE g.lite
    BY <1>2, <1>4, <1>6, <2>1 DEF meant
  <2>2. CASE ~g.lite
    <3>1. orInt(s.tcp, DefaultTCPConcurrency) = orInt(g.tcp, DefaultTCPConcurrency)
      BY <1>0, <1>1, <2>2, Defaults, OrPositive
    <3>2. clampMax(orInt(g.tcp, DefaultTCPConcurrency), 4096)
            = Smaller(orInt(g.tcp, DefaultTCPConcurrency), 4096)
      BY <1>0, Defaults DEF orInt, clampMax, Smaller
    <3> QED
      BY <1>2, <1>4, <1>6, <2>2, <3>1, <3>2 DEF meant
  <2> QED
    BY <2>1, <2>2
<1>8. c.xray = meant(g).xray
  <2>1. CASE g.lite
    BY <1>2, <1>4, <1>6, <2>1, Defaults DEF meant, orInt
  <2>2. CASE ~g.lite
    <3>1. orInt(clampMax(g.xray, 32), DefaultXrayConcurrency)
            = Smaller(orInt(g.xray, DefaultXrayConcurrency), 32)
      BY <1>0, Defaults DEF orInt, clampMax, Smaller
    <3> QED
      BY <1>2, <1>4, <1>6, <2>2, <3>1 DEF meant
  <2> QED
    BY <2>1, <2>2
<1>9. c.batch = meant(g).batch
  <2>1. CASE g.lite
    BY <1>2, <1>4, <1>6, <2>1, Defaults DEF meant, orInt
  <2>2. CASE ~g.lite
    <3>1. orInt(clampMax(g.batch, 500), DefaultBatchSize)
            = Smaller(orInt(g.batch, DefaultBatchSize), 500)
      BY <1>0, Defaults DEF orInt, clampMax, Smaller
    <3> QED
      BY <1>2, <1>4, <1>6, <2>2, <3>1 DEF meant
  <2> QED
    BY <2>1, <2>2
<1> QED
  BY <1>2, <1>4, <1>6, <1>7, <1>8, <1>9

-----------------------------------------------------------------------------
LEMMA MeantBounded ==
    ASSUME NEW g \in Settings
    PROVE  /\ UpTo(4096, meant(g).tcp) /\ UpTo(32, meant(g).xray)
           /\ UpTo(500, meant(g).batch)
<1>1. g.tcp \in Int /\ g.xray \in Int /\ g.batch \in Int
  BY Fields
<1>2. UpTo(4096, Smaller(orInt(g.tcp, DefaultTCPConcurrency), 4096))
  BY <1>1, Defaults DEF orInt, Smaller, UpTo
<1>3. UpTo(32, Smaller(orInt(g.xray, DefaultXrayConcurrency), 32))
  BY <1>1, Defaults DEF orInt, Smaller, UpTo
<1>4. UpTo(500, Smaller(orInt(g.batch, DefaultBatchSize), 500))
  BY <1>1, Defaults DEF orInt, Smaller, UpTo
<1>5. UpTo(4096, 100) /\ UpTo(32, 1) /\ UpTo(500, 25)
  BY DEF UpTo
<1> QED
  BY <1>2, <1>3, <1>4, <1>5 DEF meant

\* Whatever was given, a scan runs within its bounds, and with a verdict that
\* can be reached.
THEOREM LimitsHold ==
    ASSUME NEW f \in Frontends, NEW g \in Settings
    PROVE  Bounded(effective(f, g))
<1> DEFINE n == clampMax(orInt(g.Probes, 5), 64)
           k == clampMax(orInt(g.Confirm, 3), 64)
           m == clampMax(orInt(g.MaxLatency, 800), 60000)
           t == clampMax(g.ProbeTimeout, 120000)
<1>0. /\ g.Probes \in Int /\ g.Confirm \in Int
      /\ g.MaxLatency \in Int /\ g.ProbeTimeout \in Int
  BY Fields
<1>1. UpTo(64, n) /\ UpTo(64, k)
  BY <1>0 DEF orInt, clampMax, UpTo
<1>2. UpTo(60000, m)
  BY <1>0 DEF orInt, clampMax, UpTo
<1>3. t \in Int /\ t <= 120000
  BY <1>0 DEF clampMax
<1> HIDE DEF n, k, m, t
<1>4. UpTo(n, Smaller(k, n))
  BY <1>1 DEF Smaller, UpTo
<1>5. UpTo(120000, orInt(t, Larger(2 * m, 1500)))
  BY <1>2, <1>3 DEF orInt, Larger, UpTo
<1>6. /\ effective(f, g).Probes = n /\ effective(f, g).Confirm = Smaller(k, n)
      /\ effective(f, g).MaxLatency = m
      /\ effective(f, g).ProbeTimeout = orInt(t, Larger(2 * m, 1500))
      /\ effective(f, g).tcp = meant(g).tcp /\ effective(f, g).xray = meant(g).xray
      /\ effective(f, g).batch = meant(g).batch
  BY EffectiveSettings DEF n, k, m, t
<1> QED
  BY <1>1, <1>2, <1>4, <1>5, <1>6, MeantBounded DEF Bounded

\* The same settings run the same scan from the browser and from the command
\* line, although defaults and lite mode are applied in different places.
THEOREM FrontendsAgree ==
    ASSUME NEW f \in Frontends, NEW g \in Settings
    PROVE  LET c == effective(f, g) IN
           [tcp |-> c.tcp, xray |-> c.xray, batch |-> c.batch] = meant(g)
<1>1. /\ effective(f, g).tcp = meant(g).tcp /\ effective(f, g).xray = meant(g).xray
      /\ effective(f, g).batch = meant(g).batch
  BY EffectiveSettings
<1> QED
  BY <1>1 DEF meant

\* The default timeout of a probe leaves room above the latency budget.
THEOREM SlowProbesAreMeasured ==
    ASSUME NEW f \in Frontends, NEW g \in Settings
    PROVE  SlowIsMeasured(g, effective(f, g))
<1> DEFINE m == clampMax(orInt(g.MaxLatency, 800), 60000)
<1>1. g.MaxLatency \in Int /\ g.ProbeTimeout \in Int
  BY Fields
<1>2. m \in Nat \ {0}
  BY <1>1 DEF orInt, clampMax
<1> HIDE DEF m
<1>3. ASSUME g.ProbeTimeout <= 0
      PROVE  orInt(clampMax(g.ProbeTimeout, 120000), Larger(2 * m, 1500)) > m
  BY <1>1, <1>2, <1>3 DEF orInt, clampMax, Larger
<1>4. /\ effective(f, g).MaxLatency = m
      /\ effective(f, g).ProbeTimeout
           = orInt(clampMax(g.ProbeTimeout, 120000), Larger(2 * m, 1500))
  BY EffectiveSettings DEF m
<1> QED
  BY <1>3, <1>4 DEF SlowIsMeasured

-----------------------------------------------------------------------------
(* ProbeVerdict: what its invariants rest on. *)

\* Each request counts as a success or a failure, and the successes are the
\* requests that would have measured something.
Counted == /\ attempts = Len(lats) + fails
           /\ ~spoiled => Len(lats) = good(attempts)

\* The loop goes on only while both outcomes are possible.
Undecided == /\ pc \in {"warmup", "checking", "probing"} =>
                  Len(lats) < Confirm /\ fails <= maxFails
             /\ pc = "probing" => attempts < Probes

\* The loop is left by its bound or by one of its two breaks.
Decided == pc = "deciding" \/ (pc = "returned" /\ ~res.err) =>
             attempts = Probes \/ Len(lats) >= Confirm \/ fails > maxFails

Reported == pc = "returned" /\ ~res.err => res.successes = Len(lats)

IInv == ProbeTypeOK /\ Counted /\ Undecided /\ Decided /\ Reported

-----------------------------------------------------------------------------
\* The settings in effect are in range: at least one probe, and from one to all
\* of them to confirm.
LEMMA DefaultsInRange == Bounded(Config) /\ Probes \in Nat \ {0} /\ Confirm \in 1..Probes
<1>1. Bounded(Config)
  BY LimitsHold, ProbeAssumption DEF Config
<1>2. UpTo(64, Probes) /\ UpTo(Probes, Confirm)
  BY <1>1 DEF Bounded, Probes, Confirm
<1> QED
  BY <1>1, <1>2 DEF UpTo

\* The requests of an interval that would measure something.
measured(m, n) == {i \in m..n : answer[i] # Failure}

LEMMA MeasuredFinite ==
    ASSUME NEW m \in Int, NEW n \in Int
    PROVE  /\ IsFiniteSet(measured(m, n))
           /\ Cardinality(measured(m, n)) \in Nat
           /\ m <= n + 1 => Cardinality(measured(m, n)) <= n - m + 1
<1>1. IsFiniteSet(m..n) /\ Cardinality(m..n) = IF m > n THEN 0 ELSE n - m + 1
  BY FS_Interval
<1>2. measured(m, n) \in SUBSET (m..n)
  BY DEF measured
<1>3. IsFiniteSet(measured(m, n)) /\ Cardinality(measured(m, n)) <= Cardinality(m..n)
  BY <1>1, <1>2, FS_Subset
<1>4. Cardinality(measured(m, n)) \in Nat
  BY <1>3, FS_CardinalityType
<1> QED
  BY <1>1, <1>3, <1>4

LEMMA GoodType == \A n \in Nat : good(n) \in 0..n
<1> TAKE n \in Nat
<1>1. good(n) = Cardinality(measured(1, n))
  BY DEF good, measured
<1>2. Cardinality(measured(1, n)) \in Nat /\ Cardinality(measured(1, n)) <= n
  BY MeasuredFinite
<1> QED
  BY <1>1, <1>2

\* One more request adds one exactly if it measures something.
LEMMA GoodStep ==
    ASSUME NEW n \in Nat
    PROVE  good(n + 1) = IF answer[n + 1] # Failure THEN good(n) + 1 ELSE good(n)
<1>1. IsFiniteSet(measured(1, n))
  BY MeasuredFinite
<1>2. /\ good(n) = Cardinality(measured(1, n))
      /\ good(n + 1) = Cardinality(measured(1, n + 1))
  BY DEF good, measured
<1>3. CASE answer[n + 1] # Failure
  <2>1. measured(1, n + 1) = measured(1, n) \union {n + 1}
    BY <1>3 DEF measured
  <2>2. n + 1 \notin measured(1, n)
    BY DEF measured
  <2> QED
    BY <1>1, <1>2, <1>3, <2>1, <2>2, FS_AddElement
<1>4. CASE answer[n + 1] = Failure
  <2>1. measured(1, n + 1) = measured(1, n)
    BY <1>4 DEF measured
  <2> QED
    BY <1>2, <1>4, <2>1
<1> QED
  BY <1>3, <1>4

\* The requests that are not made can change the count by their number.
LEMMA GoodRest ==
    ASSUME NEW m \in Nat, NEW n \in Nat, n <= m
    PROVE  good(n) <= good(m) /\ good(m) <= good(n) + (m - n)
<1> DEFINE G == measured(1, n)
           R == measured(n + 1, m)
<1>1. IsFiniteSet(G) /\ Cardinality(G) \in Nat
  BY MeasuredFinite
<1>2. IsFiniteSet(R) /\ Cardinality(R) \in Nat /\ Cardinality(R) <= m - n
  BY MeasuredFinite
<1>3. measured(1, m) = G \union R /\ G \intersect R = {}
  BY DEF measured
<1>4. Cardinality(G \union R) = Cardinality(G) + Cardinality(R) - Cardinality(G \intersect R)
  BY <1>1, <1>2, FS_Union
<1>5. Cardinality(measured(1, m)) = Cardinality(G) + Cardinality(R)
  BY <1>1, <1>2, <1>3, <1>4, FS_EmptySet
<1>6. good(m) = Cardinality(measured(1, m)) /\ good(n) = Cardinality(G)
  BY DEF good, measured
<1> QED
  BY <1>1, <1>2, <1>5, <1>6

LEMMA InitIInv == Init => IInv
<1> SUFFICES ASSUME Init PROVE IInv
  OBVIOUS
<1> USE DefaultsInRange
<1>1. Len(lats) = 0 /\ lats \in Seq(Latency)
  BY DEF Init
<1>2. NoResult \in [ok : BOOLEAN, successes : 0..Probes, total : 0..Probes, err : BOOLEAN]
  BY DEF NoResult
<1>3. 0 \in 0..Probes
  OBVIOUS
<1>4. ProbeTypeOK
  BY <1>1, <1>2, <1>3 DEF Init, ProbeTypeOK
<1>5. good(0) = 0
  BY GoodType
<1> QED
  BY <1>1, <1>4, <1>5
  DEF Init, IInv, Counted, Undecided, Decided, Reported, maxFails

-----------------------------------------------------------------------------
\* A request keeps the counts; it is the only action that touches them.
LEMMA ProbeStep == IInv /\ Probe => IInv'
<1> SUFFICES ASSUME IInv, Probe PROVE IInv'
  OBVIOUS
<1> USE DefaultsInRange
<1>1. /\ attempts \in 0..Probes /\ attempts < Probes /\ attempts' = attempts + 1
      /\ attempts + 1 \in 1..Probes
  BY DEF IInv, ProbeTypeOK, Undecided, Probe
<1>2. answer' = answer /\ good(attempts)' = good(attempts + 1)
  BY <1>1 DEF Probe, good
<1>3. CASE /\ answer[attempts + 1] # Failure
           /\ lats' = Append(lats, answer[attempts + 1])
           /\ UNCHANGED <<fails, spoiled>>
  <2>1. answer[attempts + 1] \in Latency
    BY <1>1, <1>3 DEF IInv, ProbeTypeOK
  <2>2. lats' \in Seq(Latency) /\ Len(lats') = Len(lats) + 1
    BY <1>3, <2>1 DEF IInv, ProbeTypeOK
  <2>3. good(attempts)' = good(attempts) + 1
    <3>1. answer[attempts + 1] # Failure
      BY <1>3
    <3>2. good(attempts + 1) = good(attempts) + 1
      BY <1>1, <3>1, GoodStep
    <3> QED
      BY <1>2, <3>2
  <2>4. ASSUME ~spoiled' PROVE Len(lats') = good(attempts)'
    BY <1>3, <2>2, <2>3, <2>4 DEF IInv, Counted
  <2>5. attempts' = Len(lats') + fails'
    BY <1>1, <1>3, <2>2 DEF IInv, ProbeTypeOK, Counted
  <2>6. Counted'
    BY <2>4, <2>5 DEF Counted
  <2>7. ProbeTypeOK'
    BY <1>1, <1>3, <2>2 DEF IInv, ProbeTypeOK, Probe
  <2> QED
    BY <1>3, <2>2, <2>6, <2>7
    DEF IInv, ProbeTypeOK, Undecided, Decided, Reported, Probe, settled, maxFails
<1>4. CASE /\ answer[attempts + 1] = Failure \/ cancelled
           /\ fails' = fails + 1
           /\ spoiled' = (spoiled \/ answer[attempts + 1] # Failure)
           /\ UNCHANGED lats
  <2>1. Counted'
    <3>1. attempts' = Len(lats') + fails'
      BY <1>1, <1>4 DEF IInv, ProbeTypeOK, Counted
    <3>2. ASSUME ~spoiled' PROVE Len(lats') = good(attempts)'
      <4>1. ~spoiled /\ answer[attempts + 1] = Failure
        BY <1>4, <3>2
      <4>2. good(attempts)' = good(attempts)
        BY <1>1, <1>2, <4>1, GoodStep
      <4> QED
        BY <1>4, <4>1, <4>2 DEF IInv, Counted
    <3> QED
      BY <3>1, <3>2 DEF Counted
  <2>2. ProbeTypeOK'
    BY <1>1, <1>4, <2>1 DEF IInv, ProbeTypeOK, Counted, Probe
  <2> QED
    BY <1>4, <2>1, <2>2
    DEF IInv, ProbeTypeOK, Undecided, Decided, Reported, Probe, settled, maxFails
<1> QED
  BY <1>3, <1>4 DEF Probe

LEMMA StepIInv == IInv /\ [Next]_vars => IInv'
<1> SUFFICES ASSUME IInv, [Next]_vars PROVE IInv'
  OBVIOUS
<1> USE DefaultsInRange
<1>1. CASE Probe
  BY <1>1, ProbeStep
<1>2. ASSUME UNCHANGED <<answer, attempts, lats, fails, spoiled>>
      PROVE  Counted'
  BY <1>2 DEF IInv, Counted, good
<1>3. CASE Warmup
  BY <1>2, <1>3 DEF IInv, ProbeTypeOK, Undecided, Decided, Reported, Warmup
<1>4. CASE Check
  <2>1. NoResult \in [ok : BOOLEAN, successes : 0..Probes, total : 0..Probes, err : BOOLEAN]
    BY DEF NoResult
  <2>2. ProbeTypeOK'
    BY <1>4, <2>1 DEF IInv, ProbeTypeOK, Check
  <2>3. Undecided' /\ Decided' /\ Reported'
    BY <1>4 DEF IInv, ProbeTypeOK, Undecided, Decided, Reported, Check, NoResult
  <2> QED
    BY <1>2, <1>4, <2>2, <2>3 DEF IInv, Check
<1>5. CASE Decide
  <2>1. Len(lats) \in 0..Probes
    BY DEF IInv, ProbeTypeOK, Counted
  <2>2. accepted(lats) \in BOOLEAN
    BY DEF accepted
  <2>3. ProbeTypeOK'
    BY <1>5, <2>1, <2>2 DEF IInv, ProbeTypeOK, Decide
  <2> QED
    BY <1>2, <1>5, <2>3 DEF IInv, Undecided, Decided, Reported, Decide
<1>6. CASE Cancel
  BY <1>2, <1>6 DEF IInv, ProbeTypeOK, Undecided, Decided, Reported, maxFails, Cancel
<1>7. CASE UNCHANGED vars
  BY <1>2, <1>7 DEF IInv, ProbeTypeOK, Undecided, Decided, Reported, maxFails, vars
<1> QED
  BY <1>1, <1>3, <1>4, <1>5, <1>6, <1>7 DEF Next

LEMMA Invariance == Spec => []IInv
  BY InitIInv, StepIInv, PTL DEF Spec

\* A run of probeEndpoint keeps its types, and its settings stay within their
\* bounds, whatever was asked for.
THEOREM TypeCorrect == Spec => []ProbeTypeOK
<1>1. IInv => ProbeTypeOK
  BY DEF IInv
<1> QED
  BY <1>1, Invariance, PTL

\* Stopping early gives the verdict that all requests would have given.
THEOREM EarlyExitIsExact == Spec => []VerdictIsKofN
<1>1. IInv => VerdictIsKofN
  <2> SUFFICES ASSUME IInv, pc = "returned", ~res.err, ~spoiled
               PROVE  res.successes >= Confirm <=> good(Probes) >= Confirm
    BY DEF VerdictIsKofN
  <2>1. /\ Probes \in Nat /\ Confirm \in 1..Probes
        /\ attempts \in 0..Probes /\ fails \in 0..Probes /\ Len(lats) \in Nat
    BY DefaultsInRange DEF IInv, ProbeTypeOK
  <2>2. /\ res.successes = good(attempts) /\ Len(lats) = good(attempts)
        /\ attempts = good(attempts) + fails
    BY DEF IInv, Counted, Reported
  <2>3. attempts = Probes \/ good(attempts) >= Confirm \/ fails > Probes - Confirm
    BY <2>2 DEF IInv, Decided, maxFails
  <2>4. good(attempts) \in Nat /\ good(Probes) \in Nat
    BY <2>1, GoodType
  <2>5. /\ good(attempts) <= good(Probes)
        /\ good(Probes) <= good(attempts) + (Probes - attempts)
    BY <2>1, GoodRest
  <2> QED
    BY <2>1, <2>2, <2>3, <2>4, <2>5
<1> QED
  BY <1>1, Invariance, PTL

\* A request is made only while the outcome is open.
THEOREM RequestsAreNeeded == Spec => []NoWastedProbe
<1>1. IInv => NoWastedProbe
  BY DefaultsInRange DEF IInv, ProbeTypeOK, Counted, Undecided, NoWastedProbe, maxFails
<1> QED
  BY <1>1, Invariance, PTL

-----------------------------------------------------------------------------
(* The median. *)

LEMMA NatLeast ==
    ASSUME NEW T, T \subseteq Nat, T # {}
    PROVE  \E x \in T : \A y \in T : x <= y
<1>1. OpToRel(<, Nat) = {ss \in Nat \X Nat : ss[1] < ss[2]}
  BY DEF OpToRel
<1>2. \E x \in T : \A y \in T : ~ (<<y, x>> \in OpToRel(<, Nat))
  BY NatLessThanWellFounded, WFMin
<1>3. \E x \in T : \A y \in T : ~ (<<y, x>> \in {ss \in Nat \X Nat : ss[1] < ss[2]})
  BY <1>1, <1>2, Zenon
<1>4. PICK x \in T : \A y \in T : ~ (<<y, x>> \in {ss \in Nat \X Nat : ss[1] < ss[2]})
  BY <1>3
<1>5. \A y \in T : ~ (y < x)
  <2> TAKE y \in T
  <2>1. <<y, x>> \in Nat \X Nat
    OBVIOUS
  <2> QED
    BY <1>4, <2>1
<1>6. \A y \in T : y \in Nat /\ x \in Nat
  OBVIOUS
<1> QED
  BY <1>5, <1>6

\* How many of the latencies are at most v.
atMost(ds, v) == {i \in DOMAIN ds : ds[i] <= v}

LEMMA AtMostFinite ==
    ASSUME NEW ds \in Seq(Nat), NEW v \in Nat
    PROVE  /\ DOMAIN ds = 1..Len(ds) /\ Len(ds) \in Nat
           /\ IsFiniteSet(atMost(ds, v)) /\ Cardinality(atMost(ds, v)) \in Nat
<1>1. DOMAIN ds = 1..Len(ds) /\ Len(ds) \in Nat
  OBVIOUS
<1>2. IsFiniteSet(1..Len(ds)) /\ atMost(ds, v) \in SUBSET (1..Len(ds))
  BY <1>1, FS_Interval DEF atMost
<1> QED
  BY <1>1, <1>2, FS_Subset, FS_CardinalityType

\* Some number is no smaller than any of a sequence.
LEMMA SeqBounded ==
    ASSUME NEW ds \in Seq(Nat)
    PROVE  \E v \in Nat : \A i \in 1..Len(ds) : ds[i] <= v
<1> DEFINE T == {n \in 0..Len(ds) : ~ \E v \in Nat : \A i \in 1..n : ds[i] <= v}
<1>1. SUFFICES ASSUME T # {} PROVE FALSE
  <2>1. Len(ds) \in 0..Len(ds)
    OBVIOUS
  <2> QED
    BY <1>1, <2>1
<1>2. \A i \in 1..Len(ds) : ds[i] \in Nat
  BY ElementOfSeq
<1>3. PICK n \in T : \A m \in T : n <= m
  <2>1. T \subseteq Nat
    OBVIOUS
  <2> HIDE DEF T
  <2> QED
    BY <1>1, <2>1, NatLeast
<1>4. n \in 0..Len(ds) /\ Len(ds) \in Nat /\ ~ \E v \in Nat : \A i \in 1..n : ds[i] <= v
  BY <1>3
<1> HIDE DEF T
<1>5. n # 0
  <2>1. \A i \in 1..0 : ds[i] <= 0
    OBVIOUS
  <2> QED
    BY <1>4, <2>1
<1>6. n - 1 \in 0..Len(ds) /\ n \in 1..Len(ds) /\ ~(n <= n - 1)
  BY <1>4, <1>5
<1>7. PICK v \in Nat : \A i \in 1..(n - 1) : ds[i] <= v
  BY <1>3, <1>6 DEF T
<1>8. PICK d \in Nat : d = ds[n]
  BY <1>2, <1>6
<1>9. PICK w \in Nat : v <= w /\ d <= w
  OBVIOUS
<1>10. ASSUME NEW i \in 1..n PROVE ds[i] <= w
  <2>1. i = n \/ i \in 1..(n - 1)
    BY <1>6
  <2>2. CASE i = n
    BY <1>8, <1>9, <2>2
  <2>3. CASE i \in 1..(n - 1)
    <3>1. PICK c \in Nat : c = ds[i]
      BY <1>2, <1>6, <2>3
    <3>2. c <= v
      BY <1>7, <2>3, <3>1
    <3>3. c <= w
      BY <1>9, <3>2
    <3> QED
      BY <3>1, <3>3
  <2> QED
    BY <2>1, <2>2, <2>3
<1> QED
  BY <1>4, <1>10

\* median: a sequence has an element of every rank, and more than k elements
\* are at most the one of rank k.
LEMMA RankedIs ==
    ASSUME NEW ds \in Seq(Nat), NEW k \in Nat, k < Len(ds)
    PROVE  /\ ranked(ds, k) \in Nat
           /\ k < Cardinality(atMost(ds, ranked(ds, k)))
<1> DEFINE V == {v \in Nat : k < Cardinality(atMost(ds, v))}
<1>1. V # {}
  <2>1. PICK v \in Nat : \A i \in 1..Len(ds) : ds[i] <= v
    BY SeqBounded
  <2>2. atMost(ds, v) = 1..Len(ds)
    BY <2>1, AtMostFinite DEF atMost
  <2>3. Cardinality(atMost(ds, v)) = Len(ds)
    <3>1. PICK m \in Nat : m = Len(ds)
      BY AtMostFinite
    <3>2. Cardinality(1..m) = IF 1 > m THEN 0 ELSE m - 1 + 1
      BY FS_Interval
    <3>3. Cardinality(1..m) = m
      BY <3>2
    <3> QED
      BY <2>2, <3>1, <3>3
  <2> QED
    BY <2>3
<1>2. PICK v \in V : \A u \in V : v <= u
  BY <1>1, NatLeast
<1> DEFINE Below == {i \in DOMAIN ds : ds[i] < v}
<1>3. Cardinality(Below) <= k
  <2>1. CASE v = 0
    <3>1. Below = {}
      BY <2>1, AtMostFinite
    <3> HIDE DEF Below
    <3> QED
      BY <3>1, FS_EmptySet
  <2>2. CASE v # 0
    <3>1. v - 1 \in Nat /\ v - 1 \notin V
      BY <1>2, <2>2
    <3>2. Below = atMost(ds, v - 1)
      <4>1. \A i \in DOMAIN ds : ds[i] \in Nat
        OBVIOUS
      <4> QED
        BY <3>1, <4>1 DEF atMost
    <3>3. Cardinality(atMost(ds, v - 1)) \in Nat /\ ~(k < Cardinality(atMost(ds, v - 1)))
      BY <3>1, AtMostFinite
    <3> HIDE DEF Below
    <3> QED
      BY <3>2, <3>3
  <2> QED
    BY <2>1, <2>2
<1>4. Cardinality(atMost(ds, v)) \in Nat /\ k < Cardinality(atMost(ds, v))
  BY <1>2, AtMostFinite
<1>5. v \in {ds[i] : i \in DOMAIN ds}
  <2> SUFFICES ASSUME v \notin {ds[i] : i \in DOMAIN ds} PROVE FALSE
    OBVIOUS
  <2>1. \A i \in DOMAIN ds : ds[i] \in Nat /\ ds[i] # v
    OBVIOUS
  <2>2. Below = atMost(ds, v)
    BY <1>2, <2>1 DEF atMost
  <2>3. Cardinality(Below) = Cardinality(atMost(ds, v))
    BY <2>2
  <2> HIDE DEF Below
  <2> QED
    BY <1>3, <1>4, <2>3
<1> DEFINE Ranks(r) == /\ Cardinality({i \in DOMAIN ds : ds[i] < r}) <= k
                       /\ k < Cardinality({i \in DOMAIN ds : ds[i] <= r})
<1>6. Ranks(v)
  BY <1>3, <1>4 DEF atMost
<1>7. ranked(ds, k) = CHOOSE r \in {ds[i] : i \in DOMAIN ds} : Ranks(r)
  BY DEF ranked
<1>8. ranked(ds, k) \in {ds[i] : i \in DOMAIN ds} /\ Ranks(ranked(ds, k))
  <2> HIDE DEF Ranks
  <2> QED
    BY <1>5, <1>6, <1>7
<1>9. ranked(ds, k) \in Nat
  BY <1>8
<1> QED
  BY <1>8, <1>9 DEF atMost

\* At least half of a sequence is at most its median.
LEMMA HalfWithinMedian ==
    ASSUME NEW ds \in Seq(Nat), ds # <<>>, NEW w \in Nat, median(ds) <= w
    PROVE  2 * Cardinality(atMost(ds, w)) >= Len(ds)
<1>1. Len(ds) \in Nat \ {0} /\ IsFiniteSet(atMost(ds, w)) /\ Cardinality(atMost(ds, w)) \in Nat
  BY AtMostFinite, EmptySeq
<1>2. ASSUME NEW k \in Nat, k < Len(ds), ranked(ds, k) <= w
      PROVE  k < Cardinality(atMost(ds, w))
  <2>1. PICK r \in Nat : r = ranked(ds, k) /\ k < Cardinality(atMost(ds, r))
    BY <1>2, RankedIs
  <2>2. atMost(ds, r) \in SUBSET atMost(ds, w)
    <3>1. r <= w /\ \A i \in DOMAIN ds : ds[i] \in Nat
      BY <1>2, <2>1
    <3> QED
      BY <3>1 DEF atMost
  <2>3. Cardinality(atMost(ds, r)) <= Cardinality(atMost(ds, w)) /\ Cardinality(atMost(ds, r)) \in Nat
    BY <1>1, <2>2, FS_Subset, AtMostFinite
  <2> QED
    BY <1>1, <2>1, <2>3
<1>3. CASE Len(ds) % 2 = 1
  <2>1. Len(ds) \div 2 \in Nat /\ Len(ds) \div 2 < Len(ds) /\ Len(ds) = 2 * (Len(ds) \div 2) + 1
    BY <1>1, <1>3
  <2>2. median(ds) = ranked(ds, Len(ds) \div 2)
    BY <1>1, <1>3 DEF median
  <2>3. Len(ds) \div 2 < Cardinality(atMost(ds, w))
    BY <1>2, <2>1, <2>2
  <2> QED
    BY <1>1, <2>1, <2>3
<1>4. CASE Len(ds) % 2 # 1
  <2>1. PICK h \in Nat \ {0} : h = Len(ds) \div 2 /\ Len(ds) = 2 * h
    BY <1>1, <1>4
  <2>2. h - 1 \in Nat /\ h - 1 < Len(ds) /\ h < Len(ds)
    BY <2>1
  <2>3. PICK r, t \in Nat : r = ranked(ds, h - 1) /\ t = ranked(ds, h)
    BY <2>2, RankedIs
  <2>4. (r + t) \div 2 <= w
    BY <1>1, <1>4, <2>1, <2>3 DEF median
  <2>5. r <= w \/ t <= w
    BY <2>4
  <2>6. h - 1 < Cardinality(atMost(ds, w))
    <3>1. CASE r <= w
      BY <1>2, <2>2, <2>3, <3>1
    <3>2. CASE t <= w
      <4>1. h < Cardinality(atMost(ds, w))
        BY <1>2, <2>2, <2>3, <3>2
      <4> QED
        BY <1>1, <4>1
    <3> QED
      BY <2>5, <3>1, <3>2
  <2> QED
    BY <1>1, <2>1, <2>6
<1> QED
  BY <1>3, <1>4

\* A result is accepted only by the test at the end of probeEndpoint.
Accepting == res.ok => pc = "returned" /\ accepted(lats)

\* Of an accepted candidate, at least half of the measured requests were
\* within the budget: what its median promises.
THEOREM AcceptedFast == Spec => []AcceptedIsFast
<1>1. Init => Accepting
  BY DEF Init, NoResult, Accepting
<1>2. Accepting /\ [Next]_vars => Accepting'
  <2> SUFFICES ASSUME Accepting, [Next]_vars PROVE Accepting'
    OBVIOUS
  <2>1. CASE Warmup
    BY <2>1 DEF Accepting, Warmup
  <2>2. CASE Check
    BY <2>2 DEF Accepting, Check, NoResult
  <2>3. CASE Probe
    BY <2>3 DEF Accepting, Probe
  <2>4. CASE Decide
    BY <2>4 DEF Accepting, Decide
  <2>5. CASE Cancel
    BY <2>5 DEF Accepting, Cancel
  <2>6. CASE UNCHANGED vars
    BY <2>6 DEF Accepting, vars
  <2> QED
    BY <2>1, <2>2, <2>3, <2>4, <2>5, <2>6 DEF Next
<1>3. IInv /\ Accepting => AcceptedIsFast
  <2> SUFFICES ASSUME IInv, Accepting, res.ok
               PROVE  /\ Len(lats) >= Confirm
                      /\ 2 * Cardinality(atMost(lats, MaxLatency)) >= Len(lats)
    BY DEF AcceptedIsFast, atMost
  <2>1. Len(lats) >= Confirm /\ median(lats) <= MaxLatency
    BY DEF Accepting, accepted
  <2>2. lats \in Seq(Nat)
    <3>1. lats \in Seq(Latency) /\ Latency \subseteq Nat
      BY ProbeAssumption DEF IInv, ProbeTypeOK
    <3> QED
      BY <3>1, SeqMonotonic
  <2>3. lats # <<>>
    BY <2>1, DefaultsInRange, EmptySeq
  <2>4. MaxLatency \in Nat
    BY DefaultsInRange DEF Bounded, UpTo, MaxLatency
  <2> QED
    BY <2>1, <2>2, <2>3, <2>4, HalfWithinMedian
<1> QED
  BY <1>1, <1>2, <1>3, Invariance, PTL DEF Spec

-----------------------------------------------------------------------------
(* Candidate: what its invariants rest on. *)

\* What xray runs with is the request's link, parsed, dialling the candidate.
Configured == /\ raw \in RawLinks
              /\ stage # "parsing" /\ stage # "failed" => parses(raw) /\ outbound = Parse(raw)
              /\ stage \in {"probing", "listed"} =>
                    builds(outbound) /\ dialled = buildOutbound(outbound, Edge, Port)

\* A link is handed out only at the end, and is the request's with the candidate
\* in the address slot.
Substituted == /\ stage # "listed" => handed = {}
               /\ handed \subseteq {Substitute(raw, Edge, Port)}

CandidateInv == Configured /\ Substituted

-----------------------------------------------------------------------------
\* A step of the candidate's way is a step of probeEndpoint or leaves it alone,
\* so what ProbeVerdict promises holds with a link as well.
THEOREM CandidateProbes == CandidateSpec => Spec
<1>1. CandidateInit => Init
  BY DEF CandidateInit
<1>2. [CandidateNext]_cvars => [Next]_vars
  BY DEF CandidateNext, Configure, StartXray, Measure, List, cvars, vars
<1> QED
  BY <1>1, <1>2, PTL DEF CandidateSpec, Spec

\* Stopping early does not change K-of-N for a candidate probed with any link.
THEOREM CandidateVerdict == CandidateSpec => []VerdictIsKofN
BY CandidateProbes, EarlyExitIsExact, PTL

-----------------------------------------------------------------------------
LEMMA ConfiguredSubstituted == CandidateSpec => []CandidateInv
<1>1. CandidateInit => CandidateInv
  BY CandidateAssumption DEF CandidateInit, CandidateInv, Configured, Substituted
<1>2. CandidateInv /\ [CandidateNext]_cvars => CandidateInv'
  <2> SUFFICES ASSUME CandidateInv, [CandidateNext]_cvars PROVE CandidateInv'
    OBVIOUS
  <2> USE DEF CandidateInv, Configured, Substituted
  <2>1. CASE Configure
    BY <2>1 DEF Configure
  <2>2. CASE StartXray
    BY <2>2 DEF StartXray
  <2>3. CASE Measure
    BY <2>3 DEF Measure, linkVars
  <2>4. CASE List
    BY <2>4 DEF List
  <2>5. CASE UNCHANGED cvars
    BY <2>5 DEF cvars
  <2> QED
    BY <2>1, <2>2, <2>3, <2>4, <2>5 DEF CandidateNext
<1> QED
  BY <1>1, <1>2, PTL DEF CandidateSpec

\* A link that parses still does with a candidate's address and port in it.  The
\* Outbound it gives is the same but for these two, and for the names that
\* default to the address.
LEMMA Readdressed ==
    ASSUME NEW r \in RawLinks, parses(r),
           NEW ip \in STRING \ {Absent}, NEW port \in Ports
    PROVE  LET l == Substitute(r, ip, port)
               n == Parse(l)
               o == Parse(r) IN
           /\ parses(l)
           /\ n.address = ip /\ n.port = port
           /\ n.protocol = o.protocol /\ n.cred = o.cred /\ n.network = o.network
           /\ n.security = o.security /\ n.path = o.path /\ n.service = o.service
           /\ n.mode = o.mode /\ n.extra = o.extra /\ n.header = o.header
           /\ n.fp = o.fp /\ n.hello = o.hello /\ n.keys = o.keys
           /\ r.host # Absent => n.host = o.host /\ n.sni = o.sni
           /\ r.sni # Absent => n.sni = o.sni
<1> DEFINE l == Substitute(r, ip, port)
<1>1. port > 0
  BY DEF Ports
<1>2. l = [r EXCEPT !.add = ip, !.port = port]
  BY <1>1 DEF Substitute
<1>3. /\ l.scheme = r.scheme /\ l.cred = r.cred /\ l.add = ip /\ l.port = port
      /\ l.type = r.type /\ l.security = r.security /\ l.sni = r.sni
      /\ l.host = r.host /\ l.path = r.path /\ l.service = r.service
      /\ l.mode = r.mode /\ l.extra = r.extra /\ l.header = r.header
      /\ l.fp = r.fp /\ l.hello = r.hello /\ l.keys = r.keys
  BY <1>2 DEF RawLinks
<1> HIDE DEF l
<1>4. parses(l)
  BY <1>3 DEF parses
<1>5. Parse(l).address = ip /\ Parse(l).port = port
  BY <1>3 DEF Parse, applyDefaults, spelled
<1>6. /\ Parse(l).protocol = Parse(r).protocol /\ Parse(l).cred = Parse(r).cred
      /\ Parse(l).network = Parse(r).network /\ Parse(l).security = Parse(r).security
      /\ Parse(l).path = Parse(r).path /\ Parse(l).service = Parse(r).service
      /\ Parse(l).mode = Parse(r).mode /\ Parse(l).extra = Parse(r).extra
      /\ Parse(l).header = Parse(r).header /\ Parse(l).fp = Parse(r).fp
      /\ Parse(l).hello = Parse(r).hello /\ Parse(l).keys = Parse(r).keys
  BY <1>3 DEF Parse, applyDefaults, spelled
<1>7. /\ r.host # Absent => Parse(l).host = Parse(r).host /\ Parse(l).sni = Parse(r).sni
      /\ r.sni # Absent => Parse(l).sni = Parse(r).sni
  BY <1>3 DEF Parse, applyDefaults, spelled, first
<1> QED
  BY <1>4, <1>5, <1>6, <1>7 DEF l

\* A confirmed candidate is handed out as it was probed, whatever the link, the
\* candidate and the answers.
THEOREM HandedOut == CandidateSpec => []HandedOutAsProbed
<1>1. CandidateInv => HandedOutAsProbed
  <2> SUFFICES ASSUME CandidateInv, NEW l \in handed
               PROVE  LET used == clientDials(l) IN
                      /\ parses(l) /\ builds(Parse(l))
                      /\ sameNames(dialled, used) = dialled
                      /\ raw.host # Absent => used = dialled
                      /\ raw.sni # Absent => used.handshake = dialled.handshake
    BY DEF HandedOutAsProbed
  <2> DEFINE o == Parse(raw)
             n == Parse(l)
  <2>1. /\ raw \in RawLinks /\ parses(raw) /\ l = Substitute(raw, Edge, Port)
        /\ builds(o) /\ dialled = buildOutbound(o, Edge, Port)
    BY DEF CandidateInv, Configured, Substituted
  <2>2. /\ parses(l)
        /\ n.address = Edge /\ n.port = Port
        /\ n.protocol = o.protocol /\ n.cred = o.cred /\ n.network = o.network
        /\ n.security = o.security /\ n.path = o.path /\ n.service = o.service
        /\ n.mode = o.mode /\ n.extra = o.extra /\ n.header = o.header
        /\ n.fp = o.fp /\ n.hello = o.hello /\ n.keys = o.keys
        /\ raw.host # Absent => n.host = o.host /\ n.sni = o.sni
        /\ raw.sni # Absent => n.sni = o.sni
    BY <2>1, Readdressed, CandidateAssumption
  <2> HIDE DEF o, n
  <2>3. builds(n)
    BY <2>1, <2>2 DEF builds
  <2>4. clientDials(l) = buildOutbound(n, Edge, Port)
    BY <2>2 DEF clientDials, n
  <2>5. ASSUME n.host = o.host PROVE transport(n) = transport(o)
    BY <2>2, <2>5 DEF transport
  <2>6. ASSUME n.sni = o.sni PROVE handshake(n) = handshake(o)
    BY <2>2, <2>6 DEF handshake
  <2>7. raw.host # Absent => clientDials(l) = dialled
    BY <2>1, <2>2, <2>4, <2>5, <2>6 DEF buildOutbound
  <2>8. raw.sni # Absent => clientDials(l).handshake = dialled.handshake
    BY <2>1, <2>2, <2>4, <2>6 DEF buildOutbound
  <2>9. sameNames(dialled, clientDials(l)) = dialled
    <3>1. [transport(n) EXCEPT !.host = transport(o).host] = transport(o)
      BY <2>2 DEF transport
    <3>2. [handshake(n) EXCEPT !.serverName = handshake(o).serverName] = handshake(o)
      BY <2>2 DEF handshake
    <3>3. /\ dialled.handshake = handshake(o) /\ dialled.transport = transport(o)
          /\ clientDials(l).handshake = handshake(n)
          /\ clientDials(l).transport = transport(n)
      BY <2>1, <2>4 DEF buildOutbound
    <3>4. sameNames(dialled, clientDials(l)) =
            [clientDials(l) EXCEPT !.handshake = handshake(o), !.transport = transport(o)]
      BY <3>1, <3>2, <3>3 DEF sameNames
    <3>5. [buildOutbound(n, Edge, Port) EXCEPT !.handshake = handshake(o),
                                               !.transport = transport(o)]
            = buildOutbound(o, Edge, Port)
      <4> DEFINE with(t, h) == [protocol |-> o.protocol, address |-> Edge, port |-> Port,
                                cred |-> o.cred, transport |-> t, handshake |-> h]
      <4>1. /\ buildOutbound(n, Edge, Port) = with(transport(n), handshake(n))
            /\ buildOutbound(o, Edge, Port) = with(transport(o), handshake(o))
        BY <2>2 DEF buildOutbound
      <4>2. \A t, h, g : [with(t, h) EXCEPT !.handshake = g] = with(t, g)
        OBVIOUS
      <4>3. \A t, h, u : [with(t, h) EXCEPT !.transport = u] = with(u, h)
        OBVIOUS
      <4> HIDE DEF with
      <4>4. [with(transport(n), handshake(n)) EXCEPT !.handshake = handshake(o)]
              = with(transport(n), handshake(o))
        BY <4>2
      <4>5. [with(transport(n), handshake(o)) EXCEPT !.transport = transport(o)]
              = with(transport(o), handshake(o))
        BY <4>3
      <4> QED
        BY ONLY <4>1, <4>4, <4>5
    <3> QED
      BY <2>1, <2>4, <3>4, <3>5
  <2> QED
    BY <2>2, <2>3, <2>7, <2>8, <2>9 DEF n
<1> QED
  BY <1>1, ConfiguredSubstituted, PTL

=============================================================================
