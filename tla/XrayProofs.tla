----------------------------- MODULE XrayProofs -----------------------------
(* Proofs about XrayBatches, for any number of candidates, batches, slots    *)
(* and ports, and about XrayExtract, for any number of processes, of file    *)
(* nodes and of chunks.                                                      *)
EXTENDS XrayBatches, XrayExtract, FiniteSetTheorems, SequenceTheorems, TLAPS

-----------------------------------------------------------------------------
(* XrayBatches: the inductive invariant. *)

BatchLen(b) == Cardinality(Items(b))

\* A batch holds a slot from its launch until it leaves, and a process lives
\* only between the start of the command and its deferred kill.
Slotted ==
    /\ sem = {b \in Batches : bPc[b] # "idle"}
    /\ Cardinality(sem) <= XrayConcurrency
    /\ \A b \in Batches : proc[b] \in Alive => bPc[b] \in {"starting", "probing", "stopping"}
    /\ stage = "returned" => \A b \in Batches : bPc[b] = "idle"

\* A port is bound by a living process, the ports of a batch are distinct, and
\* candidates are probed only while their batch probes.
Wired ==
    /\ \A p \in Ports : bound[p] # 0 => proc[bound[p]] \in Alive
    /\ \A b \in Batches : bPc[b] \in {"spawning", "starting", "probing"} =>
         \A c, d \in Items(b) : port[c] \in Ports /\ (port[c] = port[d] => c = d)
    /\ \A c \in Cands : cPc[c] \in {"queued", "probing"} => bPc[Batch(c)] = "probing"

\* A candidate with a verdict was probed, once, and its batch is past probing
\* or about to be.
Judged ==
    \A c \in Cands : verdict[c] =>
      /\ cPc[c] = "tested" /\ Batch(c) <= next
      /\ bPc[Batch(c)] \in {"probing", "stopping", "telling", "idle"}

\* How far the results of each batch were told: not at all before it tells,
\* all of them once it left.
Counts ==
    /\ \A b \in Batches :
         /\ told[b] <= BatchLen(b)
         /\ bPc[b] \notin {"telling", "idle"} => told[b] = 0
         /\ bPc[b] = "idle" => told[b] = IF b <= next THEN BatchLen(b) ELSE 0
         /\ b > next => bPc[b] = "idle"
    /\ stage # "launching" /\ ~cancelled => next = NumBatches

\* The entries are the accepted ones of the candidates told so far.
Told == {c \in Cands : c < Current(Batch(c))}

Kept == /\ \A i \in 1..Len(entries) : entries[i] \in Told /\ verdict[entries[i]]
        /\ \A c \in Told : verdict[c] => \E i \in 1..Len(entries) : entries[i] = c
        /\ \A i, j \in 1..Len(entries) : entries[i] = entries[j] => i = j
        /\ done = Cardinality(Told)

IInv == TypeOK /\ Slotted /\ Wired /\ Judged /\ Counts /\ Kept

-----------------------------------------------------------------------------
(* The arithmetic of chunkEndpoints. *)

\* Multiplication is monotonic.
LEMMA Times ==
    ASSUME NEW k \in Nat, NEW a \in Int, NEW b \in Int, a <= b
    PROVE  a * k <= b * k
OBVIOUS

\* Division by the size of a batch.
LEMMA Quotient ==
    ASSUME NEW n \in Nat
    PROVE  /\ n \div BatchSize \in Nat
           /\ (n \div BatchSize) * BatchSize <= n
           /\ n < (n \div BatchSize) * BatchSize + BatchSize
BY BatchAssumption

\* A quotient is determined by its bounds.
LEMMA QuotientUnique ==
    ASSUME NEW n \in Nat, NEW q \in Nat, q * BatchSize <= n, n < q * BatchSize + BatchSize
    PROVE  n \div BatchSize = q
<1> DEFINE r == n \div BatchSize
<1>1. r \in Nat /\ r * BatchSize <= n /\ n < r * BatchSize + BatchSize
  BY Quotient
<1>2. BatchSize \in Nat
  BY BatchAssumption
<1> HIDE DEF r
<1>3. ASSUME r < q PROVE FALSE
  <2>1. (r + 1) * BatchSize <= q * BatchSize
    BY <1>1, <1>2, <1>3, Times
  <2>2. (r + 1) * BatchSize = r * BatchSize + BatchSize
    BY <1>1, <1>2
  <2>3. r * BatchSize \in Nat /\ q * BatchSize \in Nat
    BY <1>1, <1>2
  <2> QED
    BY <1>1, <1>2, <2>1, <2>2, <2>3
<1>4. ASSUME q < r PROVE FALSE
  <2>1. (q + 1) * BatchSize <= r * BatchSize
    BY <1>1, <1>2, <1>4, Times
  <2>2. (q + 1) * BatchSize = q * BatchSize + BatchSize
    BY <1>1, <1>2
  <2>3. r * BatchSize \in Nat /\ q * BatchSize \in Nat
    BY <1>1, <1>2
  <2> QED
    BY <1>1, <1>2, <2>1, <2>2, <2>3
<1>5. r = q
  BY <1>1, <1>3, <1>4
<1> QED
  BY <1>5 DEF r

\* Every candidate is in a batch.
LEMMA BatchOf == NumBatches \in Nat /\ \A c \in Cands : Batch(c) \in Batches
<1>1. NumBatches \in Nat
  BY BatchAssumption, Quotient DEF NumBatches
<1>2. ASSUME NEW c \in Cands PROVE Batch(c) \in Batches
  <2> DEFINE q == (c - 1) \div BatchSize
             n == NumCands + BatchSize - 1
             m == n \div BatchSize
  <2>1. /\ BatchSize \in Nat \ {0} /\ c - 1 \in Nat /\ n \in Nat
        /\ c - 1 + BatchSize <= n
    BY BatchAssumption DEF Cands
  <2>2. q \in Nat /\ q * BatchSize <= c - 1
    BY <2>1, Quotient
  <2>3. m \in Nat /\ n < m * BatchSize + BatchSize
    BY <2>1, Quotient
  <2> HIDE DEF q, m, n
  <2>4. q + 1 <= m
    <3> SUFFICES ASSUME m <= q PROVE FALSE
      BY <2>2, <2>3
    <3>1. m * BatchSize <= q * BatchSize
      BY <2>1, <2>2, <2>3, Times
    <3>2. m * BatchSize \in Nat /\ q * BatchSize \in Nat
      BY <2>1, <2>2, <2>3
    <3> QED
      BY <2>1, <2>2, <2>3, <3>1, <3>2 DEF Cands
  <2> QED
    BY <2>2, <2>3, <2>4 DEF Batch, Batches, NumBatches, q, m, n
<1> QED
  BY <1>1, <1>2

\* The items of a batch are the BatchLen(b) candidates after the (b - 1) * BatchSize
\* of the earlier batches.
LEMMA ItemsOf ==
    ASSUME NEW b \in Batches
    PROVE  /\ (b - 1) * BatchSize \in Nat
           /\ IsFiniteSet(Items(b)) /\ BatchLen(b) \in 0..BatchSize
           /\ \A c \in Items(b) : c <= (b - 1) * BatchSize + BatchLen(b)
           /\ \A t \in Nat : t < BatchLen(b) => (b - 1) * BatchSize + t + 1 \in Items(b)
<1> DEFINE q == b - 1
           f == q * BatchSize
           l == IF f + BatchSize <= NumCands THEN f + BatchSize ELSE NumCands
<1>1. b \in Nat \ {0} /\ q \in Nat /\ BatchSize \in Nat \ {0} /\ NumCands \in Nat
  BY BatchAssumption, BatchOf DEF Batches
<1>2. f \in Nat
  BY <1>1
<1>3. ASSUME NEW c \in Cands PROVE Batch(c) = b <=> f < c /\ c <= f + BatchSize
  <2>1. c - 1 \in Nat
    BY BatchAssumption DEF Cands
  <2>2. ASSUME f < c, c <= f + BatchSize PROVE (c - 1) \div BatchSize = q
    BY <1>1, <1>2, <2>1, <2>2, QuotientUnique DEF Cands
  <2>3. ASSUME (c - 1) \div BatchSize = q PROVE f < c /\ c <= f + BatchSize
    <3>1. q * BatchSize <= c - 1 /\ c - 1 < q * BatchSize + BatchSize
      BY <2>1, <2>3, Quotient
    <3> HIDE DEF q
    <3> QED
      BY <1>1, <1>2, <2>1, <3>1 DEF Cands
  <2>4. Batch(c) = b <=> (c - 1) \div BatchSize = q
    <3>1. (c - 1) \div BatchSize \in Nat
      BY <2>1, Quotient
    <3> QED
      BY <1>1, <3>1 DEF Batch
  <2> QED
    BY <2>2, <2>3, <2>4
<1> HIDE DEF f, q
<1>4. Items(b) = (f + 1)..l
  BY <1>1, <1>2, <1>3 DEF Items, Cands
<1>5. l \in Nat /\ l <= f + BatchSize
  BY <1>1, <1>2
<1> HIDE DEF l
<1>6. IsFiniteSet(Items(b)) /\ BatchLen(b) = IF f + 1 > l THEN 0 ELSE l - f
  <2>1. f + 1 \in Int /\ l \in Int
    BY <1>2, <1>5
  <2>2. /\ IsFiniteSet((f + 1)..l)
        /\ Cardinality((f + 1)..l) = IF f + 1 > l THEN 0 ELSE l - (f + 1) + 1
    BY <2>1, FS_Interval
  <2>3. l - (f + 1) + 1 = l - f
    BY <1>2, <1>5
  <2> QED
    BY <1>4, <2>2, <2>3 DEF BatchLen
<1>7. BatchLen(b) \in 0..BatchSize
  BY <1>1, <1>2, <1>5, <1>6
<1>8. \A c \in Items(b) : c <= f + BatchLen(b)
  BY <1>2, <1>4, <1>5, <1>6
<1>9. \A t \in Nat : t < BatchLen(b) => f + t + 1 \in Items(b)
  BY <1>2, <1>4, <1>5, <1>6
<1> QED
  BY <1>2, <1>6, <1>7, <1>8, <1>9 DEF f, q

-----------------------------------------------------------------------------
\* Everything a batch works on is finite.
LEMMA Finite == TypeOK => /\ IsFiniteSet(Cands) /\ Cardinality(Cands) = NumCands
                          /\ IsFiniteSet(Told) /\ Cardinality(Told) \in 0..NumCands
                          /\ IsFiniteSet(sem) /\ Cardinality(sem) \in Nat
<1> SUFFICES ASSUME TypeOK
             PROVE  /\ IsFiniteSet(Cands) /\ Cardinality(Cands) = NumCands
                    /\ IsFiniteSet(Told) /\ Cardinality(Told) \in 0..NumCands
                    /\ IsFiniteSet(sem) /\ Cardinality(sem) \in Nat
  OBVIOUS
<1>1. IsFiniteSet(Cands) /\ Cardinality(Cands) = NumCands
  BY BatchAssumption, FS_Interval DEF Cands
<1>2. Told \in SUBSET Cands
  BY DEF Told
<1>3. /\ IsFiniteSet(Told) /\ Cardinality(Told) <= NumCands
      /\ Cardinality(Told) \in Nat
  BY <1>1, <1>2, FS_Subset, FS_CardinalityType
<1>4. Cardinality(Told) \in 0..NumCands
  BY <1>3, BatchAssumption
<1>5. IsFiniteSet(Batches)
  BY BatchOf, FS_Interval DEF Batches
<1>6. IsFiniteSet(sem) /\ Cardinality(sem) \in Nat
  BY <1>5, FS_Subset, FS_CardinalityType DEF TypeOK
<1> QED
  BY <1>1, <1>3, <1>4, <1>6

\* The result told next is the one of a candidate of the batch that was not
\* told before, and telling it adds exactly that candidate.
LEMMA TellOne ==
    ASSUME NEW b \in Batches
    PROVE  IInv /\ Tell(b) =>
             /\ Current(b) \in Items(b) /\ Current(b) \notin Told
             /\ Told' = Told \union {Current(b)}
             /\ told[b] + 1 <= BatchLen(b)
             /\ done' = Cardinality(Told')
<1> SUFFICES ASSUME IInv, Tell(b)
             PROVE  /\ Current(b) \in Items(b) /\ Current(b) \notin Told
                    /\ Told' = Told \union {Current(b)}
                    /\ told[b] + 1 <= BatchLen(b)
                    /\ done' = Cardinality(Told')
  OBVIOUS
<1>1. /\ told[b] \in Nat /\ told[b] < BatchLen(b) /\ BatchLen(b) \in Nat
      /\ told' = [told EXCEPT ![b] = told[b] + 1]
      /\ told \in [Batches -> 0..BatchSize]
  <2>1. told \in [Batches -> 0..BatchSize]
    BY DEF IInv, TypeOK
  <2>2. told[b] \in Nat
    BY <2>1, BatchAssumption
  <2>3. BatchLen(b) \in Nat
    BY ItemsOf
  <2> QED
    BY <2>1, <2>2, <2>3 DEF Tell, BatchLen
<1> DEFINE f == (b - 1) * BatchSize
<1>2. Current(b) = f + told[b] + 1 /\ Current(b)' = f + told'[b] + 1 /\ f \in Nat
  BY ItemsOf DEF Current
<1> HIDE DEF f
<1>3. Current(b) \in Items(b) /\ Current(b) \in Nat
  <2>1. Current(b) \in Items(b)
    BY <1>1, <1>2, ItemsOf DEF f
  <2> QED
    BY <1>1, <1>2, <2>1
<1>4. Current(b) \in Cands /\ Batch(Current(b)) = b
  BY <1>3 DEF Items
<1>5. Current(b) \notin Told
  BY <1>3, <1>4 DEF Told
<1>6. Current(b)' = Current(b) + 1
  BY <1>1, <1>2
<1>7. \A a \in Batches : a # b => Current(a)' = Current(a)
  BY <1>1 DEF Current
<1>8. Told' = Told \union {Current(b)}
  <2>1. ASSUME NEW c \in Cands
        PROVE  c < Current(Batch(c))' <=> c < Current(Batch(c)) \/ c = Current(b)
    <3>1. CASE Batch(c) = b
      BY <1>3, <1>6, <3>1 DEF Cands
    <3>2. CASE Batch(c) # b
      BY <1>4, <1>7, <3>2, BatchOf
    <3> QED
      BY <3>1, <3>2
  <2> QED
    BY <1>4, <2>1 DEF Told
<1>9. done' = Cardinality(Told')
  <2>1. done' = Cardinality(Told) + 1
    BY DEF IInv, Kept, Tell
  <2>2. Cardinality(Told \union {Current(b)}) = Cardinality(Told) + 1
    BY <1>5, Finite, FS_AddElement DEF IInv
  <2> QED
    BY <1>8, <2>1, <2>2
<1>10. told[b] + 1 <= BatchLen(b)
  BY <1>1
<1> QED
  BY <1>3, <1>5, <1>8, <1>9, <1>10

LEMMA InitIInv == Init => IInv
<1> SUFFICES ASSUME Init PROVE IInv
  OBVIOUS
<1>1. entries = <<>> /\ Len(entries) = 0
  BY EmptySeq DEF Init
<1>2. TypeOK
  <2>1. /\ stage \in {"launching", "waiting", "returned"}
        /\ next \in 0..NumBatches
        /\ sem \subseteq Batches
        /\ told \in [Batches -> 0..BatchSize]
        /\ done \in 0..NumCands
    BY BatchAssumption, BatchOf DEF Init
  <2>2. /\ bPc \in [Batches -> {"idle", "allocating", "spawning", "starting",
                                "probing", "stopping", "telling"}]
        /\ port \in [Cands -> Ports \union {0}]
        /\ proc \in [Batches -> Alive \union {"none", "dead"}]
        /\ bound \in [Ports -> Batches \union {0}]
        /\ cPc \in [Cands -> {"idle", "queued", "probing", "tested"}]
    BY DEF Init
  <2>3. /\ verdict \in [Cands -> BOOLEAN]
        /\ cancelled \in BOOLEAN
        /\ good \subseteq Cands
        /\ via \in [Cands -> Cands \union {0}]
    BY DEF Init
  <2>4. entries \in Seq(Cands)
    BY <1>1
  <2> QED
    BY <2>1, <2>2, <2>3, <2>4 DEF TypeOK
<1>3. Slotted
  BY BatchAssumption, FS_EmptySet DEF Init, Slotted, Alive
<1>4. Wired
  BY BatchOf DEF Init, Wired
<1>4a. Judged
  BY DEF Init, Judged
<1>5. Counts
  <2>1. \A b \in Batches : b > 0 /\ BatchLen(b) \in Nat
    BY BatchOf, ItemsOf DEF Batches
  <2>2. NumCands = 0 => NumBatches = 0
    <3>1. NumCands = 0 => (NumCands + BatchSize - 1) \div BatchSize = 0
      <4>1. 0 * BatchSize = 0 /\ BatchSize - 1 \in Nat
        BY BatchAssumption
      <4> QED
        BY <4>1, BatchAssumption, QuotientUnique
    <3> QED
      BY <3>1 DEF NumBatches
  <2>3. stage # "launching" => next = NumBatches
    BY <2>2 DEF Init
  <2>4. \A b \in Batches : bPc[b] = "idle" /\ told[b] = 0 /\ ~(b <= next)
    BY <2>1, BatchOf DEF Init, Batches
  <2> QED
    BY <2>1, <2>3, <2>4 DEF Counts
<1>6. Kept
  <2>1. Told = {}
    <3>1. ASSUME NEW c \in Cands PROVE ~(c < Current(Batch(c)))
      <4>1. Batch(c) \in Batches /\ c - 1 \in Nat
        BY BatchOf, BatchAssumption DEF Cands
      <4>2. Current(Batch(c)) = (Batch(c) - 1) * BatchSize + 0 + 1
        BY <4>1 DEF Init, Current
      <4>3. ((c - 1) \div BatchSize) * BatchSize <= c - 1 /\ (c - 1) \div BatchSize \in Nat
        BY <4>1, Quotient
      <4>4. Batch(c) - 1 = (c - 1) \div BatchSize
        BY <4>3 DEF Batch
      <4>5. (Batch(c) - 1) * BatchSize \in Nat
        BY <4>1, ItemsOf
      <4> QED
        BY <4>1, <4>2, <4>3, <4>4, <4>5 DEF Cands
    <3> QED
      BY <3>1 DEF Told
  <2> QED
    BY <1>1, <2>1, FS_EmptySet DEF Init, Kept
<1> QED
  BY <1>2, <1>3, <1>4, <1>4a, <1>5, <1>6 DEF IInv

-----------------------------------------------------------------------------
LEMMA TypeInductive == IInv /\ [Next]_vars => TypeOK'
<1> SUFFICES ASSUME IInv, TypeOK, [Next]_vars PROVE TypeOK'
  BY DEF IInv
<1> USE BatchAssumption DEF TypeOK, Goto, stageVars, probeVars, tallyVars, envVars
<1>1. CASE Launch
  <2>1. next + 1 \in Batches /\ next + 1 \in 0..NumBatches
    BY <1>1, BatchOf DEF Launch, Batches
  <2> QED
    BY <1>1, <2>1 DEF Launch
<1>2. CASE Drain \/ Return \/ Cancel
  BY <1>2 DEF Drain, Return, Cancel
<1>3. ASSUME NEW b \in Batches, BatchStep(b) \/ Xray(b) PROVE TypeOK'
  <2>1. CASE Allocate(b)
    <3>1. PICK f \in Injection(Items(b), {p \in Ports : bound[p] = 0}) :
            port' = [c \in Cands |-> IF c \in Items(b) THEN f[c] ELSE port[c]]
      BY <2>1 DEF Allocate
    <3>2. f \in [Items(b) -> Ports]
      BY DEF Injection
    <3>3. port' \in [Cands -> Ports \union {0}]
      BY <3>1, <3>2
    <3> QED
      BY <2>1, <3>3 DEF Allocate
  <2>2. CASE Fail(b) \/ InboundsDown(b) \/ Probed(b)
    BY <2>2 DEF Fail, InboundsDown, Probed
  <2>3. CASE Spawn(b)
    BY <2>3 DEF Spawn, Alive
  <2>4. CASE InboundsUp(b)
    BY <2>4 DEF InboundsUp
  <2>5. CASE Stop(b)
    BY <2>5 DEF Stop, Unbind
  <2>6. CASE Tell(b)
    <3>1. told[b] + 1 <= BatchSize /\ told[b] \in Nat
      BY <2>6, TellOne, ItemsOf
    <3>2. told' \in [Batches -> 0..BatchSize]
      <4>1. told[b] + 1 \in 0..BatchSize
        BY <3>1
      <4> QED
        BY <2>6, <4>1 DEF Tell
    <3>3. done' \in 0..NumCands
      <4>1. Told' \in SUBSET Cands
        BY DEF Told
      <4>2. IsFiniteSet(Told') /\ Cardinality(Told') <= NumCands /\ Cardinality(Told') \in Nat
        BY <4>1, Finite, FS_Subset, FS_CardinalityType
      <4> QED
        BY <2>6, <4>2, TellOne
    <3>4. entries' \in Seq(Cands)
      <4>1. Current(b) \in Cands
        BY <2>6, TellOne DEF Items
      <4> QED
        BY <2>6, <4>1, AppendProperties DEF Tell
    <3> QED
      BY <2>6, <3>2, <3>3, <3>4 DEF Tell
  <2>7. CASE Leave(b)
    BY <2>7 DEF Leave
  <2>8. CASE XrayBinds(b)
    BY <2>8 DEF XrayBinds, Alive
  <2>9. CASE XrayExits(b)
    BY <2>9 DEF XrayExits, Unbind
  <2> QED
    BY <1>3, <2>1, <2>2, <2>3, <2>4, <2>5, <2>6, <2>7, <2>8, <2>9 DEF BatchStep, Xray
<1>4. ASSUME NEW c \in Cands, Probe(c) PROVE TypeOK'
  <2>1. CASE ProbeStarts(c) \/ ProbeSkipped(c)
    BY <2>1 DEF ProbeStarts, ProbeSkipped
  <2>2. CASE ProbeEnds(c)
    <3>1. verdict' \in [Cands -> BOOLEAN] /\ via' \in [Cands -> Cands \union {0}]
      BY <2>2 DEF ProbeEnds, Behind
    <3> QED
      BY <2>2, <3>1 DEF ProbeEnds
  <2> QED
    BY <1>4, <2>1, <2>2 DEF Probe
<1>5. CASE UNCHANGED vars
  BY <1>5 DEF vars
<1> QED
  BY <1>1, <1>2, <1>3, <1>4, <1>5 DEF Next

LEMMA SlottedInductive == IInv /\ [Next]_vars => Slotted'
<1> SUFFICES ASSUME IInv, TypeOK, Slotted, [Next]_vars PROVE Slotted'
  BY DEF IInv
<1>0. IsFiniteSet(sem) /\ Cardinality(sem) \in Nat
  BY Finite
<1> USE DEF TypeOK, Slotted, Goto, stageVars, probeVars, tallyVars, envVars
<1>1. CASE Launch
  <2>1. next + 1 \in Batches
    BY <1>1, BatchOf DEF Launch, Batches
  <2>2. Cardinality(sem') <= XrayConcurrency
    <3>1. /\ Cardinality(sem \union {next + 1}) \in {Cardinality(sem), Cardinality(sem) + 1}
      BY <1>0, FS_AddElement
    <3> QED
      BY <1>0, <1>1, <3>1, BatchAssumption DEF Launch
  <2> QED
    BY <1>1, <2>1, <2>2 DEF Launch, Alive
<1>2. CASE Drain \/ Return \/ Cancel
  BY <1>2 DEF Drain, Return, Cancel
<1>3. ASSUME NEW b \in Batches, BatchStep(b) \/ Xray(b) PROVE Slotted'
  <2>1. CASE Allocate(b) \/ Fail(b) \/ Spawn(b) \/ InboundsUp(b) \/ InboundsDown(b) \/ Probed(b)
    BY <2>1 DEF Allocate, Fail, Spawn, InboundsUp, InboundsDown, Probed, Alive
  <2>2. CASE Stop(b) \/ Tell(b)
    BY <2>2 DEF Stop, Tell, Alive
  <2>3. CASE Leave(b)
    <3>1. Cardinality(sem \ {b}) <= XrayConcurrency
      <4>1. Cardinality(sem \ {b}) \in {Cardinality(sem), Cardinality(sem) - 1}
        BY <1>0, FS_RemoveElement
      <4> QED
        BY <1>0, <4>1, BatchAssumption
    <3> QED
      BY <2>3, <3>1 DEF Leave, Alive
  <2>4. CASE XrayBinds(b) \/ XrayExits(b)
    BY <2>4 DEF XrayBinds, XrayExits, Alive
  <2> QED
    BY <1>3, <2>1, <2>2, <2>3, <2>4 DEF BatchStep, Xray
<1>4. ASSUME NEW c \in Cands, Probe(c) PROVE Slotted'
  BY <1>4 DEF Probe, ProbeStarts, ProbeSkipped, ProbeEnds
<1>5. CASE UNCHANGED vars
  BY <1>5 DEF vars
<1> QED
  BY <1>1, <1>2, <1>3, <1>4, <1>5 DEF Next

LEMMA WiredInductive == IInv /\ [Next]_vars => Wired'
<1> SUFFICES ASSUME IInv, TypeOK, Wired, [Next]_vars PROVE Wired'
  BY DEF IInv
<1> USE BatchAssumption DEF TypeOK, Wired, Goto, stageVars, probeVars, tallyVars, envVars
<1>0. \A c \in Cands : Batch(c) \in Batches
  BY BatchOf
<1>1. CASE Launch
  BY <1>0, <1>1 DEF Launch
<1>2. CASE Drain \/ Return \/ Cancel
  BY <1>2 DEF Drain, Return, Cancel
<1>3. ASSUME NEW b \in Batches, BatchStep(b) \/ Xray(b) PROVE Wired'
  <2>1. CASE Allocate(b)
    <3>1. PICK f \in Injection(Items(b), {p \in Ports : bound[p] = 0}) :
            port' = [c \in Cands |-> IF c \in Items(b) THEN f[c] ELSE port[c]]
      BY <2>1 DEF Allocate
    <3>2. /\ f \in [Items(b) -> Ports]
          /\ \A c, d \in Items(b) : f[c] = f[d] => c = d
      BY DEF Injection, IsInjective
    <3>3. \A c, d \in Items(b) : port'[c] \in Ports /\ (port'[c] = port'[d] => c = d)
      BY <3>1, <3>2 DEF Items
    <3>4. \A a \in Batches : a # b => \A c \in Items(a) : port'[c] = port[c]
      BY <3>1 DEF Items
    <3>5. /\ UNCHANGED <<bound, proc, cPc>> /\ bPc[b] = "allocating"
          /\ \A a \in Batches : a # b => bPc'[a] = bPc[a]
      BY <2>1 DEF Allocate
    <3>6. ASSUME NEW a \in Batches, bPc'[a] \in {"spawning", "starting", "probing"},
                 NEW c \in Items(a), NEW d \in Items(a)
          PROVE  port'[c] \in Ports /\ (port'[c] = port'[d] => c = d)
      <4>1. CASE a = b
        BY <3>3, <4>1
      <4>2. CASE a # b
        <5>1. /\ bPc[a] \in {"spawning", "starting", "probing"}
              /\ port'[c] = port[c] /\ port'[d] = port[d]
          BY <3>4, <3>5, <3>6, <4>2
        <5> QED
          BY <5>1
      <4> QED
        BY <4>1, <4>2
    <3>7. \A p \in Ports : bound'[p] # 0 => proc'[bound'[p]] \in Alive
      BY <3>5
    <3>8. \A c \in Cands : cPc'[c] \in {"queued", "probing"} => bPc'[Batch(c)] = "probing"
      BY <1>0, <3>5
    <3> QED
      BY <3>6, <3>7, <3>8
  <2>2. CASE Fail(b) \/ InboundsDown(b) \/ Tell(b) \/ Leave(b)
    <3>1. /\ UNCHANGED <<bound, proc, cPc, port>> /\ bPc[b] # "probing"
          /\ bPc'[b] \notin {"spawning", "starting", "probing"}
          /\ \A a \in Batches : a # b => bPc'[a] = bPc[a]
      BY <2>2 DEF Fail, InboundsDown, Tell, Leave
    <3> QED
      BY <1>0, <3>1
  <2>3. CASE Probed(b)
    BY <1>0, <2>3 DEF Probed, Items
  <2>4. CASE Spawn(b)
    BY <1>0, <2>4 DEF Spawn, Alive
  <2>5. CASE InboundsUp(b)
    BY <1>0, <2>5 DEF InboundsUp, Items
  <2>6. CASE Stop(b)
    BY <1>0, <2>6 DEF Stop, Unbind
  <2>7. CASE XrayBinds(b)
    BY <1>0, <2>7 DEF XrayBinds, Alive
  <2>8. CASE XrayExits(b)
    BY <1>0, <2>8 DEF XrayExits, Unbind
  <2> QED
    BY <1>3, <2>1, <2>2, <2>3, <2>4, <2>5, <2>6, <2>7, <2>8 DEF BatchStep, Xray
<1>4. ASSUME NEW c \in Cands, Probe(c) PROVE Wired'
  BY <1>4 DEF Probe, ProbeStarts, ProbeSkipped, ProbeEnds
<1>5. CASE UNCHANGED vars
  BY <1>5 DEF vars
<1> QED
  BY <1>1, <1>2, <1>3, <1>4, <1>5 DEF Next

LEMMA JudgedInductive == IInv /\ [Next]_vars => Judged'
<1> SUFFICES ASSUME IInv, TypeOK, Judged, [Next]_vars PROVE Judged'
  BY DEF IInv
<1> USE DEF TypeOK, Judged, Goto, stageVars, probeVars, tallyVars, envVars
<1>0. /\ NumBatches \in Nat
      /\ \A c \in Cands : Batch(c) \in Batches /\ Batch(c) \in Nat
  BY BatchOf DEF Batches
<1>1. CASE Launch
  <2>1. \A c \in Cands : verdict[c] => Batch(c) # next + 1
    BY <1>0
  <2> QED
    BY <1>0, <1>1, <2>1 DEF Launch
<1>2. CASE Drain \/ Return \/ Cancel \/ UNCHANGED vars
  BY <1>2 DEF Drain, Return, Cancel, vars
<1>3. ASSUME NEW b \in Batches, BatchStep(b) \/ Xray(b) PROVE Judged'
  <2>1. CASE InboundsUp(b)
    <3>1. /\ UNCHANGED <<verdict, next>> /\ bPc[b] = "starting"
          /\ \A a \in Batches : a # b => bPc'[a] = bPc[a]
          /\ \A c \in Cands : Batch(c) # b => cPc'[c] = cPc[c]
      BY <2>1 DEF InboundsUp, Items
    <3> QED
      BY <1>0, <3>1
  <2>2. CASE BatchStep(b) /\ ~InboundsUp(b)
    <3>1. UNCHANGED <<verdict, next, cPc>>
      BY <2>2 DEF BatchStep, Allocate, Fail, Spawn, InboundsDown, Probed, Stop, Tell, Leave
    <3>2. /\ \A a \in Batches : a # b => bPc'[a] = bPc[a]
          /\ bPc[b] \in {"probing", "stopping", "telling", "idle"} =>
               bPc'[b] \in {"probing", "stopping", "telling", "idle"}
      BY <2>2 DEF BatchStep, Allocate, Fail, Spawn, InboundsDown, Probed, Stop, Tell, Leave
    <3> QED
      BY <1>0, <3>1, <3>2
  <2>3. CASE XrayBinds(b) \/ XrayExits(b)
    BY <2>3 DEF XrayBinds, XrayExits
  <2> QED
    BY <1>3, <2>1, <2>2, <2>3 DEF BatchStep, Xray
<1>4. ASSUME NEW c \in Cands, ProbeStarts(c) \/ ProbeSkipped(c) PROVE Judged'
  BY <1>4 DEF ProbeStarts, ProbeSkipped
<1>5. ASSUME NEW c \in Cands, ProbeEnds(c) PROVE Judged'
  <2>1. /\ UNCHANGED <<bPc, next>> /\ cPc'[c] = "tested"
        /\ \A d \in Cands : d # c => cPc'[d] = cPc[d] /\ verdict'[d] = verdict[d]
    BY <1>5 DEF ProbeEnds
  <2>2. bPc[Batch(c)] = "probing" /\ Batch(c) <= next
    <3>1. bPc[Batch(c)] = "probing"
      BY <1>5 DEF ProbeEnds, IInv, Wired
    <3>2. ~(Batch(c) > next)
      BY <1>0, <3>1 DEF IInv, Counts
    <3> QED
      BY <1>0, <3>1, <3>2
  <2> QED
    BY <2>1, <2>2
<1> QED
  BY <1>1, <1>2, <1>3, <1>4, <1>5 DEF Next, Probe

LEMMA CountsInductive == IInv /\ [Next]_vars => Counts'
<1> SUFFICES ASSUME IInv, TypeOK, Counts, [Next]_vars PROVE Counts'
  BY DEF IInv
<1>0. NumBatches \in Nat /\ \A b \in Batches : BatchLen(b) \in Nat /\ b \in Nat
  BY BatchOf, ItemsOf DEF Batches
<1> USE DEF Counts, Goto, stageVars, probeVars, tallyVars, envVars
<1>1. CASE Launch
  <2>1. next + 1 \in Batches /\ next \in Nat
    BY <1>0, <1>1 DEF Launch, Batches, TypeOK
  <2> QED
    BY <1>0, <1>1, <2>1 DEF Launch, TypeOK
<1>2. CASE Drain \/ Return \/ Cancel
  BY <1>2 DEF Drain, Return, Cancel
<1>3. ASSUME NEW b \in Batches, BatchStep(b) \/ Xray(b) PROVE Counts'
  <2>1. CASE Tell(b)
    BY <1>0, <2>1, TellOne DEF Tell, TypeOK
  <2>2. CASE Leave(b)
    BY <1>0, <2>2 DEF Leave, TypeOK, BatchLen
  <2>3. CASE XrayBinds(b) \/ XrayExits(b)
    BY <2>3 DEF XrayBinds, XrayExits
  <2>4. CASE \/ Allocate(b) \/ Fail(b) \/ Spawn(b) \/ InboundsUp(b) \/ InboundsDown(b)
             \/ Probed(b) \/ Stop(b)
    <3>1. /\ UNCHANGED <<stage, next, told, cancelled>>
          /\ bPc[b] # "idle" /\ bPc[b] # "telling" /\ bPc'[b] # "idle"
          /\ \A a \in Batches : a # b => bPc'[a] = bPc[a]
      BY <2>4 DEF Allocate, Fail, Spawn, InboundsUp, InboundsDown, Probed, Stop, TypeOK
    <3> QED
      BY <3>1
  <2> QED
    BY <1>3, <2>1, <2>2, <2>3, <2>4 DEF BatchStep, Xray
<1>4. ASSUME NEW c \in Cands, Probe(c) PROVE Counts'
  BY <1>4 DEF Probe, ProbeStarts, ProbeSkipped, ProbeEnds
<1>5. CASE UNCHANGED vars
  BY <1>5 DEF vars
<1> QED
  BY <1>1, <1>2, <1>3, <1>4, <1>5 DEF Next

LEMMA KeptInductive == IInv /\ [Next]_vars => Kept'
<1> SUFFICES ASSUME IInv, TypeOK, Kept, [Next]_vars PROVE Kept'
  BY DEF IInv
<1>0. entries \in Seq(Cands) /\ Len(entries) \in Nat
  BY DEF TypeOK
<1>1. CASE UNCHANGED <<entries, told, done, verdict>>
  BY <1>1 DEF Kept, Told, Current
<1>2. ASSUME NEW b \in Batches, Tell(b) PROVE Kept'
  <2> DEFINE k == Current(b)
  <2>1. /\ k \in Cands /\ k \notin Told /\ Told' = Told \union {k}
        /\ done' = Cardinality(Told')
    BY <1>2, TellOne DEF Items
  <2>2. verdict' = verdict /\ entries' = IF verdict[k] THEN Append(entries, k) ELSE entries
    BY <1>2 DEF Tell, probeVars
  <2> HIDE DEF k
  <2>3. CASE ~verdict[k]
    BY <2>1, <2>2, <2>3 DEF Kept
  <2>4. CASE verdict[k]
    <3>1. /\ Len(entries') = Len(entries) + 1
          /\ \A i \in 1..Len(entries) : entries'[i] = entries[i]
          /\ entries'[Len(entries) + 1] = k
      BY <1>0, <2>1, <2>2, <2>4, AppendProperties
    <3>2. \A i \in 1..Len(entries') : i \in 1..Len(entries) \/ i = Len(entries) + 1
      BY <1>0, <3>1
    <3>3. \A i \in 1..Len(entries') : entries'[i] \in Told' /\ verdict'[entries'[i]]
      BY <2>1, <2>2, <2>4, <3>1, <3>2 DEF Kept
    <3>4. ASSUME NEW c \in Told', verdict'[c]
          PROVE  \E i \in 1..Len(entries') : entries'[i] = c
      <4>1. CASE c = k
        BY <1>0, <3>1, <4>1
      <4>2. CASE c # k
        BY <1>0, <2>1, <2>2, <3>1, <3>4, <4>2 DEF Kept
      <4> QED
        BY <4>1, <4>2
    <3>5. ASSUME NEW i \in 1..Len(entries'), NEW j \in 1..Len(entries'),
                 entries'[i] = entries'[j]
          PROVE  i = j
      <4>1. \A l \in 1..Len(entries) : entries[l] # k
        BY <2>1 DEF Kept
      <4> QED
        BY <3>1, <3>2, <3>5, <4>1 DEF Kept
    <3> QED
      BY <2>1, <3>3, <3>4, <3>5 DEF Kept
  <2> QED
    BY <2>3, <2>4
<1>3. ASSUME NEW c \in Cands, ProbeEnds(c) PROVE Kept'
  <2>1. c \notin Told
    <3>1. told[Batch(c)] = 0 /\ Batch(c) \in Batches
      BY <1>3, BatchOf DEF ProbeEnds, IInv, Wired, Counts
    <3>2. c - 1 \in Nat /\ c \in Nat
      BY BatchAssumption DEF Cands
    <3>3. ((c - 1) \div BatchSize) * BatchSize <= c - 1 /\ (c - 1) \div BatchSize \in Nat
      BY <3>2, Quotient
    <3>4. Batch(c) - 1 = (c - 1) \div BatchSize
      BY <3>3 DEF Batch
    <3>5. (Batch(c) - 1) * BatchSize \in Nat
      BY <3>1, ItemsOf
    <3>6. Current(Batch(c)) = (Batch(c) - 1) * BatchSize + 0 + 1
      BY <3>1 DEF Current
    <3> QED
      BY <3>2, <3>3, <3>4, <3>5, <3>6 DEF Told
  <2>2. /\ UNCHANGED <<entries, told, done>>
        /\ \A d \in Cands : d # c => verdict'[d] = verdict[d]
    BY <1>3 DEF ProbeEnds, tallyVars, TypeOK
  <2>3. Told' = Told /\ Told \subseteq Cands
    BY <2>2 DEF Told, Current
  <2> QED
    BY <2>1, <2>2, <2>3 DEF Kept
<1>4. CASE Launch \/ Drain \/ Return \/ Cancel \/ UNCHANGED vars
  BY <1>1, <1>4 DEF Launch, Drain, Return, Cancel, vars, probeVars, tallyVars
<1>5. ASSUME NEW b \in Batches, BatchStep(b) \/ Xray(b) PROVE Kept'
  BY <1>1, <1>2, <1>5 DEF BatchStep, Xray, Allocate, Fail, Spawn, InboundsUp, InboundsDown,
       Probed, Stop, Leave, XrayBinds, XrayExits, probeVars, tallyVars
<1>6. ASSUME NEW c \in Cands, Probe(c) PROVE Kept'
  BY <1>1, <1>3, <1>6 DEF Probe, ProbeStarts, ProbeSkipped, tallyVars
<1> QED
  BY <1>4, <1>5, <1>6 DEF Next

LEMMA Invariance == Spec => []IInv
<1>1. IInv /\ [Next]_vars => IInv'
  BY TypeInductive, SlottedInductive, WiredInductive, JudgedInductive,
     CountsInductive, KeptInductive DEF IInv
<1> QED
  BY <1>1, InitIInv, PTL DEF Spec

-----------------------------------------------------------------------------
\* The variables of the stage stay in their types.
THEOREM TypeCorrect == Spec => []TypeOK
<1>1. IInv => TypeOK
  BY DEF IInv
<1> QED
  BY <1>1, Invariance, PTL

\* A process runs only inside the slot of its batch, there are never more than
\* XrayConcurrency of them, and none is left when the stage returns, whether it
\* was cancelled, its batches failed, or its processes died.
THEOREM ProcessesContained == Spec => []NoStrayProcess
<1>1. ASSUME IInv PROVE NoStrayProcess
  <2>1. \A b \in Batches : proc[b] \in Alive => b \in sem
    BY <1>1 DEF IInv, Slotted
  <2>2. stage = "returned" => sem = {}
    BY <1>1 DEF IInv, Slotted
  <2> QED
    BY <1>1, <2>1, <2>2 DEF IInv, Slotted, NoStrayProcess
<1> QED
  BY <1>1, Invariance, PTL

\* The entries are accepted candidates, each once; a stage that ran to its end
\* accounted for every survivor and kept every accepted one.
THEOREM EntriesCorrect == Spec => []EntriesExact
<1>1. ASSUME IInv PROVE EntriesExact
  <2>1. DOMAIN entries = 1..Len(entries)
    BY <1>1 DEF IInv, TypeOK
  <2>2. \A c \in Accepted : verdict[c]
    BY <1>1, <2>1 DEF IInv, Kept, Accepted
  <2>3. \A i, j \in DOMAIN entries : entries[i] = entries[j] => i = j
    BY <1>1, <2>1 DEF IInv, Kept
  <2>4. ASSUME stage = "returned", ~cancelled
        PROVE  done = NumCands /\ \A c \in Cands : verdict[c] => c \in Accepted
    <3>1. Told = Cands
      <4>1. ASSUME NEW c \in Cands PROVE c < Current(Batch(c))
        <5> DEFINE b == Batch(c)
        <5>1. b \in Batches /\ c \in Items(b) /\ c \in Nat
          BY BatchOf, BatchAssumption DEF Items, Cands
        <5>2. told[b] = BatchLen(b)
          <6>1. bPc[b] = "idle" /\ next = NumBatches
            BY <1>1, <2>4, <5>1 DEF IInv, Slotted, Counts
          <6>2. b <= next
            BY <5>1, <6>1, BatchOf DEF Batches
          <6> QED
            BY <1>1, <5>1, <6>1, <6>2 DEF IInv, Counts
        <5>3. /\ c <= (b - 1) * BatchSize + BatchLen(b)
              /\ (b - 1) * BatchSize \in Nat /\ BatchLen(b) \in Nat
          BY <5>1, ItemsOf
        <5>4. Current(b) = (b - 1) * BatchSize + BatchLen(b) + 1
          BY <5>2 DEF Current
        <5> HIDE DEF b
        <5>5. c < Current(b)
          BY <5>1, <5>3, <5>4
        <5> QED
          BY <5>5 DEF b
      <4> QED
        BY <4>1 DEF Told
    <3>2. done = NumCands
      BY <1>1, <3>1, Finite DEF IInv, Kept
    <3>3. \A c \in Cands : verdict[c] => c \in Accepted
      BY <1>1, <2>1, <3>1 DEF IInv, Kept, Accepted
    <3> QED
      BY <3>2, <3>3
  <2> QED
    BY <2>2, <2>3, <2>4 DEF EntriesExact
<1> QED
  BY <1>1, Invariance, PTL

\* A candidate that is accepted over another candidate's outbound was misrouted
\* by a batch that holds a slot at that moment.
LEMMA Misrouted ==
    ASSUME IInv, NEW c \in Cands, ProbeEnds(c), NEW e \in Cands, ~verdict[e], verdict'[e]
    PROVE  /\ e = c /\ Batch(c) \in sem
           /\ \/ via'[c] = c
              \/ Batch(via'[c]) # Batch(c) /\ Batch(via'[c]) \in sem
<1>1. e = c
  BY DEF ProbeEnds, IInv, TypeOK
<1>2. PICK d \in Behind(c) \intersect good : via' = [via EXCEPT ![c] = d]
  BY <1>1 DEF ProbeEnds
<1>3. via'[c] = d /\ d \in Cands /\ Batch(d) = bound[port[c]] /\ port[d] = port[c]
  BY <1>2 DEF Behind, IInv, TypeOK
<1>4. /\ Batch(c) \in Batches /\ Batch(d) \in Batches
      /\ bPc[Batch(c)] = "probing"
  BY <1>3, BatchOf DEF ProbeEnds, IInv, Wired
<1>5. Batch(c) \in sem
  BY <1>4 DEF IInv, Slotted
<1>6. Batch(d) = Batch(c) => d = c
  BY <1>3, <1>4 DEF IInv, Wired, Items
<1>7. Batch(d) \in sem
  <2>1. port[c] \in Ports
    BY <1>4 DEF IInv, Wired, Items
  <2>2. Batch(d) # 0
    BY <1>4, BatchOf DEF Batches
  <2>3. proc[Batch(d)] \in Alive
    BY <1>3, <2>1, <2>2 DEF IInv, Wired
  <2>4. bPc[Batch(d)] # "idle"
    BY <1>4, <2>3 DEF IInv, Slotted
  <2> QED
    BY <1>4, <2>4 DEF IInv, Slotted
<1> QED
  BY <1>1, <1>3, <1>5, <1>6, <1>7

\* Only the end of a probe sets a verdict.
LEMMA VerdictByProbe ==
    ASSUME TypeOK, [Next]_vars, NEW e \in Cands, ~verdict[e], verdict'[e]
    PROVE  \E c \in Cands : ProbeEnds(c)
<1>1. verdict' # verdict
  OBVIOUS
<1>2. ASSUME NEW b \in Batches, BatchStep(b) \/ Xray(b) PROVE verdict' = verdict
  BY <1>2 DEF BatchStep, Xray, Allocate, Fail, Spawn, InboundsUp, InboundsDown, Probed,
       Stop, Tell, Leave, XrayBinds, XrayExits, probeVars
<1>3. CASE Launch \/ Drain \/ Return \/ Cancel \/ UNCHANGED vars
  BY <1>1, <1>3 DEF Launch, Drain, Return, Cancel, vars, probeVars
<1> QED
  BY <1>1, <1>2, <1>3 DEF Next, Probe, ProbeStarts, ProbeSkipped

\* A candidate is accepted over its own outbound or over one of another batch
\* that is under way: never over another candidate of its batch, and never over
\* a process that outlived its batch.
THEOREM MisrouteCorrect == Spec => MisroutedOnlyByConcurrentBatch
<1> DEFINE A == \A c \in Cands : ~verdict[c] /\ verdict'[c] =>
                  \/ via'[c] = c
                  \/ Batch(via'[c]) # Batch(c) /\ Batch(via'[c]) \in sem
<1>1. IInv /\ [Next]_vars => [A]_vars
  <2> SUFFICES ASSUME IInv, [Next]_vars, NEW e \in Cands, ~verdict[e], verdict'[e]
               PROVE  \/ via'[e] = e
                      \/ Batch(via'[e]) # Batch(e) /\ Batch(via'[e]) \in sem
    OBVIOUS
  <2>1. PICK c \in Cands : ProbeEnds(c)
    BY VerdictByProbe DEF IInv
  <2> QED
    BY <2>1, Misrouted
<1> QED
  BY <1>1, Invariance, PTL DEF Spec, MisroutedOnlyByConcurrentBatch

\* With one batch at a time a candidate is accepted only over its own outbound:
\* the misrouting needs two batches.
THEOREM SequentialBatchesNotMisrouted ==
    ASSUME XrayConcurrency = 1
    PROVE  Spec => []AcceptedOverOwnOutbound
<1>1. Init => AcceptedOverOwnOutbound
  BY DEF Init, AcceptedOverOwnOutbound
<1>2. ASSUME IInv, AcceptedOverOwnOutbound, [Next]_vars PROVE AcceptedOverOwnOutbound'
  <2>1. ASSUME NEW c \in Cands, ProbeEnds(c) PROVE AcceptedOverOwnOutbound'
    <3>1. ASSUME NEW e \in Cands, ~verdict[e], verdict'[e] PROVE via'[e] = e
      <4>1. /\ e = c /\ Batch(c) \in sem
            /\ \/ via'[c] = c
               \/ Batch(via'[c]) # Batch(c) /\ Batch(via'[c]) \in sem
        BY <1>2, <2>1, <3>1, Misrouted
      <4>2. \A a, b \in sem : a = b
        <5>1. IsFiniteSet(sem) /\ Cardinality(sem) \in Nat /\ Cardinality(sem) <= 1
          BY <1>2, Finite DEF IInv, Slotted
        <5>2. Cardinality(sem) = 0 => sem = {}
          BY <5>1, FS_EmptySet
        <5>3. Cardinality(sem) = 1 => \E x : sem = {x}
          BY <5>1, FS_Singleton
        <5> QED
          BY <5>1, <5>2, <5>3
      <4> QED
        BY <4>1, <4>2
    <3>2. ASSUME NEW e \in Cands, verdict[e], verdict'[e] PROVE via'[e] = e
      <4>1. CASE e # c
        BY <1>2, <2>1, <3>2, <4>1 DEF ProbeEnds, IInv, TypeOK, AcceptedOverOwnOutbound
      <4>2. CASE e = c
        BY <1>2, <2>1, <3>2, <4>2 DEF ProbeEnds, IInv, Judged
      <4> QED
        BY <4>1, <4>2
    <3> QED
      BY <3>1, <3>2 DEF AcceptedOverOwnOutbound
  <2>2. CASE UNCHANGED <<verdict, via>>
    BY <1>2, <2>2 DEF AcceptedOverOwnOutbound
  <2>3. ASSUME NEW b \in Batches, BatchStep(b) \/ Xray(b) PROVE UNCHANGED <<verdict, via>>
    BY <2>3 DEF BatchStep, Xray, Allocate, Fail, Spawn, InboundsUp, InboundsDown, Probed,
         Stop, Tell, Leave, XrayBinds, XrayExits, probeVars
  <2>4. CASE Launch \/ Drain \/ Return \/ Cancel \/ UNCHANGED vars
    BY <2>2, <2>4 DEF Launch, Drain, Return, Cancel, vars, probeVars
  <2> QED
    BY <1>2, <2>1, <2>2, <2>3, <2>4 DEF Next, Probe, ProbeStarts, ProbeSkipped
<1> QED
  BY <1>1, <1>2, InitIInv, Invariance, PTL DEF Spec

-----------------------------------------------------------------------------
(* XrayExtract: the inductive invariant. *)

\* A process has a node open exactly while it copies.
OpenWhileCopying == \A p \in Procs : pc[p] = "copy" <=> fd[p] # NoNode

\* The two names never stand for one node.
NamesApart == tmp # NoNode => tmp # dst

\* p is filling the node n and has not left out anything so far.
Fills(p, n) == pc[p] = "copy" /\ fd[p] = n /\ 1..pos[p] \subseteq data[n]

\* A node is whole, or will be when somebody who is filling it is through.
Promised(n) == data[n] = Whole \/ \E p \in Procs : Fills(p, n)

\* Unless a copy was cut short, both names stand for nodes that are, or will
\* be, whole.
AllPromised == ~broken => \A n \in {tmp, dst} \ {NoNode} : Promised(n)

\* Unless extractions overlapped, one process at a time is extracting, the
\* temporary file is its own, and whole when it is renamed.
OneAtATime == \A p, q \in Procs : pc[p] \in Extracting /\ pc[q] \in Extracting => p = q
OwnsTmp(p) == /\ pc[p] = "copy" => tmp # NoNode /\ Fills(p, tmp)
              /\ pc[p] = "rename" => tmp # NoNode /\ data[tmp] = Whole
              /\ pc[p] = "cleanup" => erred[p]
              /\ result[p] = "found" => erred[p]
LoneOwner == ~shared => /\ OneAtATime
                        /\ Intact
                        /\ \A p \in Procs : OwnsTmp(p)

ExtractInv == ExtractTypeOK /\ OpenWhileCopying /\ NamesApart /\ AllPromised /\ LoneOwner

-----------------------------------------------------------------------------
LEMMA ExtractInitInv == ExtractInit => ExtractInv
<1> SUFFICES ASSUME ExtractInit PROVE ExtractInv
  OBVIOUS
<1> USE ExtractAssumption DEF ExtractInit
<1>1. ExtractTypeOK
  <2>1. 0 \in 0..Size
    OBVIOUS
  <2> QED
    BY <2>1 DEF ExtractTypeOK, PcValues, Extracting
<1>2. OpenWhileCopying /\ NamesApart /\ AllPromised
  BY DEF OpenWhileCopying, NamesApart, AllPromised
<1>3. LoneOwner
  BY DEF LoneOwner, OneAtATime, OwnsTmp, Intact, Extracting
<1> QED
  BY <1>1, <1>2, <1>3 DEF ExtractInv

LEMMA ExtractTypeInductive == ExtractTypeOK /\ [ExtractNext]_extractVars => ExtractTypeOK'
<1> SUFFICES ASSUME ExtractTypeOK, [ExtractNext]_extractVars PROVE ExtractTypeOK'
  OBVIOUS
<1> USE ExtractAssumption
    DEF ExtractTypeOK, PcValues, Extracting, Step, Returns, GiveUp, Closed, Forgotten
<1>0. 0 \in 0..Size
  OBVIOUS
<1>1. ASSUME NEW p \in Procs, Begin(p) \/ Stat(p) PROVE ExtractTypeOK'
  BY <1>1 DEF Begin, Stat
<1>2. ASSUME NEW p \in Procs, Open(p) PROVE ExtractTypeOK'
  <2>1. CASE GiveUp(p, "open")
    BY <2>1
  <2>2. CASE Step(p, "open", "copy") /\ \E n \in IF tmp = NoNode THEN Free ELSE {tmp} :
                                            tmp' = n /\ Opened(p, n)
    <3>1. PICK n \in Nodes : tmp' = n /\ Opened(p, n)
      BY <2>2 DEF Free
    <3> QED
      BY <1>0, <2>2, <3>1 DEF Opened
  <2> QED
    BY <1>2, <2>1, <2>2 DEF Open
<1>3. ASSUME NEW p \in Procs, Copy(p) PROVE ExtractTypeOK'
  <2>1. pos[p] + 1 \in 0..Size /\ pos[p] + 1 \in Whole
    BY <1>3 DEF Copy, Whole
  <2>2. pos' \in [Procs -> 0..Size]
    BY <1>3, <2>1 DEF Copy
  <2> QED
    BY <1>3, <2>1, <2>2 DEF Copy
<1>4. ASSUME NEW p \in Procs, CopyFails(p) \/ Close(p) PROVE ExtractTypeOK'
  BY <1>0, <1>4 DEF CopyFails, Close
<1>5. ASSUME NEW p \in Procs, Rename(p) \/ Cleanup(p) PROVE ExtractTypeOK'
  BY <1>5 DEF Rename, Cleanup
<1>6. ASSUME NEW p \in Procs, Kill(p) \/ Again(p) PROVE ExtractTypeOK'
  <2>1. CASE Kill(p)
    BY <1>0, <2>1 DEF Kill
  <2>2. CASE Again(p)
    BY <2>2 DEF Again
  <2> QED
    BY <1>6, <2>1, <2>2
<1>7. CASE UNCHANGED extractVars
  BY <1>7 DEF extractVars
<1> QED
  BY <1>1, <1>2, <1>3, <1>4, <1>5, <1>6, <1>7 DEF ExtractNext, Resolve

\* The two names and the open nodes.
LEMMA NodesInductive ==
    ExtractInv /\ [ExtractNext]_extractVars => (OpenWhileCopying /\ NamesApart)'
<1> SUFFICES ASSUME ExtractInv, [ExtractNext]_extractVars PROVE (OpenWhileCopying /\ NamesApart)'
  OBVIOUS
<1> USE ExtractAssumption
    DEF ExtractInv, ExtractTypeOK, PcValues, Extracting, Step, Returns, GiveUp, Closed, Forgotten,
        OpenWhileCopying, NamesApart
<1>1. ASSUME NEW p \in Procs, Begin(p) \/ Stat(p) \/ Copy(p)
      PROVE  (OpenWhileCopying /\ NamesApart)'
  BY <1>1 DEF Begin, Stat, Copy
<1>2. ASSUME NEW p \in Procs, Open(p) PROVE (OpenWhileCopying /\ NamesApart)'
  BY <1>2 DEF Open, Opened, Free
<1>3. ASSUME NEW p \in Procs, CopyFails(p) \/ Close(p) \/ Rename(p) \/ Cleanup(p)
      PROVE  (OpenWhileCopying /\ NamesApart)'
  BY <1>3 DEF CopyFails, Close, Rename, Cleanup
<1>4. ASSUME NEW p \in Procs, Kill(p) \/ Again(p) PROVE (OpenWhileCopying /\ NamesApart)'
  BY <1>4 DEF Kill, Again
<1>5. CASE UNCHANGED extractVars
  BY <1>5 DEF extractVars
<1> QED
  BY <1>1, <1>2, <1>3, <1>4, <1>5 DEF ExtractNext, Resolve

\* A step that opens no node, writes nowhere and ends no copy keeps promises
\* about a node.
LEMMA PromiseKept ==
    ASSUME NEW n, UNCHANGED <<fd, pos, data>>, Promised(n),
           \A q \in Procs : pc[q] = "copy" => pc'[q] = "copy"
    PROVE  Promised(n)'
BY DEF Promised, Fills

LEMMA PromisesInductive == ExtractInv /\ [ExtractNext]_extractVars => AllPromised'
<1> SUFFICES ASSUME ExtractInv, [ExtractNext]_extractVars, ~broken' PROVE AllPromised'
  BY DEF AllPromised
<1> USE DEF ExtractInv
<1>1. ~broken
  BY DEF ExtractNext, Resolve, Begin, GiveUp, Stat, Open, Opened, Copy, CopyFails, Close,
         Rename, Cleanup, Kill, Again, extractVars
<1>2. ASSUME NEW p \in Procs, Begin(p) \/ Stat(p) \/ Rename(p) \/ Cleanup(p) \/ Again(p)
      PROVE  AllPromised'
  <2>1. UNCHANGED <<fd, pos, data>> /\ {tmp', dst'} \subseteq {tmp, dst, NoNode}
    BY <1>2 DEF Begin, GiveUp, Stat, Rename, Cleanup, Again
  <2>2. \A q \in Procs : pc[q] = "copy" => pc'[q] = "copy"
    BY <1>2 DEF Begin, GiveUp, Stat, Rename, Cleanup, Again, Step, Returns, ExtractTypeOK
  <2>3. \A n \in {tmp', dst'} \ {NoNode} : Promised(n)'
    BY <1>1, <2>1, <2>2, PromiseKept DEF AllPromised
  <2> QED
    BY <2>3 DEF AllPromised
<1>3. ASSUME NEW p \in Procs, Open(p) PROVE AllPromised'
  <2>1. CASE GiveUp(p, "open")
    <3>1. UNCHANGED <<fd, pos, data, tmp, dst>>
      BY <2>1 DEF GiveUp
    <3>2. \A q \in Procs : pc[q] = "copy" => pc'[q] = "copy"
      BY <2>1 DEF GiveUp, Returns, Step, ExtractTypeOK
    <3>3. \A n \in {tmp', dst'} \ {NoNode} : Promised(n)'
      BY <1>1, <3>1, <3>2, PromiseKept DEF AllPromised
    <3> QED
      BY <3>3 DEF AllPromised
  <2>2. CASE Step(p, "open", "copy") /\ \E n \in IF tmp = NoNode THEN Free ELSE {tmp} :
                                            tmp' = n /\ Opened(p, n)
    <3>1. PICK n \in IF tmp = NoNode THEN Free ELSE {tmp} : tmp' = n /\ Opened(p, n)
      BY <2>2
    <3>2. n \in Nodes /\ n # dst /\ dst' = dst
      BY <3>1, ExtractAssumption DEF Free, Opened, ExtractTypeOK, NamesApart
    <3>3. Fills(p, n)'
      <4>1. pc'[p] = "copy" /\ fd'[p] = n /\ pos'[p] = 0
        BY <2>2, <3>1 DEF Opened, Step, ExtractTypeOK
      <4> QED
        BY <4>1 DEF Fills
    <3>4. dst # NoNode => Promised(dst)'
      <4>1. dst # NoNode => Promised(dst) /\ data'[dst] = data[dst]
        BY <1>1, <3>1, <3>2 DEF AllPromised, Opened, ExtractTypeOK
      <4>2. ASSUME dst # NoNode, NEW q \in Procs, Fills(q, dst) PROVE Fills(q, dst)'
        <5>1. q # p
          BY <2>2, <4>2 DEF Fills, Step
        <5> QED
          BY <2>2, <3>1, <4>1, <4>2, <5>1 DEF Fills, Step, Opened, ExtractTypeOK
      <4> QED
        BY <3>2, <4>1, <4>2 DEF Promised
    <3> QED
      BY <3>1, <3>2, <3>3, <3>4 DEF AllPromised, Promised
  <2> QED
    BY <1>3, <2>1, <2>2 DEF Open
<1>4. ASSUME NEW p \in Procs, Copy(p) PROVE AllPromised'
  <2> SUFFICES ASSUME NEW n \in {tmp, dst} \ {NoNode}, Promised(n) PROVE Promised(n)'
    BY <1>1, <1>4 DEF AllPromised, Copy
  <2>0. n \in Nodes /\ fd[p] \in Nodes /\ pos[p] \in 0..Size
    BY <1>4 DEF ExtractTypeOK, OpenWhileCopying, Copy
  <2>1. CASE data[n] = Whole
    <3>1. pos[p] + 1 \in Whole
      BY <1>4, <2>0, ExtractAssumption DEF Copy, Whole
    <3>2. data'[n] = Whole
      BY <1>4, <2>0, <2>1, <3>1 DEF Copy, ExtractTypeOK
    <3> QED
      BY <3>2 DEF Promised
  <2>2. ASSUME NEW q \in Procs, Fills(q, n) PROVE Fills(q, n)'
    <3>1. data[n] \subseteq data'[n] /\ (fd[p] = n => pos[p] + 1 \in data'[n])
      BY <1>4, <2>0 DEF Copy, ExtractTypeOK
    <3>2. CASE q = p
      <4>1. pos'[q] = pos[p] + 1 /\ pc'[q] = "copy" /\ fd'[q] = n
        BY <1>4, <2>2, <3>2 DEF Copy, Fills, ExtractTypeOK
      <4>2. 1..(pos[p] + 1) \subseteq data'[n]
        BY <2>0, <2>2, <3>1, <3>2 DEF Fills
      <4> QED
        BY <4>1, <4>2 DEF Fills
    <3>3. CASE q # p
      BY <1>4, <2>2, <3>1, <3>3 DEF Copy, Fills, ExtractTypeOK
    <3> QED
      BY <3>2, <3>3
  <2> QED
    BY <2>1, <2>2 DEF Promised
<1>5. ASSUME NEW p \in Procs, Close(p) PROVE AllPromised'
  <2> SUFFICES ASSUME NEW n \in {tmp, dst} \ {NoNode}, Promised(n) PROVE Promised(n)'
    BY <1>1, <1>5 DEF AllPromised, Close
  <2>1. ASSUME NEW q \in Procs, Fills(q, n) PROVE Promised(n)'
    <3>1. CASE q = p
      <4>1. data[n] = Whole
        BY <1>5, <2>1, <3>1 DEF Close, Fills, ExtractTypeOK, Whole
      <4> QED
        BY <1>5, <4>1 DEF Close, Promised
    <3>2. CASE q # p
      <4>1. Fills(q, n)'
        BY <1>5, <2>1, <3>2 DEF Close, Closed, Step, Fills, ExtractTypeOK
      <4> QED
        BY <4>1 DEF Promised
    <3> QED
      BY <3>1, <3>2
  <2>2. CASE data[n] = Whole
    BY <1>5, <2>2 DEF Close, Promised
  <2> QED
    BY <2>1, <2>2 DEF Promised
<1>6. ASSUME NEW p \in Procs, Kill(p) PROVE AllPromised'
  <2>1. pc[p] # "copy" /\ UNCHANGED <<tmp, dst, data>>
    BY <1>6 DEF Kill
  <2>2. ASSUME NEW n, NEW q \in Procs, Fills(q, n) PROVE Fills(q, n)'
    <3>1. q # p
      BY <2>1, <2>2 DEF Fills
    <3> QED
      BY <1>6, <2>2, <3>1 DEF Kill, Closed, Fills, ExtractTypeOK
  <2> QED
    BY <1>1, <2>1, <2>2 DEF AllPromised, Promised
<1>7. ASSUME NEW p \in Procs, CopyFails(p) PROVE AllPromised'
  BY <1>7 DEF CopyFails
<1>8. CASE UNCHANGED extractVars
  BY <1>1, <1>8 DEF extractVars, AllPromised, Promised, Fills
<1> QED
  BY <1>2, <1>3, <1>4, <1>5, <1>6, <1>7, <1>8 DEF ExtractNext, Resolve

\* The lone extraction, step by step.
LEMMA LoneInductive == ExtractInv /\ [ExtractNext]_extractVars => LoneOwner'
<1> SUFFICES ASSUME ExtractInv, [ExtractNext]_extractVars, ~shared' PROVE LoneOwner'
  BY DEF LoneOwner
<1> USE ExtractAssumption
    DEF ExtractInv, ExtractTypeOK, PcValues, Extracting, Step, Returns, GiveUp, Closed, Forgotten,
        OneAtATime, OwnsTmp, Intact, Fills, OpenWhileCopying, NamesApart
<1>1. /\ ~shared
      /\ OneAtATime /\ Intact /\ \A p \in Procs : OwnsTmp(p)
  <2>1. ~shared
    BY DEF ExtractNext, Resolve, Begin, Stat, Open, Opened, Copy, CopyFails, Close,
           Rename, Cleanup, Kill, Again, extractVars
  <2> QED
    BY <2>1 DEF LoneOwner
<1>2. ASSUME NEW p \in Procs, Begin(p) \/ Stat(p) PROVE LoneOwner'
  BY <1>1, <1>2 DEF Begin, Stat, LoneOwner
<1>3. ASSUME NEW p \in Procs, Open(p) PROVE LoneOwner'
  <2>1. CASE GiveUp(p, "open")
    BY <1>1, <2>1 DEF LoneOwner
  <2>2. CASE Step(p, "open", "copy") /\ \E n \in IF tmp = NoNode THEN Free ELSE {tmp} :
                                            tmp' = n /\ Opened(p, n)
    <3>1. PICK n \in IF tmp = NoNode THEN Free ELSE {tmp} : tmp' = n /\ Opened(p, n)
      BY <2>2
    <3>2. n \in Nodes /\ n # dst /\ dst' = dst
      BY <3>1 DEF Free, Opened
    <3>3. \A q \in Procs \ {p} : pc[q] \notin {"copy", "rename", "cleanup"}
      BY <3>1 DEF Opened
    <3>4. OneAtATime' /\ Intact'
      BY <1>1, <2>2, <3>1, <3>2, <3>3 DEF Opened
    <3>5. 1..pos'[p] = {} /\ pc'[p] = "copy" /\ fd'[p] = n
      BY <2>2, <3>1 DEF Opened
    <3>6. ASSUME NEW q \in Procs PROVE OwnsTmp(q)'
      BY <1>1, <2>2, <3>1, <3>2, <3>3, <3>5, <3>6 DEF Opened
    <3> QED
      BY <3>4, <3>6 DEF LoneOwner
  <2> QED
    BY <1>3, <2>1, <2>2 DEF Open
<1>4. ASSUME NEW p \in Procs, Copy(p) PROVE LoneOwner'
  BY <1>1, <1>4 DEF Copy, LoneOwner
<1>5. ASSUME NEW p \in Procs, Close(p) PROVE LoneOwner'
  <2>1. data[tmp] = Whole /\ tmp # NoNode
    BY <1>1, <1>5 DEF Close, Whole
  <2> QED
    BY <1>1, <1>5, <2>1 DEF Close, LoneOwner
<1>6. ASSUME NEW p \in Procs, CopyFails(p) PROVE LoneOwner'
  BY <1>1, <1>6 DEF CopyFails, LoneOwner
<1>7. ASSUME NEW p \in Procs, Rename(p) PROVE LoneOwner'
  <2>1. pc[p] = "rename" /\ tmp # NoNode /\ data[tmp] = Whole
    BY <1>1, <1>7 DEF Rename
  <2>2. \A q \in Procs \ {p} : pc[q] \notin {"copy", "rename", "cleanup"}
    BY <1>1, <2>1
  <2>3. CASE dst' = tmp /\ pc'[p] = "done" /\ result'[p] = "extracted"
             /\ UNCHANGED <<fd, pos, data, erred>>
    BY <1>1, <1>7, <2>1, <2>2, <2>3 DEF Rename, LoneOwner
  <2>4. CASE pc'[p] = "cleanup" /\ erred'[p]
             /\ UNCHANGED <<fd, pos, tmp, dst, data, result>>
    BY <1>1, <1>7, <2>1, <2>2, <2>4 DEF Rename, LoneOwner
  <2> QED
    BY <1>7, <2>1, <2>3, <2>4 DEF Rename
<1>8. ASSUME NEW p \in Procs, Cleanup(p) PROVE LoneOwner'
  BY <1>1, <1>8 DEF Cleanup, LoneOwner
<1>9. ASSUME NEW p \in Procs, Kill(p) \/ Again(p) PROVE LoneOwner'
  BY <1>1, <1>9 DEF Kill, Again, LoneOwner
<1>10. CASE UNCHANGED extractVars
  BY <1>1, <1>10 DEF extractVars, LoneOwner
<1> QED
  BY <1>2, <1>3, <1>4, <1>5, <1>6, <1>7, <1>8, <1>9, <1>10 DEF ExtractNext, Resolve

LEMMA ExtractInvariance == ExtractSpec => []ExtractInv
<1>1. ExtractInv /\ [ExtractNext]_extractVars => ExtractInv'
  BY ExtractTypeInductive, NodesInductive, PromisesInductive, LoneInductive DEF ExtractInv
<1> QED
  BY <1>1, ExtractInitInv, PTL DEF ExtractSpec

-----------------------------------------------------------------------------
\* Processes, names and files keep their types.
THEOREM ExtractTyped == ExtractSpec => []ExtractTypeOK
<1>1. ExtractInv => ExtractTypeOK
  BY DEF ExtractInv
<1> QED
  BY <1>1, ExtractInvariance, PTL

\* Extractions that do not overlap leave a whole binary under the final name at
\* every moment, whatever fails or is killed.
THEOREM LoneExtractionSafe == ExtractSpec => []LoneExtractionIsSafe
<1>1. ExtractInv => LoneExtractionIsSafe
  BY DEF ExtractInv, LoneOwner, OwnsTmp, LoneExtractionIsSafe
<1> QED
  BY <1>1, ExtractInvariance, PTL

\* Extractions that overlap settle on a whole binary if none is cut short.
THEOREM OverlapsSettle == ExtractSpec => []OverlapSettles
<1>1. ExtractInv => OverlapSettles
  BY DEF ExtractInv, AllPromised, Promised, Fills, OverlapSettles, Intact
<1> QED
  BY <1>1, ExtractInvariance, PTL

=============================================================================
