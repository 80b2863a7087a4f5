---------------------------- MODULE TcpSweepProofs ----------------------------
(* Proofs about TcpSweep, for every number of hosts and ports, every        *)
(* concurrency and every channel capacity.                                  *)
EXTENDS TcpSweep, FiniteSetTheorems, SequenceTheorems, TLAPS

\* sem and wg against the workers: a worker holds a slot until it releases
\* it, is waited for until it leaves, and exists only for a launched host.
Slots ==
    /\ \A h \in Hosts : /\ wPc[h] \in Working \ {"leaving"} => h \in sem
                        /\ h \in wg <=> wPc[h] \in Working
                        /\ h \in wg => h <= next
    /\ launcher = "closed" => wg = {}
    /\ Cardinality(sem) <= Concurrency

\* A host whose dial of this pass is still to come has no open endpoint.
Fresh ==
    /\ \A h \in Hosts : h > next \/ wPc[h] = "dialing" => <<h, pass>> \notin opened
    /\ \A e \in opened : e[2] <= pass

\* Where an open endpoint is: with its worker, in the channel, or received.
InTransit ==
    /\ \A h \in Hosts : wPc[h] = "sending" =>
         /\ <<h, pass>> \in opened
         /\ \A k \in 1..Len(out) : out[k] # h
         /\ \A i \in 1..Len(survivors) : survivors[i] # <<h, pass>>
    /\ \A k \in 1..Len(out) : /\ <<out[k], pass>> \in opened
                             /\ \A i \in 1..Len(survivors) : survivors[i] # <<out[k], pass>>
    /\ \A j, k \in 1..Len(out) : out[j] = out[k] => j = k

Sound == /\ \A i \in 1..Len(survivors) : survivors[i] \in opened
         /\ \A i, j \in 1..Len(survivors) : survivors[i] = survivors[j] => i = j

\* Without a cancellation no open endpoint is lost.
Complete ==
    ~cancelled => \A e \in opened :
        \/ \E i \in 1..Len(survivors) : survivors[i] = e
        \/ e[2] = pass /\ (\/ wPc[e[1]] = "sending"
                           \/ \E k \in 1..Len(out) : out[k] = e[1])

\* After the last pass nothing is left running or buffered.
Over == Finished => launcher = "closed" /\ out = <<>>

IInv == TypeOK /\ Slots /\ Over /\ Fresh /\ InTransit /\ Sound /\ Complete

-----------------------------------------------------------------------------
\* Workers exist, and the channel holds hosts, only during a pass.
LEMMA WorkersInPass ==
    ASSUME IInv
    PROVE  /\ \A h \in Hosts : wPc[h] \in Working => ~Finished
           /\ out # <<>> => ~Finished
BY DEF IInv, Slots, Over

LEMMA TypeInductive == IInv /\ [Next]_vars => TypeOK'
<1> SUFFICES ASSUME IInv, TypeOK, [Next]_vars PROVE TypeOK'
  BY DEF IInv
<1> USE SweepAssumption
    DEF TypeOK, Hosts, Endpoints, Working, Goto, passVars, histVars
<1>1. CASE Launch
  BY <1>1 DEF Launch
<1>2. CASE Drain \/ Close
  BY <1>2 DEF Drain, Close
<1>3. ASSUME NEW h \in Hosts, Worker(h) PROVE TypeOK'
  <2>1. CASE Dial(h)
    <3>1. wPc[h] \in Working
      BY <2>1 DEF Dial
    <3>2. <<h, pass>> \in Endpoints
      BY <3>1, WorkersInPass DEF Finished
    <3>3. opened' \subseteq Endpoints
      BY <2>1, <3>2 DEF Dial
    <3> QED
      BY <2>1, <3>3 DEF Dial
  <2>2. CASE Send(h)
    <3>1. out' \in Seq(Hosts) /\ Len(out') <= OutCap
      <4>1. CASE Len(out) < OutCap /\ out' = Append(out, h)
        BY <4>1
      <4>2. CASE out' = out
        BY <4>2
      <4> QED
        BY <2>2, <4>1, <4>2 DEF Send
    <3> QED
      BY <2>2, <3>1 DEF Send
  <2>3. CASE Count(h)
    BY <2>3 DEF Count
  <2>4. CASE Report(h)
    BY <2>4 DEF Report
  <2>5. CASE Release(h) \/ Leave(h)
    BY <2>5 DEF Release, Leave
  <2> QED
    BY <1>3, <2>1, <2>2, <2>3, <2>4, <2>5 DEF Worker
<1>4. CASE Receive
  <2>1. /\ Head(out) \in Hosts
        /\ Tail(out) \in Seq(Hosts)
        /\ Len(Tail(out)) <= OutCap
    BY <1>4 DEF Receive
  <2>2. <<Head(out), pass>> \in Endpoints
    BY <1>4, <2>1, WorkersInPass DEF Receive, Finished
  <2> QED
    BY <1>4, <2>1, <2>2, AppendProperties DEF Receive
<1>5. CASE NextPass
  BY <1>5 DEF NextPass, Finished
<1>6. CASE Cancel
  BY <1>6 DEF Cancel
<1>7. CASE UNCHANGED vars
  BY <1>7 DEF vars
<1> QED
  BY <1>1, <1>2, <1>3, <1>4, <1>5, <1>6, <1>7 DEF Next

LEMMA InitIInv == Init => IInv
<1> SUFFICES ASSUME Init PROVE IInv
  OBVIOUS
<1> USE SweepAssumption
<1>1. out = <<>> /\ survivors = <<>> /\ Len(out) = 0 /\ Len(survivors) = 0
  BY EmptySeq DEF Init
<1>2. TypeOK
  <2>1. wPc \in [Hosts -> Working \union {"idle"}] /\ ticket \in [Hosts -> Nat]
    BY DEF Init
  <2>2. pass \in 1..(NumPorts + 1) /\ next \in 0..NumHosts
    BY DEF Init
  <2>3. out \in Seq(Hosts) /\ survivors \in Seq(Endpoints)
    BY <1>1
  <2> QED
    <3>1. /\ launcher \in {"launching", "waiting", "closed"}
          /\ sem \subseteq Hosts /\ wg \subseteq Hosts
          /\ cancelled \in BOOLEAN
          /\ opened \subseteq Endpoints /\ reported \subseteq Nat
      BY DEF Init
    <3>2. /\ base \in Nat /\ done \in Nat
          /\ Len(out) <= OutCap
      BY <1>1 DEF Init
    <3> QED
      BY <2>1, <2>2, <2>3, <3>1, <3>2 DEF TypeOK
<1>3. Slots
  BY FS_EmptySet DEF Init, Slots, Working
<1>4. Over
  BY DEF Init, Over, Finished
<1>5. Fresh /\ Sound /\ Complete /\ InTransit
  BY <1>1 DEF Init, Fresh, Sound, Complete, InTransit
<1> QED
  BY <1>2, <1>3, <1>4, <1>5 DEF IInv

\* Taking a slot adds at most one to their number, giving one back adds none.
LEMMA SlotCount ==
    ASSUME NEW S, IsFiniteSet(S), NEW x
    PROVE  /\ Cardinality(S) \in Nat
           /\ Cardinality(S \union {x}) <= Cardinality(S) + 1
           /\ Cardinality(S \ {x}) <= Cardinality(S)
<1>1. Cardinality(S) \in Nat
  BY FS_CardinalityType
<1>2. Cardinality(S \union {x}) <= Cardinality(S) + 1
  <2>1. Cardinality(S \union {x}) = IF x \in S THEN Cardinality(S) ELSE Cardinality(S) + 1
    BY FS_AddElement
  <2> QED
    BY <1>1, <2>1
<1>3. Cardinality(S \ {x}) <= Cardinality(S)
  <2>1. Cardinality(S \ {x}) = IF x \in S THEN Cardinality(S) - 1 ELSE Cardinality(S)
    BY FS_RemoveElement
  <2> QED
    BY <1>1, <2>1
<1> QED
  BY <1>1, <1>2, <1>3

\* The slots are finitely many, so that Cardinality counts them.
LEMMA SlotsFinite == TypeOK => IsFiniteSet(sem)
<1> SUFFICES ASSUME TypeOK PROVE IsFiniteSet(sem)
  OBVIOUS
<1>1. IsFiniteSet(Hosts)
  BY SweepAssumption, FS_Interval DEF Hosts
<1> QED
  BY <1>1, FS_Subset DEF TypeOK

LEMMA SlotsInductive == IInv /\ [Next]_vars => Slots'
<1> SUFFICES ASSUME IInv, [Next]_vars PROVE Slots'
  OBVIOUS
<1>0. TypeOK /\ Slots /\ IsFiniteSet(sem) /\ Cardinality(sem) \in Nat
  BY SlotsFinite, FS_CardinalityType DEF IInv
<1> USE SweepAssumption, <1>0 DEF Slots, Working, Goto, passVars, histVars
<1>1. CASE Launch
  <2>1. Cardinality(sem') <= Concurrency
    <3>1. Cardinality(sem \union {next + 1}) <= Cardinality(sem) + 1
      BY SlotCount
    <3>2. Cardinality(sem) < Concurrency /\ sem' = sem \union {next + 1}
      BY <1>1 DEF Launch
    <3>3. Cardinality(sem \union {next + 1}) \in Nat
      BY FS_AddElement, FS_CardinalityType
    <3> QED
      BY <3>1, <3>2, <3>3
  <2>2. next + 1 \in Hosts /\ next \in Nat
    BY <1>1 DEF Launch, TypeOK, Hosts
  <2> QED
    BY <1>1, <2>1, <2>2 DEF Launch, TypeOK, Hosts
<1>2. CASE Drain \/ Close
  BY <1>2 DEF Drain, Close
<1>3. ASSUME NEW h \in Hosts, Dial(h) \/ Send(h) \/ Count(h) \/ Report(h) PROVE Slots'
  BY <1>3 DEF Dial, Send, Count, Report, TypeOK
<1>4. ASSUME NEW h \in Hosts, Release(h) PROVE Slots'
  <2>1. Cardinality(sem') <= Concurrency
    <3>1. Cardinality(sem \ {h}) <= Cardinality(sem)
      BY SlotCount
    <3>2. Cardinality(sem \ {h}) \in Nat
      BY FS_RemoveElement, FS_CardinalityType
    <3> QED
      BY <1>4, <3>1, <3>2 DEF Release
  <2> QED
    BY <1>4, <2>1 DEF Release, TypeOK
<1>5. ASSUME NEW h \in Hosts, Leave(h) PROVE Slots'
  BY <1>5 DEF Leave, TypeOK
<1>6. CASE NextPass
  <2>1. Cardinality(sem') <= Concurrency
    BY <1>6, FS_EmptySet DEF NextPass
  <2>2. \A h \in Hosts : wPc[h] \notin Working
    BY <1>6 DEF NextPass
  <2> QED
    BY <1>6, <2>1, <2>2 DEF NextPass
<1>7. CASE Receive \/ Cancel \/ UNCHANGED vars
  BY <1>7 DEF Receive, Cancel, vars
<1> QED
  BY <1>1, <1>2, <1>3, <1>4, <1>5, <1>6, <1>7 DEF Next, Worker

LEMMA OverInductive == IInv /\ [Next]_vars => Over'
<1> SUFFICES ASSUME IInv, [Next]_vars PROVE Over'
  OBVIOUS
<1> USE SweepAssumption DEF Over, Finished, passVars, histVars
<1>1. CASE Launch \/ Drain \/ Close
  BY <1>1 DEF Launch, Drain, Close, IInv
<1>2. ASSUME NEW h \in Hosts, Worker(h) PROVE Over'
  <2>1. ~Finished
    BY <1>2, WorkersInPass DEF Worker, Dial, Send, Count, Report, Release, Leave, Goto, Working
  <2> QED
    BY <1>2, <2>1 DEF Worker, Dial, Send, Count, Report, Release, Leave
<1>3. CASE Receive
  BY <1>3, WorkersInPass DEF Receive
<1>4. CASE NextPass
  BY <1>4 DEF NextPass, IInv, TypeOK
<1>5. CASE Cancel \/ UNCHANGED vars
  BY <1>5 DEF Cancel, vars, IInv
<1> QED
  BY <1>1, <1>2, <1>3, <1>4, <1>5 DEF Next

-----------------------------------------------------------------------------
Transit == Fresh /\ InTransit /\ Sound /\ Complete

\* The launcher takes a host nobody has dialled in this pass.
LEMMA LaunchTransit == IInv /\ Launch => Transit'
<1> SUFFICES ASSUME IInv, Launch PROVE Transit'
  OBVIOUS
<1>1. next + 1 \in Hosts /\ next \in Nat
  BY SweepAssumption DEF Launch, IInv, TypeOK, Hosts
<1>2. \A h \in Hosts : wPc'[h] = IF h = next + 1 THEN "dialing" ELSE wPc[h]
  BY <1>1 DEF Launch, IInv, TypeOK
<1>3. UNCHANGED <<pass, out, survivors, cancelled, opened>> /\ next' = next + 1
  BY DEF Launch, histVars
<1>4. wPc[next + 1] # "sending"
  BY <1>1 DEF IInv, Slots, Working
<1>5. Fresh'
  BY <1>1, <1>2, <1>3 DEF IInv, TypeOK, Fresh, Hosts
<1>6. InTransit'
  BY <1>2, <1>3 DEF IInv, InTransit
<1>7. Sound'
  BY <1>3 DEF IInv, Sound
<1>8. Complete'
  <2>1. \A e \in opened : e[1] \in Hosts
    BY DEF IInv, TypeOK, Endpoints
  <2> QED
    BY <1>2, <1>3, <1>4, <2>1 DEF IInv, Complete
<1> QED
  BY <1>5, <1>6, <1>7, <1>8 DEF Transit

\* A dial opens an endpoint that was not open, and its worker holds it.
LEMMA DialTransit == ASSUME NEW h \in Hosts PROVE IInv /\ Dial(h) => Transit'
<1> SUFFICES ASSUME IInv, Dial(h) PROVE Transit'
  OBVIOUS
<1>1. /\ wPc[h] = "dialing"
      /\ wPc' \in [Hosts -> Working \union {"idle"}]
      /\ \A g \in Hosts \ {h} : wPc'[g] = wPc[g]
      /\ \/ wPc'[h] = "sending" /\ opened' = opened \union {<<h, pass>>}
         \/ wPc'[h] = "counting" /\ opened' = opened
  BY DEF Dial, Goto, IInv, TypeOK, Working
<1>2. UNCHANGED <<pass, next, out, survivors, cancelled>>
  BY DEF Dial, passVars
<1>3. <<h, pass>> \notin opened /\ pass \in Nat /\ h <= next
  BY <1>1 DEF IInv, Fresh, TypeOK, Slots, Working
<1>4. Fresh'
  <2>1. ASSUME NEW g \in Hosts, g > next' \/ wPc'[g] = "dialing"
        PROVE  <<g, pass'>> \notin opened'
    BY <1>1, <1>2, <1>3, <2>1 DEF IInv, Fresh, TypeOK, Hosts
  <2>2. \A e \in opened' : e[2] <= pass'
    BY <1>1, <1>2, <1>3 DEF IInv, Fresh
  <2> QED
    BY <2>1, <2>2 DEF Fresh
<1>5. InTransit'
  <2>1. \A k \in 1..Len(out) : out[k] # h
    BY <1>3 DEF IInv, InTransit
  <2>2. \A i \in 1..Len(survivors) : survivors[i] # <<h, pass>>
    BY <1>3 DEF IInv, Sound
  <2> QED
    BY <1>1, <1>2, <2>1, <2>2 DEF IInv, InTransit
<1>6. Sound'
  BY <1>1, <1>2 DEF IInv, Sound
<1>7. Complete'
  <2>1. \A e \in opened : e[1] \in Hosts
    BY DEF IInv, TypeOK, Endpoints
  <2> QED
    BY <1>1, <1>2, <2>1 DEF IInv, Complete
<1> QED
  BY <1>4, <1>5, <1>6, <1>7 DEF Transit

\* A send moves the endpoint from its worker to the channel; only a cancelled
\* sweep drops it.
LEMMA SendTransit == ASSUME NEW h \in Hosts PROVE IInv /\ Send(h) => Transit'
<1> SUFFICES ASSUME IInv, Send(h) PROVE Transit'
  OBVIOUS
<1>1. /\ wPc[h] = "sending" /\ wPc'[h] = "counting"
      /\ \A g \in Hosts \ {h} : wPc'[g] = wPc[g]
  BY DEF Send, Goto, IInv, TypeOK
<1>2. UNCHANGED <<pass, next, survivors, cancelled, opened>>
  BY DEF Send, passVars, histVars
<1>3. out \in Seq(Hosts)
  BY DEF IInv, TypeOK
<1>4. Fresh' /\ Sound'
  BY <1>1, <1>2 DEF IInv, Fresh, Sound
<1>5. CASE out' = out /\ cancelled
  BY <1>1, <1>2, <1>4, <1>5 DEF Transit, IInv, InTransit, Complete
<1>6. CASE out' = Append(out, h)
  <2>1. /\ Len(out') = Len(out) + 1 /\ Len(out) \in Nat
        /\ \A k \in 1..Len(out) : out'[k] = out[k]
        /\ out'[Len(out) + 1] = h
    BY <1>3, <1>6, AppendProperties
  <2>2. /\ <<h, pass>> \in opened
        /\ \A k \in 1..Len(out) : out[k] # h
        /\ \A i \in 1..Len(survivors) : survivors[i] # <<h, pass>>
    BY <1>1 DEF IInv, InTransit
  <2>3. InTransit'
    <3>1. ASSUME NEW g \in Hosts, wPc'[g] = "sending"
          PROVE  /\ <<g, pass'>> \in opened'
                 /\ \A k \in 1..Len(out') : out'[k] # g
                 /\ \A i \in 1..Len(survivors') : survivors'[i] # <<g, pass'>>
      BY <1>1, <1>2, <2>1, <3>1 DEF IInv, InTransit
    <3>2. ASSUME NEW k \in 1..Len(out')
          PROVE  /\ <<out'[k], pass'>> \in opened'
                 /\ \A i \in 1..Len(survivors') : survivors'[i] # <<out'[k], pass'>>
      BY <1>2, <2>1, <2>2 DEF IInv, InTransit
    <3>3. ASSUME NEW j \in 1..Len(out'), NEW k \in 1..Len(out'), out'[j] = out'[k]
          PROVE  j = k
      BY <2>1, <2>2, <3>3 DEF IInv, InTransit
    <3> QED
      BY <3>1, <3>2, <3>3 DEF InTransit
  <2>4. Complete'
    <3> SUFFICES ASSUME ~cancelled, NEW e \in opened
                 PROVE  \/ \E i \in 1..Len(survivors) : survivors[i] = e
                        \/ e[2] = pass /\ (\/ wPc'[e[1]] = "sending"
                                           \/ \E k \in 1..Len(out') : out'[k] = e[1])
      BY <1>2 DEF Complete
    <3>1. e[1] \in Hosts
      BY DEF IInv, TypeOK, Endpoints
    <3>2. CASE \E i \in 1..Len(survivors) : survivors[i] = e
      BY <3>2
    <3>3. CASE e[2] = pass /\ wPc[e[1]] = "sending"
      <4>1. CASE e[1] = h
        BY <2>1, <3>3, <4>1
      <4>2. CASE e[1] # h
        BY <1>1, <3>1, <3>3, <4>2
      <4> QED
        BY <4>1, <4>2
    <3>4. CASE e[2] = pass /\ \E k \in 1..Len(out) : out[k] = e[1]
      <4>1. PICK k \in 1..Len(out) : out[k] = e[1]
        BY <3>4
      <4>2. k \in 1..Len(out') /\ out'[k] = e[1]
        BY <2>1, <4>1
      <4> QED
        BY <3>4, <4>2
    <3> QED
      BY <3>2, <3>3, <3>4 DEF IInv, Complete
  <2> QED
    BY <1>4, <2>3, <2>4 DEF Transit
<1> QED
  BY <1>5, <1>6 DEF Send

\* A receive moves the endpoint at the head of the channel to the survivors.
LEMMA ReceiveTransit == IInv /\ Receive => Transit'
<1> SUFFICES ASSUME IInv, Receive PROVE Transit'
  OBVIOUS
<1>1. UNCHANGED <<pass, next, wPc, cancelled, opened>>
  BY DEF Receive, passVars, histVars
<1>2. /\ out \in Seq(Hosts) /\ out # <<>> /\ Len(out) \in Nat \ {0}
      /\ survivors \in Seq(Endpoints) /\ Len(survivors) \in Nat
  BY EmptySeq DEF Receive, IInv, TypeOK
<1>3. /\ Len(out') = Len(out) - 1
      /\ \A k \in 1..Len(out') : out'[k] = out[k + 1]
  BY <1>2, HeadTailProperties DEF Receive
<1>4. <<out[1], pass>> \in Endpoints /\ Head(out) = out[1]
  <2>1. out[1] \in Hosts /\ Head(out) = out[1]
    <3>1. 1 \in 1..Len(out)
      BY <1>2
    <3> QED
      BY <1>2, <3>1 DEF Receive
  <2> QED
    <3>1. pass \in 1..(NumPorts + 1) /\ ~(pass > NumPorts)
      BY <1>2, WorkersInPass DEF IInv, TypeOK, Finished
    <3> QED
      BY <2>1, <3>1, SweepAssumption DEF Endpoints
<1>5. /\ Len(survivors') = Len(survivors) + 1
      /\ \A i \in 1..Len(survivors) : survivors'[i] = survivors[i]
      /\ survivors'[Len(survivors) + 1] = <<out[1], pass>>
  BY <1>2, <1>4, AppendProperties DEF Receive
<1>5a. \A i \in 1..Len(survivors') : i \in 1..Len(survivors) \/ i = Len(survivors) + 1
  BY <1>2, <1>5
<1>6. /\ <<out[1], pass>> \in opened
      /\ \A i \in 1..Len(survivors) : survivors[i] # <<out[1], pass>>
      /\ \A k \in 1..Len(out') : out'[k] # out[1]
  BY <1>2, <1>3 DEF IInv, InTransit
<1>7. Fresh'
  BY <1>1 DEF IInv, Fresh
<1>8. InTransit'
  <2>1. ASSUME NEW g \in Hosts, wPc'[g] = "sending"
        PROVE  /\ <<g, pass'>> \in opened'
               /\ \A k \in 1..Len(out') : out'[k] # g
               /\ \A i \in 1..Len(survivors') : survivors'[i] # <<g, pass'>>
    <3>1. /\ <<g, pass>> \in opened
          /\ \A k \in 1..Len(out) : out[k] # g
          /\ \A i \in 1..Len(survivors) : survivors[i] # <<g, pass>>
      BY <1>1, <2>1 DEF IInv, InTransit
    <3>2. \A k \in 1..Len(out') : out'[k] # g
      BY <1>2, <1>3, <3>1
    <3>3. out[1] # g
      BY <1>2, <3>1
    <3>4. ASSUME NEW i \in 1..Len(survivors') PROVE survivors'[i] # <<g, pass>>
      <4>1. CASE i \in 1..Len(survivors)
        BY <4>1, <1>5, <3>1
      <4>2. CASE i = Len(survivors) + 1
        BY <4>2, <1>5, <3>3
      <4> QED
        BY <1>5a, <4>1, <4>2
    <3> QED
      BY <1>1, <3>1, <3>2, <3>4
  <2>2. ASSUME NEW k \in 1..Len(out')
        PROVE  /\ <<out'[k], pass'>> \in opened'
               /\ \A i \in 1..Len(survivors') : survivors'[i] # <<out'[k], pass'>>
    <3>1. /\ k + 1 \in 1..Len(out) /\ out'[k] = out[k + 1]
      BY <1>2, <1>3
    <3>2. /\ <<out'[k], pass>> \in opened
          /\ \A i \in 1..Len(survivors) : survivors[i] # <<out'[k], pass>>
      BY <3>1 DEF IInv, InTransit
    <3>3. ASSUME NEW i \in 1..Len(survivors') PROVE survivors'[i] # <<out'[k], pass>>
      <4>1. CASE i \in 1..Len(survivors)
        BY <4>1, <1>5, <3>2
      <4>2. CASE i = Len(survivors) + 1
        BY <4>2, <1>5, <1>6
      <4> QED
        BY <1>5a, <4>1, <4>2
    <3> QED
      BY <1>1, <3>2, <3>3
  <2>3. ASSUME NEW j \in 1..Len(out'), NEW k \in 1..Len(out'), out'[j] = out'[k]
        PROVE  j = k
    BY <1>2, <1>3, <2>3 DEF IInv, InTransit
  <2> QED
    BY <2>1, <2>2, <2>3 DEF InTransit
<1>9. Sound'
  <2>1. ASSUME NEW i \in 1..Len(survivors') PROVE survivors'[i] \in opened'
    <3>1. CASE i \in 1..Len(survivors)
      BY <1>1, <1>5, <3>1 DEF IInv, Sound
    <3>2. CASE i = Len(survivors) + 1
      BY <1>1, <1>5, <1>6, <3>2
    <3> QED
      BY <1>5a, <3>1, <3>2
  <2>2. ASSUME NEW i \in 1..Len(survivors'), NEW j \in 1..Len(survivors'),
               survivors'[i] = survivors'[j]
        PROVE  i = j
    <3>1. CASE i \in 1..Len(survivors) /\ j \in 1..Len(survivors)
      BY <1>5, <2>2, <3>1 DEF IInv, Sound
    <3>2. CASE i \in 1..Len(survivors) /\ j = Len(survivors) + 1
      BY <1>5, <1>6, <2>2, <3>2
    <3>3. CASE i = Len(survivors) + 1 /\ j \in 1..Len(survivors)
      BY <1>5, <1>6, <2>2, <3>3
    <3>4. CASE i = Len(survivors) + 1 /\ j = Len(survivors) + 1
      BY <3>4
    <3> QED
      BY <1>5a, <3>1, <3>2, <3>3, <3>4
  <2> QED
    BY <2>1, <2>2 DEF Sound
<1>10. Complete'
  <2> SUFFICES ASSUME ~cancelled, NEW e \in opened
               PROVE  \/ \E i \in 1..Len(survivors') : survivors'[i] = e
                      \/ e[2] = pass /\ (\/ wPc[e[1]] = "sending"
                                         \/ \E k \in 1..Len(out') : out'[k] = e[1])
    BY <1>1 DEF Complete
  <2>1. CASE \E i \in 1..Len(survivors) : survivors[i] = e
    BY <1>2, <1>5, <2>1
  <2>2. CASE e[2] = pass /\ wPc[e[1]] = "sending"
    BY <2>2
  <2>3. CASE e[2] = pass /\ \E k \in 1..Len(out) : out[k] = e[1]
    <3>1. PICK k \in 1..Len(out) : out[k] = e[1]
      BY <2>3
    <3>2. CASE k = 1
      <4>1. e = <<out[1], pass>>
        BY <2>3, <3>1, <3>2 DEF IInv, TypeOK, Endpoints
      <4> QED
        BY <1>2, <1>5, <4>1
    <3>3. CASE k # 1
      <4>1. k - 1 \in 1..Len(out') /\ out'[k - 1] = e[1]
        BY <1>2, <1>3, <3>1, <3>3
      <4> QED
        BY <2>3, <4>1
    <3> QED
      BY <3>2, <3>3
  <2> QED
    BY <2>1, <2>2, <2>3 DEF IInv, Complete
<1> QED
  BY <1>7, <1>8, <1>9, <1>10 DEF Transit

\* A new pass starts with no worker, an empty channel and no open endpoint of
\* its port.
LEMMA NextPassTransit == IInv /\ NextPass => Transit'
<1> SUFFICES ASSUME IInv, NextPass PROVE Transit'
  OBVIOUS
<1>1. /\ pass' = pass + 1 /\ pass \in Nat /\ out = <<>> /\ Len(out) = 0
      /\ UNCHANGED <<wPc, out, survivors, cancelled, opened>>
  BY EmptySeq DEF NextPass, histVars, IInv, TypeOK
<1>2. \A h \in Hosts : wPc[h] # "sending"
  BY DEF NextPass, IInv, Slots, Working
<1>3. Fresh'
  <2>1. \A e \in opened : e[2] <= pass /\ e[2] \in Nat
    BY DEF IInv, Fresh, TypeOK, Endpoints
  <2>2. \A h \in Hosts : <<h, pass + 1>> \notin opened
    BY <1>1, <2>1
  <2> QED
    BY <1>1, <2>1, <2>2 DEF Fresh
<1>4. InTransit' /\ Sound'
  BY <1>1, <1>2 DEF IInv, InTransit, Sound
<1>5. Complete'
  <2>1. \A e \in opened : e[1] \in Hosts
    BY DEF IInv, TypeOK, Endpoints
  <2> QED
    BY <1>1, <1>2, <2>1 DEF IInv, Complete
<1> QED
  BY <1>3, <1>4, <1>5 DEF Transit

LEMMA TransitInductive == IInv /\ [Next]_vars => Transit'
<1> SUFFICES ASSUME IInv, [Next]_vars PROVE Transit'
  OBVIOUS
<1>1. ASSUME NEW h \in Hosts, Count(h) \/ Report(h) \/ Release(h) \/ Leave(h)
      PROVE  Transit'
  <2>1. /\ UNCHANGED <<pass, next, out, survivors, cancelled, opened>>
        /\ wPc[h] \in Working \ {"sending", "dialing"}
        /\ wPc'[h] \notin {"sending", "dialing"}
        /\ \A g \in Hosts \ {h} : wPc'[g] = wPc[g]
    BY <1>1 DEF Count, Report, Release, Leave, Goto, passVars, histVars,
                IInv, TypeOK, Working
  <2>2. \A e \in opened : e[1] \in Hosts
    BY DEF IInv, TypeOK, Endpoints
  <2>3. Fresh' /\ InTransit' /\ Sound'
    BY <2>1 DEF IInv, Fresh, InTransit, Sound
  <2>4. Complete'
    BY <2>1, <2>2 DEF IInv, Complete
  <2> QED
    BY <2>3, <2>4 DEF Transit
<1>2. CASE Drain \/ Close \/ Cancel \/ UNCHANGED vars
  <2>1. /\ UNCHANGED <<pass, next, wPc, out, survivors, opened>>
        /\ cancelled' = cancelled \/ cancelled'
    BY <1>2 DEF Drain, Close, Cancel, vars, passVars, histVars
  <2>2. ~cancelled' => ~cancelled
    BY <1>2 DEF Drain, Close, Cancel, vars
  <2> QED
    BY <2>1, <2>2 DEF Transit, IInv, Fresh, InTransit, Sound, Complete
<1> QED
  BY <1>1, <1>2, LaunchTransit, DialTransit, SendTransit, ReceiveTransit, NextPassTransit
     DEF Next, Worker

LEMMA Invariance == Spec => []IInv
<1>1. IInv /\ [Next]_vars => IInv'
  BY TypeInductive, SlotsInductive, OverInductive, TransitInductive DEF IInv, Transit
<1> QED
  BY <1>1, InitIInv, PTL DEF Spec

-----------------------------------------------------------------------------
\* The variables of a sweep stay in their types; in particular the channel
\* never holds more than its capacity.
THEOREM TypeCorrect == Spec => []TypeOK
<1>1. IInv => TypeOK
  BY DEF IInv
<1> QED
  BY <1>1, Invariance, PTL

\* Nothing of a pass runs once its channel is closed.
THEOREM QuietAfterClose == Spec => []QuietWhenClosed
<1>1. IInv => QuietWhenClosed
  BY DEF IInv, TypeOK, Slots, QuietWhenClosed
<1> QED
  BY <1>1, Invariance, PTL

\* There are never more dials under way than slots.
THEOREM ConcurrencyRespected == Spec => []DialsBounded
<1>1. ASSUME IInv PROVE DialsBounded
  <2> DEFINE D == {h \in Hosts : wPc[h] = "dialing"}
  <2>1. D \in SUBSET sem
    BY <1>1 DEF IInv, Slots, Working
  <2>2. Cardinality(D) <= Cardinality(sem)
    BY <1>1, <2>1, SlotsFinite, FS_Subset DEF IInv
  <2>3. Cardinality(D) \in Nat /\ Cardinality(sem) \in Nat
    BY <1>1, <2>1, SlotsFinite, FS_Subset, FS_CardinalityType DEF IInv
  <2>4. Cardinality(sem) <= Concurrency
    BY <1>1 DEF IInv, Slots
  <2> QED
    BY <2>2, <2>3, <2>4, SweepAssumption DEF DialsBounded
<1> QED
  BY <1>1, Invariance, PTL

\* The survivors are exactly the endpoints that answered, each once, unless
\* the sweep was cancelled; then they are some of them.
THEOREM SurvivorsCorrect == Spec => []SurvivorsExact
<1>1. ASSUME IInv PROVE SurvivorsExact
  <2>1. DOMAIN survivors = 1..Len(survivors)
    BY <1>1 DEF IInv, TypeOK
  <2>2. Received \subseteq opened
    BY <1>1, <2>1 DEF IInv, Sound, Received
  <2>3. \A i, j \in DOMAIN survivors : survivors[i] = survivors[j] => i = j
    BY <1>1, <2>1 DEF IInv, Sound
  <2>4. ASSUME Finished, ~cancelled, NEW e \in opened PROVE e \in Received
    <3>1. e[2] # pass
      <4>1. e \in Endpoints /\ pass \in Nat
        BY <1>1 DEF IInv, TypeOK
      <4>2. e[2] \in 1..NumPorts
        BY <4>1 DEF Endpoints
      <4> QED
        BY <2>4, <4>1, <4>2, SweepAssumption DEF Finished
    <3> QED
      BY <1>1, <2>1, <2>4, <3>1 DEF IInv, Complete, Received
  <2> QED
    BY <2>2, <2>3, <2>4 DEF SurvivorsExact
<1> QED
  BY <1>1, Invariance, PTL

-----------------------------------------------------------------------------
(* The progress of the stage. *)

\* The hosts of the pass that were counted.
Counted == {h \in Hosts : h <= next /\ wPc[h] \notin {"dialing", "sending", "counting"}}

\* done counts hosts, base the hosts of the earlier passes; and a launcher
\* that was not cancelled stops only after the last host.
Tally == /\ base = (pass - 1) * NumHosts
         /\ done = Cardinality(Counted)
         /\ ~cancelled /\ ~Finished /\ launcher # "launching" => next = NumHosts

\* When the last host of the last pass is counted, its worker has the total;
\* the total is reported unless that worker is still to report it.
TotalComing ==
    NumHosts > 0 =>
      /\ pass = NumPorts /\ done = NumHosts =>
           \/ total \in reported
           \/ \E h \in Hosts : wPc[h] = "reporting" /\ ticket[h] = total
      /\ Finished /\ ~cancelled => total \in reported

Progressing == Tally /\ TotalComing

\* The workers that matter to the tally are finitely many.
LEMMA CountedFinite ==
    IInv => /\ IsFiniteSet(Counted) /\ Cardinality(Counted) \in Nat
            /\ Cardinality(Counted) <= NumHosts
            /\ Cardinality(Counted) = NumHosts => Counted = Hosts
            /\ Cardinality(Hosts) = NumHosts
<1>1. IsFiniteSet(Hosts) /\ Cardinality(Hosts) = NumHosts
  BY SweepAssumption, FS_Interval DEF Hosts
<1>2. Counted \in SUBSET Hosts
  BY DEF Counted
<1>3. /\ IsFiniteSet(Counted)
      /\ Cardinality(Counted) <= Cardinality(Hosts)
      /\ Cardinality(Hosts) = Cardinality(Counted) => Hosts = Counted
  BY <1>1, <1>2, FS_Subset
<1>4. Cardinality(Counted) \in Nat
  BY <1>3, FS_CardinalityType
<1> QED
  BY <1>1, <1>3, <1>4

\* The two products of the code, base and total.
LEMMA Offsets ==
    ASSUME NEW p \in Nat
    PROVE  /\ (p - 1) * NumHosts + NumHosts = p * NumHosts
           /\ (p + 1 - 1) * NumHosts = p * NumHosts
           /\ total = NumPorts * NumHosts
<1>1. total = NumPorts * NumHosts
  BY SweepAssumption DEF total
<1>2. (p - 1) * NumHosts + NumHosts = p * NumHosts
  BY SweepAssumption
<1>3. p + 1 - 1 = p
  OBVIOUS
<1> QED
  BY <1>1, <1>2, <1>3

LEMMA InitProgressing == Init => Progressing
<1> SUFFICES ASSUME Init PROVE Progressing
  OBVIOUS
<1>1. Counted = {}
  BY SweepAssumption DEF Init, Counted, Hosts
<1>2. (1 - 1) * NumHosts = 0
  BY SweepAssumption
<1>3. Tally
  BY <1>1, <1>2, FS_EmptySet DEF Init, Tally
<1>4. TotalComing
  BY SweepAssumption DEF Init, TotalComing, Finished
<1> QED
  BY <1>3, <1>4 DEF Progressing

\* The worker that counts the last host of the last pass gets the total.
LEMMA CountProgress ==
    ASSUME NEW h \in Hosts PROVE IInv /\ Progressing /\ Count(h) => Progressing'
<1> SUFFICES ASSUME IInv, Progressing, Count(h) PROVE Progressing'
  OBVIOUS
<1>1. /\ wPc[h] = "counting" /\ wPc'[h] = "reporting"
      /\ \A g \in Hosts \ {h} : wPc'[g] = wPc[g]
      /\ ticket'[h] = base + done + 1
      /\ done' = done + 1
  BY DEF Count, Goto, IInv, TypeOK
<1>2. UNCHANGED <<pass, base, launcher, next, cancelled, reported>>
  BY DEF Count, passVars
<1>3. h <= next /\ ~Finished
  BY <1>1, WorkersInPass DEF IInv, Slots, Working
<1>4. Counted' = Counted \union {h} /\ h \notin Counted
  BY <1>1, <1>2, <1>3 DEF Counted
<1>5. done' = Cardinality(Counted')
  BY <1>1, <1>4, CountedFinite, FS_AddElement DEF Progressing, Tally
<1>6. Tally'
  BY <1>2, <1>5 DEF Progressing, Tally, Finished
<1>7. ASSUME NumHosts > 0, pass = NumPorts, done' = NumHosts
      PROVE  ticket'[h] = total
  <2>1. done + 1 = NumHosts /\ done \in Nat /\ base \in Nat
    BY <1>1, <1>7 DEF IInv, TypeOK
  <2>2. base + NumHosts = NumPorts * NumHosts
    BY <1>7, Offsets, SweepAssumption DEF Progressing, Tally
  <2> QED
    BY <1>1, <2>1, <2>2, Offsets, SweepAssumption
<1>8. TotalComing'
  BY <1>1, <1>2, <1>3, <1>7 DEF TotalComing, Finished, total
<1> QED
  BY <1>6, <1>8 DEF Progressing

\* The worker that has the total reports it.
LEMMA ReportProgress ==
    ASSUME NEW h \in Hosts PROVE IInv /\ Progressing /\ Report(h) => Progressing'
<1> SUFFICES ASSUME IInv, Progressing, Report(h) PROVE Progressing'
  OBVIOUS
<1>1. /\ wPc[h] = "reporting" /\ wPc'[h] = "releasing"
      /\ \A g \in Hosts \ {h} : wPc'[g] = wPc[g]
  BY DEF Report, Goto, IInv, TypeOK
<1>2. UNCHANGED <<pass, base, launcher, next, done, ticket, cancelled>>
  BY DEF Report, passVars
<1>3. Counted' = Counted
  BY <1>1, <1>2 DEF Counted
<1>4. Tally'
  BY <1>2, <1>3 DEF Progressing, Tally, Finished
<1>5. reported \subseteq reported' /\ (ticket[h] = total => total \in reported')
  BY DEF Report, isReported
<1>6. TotalComing'
  BY <1>1, <1>2, <1>5 DEF Progressing, TotalComing, Finished, total
<1> QED
  BY <1>4, <1>6 DEF Progressing

\* The last pass ends with every host counted and no worker left to report.
LEMMA NextPassProgress == IInv /\ Progressing /\ NextPass => Progressing'
<1> SUFFICES ASSUME IInv, Progressing, NextPass PROVE Progressing'
  OBVIOUS
<1>1. /\ pass' = pass + 1 /\ base' = base + NumHosts /\ next' = 0 /\ done' = 0
      /\ pass \in Nat /\ pass <= NumPorts /\ ~Finished
      /\ launcher = "closed"
      /\ UNCHANGED <<wPc, cancelled, reported>>
  BY SweepAssumption DEF NextPass, histVars, IInv, TypeOK, Finished
<1>2. \A h \in Hosts : wPc[h] \notin Working
  BY <1>1 DEF IInv, Slots
<1>3. Tally'
  <2>1. base' = (pass' - 1) * NumHosts
    BY <1>1, Offsets DEF Progressing, Tally
  <2>2. Counted' = {}
    BY <1>1 DEF Counted, Hosts
  <2>3. ~cancelled' /\ ~Finished' /\ launcher' # "launching" => next' = NumHosts
    BY <1>1, SweepAssumption DEF NextPass, Finished
  <2> QED
    BY <1>1, <2>1, <2>2, <2>3, FS_EmptySet DEF Tally
<1>4. ASSUME NumHosts > 0, Finished', ~cancelled PROVE total \in reported
  <2>1. pass = NumPorts
    BY <1>1, <1>4, SweepAssumption DEF Finished
  <2>2. next = NumHosts
    BY <1>1, <1>4 DEF Progressing, Tally
  <2>3. Counted = Hosts
    BY <1>2, <2>2 DEF Counted, Working, Hosts
  <2>4. done = NumHosts
    BY <2>3, CountedFinite DEF Progressing, Tally
  <2> QED
    BY <1>2, <1>4, <2>1, <2>4 DEF Progressing, TotalComing, Working
<1>5. TotalComing'
  BY <1>1, <1>4, SweepAssumption DEF TotalComing, total
<1> QED
  BY <1>3, <1>5 DEF Progressing

LEMMA ProgressingInductive == IInv /\ Progressing /\ [Next]_vars => Progressing'
<1> SUFFICES ASSUME IInv, Progressing, [Next]_vars PROVE Progressing'
  OBVIOUS
<1>1. CASE Launch
  <2>1. /\ next + 1 \in Hosts /\ next \in Nat /\ next' = next + 1
        /\ wPc'[next + 1] = "dialing"
        /\ \A g \in Hosts \ {next + 1} : wPc'[g] = wPc[g]
        /\ UNCHANGED <<pass, base, launcher, done, ticket, cancelled, reported>>
    BY <1>1, SweepAssumption DEF Launch, IInv, TypeOK, Hosts, histVars
  <2>2. Counted' = Counted
    BY <2>1 DEF Counted, Hosts
  <2>3. Tally'
    BY <1>1, <2>1, <2>2 DEF Progressing, Tally, Finished, Launch
  <2>4. wPc[next + 1] # "reporting"
    BY <2>1 DEF IInv, Slots, Working
  <2>5. TotalComing'
    BY <2>1, <2>4 DEF Progressing, TotalComing, Finished, total
  <2> QED
    BY <2>3, <2>5 DEF Progressing
<1>2. CASE Drain \/ Close \/ Receive \/ Cancel \/ UNCHANGED vars
  <2>1. /\ UNCHANGED <<pass, base, next, wPc, done, ticket, reported>>
        /\ cancelled => cancelled'
        /\ launcher' = launcher \/ cancelled \/ next = NumHosts \/ launcher = "waiting"
    BY <1>2 DEF Drain, Close, Receive, Cancel, vars, passVars, histVars
  <2>2. Counted' = Counted
    BY <2>1 DEF Counted
  <2>3. Progressing'
    BY <2>1, <2>2 DEF Progressing, Tally, TotalComing, Finished, total
  <2> QED
    BY <2>3
<1>3. ASSUME NEW h \in Hosts, Dial(h) \/ Send(h) \/ Release(h) \/ Leave(h)
      PROVE  Progressing'
  <2>1. /\ UNCHANGED <<pass, base, launcher, next, done, ticket, cancelled, reported>>
        /\ \A g \in Hosts \ {h} : wPc'[g] = wPc[g]
        /\ wPc[h] # "reporting"
        /\ wPc'[h] \in {"dialing", "sending", "counting"} <=>
             wPc[h] \in {"dialing", "sending", "counting"}
    BY <1>3 DEF Dial, Send, Release, Leave, Goto, passVars, histVars, IInv, TypeOK
  <2>2. Counted' = Counted
    BY <2>1 DEF Counted
  <2> QED
    BY <2>1, <2>2 DEF Progressing, Tally, TotalComing, Finished, total
<1> QED
  BY <1>1, <1>2, <1>3, CountProgress, ReportProgress, NextPassProgress
     DEF Next, Worker

\* A sweep that was not cancelled has reported its total when it returns,
\* whichever worker was the last to count and whichever the last to report.
THEOREM ProgressComplete == Spec => []ProgressReachesTotal
<1>1. IInv /\ Progressing /\ [Next]_vars => (IInv /\ Progressing)'
  BY TypeInductive, SlotsInductive, OverInductive, TransitInductive, ProgressingInductive
     DEF IInv, Transit
<1>2. Progressing => ProgressReachesTotal
  BY DEF Progressing, TotalComing, ProgressReachesTotal
<1> QED
  BY <1>1, <1>2, InitIInv, InitProgressing, PTL DEF Spec

=============================================================================
