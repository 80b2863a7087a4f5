--------------------------- MODULE JobStreamProofs ---------------------------
(* Proofs about JobStream, for every set of streams and every length of     *)
(* scan: its type invariant, the two closing events of an ended stream, and *)
(* that it implements EventFeed.                                            *)
EXTENDS JobStream, SequenceTheorems, TLAPS

\* s is an initial part of t.
PrefixOf(s, t) == Len(s) <= Len(t) /\ \A i \in 1..Len(s) : s[i] = t[i]

\* How the events of a job end, phase by phase of its goroutine.
EventsMatchPhase ==
    /\ done <=> (phase = "over")
    /\ phase = "finishing" =>
         Len(events) >= 1 /\ events[Len(events)] = "result"
    /\ done => /\ Len(events) >= 2
               /\ events[Len(events) - 1] = "result"
               /\ events[Len(events)] = "done"

StreamsArePrefixes ==
    \A s \in Streams : /\ PrefixOf(sent[s], events)
                       /\ sPc[s] = "ended" => done /\ sent[s] = events

IInv == TypeOK /\ EventsMatchPhase /\ StreamsArePrefixes

-----------------------------------------------------------------------------
\* What after(idx) returns is the rest of the events: written behind a prefix
\* of length idx, it completes that prefix to all of them.
LEMMA AfterCompletes ==
    ASSUME NEW T, NEW t \in Seq(T), NEW s \in Seq(T), PrefixOf(s, t)
    PROVE  /\ s \o SubSeq(t, Len(s) + 1, Len(t)) = t
           /\ Len(s) + Len(SubSeq(t, Len(s) + 1, Len(t))) = Len(t)
<1> DEFINE r == SubSeq(t, Len(s) + 1, Len(t))
<1>1. /\ r \in Seq(T)
      /\ Len(r) = Len(t) - Len(s)
      /\ \A i \in 1..Len(r) : r[i] = t[Len(s) + i]
  BY DEF PrefixOf
<1>2. /\ s \o r \in Seq(T)
      /\ Len(s \o r) = Len(t)
  BY <1>1 DEF PrefixOf
<1>3. ASSUME NEW i \in 1..Len(t) PROVE (s \o r)[i] = t[i]
  BY <1>1 DEF PrefixOf
<1> QED
  BY <1>1, <1>2, <1>3

\* Appending an event leaves every prefix a prefix.
LEMMA AppendKeepsPrefix ==
    ASSUME NEW T, NEW t \in Seq(T), NEW s \in Seq(T), NEW e \in T, PrefixOf(s, t)
    PROVE  PrefixOf(s, Append(t, e))
BY DEF PrefixOf

-----------------------------------------------------------------------------
\* The type invariant of the job and its streams is inductive.
LEMMA TypeInductive == TypeOK /\ [Next]_vars => TypeOK'
<1> SUFFICES ASSUME TypeOK, [Next]_vars PROVE TypeOK'
  OBVIOUS
<1> USE DEF TypeOK, EventType, Phases, Serving, StreamPcs, jobVars, streamVars,
            Goto, At, Broadcast
<1>1. ASSUME Produce PROVE TypeOK'
  <2>1. CASE PushStarted
    BY <2>1 DEF PushStarted, push
  <2>2. CASE PushHook
    BY <2>2, MaxBodyAssumption DEF PushHook, push
  <2>3. CASE ScanReturns
    BY <2>3 DEF ScanReturns
  <2>4. CASE PushError
    BY <2>4 DEF PushError, push
  <2>5. CASE PushResult
    BY <2>5 DEF PushResult, push
  <2>6. CASE Finish
    BY <2>6 DEF Finish, finish
  <2> QED
    BY <1>1, <2>1, <2>2, <2>3, <2>4, <2>5, <2>6 DEF Produce
<1>2. ASSUME NEW s \in Streams, Open(s) \/ Serve(s) \/ HangUp(s) PROVE TypeOK'
  <2>1. CASE Open(s)
    BY <2>1 DEF Open
  <2>2. CASE Poll(s)
    <3>1. after(Len(sent[s])) \in Seq(EventType)
      BY DEF after
    <3> QED
      BY <2>2, <3>1 DEF Poll
  <2>3. CASE Arm(s)
    BY <2>3 DEF Arm
  <2>4. CASE Wake(s) \/ Quit(s)
    BY <2>4 DEF Wake, Quit
  <2>5. CASE HangUp(s)
    BY <2>5 DEF HangUp
  <2> QED
    BY <1>2, <2>1, <2>2, <2>3, <2>4, <2>5 DEF Serve
<1>3. CASE UNCHANGED vars
  BY <1>3 DEF vars
<1> QED
  BY <1>1, <1>2, <1>3 DEF Next

LEMMA InitIInv == Init => IInv
<1> SUFFICES ASSUME Init PROVE IInv
  OBVIOUS
<1>1. TypeOK
  <2>1. /\ phase \in Phases /\ done \in BOOLEAN /\ ch \in Nat
    BY DEF Init, Phases
  <2>2. body \in 0..MaxBody
    BY MaxBodyAssumption DEF Init
  <2>3. events \in Seq(EventType)
    BY DEF Init
  <2>4. /\ sPc \in [Streams -> StreamPcs] /\ sent \in [Streams -> Seq(EventType)]
        /\ waitCh \in [Streams -> Nat] /\ hungUp \in [Streams -> BOOLEAN]
    BY EmptySeq DEF Init, StreamPcs
  <2> QED
    BY <2>1, <2>2, <2>3, <2>4 DEF TypeOK
<1>2. EventsMatchPhase
  BY DEF Init, EventsMatchPhase
<1>3. StreamsArePrefixes
  <2>1. Len(<<>>) = 0
    BY EmptySeq
  <2>2. ASSUME NEW s \in Streams PROVE sent[s] = <<>> /\ events = <<>> /\ sPc[s] = "out"
    BY DEF Init
  <2>3. PrefixOf(<<>>, <<>>)
    BY <2>1 DEF PrefixOf
  <2> QED
    BY <2>2, <2>3 DEF StreamsArePrefixes
<1> QED
  BY <1>1, <1>2, <1>3 DEF IInv

\* A push is made while the job is not done.
LEMMA ProduceEffect ==
    ASSUME IInv, Produce
    PROVE  /\ ~done
           /\ \/ events' = events /\ done' = done
              \/ \E e \in EventType : events' = Append(events, e)
           /\ UNCHANGED <<sPc, sent>>
           /\ EventsMatchPhase'
<1> USE DEF IInv, TypeOK, EventsMatchPhase, EventType, Phases, streamVars,
            Goto, Broadcast
<1>1. CASE PushStarted
  BY <1>1 DEF PushStarted, push
<1>2. CASE PushHook
  BY <1>2 DEF PushHook, push
<1>3. CASE ScanReturns
  BY <1>3 DEF ScanReturns
<1>4. CASE PushError
  BY <1>4 DEF PushError, push
<1>5. CASE PushResult
  BY <1>5 DEF PushResult, push
<1>6. CASE Finish
  BY <1>6 DEF Finish, finish
<1> QED
  BY <1>1, <1>2, <1>3, <1>4, <1>5, <1>6 DEF Produce

\* A poll brings its stream up to date, and ends it exactly when the job is
\* done.
LEMMA PollEffect ==
    ASSUME IInv, NEW s \in Streams, Poll(s)
    PROVE  /\ sPc[s] = "polling"
           /\ sent' = [sent EXCEPT ![s] = events]
           /\ sPc' = [sPc EXCEPT ![s] = IF done THEN "ended" ELSE "arming"]
           /\ UNCHANGED <<events, done, phase>>
<1>1. /\ events \in Seq(EventType)
      /\ sent[s] \in Seq(EventType)
      /\ PrefixOf(sent[s], events)
      /\ done \in BOOLEAN
  BY DEF IInv, TypeOK, StreamsArePrefixes
<1>2. /\ sent[s] \o after(Len(sent[s])) = events
      /\ Len(sent[s]) + Len(after(Len(sent[s]))) = Len(events)
  BY <1>1, AfterCompletes DEF after
<1>3. Len(sent[s]) + Len(after(Len(sent[s]))) >= Len(events)
  <2>1. Len(events) >= Len(events)
    BY <1>1
  <2> QED
    BY <1>2, <2>1, Zenon
<1>4. drained(Len(sent[s])) <=> done
  BY <1>3, Zenon DEF drained
<1>5. sPc' = [sPc EXCEPT ![s] = IF done THEN "ended" ELSE "arming"]
  <2>1. CASE done
    BY <1>4, <2>1 DEF Poll, At
  <2>2. CASE ~done
    BY <1>4, <2>2 DEF Poll, At
  <2> QED
    BY <2>1, <2>2
<1>6. sent' = [sent EXCEPT ![s] = events]
  BY <1>2 DEF Poll
<1> QED
  BY <1>5, <1>6 DEF Poll, At, jobVars

LEMMA StepIInv == IInv /\ [Next]_vars => IInv'
<1> SUFFICES ASSUME IInv, [Next]_vars PROVE IInv'
  OBVIOUS
<1>1. TypeOK'
  BY TypeInductive DEF IInv
<1>2. EventsMatchPhase' /\ StreamsArePrefixes'
  <2>1. CASE Produce
    <3>1. ASSUME NEW s \in Streams PROVE PrefixOf(sent'[s], events')
      BY <2>1, ProduceEffect, AppendKeepsPrefix DEF IInv, TypeOK, StreamsArePrefixes
    <3> QED
      BY <2>1, <3>1, ProduceEffect DEF IInv, StreamsArePrefixes
  <2>2. ASSUME NEW s \in Streams, Poll(s)
        PROVE  EventsMatchPhase' /\ StreamsArePrefixes'
    BY <2>2, PollEffect
       DEF IInv, TypeOK, EventsMatchPhase, StreamsArePrefixes, PrefixOf
  <2>3. ASSUME NEW s \in Streams, Open(s) \/ Arm(s) \/ Wake(s) \/ Quit(s) \/ HangUp(s)
        PROVE  EventsMatchPhase' /\ StreamsArePrefixes'
    <3>1. UNCHANGED <<events, done, phase, sent>>
      BY <2>3 DEF Open, Arm, Wake, Quit, HangUp, jobVars
    <3>2. \A t \in Streams : sPc'[t] = "ended" => sPc[t] = "ended"
      BY <2>3 DEF Open, Arm, Wake, Quit, HangUp, At, IInv, TypeOK
    <3> QED
      BY <3>1, <3>2 DEF IInv, EventsMatchPhase, StreamsArePrefixes
  <2>4. CASE UNCHANGED vars
    BY <2>4 DEF vars, IInv, EventsMatchPhase, StreamsArePrefixes
  <2> QED
    BY <2>1, <2>2, <2>3, <2>4 DEF Next, Serve
<1> QED
  BY <1>1, <1>2 DEF IInv

LEMMA Invariance == Spec => []IInv
BY InitIInv, StepIInv, PTL DEF Spec

\* The variables of a job and its streams stay in their types.
THEOREM TypeCorrect == Spec => []TypeOK
<1>1. IInv => TypeOK
  BY DEF IInv
<1> QED
  BY <1>1, Invariance, PTL

\* Whatever the interleaving, a stream that ended delivered "result" and then
\* "done" last.
THEOREM EndedStreamsComplete == Spec => []EndedStreamSawResult
<1>1. IInv => EndedStreamSawResult
  BY DEF IInv, EventsMatchPhase, StreamsArePrefixes, EndedStreamSawResult
<1> QED
  BY <1>1, Invariance, PTL

-----------------------------------------------------------------------------
\* The status of a stream in the abstract feed.
Status(pc) == [s \in Streams |-> IF pc[s] \in Serving THEN "in" ELSE pc[s]]

LEMMA FeedInit == Init => Feed!Init
BY DEF Init, Feed!Init, Serving

LEMMA FeedStep == IInv /\ [Next]_vars => [Feed!Next]_(Feed!vars)
<1> SUFFICES ASSUME IInv, [Next]_vars PROVE Feed!Next \/ UNCHANGED Feed!vars
  OBVIOUS
<1> USE DEF Feed!vars, Feed!Next
<1>1. CASE Produce
  <2>1. CASE events' = events /\ done' = done
    BY <1>1, <2>1, ProduceEffect
  <2>2. ASSUME NEW e \in EventType, events' = Append(events, e)
        PROVE  Feed!Next \/ UNCHANGED Feed!vars
    <3>1. done' \in BOOLEAN
      BY TypeInductive DEF IInv, TypeOK
    <3>2. CASE done'
      BY <1>1, <2>2, <3>2, ProduceEffect DEF Feed!Close
    <3>3. CASE ~done'
      BY <1>1, <2>2, <3>1, <3>3, ProduceEffect DEF Feed!Publish, IInv, TypeOK
    <3> QED
      BY <3>2, <3>3
  <2> QED
    BY <1>1, <2>1, <2>2, ProduceEffect
<1>2. ASSUME NEW s \in Streams, Open(s) PROVE Feed!Subscribe(s)
  BY <1>2 DEF Open, At, jobVars, Feed!Subscribe, Serving, IInv, TypeOK
<1>3. ASSUME NEW s \in Streams, Poll(s) PROVE Feed!Deliver(s) \/ Feed!End(s)
  <2>1. CASE done
    BY <1>3, <2>1, PollEffect DEF Feed!End, Serving, IInv, TypeOK
  <2>2. CASE ~done
    BY <1>3, <2>2, PollEffect DEF Feed!Deliver, Serving, IInv, TypeOK
  <2> QED
    BY <2>1, <2>2
<1>4. ASSUME NEW s \in Streams, Arm(s) \/ Wake(s) \/ HangUp(s)
      PROVE  UNCHANGED Feed!vars
  BY <1>4 DEF Arm, Wake, HangUp, At, jobVars, Serving, IInv, TypeOK
<1>5. ASSUME NEW s \in Streams, Quit(s) PROVE Feed!Leave(s)
  BY <1>5 DEF Quit, At, jobVars, Feed!Leave, Serving, IInv, TypeOK
<1>6. CASE UNCHANGED vars
  BY <1>6 DEF vars
<1> QED
  BY <1>1, <1>2, <1>3, <1>4, <1>5, <1>6 DEF Next, Serve

\* A job with its streams implements the abstract feed: every stream receives
\* a growing prefix of an append-only log, and ends only with all of it.
THEOREM ImplementsFeed == Spec => IsAFeed
<1>1. Init => Feed!Init
  BY FeedInit
<1>2. IInv /\ [Next]_vars => [Feed!Next]_(Feed!vars)
  BY FeedStep
<1> QED
  BY <1>1, <1>2, Invariance, PTL DEF Spec, IsAFeed, Feed!Spec

=============================================================================
