------------------------------ MODULE JobStream ------------------------------
(****************************************************************************)
(* One scan job of the web server and the event streams that watch it:     *)
(* type job with push, finish, after and wait, the goroutine of handleScan  *)
(* that produces the events, and the loop of handleStream.                  *)
(*                                                                          *)
(* Each operation of job runs under job.mu and is one step.  handleStream   *)
(* calls after and wait in two separate critical sections, so a push may    *)
(* fall between them.  Channels are numbered: push closes the current one   *)
(* and installs the next, so a channel c is closed iff c # ch.              *)
(****************************************************************************)
EXTENDS Naturals, Sequences

CONSTANTS Streams,      \* requests to GET /api/stream for this job
          MaxBody       \* bound on the log and progress events of the scan

ASSUME MaxBodyAssumption == MaxBody \in Nat

VARIABLES phase,        \* where the scan goroutine is
          body,         \* how many log or progress events the hooks pushed
          events,       \* job.events
          done,         \* job.done
          ch,           \* job.ch
          sPc,          \* where the loop of handleStream is
          sent,         \* what the stream wrote; its idx is Len(sent)
          waitCh,       \* the channel its select blocks on
          hungUp        \* the client closed the connection

jobVars    == <<phase, body, events, done, ch>>
streamVars == <<sPc, sent, waitCh, hungUp>>
vars       == <<phase, body, events, done, ch, sPc, sent, waitCh, hungUp>>

EventType == {"log", "progress", "error", "result", "done"}
Phases    == {"spawned", "scanning", "failed", "reporting", "finishing", "over"}
Serving   == {"polling", "arming", "waiting"}
StreamPcs == Serving \union {"out", "ended", "left"}

Init == /\ phase = "spawned"
        /\ body = 0
        /\ events = <<>>
        /\ done = FALSE
        /\ ch = 0
        /\ sPc = [s \in Streams |-> "out"]
        /\ sent = [s \in Streams |-> <<>>]
        /\ waitCh = [s \in Streams |-> 0]
        /\ hungUp = [s \in Streams |-> FALSE]

-----------------------------------------------------------------------------
(* job.push, job.finish and job.after *)

\* Faulty variant: the event is appended and nobody is woken.
SilentBroadcast == ch' = ch

\* close(j.ch); j.ch = make(chan struct{})
Broadcast == ch' = ch + 1

push(e) == /\ events' = Append(events, e)
           /\ done' = done
           /\ Broadcast

\* Faulty variant: an event of a type the page does not know.
finishMisnamed == /\ events' = Append(events, "finished")
                  /\ done' = TRUE
                  /\ Broadcast

finish == /\ events' = Append(events, "done")
          /\ done' = TRUE
          /\ Broadcast

\* Faulty variant: the event at idx is skipped.
afterSkipping(idx) == SubSeq(events, idx + 2, Len(events))

after(idx) == SubSeq(events, idx + 1, Len(events))

drained(idx) == done /\ idx + Len(after(idx)) >= Len(events)

-----------------------------------------------------------------------------
(* The goroutine of handleScan *)

Goto(p, q) == phase = p /\ phase' = q

PushStarted == /\ Goto("spawned", "scanning")
               /\ push("log")
               /\ UNCHANGED <<body, streamVars>>

\* A ScanHooks callback, called by the pipeline while svc.Scan runs.
PushHook == /\ phase = "scanning"
            /\ body < MaxBody
            /\ \E e \in {"log", "progress"} : push(e)
            /\ body' = body + 1
            /\ UNCHANGED <<phase, streamVars>>

ScanReturns == /\ Goto("scanning", "reporting") \/ Goto("scanning", "failed")
               /\ UNCHANGED <<body, events, done, ch, streamVars>>

\* Faulty variant: a failed scan returns early and pushes no result.
PushErrorOnly == /\ Goto("failed", "finishing")
                 /\ push("error")
                 /\ UNCHANGED <<body, streamVars>>

PushError == /\ Goto("failed", "reporting")
             /\ push("error")
             /\ UNCHANGED <<body, streamVars>>

\* Pushed whether or not the scan failed, with whatever it found.
PushResult == /\ Goto("reporting", "finishing")
              /\ push("result")
              /\ UNCHANGED <<body, streamVars>>

Finish == /\ Goto("finishing", "over")
          /\ finish
          /\ UNCHANGED <<body, streamVars>>

-----------------------------------------------------------------------------
(* handleStream *)

At(s, p, q) == sPc[s] = p /\ sPc' = [sPc EXCEPT ![s] = q]

Open(s) == /\ At(s, "out", "polling")
           /\ UNCHANGED <<jobVars, sent, waitCh, hungUp>>

\* evs, done := j.after(idx); write evs; flush; return if done.
Poll(s) == LET idx == Len(sent[s]) IN
           /\ At(s, "polling", IF drained(idx) THEN "ended" ELSE "arming")
           /\ sent' = [sent EXCEPT ![s] = @ \o after(idx)]
           /\ UNCHANGED <<jobVars, waitCh, hungUp>>

\* The select evaluates j.wait().
Arm(s) == /\ At(s, "arming", "waiting")
          /\ waitCh' = [waitCh EXCEPT ![s] = ch]
          /\ UNCHANGED <<jobVars, sent, hungUp>>

\* The channel it waits for has been closed.
Wake(s) == /\ At(s, "waiting", "polling")
           /\ waitCh[s] # ch
           /\ UNCHANGED <<jobVars, sent, waitCh, hungUp>>

\* The client goes away; the handler sees r.Context().Done() at its select.
HangUp(s) == /\ sPc[s] \in Serving
             /\ ~hungUp[s]
             /\ hungUp' = [hungUp EXCEPT ![s] = TRUE]
             /\ UNCHANGED <<jobVars, sPc, sent, waitCh>>

Quit(s) == /\ At(s, "waiting", "left")
           /\ hungUp[s]
           /\ UNCHANGED <<jobVars, sent, waitCh, hungUp>>

-----------------------------------------------------------------------------
Produce == PushStarted \/ PushHook \/ ScanReturns \/ PushError \/ PushResult \/ Finish

Serve(s) == Poll(s) \/ Arm(s) \/ Wake(s) \/ Quit(s)

Next == \/ Produce
        \/ \E s \in Streams : Open(s) \/ Serve(s) \/ HangUp(s)

\* The scheduler runs every goroutine that can run; svc.Scan returns because
\* each of its dials and probes has a timeout.  Nobody has to open a stream
\* and nobody has to leave one.
Fairness == /\ WF_vars(PushStarted) /\ WF_vars(ScanReturns) /\ WF_vars(PushError)
            /\ WF_vars(PushResult) /\ WF_vars(Finish)
            /\ \A s \in Streams : WF_vars(Serve(s))

Spec == Init /\ [][Next]_vars /\ Fairness

-----------------------------------------------------------------------------
(* Properties *)

\* Type invariant of the job and of its streams.
TypeOK == /\ phase \in Phases
          /\ body \in 0..MaxBody
          /\ events \in Seq(EventType)
          /\ done \in BOOLEAN
          /\ ch \in Nat
          /\ sPc \in [Streams -> StreamPcs]
          /\ sent \in [Streams -> Seq(EventType)]
          /\ waitCh \in [Streams -> Nat]
          /\ hungUp \in [Streams -> BOOLEAN]

\* The job is an event feed: its log only grows and is closed once, and each
\* stream receives a prefix of it, in order and without gap or duplicate, and
\* ends only with all of it, whenever it was opened and however its polls
\* interleave with the pushes of the scan's goroutines.
Feed == INSTANCE EventFeed
          WITH Event <- EventType, Subscribers <- Streams,
               log <- events, closed <- done, got <- sent,
               sub <- [s \in Streams |-> IF sPc[s] \in Serving THEN "in" ELSE sPc[s]]

IsAFeed == Feed!Spec

\* A stream that ended on its own delivered the result and then "done" as its
\* last two events, also when the scan failed: the page leaves its running
\* state and renders the result on those two.
EndedStreamSawResult ==
    \A s \in Streams : sPc[s] = "ended" =>
        LET n == Len(sent[s]) IN
        n >= 2 /\ sent[s][n - 1] = "result" /\ sent[s][n] = "done"

\* Streams miss no wakeup outside the window between after and wait.  One that
\* polls after the job finished ends (the "closed tab reopened" of the comment
\* on sweepJobsLocked).  One parked on the job's current channel with nothing
\* left to send is woken by the next push and sends more, unless its client
\* leaves.
Parked(s) == sPc[s] = "waiting" /\ waitCh[s] = ch /\ sent[s] = events /\ ~done

WakeupsOutsideWindow ==
    \A s \in Streams :
        /\ (sPc[s] = "polling" /\ done) ~> (sPc[s] = "ended")
        /\ \A n \in 0..(MaxBody + 4) :
             (Parked(s) /\ Len(sent[s]) = n) ~> (Len(sent[s]) > n \/ sPc[s] = "left")

\* Every open stream ends, unless its client leaves.  The comment on job.ch
\* ("replaced on each push to broadcast") and the package comment ("streams
\* live scan progress") promise it; the code does not keep it, because a push
\* between after and wait closes a channel the stream has not taken yet.
EveryStreamEnds ==
    \A s \in Streams : (sPc[s] = "polling") ~> (sPc[s] \in {"ended", "left"})

=============================================================================
