------------------------------ MODULE EventFeed ------------------------------
(****************************************************************************)
(* What a scan job promises to whoever watches it, with none of the locks,  *)
(* channels or goroutines that keep the promise: an append-only log that is *)
(* closed exactly once, and subscribers that each receive a growing prefix  *)
(* of it.  A subscription ends only when the log is closed and the          *)
(* subscriber has all of it.  JobStream implements this specification.      *)
(****************************************************************************)
EXTENDS Naturals, Sequences

CONSTANTS Event,        \* what may be published
          Subscribers   \* the clients that may watch the job

VARIABLES log,          \* everything published so far
          closed,       \* no more will be published
          got,          \* got[s]: what s has received
          sub           \* sub[s]: "out", "in", "ended" or "left"

vars == <<log, closed, got, sub>>

Init == /\ log = <<>>
        /\ closed = FALSE
        /\ got = [s \in Subscribers |-> <<>>]
        /\ sub = [s \in Subscribers |-> "out"]

Publish(e) == /\ ~closed
              /\ log' = Append(log, e)
              /\ UNCHANGED <<closed, got, sub>>

\* The last event closes the log.
Close(e) == /\ ~closed
            /\ log' = Append(log, e)
            /\ closed' = TRUE
            /\ UNCHANGED <<got, sub>>

Subscribe(s) == /\ sub[s] = "out"
                /\ sub' = [sub EXCEPT ![s] = "in"]
                /\ UNCHANGED <<log, closed, got>>

\* A subscriber is brought up to date.
Deliver(s) == /\ sub[s] = "in"
              /\ got' = [got EXCEPT ![s] = log]
              /\ UNCHANGED <<log, closed, sub>>

\* A subscriber is told that nothing more will come, with the rest of the log.
End(s) == /\ sub[s] = "in"
          /\ closed
          /\ got' = [got EXCEPT ![s] = log]
          /\ sub' = [sub EXCEPT ![s] = "ended"]
          /\ UNCHANGED <<log, closed>>

Leave(s) == /\ sub[s] = "in"
            /\ sub' = [sub EXCEPT ![s] = "left"]
            /\ UNCHANGED <<log, closed, got>>

Next == \/ \E e \in Event : Publish(e) \/ Close(e)
        \/ \E s \in Subscribers : Subscribe(s) \/ Deliver(s) \/ End(s) \/ Leave(s)

Spec == Init /\ [][Next]_vars

=============================================================================
