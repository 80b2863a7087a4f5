------------------------------- MODULE ScanPage -------------------------------
(****************************************************************************)
(* The web page's start/stop button against the server: start() of          *)
(* index.html, the handlers of its event source, and the requests they      *)
(* exchange with ScanServer, whose steps are taken here unchanged.          *)
(*                                                                          *)
(* start() runs on every click and awaits the reply to its POST without     *)
(* locking the button, so several can be under way; the handlers of an      *)
(* event source all speak of the global es, not of the source they belong   *)
(* to.  A stop is sent and forgotten: it reaches the server at any later    *)
(* time.  Of the events of a stream only "done" and the error of the        *)
(* connection change what the page does.                                    *)
(****************************************************************************)
EXTENDS ScanServer

CONSTANT Pages      \* open browser tabs

VARIABLES asked,      \* asked[p]: requests page p has sent to /api/scan
          awaited,    \* awaited[p]: those whose reply start() still awaits
          es,         \* es[p]: the scan of the global event source, or NoReq
          streams,    \* streams[p]: event sources the browser keeps open
          running,    \* running[p]: the button reads "Stop"
          target,     \* target[t]: the scan page es showed when t was sent
          early,      \* stops read before their scan was published (history)
          crossed,    \* pages that sent a request while awaiting (history)
          dropped     \* scans whose reply or stream was lost (history)

reqVars  == <<asked, awaited>>
pageVars == <<asked, awaited, es, streams, running, target, early, crossed, dropped>>
allVars  == <<vars, pageVars>>

\* Requests and stops are named when they are sent.
Unasked == Reqs \ UNION {asked[p] : p \in Pages}
Unsent  == {t \in Stops : target[t] = NoReq}

PageInit == /\ Init
            /\ asked = [p \in Pages |-> {}] /\ awaited = [p \in Pages |-> {}]
            /\ es = [p \in Pages |-> NoReq] /\ streams = [p \in Pages |-> {}]
            /\ running = [p \in Pages |-> FALSE]
            /\ target = [t \in Stops |-> NoReq]
            /\ early = {} /\ crossed = {} /\ dropped = {}

-----------------------------------------------------------------------------
(* start() *)

\* es is set: the scan is given up and /api/stop called, nothing awaited.
ClickStop(p, t) ==
    /\ es[p] # NoReq /\ t \in Unsent
    /\ t = CHOOSE u \in Unsent : TRUE
    /\ streams' = [streams EXCEPT ![p] = @ \ {es[p]}]
    /\ target' = [target EXCEPT ![t] = es[p]]
    /\ es' = [es EXCEPT ![p] = NoReq]
    /\ running' = [running EXCEPT ![p] = FALSE]
    /\ UNCHANGED <<vars, reqVars, early, crossed, dropped>>

\* Otherwise a scan is requested.
ClickStart(p, r) ==
    /\ es[p] = NoReq
    /\ r \in Unasked /\ r = CHOOSE q \in Unasked : TRUE
    /\ asked' = [asked EXCEPT ![p] = @ \union {r}]
    /\ awaited' = [awaited EXCEPT ![p] = @ \union {r}]
    /\ running' = [running EXCEPT ![p] = TRUE]
    /\ crossed' = IF awaited[p] = {} THEN crossed ELSE crossed \union {p}
    /\ UNCHANGED <<vars, es, streams, target, early, dropped>>

Awaited(p, r) == r \in awaited[p] /\ awaited' = [awaited EXCEPT ![p] = @ \ {r}]

\* 409, or the request failed: the answer never comes.
Refused(p, r) ==
    /\ Awaited(p, r)
    /\ \/ pc[r] = "rejected" /\ dropped' = dropped
       \/ pc[r] # "rejected" /\ dropped' = dropped \union {r}
    /\ running' = [running EXCEPT ![p] = FALSE]
    /\ UNCHANGED <<vars, asked, es, streams, target, early, crossed>>

\* The id of the job: handleScan replies once its goroutine is started.
Accepted(p, r) ==
    /\ Awaited(p, r)
    /\ pc[r] \notin Jobless
    /\ es' = [es EXCEPT ![p] = r]
    /\ streams' = [streams EXCEPT ![p] = @ \union {r}]
    /\ UNCHANGED <<vars, asked, running, target, early, crossed, dropped>>

-----------------------------------------------------------------------------
(* Handlers of an event source: whichever stream r calls them, it is es that
   they close. *)

CloseEs(p) == /\ streams' = [streams EXCEPT ![p] = @ \ {es[p]}]
              /\ es' = [es EXCEPT ![p] = NoReq]
              /\ running' = [running EXCEPT ![p] = FALSE]

\* Faulty variant: the button is not reset.
OnDoneMute(p, r) ==
    /\ r \in streams[p] /\ done[r] /\ es[p] # NoReq
    /\ streams' = [streams EXCEPT ![p] = @ \ {es[p]}]
    /\ es' = [es EXCEPT ![p] = NoReq]
    /\ UNCHANGED <<vars, reqVars, running, target, early, crossed, dropped>>

\* "done".  Without es the handler throws, and changes nothing.
OnDone(p, r) ==
    /\ r \in streams[p] /\ done[r] /\ es[p] # NoReq
    /\ CloseEs(p)
    /\ UNCHANGED <<vars, reqVars, target, early, crossed, dropped>>

\* onerror
OnError(p, r) ==
    /\ r \in streams[p]
    /\ CloseEs(p)
    /\ dropped' = dropped \union {r}
    /\ UNCHANGED <<vars, reqVars, target, early, crossed>>

-----------------------------------------------------------------------------
(* Composition *)

\* The server's handlers act on requests that were sent.
Receive(r) == /\ \E p \in Pages : r \in asked[p]
              /\ Handler(r)
              /\ UNCHANGED pageVars

\* The history variable records whether the stop comes before Publish.
ReceiveStop(t) == /\ t \notin Unsent
                  /\ StopRead(t)
                  /\ early' = IF pc[target[t]] = "spawned" THEN early \union {t} ELSE early
                  /\ UNCHANGED <<asked, awaited, es, streams, running, target,
                                 crossed, dropped>>

Serve == \/ \E r \in Reqs : Goroutine(r)
         \/ \E t \in Stops : StopCancel(t)
         \/ Tick

Page(p) == \/ \E t \in Stops : ClickStop(p, t)
           \/ \E r \in Reqs : \/ ClickStart(p, r) \/ Refused(p, r) \/ Accepted(p, r)
                              \/ OnDone(p, r) \/ OnError(p, r)

PageNext == \/ \E p \in Pages : Page(p)
            \/ \E r \in Reqs : Receive(r)
            \/ \E t \in Stops : ReceiveStop(t)
            \/ Serve /\ UNCHANGED pageVars

\* The server's fairness; a stop that was sent arrives.  Users do as they like.
PageSpec == /\ PageInit /\ [][PageNext]_allVars
            /\ Fairness
            /\ \A t \in Stops : WF_allVars(ReceiveStop(t))

-----------------------------------------------------------------------------
(* Properties *)

\* Type invariant of the pages.
PagesTypeOK == /\ TypeOK
               /\ asked \in [Pages -> SUBSET Reqs] /\ awaited \in [Pages -> SUBSET Reqs]
               /\ es \in [Pages -> Reqs \union {NoReq}]
               /\ streams \in [Pages -> SUBSET Reqs]
               /\ running \in [Pages -> BOOLEAN]
               /\ target \in [Stops -> Reqs \union {NoReq}]
               /\ early \subseteq Stops /\ crossed \subseteq Pages /\ dropped \subseteq Reqs

\* On a page where no two starts were under way at once, the button and the
\* server agree: it reads "Stop" exactly while a request is awaited or a stream
\* shown, no other stream is left open, and a scan of that page which runs
\* while the button reads "Start" was stopped there, has already reported its
\* end, or lost its reply or its stream.
PageFollowsItsScan ==
    \A p \in Pages \ crossed :
        /\ running[p] <=> es[p] # NoReq \/ awaited[p] # {}
        /\ streams[p] = {es[p]} \ {NoReq}
        /\ ~running[p] => \A r \in asked[p] : pc[r] \in Active =>
               done[r] \/ r \in dropped \/ \E t \in Stops : target[t] = r

\* A stop reaches the scan its page showed, even when it is delayed, unless it
\* is read before that scan has published its cancel function, or after the
\* scan has withdrawn it; and then it may reach the next one.
StopsReachTheScanShown ==
    \A t \in Stops : stopPc[t] # "idle" =>
        \/ held[t] = target[t]
        \/ t \in early /\ held[t] = NoReq
        \/ pc[target[t]] \in {"cleared", "over"}

=============================================================================
