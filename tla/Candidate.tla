------------------------------ MODULE Candidate ------------------------------
(****************************************************************************)
(* A candidate's way through stage 2 with a share link: the service parses  *)
(* the link, the prober configures xray to dial the candidate with it,      *)
(* probeEndpoint (ProbeVerdict) measures it, and the server hands out the   *)
(* link with the candidate in the address slot.  What the user gets is not  *)
(* what was probed but a text derived from the same link, which a client    *)
(* will parse and dial by itself.                                           *)
(****************************************************************************)
EXTENDS ProbeVerdict, ShareLink

CONSTANTS Links,        \* the links a scan may be given
          Edge, Port    \* the candidate: its address and the scan's port

ASSUME CandidateAssumption == /\ Links \subseteq RawLinks
                              /\ Edge \in STRING \ {Absent}
                              /\ Port \in Ports

NoOutbound == [none |-> TRUE]

VARIABLES raw,          \* the link of the request
          stage,        \* parsing, configuring, probing, listed or failed
          outbound,     \* the Outbound the prober holds
          dialled,      \* the outbound of the configuration xray runs with
          handed        \* the candidate's link in the result's configs, if any

linkVars == <<raw, stage, outbound, dialled, handed>>
cvars    == <<raw, stage, outbound, dialled, handed, vars>>

CandidateInit == /\ Init
                 /\ raw \in Links
                 /\ stage = "parsing"
                 /\ outbound = NoOutbound /\ dialled = NoOutbound
                 /\ handed = {}

\* buildConfig: the prober gets the parsed link, or the scan is refused.
Configure == /\ stage = "parsing"
             /\ \/ parses(raw) /\ stage' = "configuring" /\ outbound' = Parse(raw)
                \/ ~parses(raw) /\ stage' = "failed" /\ UNCHANGED outbound
             /\ UNCHANGED <<raw, dialled, handed, vars>>

\* TestBatch starts xray on the batch's configuration; when it cannot be built
\* every candidate of the batch gets the error instead of a measurement.
StartXray == /\ stage = "configuring"
             /\ \/ /\ builds(outbound)
                   /\ stage' = "probing"
                   /\ dialled' = buildOutbound(outbound, Edge, Port)
                \/ ~builds(outbound) /\ stage' = "failed" /\ UNCHANGED dialled
             /\ UNCHANGED <<raw, outbound, handed, vars>>

Measure == stage = "probing" /\ Next /\ UNCHANGED linkVars

\* buildResult: an accepted candidate is an entry, and its link a config.
List == /\ stage = "probing" /\ pc = "returned"
        /\ stage' = "listed"
        /\ handed' = IF res.ok THEN {Substitute(raw, Edge, Port)} ELSE {}
        /\ UNCHANGED <<raw, outbound, dialled, vars>>

CandidateNext == Configure \/ StartXray \/ Measure \/ List

CandidateSpec == CandidateInit /\ [][CandidateNext]_cvars

-----------------------------------------------------------------------------
(* Properties *)

\* The outbound of a client that is given a link and no candidate.
clientDials(l) == LET o == Parse(l) IN buildOutbound(o, o.address, o.port)

sameNames(ob, used) ==
    [used EXCEPT !.handshake = [@ EXCEPT !.serverName = ob.handshake.serverName],
                 !.transport = [@ EXCEPT !.host = ob.transport.host]]

\* A confirmed candidate is handed out as it was probed: a client that dials
\* the new link makes the connection that was measured, to the same address,
\* with the same credentials, transport and handshake, and under the same SNI
\* and Host wherever the link names them.  Where it does not, the probe used the
\* server's address, which the new link no longer has, and the client presents
\* the candidate's.
HandedOutAsProbed ==
    \A l \in handed :
        LET used == clientDials(l) IN
        /\ parses(l) /\ builds(Parse(l))
        /\ sameNames(dialled, used) = dialled
        /\ raw.host # Absent => used = dialled
        /\ raw.sni # Absent => used.handshake = dialled.handshake

=============================================================================
