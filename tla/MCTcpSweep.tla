----------------------------- MODULE MCTcpSweep -----------------------------
(* Three hosts on two ports, two dials at a time, a channel of one place:    *)
(* the launcher waits for slots, workers wait for the channel.  Progress is  *)
(* reported at every other one of the six endpoints.                         *)
EXTENDS TcpSweep
=============================================================================
