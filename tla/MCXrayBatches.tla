---------------------------- MODULE MCXrayBatches ----------------------------
(* Three candidates in batches of two, over three loopback ports; two     *)
(* candidates over two ports, where batches must meet, for the violation.    *)
EXTENDS XrayBatches

CONSTANTS p1, p2, p3

MCPorts == {p1, p2, p3}
TwoPorts == {p1, p2}
=============================================================================
