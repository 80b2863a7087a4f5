----------------------------- MODULE MCRangeFetch -----------------------------
(* Bodies for RangeFetch: every shape with usable entries, with entries of    *)
(* each kind, and without any.                                                *)
EXTENDS RangeFetch

CONSTANTS net4, net6, loopback, junk

MCBodies == { [shape |-> "rangefile", cidrs |-> {net4, loopback}],
              [shape |-> "rangefile", cidrs |-> {junk}],
              [shape |-> "rangefile", cidrs |-> {}],
              [shape |-> "aws",       cidrs |-> {net4, net6, junk}],
              [shape |-> "text",      cidrs |-> {net6, loopback}],
              [shape |-> "text",      cidrs |-> {loopback, junk}] }
=============================================================================
