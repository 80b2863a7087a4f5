----------------------------- MODULE MCJobStream -----------------------------
(* The streams of one job.  They do not act on each other: one is enough for *)
(* the violation.                                                            *)
EXTENDS JobStream

CONSTANTS s1, s2

OneStream  == {s1}
TwoStreams == {s1, s2}
=============================================================================
