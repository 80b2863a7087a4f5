---------------------------- MODULE MCXrayExtract ----------------------------
(* Three processes and a binary of two chunks; nodes for the two names and   *)
(* for every open file.                                                      *)
EXTENDS XrayExtract, TLC

CONSTANTS a, b, c, n1, n2, n3, n4

MCProcs  == {a, b, c}
MCNodes  == {n1, n2, n3, n4}
Symmetry == Permutations(MCProcs) \union Permutations(MCNodes)
=============================================================================
