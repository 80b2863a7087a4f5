------------------------------ MODULE MCScanPage ------------------------------
(* Two scan requests and two stops, from two pages in every combination, over *)
(* a clock of a few hours.                                                    *)
EXTENDS ScanPage

CONSTANTS r1, r2, t1, t2, p1, p2

MCReqs  == {r1, r2}
MCStops == {t1, t2}
MCPages == {p1, p2}
=============================================================================
