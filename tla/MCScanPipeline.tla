---------------------------- MODULE MCScanPipeline ----------------------------
(* Two built-ins and a custom target; the lists of a command line, which may  *)
(* name one twice, and the single names of the browser; two hosts, one of a   *)
(* family that is not scanned.                                                *)
EXTENDS ScanPipeline

CONSTANTS cdn1, cdn2, mine, h1, h2

MCLists == {{}, {h1, h2}}
MCQueues == {<<mine>>, <<cdn1, cdn2>>, <<cdn1, cdn1>>}
=============================================================================
