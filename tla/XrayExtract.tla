----------------------------- MODULE XrayExtract -----------------------------
(****************************************************************************)
(* ExtractEmbedded, by several processes of the program that share the      *)
(* user's cache directory: the embedded xray is copied to <dst>.new and     *)
(* renamed to dst, whose size decides whether the next process reuses it.   *)
(*                                                                          *)
(* A file is a node of the file system, and its content the set of chunks   *)
(* that were written to it: every process writes the same bytes at the same *)
(* places, a place that was skipped reads as zeroes, and the size is that   *)
(* of the last chunk.  Names are links to nodes (POSIX: a rename or an      *)
(* unlink does not disturb who has the node open).  A process may be killed *)
(* at any step; the loss of unsynced data in a power failure is left out.   *)
(****************************************************************************)
EXTENDS Integers

CONSTANTS Procs, Nodes, NoNode,
          Size                  \* chunks of the binary

ASSUME ExtractAssumption == NoNode \notin Nodes /\ Size \in Nat \ {0}

Whole == 1..Size

VARIABLES pc,       \* where Resolve is
          fd,       \* fd[p]: the node p has open, or NoNode
          pos,      \* pos[p]: chunks p has copied
          tmp, dst, \* the nodes of the two names, or NoNode
          data,     \* data[n]: the chunks in node n
          result,   \* what Resolve returned: "none", "extracted" or "found"
          erred,    \* an I/O call of this Resolve failed (history)
          shared,   \* two extractions were under way at once (history)
          broken    \* a copy was cut short by an error or a kill (history)

extractVars == <<pc, fd, pos, tmp, dst, data, result, erred, shared, broken>>

Extracting == {"copy", "rename", "cleanup"}

ExtractInit == /\ pc = [p \in Procs |-> "idle"]
               /\ fd = [p \in Procs |-> NoNode]
               /\ pos = [p \in Procs |-> 0]
               /\ tmp = NoNode /\ dst = NoNode
               /\ data = [n \in Nodes |-> {}]
               /\ result = [p \in Procs |-> "none"]
               /\ erred = [p \in Procs |-> FALSE]
               /\ shared = FALSE /\ broken = FALSE

-----------------------------------------------------------------------------
Step(p, from, to)   == pc[p] = from /\ pc' = [pc EXCEPT ![p] = to]
Returns(p, from, r) == Step(p, from, "done") /\ result' = [result EXCEPT ![p] = r]

\* ExtractEmbedded fails: Resolve falls back to FindBinary.
GiveUp(p, from) == /\ Returns(p, from, "found")
                   /\ erred' = [erred EXCEPT ![p] = TRUE]
                   /\ UNCHANGED <<fd, pos, tmp, dst, data, shared, broken>>

\* A scan with an empty xray path calls Resolve; cacheDir may fail.
Begin(p) == \/ /\ Step(p, "idle", "stat")
               /\ UNCHANGED <<fd, pos, tmp, dst, data, result, erred, shared, broken>>
            \/ GiveUp(p, "idle")

\* os.Stat: an extraction of the right size is reused.
RightSize == dst # NoNode /\ Size \in data[dst]

Stat(p) == /\ IF RightSize THEN Returns(p, "stat", "extracted")
              ELSE Step(p, "stat", "open") /\ UNCHANGED result
           /\ UNCHANGED <<fd, pos, tmp, dst, data, erred, shared, broken>>

\* Nodes nobody refers to, one of which a new file gets.
Free == Nodes \ ({tmp, dst} \union {fd[q] : q \in Procs})

Opened(p, n) == /\ fd' = [fd EXCEPT ![p] = n]
                /\ pos' = [pos EXCEPT ![p] = 0]
                /\ data' = [data EXCEPT ![n] = {}]
                /\ shared' = (shared \/ \E q \in Procs \ {p} : pc[q] \in Extracting)
                /\ UNCHANGED <<dst, result, erred, broken>>

\* os.OpenFile with O_CREATE and O_TRUNC: another process's unfinished file is
\* opened and emptied.
Open(p) == \/ /\ Step(p, "open", "copy")
              /\ \E n \in IF tmp = NoNode THEN Free ELSE {tmp} : tmp' = n /\ Opened(p, n)
           \/ GiveUp(p, "open")

\* io.Copy, chunk by chunk, each at the process's own offset.
Copy(p) == /\ pc[p] = "copy" /\ pos[p] < Size
           /\ data' = [data EXCEPT ![fd[p]] = @ \union {pos[p] + 1}]
           /\ pos' = [pos EXCEPT ![p] = @ + 1]
           /\ UNCHANGED <<pc, fd, tmp, dst, result, erred, shared, broken>>

\* The file is closed.
Closed(p) == fd' = [fd EXCEPT ![p] = NoNode] /\ pos' = [pos EXCEPT ![p] = 0]

\* Faulty variant: an error of io.Copy is not looked at.
CopyFailsUnseen(p) == /\ Step(p, "copy", "rename")
                      /\ Closed(p)
                      /\ erred' = [erred EXCEPT ![p] = TRUE]
                      /\ broken' = TRUE
                      /\ UNCHANGED <<tmp, dst, data, result, shared>>

\* io.Copy or Close returns an error; the file is closed.
CopyFails(p) == /\ Step(p, "copy", "cleanup")
                /\ Closed(p)
                /\ erred' = [erred EXCEPT ![p] = TRUE]
                /\ broken' = TRUE
                /\ UNCHANGED <<tmp, dst, data, result, shared>>

\* Faulty variant: the last chunk is not waited for.
CloseShort(p) == /\ pos[p] >= Size - 1
                 /\ Step(p, "copy", "rename")
                 /\ Closed(p)
                 /\ UNCHANGED <<tmp, dst, data, result, erred, shared, broken>>

Close(p) == /\ pos[p] = Size
            /\ Step(p, "copy", "rename")
            /\ Closed(p)
            /\ UNCHANGED <<tmp, dst, data, result, erred, shared, broken>>

\* os.Rename of whatever the temporary name stands for by now.
Rename(p) == \/ /\ tmp # NoNode
                /\ Returns(p, "rename", "extracted")
                /\ dst' = tmp /\ tmp' = NoNode
                /\ UNCHANGED <<fd, pos, data, erred, shared, broken>>
             \/ /\ Step(p, "rename", "cleanup")
                /\ erred' = [erred EXCEPT ![p] = (tmp # NoNode)]
                /\ UNCHANGED <<fd, pos, tmp, dst, data, result, shared, broken>>

\* os.Remove of the temporary name.
Cleanup(p) == /\ Returns(p, "cleanup", "found")
              /\ tmp' = NoNode
              /\ UNCHANGED <<fd, pos, dst, data, erred, shared, broken>>

Forgotten(p) == /\ result' = [result EXCEPT ![p] = "none"]
                /\ erred' = [erred EXCEPT ![p] = FALSE]

\* The process is killed; the next one starts from the beginning.
Kill(p) == /\ pc[p] # "idle"
           /\ pc' = [pc EXCEPT ![p] = "idle"]
           /\ Closed(p) /\ Forgotten(p)
           /\ broken' = (broken \/ pc[p] = "copy")
           /\ UNCHANGED <<tmp, dst, data, shared>>

\* The scan is over; the next one resolves again.
Again(p) == /\ Step(p, "done", "idle")
            /\ Forgotten(p)
            /\ UNCHANGED <<fd, pos, tmp, dst, data, shared, broken>>

Resolve(p) == \/ Begin(p) \/ Stat(p) \/ Open(p) \/ Copy(p) \/ CopyFails(p) \/ Close(p)
              \/ Rename(p) \/ Cleanup(p) \/ Kill(p) \/ Again(p)

ExtractNext == \E p \in Procs : Resolve(p)

ExtractSpec == ExtractInit /\ [][ExtractNext]_extractVars

-----------------------------------------------------------------------------
(* Properties *)

PcValues == Extracting \union {"idle", "stat", "open", "done"}

\* Type invariant of the processes and their files.
ExtractTypeOK == /\ pc \in [Procs -> PcValues]
                 /\ fd \in [Procs -> Nodes \union {NoNode}]
                 /\ pos \in [Procs -> 0..Size]
                 /\ tmp \in Nodes \union {NoNode} /\ dst \in Nodes \union {NoNode}
                 /\ data \in [Nodes -> SUBSET Whole]
                 /\ result \in [Procs -> {"none", "extracted", "found"}]
                 /\ erred \in [Procs -> BOOLEAN]
                 /\ shared \in BOOLEAN /\ broken \in BOOLEAN

Intact == dst = NoNode \/ data[dst] = Whole

\* As long as extractions do not overlap, the binary under its final name is
\* whole at every moment, however often a copy fails or is killed and whatever
\* it leaves behind, and Resolve falls back to another xray only after an
\* error of its own.
LoneExtractionIsSafe ==
    ~shared => /\ Intact
               /\ \A p \in Procs : result[p] = "found" => erred[p]

\* Extractions that overlap write to one file, rename each other's and find
\* theirs gone; but if no copy is cut short, the binary is whole again when the
\* last of them is through.  (With a copy cut short it may keep the right size
\* and a gap for good.)
OverlapSettles ==
    ~broken /\ (\A p \in Procs : pc[p] # "copy") => Intact

=============================================================================
