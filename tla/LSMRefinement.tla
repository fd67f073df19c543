--------------------------- MODULE LSMRefinement ---------------------------
(***************************************************************************)
(* The LSM tree, used only through put() and get(), implements             *)
(* VersionStore.  The buffer is the memory.  The disk is the file, or      *)
(* between its truncation and the write the array about to be written,     *)
(* less what comes from the buffer: the move from memory to disk happens   *)
(* when the write completes.                                               *)
(***************************************************************************)
EXTENDS LSM

\* The values of key k in a set of nodes.
ValsOf(S, k) == {n.val : n \in {m \in S : m.key = k}}

Durable == IF pc = "write" THEN out ELSE nodes

Mem == [k \in Keys |-> ValsOf(Nodes(block), k)]

Disk == [k \in Keys |-> ValsOf(Nodes(Durable) \ Nodes(block), k)]

VS == INSTANCE VersionStore
        WITH Versions <- 1..MaxPuts, mem <- Mem, disk <- Disk, seen <- ret,
             missed <- missed

\* put() and get() behave as the version store says, however often the process
\* is killed and run again, unless a kill is inside a write: get() returns the
\* oldest buffered version, or NULL once the flush has taken the key to the
\* file, and no flush loses a version that was in the buffer or the file.
ImplementsVersionStore == VS!VSSpec
=============================================================================
