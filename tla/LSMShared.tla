----------------------------- MODULE LSMShared -----------------------------
(***************************************************************************)
(* Several processes that put() into LSM trees in one directory: each has  *)
(* its own block, and all rewrite one disk_storage.txt without a lock.     *)
(*                                                                         *)
(* write_to_disk() is split at its system calls.  The first fread() may    *)
(* get the header before another process changes the nodes behind it.  The *)
(* fseek() after the fwrite() of the header writes it out; the nodes       *)
(* follow in fclose().  Each process writes at its own file position, so a *)
(* write replaces a prefix of what is there.  The steps of one rewrite on  *)
(* its own are those of module LSM.                                        *)
(*                                                                         *)
(* As in LSM, the value of the n-th put() is n.                            *)
(***************************************************************************)
EXTENDS Integers, Sequences

CONSTANTS
  Procs,      \* the processes
  SortedProcs,\* those that run with sorted set
  BlockSize,  \* buffer_size, the same for all
  Keys,       \* the keys they put
  Garbage,    \* the node that uninitialised heap memory holds
  MaxPuts     \* bound: calls of put()

ASSUME SharedAssumption ==
  /\ SortedProcs \subseteq Procs
  /\ BlockSize \in Nat \ {0}
  /\ Keys \subseteq Int
  /\ Garbage \in [key : Int, val : Int]
  /\ MaxPuts \in Nat

VARIABLES
  at,       \* where each process is
  block,    \* its tree->block[0 .. next_empty - 1]
  arg,      \* the node its put() will append
  num,      \* its num_elements
  data,     \* its complete_data
  size,     \* bytes of the file: "absent", "none" or "some"
  count,    \* the header of the file
  nodes,    \* the nodes behind the header
  \* History: no guard of the code reads these.
  puts,     \* calls of put()
  flushes,  \* calls of write_to_disk() that know what they will write
  alone,    \* has no other process been rewriting since this one began?
  raced,    \* have two processes ever been rewriting at a time?
  wiped,    \* was a process killed after truncating the file?
  flushed   \* values that a completed rewrite has written

procVars == <<at, block, arg, num, data>>
fileVars == <<size, count, nodes>>
histVars == <<puts, flushes, alone, raced, wiped, flushed>>
sharedVars == <<procVars, fileVars, histVars>>

NoArg == [key |-> 0, val |-> 0]

\* merge_sort(), as MergeSort shows it.
Arrays == INSTANCE Merge WITH left <- <<>>, right <- <<>>, l <- 0, r <- 0,
                              whole <- <<>>, posL <- <<>>, posR <- <<>>

\* One round of the loops of merge(): the left node if its key is smaller or
\* the right array is used up, else the right one.
MergeTake(a, b, s) ==
  IF s.l < Len(a) /\ (s.r = Len(b) \/ a[s.l + 1].key < b[s.r + 1].key)
  THEN [l |-> s.l + 1, r |-> s.r, whole |-> Append(s.whole, a[s.l + 1])]
  ELSE [l |-> s.l, r |-> s.r + 1, whole |-> Append(s.whole, b[s.r + 1])]

\* The rounds of merge(complete_data, a, |a|, b, |b|), and its result.
MergeRounds(a, b) ==
  LET m[n \in 0..(Len(a) + Len(b))] ==
        IF n = 0 THEN [l |-> 0, r |-> 0, whole |-> <<>>]
        ELSE MergeTake(a, b, m[n - 1])
  IN  m

MergeOf(a, b) == MergeRounds(a, b)[Len(a) + Len(b)].whole

\* The first n nodes of the file in an array of n; behind its end the array
\* stays as it was.
ReadArray(n) == [i \in 1..n |-> IF i <= Len(nodes) THEN nodes[i] ELSE Garbage]

Vals(s) == {s[i].val : i \in 1..Len(s)}

\* Between its first read and its last write.
Rewriting == {p \in Procs : at[p] \in {"data", "open", "header", "nodes"}}

\* Between the truncation and the last write.
Writing == {p \in Procs : at[p] \in {"header", "nodes"}}

SharedInit ==
  /\ at = [p \in Procs |-> "idle"]
  /\ block = [p \in Procs |-> <<>>]
  /\ arg = [p \in Procs |-> NoArg]
  /\ num = [p \in Procs |-> 0]
  /\ data = [p \in Procs |-> <<>>]
  /\ size = "absent" /\ count = 0 /\ nodes = <<>>
  /\ puts = 0
  /\ flushes = 0
  /\ alone = [p \in Procs |-> FALSE]
  /\ raced = FALSE
  /\ wiped = FALSE
  /\ flushed = {}

Goes(p, from, to) == at[p] = from /\ at' = [at EXCEPT ![p] = to]

-----------------------------------------------------------------------------
\* put()

NewNode(k) == [key |-> k, val |-> puts + 1]

PutRoom(p, k) ==
  /\ puts < MaxPuts /\ puts' = puts + 1
  /\ at[p] = "idle" /\ Len(block[p]) # BlockSize
  /\ block' = [block EXCEPT ![p] = Append(@, NewNode(k))]
  /\ UNCHANGED <<at, arg, num, data, fileVars, flushes, alone, raced, wiped, flushed>>

\* The block is full: write_to_disk(), which first sorts it if tree->sorted.
PutFull(p, k) ==
  /\ puts < MaxPuts /\ puts' = puts + 1
  /\ Goes(p, "idle", "stat") /\ Len(block[p]) = BlockSize
  /\ arg' = [arg EXCEPT ![p] = NewNode(k)]
  /\ IF p \in SortedProcs
     THEN \E s \in [1..BlockSize -> {block[p][i] : i \in 1..BlockSize}] :
            Arrays!IsMergeSortOf(s, block[p]) /\ block' = [block EXCEPT ![p] = s]
     ELSE UNCHANGED block
  /\ UNCHANGED <<num, data, fileVars, flushes, alone, raced, wiped, flushed>>

\* History: p begins to rewrite.
Begins(p) ==
  /\ alone' = [q \in Procs |-> IF q = p THEN Rewriting = {} ELSE FALSE]
  /\ raced' = (raced \/ Rewriting # {})

\* stat() fails: the block is what will be written.
StatFails(p) ==
  /\ Goes(p, "stat", "open") /\ size = "absent"
  /\ num' = [num EXCEPT ![p] = Len(block[p])]
  /\ data' = [data EXCEPT ![p] = block[p]]
  /\ flushes' = flushes + 1
  /\ Begins(p)
  /\ UNCHANGED <<block, arg, fileVars, puts, wiped, flushed>>

\* fread() of the header, which a file without bytes does not have:
\* num_elements is then 0 as it was.
ReadHeader(p) ==
  /\ Goes(p, "stat", "data") /\ size # "absent"
  /\ num' = [num EXCEPT ![p] = count]
  /\ Begins(p)
  /\ UNCHANGED <<block, arg, data, fileVars, puts, flushes, wiped, flushed>>

\* Mutant: the file is taken to be empty.
ReadDataNothing(p) ==
  /\ Goes(p, "data", "open")
  /\ data' = [data EXCEPT ![p] = block[p]]
  /\ num' = [num EXCEPT ![p] = BlockSize]
  /\ flushes' = flushes + 1
  /\ UNCHANGED <<block, arg, fileVars, puts, alone, raced, wiped, flushed>>

\* Mutant: block_size is added before the nodes are read, and once more.
ReadDataTwice(p) ==
  /\ Goes(p, "data", "open")
  /\ data' = [data EXCEPT ![p] = MergeOf(ReadArray(num[p]), block[p])]
  /\ num' = [num EXCEPT ![p] = @ + 2 * BlockSize]
  /\ flushes' = flushes + 1
  /\ UNCHANGED <<block, arg, fileVars, puts, alone, raced, wiped, flushed>>

\* Mutant: nodes are read up to the end of the file, whatever the header says.
ReadDataAll(p) ==
  /\ Goes(p, "data", "open")
  /\ data' = [data EXCEPT ![p] = MergeOf(nodes, block[p])]
  /\ num' = [num EXCEPT ![p] = @ + BlockSize]
  /\ flushes' = flushes + 1
  /\ UNCHANGED <<block, arg, fileVars, puts, alone, raced, wiped, flushed>>

\* fread() of num_elements nodes, merge() and num_elements += block_size.
ReadData(p) ==
  /\ Goes(p, "data", "open")
  /\ data' = [data EXCEPT ![p] = MergeOf(ReadArray(num[p]), block[p])]
  /\ num' = [num EXCEPT ![p] = @ + BlockSize]
  /\ flushes' = flushes + 1
  /\ UNCHANGED <<block, arg, fileVars, puts, alone, raced, wiped, flushed>>

\* fopen(tree->disk1, "w")
OpenWrite(p) ==
  /\ Goes(p, "open", "header")
  /\ size' = "none" /\ count' = 0 /\ nodes' = <<>>
  /\ UNCHANGED <<block, arg, num, data, histVars>>

\* fwrite() of the header, and fseek() to the place behind it.
WriteHeader(p) ==
  /\ Goes(p, "header", "nodes")
  /\ size' = "some" /\ count' = num[p]
  /\ UNCHANGED <<block, arg, num, data, nodes, histVars>>

\* fwrite() of num_elements nodes and fclose().  If the file was truncated
\* since, the header is a hole and reads as 0.  put() appends its node to the
\* block, now empty.
WriteNodes(p) ==
  /\ Goes(p, "nodes", "idle")
  /\ size' = "some"
  /\ nodes' = data[p] \o SubSeq(nodes, Len(data[p]) + 1, Len(nodes))
  /\ flushed' = flushed \cup Vals(data[p])
  /\ block' = [block EXCEPT ![p] = <<arg[p]>>]
  /\ arg' = [arg EXCEPT ![p] = NoArg]
  /\ num' = [num EXCEPT ![p] = 0]
  /\ data' = [data EXCEPT ![p] = <<>>]
  /\ UNCHANGED <<count, puts, flushes, alone, raced, wiped>>

\* The process ends at whatever step, and a new one starts in its place.
Kill(p) ==
  /\ at' = [at EXCEPT ![p] = "idle"]
  /\ block' = [block EXCEPT ![p] = <<>>]
  /\ arg' = [arg EXCEPT ![p] = NoArg]
  /\ num' = [num EXCEPT ![p] = 0]
  /\ data' = [data EXCEPT ![p] = <<>>]
  /\ wiped' = (wiped \/ p \in Writing)
  /\ UNCHANGED <<fileVars, puts, flushes, alone, raced, flushed>>

-----------------------------------------------------------------------------

FlushStep(p) ==
  \/ StatFails(p) \/ ReadHeader(p) \/ ReadData(p)
  \/ OpenWrite(p) \/ WriteHeader(p) \/ WriteNodes(p)

SharedNext ==
  \E p \in Procs :
    \/ \E k \in Keys : PutRoom(p, k) \/ PutFull(p, k)
    \/ FlushStep(p)
    \/ Kill(p)

SharedSpec == SharedInit /\ [][SharedNext]_sharedVars

-----------------------------------------------------------------------------
\* Properties

\* Whatever two rewrites do to each other, and whatever garbage one of them
\* reads, the header never claims more than one block for each call of
\* write_to_disk(): the arrays that later calls allocate from it are bounded.
SharedHeaderBounded == count <= BlockSize * flushes

\* Processes whose rewrites have never met share the file without loss: what
\* one has written stays, whoever rewrites the file next, unless a process was
\* killed after truncating it.
LostOnlyByRace ==
  ~ raced /\ ~ wiped /\ Writing = {} => flushed \subseteq Vals(nodes)

\* A rewrite that met no other one repairs what earlier races and kills have
\* left, a header without nodes or nodes without a header: afterwards the
\* header is the number of nodes, and the block it wrote is among them.
RewriteRepairs ==
  [][\A p \in Procs :
       WriteNodes(p) /\ alone[p] =>
         count' = Len(nodes') /\ Vals(block[p]) \subseteq Vals(nodes')]_sharedVars
=============================================================================
