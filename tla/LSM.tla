-------------------------------- MODULE LSM --------------------------------
(***************************************************************************)
(* The LSM tree of src/test/LSMTree/lsm.c: an in-memory block of nodes and *)
(* one file, disk_storage.txt, that put() rewrites when the block is full. *)
(*                                                                         *)
(* A process runs one call at a time; write_to_disk() is split where a     *)
(* crash would leave a different file behind (the truncation by fopen("w") *)
(* and the write), and the loop of merge() is that of module Merge.  The   *)
(* other calls are one step.                                               *)
(*                                                                         *)
(* search_disk() opens "disk_storae.txt", a file that nothing creates, and *)
(* so returns NULL for every key: get() sees the buffer only, and what     *)
(* delete() would do to the file is never reached.                         *)
(*                                                                         *)
(* The C array tree->block holds garbage above next_empty.  block is its   *)
(* live part, so next_empty is Len(block).                                 *)
(*                                                                         *)
(* A value is data the code copies and never inspects.  Each call that     *)
(* supplies one supplies a fresh one, its stamp: the value written by the  *)
(* n-th put() or update() is n.  A larger value is a later one.            *)
(***************************************************************************)
EXTENDS Merge

CONSTANTS
  BlockSize,    \* buffer_size, the argument of init_new_lsm()
  Keys,         \* the keys callers use
  MaxPuts,      \* bound: calls of put() and update()
  MaxNodes,     \* bound: size of a file on which write_to_disk() is called
                \* directly (put() is bounded by MaxPuts)
  SortedModes,  \* values of the argument sorted that the program is run with
  Ops,          \* the calls the program makes
  Faults,       \* "kill": the process may be killed; "torn": in the middle of
                \* a write; "short": fwrite() or fclose() may fail
  Garbage       \* what reading uninitialised heap memory may yield

ASSUME LSMAssumption ==
  /\ BlockSize \in Nat \ {0}
  /\ Keys \subseteq Int
  /\ MaxPuts \in Nat /\ MaxNodes \in Nat
  /\ SortedModes \subseteq BOOLEAN /\ SortedModes # {}
  /\ Ops \subseteq {"put", "get", "update", "delete", "flush", "destruct"}
  /\ Faults \subseteq {"kill", "torn", "short"}
  /\ Garbage \subseteq Node

VARIABLES
  block,      \* tree->block[0 .. next_empty - 1]
  sorted,     \* tree->sorted
  fileState,  \* disk_storage.txt: "absent", "empty" (zero bytes) or "written"
  count,      \* the header of the file, num_elements
  nodes,      \* the nodes that follow the header
  pc,         \* where the current call is; "idle" between calls, "dead" when
              \* the process has ended
  call,       \* the call in progress: "put", "flush" or "none"
  arg,        \* the node that put() will append
  out,        \* complete_data: what to write
  outCount,   \* num_elements as it will be written
  \* History: no guard of the code reads these.
  puts,       \* stamps handed out
  size,       \* nodes there should be: put() adds one, delete() removes one,
              \* and when a process ends those of the file remain
  ret,        \* for each key, the last value get() returned to this process
              \* (0: none yet)
  missed,     \* the keys for which its last get() returned NULL
  flushed,    \* stamps that a completed rewrite put in the file
  wiped       \* has a rewrite been cut short, by a kill after the truncation
              \* or by a failing fwrite() or fclose()?

fileVars == <<fileState, count, nodes>>
writeVars == <<call, arg, out, outCount>>
histVars == <<puts, size, ret, missed, flushed, wiped>>
vars == <<block, sorted, fileVars, pc, writeVars, histVars, mergeVars>>

NoArg == [key |-> 0, val |-> 0]

\* The values (stamps) in a sequence of nodes.
Vals(s) == {s[i].val : i \in 1..Len(s)}

-----------------------------------------------------------------------------
\* Memory

\* int a with its m low bytes overwritten by those of b (little endian).
LowBytes(a, b, m) ==
  IF m >= 4 THEN b
  ELSE LET p == <<1, 256, 65536, 16777216>>[m + 1] IN (a - (a % p)) + (b % p)

\* The 8-byte node a with its first m bytes overwritten by those of b.
SpliceNode(a, b, m) ==
  [ key |-> IF m <= 0 THEN a.key ELSE LowBytes(a.key, b.key, m),
    val |-> IF m <= 4 THEN a.val ELSE LowBytes(a.val, b.val, m - 4) ]

\* memmove(&s[i], &s[i + 1], n) and one node less.  n counts bytes, so only
\* that many bytes of the tail move down; the other bytes stay where they are.
Memmove(s, i, n) ==
  [ j \in 1..(Len(s) - 1) |->
      IF j < i THEN s[j] ELSE SpliceNode(s[j], s[j + 1], n - 8 * (j - i)) ]

\* An array of n nodes of which only s was filled in.
Padded(s, n) == {s \o g : g \in [1..(n - Len(s)) -> Garbage]}

\* Mutant: the search runs from the end.
IsLast(s, k, i) ==
  /\ i \in 1..Len(s)
  /\ s[i].key = k
  /\ \A j \in (i + 1)..Len(s) : s[j].key # k

\* The result of a linear search: the first index that holds the key, or none.
IsFirst(s, k, i) ==
  /\ i \in 1..Len(s)
  /\ s[i].key = k
  /\ \A j \in 1..(i - 1) : s[j].key # k

Missing(s, k) == \A i \in 1..Len(s) : s[i].key # k

\* What write_to_disk() reads of an existing file: num_elements
\* starts at 0, and an array of that many nodes of which a short file fills
\* only a part.
FileData == IF fileState = "written" THEN Padded(nodes, count) ELSE {<<>>}

-----------------------------------------------------------------------------
\* The process

\* init_new_lsm(buffer_size, mode) in a directory without the file.
Init ==
  /\ block = <<>>
  /\ sorted \in SortedModes
  /\ fileState = "absent"
  /\ count = 0
  /\ nodes = <<>>
  /\ pc = "idle"
  /\ call = "none"
  /\ arg = NoArg
  /\ out = <<>>
  /\ outCount = 0
  /\ MergeInit(<<>>, <<>>)
  /\ puts = 0
  /\ size = 0
  /\ ret = [k \in Keys |-> 0]
  /\ missed = {}
  /\ flushed = {}
  /\ wiped = FALSE

\* A call returns and its local variables are gone.
Forgets ==
  /\ call' = "none"
  /\ arg' = NoArg
  /\ out' = <<>>
  /\ outCount' = 0

\* The process ends and with it everything in memory: what there is now is
\* what the file holds.
Dies ==
  /\ pc' = "dead"
  /\ block' = <<>>
  /\ ret' = [k \in Keys |-> 0]
  /\ missed' = {}
  /\ Forgets
  /\ MergeCall(<<>>, <<>>)
  /\ wiped' = (wiped \/ pc = "write")
  /\ size' = Len(nodes')
  /\ UNCHANGED <<sorted, puts, flushed>>

\* The program is run again: init_new_lsm() does not look at the file.
Restart ==
  /\ pc = "dead"
  /\ pc' = "idle"
  /\ sorted' \in SortedModes
  /\ UNCHANGED <<block, fileVars, writeVars, histVars, mergeVars>>

\* A call op is made between calls.
Calls(op) == op \in Ops /\ pc = "idle"

-----------------------------------------------------------------------------
\* The calls that return at once

Stamp == puts + 1

NewValue == puts < MaxPuts /\ puts' = Stamp

\* Mutant: the test for a full block is missing.
PutRoomAlways(k) ==
  /\ Calls("put") /\ NewValue
  /\ block' = Append(block, [key |-> k, val |-> Stamp])
  /\ size' = size + 1
  /\ UNCHANGED <<sorted, fileVars, pc, writeVars, ret, missed, flushed,
                 wiped, mergeVars>>

PutRoom(k) ==
  /\ Calls("put") /\ NewValue
  /\ Len(block) # BlockSize
  /\ block' = Append(block, [key |-> k, val |-> Stamp])
  /\ size' = size + 1
  /\ UNCHANGED <<sorted, fileVars, pc, writeVars, ret, missed, flushed,
                 wiped, mergeVars>>

\* get() leaves everything as it is.
Reads ==
  /\ Calls("get")
  /\ UNCHANGED <<block, sorted, fileVars, pc, writeVars, mergeVars,
                 puts, size, flushed, wiped>>

\* The first node of the buffer that has the key.
GetFromBuffer(k) ==
  /\ Reads
  /\ \E i \in 1..Len(block) :
       IsFirst(block, k, i) /\ ret' = [ret EXCEPT ![k] = block[i].val]
  /\ missed' = missed \ {k}

\* Not in the buffer: search_disk() cannot open its file and get() returns
\* NULL, whether or not the key is in disk_storage.txt.
GetFromDisk(k) ==
  /\ Reads
  /\ Missing(block, k)
  /\ missed' = missed \cup {k}
  /\ UNCHANGED ret

Update(k) ==
  /\ Calls("update") /\ NewValue
  /\ \E i \in 1..Len(block) :
       /\ IsFirst(block, k, i)
       /\ block' = [block EXCEPT ![i] = [key |-> k, val |-> Stamp]]
  /\ UNCHANGED <<sorted, fileVars, pc, writeVars, size, ret, missed, flushed,
                 wiped, mergeVars>>

\* update() prints ni->index before it tests ni: a key that is not in the
\* buffer dereferences NULL and the delete-and-put branch is never reached.
UpdateDies(k) ==
  /\ Calls("update")
  /\ Missing(block, k)
  /\ UNCHANGED fileVars
  /\ Dies

\* Mutant: next_empty is not decremented.
DeleteFromBufferUncounted(k) ==
  /\ Calls("delete")
  /\ \E i \in 1..Len(block) :
       /\ IsFirst(block, k, i)
       /\ block' = Append(Memmove(block, i, BlockSize - (i - 1)), block[Len(block)])
  /\ size' = size - 1
  /\ UNCHANGED <<sorted, fileVars, pc, writeVars, puts, ret, missed, flushed,
                 wiped, mergeVars>>

DeleteFromBuffer(k) ==
  /\ Calls("delete")
  /\ \E i \in 1..Len(block) :
       /\ IsFirst(block, k, i)
       /\ block' = Memmove(block, i, BlockSize - (i - 1))
  /\ size' = size - 1
  /\ UNCHANGED <<sorted, fileVars, pc, writeVars, puts, ret, missed, flushed,
                 wiped, mergeVars>>

\* Not in the buffer: search_disk() returns NULL here too, and assert(ni) fails.
DeleteDies(k) ==
  /\ Calls("delete")
  /\ Missing(block, k)
  /\ UNCHANGED fileVars
  /\ Dies

\* destruct_lsm() frees the block; it does not write it.
Destruct ==
  /\ Calls("destruct")
  /\ UNCHANGED fileVars
  /\ Dies

-----------------------------------------------------------------------------
\* The calls that rewrite the file

Starts(c) ==
  /\ call' = c
  /\ UNCHANGED <<block, sorted, fileVars, ret, missed, flushed, wiped, mergeVars>>

\* Mutant: the block counts as full one node early.
PutFullEarly(k) ==
  /\ Calls("put") /\ NewValue
  /\ Len(block) >= BlockSize - 1
  /\ arg' = [key |-> k, val |-> Stamp]
  /\ pc' = "sort"
  /\ size' = size + 1
  /\ Starts("put")
  /\ UNCHANGED <<out, outCount>>

\* put() on a full block calls write_to_disk() before it appends the node.
PutFull(k) ==
  /\ Calls("put") /\ NewValue
  /\ Len(block) = BlockSize
  /\ arg' = [key |-> k, val |-> Stamp]
  /\ pc' = "sort"
  /\ size' = size + 1
  /\ Starts("put")
  /\ UNCHANGED <<out, outCount>>

\* write_to_disk() is in lsm.h too: a caller may flush a block that is not full.
Flush ==
  /\ Calls("flush") /\ count < MaxNodes
  /\ pc' = "sort"
  /\ Starts("flush")
  /\ UNCHANGED <<arg, out, outCount, puts, size>>

Sort ==
  /\ pc = "sort"
  /\ IF sorted THEN \E s \in [1..Len(block) -> {block[i] : i \in 1..Len(block)}] :
                      IsMergeSortOf(s, block) /\ block' = s
     ELSE block' = block
  /\ pc' = "read"
  /\ UNCHANGED <<sorted, fileVars, writeVars, histVars, mergeVars>>

\* stat() fails: the block is what will be written.
ReadNoFile ==
  /\ pc = "read" /\ fileState = "absent"
  /\ out' = block
  /\ outCount' = Len(block)
  /\ pc' = "open"
  /\ UNCHANGED <<block, sorted, fileVars, call, arg, histVars, mergeVars>>

\* Mutant: the file is not read.
ReadFileNothing ==
  /\ pc = "read" /\ fileState # "absent"
  /\ MergeCall(<<>>, block)
  /\ pc' = "merge"
  /\ UNCHANGED <<block, sorted, fileVars, writeVars, histVars>>

\* The whole file is read and merge() is called on it and the block.
ReadFile ==
  /\ pc = "read" /\ fileState # "absent"
  /\ \E d \in FileData : MergeCall(d, block)
  /\ pc' = "merge"
  /\ UNCHANGED <<block, sorted, fileVars, writeVars, histVars>>

MergeLoop ==
  /\ pc = "merge"
  /\ MergeStep
  /\ UNCHANGED <<block, sorted, fileVars, pc, writeVars, histVars>>

\* Mutant: num_elements stays that of the old file.
MergeEndStale ==
  /\ pc = "merge"
  /\ MergeDone
  /\ out' = whole
  /\ outCount' = Len(left)
  /\ pc' = "open"
  /\ MergeCall(<<>>, <<>>)
  /\ UNCHANGED <<block, sorted, fileVars, call, arg, histVars>>

\* num_elements += block_size, whatever next_empty is.
MergeEnd ==
  /\ pc = "merge"
  /\ MergeDone
  /\ out' = whole
  /\ outCount' = Len(left) + BlockSize
  /\ pc' = "open"
  /\ MergeCall(<<>>, <<>>)
  /\ UNCHANGED <<block, sorted, fileVars, call, arg, histVars>>

\* fopen(tree->disk1, "w") truncates the file.
OpenWrite ==
  /\ pc = "open"
  /\ fileState' = "empty"
  /\ count' = 0
  /\ nodes' = <<>>
  /\ pc' = "write"
  /\ UNCHANGED <<block, sorted, writeVars, histVars, mergeVars>>

\* Mutant: put() appends before write_to_disk() resets next_empty.
CallReturnsEmpty ==
  /\ block' = <<>>
  /\ pc' = "idle"
  /\ Forgets
  /\ UNCHANGED <<sorted, puts, size, ret, missed, mergeVars>>

\* Mutant: next_empty is not reset, and put() drops its node for want of room.
CallReturnsFull ==
  /\ block' = block
  /\ pc' = "idle"
  /\ Forgets
  /\ UNCHANGED <<sorted, puts, size, ret, missed, mergeVars>>

\* write_to_disk() resets next_empty and put() appends the node it holds.
CallReturns ==
  /\ \/ call = "put" /\ block' = <<arg>>
     \/ call = "flush" /\ block' = <<>>
  /\ pc' = "idle"
  /\ Forgets
  /\ UNCHANGED <<sorted, puts, size, ret, missed, mergeVars>>

\* The file becomes the header and the first n of the nodes in s.
FileIs(s, n) ==
  /\ fileState' = "written"
  /\ count' = outCount
  /\ nodes' = SubSeq(s, 1, n)

\* fwrite() of the header and of num_elements nodes, fclose().
Write ==
  /\ pc = "write"
  /\ \E s \in Padded(out, outCount) : FileIs(s, outCount)
  /\ flushed' = flushed \cup Vals(out)
  /\ UNCHANGED wiped
  /\ CallReturns

\* fwrite() or fclose() fails after part of the data: perror() and go on.
WriteShort ==
  /\ pc = "write" /\ "short" \in Faults
  /\ \/ UNCHANGED fileVars
     \/ \E n \in 0..(outCount - 1), s \in Padded(out, outCount) : FileIs(s, n)
  /\ wiped' = TRUE
  /\ UNCHANGED flushed
  /\ CallReturns

Kill ==
  /\ pc # "dead" /\ "kill" \in Faults
  /\ UNCHANGED fileVars
  /\ Dies

\* Killed inside the write: after the header, which the fseek() behind it writes
\* out, or after some of the nodes.
KillTorn ==
  /\ pc = "write" /\ "torn" \in Faults
  /\ \E n \in 0..(outCount - 1), s \in Padded(out, outCount) : FileIs(s, n)
  /\ Dies

-----------------------------------------------------------------------------

\* The steps a call takes on its own once it has started.
CallStep ==
  \/ Sort \/ ReadNoFile \/ ReadFile \/ MergeLoop \/ MergeEnd
  \/ OpenWrite \/ Write \/ WriteShort

KeyCall(k) ==
  \/ PutRoom(k) \/ PutFull(k)
  \/ GetFromBuffer(k) \/ GetFromDisk(k)
  \/ Update(k) \/ UpdateDies(k)
  \/ DeleteFromBuffer(k) \/ DeleteDies(k)

Next ==
  \/ \E k \in Keys : KeyCall(k)
  \/ Flush \/ Destruct
  \/ CallStep
  \/ Kill \/ KillTorn \/ Restart

Spec == Init /\ [][Next]_vars

\* A call that has started keeps running: one thread, no lock, no wait.
FairSpec == Spec /\ WF_vars(CallStep)

-----------------------------------------------------------------------------
\* Properties

Nodes(s) == {s[i] : i \in 1..Len(s)}

LSMTypeOK ==
  /\ block \in Seq(Node) /\ Len(block) <= BlockSize
  /\ sorted \in BOOLEAN
  /\ fileState \in {"absent", "empty", "written"}
  /\ count \in Nat
  /\ nodes \in Seq(Node) /\ Len(nodes) <= count
  /\ pc \in {"idle", "dead", "sort", "read", "merge", "open", "write"}
  /\ call \in {"none", "put", "flush"}
  /\ call = "none" <=> pc \in {"idle", "dead"}
  /\ arg \in Node
  /\ out \in Seq(Node)
  /\ outCount \in Nat
  /\ puts \in 0..MaxPuts
  /\ size \in Int
  /\ ret \in [Keys -> Int]
  /\ missed \subseteq Keys
  /\ flushed \subseteq Int
  /\ wiped \in BOOLEAN
  /\ MergeTypeOK

\* x must precede y in the file: a smaller key, or a newer node of one key.
Before(x, y) == x.key < y.key \/ (x.key = y.key /\ x.val > y.val)

Ordered(s) == \A i, j \in 1..Len(s) : i < j => Before(s[i], s[j])

\* The file is sorted by key with the newest node of a key first, after any
\* number of flushes by any number of processes: print_disk_data() shows it so,
\* and a search of the file would have to find the newest node first.
DiskOrdered == Ordered(nodes)

\* The header is the number of nodes that follow it, after any number of
\* flushes and of kills that are not inside the write.  Every reader trusts it.
HeaderMatches == count = Len(nodes) /\ outCount = Len(out)

\* What a completed rewrite has put in the file stays there, unless a process
\* is killed between the truncation and the write.
DurableUnlessWiped == ~ wiped /\ pc # "write" => flushed \subseteq Vals(nodes)

\* One process never reads a value of a key older than one it has read, on
\* either side of the flush after which get() no longer finds the key: what is
\* in the buffer again later is newer than what was.
MonotonicReads == [][pc' # "dead" => \A k \in Keys : ret'[k] >= ret[k]]_vars

\* Without faults every value handed to put() is in the buffer, in the file or
\* in the array about to be written.
NothingLost ==
  pc # "dead" =>
    1..puts \subseteq Vals(block) \cup Vals(nodes) \cup Vals(out)
                        \cup Vals(left) \cup {arg.val}

\* Whatever fails or is cut short, the header never claims more nodes than
\* put() and update() were called, so the arrays allocated from it stay bounded.
HeaderBounded == count + Len(block) <= puts

\* Between calls the buffer and the file hold one node for each put() and one
\* less for each delete(), although delete() damages their contents; until a
\* rewrite is cut short.
SizeAccounting == pc = "idle" /\ ~ wiped => Len(block) + Len(nodes) = size

\* Every put() and write_to_disk() that is not killed returns.
CallsReturn == pc \notin {"idle", "dead"} ~> pc \in {"idle", "dead"}

-----------------------------------------------------------------------------
\* What the comments of lsm.c say, and the code does not do.

\* "search through the file on disk for this item": get() returns NULL only
\* for a key that is neither in the buffer nor in the file.
GetSearchesDisk ==
  [][\A k \in Keys : GetFromDisk(k) => Missing(nodes, k)]_vars

\* "Search buffer & disk for key, update associated value.": update() fails
\* only for a key that is neither in the buffer nor in the file.
UpdateSearchesDisk ==
  [][\A k \in Keys : UpdateDies(k) => Missing(nodes, k)]_vars

\* "Deletes the node containing the given key.": and leaves the others alone.
DeleteKeepsOthers ==
  [][\A k \in Keys, i \in 1..Len(block) :
       DeleteFromBuffer(k) /\ IsFirst(block, k, i) =>
         block' = SubSeq(block, 1, i - 1) \o SubSeq(block, i + 1, Len(block))]_vars

\* "sorted (bool): if true data on disk will be sorted."
SortedWhenAsked ==
  [][pc = "write" /\ pc' = "idle" /\ sorted => SortedByKey(nodes')]_vars
=============================================================================
