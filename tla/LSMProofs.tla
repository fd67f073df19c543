----------------------------- MODULE LSMProofs ------------------------------
(***************************************************************************)
(* Theorems about the LSM tree, for every block size, every set of keys    *)
(* and every number of calls: its types, the bound on the header, the      *)
(* number of nodes, the order of the file, and that no value is lost.      *)
(***************************************************************************)
EXTENDS LSM, MergeProofs

-----------------------------------------------------------------------------
\* What the operators on arrays return.

\* An array that is read short is filled up to its length, and keeps what was
\* read.
LEMMA PaddedProperties ==
  ASSUME NEW s \in Seq(Node), NEW n \in Nat, Len(s) <= n,
         NEW d \in Padded(s, n)
  PROVE  /\ d \in Seq(Node)
         /\ Len(d) = n
         /\ \A i \in 1..Len(s) : d[i] = s[i]
<1>1. PICK g \in [1..(n - Len(s)) -> Garbage] : d = s \o g
  BY DEF Padded
<1>2. Len(s) \in Nat /\ n - Len(s) \in Nat
  OBVIOUS
<1>3. g \in Seq(Node) /\ Len(g) = n - Len(s)
  <2>1. Garbage \subseteq Node
    BY LSMAssumption
  <2>2. g \in [1..(n - Len(s)) -> Node]
    BY <1>1, <2>1
  <2>3. QED
    BY <1>2, <2>2
<1>4. QED
  BY <1>1, <1>2, <1>3, ConcatProperties

\* memmove() of fewer bytes than a node leaves an integer an integer.
LEMMA LowBytesInt ==
  ASSUME NEW a \in Int, NEW b \in Int, NEW m \in Int, m >= 0
  PROVE  LowBytes(a, b, m) \in Int
<1>1. CASE m >= 4
  BY <1>1 DEF LowBytes
<1>2. CASE m \in {0, 1, 2, 3}
  <2> DEFINE p == <<1, 256, 65536, 16777216>>[m + 1]
  <2>1. p \in {1, 256, 65536, 16777216}
    BY <1>2
  <2>2. p \in Nat /\ p > 0
    BY <2>1
  <2> HIDE DEF p
  <2>3. a % p \in Int /\ b % p \in Int
    BY <2>2
  <2>4. (a - (a % p)) + (b % p) \in Int
    BY <2>3
  <2>5. LowBytes(a, b, m) = (a - (a % p)) + (b % p)
    BY <1>2 DEF LowBytes, p
  <2>6. QED
    BY <2>4, <2>5
<1>3. QED
  BY <1>1, <1>2

\* A node with some of its bytes overwritten by those of a node is a node.
LEMMA SpliceNodeType ==
  ASSUME NEW a \in Node, NEW b \in Node, NEW m \in Int
  PROVE  SpliceNode(a, b, m) \in Node
<1>1. a.key \in Int /\ a.val \in Int /\ b.key \in Int /\ b.val \in Int
  BY DEF Node
<1>2. m > 0 => LowBytes(a.key, b.key, m) \in Int
  <2>1. m > 0 => m >= 0
    OBVIOUS
  <2>2. QED
    BY <1>1, <2>1, LowBytesInt, Zenon
<1>3. m > 4 => LowBytes(a.val, b.val, m - 4) \in Int
  <2>1. m - 4 \in Int /\ (m > 4 => m - 4 >= 0)
    OBVIOUS
  <2>2. QED
    BY <1>1, <2>1, LowBytesInt, Zenon
<1>4. QED
  BY <1>1, <1>2, <1>3 DEF SpliceNode, Node

\* delete() leaves an array with one node less, whatever bytes it moves.
LEMMA MemmoveProperties ==
  ASSUME NEW s \in Seq(Node), NEW i \in 1..Len(s), NEW n \in Int
  PROVE  Memmove(s, i, n) \in Seq(Node) /\ Len(Memmove(s, i, n)) = Len(s) - 1
<1>1. Len(s) - 1 \in Nat
  OBVIOUS
<1>2. ASSUME NEW j \in 1..(Len(s) - 1)
      PROVE  (IF j < i THEN s[j] ELSE SpliceNode(s[j], s[j + 1], n - 8 * (j - i)))
                \in Node
  <2>1. s[j] \in Node /\ s[j + 1] \in Node
    BY ElementOfSeq
  <2>2. n - 8 * (j - i) \in Int
    OBVIOUS
  <2>3. QED
    BY <2>1, <2>2, SpliceNodeType
<1>3. Memmove(s, i, n) \in [1..(Len(s) - 1) -> Node]
  BY <1>2 DEF Memmove
<1>4. QED
  BY <1>1, <1>3

\* merge_sort() returns as many nodes as it is given.
LEMMA SortedType ==
  ASSUME NEW b \in Seq(Node),
         NEW s \in [1..Len(b) -> {b[i] : i \in 1..Len(b)}]
  PROVE  s \in Seq(Node) /\ Len(s) = Len(b)
<1>1. {b[i] : i \in 1..Len(b)} \subseteq Node
  BY ElementOfSeq
<1>2. s \in [1..Len(b) -> Node] /\ Len(b) \in Nat
  BY <1>1
<1>3. QED
  BY <1>2

-----------------------------------------------------------------------------
\* Type correctness

\* The types are inductive together with what merge() preserves, and with two
\* facts about a rewrite in progress: merge() was called on the block, and the
\* array to be written is not longer than the header says.
LSMInv ==
  /\ LSMTypeOK
  /\ MergeInv
  /\ pc = "merge" => right = block
  /\ Len(out) <= outCount

\* What merge() is called on decides the state it starts in.
LEMMA MergeCallInv ==
  ASSUME NEW a \in Seq(Node), NEW b \in Seq(Node), MergeCall(a, b)
  PROVE  MergeInv'
BY DEF MergeCall, MergeInv, MergeTypeOK, MergeInterleaves, MergeFrontier,
       MergeRightFirst

\* Once merge() has returned, or the process has ended, its variables are
\* those of a call on nothing.
LEMMA NoMergeInv ==
  ASSUME MergeCall(<<>>, <<>>)
  PROVE  MergeInv'
<1>1. <<>> \in Seq(Node)
  OBVIOUS
<1>2. QED
  BY <1>1, MergeCallInv

\* The state in which the first process starts.
LEMMA LSMInitInv == Init => LSMInv
<1> SUFFICES ASSUME Init PROVE LSMInv
  OBVIOUS
<1>1. <<>> \in Seq(Node)
  OBVIOUS
<1>2. MergeInv
  BY <1>1, MergeInitInv DEF Init
<1>3. LSMTypeOK
  <2>1. sorted \in BOOLEAN
    BY LSMAssumption, Zenon DEF Init
  <2>2. NoArg \in Node /\ ret \in [Keys -> Int]
    BY DEF Init, NoArg, Node
  <2>3. puts \in 0..MaxPuts /\ Len(block) <= BlockSize
    BY LSMAssumption DEF Init
  <2>4. /\ block \in Seq(Node) /\ nodes \in Seq(Node) /\ out \in Seq(Node)
        /\ count \in Nat /\ outCount \in Nat /\ Len(nodes) <= count
        /\ size \in Int
    BY DEF Init
  <2>5. flushed \subseteq Int /\ wiped \in BOOLEAN /\ missed \subseteq Keys
    BY Zenon DEF Init
  <2>6. /\ fileState \in {"absent", "empty", "written"}
        /\ pc \in {"idle", "dead", "sort", "read", "merge", "open", "write"}
        /\ call \in {"none", "put", "flush"}
        /\ call = "none" <=> pc \in {"idle", "dead"}
        /\ arg \in Node
    BY <2>2 DEF Init
  <2>7. QED
    BY <1>2, <2>1, <2>2, <2>3, <2>4, <2>5, <2>6, Zenon DEF LSMTypeOK, MergeInv
<1>4. QED
  BY <1>2, <1>3 DEF Init, LSMInv

\* put() into a block that is not full.
LEMMA PutRoomInv ==
  ASSUME LSMInv, NEW k \in Keys, PutRoom(k)
  PROVE  LSMInv'
<1>1. MergeInv'
  BY MergeStutterInv DEF LSMInv, PutRoom
<1>2. LSMTypeOK'
  BY <1>1, LSMAssumption DEF LSMInv, LSMTypeOK, MergeInv, PutRoom, Calls, NewValue, Stamp, Node, fileVars, writeVars
<1>3. QED
  BY <1>1, <1>2 DEF LSMInv, PutRoom, Calls, writeVars, mergeVars


\* What is read from the file is an array of nodes of the length its header
\* gives.
LEMMA FileDataProperties ==
  ASSUME LSMTypeOK, NEW d \in FileData
  PROVE  d \in Seq(Node) /\ (fileState = "written" => Len(d) = count)
<1>1. nodes \in Seq(Node) /\ count \in Nat /\ Len(nodes) <= count
  BY DEF LSMTypeOK
<1>2. CASE fileState = "written"
  <2>1. d \in Padded(nodes, count)
    BY <1>2 DEF FileData
  <2>2. QED
    BY <1>1, <2>1, PaddedProperties, Zenon
<1>3. CASE fileState # "written"
  BY <1>3 DEF FileData
<1>4. QED
  BY <1>2, <1>3

\* get() changes nothing but what it has returned: an integer, or NULL.
LEMMA GetInv ==
  ASSUME LSMInv, NEW k \in Keys, GetFromBuffer(k) \/ GetFromDisk(k)
  PROVE  LSMInv'
<1>1. /\ UNCHANGED <<block, sorted, fileVars, pc, writeVars, mergeVars,
                     puts, size, flushed, wiped>>
  BY DEF GetFromBuffer, GetFromDisk, Reads
<1>2. MergeInv'
  BY <1>1, MergeStutterInv DEF LSMInv
<1>3. ret' \in [Keys -> Int] /\ missed' \subseteq Keys
  <2>1. ASSUME NEW i \in 1..Len(block) PROVE block[i].val \in Int
    <3>1. block[i] \in Node
      BY ElementOfSeq DEF LSMInv, LSMTypeOK
    <3>2. QED
      BY <3>1 DEF Node
  <2>2. ret \in [Keys -> Int] /\ missed \subseteq Keys
    BY DEF LSMInv, LSMTypeOK
  <2>3. QED
    BY <2>1, <2>2 DEF GetFromBuffer, GetFromDisk
<1>4. LSMTypeOK'
  BY <1>1, <1>2, <1>3 DEF LSMInv, LSMTypeOK, MergeInv, fileVars, writeVars
<1>5. QED
  BY <1>1, <1>2, <1>4 DEF LSMInv, writeVars, mergeVars

\* update() replaces a node of the block.
LEMMA UpdateInv ==
  ASSUME LSMInv, NEW k \in Keys, Update(k)
  PROVE  LSMInv'
<1>1. MergeInv'
  BY MergeStutterInv DEF LSMInv, Update
<1>2. block' \in Seq(Node) /\ Len(block') = Len(block)
  <2>1. [key |-> k, val |-> Stamp] \in Node
    BY LSMAssumption DEF Stamp, Node, LSMInv, LSMTypeOK
  <2>2. QED
    BY <2>1 DEF Update, LSMInv, LSMTypeOK
<1>3. LSMTypeOK'
  BY <1>1, <1>2, LSMAssumption DEF LSMInv, LSMTypeOK, MergeInv, Update, Calls,
     NewValue, Stamp, fileVars, writeVars
<1>4. QED
  BY <1>1, <1>3 DEF LSMInv, Update, Calls, writeVars, mergeVars

\* delete() shortens the block by one node.
LEMMA DeleteFromBufferInv ==
  ASSUME LSMInv, NEW k \in Keys, DeleteFromBuffer(k)
  PROVE  LSMInv'
<1>1. MergeInv'
  BY MergeStutterInv DEF LSMInv, DeleteFromBuffer
<1>2. block' \in Seq(Node) /\ Len(block') = Len(block) - 1
  <2>1. PICK i \in 1..Len(block) : block' = Memmove(block, i, BlockSize - (i - 1))
    BY DEF DeleteFromBuffer
  <2>2. BlockSize - (i - 1) \in Int /\ block \in Seq(Node)
    BY LSMAssumption DEF LSMInv, LSMTypeOK
  <2>3. QED
    BY <2>1, <2>2, MemmoveProperties
<1>3. LSMTypeOK'
  BY <1>1, <1>2, LSMAssumption DEF LSMInv, LSMTypeOK, MergeInv, DeleteFromBuffer,
     Calls, fileVars, writeVars
<1>4. QED
  BY <1>1, <1>3 DEF LSMInv, DeleteFromBuffer, Calls, writeVars, mergeVars

\* The process ends, with a file that still has its type.
LEMMA DiesInv ==
  ASSUME LSMInv, Dies,
         fileState' \in {"absent", "empty", "written"},
         count' \in Nat, nodes' \in Seq(Node), Len(nodes') <= count'
  PROVE  LSMInv'
<1>1. MergeInv'
  BY NoMergeInv DEF Dies
<1>2. LSMTypeOK'
  BY <1>1, LSMAssumption DEF LSMInv, LSMTypeOK, MergeInv, Dies, Forgets, NoArg, Node
<1>3. QED
  BY <1>1, <1>2 DEF LSMInv, Dies, Forgets

\* The process ends and the file is left as it is.
LEMMA DeathsInv ==
  ASSUME LSMInv, Dies, UNCHANGED fileVars
  PROVE  LSMInv'
BY DiesInv DEF LSMInv, LSMTypeOK, fileVars

\* A new process finds the file of the last one.
LEMMA RestartInv ==
  ASSUME LSMInv, Restart
  PROVE  LSMInv'
<1>1. MergeInv'
  BY MergeStutterInv DEF LSMInv, Restart
<1>2. sorted' \in BOOLEAN
  BY LSMAssumption, Zenon DEF Restart
<1>3. LSMTypeOK'
  BY <1>1, <1>2 DEF LSMInv, LSMTypeOK, MergeInv, Restart, fileVars, writeVars, histVars
<1>4. QED
  BY <1>1, <1>3 DEF LSMInv, Restart, writeVars

\* put() on a full block starts a flush.
LEMMA PutFullInv ==
  ASSUME LSMInv, NEW k \in Keys, PutFull(k)
  PROVE  LSMInv'
<1>1. MergeInv'
  BY MergeStutterInv DEF LSMInv, PutFull, Starts
<1>2. LSMTypeOK'
  BY <1>1, LSMAssumption DEF LSMInv, LSMTypeOK, MergeInv, PutFull, Starts,
     Calls, NewValue, Stamp, Node, fileVars
<1>3. QED
  BY <1>1, <1>2 DEF LSMInv, PutFull, Starts

\* So does a direct call of write_to_disk().
LEMMA FlushInv ==
  ASSUME LSMInv, Flush
  PROVE  LSMInv'
<1>1. MergeInv'
  BY MergeStutterInv DEF LSMInv, Flush, Starts
<1>2. LSMTypeOK'
  BY <1>1 DEF LSMInv, LSMTypeOK, MergeInv, Flush, Starts, fileVars
<1>3. QED
  BY <1>1, <1>2 DEF LSMInv, Flush, Starts

\* merge_sort() keeps the length of the block.
LEMMA SortInv ==
  ASSUME LSMInv, Sort
  PROVE  LSMInv'
<1>1. MergeInv'
  BY MergeStutterInv DEF LSMInv, Sort
<1>2. block' \in Seq(Node) /\ Len(block') = Len(block)
  BY SortedType DEF Sort, LSMInv, LSMTypeOK
<1>3. LSMTypeOK'
  BY <1>1, <1>2 DEF LSMInv, LSMTypeOK, MergeInv, Sort, fileVars, writeVars, histVars
<1>4. QED
  BY <1>1, <1>3 DEF LSMInv, Sort, writeVars

\* write_to_disk() takes the block alone, or reads the file and calls merge().
LEMMA ReadInv ==
  ASSUME LSMInv, ReadNoFile \/ ReadFile
  PROVE  LSMInv'
<1>1. CASE ReadNoFile
  <2>1. MergeInv'
    BY <1>1, MergeStutterInv DEF LSMInv, ReadNoFile
  <2>2. LSMTypeOK'
    BY <1>1, <2>1 DEF LSMInv, LSMTypeOK, MergeInv, ReadNoFile, fileVars, histVars
  <2>3. QED
    BY <1>1, <2>1, <2>2 DEF LSMInv, LSMTypeOK, ReadNoFile
<1>2. CASE ReadFile
  <2>1. PICK d \in FileData : MergeCall(d, block)
    BY <1>2 DEF ReadFile
  <2>2. MergeInv'
    BY <2>1, MergeCallInv, FileDataProperties DEF LSMInv, LSMTypeOK
  <2>3. LSMTypeOK'
    BY <1>2, <2>2 DEF LSMInv, LSMTypeOK, MergeInv, ReadFile, fileVars, writeVars, histVars
  <2>4. QED
    BY <1>2, <2>1, <2>2, <2>3 DEF LSMInv, ReadFile, MergeCall, writeVars
<1>3. QED
  BY <1>1, <1>2


\* One iteration of merge().
LEMMA MergeLoopInv ==
  ASSUME LSMInv, MergeLoop
  PROVE  LSMInv'
<1>1. MergeInv'
  BY MergeStepInv DEF LSMInv, MergeLoop
<1>2. LSMTypeOK'
  BY <1>1 DEF LSMInv, LSMTypeOK, MergeInv, MergeLoop, fileVars, writeVars, histVars
<1>3. right' = right
  BY DEF MergeLoop, MergeStep, TakeLeft, TakeRight, DrainLeft, DrainRight,
         CopyLeft, CopyRight
<1>4. QED
  BY <1>1, <1>2, <1>3 DEF LSMInv, MergeLoop, writeVars

\* merge() has filled as many places as the two arrays have nodes.
LEMMA MergeEndLength ==
  ASSUME LSMInv, MergeEnd
  PROVE  /\ whole \in Seq(Node)
         /\ Len(left) \in Nat /\ Len(block) \in Nat
         /\ Len(whole) = Len(left) + Len(block)
BY DEF LSMInv, MergeInv, MergeTypeOK, MergeInterleaves, MergeEnd, MergeDone

\* The merged array is not longer than the header, which counts a full block.
LEMMA MergeEndInv ==
  ASSUME LSMInv, MergeEnd
  PROVE  LSMInv'
<1>1. MergeInv'
  BY NoMergeInv DEF MergeEnd
<1>2. /\ out' \in Seq(Node) /\ outCount' \in Nat /\ Len(out') <= outCount'
  BY MergeEndLength, LSMAssumption DEF MergeEnd, LSMInv, LSMTypeOK
<1>3. LSMTypeOK'
  BY <1>1, <1>2 DEF LSMInv, LSMTypeOK, MergeInv, MergeEnd, fileVars, histVars
<1>4. QED
  BY <1>1, <1>2, <1>3 DEF LSMInv, MergeEnd

\* Truncation leaves neither header nor nodes.
LEMMA OpenWriteInv ==
  ASSUME LSMInv, OpenWrite
  PROVE  LSMInv'
<1>1. MergeInv'
  BY MergeStutterInv DEF LSMInv, OpenWrite
<1>2. LSMTypeOK'
  BY <1>1 DEF LSMInv, LSMTypeOK, MergeInv, OpenWrite, writeVars, histVars
<1>3. QED
  BY <1>1, <1>2 DEF LSMInv, OpenWrite, writeVars

\* What a complete or a partial write leaves in the file.
LEMMA FileIsType ==
  ASSUME LSMInv, NEW s \in Padded(out, outCount), NEW n \in 0..outCount,
         FileIs(s, n)
  PROVE  /\ fileState' \in {"absent", "empty", "written"}
         /\ count' \in Nat
         /\ nodes' \in Seq(Node)
         /\ Len(nodes') = n
         /\ Len(nodes') <= count'
<1>1. s \in Seq(Node) /\ Len(s) = outCount /\ outCount \in Nat
  BY PaddedProperties DEF LSMInv, LSMTypeOK
<1>2. SubSeq(s, 1, n) \in Seq(Node) /\ Len(SubSeq(s, 1, n)) = n
  BY <1>1
<1>3. QED
  BY <1>1, <1>2 DEF FileIs

\* A rewrite ends with a block that fits.
LEMMA CallReturnsInv ==
  ASSUME LSMInv, CallReturns, flushed' \subseteq Int, wiped' \in BOOLEAN,
         fileState' \in {"absent", "empty", "written"},
         count' \in Nat, nodes' \in Seq(Node), Len(nodes') <= count'
  PROVE  LSMInv'
<1>1. MergeInv'
  BY MergeStutterInv DEF LSMInv, CallReturns
<1>2. block' \in Seq(Node) /\ Len(block') <= BlockSize
  <2>1. <<arg>> \in Seq(Node) /\ Len(<<arg>>) = 1
    BY DEF LSMInv, LSMTypeOK
  <2>2. <<>> \in Seq(Node) /\ Len(<<>>) = 0
    OBVIOUS
  <2>3. BlockSize \in Nat /\ BlockSize >= 1
    BY LSMAssumption
  <2>4. block' \in {<<arg>>, <<>>}
    BY Zenon DEF CallReturns
  <2>5. CASE block' = <<arg>>
    <3>1. block' \in Seq(Node) /\ Len(block') = 1
      BY <2>1, <2>5, Zenon
    <3>2. QED
      BY <2>3, <3>1
  <2>6. CASE block' = <<>>
    BY <2>3, <2>6
  <2>7. QED
    BY <2>4, <2>5, <2>6
<1>3. LSMTypeOK'
  BY <1>1, <1>2 DEF LSMInv, LSMTypeOK, MergeInv, CallReturns, Forgets, NoArg, Node
<1>4. QED
  BY <1>1, <1>3 DEF LSMInv, CallReturns, Forgets

\* A complete, a partial and a failed write keep the types.
LEMMA WriteInv ==
  ASSUME LSMInv, Write \/ WriteShort
  PROVE  LSMInv'
<1>1. outCount \in Nat /\ flushed \subseteq Int /\ Vals(out) \subseteq Int
  <2>1. outCount \in Nat /\ flushed \subseteq Int /\ out \in Seq(Node)
    BY DEF LSMInv, LSMTypeOK
  <2>2. \A i \in 1..Len(out) : out[i] \in Node
    BY <2>1, ElementOfSeq
  <2>3. QED
    BY <2>1, <2>2 DEF Vals, Node
<1>2. CASE Write
  <2>1. PICK s \in Padded(out, outCount) : FileIs(s, outCount)
    BY <1>2 DEF Write
  <2>2. outCount \in 0..outCount
    BY <1>1
  <2>3. flushed' \subseteq Int /\ wiped' \in BOOLEAN
    BY <1>1, <1>2 DEF Write, LSMInv, LSMTypeOK
  <2>4. QED
    BY <1>2, <2>1, <2>2, <2>3, FileIsType, CallReturnsInv DEF Write
<1>3. CASE WriteShort
  <2>1. flushed' \subseteq Int /\ wiped' \in BOOLEAN
    BY <1>1, <1>3 DEF WriteShort
  <2>2. CASE UNCHANGED fileVars
    BY <1>3, <2>1, <2>2, CallReturnsInv DEF WriteShort, fileVars, LSMInv, LSMTypeOK
  <2>3. CASE \E n \in 0..(outCount - 1), s \in Padded(out, outCount) : FileIs(s, n)
    <3>1. PICK n \in 0..(outCount - 1), s \in Padded(out, outCount) : FileIs(s, n)
      BY <2>3
    <3>2. n \in 0..outCount
      BY <1>1
    <3>3. QED
      BY <1>3, <2>1, <3>1, <3>2, FileIsType, CallReturnsInv DEF WriteShort
  <2>4. QED
    BY <1>3, <2>2, <2>3 DEF WriteShort
<1>4. QED
  BY <1>2, <1>3

\* So does a write cut short by a kill.
LEMMA KillTornInv ==
  ASSUME LSMInv, KillTorn
  PROVE  LSMInv'
<1>1. PICK n \in 0..(outCount - 1), s \in Padded(out, outCount) : FileIs(s, n)
  BY DEF KillTorn
<1>2. n \in 0..outCount
  BY DEF LSMInv, LSMTypeOK
<1>3. QED
  BY <1>1, <1>2, FileIsType, DiesInv DEF KillTorn

\* A step that changes nothing.
LEMMA LSMStutterInv ==
  ASSUME LSMInv, UNCHANGED vars
  PROVE  LSMInv'
<1>1. MergeInv'
  BY MergeStutterInv DEF LSMInv, vars
<1>2. LSMTypeOK'
  BY <1>1 DEF LSMInv, LSMTypeOK, MergeInv, vars, fileVars, writeVars, histVars
<1>3. QED
  BY <1>1, <1>2 DEF LSMInv, vars, writeVars, mergeVars

\* Every step of every call, and every fault, keeps the types.
LEMMA LSMNextInv ==
  ASSUME LSMInv, [Next]_vars
  PROVE  LSMInv'
<1>1. ASSUME NEW k \in Keys, KeyCall(k) PROVE LSMInv'
  <2>1. CASE UpdateDies(k) \/ DeleteDies(k)
    BY <2>1, DeathsInv DEF UpdateDies, DeleteDies
  <2>2. QED
    BY <1>1, <2>1, PutRoomInv, PutFullInv, GetInv, UpdateInv, DeleteFromBufferInv
    DEF KeyCall
<1>2. CASE Flush
  BY <1>2, FlushInv
<1>3. CASE Destruct \/ Kill
  BY <1>3, DeathsInv DEF Destruct, Kill
<1>4. CASE CallStep
  BY <1>4, SortInv, ReadInv, MergeLoopInv, MergeEndInv, OpenWriteInv, WriteInv
  DEF CallStep
<1>5. QED
  BY <1>1, <1>2, <1>3, <1>4, KillTornInv, RestartInv, LSMStutterInv DEF Next

\* LSMTypeOK for every instance, all calls and all faults included: put()
\* never writes past the end of the block, and no step leaves the file with
\* more nodes than its header says.
THEOREM LSMTypeCorrect == Spec => []LSMTypeOK
<1>1. Init => LSMInv
  BY LSMInitInv
<1>2. LSMInv /\ [Next]_vars => LSMInv'
  BY LSMNextInv
<1>3. LSMInv => LSMTypeOK
  BY DEF LSMInv
<1>4. QED
  BY <1>1, <1>2, <1>3, PTL DEF Spec

-----------------------------------------------------------------------------
\* The header is bounded in every instance in which write_to_disk() is called
\* by put() alone: all other calls, kills, torn and short writes included, and
\* whatever uninitialised memory holds.

\* Why the header is bounded: only put() on a full block makes it grow, by the
\* block it empties, and the node that put() holds back is not counted yet.
GrowsByPuts ==
  /\ fileState # "written" => count = 0
  /\ call # "flush"
  /\ pc \in {"sort", "read", "merge"} => call = "put"
  /\ call = "put" => Len(block) = BlockSize /\ count + BlockSize < puts
  /\ pc = "merge" => Len(left) = count
  /\ pc \in {"open", "write"} => outCount < puts

BoundInv == LSMInv /\ HeaderBounded /\ GrowsByPuts

-----------------------------------------------------------------------------

\* The numbers are numbers.
LEMMA BoundTypes ==
  ASSUME LSMInv
  PROVE  /\ count \in Nat /\ outCount \in Nat /\ puts \in Nat /\ BlockSize \in Nat
         /\ BlockSize > 0 /\ Len(block) \in Nat /\ Len(left) \in Nat
         /\ Len(block) <= BlockSize
         /\ call \in {"none", "put", "flush"}
         /\ call = "none" <=> pc \in {"idle", "dead"}
BY LSMAssumption DEF LSMInv, LSMTypeOK, MergeTypeOK

\* The first state has no file.
LEMMA BoundInit == Init => BoundInv
<1> SUFFICES ASSUME Init PROVE HeaderBounded /\ GrowsByPuts
  BY LSMInitInv DEF BoundInv
<1>1. QED
  BY DEF Init, HeaderBounded, GrowsByPuts

\* put() adds a node and a stamp.
LEMMA PutBound ==
  ASSUME BoundInv, NEW k \in Keys, PutRoom(k) \/ PutFull(k)
  PROVE  HeaderBounded' /\ GrowsByPuts'
<1>1. CASE PutRoom(k)
  <2>1. Len(block') = Len(block) + 1
    BY <1>1 DEF PutRoom, BoundInv, LSMInv, LSMTypeOK
  <2>2. QED
    BY <1>1, <2>1, BoundTypes DEF BoundInv, HeaderBounded, GrowsByPuts, PutRoom,
       Calls, NewValue, Stamp, fileVars, writeVars, mergeVars
<1>2. CASE PutFull(k)
  BY <1>2, BoundTypes DEF BoundInv, HeaderBounded, GrowsByPuts, PutFull, Starts,
     Calls, NewValue, Stamp, fileVars, mergeVars
<1>3. QED
  BY <1>1, <1>2

\* get() and update() add no node.
LEMMA ReadBound ==
  ASSUME BoundInv, NEW k \in Keys, GetFromBuffer(k) \/ GetFromDisk(k) \/ Update(k)
  PROVE  HeaderBounded' /\ GrowsByPuts'
<1>1. CASE GetFromBuffer(k) \/ GetFromDisk(k)
  <2>1. UNCHANGED <<block, fileVars, pc, writeVars, mergeVars, puts>>
    BY <1>1 DEF GetFromBuffer, GetFromDisk, Reads
  <2>2. QED
    BY <2>1, BoundTypes DEF BoundInv, HeaderBounded, GrowsByPuts, fileVars,
       writeVars, mergeVars
<1>2. CASE Update(k)
  <2>1. Len(block') = Len(block)
    BY <1>2 DEF Update, BoundInv, LSMInv, LSMTypeOK
  <2>2. QED
    BY <1>2, <2>1, BoundTypes DEF BoundInv, HeaderBounded, GrowsByPuts, Update,
       Calls, NewValue, Stamp, fileVars, writeVars, mergeVars
<1>3. QED
  BY <1>1, <1>2

\* delete() removes a node from the block.
LEMMA DeleteBound ==
  ASSUME BoundInv, NEW k \in Keys, DeleteFromBuffer(k)
  PROVE  HeaderBounded' /\ GrowsByPuts'
<1>1. PICK i \in 1..Len(block) : block' = Memmove(block, i, BlockSize - (i - 1))
  BY DEF DeleteFromBuffer
<1>2. BlockSize - (i - 1) \in Int /\ block \in Seq(Node)
  BY LSMAssumption DEF BoundInv, LSMInv, LSMTypeOK
<1>3. Len(block') = Len(block) - 1
  BY <1>1, <1>2, MemmoveProperties
<1>4. QED
  BY <1>3, BoundTypes DEF BoundInv, HeaderBounded, GrowsByPuts,
     DeleteFromBuffer, Calls, fileVars, writeVars, mergeVars

\* A process that ends leaves no block, and a header no larger than the one it
\* found or was writing.
LEMMA DiesBound ==
  ASSUME BoundInv, Dies, count' \in Nat, count' <= puts,
         fileState' # "written" => count' = 0
  PROVE  HeaderBounded' /\ GrowsByPuts'
<1>1. Len(block') = 0 /\ pc' = "dead" /\ call' = "none" /\ puts' = puts
  BY DEF Dies, Forgets
<1>2. QED
  BY <1>1, BoundTypes DEF BoundInv, HeaderBounded, GrowsByPuts

\* A process that ends between two steps leaves the file as it is.
LEMMA DeathsBound ==
  ASSUME BoundInv, Dies, UNCHANGED fileVars
  PROVE  HeaderBounded' /\ GrowsByPuts'
<1>1. count' = count /\ fileState' = fileState
  BY DEF fileVars
<1>2. count' \in Nat /\ count' <= puts /\ (fileState' # "written" => count' = 0)
  BY <1>1, BoundTypes DEF BoundInv, HeaderBounded, GrowsByPuts
<1>3. QED
  BY <1>2, DiesBound

\* The steps of write_to_disk() up to the write.
LEMMA RewriteBound ==
  ASSUME BoundInv,
         Sort \/ ReadNoFile \/ ReadFile \/ MergeLoop \/ MergeEnd \/ OpenWrite
  PROVE  HeaderBounded' /\ GrowsByPuts'
<1>1. CASE Sort
  <2>1. Len(block') = Len(block)
    BY <1>1, SortedType DEF Sort, BoundInv, LSMInv, LSMTypeOK
  <2>2. QED
    BY <1>1, <2>1, BoundTypes DEF BoundInv, HeaderBounded, GrowsByPuts, Sort,
       fileVars, writeVars, histVars
<1>2. CASE ReadNoFile
  BY <1>2, BoundTypes DEF BoundInv, HeaderBounded, GrowsByPuts, ReadNoFile,
     fileVars, histVars
<1>3. CASE ReadFile
  <2>1. PICK d \in FileData : left' = d
    BY <1>3 DEF ReadFile, MergeCall
  <2>2. Len(d) = count
    <3>1. CASE fileState = "written"
      BY <3>1, FileDataProperties DEF BoundInv, LSMInv
    <3>2. CASE fileState # "written"
      BY <3>2 DEF FileData, BoundInv, GrowsByPuts
    <3>3. QED
      BY <3>1, <3>2
  <2>3. QED
    BY <1>3, <2>1, <2>2, BoundTypes DEF BoundInv, HeaderBounded, GrowsByPuts,
       ReadFile, fileVars, writeVars, histVars
<1>4. CASE MergeLoop
  <2>1. left' = left
    BY <1>4 DEF MergeLoop, MergeStep, TakeLeft, TakeRight, DrainLeft, DrainRight,
       CopyLeft, CopyRight
  <2>2. QED
    BY <1>4, <2>1, BoundTypes DEF BoundInv, HeaderBounded, GrowsByPuts, MergeLoop,
       fileVars, writeVars, histVars
<1>5. CASE MergeEnd
  BY <1>5, BoundTypes DEF BoundInv, HeaderBounded, GrowsByPuts, MergeEnd, fileVars,
     histVars
<1>6. CASE OpenWrite
  BY <1>6, BoundTypes DEF BoundInv, HeaderBounded, GrowsByPuts, OpenWrite, writeVars,
     histVars
<1>7. QED
  BY <1>1, <1>2, <1>3, <1>4, <1>5, <1>6

\* The write, complete or not, puts no other header in the file than the one
\* prepared, and put() then appends the node it held back.
LEMMA WriteBound ==
  ASSUME BoundInv, Write \/ WriteShort
  PROVE  HeaderBounded' /\ GrowsByPuts'
<1>1. /\ pc = "write" /\ CallReturns
      /\ (count' = outCount /\ fileState' = "written") \/ UNCHANGED fileVars
  BY DEF Write, WriteShort, FileIs
<1>2. /\ pc' = "idle" /\ call' = "none" /\ puts' = puts
      /\ call = "put" /\ Len(block') = 1
  <2>1. call = "put"
    BY <1>1, BoundTypes DEF BoundInv, GrowsByPuts
  <2>2. QED
    BY <1>1, <2>1 DEF CallReturns, Forgets
<1>3. /\ count \in Nat /\ outCount \in Nat /\ puts \in Nat /\ BlockSize \in Nat
      /\ BlockSize > 0
      /\ fileState # "written" => count = 0
      /\ count + BlockSize < puts /\ outCount < puts
  BY <1>1, <1>2, BoundTypes DEF BoundInv, GrowsByPuts
<1>4. /\ fileState' # "written" => count' = 0
      /\ count' + Len(block') <= puts'
  <2>1. CASE UNCHANGED fileVars
    BY <1>2, <1>3, <2>1 DEF fileVars
  <2>2. CASE count' = outCount /\ fileState' = "written"
    BY <1>2, <1>3, <2>2
  <2>3. QED
    BY <1>1, <2>1, <2>2
<1>5. QED
  BY <1>2, <1>4 DEF HeaderBounded, GrowsByPuts

\* The same for a write cut short by a kill.
LEMMA KillTornBound ==
  ASSUME BoundInv, KillTorn
  PROVE  HeaderBounded' /\ GrowsByPuts'
<1>1. count' = outCount /\ fileState' = "written" /\ Dies /\ pc = "write"
  BY DEF KillTorn, FileIs
<1>2. outCount \in Nat /\ outCount <= puts
  BY <1>1, BoundTypes DEF BoundInv, GrowsByPuts
<1>3. QED
  BY <1>1, <1>2, DiesBound

\* A new process starts without a call; a step may also change nothing.
LEMMA IdleBound ==
  ASSUME BoundInv, Restart \/ UNCHANGED vars
  PROVE  HeaderBounded' /\ GrowsByPuts'
BY BoundTypes DEF BoundInv, HeaderBounded, GrowsByPuts, Restart, vars, fileVars,
   writeVars, histVars, mergeVars

\* All steps together.
LEMMA BoundNext ==
  ASSUME "flush" \notin Ops, BoundInv, [Next]_vars
  PROVE  BoundInv'
<1>1. ASSUME NEW k \in Keys, KeyCall(k) PROVE HeaderBounded' /\ GrowsByPuts'
  <2>1. CASE UpdateDies(k) \/ DeleteDies(k)
    BY <2>1, DeathsBound DEF UpdateDies, DeleteDies
  <2>2. QED
    BY <1>1, <2>1, PutBound, ReadBound, DeleteBound DEF KeyCall
<1>2. ~ Flush
  BY DEF Flush, Calls
<1>3. Destruct \/ Kill => HeaderBounded' /\ GrowsByPuts'
  BY DeathsBound DEF Destruct, Kill
<1>4. CallStep => HeaderBounded' /\ GrowsByPuts'
  BY RewriteBound, WriteBound DEF CallStep
<1>5. HeaderBounded' /\ GrowsByPuts'
  BY <1>1, <1>2, <1>3, <1>4, KillTornBound, IdleBound DEF Next
<1>6. QED
  BY <1>5, LSMNextInv DEF BoundInv

\* HeaderBounded for every instance: as long as only put() calls
\* write_to_disk(), the file's header never claims more nodes than there were
\* calls of put() and update(), so the arrays that every reader allocates from it are bounded.
THEOREM LSMHeaderBounded ==
  ASSUME "flush" \notin Ops
  PROVE  Spec => []HeaderBounded
<1>1. Init => BoundInv
  BY BoundInit
<1>2. BoundInv /\ [Next]_vars => BoundInv'
  BY BoundNext
<1>3. BoundInv => HeaderBounded
  BY DEF BoundInv
<1>4. QED
  BY <1>1, <1>2, <1>3, PTL DEF Spec

-----------------------------------------------------------------------------
\* The nodes there are

\* Why the nodes are all there: until a rewrite is cut short the header counts
\* the nodes of the file, and a rewrite in progress holds, in memory or in the
\* array to be written, what there will be between the calls.  The node that
\* put() holds back is counted in size already.
NodesCounted ==
  ~ wiped =>
    /\ Len(nodes) = count
    /\ pc \in {"idle", "dead"} => size = Len(block) + count
    /\ pc \in {"sort", "read", "merge"} => size = Len(block) + count + 1
    /\ pc \in {"open", "write"} => size = outCount + 1

SizeInv == BoundInv /\ NodesCounted

\* The numbers are numbers.
LEMMA SizeTypes ==
  ASSUME BoundInv
  PROVE  /\ Len(nodes) \in Nat /\ size \in Int
         /\ nodes \in Seq(Node) /\ block \in Seq(Node)
BY DEF BoundInv, LSMInv, LSMTypeOK

\* put() adds a node, and the size grows with it.
LEMMA PutSize ==
  ASSUME SizeInv, NEW k \in Keys, PutRoom(k) \/ PutFull(k)
  PROVE  NodesCounted'
<1>1. CASE PutRoom(k)
  <2>1. Len(block') = Len(block) + 1
    BY <1>1, SizeTypes DEF PutRoom, SizeInv
  <2>2. QED
    BY <1>1, <2>1, BoundTypes, SizeTypes DEF SizeInv, BoundInv, NodesCounted, PutRoom,
       Calls, fileVars, writeVars
<1>2. CASE PutFull(k)
  BY <1>2, BoundTypes, SizeTypes DEF SizeInv, BoundInv, NodesCounted, PutFull, Starts,
     Calls, fileVars
<1>3. QED
  BY <1>1, <1>2

\* get() and update() keep every node in its place.
LEMMA ReadSize ==
  ASSUME SizeInv, NEW k \in Keys, GetFromBuffer(k) \/ GetFromDisk(k) \/ Update(k)
  PROVE  NodesCounted'
<1>1. /\ UNCHANGED <<fileVars, pc, writeVars, size, wiped>>
      /\ Len(block') = Len(block)
  <2>1. CASE GetFromBuffer(k) \/ GetFromDisk(k)
    BY <2>1 DEF GetFromBuffer, GetFromDisk, Reads
  <2>2. CASE Update(k)
    BY <2>2, SizeTypes DEF Update, SizeInv
  <2>3. QED
    BY <2>1, <2>2
<1>2. QED
  BY <1>1 DEF SizeInv, NodesCounted, fileVars, writeVars

\* delete() removes one node from the block.
LEMMA DeleteSize ==
  ASSUME SizeInv, NEW k \in Keys, DeleteFromBuffer(k)
  PROVE  NodesCounted'
<1>1. PICK i \in 1..Len(block) : block' = Memmove(block, i, BlockSize - (i - 1))
  BY DEF DeleteFromBuffer
<1>2. BlockSize - (i - 1) \in Int /\ block \in Seq(Node)
  BY LSMAssumption, SizeTypes DEF SizeInv
<1>3. Len(block') = Len(block) - 1
  BY <1>1, <1>2, MemmoveProperties
<1>4. /\ pc = "idle" /\ pc' = "idle" /\ size' = size - 1
      /\ nodes' = nodes /\ count' = count /\ wiped' = wiped
  BY DEF DeleteFromBuffer, Calls, fileVars
<1>5. QED
  BY <1>3, <1>4, BoundTypes, SizeTypes DEF SizeInv, BoundInv, NodesCounted

\* When a process ends, the nodes of the file are those there are.
LEMMA DeathsSize ==
  ASSUME SizeInv, Dies, UNCHANGED fileVars
  PROVE  NodesCounted'
<1>1. /\ pc' = "dead" /\ Len(block') = 0 /\ size' = Len(nodes')
      /\ nodes' = nodes /\ count' = count
      /\ ~ wiped' => ~ wiped
  BY DEF Dies, fileVars
<1>2. QED
  BY <1>1, BoundTypes, SizeTypes DEF SizeInv, BoundInv, NodesCounted

\* The steps of write_to_disk() up to the write move nodes and lose none.
LEMMA RewriteSize ==
  ASSUME SizeInv,
         Sort \/ ReadNoFile \/ ReadFile \/ MergeLoop \/ MergeEnd \/ OpenWrite
  PROVE  NodesCounted'
<1>1. CASE Sort
  <2>1. Len(block') = Len(block)
    BY <1>1, SortedType, SizeTypes DEF Sort, SizeInv
  <2>2. QED
    BY <1>1, <2>1 DEF SizeInv, NodesCounted, Sort, fileVars, writeVars, histVars
<1>2. CASE ReadNoFile
  <2>1. count = 0 /\ call = "put"
    BY <1>2 DEF ReadNoFile, SizeInv, BoundInv, GrowsByPuts
  <2>2. QED
    BY <1>2, <2>1, BoundTypes, SizeTypes DEF SizeInv, BoundInv, NodesCounted,
       ReadNoFile, fileVars, histVars
<1>3. CASE ReadFile \/ MergeLoop
  BY <1>3 DEF SizeInv, NodesCounted, ReadFile, MergeLoop, fileVars, writeVars, histVars
<1>4. CASE MergeEnd
  <2>1. call = "put" /\ Len(left) = count /\ Len(block) = BlockSize
    BY <1>4 DEF MergeEnd, SizeInv, BoundInv, GrowsByPuts
  <2>2. QED
    BY <1>4, <2>1, BoundTypes, SizeTypes DEF SizeInv, BoundInv, NodesCounted,
       MergeEnd, fileVars, histVars
<1>5. CASE OpenWrite
  BY <1>5 DEF SizeInv, NodesCounted, OpenWrite, writeVars, histVars
<1>6. QED
  BY <1>1, <1>2, <1>3, <1>4, <1>5

\* A complete write puts as many nodes in the file as the header says; a
\* partial one is marked.
LEMMA WriteSize ==
  ASSUME SizeInv, Write \/ WriteShort
  PROVE  NodesCounted'
<1>1. CASE Write
  <2>1. PICK s \in Padded(out, outCount) : FileIs(s, outCount)
    BY <1>1 DEF Write
  <2>2. outCount \in Nat /\ outCount \in 0..outCount
    BY BoundTypes DEF SizeInv, BoundInv
  <2>3. Len(nodes') = outCount /\ count' = outCount
    BY <2>1, <2>2, FileIsType DEF SizeInv, BoundInv, FileIs
  <2>4. /\ pc = "write" /\ pc' = "idle" /\ size' = size /\ wiped' = wiped
        /\ call = "put"
    BY <1>1, BoundTypes DEF Write, CallReturns, SizeInv, BoundInv, GrowsByPuts
  <2>5. Len(block') = 1
    BY <1>1, <2>4 DEF Write, CallReturns
  <2>6. ~ wiped => size' = Len(block') + count'
    BY <2>2, <2>3, <2>4, <2>5 DEF SizeInv, NodesCounted
  <2>7. QED
    BY <2>3, <2>4, <2>6 DEF NodesCounted
<1>2. CASE WriteShort
  BY <1>2 DEF WriteShort, NodesCounted
<1>3. QED
  BY <1>1, <1>2

\* All steps together.
LEMMA SizeNext ==
  ASSUME "flush" \notin Ops, SizeInv, [Next]_vars
  PROVE  SizeInv'
<1>1. ASSUME NEW k \in Keys, KeyCall(k) PROVE NodesCounted'
  <2>1. CASE UpdateDies(k) \/ DeleteDies(k)
    BY <2>1, DeathsSize DEF UpdateDies, DeleteDies
  <2>2. QED
    BY <1>1, <2>1, PutSize, ReadSize, DeleteSize DEF KeyCall
<1>2. ~ Flush
  BY DEF Flush, Calls
<1>3. Destruct \/ Kill => NodesCounted'
  BY DeathsSize DEF Destruct, Kill
<1>4. CallStep => NodesCounted'
  BY RewriteSize, WriteSize DEF CallStep
<1>5. KillTorn => NodesCounted'
  BY DEF KillTorn, Dies, NodesCounted
<1>6. Restart \/ UNCHANGED vars => NodesCounted'
  BY DEF SizeInv, NodesCounted, Restart, vars, fileVars, writeVars, histVars
<1>7. NodesCounted'
  BY <1>1, <1>2, <1>3, <1>4, <1>5, <1>6 DEF Next
<1>8. QED
  BY <1>7, BoundNext DEF SizeInv

\* SizeAccounting for every instance in which only put() calls
\* write_to_disk(): although delete() damages the nodes it moves, between calls
\* the block and the file hold one node for each put() and one less for each
\* delete(), until a rewrite is cut short.
THEOREM LSMSizeAccounting ==
  ASSUME "flush" \notin Ops
  PROVE  Spec => []SizeAccounting
<1>1. Init => SizeInv
  BY BoundInit DEF Init, SizeInv, NodesCounted
<1>2. SizeInv /\ [Next]_vars => SizeInv'
  BY SizeNext
<1>3. SizeInv => SizeAccounting
  BY BoundTypes, SizeTypes DEF SizeInv, BoundInv, NodesCounted, SizeAccounting
<1>4. QED
  BY <1>1, <1>2, <1>3, PTL DEF Spec

-----------------------------------------------------------------------------
\* A program that puts and gets, in processes that may be killed and started
\* again, keeps the file in order: sorted by key, newest first, with a header
\* that counts its nodes, and complete unless a kill hit the window in which
\* the file is truncated.  Kills inside the write, which leave a header without
\* its nodes, are excepted (Faults).

\* Only put(), get() and destruct_lsm() are called, only with sorted = true,
\* and writes do not fail.
PutGetOnly ==
  /\ Ops \subseteq {"put", "get", "destruct"}
  /\ Faults \subseteq {"kill"}
  /\ SortedModes = {TRUE}

\* The values of s are stamps before v; are less than those of t; rise.
Below(s, v) == \A i \in 1..Len(s) : 0 < s[i].val /\ s[i].val < v
Older(s, t) == \A i \in 1..Len(s), j \in 1..Len(t) : s[i].val < t[j].val
Rising(s) == \A i, j \in 1..Len(s) : i < j => s[i].val < s[j].val

\* How far a flush has come.
Progress ==
  /\ sorted = TRUE
  /\ call \in {"none", "put"}
  /\ call = "put" => Len(block) = BlockSize
  /\ fileState # "written" => nodes = <<>>
  /\ pc = "dead" => block = <<>>
  /\ HeaderMatches
  /\ pc = "merge" => left = nodes
  /\ pc \notin {"open", "write"} => out = <<>>
  /\ pc = "open" => Nodes(out) = Nodes(nodes) \cup Nodes(block)
  /\ pc = "write" => nodes = <<>> /\ Nodes(block) \subseteq Nodes(out)

\* Stamps are handed out in order, and reach the file in order: what is in the
\* file is older than what is in the block, and that older than the node put()
\* holds back.
Stamps ==
  /\ Below(nodes, puts + 1) /\ Below(block, puts + 1)
  /\ Older(nodes, block)
  /\ call = "put" => /\ 0 < arg.val /\ arg.val <= puts
                     /\ Below(nodes, arg.val) /\ Below(block, arg.val)
                     /\ Below(out, arg.val)

\* The block is filled in the order of the stamps and then sorted.
Orders ==
  /\ pc \in {"idle", "sort"} => Rising(block)
  /\ pc \in {"read", "merge", "open", "write"} => Ordered(block)
  /\ Ordered(nodes)
  /\ Ordered(out)

\* What has been flushed is in the file, or about to be written back.
Kept ==
  ~ wiped => /\ pc # "write" => flushed \subseteq Vals(nodes)
             /\ pc = "write" => flushed \subseteq Vals(out)

StoreInv == LSMInv /\ Progress /\ Stamps /\ Orders /\ Kept

-----------------------------------------------------------------------------
\* Sequences of nodes

\* The elements of a sequence of nodes are nodes with integer fields.
LEMMA NodeFields ==
  ASSUME NEW s \in Seq(Node), NEW i \in 1..Len(s)
  PROVE  s[i] \in Node /\ s[i].key \in Int /\ s[i].val \in Int
<1>1. s[i] \in Node
  BY ElementOfSeq
<1>2. QED
  BY <1>1 DEF Node

\* Stamps below the next one are among those handed out, and below the one
\* after that.
LEMMA BelowNext ==
  ASSUME NEW s \in Seq(Node), NEW v \in Nat, Below(s, v + 1)
  PROVE  (\A i \in 1..Len(s) : s[i].val \in 1..v) /\ Below(s, v + 1 + 1)
<1>1. ASSUME NEW i \in 1..Len(s)
      PROVE  s[i].val \in 1..v /\ s[i].val < v + 1 + 1
  <2>1. s[i].val \in Int
    BY NodeFields
  <2>2. 0 < s[i].val /\ s[i].val < v + 1
    BY DEF Below
  <2>3. QED
    BY <2>1, <2>2
<1>2. QED
  BY <1>1 DEF Below

\* An ordered array is sorted by key.
LEMMA OrderedSorts ==
  ASSUME NEW s \in Seq(Node), Ordered(s)
  PROVE  SortedByKey(s)
<1> SUFFICES ASSUME NEW i \in 1..Len(s), NEW j \in 1..Len(s), i < j
             PROVE  s[i].key <= s[j].key
  BY DEF SortedByKey
<1>1. Before(s[i], s[j])
  BY DEF Ordered
<1>2. s[i].key \in Int /\ s[j].key \in Int
  BY NodeFields
<1>3. QED
  BY <1>1, <1>2 DEF Before

\* Arrays with the nodes of others have their values.
LEMMA ValsOfNodes ==
  ASSUME NEW s, NEW t, Nodes(s) \subseteq Nodes(t)
  PROVE  Vals(s) \subseteq Vals(t)
BY DEF Vals, Nodes

\* merge_sort() keeps the nodes of the block.
LEMMA SortKeeps ==
  ASSUME NEW b \in Seq(Node), NEW s \in Seq(Node), IsMergeSortOf(s, b)
  PROVE  Nodes(s) = Nodes(b)
<1>1. PICK p \in [1..Len(b) -> 1..Len(b)] :
        /\ \A j \in 1..Len(b) : \E i \in 1..Len(b) : p[i] = j
        /\ \A i \in 1..Len(b) : s[i] = b[p[i]]
  BY Zenon DEF IsMergeSortOf
<1>2. Len(s) = Len(b)
  BY DEF IsMergeSortOf
<1>3. \A i \in 1..Len(s) : s[i] \in Nodes(b)
  BY <1>1, <1>2 DEF Nodes
<1>4. ASSUME NEW j \in 1..Len(b)
      PROVE  b[j] \in Nodes(s)
  <2>1. PICK i \in 1..Len(b) : p[i] = j
    BY <1>1
  <2>2. QED
    BY <1>1, <1>2, <2>1 DEF Nodes
<1>5. QED
  BY <1>3, <1>4 DEF Nodes

\* merge_sort() of a block filled in the order of the stamps puts it in the
\* order of the file, and keeps its nodes.
LEMMA SortOrders ==
  ASSUME NEW b \in Seq(Node), Rising(b),
         NEW s \in Seq(Node), IsMergeSortOf(s, b)
  PROVE  /\ Ordered(s)
         /\ Nodes(s) = Nodes(b)
<1>1. PICK p \in [1..Len(b) -> 1..Len(b)] :
        /\ \A j \in 1..Len(b) : \E i \in 1..Len(b) : p[i] = j
        /\ \A i \in 1..Len(b) : s[i] = b[p[i]]
        /\ \A i, j \in 1..Len(b) : i < j =>
             \/ b[p[i]].key < b[p[j]].key
             \/ b[p[i]].key = b[p[j]].key /\ p[i] > p[j]
  BY Zenon DEF IsMergeSortOf
<1>2. Len(s) = Len(b)
  BY DEF IsMergeSortOf
<1>3. Ordered(s)
  <2> SUFFICES ASSUME NEW i \in 1..Len(b), NEW j \in 1..Len(b), i < j
               PROVE  Before(s[i], s[j])
    BY <1>2 DEF Ordered
  <2>1. s[i] = b[p[i]] /\ s[j] = b[p[j]] /\ p[i] \in 1..Len(b) /\ p[j] \in 1..Len(b)
    BY <1>1
  <2>2. CASE b[p[i]].key < b[p[j]].key
    BY <2>1, <2>2 DEF Before
  <2>3. CASE b[p[i]].key = b[p[j]].key /\ p[i] > p[j]
    <3>1. b[p[j]].val < b[p[i]].val
      BY <2>1, <2>3 DEF Rising
    <3>2. b[p[j]].val \in Int /\ b[p[i]].val \in Int
      BY <2>1, NodeFields
    <3>3. QED
      BY <2>1, <2>3, <3>1, <3>2 DEF Before
  <2>4. QED
    BY <1>1, <2>2, <2>3
<1>4. Nodes(s) = Nodes(b)
  BY SortKeeps
<1>5. QED
  BY <1>3, <1>4

\* merge() drops nothing and adds nothing, whatever order its arrays are in.
LEMMA MergeKeeps ==
  ASSUME MergeInv, MergeDone
  PROVE  Nodes(whole) = Nodes(left) \cup Nodes(right)
<1>1. MergeTypeOK /\ MergeInterleaves
  BY DEF MergeInv
<1>2. l = Len(left) /\ r = Len(right)
  BY <1>1 DEF MergeTypeOK, MergeDone
<1>3. /\ \A j \in 1..l : posL[j] \in 1..Len(whole) /\ whole[posL[j]] = left[j]
      /\ \A k \in 1..r : posR[k] \in 1..Len(whole) /\ whole[posR[k]] = right[k]
      /\ \A i \in 1..Len(whole) : \/ \E j \in 1..l : posL[j] = i
                                  \/ \E k \in 1..r : posR[k] = i
  BY <1>1 DEF MergeInterleaves
<1>4. ASSUME NEW i \in 1..Len(whole)
      PROVE  whole[i] \in Nodes(left) \cup Nodes(right)
  BY <1>2, <1>3 DEF Nodes
<1>5. Nodes(left) \subseteq Nodes(whole)
  BY <1>2, <1>3 DEF Nodes
<1>6. Nodes(right) \subseteq Nodes(whole)
  BY <1>2, <1>3 DEF Nodes
<1>7. Nodes(whole) \subseteq Nodes(left) \cup Nodes(right)
  BY <1>4 DEF Nodes
<1>8. QED
  BY <1>5, <1>6, <1>7

\* merge() of two ordered arrays, the right one with the later values, puts
\* them in one order and drops nothing.
LEMMA MergeOrders ==
  ASSUME MergeInv, MergeDone, Ordered(left), Ordered(right), Older(left, right)
  PROVE  /\ Ordered(whole)
         /\ Nodes(whole) = Nodes(left) \cup Nodes(right)
<1>1. MergeTypeOK /\ MergeInterleaves /\ MergeRightFirst
  BY DEF MergeInv
<1>2. /\ left \in Seq(Node) /\ right \in Seq(Node)
      /\ l = Len(left) /\ r = Len(right) /\ l \in Nat /\ r \in Nat
  BY <1>1 DEF MergeTypeOK, MergeDone
<1>3. SortedByKey(left) /\ SortedByKey(right)
  BY <1>2, OrderedSorts
<1>4. /\ \A j \in 1..l : posL[j] \in 1..Len(whole) /\ whole[posL[j]] = left[j]
      /\ \A k \in 1..r : posR[k] \in 1..Len(whole) /\ whole[posR[k]] = right[k]
  BY <1>1 DEF MergeInterleaves
<1>5. \A j \in 1..l, k \in 1..r : posL[j] < posR[k] <=> left[j].key < right[k].key
  BY <1>1, <1>3 DEF MergeRightFirst
<1>6. \A i \in 1..Len(whole) : \/ \E j \in 1..l : posL[j] = i
                               \/ \E k \in 1..r : posR[k] = i
  BY <1>1 DEF MergeInterleaves
<1>7. Ordered(whole)
  <2> SUFFICES ASSUME NEW x \in 1..Len(whole), NEW y \in 1..Len(whole), x < y
               PROVE  Before(whole[x], whole[y])
    BY DEF Ordered
  <2>1. ASSUME NEW i \in 1..l, NEW j \in 1..l, posL[i] = x, posL[j] = y
        PROVE  Before(whole[x], whole[y])
    <3>1. ~ (j < i) /\ i # j
      BY <1>1, <1>4, <2>1 DEF MergeInterleaves
    <3>2. i < j
      BY <3>1, <1>2
    <3>3. Before(left[i], left[j])
      BY <3>2, <1>2 DEF Ordered
    <3>4. QED
      BY <3>3, <1>4, <2>1
  <2>2. ASSUME NEW i \in 1..r, NEW j \in 1..r, posR[i] = x, posR[j] = y
        PROVE  Before(whole[x], whole[y])
    <3>1. ~ (j < i) /\ i # j
      BY <1>1, <1>4, <2>2 DEF MergeInterleaves
    <3>2. i < j
      BY <3>1, <1>2
    <3>3. Before(right[i], right[j])
      BY <3>2, <1>2 DEF Ordered
    <3>4. QED
      BY <3>3, <1>4, <2>2
  <2>3. ASSUME NEW j \in 1..l, NEW k \in 1..r, posL[j] = x, posR[k] = y
        PROVE  Before(whole[x], whole[y])
    <3>1. left[j].key < right[k].key
      BY <1>5, <2>3
    <3>2. QED
      BY <3>1, <1>4, <2>3 DEF Before
  <2>4. ASSUME NEW j \in 1..l, NEW k \in 1..r, posL[j] = y, posR[k] = x
        PROVE  Before(whole[x], whole[y])
    <3>1. ~ (left[j].key < right[k].key)
      BY <1>4, <1>5, <2>4
    <3>2. left[j].val < right[k].val
      BY <1>2 DEF Older
    <3>3. /\ left[j].key \in Int /\ right[k].key \in Int
          /\ left[j].val \in Int /\ right[k].val \in Int
      BY <1>2, NodeFields
    <3>4. Before(right[k], left[j])
      BY <3>1, <3>2, <3>3 DEF Before
    <3>5. QED
      BY <3>4, <1>4, <2>4
  <2>5. QED
    BY <1>6, <2>1, <2>2, <2>3, <2>4
<1>8. Nodes(whole) = Nodes(left) \cup Nodes(right)
  BY MergeKeeps
<1>9. QED
  BY <1>7, <1>8

-----------------------------------------------------------------------------
\* The invariant

\* The first process finds no file.
LEMMA StoreInit == PutGetOnly /\ Init => StoreInv
<1> SUFFICES ASSUME PutGetOnly, Init
             PROVE  Progress /\ Stamps /\ Orders /\ Kept
  BY LSMInitInv DEF StoreInv
<1>1. sorted = TRUE
  BY Zenon DEF Init, PutGetOnly
<1>2. Progress
  BY <1>1 DEF Init, Progress, HeaderMatches
<1>3. Stamps /\ Orders
  BY DEF Init, Stamps, Orders, Below, Older, Rising, Ordered
<1>4. Kept
  BY DEF Init, Kept
<1>5. QED
  BY <1>2, <1>3, <1>4

\* put() appends the latest stamp to a block of earlier ones.
LEMMA PutRoomOrder ==
  ASSUME StoreInv, NEW k \in Keys, PutRoom(k)
  PROVE  Progress' /\ Stamps' /\ Orders' /\ Kept'
<1> DEFINE n == [key |-> k, val |-> puts + 1]
<1>1. /\ block \in Seq(Node) /\ nodes \in Seq(Node) /\ puts \in Nat
      /\ pc = "idle" /\ call = "none"
      /\ block' = Append(block, n) /\ puts' = puts + 1
      /\ UNCHANGED <<sorted, fileVars, pc, writeVars, flushed, wiped, mergeVars>>
  BY LSMAssumption DEF StoreInv, LSMInv, LSMTypeOK, PutRoom, Calls, NewValue, Stamp
<1>2. /\ Len(block') = Len(block) + 1
      /\ \A i \in 1..Len(block) : block'[i] = block[i]
      /\ block'[Len(block) + 1].val = puts + 1
  <2>1. n \in Node
    BY <1>1, LSMAssumption DEF Node
  <2>2. QED
    BY <1>1, <2>1, AppendProperties
<1> HIDE DEF n
<1>3. /\ Below(nodes, puts + 1) /\ Below(block, puts + 1) /\ Older(nodes, block)
      /\ Rising(block)
  BY <1>1 DEF StoreInv, Stamps, Orders
<1>4. /\ \A i \in 1..Len(block) : block[i].val \in 1..puts
      /\ \A i \in 1..Len(nodes) : nodes[i].val \in 1..puts
  BY <1>1, <1>3, BelowNext
<1>5. Len(block) \in Nat
  BY <1>1
<1>6. Progress'
  BY <1>1 DEF StoreInv, Progress, HeaderMatches, fileVars, writeVars, mergeVars
<1>7. Stamps'
  <2>1. nodes' = nodes /\ call' = "none"
    BY <1>1 DEF fileVars, writeVars
  <2>2. Below(nodes', puts' + 1)
    BY <1>1, <1>4, <2>1 DEF Below
  <2>3. Below(block', puts' + 1)
    BY <1>1, <1>2, <1>4, <1>5 DEF Below
  <2>4. Older(nodes', block')
    BY <1>1, <1>2, <1>3, <1>4, <1>5, <2>1 DEF Older
  <2>5. QED
    BY <2>1, <2>2, <2>3, <2>4 DEF Stamps
<1>8. Orders'
  <2>1. Rising(block')
    <3> SUFFICES ASSUME NEW i \in 1..(Len(block) + 1),
                        NEW j \in 1..(Len(block) + 1), i < j
                 PROVE  block'[i].val < block'[j].val
      BY <1>2 DEF Rising
    <3>1. i \in 1..Len(block)
      BY <1>5
    <3>2. CASE j \in 1..Len(block)
      BY <1>2, <1>3, <3>1, <3>2 DEF Rising
    <3>3. CASE j = Len(block) + 1
      <4>1. block'[i].val \in 1..puts /\ block'[j].val = puts + 1
        BY <1>2, <1>4, <3>1, <3>3
      <4>2. QED
        BY <1>1, <4>1
    <3>4. QED
      BY <1>5, <3>2, <3>3
  <2>2. QED
    BY <1>1, <2>1 DEF StoreInv, Orders, Ordered, fileVars, writeVars
<1>9. Kept'
  BY <1>1 DEF StoreInv, Kept, Vals, fileVars, writeVars
<1>10. QED
  BY <1>6, <1>7, <1>8, <1>9

\* put() on a full block holds back the latest stamp.
LEMMA PutFullOrder ==
  ASSUME StoreInv, NEW k \in Keys, PutFull(k)
  PROVE  Progress' /\ Stamps' /\ Orders' /\ Kept'
<1>1. /\ block \in Seq(Node) /\ nodes \in Seq(Node) /\ puts \in Nat
      /\ pc = "idle" /\ call = "none" /\ pc' = "sort" /\ call' = "put"
      /\ Len(block) = BlockSize
      /\ puts' = puts + 1 /\ arg'.val = puts + 1
      /\ UNCHANGED <<block, sorted, fileVars, out, outCount, flushed, wiped, mergeVars>>
  BY LSMAssumption DEF StoreInv, LSMInv, LSMTypeOK, PutFull, Starts, Calls, NewValue, Stamp
<1>2. Below(nodes, puts + 1) /\ Below(block, puts + 1) /\ Older(nodes, block)
  BY DEF StoreInv, Stamps
<1>3. out = <<>>
  BY <1>1 DEF StoreInv, Progress
<1>5. Progress'
  BY <1>1 DEF StoreInv, Progress, HeaderMatches, fileVars, mergeVars
<1>6. Stamps'
  <2>1. /\ Below(nodes, puts + 1 + 1) /\ Below(block, puts + 1 + 1)
    BY <1>1, <1>2, BelowNext
  <2>2. Below(out, puts + 1)
    BY <1>3 DEF Below
  <2>3. QED
    BY <1>1, <1>2, <2>1, <2>2 DEF Stamps, Below, Older, fileVars
<1>7. Orders'
  BY <1>1 DEF StoreInv, Orders, Rising, Ordered, fileVars
<1>8. Kept'
  BY <1>1 DEF StoreInv, Kept, Vals, fileVars
<1>9. QED
  BY <1>5, <1>6, <1>7, <1>8

\* A step that leaves the block, the file and the flush in progress alone.
LEMMA QuietOrder ==
  ASSUME StoreInv,
         UNCHANGED <<block, sorted, fileVars, pc, writeVars, mergeVars>>,
         UNCHANGED <<puts, flushed, wiped>>
  PROVE  Progress' /\ Stamps' /\ Orders' /\ Kept'
<1>1. Progress'
  BY DEF StoreInv, Progress, HeaderMatches, fileVars, writeVars, mergeVars
<1>2. Stamps'
  BY DEF StoreInv, Stamps, Below, Older, fileVars, writeVars
<1>3. Orders'
  BY DEF StoreInv, Orders, Rising, Ordered, fileVars, writeVars
<1>4. Kept'
  BY DEF StoreInv, Kept, Vals, fileVars, writeVars
<1>5. QED
  BY <1>1, <1>2, <1>3, <1>4

\* The process ends: the block and the flush in progress are gone, and if the
\* file was truncated its nodes are too.
LEMMA DiesOrder ==
  ASSUME StoreInv, Dies, UNCHANGED fileVars
  PROVE  Progress' /\ Stamps' /\ Orders' /\ Kept'
<1>1. /\ pc' = "dead" /\ call' = "none" /\ block' = <<>> /\ out' = <<>>
      /\ outCount' = 0 /\ nodes' = nodes /\ count' = count
      /\ fileState' = fileState /\ sorted' = sorted /\ puts' = puts
      /\ flushed' = flushed
  BY DEF Dies, Forgets, fileVars
<1>2. Progress'
  BY <1>1 DEF StoreInv, Progress, HeaderMatches
<1>3. Stamps'
  BY <1>1 DEF StoreInv, Stamps, Below, Older
<1>4. Orders'
  BY <1>1 DEF StoreInv, Orders, Ordered
<1>5. Kept'
  <2> SUFFICES ASSUME ~ wiped'
               PROVE  flushed \subseteq Vals(nodes)
    BY <1>1 DEF Kept, Vals
  <2>1. ~ wiped /\ pc # "write"
    BY Zenon DEF Dies
  <2>2. QED
    BY <2>1 DEF StoreInv, Kept
<1>6. QED
  BY <1>2, <1>3, <1>4, <1>5

\* A new process has an empty block.
LEMMA RestartOrder ==
  ASSUME PutGetOnly, StoreInv, Restart
  PROVE  Progress' /\ Stamps' /\ Orders' /\ Kept'
<1>1. /\ pc = "dead" /\ pc' = "idle"
      /\ UNCHANGED <<block, fileVars, writeVars, histVars, mergeVars>>
  BY DEF Restart
<1>2. sorted' = TRUE
  BY Zenon DEF Restart, PutGetOnly
<1>3. Len(block) = 0
  BY <1>1 DEF StoreInv, Progress
<1>4. Progress'
  BY <1>1, <1>2 DEF StoreInv, Progress, HeaderMatches, fileVars, writeVars
<1>5. Stamps'
  BY <1>1 DEF StoreInv, Stamps, Below, Older, fileVars, writeVars, histVars
<1>6. Orders'
  BY <1>1, <1>3 DEF StoreInv, Orders, Rising, Ordered, fileVars, writeVars
<1>7. Kept'
  BY <1>1 DEF StoreInv, Kept, Vals, fileVars, histVars
<1>8. QED
  BY <1>4, <1>5, <1>6, <1>7

\* merge_sort() turns the order of the stamps into the order of the file.
LEMMA SortOrder ==
  ASSUME StoreInv, Sort
  PROVE  Progress' /\ Stamps' /\ Orders' /\ Kept'
<1>1. /\ pc = "sort" /\ pc' = "read" /\ sorted = TRUE /\ Rising(block)
      /\ block \in Seq(Node)
      /\ UNCHANGED <<sorted, fileVars, writeVars, histVars, mergeVars>>
  BY DEF Sort, StoreInv, Progress, Orders, LSMInv, LSMTypeOK
<1>2. /\ block' \in [1..Len(block) -> {block[i] : i \in 1..Len(block)}]
      /\ IsMergeSortOf(block', block)
  BY <1>1 DEF Sort
<1>3. block' \in Seq(Node) /\ Len(block') = Len(block)
  BY <1>1, <1>2, SortedType
<1>4. Ordered(block') /\ Nodes(block') = Nodes(block)
  BY <1>1, <1>2, <1>3, SortOrders
<1>5. \A j \in 1..Len(block') : \E i \in 1..Len(block) : block'[j] = block[i]
  BY <1>4 DEF Nodes
<1>6. Progress'
  BY <1>1, <1>3 DEF StoreInv, Progress, HeaderMatches, fileVars, writeVars
<1>7. Stamps'
  <2>1. Below(block', puts + 1)
    BY <1>5 DEF StoreInv, Stamps, Below
  <2>2. Older(nodes, block')
    BY <1>5 DEF StoreInv, Stamps, Older
  <2>3. call = "put" => Below(block', arg.val)
    BY <1>5 DEF StoreInv, Stamps, Below
  <2>4. QED
    BY <1>1, <2>1, <2>2, <2>3 DEF StoreInv, Stamps, fileVars, writeVars, histVars,
       Below, Older
<1>8. Orders'
  BY <1>1, <1>4 DEF StoreInv, Orders, Ordered, fileVars, writeVars
<1>9. Kept'
  BY <1>1 DEF StoreInv, Kept, Vals, fileVars, histVars
<1>10. QED
  BY <1>6, <1>7, <1>8, <1>9

\* Without a file the block is what will be written.
LEMMA ReadNoFileOrder ==
  ASSUME StoreInv, ReadNoFile
  PROVE  Progress' /\ Stamps' /\ Orders' /\ Kept'
<1>1. /\ pc = "read" /\ pc' = "open" /\ fileState = "absent" /\ out' = block
      /\ outCount' = Len(block)
      /\ UNCHANGED <<block, sorted, fileVars, call, arg, histVars, mergeVars>>
  BY DEF ReadNoFile
<1>2. nodes = <<>> /\ Ordered(block)
  BY <1>1 DEF StoreInv, Progress, Orders
<1>3. Nodes(out') = Nodes(nodes') \cup Nodes(block')
  BY <1>1, <1>2 DEF Nodes, fileVars
<1>4. Progress'
  BY <1>1, <1>3 DEF StoreInv, Progress, HeaderMatches, fileVars
<1>5. Stamps'
  BY <1>1 DEF StoreInv, Stamps, Below, Older, fileVars, histVars
<1>6. Orders'
  BY <1>1, <1>2 DEF StoreInv, Orders, Ordered, fileVars
<1>7. Kept'
  BY <1>1 DEF StoreInv, Kept, Vals, fileVars, histVars
<1>8. QED
  BY <1>4, <1>5, <1>6, <1>7

\* A file whose header is right is read as it is.
LEMMA ReadsWhatIsThere ==
  ASSUME LSMTypeOK, count = Len(nodes), fileState # "written" => nodes = <<>>,
         NEW d \in FileData
  PROVE  d = nodes
<1>1. nodes \in Seq(Node) /\ Len(nodes) \in Nat
  BY DEF LSMTypeOK
<1>2. CASE fileState = "written"
  <2>1. d \in Padded(nodes, count)
    BY <1>2 DEF FileData
  <2>2. /\ d \in Seq(Node) /\ Len(d) = count
        /\ \A i \in 1..Len(nodes) : d[i] = nodes[i]
    BY <1>1, <2>1, PaddedProperties
  <2>3. QED
    BY <1>1, <2>2, SeqEqual
<1>3. CASE fileState # "written"
  BY <1>3 DEF FileData
<1>4. QED
  BY <1>2, <1>3

\* merge() is called on the file and the block.
LEMMA ReadFileOrder ==
  ASSUME StoreInv, ReadFile
  PROVE  Progress' /\ Stamps' /\ Orders' /\ Kept'
<1>1. /\ pc = "read" /\ pc' = "merge"
      /\ UNCHANGED <<block, sorted, fileVars, writeVars, histVars>>
  BY DEF ReadFile
<1>2. left' = nodes
  BY ReadsWhatIsThere DEF ReadFile, MergeCall, StoreInv, LSMInv, Progress, HeaderMatches
<1>3. Progress'
  BY <1>1, <1>2 DEF StoreInv, Progress, HeaderMatches, fileVars, writeVars
<1>4. Stamps'
  BY <1>1 DEF StoreInv, Stamps, Below, Older, fileVars, writeVars, histVars
<1>5. Orders'
  BY <1>1 DEF StoreInv, Orders, Ordered, fileVars, writeVars
<1>6. Kept'
  BY <1>1 DEF StoreInv, Kept, Vals, fileVars, histVars
<1>7. QED
  BY <1>3, <1>4, <1>5, <1>6

\* The loop of merge() changes neither of its arrays.
LEMMA MergeLoopOrder ==
  ASSUME StoreInv, MergeLoop
  PROVE  Progress' /\ Stamps' /\ Orders' /\ Kept'
<1>1. /\ pc = "merge" /\ left' = left
      /\ UNCHANGED <<block, sorted, fileVars, pc, writeVars, histVars>>
  BY DEF MergeLoop, MergeStep, TakeLeft, TakeRight, DrainLeft, DrainRight,
         CopyLeft, CopyRight
<1>2. Progress'
  BY <1>1 DEF StoreInv, Progress, HeaderMatches, fileVars, writeVars
<1>3. Stamps'
  BY <1>1 DEF StoreInv, Stamps, Below, Older, fileVars, writeVars, histVars
<1>4. Orders'
  BY <1>1 DEF StoreInv, Orders, Ordered, fileVars, writeVars
<1>5. Kept'
  BY <1>1 DEF StoreInv, Kept, Vals, fileVars, histVars
<1>6. QED
  BY <1>2, <1>3, <1>4, <1>5

\* The merged array is in order, and the header counts it.
LEMMA MergeEndOrder ==
  ASSUME StoreInv, MergeEnd
  PROVE  Progress' /\ Stamps' /\ Orders' /\ Kept'
<1>1. /\ pc = "merge" /\ pc' = "open" /\ MergeDone /\ out' = whole
      /\ outCount' = Len(left) + BlockSize
      /\ UNCHANGED <<block, sorted, fileVars, call, arg, histVars>>
  BY DEF MergeEnd
<1>2. MergeInv /\ left = nodes /\ right = block
  BY <1>1 DEF StoreInv, LSMInv, Progress
<1>3. Ordered(whole) /\ Nodes(whole) = Nodes(nodes) \cup Nodes(block)
  BY <1>1, <1>2, MergeOrders DEF StoreInv, Stamps, Orders
<1>4. call = "put" /\ Len(block) = BlockSize
  BY <1>1 DEF StoreInv, LSMInv, LSMTypeOK, Progress
<1>5. outCount' = Len(out')
  BY <1>1, <1>4, MergeEndLength DEF StoreInv
<1>6. Nodes(out') = Nodes(nodes') \cup Nodes(block')
  BY <1>1, <1>3 DEF fileVars
<1>7. Progress'
  BY <1>1, <1>5, <1>6 DEF StoreInv, Progress, HeaderMatches, fileVars
<1>8. Below(whole, arg.val)
  <2>1. \A i \in 1..Len(whole) : whole[i] \in Nodes(nodes) \cup Nodes(block)
    BY <1>3 DEF Nodes
  <2>2. Below(nodes, arg.val) /\ Below(block, arg.val)
    BY <1>4 DEF StoreInv, Stamps
  <2>3. QED
    BY <2>1, <2>2 DEF Below, Nodes
<1>9. Stamps'
  BY <1>1, <1>8 DEF StoreInv, Stamps, Below, Older, fileVars, histVars
<1>10. Orders'
  BY <1>1, <1>3 DEF StoreInv, Orders, Ordered, fileVars
<1>11. Kept'
  BY <1>1 DEF StoreInv, Kept, Vals, fileVars, histVars
<1>12. QED
  BY <1>7, <1>9, <1>10, <1>11

\* The truncation: what was in the file is now only in memory.
LEMMA OpenWriteOrder ==
  ASSUME StoreInv, OpenWrite
  PROVE  Progress' /\ Stamps' /\ Orders' /\ Kept'
<1>1. /\ pc = "open" /\ pc' = "write" /\ fileState' = "empty" /\ count' = 0
      /\ nodes' = <<>>
      /\ UNCHANGED <<block, sorted, writeVars, histVars, mergeVars>>
  BY DEF OpenWrite
<1>2. Nodes(out) = Nodes(nodes) \cup Nodes(block)
  BY <1>1 DEF StoreInv, Progress
<1>3. Nodes(block') \subseteq Nodes(out')
  BY <1>1, <1>2 DEF writeVars
<1>4. Progress'
  BY <1>1, <1>3 DEF StoreInv, Progress, HeaderMatches, writeVars
<1>5. Stamps'
  BY <1>1 DEF StoreInv, Stamps, Below, Older, writeVars, histVars
<1>6. Orders'
  BY <1>1 DEF StoreInv, Orders, Ordered, writeVars
<1>7. Kept'
  <2>1. Vals(nodes) \subseteq Vals(out)
    BY <1>2, ValsOfNodes
  <2>2. ~ wiped => flushed \subseteq Vals(nodes)
    BY <1>1 DEF StoreInv, Kept
  <2>3. ~ wiped' => flushed' \subseteq Vals(out')
    BY <1>1, <2>1, <2>2 DEF writeVars, histVars
  <2>4. QED
    BY <1>1, <2>3 DEF Kept
<1>8. QED
  BY <1>4, <1>5, <1>6, <1>7

\* What a complete write leaves in the file is the array prepared, if that has
\* the length its header says.
LEMMA WritesOut ==
  ASSUME LSMTypeOK, outCount = Len(out), Write
  PROVE  nodes' = out /\ count' = Len(out) /\ fileState' = "written"
<1>1. out \in Seq(Node) /\ Len(out) \in Nat
  BY DEF LSMTypeOK
<1>2. PICK s \in Padded(out, outCount) : FileIs(s, outCount)
  BY DEF Write
<1>3. s \in Seq(Node) /\ Len(s) = Len(out) /\ \A i \in 1..Len(out) : s[i] = out[i]
  BY <1>1, <1>2, PaddedProperties
<1>4. s = out
  BY <1>1, <1>3, SeqEqual
<1>5. SubSeq(out, 1, Len(out)) = out
  BY <1>1
<1>6. QED
  BY <1>1, <1>2, <1>4, <1>5 DEF FileIs

\* The write completes: the file is in order, and the block holds the one
\* node that is later than all of it.
LEMMA WriteOrder ==
  ASSUME StoreInv, Write
  PROVE  Progress' /\ Stamps' /\ Orders' /\ Kept'
<1>1. /\ pc = "write" /\ pc' = "idle" /\ call = "put" /\ call' = "none"
      /\ block' = <<arg>> /\ out' = <<>> /\ outCount' = 0
      /\ flushed' = flushed \cup Vals(out)
      /\ sorted' = sorted /\ puts' = puts /\ wiped' = wiped
  BY DEF Write, CallReturns, Forgets, StoreInv, Progress, LSMInv, LSMTypeOK
<1>2. nodes' = out /\ count' = Len(out) /\ fileState' = "written"
  BY WritesOut DEF StoreInv, LSMInv, Progress, HeaderMatches
<1>3. /\ Below(out, arg.val) /\ 0 < arg.val /\ arg.val <= puts /\ arg.val \in Int /\ puts \in Nat
      /\ Ordered(out) /\ out \in Seq(Node)
  BY <1>1, LSMAssumption DEF StoreInv, LSMInv, LSMTypeOK, Stamps, Orders, Node
<1>4. Len(block') = 1 /\ block'[1] = arg
  BY <1>1
<1>5. Progress'
  BY <1>1, <1>2 DEF StoreInv, Progress, HeaderMatches
<1>6. Stamps'
  <2>1. \A i \in 1..Len(out) : /\ out[i].val \in Int
                               /\ 0 < out[i].val /\ out[i].val < arg.val
    BY <1>3, NodeFields DEF Below
  <2>2. Below(out, puts + 1)
    BY <1>3, <2>1 DEF Below
  <2>3. Below(block', puts + 1)
    BY <1>3, <1>4 DEF Below
  <2>4. Older(out, block')
    BY <1>4, <2>1 DEF Older
  <2>5. QED
    BY <1>1, <1>2, <2>2, <2>3, <2>4 DEF Stamps
<1>7. Orders'
  <2>1. Rising(block')
    BY <1>4 DEF Rising
  <2>2. QED
    BY <1>1, <1>2, <1>3, <2>1 DEF Orders, Ordered
<1>8. Kept'
  <2>1. ~ wiped => flushed \subseteq Vals(out)
    BY <1>1 DEF StoreInv, Kept
  <2>2. ~ wiped' => flushed' \subseteq Vals(nodes')
    BY <1>1, <1>2, <2>1
  <2>3. QED
    BY <1>1, <2>2 DEF Kept
<1>9. QED
  BY <1>5, <1>6, <1>7, <1>8

\* All steps that such a program and its environment can take.
LEMMA StoreNext ==
  ASSUME PutGetOnly, StoreInv, [Next]_vars
  PROVE  StoreInv'
<1> DEFINE Goal == Progress' /\ Stamps' /\ Orders' /\ Kept'
<1>1. ASSUME NEW k \in Keys, KeyCall(k) PROVE Goal
  <2>1. CASE GetFromBuffer(k) \/ GetFromDisk(k)
    BY <2>1, QuietOrder DEF GetFromBuffer, GetFromDisk, Reads
  <2>2. ~ (Update(k) \/ UpdateDies(k) \/ DeleteFromBuffer(k) \/ DeleteDies(k))
    BY DEF PutGetOnly, Update, UpdateDies, DeleteFromBuffer, DeleteDies, Calls
  <2>3. QED
    BY <1>1, <2>1, <2>2, PutRoomOrder, PutFullOrder DEF KeyCall
<1>2. ~ (Flush \/ WriteShort \/ KillTorn)
  BY DEF PutGetOnly, Flush, Calls, WriteShort, KillTorn
<1>3. Destruct \/ Kill => Goal
  BY DiesOrder DEF Destruct, Kill
<1>4. CallStep => Goal
  BY <1>2, SortOrder, ReadNoFileOrder, ReadFileOrder, MergeLoopOrder,
     MergeEndOrder, OpenWriteOrder, WriteOrder DEF CallStep
<1>5. UNCHANGED vars => Goal
  BY QuietOrder DEF vars, histVars
<1>6. Goal
  BY <1>1, <1>2, <1>3, <1>4, <1>5, RestartOrder DEF Next
<1>7. QED
  BY <1>6, LSMNextInv DEF StoreInv

\* DiskOrdered, HeaderMatches and DurableUnlessWiped for every block size,
\* every set of keys and every number of puts, flushes, restarts and kills that
\* are not inside a write.
THEOREM LSMStoreCorrect ==
  ASSUME PutGetOnly
  PROVE  Spec => [](DiskOrdered /\ HeaderMatches /\ DurableUnlessWiped)
<1>1. Init => StoreInv
  BY StoreInit
<1>2. StoreInv /\ [Next]_vars => StoreInv'
  BY StoreNext
<1>3. StoreInv => DiskOrdered /\ HeaderMatches /\ DurableUnlessWiped
  BY DEF StoreInv, Orders, Progress, Kept, DiskOrdered, DurableUnlessWiped
<1>4. QED
  BY <1>1, <1>2, <1>3, PTL DEF Spec

-----------------------------------------------------------------------------
\* No value is lost

\* put(), get() and direct calls of write_to_disk(), sorted or not, with
\* everything going well.
NoFaults == Ops \subseteq {"put", "get", "flush"} /\ Faults = {}

\* How far a rewrite has come.
Rewriting ==
  /\ pc # "dead"
  /\ call # "put" => arg.val = 0
  /\ fileState = "empty" => pc = "write"
  /\ fileState = "absent" => nodes = <<>>
  /\ pc = "merge" => Vals(nodes) \subseteq Vals(left)

\* Where the values are: in the block and the file until the array to be
\* written holds both, and from there on in that array; the last one may be in
\* the node that put() holds back.
AllThere ==
  /\ pc \notin {"open", "write"} =>
       1..puts \subseteq Vals(block) \cup Vals(nodes) \cup {arg.val}
  /\ pc \in {"open", "write"} => 1..puts \subseteq Vals(out) \cup {arg.val}

KeepInv == LSMInv /\ Rewriting /\ AllThere

\* The values of an array that holds the nodes of two others.
LEMMA ValsOfUnion ==
  ASSUME NEW s, NEW t, NEW u, Nodes(s) = Nodes(t) \cup Nodes(u)
  PROVE  Vals(s) = Vals(t) \cup Vals(u)
<1>1. ASSUME NEW x PROVE Vals(x) = {n.val : n \in Nodes(x)}
  BY DEF Vals, Nodes
<1>2. QED
  BY <1>1

\* Appending a node adds its value.
LEMMA ValsOfAppend ==
  ASSUME NEW s \in Seq(Node), NEW n \in Node
  PROVE  Vals(s) \cup {n.val} \subseteq Vals(Append(s, n))
<1>1. Len(Append(s, n)) = Len(s) + 1 /\ Append(s, n)[Len(s) + 1] = n
  OBVIOUS
<1>2. \A i \in 1..Len(s) : Append(s, n)[i] = s[i]
  OBVIOUS
<1>3. QED
  BY <1>1, <1>2 DEF Vals

\* An array that starts with another has its values.
LEMMA ValsOfPrefix ==
  ASSUME NEW s \in Seq(Node), NEW d \in Seq(Node), Len(s) <= Len(d),
         \A i \in 1..Len(s) : d[i] = s[i]
  PROVE  Vals(s) \subseteq Vals(d)
<1>1. \A i \in 1..Len(s) : i \in 1..Len(d)
  OBVIOUS
<1>2. QED
  BY <1>1 DEF Vals

\* put() keeps what there is and adds its own value.
LEMMA PutKeeps ==
  ASSUME KeepInv, NEW k \in Keys, PutRoom(k) \/ PutFull(k)
  PROVE  Rewriting' /\ AllThere'
<1>1. puts \in Nat /\ block \in Seq(Node) /\ pc = "idle" /\ call = "none"
      /\ arg.val = 0 /\ puts' = puts + 1
  BY LSMAssumption DEF KeepInv, LSMInv, LSMTypeOK, Rewriting, PutRoom, PutFull,
     Calls, NewValue, Stamp
<1>2. 1..puts \subseteq Vals(block) \cup Vals(nodes)
  BY <1>1 DEF KeepInv, AllThere
<1>3. 1..(puts + 1) = 1..puts \cup {puts + 1}
  BY <1>1
<1> DEFINE n == [key |-> k, val |-> puts + 1]
<1>4. n \in Node /\ n.val = puts + 1
  BY <1>1, LSMAssumption DEF Node
<1>5. CASE PutRoom(k)
  <2>1. block' = Append(block, n)
        /\ UNCHANGED <<fileVars, pc, writeVars, mergeVars>>
    BY <1>5 DEF PutRoom, Stamp
  <2>2. Vals(block) \cup {puts + 1} \subseteq Vals(block')
    BY <1>1, <1>4, <2>1, ValsOfAppend
  <2>3. Rewriting'
    BY <1>1, <2>1 DEF KeepInv, Rewriting, fileVars, writeVars
  <2>4. QED
    BY <1>1, <1>2, <1>3, <2>1, <2>2, <2>3 DEF AllThere, fileVars, writeVars
<1>6. CASE PutFull(k)
  <2>1. /\ arg'.val = puts + 1 /\ pc' = "sort" /\ call' = "put"
        /\ UNCHANGED <<block, fileVars>>
    BY <1>6 DEF PutFull, Starts, Stamp
  <2>2. Rewriting'
    BY <1>1, <2>1 DEF KeepInv, Rewriting, fileVars
  <2>3. QED
    BY <1>1, <1>2, <1>3, <2>1, <2>2 DEF AllThere, fileVars
<1>7. QED
  BY <1>5, <1>6

\* get() changes nothing of it.
LEMMA GetKeeps ==
  ASSUME KeepInv, NEW k \in Keys, GetFromBuffer(k) \/ GetFromDisk(k)
  PROVE  Rewriting' /\ AllThere'
<1>1. UNCHANGED <<block, fileVars, pc, writeVars, mergeVars, puts>>
  BY DEF GetFromBuffer, GetFromDisk, Reads
<1>2. QED
  BY <1>1 DEF KeepInv, Rewriting, AllThere, fileVars, writeVars, mergeVars

\* A direct call of write_to_disk() has no node to append.
LEMMA FlushKeeps ==
  ASSUME KeepInv, Flush
  PROVE  Rewriting' /\ AllThere'
BY DEF Flush, Calls, Starts, KeepInv, Rewriting, AllThere, LSMInv, LSMTypeOK, fileVars

\* Sorting, merging and truncating: the values are in the array to be written
\* before the file is truncated.
LEMMA RewriteKeeps ==
  ASSUME KeepInv,
         Sort \/ ReadNoFile \/ ReadFile \/ MergeLoop \/ MergeEnd \/ OpenWrite
  PROVE  Rewriting' /\ AllThere'
<1>1. CASE Sort
  <2>1. /\ pc = "sort" /\ pc' = "read" /\ block \in Seq(Node)
        /\ UNCHANGED <<sorted, fileVars, writeVars, histVars, mergeVars>>
    BY <1>1 DEF Sort, KeepInv, LSMInv, LSMTypeOK
  <2>2. Vals(block) \subseteq Vals(block')
    <3>1. CASE block' = block
      BY <3>1
    <3>2. CASE /\ block' \in [1..Len(block) -> {block[i] : i \in 1..Len(block)}]
               /\ IsMergeSortOf(block', block)
      BY <2>1, <3>2, SortedType, SortKeeps, ValsOfNodes
    <3>3. QED
      BY <1>1, <3>1, <3>2 DEF Sort
  <2>3. QED
    BY <2>1, <2>2 DEF KeepInv, Rewriting, AllThere, fileVars, writeVars, histVars
<1>2. CASE ReadNoFile
  <2>1. /\ pc = "read" /\ pc' = "open" /\ out' = block /\ nodes = <<>>
        /\ UNCHANGED <<block, fileVars, call, arg, puts>>
    BY <1>2 DEF ReadNoFile, KeepInv, Rewriting, histVars
  <2>2. Vals(nodes) = {}
    BY <2>1 DEF Vals
  <2>3. QED
    BY <2>1, <2>2 DEF KeepInv, Rewriting, AllThere, fileVars
<1>3. CASE ReadFile
  <2>1. /\ pc = "read" /\ pc' = "merge" /\ fileState # "absent"
        /\ UNCHANGED <<block, fileVars, writeVars, puts>>
    BY <1>3 DEF ReadFile, histVars
  <2>2. fileState = "written"
    BY <2>1 DEF KeepInv, Rewriting, LSMInv, LSMTypeOK
  <2>3. PICK d \in Padded(nodes, count) : left' = d
    BY <1>3, <2>2 DEF ReadFile, FileData, MergeCall
  <2>4. nodes \in Seq(Node) /\ count \in Nat /\ Len(nodes) <= count
    BY DEF KeepInv, LSMInv, LSMTypeOK
  <2>5. d \in Seq(Node) /\ Len(d) = count /\ \A i \in 1..Len(nodes) : d[i] = nodes[i]
    BY <2>3, <2>4, PaddedProperties
  <2>6. Vals(nodes) \subseteq Vals(d)
    BY <2>4, <2>5, ValsOfPrefix
  <2>7. QED
    BY <2>1, <2>3, <2>6 DEF KeepInv, Rewriting, AllThere, fileVars, writeVars
<1>4. CASE MergeLoop
  <2>1. left' = left /\ UNCHANGED <<block, fileVars, pc, writeVars, puts>>
    BY <1>4 DEF MergeLoop, MergeStep, TakeLeft, TakeRight, DrainLeft, DrainRight,
       CopyLeft, CopyRight, histVars
  <2>2. QED
    BY <2>1 DEF KeepInv, Rewriting, AllThere, fileVars, writeVars
<1>5. CASE MergeEnd
  <2>1. /\ pc = "merge" /\ pc' = "open" /\ MergeDone /\ out' = whole
        /\ UNCHANGED <<block, fileVars, call, arg, puts>>
    BY <1>5 DEF MergeEnd, histVars
  <2>2. MergeInv /\ right = block /\ Vals(nodes) \subseteq Vals(left)
    BY <2>1 DEF KeepInv, LSMInv, Rewriting
  <2>3. Vals(whole) = Vals(left) \cup Vals(right)
    BY <2>1, <2>2, MergeKeeps, ValsOfUnion
  <2>4. QED
    BY <2>1, <2>2, <2>3 DEF KeepInv, Rewriting, AllThere, fileVars
<1>6. CASE OpenWrite
  BY <1>6 DEF OpenWrite, KeepInv, Rewriting, AllThere, writeVars, histVars
<1>7. QED
  BY <1>1, <1>2, <1>3, <1>4, <1>5, <1>6

\* The write puts the array in the file, and put() then appends its node.
LEMMA WriteKeeps ==
  ASSUME KeepInv, Write
  PROVE  Rewriting' /\ AllThere'
<1>1. /\ pc = "write" /\ pc' = "idle" /\ puts' = puts /\ fileState' = "written"
      /\ call' = "none" /\ arg'.val = 0
      /\ (call = "put" /\ block' = <<arg>>) \/ call = "flush"
  BY DEF Write, FileIs, CallReturns, Forgets, NoArg, KeepInv, Rewriting
<1>2. PICK s \in Padded(out, outCount) : nodes' = SubSeq(s, 1, outCount)
  BY DEF Write, FileIs
<1>3. out \in Seq(Node) /\ outCount \in Nat /\ Len(out) <= outCount
  BY DEF KeepInv, LSMInv, LSMTypeOK
<1>4. s \in Seq(Node) /\ Len(s) = outCount /\ \A i \in 1..Len(out) : s[i] = out[i]
  BY <1>2, <1>3, PaddedProperties
<1>5. nodes' = s
  BY <1>2, <1>3, <1>4
<1>6. Vals(out) \subseteq Vals(nodes')
  BY <1>3, <1>4, <1>5, ValsOfPrefix
<1>7. 1..puts \subseteq Vals(nodes') \cup {arg.val}
  BY <1>1, <1>6 DEF KeepInv, AllThere
<1>8. 1..puts \subseteq Vals(nodes') \cup Vals(block')
  <2>1. CASE call = "put" /\ block' = <<arg>>
    <3>1. arg.val \in Vals(block')
      BY <2>1 DEF Vals
    <3>2. QED
      BY <1>7, <3>1
  <2>2. CASE call = "flush"
    <3>1. arg.val = 0
      BY <2>2 DEF KeepInv, Rewriting
    <3>2. QED
      BY <1>7, <3>1
  <2>3. QED
    BY <1>1, <2>1, <2>2
<1>9. QED
  BY <1>1, <1>8 DEF Rewriting, AllThere

\* All steps together.
LEMMA KeepNext ==
  ASSUME NoFaults, KeepInv, [Next]_vars
  PROVE  KeepInv'
<1>1. ASSUME NEW k \in Keys, KeyCall(k) PROVE Rewriting' /\ AllThere'
  <2>1. ~ (Update(k) \/ UpdateDies(k) \/ DeleteFromBuffer(k) \/ DeleteDies(k))
    BY DEF NoFaults, Update, UpdateDies, DeleteFromBuffer, DeleteDies, Calls
  <2>2. QED
    BY <1>1, <2>1, PutKeeps, GetKeeps DEF KeyCall
<1>2. ~ (Destruct \/ WriteShort \/ Kill \/ KillTorn \/ Restart)
  BY DEF NoFaults, Destruct, Calls, WriteShort, Kill, KillTorn, Restart, KeepInv,
         Rewriting
<1>3. CallStep => Rewriting' /\ AllThere'
  BY <1>2, RewriteKeeps, WriteKeeps DEF CallStep
<1>4. UNCHANGED vars => Rewriting' /\ AllThere'
  BY DEF KeepInv, Rewriting, AllThere, vars, fileVars, writeVars, histVars, mergeVars
<1>5. Rewriting' /\ AllThere'
  BY <1>1, <1>2, <1>3, <1>4, FlushKeeps DEF Next
<1>6. QED
  BY <1>5, LSMNextInv DEF KeepInv

\* NothingLost for every instance without faults, sorted or not, whatever
\* uninitialised memory holds: a direct call of write_to_disk() miscounts the
\* file and fills it with garbage, but loses no value handed to put().
THEOREM LSMNothingLost ==
  ASSUME NoFaults
  PROVE  Spec => []NothingLost
<1>1. Init => KeepInv
  <2> SUFFICES ASSUME Init PROVE Rewriting /\ AllThere
    BY LSMInitInv DEF KeepInv
  <2>1. QED
    BY DEF Init, NoArg, Rewriting, AllThere
<1>2. KeepInv /\ [Next]_vars => KeepInv'
  BY KeepNext
<1>3. KeepInv => NothingLost
  BY DEF KeepInv, AllThere, NothingLost
<1>4. QED
  BY <1>1, <1>2, <1>3, PTL DEF Spec
=============================================================================
