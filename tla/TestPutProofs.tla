--------------------------- MODULE TestPutProofs ---------------------------
(***************************************************************************)
(* The driver test_put(), for every block size and any sequence of runs    *)
(* over one file, killed anywhere or not: the header counts whole blocks,  *)
(* every key of the run is stored when the driver prints, and what it      *)
(* prints is what it should.                                               *)
(*                                                                         *)
(* (The loop variable of the driver is i, so no bound variable is.)        *)
(***************************************************************************)
EXTENDS TestPut, LSMProofs

KeysOf(s) == {s[j].key : j \in 1..Len(s)}

\* The header, and the array that will replace the file, are whole blocks, at
\* least one; no file, and one that was truncated, hold none.  A kill inside the
\* write may leave fewer nodes than the header says: what is read of such a file
\* has as many as it says, and those that are there among them.
FileWhole ==
  /\ count % BlockSize = 0
  /\ fileState = "written" <=> count > 0
  /\ call \in {"none", "put"}
  /\ call = "put" => Len(block) = BlockSize
  /\ pc = "dead" => block = <<>>
  /\ pc = "merge" => Len(left) = count /\ KeysOf(nodes) \subseteq KeysOf(left)
  /\ pc \in {"open", "write"} =>
       Len(out) = outCount /\ outCount % BlockSize = 0 /\ outCount > 0

\* How far the loop is: the i-th put() has key i - 1.  Between calls the last
\* keys are in the block, in order, and those before them in the file.  During
\* a flush the key that put() holds back is the last one.
PutSoFar ==
  /\ dataSize \in DataSizes /\ i \in 0..dataSize
  /\ pc = "idle" =>
       /\ Len(block) <= i
       /\ i > 0 => block # <<>>
       /\ Len(block) < i => count > 0 /\ Len(nodes) = count
       /\ \A j \in 1..Len(block) : block[j].key = i - Len(block) + j - 1
       /\ 0..(i - Len(block) - 1) \subseteq KeysOf(nodes)
  /\ call = "put" => i > 0 /\ arg.key = i - 1
  /\ pc \in {"sort", "read", "merge"} =>
       0..(i - 2) \subseteq KeysOf(nodes) \cup KeysOf(block)
  /\ pc \in {"open", "write"} => 0..(i - 2) \subseteq KeysOf(out)

\* The tree is printed once, after the last put().
PrintedLast ==
  /\ pc \notin {"idle", "dead"} => printed = NotYet
  /\ pc = "idle" /\ printed # NotYet => i = dataSize
  /\ PrintsWhatThereIs

TestInv == LSMInv /\ FileWhole /\ PutSoFar /\ PrintedLast

-----------------------------------------------------------------------------

\* The next multiple of w is one.
LEMMA NextMultiple ==
  ASSUME NEW a \in Nat, NEW w \in Nat \ {0}, a % w = 0
  PROVE  (a + w) % w = 0
<1> DEFINE q == a \div w
           x == a + w
           y == x \div w
           z == x % w
<1>1. q \in Nat /\ a = w * q + 0
  OBVIOUS
<1>2. x \in Nat /\ y \in Nat /\ z \in 0..(w - 1) /\ x = w * y + z
  OBVIOUS
<1>3. x = w * (q + 1)
  BY <1>1
<1> HIDE DEF q, x, y, z
<1>4. z = w * (q + 1 - y)
  BY <1>1, <1>2, <1>3
<1>5. q + 1 - y \in Int
  BY <1>1, <1>2
<1>6. ~ (q + 1 - y >= 1)
  <2> SUFFICES ASSUME q + 1 - y >= 1 PROVE FALSE
    OBVIOUS
  <2>1. w * (q + 1 - y) >= w
    BY <1>5
  <2>2. QED
    BY <1>2, <1>4, <2>1
<1>7. ~ (q + 1 - y <= -1)
  <2> SUFFICES ASSUME q + 1 - y <= -1 PROVE FALSE
    OBVIOUS
  <2>1. w * (q + 1 - y) <= -w
    BY <1>5
  <2>2. QED
    BY <1>2, <1>4, <2>1
<1>8. q + 1 - y = 0
  BY <1>5, <1>6, <1>7
<1>9. z = 0
  BY <1>4, <1>8
<1>10. QED
  BY <1>9 DEF z, x

\* The keys of an array that holds the nodes of two others, or of one.
LEMMA KeysOfUnion ==
  ASSUME NEW s, NEW t, NEW u, Nodes(s) = Nodes(t) \cup Nodes(u)
  PROVE  KeysOf(s) = KeysOf(t) \cup KeysOf(u)
<1>1. ASSUME NEW x PROVE KeysOf(x) = {n.key : n \in Nodes(x)}
  BY DEF KeysOf, Nodes
<1>2. QED
  BY <1>1

LEMMA KeysOfSame ==
  ASSUME NEW s, NEW t, Nodes(s) = Nodes(t)
  PROVE  KeysOf(s) = KeysOf(t)
<1>1. Nodes(s) = Nodes(t) \cup Nodes(t)
  OBVIOUS
<1>2. QED
  BY <1>1, KeysOfUnion

\* The numbers are numbers.
LEMMA TestTypes ==
  ASSUME TestInv
  PROVE  /\ i \in Nat /\ dataSize \in Nat /\ i <= dataSize
         /\ block \in Seq(Node) /\ nodes \in Seq(Node) /\ out \in Seq(Node)
         /\ Len(block) \in Nat /\ Len(nodes) \in Nat /\ count \in Nat
         /\ BlockSize \in Nat \ {0} /\ Len(block) <= BlockSize
         /\ outCount \in Nat /\ LSMTypeOK /\ Len(nodes) <= count
         /\ fileState \in {"absent", "empty", "written"}
         /\ call = "none" <=> pc \in {"idle", "dead"}
BY LSMAssumption, TestAssumption DEF TestInv, LSMInv, LSMTypeOK, PutSoFar

\* The first run finds no file.
LEMMA TestInitInv == TestInit => TestInv
<1> SUFFICES ASSUME TestInit PROVE FileWhole /\ PutSoFar /\ PrintedLast
  BY LSMInitInv DEF TestInv, TestInit
<1>1. BlockSize \in Nat \ {0} /\ 0 % BlockSize = 0
  BY LSMAssumption
<1>2. FileWhole
  BY <1>1 DEF TestInit, Init, FileWhole
<1>3. PutSoFar
  <2>1. dataSize \in DataSizes /\ dataSize \in Nat /\ i = 0 /\ block = <<>>
        /\ pc = "idle" /\ call = "none"
    BY TestAssumption DEF TestInit, Init
  <2>2. Len(block) = 0
    BY <2>1
  <2>3. QED
    BY <2>1, <2>2 DEF PutSoFar
<1>4. PrintedLast
  BY DEF TestInit, Init, PrintedLast, PrintsWhatThereIs
<1>5. QED
  BY <1>2, <1>3, <1>4

\* put() of the next key into a block with room.
LEMMA PutRoomTest ==
  ASSUME TestInv, PutNext, NEW k \in Keys, k = i, PutRoom(k)
  PROVE  FileWhole' /\ PutSoFar' /\ PrintedLast'
<1> DEFINE n == [key |-> k, val |-> Stamp]
<1>1. /\ pc = "idle" /\ call = "none" /\ i < dataSize /\ i' = i + 1
      /\ block' = Append(block, n)
      /\ UNCHANGED <<fileVars, pc, writeVars, dataSize, printed>>
  BY TestTypes DEF PutNext, PutRoom, Calls
<1>2. printed = NotYet
  BY <1>1, TestTypes DEF TestInv, PrintedLast
<1>3. /\ Len(block') = Len(block) + 1 /\ block'[Len(block) + 1] = n
      /\ \A j \in 1..Len(block) : block'[j] = block[j]
  BY <1>1, TestTypes
<1>4. /\ Len(block) <= i /\ 0..(i - Len(block) - 1) \subseteq KeysOf(nodes)
      /\ Len(block) < i => count > 0 /\ Len(nodes) = count
      /\ \A j \in 1..Len(block) : block[j].key = i - Len(block) + j - 1
  BY <1>1 DEF TestInv, PutSoFar
<1>5. FileWhole'
  BY <1>1 DEF TestInv, FileWhole, fileVars, writeVars
<1>6. PutSoFar'
  <2>1. dataSize' \in DataSizes /\ i' \in 0..dataSize'
    BY <1>1, TestTypes DEF TestInv, PutSoFar
  <2>2. i' - Len(block') = i - Len(block) /\ Len(block') <= i'
    <3>1. i \in Nat /\ Len(block) \in Nat
      BY TestTypes
    <3>2. i' = i + 1 /\ Len(block') = Len(block) + 1 /\ Len(block) <= i
      BY <1>1, <1>3, <1>4
    <3>3. QED
      BY <3>1, <3>2
  <2>3. block' # <<>>
    BY <1>3, TestTypes
  <2>4. \A j \in 1..Len(block') : block'[j].key = i - Len(block) + j - 1
    <3>1. n.key = i - Len(block) + (Len(block) + 1) - 1
      BY TestTypes
    <3>2. \A j \in 1..Len(block') : j \in 1..Len(block) \/ j = Len(block) + 1
      BY <1>3, TestTypes
    <3>3. QED
      BY <1>3, <1>4, <3>1, <3>2
  <2>5. KeysOf(nodes') = KeysOf(nodes) /\ nodes' = nodes /\ count' = count
    BY <1>1 DEF fileVars
  <2>6. Len(block') < i' => Len(block) < i
    BY <1>1, <1>3, TestTypes
  <2>7. QED
    BY <1>1, <1>4, <2>1, <2>2, <2>3, <2>4, <2>5, <2>6 DEF PutSoFar, writeVars
<1>7. PrintedLast'
  BY <1>1, <1>2 DEF PrintedLast, PrintsWhatThereIs
<1>8. QED
  BY <1>5, <1>6, <1>7

\* put() of the next key on a full block.
LEMMA PutFullTest ==
  ASSUME TestInv, PutNext, NEW k \in Keys, k = i, PutFull(k)
  PROVE  FileWhole' /\ PutSoFar' /\ PrintedLast'
<1>1. /\ pc = "idle" /\ i < dataSize /\ i' = i + 1 /\ Len(block) = BlockSize
      /\ pc' = "sort" /\ call' = "put" /\ arg'.key = i
      /\ UNCHANGED <<block, fileVars, dataSize, printed>>
  BY DEF PutNext, PutFull, Starts, Calls
<1>2. printed = NotYet
  BY <1>1, TestTypes DEF TestInv, PrintedLast
<1>3. /\ Len(block) <= i /\ 0..(i - Len(block) - 1) \subseteq KeysOf(nodes)
      /\ \A j \in 1..Len(block) : block[j].key = i - Len(block) + j - 1
  BY <1>1 DEF TestInv, PutSoFar
<1>4. FileWhole'
  BY <1>1 DEF TestInv, FileWhole, fileVars
<1>5. 0..(i' - 2) \subseteq KeysOf(nodes) \cup KeysOf(block)
  <2> SUFFICES ASSUME NEW m \in 0..(i - 1) PROVE m \in KeysOf(nodes) \cup KeysOf(block)
    BY <1>1, TestTypes
  <2>1. CASE m <= i - Len(block) - 1
    BY <1>3, <2>1, TestTypes
  <2>2. CASE m > i - Len(block) - 1
    <3> DEFINE b == Len(block)
               j == m - (i - b) + 1
    <3>1. j \in 1..Len(block) /\ i - Len(block) + j - 1 = m
      <4>1. i \in Nat /\ b \in Nat /\ m \in Nat /\ m <= i - 1 /\ b <= i /\ m > i - b - 1
        BY <1>3, <2>2, TestTypes
      <4> HIDE DEF b
      <4>2. j \in 1..b /\ i - b + j - 1 = m
        BY <4>1
      <4>3. QED
        BY <4>2 DEF b
    <3>2. block[j].key = m
      BY <1>3, <3>1
    <3>3. QED
      BY <3>1, <3>2 DEF KeysOf
  <2>3. QED
    BY <2>1, <2>2, TestTypes
<1>6. PutSoFar'
  <2>1. dataSize' \in DataSizes /\ i' \in 0..dataSize' /\ i' > 0 /\ i' - 1 = i
    BY <1>1, TestTypes DEF TestInv, PutSoFar
  <2>2. KeysOf(nodes') = KeysOf(nodes) /\ KeysOf(block') = KeysOf(block)
    BY <1>1 DEF fileVars
  <2>3. QED
    BY <1>1, <1>5, <2>1, <2>2 DEF PutSoFar
<1>7. PrintedLast'
  BY <1>1, <1>2 DEF PrintedLast, PrintsWhatThereIs
<1>8. QED
  BY <1>4, <1>6, <1>7

\* The steps of a flush up to the write: the keys are in the file and the block
\* until the array to be written has them all.
LEMMA FlushTest ==
  ASSUME TestInv, UNCHANGED <<dataSize, i, printed>>,
         Sort \/ ReadNoFile \/ ReadFile \/ MergeLoop \/ MergeEnd \/ OpenWrite
  PROVE  FileWhole' /\ PutSoFar' /\ PrintedLast'
<1>1. /\ pc \notin {"idle", "dead"} /\ pc' \notin {"idle", "dead"}
      /\ UNCHANGED <<call, arg>>
  BY DEF Sort, ReadNoFile, ReadFile, MergeLoop, MergeEnd, OpenWrite, writeVars
<1>2. PrintedLast'
  BY <1>1 DEF TestInv, PrintedLast, PrintsWhatThereIs
<1>3. /\ dataSize' \in DataSizes /\ i' \in 0..dataSize'
      /\ call' = "put" => i' > 0 /\ arg'.key = i' - 1
  BY <1>1 DEF TestInv, PutSoFar
<1>4. call = "put" /\ Len(block) = BlockSize
  BY <1>1, TestTypes DEF TestInv, FileWhole
<1>5. CASE Sort
  <2>1. /\ pc = "sort" /\ pc' = "read" /\ UNCHANGED <<fileVars, writeVars>>
    BY <1>5 DEF Sort
  <2>2. Len(block') = Len(block) /\ KeysOf(block') = KeysOf(block)
    <3>1. CASE block' = block
      BY <3>1
    <3>2. CASE /\ block' \in [1..Len(block) -> {block[j] : j \in 1..Len(block)}]
               /\ IsMergeSortOf(block', block)
      BY <3>2, TestTypes, SortedType, SortKeeps, KeysOfSame
    <3>3. QED
      BY <1>5, <3>1, <3>2 DEF Sort
  <2>3. FileWhole'
    BY <1>4, <2>1, <2>2 DEF TestInv, FileWhole, fileVars, writeVars
  <2>4. PutSoFar'
    BY <1>3, <2>1, <2>2 DEF TestInv, PutSoFar, fileVars
  <2>5. QED
    BY <1>2, <2>3, <2>4
<1>6. CASE ReadNoFile
  <2>1. /\ pc = "read" /\ pc' = "open" /\ fileState = "absent" /\ out' = block
        /\ outCount' = Len(block) /\ UNCHANGED <<block, fileVars>>
    BY <1>6 DEF ReadNoFile
  <2>2. nodes = <<>>
    <3>1. count = 0
      BY <2>1, TestTypes DEF TestInv, FileWhole
    <3>2. Len(nodes) = 0
      BY <3>1, TestTypes
    <3>3. QED
      BY <3>2, TestTypes
  <2>3. BlockSize % BlockSize = 0
    <3>1. (0 + BlockSize) % BlockSize = 0
      BY TestTypes, NextMultiple
    <3>2. QED
      BY <3>1, TestTypes
  <2>4. FileWhole'
    BY <1>1, <1>4, <2>1, <2>3, TestTypes DEF TestInv, FileWhole, fileVars
  <2>5. KeysOf(nodes) = {}
    BY <2>2 DEF KeysOf
  <2>6. PutSoFar'
    BY <1>3, <2>1, <2>5 DEF TestInv, PutSoFar
  <2>7. QED
    BY <1>2, <2>4, <2>6
<1>7. CASE ReadFile
  <2>1. pc = "read" /\ pc' = "merge" /\ UNCHANGED <<block, fileVars>>
    BY <1>7 DEF ReadFile
  <2>2. Len(left') = count /\ KeysOf(nodes) \subseteq KeysOf(left')
    <3>1. PICK d \in FileData : left' = d
      BY <1>7 DEF ReadFile, MergeCall
    <3>2. CASE fileState = "written"
      <4>1. d \in Padded(nodes, count)
        BY <3>2 DEF FileData
      <4>2. Len(d) = count /\ \A j \in 1..Len(nodes) : d[j] = nodes[j]
        BY <4>1, TestTypes, PaddedProperties
      <4>3. 1..Len(nodes) \subseteq 1..Len(d)
        BY <4>2, TestTypes
      <4>4. QED
        BY <3>1, <4>2, <4>3 DEF KeysOf
    <3>3. CASE fileState # "written"
      <4>1. count = 0 /\ d = <<>>
        BY <3>3, TestTypes DEF TestInv, FileWhole, FileData
      <4>2. Len(nodes) = 0 /\ Len(d) = 0
        BY <4>1, TestTypes
      <4>3. QED
        BY <3>1, <4>1, <4>2 DEF KeysOf
    <3>4. QED
      BY <3>2, <3>3
  <2>3. FileWhole'
    BY <1>1, <1>4, <2>1, <2>2 DEF TestInv, FileWhole, fileVars
  <2>4. PutSoFar'
    BY <1>3, <2>1 DEF TestInv, PutSoFar, fileVars
  <2>5. QED
    BY <1>2, <2>3, <2>4
<1>8. CASE MergeLoop
  <2>1. pc = "merge" /\ pc' = "merge" /\ left' = left /\ UNCHANGED <<block, fileVars>>
    BY <1>8 DEF MergeLoop, MergeStep, TakeLeft, TakeRight, DrainLeft, DrainRight,
       CopyLeft, CopyRight
  <2>2. FileWhole'
    BY <1>1, <1>4, <2>1 DEF TestInv, FileWhole, fileVars
  <2>3. PutSoFar'
    BY <1>3, <2>1 DEF TestInv, PutSoFar, fileVars
  <2>4. QED
    BY <1>2, <2>2, <2>3
<1>9. CASE MergeEnd
  <2>1. /\ pc = "merge" /\ pc' = "open" /\ MergeDone /\ out' = whole
        /\ outCount' = Len(left) + BlockSize /\ UNCHANGED <<block, fileVars>>
    BY <1>9 DEF MergeEnd
  <2>2. /\ Len(left) = count /\ KeysOf(nodes) \subseteq KeysOf(left)
        /\ right = block /\ MergeInv
    BY <2>1 DEF TestInv, FileWhole, LSMInv
  <2>3. Len(whole) = count + BlockSize
    BY <1>4, <1>9, <2>2, MergeEndLength DEF TestInv
  <2>4. (count + BlockSize) % BlockSize = 0
    BY TestTypes, NextMultiple DEF TestInv, FileWhole
  <2>5. count + BlockSize > 0
    BY TestTypes
  <2>6. FileWhole'
    BY <1>1, <1>4, <2>1, <2>2, <2>3, <2>4, <2>5 DEF TestInv, FileWhole, fileVars
  <2>7. KeysOf(whole) = KeysOf(left) \cup KeysOf(block)
    BY <2>1, <2>2, MergeKeeps, KeysOfUnion
  <2>8. PutSoFar'
    BY <1>3, <2>1, <2>2, <2>7 DEF TestInv, PutSoFar
  <2>9. QED
    BY <1>2, <2>6, <2>8
<1>10. CASE OpenWrite
  <2>1. /\ pc = "open" /\ pc' = "write" /\ fileState' = "empty" /\ count' = 0
        /\ nodes' = <<>> /\ UNCHANGED <<block, writeVars>>
    BY <1>10 DEF OpenWrite
  <2>2. 0 % BlockSize = 0 /\ ~ (count' > 0)
    BY <2>1, TestTypes
  <2>3. FileWhole'
    BY <1>4, <2>1, <2>2 DEF TestInv, FileWhole, writeVars
  <2>4. PutSoFar'
    BY <1>3, <2>1 DEF TestInv, PutSoFar, writeVars
  <2>5. QED
    BY <1>2, <2>3, <2>4
<1>11. QED
  BY <1>5, <1>6, <1>7, <1>8, <1>9, <1>10

\* The write completes, and put() appends the key it held back.
LEMMA WriteTest ==
  ASSUME TestInv, UNCHANGED <<dataSize, i, printed>>, Write
  PROVE  FileWhole' /\ PutSoFar' /\ PrintedLast'
<1>1. pc = "write" /\ pc' = "idle" /\ call' = "none"
  BY DEF Write, CallReturns, Forgets
<1>2. call = "put"
  BY <1>1, TestTypes DEF TestInv, FileWhole
<1>3. block' = <<arg>>
  BY <1>2 DEF Write, CallReturns
<1>4. /\ outCount = Len(out) /\ outCount % BlockSize = 0 /\ outCount > 0
      /\ i > 0 /\ arg.key = i - 1 /\ 0..(i - 2) \subseteq KeysOf(out)
      /\ printed = NotYet
  BY <1>1, <1>2 DEF TestInv, FileWhole, PutSoFar, PrintedLast
<1>5. nodes' = out /\ count' = Len(out) /\ fileState' = "written"
  BY <1>4, TestTypes, WritesOut
<1>6. FileWhole'
  <2>1. count' = outCount /\ count' > 0
    BY <1>4, <1>5
  <2>2. QED
    BY <1>1, <1>4, <1>5, <2>1 DEF FileWhole
<1>7. Len(block') = 1 /\ block' # <<>> /\ block'[1] = arg
  BY <1>3
<1>8. PutSoFar'
  <2>1. dataSize' \in DataSizes /\ i' \in 0..dataSize' /\ i' = i /\ i \in Nat
    BY TestTypes DEF TestInv, PutSoFar
  <2>2. i - 1 - 1 = i - 2 /\ i - 1 + 1 - 1 = i - 1 /\ 1 <= i
    BY <1>4, <2>1
  <2>3. \A j \in 1..Len(block') : block'[j].key = i' - Len(block') + j - 1
    BY <1>4, <1>7, <2>1, <2>2
  <2>4. 0..(i' - Len(block') - 1) \subseteq KeysOf(nodes')
    BY <1>4, <1>5, <1>7, <2>1, <2>2
  <2>5. Len(block') <= i'
    BY <1>7, <2>1, <2>2
  <2>6. QED
    BY <1>1, <1>4, <1>5, <1>7, <2>1, <2>3, <2>4, <2>5 DEF PutSoFar
<1>9. PrintedLast'
  BY <1>1, <1>4 DEF PrintedLast, PrintsWhatThereIs
<1>10. QED
  BY <1>6, <1>8, <1>9

\* test_print_tree() returns.
LEMMA PrintTest ==
  ASSUME TestInv, PrintTree \/ PrintNoFile
  PROVE  FileWhole' /\ PutSoFar' /\ PrintedLast'
<1>1. /\ pc = "idle" /\ i = dataSize /\ UNCHANGED <<vars, dataSize, i>>
  BY DEF PrintTree, PrintNoFile, Prints
<1>2. /\ UNCHANGED <<block, fileState, count, nodes, pc, call, arg, out, outCount, left>>
  BY <1>1 DEF vars, fileVars, writeVars, mergeVars
<1>3. FileWhole' /\ PutSoFar'
  BY <1>1, <1>2 DEF TestInv, FileWhole, PutSoFar
<1>4. dataSize > BlockSize => count > 0 /\ Len(nodes) = count
  BY <1>1, TestTypes DEF TestInv, PutSoFar
<1>5. PrintsWhatThereIs'
  <2>1. CASE fileState = "absent"
    BY <1>2, <2>1 DEF PrintsWhatThereIs
  <2>2. CASE fileState = "empty"
    <3>1. printed' = Sections("zero") /\ ~ (count > 0)
      BY <2>2 DEF PrintTree, PrintNoFile, TestInv, FileWhole
    <3>2. ~ (dataSize > BlockSize)
      BY <1>1, <3>1, <1>4
    <3>3. QED
      BY <1>1, <1>2, <3>1, <3>2 DEF Sections, PrintsWhatThereIs
  <2>3. CASE fileState = "written"
    <3>1. printed' = Sections("positive") /\ count > 0
      BY <2>3 DEF PrintTree, PrintNoFile, TestInv, FileWhole
    <3>2. QED
      BY <1>1, <1>2, <1>4, <3>1 DEF Sections, PrintsWhatThereIs
  <2>4. QED
    BY <2>1, <2>2, <2>3, TestTypes
<1>6. PrintedLast'
  BY <1>1, <1>2, <1>5 DEF PrintedLast
<1>7. QED
  BY <1>3, <1>6

\* The run ends, at its end or before.
LEMMA EndTest ==
  ASSUME TestInv, Dies, UNCHANGED <<fileVars, dataSize, i, printed>>
  PROVE  FileWhole' /\ PutSoFar' /\ PrintedLast'
<1>1. pc' = "dead" /\ call' = "none" /\ block' = <<>>
  BY DEF Dies, Forgets
<1>2. FileWhole'
  BY <1>1 DEF TestInv, FileWhole, fileVars
<1>3. PutSoFar'
  BY <1>1 DEF TestInv, PutSoFar
<1>4. PrintedLast'
  BY <1>1 DEF PrintedLast, PrintsWhatThereIs
<1>5. QED
  BY <1>2, <1>3, <1>4

\* A run is killed inside the write.
LEMMA KillTornTest ==
  ASSUME TestInv, KillTorn, UNCHANGED <<dataSize, i, printed>>
  PROVE  FileWhole' /\ PutSoFar' /\ PrintedLast'
<1>1. pc' = "dead" /\ call' = "none" /\ block' = <<>>
  BY DEF KillTorn, Dies, Forgets
<1>2. count' = outCount /\ fileState' = "written" /\ pc = "write"
  BY DEF KillTorn, FileIs
<1>3. outCount % BlockSize = 0 /\ outCount > 0
  BY <1>2 DEF TestInv, FileWhole
<1>4. FileWhole'
  BY <1>1, <1>2, <1>3 DEF FileWhole
<1>5. PutSoFar'
  BY <1>1 DEF TestInv, PutSoFar
<1>6. PrintedLast'
  BY <1>1 DEF PrintedLast, PrintsWhatThereIs
<1>7. QED
  BY <1>4, <1>5, <1>6

\* The program is run again over the file that is there.
LEMMA RestartTest ==
  ASSUME TestInv, TestRestart
  PROVE  FileWhole' /\ PutSoFar' /\ PrintedLast'
<1>1. /\ pc = "dead" /\ pc' = "idle" /\ i' = 0 /\ printed' = NotYet
      /\ dataSize' \in DataSizes /\ UNCHANGED <<block, fileVars, writeVars>>
  BY DEF TestRestart, Restart
<1>2. block' = <<>> /\ call' = "none" /\ Len(block') = 0
  BY <1>1, TestTypes DEF TestInv, FileWhole, writeVars
<1>3. FileWhole'
  BY <1>1, <1>2 DEF TestInv, FileWhole, fileVars
<1>4. PutSoFar'
  <2>1. dataSize' \in Nat
    BY <1>1, TestAssumption
  <2>2. QED
    BY <1>1, <1>2, <2>1 DEF PutSoFar
<1>5. PrintedLast'
  BY <1>1 DEF PrintedLast, PrintsWhatThereIs
<1>6. QED
  BY <1>3, <1>4, <1>5

\* Every step of every run.
LEMMA TestNextInv ==
  ASSUME "short" \notin Faults, TestInv, [TestNext]_testVars
  PROVE  TestInv'
<1>1. CASE PutNext
  <2>1. i \in Keys
    <3>1. dataSize \in DataSizes /\ i \in 0..(dataSize - 1)
      BY <1>1, TestTypes DEF PutNext, TestInv, PutSoFar
    <3>2. QED
      BY <3>1, TestAssumption
  <2>2. PICK k \in Keys : k = i
    BY <2>1
  <2>3. PutRoom(k) \/ PutFull(k)
    BY <1>1, <2>2 DEF PutNext
  <2>4. LSMInv'
    BY <2>3, PutRoomInv, PutFullInv DEF TestInv
  <2>5. FileWhole' /\ PutSoFar' /\ PrintedLast'
    BY <1>1, <2>2, <2>3, PutRoomTest, PutFullTest
  <2>6. QED
    BY <2>4, <2>5 DEF TestInv
<1>2. CASE TestCallStep
  <2>1. ~ WriteShort
    BY DEF WriteShort
  <2>2. LSMInv'
    BY <1>2, SortInv, ReadInv, MergeLoopInv, MergeEndInv, OpenWriteInv, WriteInv
    DEF TestCallStep, CallStep, TestInv
  <2>3. FileWhole' /\ PutSoFar' /\ PrintedLast'
    BY <1>2, <2>1, FlushTest, WriteTest DEF TestCallStep, CallStep
  <2>4. QED
    BY <2>2, <2>3 DEF TestInv
<1>3. CASE PrintTree \/ PrintNoFile
  <2>1. LSMInv'
    BY <1>3, LSMStutterInv DEF PrintTree, PrintNoFile, TestInv
  <2>2. QED
    BY <1>3, <2>1, PrintTest DEF TestInv
<1>4. CASE NotPut \/ PrintDies \/ Exit \/ (TestKill /\ Kill)
  <2>1. Dies /\ UNCHANGED <<fileVars, dataSize, i, printed>>
    BY <1>4 DEF NotPut, PrintDies, Exit, TestKill, Kill
  <2>2. LSMInv'
    BY <2>1, DeathsInv DEF TestInv
  <2>3. QED
    BY <2>1, <2>2, EndTest DEF TestInv
<1>5. CASE TestRestart
  <2>1. LSMInv'
    BY <1>5, RestartInv DEF TestRestart, TestInv
  <2>2. QED
    BY <1>5, <2>1, RestartTest DEF TestInv
<1>6. CASE UNCHANGED testVars
  <2>1. LSMInv'
    BY <1>6, LSMStutterInv DEF testVars, TestInv
  <2>2. QED
    BY <1>6, <2>1 DEF testVars, vars, fileVars, writeVars, mergeVars, TestInv,
       FileWhole, PutSoFar, PrintedLast, PrintsWhatThereIs
<1>7. CASE TestKill /\ KillTorn
  BY <1>7, KillTornInv, KillTornTest DEF TestKill, TestInv
<1>8. QED
  BY <1>1, <1>2, <1>3, <1>4, <1>5, <1>6, <1>7 DEF TestNext, TestStep, TestKill

\* WholeBlocks, EveryKeyStored and PrintsWhatThereIs for every block size and
\* any sequence of runs of any sizes over one file, each killed wherever it may
\* be, inside the write too, or not at all.  Writes do not fail.
THEOREM TestPutCorrect ==
  ASSUME "short" \notin Faults
  PROVE  TestSpec => [](WholeBlocks /\ EveryKeyStored /\ PrintsWhatThereIs)
<1>1. TestInit => TestInv
  BY TestInitInv
<1>2. TestInv /\ [TestNext]_testVars => TestInv'
  BY TestNextInv
<1>3. TestInv => WholeBlocks /\ EveryKeyStored /\ PrintsWhatThereIs
  <2> SUFFICES ASSUME TestInv
               PROVE  WholeBlocks /\ EveryKeyStored /\ PrintsWhatThereIs
    OBVIOUS
  <2>1. WholeBlocks /\ PrintsWhatThereIs
    BY DEF TestInv, FileWhole, PutSoFar, PrintedLast, WholeBlocks
  <2>2. EveryKeyStored
    <3> SUFFICES ASSUME Prints, dataSize > 0
                 PROVE  /\ block # <<>>
                        /\ \A j \in 1..Len(block) :
                             block[j].key = dataSize - Len(block) + j - 1
                        /\ \A k \in 0..(dataSize - Len(block) - 1) :
                             \E j \in 1..Len(nodes) : nodes[j].key = k
      BY DEF EveryKeyStored
    <3>1. pc = "idle" /\ i = dataSize
      BY DEF Prints
    <3>2. QED
      BY <3>1 DEF TestInv, PutSoFar, KeysOf
  <2>3. QED
    BY <2>1, <2>2
<1>4. QED
  BY <1>1, <1>2, <1>3, PTL DEF TestSpec
=============================================================================
