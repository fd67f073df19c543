-------------------------- MODULE LSMSharedProofs --------------------------
(***************************************************************************)
(* Any number of processes on one file: the header stays bounded, nothing  *)
(* is lost unless two rewrites meet or one is cut short, and a rewrite     *)
(* that meets no other one repairs the file.                               *)
(***************************************************************************)
EXTENDS LSMShared, SequenceTheorems, TLAPS

\* For its induction over sets of numbers.
Sorting == INSTANCE MergeProofs WITH left <- <<>>, right <- <<>>, l <- 0, r <- 0,
                                     whole <- <<>>, posL <- <<>>, posR <- <<>>,
                                     input <- <<>>, stack <- <<>>, result <- <<>>

-----------------------------------------------------------------------------
\* The header is bounded

Bound == BlockSize * flushes

SharedNode == [key : Int, val : Int]

\* The invariant: what a process is about to write as header is bounded like
\* the header itself.  num[p] was read from the file at some earlier time, and
\* flushes only grows.
SharedInv ==
  /\ flushes \in Nat
  /\ count \in Int /\ count <= Bound
  /\ num \in [Procs -> Int] /\ \A p \in Procs : num[p] <= Bound
  /\ block \in [Procs -> Seq(SharedNode)]
  /\ \A p \in Procs : Len(block[p]) <= BlockSize
  /\ arg \in [Procs -> SharedNode]
  /\ puts \in Nat

\* More calls, a larger bound.
LEMMA BoundGrows ==
  ASSUME flushes \in Nat, flushes' = flushes + 1
  PROVE  Bound \in Nat /\ Bound' = Bound + BlockSize /\ BlockSize \in Nat \ {0}
BY SharedAssumption DEF Bound

\* The node that put() makes of a key.
LEMMA NewNodeType ==
  ASSUME puts \in Nat, NEW k \in Keys
  PROVE  NewNode(k) \in SharedNode
BY SharedAssumption DEF NewNode, SharedNode

\* merge_sort() keeps the length of the block and takes its nodes from it.
LEMMA SortedBlockType ==
  ASSUME NEW b \in Seq(SharedNode), Len(b) = BlockSize,
         NEW s \in [1..BlockSize -> {b[i] : i \in 1..BlockSize}]
  PROVE  s \in Seq(SharedNode) /\ Len(s) = BlockSize
<1>1. \A i \in 1..BlockSize : b[i] \in SharedNode
  OBVIOUS
<1>2. s \in [1..BlockSize -> SharedNode]
  BY <1>1
<1> QED
  BY <1>2, SharedAssumption

\* SharedInit establishes the invariant.
LEMMA SharedInvInit == SharedInit => SharedInv
BY SharedAssumption DEF SharedInit, SharedInv, Bound, NoArg, SharedNode

\* Every step keeps it.
LEMMA SharedInvNext == SharedInv /\ [SharedNext]_sharedVars => SharedInv'
<1> SUFFICES ASSUME SharedInv, [SharedNext]_sharedVars PROVE SharedInv'
  OBVIOUS
<1> USE DEF SharedInv
<1>1. CASE UNCHANGED sharedVars
  BY <1>1 DEF sharedVars, procVars, fileVars, histVars, Bound
<1>2. ASSUME NEW p \in Procs, NEW k \in Keys, PutRoom(p, k) PROVE SharedInv'
  BY <1>2, NewNodeType, SharedAssumption DEF PutRoom, fileVars, Bound
<1>3. ASSUME NEW p \in Procs, NEW k \in Keys, PutFull(p, k) PROVE SharedInv'
  <2>1. PICK s \in [1..BlockSize -> {block[p][i] : i \in 1..BlockSize}] :
          block' = [block EXCEPT ![p] = s]
    BY <1>3 DEF PutFull
  <2>2. s \in Seq(SharedNode) /\ Len(s) = BlockSize
    BY <1>3, <2>1, SortedBlockType DEF PutFull
  <2>3. /\ block' \in [Procs -> Seq(SharedNode)]
        /\ \A q \in Procs : Len(block'[q]) <= BlockSize
    BY <2>1, <2>2, SharedAssumption
  <2>4. arg' \in [Procs -> SharedNode]
    BY <1>3, NewNodeType DEF PutFull
  <2> QED
    BY <1>3, <2>3, <2>4 DEF PutFull, fileVars, Bound
<1>4. ASSUME NEW p \in Procs, StatFails(p) PROVE SharedInv'
  BY <1>4, BoundGrows, SharedAssumption DEF StatFails, fileVars
<1>5. ASSUME NEW p \in Procs, ReadHeader(p) PROVE SharedInv'
  BY <1>5 DEF ReadHeader, fileVars, Bound
<1>6. ASSUME NEW p \in Procs, ReadData(p) PROVE SharedInv'
  BY <1>6, BoundGrows, SharedAssumption DEF ReadData, fileVars
<1>7. ASSUME NEW p \in Procs, OpenWrite(p) PROVE SharedInv'
  BY <1>7, SharedAssumption DEF OpenWrite, histVars, Bound
<1>8. ASSUME NEW p \in Procs, WriteHeader(p) PROVE SharedInv'
  BY <1>8 DEF WriteHeader, histVars, Bound
<1>9. ASSUME NEW p \in Procs, WriteNodes(p) PROVE SharedInv'
  BY <1>9, SharedAssumption DEF WriteNodes, Bound, NoArg, SharedNode
<1>10. ASSUME NEW p \in Procs, Kill(p) PROVE SharedInv'
  BY <1>10, SharedAssumption DEF Kill, fileVars, Bound, NoArg, SharedNode
<1> QED
  BY <1>1, <1>2, <1>3, <1>4, <1>5, <1>6, <1>7, <1>8, <1>9, <1>10
  DEF SharedNext, FlushStep

\* Any number of processes may rewrite disk_storage.txt at the same time, read
\* what the others have half written and be killed: the header never claims
\* more than one block for each call of write_to_disk() that got to know what
\* it would write.
THEOREM SharedHeaderIsBounded == SharedSpec => []SharedHeaderBounded
<1>1. SharedInv => SharedHeaderBounded
  BY DEF SharedInv, SharedHeaderBounded, Bound
<1> QED
  BY <1>1, SharedInvInit, SharedInvNext, PTL DEF SharedSpec

-----------------------------------------------------------------------------
\* What merge() writes

\* The rounds up to the n-th.
IsRounds(a, b, n, g) ==
  g = [i \in 0..n |-> IF i = 0 THEN [l |-> 0, r |-> 0, whole |-> <<>>]
                      ELSE MergeTake(a, b, g[i - 1])]

\* The recursion of MergeRounds has a solution, round by round.
LEMMA RoundsExist ==
  ASSUME NEW a, NEW b, NEW n \in Nat
  PROVE  \E g : IsRounds(a, b, n, g)
<1> DEFINE S == {k \in Nat : \E g : IsRounds(a, b, k, g)}
           start == [l |-> 0, r |-> 0, whole |-> <<>>]
<1>1. 0 \in S
  <2> DEFINE g == [i \in 0..0 |-> start]
  <2>1. g = [i \in 0..0 |-> IF i = 0 THEN start ELSE MergeTake(a, b, g[i - 1])]
    OBVIOUS
  <2>2. IsRounds(a, b, 0, g)
    BY <2>1 DEF IsRounds
  <2> QED
    BY <2>2
<1>2. ASSUME NEW k \in Nat, k \in S
      PROVE  k + 1 \in S
  <2>1. PICK g : IsRounds(a, b, k, g)
    BY <1>2
  <2> DEFINE Round(x) == MergeTake(a, b, x)
             h == [i \in 0..(k + 1) |-> IF i = k + 1 THEN Round(g[k]) ELSE g[i]]
  <2>2. g = [i \in 0..k |-> IF i = 0 THEN start ELSE Round(g[i - 1])]
    BY <2>1 DEF IsRounds
  <2>3. h = [i \in 0..(k + 1) |-> IF i = 0 THEN start ELSE Round(h[i - 1])]
    <3> HIDE DEF Round, start
    <3>1. \A i \in 0..k : g[i] = IF i = 0 THEN start ELSE Round(g[i - 1])
      BY <2>2
    <3>2. ASSUME NEW i \in 0..(k + 1)
          PROVE  h[i] = IF i = 0 THEN start ELSE Round(h[i - 1])
      <4>1. CASE i = k + 1
        <5>1. i # 0 /\ i - 1 = k /\ h[i] = Round(g[k]) /\ h[k] = g[k]
          BY <4>1
        <5> QED
          BY <5>1
      <4>2. CASE i # k + 1
        <5>1. i \in 0..k /\ h[i] = g[i] /\ (i # 0 => h[i - 1] = g[i - 1])
          BY <4>2
        <5> QED
          BY <3>1, <5>1
      <4> QED
        BY <4>1, <4>2
    <3> QED
      BY <3>2
  <2>4. IsRounds(a, b, k + 1, h)
    BY <2>3 DEF IsRounds
  <2> QED
    BY <2>4
<1>3. Nat \subseteq S
  <2> HIDE DEF S
  <2> QED
    BY <1>1, <1>2, Sorting!SetInduction
<1> QED
  BY <1>3

\* So MergeRounds is one.
LEMMA RoundsAre ==
  ASSUME NEW a \in Seq(SharedNode), NEW b \in Seq(SharedNode)
  PROVE  IsRounds(a, b, Len(a) + Len(b), MergeRounds(a, b))
<1>0. Len(a) + Len(b) \in Nat
  OBVIOUS
<1>1. \E g : IsRounds(a, b, Len(a) + Len(b), g)
  BY <1>0, RoundsExist, Zenon
<1>2. MergeRounds(a, b) = CHOOSE g : IsRounds(a, b, Len(a) + Len(b), g)
  BY DEF MergeRounds, IsRounds
<1> QED
  BY <1>1, <1>2

\* After n rounds, n nodes have been written, among them all that were taken.
Taken(a, b, s, n) ==
  /\ s.l \in 0..Len(a) /\ s.r \in 0..Len(b) /\ s.l + s.r = n
  /\ s.whole \in Seq(SharedNode) /\ Len(s.whole) = n
  /\ \A i \in 1..s.l : \E j \in 1..n : s.whole[j] = a[i]
  /\ \A i \in 1..s.r : \E j \in 1..n : s.whole[j] = b[i]

\* One more round.
LEMMA TakeOne ==
  ASSUME NEW a \in Seq(SharedNode), NEW b \in Seq(SharedNode), NEW s, NEW n \in Nat,
         Taken(a, b, s, n), n < Len(a) + Len(b)
  PROVE  Taken(a, b, MergeTake(a, b, s), n + 1)
<1> DEFINE l == s.l
           r == s.r
           w == s.whole
           left == l < Len(a) /\ (r = Len(b) \/ a[l + 1].key < b[r + 1].key)
           x == IF left THEN a[l + 1] ELSE b[r + 1]
           L == IF left THEN l + 1 ELSE l
           R == IF left THEN r ELSE r + 1
           t == MergeTake(a, b, s)
<1>1. t.l = L /\ t.r = R /\ t.whole = Append(w, x)
  BY DEF MergeTake
<1>2. /\ l \in 0..Len(a) /\ r \in 0..Len(b) /\ l + r = n
      /\ w \in Seq(SharedNode) /\ Len(w) = n
      /\ \A i \in 1..l : \E j \in 1..n : w[j] = a[i]
      /\ \A i \in 1..r : \E j \in 1..n : w[j] = b[i]
  BY DEF Taken
<1>3. left \/ r < Len(b)
  BY <1>2
<1> HIDE DEF t, l, r, w
<1>4. L \in 0..Len(a) /\ R \in 0..Len(b) /\ L + R = n + 1
  BY <1>2, <1>3
<1>5. x \in SharedNode
  BY <1>2, <1>3
<1>6. /\ Append(w, x) \in Seq(SharedNode) /\ Len(Append(w, x)) = n + 1
      /\ \A j \in 1..n : Append(w, x)[j] = w[j]
      /\ Append(w, x)[n + 1] = x
  BY <1>2, <1>5
<1>7. \A i \in 1..L : \E j \in 1..(n + 1) : Append(w, x)[j] = a[i]
  <2> SUFFICES ASSUME NEW i \in 1..L PROVE \E j \in 1..(n + 1) : Append(w, x)[j] = a[i]
    OBVIOUS
  <2>1. CASE i \in 1..l
    BY <1>2, <1>6, <2>1
  <2>2. CASE i \notin 1..l
    <3>1. i = l + 1 /\ left
      BY <1>2, <2>2
    <3>2. n + 1 \in 1..(n + 1)
      OBVIOUS
    <3> QED
      BY <1>6, <3>1, <3>2
  <2> QED
    BY <2>1, <2>2
<1>8. \A i \in 1..R : \E j \in 1..(n + 1) : Append(w, x)[j] = b[i]
  <2> SUFFICES ASSUME NEW i \in 1..R PROVE \E j \in 1..(n + 1) : Append(w, x)[j] = b[i]
    OBVIOUS
  <2>1. CASE i \in 1..r
    BY <1>2, <1>6, <2>1
  <2>2. CASE i \notin 1..r
    <3>1. i = r + 1 /\ ~ left
      BY <1>2, <2>2
    <3>2. n + 1 \in 1..(n + 1)
      OBVIOUS
    <3> QED
      BY <1>6, <3>1, <3>2
  <2> QED
    BY <2>1, <2>2
<1>9. Taken(a, b, t, n + 1)
  <2> DEFINE W == Append(w, x)
  <2>1. /\ t.l = L /\ t.r = R /\ t.whole = W
        /\ W \in Seq(SharedNode) /\ Len(W) = n + 1
        /\ \A i \in 1..L : \E j \in 1..(n + 1) : W[j] = a[i]
        /\ \A i \in 1..R : \E j \in 1..(n + 1) : W[j] = b[i]
    BY <1>1, <1>6, <1>7, <1>8
  <2> HIDE DEF L, R, x, W
  <2> QED
    BY <1>4, <2>1 DEF Taken
<1> QED
  BY <1>9 DEF t

\* merge() writes as many nodes as it is given, and every one of them.
LEMMA MergeKeepsAll ==
  ASSUME NEW a \in Seq(SharedNode), NEW b \in Seq(SharedNode)
  PROVE  /\ MergeOf(a, b) \in Seq(SharedNode)
         /\ Len(MergeOf(a, b)) = Len(a) + Len(b)
         /\ Vals(a) \cup Vals(b) \subseteq Vals(MergeOf(a, b))
<1> DEFINE m == MergeRounds(a, b)
           N == Len(a) + Len(b)
           S == {n \in Nat : n <= N => Taken(a, b, m[n], n)}
<1>1. N \in Nat /\ Len(a) \in Nat /\ Len(b) \in Nat
  OBVIOUS
<1>2. /\ m[0] = [l |-> 0, r |-> 0, whole |-> <<>>]
      /\ \A n \in Nat : n < N => m[n + 1] = MergeTake(a, b, m[n])
  <2> DEFINE start == [l |-> 0, r |-> 0, whole |-> <<>>]
             Round(x) == MergeTake(a, b, x)
  <2>1. m = [i \in 0..N |-> IF i = 0 THEN start ELSE Round(m[i - 1])]
    BY RoundsAre DEF IsRounds
  <2> HIDE DEF m, N, Round, start
  <2>2. m[0] = start
    BY <1>1, <2>1
  <2>3. ASSUME NEW n \in Nat, n < N
        PROVE  m[n + 1] = Round(m[n])
    <3>1. n + 1 \in 0..N /\ n + 1 # 0 /\ (n + 1) - 1 = n
      BY <1>1, <2>3
    <3> QED
      BY <2>1, <3>1
  <2> QED
    BY <2>2, <2>3 DEF Round, start
<1>3. 0 \in S
  <2>1. <<>> \in Seq(SharedNode) /\ Len(<<>>) = 0
    OBVIOUS
  <2>2. Taken(a, b, [l |-> 0, r |-> 0, whole |-> <<>>], 0)
    BY <1>1, <2>1 DEF Taken
  <2> QED
    BY <1>2, <2>2
<1>4. ASSUME NEW n \in Nat, n \in S
      PROVE  n + 1 \in S
  <2> SUFFICES ASSUME n + 1 <= N PROVE Taken(a, b, m[n + 1], n + 1)
    BY <1>1
  <2>1. n < N /\ n <= N
    BY <1>1
  <2>2. Taken(a, b, m[n], n)
    BY <1>4, <2>1
  <2>3. Taken(a, b, MergeTake(a, b, m[n]), n + 1)
    <3> HIDE DEF m
    <3> QED
      BY <2>1, <2>2, TakeOne
  <2> QED
    BY <1>2, <2>1, <2>3
<1>5. N \in S
  <2> HIDE DEF S, N
  <2> QED
    BY <1>1, <1>3, <1>4, Sorting!SetInduction
<1>6. Taken(a, b, m[N], N)
  BY <1>1, <1>5
<1>7. MergeOf(a, b) = m[N].whole
  BY DEF MergeOf
<1> HIDE DEF m
<1>8. /\ m[N].l = Len(a) /\ m[N].r = Len(b)
      /\ MergeOf(a, b) \in Seq(SharedNode) /\ Len(MergeOf(a, b)) = N
      /\ \A i \in 1..Len(a) : \E j \in 1..N : MergeOf(a, b)[j] = a[i]
      /\ \A i \in 1..Len(b) : \E j \in 1..N : MergeOf(a, b)[j] = b[i]
  BY <1>1, <1>6, <1>7 DEF Taken
<1> QED
  BY <1>8 DEF Vals

-----------------------------------------------------------------------------
\* Nothing is lost, and files are repaired

Steps == {"idle", "stat", "data", "open", "header", "nodes"}

\* A process here knows what it will write.
Carrying == {"open", "header", "nodes"}

SharedTypes ==
  /\ at \in [Procs -> Steps]
  /\ block \in [Procs -> Seq(SharedNode)]
  /\ arg \in [Procs -> SharedNode]
  /\ num \in [Procs -> Nat]
  /\ data \in [Procs -> Seq(SharedNode)]
  /\ count \in Nat
  /\ nodes \in Seq(SharedNode)
  /\ puts \in Nat
  /\ alone \in [Procs -> BOOLEAN]
  /\ raced \in BOOLEAN
  /\ wiped \in BOOLEAN

\* A block is full from the call of write_to_disk() on, and is part of the
\* array that will be written, which has num_elements nodes.
Carried ==
  \A p \in Procs :
    /\ at[p] # "idle" => Len(block[p]) = BlockSize
    /\ at[p] \in Carrying =>
         num[p] = Len(data[p]) /\ Vals(block[p]) \subseteq Vals(data[p])

\* A process that has met no other one has the file for itself.
AloneInFile ==
  \A p \in Rewriting : alone[p] =>
    /\ Rewriting = {p}
    /\ p \in Writing => nodes = <<>>
    /\ at[p] = "nodes" => count = Len(data[p])

\* If no two have ever met, none has.
AloneUnlessRaced == ~ raced => \A p \in Rewriting : alone[p]

\* What was flushed is in the file, with a header that is right, until it is in
\* the array that will be written.
FileKept ==
  ~ raced /\ ~ wiped =>
    /\ Writing = {} => flushed \subseteq Vals(nodes) /\ count = Len(nodes)
    /\ \A p \in Procs : at[p] = "data" => num[p] = Len(nodes)
    /\ \A p \in Procs : at[p] \in Carrying => flushed \subseteq Vals(data[p])

AbsentEmpty == size = "absent" => nodes = <<>>

KeepParts == Carried /\ AloneInFile /\ AloneUnlessRaced /\ FileKept /\ AbsentEmpty

KeepInv == SharedTypes /\ KeepParts

\* The nodes that fread() leaves in an array of n.
LEMMA ReadArrayType ==
  ASSUME nodes \in Seq(SharedNode), NEW n \in Nat
  PROVE  /\ ReadArray(n) \in Seq(SharedNode) /\ Len(ReadArray(n)) = n
         /\ n = Len(nodes) => ReadArray(n) = nodes
<1>1. Garbage \in SharedNode
  BY SharedAssumption DEF SharedNode
<1>2. ReadArray(n) \in [1..n -> SharedNode]
  BY <1>1 DEF ReadArray
<1>3. ReadArray(n) \in Seq(SharedNode) /\ Len(ReadArray(n)) = n
  BY <1>2
<1>4. ASSUME n = Len(nodes) PROVE ReadArray(n) = nodes
  <2>1. \A i \in 1..n : ReadArray(n)[i] = nodes[i]
    BY <1>4 DEF ReadArray
  <2> QED
    BY <1>3, <1>4, <2>1
<1> QED
  BY <1>3, <1>4

\* A write at the start of the file.
LEMMA WrittenNodes ==
  ASSUME NEW d \in Seq(SharedNode), nodes \in Seq(SharedNode)
  PROVE  /\ d \o SubSeq(nodes, Len(d) + 1, Len(nodes)) \in Seq(SharedNode)
         /\ nodes = <<>> => d \o SubSeq(nodes, Len(d) + 1, Len(nodes)) = d
<1>1. SubSeq(nodes, Len(d) + 1, Len(nodes)) \in Seq(SharedNode)
  OBVIOUS
<1>2. ASSUME nodes = <<>> PROVE d \o SubSeq(nodes, Len(d) + 1, Len(nodes)) = d
  <2>1. SubSeq(nodes, Len(d) + 1, Len(nodes)) = <<>>
    BY <1>2
  <2>2. d \o <<>> = d
    BY ConcatEmptySeq
  <2> QED
    BY <2>1, <2>2
<1> QED
  BY <1>1, <1>2

\* Types.
LEMMA SharedTypesNext ==
  ASSUME SharedTypes, [SharedNext]_sharedVars
  PROVE  SharedTypes'
<1> USE DEF SharedTypes, Goes, Steps
<1>1. CASE UNCHANGED sharedVars
  BY <1>1 DEF sharedVars, procVars, fileVars, histVars
<1>2. ASSUME NEW p \in Procs, NEW k \in Keys, PutRoom(p, k) PROVE SharedTypes'
  BY <1>2, NewNodeType, SharedAssumption DEF PutRoom, fileVars
<1>3. ASSUME NEW p \in Procs, NEW k \in Keys, PutFull(p, k) PROVE SharedTypes'
  <2>1. PICK s \in [1..BlockSize -> {block[p][i] : i \in 1..BlockSize}] :
          block' = [block EXCEPT ![p] = s]
    BY <1>3 DEF PutFull
  <2>2. s \in Seq(SharedNode)
    BY <1>3, <2>1, SortedBlockType DEF PutFull
  <2>3. block' \in [Procs -> Seq(SharedNode)]
    BY <2>1, <2>2
  <2>4. arg' \in [Procs -> SharedNode]
    BY <1>3, NewNodeType DEF PutFull
  <2> QED
    BY <1>3, <2>3, <2>4 DEF PutFull, fileVars
<1>4. ASSUME NEW p \in Procs, StatFails(p) PROVE SharedTypes'
  <2>1. alone' \in [Procs -> BOOLEAN] /\ raced' \in BOOLEAN
    BY <1>4 DEF StatFails, Begins
  <2>2. Len(block[p]) \in Nat
    OBVIOUS
  <2> QED
    BY <1>4, <2>1, <2>2 DEF StatFails, fileVars
<1>5. ASSUME NEW p \in Procs, ReadHeader(p) PROVE SharedTypes'
  BY <1>5 DEF ReadHeader, fileVars, Begins
<1>6. ASSUME NEW p \in Procs, ReadData(p) PROVE SharedTypes'
  <2>1. MergeOf(ReadArray(num[p]), block[p]) \in Seq(SharedNode)
    BY ReadArrayType, MergeKeepsAll
  <2> QED
    BY <1>6, <2>1, SharedAssumption DEF ReadData, fileVars
<1>7. ASSUME NEW p \in Procs, OpenWrite(p) PROVE SharedTypes'
  BY <1>7 DEF OpenWrite, histVars
<1>8. ASSUME NEW p \in Procs, WriteHeader(p) PROVE SharedTypes'
  BY <1>8 DEF WriteHeader, histVars
<1>9. ASSUME NEW p \in Procs, WriteNodes(p) PROVE SharedTypes'
  <2>1. nodes' \in Seq(SharedNode)
    BY <1>9, WrittenNodes DEF WriteNodes
  <2>2. <<arg[p]>> \in Seq(SharedNode) /\ NoArg \in SharedNode
    BY DEF NoArg, SharedNode
  <2> QED
    BY <1>9, <2>1, <2>2 DEF WriteNodes
<1>10. ASSUME NEW p \in Procs, Kill(p) PROVE SharedTypes'
  BY <1>10 DEF Kill, fileVars, NoArg, SharedNode
<1> QED
  BY <1>1, <1>2, <1>3, <1>4, <1>5, <1>6, <1>7, <1>8, <1>9, <1>10
  DEF SharedNext, FlushStep

\* put() before its call of write_to_disk() returns nothing to the file.
LEMMA PutKeeps ==
  ASSUME KeepInv, NEW p \in Procs, NEW k \in Keys, PutRoom(p, k) \/ PutFull(p, k)
  PROVE  KeepParts'
<1>1. /\ at[p] = "idle" /\ at'[p] \in {"idle", "stat"}
      /\ \A q \in Procs \ {p} : at'[q] = at[q] /\ block'[q] = block[q]
      /\ UNCHANGED <<num, data, fileVars, alone, raced, wiped, flushed>>
  BY DEF KeepInv, SharedTypes, PutRoom, PutFull, Goes
<1>2. at'[p] = "stat" => Len(block'[p]) = BlockSize
  BY SortedBlockType DEF KeepInv, SharedTypes, PutRoom, PutFull, Goes
<1>3. Rewriting' = Rewriting /\ Writing' = Writing
  BY <1>1 DEF Rewriting, Writing
<1>4. Carried'
  BY <1>1, <1>2 DEF KeepInv, KeepParts, Carried, Carrying
<1>5. AloneInFile'
  <2>1. \A q \in Rewriting : at'[q] = at[q]
    BY <1>1 DEF Rewriting
  <2> QED
    BY <1>1, <1>3, <2>1 DEF KeepInv, KeepParts, AloneInFile, fileVars
<1>6. AloneUnlessRaced'
  BY <1>1, <1>3 DEF KeepInv, KeepParts, AloneUnlessRaced
<1>7. FileKept'
  BY <1>1, <1>3 DEF KeepInv, KeepParts, FileKept, Carrying, fileVars
<1>8. AbsentEmpty'
  BY <1>1 DEF KeepInv, KeepParts, AbsentEmpty, fileVars
<1> QED
  BY <1>4, <1>5, <1>6, <1>7, <1>8 DEF KeepParts

\* The rewrite begins: with the block alone, or with the header of the file.
LEMMA BeginKeeps ==
  ASSUME KeepInv, NEW p \in Procs, StatFails(p) \/ ReadHeader(p)
  PROVE  KeepParts'
<1>1. /\ at[p] = "stat" /\ at'[p] \in {"data", "open"}
      /\ \A q \in Procs \ {p} : at'[q] = at[q] /\ num'[q] = num[q] /\ data'[q] = data[q]
      /\ UNCHANGED <<block, fileVars, wiped, flushed>>
      /\ Begins(p)
  BY DEF KeepInv, SharedTypes, StatFails, ReadHeader, Goes
<1>2. /\ at'[p] = "open" =>
           size = "absent" /\ num'[p] = Len(block[p]) /\ data'[p] = block[p]
      /\ at'[p] = "data" => num'[p] = count
  BY DEF KeepInv, SharedTypes, StatFails, ReadHeader, Goes
<1>3. Rewriting' = Rewriting \cup {p} /\ Writing' = Writing /\ p \notin Rewriting
      /\ p \notin Writing /\ Writing \subseteq Rewriting
  BY <1>1 DEF Rewriting, Writing
<1>4. /\ alone'[p] = (Rewriting = {}) /\ \A q \in Procs \ {p} : alone'[q] = FALSE
      /\ raced' = (raced \/ Rewriting # {})
  BY <1>1 DEF Begins
<1>5. Carried'
  BY <1>1, <1>2 DEF KeepInv, KeepParts, Carried, Carrying
<1>6. Rewriting \subseteq Procs
  BY DEF Rewriting
<1>7. AloneInFile'
  <2> SUFFICES ASSUME NEW q \in Rewriting', alone'[q]
               PROVE  /\ Rewriting' = {q}
                      /\ q \in Writing' => nodes' = <<>>
                      /\ at'[q] = "nodes" => count' = Len(data'[q])
    BY DEF AloneInFile
  <2>1. q = p
    BY <1>3, <1>4, <1>6
  <2>2. Rewriting = {}
    BY <1>4, <2>1
  <2> QED
    BY <1>1, <1>3, <2>1, <2>2
<1>8. AloneUnlessRaced'
  BY <1>3, <1>4 DEF AloneUnlessRaced
<1>9. FileKept'
  <2> SUFFICES ASSUME ~ raced', ~ wiped' PROVE FileKept'
    BY DEF FileKept
  <2>1. ~ raced /\ ~ wiped /\ Rewriting = {} /\ Writing = {}
    BY <1>1, <1>3, <1>4
  <2>2. flushed \subseteq Vals(nodes) /\ count = Len(nodes)
    BY <2>1 DEF KeepInv, KeepParts, FileKept
  <2>3. at'[p] = "open" => flushed = {}
    <3>1. ASSUME size = "absent" PROVE Vals(nodes) = {}
      BY <3>1 DEF KeepInv, KeepParts, AbsentEmpty, Vals
    <3> QED
      BY <1>2, <2>2, <3>1
  <2>4. \A q \in Procs \ {p} : at'[q] \notin Carrying \cup {"data"}
    BY <1>1, <2>1 DEF Rewriting, Carrying
  <2>5. flushed' = flushed /\ nodes' = nodes /\ count' = count
    BY <1>1 DEF fileVars
  <2>6. Vals(nodes)' = Vals(nodes)
    BY <2>5 DEF Vals
  <2> QED
    BY <1>1, <1>2, <2>2, <2>3, <2>4, <2>5, <2>6 DEF FileKept, Carrying
<1>10. AbsentEmpty'
  BY <1>1 DEF KeepInv, KeepParts, AbsentEmpty, fileVars
<1> QED
  BY <1>5, <1>7, <1>8, <1>9, <1>10 DEF KeepParts

\* The array is made of the nodes of the file, as many as the header said, and
\* the block.
LEMMA ReadDataKeeps ==
  ASSUME KeepInv, NEW p \in Procs, ReadData(p)
  PROVE  KeepParts'
<1> DEFINE old == ReadArray(num[p])
<1>1. /\ at[p] = "data" /\ at'[p] = "open"
      /\ \A q \in Procs \ {p} : at'[q] = at[q] /\ num'[q] = num[q] /\ data'[q] = data[q]
      /\ num'[p] = num[p] + BlockSize
      /\ data'[p] = MergeOf(old, block[p])
      /\ UNCHANGED <<block, fileVars, alone, raced, wiped, flushed>>
  BY DEF KeepInv, SharedTypes, ReadData, Goes
<1>2. /\ block[p] \in Seq(SharedNode) /\ Len(block[p]) = BlockSize
      /\ old \in Seq(SharedNode) /\ Len(old) = num[p]
      /\ num[p] = Len(nodes) => old = nodes
  BY <1>1, ReadArrayType DEF KeepInv, KeepParts, SharedTypes, Carried
<1> HIDE DEF old
<1>3. /\ Len(data'[p]) = num'[p]
      /\ Vals(old) \subseteq Vals(data'[p]) /\ Vals(block[p]) \subseteq Vals(data'[p])
  BY <1>1, <1>2, MergeKeepsAll
<1>4. Rewriting' = Rewriting /\ Writing' = Writing /\ p \notin Writing
  BY <1>1 DEF Rewriting, Writing
<1>5. Carried'
  BY <1>1, <1>3 DEF KeepInv, KeepParts, Carried, Carrying
<1>6. AloneInFile'
  BY <1>1, <1>4 DEF KeepInv, KeepParts, AloneInFile, fileVars, Rewriting
<1>7. AloneUnlessRaced'
  BY <1>1, <1>4 DEF KeepInv, KeepParts, AloneUnlessRaced
<1>8. FileKept'
  <2> SUFFICES ASSUME ~ raced', ~ wiped' PROVE FileKept'
    BY DEF FileKept
  <2>1. ~ raced /\ ~ wiped /\ p \in Rewriting
    BY <1>1 DEF Rewriting
  <2>2. Rewriting = {p}
    BY <2>1 DEF KeepInv, KeepParts, AloneUnlessRaced, AloneInFile
  <2>3. Writing = {}
    BY <1>4, <2>2 DEF Writing, Rewriting
  <2>4. flushed \subseteq Vals(nodes) /\ count = Len(nodes) /\ num[p] = Len(nodes)
    BY <1>1, <2>1, <2>3 DEF KeepInv, KeepParts, FileKept
  <2>5. flushed \subseteq Vals(data'[p])
    BY <1>2, <1>3, <2>4
  <2>6. \A q \in Procs \ {p} : at'[q] \notin Carrying \cup {"data"}
    BY <1>1, <2>2 DEF Rewriting, Carrying
  <2>7. flushed' = flushed /\ nodes' = nodes /\ count' = count
    BY <1>1 DEF fileVars
  <2>8. Vals(nodes)' = Vals(nodes)
    BY <2>7 DEF Vals
  <2>9. \A q \in Procs : at'[q] \in Carrying => flushed' \subseteq Vals(data[q])'
    BY <2>5, <2>6, <2>7 DEF Vals
  <2>10. \A q \in Procs : at'[q] # "data"
    BY <1>1, <2>6
  <2> QED
    BY <2>4, <2>7, <2>8, <2>9, <2>10 DEF FileKept
<1>9. AbsentEmpty'
  BY <1>1 DEF KeepInv, KeepParts, AbsentEmpty, fileVars
<1> QED
  BY <1>5, <1>6, <1>7, <1>8, <1>9 DEF KeepParts

\* The file is truncated, and gets its header.
LEMMA WriteKeeps ==
  ASSUME KeepInv, NEW p \in Procs, OpenWrite(p) \/ WriteHeader(p)
  PROVE  KeepParts'
<1>1. /\ at[p] \in {"open", "header"} /\ at'[p] \in {"header", "nodes"}
      /\ \A q \in Procs \ {p} : at'[q] = at[q]
      /\ at[p] = "open" => at'[p] = "header" /\ nodes' = <<>>
      /\ at[p] = "header" => at'[p] = "nodes" /\ count' = num[p] /\ nodes' = nodes
      /\ size' # "absent"
      /\ UNCHANGED <<block, num, data, histVars>>
  BY DEF KeepInv, SharedTypes, OpenWrite, WriteHeader, Goes
<1>2. Rewriting' = Rewriting /\ Writing' = Writing \cup {p} /\ p \in Rewriting
  BY <1>1 DEF Rewriting, Writing
<1>3. num[p] = Len(data[p])
  BY <1>1 DEF KeepInv, KeepParts, Carried, Carrying
<1>4. Carried'
  BY <1>1 DEF KeepInv, KeepParts, Carried, Carrying
<1>5. AloneInFile'
  <2> SUFFICES ASSUME NEW q \in Rewriting', alone'[q]
               PROVE  /\ Rewriting' = {q}
                      /\ q \in Writing' => nodes' = <<>>
                      /\ at'[q] = "nodes" => count' = Len(data'[q])
    BY DEF AloneInFile
  <2>1. Rewriting = {q} /\ (q \in Writing => nodes = <<>>)
    BY <1>1, <1>2 DEF KeepInv, KeepParts, AloneInFile, histVars
  <2>2. q = p
    BY <1>2, <2>1
  <2>3. nodes' = <<>>
    <3>1. at[p] = "header" => p \in Writing
      BY DEF Writing
    <3> QED
      BY <1>1, <2>1, <2>2, <3>1
  <2> QED
    BY <1>1, <1>2, <1>3, <2>1, <2>2, <2>3
<1>6. AloneUnlessRaced'
  BY <1>1, <1>2 DEF KeepInv, KeepParts, AloneUnlessRaced, histVars
<1>7. FileKept'
  <2> SUFFICES ASSUME ~ raced', ~ wiped' PROVE FileKept'
    BY DEF FileKept
  <2>1. ~ raced /\ ~ wiped /\ flushed' = flushed /\ data' = data
    BY <1>1 DEF histVars
  <2>2. Rewriting = {p}
    BY <1>2, <2>1 DEF KeepInv, KeepParts, AloneUnlessRaced, AloneInFile
  <2>3. Writing' # {}
    BY <1>2
  <2>4. \A q \in Procs : at'[q] # "data"
    BY <1>1, <2>2 DEF Rewriting
  <2>5. \A q \in Procs : at'[q] \in Carrying => flushed' \subseteq Vals(data[q])'
    BY <1>1, <2>1 DEF KeepInv, KeepParts, FileKept, Carrying, Vals
  <2> QED
    BY <2>3, <2>4, <2>5 DEF FileKept
<1>8. AbsentEmpty'
  BY <1>1 DEF AbsentEmpty
<1> QED
  BY <1>4, <1>5, <1>6, <1>7, <1>8 DEF KeepParts

\* The nodes are written.
LEMMA WriteNodesKeeps ==
  ASSUME KeepInv, NEW p \in Procs, WriteNodes(p)
  PROVE  /\ KeepParts'
         /\ alone[p] => /\ count' = Len(nodes')
                        /\ Vals(block[p]) \subseteq Vals(nodes')
<1>1. /\ at[p] = "nodes" /\ at'[p] = "idle"
      /\ \A q \in Procs \ {p} : /\ at'[q] = at[q] /\ num'[q] = num[q]
                                /\ data'[q] = data[q] /\ block'[q] = block[q]
      /\ nodes' = data[p] \o SubSeq(nodes, Len(data[p]) + 1, Len(nodes))
      /\ flushed' = flushed \cup Vals(data[p])
      /\ size' = "some"
      /\ UNCHANGED <<count, alone, raced, wiped>>
  BY DEF KeepInv, SharedTypes, WriteNodes, Goes
<1>2. Rewriting' = Rewriting \ {p} /\ Writing' = Writing \ {p} /\ p \in Rewriting /\ p \in Writing
  BY <1>1 DEF Rewriting, Writing
<1>3. ASSUME alone[p]
      PROVE  Rewriting = {p} /\ nodes' = data[p] /\ count = Len(data[p])
  <2>1. Rewriting = {p} /\ nodes = <<>> /\ count = Len(data[p])
    BY <1>1, <1>2, <1>3 DEF KeepInv, KeepParts, AloneInFile
  <2>2. data[p] \in Seq(SharedNode) /\ nodes \in Seq(SharedNode)
    BY DEF KeepInv, SharedTypes
  <2> QED
    BY <1>1, <2>1, <2>2, WrittenNodes
<1>4. Carried'
  BY <1>1 DEF KeepInv, KeepParts, Carried, Carrying
<1>5. AloneInFile'
  <2> SUFFICES ASSUME NEW q \in Rewriting', alone'[q] PROVE FALSE
    BY DEF AloneInFile
  <2>1. Rewriting = {q}
    BY <1>1, <1>2 DEF KeepInv, KeepParts, AloneInFile
  <2> QED
    BY <1>2, <2>1
<1>6. AloneUnlessRaced'
  BY <1>1, <1>2 DEF KeepInv, KeepParts, AloneUnlessRaced
<1>7. FileKept'
  <2> SUFFICES ASSUME ~ raced', ~ wiped' PROVE FileKept'
    BY DEF FileKept
  <2>1. ~ raced /\ ~ wiped /\ alone[p]
    BY <1>1, <1>2 DEF KeepInv, KeepParts, AloneUnlessRaced
  <2>2. Rewriting = {p} /\ nodes' = data[p] /\ count' = Len(data[p])
    BY <1>1, <1>3, <2>1
  <2>3. \A q \in Procs : at'[q] \notin Carrying \cup {"data"}
    BY <1>1, <2>2 DEF Rewriting, Carrying
  <2>4. flushed \subseteq Vals(data[p])
    BY <1>1, <2>1 DEF KeepInv, KeepParts, FileKept, Carrying
  <2>5. flushed' \subseteq Vals(nodes)'
    BY <1>1, <2>2, <2>4 DEF Vals
  <2> QED
    BY <2>2, <2>3, <2>5 DEF FileKept
<1>8. AbsentEmpty'
  BY <1>1 DEF AbsentEmpty
<1>9. Vals(block[p]) \subseteq Vals(data[p])
  BY <1>1 DEF KeepInv, KeepParts, Carried, Carrying
<1> QED
  BY <1>1, <1>3, <1>4, <1>5, <1>6, <1>7, <1>8, <1>9 DEF KeepParts

\* A process is killed, and another started.
LEMMA KillKeeps ==
  ASSUME KeepInv, NEW p \in Procs, Kill(p)
  PROVE  KeepParts'
<1>1. /\ at'[p] = "idle"
      /\ \A q \in Procs \ {p} : /\ at'[q] = at[q] /\ num'[q] = num[q]
                                /\ data'[q] = data[q] /\ block'[q] = block[q]
      /\ wiped' = (wiped \/ p \in Writing)
      /\ UNCHANGED <<fileVars, alone, raced, flushed>>
  BY DEF KeepInv, SharedTypes, Kill
<1>2. Rewriting' = Rewriting \ {p} /\ Writing' = Writing \ {p}
  BY <1>1 DEF Rewriting, Writing
<1>3. nodes' = nodes /\ count' = count /\ size' = size
  BY <1>1 DEF fileVars
<1>4. Carried'
  BY <1>1 DEF KeepInv, KeepParts, Carried, Carrying
<1>5. AloneInFile'
  <2> SUFFICES ASSUME NEW q \in Rewriting', alone'[q]
               PROVE  /\ Rewriting' = {q}
                      /\ q \in Writing' => nodes' = <<>>
                      /\ at'[q] = "nodes" => count' = Len(data'[q])
    BY DEF AloneInFile
  <2>1. /\ q \in Rewriting /\ q # p
        /\ Rewriting = {q} /\ (q \in Writing => nodes = <<>>)
        /\ at[q] = "nodes" => count = Len(data[q])
    BY <1>1, <1>2 DEF KeepInv, KeepParts, AloneInFile
  <2>2. q \in Procs
    BY <2>1 DEF Rewriting
  <2> QED
    BY <1>1, <1>2, <1>3, <2>1, <2>2
<1>6. AloneUnlessRaced'
  BY <1>1, <1>2 DEF KeepInv, KeepParts, AloneUnlessRaced
<1>7. FileKept'
  <2> SUFFICES ASSUME ~ raced', ~ wiped' PROVE FileKept'
    BY DEF FileKept
  <2>1. ~ raced /\ ~ wiped /\ p \notin Writing /\ Writing' = Writing
    BY <1>1, <1>2
  <2>2. Vals(nodes)' = Vals(nodes)
    BY <1>3 DEF Vals
  <2>3. Writing' = {} => flushed' \subseteq Vals(nodes)' /\ count' = Len(nodes')
    BY <1>1, <1>3, <2>1, <2>2 DEF KeepInv, KeepParts, FileKept
  <2>4. \A q \in Procs : at'[q] = "data" => num'[q] = Len(nodes')
    BY <1>1, <1>3, <2>1 DEF KeepInv, KeepParts, FileKept
  <2>5. \A q \in Procs : at'[q] \in Carrying => flushed' \subseteq Vals(data[q])'
    BY <1>1, <2>1 DEF KeepInv, KeepParts, FileKept, Carrying, Vals
  <2> QED
    BY <2>3, <2>4, <2>5 DEF FileKept
<1>8. AbsentEmpty'
  BY <1>3 DEF KeepInv, KeepParts, AbsentEmpty
<1> QED
  BY <1>4, <1>5, <1>6, <1>7, <1>8 DEF KeepParts

LEMMA KeepInvInit == SharedInit => KeepInv
<1> SUFFICES ASSUME SharedInit PROVE KeepInv
  OBVIOUS
<1>1. SharedTypes
  <2>1. /\ <<>> \in Seq(SharedNode) /\ NoArg \in SharedNode
        /\ "idle" \in Steps /\ FALSE \in BOOLEAN
    BY DEF NoArg, SharedNode, Steps
  <2> QED
    BY <2>1 DEF SharedInit, SharedTypes
<1>2. Rewriting = {} /\ Writing = {} /\ \A p \in Procs : at[p] = "idle"
  BY DEF SharedInit, Rewriting, Writing
<1>3. nodes = <<>> /\ count = 0 /\ flushed = {}
  BY DEF SharedInit
<1> QED
  BY <1>1, <1>2, <1>3
  DEF KeepInv, KeepParts, Carried, Carrying, AloneInFile, AloneUnlessRaced, FileKept, AbsentEmpty

LEMMA KeepInvNext == KeepInv /\ [SharedNext]_sharedVars => KeepInv'
<1> SUFFICES ASSUME KeepInv, [SharedNext]_sharedVars PROVE KeepInv'
  OBVIOUS
<1>1. SharedTypes'
  BY SharedTypesNext DEF KeepInv
<1>2. CASE UNCHANGED sharedVars
  <2>1. KeepParts'
    <3>1. UNCHANGED <<at, block, num, data, size, count, nodes, alone, raced, wiped, flushed>>
      BY <1>2 DEF sharedVars, procVars, fileVars, histVars
    <3>2. Rewriting' = Rewriting /\ Writing' = Writing
      BY <3>1 DEF Rewriting, Writing
    <3>3. Carried' /\ AloneUnlessRaced' /\ AbsentEmpty'
      BY <3>1, <3>2 DEF KeepInv, KeepParts, Carried, AloneUnlessRaced, AbsentEmpty
    <3>4. AloneInFile'
      BY <3>1, <3>2 DEF KeepInv, KeepParts, AloneInFile
    <3>5. FileKept'
      BY <3>1, <3>2 DEF KeepInv, KeepParts, FileKept
    <3> QED
      BY <3>3, <3>4, <3>5 DEF KeepParts
  <2> QED
    BY <1>1, <2>1 DEF KeepInv
<1>3. CASE SharedNext
  BY <1>1, <1>3, PutKeeps, BeginKeeps, ReadDataKeeps, WriteKeeps, WriteNodesKeeps, KillKeeps
  DEF SharedNext, FlushStep, KeepInv
<1> QED
  BY <1>2, <1>3

\* LostOnlyByRace for any number of processes: what a rewrite has written is
\* lost only if two rewrites have met, or one was killed after its truncation.
THEOREM SharedLostOnlyByRace == SharedSpec => []LostOnlyByRace
<1>1. KeepInv => LostOnlyByRace
  BY DEF KeepInv, KeepParts, FileKept, LostOnlyByRace
<1> QED
  BY <1>1, KeepInvInit, KeepInvNext, PTL DEF SharedSpec

\* RewriteRepairs for any number of processes: after a rewrite that met no
\* other one the header is the number of nodes and the block is among them,
\* whatever races, kills and garbage came before.
THEOREM SharedRewriteRepairs == SharedSpec => RewriteRepairs
<1>1. KeepInv /\ [SharedNext]_sharedVars =>
        [\A p \in Procs :
           WriteNodes(p) /\ alone[p] =>
             count' = Len(nodes') /\ Vals(block[p]) \subseteq Vals(nodes')]_sharedVars
  BY WriteNodesKeeps
<1> QED
  BY <1>1, KeepInvInit, KeepInvNext, PTL DEF SharedSpec, RewriteRepairs
=============================================================================
