------------------------ MODULE LSMRefinementProofs ------------------------
(***************************************************************************)
(* The LSM tree, used through put() and get() only, implements             *)
(* VersionStore.                                                           *)
(***************************************************************************)
EXTENDS LSMRefinement, LSMProofs

\* One more fact: put() holds back a node of a key in use.
Held == call = "put" => arg.key \in Keys

RefineInv == StoreInv /\ Held

-----------------------------------------------------------------------------
\* The invariant

\* It holds at the start.
LEMMA RefineInit == PutGetOnly /\ Init => RefineInv
BY StoreInit DEF RefineInv, Held, Init

\* It holds after every step.
LEMMA RefineNext ==
  ASSUME PutGetOnly, RefineInv, [Next]_vars
  PROVE  RefineInv'
<1>1. ASSUME UNCHANGED <<call, arg>> PROVE Held'
  BY <1>1 DEF RefineInv, Held
<1>2. ASSUME call' = "none" PROVE Held'
  BY <1>2 DEF Held
<1>3. Destruct \/ Kill => Held'
  BY <1>2 DEF Destruct, Kill, Dies, Forgets
<1>4. ASSUME NEW k \in Keys, KeyCall(k) PROVE Held'
  <2>1. CASE PutFull(k)
    BY <2>1 DEF Held, PutFull
  <2>2. CASE PutRoom(k) \/ GetFromBuffer(k) \/ GetFromDisk(k)
    BY <1>1, <2>2 DEF PutRoom, GetFromBuffer, GetFromDisk, Reads, writeVars
  <2>3. ~ (Update(k) \/ UpdateDies(k) \/ DeleteFromBuffer(k) \/ DeleteDies(k))
    BY DEF PutGetOnly, Update, UpdateDies, DeleteFromBuffer, DeleteDies, Calls
  <2>4. QED
    BY <1>4, <2>1, <2>2, <2>3 DEF KeyCall
<1>5. CallStep => Held'
  BY <1>1, <1>2 DEF CallStep, Sort, ReadNoFile, ReadFile, MergeLoop, MergeEnd,
     OpenWrite, Write, WriteShort, CallReturns, Forgets, writeVars
<1>6. ~ (Flush \/ KillTorn)
  BY DEF PutGetOnly, Flush, Calls, KillTorn
<1>7. Restart \/ UNCHANGED vars => Held'
  BY <1>1 DEF Restart, vars, writeVars
<1>8. Held'
  BY <1>3, <1>4, <1>5, <1>6, <1>7 DEF Next
<1>9. QED
  BY <1>8, StoreNext DEF RefineInv

-----------------------------------------------------------------------------
\* The mapping

\* No node is both in the file and in the block.
LEMMA Disjoint ==
  ASSUME StoreInv
  PROVE  Nodes(nodes) \cap Nodes(block) = {}
<1> SUFFICES ASSUME NEW i \in 1..Len(nodes), NEW j \in 1..Len(block),
                    nodes[i] = block[j]
             PROVE  FALSE
  BY DEF Nodes
<1>1. nodes[i].val < block[j].val
  BY DEF StoreInv, Stamps, Older
<1>2. nodes[i].val \in Int
  BY NodeFields DEF StoreInv, LSMInv, LSMTypeOK
<1>3. QED
  BY <1>1, <1>2

\* Outside the write the disk is the file.
LEMMA DiskIsFile ==
  ASSUME StoreInv, pc # "write"
  PROVE  Disk = [k \in Keys |-> ValsOf(Nodes(nodes), k)]
<1>1. Nodes(Durable) \ Nodes(block) = Nodes(nodes)
  BY Disjoint DEF Durable
<1>2. QED
  BY <1>1 DEF Disk

\* Every version is at most the last stamp.
LEMMA VersionsBelow ==
  ASSUME StoreInv, pc # "write", NEW k \in Keys,
         NEW w \in Mem[k] \cup Disk[k]
  PROVE  w \in Int /\ w < puts + 1
<1>1. \/ \E i \in 1..Len(block) : w = block[i].val
      \/ \E j \in 1..Len(nodes) : w = nodes[j].val
  BY DiskIsFile DEF Mem, ValsOf, Nodes
<1>2. QED
  BY <1>1, NodeFields DEF StoreInv, Stamps, Below, LSMInv, LSMTypeOK

\* A step that keeps the nodes of the block and, outside the write, the file
\* is a stutter of memory and disk.
LEMMA QuietMap ==
  ASSUME Nodes(block)' = Nodes(block), nodes' = nodes,
         pc # "write", pc' # "write"
  PROVE  Mem' = Mem /\ Disk' = Disk
BY DEF Mem, Disk, Durable

\* put() into a block that is not full is a Put.
LEMMA PutRoomMap ==
  ASSUME RefineInv, NEW k \in Keys, PutRoom(k)
  PROVE  VS!Put(k, puts + 1)
<1> DEFINE n == [key |-> k, val |-> puts + 1]
<1>1. /\ block \in Seq(Node) /\ puts \in Nat /\ pc = "idle" /\ pc' = "idle"
      /\ block' = Append(block, n) /\ nodes' = nodes
      /\ ret' = ret /\ missed' = missed
  BY LSMAssumption DEF RefineInv, StoreInv, LSMInv, LSMTypeOK, PutRoom, Calls,
     Stamp, fileVars
<1>2. Nodes(block') = Nodes(block) \cup {n}
  <2>1. n \in Node
    BY <1>1, LSMAssumption DEF Node
  <2>2. /\ Len(block') = Len(block) + 1 /\ Len(block) \in Nat
        /\ \A i \in 1..Len(block) : block'[i] = block[i]
        /\ block'[Len(block) + 1] = n
    BY <1>1, <2>1, AppendProperties
  <2> HIDE DEF n
  <2>3. QED
    BY <2>2 DEF Nodes
<1>3. Mem' = [Mem EXCEPT ![k] = @ \cup {puts + 1}]
  <2>1. ASSUME NEW j \in Keys
        PROVE  ValsOf(Nodes(block'), j) =
                 IF j = k THEN ValsOf(Nodes(block), j) \cup {puts + 1}
                          ELSE ValsOf(Nodes(block), j)
    <3>1. n.key = k /\ n.val = puts + 1
      OBVIOUS
    <3> HIDE DEF n
    <3>2. QED
      BY <1>2, <3>1 DEF ValsOf
  <2>2. QED
    BY <2>1 DEF Mem
<1>4. Disk' = Disk
  <2>1. Disk = [j \in Keys |-> ValsOf(Nodes(nodes), j)]
    BY <1>1, DiskIsFile DEF RefineInv
  <2>2. n \notin Nodes(nodes)
    <3> SUFFICES ASSUME NEW i \in 1..Len(nodes), nodes[i] = n
                 PROVE  FALSE
      BY DEF Nodes
    <3>1. nodes[i].val < puts + 1
      BY DEF RefineInv, StoreInv, Stamps, Below
    <3>2. QED
      BY <1>1, <3>1
  <2>3. Nodes(nodes) \ Nodes(block') = Nodes(nodes)
    BY <1>2, <2>2, Disjoint DEF RefineInv
  <2>4. QED
    BY <1>1, <2>1, <2>3 DEF Disk, Durable
<1>5. VS!Latest(puts + 1)
  <2>1. ASSUME NEW j \in Keys, NEW w \in Mem[j] \cup Disk[j]
        PROVE  w < puts + 1
    BY <1>1, VersionsBelow DEF RefineInv
  <2>2. QED
    BY <2>1 DEF VS!Latest
<1>6. puts + 1 > 0
  BY <1>1
<1>7. QED
  BY <1>1, <1>3, <1>4, <1>5, <1>6 DEF VS!Put

\* The completed write of a put() is a SpillAndPut.
LEMMA WriteMap ==
  ASSUME RefineInv, Write
  PROVE  /\ arg.key \in Keys
         /\ arg.val \in 1..MaxPuts
         /\ VS!SpillAndPut(arg.key, arg.val)
<1>1. /\ pc = "write" /\ pc' = "idle" /\ call = "put" /\ block' = <<arg>>
      /\ ret' = ret /\ missed' = missed
  BY DEF Write, CallReturns, RefineInv, StoreInv, Progress, LSMInv, LSMTypeOK
<1>2. nodes' = out
  BY WritesOut DEF RefineInv, StoreInv, LSMInv, Progress, HeaderMatches
<1>3. /\ arg.key \in Keys /\ arg.val > 0 /\ arg.val <= puts /\ puts \in 0..MaxPuts
      /\ arg.val \in Int /\ out \in Seq(Node)
      /\ Below(out, arg.val) /\ Nodes(block) \subseteq Nodes(out)
  BY <1>1 DEF RefineInv, Held, StoreInv, Progress, Stamps, LSMInv, LSMTypeOK, Node
<1>4. Nodes(block') = {arg}
  BY <1>1 DEF Nodes
<1>5. arg \notin Nodes(out)
  <2> SUFFICES ASSUME NEW i \in 1..Len(out), out[i] = arg
               PROVE  FALSE
    BY DEF Nodes
  <2>1. out[i].val < arg.val
    BY <1>3 DEF Below
  <2>2. QED
    BY <1>3, <2>1
<1>6. Mem' = [j \in Keys |-> IF j = arg.key THEN {arg.val} ELSE {}]
  <2>1. ASSUME NEW j \in Keys
        PROVE  ValsOf({arg}, j) = IF j = arg.key THEN {arg.val} ELSE {}
    BY DEF ValsOf
  <2>2. QED
    BY <1>4, <2>1 DEF Mem
<1>7. Disk' = [j \in Keys |-> Mem[j] \cup Disk[j]]
  <2>1. Disk' = [j \in Keys |-> ValsOf(Nodes(out), j)]
    BY <1>1, <1>2, <1>4, <1>5 DEF Disk, Durable
  <2>2. ASSUME NEW j \in Keys
        PROVE  ValsOf(Nodes(out), j) = Mem[j] \cup Disk[j]
    <3>1. Mem[j] = ValsOf(Nodes(block), j)
      BY DEF Mem
    <3>2. Disk[j] = ValsOf(Nodes(out) \ Nodes(block), j)
      BY <1>1 DEF Disk, Durable
    <3>3. QED
      BY <1>3, <3>1, <3>2 DEF ValsOf
  <2>3. QED
    BY <2>1, <2>2
<1>8. VS!Latest(arg.val)
  <2>1. ASSUME NEW j \in Keys, NEW w \in Mem[j] \cup Disk[j]
        PROVE  w < arg.val
    <3>1. w \in ValsOf(Nodes(out), j)
      BY <1>1, <1>3 DEF Mem, Disk, Durable, ValsOf
    <3>2. PICK i \in 1..Len(out) : w = out[i].val
      BY <3>1 DEF ValsOf, Nodes
    <3>3. QED
      BY <1>3, <3>2 DEF Below
  <2>2. QED
    BY <2>1 DEF VS!Latest
<1>9. arg.val \in 1..MaxPuts
  BY <1>3, LSMAssumption
<1>10. QED
  BY <1>1, <1>3, <1>6, <1>7, <1>8, <1>9 DEF VS!SpillAndPut

\* get() of a buffered key reads the oldest version in memory: the block is
\* filled in the order of the stamps and searched from its start.
LEMMA GetFromBufferMap ==
  ASSUME RefineInv, NEW k \in Keys, GetFromBuffer(k)
  PROVE  \E v \in 1..MaxPuts : VS!Get(k, v)
<1>1. PICK i \in 1..Len(block) :
        IsFirst(block, k, i) /\ ret' = [ret EXCEPT ![k] = block[i].val]
  BY DEF GetFromBuffer
<1>2. pc = "idle" /\ Rising(block) /\ block \in Seq(Node) /\ puts \in 0..MaxPuts
  BY DEF GetFromBuffer, Reads, Calls, RefineInv, StoreInv, Orders, LSMInv, LSMTypeOK
<1>3. block[i].key = k /\ \A j \in 1..(i - 1) : block[j].key # k
  BY <1>1 DEF IsFirst
<1>4. block[i].val \in Mem[k]
  BY <1>1, <1>3 DEF Mem, ValsOf, Nodes
<1>5. ASSUME NEW w \in Mem[k] PROVE block[i].val <= w
  <2>1. PICK j \in 1..Len(block) : block[j].key = k /\ w = block[j].val
    BY DEF Mem, ValsOf, Nodes
  <2>2. i <= j
    BY <1>3, <2>1
  <2>3. block[i].val \in Int /\ block[j].val \in Int
    BY <1>2, NodeFields
  <2>4. CASE i = j
    BY <2>1, <2>3, <2>4
  <2>5. CASE i < j
    BY <1>2, <2>1, <2>3, <2>5 DEF Rising
  <2>6. QED
    BY <2>2, <2>4, <2>5
<1>6. block[i].val \in 1..MaxPuts
  <2>1. block[i].val \in Int /\ block[i].val < puts + 1 /\ 0 < block[i].val
    BY <1>2, NodeFields DEF RefineInv, StoreInv, Stamps, Below
  <2>2. QED
    BY <1>2, <2>1, LSMAssumption
<1>7. Mem' = Mem /\ Disk' = Disk /\ missed' = missed \ {k}
  BY <1>2, QuietMap DEF GetFromBuffer, Reads, fileVars
<1>8. VS!Get(k, block[i].val)
  BY <1>1, <1>4, <1>5, <1>7 DEF VS!Get
<1>9. QED
  BY <1>6, <1>8

\* get() of another key returns NULL, and there is no version in memory.
LEMMA GetFromDiskMap ==
  ASSUME RefineInv, NEW k \in Keys, GetFromDisk(k)
  PROVE  VS!GetNull(k)
<1>1. Mem[k] = {}
  BY DEF GetFromDisk, Missing, Mem, ValsOf, Nodes
<1>2. Mem' = Mem /\ Disk' = Disk
  BY QuietMap DEF GetFromDisk, Reads, Calls, fileVars
<1>3. QED
  BY <1>1, <1>2 DEF VS!GetNull, GetFromDisk

\* A process that ends loses the memory; in the middle of the write, between
\* truncation and completion, also the disk.
LEMMA DiesMap ==
  ASSUME RefineInv, Dies, UNCHANGED fileVars
  PROVE  VS!Lose \/ VS!Wipe
<1>1. /\ pc' = "dead" /\ block' = <<>> /\ ret' = [k \in Keys |-> 0]
      /\ missed' = {} /\ nodes' = nodes
  BY DEF Dies, fileVars
<1>2. Nodes(block') = {}
  BY <1>1 DEF Nodes
<1>3. Mem' = VS!Empty
  BY <1>2 DEF Mem, ValsOf, VS!Empty
<1>4. ret' = VS!Unread
  BY <1>1 DEF VS!Unread
<1>5. Disk' = [k \in Keys |-> ValsOf(Nodes(nodes), k)]
  BY <1>1, <1>2 DEF Disk, Durable
<1>6. CASE pc = "write"
  <2>1. nodes = <<>>
    BY <1>6 DEF RefineInv, StoreInv, Progress
  <2>2. Disk' = VS!Empty
    BY <1>5, <2>1 DEF ValsOf, Nodes, VS!Empty
  <2>3. QED
    BY <1>1, <1>3, <1>4, <2>2 DEF VS!Wipe
<1>7. CASE pc # "write"
  <2>1. Disk' = Disk
    BY <1>5, <1>7, DiskIsFile DEF RefineInv
  <2>2. QED
    BY <1>1, <1>3, <1>4, <2>1 DEF VS!Lose
<1>8. QED
  BY <1>6, <1>7

\* The other steps of a flush, and a restart, are stutters.
LEMMA StutterMap ==
  ASSUME RefineInv,
         \/ \E k \in Keys : PutFull(k)
         \/ Sort \/ ReadNoFile \/ ReadFile \/ MergeLoop \/ MergeEnd \/ OpenWrite
         \/ Restart \/ UNCHANGED vars
  PROVE  UNCHANGED <<Mem, Disk, ret, missed>>
<1>1. ret' = ret /\ missed' = missed
  BY DEF PutFull, Starts, Sort, ReadNoFile, ReadFile, MergeLoop, MergeEnd,
         OpenWrite, Restart, vars, histVars
<1>2. CASE OpenWrite
  <2>1. /\ pc = "open" /\ pc' = "write" /\ block' = block /\ out' = out
    BY <1>2 DEF OpenWrite, writeVars
  <2>2. Nodes(out) = Nodes(nodes) \cup Nodes(block)
    BY <2>1 DEF RefineInv, StoreInv, Progress
  <2>3. Nodes(out) \ Nodes(block) = Nodes(nodes) \ Nodes(block)
    BY <2>2
  <2>4. Mem' = Mem /\ Disk' = Disk
    BY <2>1, <2>3 DEF Mem, Disk, Durable
  <2>5. QED
    BY <1>1, <2>4
<1>3. CASE Sort
  <2>1. /\ sorted = TRUE /\ Rising(block) /\ block \in Seq(Node) /\ pc = "sort"
        /\ pc' = "read" /\ nodes' = nodes
    BY <1>3 DEF Sort, RefineInv, StoreInv, Progress, Orders, LSMInv, LSMTypeOK, fileVars
  <2>2. /\ block' \in [1..Len(block) -> {block[i] : i \in 1..Len(block)}]
        /\ IsMergeSortOf(block', block)
    BY <1>3, <2>1 DEF Sort
  <2>3. Nodes(block') = Nodes(block)
    BY <2>1, <2>2, SortedType, SortOrders
  <2>4. QED
    BY <1>1, <2>1, <2>3, QuietMap
<1>4. CASE \/ \E k \in Keys : PutFull(k)
           \/ ReadNoFile \/ ReadFile \/ MergeLoop \/ MergeEnd \/ Restart
  <2>1. block' = block /\ nodes' = nodes /\ pc # "write" /\ pc' # "write"
    BY <1>4 DEF PutFull, Starts, Calls, ReadNoFile, ReadFile, MergeLoop, MergeEnd,
       Restart, fileVars
  <2>2. Nodes(block)' = Nodes(block)
    BY <2>1
  <2>3. QED
    BY <1>1, <2>1, <2>2, QuietMap
<1>5. CASE UNCHANGED vars
  <2>1. block' = block /\ nodes' = nodes /\ out' = out /\ pc' = pc
    BY <1>5 DEF vars, fileVars, writeVars
  <2>2. Mem' = Mem /\ Disk' = Disk
    BY <2>1 DEF Mem, Disk, Durable
  <2>3. QED
    BY <1>1, <2>2
<1>6. QED
  BY <1>2, <1>3, <1>4, <1>5

\* The first state maps to a first state.
LEMMA InitMap == Init => VS!VSInit
<1> SUFFICES ASSUME Init PROVE VS!VSInit
  OBVIOUS
<1>1. Nodes(block) = {} /\ Nodes(Durable) = {}
  BY DEF Init, Nodes, Durable
<1>2. Mem = VS!Empty /\ Disk = VS!Empty
  BY <1>1 DEF Mem, Disk, ValsOf, VS!Empty
<1>3. QED
  BY <1>2 DEF Init, VS!VSInit, VS!Unread

\* Every step maps to a step or a stutter.
LEMMA StepMap ==
  ASSUME PutGetOnly, RefineInv, [Next]_vars
  PROVE  VS!VSNext \/ UNCHANGED <<Mem, Disk, ret, missed>>
<1>1. ASSUME NEW k \in Keys, PutRoom(k) PROVE VS!VSNext
  <2>1. puts + 1 \in 1..MaxPuts
    BY <1>1, LSMAssumption DEF PutRoom, NewValue, RefineInv, StoreInv, LSMInv,
       LSMTypeOK
  <2>2. QED
    BY <1>1, <2>1, PutRoomMap DEF VS!VSNext
<1>2. Write => VS!VSNext
  BY WriteMap DEF VS!VSNext
<1>3. ASSUME NEW k \in Keys, GetFromBuffer(k) \/ GetFromDisk(k) PROVE VS!VSNext
  BY <1>3, GetFromBufferMap, GetFromDiskMap DEF VS!VSNext
<1>4. ASSUME Dies, UNCHANGED fileVars PROVE VS!VSNext
  BY <1>4, DiesMap DEF VS!VSNext
<1>5. ~ (Flush \/ WriteShort \/ KillTorn)
  BY DEF PutGetOnly, Flush, Calls, WriteShort, KillTorn
<1>6. ASSUME NEW k \in Keys, KeyCall(k)
      PROVE  VS!VSNext \/ UNCHANGED <<Mem, Disk, ret, missed>>
  <2>1. ~ (Update(k) \/ UpdateDies(k) \/ DeleteFromBuffer(k) \/ DeleteDies(k))
    BY DEF PutGetOnly, Update, UpdateDies, DeleteFromBuffer, DeleteDies, Calls
  <2>2. PutFull(k) => UNCHANGED <<Mem, Disk, ret, missed>>
    BY StutterMap
  <2>3. QED
    BY <1>1, <1>3, <1>6, <2>1, <2>2 DEF KeyCall
<1>7. Destruct \/ Kill => VS!VSNext
  BY <1>4 DEF Destruct, Kill
<1>8. CallStep => VS!VSNext \/ UNCHANGED <<Mem, Disk, ret, missed>>
  BY <1>2, <1>5, StutterMap DEF CallStep
<1>9. Restart \/ UNCHANGED vars => UNCHANGED <<Mem, Disk, ret, missed>>
  BY StutterMap
<1>10. QED
  BY <1>5, <1>6, <1>7, <1>8, <1>9 DEF Next

-----------------------------------------------------------------------------

\* ImplementsVersionStore for every block size, every set of keys and every
\* number of puts: however often the processes that put and get are killed,
\* outside the write, and started again, what they read is what the version
\* store allows, and what a flush moves to the file is what was in memory.
THEOREM LSMImplementsVersionStore ==
  ASSUME PutGetOnly
  PROVE  Spec => ImplementsVersionStore
<1>1. Init => VS!VSInit
  BY InitMap
<1>2. RefineInv /\ [Next]_vars => [VS!VSNext]_(VS!vsVars)
  BY StepMap DEF VS!vsVars
<1>3. Init => RefineInv
  BY RefineInit
<1>4. RefineInv /\ [Next]_vars => RefineInv'
  BY RefineNext
<1>5. QED
  BY <1>1, <1>2, <1>3, <1>4, PTL DEF Spec, ImplementsVersionStore, VS!VSSpec

-----------------------------------------------------------------------------
\* Reads

\* What is proved of the version store holds of the one the tree implements.
VSP == INSTANCE VersionStoreProofs
         WITH Versions <- 1..MaxPuts, mem <- Mem, disk <- Disk, seen <- ret,
              missed <- missed

\* The versions are integers.
LEMMA VersionsInt == VSP!IntVersions
BY LSMAssumption DEF VSP!IntVersions

\* Its invariant holds at the start.
LEMMA StoredInit == Init => VSP!VSInv
<1>1. VS!VSInit => VSP!VSInit
  BY DEF VS!VSInit, VSP!VSInit, VS!Empty, VSP!Empty, VS!Unread, VSP!Unread
<1>2. QED
  BY <1>1, InitMap, VSP!VSInitInv

\* And after every step of the tree.
LEMMA StoredNext ==
  ASSUME PutGetOnly, RefineInv, VSP!VSInv, [Next]_vars
  PROVE  VSP!VSInv'
<1>1. VS!VSNext => VSP!VSNext
  BY DEF VS!VSNext, VSP!VSNext, VS!Put, VSP!Put, VS!SpillAndPut, VSP!SpillAndPut,
     VS!Get, VSP!Get, VS!GetNull, VSP!GetNull, VS!Latest, VSP!Latest, VS!Lose, VSP!Lose,
     VS!Wipe, VSP!Wipe, VS!Empty, VSP!Empty, VS!Unread, VSP!Unread
<1>2. [VSP!VSNext]_(VSP!vsVars)
  BY <1>1, StepMap DEF VSP!vsVars
<1>3. QED
  BY <1>2, VersionsInt, VSP!VSNextInv

\* MonotonicReads for every instance: a process that puts and gets never reads
\* a value of a key older than one it has read, on either side of a flush.
THEOREM LSMMonotonicReads ==
  ASSUME PutGetOnly
  PROVE  Spec => MonotonicReads
<1>1. ASSUME RefineInv, VSP!VSInv, [Next]_vars, pc' # "dead", NEW j \in Keys
      PROVE  ret'[j] >= ret[j]
  <2>1. ASSUME NEW k \in Keys, GetFromBuffer(k)
        PROVE  ret'[j] >= ret[j]
    <3>1. PICK v \in 1..MaxPuts : VS!Get(k, v)
      BY <1>1, <2>1, GetFromBufferMap
    <3>2. VSP!Get(k, v)
      BY <3>1 DEF VS!Get, VSP!Get
    <3>3. QED
      BY <1>1, <3>2, VersionsInt, VSP!GetsForward
  <2>2. ~ (\E k \in Keys : GetFromBuffer(k)) => ret' = ret
    BY <1>1 DEF Next, KeyCall, CallStep, PutRoom, PutFull, Starts, GetFromDisk, Update,
       UpdateDies, DeleteFromBuffer, DeleteDies, Flush, Destruct, Sort,
       ReadNoFile, ReadFile, MergeLoop, MergeEnd, OpenWrite, Write, WriteShort,
       CallReturns, Kill, KillTorn, Dies, Restart, vars, histVars
  <2>3. ret[j] \in Int
    BY <1>1 DEF RefineInv, StoreInv, LSMInv, LSMTypeOK
  <2>4. QED
    BY <2>1, <2>2, <2>3
<1>2. RefineInv /\ VSP!VSInv /\ [Next]_vars =>
        [pc' # "dead" => \A k \in Keys : ret'[k] >= ret[k]]_vars
  BY <1>1
<1>3. Init => RefineInv /\ VSP!VSInv
  BY RefineInit, StoredInit
<1>4. RefineInv /\ VSP!VSInv /\ [Next]_vars => RefineInv' /\ VSP!VSInv'
  BY RefineNext, StoredNext
<1>5. QED
  BY <1>2, <1>3, <1>4, PTL DEF Spec, MonotonicReads
=============================================================================
