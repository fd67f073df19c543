------------------------- MODULE VersionStoreProofs -------------------------
(***************************************************************************)
(* Reads of the version store never go back, for every set of keys and     *)
(* versions.                                                               *)
(***************************************************************************)
EXTENDS VersionStore, TLAPS

IntVersions == Versions \subseteq Int

VSTypeOK ==
  /\ mem \in [Keys -> SUBSET {v \in Versions : v > 0}]
  /\ disk \in [Keys -> SUBSET {v \in Versions : v > 0}]
  /\ seen \in [Keys -> Versions \cup {0}]
  /\ missed \subseteq Keys

\* The memory holds later versions than the disk.
MemoryIsLater == \A k \in Keys : \A d \in disk[k], v \in mem[k] : d < v

\* What was read last is still there: it is the oldest version in memory or
\* it has reached the disk.
SeenIsStored ==
  \A k \in Keys :
    \/ seen[k] = 0
    \/ seen[k] \in mem[k] /\ \A v \in mem[k] : seen[k] <= v
    \/ seen[k] \in disk[k]

VSInv == VSTypeOK /\ MemoryIsLater /\ SeenIsStored

-----------------------------------------------------------------------------

\* The initial state satisfies the invariant.
LEMMA VSInitInv == VSInit => VSInv
BY DEF VSInit, VSInv, VSTypeOK, MemoryIsLater, SeenIsStored, Empty, Unread

\* A version put in memory is later than what was read.
LEMMA PutInv ==
  ASSUME IntVersions, VSInv, NEW k \in Keys, NEW v \in Versions, Put(k, v)
  PROVE  VSInv'
<1>1. VSTypeOK'
  BY DEF IntVersions, Put, VSInv, VSTypeOK
<1>2. MemoryIsLater'
  BY DEF IntVersions, Put, Latest, VSInv, VSTypeOK, MemoryIsLater
<1>3. SeenIsStored'
  <2> SUFFICES ASSUME NEW j \in Keys
               PROVE  \/ seen[j] = 0
                      \/ seen[j] \in mem'[j] /\ \A w \in mem'[j] : seen[j] <= w
                      \/ seen[j] \in disk[j]
    BY DEF Put, SeenIsStored
  <2>1. \/ seen[j] = 0
        \/ seen[j] \in mem[j] /\ \A w \in mem[j] : seen[j] <= w
        \/ seen[j] \in disk[j]
    BY DEF VSInv, SeenIsStored
  <2>2. mem'[j] = mem[j] \/ mem'[j] = mem[j] \cup {v}
    BY DEF Put, VSInv, VSTypeOK
  <2>3. seen[j] \in mem[j] => seen[j] <= v
    <3>1. \A w \in mem[j] : w < v
      BY DEF Put, Latest
    <3>2. mem[j] \subseteq Int /\ v \in Int
      BY DEF IntVersions, VSInv, VSTypeOK
    <3>3. QED
      BY <3>1, <3>2
  <2>4. QED
    BY <2>1, <2>2, <2>3
<1>4. QED
  BY <1>1, <1>2, <1>3 DEF VSInv

\* Moving the memory to the disk keeps what was read there.
LEMMA SpillAndPutInv ==
  ASSUME IntVersions, VSInv, NEW k \in Keys, NEW v \in Versions, SpillAndPut(k, v)
  PROVE  VSInv'
<1>1. VSTypeOK'
  BY DEF IntVersions, SpillAndPut, VSInv, VSTypeOK
<1>2. MemoryIsLater'
  BY DEF IntVersions, SpillAndPut, Latest, VSInv, VSTypeOK, MemoryIsLater
<1>3. SeenIsStored'
  BY DEF IntVersions, SpillAndPut, VSInv, VSTypeOK, SeenIsStored
<1>4. QED
  BY <1>1, <1>2, <1>3 DEF VSInv

\* get() remembers a version that is in memory,
LEMMA GetInv ==
  ASSUME IntVersions, VSInv, NEW k \in Keys, NEW v \in Versions, Get(k, v)
  PROVE  VSInv'
BY DEF IntVersions, Get, VSInv, VSTypeOK, MemoryIsLater, SeenIsStored

\* or that there was none.
LEMMA GetNullInv ==
  ASSUME VSInv, NEW k \in Keys, GetNull(k)
  PROVE  VSInv'
BY DEF GetNull, VSInv, VSTypeOK, MemoryIsLater, SeenIsStored

\* A process that ends has read nothing.
LEMMA EndInv ==
  ASSUME IntVersions, VSInv, Lose \/ Wipe
  PROVE  VSInv'
BY DEF IntVersions, Lose, Wipe, Empty, Unread, VSInv, VSTypeOK, MemoryIsLater, SeenIsStored

\* Nor does a step that changes nothing break the invariant.
LEMMA VSNextInv ==
  ASSUME IntVersions, VSInv, [VSNext]_vsVars
  PROVE  VSInv'
<1>1. CASE UNCHANGED vsVars
  BY <1>1 DEF vsVars, VSInv, VSTypeOK, MemoryIsLater, SeenIsStored
<1>2. CASE VSNext
  BY <1>2, PutInv, SpillAndPutInv, GetInv, GetNullInv, EndInv DEF VSNext
<1>3. QED
  BY <1>1, <1>2

\* What was read is an integer.
LEMMA SeenInt ==
  ASSUME IntVersions, VSInv
  PROVE  \A k \in Keys : seen[k] \in Int
<1>1. Versions \cup {0} \subseteq Int
  BY DEF IntVersions
<1>2. QED
  BY <1>1, Zenon DEF VSInv, VSTypeOK

\* What get() returns is not older than what it returned before.
LEMMA GetsForward ==
  ASSUME IntVersions, VSInv, NEW k \in Keys, NEW v \in Versions, Get(k, v)
  PROVE  \A j \in Keys : seen'[j] >= seen[j]
<1>1. /\ v \in Int
      /\ mem[k] \subseteq {w \in Int : w > 0}
      /\ disk[k] \subseteq {w \in Int : w > 0}
  BY DEF IntVersions, VSInv, VSTypeOK
<1>2. v \in mem[k] /\ \A w \in mem[k] : v <= w
  BY DEF Get
<1>3. \/ seen[k] = 0
      \/ seen[k] \in mem[k] /\ \A w \in mem[k] : seen[k] <= w
      \/ seen[k] \in disk[k]
  BY DEF VSInv, SeenIsStored
<1>4. \A d \in disk[k], w \in mem[k] : d < w
  BY DEF VSInv, MemoryIsLater
<1>5. v >= seen[k]
  BY SeenInt, <1>1, <1>2, <1>3, <1>4
<1>6. seen' = [seen EXCEPT ![k] = v] /\ seen \in [Keys -> Versions \cup {0}]
  BY DEF Get, VSInv, VSTypeOK
<1>7. QED
  BY SeenInt, <1>5, <1>6

\* NeverReadsBack for every instance: one process reads the versions of a key
\* in the order in which they were put, on either side of a flush.
THEOREM VSNeverReadsBack ==
  ASSUME IntVersions
  PROVE  VSSpec => NeverReadsBack
<1>1. ASSUME VSInv, [VSNext]_vsVars
      PROVE  \/ \A k \in Keys : seen'[k] >= seen[k]
             \/ seen' = Unread
  <2>0. \A k \in Keys : seen[k] \in Int
    BY <1>1, SeenInt
  <2>1. ASSUME NEW k \in Keys, NEW v \in Versions, Get(k, v)
        PROVE  \A j \in Keys : seen'[j] >= seen[j]
    BY <1>1, <2>1, GetsForward
  <2>2. CASE seen' = seen
    BY <2>0, <2>2
  <2>3. CASE seen' = Unread
    BY <2>3
  <2>4. QED
    BY <1>1, <2>1, <2>2, <2>3
    DEF VSNext, Put, SpillAndPut, GetNull, Lose, Wipe, vsVars
<1>2. VSInit => VSInv
  BY VSInitInv
<1>3. VSInv /\ [VSNext]_vsVars => VSInv'
  BY VSNextInv
<1>4. VSInv /\ [VSNext]_vsVars =>
        [\/ \A k \in Keys : seen'[k] >= seen[k]
         \/ seen' = Unread]_vsVars
  BY <1>1
<1>5. QED
  BY <1>2, <1>3, <1>4, PTL DEF VSSpec, NeverReadsBack
=============================================================================
