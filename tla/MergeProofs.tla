---------------------------- MODULE MergeProofs -----------------------------
(***************************************************************************)
(* merge() and merge_sort() are correct for arrays of every length.        *)
(*                                                                         *)
(* The four loops of merge() are one inductive argument: MergeInv          *)
(* strengthens the three promises of Merge with what the copied nodes are  *)
(* to the nodes still to be read.                                          *)
(*                                                                         *)
(* merge_sort() is recursive, but its stack is a state: StackInv says what *)
(* each activation has of its two halves, and that the activation above it *)
(* works on the half it waits for.  Where two halves are merged the        *)
(* permutation of the whole is put together from theirs (MergeOfSorts).    *)
(***************************************************************************)
EXTENDS MergeSort, SequenceTheorems, FiniteSetTheorems, TLAPS

\* On sorted arrays a node copied from one array comes before every node
\* still to be read from the other: strictly below it if it came from the
\* left, not above it if it came from the right.
MergeFrontier ==
  SortedByKey(left) /\ SortedByKey(right) =>
    /\ \A j \in 1..l, k \in (r + 1)..Len(right) : left[j].key < right[k].key
    /\ \A k \in 1..r, j \in (l + 1)..Len(left) : right[k].key <= left[j].key

MergeInv ==
  MergeTypeOK /\ MergeInterleaves /\ MergeFrontier /\ MergeRightFirst

-----------------------------------------------------------------------------

\* merge() starts in a state that satisfies the invariant.
LEMMA MergeInitInv ==
  ASSUME NEW a \in Seq(Node), NEW b \in Seq(Node), MergeInit(a, b)
  PROVE  MergeInv
BY DEF MergeInit, MergeInv, MergeTypeOK, MergeInterleaves, MergeFrontier,
       MergeRightFirst

\* whole[i++] = left[l++] preserves the invariant when the node copied is
\* below everything still to be read from the right.
LEMMA CopyLeftInv ==
  ASSUME MergeInv, l < Len(left), CopyLeft,
         SortedByKey(left) /\ SortedByKey(right) =>
           \A k \in (r + 1)..Len(right) : left[l + 1].key < right[k].key
  PROVE  MergeInv'
<1> DEFINE n == Len(whole)
<1>0. /\ MergeTypeOK /\ MergeInterleaves /\ MergeFrontier /\ MergeRightFirst
      /\ left[l + 1] \in Node
      /\ l + 1 \in 1..Len(left)
      /\ n \in Nat /\ l \in Nat /\ r \in Nat /\ n = l + r
      /\ UNCHANGED <<left, right, r, posR>> /\ l' = l + 1
  <2>1. MergeTypeOK /\ MergeInterleaves /\ MergeFrontier /\ MergeRightFirst
    BY DEF MergeInv
  <2>2. /\ left \in Seq(Node) /\ Len(left) \in Nat
        /\ n \in Nat /\ l \in Nat /\ r \in Nat
    BY <2>1 DEF MergeTypeOK
  <2>3. l + 1 \in 1..Len(left)
    BY <2>2
  <2>4. left[l + 1] \in Node
    BY <2>2, <2>3, ElementOfSeq
  <2>5. n = l + r
    BY <2>1 DEF MergeInterleaves
  <2>6. QED
    BY <2>1, <2>2, <2>3, <2>4, <2>5 DEF CopyLeft
<1>1. MergeTypeOK'
  BY <1>0 DEF MergeTypeOK, CopyLeft
<1>2. /\ Len(whole') = n + 1
      /\ whole'[n + 1] = left[l + 1]
      /\ \A i \in 1..n : whole'[i] = whole[i]
  <2>1. whole \in Seq(Node) /\ whole' = Append(whole, left[l + 1])
    BY <1>0 DEF MergeTypeOK, CopyLeft
  <2>2. QED
    BY <1>0, <2>1, AppendProperties
<1>3. posL'[l + 1] = n + 1 /\ \A i \in 1..l : posL'[i] = posL[i]
  BY <1>0 DEF MergeTypeOK, CopyLeft
<1>4. /\ \A j \in 1..l : posL[j] \in 1..n
      /\ \A k \in 1..r : posR[k] \in 1..n
  BY <1>0 DEF MergeInterleaves
<1> HIDE DEF n
<1>5. MergeInterleaves'
  <2>1. Len(whole') = l' + r'
    BY <1>0, <1>2
  <2>2. \A j \in 1..l' : posL'[j] \in 1..Len(whole') /\ whole'[posL'[j]] = left'[j]
    <3> SUFFICES ASSUME NEW j \in 1..(l + 1)
                 PROVE  posL'[j] \in 1..(n + 1) /\ whole'[posL'[j]] = left[j]
      BY <1>0, <1>2
    <3>1. CASE j = l + 1
      BY <3>1, <1>0, <1>2, <1>3
    <3>2. CASE j \in 1..l
      <4>1. posL'[j] = posL[j] /\ posL[j] \in 1..n
        BY <3>2, <1>3, <1>4
      <4>2. whole'[posL[j]] = whole[posL[j]]
        BY <4>1, <1>2
      <4>3. whole[posL[j]] = left[j]
        BY <3>2, <1>0 DEF MergeInterleaves
      <4>4. QED
        BY <4>1, <4>2, <4>3, <1>0
    <3>3. QED
      BY <3>1, <3>2, <1>0
  <2>3. \A k \in 1..r' : posR'[k] \in 1..Len(whole') /\ whole'[posR'[k]] = right'[k]
    BY <1>0, <1>2, <1>4 DEF MergeInterleaves
  <2>4. \A i, j \in 1..l' : i < j => posL'[i] < posL'[j]
    <3> SUFFICES ASSUME NEW i \in 1..(l + 1), NEW j \in 1..(l + 1), i < j
                 PROVE  posL'[i] < posL'[j]
      BY <1>0
    <3>1. i \in 1..l /\ posL'[i] = posL[i] /\ posL[i] \in 1..n
      BY <1>0, <1>3, <1>4
    <3>2. CASE j = l + 1
      BY <3>1, <3>2, <1>0, <1>3
    <3>3. CASE j \in 1..l
      BY <3>1, <3>3, <1>0, <1>3 DEF MergeInterleaves
    <3>4. QED
      BY <3>2, <3>3, <1>0
  <2>5. \A i, k \in 1..r' : i < k => posR'[i] < posR'[k]
    BY <1>0 DEF MergeInterleaves
  <2>6. \A j \in 1..l', k \in 1..r' : posL'[j] # posR'[k]
    BY <1>0, <1>3, <1>4 DEF MergeInterleaves
  <2>7. \A i \in 1..Len(whole') : \/ \E j \in 1..l' : posL'[j] = i
                                  \/ \E k \in 1..r' : posR'[k] = i
    <3> SUFFICES ASSUME NEW i \in 1..(n + 1)
                 PROVE  \/ \E j \in 1..(l + 1) : posL'[j] = i
                        \/ \E k \in 1..r : posR[k] = i
      BY <1>0, <1>2
    <3>1. CASE i = n + 1
      BY <3>1, <1>0, <1>3
    <3>2. CASE i # n + 1
      <4>1. i \in 1..Len(whole)
        BY <3>2, <1>0 DEF n
      <4>2. \/ \E j \in 1..l : posL[j] = i
            \/ \E k \in 1..r : posR[k] = i
        BY <4>1, <1>0 DEF MergeInterleaves
      <4>3. QED
        BY <4>2, <1>0, <1>3
    <3>3. QED
      BY <3>1, <3>2
  <2>8. QED
    BY <2>1, <2>2, <2>3, <2>4, <2>5, <2>6, <2>7 DEF MergeInterleaves
<1>6. MergeFrontier'
  <2> SUFFICES ASSUME SortedByKey(left), SortedByKey(right)
               PROVE  /\ \A j \in 1..(l + 1), k \in (r + 1)..Len(right) :
                           left[j].key < right[k].key
                      /\ \A k \in 1..r, j \in (l + 1 + 1)..Len(left) :
                           right[k].key <= left[j].key
    BY <1>0 DEF MergeFrontier
  <2>1. \A j \in 1..(l + 1), k \in (r + 1)..Len(right) : left[j].key < right[k].key
    BY <1>0 DEF MergeFrontier
  <2>2. \A k \in 1..r, j \in (l + 1 + 1)..Len(left) : right[k].key <= left[j].key
    BY <1>0 DEF MergeFrontier
  <2>3. QED
    BY <2>1, <2>2
<1>7. MergeRightFirst'
  <2> SUFFICES ASSUME SortedByKey(left), SortedByKey(right),
                      NEW j \in 1..(l + 1), NEW k \in 1..r
               PROVE  posL'[j] < posR[k] <=> left[j].key < right[k].key
    BY <1>0 DEF MergeRightFirst
  <2>1. CASE j = l + 1
    <3>1. right[k].key <= left[j].key /\ right[k].key \in Int /\ left[j].key \in Int
      <4>1. right[k].key <= left[j].key
        BY <2>1, <1>0 DEF MergeFrontier
      <4>2. right[k] \in Node /\ left[j] \in Node
        BY <2>1, <1>0 DEF MergeTypeOK
      <4>3. QED
        BY <4>1, <4>2 DEF Node
    <3>2. posL'[j] = n + 1 /\ posR[k] \in 1..n
      BY <2>1, <1>3, <1>4
    <3>3. QED
      BY <3>1, <3>2, <1>0
  <2>2. CASE j # l + 1
    <3>1. j \in 1..l /\ posL'[j] = posL[j]
      BY <2>2, <1>0, <1>3
    <3>2. QED
      BY <3>1, <1>0 DEF MergeRightFirst
  <2>3. QED
    BY <2>1, <2>2
<1>8. QED
  BY <1>1, <1>5, <1>6, <1>7 DEF MergeInv

\* whole[i++] = right[r++] preserves the invariant when the node copied is
\* not above anything still to be read from the left.
LEMMA CopyRightInv ==
  ASSUME MergeInv, r < Len(right), CopyRight,
         SortedByKey(left) /\ SortedByKey(right) =>
           \A j \in (l + 1)..Len(left) : right[r + 1].key <= left[j].key
  PROVE  MergeInv'
<1> DEFINE n == Len(whole)
<1>0. /\ MergeTypeOK /\ MergeInterleaves /\ MergeFrontier /\ MergeRightFirst
      /\ right[r + 1] \in Node
      /\ r + 1 \in 1..Len(right)
      /\ n \in Nat /\ l \in Nat /\ r \in Nat /\ n = l + r
      /\ UNCHANGED <<left, right, l, posL>> /\ r' = r + 1
  <2>1. MergeTypeOK /\ MergeInterleaves /\ MergeFrontier /\ MergeRightFirst
    BY DEF MergeInv
  <2>2. /\ right \in Seq(Node) /\ Len(right) \in Nat
        /\ n \in Nat /\ l \in Nat /\ r \in Nat
    BY <2>1 DEF MergeTypeOK
  <2>3. r + 1 \in 1..Len(right)
    BY <2>2
  <2>4. right[r + 1] \in Node
    BY <2>2, <2>3, ElementOfSeq
  <2>5. n = l + r
    BY <2>1 DEF MergeInterleaves
  <2>6. QED
    BY <2>1, <2>2, <2>3, <2>4, <2>5 DEF CopyRight
<1>1. MergeTypeOK'
  BY <1>0 DEF MergeTypeOK, CopyRight
<1>2. /\ Len(whole') = n + 1
      /\ whole'[n + 1] = right[r + 1]
      /\ \A i \in 1..n : whole'[i] = whole[i]
  <2>1. whole \in Seq(Node) /\ whole' = Append(whole, right[r + 1])
    BY <1>0 DEF MergeTypeOK, CopyRight
  <2>2. QED
    BY <1>0, <2>1, AppendProperties
<1>3. posR'[r + 1] = n + 1 /\ \A i \in 1..r : posR'[i] = posR[i]
  BY <1>0 DEF MergeTypeOK, CopyRight
<1>4. /\ \A j \in 1..l : posL[j] \in 1..n
      /\ \A k \in 1..r : posR[k] \in 1..n
  BY <1>0 DEF MergeInterleaves
<1> HIDE DEF n
<1>5. MergeInterleaves'
  <2>1. Len(whole') = l' + r'
    BY <1>0, <1>2
  <2>2. \A j \in 1..l' : posL'[j] \in 1..Len(whole') /\ whole'[posL'[j]] = left'[j]
    BY <1>0, <1>2, <1>4 DEF MergeInterleaves
  <2>3. \A k \in 1..r' : posR'[k] \in 1..Len(whole') /\ whole'[posR'[k]] = right'[k]
    <3> SUFFICES ASSUME NEW k \in 1..(r + 1)
                 PROVE  posR'[k] \in 1..(n + 1) /\ whole'[posR'[k]] = right[k]
      BY <1>0, <1>2
    <3>1. CASE k = r + 1
      BY <3>1, <1>0, <1>2, <1>3
    <3>2. CASE k \in 1..r
      <4>1. posR'[k] = posR[k] /\ posR[k] \in 1..n
        BY <3>2, <1>3, <1>4
      <4>2. whole'[posR[k]] = whole[posR[k]]
        BY <4>1, <1>2
      <4>3. whole[posR[k]] = right[k]
        BY <3>2, <1>0 DEF MergeInterleaves
      <4>4. QED
        BY <4>1, <4>2, <4>3, <1>0
    <3>3. QED
      BY <3>1, <3>2, <1>0
  <2>4. \A i, j \in 1..l' : i < j => posL'[i] < posL'[j]
    BY <1>0 DEF MergeInterleaves
  <2>5. \A i, k \in 1..r' : i < k => posR'[i] < posR'[k]
    <3> SUFFICES ASSUME NEW i \in 1..(r + 1), NEW k \in 1..(r + 1), i < k
                 PROVE  posR'[i] < posR'[k]
      BY <1>0
    <3>1. i \in 1..r /\ posR'[i] = posR[i] /\ posR[i] \in 1..n
      BY <1>0, <1>3, <1>4
    <3>2. CASE k = r + 1
      BY <3>1, <3>2, <1>0, <1>3
    <3>3. CASE k \in 1..r
      BY <3>1, <3>3, <1>0, <1>3 DEF MergeInterleaves
    <3>4. QED
      BY <3>2, <3>3, <1>0
  <2>6. \A j \in 1..l', k \in 1..r' : posL'[j] # posR'[k]
    BY <1>0, <1>3, <1>4 DEF MergeInterleaves
  <2>7. \A i \in 1..Len(whole') : \/ \E j \in 1..l' : posL'[j] = i
                                  \/ \E k \in 1..r' : posR'[k] = i
    <3> SUFFICES ASSUME NEW i \in 1..(n + 1)
                 PROVE  \/ \E j \in 1..l : posL[j] = i
                        \/ \E k \in 1..(r + 1) : posR'[k] = i
      BY <1>0, <1>2
    <3>1. CASE i = n + 1
      BY <3>1, <1>0, <1>3
    <3>2. CASE i # n + 1
      <4>1. i \in 1..Len(whole)
        BY <3>2, <1>0 DEF n
      <4>2. \/ \E j \in 1..l : posL[j] = i
            \/ \E k \in 1..r : posR[k] = i
        BY <4>1, <1>0 DEF MergeInterleaves
      <4>3. QED
        BY <4>2, <1>0, <1>3
    <3>3. QED
      BY <3>1, <3>2
  <2>8. QED
    BY <2>1, <2>2, <2>3, <2>4, <2>5, <2>6, <2>7 DEF MergeInterleaves
<1>6. MergeFrontier'
  <2> SUFFICES ASSUME SortedByKey(left), SortedByKey(right)
               PROVE  /\ \A j \in 1..l, k \in (r + 1 + 1)..Len(right) :
                           left[j].key < right[k].key
                      /\ \A k \in 1..(r + 1), j \in (l + 1)..Len(left) :
                           right[k].key <= left[j].key
    BY <1>0 DEF MergeFrontier
  <2>1. \A j \in 1..l, k \in (r + 1 + 1)..Len(right) : left[j].key < right[k].key
    BY <1>0 DEF MergeFrontier
  <2>2. \A k \in 1..(r + 1), j \in (l + 1)..Len(left) : right[k].key <= left[j].key
    BY <1>0 DEF MergeFrontier
  <2>3. QED
    BY <2>1, <2>2
<1>7. MergeRightFirst'
  <2> SUFFICES ASSUME SortedByKey(left), SortedByKey(right),
                      NEW j \in 1..l, NEW k \in 1..(r + 1)
               PROVE  posL[j] < posR'[k] <=> left[j].key < right[k].key
    BY <1>0 DEF MergeRightFirst
  <2>1. CASE k = r + 1
    <3>1. left[j].key < right[k].key
      BY <2>1, <1>0 DEF MergeFrontier
    <3>2. posR'[k] = n + 1 /\ posL[j] \in 1..n
      BY <2>1, <1>3, <1>4
    <3>3. QED
      BY <3>1, <3>2, <1>0
  <2>2. CASE k # r + 1
    <3>1. k \in 1..r /\ posR'[k] = posR[k]
      BY <2>2, <1>0, <1>3
    <3>2. QED
      BY <3>1, <1>0 DEF MergeRightFirst
  <2>3. QED
    BY <2>1, <2>2
<1>8. QED
  BY <1>1, <1>5, <1>6, <1>7 DEF MergeInv

\* Every iteration of every loop preserves the invariant.  On sorted arrays
\* the head of each array is the least of what is left of it, which is what
\* the comparison of the two heads needs.
LEMMA MergeStepInv ==
  ASSUME MergeInv, MergeStep
  PROVE  MergeInv'
<1>1. MergeTypeOK /\ l \in Nat /\ r \in Nat
  BY DEF MergeInv, MergeTypeOK
<1>2. /\ \A j \in 1..Len(left) : left[j].key \in Int
      /\ \A k \in 1..Len(right) : right[k].key \in Int
  <2>1. /\ \A j \in 1..Len(left) : left[j] \in Node
        /\ \A k \in 1..Len(right) : right[k] \in Node
    BY <1>1 DEF MergeTypeOK
  <2>2. QED
    BY <2>1 DEF Node
<1>3. Len(left) \in Nat /\ Len(right) \in Nat
  BY <1>1 DEF MergeTypeOK
<1>4. CASE TakeLeft
  <2>1. SortedByKey(left) /\ SortedByKey(right) =>
          \A k \in (r + 1)..Len(right) : left[l + 1].key < right[k].key
    <3> SUFFICES ASSUME SortedByKey(right), NEW k \in (r + 1)..Len(right)
                 PROVE  left[l + 1].key < right[k].key
      OBVIOUS
    <3>1. left[l + 1].key < right[r + 1].key
      BY <1>4 DEF TakeLeft, LeftIsSmaller
    <3>2. right[r + 1].key <= right[k].key
      BY <1>1, <1>2, <1>3 DEF SortedByKey
    <3>3. l + 1 \in 1..Len(left) /\ r + 1 \in 1..Len(right) /\ k \in 1..Len(right)
      BY <1>1, <1>3, <1>4 DEF TakeLeft
    <3>4. QED
      BY <1>2, <3>1, <3>2, <3>3
  <2>2. QED
    BY <2>1, <1>4, CopyLeftInv DEF TakeLeft
<1>5. CASE TakeRight
  <2>1. SortedByKey(left) /\ SortedByKey(right) =>
          \A j \in (l + 1)..Len(left) : right[r + 1].key <= left[j].key
    <3> SUFFICES ASSUME SortedByKey(left), NEW j \in (l + 1)..Len(left)
                 PROVE  right[r + 1].key <= left[j].key
      OBVIOUS
    <3>1. l + 1 \in 1..Len(left) /\ r + 1 \in 1..Len(right) /\ j \in 1..Len(left)
      BY <1>1, <1>3, <1>5 DEF TakeRight
    <3>2. right[r + 1].key <= left[l + 1].key
      BY <1>2, <1>5, <3>1 DEF TakeRight, LeftIsSmaller
    <3>3. left[l + 1].key <= left[j].key
      BY <1>1, <1>2, <1>3 DEF SortedByKey
    <3>4. QED
      BY <1>2, <3>1, <3>2, <3>3
  <2>2. QED
    BY <2>1, <1>5, CopyRightInv DEF TakeRight
<1>6. CASE DrainLeft
  BY <1>1, <1>3, <1>6, CopyLeftInv DEF DrainLeft, MergeTypeOK
<1>7. CASE DrainRight
  BY <1>1, <1>3, <1>7, CopyRightInv DEF DrainRight, MergeTypeOK
<1>8. QED
  BY <1>4, <1>5, <1>6, <1>7 DEF MergeStep

\* A step that does not touch the arrays and indices of merge() preserves it.
LEMMA MergeStutterInv ==
  ASSUME MergeInv, UNCHANGED mergeVars
  PROVE  MergeInv'
<1>1. MergeTypeOK'
  BY DEF MergeInv, MergeTypeOK, mergeVars
<1>2. MergeInterleaves'
  BY DEF MergeInv, MergeInterleaves, mergeVars
<1>3. MergeFrontier'
  BY DEF MergeInv, MergeFrontier, mergeVars
<1>4. MergeRightFirst'
  BY DEF MergeInv, MergeRightFirst, mergeVars
<1>5. QED
  BY <1>1, <1>2, <1>3, <1>4 DEF MergeInv

\* Sortedness of the output is a consequence of where each node was put: two
\* places of whole hold two nodes of one array, or one node of each.
LEMMA MergeInvSorts ==
  ASSUME MergeInv
  PROVE  MergeSorts
<1> SUFFICES ASSUME SortedByKey(left), SortedByKey(right),
                    NEW x \in 1..Len(whole), NEW y \in 1..Len(whole), x < y
             PROVE  whole[x].key <= whole[y].key
  BY DEF MergeSorts, SortedByKey
<1>1. MergeTypeOK /\ MergeInterleaves /\ MergeRightFirst
  BY DEF MergeInv
<1>2. /\ \A j \in 1..l : left[j].key \in Int
      /\ \A k \in 1..r : right[k].key \in Int
      /\ l \in Nat /\ r \in Nat /\ l <= Len(left) /\ r <= Len(right)
      /\ Len(left) \in Nat /\ Len(right) \in Nat
  <2>1. /\ \A j \in 1..l : left[j] \in Node
        /\ \A k \in 1..r : right[k] \in Node
    BY <1>1 DEF MergeTypeOK
  <2>2. /\ l \in Nat /\ r \in Nat /\ l <= Len(left) /\ r <= Len(right)
        /\ Len(left) \in Nat /\ Len(right) \in Nat
    BY <1>1 DEF MergeTypeOK
  <2>3. QED
    BY <2>1, <2>2 DEF Node
<1>3. /\ \A j \in 1..l : posL[j] \in Int /\ whole[posL[j]] = left[j]
      /\ \A k \in 1..r : posR[k] \in Int /\ whole[posR[k]] = right[k]
  BY <1>1 DEF MergeInterleaves
<1>4. ASSUME NEW i \in 1..l, NEW j \in 1..l, posL[i] = x, posL[j] = y
      PROVE  whole[x].key <= whole[y].key
  <2>1. ~ (j < i) /\ i # j
    <3>1. j < i => posL[j] < posL[i]
      BY <1>1 DEF MergeInterleaves
    <3>2. posL[i] \in Int /\ posL[j] \in Int /\ posL[i] < posL[j]
      BY <1>3, <1>4
    <3>3. QED
      BY <3>1, <3>2
  <2>2. i < j /\ i \in 1..Len(left) /\ j \in 1..Len(left)
    BY <2>1, <1>2
  <2>3. left[i].key <= left[j].key
    BY <2>2 DEF SortedByKey
  <2>4. QED
    BY <2>3, <1>3, <1>4
<1>5. ASSUME NEW i \in 1..r, NEW j \in 1..r, posR[i] = x, posR[j] = y
      PROVE  whole[x].key <= whole[y].key
  <2>1. ~ (j < i) /\ i # j
    <3>1. j < i => posR[j] < posR[i]
      BY <1>1 DEF MergeInterleaves
    <3>2. posR[i] \in Int /\ posR[j] \in Int /\ posR[i] < posR[j]
      BY <1>3, <1>5
    <3>3. QED
      BY <3>1, <3>2
  <2>2. i < j /\ i \in 1..Len(right) /\ j \in 1..Len(right)
    BY <2>1, <1>2
  <2>3. right[i].key <= right[j].key
    BY <2>2 DEF SortedByKey
  <2>4. QED
    BY <2>3, <1>3, <1>5
<1>6. ASSUME NEW j \in 1..l, NEW k \in 1..r, posL[j] = x, posR[k] = y
      PROVE  whole[x].key <= whole[y].key
  <2>1. left[j].key < right[k].key
    BY <1>1, <1>6 DEF MergeRightFirst
  <2>2. whole[x] = left[j] /\ whole[y] = right[k]
    BY <1>3, <1>6
  <2>3. left[j].key \in Int /\ right[k].key \in Int
    BY <1>2
  <2>4. QED
    BY <2>1, <2>2, <2>3
<1>7. ASSUME NEW j \in 1..l, NEW k \in 1..r, posL[j] = y, posR[k] = x
      PROVE  whole[x].key <= whole[y].key
  <2>1. ~ (left[j].key < right[k].key)
    BY <1>1, <1>3, <1>7 DEF MergeRightFirst
  <2>2. whole[x] = right[k] /\ whole[y] = left[j]
    BY <1>3, <1>7
  <2>3. left[j].key \in Int /\ right[k].key \in Int
    BY <1>2
  <2>4. QED
    BY <2>1, <2>2, <2>3
<1>8. /\ (\E j \in 1..l : posL[j] = x) \/ (\E k \in 1..r : posR[k] = x)
      /\ (\E j \in 1..l : posL[j] = y) \/ (\E k \in 1..r : posR[k] = y)
  BY <1>1 DEF MergeInterleaves
<1>9. QED
  BY <1>4, <1>5, <1>6, <1>7, <1>8

\* For arrays of any length, merge() at every moment has written an
\* interleaving of what it has read, and on sorted arrays a sorted one in
\* which a node of the right array precedes the left nodes with its key.
THEOREM MergeCorrect ==
  ASSUME NEW a \in Seq(Node), NEW b \in Seq(Node)
  PROVE  MergeSpec(a, b) =>
           [](MergeTypeOK /\ MergeInterleaves /\ MergeSorts /\ MergeRightFirst)
<1>1. MergeInit(a, b) => MergeInv
  BY MergeInitInv
<1>2. MergeInv /\ [MergeStep]_mergeVars => MergeInv'
  BY MergeStepInv, MergeStutterInv
<1>3. MergeInv => MergeTypeOK /\ MergeInterleaves /\ MergeSorts /\ MergeRightFirst
  BY MergeInvSorts DEF MergeInv
<1>4. QED
  BY <1>1, <1>2, <1>3, PTL DEF MergeSpec

-----------------------------------------------------------------------------
\* merge_sort()

\* A permutation of 1..n that sorts b stably, with later nodes of one key first.
Sorts(p, s, b) ==
  /\ p \in [1..Len(b) -> 1..Len(b)]
  /\ \A j \in 1..Len(b) : \E i \in 1..Len(b) : p[i] = j
  /\ \A i \in 1..Len(b) : s[i] = b[p[i]]
  /\ \A i, j \in 1..Len(b) : i < j =>
       \/ b[p[i]].key < b[p[j]].key
       \/ b[p[i]].key = b[p[j]].key /\ p[i] > p[j]

\* merge_sort() returns an array of fewer than two nodes as it is.
LEMMA ShortIsSorted ==
  ASSUME NEW b \in Seq(Node), Len(b) < 2
  PROVE  IsMergeSortOf(b, b)
<1> DEFINE p == [i \in 1..Len(b) |-> i]
<1>1. p \in [1..Len(b) -> 1..Len(b)]
  OBVIOUS
<1>2. \A j \in 1..Len(b) : \E i \in 1..Len(b) : p[i] = j
  OBVIOUS
<1>3. \A i \in 1..Len(b) : b[i] = b[p[i]]
  OBVIOUS
<1>4. \A i, j \in 1..Len(b) : ~ (i < j)
  OBVIOUS
<1> HIDE DEF p
<1>5. QED
  BY <1>1, <1>2, <1>3, <1>4, Zenon DEF IsMergeSortOf

\* What merge_sort() returns is sorted by key.
LEMMA SortIsSorted ==
  ASSUME NEW b \in Seq(Node), NEW s \in Seq(Node), IsMergeSortOf(s, b)
  PROVE  SortedByKey(s)
<1>1. PICK p \in [1..Len(b) -> 1..Len(b)] : Sorts(p, s, b)
  BY Zenon DEF IsMergeSortOf, Sorts
<1> SUFFICES ASSUME NEW i \in 1..Len(s), NEW j \in 1..Len(s), i < j
             PROVE  s[i].key <= s[j].key
  BY DEF SortedByKey
<1>2. Len(s) = Len(b)
  BY DEF IsMergeSortOf
<1>3. s[i] = b[p[i]] /\ s[j] = b[p[j]]
  BY <1>1, <1>2 DEF Sorts
<1>4. s[i].key < s[j].key \/ s[i].key = s[j].key
  BY <1>1, <1>2, <1>3 DEF Sorts
<1>5. s[i] \in Node /\ s[j] \in Node
  BY ElementOfSeq
<1>6. s[i].key \in Int /\ s[j].key \in Int
  BY <1>5 DEF Node
<1>7. QED
  BY <1>4, <1>6

\* merge() of two sorted halves: the permutation of the whole is put together
\* from those of the halves and the places merge() gave to their nodes.
LEMMA MergeOfSorts ==
  ASSUME MergeInv, MergeDone, NEW lo \in Seq(Node), NEW hi \in Seq(Node),
         IsMergeSortOf(left, lo), IsMergeSortOf(right, hi)
  PROVE  IsMergeSortOf(whole, lo \o hi)
<1> DEFINE b == lo \o hi
<1>1. MergeTypeOK /\ MergeInterleaves /\ MergeRightFirst
  BY DEF MergeInv
<1>2. /\ left \in Seq(Node) /\ right \in Seq(Node) /\ whole \in Seq(Node)
      /\ l = Len(lo) /\ r = Len(hi) /\ l \in Nat /\ r \in Nat
  BY <1>1 DEF MergeTypeOK, MergeDone, IsMergeSortOf
<1>3. Len(whole) = l + r
  BY <1>1 DEF MergeInterleaves
<1>4. /\ b \in Seq(Node) /\ Len(b) = l + r
      /\ \A i \in 1..l : b[i] = lo[i]
      /\ \A k \in 1..r : b[l + k] = hi[k]
  BY <1>2, ConcatProperties
<1> HIDE DEF b
<1>5. PICK p1 \in [1..l -> 1..l] : Sorts(p1, left, lo)
  BY <1>2, Zenon DEF IsMergeSortOf, Sorts
<1>6. PICK p2 \in [1..r -> 1..r] : Sorts(p2, right, hi)
  BY <1>2, Zenon DEF IsMergeSortOf, Sorts
<1>7. SortedByKey(left) /\ SortedByKey(right)
  BY <1>2, SortIsSorted
<1>8. /\ \A j \in 1..l : posL[j] \in 1..(l + r) /\ whole[posL[j]] = left[j]
      /\ \A k \in 1..r : posR[k] \in 1..(l + r) /\ whole[posR[k]] = right[k]
      /\ \A i, j \in 1..l : i < j => posL[i] < posL[j]
      /\ \A i, k \in 1..r : i < k => posR[i] < posR[k]
      /\ \A j \in 1..l, k \in 1..r : posL[j] # posR[k]
      /\ \A i \in 1..(l + r) : \/ \E j \in 1..l : posL[j] = i
                               \/ \E k \in 1..r : posR[k] = i
  BY <1>1, <1>3 DEF MergeInterleaves
<1>9. \A j \in 1..l, k \in 1..r : posL[j] < posR[k] <=> left[j].key < right[k].key
  BY <1>1, <1>7 DEF MergeRightFirst
<1>10. /\ \A i, j \in 1..l : posL[i] = posL[j] => i = j
       /\ \A i, k \in 1..r : posR[i] = posR[k] => i = k
  <2>1. ASSUME NEW i \in 1..l, NEW j \in 1..l, posL[i] = posL[j] PROVE i = j
    <3>1. ~ (i < j) /\ ~ (j < i)
      BY <1>8, <2>1
    <3>2. QED
      BY <3>1, <1>2
  <2>2. ASSUME NEW i \in 1..r, NEW k \in 1..r, posR[i] = posR[k] PROVE i = k
    <3>1. ~ (i < k) /\ ~ (k < i)
      BY <1>8, <2>2
    <3>2. QED
      BY <3>1, <1>2
  <2>3. QED
    BY <2>1, <2>2
<1> DEFINE FromLeft(i) == \E j \in 1..l : posL[j] = i
           atL(i) == CHOOSE j \in 1..l : posL[j] = i
           atR(i) == CHOOSE k \in 1..r : posR[k] = i
           p == [i \in 1..(l + r) |-> IF FromLeft(i) THEN p1[atL(i)] ELSE l + p2[atR(i)]]
<1>11. \A j \in 1..l : p[posL[j]] = p1[j]
  <2> TAKE j \in 1..l
  <2>1. posL[j] \in 1..(l + r) /\ FromLeft(posL[j])
    BY <1>8
  <2>2. atL(posL[j]) = j
    BY <1>10
  <2>3. QED
    BY <2>1, <2>2
<1>12. \A k \in 1..r : p[posR[k]] = l + p2[k]
  <2> TAKE k \in 1..r
  <2>1. posR[k] \in 1..(l + r) /\ ~ FromLeft(posR[k])
    BY <1>8
  <2>2. atR(posR[k]) = k
    BY <1>10
  <2>3. QED
    BY <2>1, <2>2
<1>13. p \in [1..(l + r) -> 1..(l + r)]
  <2> SUFFICES ASSUME NEW i \in 1..(l + r)
               PROVE  p[i] \in 1..(l + r)
    OBVIOUS
  <2> HIDE DEF p
  <2>1. CASE \E j \in 1..l : posL[j] = i
    <3>1. PICK j \in 1..l : posL[j] = i
      BY <2>1
    <3>2. p[i] = p1[j] /\ p1[j] \in 1..l
      BY <1>11, <3>1
    <3>3. QED
      BY <3>2, <1>2
  <2>2. CASE \E k \in 1..r : posR[k] = i
    <3>1. PICK k \in 1..r : posR[k] = i
      BY <2>2
    <3>2. p[i] = l + p2[k] /\ p2[k] \in 1..r
      BY <1>12, <3>1
    <3>3. QED
      BY <3>2, <1>2
  <2>3. QED
    BY <1>8, <2>1, <2>2
<1> HIDE DEF p, FromLeft, atL, atR
\* Every node of b has its place.
<1>14. \A m \in 1..(l + r) : \E i \in 1..(l + r) : p[i] = m
  <2> TAKE m \in 1..(l + r)
  <2>1. CASE m <= l
    <3>1. m \in 1..Len(lo)
      BY <2>1, <1>2
    <3>2. PICK j \in 1..l : p1[j] = m
      BY <1>2, <1>5, <3>1 DEF Sorts
    <3>3. QED
      BY <1>8, <1>11, <3>2
  <2>2. CASE m > l
    <3>1. m - l \in 1..r /\ l + (m - l) = m
      BY <2>2, <1>2
    <3>2. PICK k \in 1..r : p2[k] = m - l
      BY <1>2, <1>6, <3>1 DEF Sorts
    <3>3. QED
      BY <1>8, <1>12, <3>1, <3>2
  <2>3. QED
    BY <2>1, <2>2, <1>2
\* And it holds that node.
<1>15. /\ \A j \in 1..l : left[j] = b[p1[j]] /\ p1[j] \in 1..l
       /\ \A k \in 1..r : right[k] = b[l + p2[k]] /\ p2[k] \in 1..r
  <2>1. \A j \in 1..l : left[j] = lo[p1[j]] /\ p1[j] \in 1..l
    BY <1>2, <1>5 DEF Sorts
  <2>2. \A k \in 1..r : right[k] = hi[p2[k]] /\ p2[k] \in 1..r
    BY <1>2, <1>6 DEF Sorts
  <2>3. QED
    BY <1>4, <2>1, <2>2
<1>16. \A i \in 1..(l + r) : whole[i] = b[p[i]]
  BY <1>8, <1>11, <1>12, <1>15
\* Two places in order hold nodes in order.
<1>17. ASSUME NEW x \in 1..(l + r), NEW y \in 1..(l + r), x < y
       PROVE  \/ b[p[x]].key < b[p[y]].key
              \/ b[p[x]].key = b[p[y]].key /\ p[x] > p[y]
  <2>1. ASSUME NEW i \in 1..l, NEW j \in 1..l, posL[i] = x, posL[j] = y
        PROVE  \/ b[p[x]].key < b[p[y]].key
               \/ b[p[x]].key = b[p[y]].key /\ p[x] > p[y]
    <3>1. p[x] = p1[i] /\ p[y] = p1[j] /\ p1[i] \in 1..l /\ p1[j] \in 1..l
      BY <1>11, <2>1
    <3>2. i < j
      <4>1. ~ (j < i) /\ i # j
        BY <1>8, <1>17, <2>1
      <4>2. QED
        BY <4>1, <1>2
    <3>3. b[p1[i]] = lo[p1[i]] /\ b[p1[j]] = lo[p1[j]]
      BY <1>4, <3>1
    <3>4. \/ lo[p1[i]].key < lo[p1[j]].key
          \/ lo[p1[i]].key = lo[p1[j]].key /\ p1[i] > p1[j]
      BY <1>2, <1>5, <3>2 DEF Sorts
    <3>5. QED
      BY <3>1, <3>3, <3>4
  <2>2. ASSUME NEW i \in 1..r, NEW k \in 1..r, posR[i] = x, posR[k] = y
        PROVE  \/ b[p[x]].key < b[p[y]].key
               \/ b[p[x]].key = b[p[y]].key /\ p[x] > p[y]
    <3>1. p[x] = l + p2[i] /\ p[y] = l + p2[k] /\ p2[i] \in 1..r /\ p2[k] \in 1..r
      BY <1>12, <2>2
    <3>2. i < k
      <4>1. ~ (k < i) /\ i # k
        BY <1>8, <1>17, <2>2
      <4>2. QED
        BY <4>1, <1>2
    <3>3. b[l + p2[i]] = hi[p2[i]] /\ b[l + p2[k]] = hi[p2[k]]
      BY <1>4, <3>1
    <3>4. \/ hi[p2[i]].key < hi[p2[k]].key
          \/ hi[p2[i]].key = hi[p2[k]].key /\ p2[i] > p2[k]
      BY <1>2, <1>6, <3>2 DEF Sorts
    <3>5. p2[i] > p2[k] => l + p2[i] > l + p2[k]
      BY <1>2, <3>1
    <3>6. QED
      BY <3>1, <3>3, <3>4, <3>5
  <2>3. ASSUME NEW j \in 1..l, NEW k \in 1..r, posL[j] = x, posR[k] = y
        PROVE  b[p[x]].key < b[p[y]].key
    <3>1. left[j].key < right[k].key
      BY <1>9, <1>17, <2>3
    <3>2. QED
      BY <3>1, <1>11, <1>12, <1>15, <2>3
  <2>4. ASSUME NEW j \in 1..l, NEW k \in 1..r, posL[j] = y, posR[k] = x
        PROVE  \/ b[p[x]].key < b[p[y]].key
               \/ b[p[x]].key = b[p[y]].key /\ p[x] > p[y]
    <3>1. ~ (left[j].key < right[k].key)
      BY <1>8, <1>9, <1>17, <2>4
    <3>2. left[j] \in Node /\ right[k] \in Node
      BY <1>1, <1>2, ElementOfSeq DEF MergeDone
    <3>3. right[k].key < left[j].key \/ right[k].key = left[j].key
      BY <3>1, <3>2 DEF Node
    <3>4. p[y] = p1[j] /\ p[x] = l + p2[k] /\ p1[j] \in 1..l /\ p2[k] \in 1..r
      BY <1>11, <1>12, <2>4
    <3>5. l + p2[k] > p1[j]
      BY <1>2, <3>4
    <3>6. QED
      BY <1>15, <3>3, <3>4, <3>5
  <2>5. QED
    BY <1>8, <2>1, <2>2, <2>3, <2>4
<1>18. IsMergeSortOf(whole, b)
  <2>1. Len(whole) = Len(b)
    BY <1>3, <1>4
  <2>2. Sorts(p, whole, b)
    BY <1>4, <1>13, <1>14, <1>16, <1>17 DEF Sorts
  <2>3. QED
    BY <2>1, <2>2, Zenon DEF IsMergeSortOf, Sorts
<1>19. QED
  BY <1>18 DEF b

-----------------------------------------------------------------------------
\* The recursion

Activation ==
  [block : Seq(Node), left : Seq(Node), right : Seq(Node),
   at : {"call", "left", "right", "merge"}]

\* The halves of an array.
Lo(b) == SubSeq(b, 1, Mid(Len(b)))
Hi(b) == SubSeq(b, Mid(Len(b)) + 1, Len(b))

\* What an activation has of its halves: the right one is untouched until the
\* call on it returns, and each is sorted once the call on it has returned.
\* Only an array of two nodes or more has halves.
HalvesDone(f) ==
  /\ f.at = "left" => f.right = Hi(f.block)
  /\ f.at \in {"right", "merge"} => IsMergeSortOf(f.left, Lo(f.block))
  /\ f.at = "merge" => IsMergeSortOf(f.right, Hi(f.block))
  /\ f.at # "call" => Len(f.block) >= 2

\* The activation above f sorts the half that f waits for.
WaitsFor(f, b) ==
  \/ f.at = "left" /\ b = Lo(f.block)
  \/ f.at = "right" /\ b = Hi(f.block)

StackInv ==
  /\ stack \in Seq(Activation)
  /\ MergeInv
  /\ stack # <<>> => stack[1].block = input /\ Top.at \in {"call", "merge"}
  /\ \A d \in 1..Len(stack) : HalvesDone(stack[d])
  /\ \A d \in 1..(Len(stack) - 1) : WaitsFor(stack[d], stack[d + 1].block)
  /\ Active("merge") => left = Top.left /\ right = Top.right
  /\ SortCorrect

\* mid = n / 2 cuts an array in two that make it up again.
LEMMA HalvesMakeUp ==
  ASSUME NEW b \in Seq(Node)
  PROVE  Lo(b) \in Seq(Node) /\ Hi(b) \in Seq(Node) /\ Lo(b) \o Hi(b) = b
<1> DEFINE m == Mid(Len(b))
<1>1. m \in Nat /\ m <= Len(b) /\ Len(b) \in Nat
  BY DEF Mid
<1> HIDE DEF m
<1>2. /\ SubSeq(b, 1, m) \in Seq(Node) /\ Len(SubSeq(b, 1, m)) = m
      /\ \A i \in 1..m : SubSeq(b, 1, m)[i] = b[i]
  BY <1>1
<1>3. /\ SubSeq(b, m + 1, Len(b)) \in Seq(Node)
      /\ Len(SubSeq(b, m + 1, Len(b))) = Len(b) - m
      /\ \A i \in 1..(Len(b) - m) : SubSeq(b, m + 1, Len(b))[i] = b[m + i]
  BY <1>1
<1>4. Lo(b) = SubSeq(b, 1, m) /\ Hi(b) = SubSeq(b, m + 1, Len(b))
  BY DEF Lo, Hi, m
<1> DEFINE c == Lo(b) \o Hi(b)
<1>5. /\ Lo(b) \in Seq(Node) /\ Len(Lo(b)) = m /\ (\A i \in 1..m : Lo(b)[i] = b[i])
      /\ Hi(b) \in Seq(Node) /\ Len(Hi(b)) = Len(b) - m
      /\ \A i \in 1..(Len(b) - m) : Hi(b)[i] = b[m + i]
  BY <1>2, <1>3, <1>4
<1>6. c \in Seq(Node) /\ Len(c) = Len(b) /\ \A i \in 1..Len(b) : c[i] = b[i]
  <2>1. /\ c \in Seq(Node) /\ Len(c) = m + (Len(b) - m)
        /\ \A i \in 1..(m + (Len(b) - m)) :
             c[i] = IF i <= m THEN Lo(b)[i] ELSE Hi(b)[i - m]
    <3>1. /\ c \in Seq(Node) /\ Len(c) = Len(Lo(b)) + Len(Hi(b))
          /\ \A i \in 1..(Len(Lo(b)) + Len(Hi(b))) :
               c[i] = IF i <= Len(Lo(b)) THEN Lo(b)[i] ELSE Hi(b)[i - Len(Lo(b))]
      BY <1>5, ConcatProperties, Zenon
    <3> HIDE DEF c
    <3>2. QED
      BY <1>5, <3>1, Zenon
  <2>2. m + (Len(b) - m) = Len(b)
    BY <1>1
  <2> HIDE DEF c
  <2>3. ASSUME NEW i \in 1..Len(b), i <= m PROVE c[i] = b[i]
    <3>1. i \in 1..m /\ c[i] = Lo(b)[i]
      BY <1>1, <2>1, <2>2, <2>3
    <3>2. QED
      BY <1>5, <3>1
  <2>4. ASSUME NEW i \in 1..Len(b), ~ (i <= m) PROVE c[i] = b[i]
    <3>1. i - m \in 1..(Len(b) - m) /\ m + (i - m) = i
      BY <1>1, <2>4
    <3>2. c[i] = Hi(b)[i - m]
      BY <2>1, <2>2, <2>4
    <3>3. QED
      BY <1>5, <3>1, <3>2
  <2>5. QED
    BY <2>1, <2>2, <2>3, <2>4
<1>7. c = b
  BY <1>6, SeqEqual
<1>8. QED
  BY <1>5, <1>7

\* The callers of the activation on top.
LEMMA CallersOf ==
  ASSUME NEW S, NEW s \in Seq(S), s # <<>>
  PROVE  /\ Front(s) \in Seq(S) /\ Len(Front(s)) = Len(s) - 1
         /\ \A d \in 1..(Len(s) - 1) : Front(s)[d] = s[d]
         /\ Len(s) \in Nat /\ Len(s) >= 1 /\ Last(s) = s[Len(s)] /\ Last(s) \in S
<1>1. Len(s) \in Nat /\ Len(s) >= 1
  OBVIOUS
<1>2. /\ SubSeq(s, 1, Len(s) - 1) \in Seq(S)
      /\ Len(SubSeq(s, 1, Len(s) - 1)) = Len(s) - 1
      /\ \A d \in 1..(Len(s) - 1) : SubSeq(s, 1, Len(s) - 1)[d] = s[d]
  <2> DEFINE n == Len(s) - 1
  <2>1. n \in Int /\ n >= 0 /\ 1 \in Int /\ n - 1 + 1 = n
    BY <1>1
  <2>2. \A d \in 1..n : s[d] \in S
    BY <1>1, ElementOfSeq
  <2> HIDE DEF n
  <2>3. /\ SubSeq(s, 1, n) \in Seq(S)
        /\ Len(SubSeq(s, 1, n)) = IF 1 <= n THEN n - 1 + 1 ELSE 0
        /\ \A d \in 1..(n - 1 + 1) : SubSeq(s, 1, n)[d] = s[1 + d - 1]
    BY <2>1, <2>2, SubSeqProperties
  <2>4. Len(SubSeq(s, 1, n)) = n
    BY <2>1, <2>3
  <2>5. QED
    BY <2>1, <2>2, <2>3, <2>4 DEF n
<1>3. s[Len(s)] \in S
  BY <1>1, ElementOfSeq
<1>4. QED
  BY <1>1, <1>2, <1>3 DEF Front, Last

\* A stack with one activation more.
LEMMA PushedOn ==
  ASSUME NEW S, NEW s \in Seq(S), NEW x \in S
  PROVE  /\ s \o <<x>> \in Seq(S) /\ Append(s, x) \in Seq(S)
         /\ Len(s \o <<x>>) = Len(s) + 1 /\ Len(Append(s, x)) = Len(s) + 1
         /\ \A d \in 1..Len(s) : (s \o <<x>>)[d] = s[d] /\ Append(s, x)[d] = s[d]
         /\ (s \o <<x>>)[Len(s) + 1] = x /\ Append(s, x)[Len(s) + 1] = x
<1>1. <<x>> \in Seq(S) /\ Len(<<x>>) = 1 /\ <<x>>[1] = x /\ Len(s) \in Nat
  OBVIOUS
<1>2. /\ s \o <<x>> \in Seq(S) /\ Len(s \o <<x>>) = Len(s) + 1
      /\ \A d \in 1..Len(s) : (s \o <<x>>)[d] = s[d]
      /\ (s \o <<x>>)[Len(s) + 1] = x
  BY <1>1
<1>3. /\ Append(s, x) \in Seq(S) /\ Len(Append(s, x)) = Len(s) + 1
      /\ \A d \in 1..Len(s) : Append(s, x)[d] = s[d]
      /\ Append(s, x)[Len(s) + 1] = x
  BY <1>1
<1>4. QED
  BY <1>2, <1>3

\* merge() called with its own arrays, or with none.
LEMMA MergeCallInvariant ==
  ASSUME NEW a \in Seq(Node), NEW b \in Seq(Node), MergeCall(a, b)
  PROVE  MergeInv' /\ left' = a /\ right' = b
BY DEF MergeCall, MergeInv, MergeTypeOK, MergeInterleaves, MergeFrontier,
       MergeRightFirst

\* A stack whose top activation is replaced.
LEMMA TopReplaced ==
  ASSUME NEW S, NEW s \in Seq(S), s # <<>>, NEW x \in S
  PROVE  /\ Front(s) \o <<x>> \in Seq(S)
         /\ Len(Front(s) \o <<x>>) = Len(s)
         /\ \A d \in 1..(Len(s) - 1) : (Front(s) \o <<x>>)[d] = s[d]
         /\ (Front(s) \o <<x>>)[Len(s)] = x
<1>1. /\ Front(s) \in Seq(S) /\ Len(Front(s)) = Len(s) - 1
      /\ \A d \in 1..(Len(s) - 1) : Front(s)[d] = s[d]
      /\ Len(s) \in Nat /\ Len(s) - 1 + 1 = Len(s)
  BY CallersOf
<1>2. /\ Front(s) \o <<x>> \in Seq(S)
      /\ Len(Front(s) \o <<x>>) = Len(Front(s)) + 1
      /\ \A d \in 1..Len(Front(s)) : (Front(s) \o <<x>>)[d] = Front(s)[d]
      /\ (Front(s) \o <<x>>)[Len(Front(s)) + 1] = x
  BY <1>1, PushedOn
<1>3. QED
  BY <1>1, <1>2

\* The n-th activation calls merge_sort() on a half of its array.
LEMMA CallOnHalf ==
  ASSUME StackInv, MergeInv', UNCHANGED input,
         NEW n \in 1..Len(stack), NEW g \in Activation, NEW b \in Seq(Node),
         stack' \in Seq(Activation), Len(stack') = n + 1,
         \A d \in 1..(n - 1) : stack'[d] = stack[d],
         stack'[n] = g, stack'[n + 1] = Frame(b),
         g.block = stack[n].block, HalvesDone(g), WaitsFor(g, b)
  PROVE  StackInv'
<1>1. n \in Nat /\ n >= 1 /\ Len(stack) \in Nat /\ n <= Len(stack)
  BY DEF StackInv
<1>2. stack # <<>> /\ stack' # <<>>
  BY <1>1
<1>3. stack'[1].block = input'
  BY <1>1, <1>2 DEF StackInv
<1>4. Top' = Frame(b) /\ Frame(b).at = "call" /\ Frame(b).block = b
  BY DEF Top, Last, Frame
<1>5. \A d \in 1..Len(stack') : HalvesDone(stack'[d])
  <2>1. HalvesDone(Frame(b))
    BY <1>4 DEF HalvesDone
  <2>2. ASSUME NEW d \in 1..(n - 1) PROVE HalvesDone(stack'[d])
    BY <1>1, <2>2 DEF StackInv
  <2>3. \A d \in 1..Len(stack') : d \in 1..(n - 1) \/ d = n \/ d = n + 1
    BY <1>1
  <2>4. QED
    BY <2>1, <2>2, <2>3
<1>6. \A d \in 1..(Len(stack') - 1) : WaitsFor(stack'[d], stack'[d + 1].block)
  <2>1. ASSUME NEW d \in 1..(n - 1) PROVE WaitsFor(stack'[d], stack'[d + 1].block)
    <3>1. stack'[d] = stack[d] /\ stack'[d + 1].block = stack[d + 1].block
      BY <1>1
    <3>2. WaitsFor(stack[d], stack[d + 1].block)
      BY <1>1 DEF StackInv
    <3>3. QED
      BY <3>1, <3>2
  <2>2. WaitsFor(stack'[n], stack'[n + 1].block)
    BY <1>4
  <2>3. \A d \in 1..(Len(stack') - 1) : d \in 1..(n - 1) \/ d = n
    BY <1>1
  <2>4. QED
    BY <2>1, <2>2, <2>3
<1>7. ~ Active("merge")' /\ SortCorrect'
  BY <1>2, <1>4 DEF Active, SortCorrect
<1>8. QED
  BY <1>2, <1>3, <1>4, <1>5, <1>6, <1>7 DEF StackInv

\* The array is split and the left half sorted first.
LEMMA SplitStack ==
  ASSUME StackInv, Split
  PROVE  StackInv'
<1> DEFINE n == Len(stack)
           b == Top.block
           g == [Top EXCEPT !.left = Lo(b), !.right = Hi(b), !.at = "left"]
<1>1. stack \in Seq(Activation) /\ stack # <<>>
  BY DEF StackInv, Split, Active
<1>2. n \in Nat /\ n >= 1 /\ Top = stack[n] /\ Top \in Activation
  BY <1>1, CallersOf DEF Top
<1>3. b \in Seq(Node)
  BY <1>2 DEF Activation
<1>4. Lo(b) \in Seq(Node) /\ Hi(b) \in Seq(Node)
  BY <1>3, HalvesMakeUp
<1>5. /\ g \in Activation /\ g.block = b /\ g.left = Lo(b) /\ g.right = Hi(b)
      /\ g.at = "left"
  BY <1>2, <1>4 DEF Activation
<1>6. Frame(Lo(b)) \in Activation
  BY <1>4 DEF Frame, Activation
<1>7. stack' = Append(Front(stack) \o <<g>>, Frame(Lo(b)))
  BY DEF Split, Lo, Hi
<1> DEFINE u == Front(stack) \o <<g>>
<1>8. /\ u \in Seq(Activation) /\ Len(u) = n /\ u[n] = g
      /\ \A d \in 1..(n - 1) : u[d] = stack[d]
  BY <1>1, <1>5, TopReplaced
<1> HIDE DEF g, u, b
<1>9. /\ stack' \in Seq(Activation) /\ Len(stack') = n + 1
      /\ \A d \in 1..n : stack'[d] = u[d]
      /\ stack'[n + 1] = Frame(Lo(b))
  BY <1>6, <1>7, <1>8, PushedOn DEF u
<1>10. \A d \in 1..(n - 1) : stack'[d] = stack[d]
  BY <1>2, <1>8, <1>9
<1>11. stack'[n] = g
  BY <1>2, <1>8, <1>9
<1>12. HalvesDone(g) /\ WaitsFor(g, Lo(b))
  <2>1. Len(b) >= 2
    BY DEF Split, b
  <2>2. QED
    BY <1>5, <2>1 DEF HalvesDone, WaitsFor
<1>13. MergeInv' /\ UNCHANGED input
  BY MergeStutterInv DEF Split, StackInv
<1>14. g.block = stack[n].block /\ n \in 1..Len(stack)
  BY <1>2, <1>5 DEF b
<1>15. QED
  BY <1>4, <1>5, <1>9, <1>10, <1>11, <1>12, <1>13, <1>14, CallOnHalf

\* An activation returns with its array sorted, to whoever waits for it.
LEMMA ReturnStack ==
  ASSUME StackInv, stack # <<>>, NEW s \in Seq(Node),
         IsMergeSortOf(s, Top.block), ReturnToCaller(s), UNCHANGED input
  PROVE  StackInv'
<1> DEFINE callers == Front(stack)
           c == Last(callers)
           m == Len(stack) - 1
<1>1. /\ callers \in Seq(Activation) /\ Len(callers) = m /\ m \in Nat
      /\ \A d \in 1..m : callers[d] = stack[d]
      /\ Len(stack) \in Nat /\ m + 1 = Len(stack) /\ Top = stack[m + 1]
  <2>1. stack \in Seq(Activation)
    BY DEF StackInv
  <2>2. /\ callers \in Seq(Activation) /\ Len(callers) = m
        /\ \A d \in 1..m : callers[d] = stack[d]
        /\ Len(stack) \in Nat /\ Len(stack) >= 1 /\ Top = stack[Len(stack)]
    BY <2>1, CallersOf DEF Top
  <2>3. m \in Nat /\ m + 1 = Len(stack)
    BY <2>2
  <2>4. QED
    BY <2>2, <2>3
<1>2. CASE callers = <<>>
  <2>1. m = 0
    BY <1>1, <1>2
  <2>2. Top.block = input
    BY <1>1, <2>1 DEF StackInv
  <2>3. stack' = <<>> /\ result' = s /\ MergeCall(<<>>, <<>>)
    BY <1>2 DEF ReturnToCaller
  <2>4. <<>> \in Seq(Node) /\ <<>> \in Seq(Activation) /\ Len(<<>>) = 0
    OBVIOUS
  <2>5. MergeInv'
    BY <2>3, <2>4, MergeCallInvariant
  <2>6. SortCorrect'
    BY <2>2, <2>3 DEF SortCorrect
  <2>7. QED
    BY <2>3, <2>4, <2>5, <2>6 DEF StackInv, Active
<1>3. ASSUME callers # <<>>
      PROVE  /\ m >= 1 /\ m \in 1..Len(stack) /\ c = stack[m] /\ c \in Activation
             /\ WaitsFor(c, Top.block) /\ HalvesDone(c)
  <2>1. m >= 1 /\ m \in 1..Len(stack)
    BY <1>1, <1>3
  <2>2. c = callers[m] /\ c \in Activation
    BY <1>1, <1>3, CallersOf
  <2>3. c = stack[m]
    BY <1>1, <2>1, <2>2
  <2>4. WaitsFor(stack[m], stack[m + 1].block) /\ HalvesDone(stack[m])
    BY <1>1, <2>1 DEF StackInv
  <2>5. QED
    BY <1>1, <2>1, <2>2, <2>3, <2>4
<1>4. CASE callers # <<>> /\ c.at = "left"
  <2> DEFINE g == [c EXCEPT !.left = s, !.at = "right"]
             u == Front(callers) \o <<g>>
  <2>1. /\ stack' = Append(u, Frame(c.right)) /\ MergeCall(<<>>, <<>>)
    BY <1>4 DEF ReturnToCaller
  <2>2. <<>> \in Seq(Node)
    OBVIOUS
  <2>3. MergeInv'
    BY <2>1, <2>2, MergeCallInvariant
  <2>4. c.right \in Seq(Node) /\ c.right = Hi(c.block) /\ Top.block = Lo(c.block)
    BY <1>3, <1>4 DEF Activation, HalvesDone, WaitsFor
  <2>5. /\ g \in Activation /\ g.block = c.block /\ g.left = s /\ g.right = c.right
        /\ g.at = "right"
    BY <1>3, <1>4 DEF Activation
  <2>6. Frame(c.right) \in Activation
    BY <2>4 DEF Frame, Activation
  <2>7. /\ u \in Seq(Activation) /\ Len(u) = m /\ u[m] = g
        /\ \A d \in 1..(m - 1) : u[d] = callers[d]
    BY <1>1, <1>4, <2>5, TopReplaced
  <2> HIDE DEF g, u, c, callers
  <2>8. /\ stack' \in Seq(Activation) /\ Len(stack') = m + 1
        /\ \A d \in 1..m : stack'[d] = u[d]
        /\ stack'[m + 1] = Frame(c.right)
    BY <2>1, <2>6, <2>7, PushedOn
  <2>9. stack'[m] = g /\ \A d \in 1..(m - 1) : stack'[d] = stack[d]
    BY <1>1, <1>3, <1>4, <2>7, <2>8
  <2>10. HalvesDone(g) /\ WaitsFor(g, c.right)
    <3>1. Len(c.block) >= 2
      BY <1>3, <1>4 DEF HalvesDone
    <3>2. QED
      BY <2>4, <2>5, <3>1 DEF HalvesDone, WaitsFor
  <2>11. g.block = stack[m].block
    BY <1>3, <1>4, <2>5
  <2>12. QED
    BY <1>3, <1>4, <2>3, <2>4, <2>5, <2>8, <2>9, <2>10, <2>11, CallOnHalf
<1>5. CASE callers # <<>> /\ c.at = "right"
  <2> DEFINE g == [c EXCEPT !.right = s, !.at = "merge"]
  <2>1. stack' = Front(callers) \o <<g>> /\ MergeCall(c.left, s)
    BY <1>5 DEF ReturnToCaller
  <2>2. c.left \in Seq(Node) /\ IsMergeSortOf(c.left, Lo(c.block)) /\ Top.block = Hi(c.block)
    BY <1>3, <1>5 DEF Activation, HalvesDone, WaitsFor
  <2>3. MergeInv' /\ left' = c.left /\ right' = s
    BY <2>1, <2>2, MergeCallInvariant
  <2>4. /\ g \in Activation /\ g.block = c.block /\ g.left = c.left /\ g.right = s
        /\ g.at = "merge"
    BY <1>3, <1>5 DEF Activation
  <2>5. /\ stack' \in Seq(Activation) /\ Len(stack') = m /\ stack'[m] = g
        /\ \A d \in 1..(m - 1) : stack'[d] = callers[d]
    BY <1>1, <1>5, <2>1, <2>4, TopReplaced
  <2> HIDE DEF g, c, callers
  <2>6. m >= 1 /\ m \in 1..Len(stack) /\ c = stack[m]
    BY <1>3, <1>5
  <2>7. \A d \in 1..(m - 1) : stack'[d] = stack[d]
    BY <1>1, <2>5, <2>6
  <2>8. stack' # <<>> /\ Top' = g
    BY <2>5, <2>6 DEF Top, Last
  <2>9. stack'[1].block = input'
    BY <1>1, <2>4, <2>5, <2>6, <2>7 DEF StackInv
  <2>10. HalvesDone(g)
    <3>1. Len(c.block) >= 2
      BY <1>3, <1>5 DEF HalvesDone
    <3>2. QED
      BY <2>2, <2>4, <3>1 DEF HalvesDone
  <2>11. ASSUME NEW d \in 1..Len(stack') PROVE HalvesDone(stack'[d])
    <3>1. CASE d = m
      BY <2>5, <2>10, <3>1
    <3>2. CASE d # m
      BY <1>1, <2>5, <2>6, <2>7, <3>2 DEF StackInv
    <3>3. QED
      BY <3>1, <3>2
  <2>12. ASSUME NEW d \in 1..(Len(stack') - 1)
         PROVE  WaitsFor(stack'[d], stack'[d + 1].block)
    <3>1. stack'[d] = stack[d] /\ stack'[d + 1].block = stack[d + 1].block
      <4>1. d \in 1..(m - 1) /\ (d + 1 \in 1..(m - 1) \/ d + 1 = m)
        BY <1>1, <2>5
      <4>2. g.block = stack[m].block
        BY <2>4, <2>6
      <4>3. QED
        BY <2>5, <2>7, <4>1, <4>2
    <3>2. WaitsFor(stack[d], stack[d + 1].block)
      BY <1>1, <2>5 DEF StackInv
    <3>3. QED
      BY <3>1, <3>2
  <2>13. SortCorrect'
    BY <2>8 DEF SortCorrect
  <2>14. QED
    BY <2>3, <2>4, <2>5, <2>8, <2>9, <2>11, <2>12, <2>13 DEF StackInv
<1>6. QED
  BY <1>2, <1>4, <1>5 DEF ReturnToCaller

\* Every step of merge_sort().
LEMMA SortNextStack ==
  ASSUME StackInv, [SortNext]_sortVars
  PROVE  StackInv'
<1>1. CASE ReturnShort
  <2>1. stack \in Seq(Activation) /\ stack # <<>> /\ Top \in Activation
    BY <1>1, CallersOf DEF ReturnShort, Active, StackInv, Top
  <2>2. Top.block \in Seq(Node) /\ Len(Top.block) < 2
    BY <1>1, <2>1 DEF ReturnShort, Activation
  <2>3. QED
    BY <1>1, <2>1, <2>2, ShortIsSorted, ReturnStack DEF ReturnShort
<1>2. CASE SortMergeLoop
  <2>1. MergeInv'
    BY <1>2, MergeStepInv DEF SortMergeLoop, StackInv
  <2>2. left' = left /\ right' = right
    BY <1>2 DEF SortMergeLoop, MergeStep, TakeLeft, TakeRight, DrainLeft, DrainRight,
       CopyLeft, CopyRight
  <2>3. QED
    BY <1>2, <2>1, <2>2 DEF SortMergeLoop, StackInv, Active, Top, SortCorrect
<1>3. CASE ReturnMerged
  <2>1. /\ stack \in Seq(Activation) /\ stack # <<>> /\ Top = stack[Len(stack)]
        /\ Top \in Activation /\ Len(stack) \in 1..Len(stack) /\ Top.at = "merge"
    BY <1>3, CallersOf DEF ReturnMerged, Active, StackInv, Top
  <2>2. Top.block \in Seq(Node) /\ left = Top.left /\ right = Top.right
    BY <1>3, <2>1 DEF ReturnMerged, StackInv, Activation
  <2>3. HalvesDone(Top)
    BY <2>1 DEF StackInv
  <2>4. IsMergeSortOf(left, Lo(Top.block)) /\ IsMergeSortOf(right, Hi(Top.block))
    BY <2>1, <2>2, <2>3 DEF HalvesDone
  <2>5. IsMergeSortOf(whole, Top.block)
    BY <1>3, <2>2, <2>4, HalvesMakeUp, MergeOfSorts DEF ReturnMerged, StackInv
  <2>6. whole \in Seq(Node)
    BY DEF StackInv, MergeInv, MergeTypeOK
  <2>7. QED
    BY <1>3, <2>1, <2>5, <2>6, ReturnStack DEF ReturnMerged
<1>4. CASE UNCHANGED sortVars
  <2>1. MergeInv'
    BY <1>4, MergeStutterInv DEF sortVars, StackInv
  <2>2. QED
    BY <1>4, <2>1 DEF sortVars, mergeVars, StackInv, Active, Top, SortCorrect
<1>5. QED
  BY <1>1, <1>2, <1>3, <1>4, SplitStack DEF SortNext

\* The outermost call.
LEMMA SortInitStack ==
  ASSUME NEW b \in Seq(Node)
  PROVE  SortInit(b) => StackInv
<1> SUFFICES ASSUME SortInit(b) PROVE StackInv
  OBVIOUS
<1>1. Frame(b) \in Activation /\ Frame(b).at = "call" /\ Frame(b).block = b
  BY DEF Frame, Activation
<1>2. stack \in Seq(Activation) /\ Len(stack) = 1 /\ stack[1] = Frame(b)
  BY <1>1 DEF SortInit
<1>3. stack # <<>> /\ Top = Frame(b)
  <2>1. stack # <<>>
    BY DEF SortInit
  <2>2. QED
    BY <1>2, <2>1 DEF Top, Last
<1>4. HalvesDone(Frame(b))
  BY <1>1 DEF HalvesDone
<1>5. <<>> \in Seq(Node)
  OBVIOUS
<1>6. MergeInv
  BY <1>5, MergeInitInv DEF SortInit
<1>7. QED
  BY <1>1, <1>2, <1>3, <1>4, <1>6 DEF StackInv, SortInit, SortCorrect, Active

\* SortCorrect for arrays of every length: merge_sort(), through every level
\* of its recursion, leaves the nodes of its input sorted by key and, of two
\* with one key, the later one first.
THEOREM MergeSortCorrect ==
  ASSUME NEW b \in Seq(Node)
  PROVE  SortSpec(b) => []SortCorrect
<1>1. SortInit(b) => StackInv
  BY SortInitStack
<1>2. StackInv /\ [SortNext]_sortVars => StackInv'
  BY SortNextStack
<1>3. StackInv => SortCorrect
  BY DEF StackInv
<1>4. QED
  BY <1>1, <1>2, <1>3, PTL DEF SortSpec

-----------------------------------------------------------------------------
\* The depth of the recursion

\* Induction over the numbers, for a set instead of a predicate: the numbers
\* up to n that are not in the set would be mapped into themselves by k - 1,
\* one-to-one but not onto.
LEMMA SetInduction ==
  ASSUME NEW S, 0 \in S, \A n \in Nat : n \in S => n + 1 \in S
  PROVE  Nat \subseteq S
<1> SUFFICES ASSUME NEW n \in Nat, n \notin S PROVE FALSE
  OBVIOUS
<1> DEFINE T == {k \in 0..n : k \notin S}
           f == [k \in T |-> k - 1]
<1>1. ASSUME NEW k \in T
      PROVE  k - 1 \in T
  <2>1. k \in Nat /\ k # 0 /\ k - 1 \in Nat /\ (k - 1) + 1 = k
    OBVIOUS
  <2> QED
    BY <2>1
<1>2. f \in Injection(T, T)
  BY <1>1 DEF Injection, IsInjective
<1>3. IsFiniteSet(T)
  <2>1. IsFiniteSet(0..n) /\ T \in SUBSET (0..n)
    BY FS_Interval
  <2> HIDE DEF T
  <2> QED
    BY <2>1, FS_Subset
<1>4. f \in Surjection(T, T)
  <2> HIDE DEF T, f
  <2> QED
    BY <1>2, <1>3, FS_Injection
<1>5. n \in T
  OBVIOUS
<1>6. \E k \in T : f[k] = n
  <2> HIDE DEF T, f
  <2> QED
    BY <1>4, <1>5 DEF Surjection
<1> QED
  BY <1>6

\* Powers of two, as numbers of subsets.
LEMMA PowerZero == 2 ^ 0 = 1
<1>1. IsFiniteSet({}) /\ Cardinality({}) = 0
  BY FS_EmptySet
<1>2. Cardinality(SUBSET {}) = 2 ^ 0
  BY <1>1, FS_SUBSET
<1>3. SUBSET {} = {{}}
  OBVIOUS
<1> QED
  BY <1>2, <1>3, FS_Singleton

LEMMA PowerDoubles ==
  ASSUME NEW n \in Nat
  PROVE  2 ^ n \in Nat /\ 2 ^ (n + 1) = 2 * 2 ^ n
<1> DEFINE A == SUBSET (1..n)
           B == {X \cup {n + 1} : X \in A}
           f == [X \in A |-> X \cup {n + 1}]
<1>1. /\ IsFiniteSet(1..n) /\ Cardinality(1..n) = n
      /\ IsFiniteSet(1..(n + 1)) /\ Cardinality(1..(n + 1)) = n + 1
  BY FS_Interval
<1>2. IsFiniteSet(A) /\ Cardinality(A) = 2 ^ n /\ Cardinality(SUBSET (1..(n + 1))) = 2 ^ (n + 1)
  BY <1>1, FS_SUBSET
<1>3. \A X \in A : n + 1 \notin X
  OBVIOUS
<1>4. f \in Bijection(A, B)
  <2>1. f \in [A -> B]
    OBVIOUS
  <2>2. \A X, Y \in A : f[X] = f[Y] => X = Y
    BY <1>3
  <2>3. \A Z \in B : \E X \in A : f[X] = Z
    OBVIOUS
  <2> HIDE DEF f, A, B
  <2> QED
    BY <2>1, <2>2, <2>3 DEF Bijection, Injection, Surjection, IsInjective
<1>5. ExistsBijection(A, B)
  BY <1>4 DEF ExistsBijection
<1>6. SUBSET (1..(n + 1)) = A \cup B
  <2>1. \A X \in A : X \in SUBSET (1..(n + 1)) /\ X \cup {n + 1} \in SUBSET (1..(n + 1))
    OBVIOUS
  <2>2. ASSUME NEW Z \in SUBSET (1..(n + 1)) PROVE Z \in A \cup B
    <3>1. CASE n + 1 \in Z
      <4>1. Z \ {n + 1} \in A
        OBVIOUS
      <4>2. Z = (Z \ {n + 1}) \cup {n + 1}
        BY <3>1
      <4> QED
        BY <4>1, <4>2
    <3>2. CASE n + 1 \notin Z
      <4>1. Z \in A
        BY <3>2
      <4> QED
        BY <4>1
    <3> QED
      BY <3>1, <3>2
  <2>3. A \subseteq SUBSET (1..(n + 1)) /\ B \subseteq SUBSET (1..(n + 1))
    BY <2>1
  <2> QED
    BY <2>2, <2>3
<1>7. A \cap B = {}
  BY <1>3
<1>8. IsFiniteSet(B) /\ Cardinality(B) = 2 ^ n
  <2> HIDE DEF A, B
  <2> QED
    BY <1>2, <1>5, FS_Bijection
<1>9. Cardinality(A \cup B) = Cardinality(A) + Cardinality(B) - Cardinality({})
  <2> HIDE DEF A, B
  <2> QED
    BY <1>2, <1>7, <1>8, FS_Union
<1>10. Cardinality(A) \in Nat
  <2> HIDE DEF A
  <2> QED
    BY <1>2, FS_CardinalityType
<1>11. Cardinality({}) = 0
  BY FS_EmptySet
<1> DEFINE P == 2 ^ n
           Q == 2 ^ (n + 1)
<1>12. P \in Nat /\ Q = P + P - 0
  BY <1>2, <1>6, <1>8, <1>9, <1>10, <1>11
<1>13. P \in Nat /\ Q = 2 * P
  <2> HIDE DEF P, Q
  <2> QED
    BY <1>12
<1> QED
  BY <1>13

\* A half has at most half as many nodes, one of them not counted.
LEMMA HalfTheLength ==
  ASSUME NEW b \in Seq(Node)
  PROVE  2 * (Len(Lo(b)) - 1) <= Len(b) - 1 /\ 2 * (Len(Hi(b)) - 1) <= Len(b) - 1
<1> DEFINE m == Mid(Len(b))
<1>1. Len(b) \in Nat /\ m \in Nat /\ m <= Len(b) /\ 2 * m <= Len(b) /\ Len(b) <= 2 * m + 1
  BY DEF Mid
<1> HIDE DEF m
<1>2. Len(SubSeq(b, 1, m)) = m /\ Len(SubSeq(b, m + 1, Len(b))) = Len(b) - m
  BY <1>1
<1>3. Len(Lo(b)) = m /\ Len(Hi(b)) = Len(b) - m
  BY <1>2 DEF Lo, Hi, m
<1> QED
  BY <1>1, <1>3

\* The activation at depth d has at most the 2^(d - 1)-th part of the input.
LEMMA DepthHalves ==
  ASSUME StackInv, NEW k \in Nat, k < Len(stack)
  PROVE  /\ Len(stack[k + 1].block) \in Nat
         /\ 2 ^ k * (Len(stack[k + 1].block) - 1) <= Len(input) - 1
<1> DEFINE Size(d) == Len(stack[d].block)
           S == {n \in Nat : n < Len(stack) =>
                   Size(n + 1) \in Nat /\ 2 ^ n * (Size(n + 1) - 1) <= Len(input) - 1}
<1>1. Len(stack) \in Nat /\ \A d \in 1..Len(stack) : stack[d].block \in Seq(Node)
  <2>1. stack \in Seq(Activation)
    BY DEF StackInv
  <2>2. \A d \in 1..Len(stack) : stack[d] \in Activation
    BY <2>1, ElementOfSeq
  <2> QED
    BY <2>1, <2>2 DEF Activation
<1>2. \A d \in 1..Len(stack) : Size(d) \in Nat
  BY <1>1
<1>3. 0 \in S
  <2> SUFFICES ASSUME 0 < Len(stack)
               PROVE  Size(1) \in Nat /\ 2 ^ 0 * (Size(1) - 1) <= Len(input) - 1
    OBVIOUS
  <2>1. Size(1) \in Nat /\ stack[1].block = input
    BY <1>1, <1>2 DEF StackInv
  <2>2. Size(1) = Len(input)
    BY <2>1
  <2> HIDE DEF Size
  <2> QED
    BY <2>1, <2>2, PowerZero
<1>4. ASSUME NEW n \in Nat, n \in S
      PROVE  n + 1 \in S
  <2> SUFFICES ASSUME n + 1 < Len(stack)
               PROVE  /\ Size((n + 1) + 1) \in Nat
                      /\ 2 ^ (n + 1) * (Size((n + 1) + 1) - 1) <= Len(input) - 1
    <3>1. n + 1 \in Nat
      OBVIOUS
    <3> QED
      BY <3>1, Zenon
  <2> DEFINE P == 2 ^ n
             x == Size(n + 1)
             y == Size(n + 2)
             N == Len(input)
  <2>1. /\ n < Len(stack) /\ n + 1 \in 1..Len(stack) /\ n + 2 \in 1..Len(stack)
        /\ n + 1 \in 1..(Len(stack) - 1) /\ (n + 1) + 1 = n + 2
    BY <1>1
  <2>2. x \in Nat /\ y \in Nat
    BY <1>2, <2>1
  <2>3. P * (x - 1) <= N - 1
    BY <1>4, <2>1
  <2>4. P \in Nat /\ 2 ^ (n + 1) = 2 * P
    BY PowerDoubles
  <2>5. 2 * (y - 1) <= x - 1
    <3>1. WaitsFor(stack[n + 1], stack[n + 2].block)
      BY <2>1 DEF StackInv
    <3>2. stack[n + 1].block \in Seq(Node)
      BY <1>1, <2>1
    <3> QED
      BY <3>1, <3>2, HalfTheLength DEF WaitsFor
  <2>6. N \in Int
    <3>1. 1 \in 1..Len(stack) /\ stack # <<>>
      BY <1>1, <2>1
    <3> QED
      BY <1>2, <3>1 DEF StackInv
  <2> HIDE DEF P, x, y, N
  <2>7. P * (2 * (y - 1)) <= P * (x - 1)
    BY <2>2, <2>4, <2>5
  <2>8. (2 * P) * (y - 1) <= N - 1
    <3>1. (2 * P) * (y - 1) = P * (2 * (y - 1))
      BY <2>2, <2>4
    <3>2. P * (2 * (y - 1)) \in Int /\ P * (x - 1) \in Int
      BY <2>2, <2>4
    <3> QED
      BY <2>3, <2>6, <2>7, <3>1, <3>2
  <2> QED
    BY <2>1, <2>2, <2>4, <2>8 DEF y, N
<1>5. k \in S
  <2> HIDE DEF S
  <2> QED
    BY <1>3, <1>4, SetInduction
<1> QED
  BY <1>5

\* StackShallow for arrays of every length: k nested activations of
\* merge_sort() need a block of more than 2^(k - 2) nodes.
THEOREM MergeSortShallow ==
  ASSUME NEW b \in Seq(Node)
  PROVE  SortSpec(b) => []StackShallow
<1>1. ASSUME StackInv PROVE StackShallow
  <2> SUFFICES ASSUME Len(stack) > 1 PROVE 2 ^ (Len(stack) - 2) < Len(input)
    BY DEF StackShallow
  <2> DEFINE k == Len(stack) - 2
             P == 2 ^ k
             x == Len(stack[k + 1].block)
             N == Len(input)
  <2>1. Len(stack) \in Nat /\ k \in Nat /\ k < Len(stack) /\ k + 1 \in 1..(Len(stack) - 1)
    BY <1>1 DEF StackInv
  <2>2. P \in Nat
    BY <2>1, PowerDoubles
  <2>3. x \in Nat /\ P * (x - 1) <= N - 1
    BY <1>1, <2>1, DepthHalves
  <2>4. x >= 2
    <3>1. WaitsFor(stack[k + 1], stack[(k + 1) + 1].block) /\ HalvesDone(stack[k + 1])
      BY <1>1, <2>1 DEF StackInv
    <3> QED
      BY <3>1 DEF WaitsFor, HalvesDone
  <2>5. N \in Int
    <3>1. stack \in Seq(Activation) /\ 1 \in 1..Len(stack) /\ stack # <<>>
      BY <1>1, <2>1 DEF StackInv
    <3>2. stack[1] \in Activation
      BY <3>1, ElementOfSeq
    <3>3. stack[1].block = input
      BY <1>1, <3>1 DEF StackInv
    <3> QED
      BY <3>2, <3>3 DEF Activation
  <2> HIDE DEF P, x, N
  <2>6. P <= P * (x - 1) /\ P * (x - 1) \in Int
    BY <2>2, <2>3, <2>4
  <2>7. P < N
    BY <2>2, <2>3, <2>5, <2>6
  <2> QED
    BY <2>7 DEF P, N
<1> QED
  BY <1>1, SortInitStack, SortNextStack, PTL DEF SortSpec
=============================================================================
