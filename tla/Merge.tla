------------------------------- MODULE Merge -------------------------------
(***************************************************************************)
(* merge() of src/test/LSMTree/lsm.c: the loop that interleaves two arrays *)
(* of nodes by key.  It is the step both of merge_sort() and of            *)
(* write_to_disk(), where the left array is the file and the right array   *)
(* the in-memory block.                                                    *)
(*                                                                         *)
(* Arrays are sequences, so the C index of an element is its position      *)
(* minus one; l and r count the nodes already copied, and the C variable i *)
(* is Len(whole).                                                          *)
(*                                                                         *)
(* posL and posR are history variables: the position in whole at which     *)
(* each copied node of left and of right was placed.  No guard reads them. *)
(***************************************************************************)
EXTENDS Integers, Sequences

VARIABLES left, right, l, r, whole, posL, posR

mergeVars == <<left, right, l, r, whole, posL, posR>>

\* typedef struct _node { keyType key; valType val; }: both are C ints.
Node == [key : Int, val : Int]

\* The call merge(whole, a, |a|, b, |b|), before the first iteration.
MergeInit(a, b) ==
  /\ left = a
  /\ right = b
  /\ l = 0
  /\ r = 0
  /\ whole = <<>>
  /\ posL = <<>>
  /\ posR = <<>>

\* The same call made by a step of the program.
MergeCall(a, b) ==
  /\ left' = a
  /\ right' = b
  /\ l' = 0
  /\ r' = 0
  /\ whole' = <<>>
  /\ posL' = <<>>
  /\ posR' = <<>>

\* whole[i++] = left[l++]
CopyLeft ==
  /\ whole' = Append(whole, left[l + 1])
  /\ l' = l + 1
  /\ posL' = Append(posL, Len(whole) + 1)
  /\ UNCHANGED <<left, right, r, posR>>

\* Mutant: whole[i] = right[r++], the next node overwrites this one.
CopyRightOver ==
  /\ whole' = IF whole = <<>> THEN <<right[r + 1]>>
              ELSE [whole EXCEPT ![Len(whole)] = right[r + 1]]
  /\ r' = r + 1
  /\ posR' = Append(posR, Len(whole) + 1)
  /\ UNCHANGED <<left, right, l, posL>>

\* Mutant: whole[i] = right[r], no index advances.
CopyRightStuck == UNCHANGED mergeVars

\* whole[i++] = right[r++]
CopyRight ==
  /\ whole' = Append(whole, right[r + 1])
  /\ r' = r + 1
  /\ posR' = Append(posR, Len(whole) + 1)
  /\ UNCHANGED <<left, right, l, posL>>

\* Mutants: the comparison accepts equal keys; the comparison is inverted.
LeftIsNotLarger == left[l + 1].key <= right[r + 1].key
LeftIsLarger == left[l + 1].key > right[r + 1].key

\* The first loop, while both arrays have nodes left: only a strictly
\* smaller key is taken from the left.
LeftIsSmaller == left[l + 1].key < right[r + 1].key

TakeLeft ==
  /\ l < Len(left) /\ r < Len(right)
  /\ LeftIsSmaller
  /\ CopyLeft

TakeRight ==
  /\ l < Len(left) /\ r < Len(right)
  /\ ~ LeftIsSmaller
  /\ CopyRight

\* The second and third loops copy what is left of the one array that is
\* not exhausted.
DrainLeft ==
  /\ l < Len(left) /\ ~ (r < Len(right))
  /\ CopyLeft

DrainRight ==
  /\ r < Len(right) /\ ~ (l < Len(left))
  /\ CopyRight

MergeStep == TakeLeft \/ TakeRight \/ DrainLeft \/ DrainRight

\* Every loop has ended: merge() returns.
MergeDone == l = Len(left) /\ r = Len(right)

MergeSpec(a, b) == MergeInit(a, b) /\ [][MergeStep]_mergeVars

-----------------------------------------------------------------------------
\* merge_sort(b, |b|): sorted by key, and of two nodes with one key the later
\* one first, because merge() prefers its right half.  MergeSort checks that
\* the recursive code computes this.
IsMergeSortOf(s, b) ==
  /\ Len(s) = Len(b)
  /\ \E p \in [1..Len(b) -> 1..Len(b)] :
       /\ \A j \in 1..Len(b) : \E i \in 1..Len(b) : p[i] = j
       /\ \A i \in 1..Len(b) : s[i] = b[p[i]]
       /\ \A i, j \in 1..Len(b) : i < j =>
            \/ b[p[i]].key < b[p[j]].key
            \/ b[p[i]].key = b[p[j]].key /\ p[i] > p[j]

-----------------------------------------------------------------------------
\* What merge() promises.

SortedByKey(s) == \A i, j \in 1..Len(s) : i < j => s[i].key <= s[j].key

MergeTypeOK ==
  /\ left \in Seq(Node) /\ right \in Seq(Node) /\ whole \in Seq(Node)
  /\ l \in 0..Len(left) /\ r \in 0..Len(right)
  /\ posL \in Seq(Nat) /\ posR \in Seq(Nat)
  /\ Len(posL) = l /\ Len(posR) = r

\* merge() neither drops, duplicates nor reorders: whole is an interleaving
\* of what it has read of the two arrays.  Every node read has its own place,
\* the nodes of one array keep their order, and no place is left unfilled.
MergeInterleaves ==
  /\ Len(whole) = l + r
  /\ \A j \in 1..l : posL[j] \in 1..Len(whole) /\ whole[posL[j]] = left[j]
  /\ \A k \in 1..r : posR[k] \in 1..Len(whole) /\ whole[posR[k]] = right[k]
  /\ \A i, j \in 1..l : i < j => posL[i] < posL[j]
  /\ \A i, k \in 1..r : i < k => posR[i] < posR[k]
  /\ \A j \in 1..l, k \in 1..r : posL[j] # posR[k]
  /\ \A i \in 1..Len(whole) : \/ \E j \in 1..l : posL[j] = i
                              \/ \E k \in 1..r : posR[k] = i

\* Sorted arrays merge into a sorted array, at every iteration.
MergeSorts ==
  SortedByKey(left) /\ SortedByKey(right) => SortedByKey(whole)

\* On equal keys the node of the right array comes first.  write_to_disk()
\* passes the block as the right array, so this is what puts the newest node
\* of a key before the older ones in the file.
MergeRightFirst ==
  SortedByKey(left) /\ SortedByKey(right) =>
    \A j \in 1..l, k \in 1..r :
      posL[j] < posR[k] <=> left[j].key < right[k].key
=============================================================================
