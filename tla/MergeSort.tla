----------------------------- MODULE MergeSort -----------------------------
(***************************************************************************)
(* merge_sort() of src/test/LSMTree/lsm.c: the recursive procedure, with   *)
(* its stack of activations.  merge() is not reentrant, so the one set of  *)
(* variables of module Merge is that of the activation on top.             *)
(***************************************************************************)
EXTENDS Merge, SequencesExt

VARIABLES
  input,   \* the array the outermost call was given (history)
  stack,   \* the activations, the outermost first
  result   \* the array the outermost call leaves behind

sortVars == <<input, stack, result, mergeVars>>

\* An activation: the array it sorts in place, its two copies, and what it
\* does next: "call" (just entered), "left" or "right" (the recursive call on
\* that copy is running), "merge".
Frame(b) == [block |-> b, left |-> <<>>, right |-> <<>>, at |-> "call"]

Top == Last(stack)

\* Mutant: only the last node is split off.
MidLast(n) == n - 1

\* mid = n / 2
Mid(n) == n \div 2

SortInit(b) ==
  /\ input = b
  /\ stack = <<Frame(b)>>
  /\ result = <<>>
  /\ MergeInit(<<>>, <<>>)

Active(at) == stack # <<>> /\ Top.at = at

\* malloc() and memcpy() of the two halves, and the call on the left one.
Split ==
  /\ Active("call")
  /\ Len(Top.block) >= 2
  /\ LET n == Len(Top.block)
         lf == SubSeq(Top.block, 1, Mid(n))
         rt == SubSeq(Top.block, Mid(n) + 1, n)
     IN  stack' = Append(Front(stack) \o
                    <<[Top EXCEPT !.left = lf, !.right = rt, !.at = "left"]>>, Frame(lf))
  /\ UNCHANGED <<input, result, mergeVars>>

\* The top activation returns with its array sorted to s; the caller goes on.
\* From "left" it calls itself on the right copy; from "right" it calls merge().
ReturnToCaller(s) ==
  LET callers == Front(stack)
      c == Last(callers)
  IN  \/ /\ callers = <<>>
         /\ stack' = <<>>
         /\ result' = s
         /\ MergeCall(<<>>, <<>>)
      \/ /\ callers # <<>> /\ c.at = "left"
         /\ stack' = Append(Front(callers) \o <<[c EXCEPT !.left = s, !.at = "right"]>>,
                            Frame(c.right))
         /\ MergeCall(<<>>, <<>>)
         /\ UNCHANGED result
      \/ /\ callers # <<>> /\ c.at = "right"
         /\ stack' = Front(callers) \o <<[c EXCEPT !.right = s, !.at = "merge"]>>
         /\ MergeCall(c.left, s)
         /\ UNCHANGED result

\* n < 2
ReturnShort ==
  /\ Active("call")
  /\ Len(Top.block) < 2
  /\ ReturnToCaller(Top.block)
  /\ UNCHANGED input

SortMergeLoop ==
  /\ Active("merge")
  /\ MergeStep
  /\ UNCHANGED <<input, stack, result>>

\* Mutant: the caller sees the block as it was, because merge() was given a
\* copy to write to.
ReturnUnmerged ==
  /\ Active("merge")
  /\ MergeDone
  /\ ReturnToCaller(Top.block)
  /\ UNCHANGED input

ReturnMerged ==
  /\ Active("merge")
  /\ MergeDone
  /\ ReturnToCaller(whole)
  /\ UNCHANGED input

SortNext == Split \/ ReturnShort \/ SortMergeLoop \/ ReturnMerged

SortSpec(b) == SortInit(b) /\ [][SortNext]_sortVars

-----------------------------------------------------------------------------

\* merge_sort() leaves the nodes of its input sorted by key and, of two nodes
\* with one key, the later one first, through every level of the recursion.
\* It is what module LSM assumes of the call in write_to_disk().
SortCorrect == stack = <<>> => IsMergeSortOf(result, input)

\* The recursion is at most logarithmic in the size of the block: k nested
\* activations need a block of more than 2^(k - 2) nodes.
StackShallow == Len(stack) > 1 => 2 ^ (Len(stack) - 2) < Len(input)

\* merge_sort() returns.
SortReturns == <>(stack = <<>>)
=============================================================================
