---------------------------- MODULE MCMergeSort ----------------------------
(***************************************************************************)
(* Every call of merge_sort() on an array of at most MaxLen nodes.  The    *)
(* value of a node is its position, so that equal keys can be told apart.  *)
(***************************************************************************)
EXTENDS MergeSort

CONSTANTS MaxLen,   \* bound on the length of the array
          MCKeys    \* the keys that occur in it

MCInit ==
  \E ks \in BoundedSeq(MCKeys, MaxLen) :
    SortInit([i \in 1..Len(ks) |-> [key |-> ks[i], val |-> i]])

Finished == stack = <<>> /\ UNCHANGED sortVars

\* One thread, no wait: merge_sort() keeps running until it returns.
MCSpec == MCInit /\ [][SortNext \/ Finished]_sortVars /\ WF_sortVars(SortNext)
=============================================================================
