-------------------------- MODULE MCLSMRefinement --------------------------
(***************************************************************************)
(* The instance of the refinement that TLC checks.                         *)
(***************************************************************************)
EXTENDS LSMRefinement

MCGarbage == {[key |-> 1, val |-> -1]}
=============================================================================
