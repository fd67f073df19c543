---------------------------- MODULE MCLSMShared ----------------------------
(***************************************************************************)
(* Two processes on one file, one of which sorts its blocks.               *)
(***************************************************************************)
EXTENDS LSMShared

CONSTANTS p1, p2

MCGarbage == [key |-> 1, val |-> -1]
=============================================================================
