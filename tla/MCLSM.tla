------------------------------- MODULE MCLSM -------------------------------
(***************************************************************************)
(* The instances of LSM that TLC checks.  The uninitialised memory a run   *)
(* may read holds one of these nodes: one of a key in use, with a value no *)
(* put() ever supplies.                                                    *)
(***************************************************************************)
EXTENDS LSM

MCGarbage == {[key |-> 1, val |-> -1]}
=============================================================================
