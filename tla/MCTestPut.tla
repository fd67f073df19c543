----------------------------- MODULE MCTestPut -----------------------------
(***************************************************************************)
(* The instance of TestPut that TLC checks: runs of the driver over one    *)
(* file.                                                                   *)
(***************************************************************************)
EXTENDS TestPut

MCGarbage == {[key |-> 0, val |-> -1]}
=============================================================================
