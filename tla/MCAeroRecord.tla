---------------------------- MODULE MCAeroRecord ----------------------------
(***************************************************************************)
(* Two processes, each running either program, on one record.              *)
(***************************************************************************)
EXTENDS AeroRecord

CONSTANTS p1, p2

\* An empty file, one whose only bin has too long a name, and one with more
\* bins than rec has room for.
MCFiles == {<<>>, <<"long">>, <<"a", "long", "b", "c">>}
=============================================================================
