---------------------------- MODULE MCSolverLoop ----------------------------
(***************************************************************************)
(* Instance of SolverLoop for TLC: two parents let the tip move away and   *)
(* come back; three job ids cover the job a slice runs on, the current one *)
(* and the next one.                                                       *)
(***************************************************************************)
EXTENDS SolverLoop, TLC

CONSTANTS i1, i2, i3, A, B

MCJobIds == {i1, i2, i3}
MCParents == {A, B}
=============================================================================
