---------------------------- MODULE MCMinerSystem ----------------------------
(***************************************************************************)
(* Instance of MinerSystem for TLC. The cursor is collapsed to one value   *)
(* (MCSolverLoop follows it); two slices are enough for one in flight and  *)
(* one left behind.                                                        *)
(***************************************************************************)
EXTENDS MinerSystem, TLC

CONSTANTS i1, i2, i3, A, B, t1, t2

MCJobIds == {i1, i2, i3}
MCParents == {A, B}
MCSlices == {t1, t2}
=============================================================================
