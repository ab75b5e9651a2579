------------------------- MODULE MCGbtSolveWrapper -------------------------
(***************************************************************************)
(* Instance of GbtSolveWrapper for TLC: two process slots are the fewest   *)
(* that let a fresh daemon coexist with the memory of an exited one; j1    *)
(* and j3 are of one matmul shape, so that a slice can follow one left     *)
(* behind on the same daemon; j2 comes from a job of another shape.        *)
(***************************************************************************)
EXTENDS GbtSolveWrapper, TLC

CONSTANTS p1, p2, j1, j2, j3, main, other

MCSlots == {p1, p2}
MCJobs == {j1, j2, j3}
MCShapes == {main, other}
MCShapeOf == (j1 :> main) @@ (j2 :> other) @@ (j3 :> main)

\* Two slices of one shape.
TwoJobs == {j1, j3}
OneNetwork == [j \in TwoJobs |-> main]
=============================================================================
