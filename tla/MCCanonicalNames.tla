--------------------------- MODULE MCCanonicalNames ---------------------------
(* Instance of CanonicalNames for TLC: two miners, three GPUs. *)
EXTENDS CanonicalNames, TLC

CONSTANTS m1, m2, g1, g2, g3

MCMiners == {m1, m2}
MCGpus == {g1, g2, g3}
=============================================================================
