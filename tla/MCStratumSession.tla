-------------------------- MODULE MCStratumSession --------------------------
(***************************************************************************)
(* Instance of StratumSession for TLC: three message ids let two           *)
(* submissions of a lost session overlap the handshake of the next one.    *)
(***************************************************************************)
EXTENDS StratumSession, TLC

CONSTANTS m1, m2, m3

MCIds == {m1, m2, m3}
=============================================================================
