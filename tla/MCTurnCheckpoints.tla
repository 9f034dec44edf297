-------------------------- MODULE MCTurnCheckpoints --------------------------
(***************************************************************************)
(* Small instances of TurnCheckpoints for TLC.                             *)
(***************************************************************************)
EXTENDS TurnCheckpoints

TwoTurns == 1..2
=============================================================================
