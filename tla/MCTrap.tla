------------------------------- MODULE MCTrap -------------------------------
(***************************************************************************)
(* The instance of Trap for TLC.                                           *)
(***************************************************************************)
EXTENDS Trap

MCValues == {0, 7}
=============================================================================
