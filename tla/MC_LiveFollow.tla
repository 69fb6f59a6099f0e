---------------------------- MODULE MC_LiveFollow ----------------------------
(***************************************************************************)
(* A small instance of LiveFollow.                                         *)
(***************************************************************************)
EXTENDS LiveFollow

CONSTANTS d1
=============================================================================
