------------------------------ MODULE MC_Journal ------------------------------
(***************************************************************************)
(* Small instances of Journal.                                             *)
(***************************************************************************)
EXTENDS Journal

CONSTANTS a, b, c, far, sys1, sys2
=============================================================================
