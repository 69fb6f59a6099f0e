------------------------------ MODULE MC_TabLock ------------------------------
(***************************************************************************)
(* Small instances of TabLock.                                             *)
(***************************************************************************)
EXTENDS TabLock
=============================================================================
