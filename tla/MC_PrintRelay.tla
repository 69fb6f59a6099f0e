---------------------------- MODULE MC_PrintRelay ----------------------------
(* Two jobs, so that an answer about the older one can meet the newer one,   *)
(* and two agents that ask for the older one at the same time.               *)
EXTENDS PrintRelay
CONSTANTS a1, a2
=============================================================================
