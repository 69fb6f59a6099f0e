---------------------------- MODULE MC_MediaQueue ----------------------------
(* Two captures: one can be enqueued or linked while the other is uploading. *)
EXTENDS MediaQueue
CONSTANTS s1, s2
=============================================================================
