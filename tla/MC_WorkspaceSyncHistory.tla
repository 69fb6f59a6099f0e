------------------------ MODULE MC_WorkspaceSyncHistory ------------------------
(***************************************************************************)
(* Small instances of WorkspaceSyncHistory: two editors of one incident.   *)
(***************************************************************************)
EXTENDS WorkspaceSyncHistory, TLC

CONSTANTS d1, d2, o1, o2

Editors == [d \in Device |-> {Obj}]

Devices == Permutations(Device)
=============================================================================
