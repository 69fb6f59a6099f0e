--------------------------- MODULE MC_WorkspaceSync ---------------------------
(***************************************************************************)
(* Small instances of WorkspaceSync: two devices that have one incident    *)
(* open, two objects.                                                      *)
(***************************************************************************)
EXTENDS WorkspaceSync, TLC

CONSTANTS d1, d2, o1, o2

Editors == [d \in Device |-> {Obj}]
\* d1's session may also be one whose route takes o2 and nothing else
NarrowSession == [d \in Device |-> IF d = d1 THEN {Obj, {o2}} ELSE {Obj}]

Devices == Permutations(Device)
=============================================================================
