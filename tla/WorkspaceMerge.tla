--------------------------- MODULE WorkspaceMerge ---------------------------
(***************************************************************************)
(* The three-way merge of two divergent workspace blobs against their      *)
(* common ancestor (src/src/lib/mergeWorkspace.ts).                        *)
(*                                                                         *)
(* A blob is a function from object ids to contents: Absent is an id the   *)
(* collection does not hold.  Every id-keyed collection of the blob merges *)
(* by mergeById and every record by mergeRecord.  The field-level          *)
(* resolvers that some collections have for two concurrent edits of ONE    *)
(* object are abstracted: mine wins, as it does without a resolver.        *)
(***************************************************************************)

CONSTANTS
    Obj,       \* ids of the objects of one incident
    Val,       \* contents an object can have
    Absent     \* the content of an id the blob does not hold

ASSUME AbsentAssumption == Absent \notin Val

Content   == Val \cup {Absent}
Workspace == [Obj -> Content]
EmptyWorkspace == [o \in Obj |-> Absent]

\* (broken: an edit beats the concurrent delete)
Survives_EditWins(a, m, t) ==
    IF m # Absent /\ t # Absent
    THEN IF a # Absent /\ m = a THEN t ELSE m
    ELSE IF a # Absent /\ (m = a \/ t = a) THEN Absent
    ELSE IF m # Absent THEN m ELSE t

\* mergeById's `survives` for one id: ancestor a, mine m, theirs t.
Survives(a, m, t) ==
    IF m # Absent /\ t # Absent
    THEN IF a # Absent /\ m = a
         THEN t                             \* only the server changed it
         ELSE m                             \* both did, or only I, or both added it
    ELSE IF a # Absent THEN Absent          \* one side deleted: the delete wins
    ELSE IF m # Absent THEN m ELSE t        \* an add of one side (or of neither)

MergeById(base, mine, theirs) ==
    [o \in Obj |-> Survives(base[o], mine[o], theirs[o])]

\* mergeRecord's rule for one key, in that function's own order of tests.
RecordEntry(a, m, t) ==
    IF a # Absent /\ (m = Absent \/ t = Absent) THEN Absent
    ELSE IF m # Absent /\ m # a THEN m
    ELSE IF t # Absent THEN t
    ELSE m

MergeRecord(base, mine, theirs) ==
    [o \in Obj |-> RecordEntry(base[o], mine[o], theirs[o])]

\* The server's blob once it took a push that carries only the keys `slice`.
LandedSlice(slice, server, local) ==
    [o \in Obj |-> IF o \in slice THEN local[o] ELSE server[o]]
=============================================================================
