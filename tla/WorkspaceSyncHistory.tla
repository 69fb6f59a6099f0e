------------------------- MODULE WorkspaceSyncHistory -------------------------
(***************************************************************************)
(* WorkspaceSync with a record of what people did to each object, for the  *)
(* properties about whose work stands.  The variables added only observe.  *)
(***************************************************************************)
EXTENDS WorkspaceSync

VARIABLES
    author,     \* who ever wrote an object: devices, or Null for a machine
    remover,    \* who ever deleted it
    maker,      \* who added it last, where it was not, or Null
    additions,  \* how often it was added
    lastSet     \* its newest setting, in the order people made them

observers == <<author, remover, maker, additions, lastSet>>
hvars == <<vars, observers>>

\* a sets o, which was `was` for it, to c.
Sets(a, o, was, c) ==
    /\ author' = IF c = Absent THEN author ELSE [author EXCEPT ![o] = @ \cup {a}]
    /\ remover' = IF c = Absent THEN [remover EXCEPT ![o] = @ \cup {a}] ELSE remover
    /\ IF was = Absent
       THEN maker' = [maker EXCEPT ![o] = a] /\ additions' = [additions EXCEPT ![o] = @ + 1]
       ELSE UNCHANGED <<maker, additions>>
    /\ lastSet' = [lastSet EXCEPT ![o] = c]

HInit ==
    /\ Init
    /\ author = [o \in Obj |-> {}]
    /\ remover = [o \in Obj |-> {}]
    /\ maker = [o \in Obj |-> Null]
    /\ additions = [o \in Obj |-> 0]
    /\ lastSet = EmptyWorkspace

\* Whose step it was, read off what it changed.
Observed ==
    IF edits' # edits
    THEN \E d \in Device, o \in Obj :
            view'[d][o] # view[d][o] /\ Sets(d, o, view[d][o], view'[d][o])
    ELSE IF machine' # machine
    THEN \E o \in Obj :
            /\ hist'[rev'][o] # hist[rev][o]
            /\ Sets(Null, o, hist[rev][o], hist'[rev'][o])
    ELSE UNCHANGED observers

HNext == Next /\ Observed

HSpec == HInit /\ [][HNext]_hvars

\* An object only one device's user ever set stands, on that device's screen,
\* as that user left it: the ancestor "lets us tell 'I deleted X' apart from
\* 'I never had X'" (mergeWorkspace.ts).
OwnWorkStands ==
    \A d \in Device, o \in Obj :
        page[d] = "open" /\ author[o] \cup remover[o] \subseteq {d} => view[d][o] = lastSet[o]

\* At rest, an object that was added once (ids are made afresh, only an undo adds
\* one again) and that anybody but its maker deleted is gone, whoever edited it
\* before, after or meanwhile ("a delete BEATS a concurrent edit - the object
\* stays gone, no resurrection", mergeWorkspace.ts).
DeletedByAnother(o) == additions[o] = 1 /\ \E r \in remover[o] : r # maker[o]
DeleteWins == Settled => \A o \in Obj : DeletedByAnother(o) => hist[rev][o] = Absent
=============================================================================
