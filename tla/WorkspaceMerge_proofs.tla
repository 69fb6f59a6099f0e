------------------------- MODULE WorkspaceMerge_proofs -------------------------
(***************************************************************************)
(* What the three-way merge promises, for any objects and contents.        *)
(***************************************************************************)
EXTENDS WorkspaceMerge, TLAPS

\* mergeRecord, written in another order of tests, is mergeById keyed by the record's
\* keys: the two kinds of collection of the blob merge alike.
THEOREM RecordsMergeLikeObjects ==
    ASSUME NEW base \in Workspace, NEW mine \in Workspace, NEW theirs \in Workspace
    PROVE  MergeRecord(base, mine, theirs) = MergeById(base, mine, theirs)
<1>1. \A a, m, t : RecordEntry(a, m, t) = Survives(a, m, t)
  BY DEF RecordEntry, Survives
<1> QED
  BY <1>1 DEF MergeRecord, MergeById

\* "A delete BEATS a concurrent edit": what either side deleted is gone, whatever the
\* other did to it (mergeById's `survives`).
THEOREM DeleteBeatsEdit ==
    ASSUME NEW base \in Workspace, NEW mine \in Workspace, NEW theirs \in Workspace,
           NEW o \in Obj, base[o] # Absent, mine[o] = Absent \/ theirs[o] = Absent
    PROVE  MergeById(base, mine, theirs)[o] = Absent
BY DEF MergeById, Survives

\* "Independent additions ... all survive", whichever side made them.
THEOREM AdditionSurvivesMerge ==
    ASSUME NEW base \in Workspace, NEW mine \in Workspace, NEW theirs \in Workspace,
           NEW o \in Obj, base[o] = Absent, mine[o] # Absent \/ theirs[o] # Absent
    PROVE  MergeById(base, mine, theirs)[o] \in {mine[o], theirs[o]} \ {Absent}
BY DEF MergeById, Survives

\* Nothing vanishes but by a delete: an object that both sides hold, or that one side
\* holds and the ancestor does not, is in the result.
THEOREM MergeDropsOnlyDeleted ==
    ASSUME NEW base \in Workspace, NEW mine \in Workspace, NEW theirs \in Workspace,
           NEW o \in Obj, MergeById(base, mine, theirs)[o] = Absent,
           mine[o] # Absent \/ theirs[o] # Absent
    PROVE  base[o] # Absent /\ (mine[o] = Absent \/ theirs[o] = Absent)
BY DEF MergeById, Survives

\* The union differs from the server's copy only where this device changed something:
\* pushing it reverts nobody else's work.  A device that changed nothing takes the
\* server's blob as it is, and a server that did not move takes the device's.
THEOREM MergeKeepsTheirs ==
    ASSUME NEW base \in Workspace, NEW mine \in Workspace, NEW theirs \in Workspace
    PROVE  /\ \A o \in Obj : mine[o] = base[o] => MergeById(base, mine, theirs)[o] = theirs[o]
           /\ \A o \in Obj : theirs[o] = base[o] => MergeById(base, mine, theirs)[o] = mine[o]
           /\ mine = base => MergeById(base, mine, theirs) = theirs
           /\ theirs = base => MergeById(base, mine, theirs) = mine
<1>1. \A a, t : Survives(a, a, t) = t
  BY DEF Survives
<1>2. \A a, m : Survives(a, m, a) = m
  BY DEF Survives
<1>3. /\ \A o \in Obj : mine[o] = base[o] => MergeById(base, mine, theirs)[o] = theirs[o]
      /\ \A o \in Obj : theirs[o] = base[o] => MergeById(base, mine, theirs)[o] = mine[o]
  BY <1>1, <1>2 DEF MergeById
<1>4. /\ theirs = [o \in Obj |-> theirs[o]] /\ mine = [o \in Obj |-> mine[o]]
  BY DEF Workspace
<1> QED
  BY <1>3, <1>4 DEF MergeById

\* Two devices that merge the same pair from their two sides agree on which objects
\* there are.
THEOREM BothSidesAgree ==
    ASSUME NEW base \in Workspace, NEW mine \in Workspace, NEW theirs \in Workspace,
           NEW o \in Obj
    PROVE  MergeById(base, mine, theirs)[o] = Absent <=> MergeById(base, theirs, mine)[o] = Absent
BY DEF MergeById, Survives

\* The same of the retry: a union that is refused and merged again with what landed
\* meanwhile still changes nothing of others' work (resolveConflict's loop).
THEOREM RemergeKeepsTheirs ==
    ASSUME NEW base \in Workspace, NEW mine \in Workspace,
           NEW theirs \in Workspace, NEW landed \in Workspace,
           NEW o \in Obj,
           MergeById(theirs, MergeById(base, mine, theirs), landed)[o] # landed[o]
    PROVE  mine[o] # base[o]
BY DEF MergeById, Survives
=============================================================================
