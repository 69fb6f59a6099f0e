------------------------- MODULE WorkspaceSync_proofs -------------------------
(***************************************************************************)
(* Proofs about WorkspaceSync, and about WorkspaceSyncHistory (a delete    *)
(* wins), for any devices, objects, contents, session slices and bounds.   *)
(***************************************************************************)
EXTENDS WorkspaceSyncHistory, TLAPS

-----------------------------------------------------------------------------
(* Types *)

\* What the merges and slices of blobs return is a blob.
LEMMA WorkspaceTypes ==
    /\ EmptyWorkspace \in Workspace
    /\ \A b \in Workspace, m \in Workspace, t \in Workspace : MergeById(b, m, t) \in Workspace
    /\ \A k \in SUBSET Obj, w \in Workspace, l \in Workspace : LandedSlice(k, w, l) \in Workspace
    /\ \A w \in Workspace, o \in Obj, c \in Content : [w EXCEPT ![o] = c] \in Workspace
BY AbsentAssumption DEF EmptyWorkspace, Workspace, Content, MergeById, Survives, LandedSlice

\* The fields of an entry, and what replacing some of them gives.
LEMMA EntryFields ==
    ASSUME NEW e \in Entry
    PROVE  /\ e.workspace \in Workspace /\ e.base \in Workspace /\ e.baseRev \in Nat
           /\ e.dirty \in BOOLEAN /\ e.shape \in SUBSET Obj
BY DEF Entry

LEMMA EntryExcept ==
    ASSUME NEW e \in Entry, NEW w \in Workspace, NEW b \in Workspace, NEW r \in Nat,
           NEW x \in BOOLEAN, NEW k \in SUBSET Obj
    PROVE  /\ [e EXCEPT !.workspace = w] \in Entry
           /\ [e EXCEPT !.shape = k] \in Entry
           /\ [e EXCEPT !.workspace = w, !.dirty = x, !.shape = k] \in Entry
           /\ [e EXCEPT !.base = b, !.baseRev = r, !.dirty = x] \in Entry
           /\ [e EXCEPT !.workspace = w, !.base = b, !.baseRev = r, !.dirty = x] \in Entry
BY DEF Entry

LEMMA NarrowedEntry ==
    ASSUME NEW e \in Entry, NEW k \in SUBSET Obj
    PROVE  LET n == [e EXCEPT !.shape = k]
           IN  /\ n \in Entry /\ n.shape = k
               /\ n.workspace = e.workspace /\ n.base = e.base
               /\ n.baseRev = e.baseRev /\ n.dirty = e.dirty
BY DEF Entry

LEMMA BlankTypes == BlankEntry \in Entry /\ NoPut \in Put
BY WorkspaceTypes DEF BlankEntry, Entry, NoPut, Put, NoShape

LEMMA MergeType ==
    ASSUME TypeOK, NEW d \in Device,
           NEW b \in Workspace, NEW m \in Workspace, NEW t \in Workspace
    PROVE  Merge(d, b, m, t) \in Workspace
<1>1. MergeById(b, m, t) \in Workspace
  BY WorkspaceTypes
<1>2. slice[d] \in SUBSET Obj
  BY DEF TypeOK, EngineTypes
<1> QED
  BY <1>1, <1>2, WorkspaceTypes DEF Merge

LEMMA RebasedType ==
    ASSUME TypeOK, NEW d \in Device
    PROVE  RebasedWorkspace(d) \in Workspace
<1>1. entry[d].workspace \in Workspace /\ mine0[d] \in Workspace
  BY EntryFields DEF TypeOK, EngineTypes, FlightTypes
<1>2. CASE HalfRebased(d)
  <2>1. lastMerged[d] \in Workspace
    BY <1>2 DEF HalfRebased, TypeOK, FlightTypes
  <2> QED
    BY <1>1, <1>2, <2>1, MergeType DEF RebasedWorkspace
<1>3. CASE ~HalfRebased(d)
  BY <1>1, <1>3 DEF RebasedWorkspace
<1> QED
  BY <1>2, <1>3

LEMMA LandedType ==
    ASSUME TypeOK, NEW d \in Device
    PROVE  Landed(d) \in Workspace
<1>1. slice[d] \in SUBSET Obj /\ entry[d].base \in Workspace
  BY EntryFields DEF TypeOK, EngineTypes
<1>2. sent[d].workspace \in Workspace
  BY DEF TypeOK, FlightTypes, Put
<1> QED
  BY <1>1, <1>2, WorkspaceTypes DEF Landed

LEMMA CommitType ==
    ASSUME TypeOK, NEW blob \in Workspace, Commit(blob)
    PROVE  /\ rev' \in Nat /\ hist' \in [0..rev' -> Workspace]
           /\ 0..rev \subseteq 0..rev' /\ rev' \in 0..rev'
<1>1. rev \in Nat /\ hist \in [0..rev -> Workspace]
  BY DEF TypeOK, ServerTypes
<1>2. rev' = rev + 1
  BY DEF Commit
<1>3. \A r \in 0..(rev + 1) : r # rev + 1 => r \in 0..rev
  BY <1>1
<1>4. hist' \in [0..rev' -> Workspace]
  BY <1>1, <1>2, <1>3 DEF Commit
<1> QED
  BY <1>1, <1>2, <1>4

LEMMA FlightOverType ==
    ASSUME TypeOK, NEW d \in Device, FlightOver(d), rev' = rev
    PROVE  FlightTypes'
<1>1. 0 \in 0..rev'
  BY DEF TypeOK, ServerTypes
<1>2. ansRev' \in [Device -> 0..rev']
  BY <1>1 DEF FlightOver, TypeOK, FlightTypes
<1>3. step' \in [Device -> FlightSteps]
  BY DEF FlightOver, TypeOK, FlightTypes, FlightSteps
<1>4. sent' \in [Device -> Put] /\ mine0' \in [Device -> Workspace]
  BY BlankTypes, WorkspaceTypes DEF FlightOver, TypeOK, FlightTypes
<1>5. /\ lastMerged' \in [Device -> Workspace \cup {Null}]
      /\ seqMark' \in [Device -> Nat] /\ attempt' \in [Device -> Nat]
  BY DEF FlightOver, TypeOK, FlightTypes
<1> QED
  BY <1>2, <1>3, <1>4, <1>5 DEF FlightTypes

-----------------------------------------------------------------------------
(* TypeOK, action by action *)

LEMMA SaveType ==
    ASSUME TypeOK, NEW d \in Device, NEW o \in Obj, NEW c \in Content, Save(d, o, c)
    PROVE  TypeOK'
<1>1. view' \in [Device -> Workspace]
  BY WorkspaceTypes DEF Save, TypeOK, EngineTypes
<1>2. entry[d] \in Entry /\ view'[d] \in Workspace /\ slice[d] \in SUBSET Obj
  BY <1>1 DEF TypeOK, EngineTypes
<1>3. [entry[d] EXCEPT !.workspace = view'[d], !.dirty = TRUE, !.shape = slice[d]] \in Entry
  BY <1>2, EntryExcept
<1>4. entry' \in [Device -> Entry]
  BY <1>3 DEF Save, TypeOK, EngineTypes
<1>5. EngineTypes'
  BY <1>1, <1>4 DEF Save, TypeOK, EngineTypes
<1>6. ServerTypes' /\ SlotTypes' /\ FlightTypes' /\ PollTypes'
  BY DEF Save, TypeOK, ServerTypes, SlotTypes, FlightTypes, PollTypes,
         serverVars, slotVars, flightVars, pollVars
<1>7. HistoryTypes'
  BY DEF Save, TypeOK, HistoryTypes
<1> QED
  BY <1>5, <1>6, <1>7 DEF TypeOK

LEMMA MachineWriteType ==
    ASSUME TypeOK, NEW o \in Obj, NEW c \in Content, MachineWrite(o, c)
    PROVE  TypeOK'
<1>1. [hist[rev] EXCEPT ![o] = c] \in Workspace
  BY WorkspaceTypes DEF TypeOK, ServerTypes
<1>2. rev' \in Nat /\ hist' \in [0..rev' -> Workspace] /\ 0..rev \subseteq 0..rev'
  BY <1>1, CommitType DEF MachineWrite
<1>3. ServerTypes' /\ FlightTypes' /\ PollTypes'
  BY <1>2 DEF MachineWrite, TypeOK, ServerTypes, FlightTypes, PollTypes, flightVars, pollVars
<1>4. EngineTypes' /\ SlotTypes' /\ HistoryTypes'
  BY DEF MachineWrite, TypeOK, EngineTypes, SlotTypes, HistoryTypes, engineVars, slotVars
<1> QED
  BY <1>3, <1>4 DEF TypeOK

LEMMA OpenType ==
    ASSUME TypeOK, NEW d \in Device, NEW carries \in Sessions[d], Open(d, carries)
    PROVE  TypeOK'
<1> DEFINE found == IF cache[d] = Null THEN BlankEntry ELSE cache[d]
           cached == IF MustPark(found, carries) THEN [found EXCEPT !.shape = carries] ELSE found
<1>1. carries \in SUBSET Obj
  BY SessionsAssumption
<1>2. found \in Entry
  BY BlankTypes DEF TypeOK, SlotTypes
<1>3. /\ entry' = [entry EXCEPT ![d] = cached]
      /\ parked' = IF MustPark(found, carries)
                   THEN [parked EXCEPT ![d] = @ \cup {found.workspace}] ELSE parked
      /\ cache' = IF MustPark(found, carries) THEN [cache EXCEPT ![d] = cached] ELSE cache
  BY DEF Open
<1> HIDE DEF found
<1>4. cached \in Entry /\ found.workspace \in Workspace
  BY <1>1, <1>2, EntryExcept, EntryFields
<1> HIDE DEF cached
<1>5. SlotTypes'
  BY <1>3, <1>4 DEF TypeOK, SlotTypes
<1>6. EngineTypes'
  BY <1>1, <1>3, <1>4 DEF Open, TypeOK, EngineTypes
<1>7. FlightTypes'
  BY DEF Open, TypeOK, FlightTypes, FlightSteps, serverVars
<1>8. ServerTypes' /\ PollTypes' /\ HistoryTypes'
  BY DEF Open, TypeOK, ServerTypes, PollTypes, HistoryTypes,
         serverVars, pollVars, budgets, historyVars
<1> QED
  BY <1>5, <1>6, <1>7, <1>8 DEF TypeOK

LEMMA OpenAnsweredType ==
    ASSUME TypeOK, NEW d \in Device, OpenAnswered(d)
    PROVE  TypeOK'
<1> DEFINE cached == entry[d]
           server == hist[ansRev[d]]
           merged == Merge(d, cached.base, cached.workspace, server)
           opened == IF cached.dirty /\ cached.baseRev = ansRev[d] THEN cached
                     ELSE IF cached.dirty
                     THEN [workspace |-> merged, base |-> server,
                           baseRev |-> ansRev[d], dirty |-> TRUE, shape |-> slice[d]]
                     ELSE [workspace |-> server, base |-> server,
                           baseRev |-> ansRev[d], dirty |-> FALSE, shape |-> NoShape]
<1>1. /\ cached \in Entry /\ slice[d] \in SUBSET Obj
      /\ server \in Workspace /\ ansRev[d] \in Nat
  BY DEF TypeOK, ServerTypes, EngineTypes, FlightTypes
<1>2. merged \in Workspace
  BY <1>1, EntryFields, MergeType
<1>3. opened \in Entry
  BY <1>1, <1>2 DEF Entry, NoShape
<1>5. /\ entry' = [entry EXCEPT ![d] = opened]
      /\ view' = [view EXCEPT ![d] = opened.workspace]
      /\ unarmed' = [unarmed EXCEPT ![d] = cached.dirty]
      /\ page' = [page EXCEPT ![d] = "open"]
      /\ slice' = slice /\ saveSeq' = saveSeq
  BY DEF OpenAnswered
<1> HIDE DEF opened
<1>4. opened.workspace \in Workspace /\ cached.dirty \in BOOLEAN
  BY <1>1, <1>3, EntryFields
<1>6. EngineTypes'
  BY <1>3, <1>4, <1>5 DEF TypeOK, EngineTypes
<1>7. FlightTypes'
  BY FlightOverType DEF OpenAnswered, serverVars
<1>8. ServerTypes' /\ SlotTypes' /\ PollTypes' /\ HistoryTypes'
  BY DEF OpenAnswered, TypeOK, ServerTypes, SlotTypes, PollTypes, HistoryTypes,
         serverVars, slotVars, pollVars, budgets, historyVars
<1> QED
  BY <1>6, <1>7, <1>8 DEF TypeOK

LEMMA OpenUnansweredType ==
    ASSUME TypeOK, NEW d \in Device, OpenUnanswered(d)
    PROVE  TypeOK'
<1>1. entry[d].workspace \in Workspace
  BY EntryFields DEF TypeOK, EngineTypes
<1>2. EngineTypes'
  BY <1>1 DEF OpenUnanswered, TypeOK, EngineTypes, NoShape
<1>3. FlightTypes'
  BY FlightOverType DEF OpenUnanswered, serverVars
<1>4. ServerTypes' /\ SlotTypes' /\ PollTypes' /\ HistoryTypes'
  BY DEF OpenUnanswered, TypeOK, ServerTypes, SlotTypes, PollTypes, HistoryTypes,
         serverVars, slotVars, pollVars, historyVars
<1> QED
  BY <1>2, <1>3, <1>4 DEF TypeOK

LEMMA PutOfType ==
    ASSUME TypeOK, NEW d \in Device, NEW w \in Workspace, NEW r \in Nat
    PROVE  PutOf(d, w, r) \in Put
BY DEF TypeOK, EngineTypes, PutOf, Put

LEMMA FlushType ==
    ASSUME TypeOK, NEW d \in Device, Flush(d)
    PROVE  TypeOK'
<1>1. entry[d] \in Entry
  BY DEF TypeOK, EngineTypes
<1>2. PutOf(d, entry[d].workspace, entry[d].baseRev) \in Put
  BY <1>1, EntryFields, PutOfType
<1>3. FlightTypes'
  BY <1>2 DEF Flush, TypeOK, EngineTypes, FlightTypes, FlightSteps, serverVars
<1>4. SlotTypes'
  BY <1>1 DEF Flush, TypeOK, SlotTypes
<1>5. ServerTypes' /\ EngineTypes' /\ PollTypes' /\ HistoryTypes'
  BY DEF Flush, TypeOK, ServerTypes, EngineTypes, PollTypes, HistoryTypes,
         serverVars, engineVars, pollVars, budgets, historyVars
<1> QED
  BY <1>3, <1>4, <1>5 DEF TypeOK

LEMMA NudgeType ==
    ASSUME TypeOK, NEW d \in Device, Nudge(d)
    PROVE  TypeOK'
<1>1. EngineTypes'
  BY DEF Nudge, TypeOK, EngineTypes, engineVars
<1>2. ServerTypes' /\ SlotTypes' /\ FlightTypes' /\ PollTypes' /\ HistoryTypes'
  BY DEF Nudge, TypeOK, ServerTypes, SlotTypes, FlightTypes, PollTypes, HistoryTypes,
         serverVars, slotVars, flightVars, pollVars, budgets, historyVars
<1> QED
  BY <1>1, <1>2 DEF TypeOK

LEMMA PushAcceptedType ==
    ASSUME TypeOK, NEW d \in Device, PushAccepted(d)
    PROVE  TypeOK'
<1>1. /\ entry[d] \in Entry /\ ansRev[d] \in Nat
      /\ StillDirty(d) \in BOOLEAN /\ Landed(d) \in Workspace
  BY LandedType DEF TypeOK, ServerTypes, EngineTypes, FlightTypes, StillDirty
<1>2. [entry[d] EXCEPT !.base = Landed(d), !.baseRev = ansRev[d], !.dirty = StillDirty(d)]
        \in Entry
  BY <1>1, EntryExcept
<1>3. EngineTypes'
  BY <1>2 DEF PushAccepted, TypeOK, EngineTypes
<1>4. FlightTypes'
  BY FlightOverType DEF PushAccepted, serverVars
<1>5. ServerTypes' /\ SlotTypes' /\ PollTypes' /\ HistoryTypes'
  BY DEF PushAccepted, TypeOK, ServerTypes, SlotTypes, PollTypes, HistoryTypes,
         serverVars, slotVars, pollVars, budgets, historyVars
<1> QED
  BY <1>3, <1>4, <1>5 DEF TypeOK

LEMMA PushConflictType ==
    ASSUME TypeOK, NEW d \in Device, PushConflict(d)
    PROVE  TypeOK'
<1>1. entry[d].workspace \in Workspace
  BY EntryFields DEF TypeOK, EngineTypes
<1>2. FlightTypes'
  BY <1>1 DEF PushConflict, TypeOK, FlightTypes, FlightSteps, serverVars
<1>3. ServerTypes' /\ EngineTypes' /\ SlotTypes' /\ PollTypes' /\ HistoryTypes'
  BY DEF PushConflict, TypeOK, ServerTypes, EngineTypes, SlotTypes, PollTypes, HistoryTypes,
         serverVars, engineVars, slotVars, pollVars, budgets, historyVars
<1> QED
  BY <1>2, <1>3 DEF TypeOK

LEMMA MergeAndPushType ==
    ASSUME TypeOK, NEW d \in Device, MergeAndPush(d)
    PROVE  TypeOK'
<1> DEFINE server == hist[ansRev[d]]
           merged == Merge(d, entry[d].base, RebasedWorkspace(d), server)
<1>1. /\ entry[d] \in Entry /\ server \in Workspace
      /\ ansRev[d] \in Nat /\ saveSeq[d] \in Nat
  BY DEF TypeOK, ServerTypes, EngineTypes, FlightTypes
<1>2. merged \in Workspace
  BY <1>1, EntryFields, RebasedType, MergeType
<1>3. /\ entry' = [entry EXCEPT ![d] = [entry[d] EXCEPT !.workspace = merged, !.base = server,
                                             !.baseRev = ansRev[d], !.dirty = TRUE]]
      /\ lastMerged' = [lastMerged EXCEPT ![d] = merged]
      /\ seqMark' = [seqMark EXCEPT ![d] = saveSeq[d]]
      /\ sent' = [sent EXCEPT ![d] = PutOf(d, merged, ansRev[d])]
      /\ step' = [step EXCEPT ![d] = "mergePut"]
  BY DEF MergeAndPush, TypeOK, EngineTypes
<1>4. PutOf(d, merged, ansRev[d]) \in Put
  BY <1>1, <1>2, PutOfType
<1>5. [entry[d] EXCEPT !.workspace = merged, !.base = server,
                       !.baseRev = ansRev[d], !.dirty = TRUE] \in Entry
  BY <1>1, <1>2, EntryExcept
<1> HIDE DEF merged, server
<1>6. EngineTypes'
  BY <1>3, <1>5 DEF MergeAndPush, TypeOK, EngineTypes
<1>7. FlightTypes'
  BY <1>1, <1>2, <1>3, <1>4 DEF MergeAndPush, TypeOK, FlightTypes, FlightSteps, serverVars
<1>8. ServerTypes' /\ SlotTypes' /\ PollTypes' /\ HistoryTypes'
  BY DEF MergeAndPush, TypeOK, ServerTypes, SlotTypes, PollTypes, HistoryTypes,
         serverVars, slotVars, pollVars, budgets, historyVars
<1> QED
  BY <1>6, <1>7, <1>8 DEF TypeOK

LEMMA MergeAcceptedType ==
    ASSUME TypeOK, NEW d \in Device, MergeAccepted(d)
    PROVE  TypeOK'
<1>1. /\ entry[d] \in Entry /\ ansRev[d] \in Nat /\ StillDirty(d) \in BOOLEAN
      /\ Landed(d) \in Workspace /\ RebasedWorkspace(d) \in Workspace
  BY LandedType, RebasedType DEF TypeOK, ServerTypes, EngineTypes, FlightTypes, StillDirty
<1>2. [entry[d] EXCEPT !.workspace = RebasedWorkspace(d), !.base = Landed(d),
                       !.baseRev = ansRev[d], !.dirty = StillDirty(d)] \in Entry
  BY <1>1, EntryExcept
<1>3. EngineTypes'
  BY <1>1, <1>2 DEF MergeAccepted, TypeOK, EngineTypes
<1>4. FlightTypes'
  BY FlightOverType DEF MergeAccepted, serverVars
<1>5. ServerTypes' /\ SlotTypes' /\ PollTypes' /\ HistoryTypes'
  BY DEF MergeAccepted, TypeOK, ServerTypes, SlotTypes, PollTypes, HistoryTypes,
         serverVars, slotVars, pollVars, budgets, historyVars
<1> QED
  BY <1>3, <1>4, <1>5 DEF TypeOK

LEMMA PreserveType ==
    ASSUME TypeOK, NEW d \in Device, PreservePendingMerge(d)
    PROVE  entry' \in [Device -> Entry] /\ view' \in [Device -> Workspace]
<1>1. entry[d] \in Entry /\ RebasedWorkspace(d) \in Workspace
  BY RebasedType DEF TypeOK, EngineTypes
<1>2. [entry[d] EXCEPT !.workspace = RebasedWorkspace(d)] \in Entry
  BY <1>1, EntryExcept
<1>3. CASE lastMerged[d] = Null
  BY <1>3 DEF PreservePendingMerge, TypeOK, EngineTypes
<1>4. CASE lastMerged[d] # Null
  <2>1. /\ entry' = [entry EXCEPT ![d] = [entry[d] EXCEPT !.workspace = RebasedWorkspace(d)]]
        /\ view' = [view EXCEPT ![d] = RebasedWorkspace(d)]
    BY <1>4 DEF PreservePendingMerge, TypeOK, EngineTypes
  <2> QED
    BY <1>1, <1>2, <2>1 DEF TypeOK, EngineTypes
<1> QED
  BY <1>3, <1>4

LEMMA MergeConflictType ==
    ASSUME TypeOK, NEW d \in Device, MergeConflict(d)
    PROVE  TypeOK'
<1>1. CASE attempt[d] + 1 < ConflictAttempts
  <2>1. EngineTypes' /\ FlightTypes'
    BY <1>1 DEF MergeConflict, TypeOK, EngineTypes, FlightTypes, FlightSteps, serverVars
  <2>2. ServerTypes' /\ SlotTypes' /\ PollTypes' /\ HistoryTypes'
    BY DEF MergeConflict, TypeOK, ServerTypes, SlotTypes, PollTypes, HistoryTypes,
           serverVars, slotVars, pollVars, budgets, historyVars
  <2> QED
    BY <2>1, <2>2 DEF TypeOK
<1>2. CASE ~(attempt[d] + 1 < ConflictAttempts)
  <2>1. PreservePendingMerge(d) /\ FlightOver(d)
    BY <1>2 DEF MergeConflict
  <2>2. EngineTypes'
    BY <2>1, PreserveType DEF MergeConflict, TypeOK, EngineTypes
  <2>3. FlightTypes'
    BY <2>1, FlightOverType DEF MergeConflict, serverVars
  <2>4. ServerTypes' /\ SlotTypes' /\ PollTypes' /\ HistoryTypes'
    BY DEF MergeConflict, TypeOK, ServerTypes, SlotTypes, PollTypes, HistoryTypes,
           serverVars, slotVars, pollVars, budgets, historyVars
  <2> QED
    BY <2>2, <2>3, <2>4 DEF TypeOK
<1> QED
  BY <1>1, <1>2

LEMMA LinkFailsType ==
    ASSUME TypeOK, NEW d \in Device, LinkFails(d)
    PROVE  TypeOK'
<1>1. PreservePendingMerge(d) /\ FlightOver(d)
  BY DEF LinkFails
<1>2. EngineTypes'
  BY <1>1, PreserveType DEF LinkFails, TypeOK, EngineTypes
<1>3. FlightTypes'
  BY <1>1, FlightOverType DEF LinkFails, serverVars
<1>4. sent[d] \in Put
  BY DEF TypeOK, FlightTypes
<1>5. ServerTypes'
  BY <1>4 DEF LinkFails, TypeOK, ServerTypes, serverVars
<1>6. SlotTypes' /\ PollTypes' /\ HistoryTypes'
  BY DEF LinkFails, TypeOK, ServerTypes, SlotTypes, PollTypes, HistoryTypes,
         serverVars, slotVars, pollVars, historyVars
<1> QED
  BY <1>2, <1>3, <1>5, <1>6 DEF TypeOK

LEMMA StoredType ==
    ASSUME TypeOK, NEW p \in Put
    PROVE  Stored(p) \in Workspace
<1>1. p.keys \in SUBSET Obj /\ p.workspace \in Workspace
  BY DEF Put
<1>2. hist[rev] \in Workspace
  BY DEF TypeOK, ServerTypes
<1> QED
  BY <1>1, <1>2, WorkspaceTypes DEF Stored

LEMMA ServerPutType ==
    ASSUME TypeOK, NEW d \in Device, ServerPut(d)
    PROVE  TypeOK'
<1>1. CASE sent[d].baseRev = rev
  <2>1. Stored(sent[d]) \in Workspace
    BY StoredType DEF TypeOK, FlightTypes
  <2>2. /\ rev' \in Nat /\ hist' \in [0..rev' -> Workspace]
        /\ 0..rev \subseteq 0..rev' /\ rev' \in 0..rev' /\ rev' = rev + 1
    BY <1>1, <2>1, CommitType DEF ServerPut, Commit
  <2>3. ServerTypes' /\ PollTypes'
    BY <2>2 DEF ServerPut, TypeOK, ServerTypes, PollTypes, pollVars
  <2>4. ansRev' = [ansRev EXCEPT ![d] = rev'] /\ step' \in [Device -> FlightSteps]
    BY <1>1, <2>2 DEF ServerPut, TypeOK, FlightTypes, FlightSteps
  <2>5. FlightTypes'
    BY <2>2, <2>4 DEF ServerPut, TypeOK, FlightTypes
  <2> QED
    BY <2>3, <2>5 DEF ServerPut, TypeOK, EngineTypes, SlotTypes, HistoryTypes,
                      engineVars, slotVars, budgets, historyVars
<1>2. CASE sent[d].baseRev # rev
  <2>1. ServerTypes' /\ PollTypes' /\ FlightTypes'
    BY <1>2 DEF ServerPut, TypeOK, ServerTypes, PollTypes, FlightTypes, FlightSteps,
                serverVars, pollVars
  <2> QED
    BY <2>1 DEF ServerPut, TypeOK, EngineTypes, SlotTypes, HistoryTypes,
                engineVars, slotVars, budgets, historyVars
<1> QED
  BY <1>1, <1>2

LEMMA ServerStrayType ==
    ASSUME TypeOK, NEW p \in strays, ServerStray(p)
    PROVE  TypeOK'
<1>1. Stored(p) \in Workspace
  BY StoredType DEF TypeOK, ServerTypes
<1>2. rev' \in Nat /\ hist' \in [0..rev' -> Workspace] /\ 0..rev \subseteq 0..rev'
  BY <1>1, CommitType DEF ServerStray, serverVars, TypeOK, ServerTypes
<1>3. ServerTypes' /\ PollTypes' /\ FlightTypes'
  BY <1>2 DEF ServerStray, TypeOK, ServerTypes, PollTypes, FlightTypes, pollVars, flightVars
<1> QED
  BY <1>3 DEF ServerStray, TypeOK, EngineTypes, SlotTypes, HistoryTypes,
              engineVars, slotVars, budgets, historyVars

LEMMA ServerGetType ==
    ASSUME TypeOK, NEW d \in Device, ServerGet(d)
    PROVE  TypeOK'
<1>1. rev \in 0..rev
  BY DEF TypeOK, ServerTypes
<1>2. FlightTypes'
  BY <1>1 DEF ServerGet, TypeOK, FlightTypes, FlightSteps, serverVars
<1> QED
  BY <1>2 DEF ServerGet, TypeOK, ServerTypes, EngineTypes, SlotTypes, PollTypes, HistoryTypes,
              serverVars, engineVars, slotVars, pollVars, budgets, historyVars

LEMMA PollAskType ==
    ASSUME TypeOK, NEW d \in Device, PollAsk(d), HeldAncestor(entry[d])
    PROVE  TypeOK'
<1>1. PollTypes'
  BY DEF PollAsk, TypeOK, PollTypes, HeldAncestor, serverVars
<1> QED
  BY <1>1 DEF PollAsk, TypeOK, ServerTypes, EngineTypes, SlotTypes, FlightTypes, HistoryTypes,
              serverVars, engineVars, slotVars, flightVars, budgets, historyVars

LEMMA PollServedType ==
    ASSUME TypeOK, NEW d \in Device, PollServed(d)
    PROVE  TypeOK'
<1>1. rev \in 0..rev
  BY DEF TypeOK, ServerTypes
<1>2. PollTypes'
  BY <1>1 DEF PollServed, TypeOK, PollTypes, serverVars
<1> QED
  BY <1>2 DEF PollServed, TypeOK, ServerTypes, EngineTypes, SlotTypes, FlightTypes, HistoryTypes,
              serverVars, engineVars, slotVars, flightVars, budgets, historyVars

LEMMA PollAnsweredType ==
    ASSUME TypeOK, NEW d \in Device, PollAnswered(d)
    PROVE  TypeOK'
<1>1. hist[pollRev[d]] \in Workspace /\ pollRev[d] \in Nat /\ 0 \in 0..rev
  BY DEF TypeOK, ServerTypes, PollTypes
<1>2. [workspace |-> hist[pollRev[d]], base |-> hist[pollRev[d]], baseRev |-> pollRev[d],
       dirty |-> FALSE, shape |-> NoShape] \in Entry
  BY <1>1 DEF Entry, NoShape
<1>3. entry' \in [Device -> Entry] /\ view' \in [Device -> Workspace]
  BY <1>1, <1>2 DEF PollAnswered, TypeOK, EngineTypes
<1>4. PollTypes'
  BY <1>1 DEF PollAnswered, TypeOK, PollTypes, serverVars
<1>5. EngineTypes'
  BY <1>3 DEF PollAnswered, TypeOK, EngineTypes
<1> QED
  BY <1>4, <1>5 DEF PollAnswered, TypeOK, ServerTypes, SlotTypes, FlightTypes, HistoryTypes,
                    serverVars, slotVars, flightVars, budgets, historyVars

LEMMA CacheTimerType ==
    ASSUME TypeOK, NEW d \in Device, CacheTimer(d)
    PROVE  TypeOK'
<1>1. SlotTypes'
  BY DEF CacheTimer, TypeOK, EngineTypes, SlotTypes
<1>2. HalfRebased(d) \in BOOLEAN
  BY DEF HalfRebased
<1>3. HistoryTypes'
  BY <1>2 DEF CacheTimer, TypeOK, HistoryTypes, budgets
<1> QED
  BY <1>1, <1>3 DEF CacheTimer, TypeOK, ServerTypes, EngineTypes, FlightTypes, PollTypes,
                    serverVars, engineVars, flightVars, pollVars

LEMMA HideType ==
    ASSUME TypeOK, NEW d \in Device, Hide(d)
    PROVE  TypeOK'
<1>1. PutOf(d, entry[d].workspace, entry[d].baseRev) \in Put
  BY EntryFields, PutOfType DEF TypeOK, EngineTypes
<1>2. ServerTypes'
  BY <1>1 DEF Hide, TypeOK, ServerTypes, serverVars
<1>3. SlotTypes'
  BY DEF Hide, TypeOK, EngineTypes, SlotTypes
<1>4. HalfRebased(d) \in BOOLEAN
  BY DEF HalfRebased
<1>5. HistoryTypes'
  BY <1>4 DEF Hide, TypeOK, HistoryTypes
<1> QED
  BY <1>2, <1>3, <1>5 DEF Hide, TypeOK, EngineTypes, FlightTypes, PollTypes,
                          serverVars, engineVars, flightVars, pollVars

LEMMA PageGoneType ==
    ASSUME TypeOK, NEW d \in Device, PageGone(d), serverVars' = serverVars
    PROVE  ServerTypes' /\ EngineTypes' /\ FlightTypes' /\ PollTypes'
<1>1. sent[d] \in Put /\ 0 \in 0..rev
  BY DEF TypeOK, ServerTypes, FlightTypes
<1>2. ServerTypes'
  BY <1>1 DEF PageGone, TypeOK, ServerTypes, serverVars
<1>3. EngineTypes'
  BY BlankTypes, WorkspaceTypes DEF PageGone, TypeOK, EngineTypes, NoShape
<1>4. FlightTypes'
  BY FlightOverType DEF PageGone, serverVars
<1>5. PollTypes'
  BY <1>1 DEF PageGone, TypeOK, PollTypes, serverVars
<1> QED
  BY <1>2, <1>3, <1>4, <1>5

LEMMA CloseType ==
    ASSUME TypeOK, NEW d \in Device, Close(d)
    PROVE  TypeOK'
<1>1. ServerTypes' /\ EngineTypes' /\ FlightTypes' /\ PollTypes'
  BY PageGoneType DEF Close
<1>2. SlotTypes'
  BY DEF Close, TypeOK, EngineTypes, SlotTypes
<1>3. HalfRebased(d) \in BOOLEAN
  BY DEF HalfRebased
<1>4. HistoryTypes'
  BY <1>3 DEF Close, TypeOK, HistoryTypes
<1> QED
  BY <1>1, <1>2, <1>4 DEF TypeOK

LEMMA CrashType ==
    ASSUME TypeOK, NEW d \in Device, Crash(d)
    PROVE  TypeOK'
<1>1. ServerTypes' /\ EngineTypes' /\ FlightTypes' /\ PollTypes'
  BY PageGoneType DEF Crash
<1>2. SlotTypes' /\ HistoryTypes'
  BY DEF Crash, TypeOK, SlotTypes, HistoryTypes, slotVars, historyVars
<1> QED
  BY <1>1, <1>2 DEF TypeOK

-----------------------------------------------------------------------------
(* The inductive invariant *)

\* The server's history only grows.
Grows ==
    /\ rev \in Nat /\ rev' \in Nat /\ rev <= rev'
    /\ \A r \in 0..rev : hist'[r] = hist[r]

\* Nothing of device e's that DevInv reads changed.
Frame(e) ==
    /\ page'[e] = page[e] /\ slice'[e] = slice[e] /\ entry'[e] = entry[e]
    /\ view'[e] = view[e] /\ saveSeq'[e] = saveSeq[e] /\ cache'[e] = cache[e]
    /\ step'[e] = step[e] /\ sent'[e] = sent[e] /\ seqMark'[e] = seqMark[e]
    /\ lastMerged'[e] = lastMerged[e] /\ ansRev'[e] = ansRev[e]

LEMMA UnchangedGrows ==
    ASSUME TypeOK, UNCHANGED serverVars
    PROVE  Grows
BY DEF TypeOK, ServerTypes, serverVars, Grows

LEMMA CommitGrows ==
    ASSUME TypeOK, NEW blob \in Workspace, Commit(blob)
    PROVE  /\ Grows
           /\ rev' = rev + 1 /\ hist'[rev'] = blob
<1>1. rev \in Nat
  BY DEF TypeOK, ServerTypes
<1>2. rev' = rev + 1 /\ hist' = [r \in 0..(rev + 1) |-> IF r = rev + 1 THEN blob ELSE hist[r]]
  BY DEF Commit
<1>3. \A r \in 0..rev : r \in 0..(rev + 1) /\ r # rev + 1
  BY <1>1
<1>4. rev + 1 \in 0..(rev + 1)
  BY <1>1
<1> QED
  BY <1>1, <1>2, <1>3, <1>4 DEF Grows

LEMMA HistoryStartsGrows ==
    ASSUME Grows, HistoryStarts
    PROVE  HistoryStarts'
BY DEF Grows, HistoryStarts

LEMMA AncestorGrows ==
    ASSUME Grows, NEW e, HeldAncestor(e)
    PROVE  HeldAncestor(e)'
BY DEF Grows, HeldAncestor

LEMMA FrameKeeps ==
    ASSUME TypeOK, Grows, NEW e \in Device, DevInv(e), Frame(e)
    PROVE  DevInv(e)'
<1>1. EntriesInv(e)'
  BY AncestorGrows DEF DevInv, EntriesInv, Frame, HeldAncestor, Backed, Owes, Grows
<1>2. PageInv(e)'
  BY DEF DevInv, PageInv, Frame
<1>3. Landed(e)' = Landed(e) /\ StillDirty(e)' = StillDirty(e)
  BY DEF Landed, StillDirty, Frame
<1>4. hist'[ansRev'[e]] = hist[ansRev[e]]
  BY DEF TypeOK, FlightTypes, Grows, Frame
<1>5. FlightInv(e)'
  BY <1>3, <1>4 DEF DevInv, FlightInv, Frame
<1>6. ViewInv(e)'
  BY DEF DevInv, ViewInv, Frame
<1> QED
  BY <1>1, <1>2, <1>5, <1>6 DEF DevInv

\* The fields of an entry some of whose fields were replaced.
LEMMA EntryExceptFields ==
    ASSUME NEW e \in Entry, NEW w, NEW b, NEW r, NEW x, NEW k
    PROVE  /\ LET n == [e EXCEPT !.workspace = w]
              IN  /\ n.workspace = w /\ n.base = e.base /\ n.baseRev = e.baseRev
                  /\ n.dirty = e.dirty /\ n.shape = e.shape
           /\ LET n == [e EXCEPT !.shape = k]
              IN  /\ n.workspace = e.workspace /\ n.base = e.base /\ n.baseRev = e.baseRev
                  /\ n.dirty = e.dirty /\ n.shape = k
           /\ LET n == [e EXCEPT !.workspace = w, !.dirty = x, !.shape = k]
              IN  /\ n.workspace = w /\ n.base = e.base /\ n.baseRev = e.baseRev
                  /\ n.dirty = x /\ n.shape = k
           /\ LET n == [e EXCEPT !.base = b, !.baseRev = r, !.dirty = x]
              IN  /\ n.workspace = e.workspace /\ n.base = b /\ n.baseRev = r
                  /\ n.dirty = x /\ n.shape = e.shape
           /\ LET n == [e EXCEPT !.workspace = w, !.base = b, !.baseRev = r, !.dirty = x]
              IN  /\ n.workspace = w /\ n.base = b /\ n.baseRev = r
                  /\ n.dirty = x /\ n.shape = e.shape
BY DEF Entry

LEMMA SaveInv ==
    ASSUME IInv, NEW d \in Device, NEW o \in Obj, NEW c \in Content, Save(d, o, c)
    PROVE  IInv'
<1> USE DEF IInv
<1>1. TypeOK'
  BY SaveType
<1>2. Grows
  BY UnchangedGrows DEF Save
<1>3. ASSUME NEW e \in Device, e # d
      PROVE  DevInv(e)'
  <2>1. Frame(e)
    BY <1>3 DEF Save, Frame, TypeOK, EngineTypes, SlotTypes, FlightTypes, slotVars, flightVars
  <2> QED
    BY <2>1, <1>2, FrameKeeps
<1>4. DevInv(d)'
  <2>1. /\ entry[d] \in Entry /\ saveSeq[d] \in Nat /\ seqMark[d] \in Nat
        /\ entry'[d] = [entry[d] EXCEPT !.workspace = view'[d], !.dirty = TRUE, !.shape = slice[d]]
    BY DEF Save, TypeOK, EngineTypes, FlightTypes
  <2>2. /\ entry'[d].workspace = view'[d] /\ entry'[d].base = entry[d].base
        /\ entry'[d].baseRev = entry[d].baseRev /\ entry'[d].dirty = TRUE
        /\ entry'[d].shape = slice[d]
    BY <2>1, EntryExceptFields
  <2>3. /\ page[d] = "open" /\ page' = page /\ slice' = slice /\ cache' = cache
        /\ saveSeq'[d] = saveSeq[d] + 1 /\ UNCHANGED <<hist, rev>>
        /\ step' = step /\ sent' = sent /\ seqMark' = seqMark
        /\ lastMerged' = lastMerged /\ ansRev' = ansRev
    BY DEF Save, TypeOK, EngineTypes, serverVars, slotVars, flightVars
  <2>4. EntriesInv(d)'
    BY <2>2, <2>3 DEF DevInv, EntriesInv, PageInv, HeldAncestor, Backed, Owes
  <2>5. PageInv(d)'
    BY <2>2, <2>3 DEF DevInv, PageInv
  <2>6. FlightInv(d)'
    BY <2>1, <2>2, <2>3 DEF DevInv, FlightInv, Landed, StillDirty
  <2>7. ViewInv(d)'
    BY <2>2, <2>3 DEF DevInv, ViewInv
  <2> QED
    BY <2>4, <2>5, <2>6, <2>7 DEF DevInv
<1> QED
  BY <1>1, <1>2, <1>3, <1>4, HistoryStartsGrows

LEMMA MachineWriteInv ==
    ASSUME IInv, NEW o \in Obj, NEW c \in Content, MachineWrite(o, c)
    PROVE  IInv'
<1> USE DEF IInv
<1>1. TypeOK'
  BY MachineWriteType
<1>2. [hist[rev] EXCEPT ![o] = c] \in Workspace
  BY WorkspaceTypes DEF TypeOK, ServerTypes
<1>3. Grows
  BY <1>2, CommitGrows DEF MachineWrite
<1>4. ASSUME NEW e \in Device
      PROVE  DevInv(e)'
  <2>1. Frame(e)
    BY DEF MachineWrite, Frame, engineVars, slotVars, flightVars
  <2> QED
    BY <2>1, <1>3, FrameKeeps
<1> QED
  BY <1>1, <1>3, <1>4, HistoryStartsGrows

\* A flush (or init) that is over leaves the other devices' flights alone...
LEMMA FlightOverFrame ==
    ASSUME TypeOK, NEW d \in Device, FlightOver(d), NEW e \in Device, e # d
    PROVE  /\ step'[e] = step[e] /\ sent'[e] = sent[e] /\ seqMark'[e] = seqMark[e]
           /\ lastMerged'[e] = lastMerged[e] /\ ansRev'[e] = ansRev[e]
BY DEF FlightOver, TypeOK, FlightTypes

\* ...and at its own device only the entries and the view remain to be looked at.
LEMMA FlightOverInv ==
    ASSUME TypeOK, TypeOK', NEW d \in Device, FlightOver(d), EntriesInv(d)',
           page'[d] # "closed" => /\ slice'[d] # NoShape
                                  /\ entry'[d].dirty => entry'[d].shape \subseteq slice'[d],
           page'[d] = "open" => view'[d] = entry'[d].workspace
    PROVE  DevInv(d)'
<1>1. step'[d] = "idle" /\ seqMark'[d] = 0 /\ lastMerged'[d] = Null
  BY DEF FlightOver, TypeOK, FlightTypes
<1>2. PageInv(d)'
  BY <1>1 DEF PageInv, Busy, Resolving
<1>3. FlightInv(d)'
  BY <1>1 DEF FlightInv, Sending, TypeOK, EngineTypes
<1>4. ViewInv(d)'
  BY <1>1 DEF ViewInv
<1> QED
  BY <1>2, <1>3, <1>4 DEF DevInv

\* A page that has read nothing yet holds the empty blob of revision 0.
LEMMA BlankHeld ==
    ASSUME TypeOK, HistoryStarts
    PROVE  HeldAncestor(BlankEntry) /\ Backed(BlankEntry)
BY DEF TypeOK, ServerTypes, HistoryStarts, HeldAncestor, Backed, Owes, BlankEntry, EmptyWorkspace

LEMMA OpenInv ==
    ASSUME IInv, NEW d \in Device, NEW carries \in Sessions[d], Open(d, carries)
    PROVE  IInv'
<1> USE DEF IInv
<1>1. TypeOK'
  BY OpenType
<1>2. Grows
  BY UnchangedGrows DEF Open
<1>3. ASSUME NEW e \in Device, e # d
      PROVE  DevInv(e)'
  <2>1. /\ page'[e] = page[e] /\ step'[e] = step[e] /\ slice'[e] = slice[e]
        /\ entry'[e] = entry[e] /\ cache'[e] = cache[e]
    BY <1>3 DEF Open, TypeOK, EngineTypes, SlotTypes, FlightTypes
  <2>2. Frame(e)
    BY <2>1 DEF Open, Frame
  <2> QED
    BY <2>2, <1>2, FrameKeeps
<1>4. DevInv(d)'
  <2> DEFINE found == IF cache[d] = Null THEN BlankEntry ELSE cache[d]
             parks == MustPark(found, carries)
             cached == IF parks THEN [found EXCEPT !.shape = carries] ELSE found
  <2>1. /\ page[d] = "closed" /\ page'[d] = "opening" /\ step'[d] = "opening"
        /\ slice'[d] = carries /\ entry'[d] = cached /\ UNCHANGED <<hist, rev>>
        /\ cache'[d] = IF parks THEN cached ELSE cache[d]
        /\ seqMark' = seqMark /\ saveSeq' = saveSeq /\ lastMerged' = lastMerged
    BY DEF Open, TypeOK, EngineTypes, SlotTypes, FlightTypes, serverVars
  <2>2. carries \in SUBSET Obj /\ carries # NoShape
    BY SessionsAssumption DEF NoShape
  <2>3. found \in Entry /\ Null \notin Entry
    BY BlankTypes, NullAssumption DEF TypeOK, SlotTypes, Entry
  <2>4. HeldAncestor(found) /\ Backed(found)
    <3>1. CASE cache[d] = Null
      BY <3>1, BlankHeld
    <3>2. CASE cache[d] # Null
      BY <3>2 DEF DevInv, EntriesInv
    <3> QED
      BY <3>1, <3>2
  <2> HIDE DEF found
  <2>5. /\ cached \in Entry /\ cached.base = found.base /\ cached.baseRev = found.baseRev
        /\ cached.dirty = found.dirty /\ cached.workspace = found.workspace
        /\ cached.shape = IF parks THEN carries ELSE found.shape
    <3> DEFINE narrowed == [found EXCEPT !.shape = carries]
    <3>1. /\ narrowed \in Entry /\ narrowed.shape = carries
          /\ narrowed.workspace = found.workspace /\ narrowed.base = found.base
          /\ narrowed.baseRev = found.baseRev /\ narrowed.dirty = found.dirty
      BY <2>2, <2>3, NarrowedEntry
    <3>2. cached = IF parks THEN narrowed ELSE found
      OBVIOUS
    <3> HIDE DEF narrowed, cached, parks
    <3> QED
      BY <2>3, <3>1, <3>2
  <2>6. /\ cached.dirty => cached.shape \subseteq carries
        /\ parks => found.dirty
    BY <2>2, <2>3, <2>4, <2>5, EntryFields DEF MustPark, Backed
  <2> HIDE DEF parks, cached
  <2>7. HeldAncestor(cached) /\ Backed(cached)
    BY <2>2, <2>4, <2>5, <2>6 DEF HeldAncestor, Backed, Owes
  <2>9. EntriesInv(d)'
    BY <2>1, <2>7 DEF EntriesInv, DevInv, HeldAncestor, Backed, Owes
  <2>10. PageInv(d)'
    BY <2>1, <2>2, <2>6 DEF PageInv, Busy, Resolving
  <2>11. FlightInv(d)'
    BY <2>1 DEF DevInv, FlightInv, Sending
  <2>12. ViewInv(d)'
    BY <2>1 DEF DevInv, PageInv, ViewInv, Busy, Resolving
  <2> QED
    BY <2>9, <2>10, <2>11, <2>12 DEF DevInv
<1> QED
  BY <1>1, <1>2, <1>3, <1>4, HistoryStartsGrows

LEMMA OpenAnsweredInv ==
    ASSUME IInv, NEW d \in Device, OpenAnswered(d)
    PROVE  IInv'
<1> USE DEF IInv
<1>1. TypeOK'
  BY OpenAnsweredType
<1>2. Grows
  BY UnchangedGrows DEF OpenAnswered
<1>3. ASSUME NEW e \in Device, e # d
      PROVE  DevInv(e)'
  <2>1. Frame(e)
    BY <1>3, FlightOverFrame DEF OpenAnswered, Frame, TypeOK, EngineTypes, slotVars
  <2> QED
    BY <2>1, <1>2, FrameKeeps
<1>4. DevInv(d)'
  <2> DEFINE cached == entry[d]
             server == hist[ansRev[d]]
             merged == Merge(d, cached.base, cached.workspace, server)
             opened == IF cached.dirty /\ cached.baseRev = ansRev[d] THEN cached
                       ELSE IF cached.dirty
                       THEN [workspace |-> merged, base |-> server,
                             baseRev |-> ansRev[d], dirty |-> TRUE, shape |-> slice[d]]
                       ELSE [workspace |-> server, base |-> server,
                             baseRev |-> ansRev[d], dirty |-> FALSE, shape |-> NoShape]
  <2>1. /\ entry'[d] = opened /\ view'[d] = opened.workspace
        /\ step[d] = "opened" /\ page'[d] = "open" /\ FlightOver(d)
        /\ UNCHANGED <<hist, rev, slice, cache>>
    BY DEF OpenAnswered, TypeOK, EngineTypes, serverVars, slotVars
  <2>2. /\ HeldAncestor(cached) /\ Backed(cached)
        /\ slice[d] # NoShape
        /\ cached.dirty => cached.shape \subseteq slice[d]
        /\ ansRev[d] \in 0..rev
    BY <2>1 DEF DevInv, EntriesInv, PageInv, TypeOK, FlightTypes
  <2> HIDE DEF merged, cached
  <2>3. /\ HeldAncestor(opened) /\ Backed(opened)
        /\ opened.dirty => opened.shape \subseteq slice[d]
    BY <2>2 DEF HeldAncestor, Backed, Owes
  <2> HIDE DEF opened
  <2>4. EntriesInv(d)'
    BY <2>1, <2>3 DEF DevInv, EntriesInv, HeldAncestor, Backed, Owes
  <2> QED
    BY <1>1, <2>1, <2>2, <2>3, <2>4, FlightOverInv
<1> QED
  BY <1>1, <1>2, <1>3, <1>4, HistoryStartsGrows

LEMMA OpenUnansweredInv ==
    ASSUME IInv, NEW d \in Device, OpenUnanswered(d)
    PROVE  IInv'
<1> USE DEF IInv
<1>1. TypeOK'
  BY OpenUnansweredType
<1>2. Grows
  BY UnchangedGrows DEF OpenUnanswered
<1>3. ASSUME NEW e \in Device, e # d
      PROVE  DevInv(e)'
  <2>1. Frame(e)
    BY <1>3, FlightOverFrame DEF OpenUnanswered, Frame, TypeOK, EngineTypes, slotVars
  <2> QED
    BY <2>1, <1>2, FrameKeeps
<1>4. DevInv(d)'
  <2>1. /\ step[d] \in {"opening", "opened"} /\ FlightOver(d)
        /\ UNCHANGED <<hist, rev, entry, cache>>
        /\ page'[d] # "closed" => /\ page'[d] = "open" /\ slice'[d] = slice[d]
                                  /\ view'[d] = entry[d].workspace
    BY DEF OpenUnanswered, TypeOK, EngineTypes, serverVars, slotVars
  <2>2. EntriesInv(d)'
    BY <2>1 DEF DevInv, EntriesInv, HeldAncestor, Backed, Owes
  <2>3. /\ slice[d] # NoShape
        /\ entry[d].dirty => entry[d].shape \subseteq slice[d]
    BY <2>1 DEF DevInv, PageInv
  <2> QED
    BY <1>1, <2>1, <2>2, <2>3, FlightOverInv
<1> QED
  BY <1>1, <1>2, <1>3, <1>4, HistoryStartsGrows

LEMMA FlushInv ==
    ASSUME IInv, NEW d \in Device, Flush(d)
    PROVE  IInv'
<1> USE DEF IInv
<1>1. TypeOK'
  BY FlushType
<1>2. Grows
  BY UnchangedGrows DEF Flush
<1>3. ASSUME NEW e \in Device, e # d
      PROVE  DevInv(e)'
  <2>1. Frame(e)
    BY <1>3 DEF Flush, Frame, TypeOK, SlotTypes, FlightTypes, engineVars
  <2> QED
    BY <2>1, <1>2, FrameKeeps
<1>4. DevInv(d)'
  <2>1. /\ page[d] = "open" /\ step[d] = "idle" /\ entry[d].dirty
        /\ step'[d] = "put" /\ cache'[d] = entry[d] /\ seqMark'[d] = saveSeq[d]
        /\ sent'[d] = PutOf(d, entry[d].workspace, entry[d].baseRev)
        /\ UNCHANGED <<hist, rev, page, slice, entry, view, saveSeq, lastMerged>>
    BY DEF Flush, TypeOK, SlotTypes, FlightTypes, serverVars, engineVars
  <2>2. EntriesInv(d)'
    BY <2>1 DEF DevInv, EntriesInv, HeldAncestor, Backed, Owes
  <2>3. PageInv(d)'
    BY <2>1 DEF DevInv, PageInv
  <2>4. /\ sent'[d].workspace = entry[d].workspace /\ sent'[d].keys = slice[d]
        /\ sent'[d].baseRev = entry[d].baseRev
    BY <2>1 DEF PutOf
  <2>5. FlightInv(d)'
    BY <2>1, <2>4 DEF FlightInv, TypeOK, EngineTypes
  <2>6. ViewInv(d)'
    BY <2>1 DEF DevInv, ViewInv, Resolving
  <2> QED
    BY <2>2, <2>3, <2>5, <2>6 DEF DevInv
<1> QED
  BY <1>1, <1>2, <1>3, <1>4, HistoryStartsGrows

LEMMA NudgeInv ==
    ASSUME IInv, NEW d \in Device, Nudge(d)
    PROVE  IInv'
<1> USE DEF IInv
<1>1. TypeOK'
  BY NudgeType
<1>2. Grows
  BY UnchangedGrows DEF Nudge
<1>3. ASSUME NEW e \in Device
      PROVE  DevInv(e)'
  <2>1. Frame(e)
    BY DEF Nudge, Frame, engineVars, slotVars, flightVars
  <2> QED
    BY <2>1, <1>2, FrameKeeps
<1> QED
  BY <1>1, <1>2, <1>3, HistoryStartsGrows

LEMMA PushAcceptedInv ==
    ASSUME IInv, NEW d \in Device, PushAccepted(d)
    PROVE  IInv'
<1> USE DEF IInv
<1>1. TypeOK'
  BY PushAcceptedType
<1>2. Grows
  BY UnchangedGrows DEF PushAccepted
<1>3. ASSUME NEW e \in Device, e # d
      PROVE  DevInv(e)'
  <2>1. Frame(e)
    BY <1>3, FlightOverFrame DEF PushAccepted, Frame, TypeOK, EngineTypes, slotVars
  <2> QED
    BY <2>1, <1>2, FrameKeeps
<1>4. DevInv(d)'
  <2>1. /\ step[d] = "putOk" /\ FlightOver(d)
        /\ entry[d] \in Entry /\ slice[d] \in SUBSET Obj
        /\ entry'[d] = [entry[d] EXCEPT !.base = Landed(d), !.baseRev = ansRev[d],
                                        !.dirty = StillDirty(d)]
        /\ UNCHANGED <<hist, rev, page, slice, view, cache>>
    BY DEF PushAccepted, TypeOK, EngineTypes, serverVars, slotVars
  <2>2. /\ entry'[d].base = Landed(d) /\ entry'[d].baseRev = ansRev[d]
        /\ entry'[d].dirty = StillDirty(d) /\ entry'[d].workspace = entry[d].workspace
        /\ entry'[d].shape = entry[d].shape
    BY <2>1, EntryExceptFields
  <2>3. /\ page[d] = "open" /\ slice[d] # NoShape /\ entry[d].dirty
        /\ entry[d].shape \subseteq slice[d] /\ entry[d].shape # NoShape
        /\ hist[ansRev[d]] = Landed(d) /\ ansRev[d] \in 0..rev
        /\ ~StillDirty(d) => entry[d].workspace = sent[d].workspace
    BY <2>1 DEF DevInv, EntriesInv, Backed, PageInv, FlightInv, Sending, Busy,
                TypeOK, FlightTypes
  <2>4. ~StillDirty(d) => \A o \in slice[d] : entry[d].workspace[o] = Landed(d)[o]
    BY <2>1, <2>3 DEF Landed, LandedSlice
  <2>5. EntriesInv(d)'
    BY <2>1, <2>2, <2>3, <2>4 DEF DevInv, EntriesInv, HeldAncestor, Backed, Owes
  <2>6. view[d] = entry[d].workspace
    BY <2>1, <2>3 DEF DevInv, ViewInv, Resolving
  <2> QED
    BY <1>1, <2>1, <2>2, <2>3, <2>5, <2>6, FlightOverInv
<1> QED
  BY <1>1, <1>2, <1>3, <1>4, HistoryStartsGrows

LEMMA PushConflictInv ==
    ASSUME IInv, NEW d \in Device, PushConflict(d)
    PROVE  IInv'
<1> USE DEF IInv
<1>1. TypeOK'
  BY PushConflictType
<1>2. Grows
  BY UnchangedGrows DEF PushConflict
<1>3. ASSUME NEW e \in Device, e # d
      PROVE  DevInv(e)'
  <2>1. Frame(e)
    BY <1>3 DEF PushConflict, Frame, TypeOK, FlightTypes, engineVars, slotVars
  <2> QED
    BY <2>1, <1>2, FrameKeeps
<1>4. DevInv(d)'
  <2>1. /\ step[d] = "putConflict" /\ step'[d] = "get"
        /\ UNCHANGED <<hist, rev, page, slice, entry, view, saveSeq, cache, sent, seqMark,
                       lastMerged, ansRev>>
    BY DEF PushConflict, TypeOK, FlightTypes, serverVars, engineVars, slotVars
  <2>2. EntriesInv(d)'
    BY <2>1 DEF DevInv, EntriesInv, HeldAncestor, Backed, Owes
  <2>3. PageInv(d)'
    BY <2>1 DEF DevInv, PageInv, Busy
  <2>4. FlightInv(d)'
    BY <2>1 DEF DevInv, FlightInv, Sending
  <2>5. ViewInv(d)'
    BY <2>1 DEF DevInv, ViewInv, Resolving
  <2> QED
    BY <2>2, <2>3, <2>4, <2>5 DEF DevInv
<1> QED
  BY <1>1, <1>2, <1>3, <1>4, HistoryStartsGrows

LEMMA MergeAndPushInv ==
    ASSUME IInv, NEW d \in Device, MergeAndPush(d)
    PROVE  IInv'
<1> USE DEF IInv
<1>1. TypeOK'
  BY MergeAndPushType
<1>2. Grows
  BY UnchangedGrows DEF MergeAndPush
<1>3. ASSUME NEW e \in Device, e # d
      PROVE  DevInv(e)'
  <2>1. Frame(e)
    BY <1>3 DEF MergeAndPush, Frame, TypeOK, EngineTypes, FlightTypes, slotVars
  <2> QED
    BY <2>1, <1>2, FrameKeeps
<1>4. DevInv(d)'
  <2> DEFINE server == hist[ansRev[d]]
             merged == Merge(d, entry[d].base, RebasedWorkspace(d), server)
  <2>1. /\ entry[d] \in Entry /\ server \in Workspace /\ ansRev[d] \in 0..rev
        /\ RebasedWorkspace(d) \in Workspace
    BY RebasedType DEF TypeOK, ServerTypes, EngineTypes, FlightTypes
  <2>2. merged \in Workspace /\ merged # Null
    BY <2>1, EntryFields, MergeType, NullAssumption
  <2>3. /\ entry'[d] = [entry[d] EXCEPT !.workspace = merged, !.base = server,
                                        !.baseRev = ansRev[d], !.dirty = TRUE]
        /\ sent'[d] = PutOf(d, merged, ansRev[d])
        /\ step[d] = "got" /\ step'[d] = "mergePut"
        /\ seqMark'[d] = saveSeq[d] /\ lastMerged'[d] = merged
        /\ UNCHANGED <<hist, rev, page, slice, view, saveSeq, cache>>
    BY DEF MergeAndPush, TypeOK, EngineTypes, FlightTypes, serverVars, slotVars
  <2> HIDE DEF merged
  <2>4. /\ entry'[d].workspace = merged /\ entry'[d].base = server
        /\ entry'[d].baseRev = ansRev[d] /\ entry'[d].dirty = TRUE
        /\ entry'[d].shape = entry[d].shape
    BY <2>1, <2>3, EntryExceptFields
  <2>5. /\ sent'[d].workspace = merged /\ sent'[d].keys = slice[d]
        /\ sent'[d].baseRev = ansRev[d]
    BY <2>3 DEF PutOf
  <2>6. /\ page[d] = "open" /\ entry[d].dirty /\ entry[d].shape # NoShape
    BY <2>3 DEF DevInv, EntriesInv, Backed, PageInv, Busy, Resolving
  <2>7. EntriesInv(d)'
    BY <2>1, <2>3, <2>4, <2>6 DEF DevInv, EntriesInv, HeldAncestor, Backed, Owes
  <2>8. PageInv(d)'
    BY <2>3, <2>4, <2>6 DEF DevInv, PageInv
  <2>9. FlightInv(d)'
    BY <2>3, <2>4, <2>5 DEF FlightInv, TypeOK, EngineTypes
  <2>10. ViewInv(d)'
    BY <2>2, <2>3 DEF ViewInv, Resolving
  <2> QED
    BY <2>7, <2>8, <2>9, <2>10 DEF DevInv
<1> QED
  BY <1>1, <1>2, <1>3, <1>4, HistoryStartsGrows

LEMMA MergeAcceptedInv ==
    ASSUME IInv, NEW d \in Device, MergeAccepted(d)
    PROVE  IInv'
<1> USE DEF IInv
<1>1. TypeOK'
  BY MergeAcceptedType
<1>2. Grows
  BY UnchangedGrows DEF MergeAccepted
<1>3. ASSUME NEW e \in Device, e # d
      PROVE  DevInv(e)'
  <2>1. Frame(e)
    BY <1>3, FlightOverFrame DEF MergeAccepted, Frame, TypeOK, EngineTypes, slotVars
  <2> QED
    BY <2>1, <1>2, FrameKeeps
<1>4. DevInv(d)'
  <2>1. /\ step[d] = "mergeOk" /\ FlightOver(d)
        /\ entry[d] \in Entry /\ slice[d] \in SUBSET Obj
        /\ entry'[d] = [entry[d] EXCEPT !.workspace = RebasedWorkspace(d), !.base = Landed(d),
                                        !.baseRev = ansRev[d], !.dirty = StillDirty(d)]
        /\ view'[d] = RebasedWorkspace(d)
        /\ UNCHANGED <<hist, rev, page, slice, cache>>
    BY DEF MergeAccepted, TypeOK, EngineTypes, serverVars, slotVars
  <2>2. /\ entry'[d].base = Landed(d) /\ entry'[d].baseRev = ansRev[d]
        /\ entry'[d].dirty = StillDirty(d) /\ entry'[d].workspace = RebasedWorkspace(d)
        /\ entry'[d].shape = entry[d].shape
    BY <2>1, EntryExceptFields
  <2>3. /\ page[d] = "open" /\ slice[d] # NoShape /\ entry[d].dirty
        /\ entry[d].shape \subseteq slice[d] /\ entry[d].shape # NoShape
        /\ hist[ansRev[d]] = Landed(d) /\ ansRev[d] \in 0..rev
        /\ ~StillDirty(d) => entry[d].workspace = sent[d].workspace
    BY <2>1 DEF DevInv, EntriesInv, Backed, PageInv, FlightInv, Sending, Busy, Resolving,
                TypeOK, FlightTypes
  <2>4. ~StillDirty(d) => RebasedWorkspace(d) = entry[d].workspace
    BY DEF RebasedWorkspace, HalfRebased, StillDirty
  <2>5. ~StillDirty(d) => \A o \in slice[d] : RebasedWorkspace(d)[o] = Landed(d)[o]
    BY <2>1, <2>3, <2>4 DEF Landed, LandedSlice
  <2>6. EntriesInv(d)'
    BY <2>1, <2>2, <2>3, <2>5 DEF DevInv, EntriesInv, HeldAncestor, Backed, Owes
  <2> QED
    BY <1>1, <2>1, <2>2, <2>3, <2>6, FlightOverInv
<1> QED
  BY <1>1, <1>2, <1>3, <1>4, HistoryStartsGrows

\* A flush that gives up puts the same workspace in the entry and on the screen.
LEMMA PreserveFields ==
    ASSUME IInv, NEW d \in Device, page[d] = "open", PreservePendingMerge(d)
    PROVE  /\ entry'[d].base = entry[d].base /\ entry'[d].baseRev = entry[d].baseRev
           /\ entry'[d].dirty = entry[d].dirty /\ entry'[d].shape = entry[d].shape
           /\ view'[d] = entry'[d].workspace
           /\ \A e \in Device : e # d => entry'[e] = entry[e] /\ view'[e] = view[e]
<1>1. entry[d] \in Entry
  BY DEF IInv, TypeOK, EngineTypes
<1>2. CASE lastMerged[d] = Null
  BY <1>2 DEF IInv, DevInv, ViewInv, PreservePendingMerge
<1>3. CASE lastMerged[d] # Null
  <2>1. /\ entry'[d] = [entry[d] EXCEPT !.workspace = RebasedWorkspace(d)]
        /\ view'[d] = RebasedWorkspace(d)
        /\ \A e \in Device : e # d => entry'[e] = entry[e] /\ view'[e] = view[e]
    BY <1>3 DEF PreservePendingMerge, IInv, TypeOK, EngineTypes
  <2>2. /\ entry'[d].workspace = RebasedWorkspace(d) /\ entry'[d].base = entry[d].base
        /\ entry'[d].baseRev = entry[d].baseRev /\ entry'[d].dirty = entry[d].dirty
        /\ entry'[d].shape = entry[d].shape
    BY <1>1, <2>1, EntryExceptFields
  <2> QED
    BY <2>1, <2>2
<1> QED
  BY <1>2, <1>3

LEMMA GiveUpInv ==
    ASSUME IInv, TypeOK', NEW d \in Device, step[d] \in Busy,
           PreservePendingMerge(d), FlightOver(d),
           UNCHANGED <<hist, rev, page, slice, saveSeq, cache>>
    PROVE  \A e \in Device : DevInv(e)'
<1> USE DEF IInv
<1>1. Grows
  BY UnchangedGrows DEF serverVars
<1>2. /\ page[d] = "open" /\ slice[d] # NoShape /\ entry[d].dirty
      /\ entry[d].shape \subseteq slice[d]
  BY DEF DevInv, PageInv
<1>3. ASSUME NEW e \in Device, e # d
      PROVE  DevInv(e)'
  <2>1. Frame(e)
    BY <1>2, <1>3, FlightOverFrame, PreserveFields DEF Frame
  <2> QED
    BY <2>1, <1>1, FrameKeeps
<1>4. DevInv(d)'
  <2>1. EntriesInv(d)'
    BY <1>2, PreserveFields DEF DevInv, EntriesInv, HeldAncestor, Backed, Owes
  <2> QED
    BY <1>2, <2>1, PreserveFields, FlightOverInv
<1> QED
  BY <1>3, <1>4

LEMMA MergeConflictInv ==
    ASSUME IInv, NEW d \in Device, MergeConflict(d)
    PROVE  IInv'
<1> USE DEF IInv
<1>1. TypeOK'
  BY MergeConflictType
<1>2. Grows
  BY UnchangedGrows DEF MergeConflict
<1>3. CASE attempt[d] + 1 < ConflictAttempts
  <2>1. /\ step[d] = "mergeConflict" /\ step' = [step EXCEPT ![d] = "get"]
        /\ UNCHANGED <<hist, rev, page, slice, entry, view, saveSeq, cache, sent, seqMark,
                       lastMerged, ansRev>>
    BY <1>3 DEF MergeConflict, serverVars, slotVars
  <2>2. ASSUME NEW e \in Device, e # d
        PROVE  DevInv(e)'
    <3>1. Frame(e)
      BY <2>1, <2>2 DEF Frame, TypeOK, FlightTypes
    <3> QED
      BY <3>1, <1>2, FrameKeeps
  <2>3. step'[d] = "get"
    BY <2>1 DEF TypeOK, FlightTypes
  <2>4. EntriesInv(d)'
    BY <2>1 DEF DevInv, EntriesInv, HeldAncestor, Backed, Owes
  <2>5. PageInv(d)'
    BY <2>1, <2>3 DEF DevInv, PageInv, Busy, Resolving
  <2>6. FlightInv(d)'
    BY <2>1, <2>3 DEF DevInv, FlightInv, Sending
  <2>7. ViewInv(d)'
    BY <2>1, <2>3 DEF DevInv, ViewInv, Resolving
  <2> QED
    BY <1>1, <1>2, <2>2, <2>4, <2>5, <2>6, <2>7, HistoryStartsGrows DEF DevInv
<1>4. CASE ~(attempt[d] + 1 < ConflictAttempts)
  <2>1. /\ step[d] \in Busy /\ PreservePendingMerge(d) /\ FlightOver(d)
        /\ UNCHANGED <<hist, rev, page, slice, saveSeq, cache>>
    BY <1>4 DEF MergeConflict, Busy, Resolving, serverVars, slotVars
  <2> QED
    BY <1>1, <1>2, <2>1, GiveUpInv, HistoryStartsGrows
<1> QED
  BY <1>3, <1>4

LEMMA LinkFailsInv ==
    ASSUME IInv, NEW d \in Device, LinkFails(d)
    PROVE  IInv'
<1> USE DEF IInv
<1>1. TypeOK'
  BY LinkFailsType
<1>2. Grows
  BY UnchangedGrows DEF LinkFails
<1>3. step[d] \in Busy
  BY DEF LinkFails, TypeOK, FlightTypes, FlightSteps, Busy, Resolving
<1>4. /\ PreservePendingMerge(d) /\ FlightOver(d)
      /\ UNCHANGED <<hist, rev, page, slice, saveSeq, cache>>
  BY DEF LinkFails, serverVars, slotVars
<1> QED
  BY <1>1, <1>2, <1>3, <1>4, GiveUpInv, HistoryStartsGrows

LEMMA ServerPutInv ==
    ASSUME IInv, NEW d \in Device, ServerPut(d)
    PROVE  IInv'
<1> USE DEF IInv
<1>1. TypeOK'
  BY ServerPutType
<1>2. /\ step[d] \in {"put", "mergePut"} /\ sent[d].baseRev = entry[d].baseRev
      /\ sent[d].keys = slice[d]
  BY DEF ServerPut, DevInv, FlightInv, Sending
<1>3. /\ UNCHANGED <<page, slice, entry, view, saveSeq, cache, sent, seqMark, lastMerged>>
      /\ \A e \in Device : e # d => step'[e] = step[e] /\ ansRev'[e] = ansRev[e]
  BY DEF ServerPut, TypeOK, FlightTypes, serverVars, engineVars, slotVars
<1>4. Landed(d)' = Landed(d) /\ StillDirty(d)' = StillDirty(d)
  BY <1>3 DEF Landed, StillDirty
<1>5. Grows /\ (step'[d] \in {"putOk", "mergeOk"} => hist'[ansRev'[d]] = Landed(d))
  <2>1. CASE sent[d].baseRev = rev
    <3>1. Stored(sent[d]) \in Workspace
      BY StoredType DEF TypeOK, FlightTypes
    <3>2. Commit(Stored(sent[d])) /\ ansRev'[d] = rev + 1
      BY <2>1 DEF ServerPut, TypeOK, FlightTypes
    <3>3. Grows /\ hist'[ansRev'[d]] = Stored(sent[d])
      BY <3>1, <3>2, CommitGrows
    <3>4. Stored(sent[d]) = Landed(d)
      BY <1>2, <2>1 DEF DevInv, EntriesInv, HeldAncestor, Stored, Landed
    <3> QED
      BY <3>3, <3>4
  <2>2. CASE sent[d].baseRev # rev
    <3>1. Grows
      BY <2>2, UnchangedGrows DEF ServerPut
    <3>2. step'[d] \in {"putConflict", "mergeConflict"}
      BY <2>2 DEF ServerPut, TypeOK, FlightTypes
    <3> QED
      BY <3>1, <3>2
  <2> QED
    BY <2>1, <2>2
<1>6. /\ step[d] = "put" => step'[d] \in {"putOk", "putConflict"}
      /\ step[d] = "mergePut" => step'[d] \in {"mergeOk", "mergeConflict"}
  BY DEF ServerPut, TypeOK, FlightTypes
<1>7. ASSUME NEW e \in Device, e # d
      PROVE  DevInv(e)'
  <2>1. Frame(e)
    BY <1>3, <1>7 DEF Frame
  <2> QED
    BY <2>1, <1>5, FrameKeeps
<1>8. DevInv(d)'
  <2>1. EntriesInv(d)'
    BY <1>3, <1>5, AncestorGrows DEF DevInv, EntriesInv, HeldAncestor, Backed, Owes, Grows
  <2>2. PageInv(d)'
    BY <1>2, <1>3, <1>6 DEF DevInv, PageInv, Busy, Resolving
  <2>3. FlightInv(d)'
    BY <1>2, <1>3, <1>4, <1>5, <1>6 DEF DevInv, FlightInv, Sending
  <2>4. ViewInv(d)'
    BY <1>2, <1>3, <1>6 DEF DevInv, ViewInv, Resolving
  <2> QED
    BY <2>1, <2>2, <2>3, <2>4 DEF DevInv
<1> QED
  BY <1>1, <1>5, <1>7, <1>8, HistoryStartsGrows

LEMMA ServerStrayInv ==
    ASSUME IInv, NEW p \in strays, ServerStray(p)
    PROVE  IInv'
<1> USE DEF IInv
<1>1. TypeOK'
  BY ServerStrayType
<1>2. Stored(p) \in Workspace
  BY StoredType DEF TypeOK, ServerTypes
<1>3. Grows
  BY <1>2, CommitGrows, UnchangedGrows DEF ServerStray
<1>4. ASSUME NEW e \in Device
      PROVE  DevInv(e)'
  <2>1. Frame(e)
    BY DEF ServerStray, Frame, engineVars, slotVars, flightVars
  <2> QED
    BY <2>1, <1>3, FrameKeeps
<1> QED
  BY <1>1, <1>3, <1>4, HistoryStartsGrows

LEMMA ServerGetInv ==
    ASSUME IInv, NEW d \in Device, ServerGet(d)
    PROVE  IInv'
<1> USE DEF IInv
<1>1. TypeOK'
  BY ServerGetType
<1>2. Grows
  BY UnchangedGrows DEF ServerGet
<1>3. ASSUME NEW e \in Device, e # d
      PROVE  DevInv(e)'
  <2>1. Frame(e)
    BY <1>3 DEF ServerGet, Frame, TypeOK, FlightTypes, engineVars, slotVars
  <2> QED
    BY <2>1, <1>2, FrameKeeps
<1>4. DevInv(d)'
  <2>1. /\ UNCHANGED <<hist, rev, page, slice, entry, view, saveSeq, cache, sent, seqMark,
                       lastMerged>>
        /\ step[d] = "get" => step'[d] = "got"
        /\ step[d] # "get" => step[d] = "opening" /\ step'[d] = "opened"
    BY DEF ServerGet, TypeOK, FlightTypes, serverVars, engineVars, slotVars
  <2>2. EntriesInv(d)'
    BY <2>1 DEF DevInv, EntriesInv, HeldAncestor, Backed, Owes
  <2>3. PageInv(d)'
    BY <2>1 DEF DevInv, PageInv, Busy, Resolving
  <2>4. FlightInv(d)'
    BY <2>1 DEF DevInv, FlightInv, Sending
  <2>5. ViewInv(d)'
    BY <2>1 DEF DevInv, ViewInv, Resolving
  <2> QED
    BY <2>2, <2>3, <2>4, <2>5 DEF DevInv
<1> QED
  BY <1>1, <1>2, <1>3, <1>4, HistoryStartsGrows

LEMMA PollAskInv ==
    ASSUME IInv, NEW d \in Device, PollAsk(d)
    PROVE  IInv'
<1> USE DEF IInv
<1>1. TypeOK'
  BY PollAskType DEF DevInv, EntriesInv
<1>2. Grows
  BY UnchangedGrows DEF PollAsk
<1>3. ASSUME NEW e \in Device
      PROVE  DevInv(e)'
  <2>1. Frame(e)
    BY DEF PollAsk, Frame, engineVars, slotVars, flightVars
  <2> QED
    BY <2>1, <1>2, FrameKeeps
<1> QED
  BY <1>1, <1>2, <1>3, HistoryStartsGrows

LEMMA PollServedInv ==
    ASSUME IInv, NEW d \in Device, PollServed(d)
    PROVE  IInv'
<1> USE DEF IInv
<1>1. TypeOK'
  BY PollServedType
<1>2. Grows
  BY UnchangedGrows DEF PollServed
<1>3. ASSUME NEW e \in Device
      PROVE  DevInv(e)'
  <2>1. Frame(e)
    BY DEF PollServed, Frame, engineVars, slotVars, flightVars
  <2> QED
    BY <2>1, <1>2, FrameKeeps
<1> QED
  BY <1>1, <1>2, <1>3, HistoryStartsGrows

LEMMA PollAnsweredInv ==
    ASSUME IInv, NEW d \in Device, PollAnswered(d)
    PROVE  IInv'
<1> USE DEF IInv
<1>1. TypeOK'
  BY PollAnsweredType
<1>2. Grows
  BY UnchangedGrows DEF PollAnswered
<1>3. UNCHANGED <<hist, rev, page, slice, saveSeq, cache, step, sent, seqMark, lastMerged,
                  ansRev>>
  BY DEF PollAnswered, serverVars, slotVars, flightVars
<1>4. CASE Adopts(d)
  <2>1. ASSUME NEW e \in Device, e # d
        PROVE  DevInv(e)'
    <3>1. Frame(e)
      BY <1>3, <1>4, <2>1 DEF PollAnswered, Frame, TypeOK, EngineTypes
    <3> QED
      BY <3>1, <1>2, FrameKeeps
  <2> DEFINE blob == hist[pollRev[d]]
  <2>2. /\ entry'[d] = [workspace |-> blob, base |-> blob, baseRev |-> pollRev[d],
                        dirty |-> FALSE, shape |-> NoShape]
        /\ view'[d] = blob
    BY <1>4 DEF PollAnswered, TypeOK, EngineTypes
  <2>3. /\ ~entry[d].dirty /\ pollRev[d] \in 0..rev /\ step[d] \notin Busy
    BY <1>4 DEF Adopts, DevInv, PageInv, TypeOK, PollTypes
  <2>4. EntriesInv(d)'
    BY <1>3, <2>2, <2>3 DEF DevInv, EntriesInv, HeldAncestor, Backed, Owes
  <2>5. PageInv(d)'
    BY <1>3, <2>2, <2>3 DEF DevInv, PageInv
  <2>6. FlightInv(d)'
    BY <1>3, <2>3 DEF DevInv, FlightInv, StillDirty, Sending, Busy, Resolving
  <2>7. ViewInv(d)'
    BY <1>3, <2>2 DEF DevInv, ViewInv
  <2> QED
    BY <1>1, <1>2, <2>1, <2>4, <2>5, <2>6, <2>7, HistoryStartsGrows DEF DevInv
<1>5. CASE ~Adopts(d)
  <2>1. ASSUME NEW e \in Device
        PROVE  DevInv(e)'
    <3>1. Frame(e)
      BY <1>3, <1>5 DEF PollAnswered, Frame
    <3> QED
      BY <3>1, <1>2, FrameKeeps
  <2> QED
    BY <1>1, <1>2, <2>1, HistoryStartsGrows
<1> QED
  BY <1>4, <1>5

\* A cache write puts the entry, which DevInv speaks of already, in the slot.
LEMMA CachedInv ==
    ASSUME IInv, NEW d \in Device,
           UNCHANGED <<hist, rev, page, slice, entry, view, saveSeq, step, sent, seqMark,
                       lastMerged, ansRev>>,
           cache'[d] = entry[d], \A e \in Device : e # d => cache'[e] = cache[e]
    PROVE  \A e \in Device : DevInv(e)'
<1> USE DEF IInv
<1>1. ASSUME NEW e \in Device
      PROVE  DevInv(e)'
  <2>1. EntriesInv(e)'
    BY DEF DevInv, EntriesInv, HeldAncestor, Backed, Owes
  <2>2. PageInv(e)' /\ ViewInv(e)'
    BY DEF DevInv, PageInv, ViewInv
  <2>3. FlightInv(e)'
    BY DEF DevInv, FlightInv, Landed, StillDirty
  <2> QED
    BY <2>1, <2>2, <2>3 DEF DevInv
<1> QED
  BY <1>1

LEMMA CacheTimerInv ==
    ASSUME IInv, NEW d \in Device, CacheTimer(d)
    PROVE  IInv'
<1> USE DEF IInv
<1>1. TypeOK'
  BY CacheTimerType
<1>2. Grows
  BY UnchangedGrows DEF CacheTimer
<1>3. /\ UNCHANGED <<hist, rev, page, slice, entry, view, saveSeq, step, sent, seqMark,
                     lastMerged, ansRev>>
      /\ cache'[d] = entry[d] /\ \A e \in Device : e # d => cache'[e] = cache[e]
  BY DEF CacheTimer, TypeOK, SlotTypes, serverVars, engineVars, flightVars
<1>4. \A e \in Device : DevInv(e)'
  BY <1>2, <1>3, CachedInv
<1> QED
  BY <1>1, <1>2, <1>4, HistoryStartsGrows

LEMMA HideInv ==
    ASSUME IInv, NEW d \in Device, Hide(d)
    PROVE  IInv'
<1> USE DEF IInv
<1>1. TypeOK'
  BY HideType
<1>2. Grows
  BY UnchangedGrows DEF Hide
<1>3. /\ UNCHANGED <<hist, rev, page, slice, entry, view, saveSeq, step, sent, seqMark,
                     lastMerged, ansRev>>
      /\ cache'[d] = entry[d] /\ \A e \in Device : e # d => cache'[e] = cache[e]
  BY DEF Hide, TypeOK, SlotTypes, serverVars, engineVars, flightVars
<1>4. \A e \in Device : DevInv(e)'
  BY <1>2, <1>3, CachedInv
<1> QED
  BY <1>1, <1>2, <1>4, HistoryStartsGrows

\* The end of a page leaves its device with what the cache holds, or just got.
LEMMA PageGoneInv ==
    ASSUME IInv, TypeOK', NEW d \in Device, PageGone(d), UNCHANGED <<hist, rev>>,
           cache'[d] \in {cache[d], entry[d]},
           \A e \in Device : e # d => cache'[e] = cache[e]
    PROVE  \A e \in Device : DevInv(e)'
<1> USE DEF IInv
<1>1. Grows
  BY UnchangedGrows DEF serverVars
<1>2. FlightOver(d)
  BY DEF PageGone
<1>3. ASSUME NEW e \in Device, e # d
      PROVE  DevInv(e)'
  <2>1. Frame(e)
    BY <1>2, <1>3, FlightOverFrame DEF PageGone, Frame, TypeOK, EngineTypes
  <2> QED
    BY <2>1, <1>1, FrameKeeps
<1>4. DevInv(d)'
  <2>1. page'[d] = "closed" /\ entry'[d] = BlankEntry
    BY DEF PageGone, TypeOK, EngineTypes
  <2>2. EntriesInv(d)'
    BY <2>1, BlankHeld DEF DevInv, EntriesInv, HeldAncestor, Backed, Owes
  <2> QED
    BY <1>2, <2>1, <2>2, FlightOverInv
<1> QED
  BY <1>3, <1>4

LEMMA CloseInv ==
    ASSUME IInv, NEW d \in Device, Close(d)
    PROVE  IInv'
<1> USE DEF IInv
<1>1. TypeOK'
  BY CloseType
<1>2. Grows
  BY UnchangedGrows DEF Close
<1>3. /\ PageGone(d) /\ UNCHANGED <<hist, rev>> /\ cache'[d] = entry[d]
      /\ \A e \in Device : e # d => cache'[e] = cache[e]
  BY DEF Close, TypeOK, SlotTypes, serverVars
<1> QED
  BY <1>1, <1>2, <1>3, PageGoneInv, HistoryStartsGrows

LEMMA CrashInv ==
    ASSUME IInv, NEW d \in Device, Crash(d)
    PROVE  IInv'
<1> USE DEF IInv
<1>1. TypeOK'
  BY CrashType
<1>2. Grows
  BY UnchangedGrows DEF Crash
<1>3. PageGone(d) /\ UNCHANGED <<hist, rev, cache>>
  BY DEF Crash, serverVars, slotVars
<1> QED
  BY <1>1, <1>2, <1>3, PageGoneInv, HistoryStartsGrows

-----------------------------------------------------------------------------
(* The theorems *)

LEMMA InitInv == Init => IInv
<1> SUFFICES ASSUME Init PROVE IInv
  OBVIOUS
<1>1. TypeOK
  <2>1. 0 \in 0..0 /\ \A r \in 0..0 : r = 0
    OBVIOUS
  <2>2. ServerTypes
    BY <2>1, WorkspaceTypes DEF Init, ServerTypes
  <2>3. EngineTypes /\ SlotTypes
    BY WorkspaceTypes, BlankTypes DEF Init, EngineTypes, SlotTypes, NoShape
  <2>4. FlightTypes /\ PollTypes
    BY <2>1, WorkspaceTypes, BlankTypes DEF Init, FlightTypes, PollTypes, FlightSteps
  <2>5. HistoryTypes
    BY DEF Init, HistoryTypes
  <2> QED
    BY <2>2, <2>3, <2>4, <2>5 DEF TypeOK
<1>2. HistoryStarts
  BY DEF Init, HistoryStarts
<1>3. ASSUME NEW d \in Device
      PROVE  DevInv(d)
  <2>1. EntriesInv(d)
    BY <1>1, <1>2, BlankHeld DEF Init, EntriesInv
  <2>2. PageInv(d) /\ FlightInv(d) /\ ViewInv(d)
    BY DEF Init, PageInv, FlightInv, ViewInv, Busy, Sending, Resolving
  <2> QED
    BY <2>1, <2>2 DEF DevInv
<1> QED
  BY <1>1, <1>2, <1>3 DEF IInv

LEMMA StutterInv ==
    ASSUME IInv, UNCHANGED vars
    PROVE  IInv'
<1> USE DEF IInv
<1>1. TypeOK'
  BY DEF vars, TypeOK, ServerTypes, EngineTypes, SlotTypes, FlightTypes, PollTypes,
         HistoryTypes, serverVars, engineVars, slotVars, flightVars, pollVars, budgets,
         historyVars
<1>2. Grows
  BY UnchangedGrows DEF vars
<1>3. ASSUME NEW e \in Device
      PROVE  DevInv(e)'
  <2>1. Frame(e)
    BY DEF vars, Frame, engineVars, slotVars, flightVars
  <2> QED
    BY <2>1, <1>2, FrameKeeps
<1> QED
  BY <1>1, <1>2, <1>3, HistoryStartsGrows

LEMMA NextInv ==
    ASSUME IInv, [Next]_vars
    PROVE  IInv'
<1>1. CASE EditStep
  BY <1>1, SaveInv, MachineWriteInv DEF EditStep
<1>2. ASSUME NEW d \in Device, Protocol(d)
      PROVE  IInv'
  BY <1>2, OpenInv, OpenAnsweredInv, FlushInv, PushAcceptedInv, PushConflictInv,
     MergeAndPushInv, MergeAcceptedInv, MergeConflictInv, ServerPutInv, ServerGetInv,
     PollAskInv, PollServedInv, PollAnsweredInv DEF Protocol
<1>3. CASE SystemStep
  BY <1>2, <1>3, OpenUnansweredInv, LinkFailsInv, NudgeInv, CacheTimerInv, HideInv,
     CloseInv, CrashInv, ServerStrayInv DEF SystemStep
<1>4. CASE UNCHANGED vars
  BY <1>4, StutterInv
<1> QED
  BY <1>1, <1>3, <1>4 DEF Next

\* The inductive invariant holds in every state of every behaviour: whatever
\* the number of devices, objects, edits, failures and teardowns.
THEOREM Invariance == Spec => []IInv
<1>1. Init => IInv
  BY InitInv
<1>2. IInv /\ [Next]_vars => IInv'
  BY NextInv
<1> QED
  BY <1>1, <1>2, PTL DEF Spec

\* Every variable of the sync keeps its type (engine entries, IndexedDB slots,
\* requests in flight, the server's revisions).
THEOREM TypeCorrect == Spec => []TypeOK
<1>1. IInv => TypeOK
  BY DEF IInv
<1> QED
  BY <1>1, Invariance, PTL

\* The ancestor every merge is made against is the server's own blob of the
\* revision it names: in the engine and in the cache, however pushes were
\* lost, sliced, merged again or cut off by a reload (workspaceSync.ts `push`).
THEOREM AncestorSafe == Spec => []AncestorOnServer
<1>1. IInv => AncestorOnServer
  BY DEF IInv, DevInv, EntriesInv, AncestorOnServer
<1> QED
  BY <1>1, Invariance, PTL

\* An entry that says nothing is owed is what the server holds, in all its
\* session could push: no edit is marked synced that no PUT carried
\* (workspaceSync.ts `pushCurrent`, `resolveConflict`, `adoptServer`).
THEOREM CleanSafe == Spec => []CleanIsOnServer
<1>1. ASSUME NEW e, HeldAncestor(e), Backed(e)
      PROVE  CleanEntryIsOnServer(e)
  BY <1>1 DEF HeldAncestor, Backed, CleanEntryIsOnServer
<1>2. IInv => CleanIsOnServer
  BY <1>1 DEF IInv, DevInv, EntriesInv, CleanIsOnServer
<1> QED
  BY <1>2, Invariance, PTL

\* With no flush in flight the screen shows the engine's entry, so the next
\* save cannot turn what the screen lacks into deletions (workspaceSync.ts
\* `preservePendingMerge`, `handToView`).
THEOREM ViewSafe == Spec => []ViewIsEntry
<1>1. IInv => ViewIsEntry
  BY DEF IInv, DevInv, ViewInv, ViewIsEntry, Resolving
<1> QED
  BY <1>1, Invariance, PTL

-----------------------------------------------------------------------------
(* A push carries its own user's changes only *)

\* What became of `from` in `to` is accounted for: the objects in `mine` may have changed,
\* those in `gone` may have been deleted.
Accounted(mine, gone, from, to) ==
    \A o \in Obj : /\ to[o] # from[o] => o \in mine
                   /\ from[o] # Absent /\ to[o] = Absent => o \in gone
\* ...by device d's user, and by anybody.
Own(d, from, to) == Accounted(touched[d], removed, from, to)

OwnEntry(d) ==
    /\ lastMerged[d] = Null => Own(d, entry[d].base, entry[d].workspace)
    /\ cache[d] # Null => Own(d, cache[d].base, cache[d].workspace)
\* While a conflict is resolved the screen still shows mine0 with the edits made since, and
\* the entry is the screen once there are any.
OwnMerge(d) ==
    /\ step[d] \in Resolving => Own(d, mine0[d], view[d])
    /\ lastMerged[d] # Null =>
          /\ Own(d, entry[d].base, lastMerged[d])
          /\ entry[d].workspace = IF HalfRebased(d) THEN view[d] ELSE lastMerged[d]
OwnPut(d) ==
    /\ step[d] \in Sending => Own(d, entry[d].base, sent[d].workspace)
    /\ step[d] \in {"put", "putOk"} => Own(d, sent[d].workspace, entry[d].workspace)
    /\ step[d] \in {"mergePut", "mergeOk"} => sent[d].workspace = lastMerged[d]
OwnDevice(d) == OwnEntry(d) /\ OwnMerge(d) /\ OwnPut(d)
OwnStray(p) ==
    /\ p.baseRev \in 0..rev
    /\ \E d \in Device : Own(d, hist[p.baseRev], p.workspace)
OwnInv == ~torn => (\A d \in Device : OwnDevice(d)) /\ (\A p \in strays : OwnStray(p))

-----------------------------------------------------------------------------
(* No work is lost *)

\* On the server, or set aside with a device: nothing an engine does takes it away.
Safe(o) ==
    \/ hist[rev][o] # Absent
    \/ \E d \in Device : \E left \in parked[d] : left[o] # Absent
\* An object that is not removed is in every later revision too.
Stays(o) ==
    \A r \in 0..rev, s \in 0..rev : r <= s /\ hist[r][o] # Absent => hist[s][o] # Absent

\* What an entry owes nobody, or could not have pushed, is safe.
PaidUp(e, o) == e.workspace[o] # Absent /\ (~e.dirty \/ o \notin e.shape) => Safe(o)
\* What a session shows and cannot push is safe.
Beyond(d, o) ==
    page[d] # "closed" /\ o \notin slice[d] =>
        /\ entry[d].workspace[o] # Absent => Safe(o)
        /\ lastMerged[d] # Null /\ lastMerged[d][o] # Absent => Safe(o)
        /\ page[d] = "open" /\ view[d][o] # Absent => Safe(o)
\* Unsynced work in the cache is safe, or still with the engine that opened the cache.
Carried(d, o) ==
    /\ page[d] # "closed" /\ cache[d] # Null /\ cache[d].dirty /\ cache[d].workspace[o] # Absent =>
          Safe(o) \/ (entry[d].dirty /\ RebasedWorkspace(d)[o] # Absent)
    /\ HalfRebased(d) => entry[d].shape = slice[d]
KeptAt(d, o) ==
    /\ page[d] # "closed" => PaidUp(entry[d], o)
    /\ cache[d] # Null => PaidUp(cache[d], o)
    /\ Beyond(d, o)
    /\ Carried(d, o)
KeepInv ==
    ~torn => \A o \in Obj : o \notin removed => Stays(o) /\ \A d \in Device : KeptAt(d, o)

\* Only device d changed, and the server's blobs did not.
Alone(d) ==
    /\ UNCHANGED <<hist, rev>>
    /\ \A e \in Device : e # d => Frame(e) /\ mine0'[e] = mine0[e]
    /\ \A e \in Device : parked[e] \subseteq parked'[e] /\ touched[e] \subseteq touched'[e]
    /\ removed \subseteq removed' /\ (torn => torn')

LEMMA OwnChain ==
    ASSUME NEW mine, NEW gone, NEW a, NEW b, NEW c,
           Accounted(mine, gone, a, b), Accounted(mine, gone, b, c)
    PROVE  Accounted(mine, gone, a, c)
BY DEF Accounted

LEMMA OwnGrows ==
    ASSUME NEW mine, NEW gone, NEW mine2, NEW gone2, NEW a, NEW b,
           mine \subseteq mine2, gone \subseteq gone2, Accounted(mine, gone, a, b)
    PROVE  Accounted(mine2, gone2, a, b)
BY DEF Accounted

LEMMA OwnRefl ==
    ASSUME NEW mine, NEW gone, NEW a
    PROVE  Accounted(mine, gone, a, a)
BY DEF Accounted

\* The union brings to theirs what mine brought to the base, and nothing else.
LEMMA OwnMerged ==
    ASSUME NEW d \in Device, NEW mine, NEW gone, NEW base, NEW local, NEW theirs,
           Accounted(mine, gone, base, local)
    PROVE  Accounted(mine, gone, theirs, Merge(d, base, local, theirs))
BY DEF Accounted, Merge, LandedSlice, MergeById, Survives

\* Half of a push landed: what is left is accounted for against that.
LEMMA OwnLanded ==
    ASSUME NEW mine, NEW gone, NEW keys, NEW base, NEW pushed, NEW local,
           Accounted(mine, gone, base, local), Accounted(mine, gone, pushed, local)
    PROVE  Accounted(mine, gone, LandedSlice(keys, base, pushed), local)
BY DEF Accounted, LandedSlice

LEMMA RebasedOwn ==
    ASSUME IInv, NEW d \in Device, OwnDevice(d)
    PROVE  /\ Own(d, entry[d].base, RebasedWorkspace(d))
           /\ lastMerged[d] # Null => Own(d, lastMerged[d], RebasedWorkspace(d))
<1>1. CASE lastMerged[d] = Null
  BY <1>1 DEF OwnDevice, OwnEntry, RebasedWorkspace, HalfRebased
<1>2. CASE lastMerged[d] # Null
  <2>1. step[d] \in Resolving
    BY <1>2 DEF IInv, DevInv, ViewInv
  <2>2. Own(d, entry[d].base, lastMerged[d]) /\ Own(d, mine0[d], view[d])
    BY <1>2, <2>1 DEF OwnDevice, OwnMerge
  <2>3. Own(d, lastMerged[d], RebasedWorkspace(d))
    BY <1>2, <2>2, OwnMerged, OwnRefl DEF OwnDevice, OwnMerge, RebasedWorkspace, Own
  <2> QED
    BY <2>2, <2>3, OwnChain DEF Own
<1> QED
  BY <1>1, <1>2

LEMMA OwnFrame ==
    ASSUME NEW e \in Device, Frame(e), mine0'[e] = mine0[e], OwnDevice(e),
           touched[e] \subseteq touched'[e], removed \subseteq removed'
    PROVE  OwnDevice(e)'
<1>1. \A a, b : Own(e, a, b) => Accounted(touched'[e], removed', a, b)
  BY OwnGrows DEF Own
<1>2. OwnEntry(e)'
  BY <1>1 DEF OwnDevice, OwnEntry, Frame, Own
<1>3. OwnMerge(e)'
  BY <1>1 DEF OwnDevice, OwnMerge, HalfRebased, Frame, Own
<1>4. OwnPut(e)'
  BY <1>1 DEF OwnDevice, OwnPut, Frame, Own
<1> QED
  BY <1>2, <1>3, <1>4 DEF OwnDevice

LEMMA KeptFrame ==
    ASSUME NEW e \in Device, NEW o \in Obj, Frame(e), mine0'[e] = mine0[e], KeptAt(e, o),
           Safe(o) => Safe(o)'
    PROVE  KeptAt(e, o)'
<1>1. page'[e] # "closed" => PaidUp(entry[e], o)'
  BY DEF KeptAt, PaidUp, Frame
<1>2. cache'[e] # Null => PaidUp(cache[e], o)'
  BY DEF KeptAt, PaidUp, Frame
<1>3. Beyond(e, o)'
  BY DEF KeptAt, Beyond, Frame
<1>4. HalfRebased(e)' = HalfRebased(e) /\ RebasedWorkspace(e)' = RebasedWorkspace(e)
  BY DEF HalfRebased, RebasedWorkspace, Merge, Frame
<1>5. Carried(e, o)'
  BY <1>4 DEF KeptAt, Carried, Frame
<1> QED
  BY <1>1, <1>2, <1>3, <1>5 DEF KeptAt, Frame

LEMMA SafeGrows ==
    ASSUME NEW o \in Obj, hist[rev][o] # Absent => hist'[rev'][o] # Absent,
           \A e \in Device : parked[e] \subseteq parked'[e]
    PROVE  Safe(o) => Safe(o)'
BY DEF Safe

\* A step of device d alone: the other devices' part of the invariant is theirs still.
LEMMA AloneKept ==
    ASSUME OwnInv, KeepInv, NEW d \in Device, Alone(d),
           ~torn' => OwnDevice(d)',
           ~torn' => \A o \in Obj : o \notin removed' => KeptAt(d, o)',
           ~torn' => \A p \in strays' : p \notin strays => OwnStray(p)'
    PROVE  OwnInv' /\ KeepInv'
<1>1. CASE torn'
  BY <1>1 DEF OwnInv, KeepInv
<1>2. CASE ~torn'
  <2>1. /\ ~torn /\ (\A e \in Device : OwnDevice(e)) /\ (\A p \in strays : OwnStray(p))
        /\ \A o \in Obj : o \notin removed => Stays(o) /\ \A e \in Device : KeptAt(e, o)
    BY <1>2 DEF Alone, OwnInv, KeepInv
  <2>2. ASSUME NEW e \in Device PROVE OwnDevice(e)'
    <3>1. CASE e = d
      BY <1>2, <3>1
    <3>2. CASE e # d
      BY <2>1, <3>2, OwnFrame DEF Alone
    <3> QED
      BY <3>1, <3>2
  <2>3. ASSUME NEW p \in strays' PROVE OwnStray(p)'
    <3>1. CASE p \in strays
      <4>1. PICK e \in Device : Own(e, hist[p.baseRev], p.workspace)
        BY <2>1, <3>1 DEF OwnStray
      <4>2. Accounted(touched'[e], removed', hist[p.baseRev], p.workspace)
        BY <4>1, OwnGrows DEF Own, Alone
      <4> QED
        BY <2>1, <3>1, <4>2 DEF OwnStray, Own, Alone
    <3> QED
      BY <1>2, <3>1
  <2>4. ASSUME NEW o \in Obj, o \notin removed' PROVE Stays(o)' /\ \A e \in Device : KeptAt(e, o)'
    <3>1. o \notin removed
      BY <2>4 DEF Alone
    <3>2. Stays(o)'
      BY <2>1, <3>1 DEF Stays, Alone
    <3>3. Safe(o) => Safe(o)'
      BY SafeGrows DEF Alone
    <3>4. ASSUME NEW e \in Device, e # d PROVE KeptAt(e, o)'
      BY <2>1, <3>1, <3>3, <3>4, KeptFrame DEF Alone
    <3> QED
      BY <1>2, <2>4, <3>2, <3>4
  <2> QED
    BY <2>2, <2>3, <2>4 DEF OwnInv, KeepInv
<1> QED
  BY <1>1, <1>2

\* A flush (or init) that is over leaves the entry, the cache and the view to look at.
LEMMA FlightOverOwn ==
    ASSUME TypeOK, NEW d \in Device, FlightOver(d),
           Accounted(touched'[d], removed', entry'[d].base, entry'[d].workspace),
           cache'[d] # Null =>
               Accounted(touched'[d], removed', cache'[d].base, cache'[d].workspace)
    PROVE  OwnDevice(d)'
<1>1. step'[d] = "idle" /\ lastMerged'[d] = Null
  BY DEF FlightOver, TypeOK, FlightTypes
<1> QED
  BY <1>1 DEF OwnDevice, OwnEntry, OwnMerge, OwnPut, Own, Resolving, Sending

LEMMA FlightOverKept ==
    ASSUME TypeOK, NEW d \in Device, NEW o \in Obj, FlightOver(d),
           page'[d] # "closed" =>
               /\ PaidUp(entry[d], o)'
               /\ o \notin slice'[d] /\ entry'[d].workspace[o] # Absent => Safe(o)'
               /\ page'[d] = "open" => view'[d] = entry'[d].workspace
               /\ cache'[d] # Null /\ cache'[d].dirty /\ cache'[d].workspace[o] # Absent =>
                     Safe(o)' \/ (entry'[d].dirty /\ entry'[d].workspace[o] # Absent),
           cache'[d] # Null => PaidUp(cache[d], o)'
    PROVE  KeptAt(d, o)'
<1>1. lastMerged'[d] = Null
  BY DEF FlightOver, TypeOK, FlightTypes
<1>2. ~HalfRebased(d)' /\ RebasedWorkspace(d)' = entry'[d].workspace
  BY <1>1 DEF HalfRebased, RebasedWorkspace
<1>3. Beyond(d, o)'
  BY <1>1 DEF Beyond
<1>4. Carried(d, o)'
  BY <1>2 DEF Carried
<1> QED
  BY <1>3, <1>4 DEF KeptAt

\* The entry with the view's edits on top of its merge: what a session shows beyond its
\* slice is safe there too.
LEMMA RebasedBeyond ==
    ASSUME NEW d \in Device, NEW o \in Obj, KeptAt(d, o), page[d] # "closed",
           o \notin slice[d], RebasedWorkspace(d)[o] # Absent
    PROVE  Safe(o)
BY DEF KeptAt, Beyond, RebasedWorkspace, HalfRebased, Merge, LandedSlice

\* What the entry owes nobody, or its session could not have pushed, is safe in it too.
LEMMA RebasedPaid ==
    ASSUME NEW d \in Device, NEW o \in Obj, KeptAt(d, o), page[d] # "closed",
           entry[d].dirty, o \notin entry[d].shape, RebasedWorkspace(d)[o] # Absent
    PROVE  Safe(o)
<1>1. CASE HalfRebased(d)
  BY <1>1, RebasedBeyond DEF KeptAt, Carried
<1>2. CASE ~HalfRebased(d)
  BY <1>2 DEF KeptAt, PaidUp, RebasedWorkspace
<1> QED
  BY <1>1, <1>2

\* An edit is its user's, and a delete is recorded.
LEMMA SaveOwns ==
    ASSUME TypeOK, NEW d \in Device, NEW o \in Obj, NEW c \in Content, Save(d, o, c)
    PROVE  /\ touched[d] \subseteq touched'[d] /\ removed \subseteq removed'
           /\ Accounted(touched'[d], removed', view[d], view'[d])
<1>1. view[d] \in Workspace /\ touched[d] \in SUBSET Obj
  BY DEF TypeOK, EngineTypes, HistoryTypes
<1>2. view'[d] = [view[d] EXCEPT ![o] = c] /\ touched'[d] = touched[d] \cup {o}
  BY DEF Save, TypeOK, EngineTypes, HistoryTypes
<1>3. removed' = IF c = Absent THEN removed \cup {o} ELSE removed
  BY DEF Save
<1> QED
  BY <1>1, <1>2, <1>3 DEF Accounted, Workspace

\* An edit takes nothing off what the engine will push, but what it deletes.
LEMMA SaveRebased ==
    ASSUME IInv, NEW d \in Device, NEW o \in Obj, NEW c \in Content, Save(d, o, c),
           OwnDevice(d), NEW x \in Obj, x \notin removed',
           entry'[d].workspace = view'[d],
           RebasedWorkspace(d)[x] # Absent
    PROVE  RebasedWorkspace(d)'[x] # Absent
<1>1. /\ page[d] = "open" /\ saveSeq'[d] = saveSeq[d] + 1 /\ seqMark'[d] <= saveSeq[d]
      /\ saveSeq[d] \in Nat /\ seqMark'[d] \in Nat
      /\ UNCHANGED <<lastMerged, mine0, slice, page>>
  BY DEF Save, IInv, DevInv, FlightInv, TypeOK, EngineTypes, FlightTypes, flightVars
<1>2. Accounted(touched'[d], removed', view[d], view'[d])
  BY SaveOwns DEF IInv
<1>3. CASE lastMerged[d] = Null
  <2>1. RebasedWorkspace(d) = view[d] /\ RebasedWorkspace(d)' = view'[d]
    BY <1>1, <1>3 DEF RebasedWorkspace, HalfRebased, IInv, DevInv, ViewInv
  <2> QED
    BY <1>2, <2>1 DEF Accounted
<1>4. CASE lastMerged[d] # Null
  <2>1. HalfRebased(d)'
    BY <1>1, <1>4 DEF HalfRebased
  <2>2. step[d] \in Resolving
    BY <1>4 DEF IInv, DevInv, ViewInv
  <2>3. Accounted(touched'[d], removed', mine0[d], view[d])
    BY <2>2, SaveOwns, OwnGrows DEF IInv, OwnDevice, OwnMerge, Own
  <2>4. Accounted(touched'[d], removed', mine0[d], view'[d])
    BY <1>2, <2>3, OwnChain
  <2>5. RebasedWorkspace(d)' = Merge(d, mine0[d], view'[d], lastMerged[d])
    BY <1>1, <2>1 DEF RebasedWorkspace, Merge
  <2>6. RebasedWorkspace(d) = Merge(d, mine0[d], view[d], lastMerged[d])
           \/ RebasedWorkspace(d) = lastMerged[d]
    BY <1>4 DEF RebasedWorkspace, OwnDevice, OwnMerge
  <2> QED
    BY <1>2, <2>4, <2>5, <2>6 DEF Merge, LandedSlice, MergeById, Survives, Accounted
<1> QED
  BY <1>3, <1>4

LEMMA SaveKept ==
    ASSUME IInv, OwnInv, KeepInv, NEW d \in Device, NEW o \in Obj, NEW c \in Content,
           Save(d, o, c)
    PROVE  OwnInv' /\ KeepInv'
<1>1. TypeOK /\ DevInv(d)
  BY DEF IInv
<1>2. /\ touched[d] \subseteq touched'[d] /\ removed \subseteq removed'
      /\ Accounted(touched'[d], removed', view[d], view'[d])
  BY <1>1, SaveOwns
<1>3. /\ entry[d] \in Entry /\ saveSeq[d] \in Nat /\ seqMark[d] \in Nat
      /\ entry'[d] = [entry[d] EXCEPT !.workspace = view'[d], !.dirty = TRUE, !.shape = slice[d]]
  BY <1>1 DEF Save, TypeOK, EngineTypes, FlightTypes
<1>4. /\ entry'[d].workspace = view'[d] /\ entry'[d].base = entry[d].base
      /\ entry'[d].dirty = TRUE /\ entry'[d].shape = slice[d]
  BY <1>3, EntryExceptFields
<1>5. /\ page[d] = "open" /\ page' = page /\ slice' = slice /\ cache' = cache
      /\ saveSeq'[d] = saveSeq[d] + 1 /\ UNCHANGED <<hist, rev, parked, strays, torn>>
      /\ step' = step /\ sent' = sent /\ seqMark' = seqMark /\ mine0' = mine0
      /\ lastMerged' = lastMerged /\ ansRev' = ansRev
  BY <1>1 DEF Save, TypeOK, EngineTypes, serverVars, slotVars, flightVars
<1>6. Alone(d)
  <2>1. \A e \in Device : e # d => Frame(e) /\ touched'[e] = touched[e]
    BY <1>1 DEF Save, Frame, TypeOK, EngineTypes, SlotTypes, FlightTypes, HistoryTypes,
                slotVars, flightVars
  <2> QED
    BY <1>2, <1>5, <2>1 DEF Alone
<1>7. seqMark[d] <= saveSeq[d] /\ (lastMerged[d] = Null => view[d] = entry[d].workspace)
  BY <1>1, <1>5 DEF DevInv, FlightInv, ViewInv
<1>8. ASSUME ~torn' PROVE OwnDevice(d)'
  <2>1. OwnDevice(d)
    BY <1>5, <1>8 DEF OwnInv
  <2>2. \A a, b : Own(d, a, b) => Accounted(touched'[d], removed', a, b)
    BY <1>2, OwnGrows DEF Own
  <2>3. \A a : Own(d, a, view[d]) => Accounted(touched'[d], removed', a, view'[d])
    BY <1>2, <2>2, OwnChain
  <2>4. OwnEntry(d)'
    BY <1>4, <1>5, <1>7, <2>1, <2>2, <2>3 DEF OwnDevice, OwnEntry, Own
  <2>5. OwnMerge(d)'
    <3>1. lastMerged'[d] # Null => HalfRebased(d)'
      BY <1>3, <1>5, <1>7 DEF HalfRebased
    <3> QED
      BY <1>4, <1>5, <2>1, <2>2, <2>3, <3>1 DEF OwnDevice, OwnMerge, Own
  <2>6. OwnPut(d)'
    <3>1. step[d] \in {"put", "putOk"} => lastMerged[d] = Null
      BY <1>1 DEF DevInv, ViewInv, Resolving
    <3> QED
      BY <1>4, <1>5, <1>7, <2>1, <2>2, <2>3, <3>1 DEF OwnDevice, OwnPut, Own
  <2> QED
    BY <2>4, <2>5, <2>6 DEF OwnDevice
<1>9. ASSUME ~torn', NEW x \in Obj, x \notin removed' PROVE KeptAt(d, x)'
  <2>1. KeptAt(d, x) /\ OwnDevice(d)
    BY <1>2, <1>5, <1>9 DEF OwnInv, KeepInv
  <2>2. Safe(x)' = Safe(x)
    BY <1>5 DEF Safe
  <2>3. view'[d][x] # Absent /\ x \notin slice[d] => Safe(x)
    <3>1. view'[d][x] # Absent /\ x \notin slice[d] => view[d][x] # Absent
      BY <1>1 DEF Save, TypeOK, EngineTypes, Workspace
    <3> QED
      BY <1>5, <2>1, <3>1 DEF KeptAt, Beyond
  <2>4. PaidUp(entry[d], x)' /\ (cache'[d] # Null => PaidUp(cache[d], x)')
    BY <1>4, <1>5, <2>1, <2>2, <2>3 DEF KeptAt, PaidUp
  <2>5. Beyond(d, x)'
    BY <1>4, <1>5, <2>1, <2>2, <2>3 DEF KeptAt, Beyond
  <2>6. Carried(d, x)'
    BY <1>4, <1>5, <1>9, <2>1, <2>2, SaveRebased DEF KeptAt, Carried
  <2> QED
    BY <2>4, <2>5, <2>6 DEF KeptAt
<1> QED
  BY <1>5, <1>6, <1>8, <1>9, AloneKept

\* Every commit keeps what nobody deleted: a machine's write, and a push made on top of
\* the revision it names.
LEMMA PushVanishes ==
    ASSUME TypeOK, NEW p \in Put, OwnStray(p), p.baseRev = rev, Commit(Stored(p))
    PROVE  \A o \in Obj : hist[rev][o] # Absent /\ hist'[rev'][o] = Absent => o \in removed
<1>1. hist'[rev'] = Stored(p)
  BY StoredType, CommitGrows
<1> QED
  BY <1>1 DEF Stored, LandedSlice, OwnStray, Own, Accounted

\* What is never removed is in every revision after the first that has it.
LEMMA StaysGrows ==
    ASSUME Grows, rev' \in {rev, rev + 1}, NEW o \in Obj, Stays(o),
           hist[rev][o] # Absent => hist'[rev'][o] # Absent
    PROVE  Stays(o)'
<1>1. \A r \in 0..rev' : r \in 0..rev \/ r = rev'
  BY DEF Grows
<1>2. \A r \in 0..rev : hist[r][o] # Absent => hist[rev][o] # Absent
  BY DEF Grows, Stays
<1> QED
  BY <1>1, <1>2 DEF Grows, Stays

\* A step of the server: no engine changes, and no object nobody deleted goes.
LEMMA ServerKept ==
    ASSUME IInv, OwnInv, KeepInv, Grows, rev' \in {rev, rev + 1}, torn' = torn,
           \A e \in Device : OwnDevice(e) => OwnDevice(e)',
           \A e \in Device, o \in Obj : (Safe(o) => Safe(o)') /\ KeptAt(e, o) => KeptAt(e, o)',
           strays' \subseteq strays, removed \subseteq removed', UNCHANGED <<touched, parked>>,
           ~torn => \A o \in Obj : hist[rev][o] # Absent /\ hist'[rev'][o] = Absent => o \in removed'
    PROVE  OwnInv' /\ KeepInv'
<1>1. CASE torn'
  BY <1>1 DEF OwnInv, KeepInv
<1>2. CASE ~torn'
  <2>1. /\ (\A e \in Device : OwnDevice(e)) /\ (\A p \in strays : OwnStray(p))
        /\ \A o \in Obj : o \notin removed => Stays(o) /\ \A e \in Device : KeptAt(e, o)
    BY <1>2 DEF OwnInv, KeepInv
  <2>2. ASSUME NEW p \in strays' PROVE OwnStray(p)'
    <3>1. p \in strays /\ p.baseRev \in 0..rev
      BY <2>1 DEF OwnStray
    <3>2. hist'[p.baseRev] = hist[p.baseRev] /\ p.baseRev \in 0..rev'
      BY <3>1 DEF Grows
    <3>3. PICK e \in Device : Own(e, hist[p.baseRev], p.workspace)
      BY <2>1, <3>1 DEF OwnStray
    <3>4. Accounted(touched[e], removed', hist[p.baseRev], p.workspace)
      BY <3>3, OwnGrows DEF Own
    <3> QED
      BY <3>2, <3>4 DEF OwnStray, Own
  <2>3. ASSUME NEW o \in Obj, o \notin removed' PROVE Stays(o)' /\ \A e \in Device : KeptAt(e, o)'
    <3>1. o \notin removed /\ (hist[rev][o] # Absent => hist'[rev'][o] # Absent)
      BY <1>2, <2>3
    <3>2. Stays(o)'
      BY <2>1, <3>1, StaysGrows
    <3>3. Safe(o) => Safe(o)'
      BY <3>1, SafeGrows
    <3> QED
      BY <2>1, <3>1, <3>2, <3>3
  <2> QED
    BY <2>1, <2>2, <2>3 DEF OwnInv, KeepInv
<1> QED
  BY <1>1, <1>2

LEMMA MachineWriteKept ==
    ASSUME IInv, OwnInv, KeepInv, NEW o \in Obj, NEW c \in Content, MachineWrite(o, c)
    PROVE  OwnInv' /\ KeepInv'
<1>1. [hist[rev] EXCEPT ![o] = c] \in Workspace /\ hist[rev] \in Workspace
  BY WorkspaceTypes DEF IInv, TypeOK, ServerTypes
<1>2. Grows /\ rev' = rev + 1 /\ hist'[rev'] = [hist[rev] EXCEPT ![o] = c]
  BY <1>1, CommitGrows DEF MachineWrite, IInv
<1>3. /\ removed' = IF c = Absent THEN removed \cup {o} ELSE removed
      /\ UNCHANGED <<torn, strays, touched, parked>>
  BY DEF MachineWrite, slotVars
<1>4. \A x \in Obj : hist[rev][x] # Absent /\ hist'[rev'][x] = Absent => x \in removed'
  BY <1>1, <1>2, <1>3 DEF Workspace
<1>5. \A e \in Device : Frame(e) /\ mine0'[e] = mine0[e]
  BY DEF MachineWrite, Frame, engineVars, slotVars, flightVars
<1>6. removed \subseteq removed'
  BY <1>3
<1>7. \A e \in Device : OwnDevice(e) => OwnDevice(e)'
  BY <1>3, <1>5, <1>6, OwnFrame
<1>8. \A e \in Device, x \in Obj : (Safe(x) => Safe(x)') /\ KeptAt(e, x) => KeptAt(e, x)'
  BY <1>5, KeptFrame
<1> QED
  BY <1>2, <1>3, <1>4, <1>6, <1>7, <1>8, ServerKept

LEMMA ServerStrayKept ==
    ASSUME IInv, OwnInv, KeepInv, NEW p \in strays, ServerStray(p)
    PROVE  OwnInv' /\ KeepInv'
<1>1. TypeOK /\ p \in Put /\ Stored(p) \in Workspace /\ rev \in Nat
  BY StoredType DEF IInv, TypeOK, ServerTypes
<1>2. Grows /\ rev' \in {rev, rev + 1}
  BY <1>1, CommitGrows, UnchangedGrows DEF ServerStray, serverVars
<1>3. strays' \subseteq strays /\ UNCHANGED <<torn, removed, touched, parked>>
  BY DEF ServerStray, slotVars, historyVars
<1>4. ~torn => \A o \in Obj : hist[rev][o] # Absent /\ hist'[rev'][o] = Absent => o \in removed'
  <2> SUFFICES ASSUME ~torn
               PROVE  \A o \in Obj : hist[rev][o] # Absent /\ hist'[rev'][o] = Absent => o \in removed
    BY <1>3
  <2>1. OwnStray(p)
    BY DEF OwnInv
  <2>2. CASE p.baseRev = rev
    BY <1>1, <2>1, <2>2, PushVanishes DEF ServerStray
  <2>3. CASE p.baseRev # rev
    BY <2>3 DEF ServerStray, serverVars
  <2> QED
    BY <2>2, <2>3
<1>5. \A e \in Device : Frame(e) /\ mine0'[e] = mine0[e]
  BY DEF ServerStray, Frame, engineVars, slotVars, flightVars
<1>6. \A e \in Device : OwnDevice(e) => OwnDevice(e)'
  BY <1>3, <1>5, OwnFrame
<1>7. \A e \in Device, x \in Obj : (Safe(x) => Safe(x)') /\ KeptAt(e, x) => KeptAt(e, x)'
  BY <1>5, KeptFrame
<1> QED
  BY <1>2, <1>3, <1>4, <1>6, <1>7, ServerKept

LEMMA ServerPutKept ==
    ASSUME IInv, OwnInv, KeepInv, NEW d \in Device, ServerPut(d)
    PROVE  OwnInv' /\ KeepInv'
<1>1. /\ TypeOK /\ DevInv(d) /\ sent[d] \in Put /\ Stored(sent[d]) \in Workspace /\ rev \in Nat
      /\ step[d] \in {"put", "mergePut"}
  BY StoredType DEF IInv, TypeOK, ServerTypes, FlightTypes, ServerPut
<1>2. Grows /\ rev' \in {rev, rev + 1}
  BY <1>1, CommitGrows, UnchangedGrows DEF ServerPut, serverVars
<1>3. /\ UNCHANGED <<strays, torn, removed, touched, parked, page, slice, entry, view, saveSeq,
                     cache, sent, seqMark, lastMerged, mine0>>
      /\ \A e \in Device : e # d => step'[e] = step[e] /\ ansRev'[e] = ansRev[e]
      /\ step[d] = "put" => step'[d] \in {"putOk", "putConflict"}
      /\ step[d] = "mergePut" => step'[d] \in {"mergeOk", "mergeConflict"}
  BY <1>1 DEF ServerPut, TypeOK, FlightTypes, engineVars, slotVars, historyVars
<1>4. ~torn => \A o \in Obj : hist[rev][o] # Absent /\ hist'[rev'][o] = Absent => o \in removed'
  <2> SUFFICES ASSUME ~torn
               PROVE  \A o \in Obj : hist[rev][o] # Absent /\ hist'[rev'][o] = Absent => o \in removed
    BY <1>3
  <2>1. OwnStray(sent[d])
    <3>1. Own(d, entry[d].base, sent[d].workspace)
      BY <1>1 DEF OwnInv, OwnDevice, OwnPut, Sending
    <3>2. sent[d].baseRev = entry[d].baseRev /\ HeldAncestor(entry[d])
      BY <1>1 DEF DevInv, FlightInv, EntriesInv, Sending
    <3> QED
      BY <3>1, <3>2 DEF HeldAncestor, OwnStray
  <2>2. CASE sent[d].baseRev = rev
    BY <1>1, <2>1, <2>2, PushVanishes DEF ServerPut
  <2>3. CASE sent[d].baseRev # rev
    BY <2>3 DEF ServerPut, serverVars
  <2> QED
    BY <2>2, <2>3
<1>5. \A e \in Device : e # d => Frame(e) /\ mine0'[e] = mine0[e]
  BY <1>3 DEF Frame
<1>6. \A e \in Device : OwnDevice(e) => OwnDevice(e)'
  <2>1. ASSUME OwnDevice(d) PROVE OwnDevice(d)'
    <3>1. OwnEntry(d)'
      BY <1>3, <2>1 DEF OwnDevice, OwnEntry, Own
    <3>2. OwnMerge(d)'
      BY <1>1, <1>3, <2>1 DEF OwnDevice, OwnMerge, HalfRebased, Own, Resolving
    <3>3. OwnPut(d)'
      BY <1>1, <1>3, <2>1 DEF OwnDevice, OwnPut, Own, Sending
    <3> QED
      BY <3>1, <3>2, <3>3 DEF OwnDevice
  <2> QED
    BY <1>3, <1>5, <2>1, OwnFrame
<1>7. \A e \in Device, x \in Obj : (Safe(x) => Safe(x)') /\ KeptAt(e, x) => KeptAt(e, x)'
  <2>1. ASSUME NEW x \in Obj, Safe(x) => Safe(x)', KeptAt(d, x) PROVE KeptAt(d, x)'
    <3>1. HalfRebased(d)' = HalfRebased(d) /\ RebasedWorkspace(d)' = RebasedWorkspace(d)
      BY <1>3 DEF HalfRebased, RebasedWorkspace, Merge
    <3>2. Beyond(d, x)' /\ Carried(d, x)'
      BY <1>3, <2>1, <3>1 DEF KeptAt, Beyond, Carried
    <3>3. PaidUp(entry[d], x) => PaidUp(entry[d], x)'
      BY <1>3, <2>1 DEF PaidUp
    <3>4. PaidUp(cache[d], x) => PaidUp(cache[d], x)'
      BY <1>3, <2>1 DEF PaidUp
    <3> QED
      BY <1>3, <2>1, <3>2, <3>3, <3>4 DEF KeptAt
  <2> QED
    BY <1>5, <2>1, KeptFrame
<1> QED
  BY <1>2, <1>3, <1>4, <1>6, <1>7, ServerKept

LEMMA OpenKept ==
    ASSUME IInv, OwnInv, KeepInv, NEW d \in Device, NEW carries \in Sessions[d], Open(d, carries)
    PROVE  OwnInv' /\ KeepInv'
<1> DEFINE found == IF cache[d] = Null THEN BlankEntry ELSE cache[d]
           parks == MustPark(found, carries)
           cached == IF parks THEN [found EXCEPT !.shape = carries] ELSE found
<1>1. TypeOK /\ DevInv(d) /\ found \in Entry /\ carries \in SUBSET Obj
  BY BlankTypes, SessionsAssumption DEF IInv, TypeOK, SlotTypes
<1>2. /\ page[d] = "closed" /\ page'[d] = "opening" /\ step'[d] = "opening"
      /\ slice'[d] = carries /\ entry'[d] = cached
      /\ cache'[d] = IF parks THEN cached ELSE cache[d]
      /\ parked'[d] = IF parks THEN parked[d] \cup {found.workspace} ELSE parked[d]
      /\ UNCHANGED <<hist, rev, view, saveSeq, sent, seqMark, mine0, lastMerged, ansRev,
                     strays, removed, touched, torn>>
      /\ \A e \in Device : e # d => Frame(e) /\ parked'[e] = parked[e]
  BY <1>1 DEF Open, TypeOK, EngineTypes, SlotTypes, FlightTypes, Frame, serverVars, historyVars
<1>3. lastMerged[d] = Null
  BY <1>1, <1>2 DEF DevInv, PageInv, ViewInv, Busy
<1>4. /\ cached.workspace = found.workspace /\ cached.base = found.base
      /\ cached.dirty = found.dirty /\ cached.shape = IF parks THEN carries ELSE found.shape
  BY <1>1, NarrowedEntry
<1>5. parks => cache[d] # Null
  BY DEF MustPark, BlankEntry
<1>6. ~parks /\ found.dirty => carries = Obj \/ found.shape = carries
  BY <1>1, BlankHeld DEF MustPark, DevInv, EntriesInv, Backed, BlankEntry
<1> HIDE DEF parks, found, cached
<1>7. found = IF cache[d] = Null THEN BlankEntry ELSE cache[d]
  BY DEF found
<1>8. cached = found \/ parks
  BY DEF cached
<1>9. Alone(d)
  BY <1>2 DEF Alone
<1>10. ASSUME ~torn' PROVE OwnDevice(d)'
  <2>1. OwnDevice(d)
    BY <1>2, <1>10 DEF OwnInv
  <2>2. Own(d, found.base, found.workspace)
    BY <1>7, <2>1, OwnRefl DEF OwnDevice, OwnEntry, Own, BlankEntry
  <2> QED
    BY <1>2, <1>3, <1>4, <2>1, <2>2
       DEF OwnDevice, OwnEntry, OwnMerge, OwnPut, Own, Resolving, Sending
<1>11. ASSUME ~torn', NEW x \in Obj, x \notin removed' PROVE KeptAt(d, x)'
  <2>1. KeptAt(d, x)
    BY <1>2, <1>11 DEF KeepInv
  <2>2. Safe(x) => Safe(x)'
    BY <1>2, SafeGrows
  <2>3. parks /\ found.workspace[x] # Absent => Safe(x)'
    BY <1>2 DEF Safe
  <2>4. found.workspace[x] # Absent /\ (~found.dirty \/ x \notin found.shape) => Safe(x)'
    BY <1>7, <2>1, <2>2 DEF KeptAt, PaidUp, BlankEntry, EmptyWorkspace
  <2>5. found.workspace[x] # Absent /\ x \notin carries => Safe(x)'
    BY <1>6, <2>3, <2>4
  <2>6. PaidUp(entry[d], x)'
    BY <1>2, <1>4, <2>3, <2>4 DEF PaidUp
  <2>7. cache'[d] # Null => PaidUp(cache[d], x)'
    BY <1>2, <1>4, <1>5, <1>7, <2>3, <2>4 DEF PaidUp
  <2>8. Beyond(d, x)'
    BY <1>2, <1>3, <1>4, <2>5 DEF Beyond
  <2>9. Carried(d, x)'
    BY <1>2, <1>3, <1>4, <1>7 DEF Carried, RebasedWorkspace, HalfRebased
  <2> QED
    BY <2>6, <2>7, <2>8, <2>9 DEF KeptAt
<1> QED
  BY <1>2, <1>9, <1>10, <1>11, AloneKept

\* At the revision of an answer the server held what an entry's ancestor had, or holds it now.
LEMMA MergeKeepsWork ==
    ASSUME IInv, NEW d \in Device, NEW o \in Obj, Stays(o), HeldAncestor(entry[d]),
           NEW r \in 0..rev, NEW local \in Workspace,
           o \in slice[d], local[o] # Absent
    PROVE  Merge(d, entry[d].base, local, hist[r])[o] # Absent \/ Safe(o)
<1>1. rev \in Nat
  BY DEF IInv, TypeOK, ServerTypes
<1>2. CASE entry[d].base[o] # Absent
  BY <1>1, <1>2 DEF HeldAncestor, Stays, Safe
<1>3. CASE entry[d].base[o] = Absent
  BY <1>3 DEF Merge, LandedSlice, MergeById, Survives
<1> QED
  BY <1>2, <1>3

\* What a merge has that is not the server's comes from the device.
LEMMA MergeBrings ==
    ASSUME NEW d \in Device, NEW o \in Obj, NEW base, NEW local, NEW theirs,
           Merge(d, base, local, theirs)[o] # Absent
    PROVE  theirs[o] # Absent \/ (o \in slice[d] /\ local[o] # Absent)
BY DEF Merge, LandedSlice, MergeById, Survives

\* A revision the server had is still there, in what was not removed.
LEMMA SafeAt ==
    ASSUME IInv, NEW o \in Obj, Stays(o), NEW r \in 0..rev, hist[r][o] # Absent
    PROVE  Safe(o)
BY DEF IInv, TypeOK, ServerTypes, Stays, Safe

LEMMA OpenAnsweredKept ==
    ASSUME IInv, OwnInv, KeepInv, NEW d \in Device, OpenAnswered(d)
    PROVE  OwnInv' /\ KeepInv'
<1> DEFINE cached == entry[d]
           server == hist[ansRev[d]]
           merged == Merge(d, cached.base, cached.workspace, server)
           opened == IF cached.dirty /\ cached.baseRev = ansRev[d] THEN cached
                     ELSE IF cached.dirty
                     THEN [workspace |-> merged, base |-> server,
                           baseRev |-> ansRev[d], dirty |-> TRUE, shape |-> slice[d]]
                     ELSE [workspace |-> server, base |-> server,
                           baseRev |-> ansRev[d], dirty |-> FALSE, shape |-> NoShape]
<1>1. /\ entry'[d] = opened /\ view'[d] = opened.workspace
      /\ step[d] = "opened" /\ page'[d] = "open" /\ FlightOver(d)
      /\ UNCHANGED <<hist, rev, slice, cache, parked, strays, removed, touched, torn>>
      /\ \A e \in Device : e # d => page'[e] = page[e] /\ entry'[e] = entry[e] /\ view'[e] = view[e]
      /\ saveSeq' = saveSeq
  BY DEF IInv, OpenAnswered, TypeOK, EngineTypes, serverVars, slotVars, historyVars
<1>2. /\ TypeOK /\ cached \in Entry /\ HeldAncestor(cached) /\ page[d] # "closed"
      /\ ansRev[d] \in 0..rev /\ lastMerged[d] = Null
  BY <1>1 DEF IInv, DevInv, EntriesInv, PageInv, ViewInv, TypeOK, EngineTypes, FlightTypes, Resolving
<1>3. Alone(d)
  <2>1. \A e \in Device : e # d => Frame(e) /\ mine0'[e] = mine0[e]
    BY <1>1, <1>2, FlightOverFrame DEF Frame, FlightOver, TypeOK, FlightTypes
  <2> QED
    BY <1>1, <2>1 DEF Alone
<1>4. cached.workspace \in Workspace
  BY <1>2, EntryFields
<1> HIDE DEF merged, cached
<1>5. /\ opened.workspace = IF ~cached.dirty THEN server
                            ELSE IF cached.baseRev = ansRev[d] THEN cached.workspace ELSE merged
      /\ opened.base = IF cached.dirty /\ cached.baseRev = ansRev[d] THEN cached.base ELSE server
      /\ opened.dirty = cached.dirty
      /\ opened.shape = IF ~cached.dirty THEN NoShape
                        ELSE IF cached.baseRev = ansRev[d] THEN cached.shape ELSE slice[d]
  BY <1>2 DEF Entry, cached
<1> HIDE DEF opened
<1>6. ASSUME ~torn' PROVE OwnDevice(d)'
  <2>1. Own(d, cached.base, cached.workspace)
    BY <1>1, <1>2, <1>6 DEF OwnInv, OwnDevice, OwnEntry, cached
  <2>2. Own(d, server, merged)
    BY <2>1, OwnMerged DEF Own, merged
  <2>3. Own(d, opened.base, opened.workspace)
    BY <1>5, <2>1, <2>2, OwnRefl DEF Own
  <2>4. cache[d] # Null => Own(d, cache[d].base, cache[d].workspace)
    BY <1>1, <1>6 DEF OwnInv, OwnDevice, OwnEntry
  <2> QED
    BY <1>1, <1>2, <2>3, <2>4, FlightOverOwn DEF Own
<1>7. ASSUME ~torn', NEW x \in Obj, x \notin removed' PROVE KeptAt(d, x)'
  <2>1. KeptAt(d, x) /\ Stays(x)
    BY <1>1, <1>7 DEF KeepInv
  <2>2. Safe(x)' = Safe(x)
    BY <1>1 DEF Safe
  <2>3. server[x] # Absent => Safe(x)
    BY <1>2, <2>1, SafeAt
  <2>4. x \notin slice[d] /\ cached.workspace[x] # Absent => Safe(x)
    BY <1>2, <2>1 DEF KeptAt, Beyond, cached
  <2>5. merged[x] # Absent /\ x \notin slice[d] => Safe(x)
    BY <2>3, MergeBrings DEF merged
  <2>6. PaidUp(entry[d], x)'
    BY <1>1, <1>2, <1>5, <2>1, <2>2, <2>3, <2>5 DEF KeptAt, PaidUp, cached
  <2>7. x \notin slice'[d] /\ entry'[d].workspace[x] # Absent => Safe(x)'
    BY <1>1, <1>5, <2>2, <2>3, <2>4, <2>5
  <2>8. cached.workspace[x] # Absent => Safe(x) \/ merged[x] # Absent
    BY <1>2, <1>4, <2>1, <2>4, MergeKeepsWork DEF merged, cached
  <2>9. RebasedWorkspace(d) = cached.workspace
    BY <1>2 DEF RebasedWorkspace, HalfRebased, cached
  <2>10. cache[d] # Null /\ cache[d].dirty /\ cache[d].workspace[x] # Absent =>
            Safe(x) \/ (opened.dirty /\ opened.workspace[x] # Absent)
    BY <1>2, <1>5, <2>1, <2>8, <2>9 DEF KeptAt, Carried, cached
  <2>11. cache'[d] # Null => PaidUp(cache[d], x)'
    BY <1>1, <2>1, <2>2 DEF KeptAt, PaidUp
  <2> QED
    BY <1>1, <1>2, <2>2, <2>6, <2>7, <2>10, <2>11, FlightOverKept
<1> QED
  BY <1>1, <1>3, <1>6, <1>7, AloneKept

LEMMA OpenUnansweredKept ==
    ASSUME IInv, OwnInv, KeepInv, NEW d \in Device, OpenUnanswered(d)
    PROVE  OwnInv' /\ KeepInv'
<1>1. /\ step[d] \in {"opening", "opened"} /\ FlightOver(d)
      /\ UNCHANGED <<hist, rev, entry, cache, parked, strays, removed, touched, torn, saveSeq>>
      /\ page'[d] # "closed" => slice'[d] = slice[d] /\ view'[d] = entry[d].workspace
      /\ \A e \in Device : e # d => page'[e] = page[e] /\ slice'[e] = slice[e] /\ view'[e] = view[e]
  BY DEF IInv, OpenUnanswered, TypeOK, EngineTypes, serverVars, slotVars, historyVars
<1>2. TypeOK /\ page[d] # "closed" /\ lastMerged[d] = Null
  BY <1>1 DEF IInv, DevInv, PageInv, ViewInv, Resolving
<1>3. Alone(d)
  <2>1. \A e \in Device : e # d => Frame(e) /\ mine0'[e] = mine0[e]
    BY <1>1, <1>2, FlightOverFrame DEF Frame, FlightOver, TypeOK, FlightTypes
  <2> QED
    BY <1>1, <2>1 DEF Alone
<1>4. ASSUME ~torn' PROVE OwnDevice(d)'
  <2>1. OwnEntry(d)
    BY <1>1, <1>4 DEF OwnInv, OwnDevice
  <2> QED
    BY <1>1, <1>2, <2>1, FlightOverOwn DEF OwnEntry, Own
<1>5. ASSUME ~torn', NEW x \in Obj, x \notin removed' PROVE KeptAt(d, x)'
  <2>1. KeptAt(d, x) /\ (Safe(x)' = Safe(x))
    BY <1>1, <1>5 DEF KeepInv, Safe
  <2>2. RebasedWorkspace(d) = entry[d].workspace
    BY <1>2 DEF RebasedWorkspace, HalfRebased
  <2>3. PaidUp(entry[d], x)' /\ (cache'[d] # Null => PaidUp(cache[d], x)')
    BY <1>1, <1>2, <2>1 DEF KeptAt, PaidUp
  <2> QED
    BY <1>1, <1>2, <2>1, <2>2, <2>3, FlightOverKept DEF KeptAt, Beyond, Carried
<1> QED
  BY <1>1, <1>3, <1>4, <1>5, AloneKept

\* KeptAt reads neither the step of a flush nor its request.
LEMMA KeptSame ==
    ASSUME NEW d \in Device, NEW o \in Obj, KeptAt(d, o), Safe(o) => Safe(o)',
           page'[d] = page[d], slice'[d] = slice[d], entry'[d] = entry[d], view'[d] = view[d],
           cache'[d] = cache[d], lastMerged'[d] = lastMerged[d],
           \/ lastMerged[d] = Null
           \/ /\ mine0'[d] = mine0[d] /\ saveSeq'[d] = saveSeq[d]
              /\ seqMark'[d] = seqMark[d]
    PROVE  KeptAt(d, o)'
<1>1. HalfRebased(d)' = HalfRebased(d) /\ RebasedWorkspace(d)' = RebasedWorkspace(d)
  BY DEF HalfRebased, RebasedWorkspace, Merge
<1>2. Beyond(d, o)' /\ Carried(d, o)'
  BY <1>1 DEF KeptAt, Beyond, Carried
<1>3. PaidUp(entry[d], o) => PaidUp(entry[d], o)'
  BY DEF PaidUp
<1>4. PaidUp(cache[d], o) => PaidUp(cache[d], o)'
  BY DEF PaidUp
<1> QED
  BY <1>2, <1>3, <1>4 DEF KeptAt

\* Steps that touch nothing these invariants speak of.
LEMMA StillKept ==
    ASSUME IInv, OwnInv, KeepInv,
           UNCHANGED <<serverVars, page, engineVars, slotVars, flightVars, strays, historyVars>>
    PROVE  OwnInv' /\ KeepInv'
<1>1. Grows /\ rev' = rev /\ hist' = hist
  BY UnchangedGrows DEF IInv, serverVars
<1>2. UNCHANGED <<strays, torn, removed, touched, parked>>
  BY DEF historyVars, slotVars
<1>3. \A e \in Device : Frame(e) /\ mine0'[e] = mine0[e]
  BY DEF Frame, engineVars, slotVars, flightVars
<1>4. \A e \in Device : OwnDevice(e) => OwnDevice(e)'
  BY <1>2, <1>3, OwnFrame
<1>5. \A e \in Device, x \in Obj : (Safe(x) => Safe(x)') /\ KeptAt(e, x) => KeptAt(e, x)'
  BY <1>3, KeptFrame
<1> QED
  BY <1>1, <1>2, <1>4, <1>5, ServerKept

\* A cache write of an entry that is not half rebased.
LEMMA CachedKept ==
    ASSUME IInv, NEW d \in Device, ~HalfRebased(d), page[d] # "closed", OwnDevice(d)
    PROVE  /\ Own(d, entry[d].base, entry[d].workspace)
           /\ \A o \in Obj : KeptAt(d, o) =>
                 PaidUp(entry[d], o) /\ RebasedWorkspace(d) = entry[d].workspace
<1>1. RebasedWorkspace(d) = entry[d].workspace
  BY DEF RebasedWorkspace
<1> QED
  BY <1>1, RebasedOwn DEF KeptAt

LEMMA FlushKept ==
    ASSUME IInv, OwnInv, KeepInv, NEW d \in Device, Flush(d)
    PROVE  OwnInv' /\ KeepInv'
<1>1. /\ page[d] = "open" /\ step[d] = "idle" /\ entry[d].dirty
      /\ step'[d] = "put" /\ sent'[d] = PutOf(d, entry[d].workspace, entry[d].baseRev)
      /\ cache'[d] = entry[d]
      /\ UNCHANGED <<hist, rev, page, slice, entry, view, saveSeq, mine0, lastMerged, ansRev,
                     parked, strays, removed, touched, torn>>
      /\ \A e \in Device : e # d => Frame(e)
  BY DEF IInv, Flush, TypeOK, FlightTypes, SlotTypes, Frame, serverVars, engineVars, historyVars
<1>2. lastMerged[d] = Null /\ ~HalfRebased(d) /\ ~HalfRebased(d)' /\ entry[d] \in Entry
  BY <1>1 DEF IInv, DevInv, ViewInv, HalfRebased, Resolving, TypeOK, EngineTypes
<1>3. Alone(d)
  BY <1>1 DEF Alone
<1>4. sent'[d].workspace = entry[d].workspace /\ entry[d] # Null
  BY <1>1, <1>2, NullAssumption DEF PutOf, Entry
<1>5. ASSUME ~torn' PROVE OwnDevice(d)'
  <2>1. Own(d, entry[d].base, entry[d].workspace)
    BY <1>1, <1>2, <1>5 DEF OwnInv, OwnDevice, OwnEntry
  <2> QED
    BY <1>1, <1>2, <1>4, <2>1, OwnRefl
       DEF OwnDevice, OwnEntry, OwnMerge, OwnPut, Own, Resolving, Sending
<1>6. ASSUME ~torn', NEW x \in Obj, x \notin removed' PROVE KeptAt(d, x)'
  <2>1. KeptAt(d, x) /\ Safe(x)' = Safe(x)
    BY <1>1, <1>6 DEF KeepInv, Safe
  <2>2. RebasedWorkspace(d)' = entry[d].workspace
    BY <1>1, <1>2 DEF RebasedWorkspace
  <2>3. PaidUp(entry[d], x)' /\ PaidUp(cache[d], x)'
    BY <1>1, <2>1 DEF KeptAt, PaidUp
  <2>4. Beyond(d, x)' /\ Carried(d, x)'
    BY <1>1, <1>2, <2>1, <2>2 DEF KeptAt, Beyond, Carried
  <2> QED
    BY <2>3, <2>4 DEF KeptAt
<1> QED
  BY <1>1, <1>3, <1>5, <1>6, AloneKept

\* A PUT that landed leaves the device clean, but for an edit made meanwhile.
LEMMA PushAcceptedKept ==
    ASSUME IInv, OwnInv, KeepInv, NEW d \in Device, PushAccepted(d)
    PROVE  OwnInv' /\ KeepInv'
<1>1. /\ step[d] = "putOk" /\ FlightOver(d)
      /\ entry'[d] = [entry[d] EXCEPT !.base = Landed(d), !.baseRev = ansRev[d],
                                      !.dirty = StillDirty(d)]
      /\ UNCHANGED <<hist, rev, page, slice, view, saveSeq, cache, parked, strays, removed,
                     touched, torn>>
      /\ \A e \in Device : e # d => entry'[e] = entry[e]
  BY DEF IInv, PushAccepted, TypeOK, EngineTypes, serverVars, slotVars, historyVars
<1>2. /\ TypeOK /\ DevInv(d) /\ entry[d] \in Entry /\ lastMerged[d] = Null /\ page[d] = "open"
      /\ ansRev[d] \in 0..rev /\ hist[ansRev[d]] = Landed(d) /\ entry[d].dirty
      /\ view[d] = entry[d].workspace /\ sent[d].workspace \in Workspace
      /\ ~StillDirty(d) => entry[d].workspace = sent[d].workspace
  BY <1>1 DEF IInv, DevInv, PageInv, FlightInv, ViewInv, Busy, Resolving, Sending, TypeOK,
              EngineTypes, FlightTypes, Put
<1>3. /\ entry'[d].workspace = entry[d].workspace /\ entry'[d].base = Landed(d)
      /\ entry'[d].dirty = StillDirty(d) /\ entry'[d].shape = entry[d].shape
  BY <1>1, <1>2, EntryExceptFields
<1>4. Alone(d)
  <2>1. \A e \in Device : e # d => Frame(e) /\ mine0'[e] = mine0[e]
    BY <1>1, <1>2, FlightOverFrame DEF Frame, FlightOver, TypeOK, FlightTypes
  <2> QED
    BY <1>1, <2>1 DEF Alone
<1>5. ASSUME ~torn' PROVE OwnDevice(d)'
  <2>1. OwnDevice(d)
    BY <1>1, <1>5 DEF OwnInv
  <2>2. Own(d, Landed(d), entry[d].workspace)
    BY <1>1, <1>2, <2>1, OwnLanded DEF OwnDevice, OwnEntry, OwnPut, Own, Landed
  <2> QED
    BY <1>1, <1>2, <1>3, <2>1, <2>2, FlightOverOwn DEF OwnDevice, OwnEntry, Own
<1>6. ASSUME ~torn', NEW x \in Obj, x \notin removed' PROVE KeptAt(d, x)'
  <2>1. KeptAt(d, x) /\ Stays(x) /\ Safe(x)' = Safe(x)
    BY <1>1, <1>6 DEF KeepInv, Safe
  <2>2. entry[d].workspace[x] # Absent /\ x \notin slice[d] => Safe(x)
    BY <1>2, <2>1 DEF KeptAt, Beyond
  <2>3. ~StillDirty(d) /\ entry[d].workspace[x] # Absent => Safe(x)
    <3>1. ~StillDirty(d) /\ x \in slice[d] => hist[ansRev[d]][x] = entry[d].workspace[x]
      BY <1>2 DEF Landed, LandedSlice
    <3> QED
      BY <1>2, <2>1, <2>2, <3>1, SafeAt
  <2>4. RebasedWorkspace(d) = entry[d].workspace
    BY <1>2 DEF RebasedWorkspace, HalfRebased
  <2>5. PaidUp(entry[d], x)' /\ (cache'[d] # Null => PaidUp(cache[d], x)')
    BY <1>1, <1>2, <1>3, <2>1, <2>3 DEF KeptAt, PaidUp
  <2>6. cache[d] # Null /\ cache[d].dirty /\ cache[d].workspace[x] # Absent =>
           Safe(x) \/ (StillDirty(d) /\ entry[d].workspace[x] # Absent)
    BY <1>2, <2>1, <2>3, <2>4 DEF KeptAt, Carried
  <2> QED
    BY <1>1, <1>2, <1>3, <2>1, <2>2, <2>5, <2>6, FlightOverKept
<1> QED
  BY <1>1, <1>4, <1>5, <1>6, AloneKept

LEMMA PushConflictKept ==
    ASSUME IInv, OwnInv, KeepInv, NEW d \in Device, PushConflict(d)
    PROVE  OwnInv' /\ KeepInv'
<1>1. /\ step[d] = "putConflict" /\ step'[d] = "get" /\ mine0'[d] = entry[d].workspace
      /\ UNCHANGED <<hist, rev, page, slice, entry, view, saveSeq, cache, parked, sent, seqMark,
                     lastMerged, strays, removed, touched, torn>>
      /\ \A e \in Device : e # d => Frame(e) /\ mine0'[e] = mine0[e]
  BY DEF IInv, PushConflict, TypeOK, FlightTypes, Frame, serverVars, engineVars, slotVars, historyVars
<1>2. lastMerged[d] = Null /\ view[d] = entry[d].workspace
  BY <1>1 DEF IInv, DevInv, PageInv, ViewInv, Busy, Resolving
<1>3. Alone(d)
  BY <1>1 DEF Alone
<1>4. ASSUME ~torn' PROVE OwnDevice(d)'
  <2>1. OwnDevice(d)
    BY <1>1, <1>4 DEF OwnInv
  <2> QED
    BY <1>1, <1>2, <2>1, OwnRefl
       DEF OwnDevice, OwnEntry, OwnMerge, OwnPut, Own, Resolving, Sending
<1>5. ASSUME ~torn', NEW x \in Obj, x \notin removed' PROVE KeptAt(d, x)'
  <2>1. KeptAt(d, x) /\ Safe(x)' = Safe(x)
    BY <1>1, <1>5 DEF KeepInv, Safe
  <2> QED
    BY <1>1, <1>2, <2>1, KeptSame
<1> QED
  BY <1>1, <1>3, <1>4, <1>5, AloneKept

LEMMA ServerGetKept ==
    ASSUME IInv, OwnInv, KeepInv, NEW d \in Device, ServerGet(d)
    PROVE  OwnInv' /\ KeepInv'
<1>1. /\ \/ step[d] = "get" /\ step'[d] = "got"
         \/ step[d] = "opening" /\ step'[d] = "opened"
      /\ UNCHANGED <<hist, rev, page, slice, entry, view, saveSeq, cache, parked, sent, seqMark,
                     mine0, lastMerged, strays, removed, touched, torn>>
      /\ \A e \in Device : e # d => Frame(e)
  BY DEF IInv, ServerGet, TypeOK, FlightTypes, Frame, serverVars, engineVars, slotVars, historyVars
<1>2. Alone(d)
  BY <1>1 DEF Alone
<1>3. ASSUME ~torn' PROVE OwnDevice(d)'
  <2>1. OwnDevice(d) /\ (HalfRebased(d)' = HalfRebased(d))
    BY <1>1, <1>3 DEF OwnInv, HalfRebased
  <2> QED
    BY <1>1, <2>1 DEF OwnDevice, OwnEntry, OwnMerge, OwnPut, Own, Resolving, Sending
<1>4. ASSUME ~torn', NEW x \in Obj, x \notin removed' PROVE KeptAt(d, x)'
  <2>1. KeptAt(d, x) /\ Safe(x)' = Safe(x)
    BY <1>1, <1>4 DEF KeepInv, Safe
  <2> QED
    BY <1>1, <2>1, KeptSame
<1> QED
  BY <1>1, <1>2, <1>3, <1>4, AloneKept

LEMMA MergeAndPushKept ==
    ASSUME IInv, OwnInv, KeepInv, NEW d \in Device, MergeAndPush(d)
    PROVE  OwnInv' /\ KeepInv'
<1> DEFINE server == hist[ansRev[d]]
           merged == Merge(d, entry[d].base, RebasedWorkspace(d), server)
<1>1. /\ entry'[d] = [entry[d] EXCEPT !.workspace = merged, !.base = server,
                                      !.baseRev = ansRev[d], !.dirty = TRUE]
      /\ sent'[d] = PutOf(d, merged, ansRev[d])
      /\ step[d] = "got" /\ step'[d] = "mergePut"
      /\ seqMark'[d] = saveSeq[d] /\ lastMerged'[d] = merged
      /\ UNCHANGED <<hist, rev, page, slice, view, saveSeq, cache, parked, mine0, strays,
                     removed, touched, torn>>
      /\ \A e \in Device : e # d => Frame(e)
  BY DEF IInv, MergeAndPush, TypeOK, EngineTypes, FlightTypes, Frame, serverVars, slotVars, historyVars
<1>2. /\ entry[d] \in Entry /\ ansRev[d] \in 0..rev /\ RebasedWorkspace(d) \in Workspace
      /\ page[d] = "open" /\ entry[d].dirty /\ HeldAncestor(entry[d])
  BY <1>1, RebasedType DEF IInv, DevInv, EntriesInv, PageInv, Busy, Resolving, TypeOK,
                           EngineTypes, FlightTypes
<1> HIDE DEF merged
<1>3. /\ entry'[d].workspace = merged /\ entry'[d].base = server
      /\ entry'[d].dirty = TRUE /\ entry'[d].shape = entry[d].shape
      /\ sent'[d].workspace = merged
  BY <1>1, <1>2, EntryExceptFields DEF PutOf
<1>4. Alone(d)
  BY <1>1 DEF Alone
<1>5. ~HalfRebased(d)'
  BY <1>1 DEF HalfRebased
<1>6. ASSUME ~torn' PROVE OwnDevice(d)'
  <2>1. OwnDevice(d)
    BY <1>1, <1>6 DEF OwnInv
  <2>2. Own(d, server, merged)
    BY <2>1, RebasedOwn, OwnMerged DEF Own, merged
  <2>3. lastMerged'[d] = Null => Own(d, server, merged)
    BY <2>2
  <2>4. OwnEntry(d)'
    BY <1>1, <1>3, <2>1, <2>2 DEF OwnDevice, OwnEntry, Own
  <2>5. OwnMerge(d)'
    BY <1>1, <1>3, <1>5, <2>1, <2>2 DEF OwnDevice, OwnMerge, Own, Resolving
  <2>6. OwnPut(d)'
    BY <1>1, <1>3, <2>2 DEF OwnPut, Own
  <2> QED
    BY <2>4, <2>5, <2>6 DEF OwnDevice
<1>7. ASSUME ~torn', NEW x \in Obj, x \notin removed' PROVE KeptAt(d, x)'
  <2>1. KeptAt(d, x) /\ Stays(x) /\ Safe(x)' = Safe(x)
    BY <1>1, <1>7 DEF KeepInv, Safe
  <2>2. server[x] # Absent => Safe(x)
    BY <1>2, <2>1, SafeAt
  <2>3. merged[x] # Absent => Safe(x) \/ (x \in slice[d] /\ RebasedWorkspace(d)[x] # Absent)
    BY <2>2, MergeBrings DEF merged
  <2>4. RebasedWorkspace(d)[x] # Absent => Safe(x) \/ merged[x] # Absent
    <3>1. CASE x \in slice[d]
      BY <1>2, <2>1, <3>1, MergeKeepsWork DEF merged
    <3>2. CASE x \notin slice[d]
      BY <1>2, <2>1, <3>2, RebasedBeyond
    <3> QED
      BY <3>1, <3>2
  <2>5. PaidUp(entry[d], x)'
    BY <1>2, <1>3, <2>1, <2>3, RebasedPaid DEF PaidUp
  <2>6. cache'[d] # Null => PaidUp(cache[d], x)'
    BY <1>1, <2>1 DEF KeptAt, PaidUp
  <2>7. Beyond(d, x)'
    BY <1>1, <1>3, <2>1, <2>3 DEF KeptAt, Beyond
  <2>8. RebasedWorkspace(d)' = merged
    BY <1>3, <1>5 DEF RebasedWorkspace
  <2>9. Carried(d, x)'
    BY <1>1, <1>3, <1>5, <2>1, <2>4, <2>8 DEF KeptAt, Carried
  <2> QED
    BY <2>5, <2>6, <2>7, <2>9 DEF KeptAt
<1> QED
  BY <1>1, <1>4, <1>6, <1>7, AloneKept

\* A union that landed leaves the device clean, but for an edit made meanwhile.
LEMMA MergeAcceptedKept ==
    ASSUME IInv, OwnInv, KeepInv, NEW d \in Device, MergeAccepted(d)
    PROVE  OwnInv' /\ KeepInv'
<1>1. /\ step[d] = "mergeOk" /\ FlightOver(d)
      /\ entry'[d] = [entry[d] EXCEPT !.workspace = RebasedWorkspace(d), !.base = Landed(d),
                                      !.baseRev = ansRev[d], !.dirty = StillDirty(d)]
      /\ view'[d] = RebasedWorkspace(d)
      /\ UNCHANGED <<hist, rev, page, slice, saveSeq, cache, parked, strays, removed, touched, torn>>
      /\ \A e \in Device : e # d => entry'[e] = entry[e] /\ view'[e] = view[e]
  BY DEF IInv, MergeAccepted, TypeOK, EngineTypes, serverVars, slotVars, historyVars
<1>2. /\ TypeOK /\ entry[d] \in Entry /\ page[d] = "open" /\ ansRev[d] \in 0..rev
      /\ hist[ansRev[d]] = Landed(d) /\ entry[d].dirty /\ sent[d].workspace \in Workspace
      /\ ~StillDirty(d) => entry[d].workspace = sent[d].workspace
  BY <1>1 DEF IInv, DevInv, PageInv, FlightInv, Busy, Resolving, Sending, TypeOK, EngineTypes,
              FlightTypes, Put
<1>3. /\ entry'[d].workspace = RebasedWorkspace(d) /\ entry'[d].base = Landed(d)
      /\ entry'[d].dirty = StillDirty(d) /\ entry'[d].shape = entry[d].shape
  BY <1>1, <1>2, EntryExceptFields
<1>4. Alone(d)
  <2>1. \A e \in Device : e # d => Frame(e) /\ mine0'[e] = mine0[e]
    BY <1>1, <1>2, FlightOverFrame DEF Frame, FlightOver, TypeOK, FlightTypes
  <2> QED
    BY <1>1, <2>1 DEF Alone
<1>5. ~StillDirty(d) => RebasedWorkspace(d) = sent[d].workspace
  BY <1>2 DEF RebasedWorkspace, HalfRebased, StillDirty
<1>6. ASSUME ~torn' PROVE OwnDevice(d) /\ sent[d].workspace = lastMerged[d] /\ lastMerged[d] # Null
  BY <1>1, <1>2, <1>6, NullAssumption DEF OwnInv, OwnDevice, OwnPut
<1>7. ASSUME ~torn' PROVE OwnDevice(d)'
  <2>1. Own(d, entry[d].base, RebasedWorkspace(d)) /\ Own(d, sent[d].workspace, RebasedWorkspace(d))
    BY <1>6, <1>7, RebasedOwn
  <2>2. Own(d, Landed(d), RebasedWorkspace(d))
    BY <2>1, OwnLanded DEF Own, Landed
  <2> QED
    BY <1>1, <1>2, <1>3, <1>6, <1>7, <2>2, FlightOverOwn DEF OwnDevice, OwnEntry, Own
<1>8. ASSUME ~torn', NEW x \in Obj, x \notin removed' PROVE KeptAt(d, x)'
  <2>1. KeptAt(d, x) /\ Stays(x) /\ Safe(x)' = Safe(x)
    BY <1>1, <1>8 DEF KeepInv, Safe
  <2>2. RebasedWorkspace(d)[x] # Absent /\ x \notin slice[d] => Safe(x)
    BY <1>2, <2>1, RebasedBeyond
  <2>3. ~StillDirty(d) /\ RebasedWorkspace(d)[x] # Absent => Safe(x)
    <3>1. ~StillDirty(d) /\ x \in slice[d] => hist[ansRev[d]][x] = RebasedWorkspace(d)[x]
      BY <1>2, <1>5 DEF Landed, LandedSlice
    <3> QED
      BY <1>2, <2>1, <2>2, <3>1, SafeAt
  <2>4. RebasedWorkspace(d)[x] # Absent /\ x \notin entry[d].shape => Safe(x)
    BY <1>2, <2>1, RebasedPaid
  <2>5. PaidUp(entry[d], x)' /\ (cache'[d] # Null => PaidUp(cache[d], x)')
    BY <1>1, <1>3, <2>1, <2>3, <2>4 DEF KeptAt, PaidUp
  <2>6. cache[d] # Null /\ cache[d].dirty /\ cache[d].workspace[x] # Absent =>
           Safe(x) \/ (StillDirty(d) /\ RebasedWorkspace(d)[x] # Absent)
    BY <1>2, <2>1, <2>3 DEF KeptAt, Carried
  <2> QED
    BY <1>1, <1>2, <1>3, <2>1, <2>2, <2>5, <2>6, FlightOverKept
<1> QED
  BY <1>1, <1>4, <1>7, <1>8, AloneKept

\* A flush that gives up leaves what it would have pushed in the entry.
LEMMA PreserveRebased ==
    ASSUME IInv, NEW d \in Device, PreservePendingMerge(d)
    PROVE  entry'[d].workspace = RebasedWorkspace(d)
<1>1. entry[d] \in Entry
  BY DEF IInv, TypeOK, EngineTypes
<1>2. CASE lastMerged[d] = Null
  BY <1>2 DEF PreservePendingMerge, RebasedWorkspace, HalfRebased
<1>3. CASE lastMerged[d] # Null
  <2>1. entry'[d] = [entry[d] EXCEPT !.workspace = RebasedWorkspace(d)]
    BY <1>3 DEF PreservePendingMerge, IInv, TypeOK, EngineTypes
  <2> QED
    BY <1>1, <2>1, EntryExceptFields
<1> QED
  BY <1>2, <1>3

LEMMA GiveUpKept ==
    ASSUME IInv, OwnInv, KeepInv, NEW d \in Device, step[d] \in Busy,
           PreservePendingMerge(d), FlightOver(d),
           UNCHANGED <<hist, rev, page, slice, saveSeq, cache, parked, removed, touched, torn>>,
           ~torn' => \A p \in strays' : p \notin strays => OwnStray(p)'
    PROVE  OwnInv' /\ KeepInv'
<1>1. TypeOK /\ page[d] = "open" /\ entry[d].dirty
  BY DEF IInv, DevInv, PageInv
<1>2. /\ entry'[d].workspace = RebasedWorkspace(d) /\ view'[d] = entry'[d].workspace
      /\ entry'[d].base = entry[d].base /\ entry'[d].dirty = entry[d].dirty
      /\ entry'[d].shape = entry[d].shape
      /\ \A e \in Device : e # d => entry'[e] = entry[e] /\ view'[e] = view[e]
  BY <1>1, PreserveFields, PreserveRebased
<1>3. Alone(d)
  <2>1. \A e \in Device : e # d => Frame(e) /\ mine0'[e] = mine0[e]
    BY <1>1, <1>2, FlightOverFrame DEF Frame, FlightOver, TypeOK, FlightTypes
  <2> QED
    BY <2>1 DEF Alone
<1>4. ASSUME ~torn' PROVE OwnDevice(d)'
  <2>1. OwnDevice(d)
    BY <1>4 DEF OwnInv
  <2>2. Own(d, entry[d].base, RebasedWorkspace(d))
    BY <2>1, RebasedOwn
  <2> QED
    BY <1>1, <1>2, <2>1, <2>2, FlightOverOwn DEF OwnDevice, OwnEntry, Own
<1>5. ASSUME ~torn', NEW x \in Obj, x \notin removed' PROVE KeptAt(d, x)'
  <2>1. KeptAt(d, x) /\ Safe(x)' = Safe(x)
    BY <1>5 DEF KeepInv, Safe
  <2>2. RebasedWorkspace(d)[x] # Absent /\ x \notin slice[d] => Safe(x)
    BY <1>1, <2>1, RebasedBeyond
  <2>3. RebasedWorkspace(d)[x] # Absent /\ x \notin entry[d].shape => Safe(x)
    BY <1>1, <2>1, RebasedPaid
  <2>4. PaidUp(entry[d], x)' /\ (cache'[d] # Null => PaidUp(cache[d], x)')
    BY <1>1, <1>2, <2>1, <2>3 DEF KeptAt, PaidUp
  <2>5. cache[d] # Null /\ cache[d].dirty /\ cache[d].workspace[x] # Absent =>
           Safe(x) \/ (entry[d].dirty /\ RebasedWorkspace(d)[x] # Absent)
    BY <1>1, <2>1 DEF KeptAt, Carried
  <2> QED
    BY <1>1, <1>2, <2>1, <2>2, <2>4, <2>5, FlightOverKept
<1> QED
  BY <1>3, <1>4, <1>5, AloneKept

\* What leaves a device unawaited is a request like any other.
LEMMA SentStray ==
    ASSUME IInv, NEW d \in Device, OwnDevice(d), step[d] \in {"put", "mergePut"}
    PROVE  OwnStray(sent[d])
<1>1. Own(d, entry[d].base, sent[d].workspace)
  BY DEF OwnDevice, OwnPut, Sending
<1>2. sent[d].baseRev = entry[d].baseRev /\ HeldAncestor(entry[d])
  BY DEF IInv, DevInv, FlightInv, EntriesInv, Sending
<1> QED
  BY <1>1, <1>2 DEF HeldAncestor, OwnStray

LEMMA MergeConflictKept ==
    ASSUME IInv, OwnInv, KeepInv, NEW d \in Device, MergeConflict(d)
    PROVE  OwnInv' /\ KeepInv'
<1>1. CASE attempt[d] + 1 < ConflictAttempts
  <2>1. /\ step[d] = "mergeConflict" /\ step'[d] = "get"
        /\ UNCHANGED <<hist, rev, page, slice, entry, view, saveSeq, cache, parked, sent, seqMark,
                       mine0, lastMerged, strays, removed, touched, torn>>
        /\ \A e \in Device : e # d => Frame(e)
    BY <1>1 DEF IInv, MergeConflict, TypeOK, FlightTypes, Frame, serverVars, slotVars, historyVars
  <2>2. Alone(d)
    BY <2>1 DEF Alone
  <2>3. ASSUME ~torn' PROVE OwnDevice(d)'
    <3>1. OwnDevice(d) /\ (HalfRebased(d)' = HalfRebased(d))
      BY <2>1, <2>3 DEF OwnInv, HalfRebased
    <3> QED
      BY <2>1, <3>1 DEF OwnDevice, OwnEntry, OwnMerge, OwnPut, Own, Resolving, Sending
  <2>4. ASSUME ~torn', NEW x \in Obj, x \notin removed' PROVE KeptAt(d, x)'
    <3>1. KeptAt(d, x) /\ Safe(x)' = Safe(x)
      BY <2>1, <2>4 DEF KeepInv, Safe
    <3> QED
      BY <2>1, <3>1, KeptSame
  <2> QED
    BY <2>1, <2>2, <2>3, <2>4, AloneKept
<1>2. CASE ~(attempt[d] + 1 < ConflictAttempts)
  <2>1. /\ step[d] \in Busy /\ PreservePendingMerge(d) /\ FlightOver(d)
        /\ UNCHANGED <<hist, rev, page, slice, saveSeq, cache, parked, strays, removed, touched, torn>>
    BY <1>2 DEF MergeConflict, Busy, Resolving, serverVars, slotVars, historyVars
  <2> QED
    BY <2>1, GiveUpKept
<1> QED
  BY <1>1, <1>2

LEMMA LinkFailsKept ==
    ASSUME IInv, OwnInv, KeepInv, NEW d \in Device, LinkFails(d)
    PROVE  OwnInv' /\ KeepInv'
<1>1. step[d] \in Busy
  BY DEF LinkFails, IInv, TypeOK, FlightTypes, FlightSteps, Busy, Resolving
<1>2. /\ PreservePendingMerge(d) /\ FlightOver(d)
      /\ UNCHANGED <<hist, rev, page, slice, saveSeq, cache, parked, removed, touched, torn>>
      /\ strays' = IF step[d] \in {"put", "mergePut"} THEN strays \cup {sent[d]} ELSE strays
  BY DEF LinkFails, serverVars, slotVars, historyVars
<1>3. ASSUME ~torn', NEW p \in strays', p \notin strays PROVE OwnStray(p)'
  <2>1. p = sent[d] /\ step[d] \in {"put", "mergePut"}
    BY <1>2, <1>3
  <2>2. OwnStray(p)
    BY <1>2, <1>3, <2>1, SentStray DEF OwnInv
  <2> QED
    BY <1>2, <2>2 DEF OwnStray, Own
<1> QED
  BY <1>1, <1>2, <1>3, GiveUpKept

LEMMA PollAnsweredKept ==
    ASSUME IInv, OwnInv, KeepInv, NEW d \in Device, PollAnswered(d)
    PROVE  OwnInv' /\ KeepInv'
<1>1. UNCHANGED <<hist, rev, page, slice, saveSeq, cache, parked, step, sent, seqMark, mine0,
                  lastMerged, ansRev, attempt, strays, removed, touched, torn>>
  BY DEF PollAnswered, serverVars, slotVars, flightVars, historyVars
<1>2. CASE Adopts(d)
  <2> DEFINE blob == hist[pollRev[d]]
  <2>1. /\ entry'[d] = [workspace |-> blob, base |-> blob, baseRev |-> pollRev[d],
                        dirty |-> FALSE, shape |-> NoShape]
        /\ view'[d] = blob /\ ~entry[d].dirty /\ pollRev[d] \in 0..rev
        /\ \A e \in Device : e # d => entry'[e] = entry[e] /\ view'[e] = view[e]
    BY <1>2 DEF PollAnswered, Adopts, IInv, TypeOK, EngineTypes, PollTypes
  <2>2. /\ entry'[d].workspace = blob /\ entry'[d].base = blob /\ entry'[d].dirty = FALSE
    BY <2>1
  <2>3. step[d] \notin Busy /\ lastMerged[d] = Null
    BY <2>1 DEF IInv, DevInv, PageInv, ViewInv, Busy
  <2>4. Alone(d)
    BY <1>1, <2>1 DEF Alone, Frame
  <2>5. ASSUME ~torn' PROVE OwnDevice(d)'
    <3>1. OwnDevice(d)
      BY <1>1, <2>5 DEF OwnInv
    <3> QED
      BY <1>1, <2>2, <2>3, <3>1, OwnRefl
         DEF OwnDevice, OwnEntry, OwnMerge, OwnPut, Own, Busy, Sending, Resolving
  <2>6. ASSUME ~torn', NEW x \in Obj, x \notin removed' PROVE KeptAt(d, x)'
    <3>1. KeptAt(d, x) /\ Stays(x) /\ Safe(x)' = Safe(x)
      BY <1>1, <2>6 DEF KeepInv, Safe
    <3>2. blob[x] # Absent => Safe(x)
      BY <2>1, <3>1, SafeAt
    <3>3. PaidUp(entry[d], x)' /\ (cache'[d] # Null => PaidUp(cache[d], x)')
      BY <1>1, <2>2, <3>1, <3>2 DEF KeptAt, PaidUp
    <3>4. Beyond(d, x)'
      BY <1>1, <2>1, <2>2, <2>3, <3>1, <3>2 DEF Beyond
    <3>5. Carried(d, x)'
      BY <1>1, <2>1, <2>3, <3>1 DEF KeptAt, Carried, HalfRebased
    <3> QED
      BY <3>3, <3>4, <3>5 DEF KeptAt
  <2> QED
    BY <1>1, <2>4, <2>5, <2>6, AloneKept
<1>3. CASE ~Adopts(d)
  BY <1>1, <1>3, StillKept DEF PollAnswered, serverVars, engineVars, slotVars, flightVars, historyVars
<1> QED
  BY <1>2, <1>3

\* The entry goes to the slot: the cache timer, a hidden tab.
LEMMA SlotTaken ==
    ASSUME IInv, OwnInv, KeepInv, NEW d \in Device, page[d] = "open",
           UNCHANGED <<hist, rev, page, slice, entry, view, saveSeq, step, sent, seqMark, mine0,
                       lastMerged, ansRev, parked, removed, touched>>,
           torn' = (torn \/ HalfRebased(d)),
           cache'[d] = entry[d], \A e \in Device : e # d => cache'[e] = cache[e],
           ~torn' => \A p \in strays' : p \notin strays => OwnStray(p)'
    PROVE  OwnInv' /\ KeepInv'
<1>1. Alone(d)
  BY DEF Alone, Frame
<1>2. ASSUME ~torn' PROVE OwnDevice(d) /\ Own(d, entry[d].base, entry[d].workspace)
  BY <1>2, CachedKept DEF OwnInv
<1>3. ASSUME ~torn' PROVE OwnDevice(d)'
  BY <1>2, <1>3 DEF OwnDevice, OwnEntry, OwnMerge, OwnPut, Own, HalfRebased
<1>4. ASSUME ~torn', NEW x \in Obj, x \notin removed' PROVE KeptAt(d, x)'
  <2>1. KeptAt(d, x) /\ Safe(x)' = Safe(x) /\ ~HalfRebased(d)
    BY <1>4 DEF KeepInv, Safe
  <2>2. ~HalfRebased(d)' /\ RebasedWorkspace(d)' = entry[d].workspace
    BY <2>1 DEF HalfRebased, RebasedWorkspace
  <2>3. PaidUp(entry[d], x)' /\ PaidUp(cache[d], x)'
    BY <2>1 DEF KeptAt, PaidUp
  <2>4. Beyond(d, x)'
    BY <2>1 DEF KeptAt, Beyond
  <2>5. Carried(d, x)'
    BY <2>2 DEF Carried
  <2> QED
    BY <2>3, <2>4, <2>5 DEF KeptAt
<1> QED
  BY <1>1, <1>3, <1>4, AloneKept

LEMMA CacheTimerKept ==
    ASSUME IInv, OwnInv, KeepInv, NEW d \in Device, CacheTimer(d)
    PROVE  OwnInv' /\ KeepInv'
<1>1. /\ page[d] = "open" /\ torn' = (torn \/ HalfRebased(d))
      /\ UNCHANGED <<hist, rev, page, slice, entry, view, saveSeq, step, sent, seqMark, mine0,
                     lastMerged, ansRev, parked, strays, removed, touched>>
      /\ cache'[d] = entry[d] /\ \A e \in Device : e # d => cache'[e] = cache[e]
  BY DEF CacheTimer, IInv, TypeOK, SlotTypes, serverVars, engineVars, flightVars
<1> QED
  BY <1>1, SlotTaken

LEMMA HideKept ==
    ASSUME IInv, OwnInv, KeepInv, NEW d \in Device, Hide(d)
    PROVE  OwnInv' /\ KeepInv'
<1>1. /\ page[d] = "open" /\ torn' = (torn \/ HalfRebased(d))
      /\ UNCHANGED <<hist, rev, page, slice, entry, view, saveSeq, step, sent, seqMark, mine0,
                     lastMerged, ansRev, parked, removed, touched>>
      /\ cache'[d] = entry[d] /\ \A e \in Device : e # d => cache'[e] = cache[e]
      /\ strays' = IF entry[d].dirty
                   THEN strays \cup {PutOf(d, entry[d].workspace, entry[d].baseRev)}
                   ELSE strays
  BY DEF Hide, IInv, TypeOK, SlotTypes, serverVars, engineVars, flightVars
<1>2. ASSUME ~torn', NEW p \in strays', p \notin strays PROVE OwnStray(p)'
  <2>1. p.workspace = entry[d].workspace /\ p.baseRev = entry[d].baseRev
    BY <1>1, <1>2 DEF PutOf
  <2>2. Own(d, entry[d].base, entry[d].workspace)
    BY <1>1, <1>2, CachedKept DEF OwnInv
  <2>3. HeldAncestor(entry[d])
    BY DEF IInv, DevInv, EntriesInv
  <2> QED
    BY <1>1, <2>1, <2>2, <2>3 DEF OwnStray, Own, HeldAncestor
<1> QED
  BY <1>1, <1>2, SlotTaken

\* The end of a page leaves its device with what the cache holds, or just got.
LEMMA PageGoneKept ==
    ASSUME IInv, OwnInv, KeepInv, NEW d \in Device, PageGone(d), page[d] # "closed",
           UNCHANGED <<hist, rev, parked, removed, touched>>, torn => torn',
           \/ cache'[d] = cache[d]
           \/ cache'[d] = entry[d] /\ (HalfRebased(d) => torn'),
           \A e \in Device : e # d => cache'[e] = cache[e]
    PROVE  OwnInv' /\ KeepInv'
<1>1. /\ TypeOK /\ FlightOver(d)
      /\ strays' = IF step[d] \in {"put", "mergePut"} THEN strays \cup {sent[d]} ELSE strays
  BY DEF PageGone, IInv
<1>2. page'[d] = "closed" /\ entry'[d] = BlankEntry
  BY <1>1 DEF PageGone, TypeOK, EngineTypes
<1>3. Alone(d)
  <2>1. \A e \in Device : e # d => Frame(e) /\ mine0'[e] = mine0[e]
    BY <1>1, FlightOverFrame DEF PageGone, Frame, FlightOver, TypeOK, EngineTypes, FlightTypes
  <2> QED
    BY <2>1 DEF Alone
<1>4. ASSUME ~torn' PROVE OwnDevice(d)'
  <2>1. OwnDevice(d)
    BY <1>4 DEF OwnInv
  <2>2. Own(d, BlankEntry.base, BlankEntry.workspace)
    BY OwnRefl DEF Own, BlankEntry
  <2>3. cache'[d] # Null => Own(d, cache'[d].base, cache'[d].workspace)
    BY <1>4, <2>1, CachedKept DEF OwnDevice, OwnEntry
  <2> QED
    BY <1>1, <1>2, <2>2, <2>3, FlightOverOwn DEF Own
<1>5. ASSUME ~torn', NEW x \in Obj, x \notin removed' PROVE KeptAt(d, x)'
  <2>1. KeptAt(d, x) /\ Safe(x)' = Safe(x)
    BY <1>5 DEF KeepInv, Safe
  <2>2. cache'[d] # Null => PaidUp(cache[d], x)'
    BY <2>1 DEF KeptAt, PaidUp
  <2> QED
    BY <1>1, <1>2, <2>2, FlightOverKept
<1>6. ASSUME ~torn', NEW p \in strays', p \notin strays PROVE OwnStray(p)'
  <2>1. p = sent[d] /\ step[d] \in {"put", "mergePut"}
    BY <1>1, <1>6
  <2>2. OwnStray(p)
    BY <1>6, <2>1, SentStray DEF OwnInv
  <2> QED
    BY <2>2 DEF OwnStray, Own
<1> QED
  BY <1>3, <1>4, <1>5, <1>6, AloneKept

LEMMA CloseKept ==
    ASSUME IInv, OwnInv, KeepInv, NEW d \in Device, Close(d)
    PROVE  OwnInv' /\ KeepInv'
<1>1. /\ PageGone(d) /\ page[d] # "closed" /\ torn' = (torn \/ HalfRebased(d))
      /\ UNCHANGED <<hist, rev, parked, removed, touched>>
      /\ cache'[d] = entry[d] /\ \A e \in Device : e # d => cache'[e] = cache[e]
  BY DEF Close, IInv, TypeOK, SlotTypes, serverVars
<1> QED
  BY <1>1, PageGoneKept

LEMMA CrashKept ==
    ASSUME IInv, OwnInv, KeepInv, NEW d \in Device, Crash(d)
    PROVE  OwnInv' /\ KeepInv'
<1>1. /\ PageGone(d) /\ page[d] # "closed" /\ torn' = torn
      /\ UNCHANGED <<hist, rev, parked, removed, touched, cache>>
  BY DEF Crash, serverVars, slotVars, historyVars
<1> QED
  BY <1>1, PageGoneKept

LEMMA NudgeKept ==
    ASSUME IInv, OwnInv, KeepInv, NEW d \in Device,
           Nudge(d) \/ PollAsk(d) \/ PollServed(d)
    PROVE  OwnInv' /\ KeepInv'
BY StillKept DEF Nudge, PollAsk, PollServed

LEMMA KeptInit == Init => OwnInv /\ KeepInv
<1> SUFFICES ASSUME Init PROVE OwnInv /\ KeepInv
  OBVIOUS
<1>1. OwnInv
  BY OwnRefl DEF Init, OwnInv, OwnDevice, OwnEntry, OwnMerge, OwnPut, Own, BlankEntry,
                 Resolving, Sending
<1>2. KeepInv
  BY DEF Init, KeepInv, Stays, KeptAt, Beyond, Carried, HalfRebased, EmptyWorkspace
<1> QED
  BY <1>1, <1>2

LEMMA KeptNext ==
    ASSUME IInv, OwnInv, KeepInv, [Next]_vars
    PROVE  OwnInv' /\ KeepInv'
<1>1. CASE EditStep
  BY <1>1, SaveKept, MachineWriteKept DEF EditStep
<1>2. ASSUME NEW d \in Device, Protocol(d)
      PROVE  OwnInv' /\ KeepInv'
  BY <1>2, OpenKept, OpenAnsweredKept, FlushKept, PushAcceptedKept, PushConflictKept,
     MergeAndPushKept, MergeAcceptedKept, MergeConflictKept, ServerPutKept, ServerGetKept,
     NudgeKept, PollAnsweredKept DEF Protocol
<1>3. CASE SystemStep
  BY <1>2, <1>3, OpenUnansweredKept, LinkFailsKept, NudgeKept, CacheTimerKept, HideKept,
     CloseKept, CrashKept, ServerStrayKept DEF SystemStep
<1>4. CASE UNCHANGED vars
  BY <1>4, StillKept DEF vars
<1> QED
  BY <1>1, <1>3, <1>4 DEF Next

LEMMA KeptInvariance == Spec => [](IInv /\ OwnInv /\ KeepInv)
<1>1. Init => OwnInv /\ KeepInv
  BY KeptInit
<1>2. IInv /\ OwnInv /\ KeepInv /\ [Next]_vars => OwnInv' /\ KeepInv'
  BY KeptNext
<1> QED
  BY <1>1, <1>2, Invariance, PTL DEF Spec

\* A push in flight changes nothing on the server but what its own user changed: through
\* merges of merges, edits on top of a merge, slices, reloads and teardowns, as long as no
\* cache write and no beacon took a half-rebased entry.
THEOREM PushOwnSafe == Spec => []PushesOwnChangesOnly
<1>1. ASSUME IInv, OwnInv PROVE PushesOwnChangesOnly
  <2> SUFFICES ASSUME NEW d \in Device, ~torn, step[d] \in {"put", "mergePut"},
                      NEW o \in sent[d].keys,
                      sent[d].workspace[o] # hist[sent[d].baseRev][o]
               PROVE  o \in touched[d]
    BY DEF PushesOwnChangesOnly
  <2>1. o \in Obj
    BY <1>1 DEF IInv, TypeOK, FlightTypes, Put
  <2>2. sent[d].baseRev = entry[d].baseRev /\ entry[d].base = hist[entry[d].baseRev]
    BY <1>1 DEF IInv, DevInv, FlightInv, EntriesInv, HeldAncestor, Sending
  <2>3. Own(d, entry[d].base, sent[d].workspace)
    BY <1>1 DEF OwnInv, OwnDevice, OwnPut, Sending
  <2> QED
    BY <2>1, <2>2, <2>3 DEF Own, Accounted
<1> QED
  BY <1>1, KeptInvariance, PTL

-----------------------------------------------------------------------------
(* What a step may never do *)

\* The server's blobs change by a commit only, and no cache write comes with it.
LEMMA ServerStep ==
    ASSUME IInv, [Next]_vars
    PROVE  UNCHANGED serverVars \/ (torn' = torn /\ \E blob \in Workspace : Commit(blob))
<1>1. ASSUME NEW o \in Obj, NEW c \in Content, MachineWrite(o, c)
      PROVE  torn' = torn /\ \E blob \in Workspace : Commit(blob)
  <2>1. [hist[rev] EXCEPT ![o] = c] \in Workspace
    BY WorkspaceTypes DEF IInv, TypeOK, ServerTypes
  <2> QED
    BY <1>1, <2>1 DEF MachineWrite
<1>2. ASSUME NEW d \in Device, ServerPut(d), ~UNCHANGED serverVars
      PROVE  torn' = torn /\ \E blob \in Workspace : Commit(blob)
  <2>1. Stored(sent[d]) \in Workspace
    BY StoredType DEF IInv, TypeOK, FlightTypes
  <2> QED
    BY <1>2, <2>1 DEF ServerPut, historyVars
<1>3. ASSUME NEW p \in strays, ServerStray(p), ~UNCHANGED serverVars
      PROVE  torn' = torn /\ \E blob \in Workspace : Commit(blob)
  <2>1. Stored(p) \in Workspace
    BY StoredType DEF IInv, TypeOK, ServerTypes
  <2> QED
    BY <1>3, <2>1 DEF ServerStray, historyVars
<1>4. ASSUME NEW d \in Device, Protocol(d), ~ServerPut(d)
      PROVE  UNCHANGED serverVars
  BY <1>4 DEF Protocol, Open, OpenAnswered, Flush, PushAccepted, PushConflict, MergeAndPush,
              MergeAccepted, MergeConflict, ServerGet, PollAsk, PollServed, PollAnswered
<1>5. ASSUME NEW d \in Device,
             \/ OpenUnanswered(d) \/ LinkFails(d) \/ Nudge(d)
             \/ CacheTimer(d) \/ Hide(d) \/ Close(d) \/ Crash(d)
      PROVE  UNCHANGED serverVars
  BY <1>5 DEF OpenUnanswered, LinkFails, Nudge, CacheTimer, Hide, Close, Crash
<1>6. ASSUME NEW d \in Device, NEW o \in Obj, NEW c \in Content, Save(d, o, c)
      PROVE  UNCHANGED serverVars
  BY <1>6 DEF Save
<1>7. CASE UNCHANGED vars
  BY <1>7 DEF vars
<1> QED
  BY <1>1, <1>2, <1>3, <1>4, <1>5, <1>6, <1>7 DEF Next, EditStep, SystemStep

\* A slot changes when a page opens it for a narrower session, or takes the page's entry.
SlotStep(d) ==
    \/ cache'[d] = cache[d]
    \/ /\ cache[d] # Null /\ cache'[d] # Null
       /\ cache'[d].dirty = cache[d].dirty /\ cache'[d].workspace = cache[d].workspace
    \/ /\ page[d] # "closed" /\ cache'[d] = entry[d] /\ entry[d] # Null
       /\ HalfRebased(d) => torn'

LEMMA OpenSlot ==
    ASSUME IInv, NEW d \in Device, NEW carries \in Sessions[d], Open(d, carries)
    PROVE  \A e \in Device : SlotStep(e) /\ parked[e] \subseteq parked'[e]
<1> DEFINE found == IF cache[d] = Null THEN BlankEntry ELSE cache[d]
           parks == MustPark(found, carries)
<1>1. found \in Entry /\ carries \in SUBSET Obj
  BY BlankTypes, SessionsAssumption DEF IInv, TypeOK, SlotTypes
<1>2. /\ parked' = IF parks THEN [parked EXCEPT ![d] = @ \cup {found.workspace}] ELSE parked
      /\ cache' = IF parks THEN [cache EXCEPT ![d] = [found EXCEPT !.shape = carries]] ELSE cache
  BY DEF Open
<1>3. parks => cache[d] # Null /\ found = cache[d]
  BY DEF MustPark, BlankEntry
<1> HIDE DEF parks, found
<1>4. \A e \in Device : parked[e] \subseteq parked'[e]
  BY <1>2 DEF IInv, TypeOK, SlotTypes
<1>5. ASSUME NEW e \in Device PROVE SlotStep(e)
  <2>1. CASE parks /\ e = d
    <3>1. cache'[d] = [found EXCEPT !.shape = carries]
      BY <1>2, <2>1 DEF IInv, TypeOK, SlotTypes
    <3>2. cache'[d] \in Entry /\ cache'[d].workspace = found.workspace /\ cache'[d].dirty = found.dirty
      BY <1>1, <3>1, NarrowedEntry
    <3> QED
      BY <1>3, <2>1, <3>2, NullAssumption DEF SlotStep, Entry
  <2>2. CASE ~(parks /\ e = d)
    BY <1>2, <2>2 DEF SlotStep, IInv, TypeOK, SlotTypes
  <2> QED
    BY <2>1, <2>2
<1> QED
  BY <1>4, <1>5

LEMMA EntrySlot ==
    ASSUME IInv, NEW d \in Device, Flush(d) \/ CacheTimer(d) \/ Hide(d) \/ Close(d)
    PROVE  \A e \in Device : SlotStep(e) /\ parked[e] \subseteq parked'[e]
<1>1. /\ page[d] = "open" /\ cache' = [cache EXCEPT ![d] = entry[d]] /\ parked' = parked
      /\ HalfRebased(d) => torn'
  <2>1. CASE Flush(d)
    BY <2>1 DEF Flush, HalfRebased, IInv, DevInv, ViewInv, Resolving
  <2>2. CASE CacheTimer(d) \/ Hide(d) \/ Close(d)
    BY <2>2 DEF CacheTimer, Hide, Close
  <2> QED
    BY <2>1, <2>2
<1>2. entry[d] # Null
  BY NullAssumption DEF IInv, TypeOK, EngineTypes, Entry
<1> QED
  BY <1>1, <1>2 DEF SlotStep, IInv, TypeOK, SlotTypes

LEMMA SlotsStep ==
    ASSUME IInv, [Next]_vars
    PROVE  \A e \in Device : SlotStep(e) /\ parked[e] \subseteq parked'[e]
<1>1. UNCHANGED slotVars => \A e \in Device : SlotStep(e) /\ parked[e] \subseteq parked'[e]
  BY DEF slotVars, SlotStep
<1>2. ASSUME NEW d \in Device, Protocol(d),
             ~(Flush(d) \/ \E carries \in Sessions[d] : Open(d, carries))
      PROVE  UNCHANGED slotVars
  BY <1>2 DEF Protocol, OpenAnswered, PushAccepted, PushConflict, MergeAndPush, MergeAccepted,
              MergeConflict, ServerPut, ServerGet, PollAsk, PollServed, PollAnswered
<1>3. ASSUME NEW d \in Device, OpenUnanswered(d) \/ LinkFails(d) \/ Nudge(d) \/ Crash(d)
      PROVE  UNCHANGED slotVars
  BY <1>3 DEF OpenUnanswered, LinkFails, Nudge, Crash
<1>4. ASSUME EditStep \/ (\E p \in strays : ServerStray(p)) \/ UNCHANGED vars
      PROVE  UNCHANGED slotVars
  BY <1>4 DEF EditStep, Save, MachineWrite, ServerStray, vars
<1> QED
  BY <1>1, <1>2, <1>3, <1>4, OpenSlot, EntrySlot DEF Next, SystemStep

\* What nobody deleted stays on the server, whatever commits.
LEMMA ServerVanishes ==
    ASSUME IInv, KeepInv', [Next]_vars, NEW o \in Obj,
           hist[rev][o] # Absent, hist'[rev'][o] = Absent
    PROVE  torn \/ o \in removed'
<1>1. PICK blob \in Workspace : Commit(blob) /\ torn' = torn
  BY ServerStep DEF serverVars
<1>2. Grows /\ rev' = rev + 1
  BY <1>1, CommitGrows DEF IInv
<1>3. hist'[rev] = hist[rev] /\ rev \in 0..rev' /\ rev' \in 0..rev'
  BY <1>2 DEF Grows
<1>4. ~torn /\ o \notin removed' => Stays(o)'
  BY <1>1 DEF KeepInv
<1> QED
  BY <1>2, <1>3, <1>4 DEF Stays, Grows

\* An object leaves the server only when somebody deleted it, in every behaviour without
\* a cache write or beacon of a half-rebased entry.
THEOREM VanishSafe == Spec => VanishesOnlyIfRemoved
<1>1. IInv /\ KeepInv' /\ [Next]_vars =>
         [\A o \in Obj : hist[rev][o] # Absent /\ hist'[rev'][o] = Absent
                           => torn \/ o \in removed']_vars
  BY ServerVanishes
<1> QED
  BY <1>1, KeptInvariance, PTL DEF Spec, VanishesOnlyIfRemoved

\* What was deleted or torn stays so.
LEMMA HistoryStep ==
    ASSUME [Next]_vars
    PROVE  (torn => torn') /\ removed \subseteq removed'
<1>1. ASSUME NEW d \in Device, Protocol(d)
      PROVE  UNCHANGED historyVars
  BY <1>1 DEF Protocol, Open, OpenAnswered, Flush, PushAccepted, PushConflict, MergeAndPush,
              MergeAccepted, MergeConflict, ServerPut, ServerGet, PollAsk, PollServed, PollAnswered
<1>2. ASSUME NEW d \in Device, OpenUnanswered(d) \/ LinkFails(d) \/ Nudge(d) \/ Crash(d)
      PROVE  UNCHANGED historyVars
  BY <1>2 DEF OpenUnanswered, LinkFails, Nudge, Crash
<1>3. ASSUME NEW d \in Device, CacheTimer(d) \/ Hide(d) \/ Close(d)
      PROVE  (torn => torn') /\ removed' = removed
  BY <1>3 DEF CacheTimer, Hide, Close
<1>4. ASSUME EditStep
      PROVE  torn' = torn /\ removed \subseteq removed'
  BY <1>4 DEF EditStep, Save, MachineWrite
<1>5. ASSUME (\E p \in strays : ServerStray(p)) \/ UNCHANGED vars
      PROVE  UNCHANGED historyVars
  BY <1>5 DEF ServerStray, vars
<1> QED
  BY <1>1, <1>2, <1>3, <1>4, <1>5 DEF Next, SystemStep, historyVars

LEMMA WorkStays ==
    ASSUME IInv, KeepInv, KeepInv', [Next]_vars, NEW o \in Obj,
           Durable(o), o \notin removed', ~torn'
    PROVE  Durable(o)'
<1>1. /\ \A d \in Device : SlotStep(d) /\ parked[d] \subseteq parked'[d]
      /\ ~torn /\ o \notin removed
  BY SlotsStep, HistoryStep
<1>2. Safe(o) => Durable(o)'
  <2>1. hist[rev][o] # Absent => hist'[rev'][o] # Absent
    BY <1>1, ServerVanishes
  <2>2. Safe(o) => Safe(o)'
    BY <1>1, <2>1, SafeGrows
  <2> QED
    BY <2>2 DEF Safe, Durable
<1>3. ASSUME NEW d \in Device, cache[d] # Null, cache[d].dirty, cache[d].workspace[o] # Absent
      PROVE  Durable(o)'
  <2>1. KeptAt(d, o)
    BY <1>1 DEF KeepInv
  <2>2. CASE \/ cache'[d] = cache[d]
             \/ /\ cache[d] # Null /\ cache'[d] # Null
                /\ cache'[d].dirty = cache[d].dirty /\ cache'[d].workspace = cache[d].workspace
    BY <1>3, <2>2 DEF Durable
  <2>3. CASE /\ page[d] # "closed" /\ cache'[d] = entry[d] /\ entry[d] # Null
             /\ HalfRebased(d) => torn'
    <3>1. RebasedWorkspace(d) = entry[d].workspace
      BY <2>3 DEF RebasedWorkspace
    <3>2. Safe(o) \/ (entry[d].dirty /\ entry[d].workspace[o] # Absent)
      BY <1>3, <2>1, <2>3, <3>1 DEF KeptAt, Carried
    <3> QED
      BY <1>2, <2>3, <3>2 DEF Durable
  <2> QED
    BY <1>1, <2>2, <2>3 DEF SlotStep
<1> QED
  BY <1>2, <1>3 DEF Durable, Safe

\* Work that is on the server, or unsynced in an offline cache, is lost only to a delete:
\* through every order of edits, pushes, conflicts, reloads in narrower sessions, failures
\* and crashes, as long as no cache write and no beacon took a half-rebased entry.
THEOREM WorkSafe == Spec => NoWorkLost
<1>1. IInv /\ KeepInv /\ KeepInv' /\ [Next]_vars =>
         [\A o \in Obj : Durable(o) /\ o \notin removed' /\ ~torn' => Durable(o)']_vars
  BY WorkStays
<1> QED
  BY <1>1, KeptInvariance, PTL DEF Spec, NoWorkLost

-----------------------------------------------------------------------------
(* A delete wins *)

\* The server has had o, by revision k.
HadBy(o, k) == \E r \in 0..k : hist[r][o] # Absent
\* ...and no longer has it there.
GoneAt(o, k) == HadBy(o, k) /\ hist[k][o] = Absent

\* Device d's user added o, and the engine has not yet heard that the server has it.
Fresh(d, o) ==
    /\ additions[o] = 1 /\ maker[o] = d
    /\ \/ ~HadBy(o, rev)
       \/ step[d] \in {"putOk", "mergeOk"} /\ o \in slice[d] /\ sent[d].workspace[o] # Absent
\* An object that is in `to` and was not in `from` is such a one.
OnlyFresh(d, o, from, to) == to[o] # Absent /\ from[o] = Absent => Fresh(d, o)

FreshEntry(d, o) ==
    /\ lastMerged[d] = Null => OnlyFresh(d, o, entry[d].base, entry[d].workspace)
    /\ lastMerged[d] # Null => OnlyFresh(d, o, entry[d].base, lastMerged[d])
    /\ step[d] \in Resolving => OnlyFresh(d, o, mine0[d], view[d])
FreshPut(d, o) ==
    /\ step[d] \in {"put", "mergePut"} /\ o \in slice[d] =>
          OnlyFresh(d, o, entry[d].base, sent[d].workspace)
    /\ step[d] \in {"put", "putOk"} => OnlyFresh(d, o, sent[d].workspace, entry[d].workspace)
ShowsFresh(d, o) ==
    page[d] = "open" /\ view[d][o] # Absent => Fresh(d, o) \/ HadBy(o, entry[d].baseRev)
FreshAt(d, o) == FreshEntry(d, o) /\ FreshPut(d, o) /\ ShowsFresh(d, o)

\* d's entry lacks what its ancestor has, and will be pushed so.
Deletes(d, o) ==
    /\ entry[d].dirty /\ o \in slice[d]
    /\ entry[d].base[o] # Absent /\ RebasedWorkspace(d)[o] = Absent

\* What the server no longer has does not come back; a delete is there, or on its way.
StaysGone(o) == \A r \in 0..rev, s \in 0..rev : r <= s /\ GoneAt(o, r) => hist[s][o] = Absent
DeleteHeld(o) ==
    \A w \in remover[o] : w # maker[o] => GoneAt(o, rev) \/ (w \in Device /\ Deletes(w, o))
LifeOf(o) ==
    /\ additions[o] = 0 => remover[o] = {} /\ ~HadBy(o, rev)
    /\ StaysGone(o) /\ DeleteHeld(o)
    /\ \A d \in Device : FreshAt(d, o)

\* Without failures and teardowns a page is opened once and stays.
Calm(d) ==
    /\ page[d] # "open" => ~entry[d].dirty /\ cache[d] = Null
    /\ step[d] \in {"opening", "opened"} => page[d] = "opening"
    /\ step[d] \in {"got", "putOk", "mergeOk"} => entry[d].baseRev <= ansRev[d]
    /\ step[d] \in {"mergePut", "mergeOk"} => sent[d].workspace = lastMerged[d]
    /\ lastMerged[d] # Null =>
          entry[d].workspace = IF HalfRebased(d) THEN view[d] ELSE lastMerged[d]
ObserverTypes ==
    /\ additions \in [Obj -> Nat]
    /\ maker \in [Obj -> Device \cup {Null}]
    /\ remover \in [Obj -> SUBSET (Device \cup {Null})]
LifeInv ==
    /\ ObserverTypes
    /\ strays = {} /\ \A d \in Device : Calm(d)
    /\ \A o \in Obj : additions[o] <= 1 => LifeOf(o)

\* Only device d changed; the server's blobs and the record of who did what did not.
Lone(d) ==
    /\ UNCHANGED <<hist, rev>> /\ UNCHANGED observers
    /\ \A e \in Device : e # d => Frame(e) /\ mine0'[e] = mine0[e]

LEMMA HadGrows ==
    ASSUME Grows, NEW o, NEW k \in 0..rev
    PROVE  HadBy(o, k) <=> \E r \in 0..k : hist'[r][o] # Absent
<1>1. \A r \in 0..k : hist'[r] = hist[r]
  BY DEF Grows
<1> QED
  BY <1>1 DEF HadBy

LEMMA HadLater ==
    ASSUME IInv, NEW o, NEW j \in 0..rev, NEW k \in 0..rev, j <= k, HadBy(o, j)
    PROVE  HadBy(o, k)
BY DEF HadBy

\* What is gone at some revision is gone now.
LEMMA GoneNow ==
    ASSUME IInv, NEW o, StaysGone(o), NEW k \in 0..rev, GoneAt(o, k)
    PROVE  GoneAt(o, rev)
<1>1. rev \in 0..rev /\ k <= rev
  BY DEF IInv, TypeOK, ServerTypes
<1>2. HadBy(o, rev)
  BY <1>1, HadLater DEF GoneAt
<1>3. hist[rev][o] = Absent
  BY <1>1 DEF StaysGone
<1> QED
  BY <1>2, <1>3 DEF GoneAt

\* Where the ancestor has it, the server has had it.
LEMMA HadBase ==
    ASSUME IInv, NEW d \in Device, NEW o, entry[d].base[o] # Absent
    PROVE  HadBy(o, entry[d].baseRev) /\ HadBy(o, rev)
<1>1. entry[d].baseRev \in 0..rev /\ entry[d].base = hist[entry[d].baseRev] /\ rev \in Nat
  BY DEF IInv, DevInv, EntriesInv, HeldAncestor, TypeOK, ServerTypes
<1>2. entry[d].baseRev \in 0..entry[d].baseRev
  BY <1>1
<1> QED
  BY <1>1, <1>2 DEF HadBy

\* Nothing of device e's changed, and a fresh object of its is not on the server by another's
\* hand.
LEMMA FreshFrame ==
    ASSUME IInv, Grows, NEW e \in Device, NEW o, Frame(e), mine0'[e] = mine0[e],
           maker'[o] = maker[o], additions'[o] = additions[o],
           Fresh(e, o) /\ ~HadBy(o, rev) => ~HadBy(o, rev)'
    PROVE  /\ FreshAt(e, o) => FreshAt(e, o)'
           /\ Deletes(e, o) => Deletes(e, o)'
<1>1. Fresh(e, o) => Fresh(e, o)'
  BY DEF Fresh, Frame
<1>2. \A a, b : OnlyFresh(e, o, a, b) => (b[o] # Absent /\ a[o] = Absent => Fresh(e, o)')
  BY <1>1 DEF OnlyFresh
<1>3. HadBy(o, entry[e].baseRev) => HadBy(o, entry[e].baseRev)'
  <2>1. entry[e].baseRev \in 0..rev
    BY DEF IInv, DevInv, EntriesInv, HeldAncestor
  <2> QED
    BY <2>1, HadGrows DEF HadBy, Frame
<1>4. FreshEntry(e, o) => FreshEntry(e, o)'
  BY <1>2 DEF FreshEntry, OnlyFresh, Frame
<1>5. FreshPut(e, o) => FreshPut(e, o)'
  BY <1>2 DEF FreshPut, OnlyFresh, Frame
<1>6. ShowsFresh(e, o) => ShowsFresh(e, o)'
  BY <1>1, <1>3 DEF ShowsFresh, Frame
<1>7. RebasedWorkspace(e)' = RebasedWorkspace(e)
  BY DEF HalfRebased, RebasedWorkspace, Merge, Frame
<1> QED
  BY <1>4, <1>5, <1>6, <1>7 DEF FreshAt, Deletes, Frame

LEMMA CalmFrame ==
    ASSUME NEW e \in Device, Frame(e), Calm(e)
    PROVE  Calm(e)'
<1>1. HalfRebased(e)' = HalfRebased(e)
  BY DEF HalfRebased, Frame
<1> QED
  BY <1>1 DEF Calm, Frame

\* A step of device d alone: what remains to be looked at is d's.
LEMMA LoneLife ==
    ASSUME IInv, LifeInv, NEW d \in Device, Lone(d), strays' = strays, Calm(d)',
           \A o \in Obj : LifeOf(o) /\ additions[o] <= 1 =>
               /\ FreshAt(d, o)'
               /\ Deletes(d, o) => GoneAt(o, rev) \/ Deletes(d, o)'
    PROVE  LifeInv'
<1>1. /\ UNCHANGED <<hist, rev, maker, additions, remover>>
      /\ \A e \in Device : e # d => Frame(e) /\ mine0'[e] = mine0[e]
  BY DEF Lone, observers
<1>2. Grows
  BY <1>1, UnchangedGrows DEF IInv, serverVars
<1>3. \A e \in Device : Calm(e)'
  <2>1. \A e \in Device : e # d => Calm(e)'
    BY <1>1, CalmFrame DEF LifeInv
  <2> QED
    BY <2>1
<1>4. ASSUME NEW o \in Obj, additions[o] <= 1 PROVE LifeOf(o)'
  <2>1. LifeOf(o)
    BY <1>4 DEF LifeInv
  <2>2. HadBy(o, rev)' = HadBy(o, rev) /\ GoneAt(o, rev)' = GoneAt(o, rev)
    BY <1>1 DEF HadBy, GoneAt
  <2>3. StaysGone(o)'
    BY <1>1, <2>1 DEF LifeOf, StaysGone, GoneAt, HadBy
  <2>4. ASSUME NEW e \in Device, e # d
        PROVE  FreshAt(e, o)' /\ (Deletes(e, o) => Deletes(e, o)')
    BY <1>1, <1>2, <2>1, <2>2, <2>4, FreshFrame DEF LifeOf
  <2>5. FreshAt(d, o)' /\ (Deletes(d, o) => GoneAt(o, rev) \/ Deletes(d, o)')
    BY <1>4, <2>1
  <2>6. \A e \in Device : FreshAt(e, o)'
    BY <2>4, <2>5
  <2>7. \A e \in Device : Deletes(e, o) => GoneAt(o, rev) \/ Deletes(e, o)'
    BY <2>4, <2>5
  <2>8. DeleteHeld(o)'
    BY <1>1, <2>1, <2>2, <2>7 DEF LifeOf, DeleteHeld
  <2> QED
    BY <1>1, <2>1, <2>2, <2>3, <2>6, <2>8 DEF LifeOf
<1>5. ObserverTypes'
  BY <1>1 DEF LifeInv, ObserverTypes
<1> QED
  BY <1>1, <1>3, <1>4, <1>5 DEF LifeInv

\* Nothing changed that the invariant reads.
LEMMA StillLife ==
    ASSUME IInv, LifeInv, UNCHANGED <<hist, rev, strays>>, UNCHANGED observers,
           \A e \in Device : Frame(e) /\ mine0'[e] = mine0[e]
    PROVE  LifeInv'
<1>1. Grows
  BY UnchangedGrows DEF IInv, serverVars
<1>2. UNCHANGED <<maker, additions, remover>>
  BY DEF observers
<1>3. \A e \in Device : Calm(e)'
  BY CalmFrame DEF LifeInv
<1>4. ASSUME NEW o \in Obj, additions[o] <= 1 PROVE LifeOf(o)'
  <2>1. LifeOf(o)
    BY <1>4 DEF LifeInv
  <2>2. HadBy(o, rev)' = HadBy(o, rev) /\ GoneAt(o, rev)' = GoneAt(o, rev)
    BY DEF HadBy, GoneAt
  <2>3. StaysGone(o)'
    BY <2>1 DEF LifeOf, StaysGone, GoneAt, HadBy
  <2>4. \A e \in Device : FreshAt(e, o)' /\ (Deletes(e, o) => Deletes(e, o)')
    BY <1>1, <1>2, <2>1, <2>2, FreshFrame DEF LifeOf
  <2>5. DeleteHeld(o)'
    BY <1>2, <2>1, <2>2, <2>4 DEF LifeOf, DeleteHeld
  <2> QED
    BY <1>2, <2>1, <2>2, <2>3, <2>4, <2>5 DEF LifeOf
<1> QED
  BY <1>2, <1>3, <1>4 DEF LifeInv, ObserverTypes

\* What the engine would push holds an object its ancestor lacks, or its last merge, only if
\* it is fresh.
LEMMA RebasedFresh ==
    ASSUME IInv, NEW d \in Device, NEW o \in Obj, Calm(d), FreshEntry(d, o)
    PROVE  /\ OnlyFresh(d, o, entry[d].base, RebasedWorkspace(d))
           /\ lastMerged[d] # Null => OnlyFresh(d, o, lastMerged[d], RebasedWorkspace(d))
<1>1. CASE lastMerged[d] = Null
  BY <1>1 DEF FreshEntry, RebasedWorkspace, HalfRebased
<1>2. CASE lastMerged[d] # Null
  <2>1. OnlyFresh(d, o, mine0[d], view[d]) /\ OnlyFresh(d, o, entry[d].base, lastMerged[d])
    BY <1>2 DEF FreshEntry, IInv, DevInv, ViewInv
  <2>2. \/ RebasedWorkspace(d) = lastMerged[d]
        \/ RebasedWorkspace(d) = Merge(d, mine0[d], view[d], lastMerged[d])
    BY <1>2 DEF Calm, RebasedWorkspace
  <2>3. OnlyFresh(d, o, lastMerged[d], RebasedWorkspace(d))
    BY <2>1, <2>2 DEF OnlyFresh, Merge, LandedSlice, MergeById, Survives
  <2> QED
    BY <2>1, <2>3 DEF OnlyFresh
<1> QED
  BY <1>1, <1>2

\* Once a flush (or init) is over, the entry and the screen remain to be looked at.
LEMMA FlightOverLife ==
    ASSUME IInv, IInv', NEW d \in Device, NEW o \in Obj, FlightOver(d),
           OnlyFresh(d, o, entry[d].base, entry[d].workspace)',
           page'[d] = "open" => view'[d] = entry'[d].workspace
    PROVE  FreshAt(d, o)'
<1>1. step'[d] = "idle" /\ lastMerged'[d] = Null
  BY DEF FlightOver, IInv, TypeOK, FlightTypes
<1>2. FreshEntry(d, o)' /\ FreshPut(d, o)'
  BY <1>1 DEF FreshEntry, FreshPut, Resolving
<1>3. entry'[d].base[o] # Absent => HadBy(o, entry[d].baseRev)'
  <2>1. /\ entry'[d].baseRev \in 0..rev' /\ entry'[d].base = hist'[entry'[d].baseRev]
        /\ rev' \in Nat
    BY DEF IInv, DevInv, EntriesInv, HeldAncestor, TypeOK, ServerTypes
  <2>2. entry'[d].baseRev \in 0..entry'[d].baseRev
    BY <2>1
  <2> QED
    BY <2>1, <2>2 DEF HadBy
<1>4. ShowsFresh(d, o)'
  BY <1>3 DEF ShowsFresh, OnlyFresh
<1> QED
  BY <1>2, <1>4 DEF FreshAt

LEMMA OpenLife ==
    ASSUME IInv, IInv', LifeInv, NEW d \in Device, NEW carries \in Sessions[d],
           Open(d, carries), UNCHANGED observers
    PROVE  LifeInv'
<1>1. Calm(d) /\ page[d] = "closed" /\ cache[d] = Null /\ lastMerged[d] = Null
      /\ step[d] \notin Busy
  BY DEF LifeInv, Open, Calm, IInv, DevInv, PageInv, ViewInv, Busy
<1>2. /\ entry'[d] = BlankEntry /\ cache' = cache /\ page'[d] = "opening"
      /\ step'[d] = "opening" /\ lastMerged' = lastMerged
      /\ UNCHANGED <<hist, rev, strays>>
      /\ \A e \in Device : e # d => Frame(e) /\ mine0'[e] = mine0[e]
  BY <1>1 DEF Open, IInv, TypeOK, EngineTypes, FlightTypes, MustPark, BlankEntry, Frame, serverVars
<1>3. Lone(d)
  BY <1>2 DEF Lone
<1>4. ~entry'[d].dirty /\ \A o \in Obj : entry'[d].workspace[o] = Absent
  BY <1>2 DEF BlankEntry, EmptyWorkspace
<1>5. Calm(d)'
  BY <1>1, <1>2, <1>4 DEF Calm
<1>6. ASSUME NEW o \in Obj PROVE FreshAt(d, o)' /\ ~Deletes(d, o)
  BY <1>1, <1>2, <1>4, <1>5 DEF FreshAt, FreshEntry, FreshPut, ShowsFresh, OnlyFresh, Resolving,
                                Deletes, Calm
<1> QED
  BY <1>2, <1>3, <1>5, <1>6, LoneLife

LEMMA OpenAnsweredLife ==
    ASSUME IInv, IInv', LifeInv, NEW d \in Device, OpenAnswered(d), UNCHANGED observers
    PROVE  LifeInv'
<1>1. /\ Calm(d) /\ step[d] = "opened" /\ ~entry[d].dirty /\ cache[d] = Null
      /\ FlightOver(d)
  BY DEF LifeInv, OpenAnswered, Calm
<1>2. /\ entry'[d] = [workspace |-> hist[ansRev[d]], base |-> hist[ansRev[d]],
                      baseRev |-> ansRev[d], dirty |-> FALSE, shape |-> NoShape]
      /\ view'[d] = entry'[d].workspace /\ page'[d] = "open" /\ cache' = cache
      /\ UNCHANGED <<hist, rev, strays>>
      /\ \A e \in Device : e # d =>
            /\ entry'[e] = entry[e] /\ view'[e] = view[e] /\ page'[e] = page[e]
            /\ slice'[e] = slice[e] /\ saveSeq'[e] = saveSeq[e] /\ cache'[e] = cache[e]
  BY <1>1 DEF OpenAnswered, IInv, TypeOK, EngineTypes, serverVars, slotVars
<1>3. Lone(d)
  BY <1>1, <1>2, FlightOverFrame DEF Lone, Frame, FlightOver, IInv, TypeOK, FlightTypes
<1>4. step'[d] = "idle" /\ lastMerged'[d] = Null
  BY <1>1 DEF FlightOver, IInv, TypeOK, FlightTypes
<1>5. Calm(d)'
  BY <1>2, <1>4 DEF Calm
<1>6. ASSUME NEW o \in Obj PROVE FreshAt(d, o)' /\ ~Deletes(d, o)
  <2>1. OnlyFresh(d, o, entry[d].base, entry[d].workspace)'
    BY <1>2 DEF OnlyFresh
  <2> QED
    BY <1>1, <1>2, <2>1, FlightOverLife DEF Deletes
<1> QED
  BY <1>2, <1>3, <1>5, <1>6, LoneLife

LEMMA FlushLife ==
    ASSUME IInv, IInv', LifeInv, NEW d \in Device, Flush(d), UNCHANGED observers
    PROVE  LifeInv'
<1>1. /\ Calm(d) /\ step[d] = "idle" /\ lastMerged[d] = Null /\ page[d] = "open"
  BY DEF LifeInv, Flush, IInv, DevInv, ViewInv, Resolving
<1>2. /\ step'[d] = "put" /\ sent'[d].workspace = entry[d].workspace
      /\ UNCHANGED <<hist, rev, strays, entry, view, page, slice, lastMerged, mine0>>
      /\ \A e \in Device : e # d => Frame(e)
  BY DEF Flush, IInv, TypeOK, FlightTypes, SlotTypes, PutOf, Frame, serverVars, engineVars
<1>3. Lone(d)
  BY <1>2 DEF Lone
<1>4. RebasedWorkspace(d) = entry[d].workspace /\ RebasedWorkspace(d)' = entry'[d].workspace
  BY <1>1, <1>2 DEF RebasedWorkspace, HalfRebased
<1>5. Calm(d)'
  BY <1>1, <1>2 DEF Calm
<1>6. ASSUME NEW o \in Obj, LifeOf(o)
      PROVE  FreshAt(d, o)' /\ (Deletes(d, o) => Deletes(d, o)')
  <2>1. FreshAt(d, o)
    BY <1>6 DEF LifeOf
  <2>2. /\ Fresh(d, o) => Fresh(d, o)'
        /\ HadBy(o, entry[d].baseRev)' = HadBy(o, entry[d].baseRev)
    BY <1>1, <1>2 DEF Fresh, HadBy, observers
  <2>3. OnlyFresh(d, o, entry[d].base, entry[d].workspace)'
    BY <1>1, <1>2, <2>1, <2>2 DEF FreshAt, FreshEntry, OnlyFresh
  <2>4. FreshEntry(d, o)'
    BY <1>1, <1>2, <2>3 DEF FreshEntry, Resolving
  <2>5. FreshPut(d, o)'
    BY <1>2, <2>3 DEF FreshPut, OnlyFresh
  <2>6. ShowsFresh(d, o)'
    BY <1>2, <2>1, <2>2 DEF FreshAt, ShowsFresh
  <2> QED
    BY <1>2, <1>4, <2>4, <2>5, <2>6 DEF FreshAt, Deletes
<1> QED
  BY <1>2, <1>3, <1>5, <1>6, LoneLife

\* A PUT that landed: what the engine takes as its ancestor has what the server has, and a
\* delete it did not carry is still owed.
LEMMA PushAcceptedLife ==
    ASSUME IInv, IInv', LifeInv, NEW d \in Device, PushAccepted(d), UNCHANGED observers
    PROVE  LifeInv'
<1>1. /\ Calm(d) /\ step[d] = "putOk" /\ FlightOver(d) /\ lastMerged[d] = Null
      /\ page[d] = "open" /\ view[d] = entry[d].workspace /\ entry[d] \in Entry
      /\ hist[ansRev[d]] = Landed(d) /\ ansRev[d] \in 0..rev
      /\ ~StillDirty(d) => entry[d].workspace = sent[d].workspace
      /\ entry[d].baseRev \in 0..rev /\ entry[d].baseRev <= ansRev[d]
  BY DEF LifeInv, PushAccepted, IInv, DevInv, ViewInv, PageInv, FlightInv, EntriesInv, HeldAncestor,
         Calm, Resolving, Busy, Sending, TypeOK, EngineTypes, FlightTypes
<1>2. /\ entry'[d] = [entry[d] EXCEPT !.base = Landed(d), !.baseRev = ansRev[d],
                                      !.dirty = StillDirty(d)]
      /\ UNCHANGED <<hist, rev, strays, view, page, slice, cache, saveSeq>>
      /\ \A e \in Device : e # d => entry'[e] = entry[e]
  BY <1>1 DEF PushAccepted, IInv, TypeOK, EngineTypes, serverVars, slotVars
<1>3. /\ entry'[d].workspace = entry[d].workspace /\ entry'[d].base = Landed(d)
      /\ entry'[d].dirty = StillDirty(d)
  BY <1>1, <1>2, EntryExceptFields
<1>4. Lone(d)
  BY <1>1, <1>2, FlightOverFrame DEF Lone, Frame, FlightOver, IInv, TypeOK, FlightTypes
<1>5. step'[d] = "idle" /\ lastMerged'[d] = Null
  BY <1>1 DEF FlightOver, IInv, TypeOK, FlightTypes
<1>6. Calm(d)'
  BY <1>1, <1>2, <1>5 DEF Calm
<1>7. ASSUME NEW o \in Obj, LifeOf(o)
      PROVE  FreshAt(d, o)' /\ (Deletes(d, o) => GoneAt(o, rev) \/ Deletes(d, o)')
  <2>1. FreshAt(d, o) /\ StaysGone(o)
    BY <1>7 DEF LifeOf
  <2>2. Fresh(d, o) /\ (o \in slice[d] => sent[d].workspace[o] = Absent) => Fresh(d, o)'
    BY <1>2 DEF Fresh, HadBy, observers
  <2>3. /\ OnlyFresh(d, o, entry[d].base, entry[d].workspace)
        /\ OnlyFresh(d, o, sent[d].workspace, entry[d].workspace)
    BY <1>1, <2>1 DEF FreshAt, FreshEntry, FreshPut
  <2>4. Landed(d)[o] = IF o \in slice[d] THEN sent[d].workspace[o] ELSE entry[d].base[o]
    BY DEF Landed, LandedSlice
  <2>5. OnlyFresh(d, o, entry[d].base, entry[d].workspace)'
    BY <1>3, <2>2, <2>3, <2>4 DEF OnlyFresh
  <2>6. FreshAt(d, o)'
    BY <1>1, <1>2, <1>3, <2>5, FlightOverLife
  <2>7. ASSUME Deletes(d, o) PROVE GoneAt(o, rev) \/ Deletes(d, o)'
    <3>1. entry[d].workspace[o] = Absent /\ entry[d].base[o] # Absent /\ o \in slice[d]
      BY <1>1, <2>7 DEF Deletes, RebasedWorkspace, HalfRebased
    <3>2. CASE sent[d].workspace[o] # Absent
      <4>1. RebasedWorkspace(d)' = entry'[d].workspace
        BY <1>5 DEF RebasedWorkspace, HalfRebased
      <4> QED
        BY <1>1, <1>2, <1>3, <2>4, <3>1, <3>2, <4>1 DEF Deletes
    <3>3. CASE sent[d].workspace[o] = Absent
      <4>1. HadBy(o, ansRev[d])
        BY <1>1, <3>1, HadBase, HadLater
      <4>2. GoneAt(o, ansRev[d])
        BY <1>1, <2>4, <3>1, <3>3, <4>1 DEF GoneAt
      <4> QED
        BY <1>1, <2>1, <4>2, GoneNow
    <3> QED
      BY <3>2, <3>3
  <2> QED
    BY <2>6, <2>7
<1> QED
  BY <1>2, <1>4, <1>6, <1>7, LoneLife

LEMMA PushConflictLife ==
    ASSUME IInv, IInv', LifeInv, NEW d \in Device, PushConflict(d), UNCHANGED observers
    PROVE  LifeInv'
<1>1. /\ Calm(d) /\ step[d] = "putConflict" /\ lastMerged[d] = Null /\ page[d] = "open"
      /\ view[d] = entry[d].workspace
  BY DEF LifeInv, PushConflict, IInv, DevInv, ViewInv, PageInv, Resolving, Busy
<1>2. /\ step'[d] = "get" /\ mine0'[d] = entry[d].workspace
      /\ UNCHANGED <<hist, rev, strays, entry, view, page, slice, lastMerged, saveSeq, seqMark,
                     sent, cache>>
      /\ \A e \in Device : e # d => Frame(e) /\ mine0'[e] = mine0[e]
  BY <1>1 DEF PushConflict, IInv, TypeOK, FlightTypes, Frame, serverVars, engineVars, slotVars
<1>3. Lone(d)
  BY <1>2 DEF Lone
<1>4. RebasedWorkspace(d) = entry[d].workspace /\ RebasedWorkspace(d)' = entry'[d].workspace
  BY <1>1, <1>2 DEF RebasedWorkspace, HalfRebased
<1>5. Calm(d)'
  BY <1>1, <1>2 DEF Calm
<1>6. ASSUME NEW o \in Obj, LifeOf(o)
      PROVE  FreshAt(d, o)' /\ (Deletes(d, o) => Deletes(d, o)')
  <2>1. FreshAt(d, o)
    BY <1>6 DEF LifeOf
  <2>2. /\ Fresh(d, o) => Fresh(d, o)'
        /\ HadBy(o, entry[d].baseRev)' = HadBy(o, entry[d].baseRev)
    BY <1>1, <1>2 DEF Fresh, HadBy, observers
  <2>3. FreshEntry(d, o)'
    BY <1>1, <1>2, <2>1, <2>2 DEF FreshAt, FreshEntry, OnlyFresh
  <2>4. FreshPut(d, o)'
    BY <1>2 DEF FreshPut
  <2>5. ShowsFresh(d, o)'
    BY <1>2, <2>1, <2>2 DEF FreshAt, ShowsFresh
  <2> QED
    BY <1>2, <1>4, <2>3, <2>4, <2>5 DEF FreshAt, Deletes
<1> QED
  BY <1>2, <1>3, <1>5, <1>6, LoneLife

LEMMA ServerGetLife ==
    ASSUME IInv, IInv', LifeInv, NEW d \in Device, ServerGet(d), UNCHANGED observers
    PROVE  LifeInv'
<1>1. /\ Calm(d) /\ step[d] \in {"get", "opening"} /\ entry[d].baseRev \in 0..rev /\ rev \in Nat
  BY DEF LifeInv, ServerGet, IInv, DevInv, EntriesInv, HeldAncestor, TypeOK, ServerTypes
<1>2. /\ step'[d] = (IF step[d] = "get" THEN "got" ELSE "opened") /\ ansRev'[d] = rev
      /\ UNCHANGED <<hist, rev, strays, entry, view, page, slice, lastMerged, saveSeq, seqMark,
                     sent, cache, mine0>>
      /\ \A e \in Device : e # d => Frame(e)
  BY DEF ServerGet, IInv, TypeOK, FlightTypes, Frame, serverVars, engineVars, slotVars
<1>3. Lone(d)
  BY <1>2 DEF Lone
<1>4. RebasedWorkspace(d)' = RebasedWorkspace(d) /\ HalfRebased(d)' = HalfRebased(d)
  BY <1>2 DEF RebasedWorkspace, HalfRebased, Merge
<1>5. Calm(d)'
  BY <1>1, <1>2, <1>4 DEF Calm
<1>6. ASSUME NEW o \in Obj, LifeOf(o)
      PROVE  FreshAt(d, o)' /\ (Deletes(d, o) => Deletes(d, o)')
  <2>1. FreshAt(d, o)
    BY <1>6 DEF LifeOf
  <2>2. /\ Fresh(d, o) => Fresh(d, o)'
        /\ HadBy(o, entry[d].baseRev)' = HadBy(o, entry[d].baseRev)
    BY <1>1, <1>2 DEF Fresh, HadBy, observers
  <2>3. FreshEntry(d, o)'
    BY <1>1, <1>2, <2>1, <2>2 DEF FreshAt, FreshEntry, OnlyFresh, Resolving
  <2>4. FreshPut(d, o)'
    BY <1>1, <1>2 DEF FreshPut
  <2>5. ShowsFresh(d, o)'
    BY <1>2, <2>1, <2>2 DEF FreshAt, ShowsFresh
  <2> QED
    BY <1>2, <1>4, <2>3, <2>4, <2>5 DEF FreshAt, Deletes
<1> QED
  BY <1>2, <1>3, <1>5, <1>6, LoneLife

\* The union holds what the server's copy holds and no more than what is fresh; a delete
\* goes on to be owed.
LEMMA MergeAndPushLife ==
    ASSUME IInv, IInv', LifeInv, NEW d \in Device, MergeAndPush(d), UNCHANGED observers
    PROVE  LifeInv'
<1> DEFINE server == hist[ansRev[d]]
           merged == Merge(d, entry[d].base, RebasedWorkspace(d), server)
<1>1. /\ entry'[d] = [entry[d] EXCEPT !.workspace = merged, !.base = server,
                                      !.baseRev = ansRev[d], !.dirty = TRUE]
      /\ sent'[d] = PutOf(d, merged, ansRev[d])
      /\ step[d] = "got" /\ step'[d] = "mergePut"
      /\ seqMark'[d] = saveSeq[d] /\ lastMerged'[d] = merged
      /\ UNCHANGED <<hist, rev, page, slice, view, saveSeq, cache, mine0, strays, ansRev>>
      /\ \A e \in Device : e # d => Frame(e)
  BY DEF IInv, MergeAndPush, TypeOK, EngineTypes, FlightTypes, Frame, serverVars, slotVars
<1>2. /\ Calm(d) /\ entry[d] \in Entry /\ ansRev[d] \in 0..rev /\ page[d] = "open"
      /\ entry[d].baseRev \in 0..rev /\ entry[d].baseRev <= ansRev[d] /\ merged \in Workspace
      /\ RebasedWorkspace(d) \in Workspace
  <2>1. /\ Calm(d) /\ entry[d] \in Entry /\ ansRev[d] \in 0..rev /\ page[d] = "open"
        /\ entry[d].baseRev \in 0..rev /\ entry[d].baseRev <= ansRev[d]
    BY <1>1 DEF LifeInv, Calm, IInv, DevInv, EntriesInv, HeldAncestor, PageInv, Busy, Resolving,
                TypeOK, EngineTypes, FlightTypes
  <2>2. entry[d].base \in Workspace /\ RebasedWorkspace(d) \in Workspace /\ server \in Workspace
    BY <2>1, EntryFields, RebasedType DEF IInv, TypeOK, ServerTypes
  <2> QED
    BY <2>1, <2>2, MergeType DEF IInv
<1>3. \A o \in Obj : merged[o] = IF o \in slice[d]
                                 THEN Survives(entry[d].base[o], RebasedWorkspace(d)[o], server[o])
                                 ELSE server[o]
  BY DEF Merge, LandedSlice, MergeById
<1> HIDE DEF merged
<1>4. /\ entry'[d].workspace = merged /\ entry'[d].base = server /\ entry'[d].baseRev = ansRev[d]
      /\ entry'[d].dirty = TRUE /\ sent'[d].workspace = merged
  BY <1>1, <1>2, EntryExceptFields DEF PutOf
<1>5. Lone(d)
  BY <1>1 DEF Lone
<1>6. ~HalfRebased(d)' /\ RebasedWorkspace(d)' = merged /\ merged # Null
  BY <1>1, <1>2, <1>4, NullAssumption DEF HalfRebased, RebasedWorkspace
<1>7. Calm(d)'
  BY <1>1, <1>2, <1>4, <1>6 DEF Calm
<1>8. ASSUME NEW o \in Obj, LifeOf(o)
      PROVE  FreshAt(d, o)' /\ (Deletes(d, o) => GoneAt(o, rev) \/ Deletes(d, o)')
  <2>1. FreshAt(d, o) /\ StaysGone(o)
    BY <1>8 DEF LifeOf
  <2>2. Fresh(d, o) => Fresh(d, o)'
    BY <1>1 DEF Fresh, HadBy, observers
  <2>3. OnlyFresh(d, o, entry[d].base, RebasedWorkspace(d))
    BY <1>2, <2>1, RebasedFresh DEF FreshAt
  <2>4. merged[o] # Absent /\ server[o] = Absent => Fresh(d, o)'
    BY <1>3, <2>2, <2>3 DEF OnlyFresh, Survives
  <2>5. FreshEntry(d, o)'
    BY <1>1, <1>4, <1>6, <2>1, <2>2, <2>4 DEF FreshAt, FreshEntry, OnlyFresh, Resolving
  <2>6. FreshPut(d, o)'
    BY <1>1, <1>4, <2>4 DEF FreshPut, OnlyFresh
  <2>7. HadBy(o, entry[d].baseRev) => HadBy(o, entry[d].baseRev)'
    <3>1. HadBy(o, entry[d].baseRev) => HadBy(o, ansRev[d])
      BY <1>2, HadLater
    <3> QED
      BY <1>1, <1>4, <3>1 DEF HadBy
  <2>8. ShowsFresh(d, o)'
    BY <1>1, <2>1, <2>2, <2>7 DEF FreshAt, ShowsFresh
  <2>9. ASSUME Deletes(d, o) PROVE GoneAt(o, rev) \/ Deletes(d, o)'
    <3>1. merged[o] = Absent
      BY <1>3, <2>9 DEF Deletes, Survives
    <3>2. CASE server[o] # Absent
      BY <1>1, <1>4, <1>6, <2>9, <3>1, <3>2 DEF Deletes
    <3>3. CASE server[o] = Absent
      <4>1. HadBy(o, ansRev[d])
        BY <1>2, <2>9, HadBase, HadLater DEF Deletes
      <4> QED
        BY <1>2, <2>1, <3>3, <4>1, GoneNow DEF GoneAt
    <3> QED
      BY <3>2, <3>3
  <2> QED
    BY <2>5, <2>6, <2>8, <2>9 DEF FreshAt
<1> QED
  BY <1>1, <1>5, <1>7, <1>8, LoneLife

LEMMA MergeAcceptedLife ==
    ASSUME IInv, IInv', LifeInv, NEW d \in Device, MergeAccepted(d), UNCHANGED observers
    PROVE  LifeInv'
<1>1. /\ Calm(d) /\ step[d] = "mergeOk" /\ FlightOver(d)
      /\ page[d] = "open" /\ entry[d] \in Entry
      /\ hist[ansRev[d]] = Landed(d) /\ ansRev[d] \in 0..rev
      /\ ~StillDirty(d) => entry[d].workspace = sent[d].workspace
      /\ entry[d].baseRev \in 0..rev /\ entry[d].baseRev <= ansRev[d]
      /\ sent[d].workspace = lastMerged[d] /\ lastMerged[d] # Null
  <2>1. /\ Calm(d) /\ step[d] = "mergeOk" /\ FlightOver(d) /\ sent[d].workspace = lastMerged[d]
        /\ sent[d].workspace \in Workspace
    BY DEF LifeInv, MergeAccepted, Calm, IInv, TypeOK, FlightTypes, Put
  <2> QED
    BY <2>1, NullAssumption DEF IInv, DevInv, PageInv, FlightInv, EntriesInv, HeldAncestor, Calm,
             Resolving, Busy, Sending, TypeOK, EngineTypes, FlightTypes
<1>2. /\ entry'[d] = [entry[d] EXCEPT !.workspace = RebasedWorkspace(d), !.base = Landed(d),
                                      !.baseRev = ansRev[d], !.dirty = StillDirty(d)]
      /\ view'[d] = RebasedWorkspace(d)
      /\ UNCHANGED <<hist, rev, strays, page, slice, cache, saveSeq>>
      /\ \A e \in Device : e # d => entry'[e] = entry[e] /\ view'[e] = view[e]
  BY <1>1 DEF MergeAccepted, IInv, TypeOK, EngineTypes, serverVars, slotVars
<1>3. /\ entry'[d].workspace = RebasedWorkspace(d) /\ entry'[d].base = Landed(d)
      /\ entry'[d].dirty = StillDirty(d)
  BY <1>1, <1>2, EntryExceptFields
<1>4. Lone(d)
  BY <1>1, <1>2, FlightOverFrame DEF Lone, Frame, FlightOver, IInv, TypeOK, FlightTypes
<1>5. step'[d] = "idle" /\ lastMerged'[d] = Null
  BY <1>1 DEF FlightOver, IInv, TypeOK, FlightTypes
<1>6. Calm(d)'
  BY <1>1, <1>2, <1>5 DEF Calm
<1>7. ~StillDirty(d) => RebasedWorkspace(d) = sent[d].workspace
  BY <1>1 DEF RebasedWorkspace, HalfRebased, StillDirty
<1>8. ASSUME NEW o \in Obj, LifeOf(o)
      PROVE  FreshAt(d, o)' /\ (Deletes(d, o) => GoneAt(o, rev) \/ Deletes(d, o)')
  <2>1. FreshAt(d, o) /\ StaysGone(o)
    BY <1>8 DEF LifeOf
  <2>2. Fresh(d, o) /\ (o \in slice[d] => sent[d].workspace[o] = Absent) => Fresh(d, o)'
    BY <1>2 DEF Fresh, HadBy, observers
  <2>3. /\ OnlyFresh(d, o, entry[d].base, RebasedWorkspace(d))
        /\ OnlyFresh(d, o, sent[d].workspace, RebasedWorkspace(d))
    BY <1>1, <2>1, RebasedFresh DEF FreshAt
  <2>4. Landed(d)[o] = IF o \in slice[d] THEN sent[d].workspace[o] ELSE entry[d].base[o]
    BY DEF Landed, LandedSlice
  <2>5. OnlyFresh(d, o, entry[d].base, entry[d].workspace)'
    BY <1>3, <2>2, <2>3, <2>4 DEF OnlyFresh
  <2>6. FreshAt(d, o)'
    BY <1>1, <1>2, <1>3, <2>5, FlightOverLife
  <2>7. ASSUME Deletes(d, o) PROVE GoneAt(o, rev) \/ Deletes(d, o)'
    <3>1. RebasedWorkspace(d)[o] = Absent /\ entry[d].base[o] # Absent /\ o \in slice[d]
      BY <2>7 DEF Deletes
    <3>2. CASE sent[d].workspace[o] # Absent
      <4>1. RebasedWorkspace(d)' = entry'[d].workspace
        BY <1>5 DEF RebasedWorkspace, HalfRebased
      <4>2. StillDirty(d)
        BY <1>7, <3>1, <3>2
      <4> QED
        BY <1>2, <1>3, <2>4, <3>1, <3>2, <4>1, <4>2 DEF Deletes
    <3>3. CASE sent[d].workspace[o] = Absent
      <4>1. HadBy(o, ansRev[d])
        BY <1>1, <3>1, HadBase, HadLater
      <4>2. GoneAt(o, ansRev[d])
        BY <1>1, <2>4, <3>1, <3>3, <4>1 DEF GoneAt
      <4> QED
        BY <1>1, <2>1, <4>2, GoneNow
    <3> QED
      BY <3>2, <3>3
  <2> QED
    BY <2>6, <2>7
<1> QED
  BY <1>2, <1>4, <1>6, <1>8, LoneLife

LEMMA MergeConflictLife ==
    ASSUME IInv, IInv', LifeInv, NEW d \in Device, MergeConflict(d), UNCHANGED observers
    PROVE  LifeInv'
<1>1. /\ Calm(d) /\ step[d] = "mergeConflict" /\ page[d] = "open" /\ entry[d] \in Entry
      /\ UNCHANGED <<hist, rev, strays, page, slice, cache, saveSeq>>
  BY DEF LifeInv, MergeConflict, IInv, DevInv, PageInv, Busy, Resolving, TypeOK, EngineTypes,
         serverVars, slotVars
<1>2. CASE attempt[d] + 1 < ConflictAttempts
  <2>1. /\ step'[d] = "get"
        /\ UNCHANGED <<entry, view, sent, seqMark, mine0, lastMerged, ansRev>>
        /\ \A e \in Device : e # d => Frame(e)
    BY <1>1, <1>2 DEF MergeConflict, Frame, IInv, TypeOK, FlightTypes
  <2>2. Lone(d)
    BY <1>1, <2>1 DEF Lone
  <2>3. RebasedWorkspace(d)' = RebasedWorkspace(d) /\ HalfRebased(d)' = HalfRebased(d)
    BY <1>1, <2>1 DEF RebasedWorkspace, HalfRebased, Merge
  <2>4. Calm(d)'
    BY <1>1, <2>1, <2>3 DEF Calm
  <2>5. ASSUME NEW o \in Obj, LifeOf(o)
        PROVE  FreshAt(d, o)' /\ (Deletes(d, o) => Deletes(d, o)')
    <3>1. FreshAt(d, o)
      BY <2>5 DEF LifeOf
    <3>2. /\ Fresh(d, o) => Fresh(d, o)'
          /\ HadBy(o, entry[d].baseRev)' = HadBy(o, entry[d].baseRev)
      BY <1>1, <2>1 DEF Fresh, HadBy, observers
    <3>3. FreshEntry(d, o)'
      BY <1>1, <2>1, <3>1, <3>2 DEF FreshAt, FreshEntry, OnlyFresh, Resolving
    <3>4. FreshPut(d, o)'
      BY <2>1 DEF FreshPut
    <3>5. ShowsFresh(d, o)'
      BY <1>1, <2>1, <3>1, <3>2 DEF FreshAt, ShowsFresh
    <3> QED
      BY <1>1, <2>1, <2>3, <3>3, <3>4, <3>5 DEF FreshAt, Deletes
  <2> QED
    BY <1>1, <2>2, <2>4, <2>5, LoneLife
<1>3. CASE ~(attempt[d] + 1 < ConflictAttempts)
  <2>1. PreservePendingMerge(d) /\ FlightOver(d)
    BY <1>3 DEF MergeConflict
  <2>2. /\ entry'[d].workspace = RebasedWorkspace(d) /\ view'[d] = entry'[d].workspace
        /\ entry'[d].base = entry[d].base /\ entry'[d].dirty = entry[d].dirty
        /\ \A e \in Device : e # d => entry'[e] = entry[e] /\ view'[e] = view[e]
    BY <1>1, <2>1, PreserveFields, PreserveRebased DEF IInv
  <2>3. Lone(d)
    BY <1>1, <2>1, <2>2, FlightOverFrame DEF Lone, Frame, FlightOver, IInv, TypeOK, FlightTypes
  <2>4. step'[d] = "idle" /\ lastMerged'[d] = Null
    BY <2>1 DEF FlightOver, IInv, TypeOK, FlightTypes
  <2>5. Calm(d)'
    BY <1>1, <2>4 DEF Calm
  <2>6. RebasedWorkspace(d)' = RebasedWorkspace(d)
    BY <2>2, <2>4 DEF RebasedWorkspace, HalfRebased
  <2>7. ASSUME NEW o \in Obj, LifeOf(o)
        PROVE  FreshAt(d, o)' /\ (Deletes(d, o) => Deletes(d, o)')
    <3>1. Fresh(d, o) => Fresh(d, o)'
      BY <1>1 DEF Fresh, HadBy, observers
    <3>2. OnlyFresh(d, o, entry[d].base, RebasedWorkspace(d))
      BY <1>1, <2>7, RebasedFresh DEF LifeOf, FreshAt
    <3>3. OnlyFresh(d, o, entry[d].base, entry[d].workspace)'
      BY <2>2, <3>1, <3>2 DEF OnlyFresh
    <3>4. FreshAt(d, o)'
      BY <2>1, <2>2, <3>3, FlightOverLife
    <3> QED
      BY <1>1, <2>2, <2>6, <3>4 DEF Deletes
  <2> QED
    BY <1>1, <2>3, <2>5, <2>7, LoneLife
<1> QED
  BY <1>2, <1>3

LEMMA PollAnsweredLife ==
    ASSUME IInv, IInv', LifeInv, NEW d \in Device, PollAnswered(d), UNCHANGED observers
    PROVE  LifeInv'
<1>1. /\ UNCHANGED <<hist, rev, strays, page, slice, saveSeq, cache, step, sent, seqMark, mine0,
                     lastMerged, ansRev>>
      /\ Calm(d)
  BY DEF PollAnswered, serverVars, slotVars, flightVars, LifeInv
<1>2. CASE Adopts(d)
  <2>1. /\ ~entry[d].dirty /\ step[d] \notin Busy /\ lastMerged[d] = Null
        /\ pollRev[d] \in 0..rev
    BY <1>2 DEF Adopts, IInv, DevInv, PageInv, ViewInv, Busy, TypeOK, PollTypes
  <2>2. /\ entry'[d] = [workspace |-> hist[pollRev[d]], base |-> hist[pollRev[d]],
                        baseRev |-> pollRev[d], dirty |-> FALSE, shape |-> NoShape]
        /\ view'[d] = hist[pollRev[d]]
        /\ \A e \in Device : e # d => entry'[e] = entry[e] /\ view'[e] = view[e]
    BY <1>2 DEF PollAnswered, IInv, TypeOK, EngineTypes
  <2>3. Lone(d)
    BY <1>1, <2>2 DEF Lone, Frame
  <2>4. Calm(d)'
    BY <1>1, <2>1, <2>2 DEF Calm, Busy, Resolving
  <2>5. ASSUME NEW o \in Obj PROVE FreshAt(d, o)' /\ ~Deletes(d, o)
    <3>1. OnlyFresh(d, o, entry[d].base, entry[d].workspace)'
      BY <2>2 DEF OnlyFresh
    <3>2. FreshEntry(d, o)' /\ FreshPut(d, o)'
      BY <1>1, <2>1, <3>1 DEF FreshEntry, FreshPut, Busy, Resolving
    <3>3. pollRev[d] \in 0..pollRev[d]
      BY <2>1
    <3>4. ShowsFresh(d, o)'
      BY <1>1, <2>2, <3>3 DEF ShowsFresh, HadBy
    <3> QED
      BY <2>1, <3>2, <3>4 DEF FreshAt, Deletes
  <2> QED
    BY <1>1, <2>3, <2>4, <2>5, LoneLife
<1>3. CASE ~Adopts(d)
  BY <1>1, <1>3, StillLife DEF PollAnswered, Frame
<1> QED
  BY <1>2, <1>3

LEMMA CacheTimerLife ==
    ASSUME IInv, IInv', LifeInv, NEW d \in Device, CacheTimer(d), UNCHANGED observers
    PROVE  LifeInv'
<1>1. /\ page[d] = "open" /\ Calm(d)
      /\ UNCHANGED <<hist, rev, strays, page, slice, entry, view, saveSeq, step, sent, seqMark,
                     mine0, lastMerged, ansRev>>
      /\ \A e \in Device : e # d => Frame(e)
  BY DEF CacheTimer, serverVars, engineVars, flightVars, LifeInv, Frame, IInv, TypeOK, SlotTypes
<1>2. Lone(d)
  BY <1>1 DEF Lone
<1>3. RebasedWorkspace(d)' = RebasedWorkspace(d) /\ HalfRebased(d)' = HalfRebased(d)
  BY <1>1 DEF RebasedWorkspace, HalfRebased, Merge
<1>4. Calm(d)'
  BY <1>1, <1>3 DEF Calm
<1>5. ASSUME NEW o \in Obj, LifeOf(o)
      PROVE  FreshAt(d, o)' /\ (Deletes(d, o) => Deletes(d, o)')
  <2>1. FreshAt(d, o)
    BY <1>5 DEF LifeOf
  <2>2. /\ Fresh(d, o)' = Fresh(d, o)
        /\ HadBy(o, entry[d].baseRev)' = HadBy(o, entry[d].baseRev)
    BY <1>1 DEF Fresh, HadBy, observers
  <2>3. FreshAt(d, o)'
    BY <1>1, <2>1, <2>2 DEF FreshAt, FreshEntry, FreshPut, ShowsFresh, OnlyFresh
  <2> QED
    BY <1>1, <1>3, <2>3 DEF Deletes
<1> QED
  BY <1>1, <1>2, <1>4, <1>5, LoneLife

-----------------------------------------------------------------------------
\* A commit brings back nothing that was there before.
LEMMA CommitLife ==
    ASSUME IInv, NEW blob \in Workspace, Commit(blob), NEW o \in Obj, StaysGone(o),
           blob[o] # Absent /\ hist[rev][o] = Absent => ~HadBy(o, rev)
    PROVE  /\ StaysGone(o)'
           /\ GoneAt(o, rev) => GoneAt(o, rev)'
           /\ HadBy(o, rev)' <=> HadBy(o, rev) \/ blob[o] # Absent
<1>1. Grows /\ rev' = rev + 1 /\ hist'[rev'] = blob
  BY CommitGrows DEF IInv
<1>2. rev \in Nat /\ rev \in 0..rev
  BY DEF IInv, TypeOK, ServerTypes
<1>3. \A r \in 0..rev' : r \in 0..rev \/ r = rev'
  BY <1>1, <1>2
<1>4. \A r \in 0..rev : r \in 0..rev' /\ hist'[r] = hist[r]
  BY <1>1, <1>2 DEF Grows
<1>5. HadBy(o, rev)' <=> HadBy(o, rev) \/ blob[o] # Absent
  BY <1>1, <1>2, <1>3, <1>4 DEF HadBy
<1>6. GoneAt(o, rev) => blob[o] = Absent
  BY DEF GoneAt
<1>7. GoneAt(o, rev) => GoneAt(o, rev)'
  BY <1>1, <1>5, <1>6 DEF GoneAt
<1>8. ASSUME NEW r \in 0..rev', NEW s \in 0..rev', r <= s, GoneAt(o, r)'
      PROVE  hist'[s][o] = Absent
  <2>1. CASE s = rev' /\ r = rev'
    BY <1>8, <2>1 DEF GoneAt
  <2>2. CASE r \in 0..rev
    <3>1. GoneAt(o, r)
      BY <1>1, <1>4, <1>8, <2>2, HadGrows DEF GoneAt, HadBy
    <3>2. CASE s \in 0..rev
      BY <1>4, <1>8, <2>2, <3>1, <3>2 DEF StaysGone
    <3>3. CASE s = rev'
      BY <1>1, <1>6, <2>2, <3>1, <3>3, GoneNow
    <3> QED
      BY <1>3, <3>2, <3>3
  <2>3. CASE r = rev' /\ s \in 0..rev
    BY <1>1, <1>2, <1>8, <2>3
  <2> QED
    BY <1>3, <2>1, <2>2, <2>3
<1> QED
  BY <1>5, <1>7, <1>8 DEF StaysGone

\* The one that can put an object where the server has none is the device whose user added
\* it, once.
LEMMA ServerPutLife ==
    ASSUME IInv, IInv', LifeInv, NEW d \in Device, ServerPut(d), UNCHANGED observers
    PROVE  LifeInv'
<1>1. /\ Calm(d) /\ step[d] \in {"put", "mergePut"} /\ entry[d].baseRev \in 0..rev /\ rev \in Nat
      /\ entry[d].base = hist[entry[d].baseRev]
      /\ sent[d].baseRev = entry[d].baseRev /\ sent[d].keys = slice[d] /\ sent[d] \in Put
  BY DEF LifeInv, ServerPut, IInv, DevInv, EntriesInv, HeldAncestor, FlightInv, Sending, TypeOK,
         ServerTypes, FlightTypes
<1>2. /\ UNCHANGED <<page, slice, entry, view, saveSeq, cache, sent, seqMark, mine0, lastMerged,
                     strays>>
      /\ step'[d] \in {"putOk", "mergeOk", "putConflict", "mergeConflict"}
      /\ \A e \in Device : e # d => Frame(e)
  BY <1>1 DEF ServerPut, engineVars, slotVars, IInv, TypeOK, FlightTypes, Frame
<1>3. RebasedWorkspace(d)' = RebasedWorkspace(d) /\ HalfRebased(d)' = HalfRebased(d)
  BY <1>2 DEF RebasedWorkspace, HalfRebased, Merge
<1>4. CASE sent[d].baseRev # rev
  <2>1. /\ UNCHANGED <<hist, rev>>
        /\ step'[d] \in {"putConflict", "mergeConflict"}
        /\ step'[d] = "mergeConflict" => step[d] = "mergePut"
    BY <1>1, <1>4 DEF ServerPut, serverVars, IInv, TypeOK, FlightTypes
  <2>2. Lone(d)
    BY <1>2, <2>1 DEF Lone
  <2>3. Calm(d)'
    BY <1>1, <1>2, <1>3, <2>1 DEF Calm
  <2>4. ASSUME NEW o \in Obj, LifeOf(o)
        PROVE  FreshAt(d, o)' /\ (Deletes(d, o) => Deletes(d, o)')
    <3>1. FreshAt(d, o)
      BY <2>4 DEF LifeOf
    <3>2. /\ Fresh(d, o) => Fresh(d, o)'
          /\ HadBy(o, entry[d].baseRev)' = HadBy(o, entry[d].baseRev)
      BY <1>1, <1>2, <2>1 DEF Fresh, HadBy, observers
    <3>3. FreshEntry(d, o)'
      BY <1>2, <2>1, <3>1, <3>2 DEF FreshAt, FreshEntry, OnlyFresh, Resolving
    <3>4. FreshPut(d, o)'
      BY <2>1 DEF FreshPut
    <3>5. ShowsFresh(d, o)'
      BY <1>2, <3>1, <3>2 DEF FreshAt, ShowsFresh
    <3> QED
      BY <1>2, <1>3, <3>3, <3>4, <3>5 DEF FreshAt, Deletes
  <2> QED
    BY <1>2, <2>2, <2>3, <2>4, LoneLife
<1>5. CASE sent[d].baseRev = rev
  <2> DEFINE blob == Stored(sent[d])
  <2>1. /\ Commit(blob) /\ blob \in Workspace /\ ansRev'[d] = rev + 1
        /\ step'[d] = IF step[d] = "put" THEN "putOk" ELSE "mergeOk"
    BY <1>1, <1>5, StoredType DEF ServerPut, IInv, TypeOK, FlightTypes
  <2>2. \A o \in Obj : blob[o] = IF o \in slice[d] THEN sent[d].workspace[o] ELSE hist[rev][o]
    BY <1>1 DEF Stored, LandedSlice
  <2> HIDE DEF blob
  <2>3. Grows
    BY <2>1, CommitGrows DEF IInv
  <2>4. UNCHANGED <<maker, additions, remover>>
    BY DEF observers
  <2>5. ASSUME NEW e \in Device PROVE Calm(e)'
    <3>1. CASE e = d
      BY <1>1, <1>2, <1>3, <2>1, <3>1 DEF Calm
    <3>2. CASE e # d
      BY <1>2, <3>2, CalmFrame DEF LifeInv
    <3> QED
      BY <3>1, <3>2
  <2>6. ASSUME NEW o \in Obj, additions[o] <= 1 PROVE LifeOf(o)'
    <3>1. LifeOf(o) /\ FreshAt(d, o)
      BY <2>6 DEF LifeInv, LifeOf
    <3>2. blob[o] # Absent /\ hist[rev][o] = Absent =>
             /\ o \in slice[d] /\ sent[d].workspace[o] # Absent
             /\ Fresh(d, o) /\ ~HadBy(o, rev)
      BY <1>1, <1>5, <2>2, <3>1 DEF FreshAt, FreshPut, OnlyFresh, Fresh
    <3>3. /\ StaysGone(o)'
          /\ GoneAt(o, rev) => GoneAt(o, rev)'
          /\ HadBy(o, rev)' <=> HadBy(o, rev) \/ blob[o] # Absent
      BY <2>1, <3>1, <3>2, CommitLife DEF LifeOf
    <3>4. ~HadBy(o, rev) => hist[rev][o] = Absent
      BY <1>1 DEF HadBy
    <3>5. additions[o] = 0 => ~HadBy(o, rev)'
      BY <3>1, <3>2, <3>3, <3>4 DEF LifeOf, Fresh
    <3>6. ASSUME NEW e \in Device, e # d
          PROVE  FreshAt(e, o)' /\ (Deletes(e, o) => Deletes(e, o)')
      <4>1. Fresh(e, o) /\ ~HadBy(o, rev) => ~HadBy(o, rev)'
        BY <3>2, <3>3, <3>4, <3>6 DEF Fresh
      <4> QED
        BY <1>2, <2>3, <2>4, <3>1, <3>6, <4>1, FreshFrame DEF LifeOf
    <3>7. Fresh(d, o) => Fresh(d, o)'
      BY <1>1, <1>2, <2>1, <2>4, <3>2, <3>3, <3>4 DEF Fresh
    <3>8. FreshAt(d, o)'
      <4>1. FreshEntry(d, o)'
        BY <1>1, <1>2, <2>1, <3>1, <3>7 DEF FreshAt, FreshEntry, OnlyFresh, Resolving
      <4>2. FreshPut(d, o)'
        BY <1>1, <1>2, <2>1, <3>1, <3>7 DEF FreshAt, FreshPut, OnlyFresh
      <4>3. HadBy(o, entry[d].baseRev) => HadBy(o, entry[d].baseRev)'
        BY <1>1, <1>2, <2>3, HadGrows DEF HadBy
      <4>4. ShowsFresh(d, o)'
        BY <1>2, <3>1, <3>7, <4>3 DEF FreshAt, ShowsFresh
      <4> QED
        BY <4>1, <4>2, <4>4 DEF FreshAt
    <3>9. Deletes(d, o) => Deletes(d, o)'
      BY <1>2, <1>3 DEF Deletes
    <3>10. \A e \in Device : FreshAt(e, o)' /\ (Deletes(e, o) => Deletes(e, o)')
      BY <3>6, <3>8, <3>9
    <3>11. DeleteHeld(o)'
      BY <2>4, <3>1, <3>3, <3>10 DEF LifeOf, DeleteHeld
    <3> QED
      BY <2>4, <3>1, <3>3, <3>5, <3>10, <3>11 DEF LifeOf
  <2> QED
    BY <1>2, <2>4, <2>5, <2>6 DEF LifeInv, ObserverTypes
<1> QED
  BY <1>4, <1>5

\* What an edit of x from `was` to c leaves of the record.
LEMMA SetsSpec ==
    ASSUME ObserverTypes, NEW a \in Device \cup {Null}, NEW x \in Obj, NEW was, NEW c,
           Sets(a, x, was, c)
    PROVE  /\ ObserverTypes'
           /\ \A o \in Obj : o # x =>
                 /\ maker'[o] = maker[o] /\ additions'[o] = additions[o]
                 /\ remover'[o] = remover[o]
           /\ was = Absent => maker'[x] = a /\ additions'[x] = additions[x] + 1
           /\ was # Absent => maker'[x] = maker[x] /\ additions'[x] = additions[x]
           /\ c = Absent => remover'[x] = remover[x] \cup {a}
           /\ c # Absent => remover'[x] = remover[x]
BY DEF Sets, ObserverTypes

LEMMA MachineWriteLife ==
    ASSUME IInv, IInv', LifeInv, NEW x \in Obj, NEW c \in Content, MachineWrite(x, c),
           Sets(Null, x, hist[rev][x], c)
    PROVE  LifeInv'
<1> DEFINE blob == [hist[rev] EXCEPT ![x] = c]
<1>1. /\ Commit(blob) /\ blob \in Workspace /\ hist[rev] \in Workspace
      /\ rev \in Nat /\ c # hist[rev][x]
  BY WorkspaceTypes DEF MachineWrite, IInv, TypeOK, ServerTypes
<1>2. blob[x] = c /\ \A o \in Obj : o # x => blob[o] = hist[rev][o]
  BY <1>1 DEF Workspace
<1> HIDE DEF blob
<1>3. /\ UNCHANGED strays
      /\ \A e \in Device : Frame(e) /\ mine0'[e] = mine0[e]
  BY DEF MachineWrite, Frame, engineVars, slotVars, flightVars
<1>4. Grows
  BY <1>1, CommitGrows DEF IInv
<1>5. /\ ObserverTypes'
      /\ \A o \in Obj : o # x =>
            maker'[o] = maker[o] /\ additions'[o] = additions[o] /\ remover'[o] = remover[o]
      /\ hist[rev][x] = Absent => maker'[x] = Null /\ additions'[x] = additions[x] + 1
      /\ hist[rev][x] # Absent => maker'[x] = maker[x] /\ additions'[x] = additions[x]
      /\ c = Absent => remover'[x] = remover[x] \cup {Null}
      /\ c # Absent => remover'[x] = remover[x]
  BY SetsSpec DEF LifeInv
<1>6. \A e \in Device : Calm(e)'
  BY <1>3, CalmFrame DEF LifeInv
<1>7. ASSUME NEW o \in Obj, additions'[o] <= 1 PROVE LifeOf(o)'
  <2>1. additions[o] \in Nat /\ additions[o] <= 1
    BY <1>5, <1>7 DEF LifeInv, ObserverTypes
  <2>2. LifeOf(o)
    BY <2>1 DEF LifeInv
  <2>3. hist[rev][o] # Absent => HadBy(o, rev)
    BY <1>1 DEF HadBy
  <2>4. CASE o # x
    <3>1. blob[o] = hist[rev][o]
      BY <1>2, <2>4
    <3>2. /\ StaysGone(o)'
          /\ GoneAt(o, rev) => GoneAt(o, rev)'
          /\ HadBy(o, rev)' <=> HadBy(o, rev)
      BY <1>1, <2>2, <2>3, <3>1, CommitLife DEF LifeOf
    <3>3. \A e \in Device : FreshAt(e, o)' /\ (Deletes(e, o) => Deletes(e, o)')
      BY <1>3, <1>4, <1>5, <2>2, <2>4, <3>2, FreshFrame DEF LifeOf
    <3>4. DeleteHeld(o)'
      BY <1>5, <2>2, <2>4, <3>2, <3>3 DEF LifeOf, DeleteHeld
    <3> QED
      BY <1>5, <2>2, <2>4, <3>2, <3>3, <3>4 DEF LifeOf
  <2>5. CASE o = x /\ hist[rev][x] # Absent
    <3>1. /\ StaysGone(o)'
          /\ GoneAt(o, rev) => GoneAt(o, rev)'
          /\ HadBy(o, rev)'
      BY <1>1, <2>2, <2>3, <2>5, CommitLife DEF LifeOf
    <3>2. \A e \in Device : FreshAt(e, o)' /\ (Deletes(e, o) => Deletes(e, o)')
      BY <1>3, <1>4, <1>5, <2>2, <2>3, <2>5, FreshFrame DEF LifeOf
    <3>3. DeleteHeld(o)'
      <4>1. CASE c = Absent
        <5>1. hist'[rev'][o] = Absent
          BY <1>1, <1>2, <2>5, <4>1, CommitGrows DEF IInv
        <5>2. GoneAt(o, rev)'
          BY <3>1, <5>1 DEF GoneAt
        <5> QED
          BY <5>2 DEF DeleteHeld
      <4>2. CASE c # Absent
        BY <1>5, <2>2, <2>5, <3>1, <3>2, <4>2 DEF LifeOf, DeleteHeld
      <4> QED
        BY <4>1, <4>2
    <3>4. additions'[o] # 0
      BY <1>5, <2>2, <2>3, <2>5 DEF LifeOf
    <3> QED
      BY <3>1, <3>2, <3>3, <3>4 DEF LifeOf
  <2>6. CASE o = x /\ hist[rev][x] = Absent
    <3>1. /\ additions[o] = 0 /\ additions'[o] = 1 /\ remover[o] = {} /\ ~HadBy(o, rev)
          /\ c # Absent /\ remover'[o] = {}
      BY <1>1, <1>5, <1>7, <2>1, <2>2, <2>6 DEF LifeOf
    <3>2. StaysGone(o)'
      BY <1>1, <2>2, <3>1, CommitLife DEF LifeOf
    <3>3. ASSUME NEW e \in Device PROVE FreshAt(e, o)'
      <4>1. ~Fresh(e, o) /\ FreshAt(e, o)
        BY <2>2, <3>1 DEF Fresh, LifeOf
      <4>2. ~HadBy(o, entry[e].baseRev)
        <5>1. entry[e].baseRev \in 0..rev /\ rev \in 0..rev
          BY <1>1 DEF IInv, DevInv, EntriesInv, HeldAncestor
        <5> QED
          BY <3>1, <5>1, HadLater
      <4> QED
        BY <1>3, <4>1, <4>2 DEF FreshAt, FreshEntry, FreshPut, ShowsFresh, OnlyFresh, Frame
    <3>4. DeleteHeld(o)'
      BY <3>1 DEF DeleteHeld
    <3> QED
      BY <3>1, <3>2, <3>3, <3>4 DEF LifeOf
  <2> QED
    BY <2>4, <2>5, <2>6
<1> QED
  BY <1>3, <1>5, <1>6, <1>7 DEF LifeInv

-----------------------------------------------------------------------------
\* What a save of object x leaves of its device.
LEMMA SaveFacts ==
    ASSUME IInv, NEW d \in Device, NEW x \in Obj, NEW c \in Content, Save(d, x, c)
    PROVE  /\ page[d] = "open" /\ x \in slice[d] /\ c # view[d][x]
           /\ view'[d][x] = c /\ \A o \in Obj : o # x => view'[d][o] = view[d][o]
           /\ entry'[d].workspace = view'[d] /\ entry'[d].base = entry[d].base
           /\ entry'[d].baseRev = entry[d].baseRev /\ entry'[d].dirty
           /\ seqMark[d] # saveSeq'[d]
           /\ UNCHANGED <<hist, rev, strays, page, slice, cache, step, sent, seqMark, mine0,
                          lastMerged, ansRev>>
           /\ \A e \in Device : e # d => Frame(e)
<1>1. /\ entry[d] \in Entry /\ view[d] \in Workspace /\ saveSeq[d] \in Nat
      /\ seqMark[d] \in Nat /\ seqMark[d] <= saveSeq[d]
  BY DEF IInv, DevInv, FlightInv, TypeOK, EngineTypes, FlightTypes
<1>2. /\ view'[d] = [view[d] EXCEPT ![x] = c] /\ saveSeq'[d] = saveSeq[d] + 1
      /\ entry'[d] = [entry[d] EXCEPT !.workspace = view'[d], !.dirty = TRUE, !.shape = slice[d]]
  BY DEF Save, IInv, TypeOK, EngineTypes
<1>3. UNCHANGED <<hist, rev, strays, page, slice, cache, step, sent, seqMark, mine0,
                  lastMerged, ansRev>>
  BY DEF Save, serverVars, slotVars, flightVars
<1>4. \A e \in Device : e # d => Frame(e)
  BY <1>3 DEF Save, IInv, TypeOK, EngineTypes, Frame
<1>5. /\ entry'[d].workspace = view'[d] /\ entry'[d].base = entry[d].base
      /\ entry'[d].baseRev = entry[d].baseRev /\ entry'[d].dirty
  BY <1>1, <1>2, EntryExceptFields
<1>6. view'[d][x] = c /\ \A o \in Obj : o # x => view'[d][o] = view[d][o]
  BY <1>1, <1>2 DEF Workspace
<1>7. seqMark[d] # saveSeq'[d]
  BY <1>1, <1>2
<1>8. page[d] = "open" /\ x \in slice[d] /\ c # view[d][x]
  BY DEF Save
<1> QED
  BY <1>3, <1>4, <1>5, <1>6, <1>7, <1>8

\* What the engine would push after a save.
LEMMA SaveRebases ==
    ASSUME IInv, NEW d \in Device, NEW x \in Obj, NEW c \in Content, Save(d, x, c),
           NEW o \in Obj, o \in slice[d]
    PROVE  /\ lastMerged[d] = Null => RebasedWorkspace(d)'[o] = view'[d][o]
           /\ lastMerged[d] # Null =>
                 RebasedWorkspace(d)'[o] = Survives(mine0[d][o], view'[d][o], lastMerged[d][o])
<1>1. /\ entry'[d].workspace = view'[d] /\ seqMark'[d] # saveSeq'[d]
      /\ lastMerged' = lastMerged /\ mine0' = mine0 /\ slice' = slice
  BY SaveFacts
<1>2. HalfRebased(d)' <=> lastMerged[d] # Null
  BY <1>1 DEF HalfRebased
<1> QED
  BY <1>1, <1>2 DEF RebasedWorkspace, Merge, LandedSlice, MergeById

\* A delete that is owed stays so through an edit that adds nothing.
LEMMA SaveDeletes ==
    ASSUME IInv, NEW d \in Device, NEW x \in Obj, NEW c \in Content, Save(d, x, c),
           NEW o \in Obj, Calm(d), FreshEntry(d, o), Deletes(d, o),
           view'[d][o] # Absent => view[d][o] # Absent
    PROVE  Deletes(d, o)'
<1>1. /\ entry'[d].dirty /\ o \in slice'[d] /\ entry'[d].base[o] # Absent
      /\ o \in slice[d] /\ entry[d].base[o] # Absent /\ RebasedWorkspace(d)[o] = Absent
  BY SaveFacts DEF Deletes
<1>2. CASE lastMerged[d] = Null
  <2>1. RebasedWorkspace(d) = view[d]
    BY <1>2, SaveFacts DEF RebasedWorkspace, HalfRebased, IInv, DevInv, ViewInv
  <2>2. RebasedWorkspace(d)'[o] = Absent
    BY <1>1, <1>2, <2>1, SaveRebases
  <2> QED
    BY <1>1, <2>2 DEF Deletes
<1>3. CASE lastMerged[d] # Null
  <2>1. step[d] \in Resolving /\ OnlyFresh(d, o, mine0[d], view[d])
    BY <1>3 DEF IInv, DevInv, ViewInv, FreshEntry
  <2>2. RebasedWorkspace(d)[o] = lastMerged[d][o]
           \/ RebasedWorkspace(d)[o] = Survives(mine0[d][o], view[d][o], lastMerged[d][o])
    BY <1>1, <1>3 DEF Calm, RebasedWorkspace, Merge, LandedSlice, MergeById
  <2>3. HadBy(o, rev)
    BY <1>1, HadBase
  <2>4. mine0[d][o] = Absent /\ view[d][o] # Absent => lastMerged[d][o] # Absent
    BY <2>1, <2>3 DEF OnlyFresh, Fresh, Calm, Resolving
  <2>5. Survives(mine0[d][o], view'[d][o], lastMerged[d][o]) = Absent
    BY <1>1, <2>2, <2>4 DEF Survives
  <2> QED
    BY <1>1, <1>3, <2>5, SaveRebases DEF Deletes
<1> QED
  BY <1>2, <1>3

\* A save adds an object once, edits what its screen shows, or deletes it.
LEMMA SaveLife ==
    ASSUME IInv, LifeInv, NEW d \in Device, NEW x \in Obj, NEW c \in Content,
           Save(d, x, c), Sets(d, x, view[d][x], c)
    PROVE  LifeInv'
<1>1. /\ page[d] = "open" /\ x \in slice[d] /\ c # view[d][x]
      /\ view'[d][x] = c /\ \A o \in Obj : o # x => view'[d][o] = view[d][o]
      /\ entry'[d].workspace = view'[d] /\ entry'[d].base = entry[d].base
      /\ entry'[d].baseRev = entry[d].baseRev /\ entry'[d].dirty
      /\ seqMark[d] # saveSeq'[d]
      /\ UNCHANGED <<hist, rev, strays, page, slice, cache, step, sent, seqMark, mine0,
                     lastMerged, ansRev>>
      /\ \A e \in Device : e # d => Frame(e)
  BY SaveFacts
<1>2. /\ ObserverTypes'
      /\ \A o \in Obj : o # x =>
            maker'[o] = maker[o] /\ additions'[o] = additions[o] /\ remover'[o] = remover[o]
      /\ view[d][x] = Absent => maker'[x] = d /\ additions'[x] = additions[x] + 1
      /\ view[d][x] # Absent => maker'[x] = maker[x] /\ additions'[x] = additions[x]
      /\ c = Absent => remover'[x] = remover[x] \cup {d}
      /\ c # Absent => remover'[x] = remover[x]
  BY SetsSpec DEF LifeInv
<1>3. /\ Calm(d) /\ entry[d].baseRev \in 0..rev /\ entry[d].base = hist[entry[d].baseRev]
      /\ rev \in Nat /\ Grows
      /\ lastMerged[d] = Null => view[d] = entry[d].workspace
      /\ step[d] \notin Resolving => lastMerged[d] = Null
  BY <1>1, UnchangedGrows DEF LifeInv, IInv, DevInv, EntriesInv, HeldAncestor, ViewInv, TypeOK,
                              ServerTypes, serverVars
<1>4. \A e \in Device : Calm(e)'
  <2>1. Calm(d)'
    BY <1>1, <1>3 DEF Calm, HalfRebased
  <2> QED
    BY <1>1, <2>1, CalmFrame DEF LifeInv
<1>5. ASSUME NEW o \in Obj, additions'[o] <= 1 PROVE LifeOf(o)'
  <2>1. additions[o] \in Nat /\ additions[o] <= 1
    BY <1>2, <1>5 DEF LifeInv, ObserverTypes
  <2>2. LifeOf(o) /\ FreshAt(d, o)
    BY <2>1 DEF LifeInv, LifeOf
  <2>3. /\ \A k : HadBy(o, k)' = HadBy(o, k)
        /\ HadBy(o, rev)' = HadBy(o, rev) /\ GoneAt(o, rev)' = GoneAt(o, rev)
    BY <1>1 DEF HadBy, GoneAt
  <2>4. StaysGone(o)'
    BY <1>1, <2>2 DEF LifeOf, StaysGone, GoneAt, HadBy
  <2>5. additions[o] = 0 => ~HadBy(o, rev) /\ remover[o] = {}
                              /\ \A e \in Device : ~Fresh(e, o) /\ ~HadBy(o, entry[e].baseRev)
    <3>1. \A e \in Device : entry[e].baseRev \in 0..rev /\ rev \in 0..rev
      BY <1>3 DEF IInv, DevInv, EntriesInv, HeldAncestor
    <3>2. additions[o] = 0 => ~HadBy(o, rev) /\ remover[o] = {}
      BY <2>2 DEF LifeOf
    <3> QED
      BY <3>1, <3>2, HadLater DEF Fresh
  <2>6. view[d][o] = Absent /\ view'[d][o] # Absent =>
           o = x /\ additions[o] = 0 /\ additions'[o] = 1 /\ maker'[o] = d
    BY <1>1, <1>2, <1>5, <2>1
  <2>7. \/ /\ maker'[o] = maker[o] /\ additions'[o] = additions[o]
           /\ view'[d][o] # Absent => view[d][o] # Absent
        \/ additions[o] = 0 /\ additions'[o] = 1 /\ maker'[o] = d /\ remover'[o] = remover[o]
           /\ view[d][o] = Absent
    BY <1>1, <1>2, <1>5, <2>1, <2>6
  <2>8. ASSUME NEW e \in Device, e # d
        PROVE  FreshAt(e, o)' /\ (Deletes(e, o) => Deletes(e, o)')
    <3>1. CASE maker'[o] = maker[o] /\ additions'[o] = additions[o]
      BY <1>1, <1>3, <2>2, <2>3, <2>8, <3>1, FreshFrame DEF LifeOf
    <3>2. CASE additions[o] = 0
      <4>1. FreshAt(e, o) /\ ~Fresh(e, o) /\ ~HadBy(o, entry[e].baseRev) /\ Frame(e)
        BY <1>1, <2>2, <2>5, <2>8, <3>2 DEF LifeOf
      <4>2. FreshAt(e, o)'
        BY <1>1, <4>1 DEF FreshAt, FreshEntry, FreshPut, ShowsFresh, OnlyFresh, Frame
      <4>3. ~Deletes(e, o)
        BY <2>5, <3>2, HadBase DEF Deletes
      <4> QED
        BY <4>2, <4>3
    <3> QED
      BY <2>7, <3>1, <3>2
  <2>9. FreshAt(d, o)'
    <3>1. Fresh(d, o) => Fresh(d, o)'
      BY <1>1, <2>3, <2>5, <2>7 DEF Fresh
    <3>2. view[d][o] = Absent /\ view'[d][o] # Absent => Fresh(d, o)'
      BY <2>3, <2>5, <2>6 DEF Fresh
    <3>3. HadBy(o, entry[d].baseRev)' = HadBy(o, entry[d].baseRev)
      BY <1>1, <2>3
    <3>4. FreshEntry(d, o)'
      BY <1>1, <1>3, <2>2, <3>1, <3>2 DEF FreshAt, FreshEntry, OnlyFresh
    <3>5. FreshPut(d, o)'
      <4>1. step[d] \in {"put", "putOk"} => lastMerged[d] = Null
        BY <1>3 DEF Resolving
      <4> QED
        BY <1>1, <1>3, <2>2, <3>1, <3>2, <4>1 DEF FreshAt, FreshPut, OnlyFresh
    <3>6. ShowsFresh(d, o)'
      BY <1>1, <2>2, <3>1, <3>2, <3>3 DEF FreshAt, ShowsFresh
    <3> QED
      BY <3>4, <3>5, <3>6 DEF FreshAt
  <2>10. Deletes(d, o) => Deletes(d, o)'
    <3>1. Deletes(d, o) => additions[o] # 0
      BY <2>5, HadBase DEF Deletes
    <3> QED
      BY <1>3, <2>2, <2>7, <3>1, SaveDeletes DEF FreshAt
  <2>11. \A e \in Device : FreshAt(e, o)' /\ (Deletes(e, o) => Deletes(e, o)')
    BY <2>8, <2>9, <2>10
  <2>12. ASSUME o = x, c = Absent, d # maker[o] PROVE GoneAt(o, rev)' \/ Deletes(d, o)'
    <3>1. view[d][o] # Absent /\ ~Fresh(d, o) /\ HadBy(o, entry[d].baseRev)
      BY <1>1, <2>2, <2>12 DEF FreshAt, ShowsFresh, Fresh
    <3>2. CASE entry[d].base[o] = Absent
      <4>1. GoneAt(o, entry[d].baseRev)
        BY <1>3, <3>1, <3>2 DEF GoneAt
      <4> QED
        BY <1>3, <2>2, <2>3, <4>1, GoneNow DEF LifeOf
    <3>3. CASE entry[d].base[o] # Absent
      <4>1. lastMerged[d] # Null => mine0[d][o] # Absent
        BY <1>3, <2>2, <3>1 DEF FreshAt, FreshEntry, OnlyFresh
      <4>2. RebasedWorkspace(d)'[o] = Absent
        BY <1>1, <2>12, <4>1, SaveRebases DEF Survives
      <4> QED
        BY <1>1, <2>12, <3>3, <4>2 DEF Deletes
    <3> QED
      BY <3>2, <3>3
  <2>13. DeleteHeld(o)'
    <3>1. CASE additions[o] = 0 /\ remover'[o] = remover[o]
      BY <2>5, <3>1 DEF DeleteHeld
    <3>2. CASE maker'[o] = maker[o] /\ remover'[o] = remover[o]
      BY <2>2, <2>3, <2>11, <3>2 DEF LifeOf, DeleteHeld
    <3>3. CASE o = x /\ c = Absent
      <4>1. maker'[o] = maker[o] /\ remover'[o] = remover[o] \cup {d}
        BY <1>1, <1>2, <3>3
      <4> QED
        BY <2>2, <2>3, <2>11, <2>12, <3>3, <4>1 DEF LifeOf, DeleteHeld
    <3> QED
      BY <1>2, <2>7, <3>1, <3>2, <3>3
  <2>14. additions'[o] = 0 => additions[o] = 0 /\ remover'[o] = {}
    <3>1. additions'[o] = 0 => additions[o] = 0
      BY <2>7
    <3>2. additions[o] = 0 /\ o = x => view[d][o] = Absent
      BY <1>1, <2>2, <2>5 DEF FreshAt, ShowsFresh
    <3> QED
      BY <1>1, <1>2, <2>1, <2>5, <3>1, <3>2
  <2> QED
    BY <2>2, <2>3, <2>4, <2>11, <2>13, <2>14 DEF LifeOf
<1> QED
  BY <1>1, <1>2, <1>4, <1>5 DEF LifeInv

\* What the record takes of a step is its own edit, or nothing.
LEMMA ObservedSave ==
    ASSUME IInv, NEW d \in Device, NEW x \in Obj, NEW c \in Content, Save(d, x, c), Observed
    PROVE  Sets(d, x, view[d][x], c)
<1>1. edits' # edits
  BY DEF Save, IInv, TypeOK, HistoryTypes
<1>2. PICK e \in Device, o \in Obj : view'[e][o] # view[e][o] /\ Sets(e, o, view[e][o], view'[e][o])
  BY <1>1 DEF Observed
<1>3. view'[d][x] = c /\ \A z \in Obj : z # x => view'[d][z] = view[d][z]
  BY SaveFacts
<1>4. e = d
  BY <1>2, SaveFacts DEF Frame
<1> QED
  BY <1>2, <1>3, <1>4

LEMMA ObservedMachine ==
    ASSUME IInv, NEW x \in Obj, NEW c \in Content, MachineWrite(x, c), Observed
    PROVE  Sets(Null, x, hist[rev][x], c)
<1>1. edits' = edits /\ machine' # machine
  BY DEF MachineWrite, IInv, TypeOK, HistoryTypes
<1>2. PICK o \in Obj : hist'[rev'][o] # hist[rev][o] /\ Sets(Null, o, hist[rev][o], hist'[rev'][o])
  BY <1>1 DEF Observed
<1>3. /\ hist[rev] \in Workspace /\ Commit([hist[rev] EXCEPT ![x] = c])
      /\ [hist[rev] EXCEPT ![x] = c] \in Workspace
  BY WorkspaceTypes DEF MachineWrite, IInv, TypeOK, ServerTypes
<1>4. hist'[rev'] = [hist[rev] EXCEPT ![x] = c]
  BY <1>3, CommitGrows DEF IInv
<1>5. hist'[rev'][x] = c /\ \A z \in Obj : z # x => hist'[rev'][z] = hist[rev][z]
  BY <1>3, <1>4 DEF Workspace
<1> QED
  BY <1>2, <1>5

LEMMA NudgeLife ==
    ASSUME IInv, LifeInv, NEW d \in Device, Nudge(d) \/ PollAsk(d) \/ PollServed(d),
           UNCHANGED observers
    PROVE  LifeInv'
<1>1. UNCHANGED <<serverVars, page, engineVars, slotVars, flightVars, strays>>
  BY DEF Nudge, PollAsk, PollServed
<1> QED
  BY <1>1, StillLife DEF Frame, serverVars, engineVars, slotVars, flightVars

LEMMA ProtocolLife ==
    ASSUME IInv, IInv', LifeInv, NEW d \in Device, Protocol(d), UNCHANGED observers
    PROVE  LifeInv'
BY OpenLife, OpenAnsweredLife, FlushLife, PushAcceptedLife, PushConflictLife, MergeAndPushLife,
   MergeAcceptedLife, MergeConflictLife, ServerPutLife, ServerGetLife, NudgeLife,
   PollAnsweredLife DEF Protocol

LEMMA LifeInit == HInit => LifeInv
<1> SUFFICES ASSUME HInit PROVE LifeInv
  OBVIOUS
<1>1. ObserverTypes /\ strays = {}
  BY DEF HInit, Init, ObserverTypes
<1>2. ASSUME NEW d \in Device PROVE Calm(d)
  BY DEF HInit, Init, Calm, BlankEntry
<1>3. ASSUME NEW o \in Obj PROVE LifeOf(o)
  <2>1. \A r \in 0..rev : hist[r][o] = Absent
    BY DEF HInit, Init, EmptyWorkspace
  <2>2. ~HadBy(o, rev) /\ StaysGone(o)
    BY <2>1 DEF HadBy, StaysGone
  <2>3. DeleteHeld(o) /\ remover[o] = {}
    BY DEF HInit, DeleteHeld
  <2>4. ASSUME NEW d \in Device PROVE FreshAt(d, o)
    BY DEF HInit, Init, BlankEntry, EmptyWorkspace, FreshAt, FreshEntry, FreshPut, ShowsFresh,
           OnlyFresh, Resolving
  <2> QED
    BY <2>2, <2>3, <2>4 DEF LifeOf
<1> QED
  BY <1>1, <1>2, <1>3 DEF LifeInv

LEMMA LifeNext ==
    ASSUME MaxFaults = 0, MaxTeardowns = 0, IInv, IInv', LifeInv, [HNext]_hvars
    PROVE  LifeInv'
<1>1. faults \in Nat /\ teardowns \in Nat /\ strays = {}
  BY DEF IInv, TypeOK, HistoryTypes, LifeInv
<1>2. CASE HNext /\ EditStep
  BY <1>2, ObservedSave, ObservedMachine, SaveLife, MachineWriteLife DEF HNext, EditStep
<1>3. CASE HNext /\ SystemStep
  <2>1. PICK d \in Device : Protocol(d) \/ Nudge(d) \/ CacheTimer(d)
    BY <1>1, <1>3 DEF SystemStep, OpenUnanswered, LinkFails, Hide, Close, Crash
  <2>2. edits' = edits /\ machine' = machine
    BY <2>1 DEF Protocol, Nudge, CacheTimer, Open, OpenAnswered, Flush, PushAccepted,
                PushConflict, MergeAndPush, MergeAccepted, MergeConflict, ServerPut, ServerGet,
                PollAsk, PollServed, PollAnswered, budgets
  <2>3. UNCHANGED observers
    BY <1>3, <2>2 DEF HNext, Observed
  <2> QED
    BY <2>1, <2>3, ProtocolLife, NudgeLife, CacheTimerLife
<1>4. CASE UNCHANGED hvars
  BY <1>4, StillLife DEF hvars, vars, Frame, serverVars, engineVars, slotVars, flightVars
<1> QED
  BY <1>2, <1>3, <1>4 DEF HNext, Next

LEMMA RecordOnlyObserves == HSpec => Spec
<1>1. HInit => Init
  BY DEF HInit
<1>2. [HNext]_hvars => [Next]_vars
  BY DEF HNext, hvars
<1> QED
  BY <1>1, <1>2, PTL DEF HSpec, Spec

LEMMA LifeInvariance ==
    ASSUME MaxFaults = 0, MaxTeardowns = 0
    PROVE  HSpec => [](IInv /\ LifeInv)
<1>1. HInit => LifeInv
  BY LifeInit
<1>2. IInv /\ IInv' /\ LifeInv /\ [HNext]_hvars => LifeInv'
  BY LifeNext
<1> QED
  BY <1>1, <1>2, RecordOnlyObserves, Invariance, PTL DEF HSpec

\* A delete beats a concurrent edit: at rest, an object that was added once and that anybody
\* but its maker deleted is gone from the server, for any number of devices, edits and writes
\* of machines in any order, while no request fails and no page ends.
THEOREM DeleteStands ==
    ASSUME MaxFaults = 0, MaxTeardowns = 0
    PROVE  HSpec => []DeleteWins
<1>1. ASSUME IInv, LifeInv PROVE DeleteWins
  <2> SUFFICES ASSUME Settled, NEW o \in Obj, DeletedByAnother(o) PROVE hist[rev][o] = Absent
    BY DEF DeleteWins
  <2>1. LifeOf(o)
    BY <1>1 DEF LifeInv, DeletedByAnother, ObserverTypes
  <2>2. \A d \in Device : ~Deletes(d, o)
    BY DEF Settled, SettledAt, Deletes
  <2>3. GoneAt(o, rev)
    BY <2>1, <2>2 DEF LifeOf, DeleteHeld, DeletedByAnother
  <2> QED
    BY <2>3 DEF GoneAt
<1> QED
  BY <1>1, LifeInvariance, PTL
=============================================================================
