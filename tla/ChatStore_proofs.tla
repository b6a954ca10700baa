---------------------------- MODULE ChatStore_proofs ----------------------------
(***************************************************************************)
(* Proofs about ChatStore, for any number of chats, view models, crashes    *)
(* and failing file operations.                                             *)
(*                                                                          *)
(* The inductive invariant Inv adds two facts to the types: every id        *)
(* anywhere is one that was given to a chat (ChatsAreKnown), so a new chat  *)
(* is never taken for a deleted one; and a read that is not merged yet is   *)
(* merged with a journal in memory that knows every deletion                *)
(* (ReadsKnowDeletions).  From them follows that what is deleted stays so.  *)
(* Three more facts carry the other two theorems: what a deletion under way  *)
(* has recorded (RecordInv); on that, that whatever may be written next has  *)
(* every stored chat (HistoryInv), and that the files of a deleted chat are  *)
(* gone, listed or about to be removed (OrphanInv).                          *)
(***************************************************************************)
EXTENDS ChatStore, TLAPS

\* The steps in which a deletion has a chat.
Busy == {"record", "save", "files", "entry", "told"}

\* Every id in a store, a snapshot or a deletion was given to a chat.
ChatsAreKnown ==
  /\ stored \subseteq created
  /\ tombstones \subseteq created
  /\ \A v \in ViewModels :
       /\ visible[v] \subseteq created
       /\ fetched[v] # None => fetched[v] \subseteq created
       /\ queue[v] # None => queue[v] \subseteq created
       /\ writing[v] # None => writing[v] \subseteq created
       /\ deletion[v].todo \subseteq created
       /\ deletion[v].step \in Busy => deletion[v].id \in created

\* A view model that waits to merge a read has read the journal before.
ReadsKnowDeletions ==
  \A v \in ViewModels : fetched[v] # None => tombstones \subseteq tombs

\* The inductive invariant.
Inv == TypeOK /\ ChatsAreKnown /\ ReadsKnowDeletions

DeletionWork == Work({"next", "told"} \cup LockedSteps)

\* Idle work is work, whatever the steps.
LEMMA NoWorkTyped == \A steps : NoWork \in Work(steps)
  BY DEF NoWork, Work

\* The updates a deletion makes of its own record keep its type.
LEMMA WorkKept ==
  ASSUME NEW w \in DeletionWork, NEW s \in Sessions \cup {None},
         NEW p \in {"next", "told", "idle"} \cup LockedSteps
  PROVE  /\ [w EXCEPT !.step = p] \in DeletionWork
         /\ [w EXCEPT !.id = s, !.step = p] \in DeletionWork
         /\ [w EXCEPT !.todo = @ \ {s}] \in DeletionWork
         /\ [todo |-> w.todo \ {s}, id |-> s, step |-> p] \in DeletionWork
  BY DEF DeletionWork, Work, LockedSteps

\* A deletion that goes on to another step keeps its type.
LEMMA StepTyped ==
  ASSUME TypeOK, NEW v \in ViewModels, NEW p \in {"next", "told", "idle"} \cup LockedSteps,
         Deletes(v, p)
  PROVE  deletion' \in [ViewModels -> DeletionWork]
<1>1. deletion \in [ViewModels -> DeletionWork]
  BY DEF TypeOK, DeletionWork
<1>2. deletion[v] \in DeletionWork
  BY <1>1
<1>3. [deletion[v] EXCEPT !.step = p] \in DeletionWork
  BY <1>2, WorkKept
<1>4. deletion' = [deletion EXCEPT ![v] = [deletion[v] EXCEPT !.step = p]]
  BY <1>1 DEF Deletes
<1> QED
  BY <1>1, <1>3, <1>4

\* So does one that leaves this chat for the next.
LEMMA NextTyped ==
  ASSUME TypeOK, NEW v \in ViewModels, DeletesNext(v)
  PROVE  deletion' \in [ViewModels -> DeletionWork]
<1>1. deletion \in [ViewModels -> DeletionWork]
  BY DEF TypeOK, DeletionWork
<1>2. deletion[v] \in DeletionWork
  BY <1>1
<1>3. [deletion[v] EXCEPT !.id = None, !.step = "next"] \in DeletionWork
  BY <1>2, WorkKept
<1>4. deletion' = [deletion EXCEPT ![v] = [deletion[v] EXCEPT !.id = None, !.step = "next"]]
  BY <1>1 DEF DeletesNext
<1> QED
  BY <1>1, <1>3, <1>4

\* Inv holds when the process first starts.
THEOREM InitInv == Init => Inv
<1> SUFFICES ASSUME Init PROVE Inv
  OBVIOUS
<1>1. /\ deletion \in [ViewModels -> DeletionWork]
      /\ attach \in Work({"asked", "check", "create", "publish"})
      /\ reconcile \in Work({"files", "entry"})
  BY NoWorkTyped DEF Init, DeletionWork
<1>2. dir \in [Sessions -> {"none", "dir", "file"}]
  BY DEF Init
<1>3. TypeOK
  <2>1. corrupt \in BOOLEAN /\ chatCorrupt \in BOOLEAN
    BY DEF Init
  <2>2. /\ vm \in [ViewModels -> {"none", "live", "cleared"}]
        /\ visible \in [ViewModels -> SUBSET Sessions]
        /\ fetched \in [ViewModels -> (SUBSET Sessions) \cup {None}]
        /\ queue \in [ViewModels -> (SUBSET Sessions) \cup {None}]
        /\ writing \in [ViewModels -> (SUBSET Sessions) \cup {None}]
    BY DEF Init
  <2>3. /\ stored \subseteq Sessions /\ tombstones \subseteq Sessions
        /\ pending \subseteq tombstones
        /\ tombs \subseteq Sessions /\ restored \subseteq Sessions
        /\ storeState \in {"Loading", "Ready", "Recovery"}
        /\ created \subseteq Sessions
        /\ crashes \in 0..MaxCrashes /\ faults \in 0..MaxFaults
    BY SessionAssumption DEF Init
  <2> QED
    BY <1>1, <1>2, <2>1, <2>2, <2>3 DEF TypeOK, DeletionWork
<1>4. ChatsAreKnown
  BY SessionAssumption DEF Init, ChatsAreKnown, NoWork, Busy
<1>5. ReadsKnowDeletions
  BY DEF Init, ReadsKnowDeletions
<1> QED
  BY <1>3, <1>4, <1>5 DEF Inv

\* The count of failed file operations stays within its bound.
LEMMA FaultBound ==
  ASSUME faults \in 0..MaxFaults, Fault \/ NoFault
  PROVE  faults' \in 0..MaxFaults
  BY SessionAssumption DEF Fault, NoFault

\* saveChatSessionsInternal leaves two flags that are Booleans, and counts one
\* failure at most.
LEMMA SavedFlags ==
  ASSUME TypeOK, NEW S, Saves(S) \/ SaveFails
  PROVE  corrupt' \in BOOLEAN /\ chatCorrupt' \in BOOLEAN /\ (Fault \/ NoFault)
  BY Zenon DEF TypeOK, Saves, SaveFails, Refreshed, RefreshFails

\* So does loadChatSessions.
LEMMA LoadedFlags ==
  ASSUME TypeOK, LoadSucceeds \/ LoadFails
  PROVE  corrupt' \in BOOLEAN /\ chatCorrupt' \in BOOLEAN /\ (Fault \/ NoFault)
  BY Zenon DEF TypeOK, LoadSucceeds, LoadFails, Refreshed, RefreshFails

\* saveChatSessionsInternal stores nothing but the snapshot and chats that were
\* stored before, and forgets no deletion it knew.
LEMMA SavedChats ==
  ASSUME TypeOK, NEW S \in SUBSET Sessions, Saves(S) \/ SaveFails
  PROVE  /\ stored' \subseteq Sessions /\ tombs' \subseteq Sessions
         /\ stored' \subseteq stored \cup S
         /\ tombs \subseteq tombs'
  BY SMTT(30) DEF TypeOK, Saves, SaveFails, Sanitized, Refreshed, RefreshFails

\* loadChatSessions forgets no deletion it knew, and after it succeeded it knows
\* every one in the journal on disk.
LEMMA LoadedChats ==
  ASSUME TypeOK, LoadSucceeds \/ LoadFails
  PROVE  /\ tombs' \subseteq Sessions
         /\ tombs \subseteq tombs'
         /\ LoadSucceeds => tombstones \subseteq tombs'
  BY SMTT(30) DEF TypeOK, LoadSucceeds, LoadFails, Refreshed, RefreshFails

\* No step of the program leaves the types.
THEOREM TypeStep ==
  ASSUME Inv, [Next]_vars
  PROVE  TypeOK'
<1> USE DEF Inv
<1>1. CASE UNCHANGED vars
  BY <1>1 DEF vars, TypeOK
<1>2. ASSUME NEW v \in ViewModels, OpenViewModel(v) PROVE TypeOK'
  BY <1>2 DEF OpenViewModel, TypeOK, disk, flags, snapshots, bounds
<1>3. ASSUME NEW v \in ViewModels, CloseViewModel(v) PROVE TypeOK'
  BY <1>3 DEF CloseViewModel, Persisted, TypeOK, disk, flags, snapshots, bounds
<1>4. ASSUME NEW v \in ViewModels, FetchSessions(v) PROVE TypeOK'
  <2>1. corrupt' \in BOOLEAN /\ chatCorrupt' \in BOOLEAN /\ (Fault \/ NoFault)
    BY <1>4, LoadedFlags, Zenon DEF FetchSessions, LoadSucceeds, TypeOK, flags, bounds
  <2>2. faults' \in 0..MaxFaults
    BY <2>1, FaultBound DEF TypeOK
  <2>3. tombs' \subseteq Sessions
    BY <1>4, LoadedChats DEF FetchSessions, LoadSucceeds, TypeOK
  <2> QED
    BY <1>4, <2>1, <2>2, <2>3 DEF FetchSessions, Loaded, TypeOK, disk, snapshots
<1>5. ASSUME NEW v \in ViewModels, FetchFails(v) PROVE TypeOK'
  <2>1. corrupt' \in BOOLEAN /\ chatCorrupt' \in BOOLEAN /\ (Fault \/ NoFault)
    BY <1>5, LoadedFlags, Zenon DEF FetchFails, LoadFails, TypeOK, flags, bounds
  <2>2. faults' \in 0..MaxFaults
    BY <2>1, FaultBound DEF TypeOK
  <2>3. tombs' \subseteq Sessions
    BY <1>5, LoadedChats DEF FetchFails, LoadFails, TypeOK
  <2> QED
    BY <1>5, <2>1, <2>2, <2>3 DEF FetchFails, TypeOK, disk, snapshots
<1>6. ASSUME NEW v \in ViewModels, MergeSessions(v) PROVE TypeOK'
  BY <1>6 DEF MergeSessions, TypeOK, disk, flags, snapshots, bounds
<1>7. ASSUME NEW v \in ViewModels, NewChat(v) PROVE TypeOK'
  <2>1. PICK s \in Sessions \ (created \cup Backup) :
          /\ created' = created \cup {s}
          /\ visible' = [visible EXCEPT ![v] = @ \cup {s}]
          /\ queue' = [queue EXCEPT ![v] = Persisted(v, visible[v] \cup {s})]
    BY <1>7 DEF NewChat
  <2>2. Persisted(v, visible[v] \cup {s}) \in (SUBSET Sessions) \cup {None}
    BY <2>1 DEF Persisted, TypeOK
  <2> QED
    BY <1>7, <2>1, <2>2 DEF NewChat, TypeOK, disk, flags, snapshots, bounds
<1>8. ASSUME NEW v \in ViewModels, UpdateChat(v) PROVE TypeOK'
  BY <1>8 DEF UpdateChat, Persisted, TypeOK, disk, flags, snapshots, bounds
<1>9. ASSUME NEW v \in ViewModels, TakeSnapshot(v) PROVE TypeOK'
  BY <1>9 DEF TakeSnapshot, TypeOK, disk, flags, snapshots, bounds
<1>10. ASSUME NEW v \in ViewModels, WriteSnapshot(v) PROVE TypeOK'
  <2>1. corrupt' \in BOOLEAN /\ chatCorrupt' \in BOOLEAN /\ (Fault \/ NoFault)
    BY <1>10, SavedFlags, Zenon DEF WriteSnapshot, Saves, TypeOK, flags, bounds
  <2>2. faults' \in 0..MaxFaults
    BY <2>1, FaultBound DEF TypeOK
  <2>3. writing[v] \subseteq Sessions
    BY <1>10 DEF WriteSnapshot, Saves, TypeOK
  <2>4. stored' \subseteq Sessions /\ tombs' \subseteq Sessions
    BY <1>10, <2>3, SavedChats DEF WriteSnapshot, Saves, TypeOK
  <2> QED
    BY <1>10, <2>1, <2>2, <2>3, <2>4 DEF WriteSnapshot, TypeOK, disk, snapshots
<1>11. ASSUME NEW v \in ViewModels, BeginDelete(v) PROVE TypeOK'
  BY <1>11 DEF BeginDelete, Work, LockedSteps, TypeOK, disk, flags, snapshots, bounds
<1>12. ASSUME NEW v \in ViewModels, CheckDelete(v) PROVE TypeOK'
  <2>1. corrupt' \in BOOLEAN /\ chatCorrupt' \in BOOLEAN /\ (Fault \/ NoFault)
    BY <1>12, LoadedFlags, Zenon DEF CheckDelete, LoadFails, TypeOK, flags, bounds
  <2>2. faults' \in 0..MaxFaults
    BY <2>1, FaultBound DEF TypeOK
  <2>3. deletion' \in [ViewModels -> DeletionWork]
    <3>1. deletion \in [ViewModels -> DeletionWork] /\ deletion[v] \in DeletionWork
      BY DEF TypeOK, DeletionWork
    <3>2. PICK s \in deletion[v].todo :
            \/ deletion' = [deletion EXCEPT
                 ![v] = [todo |-> @.todo \ {s}, id |-> s, step |-> "record"]]
            \/ deletion' = [deletion EXCEPT ![v].todo = @ \ {s}]
      BY <1>12 DEF CheckDelete
    <3>3. s \in Sessions
      BY <3>1 DEF DeletionWork, Work
    <3>4. /\ [deletion[v] EXCEPT !.todo = @ \ {s}] \in DeletionWork
          /\ [todo |-> deletion[v].todo \ {s}, id |-> s, step |-> "record"] \in DeletionWork
      BY <3>1, <3>3, WorkKept DEF LockedSteps
    <3>5. \E w \in DeletionWork : deletion' = [deletion EXCEPT ![v] = w]
      BY <3>1, <3>2, <3>4
    <3> QED
      BY <3>1, <3>5
  <2>4. tombs' \subseteq Sessions
    BY <1>12, LoadedChats DEF CheckDelete, LoadFails, TypeOK
  <2> QED
    BY <1>12, <2>1, <2>2, <2>3, <2>4 DEF CheckDelete, DeletionWork, TypeOK, disk, snapshots
<1>13. ASSUME NEW v \in ViewModels, RecordDeletion(v) PROVE TypeOK'
  <2>1. corrupt' \in BOOLEAN /\ chatCorrupt' \in BOOLEAN /\ (Fault \/ NoFault)
    BY <1>13, Zenon DEF RecordDeletion, JournalWrites, TypeOK, flags, bounds
  <2>2. faults' \in 0..MaxFaults
    BY <2>1, FaultBound DEF TypeOK
  <2>3. deletion[v].id \in Sessions
    BY <1>13 DEF RecordDeletion, Holds, ChatsAreKnown, Busy, TypeOK
  <2>4. deletion' \in [ViewModels -> Work({"next", "told"} \cup LockedSteps)]
    <3>1. Deletes(v, "save")
      BY <1>13 DEF RecordDeletion
    <3> QED
      BY <3>1, StepTyped DEF DeletionWork, LockedSteps
  <2> QED
    BY <1>13, <2>1, <2>2, <2>3, <2>4 DEF RecordDeletion, TypeOK, disk, snapshots
<1>14. ASSUME NEW v \in ViewModels, RecordFails(v) PROVE TypeOK'
  <2>1. corrupt' \in BOOLEAN /\ chatCorrupt' \in BOOLEAN /\ (Fault \/ NoFault)
    BY <1>14, Zenon DEF RecordFails, JournalWriteFails, TypeOK, flags, bounds
  <2>2. faults' \in 0..MaxFaults
    BY <2>1, FaultBound DEF TypeOK
  <2>3. deletion' \in [ViewModels -> DeletionWork]
    BY <1>14, NextTyped DEF RecordFails
  <2> QED
    BY <1>14, <2>1, <2>2, <2>3 DEF RecordFails, DeletionWork, TypeOK, disk, snapshots
<1>15. ASSUME NEW v \in ViewModels, CommitRemoval(v) PROVE TypeOK'
  <2>1. corrupt' \in BOOLEAN /\ chatCorrupt' \in BOOLEAN /\ (Fault \/ NoFault)
    BY <1>15, SavedFlags, Zenon DEF CommitRemoval, Saves, TypeOK, flags, bounds
  <2>2. faults' \in 0..MaxFaults
    BY <2>1, FaultBound DEF TypeOK
  <2>3. deletion' \in [ViewModels -> Work({"next", "told"} \cup LockedSteps)]
    <3>1. PICK p \in LockedSteps \cup {"told"} : Deletes(v, p)
      BY <1>15 DEF CommitRemoval, LockedSteps
    <3> QED
      BY <3>1, StepTyped DEF DeletionWork
  <2>4. stored' \subseteq Sessions /\ tombs' \subseteq Sessions
    <3> DEFINE S == stored \ (tombs \cup {deletion[v].id})
    <3>1. S \in SUBSET Sessions
      BY DEF TypeOK
    <3>2. Saves(S) \/ SaveFails
      BY <1>15 DEF CommitRemoval
    <3> HIDE DEF S
    <3> QED
      BY <3>1, <3>2, SavedChats
  <2> QED
    BY <1>15, <2>1, <2>2, <2>3, <2>4 DEF CommitRemoval, TypeOK, disk, snapshots
<1>16. ASSUME NEW v \in ViewModels, DeleteFiles(v) PROVE TypeOK'
  <2>1. corrupt' \in BOOLEAN /\ chatCorrupt' \in BOOLEAN /\ (Fault \/ NoFault)
    BY <1>16, Zenon DEF DeleteFiles, NoFault, TypeOK, flags, bounds
  <2>2. faults' \in 0..MaxFaults
    BY <2>1, FaultBound DEF TypeOK
  <2>3. deletion' \in [ViewModels -> Work({"next", "told"} \cup LockedSteps)]
    <3>1. PICK p \in LockedSteps \cup {"told"} : Deletes(v, p)
      BY <1>16 DEF DeleteFiles, LockedSteps
    <3> QED
      BY <3>1, StepTyped DEF DeletionWork
  <2> QED
    BY <1>16, <2>1, <2>2, <2>3 DEF DeleteFiles, TypeOK, disk, snapshots
<1>17. ASSUME NEW v \in ViewModels, RemoveEntry(v) PROVE TypeOK'
  <2>1. corrupt' \in BOOLEAN /\ chatCorrupt' \in BOOLEAN /\ (Fault \/ NoFault)
    BY <1>17, Zenon DEF RemoveEntry, JournalWriteFails, JournalWrites, TypeOK, flags, bounds
  <2>2. faults' \in 0..MaxFaults
    BY <2>1, FaultBound DEF TypeOK
  <2>3. deletion' \in [ViewModels -> Work({"next", "told"} \cup LockedSteps)]
    <3>1. Deletes(v, "told")
      BY <1>17 DEF RemoveEntry
    <3> QED
      BY <3>1, StepTyped DEF DeletionWork
  <2> QED
    BY <1>17, <2>1, <2>2, <2>3 DEF RemoveEntry, TypeOK, disk, snapshots
<1>18. ASSUME NEW v \in ViewModels, TellDeleted(v) PROVE TypeOK'
  <2>1. deletion' \in [ViewModels -> DeletionWork]
    BY <1>18, NextTyped DEF TellDeleted
  <2>2. visible' \in [ViewModels -> SUBSET Sessions]
    BY <1>18 DEF TellDeleted, TypeOK
  <2> QED
    BY <1>18, <2>1, <2>2 DEF TellDeleted, DeletionWork, TypeOK, disk, flags, snapshots, bounds
<1>19. ASSUME NEW v \in ViewModels, EndDelete(v) PROVE TypeOK'
  BY <1>19 DEF EndDelete, Persisted, NoWork, Work, LockedSteps, TypeOK, disk, flags,
     snapshots, bounds
<1>20. CASE AskAttach
  <2>1. attach' \in Work({"asked", "check", "create", "publish"})
    <3>1. PICK v \in ViewModels, s \in Attached :
            attach' = [NoWork EXCEPT !.id = s, !.step = "asked"]
      BY <1>20 DEF AskAttach
    <3> QED
      BY <3>1, SessionAssumption DEF NoWork, Work
  <2> QED
    BY <1>20, <2>1 DEF AskAttach, TypeOK, disk, flags, snapshots, bounds
<1>21. CASE CheckAttach
  <2>1. corrupt' \in BOOLEAN /\ chatCorrupt' \in BOOLEAN /\ (Fault \/ NoFault)
    BY <1>21, Zenon DEF CheckAttach, Refreshed, RefreshFails, TypeOK, flags, bounds
  <2>2. faults' \in 0..MaxFaults
    BY <2>1, FaultBound DEF TypeOK
  <2>3. attach' \in Work({"asked", "check", "create", "publish"})
    BY <1>21 DEF CheckAttach, NoWork, Work, TypeOK
  <2>4. tombs' \subseteq Sessions
    BY <1>21 DEF CheckAttach, Refreshed, RefreshFails, TypeOK
  <2> QED
    BY <1>21, <2>1, <2>2, <2>3, <2>4 DEF CheckAttach, TypeOK, disk, snapshots
<1>22. CASE CreateDir
  BY <1>22 DEF CreateDir, Work, TypeOK, disk, flags, snapshots, bounds
<1>23. CASE Publish
  <2>1. corrupt' \in BOOLEAN /\ chatCorrupt' \in BOOLEAN /\ (Fault \/ NoFault)
    BY <1>23, Zenon DEF Publish, NoFault, TypeOK, flags, bounds
  <2>2. faults' \in 0..MaxFaults
    BY <2>1, FaultBound DEF TypeOK
  <2>3. attach' \in Work({"asked", "check", "create", "publish"})
    BY <1>23 DEF Publish, NoWork, Work, TypeOK
  <2> QED
    <3>1. dir' \in [Sessions -> {"none", "dir", "file"}]
      BY <1>23 DEF Publish, TypeOK
    <3> QED
      BY <1>23, <2>1, <2>2, <2>3, <3>1 DEF Publish, TypeOK, disk, snapshots
<1>24. CASE StartReconcile
  <2>1. corrupt' \in BOOLEAN /\ chatCorrupt' \in BOOLEAN /\ (Fault \/ NoFault)
    BY <1>24, Zenon DEF StartReconcile, RefreshFails, TypeOK, flags, bounds
  <2>2. faults' \in 0..MaxFaults
    BY <2>1, FaultBound DEF TypeOK
  <2>3. reconcile' \in Work({"files", "entry"})
    BY <1>24 DEF StartReconcile, Work, TypeOK
  <2>4. tombs' \subseteq Sessions
    BY <1>24 DEF StartReconcile, RefreshFails, TypeOK
  <2> QED
    BY <1>24, <2>1, <2>2, <2>3, <2>4 DEF StartReconcile, TypeOK, disk, snapshots
<1>25. CASE ReconcileFiles
  <2>1. corrupt' \in BOOLEAN /\ chatCorrupt' \in BOOLEAN /\ (Fault \/ NoFault)
    BY <1>25, Zenon DEF ReconcileFiles, NoFault, TypeOK, flags, bounds
  <2>2. faults' \in 0..MaxFaults
    BY <2>1, FaultBound DEF TypeOK
  <2>3. reconcile' \in Work({"files", "entry"})
    <3>1. PICK s \in reconcile.todo :
            \/ reconcile' = [reconcile EXCEPT !.todo = @ \ {s}, !.id = s, !.step = "entry"]
            \/ reconcile' = [reconcile EXCEPT !.todo = @ \ {s}]
      BY <1>25 DEF ReconcileFiles
    <3>2. reconcile \in Work({"files", "entry"}) /\ s \in Sessions
      BY <3>1 DEF TypeOK, Work
    <3> QED
      BY <3>1, <3>2 DEF Work
  <2> QED
    BY <1>25, <2>1, <2>2, <2>3 DEF ReconcileFiles, TypeOK, disk, snapshots
<1>26. CASE ReconcileEntry
  <2>1. corrupt' \in BOOLEAN /\ chatCorrupt' \in BOOLEAN /\ (Fault \/ NoFault)
    BY <1>26, Zenon DEF ReconcileEntry, JournalWriteFails, TypeOK, flags, bounds
  <2>2. faults' \in 0..MaxFaults
    BY <2>1, FaultBound DEF TypeOK
  <2>3. reconcile' \in Work({"files", "entry"})
    BY <1>26 DEF ReconcileEntry, Work, TypeOK
  <2> QED
    BY <1>26, <2>1, <2>2, <2>3 DEF ReconcileEntry, TypeOK, disk, snapshots
<1>27. CASE EndReconcile
  BY <1>27 DEF EndReconcile, NoWork, Work, TypeOK, disk, flags, snapshots, bounds
<1>28. CASE MergeRestored
  <2>1. corrupt' \in BOOLEAN /\ chatCorrupt' \in BOOLEAN /\ (Fault \/ NoFault)
    BY <1>28, LoadedFlags, Zenon DEF MergeRestored, Refreshed, TypeOK, flags, bounds
  <2>2. faults' \in 0..MaxFaults
    BY <2>1, FaultBound DEF TypeOK
  <2>3. tombs' \subseteq Sessions
    BY <1>28, LoadedChats DEF MergeRestored, Refreshed, TypeOK
  <2>4. stored' \subseteq Sessions /\ restored' \subseteq Sessions /\ created' \subseteq Sessions
    BY <1>28, SessionAssumption DEF MergeRestored, Sanitized, Loaded, TypeOK
  <2> QED
    BY <1>28, <2>1, <2>2, <2>3, <2>4 DEF MergeRestored, TypeOK, disk, snapshots
<1>29. CASE Crash
  <2>1. crashes' \in 0..MaxCrashes
    BY <1>29, SessionAssumption DEF Crash, TypeOK
  <2>2. reconcile' \in Work({"files", "entry"}) /\ attach' \in Work({"asked", "check",
     "create", "publish"})
    BY <1>29 DEF Crash, NoWork, Work
  <2>3. deletion' \in [ViewModels -> Work({"next", "told"} \cup LockedSteps)]
    BY <1>29 DEF Crash, NoWork, Work
  <2> QED
    BY <1>29, <2>1, <2>2, <2>3 DEF Crash, TypeOK, disk
<1>30. CASE LockAttach
  <2>1. attach' \in Work({"asked", "check", "create", "publish"})
    BY <1>30 DEF LockAttach, Work, TypeOK
  <2> QED
    BY <1>30, <2>1 DEF LockAttach, TypeOK, disk, flags, snapshots, bounds
<1> QED
  BY <1>1, <1>2, <1>3, <1>4, <1>5, <1>6, <1>7, <1>8, <1>9, <1>10, <1>11, <1>12, <1>13,
     <1>14, <1>15, <1>16, <1>17, <1>18, <1>19, <1>20, <1>21, <1>22, <1>23, <1>24, <1>25,
        <1>26, <1>27, <1>28, <1>29, <1>30
  DEF Next, Deletion, Attach, Reconcile

\* A deletion that has a chat and goes on keeps to chats that are known.
LEMMA HeldKnown ==
  ASSUME TypeOK, ChatsAreKnown, NEW v \in ViewModels, NEW p \in Busy,
         deletion[v].step \in Busy, Deletes(v, p)
  PROVE  \A w \in ViewModels :
           /\ deletion'[w].todo \subseteq created
           /\ deletion'[w].step \in Busy => deletion'[w].id \in created
  BY DEF TypeOK, ChatsAreKnown, Deletes, Work

\* No step brings in an id that was not given to a chat.
THEOREM KnownStep ==
  ASSUME Inv, [Next]_vars
  PROVE  ChatsAreKnown'
<1> USE DEF Inv
<1>1. CASE UNCHANGED vars
  BY <1>1 DEF vars, ChatsAreKnown
<1>2. ASSUME NEW v \in ViewModels, OpenViewModel(v) PROVE ChatsAreKnown'
  BY <1>2 DEF OpenViewModel, ChatsAreKnown, TypeOK, disk, snapshots
<1>3. ASSUME NEW v \in ViewModels, CloseViewModel(v) PROVE ChatsAreKnown'
  BY <1>3 DEF CloseViewModel, Persisted, ChatsAreKnown, TypeOK, disk, snapshots
<1>4. ASSUME NEW v \in ViewModels, FetchSessions(v) PROVE ChatsAreKnown'
  BY <1>4 DEF FetchSessions, Loaded, ChatsAreKnown, TypeOK, disk, snapshots
<1>5. ASSUME NEW v \in ViewModels, FetchFails(v) PROVE ChatsAreKnown'
  BY <1>5 DEF FetchFails, ChatsAreKnown, TypeOK, disk, snapshots
<1>6. ASSUME NEW v \in ViewModels, MergeSessions(v) PROVE ChatsAreKnown'
  BY <1>6 DEF MergeSessions, ChatsAreKnown, TypeOK, disk, snapshots
<1>7. ASSUME NEW v \in ViewModels, NewChat(v) PROVE ChatsAreKnown'
  BY <1>7 DEF NewChat, Persisted, ChatsAreKnown, TypeOK, disk, snapshots
<1>8. ASSUME NEW v \in ViewModels, UpdateChat(v) PROVE ChatsAreKnown'
  BY <1>8 DEF UpdateChat, Persisted, ChatsAreKnown, TypeOK, disk, snapshots
<1>9. ASSUME NEW v \in ViewModels, TakeSnapshot(v) PROVE ChatsAreKnown'
  BY <1>9 DEF TakeSnapshot, ChatsAreKnown, TypeOK, disk, snapshots
<1>10. ASSUME NEW v \in ViewModels, WriteSnapshot(v) PROVE ChatsAreKnown'
  <2>1. writing[v] \subseteq Sessions /\ writing[v] \subseteq created
    BY <1>10 DEF WriteSnapshot, ChatsAreKnown, TypeOK
  <2>2. stored' \subseteq stored \cup writing[v]
    BY <1>10, <2>1, SavedChats DEF WriteSnapshot
  <2> QED
    BY <1>10, <2>1, <2>2 DEF WriteSnapshot, ChatsAreKnown, TypeOK
<1>11. ASSUME NEW v \in ViewModels, BeginDelete(v) PROVE ChatsAreKnown'
  BY <1>11 DEF BeginDelete, Busy, ChatsAreKnown, TypeOK, disk, snapshots
<1>12. ASSUME NEW v \in ViewModels, CheckDelete(v) PROVE ChatsAreKnown'
  <2>1. PICK s \in deletion[v].todo :
          \/ deletion' = [deletion EXCEPT
               ![v] = [todo |-> @.todo \ {s}, id |-> s, step |-> "record"]]
          \/ deletion' = [deletion EXCEPT ![v].todo = @ \ {s}]
    BY <1>12 DEF CheckDelete
  <2>2. \A w \in ViewModels :
          /\ deletion'[w].todo \subseteq created
          /\ deletion'[w].step \in Busy => deletion'[w].id \in created
    <3>1. deletion \in [ViewModels -> DeletionWork]
      BY DEF TypeOK, DeletionWork
    <3>2. deletion[v] \in DeletionWork /\ deletion[v].todo \subseteq created /\ s \in created
      BY <3>1, <2>1 DEF ChatsAreKnown
    <3>3. CASE deletion' = [deletion EXCEPT
                 ![v] = [todo |-> @.todo \ {s}, id |-> s, step |-> "record"]]
      BY <3>1, <3>2, <3>3 DEF ChatsAreKnown
    <3>4. CASE deletion' = [deletion EXCEPT ![v].todo = @ \ {s}]
      <4>1. deletion' = [deletion EXCEPT ![v] = [deletion[v] EXCEPT !.todo = @ \ {s}]]
        BY <3>1, <3>4
      <4>2. /\ [deletion[v] EXCEPT !.todo = @ \ {s}].todo \subseteq created
            /\ [deletion[v] EXCEPT !.todo = @ \ {s}].id = deletion[v].id
            /\ [deletion[v] EXCEPT !.todo = @ \ {s}].step = deletion[v].step
        BY <3>2 DEF DeletionWork, Work
      <4> QED
        BY <3>1, <4>1, <4>2 DEF ChatsAreKnown
    <3> QED
      BY <2>1, <3>3, <3>4
  <2> QED
    BY <1>12, <2>2 DEF CheckDelete, ChatsAreKnown, disk, snapshots
<1>13. ASSUME NEW v \in ViewModels, RecordDeletion(v) PROVE ChatsAreKnown'
  BY <1>13 DEF RecordDeletion, Holds, Deletes, Busy, ChatsAreKnown, TypeOK, disk, snapshots
<1>14. ASSUME NEW v \in ViewModels, RecordFails(v) PROVE ChatsAreKnown'
  BY <1>14 DEF RecordFails, Holds, DeletesNext, Busy, ChatsAreKnown, TypeOK, disk, snapshots
<1>15. ASSUME NEW v \in ViewModels, CommitRemoval(v) PROVE ChatsAreKnown'
  <2>1. PICK p \in {"files", "told"} : Deletes(v, p)
    BY <1>15 DEF CommitRemoval
  <2>2. deletion[v].step \in Busy /\ p \in Busy
    BY <1>15, <2>1 DEF CommitRemoval, Holds, Busy
  <2>3. stored' \subseteq stored
    <3> DEFINE S == stored \ (tombs \cup {deletion[v].id})
    <3>1. S \in SUBSET Sessions /\ S \subseteq stored
      BY DEF TypeOK
    <3>2. Saves(S) \/ SaveFails
      BY <1>15 DEF CommitRemoval
    <3> HIDE DEF S
    <3> QED
      BY <3>1, <3>2, SavedChats
  <2> QED
    BY <1>15, <2>1, <2>2, <2>3, HeldKnown DEF CommitRemoval, ChatsAreKnown, snapshots
<1>16. ASSUME NEW v \in ViewModels, DeleteFiles(v) PROVE ChatsAreKnown'
  <2>1. PICK p \in {"entry", "told"} : Deletes(v, p)
    BY <1>16 DEF DeleteFiles
  <2>2. deletion[v].step \in Busy /\ p \in Busy
    BY <1>16, <2>1 DEF DeleteFiles, Holds, Busy
  <2> QED
    BY <1>16, <2>1, <2>2, HeldKnown DEF DeleteFiles, ChatsAreKnown, snapshots
<1>17. ASSUME NEW v \in ViewModels, RemoveEntry(v) PROVE ChatsAreKnown'
  BY <1>17 DEF RemoveEntry, Holds, Deletes, Busy, ChatsAreKnown, TypeOK, disk, snapshots
<1>18. ASSUME NEW v \in ViewModels, TellDeleted(v) PROVE ChatsAreKnown'
  BY <1>18 DEF TellDeleted, DeletesNext, Busy, ChatsAreKnown, TypeOK, disk, snapshots
<1>19. ASSUME NEW v \in ViewModels, EndDelete(v) PROVE ChatsAreKnown'
  BY <1>19 DEF EndDelete, Persisted, NoWork, Busy, ChatsAreKnown, TypeOK, disk, snapshots
<1>20. CASE AskAttach
  BY <1>20 DEF AskAttach, ChatsAreKnown, TypeOK, disk, snapshots
<1>21. CASE CheckAttach
  BY <1>21 DEF CheckAttach, ChatsAreKnown, TypeOK, disk, snapshots
<1>22. CASE CreateDir
  BY <1>22 DEF CreateDir, ChatsAreKnown, TypeOK, disk, snapshots
<1>23. CASE Publish
  BY <1>23 DEF Publish, ChatsAreKnown, TypeOK, disk, snapshots
<1>24. CASE StartReconcile
  BY <1>24 DEF StartReconcile, ChatsAreKnown, TypeOK, disk, snapshots
<1>25. CASE ReconcileFiles
  BY <1>25 DEF ReconcileFiles, ChatsAreKnown, TypeOK, disk, snapshots
<1>26. CASE ReconcileEntry
  BY <1>26 DEF ReconcileEntry, ChatsAreKnown, TypeOK, disk, snapshots
<1>27. CASE EndReconcile
  BY <1>27 DEF EndReconcile, ChatsAreKnown, TypeOK, disk, snapshots
<1>28. CASE MergeRestored
  BY <1>28 DEF MergeRestored, Sanitized, Loaded, ChatsAreKnown, TypeOK, disk, snapshots
<1>29. CASE Crash
  BY <1>29 DEF Crash, NoWork, Busy, ChatsAreKnown, TypeOK, disk, snapshots
<1>30. CASE LockAttach
  BY <1>30 DEF LockAttach, ChatsAreKnown, TypeOK, disk, snapshots
<1> QED
  BY <1>1, <1>2, <1>3, <1>4, <1>5, <1>6, <1>7, <1>8, <1>9, <1>10, <1>11, <1>12, <1>13,
     <1>14, <1>15, <1>16, <1>17, <1>18, <1>19, <1>20, <1>21, <1>22, <1>23, <1>24, <1>25,
        <1>26, <1>27, <1>28, <1>29, <1>30
  DEF Next, Deletion, Attach, Reconcile

\* No step leaves a read to be merged without the deletions the journal holds: a
\* deletion is recorded in memory and on disk in one step under the journal's lock,
\* and a crash loses the read with the memory.
THEOREM ReadsStep ==
  ASSUME Inv, [Next]_vars
  PROVE  ReadsKnowDeletions'
<1> USE DEF Inv
<1>1. CASE UNCHANGED vars
  BY <1>1 DEF vars, ReadsKnowDeletions
<1>2. ASSUME NEW v \in ViewModels, OpenViewModel(v) PROVE ReadsKnowDeletions'
  BY <1>2 DEF OpenViewModel, ReadsKnowDeletions, TypeOK, disk
<1>3. ASSUME NEW v \in ViewModels, CloseViewModel(v) PROVE ReadsKnowDeletions'
  BY <1>3 DEF CloseViewModel, ReadsKnowDeletions, TypeOK, disk
<1>4. ASSUME NEW v \in ViewModels, FetchSessions(v) PROVE ReadsKnowDeletions'
  BY <1>4 DEF FetchSessions, LoadSucceeds, Refreshed, ReadsKnowDeletions, TypeOK, disk
<1>5. ASSUME NEW v \in ViewModels, FetchFails(v) PROVE ReadsKnowDeletions'
  BY <1>5 DEF FetchFails, LoadFails, Refreshed, RefreshFails, ReadsKnowDeletions, TypeOK,
     disk
<1>6. ASSUME NEW v \in ViewModels, MergeSessions(v) PROVE ReadsKnowDeletions'
  BY <1>6 DEF MergeSessions, ReadsKnowDeletions, TypeOK, disk
<1>7. ASSUME NEW v \in ViewModels, NewChat(v) PROVE ReadsKnowDeletions'
  BY <1>7 DEF NewChat, ReadsKnowDeletions, TypeOK, disk
<1>8. ASSUME NEW v \in ViewModels, UpdateChat(v) PROVE ReadsKnowDeletions'
  BY <1>8 DEF UpdateChat, ReadsKnowDeletions, TypeOK, disk
<1>9. ASSUME NEW v \in ViewModels, TakeSnapshot(v) PROVE ReadsKnowDeletions'
  BY <1>9 DEF TakeSnapshot, ReadsKnowDeletions, TypeOK, disk
<1>10. ASSUME NEW v \in ViewModels, WriteSnapshot(v) PROVE ReadsKnowDeletions'
  BY <1>10 DEF WriteSnapshot, Saves, SaveFails, Refreshed, RefreshFails,
     ReadsKnowDeletions, TypeOK, disk
<1>11. ASSUME NEW v \in ViewModels, BeginDelete(v) PROVE ReadsKnowDeletions'
  BY <1>11 DEF BeginDelete, ReadsKnowDeletions, TypeOK, disk
<1>12. ASSUME NEW v \in ViewModels, CheckDelete(v) PROVE ReadsKnowDeletions'
  BY <1>12 DEF CheckDelete, LoadSucceeds, LoadFails, Refreshed, RefreshFails,
     ReadsKnowDeletions, TypeOK, disk
<1>13. ASSUME NEW v \in ViewModels, RecordDeletion(v) PROVE ReadsKnowDeletions'
  BY <1>13 DEF RecordDeletion, ReadsKnowDeletions, TypeOK, disk
<1>14. ASSUME NEW v \in ViewModels, RecordFails(v) PROVE ReadsKnowDeletions'
  BY <1>14 DEF RecordFails, ReadsKnowDeletions, TypeOK, disk
<1>15. ASSUME NEW v \in ViewModels, CommitRemoval(v) PROVE ReadsKnowDeletions'
  BY <1>15 DEF CommitRemoval, Saves, SaveFails, Refreshed, RefreshFails,
     ReadsKnowDeletions, TypeOK, disk
<1>16. ASSUME NEW v \in ViewModels, DeleteFiles(v) PROVE ReadsKnowDeletions'
  BY <1>16 DEF DeleteFiles, ReadsKnowDeletions, TypeOK, disk
<1>17. ASSUME NEW v \in ViewModels, RemoveEntry(v) PROVE ReadsKnowDeletions'
  BY <1>17 DEF RemoveEntry, ReadsKnowDeletions, TypeOK, disk
<1>18. ASSUME NEW v \in ViewModels, TellDeleted(v) PROVE ReadsKnowDeletions'
  BY <1>18 DEF TellDeleted, ReadsKnowDeletions, TypeOK, disk
<1>19. ASSUME NEW v \in ViewModels, EndDelete(v) PROVE ReadsKnowDeletions'
  BY <1>19 DEF EndDelete, ReadsKnowDeletions, TypeOK, disk
<1>20. CASE AskAttach
  BY <1>20 DEF AskAttach, ReadsKnowDeletions, TypeOK, disk
<1>21. CASE CheckAttach
  BY <1>21 DEF CheckAttach, Refreshed, RefreshFails, ReadsKnowDeletions, TypeOK, disk
<1>22. CASE CreateDir
  BY <1>22 DEF CreateDir, ReadsKnowDeletions, TypeOK, disk
<1>23. CASE Publish
  BY <1>23 DEF Publish, ReadsKnowDeletions, TypeOK, disk
<1>24. CASE StartReconcile
  BY <1>24 DEF StartReconcile, RefreshFails, ReadsKnowDeletions, TypeOK, disk
<1>25. CASE ReconcileFiles
  BY <1>25 DEF ReconcileFiles, ReadsKnowDeletions, TypeOK, disk
<1>26. CASE ReconcileEntry
  BY <1>26 DEF ReconcileEntry, ReadsKnowDeletions, TypeOK, disk
<1>27. CASE EndReconcile
  BY <1>27 DEF EndReconcile, ReadsKnowDeletions, TypeOK, disk
<1>28. CASE MergeRestored
  BY <1>28 DEF MergeRestored, LoadSucceeds, LoadFails, Refreshed, RefreshFails,
     ReadsKnowDeletions, TypeOK, disk
<1>29. CASE Crash
  BY <1>29 DEF Crash, ReadsKnowDeletions, TypeOK, disk
<1>30. CASE LockAttach
  BY <1>30 DEF LockAttach, ReadsKnowDeletions, TypeOK, disk
<1> QED
  BY <1>1, <1>2, <1>3, <1>4, <1>5, <1>6, <1>7, <1>8, <1>9, <1>10, <1>11, <1>12, <1>13,
     <1>14, <1>15, <1>16, <1>17, <1>18, <1>19, <1>20, <1>21, <1>22, <1>23, <1>24, <1>25,
        <1>26, <1>27, <1>28, <1>29, <1>30
  DEF Next, Deletion, Attach, Reconcile

\* The inductive invariant holds in every reachable state.
THEOREM Invariance == Spec => []Inv
<1>1. Init => Inv
  BY InitInv
<1>2. Inv /\ [Next]_vars => Inv'
  BY TypeStep, KnownStep, ReadsStep DEF Inv
<1> QED
  BY <1>1, <1>2, PTL DEF Spec

\* The type invariant of the chat store.
THEOREM TypeCorrect == Spec => []TypeOK
<1>1. Inv => TypeOK
  BY DEF Inv
<1> QED
  BY <1>1, Invariance, PTL

\* Chat s appears where it was not.
Rises(s) ==
  \/ s \in stored' /\ s \notin stored
  \/ \E v \in ViewModels : s \in visible'[v] /\ s \notin visible[v]

\* A save of any snapshot, with what was restored since, does not bring back a chat
\* that the journal on disk says is deleted: it reads the journal first.
LEMMA SaveKeepsDeleted ==
  ASSUME TypeOK, NEW S \in SUBSET Sessions, Saves(S) \/ SaveFails, NEW s \in tombstones,
         s \in stored'
  PROVE  s \in stored
  BY DEF Saves, SaveFails, Sanitized, Refreshed

\* No step makes a deleted chat appear, on disk or in a view model.
THEOREM DeletedStep ==
  ASSUME Inv, [Next]_vars, NEW s \in tombstones
  PROVE  ~Rises(s)
<1> USE DEF Inv
<1>1. CASE UNCHANGED <<stored, visible>>
  BY <1>1 DEF Rises
<1>2. ASSUME NEW v \in ViewModels, MergeSessions(v) PROVE ~Rises(s)
  BY <1>2 DEF MergeSessions, Rises, ReadsKnowDeletions, TypeOK, disk
<1>3. ASSUME NEW v \in ViewModels, NewChat(v) PROVE ~Rises(s)
  BY <1>3 DEF NewChat, Rises, ChatsAreKnown, TypeOK, disk
<1>4. ASSUME NEW v \in ViewModels, WriteSnapshot(v) PROVE ~Rises(s)
  <2>1. writing[v] \in SUBSET Sessions
    BY <1>4 DEF WriteSnapshot, TypeOK
  <2> QED
    BY <1>4, <2>1, SaveKeepsDeleted DEF WriteSnapshot, Rises
<1>5. ASSUME NEW v \in ViewModels, CommitRemoval(v) PROVE ~Rises(s)
  <2>1. stored \ (tombs \cup {deletion[v].id}) \in SUBSET Sessions
    BY DEF TypeOK
  <2> QED
    BY <1>5, <2>1, SaveKeepsDeleted DEF CommitRemoval, Rises
<1>6. ASSUME NEW v \in ViewModels, TellDeleted(v) PROVE ~Rises(s)
  BY <1>6 DEF TellDeleted, Rises, TypeOK, disk
<1>7. CASE MergeRestored
  BY <1>7 DEF MergeRestored, LoadSucceeds, LoadFails, Refreshed, Sanitized, Loaded,
     Rises, TypeOK
<1>8. CASE Crash
  BY <1>8 DEF Crash, Rises, disk
<1>9. CASE \E v \in ViewModels :
             \/ OpenViewModel(v) \/ CloseViewModel(v) \/ FetchSessions(v) \/ FetchFails(v)
             \/ UpdateChat(v) \/ TakeSnapshot(v) \/ BeginDelete(v) \/ CheckDelete(v)
             \/ RecordDeletion(v) \/ RecordFails(v) \/ DeleteFiles(v) \/ RemoveEntry(v)
             \/ EndDelete(v)
  <2>1. UNCHANGED <<stored, visible>>
    BY <1>9 DEF OpenViewModel, CloseViewModel, FetchSessions, FetchFails, UpdateChat,
       TakeSnapshot, BeginDelete, CheckDelete, RecordDeletion, RecordFails, DeleteFiles,
       RemoveEntry, EndDelete, disk
  <2> QED
    BY <1>1, <2>1
<1>10. CASE AskAttach \/ Attach \/ StartReconcile \/ Reconcile
  <2>1. UNCHANGED <<stored, visible>>
    BY <1>10 DEF AskAttach, Attach, LockAttach, CheckAttach, CreateDir, Publish, StartReconcile,
       Reconcile, ReconcileFiles, ReconcileEntry, EndReconcile, disk
  <2> QED
    BY <1>1, <2>1
<1>11. CASE UNCHANGED vars
  BY <1>11, <1>1 DEF vars
<1> QED
  BY <1>2, <1>3, <1>4, <1>5, <1>6, <1>7, <1>8, <1>9, <1>10, <1>11 DEF Next, Deletion

\* A chat whose deletion was recorded never comes back: not by the save of a
\* snapshot taken before, the merge of an earlier read, a restore or a crash.
THEOREM DeletedStays == Spec => DeletedStaysDeleted
<1>1. Inv /\ [Next]_vars =>
        [\A s \in tombstones :
           /\ s \in stored' => s \in stored
           /\ \A v \in ViewModels : s \in visible'[v] => s \in visible[v]]_vars
  BY DeletedStep DEF Rises
<1> QED
  BY <1>1, Invariance, PTL DEF Spec, DeletedStaysDeleted

-----------------------------------------------------------------------------
(* What a deletion under way has done so far.                               *)

\* Recording a deletion comes first, one deletion at a time holds the lock of
\* the repository, and the reconciliation works on recorded deletions only.
RecordInv ==
  /\ tombs \subseteq tombstones
  /\ reconcile.todo \subseteq tombstones
  /\ reconcile.step = "entry" => reconcile.id \in tombstones
  /\ \A v \in ViewModels :
       deletion[v].step \in {"save", "files", "entry", "told"}
         => deletion[v].id \in tombstones
  /\ \A v, w \in ViewModels :
       deletion[v].step \in LockedSteps /\ deletion[w].step \in LockedSteps => v = w

\* A deletion that goes to its next step keeps its chat, and disturbs no other.
LEMMA StepEffect ==
  ASSUME TypeOK, NEW v \in ViewModels, NEW p, Deletes(v, p)
  PROVE  /\ deletion'[v].step = p /\ deletion'[v].id = deletion[v].id
         /\ \A w \in ViewModels \ {v} : deletion'[w] = deletion[w]
  BY DEF TypeOK, Deletes, Work

\* A deletion that is done with its chat disturbs no other.
LEMMA NextEffect ==
  ASSUME TypeOK, NEW v \in ViewModels, DeletesNext(v)
  PROVE  /\ deletion'[v].step = "next"
         /\ \A w \in ViewModels \ {v} : deletion'[w] = deletion[w]
  BY DEF TypeOK, DeletesNext, Work

\* A deletion turns to its next chat, or leaves one out, and disturbs no other.
LEMMA CheckEffect ==
  ASSUME TypeOK, NEW v \in ViewModels, CheckDelete(v)
  PROVE  /\ deletion[v].step = "next" /\ RepoFree
         /\ deletion'[v].step \in {"next", "record"}
         /\ \A w \in ViewModels \ {v} : deletion'[w] = deletion[w]
  BY DEF TypeOK, CheckDelete, Holds, Work

\* No step of a deletion comes before its record in the journal.
LEMMA RecordStep == ASSUME Inv, RecordInv, [Next]_vars PROVE RecordInv'
<1> USE DEF Inv
<1>1. CASE UNCHANGED vars
  BY <1>1 DEF vars, RecordInv, TypeOK
<1>2. ASSUME NEW v \in ViewModels, OpenViewModel(v) PROVE RecordInv'
  BY <1>2 DEF OpenViewModel, disk, RecordInv, TypeOK
<1>3. ASSUME NEW v \in ViewModels, CloseViewModel(v) PROVE RecordInv'
  BY <1>3 DEF CloseViewModel, disk, RecordInv, TypeOK
<1>4. ASSUME NEW v \in ViewModels, FetchSessions(v) PROVE RecordInv'
  BY <1>4 DEF FetchSessions, LoadSucceeds, Refreshed, disk, RecordInv, TypeOK
<1>5. ASSUME NEW v \in ViewModels, FetchFails(v) PROVE RecordInv'
  BY <1>5 DEF FetchFails, LoadFails, Refreshed, RefreshFails, disk, RecordInv, TypeOK
<1>6. ASSUME NEW v \in ViewModels, MergeSessions(v) PROVE RecordInv'
  BY <1>6 DEF MergeSessions, disk, RecordInv, TypeOK
<1>7. ASSUME NEW v \in ViewModels, NewChat(v) PROVE RecordInv'
  BY <1>7 DEF NewChat, disk, RecordInv, TypeOK
<1>8. ASSUME NEW v \in ViewModels, UpdateChat(v) PROVE RecordInv'
  BY <1>8 DEF UpdateChat, disk, RecordInv, TypeOK
<1>9. ASSUME NEW v \in ViewModels, TakeSnapshot(v) PROVE RecordInv'
  BY <1>9 DEF TakeSnapshot, disk, RecordInv, TypeOK
<1>10. ASSUME NEW v \in ViewModels, WriteSnapshot(v) PROVE RecordInv'
  BY <1>10 DEF WriteSnapshot, Saves, SaveFails, Refreshed, RefreshFails, RecordInv,
     TypeOK
<1>11. ASSUME NEW v \in ViewModels, BeginDelete(v) PROVE RecordInv'
  BY <1>11 DEF BeginDelete, LockedSteps, disk, RecordInv, TypeOK
<1>12. ASSUME NEW v \in ViewModels, CheckDelete(v) PROVE RecordInv'
  <2>1. tombs' \subseteq tombstones /\ UNCHANGED <<tombstones, reconcile>>
    BY <1>12 DEF CheckDelete, LoadSucceeds, LoadFails, Refreshed, RefreshFails, RecordInv, disk
  <2> QED
    BY <1>12, <2>1, CheckEffect DEF RecordInv, LockedSteps, RepoFree
<1>13. ASSUME NEW v \in ViewModels, RecordDeletion(v) PROVE RecordInv'
  BY <1>13, StepEffect DEF RecordDeletion, Holds, LockedSteps, RecordInv, TypeOK
<1>14. ASSUME NEW v \in ViewModels, RecordFails(v) PROVE RecordInv'
  BY <1>14, NextEffect DEF RecordFails, Holds, LockedSteps, disk, RecordInv, TypeOK
<1>15. ASSUME NEW v \in ViewModels, CommitRemoval(v) PROVE RecordInv'
  BY <1>15, StepEffect DEF CommitRemoval, Holds, LockedSteps, Saves, SaveFails,
     Refreshed, RefreshFails, RecordInv, TypeOK
<1>16. ASSUME NEW v \in ViewModels, DeleteFiles(v) PROVE RecordInv'
  BY <1>16, StepEffect DEF DeleteFiles, Holds, LockedSteps, RecordInv, TypeOK
<1>17. ASSUME NEW v \in ViewModels, RemoveEntry(v) PROVE RecordInv'
  BY <1>17, StepEffect DEF RemoveEntry, Holds, LockedSteps, RecordInv, TypeOK
<1>18. ASSUME NEW v \in ViewModels, TellDeleted(v) PROVE RecordInv'
  BY <1>18, NextEffect DEF TellDeleted, Holds, LockedSteps, disk, RecordInv, TypeOK
<1>19. ASSUME NEW v \in ViewModels, EndDelete(v) PROVE RecordInv'
  BY <1>19 DEF EndDelete, NoWork, LockedSteps, disk, RecordInv, TypeOK
<1>20. CASE AskAttach
  BY <1>20 DEF AskAttach, disk, RecordInv, TypeOK
<1>21. CASE CheckAttach
  BY <1>21 DEF CheckAttach, Refreshed, RefreshFails, disk, RecordInv, TypeOK
<1>22. CASE CreateDir
  BY <1>22 DEF CreateDir, RecordInv, TypeOK
<1>23. CASE Publish
  BY <1>23 DEF Publish, RecordInv, TypeOK
<1>24. CASE StartReconcile
  BY <1>24 DEF StartReconcile, RefreshFails, disk, RecordInv, TypeOK
<1>25. CASE ReconcileFiles
  <2>1. UNCHANGED <<tombs, tombstones, deletion>>
    BY <1>25 DEF ReconcileFiles
  <2>2. PICK s \in reconcile.todo :
          \/ reconcile' = [reconcile EXCEPT !.todo = @ \ {s}, !.id = s, !.step = "entry"]
          \/ reconcile' = [reconcile EXCEPT !.todo = @ \ {s}]
    BY <1>25 DEF ReconcileFiles
  <2>3. /\ reconcile'.todo \subseteq reconcile.todo
        /\ \/ reconcile'.id = s
           \/ reconcile'.id = reconcile.id /\ reconcile'.step = reconcile.step
    <3>1. reconcile = [todo |-> reconcile.todo, id |-> reconcile.id, step |-> reconcile.step]
      BY DEF TypeOK, Work
    <3>2. CASE reconcile' = [reconcile EXCEPT !.todo = @ \ {s}, !.id = s, !.step = "entry"]
      BY <3>1, <3>2
    <3>3. CASE reconcile' = [reconcile EXCEPT !.todo = @ \ {s}]
      BY <3>1, <3>3
    <3> QED
      BY <2>2, <3>2, <3>3
  <2> QED
    BY <2>1, <2>2, <2>3 DEF RecordInv
<1>26. CASE ReconcileEntry
  BY <1>26 DEF ReconcileEntry, RecordInv, TypeOK
<1>27. CASE EndReconcile
  BY <1>27 DEF EndReconcile, NoWork, disk, RecordInv, TypeOK
<1>28. CASE MergeRestored
  BY <1>28 DEF MergeRestored, LoadSucceeds, LoadFails, Refreshed, RefreshFails,
     RecordInv, TypeOK
<1>29. CASE Crash
  BY <1>29 DEF Crash, NoWork, LockedSteps, disk, RecordInv, TypeOK
<1>30. CASE LockAttach
  BY <1>30 DEF LockAttach, disk, RecordInv, TypeOK
<1> QED
  BY <1>1, <1>2, <1>3, <1>4, <1>5, <1>6, <1>7, <1>8, <1>9, <1>10, <1>11, <1>12, <1>13,
     <1>14, <1>15, <1>16, <1>17, <1>18, <1>19, <1>20, <1>21, <1>22, <1>23, <1>24, <1>25,
     <1>26, <1>27, <1>28, <1>29, <1>30
  DEF Next, Deletion, Attach, Reconcile

-----------------------------------------------------------------------------
(* The history is kept, as long as one view model writes it.                *)

\* One view model in the life of a process: a second one may be opened while the
\* worker of the first still has an older snapshot to write.
OneViewModel == \A v, w \in ViewModels : v = w

\* Chats a view model need not have in a snapshot: those it shows, those that
\* saves keep by themselves and those whose deletion was recorded.
Kept     == restored \cup tombstones
Known(v) == visible[v] \cup Kept

\* A stored chat is in whatever may be written next: in the read that is to be
\* merged, in the chats shown once the store is Ready and in each snapshot; a later
\* snapshot has the chats of an earlier one.
HistoryInv ==
  \A v \in ViewModels :
    /\ fetched[v] # None => stored \subseteq fetched[v] \cup Known(v)
    /\ storeState = "Ready" => stored \subseteq Known(v)
    /\ queue[v] # None =>
         /\ queue[v] \subseteq visible[v] \cup tombstones
         /\ stored \subseteq queue[v] \cup Kept
    /\ writing[v] # None =>
         /\ writing[v] \subseteq visible[v] \cup tombstones
         /\ stored \subseteq writing[v] \cup Kept
         /\ queue[v] # None => writing[v] \subseteq queue[v] \cup tombstones

\* A save writes the snapshot and what was restored, except for recorded deletions.
LEMMA SaveWrites ==
  ASSUME RecordInv, NEW S, Saves(S) \/ SaveFails, UNCHANGED tombstones
  PROVE  /\ stored' = stored \/ (stored' \subseteq S \cup restored)
         /\ \A s \in stored : s \in S \cup restored /\ s \notin tombstones => s \in stored'
  BY DEF RecordInv, Saves, SaveFails, Sanitized, Refreshed

\* No step puts a snapshot in the worker's way that lacks a stored chat.
LEMMA HistoryStep ==
  ASSUME OneViewModel, Inv, RecordInv, HistoryInv, [Next]_vars
  PROVE  HistoryInv'
<1> USE DEF Inv
<1>1. CASE UNCHANGED vars
  BY <1>1 DEF vars, HistoryInv, Known, Kept, OneViewModel, TypeOK
<1>2. ASSUME NEW v \in ViewModels, OpenViewModel(v) PROVE HistoryInv'
  BY <1>2 DEF OpenViewModel, disk, snapshots, HistoryInv, Known, Kept, OneViewModel,
     TypeOK
<1>3. ASSUME NEW v \in ViewModels, CloseViewModel(v) PROVE HistoryInv'
  BY <1>3 DEF CloseViewModel, Persisted, disk, bounds, HistoryInv, Known, Kept,
     OneViewModel, TypeOK
<1>4. ASSUME NEW v \in ViewModels, FetchSessions(v) PROVE HistoryInv'
  BY <1>4 DEF FetchSessions, LoadSucceeds, Refreshed, Loaded, RecordInv, disk,
     snapshots, HistoryInv, Known, Kept, OneViewModel, TypeOK
<1>5. ASSUME NEW v \in ViewModels, FetchFails(v) PROVE HistoryInv'
  BY <1>5 DEF FetchFails, disk, snapshots, HistoryInv, Known, Kept, OneViewModel, TypeOK
<1>6. ASSUME NEW v \in ViewModels, MergeSessions(v) PROVE HistoryInv'
  BY <1>6 DEF MergeSessions, RecordInv, disk, snapshots, HistoryInv, Known, Kept,
     OneViewModel, TypeOK
<1>7. ASSUME NEW v \in ViewModels, NewChat(v) PROVE HistoryInv'
  BY <1>7 DEF NewChat, Persisted, disk, HistoryInv, Known, Kept, OneViewModel, TypeOK
<1>8. ASSUME NEW v \in ViewModels, UpdateChat(v) PROVE HistoryInv'
  BY <1>8 DEF UpdateChat, Persisted, disk, HistoryInv, Known, Kept, OneViewModel, TypeOK
<1>9. ASSUME NEW v \in ViewModels, TakeSnapshot(v) PROVE HistoryInv'
  BY <1>9 DEF TakeSnapshot, disk, HistoryInv, Known, Kept, OneViewModel, TypeOK
<1>10. ASSUME NEW v \in ViewModels, WriteSnapshot(v) PROVE HistoryInv'
  <2>1. /\ writing[v] # None /\ (Saves(writing[v]) \/ SaveFails)
        /\ UNCHANGED <<tombstones, restored, storeState, visible, fetched, queue>>
        /\ writing' = [writing EXCEPT ![v] = None]
    BY <1>10 DEF WriteSnapshot
  <2>2. stored' \subseteq stored \cup writing[v] \cup restored
    BY <2>1, SaveWrites
  <2>3. writing'[v] = None
    BY <2>1 DEF TypeOK
  <2>4. /\ fetched[v] # None => stored' \subseteq fetched[v] \cup Known(v)
        /\ storeState = "Ready" => stored' \subseteq Known(v)
        /\ queue[v] # None => /\ queue[v] \subseteq visible[v] \cup tombstones
                              /\ stored' \subseteq queue[v] \cup Kept
    BY <2>1, <2>2 DEF HistoryInv, Known, Kept
  <2> QED
    BY <2>1, <2>3, <2>4 DEF HistoryInv, Known, Kept, OneViewModel
<1>11. ASSUME NEW v \in ViewModels, BeginDelete(v) PROVE HistoryInv'
  BY <1>11 DEF BeginDelete, disk, snapshots, HistoryInv, Known, Kept, OneViewModel,
     TypeOK
<1>12. ASSUME NEW v \in ViewModels, CheckDelete(v) PROVE HistoryInv'
  BY <1>12 DEF CheckDelete, disk, snapshots, HistoryInv, Known, Kept, OneViewModel,
     TypeOK
<1>13. ASSUME NEW v \in ViewModels, RecordDeletion(v) PROVE HistoryInv'
  BY <1>13 DEF RecordDeletion, snapshots, HistoryInv, Known, Kept, OneViewModel, TypeOK
<1>14. ASSUME NEW v \in ViewModels, RecordFails(v) PROVE HistoryInv'
  BY <1>14 DEF RecordFails, disk, snapshots, HistoryInv, Known, Kept, OneViewModel,
     TypeOK
<1>15. ASSUME NEW v \in ViewModels, CommitRemoval(v) PROVE HistoryInv'
  <2>1. stored' \subseteq stored
    <3> DEFINE S == stored \ (tombs \cup {deletion[v].id})
    <3>1. Saves(S) \/ SaveFails
      BY <1>15 DEF CommitRemoval
    <3>2. S \in SUBSET Sessions /\ S \subseteq stored
      BY DEF TypeOK
    <3> HIDE DEF S
    <3> QED
      BY <3>1, <3>2 DEF Saves, SaveFails, Sanitized
  <2> QED
    BY <1>15, <2>1 DEF CommitRemoval, snapshots, HistoryInv, Known, Kept
<1>16. ASSUME NEW v \in ViewModels, DeleteFiles(v) PROVE HistoryInv'
  BY <1>16 DEF DeleteFiles, snapshots, HistoryInv, Known, Kept, OneViewModel, TypeOK
<1>17. ASSUME NEW v \in ViewModels, RemoveEntry(v) PROVE HistoryInv'
  BY <1>17 DEF RemoveEntry, snapshots, HistoryInv, Known, Kept, OneViewModel, TypeOK
<1>18. ASSUME NEW v \in ViewModels, TellDeleted(v) PROVE HistoryInv'
  BY <1>18 DEF TellDeleted, Holds, RecordInv, disk, snapshots, HistoryInv, Known, Kept,
     OneViewModel, TypeOK
<1>19. ASSUME NEW v \in ViewModels, EndDelete(v) PROVE HistoryInv'
  BY <1>19 DEF EndDelete, Persisted, disk, HistoryInv, Known, Kept, OneViewModel, TypeOK
<1>20. CASE AskAttach
  BY <1>20 DEF AskAttach, disk, snapshots, HistoryInv, Known, Kept, OneViewModel, TypeOK
<1>21. CASE CheckAttach
  BY <1>21 DEF CheckAttach, disk, snapshots, HistoryInv, Known, Kept, OneViewModel,
     TypeOK
<1>22. CASE CreateDir
  BY <1>22 DEF CreateDir, snapshots, HistoryInv, Known, Kept, OneViewModel, TypeOK
<1>23. CASE Publish
  BY <1>23 DEF Publish, snapshots, HistoryInv, Known, Kept, OneViewModel, TypeOK
<1>24. CASE StartReconcile
  BY <1>24 DEF StartReconcile, disk, snapshots, HistoryInv, Known, Kept, OneViewModel,
     TypeOK
<1>25. CASE ReconcileFiles
  BY <1>25 DEF ReconcileFiles, snapshots, HistoryInv, Known, Kept, OneViewModel, TypeOK
<1>26. CASE ReconcileEntry
  BY <1>26 DEF ReconcileEntry, snapshots, HistoryInv, Known, Kept, OneViewModel, TypeOK
<1>27. CASE EndReconcile
  BY <1>27 DEF EndReconcile, disk, snapshots, HistoryInv, Known, Kept, OneViewModel,
     TypeOK
<1>28. CASE MergeRestored
  BY <1>28 DEF MergeRestored, LoadSucceeds, LoadFails, Refreshed, Sanitized, Loaded,
     RecordInv, snapshots, HistoryInv, Known, Kept, OneViewModel, TypeOK
<1>29. CASE Crash
  BY <1>29 DEF Crash, disk, HistoryInv, Known, Kept, OneViewModel, TypeOK
<1>30. CASE LockAttach
  BY <1>30 DEF LockAttach, disk, snapshots, HistoryInv, Known, Kept, OneViewModel, TypeOK
<1> QED
  BY <1>1, <1>2, <1>3, <1>4, <1>5, <1>6, <1>7, <1>8, <1>9, <1>10, <1>11, <1>12, <1>13,
     <1>14, <1>15, <1>16, <1>17, <1>18, <1>19, <1>20, <1>21, <1>22, <1>23, <1>24, <1>25,
     <1>26, <1>27, <1>28, <1>29, <1>30
  DEF Next, Deletion, Attach, Reconcile

\* A chat leaves the stored history only after its deletion was recorded: no
\* snapshot, however late, writes it away; for any number of chats, restores,
\* crashes and failing file operations, and one view model per process.
THEOREM HistoryIsKept == OneViewModel => (Spec => HistoryKept)
<1> SUFFICES ASSUME OneViewModel PROVE Spec => HistoryKept
  OBVIOUS
<1>1. Init => RecordInv /\ HistoryInv
  BY DEF Init, RecordInv, HistoryInv, NoWork, LockedSteps
<1>2. RecordInv /\ HistoryInv /\ Inv /\ [Next]_vars => RecordInv' /\ HistoryInv'
  BY RecordStep, HistoryStep
<1>3. Spec => [](RecordInv /\ HistoryInv)
  BY <1>1, <1>2, Invariance, PTL DEF Spec
<1>4. Inv /\ RecordInv /\ HistoryInv /\ [Next]_vars
        => [\A s \in stored \ stored' : s \in tombstones']_vars
  <2> SUFFICES ASSUME Inv, RecordInv, HistoryInv, Next, NEW s \in stored \ stored'
               PROVE  s \in tombstones'
    BY DEF vars
  <2> USE DEF Inv
  <2>1. ASSUME NEW v \in ViewModels, WriteSnapshot(v) PROVE s \in tombstones'
    <3>1. writing[v] # None /\ stored \subseteq writing[v] \cup Kept
      BY <2>1 DEF WriteSnapshot, HistoryInv
    <3>2. UNCHANGED tombstones /\ (Saves(writing[v]) \/ SaveFails)
      BY <2>1 DEF WriteSnapshot
    <3> QED
      BY <3>1, <3>2, SaveWrites DEF Kept
  <2>2. ASSUME NEW v \in ViewModels, CommitRemoval(v) PROVE s \in tombstones'
    <3> DEFINE S == stored \ (tombs \cup {deletion[v].id})
    <3>1. UNCHANGED tombstones /\ (Saves(S) \/ SaveFails)
      BY <2>2 DEF CommitRemoval
    <3>2. deletion[v].id \in tombstones /\ tombs \subseteq tombstones
      BY <2>2 DEF CommitRemoval, Holds, RecordInv
    <3>3. s \in S \/ s \in tombstones
      BY <3>2
    <3> HIDE DEF S
    <3> QED
      BY <3>1, <3>3, SaveWrites
  <2>3. ASSUME MergeRestored PROVE s \in tombstones'
    BY <2>3 DEF MergeRestored, LoadSucceeds, LoadFails, Refreshed, Sanitized, Loaded,
       RecordInv
  <2>4. ASSUME NEW v \in ViewModels,
               \/ OpenViewModel(v) \/ CloseViewModel(v) \/ FetchSessions(v)
               \/ FetchFails(v) \/ MergeSessions(v) \/ NewChat(v) \/ UpdateChat(v)
               \/ TakeSnapshot(v) \/ BeginDelete(v) \/ CheckDelete(v)
               \/ RecordDeletion(v) \/ RecordFails(v) \/ DeleteFiles(v)
               \/ RemoveEntry(v) \/ TellDeleted(v) \/ EndDelete(v)
        PROVE  stored' = stored
    BY <2>4 DEF OpenViewModel, CloseViewModel, FetchSessions, FetchFails, MergeSessions,
       NewChat, UpdateChat, TakeSnapshot, BeginDelete, CheckDelete, RecordDeletion,
       RecordFails, DeleteFiles, RemoveEntry, TellDeleted, EndDelete, disk
  <2>5. ASSUME AskAttach \/ Attach \/ StartReconcile \/ Reconcile \/ Crash
        PROVE  stored' = stored
    BY <2>5 DEF AskAttach, Attach, LockAttach, CheckAttach, CreateDir, Publish, StartReconcile,
       Reconcile, ReconcileFiles, ReconcileEntry, EndReconcile, Crash, disk
  <2> QED
    BY <2>1, <2>2, <2>3, <2>4, <2>5 DEF Next, Deletion
<1> QED
  BY <1>3, <1>4, Invariance, PTL DEF Spec, HistoryKept

-----------------------------------------------------------------------------
(* Files of deleted chats, in a process in which nothing fails.             *)

Undisturbed == faults = 0 /\ crashes = 0

\* The two caches of "cannot be read" are only set by a read or write that failed.
FlagsInv == faults = 0 => ~corrupt /\ ~chatCorrupt

\* The deletion under way has still to remove the files of s.
WillRemove(s) ==
  \E v \in ViewModels : deletion[v].id = s /\ deletion[v].step \in {"save", "files"}

\* The directory of a deleted chat is gone, listed or about to be removed; a copy
\* that holds the writeLock for such a chat, or a reconciliation that is about to
\* drop its entry, leaves a directory only for a deletion that has yet to remove it.
OrphanInv ==
  /\ \A s \in tombstones : dir[s] = "none" \/ s \in pending \/ WillRemove(s)
  /\ attach.step \in {"create", "publish"} /\ attach.id \in tombstones
       => WillRemove(attach.id)
  /\ \A v \in ViewModels : deletion[v].step = "entry" => dir[deletion[v].id] = "none"
  /\ reconcile.step = "entry" => dir[reconcile.id] = "none" \/ WillRemove(reconcile.id)

\* What fails is counted, and so is a crash.
LEMMA BoundsStep ==
  ASSUME Inv, [Next]_vars
  PROVE  (faults' = faults \/ Fault) /\ crashes' \in {crashes, crashes + 1}
<1> DEFINE Counted == (faults' = faults \/ Fault) /\ crashes' \in {crashes, crashes + 1}
<1> USE DEF Inv, bounds, NoFault
<1>1. CASE UNCHANGED vars
  BY <1>1 DEF vars
<1>2. ASSUME NEW v \in ViewModels, OpenViewModel(v) PROVE Counted
  BY <1>2 DEF OpenViewModel
<1>3. ASSUME NEW v \in ViewModels, CloseViewModel(v) PROVE Counted
  BY <1>3 DEF CloseViewModel
<1>4. ASSUME NEW v \in ViewModels, FetchSessions(v) PROVE Counted
  BY <1>4 DEF FetchSessions, LoadSucceeds, LoadFails, Refreshed, RefreshFails
<1>5. ASSUME NEW v \in ViewModels, FetchFails(v) PROVE Counted
  BY <1>5 DEF FetchFails, LoadSucceeds, LoadFails, Refreshed, RefreshFails
<1>6. ASSUME NEW v \in ViewModels, MergeSessions(v) PROVE Counted
  BY <1>6 DEF MergeSessions
<1>7. ASSUME NEW v \in ViewModels, NewChat(v) PROVE Counted
  BY <1>7 DEF NewChat
<1>8. ASSUME NEW v \in ViewModels, UpdateChat(v) PROVE Counted
  BY <1>8 DEF UpdateChat
<1>9. ASSUME NEW v \in ViewModels, TakeSnapshot(v) PROVE Counted
  BY <1>9 DEF TakeSnapshot
<1>10. ASSUME NEW v \in ViewModels, WriteSnapshot(v) PROVE Counted
  BY <1>10 DEF WriteSnapshot, Saves, SaveFails, Refreshed, RefreshFails
<1>11. ASSUME NEW v \in ViewModels, BeginDelete(v) PROVE Counted
  BY <1>11 DEF BeginDelete
<1>12. ASSUME NEW v \in ViewModels, CheckDelete(v) PROVE Counted
  BY <1>12 DEF CheckDelete, LoadSucceeds, LoadFails, Refreshed, RefreshFails
<1>13. ASSUME NEW v \in ViewModels, RecordDeletion(v) PROVE Counted
  BY <1>13 DEF RecordDeletion, JournalWrites, JournalWriteFails
<1>14. ASSUME NEW v \in ViewModels, RecordFails(v) PROVE Counted
  BY <1>14 DEF RecordFails, JournalWrites, JournalWriteFails
<1>15. ASSUME NEW v \in ViewModels, CommitRemoval(v) PROVE Counted
  BY <1>15 DEF CommitRemoval, Saves, SaveFails, Refreshed, RefreshFails
<1>16. ASSUME NEW v \in ViewModels, DeleteFiles(v) PROVE Counted
  BY <1>16 DEF DeleteFiles
<1>17. ASSUME NEW v \in ViewModels, RemoveEntry(v) PROVE Counted
  BY <1>17 DEF RemoveEntry, JournalWrites, JournalWriteFails
<1>18. ASSUME NEW v \in ViewModels, TellDeleted(v) PROVE Counted
  BY <1>18 DEF TellDeleted
<1>19. ASSUME NEW v \in ViewModels, EndDelete(v) PROVE Counted
  BY <1>19 DEF EndDelete
<1>20. CASE AskAttach
  BY <1>20 DEF AskAttach
<1>21. CASE CheckAttach
  BY <1>21 DEF CheckAttach, RefreshFails
<1>22. CASE CreateDir
  BY <1>22 DEF CreateDir
<1>23. CASE Publish
  BY <1>23 DEF Publish
<1>24. CASE StartReconcile
  BY <1>24 DEF StartReconcile, RefreshFails
<1>25. CASE ReconcileFiles
  BY <1>25 DEF ReconcileFiles
<1>26. CASE ReconcileEntry
  BY <1>26 DEF ReconcileEntry, JournalWrites, JournalWriteFails
<1>27. CASE EndReconcile
  BY <1>27 DEF EndReconcile
<1>28. CASE MergeRestored
  BY <1>28 DEF MergeRestored, LoadSucceeds, LoadFails, Refreshed, RefreshFails
<1>29. CASE Crash
  BY <1>29 DEF Crash
<1>30. CASE LockAttach
  BY <1>30 DEF LockAttach
<1> QED
  BY <1>1, <1>2, <1>3, <1>4, <1>5, <1>6, <1>7, <1>8, <1>9, <1>10, <1>11, <1>12, <1>13,
     <1>14, <1>15, <1>16, <1>17, <1>18, <1>19, <1>20, <1>21, <1>22, <1>23, <1>24, <1>25,
     <1>26, <1>27, <1>28, <1>29, <1>30
  DEF Next, Deletion, Attach, Reconcile

\* A failure leaves a count that is not 0.
LEMMA FaultCounts == ASSUME TypeOK, Fault PROVE faults' # 0
  BY SessionAssumption DEF TypeOK, Fault

\* As long as nothing fails, no file is found to be corrupt.
LEMMA FlagsStep == ASSUME Inv, FlagsInv, [Next]_vars PROVE FlagsInv'
<1> SUFFICES ASSUME faults' = 0 PROVE ~corrupt' /\ ~chatCorrupt'
  BY DEF FlagsInv
<1> USE DEF Inv
<1>a. ~Fault /\ faults = 0
  BY FaultCounts, BoundsStep
<1>b. ~corrupt /\ ~chatCorrupt
  BY <1>a DEF FlagsInv
<1>1. CASE UNCHANGED vars
  BY <1>1, <1>a, <1>b, Zenon DEF vars, flags
<1>2. ASSUME NEW v \in ViewModels, OpenViewModel(v) PROVE ~corrupt' /\ ~chatCorrupt'
  BY <1>2, <1>a, <1>b, Zenon DEF OpenViewModel, flags
<1>3. ASSUME NEW v \in ViewModels, CloseViewModel(v) PROVE ~corrupt' /\ ~chatCorrupt'
  BY <1>3, <1>a, <1>b, Zenon DEF CloseViewModel, flags
<1>4. ASSUME NEW v \in ViewModels, FetchSessions(v) PROVE ~corrupt' /\ ~chatCorrupt'
  BY <1>4, <1>a, <1>b, Zenon DEF FetchSessions, LoadSucceeds, LoadFails, Refreshed,
     RefreshFails, flags
<1>5. ASSUME NEW v \in ViewModels, FetchFails(v) PROVE ~corrupt' /\ ~chatCorrupt'
  BY <1>5, <1>a, <1>b, Zenon DEF FetchFails, LoadSucceeds, LoadFails, Refreshed,
     RefreshFails, flags
<1>6. ASSUME NEW v \in ViewModels, MergeSessions(v) PROVE ~corrupt' /\ ~chatCorrupt'
  BY <1>6, <1>a, <1>b, Zenon DEF MergeSessions, flags
<1>7. ASSUME NEW v \in ViewModels, NewChat(v) PROVE ~corrupt' /\ ~chatCorrupt'
  BY <1>7, <1>a, <1>b, Zenon DEF NewChat, flags
<1>8. ASSUME NEW v \in ViewModels, UpdateChat(v) PROVE ~corrupt' /\ ~chatCorrupt'
  BY <1>8, <1>a, <1>b, Zenon DEF UpdateChat, flags
<1>9. ASSUME NEW v \in ViewModels, TakeSnapshot(v) PROVE ~corrupt' /\ ~chatCorrupt'
  BY <1>9, <1>a, <1>b, Zenon DEF TakeSnapshot, flags
<1>10. ASSUME NEW v \in ViewModels, WriteSnapshot(v) PROVE ~corrupt' /\ ~chatCorrupt'
  BY <1>10, <1>a, <1>b DEF WriteSnapshot, Saves, SaveFails, Refreshed, RefreshFails,
     flags
<1>11. ASSUME NEW v \in ViewModels, BeginDelete(v) PROVE ~corrupt' /\ ~chatCorrupt'
  BY <1>11, <1>a, <1>b, Zenon DEF BeginDelete, flags
<1>12. ASSUME NEW v \in ViewModels, CheckDelete(v) PROVE ~corrupt' /\ ~chatCorrupt'
  BY <1>12, <1>a, <1>b, Zenon DEF CheckDelete, LoadSucceeds, LoadFails, Refreshed,
     RefreshFails, flags
<1>13. ASSUME NEW v \in ViewModels, RecordDeletion(v) PROVE ~corrupt' /\ ~chatCorrupt'
  BY <1>13, <1>a, <1>b, Zenon DEF RecordDeletion, JournalWrites, JournalWriteFails,
     flags
<1>14. ASSUME NEW v \in ViewModels, RecordFails(v) PROVE ~corrupt' /\ ~chatCorrupt'
  BY <1>14, <1>a, <1>b, Zenon DEF RecordFails, JournalWrites, JournalWriteFails, flags
<1>15. ASSUME NEW v \in ViewModels, CommitRemoval(v) PROVE ~corrupt' /\ ~chatCorrupt'
  BY <1>15, <1>a, <1>b DEF CommitRemoval, Saves, SaveFails, Refreshed, RefreshFails,
     flags
<1>16. ASSUME NEW v \in ViewModels, DeleteFiles(v) PROVE ~corrupt' /\ ~chatCorrupt'
  BY <1>16, <1>a, <1>b, Zenon DEF DeleteFiles, flags
<1>17. ASSUME NEW v \in ViewModels, RemoveEntry(v) PROVE ~corrupt' /\ ~chatCorrupt'
  BY <1>17, <1>a, <1>b DEF RemoveEntry, JournalWrites, JournalWriteFails, flags
<1>18. ASSUME NEW v \in ViewModels, TellDeleted(v) PROVE ~corrupt' /\ ~chatCorrupt'
  BY <1>18, <1>a, <1>b, Zenon DEF TellDeleted, flags
<1>19. ASSUME NEW v \in ViewModels, EndDelete(v) PROVE ~corrupt' /\ ~chatCorrupt'
  BY <1>19, <1>a, <1>b, Zenon DEF EndDelete, flags
<1>20. CASE AskAttach
  BY <1>20, <1>a, <1>b, Zenon DEF AskAttach, flags
<1>21. CASE CheckAttach
  <2>1. Refreshed /\ UNCHANGED chatCorrupt
    BY <1>21, <1>a DEF CheckAttach, RefreshFails
  <2> QED
    BY <1>b, <2>1, Zenon DEF Refreshed
<1>22. CASE CreateDir
  BY <1>22, <1>a, <1>b, Zenon DEF CreateDir, flags
<1>23. CASE Publish
  BY <1>23, <1>a, <1>b, Zenon DEF Publish, flags
<1>24. CASE StartReconcile
  BY <1>24, <1>a, <1>b DEF StartReconcile, RefreshFails, flags
<1>25. CASE ReconcileFiles
  BY <1>25, <1>a, <1>b, Zenon DEF ReconcileFiles, flags
<1>26. CASE ReconcileEntry
  BY <1>26, <1>a, <1>b DEF ReconcileEntry, JournalWrites, JournalWriteFails, flags
<1>27. CASE EndReconcile
  BY <1>27, <1>a, <1>b, Zenon DEF EndReconcile, flags
<1>28. CASE MergeRestored
  BY <1>28, <1>a, <1>b, Zenon DEF MergeRestored, LoadSucceeds, LoadFails, Refreshed,
     RefreshFails, flags
<1>29. CASE Crash
  BY <1>29, <1>a, <1>b, Zenon DEF Crash, flags
<1>30. CASE LockAttach
  BY <1>30, <1>a, <1>b, Zenon DEF LockAttach, flags
<1> QED
  BY <1>1, <1>2, <1>3, <1>4, <1>5, <1>6, <1>7, <1>8, <1>9, <1>10, <1>11, <1>12, <1>13,
     <1>14, <1>15, <1>16, <1>17, <1>18, <1>19, <1>20, <1>21, <1>22, <1>23, <1>24, <1>25,
     <1>26, <1>27, <1>28, <1>29, <1>30
  DEF Next, Deletion, Attach, Reconcile

\* With no failure, what may fail succeeds.
LEMMA QuietOperations ==
  ASSUME ~corrupt, ~chatCorrupt, ~Fault
  PROVE  ~RefreshFails /\ ~SaveFails /\ ~JournalWriteFails
  BY Zenon DEF RefreshFails, SaveFails, JournalWriteFails

\* A removal stays promised as long as the deletion that promised it keeps to it.
LEMMA WillRemoveStays ==
  ASSUME NEW v \in ViewModels, NEW s,
         \A w \in ViewModels \ {v} : deletion'[w] = deletion[w],
         deletion[v].step \in {"save", "files"} /\ deletion[v].id = s =>
           deletion'[v].id = s /\ deletion'[v].step \in {"save", "files"},
         WillRemove(s)
  PROVE  WillRemove(s)'
  BY DEF WillRemove

\* No step of an undisturbed process forgets the files of a deleted chat.
LEMMA OrphanStep ==
  ASSUME Inv, RecordInv, FlagsInv, Undisturbed => OrphanInv, [Next]_vars
  PROVE  (Undisturbed => OrphanInv)'
<1> SUFFICES ASSUME Undisturbed' PROVE OrphanInv'
  OBVIOUS
<1> USE DEF Inv
<1>a. faults' = 0 /\ crashes' = 0
  BY DEF Undisturbed
<1>b. ~Fault /\ faults = 0
  BY <1>a, FaultCounts, BoundsStep
<1>c. crashes = 0
  <2>1. crashes \in Nat
    BY SessionAssumption DEF TypeOK
  <2>2. crashes' \in {crashes, crashes + 1}
    BY BoundsStep
  <2> QED
    BY <1>a, <2>1, <2>2
<1>d. OrphanInv
  BY <1>b, <1>c DEF Undisturbed
<1>e. ~corrupt /\ ~chatCorrupt
  BY <1>b DEF FlagsInv
<1>f. ~RefreshFails /\ ~SaveFails /\ ~JournalWriteFails
  BY <1>b, <1>e, QuietOperations
<1> HIDE DEF Inv
<1>1. CASE UNCHANGED vars
  BY <1>1, <1>d DEF vars, OrphanInv, WillRemove, Inv, TypeOK
<1>2. ASSUME NEW v \in ViewModels, OpenViewModel(v) PROVE OrphanInv'
  BY <1>2, <1>d DEF OpenViewModel, disk, OrphanInv, WillRemove, Inv, TypeOK
<1>3. ASSUME NEW v \in ViewModels, CloseViewModel(v) PROVE OrphanInv'
  BY <1>3, <1>d DEF CloseViewModel, disk, OrphanInv, WillRemove, Inv, TypeOK
<1>4. ASSUME NEW v \in ViewModels, FetchSessions(v) PROVE OrphanInv'
  BY <1>4, <1>d DEF FetchSessions, disk, OrphanInv, WillRemove, Inv, TypeOK
<1>5. ASSUME NEW v \in ViewModels, FetchFails(v) PROVE OrphanInv'
  BY <1>5, <1>d DEF FetchFails, disk, OrphanInv, WillRemove, Inv, TypeOK
<1>6. ASSUME NEW v \in ViewModels, MergeSessions(v) PROVE OrphanInv'
  BY <1>6, <1>d DEF MergeSessions, disk, OrphanInv, WillRemove, Inv, TypeOK
<1>7. ASSUME NEW v \in ViewModels, NewChat(v) PROVE OrphanInv'
  BY <1>7, <1>d DEF NewChat, disk, OrphanInv, WillRemove, Inv, TypeOK
<1>8. ASSUME NEW v \in ViewModels, UpdateChat(v) PROVE OrphanInv'
  BY <1>8, <1>d DEF UpdateChat, disk, OrphanInv, WillRemove, Inv, TypeOK
<1>9. ASSUME NEW v \in ViewModels, TakeSnapshot(v) PROVE OrphanInv'
  BY <1>9, <1>d DEF TakeSnapshot, disk, OrphanInv, WillRemove, Inv, TypeOK
<1>10. ASSUME NEW v \in ViewModels, WriteSnapshot(v) PROVE OrphanInv'
  BY <1>10, <1>d DEF WriteSnapshot, disk, OrphanInv, WillRemove, Inv, TypeOK
<1>11. ASSUME NEW v \in ViewModels, BeginDelete(v) PROVE OrphanInv'
  BY <1>11, <1>d DEF BeginDelete, disk, OrphanInv, WillRemove, Inv, TypeOK
<1>12. ASSUME NEW v \in ViewModels, CheckDelete(v) PROVE OrphanInv'
  <2>1. UNCHANGED <<dir, tombstones, pending, attach, reconcile>>
    BY <1>12 DEF CheckDelete, disk
  <2>2. ASSUME NEW s, WillRemove(s) PROVE WillRemove(s)'
    BY <1>12, <2>2, CheckEffect, WillRemoveStays DEF Inv
  <2>3. \A w \in ViewModels : deletion'[w].step = "entry" => deletion'[w] = deletion[w]
    BY <1>12, CheckEffect DEF Inv
  <2> QED
    BY <2>1, <2>2, <2>3, <1>d DEF OrphanInv
<1>13. ASSUME NEW v \in ViewModels, RecordDeletion(v) PROVE OrphanInv'
  <2>1. /\ UNCHANGED <<dir, attach, reconcile>>
        /\ pending' = pending \cup {deletion[v].id}
        /\ tombstones' = tombstones \cup {deletion[v].id}
        /\ deletion[v].step = "record" /\ Deletes(v, "save")
    BY <1>13 DEF RecordDeletion, Holds
  <2>2. ASSUME NEW s, WillRemove(s) PROVE WillRemove(s)'
    BY <2>1, <2>2, StepEffect, WillRemoveStays DEF Inv
  <2>3. WillRemove(deletion[v].id)'
    <3>1. deletion'[v].id = deletion[v].id /\ deletion'[v].step = "save"
      BY <2>1, StepEffect DEF Inv
    <3>2. \E w \in ViewModels :
            deletion'[w].id = deletion'[v].id /\ deletion'[w].step \in {"save", "files"}
      BY <3>1
    <3> QED
      BY <3>2 DEF WillRemove
  <2>4. \A w \in ViewModels : deletion'[w].step = "entry" => deletion'[w] = deletion[w]
    BY <2>1, StepEffect DEF Inv
  <2> QED
    BY <2>1, <2>2, <2>3, <2>4, <1>d, StepEffect DEF OrphanInv, Inv
<1>14. ASSUME NEW v \in ViewModels, RecordFails(v) PROVE OrphanInv'
  BY <1>14, <1>d, <1>f DEF RecordFails, Holds, disk, OrphanInv, WillRemove, Inv, TypeOK
<1>15. ASSUME NEW v \in ViewModels, CommitRemoval(v) PROVE OrphanInv'
  <2>1. /\ UNCHANGED <<dir, tombstones, pending, attach, reconcile>>
        /\ deletion[v].step = "save" /\ Deletes(v, "files")
    BY <1>15, <1>f DEF CommitRemoval, Holds
  <2>2. ASSUME NEW s, WillRemove(s) PROVE WillRemove(s)'
    BY <2>1, <2>2, StepEffect, WillRemoveStays DEF Inv
  <2>3. \A w \in ViewModels : deletion'[w].step = "entry" => deletion'[w] = deletion[w]
    BY <2>1, StepEffect DEF Inv
  <2> QED
    BY <2>1, <2>2, <2>3, <1>d DEF OrphanInv
<1>16. ASSUME NEW v \in ViewModels, DeleteFiles(v) PROVE OrphanInv'
  BY <1>16, <1>b, <1>d, StepEffect DEF DeleteFiles, Holds, WriteLockFree, RecordInv,
     LockedSteps, OrphanInv, WillRemove, Inv, TypeOK
<1>17. ASSUME NEW v \in ViewModels, RemoveEntry(v) PROVE OrphanInv'
  <2>1. /\ UNCHANGED <<dir, tombstones, attach, reconcile>>
        /\ pending' = pending \ {deletion[v].id}
        /\ deletion[v].step = "entry" /\ Deletes(v, "told")
    BY <1>17, <1>f DEF RemoveEntry, Holds
  <2>2. ASSUME NEW s, WillRemove(s) PROVE WillRemove(s)'
    BY <2>1, <2>2, StepEffect, WillRemoveStays DEF Inv
  <2>3. \A w \in ViewModels : deletion'[w].step = "entry" => deletion'[w] = deletion[w]
    BY <2>1, StepEffect DEF Inv
  <2>4. dir[deletion[v].id] = "none"
    BY <2>1, <1>d DEF OrphanInv
  <2> QED
    BY <2>1, <2>2, <2>3, <2>4, <1>d DEF OrphanInv
<1>18. ASSUME NEW v \in ViewModels, TellDeleted(v) PROVE OrphanInv'
  <2>1. UNCHANGED <<dir, tombstones, pending, attach, reconcile>>
    BY <1>18 DEF TellDeleted, disk
  <2>2. DeletesNext(v) /\ deletion[v].step = "told"
    BY <1>18 DEF TellDeleted, Holds
  <2>3. ASSUME NEW s, WillRemove(s) PROVE WillRemove(s)'
    BY <2>2, <2>3, NextEffect, WillRemoveStays DEF Inv
  <2>4. \A w \in ViewModels : deletion'[w].step = "entry" => deletion'[w] = deletion[w]
    BY <2>2, NextEffect DEF Inv
  <2> QED
    BY <2>1, <2>3, <2>4, <1>d DEF OrphanInv
<1>19. ASSUME NEW v \in ViewModels, EndDelete(v) PROVE OrphanInv'
  BY <1>19, <1>d DEF EndDelete, NoWork, Holds, disk, OrphanInv, WillRemove, Inv, TypeOK
<1>20. CASE AskAttach
  BY <1>20, <1>d DEF AskAttach, NoWork, disk, OrphanInv, WillRemove, Inv, TypeOK
<1>21. CASE CheckAttach
  <2>1. UNCHANGED <<dir, tombstones, pending, deletion, reconcile>>
    BY <1>21 DEF CheckAttach, disk
  <2>2. attach'.step \in {"create", "publish"} => attach'.id \notin tombstones
    <3>1. attach' = NoWork \/ (attach' = [attach EXCEPT !.step = "create"]
                                 /\ attach.id \notin tombstones)
      BY <1>21, <1>f DEF CheckAttach, Refreshed
    <3> QED
      BY <3>1 DEF NoWork, Inv, TypeOK, Work
  <2> QED
    BY <2>1, <2>2, <1>d DEF OrphanInv, WillRemove
<1>22. CASE CreateDir
  <2>1. /\ attach.step = "create"
        /\ dir' = [dir EXCEPT ![attach.id] = IF @ = "none" THEN "dir" ELSE @]
        /\ UNCHANGED <<tombstones, pending, deletion, reconcile>>
    BY <1>22 DEF CreateDir
  <2>2. attach'.id = attach.id
    BY <1>22 DEF CreateDir, Inv, TypeOK, Work
  <2>3. \A s : WillRemove(s)' = WillRemove(s)
    BY <2>1 DEF WillRemove
  <2>4. \A s \in Sessions : s # attach.id => dir'[s] = dir[s]
    BY <2>1 DEF Inv, TypeOK
  <2>5. attach.id \in tombstones => WillRemove(attach.id)
    BY <2>1, <1>d DEF OrphanInv
  <2>6. ASSUME NEW w \in ViewModels, deletion[w].step = "entry"
        PROVE  deletion[w].id \in tombstones /\ deletion[w].id # attach.id
    BY <2>5, <2>6 DEF RecordInv, WillRemove, LockedSteps
  <2>7. tombstones \subseteq Sessions
    BY DEF Inv, TypeOK
  <2>8. reconcile.step = "entry" => reconcile.id \in tombstones
    BY DEF RecordInv
  <2> QED
    BY <2>1, <2>2, <2>3, <2>4, <2>5, <2>6, <2>7, <2>8, <1>d DEF OrphanInv
<1>23. CASE Publish
  BY <1>23, <1>d DEF Publish, NoWork, RecordInv, OrphanInv, WillRemove, Inv, TypeOK
<1>24. CASE StartReconcile
  BY <1>24, <1>d, <1>f DEF StartReconcile, disk, OrphanInv, WillRemove, Inv, TypeOK
<1>25. CASE ReconcileFiles
  <2>1. UNCHANGED <<tombstones, pending, deletion, attach>>
    BY <1>25 DEF ReconcileFiles
  <2>2. PICK s \in reconcile.todo :
          /\ dir' = [dir EXCEPT ![s] = "none"]
          /\ reconcile' = [reconcile EXCEPT !.todo = @ \ {s}, !.id = s, !.step = "entry"]
    BY <1>25, <1>b DEF ReconcileFiles
  <2>3. reconcile'.id = s
    BY <2>2 DEF Inv, TypeOK, Work
  <2>4. \A t : WillRemove(t)' = WillRemove(t)
    BY <2>1 DEF WillRemove
  <2>5. s \in Sessions /\ dir'[s] = "none" /\ \A t \in Sessions : dir'[t] \in {"none", dir[t]}
    BY <2>2 DEF Inv, TypeOK, Work
  <2>6. \A w \in ViewModels : deletion[w].step = "entry" => deletion[w].id \in tombstones
    BY DEF RecordInv
  <2>7. tombstones \subseteq Sessions
    BY DEF Inv, TypeOK
  <2> QED
    BY <2>1, <2>3, <2>4, <2>5, <2>6, <2>7, <1>d DEF OrphanInv
<1>26. CASE ReconcileEntry
  BY <1>26, <1>d, <1>f DEF ReconcileEntry, OrphanInv, WillRemove, Inv, TypeOK
<1>27. CASE EndReconcile
  BY <1>27, <1>d DEF EndReconcile, NoWork, disk, OrphanInv, WillRemove, Inv, TypeOK
<1>28. CASE MergeRestored
  BY <1>28, <1>d DEF MergeRestored, OrphanInv, WillRemove, Inv, TypeOK
<1>29. CASE Crash
  BY <1>29, <1>a, <1>c DEF Crash, disk, OrphanInv, WillRemove, Inv, TypeOK
<1>30. CASE LockAttach
  BY <1>30, <1>d DEF LockAttach, NoWork, disk, OrphanInv, WillRemove, Inv, TypeOK
<1> QED
  BY <1>1, <1>2, <1>3, <1>4, <1>5, <1>6, <1>7, <1>8, <1>9, <1>10, <1>11, <1>12, <1>13,
     <1>14, <1>15, <1>16, <1>17, <1>18, <1>19, <1>20, <1>21, <1>22, <1>23, <1>24, <1>25,
     <1>26, <1>27, <1>28, <1>29, <1>30
  DEF Next, Deletion, Attach, Reconcile

\* As long as nothing fails and the process lives, the files of a deleted chat are
\* not forgotten, whatever copies, deletions and reconciliations overlap, for any
\* number of chats and view models.
THEOREM OrphansAreKnown == Spec => []OrphansAreListed
<1>1. Init => RecordInv /\ FlagsInv /\ (Undisturbed => OrphanInv)
  BY DEF Init, RecordInv, FlagsInv, OrphanInv, NoWork, LockedSteps
<1>2. RecordInv /\ FlagsInv /\ (Undisturbed => OrphanInv) /\ Inv /\ [Next]_vars
        => RecordInv' /\ FlagsInv' /\ (Undisturbed => OrphanInv)'
  BY RecordStep, FlagsStep, OrphanStep
<1>3. Spec => [](RecordInv /\ FlagsInv /\ (Undisturbed => OrphanInv))
  BY <1>1, <1>2, Invariance, PTL DEF Spec
<1>4. (Undisturbed => OrphanInv) => OrphansAreListed
  BY DEF Undisturbed, OrphanInv, WillRemove, OrphansAreListed, LockedSteps
<1> QED
  BY <1>3, <1>4, PTL
===============================================================================
