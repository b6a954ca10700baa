------------------------------- MODULE ChatStore -------------------------------
(***************************************************************************)
(* The chat history: ChatSessionRepository, ChatDeletionJournal,            *)
(* ChatAttachmentStore and the reconciliation of CacheCleanupCoordinator,   *)
(* used by the ChatViewModels of one process after another.  Text chats     *)
(* only: the vision half of the repository is its twin.                     *)
(*                                                                          *)
(* Three locks: the repository's (a deletion holds it over several steps, a *)
(* load, a save or a restore is one step under it), the attachment store's  *)
(* writeLock (a copy holds it from before its tombstone check, for which it *)
(* waits for the journal, to its publication) and the journal's (a          *)
(* reconciliation holds it throughout).  A file written by AtomicJsonFile   *)
(* has its old or its new contents, see AtomicJsonFile.tla.                 *)
(***************************************************************************)
EXTENDS Naturals, FiniteSets

CONSTANTS
  Sessions,    \* chat ids
  Saved,       \* the chats stored at the start
  Backup,      \* the ids a backup's chats are restored under
  Attached,    \* the chats that files are attached to
  ViewModels,
  None,
  MaxCrashes,  \* bound: deaths of the process
  MaxFaults    \* bound: reads, writes and deletions of files that fail

ASSUME SessionAssumption ==
  /\ Saved \subseteq Sessions
  /\ Backup \subseteq Sessions
  /\ Attached \subseteq Sessions
  /\ None \notin Sessions
  /\ MaxCrashes \in Nat
  /\ MaxFaults \in Nat

VARIABLES
  \* on disk
  stored,       \* ids in chat_sessions_v2.json
  tombstones,   \* in chat_deletion_journal.json, kept for ever
  pending,      \* in the journal, until the files are gone
  dir,          \* attachment directory of each chat: none, dir or file
  \* in the process
  tombs,        \* ChatDeletionJournal.tombstones
  corrupt,      \* hasCorruptData
  chatCorrupt,  \* isChatCorrupt
  restored,     \* restoredTextIds
  storeState,   \* StartupCoordinator.chatStoreState
  reconcile,    \* reconcilePendingDeletions under way
  attach,       \* storeAttachmentFromFile under way
  \* per view model
  vm,           \* none, live or cleared
  visible,      \* chatSessions
  fetched,      \* result of a disk read not yet merged
  queue,        \* sessionPersistenceChannel
  writing,      \* the snapshot its worker has taken
  deletion,     \* deleteSessions under way
  \* history
  created,      \* ids given to a chat so far
  crashes, faults

disk      == <<stored, tombstones, pending, dir>>
flags     == <<corrupt, chatCorrupt>>
snapshots == <<queue, writing>>
bounds    == <<crashes, faults>>
vars == <<stored, tombstones, pending, dir, tombs, corrupt, chatCorrupt, restored,
          storeState, reconcile, attach, vm, visible, fetched, queue, writing,
          deletion, created, crashes, faults>>

NoWork == [todo |-> {}, id |-> None, step |-> "idle"]

LockedSteps == {"record", "save", "files", "entry"}
Work(steps) ==
  [todo : SUBSET Sessions, id : Sessions \cup {None}, step : steps \cup {"idle"}]

TypeOK ==
  /\ stored \subseteq Sessions /\ tombstones \subseteq Sessions
  /\ pending \subseteq tombstones
  /\ dir \in [Sessions -> {"none", "dir", "file"}]
  /\ tombs \subseteq Sessions /\ restored \subseteq Sessions
  /\ corrupt \in BOOLEAN /\ chatCorrupt \in BOOLEAN
  /\ storeState \in {"Loading", "Ready", "Recovery"}
  /\ reconcile \in Work({"files", "entry"})
  /\ attach \in Work({"asked", "check", "create", "publish"})
  /\ vm \in [ViewModels -> {"none", "live", "cleared"}]
  /\ visible \in [ViewModels -> SUBSET Sessions]
  /\ fetched \in [ViewModels -> (SUBSET Sessions) \cup {None}]
  /\ queue \in [ViewModels -> (SUBSET Sessions) \cup {None}]
  /\ writing \in [ViewModels -> (SUBSET Sessions) \cup {None}]
  /\ deletion \in [ViewModels -> Work({"next", "told"} \cup LockedSteps)]
  /\ created \subseteq Sessions
  /\ crashes \in 0..MaxCrashes /\ faults \in 0..MaxFaults

Init ==
  /\ stored = Saved /\ created = Saved
  /\ tombstones = {} /\ pending = {}
  /\ dir \in [Sessions -> {"none", "file"}]
  /\ \A s \in Sessions \ (Saved \cap Attached) : dir[s] = "none"
  /\ tombs = {} /\ restored = {} /\ corrupt = FALSE /\ chatCorrupt = FALSE
  /\ storeState = "Loading"
  /\ reconcile = NoWork /\ attach = NoWork
  /\ vm = [v \in ViewModels |-> "none"]
  /\ visible = [v \in ViewModels |-> {}]
  /\ fetched = [v \in ViewModels |-> None]
  /\ queue = [v \in ViewModels |-> None]
  /\ writing = [v \in ViewModels |-> None]
  /\ deletion = [v \in ViewModels |-> NoWork]
  /\ crashes = 0 /\ faults = 0

RepoFree      == \A v \in ViewModels : deletion[v].step \notin LockedSteps
JournalFree   == reconcile.step = "idle"
WriteLockFree == attach.step \notin {"check", "create", "publish"}

Holds(v, step) == deletion[v].step = step
Deletes(v, step) == deletion' = [deletion EXCEPT ![v].step = step]
DeletesNext(v) == deletion' = [deletion EXCEPT ![v].id = None, ![v].step = "next"]

\* A file operation fails, within the bound.
Fault   == faults < MaxFaults /\ faults' = faults + 1
NoFault == UNCHANGED faults

-----------------------------------------------------------------------------
(* Operations every public operation is made of.                            *)

\* refreshForHistoryAccess: what the journal on disk says is added to tombs.
Refreshed ==
  /\ JournalFree
  /\ tombs' = tombs \cup tombstones
  /\ corrupt' = FALSE

\* A journal that was never written is Missing, which reads without failing.
RefreshFails ==
  /\ JournalFree
  /\ tombstones # {}
  /\ Fault
  /\ corrupt' = TRUE
  /\ UNCHANGED tombs

\* loadChatSessions, the lock being held or free: its outcome and its result.
LoadSucceeds == Refreshed /\ chatCorrupt' = FALSE /\ NoFault
LoadFails ==
  \/ RefreshFails /\ UNCHANGED chatCorrupt
  \/ Refreshed /\ Fault /\ chatCorrupt' = TRUE
Loaded == stored \ tombs'

\* Mutant: a chat that was restored meanwhile is not kept.
SnapshotOnly(sessions) == sessions \ tombs'

\* What saveChatSessionsInternal writes, and its success.
Sanitized(sessions) == (sessions \cup (stored \cap restored)) \ tombs'
Saves(sessions) ==
  /\ Refreshed /\ ~chatCorrupt /\ NoFault
  /\ stored' = Sanitized(sessions)
  /\ UNCHANGED chatCorrupt

\* It returns false: the journal or the chats cannot be read, or not written.
SaveFails ==
  /\ UNCHANGED stored
  /\ \/ RefreshFails /\ UNCHANGED chatCorrupt
     \/ Refreshed /\ chatCorrupt /\ NoFault /\ UNCHANGED chatCorrupt
     \/ Refreshed /\ ~chatCorrupt /\ Fault /\ chatCorrupt' \in BOOLEAN

\* The journal's read-modify-write: recordPendingDeletion and removeEntry.
\* It fails at once while corrupt; a failed read leaves it so.
JournalWrites == JournalFree /\ ~corrupt /\ NoFault /\ UNCHANGED corrupt
JournalWriteFails ==
  \/ corrupt /\ NoFault /\ UNCHANGED corrupt
  \/ ~corrupt /\ Fault /\ corrupt' \in BOOLEAN

\* What persistSessions leaves in the channel.
Persisted(v, chats) ==
  IF storeState = "Ready" /\ vm[v] = "live" THEN chats ELSE queue[v]

-----------------------------------------------------------------------------
(* A view model: loads, messages and the persistence worker.                *)

\* The activity starts: a first view model, or the next after one is cleared.
OpenViewModel(v) ==
  /\ vm[v] = "none"
  /\ \A w \in ViewModels : vm[w] # "live"
  /\ vm' = [vm EXCEPT ![v] = "live"]
  /\ UNCHANGED <<disk, tombs, flags, restored, storeState, reconcile, attach, visible,
                 fetched, snapshots, deletion, created, bounds>>

\* onCleared: saves the current chat if it changed and closes the channel,
\* whose last snapshot the worker still writes.  A load under way is lost.
CloseViewModel(v) ==
  /\ vm[v] = "live"
  /\ vm' = [vm EXCEPT ![v] = "cleared"]
  /\ \/ visible[v] # {} /\ queue' = [queue EXCEPT ![v] = Persisted(v, visible[v])]
     \/ UNCHANGED queue
  /\ fetched' = [fetched EXCEPT ![v] = None]
  /\ UNCHANGED <<disk, tombs, flags, restored, storeState, reconcile, attach, visible,
                 writing, deletion, created, bounds>>

\* loadSessionsAsync, at the start, on externalChanges or on refreshHistory, ...
FetchSessions(v) ==
  /\ vm[v] = "live" /\ fetched[v] = None
  /\ RepoFree
  /\ LoadSucceeds
  /\ fetched' = [fetched EXCEPT ![v] = Loaded]
  /\ UNCHANGED <<disk, restored, storeState, reconcile, attach, vm, visible,
                 snapshots, deletion, created, crashes>>

FetchFails(v) ==
  /\ vm[v] = "live" /\ fetched[v] = None
  /\ RepoFree
  /\ LoadFails
  /\ storeState' = "Recovery"
  /\ UNCHANGED <<disk, restored, reconcile, attach, vm, visible, fetched,
                 snapshots, deletion, created, crashes>>

\* Mutant: chats deleted since the read are not looked for.
MergeStale(v) ==
  /\ fetched[v] # None
  /\ visible' = [visible EXCEPT ![v] = fetched[v] \cup @]
  /\ fetched' = [fetched EXCEPT ![v] = None]
  /\ storeState' = "Ready"
  /\ UNCHANGED <<disk, tombs, flags, restored, reconcile, attach, vm, snapshots,
                 deletion, created, bounds>>

\* ... and its result reaches the main thread: mergeSessionSnapshots.
MergeSessions(v) ==
  /\ fetched[v] # None
  /\ visible' = [visible EXCEPT ![v] = (fetched[v] \cup @) \ tombs]
  /\ fetched' = [fetched EXCEPT ![v] = None]
  /\ storeState' = "Ready"
  /\ UNCHANGED <<disk, tombs, flags, restored, reconcile, attach, vm, snapshots,
                 deletion, created, bounds>>

\* A message in a new chat: ensureCurrentSession, then saveCurrentSession.
NewChat(v) ==
  /\ vm[v] = "live" /\ deletion[v].step = "idle"
  /\ \E s \in Sessions \ (created \cup Backup) :
        /\ created' = created \cup {s}
        /\ visible' = [visible EXCEPT ![v] = @ \cup {s}]
        /\ queue' = [queue EXCEPT ![v] = Persisted(v, visible[v] \cup {s})]
  /\ UNCHANGED <<disk, tombs, flags, restored, storeState, reconcile, attach, vm,
                 fetched, writing, deletion, bounds>>

\* A message in, or an edit of, a chat that is there, while others may be deleted.
UpdateChat(v) ==
  /\ vm[v] = "live" /\ visible[v] # {}
  /\ queue' = [queue EXCEPT ![v] = Persisted(v, visible[v])]
  /\ UNCHANGED <<disk, tombs, flags, restored, storeState, reconcile, attach, vm,
                 visible, fetched, writing, deletion, created, bounds>>

\* The worker of sessionPersistenceScope takes the last snapshot, ...
TakeSnapshot(v) ==
  /\ queue[v] # None /\ writing[v] = None
  /\ writing' = [writing EXCEPT ![v] = queue[v]]
  /\ queue' = [queue EXCEPT ![v] = None]
  /\ UNCHANGED <<disk, tombs, flags, restored, storeState, reconcile, attach, vm,
                 visible, fetched, deletion, created, bounds>>

\* ... and writes it; an error is only shown.
WriteSnapshot(v) ==
  /\ writing[v] # None
  /\ RepoFree
  /\ Saves(writing[v]) \/ SaveFails
  /\ writing' = [writing EXCEPT ![v] = None]
  /\ UNCHANGED <<tombstones, pending, dir, restored, storeState, reconcile, attach,
                 vm, visible, fetched, queue, deletion, created, crashes>>

-----------------------------------------------------------------------------
(* deleteSessions of a view model, over HistoryDeletionCoordinator and      *)
(* deleteSessionAsync.  It is not cancelled with its view model.            *)

BeginDelete(v) ==
  /\ vm[v] = "live" /\ deletion[v].step = "idle"
  /\ \E ids \in SUBSET visible[v] \ {{}} :
        deletion' = [deletion EXCEPT ![v] = [todo |-> ids, id |-> None, step |-> "next"]]
  /\ UNCHANGED <<disk, tombs, flags, restored, storeState, reconcile, attach, vm,
                 visible, fetched, snapshots, created, bounds>>

\* The lock is taken and the chats are read; nothing is promised if that fails.
CheckDelete(v) ==
  /\ Holds(v, "next")
  /\ RepoFree
  /\ \E s \in deletion[v].todo :
        \/ /\ LoadSucceeds
           /\ deletion' = [deletion EXCEPT
                ![v] = [todo |-> @.todo \ {s}, id |-> s, step |-> "record"]]
        \/ /\ LoadFails
           /\ deletion' = [deletion EXCEPT ![v].todo = @ \ {s}]
  /\ UNCHANGED <<disk, restored, storeState, reconcile, attach, vm, visible, fetched,
                 snapshots, created, crashes>>

\* Mutant: the journal lists the files to remove and keeps no tombstone.
RecordPendingOnly(v) ==
  /\ Holds(v, "record")
  /\ JournalWrites
  /\ pending' = pending \cup {deletion[v].id}
  /\ Deletes(v, "save")
  /\ UNCHANGED <<stored, tombstones, dir, tombs, chatCorrupt, restored, storeState,
                 reconcile, attach, vm, visible, fetched, snapshots, created, crashes>>

\* recordPendingDeletion: from here on the chat is deleted.
RecordDeletion(v) ==
  /\ Holds(v, "record")
  /\ JournalWrites
  /\ pending' = pending \cup {deletion[v].id}
  /\ tombstones' = tombstones \cup {deletion[v].id}
  /\ tombs' = tombs \cup {deletion[v].id}
  /\ Deletes(v, "save")
  /\ UNCHANGED <<stored, dir, chatCorrupt, restored, storeState, reconcile, attach,
                 vm, visible, fetched, snapshots, created, crashes>>

RecordFails(v) ==
  /\ Holds(v, "record")
  /\ JournalFree
  /\ JournalWriteFails
  /\ DeletesNext(v)
  /\ UNCHANGED <<disk, tombs, chatCorrupt, restored, storeState, reconcile, attach,
                 vm, visible, fetched, snapshots, created, crashes>>

\* Step 3 of deleteSessionAsync.  If it fails the entry is left for a retry.
CommitRemoval(v) ==
  /\ Holds(v, "save")
  /\ \/ Saves(stored \ (tombs \cup {deletion[v].id})) /\ Deletes(v, "files")
     \/ SaveFails /\ Deletes(v, "told")
  /\ UNCHANGED <<tombstones, pending, dir, restored, storeState, reconcile, attach,
                 vm, visible, fetched, snapshots, created, crashes>>

\* deleteSessionAttachments
DeleteFiles(v) ==
  /\ Holds(v, "files")
  /\ WriteLockFree
  /\ \/ /\ NoFault
        /\ dir' = [dir EXCEPT ![deletion[v].id] = "none"]
        /\ Deletes(v, "entry")
     \/ /\ dir[deletion[v].id] # "none"
        /\ Fault
        /\ UNCHANGED dir
        /\ Deletes(v, "told")
  /\ UNCHANGED <<stored, tombstones, pending, tombs, flags, restored, storeState,
                 reconcile, attach, vm, visible, fetched, snapshots, created, crashes>>

\* removeEntry, whether it succeeds or not: the tombstone stays.
RemoveEntry(v) ==
  /\ Holds(v, "entry")
  /\ JournalFree
  /\ \/ JournalWrites /\ pending' = pending \ {deletion[v].id}
     \/ JournalWriteFails /\ UNCHANGED pending
  /\ Deletes(v, "told")
  /\ UNCHANGED <<stored, tombstones, dir, tombs, chatCorrupt, restored, storeState,
                 reconcile, attach, vm, visible, fetched, snapshots, created, crashes>>

\* onCommitted, on the main thread
TellDeleted(v) ==
  /\ Holds(v, "told")
  /\ visible' = [visible EXCEPT ![v] = @ \ {deletion[v].id}]
  /\ DeletesNext(v)
  /\ UNCHANGED <<disk, tombs, flags, restored, storeState, reconcile, attach, vm,
                 fetched, snapshots, created, bounds>>

\* Every chat asked for has been tried: persistSessions.
EndDelete(v) ==
  /\ Holds(v, "next") /\ deletion[v].todo = {}
  /\ deletion' = [deletion EXCEPT ![v] = NoWork]
  /\ queue' = [queue EXCEPT ![v] = Persisted(v, visible[v])]
  /\ UNCHANGED <<disk, tombs, flags, restored, storeState, reconcile, attach, vm,
                 visible, fetched, writing, created, bounds>>

-----------------------------------------------------------------------------
(* storeAttachmentFromFile, for a chat the user had open.                   *)

\* A generation is about to keep a copy of the user's file.  stopGenerating does
\* not stop it, and a deletion then has no job to wait for.
AskAttach ==
  /\ attach.step = "idle"
  /\ \E v \in ViewModels : \E s \in visible[v] \cap Attached :
        /\ vm[v] = "live" /\ deletion[v].step = "idle"
        /\ attach' = [NoWork EXCEPT !.id = s, !.step = "asked"]
  /\ UNCHANGED <<disk, tombs, flags, restored, storeState, reconcile, vm, visible,
                 fetched, snapshots, deletion, created, bounds>>

\* It takes writeLock, ...
LockAttach ==
  /\ attach.step = "asked"
  /\ attach' = [attach EXCEPT !.step = "check"]
  /\ UNCHANGED <<disk, tombs, flags, restored, storeState, reconcile, vm, visible,
                 fetched, snapshots, deletion, created, bounds>>

\* Mutant: it does not ask whether the chat was deleted.
AttachUnchecked ==
  /\ attach.step = "check"
  /\ Refreshed /\ NoFault
  /\ attach' = [attach EXCEPT !.step = "create"]
  /\ UNCHANGED <<disk, chatCorrupt, restored, storeState, reconcile, vm, visible,
                 fetched, snapshots, deletion, created, crashes>>

\* ... and, holding it, asks isSessionDeleted, which waits for the journal's lock.
CheckAttach ==
  /\ attach.step = "check"
  /\ \/ /\ Refreshed /\ NoFault
        /\ attach' = IF attach.id \in tombs' THEN NoWork ELSE [attach EXCEPT !.step = "create"]
     \/ RefreshFails /\ attach' = NoWork
  /\ UNCHANGED <<disk, chatCorrupt, restored, storeState, reconcile, vm, visible,
                 fetched, snapshots, deletion, created, crashes>>

CreateDir ==
  /\ attach.step = "create"
  /\ dir' = [dir EXCEPT ![attach.id] = IF @ = "none" THEN "dir" ELSE @]
  /\ attach' = [attach EXCEPT !.step = "publish"]
  /\ UNCHANGED <<stored, tombstones, pending, tombs, flags, restored, storeState,
                 reconcile, vm, visible, fetched, snapshots, deletion, created, bounds>>

\* The copy is made and renamed.  It throws if the directory is gone.
Publish ==
  /\ attach.step = "publish"
  /\ attach' = NoWork
  /\ \/ NoFault /\ dir' = [dir EXCEPT ![attach.id] = IF @ = "none" THEN @ ELSE "file"]
     \/ Fault /\ UNCHANGED dir
  /\ UNCHANGED <<stored, tombstones, pending, tombs, flags, restored, storeState,
                 reconcile, vm, visible, fetched, snapshots, deletion, created, crashes>>

-----------------------------------------------------------------------------
(* reconcilePendingDeletions, when the app goes to the background or comes  *)
(* back.  It holds the journal's lock, and no other.                        *)

StartReconcile ==
  /\ JournalFree /\ pending # {}
  /\ \/ /\ ~corrupt /\ NoFault
        /\ tombs' = tombs \cup tombstones
        /\ reconcile' = [todo |-> pending, id |-> None, step |-> "files"]
        /\ UNCHANGED corrupt
     \/ ~corrupt /\ RefreshFails /\ UNCHANGED reconcile
  /\ UNCHANGED <<disk, chatCorrupt, restored, storeState, attach, vm, visible,
                 fetched, snapshots, deletion, created, crashes>>

\* Mutant: onDeletePath takes writeLock, as deleteSessionAttachments does.
ReconcileUnderWriteLock ==
  /\ reconcile.step = "files"
  /\ WriteLockFree
  /\ \E s \in reconcile.todo :
        \/ /\ NoFault
           /\ dir' = [dir EXCEPT ![s] = "none"]
           /\ reconcile' = [reconcile EXCEPT !.todo = @ \ {s}, !.id = s, !.step = "entry"]
        \/ /\ dir[s] # "none"
           /\ Fault
           /\ reconcile' = [reconcile EXCEPT !.todo = @ \ {s}]
           /\ UNCHANGED dir
  /\ UNCHANGED <<stored, tombstones, pending, tombs, flags, restored, storeState,
                 attach, vm, visible, fetched, snapshots, deletion, created, crashes>>

\* onDeletePath, without the writeLock
ReconcileFiles ==
  /\ reconcile.step = "files"
  /\ \E s \in reconcile.todo :
        \/ /\ NoFault
           /\ dir' = [dir EXCEPT ![s] = "none"]
           /\ reconcile' = [reconcile EXCEPT !.todo = @ \ {s}, !.id = s, !.step = "entry"]
        \/ /\ dir[s] # "none"
           /\ Fault
           /\ reconcile' = [reconcile EXCEPT !.todo = @ \ {s}]
           /\ UNCHANGED dir
  /\ UNCHANGED <<stored, tombstones, pending, tombs, flags, restored, storeState,
                 attach, vm, visible, fetched, snapshots, deletion, created, crashes>>

\* Mutant: the entry stays although its files are gone.
ReconcileKeepsEntry ==
  /\ reconcile.step = "entry"
  /\ NoFault
  /\ reconcile' = [reconcile EXCEPT !.id = None, !.step = "files"]
  /\ UNCHANGED <<disk, tombs, flags, restored, storeState, attach, vm, visible,
                 fetched, snapshots, deletion, created, crashes>>

\* removeEntry of an entry whose files are gone
ReconcileEntry ==
  /\ reconcile.step = "entry"
  /\ \/ ~corrupt /\ NoFault /\ pending' = pending \ {reconcile.id} /\ UNCHANGED corrupt
     \/ JournalWriteFails /\ UNCHANGED pending
  /\ reconcile' = [reconcile EXCEPT !.id = None, !.step = "files"]
  /\ UNCHANGED <<stored, tombstones, dir, tombs, chatCorrupt, restored, storeState,
                 attach, vm, visible, fetched, snapshots, deletion, created, crashes>>

EndReconcile ==
  /\ reconcile.step = "files" /\ reconcile.todo = {}
  /\ reconcile' = NoWork
  /\ UNCHANGED <<disk, tombs, flags, restored, storeState, attach, vm, visible,
                 fetched, snapshots, deletion, created, bounds>>

-----------------------------------------------------------------------------
\* mergeRestoredSessions.  A deleted chat is not restored, and what is restored
\* is kept by the saves of view models that do not know it yet.
MergeRestored ==
  /\ RepoFree
  /\ \/ /\ LoadSucceeds
        /\ LET added == Backup \ (Loaded \cup tombs')
           IN  /\ stored' = Sanitized(Loaded \cup added)
               /\ restored' = restored \cup added
               /\ created' = created \cup added
     \/ LoadFails /\ UNCHANGED <<stored, restored, created>>
     \/ /\ Refreshed /\ Fault /\ chatCorrupt' \in BOOLEAN
        /\ UNCHANGED <<stored, restored, created>>
  /\ UNCHANGED <<tombstones, pending, dir, storeState, reconcile, attach, vm, visible,
                 fetched, snapshots, deletion, crashes>>

\* The process dies and is started again: only the disk is left.
Crash ==
  /\ crashes < MaxCrashes /\ crashes' = crashes + 1
  /\ tombs' = {} /\ restored' = {} /\ corrupt' = FALSE /\ chatCorrupt' = FALSE
  /\ storeState' = "Loading"
  /\ reconcile' = NoWork /\ attach' = NoWork
  /\ vm' = [v \in ViewModels |-> "none"]
  /\ visible' = [v \in ViewModels |-> {}]
  /\ fetched' = [v \in ViewModels |-> None]
  /\ queue' = [v \in ViewModels |-> None]
  /\ writing' = [v \in ViewModels |-> None]
  /\ deletion' = [v \in ViewModels |-> NoWork]
  /\ UNCHANGED <<disk, created, faults>>

Deletion(v) ==
  \/ CheckDelete(v) \/ RecordDeletion(v) \/ RecordFails(v) \/ CommitRemoval(v)
  \/ DeleteFiles(v) \/ RemoveEntry(v) \/ TellDeleted(v) \/ EndDelete(v)

Attach     == LockAttach \/ CheckAttach \/ CreateDir \/ Publish
Reconcile  == ReconcileFiles \/ ReconcileEntry \/ EndReconcile

Next ==
  \/ \E v \in ViewModels :
        \/ OpenViewModel(v) \/ CloseViewModel(v)
        \/ FetchSessions(v) \/ FetchFails(v) \/ MergeSessions(v)
        \/ NewChat(v) \/ UpdateChat(v) \/ TakeSnapshot(v) \/ WriteSnapshot(v)
        \/ BeginDelete(v) \/ Deletion(v)
  \/ AskAttach \/ Attach
  \/ StartReconcile \/ Reconcile
  \/ MergeRestored
  \/ Crash

Spec == Init /\ [][Next]_vars

\* Threads run, a waiting thread is given its lock, and the user keeps leaving
\* and reopening the app, which reconciles.
Fairness ==
  /\ \A v \in ViewModels : SF_vars(Deletion(v))
  /\ SF_vars(Attach)
  /\ WF_vars(Reconcile)
  /\ SF_vars(StartReconcile)

FairSpec == Spec /\ Fairness

-----------------------------------------------------------------------------
\* A chat leaves the stored history only after its deletion was recorded: no
\* snapshot of a view model, however late, writes it away.
HistoryKept ==
  [][\A s \in stored \ stored' : s \in tombstones']_vars

\* A chat whose deletion was recorded never comes back: not by the save of a
\* snapshot taken before, by the merge of an earlier read, by a restore or
\* after a crash.
DeletedStaysDeleted ==
  [][\A s \in tombstones :
        /\ s \in stored' => s \in stored
        /\ \A v \in ViewModels : s \in visible'[v] => s \in visible[v]]_vars

\* As long as nothing fails and the process lives, the files of a deleted chat
\* are not forgotten, even if a copy was under way when it was deleted: while
\* there are any, the journal lists them or the deletion under way removes them.
OrphansAreListed == faults = 0 /\ crashes = 0 =>
  \A s \in tombstones :
    dir[s] = "file" =>
      \/ s \in pending
      \/ \E v \in ViewModels : deletion[v].id = s /\ deletion[v].step \in LockedSteps

\* Deleting chats ends: the locks of the repository, of the attachments and of
\* the journal are never waited for in a circle.
DeletionEnds ==
  \A v \in ViewModels : deletion[v].step # "idle" ~> deletion[v].step = "idle"

\* A deletion that was interrupted, or whose files could not be removed, is
\* finished later, unless the journal cannot be read.
CleanupIsFinished ==
  \A s \in Sessions : s \in pending ~> (s \notin pending \/ corrupt)
===============================================================================
