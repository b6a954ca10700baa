----------------------------- MODULE ModelRemoval -----------------------------
(***************************************************************************)
(* utils/ModelRemovalCoordinator.kt over DownloadController: the removal of *)
(* one model that the user added, its recovery in the process after a       *)
(* crash, and the model being added again or downloaded again meanwhile.    *)
(*                                                                          *)
(* The steps before and after removeModel belong to the call of the         *)
(* controller that is of kind "remove".  What is on the disk is the         *)
(* definition (CustomModelStore), the record (the deletions journal), and   *)
(* the published files; each write replaces a document or fails, and the    *)
(* process may die between any two.  add holds the lock of the store while  *)
(* it writes the definition and clears the record.  Not modelled: models    *)
(* imported from the phone, whose files are never deleted, and a removal    *)
(* whose coroutine is cancelled.                                            *)
(***************************************************************************)
EXTENDS DownloadController

CONSTANTS
  MaxDeaths,  \* bound: deaths of the process
  MaxFaults   \* bound: writes and deletions that fail

ASSUME RemovalAssumption == MaxDeaths \in Nat /\ MaxFaults \in Nat

VARIABLES
  definition,  \* stored: old, new (added again), or none
  before,      \* the definition that add would write back
  newer,       \* is the new definition's addedAt past the record's timestamp?
  listed,      \* are the published files among the record's paths?
  adding,      \* where the call of add is
  recovery,    \* where recoverInterruptedDeletions is
  deaths, faults

catalog == <<definition, before, newer, listed>>
bounds == <<deaths, faults>>
outside == <<adding, recovery>>
controller == <<maps, counting, cancellingJobs, starter, job, cancelled>>
removalVars == <<vars, catalog, outside, bounds>>

RemovalInit ==
  /\ Init
  /\ definition = "old" /\ before = "none" /\ newer = FALSE /\ listed = FALSE
  /\ adding = "idle" /\ recovery = "off"
  /\ deaths = 0 /\ faults = 0

\* bounds: the process dies only where a removal or an add is half done, the model
\* is added again only beside a removal, and after a death nothing is downloaded
MayDie == deaths < MaxDeaths /\ (record = "pending" \/ adding = "writing")
MayAdd == \E c \in Calls : kind[c] = "remove"

Fault == faults < MaxFaults /\ faults' = faults + 1 /\ UNCHANGED deaths
Removal(c, from, to) == kind[c] = "remove" /\ Goto(c, from, to) /\ UNCHANGED <<kind, taken>>
StoreIsFree == adding # "writing"

-----------------------------------------------------------------------------
(* executeRemovalSequence, around removeModel *)

Reserve(c) ==
  /\ IF reserved THEN Removal(c, "idle", "done") /\ UNCHANGED reserved
                 ELSE Removal(c, "idle", "record") /\ reserved' = TRUE
  /\ UNCHANGED <<controller, snapshot, record, catalog, outside, bounds>>

\* Mutant: the removal goes on when its record could not be written.
RecordAnyway(c) ==
  \/ /\ Removal(c, "record", "controller")
     /\ record' = "pending" /\ listed' = published /\ newer' = FALSE
     /\ UNCHANGED <<controller, snapshot, reserved, definition, before, outside, bounds>>
  \/ /\ Removal(c, "record", "controller") /\ Fault
     /\ UNCHANGED <<controller, snapshot, tombstone, catalog, outside>>

\* recordPendingDeletion, of a model whose files may be there or not yet.
Record(c) ==
  \/ /\ Removal(c, "record", "controller")
     /\ record' = "pending" /\ listed' = published /\ newer' = FALSE
     /\ UNCHANGED <<controller, snapshot, reserved, definition, before, outside, bounds>>
  \/ /\ Removal(c, "record", "unreserve") /\ Fault
     /\ UNCHANGED <<controller, snapshot, tombstone, catalog, outside>>

\* The runtime that uses the model did not end: nothing was recorded.
StillInUse(c) ==
  /\ Removal(c, "record", "unreserve")
  /\ UNCHANGED <<controller, snapshot, tombstone, catalog, outside, bounds>>

RemoveDefinition(c) ==
  /\ StoreIsFree
  /\ \/ /\ Removal(c, "definition", "files")
        /\ definition' = "none" /\ status' = "NotDownloaded"
        /\ UNCHANGED <<before, newer, listed, published, bounds>>
     \/ /\ Removal(c, "definition", "unreserve") /\ Fault
        /\ UNCHANGED <<catalog, snapshot>>
  /\ UNCHANGED <<controller, tombstone, outside>>

DeleteFiles(c) ==
  /\ \/ /\ Removal(c, "files", "complete")
        /\ published' = (published /\ ~listed) /\ UNCHANGED bounds
     \/ /\ listed /\ published /\ Removal(c, "files", "unreserve") /\ Fault
        /\ UNCHANGED published
  /\ UNCHANGED <<controller, status, tombstone, catalog, outside>>

\* markDeletionComplete, which leaves a record that is gone alone.
Completed == IF record = "none" THEN "none" ELSE "complete"

MarkComplete(c) ==
  /\ Removal(c, "complete", "unreserve")
  /\ \/ record' = Completed /\ UNCHANGED bounds
     \/ Fault /\ UNCHANGED record
  /\ UNCHANGED <<controller, snapshot, reserved, catalog, outside>>

Unreserve(c) ==
  /\ Removal(c, "unreserve", "done") /\ reserved' = FALSE
  /\ UNCHANGED <<controller, snapshot, record, catalog, outside, bounds>>

-----------------------------------------------------------------------------
(* The model is added again, or downloaded again *)

\* registerAndDownload... asks whether the model is reserved, long before it adds.
BeginAdd ==
  /\ MayAdd /\ adding = "idle"
  /\ IF reserved THEN adding' = "done" /\ UNCHANGED newer
                 ELSE adding' = "checked" /\ newer' = TRUE
  /\ UNCHANGED <<vars, definition, before, listed, recovery, bounds>>

\* CustomModelStore.add(isExplicitReimport = true)
WriteDefinition ==
  /\ adding = "checked"
  /\ \/ /\ adding' = "writing" /\ before' = definition /\ definition' = "new"
        /\ UNCHANGED <<newer, listed, bounds>>
     \/ adding' = "done" /\ Fault /\ UNCHANGED catalog
  /\ UNCHANGED <<vars, recovery>>

\* clearDeletionRecord; when it fails the old definitions are written back, which
\* may fail with it, and is not looked at.
ClearRecord ==
  /\ adding = "writing" /\ adding' = "done"
  /\ before' = "none"
  /\ \/ record' = "none" /\ UNCHANGED <<definition, bounds>>
     \/ Fault /\ definition' \in {before, definition} /\ UNCHANGED record
  /\ UNCHANGED <<controller, snapshot, pc, kind, taken, reserved, newer, listed, recovery>>

\* prepareExplicitDownload: a completed record is cleared, a pending one stays.
PrepareExplicitDownload ==
  /\ record = "complete" /\ ~reserved /\ record' = "none"
  /\ UNCHANGED <<controller, snapshot, pc, kind, taken, reserved, catalog, outside, bounds>>

-----------------------------------------------------------------------------
(* The process dies, and the next one recovers *)

Die ==
  /\ MayDie /\ deaths' = deaths + 1
  /\ activeJobs' = None /\ activeAttempts' = None
  /\ pendingOperationsCount' = 0 /\ cancellingJobs' = {} /\ cancelled' = {}
  /\ check' = [x \in Operations |-> "none"] /\ newcomers' = [x \in Operations |-> {}]
  /\ starting' = "idle" /\ previousJob' = [j \in Attempts |-> None]
  /\ job' = [j \in Attempts |-> IF job[j] = "none" THEN "none" ELSE "completed"]
  /\ pc' = [c \in Calls |-> IF pc[c] = "idle" THEN "idle" ELSE "done"]
  /\ taken' = [c \in Calls |-> None]
  /\ reserved' = FALSE
  /\ status' = IF status = "Downloading" THEN "Paused" ELSE status
  /\ adding' = IF adding = "idle" THEN "idle" ELSE "done"
  /\ recovery' = "check" /\ before' = "none"
  /\ attemptCounter' = MaxStarts
  /\ UNCHANGED <<published, kind, record, definition, newer, listed, faults>>

Recovery(from, to) == recovery = from /\ recovery' = to /\ UNCHANGED adding

\* Mutant: a newer definition is skipped and its record left pending.
RecoverOrSkip ==
  /\ StoreIsFree
  /\ \/ record = "pending" /\ ~(definition = "new" /\ newer) /\ Recovery("check", "definition")
     \/ (record # "pending" \/ (definition = "new" /\ newer)) /\ Recovery("check", "off")
  /\ UNCHANGED <<vars, catalog, bounds>>

\* The guard for a newer definition.
Recover ==
  /\ StoreIsFree
  /\ \/ record = "pending" /\ ~(definition = "new" /\ newer) /\ Recovery("check", "definition")
     \/ record = "pending" /\ definition = "new" /\ newer /\ Recovery("check", "complete")
     \/ record # "pending" /\ Recovery("check", "off")
  /\ UNCHANGED <<vars, catalog, bounds>>

\* Mutant: a failure to remove the definition does not end the recovery.
RecoverDefinitionAnyway ==
  /\ StoreIsFree /\ Recovery("definition", "files")
  /\ \/ /\ definition' = "none" /\ status' = "NotDownloaded"
        /\ UNCHANGED <<before, newer, listed, published, bounds>>
     \/ Fault /\ UNCHANGED <<catalog, snapshot>>
  /\ UNCHANGED <<controller, others>>

RecoverDefinition ==
  /\ StoreIsFree
  /\ \/ /\ Recovery("definition", "files")
        /\ definition' = "none" /\ status' = "NotDownloaded"
        /\ UNCHANGED <<before, newer, listed, published, bounds>>
     \/ Recovery("definition", "off") /\ Fault /\ UNCHANGED <<catalog, snapshot>>
  /\ UNCHANGED <<controller, others>>

RecoverFiles ==
  /\ \/ Recovery("files", "complete") /\ published' = (published /\ ~listed) /\ UNCHANGED bounds
     \/ listed /\ published /\ Recovery("files", "off") /\ Fault /\ UNCHANGED published
  /\ UNCHANGED <<controller, status, others, catalog>>

RecoverComplete ==
  /\ Recovery("complete", "off")
  /\ \/ record' = Completed /\ UNCHANGED bounds
     \/ Fault /\ UNCHANGED record
  /\ UNCHANGED <<controller, snapshot, pc, kind, taken, reserved, catalog>>

-----------------------------------------------------------------------------

RemovalStep(c) ==
  \/ Reserve(c) \/ Record(c) \/ StillInUse(c) \/ RemoveDefinition(c) \/ DeleteFiles(c)
  \/ MarkComplete(c) \/ Unreserve(c)

AddStep == WriteDefinition \/ ClearRecord
RecoveryStep == Recover \/ RecoverDefinition \/ RecoverFiles \/ RecoverComplete

RemovalNext ==
  \/ Next /\ UNCHANGED <<catalog, outside, bounds>>
  \/ \E c \in Calls : RemovalStep(c)
  \/ BeginAdd \/ AddStep \/ PrepareExplicitDownload
  \/ Die \/ RecoveryStep

RemovalSpec == RemovalInit /\ [][RemovalNext]_removalVars

\* A recovery that runs goes on, and so does an add inside its lock.
FairRemovalSpec ==
  RemovalSpec /\ Fairness /\ WF_removalVars(RecoveryStep) /\ WF_removalVars(ClearRecord)

-----------------------------------------------------------------------------

\* The type invariant of the removal's own variables.
RemovalTypeOK ==
  /\ definition \in {"old", "new", "none"} /\ before \in {"old", "new", "none"}
  /\ newer \in BOOLEAN /\ listed \in BOOLEAN
  /\ adding \in {"idle", "checked", "writing", "done"}
  /\ recovery \in {"off", "check", "definition", "files", "complete"}
  /\ deaths \in 0 .. MaxDeaths /\ faults \in 0 .. MaxFaults

\* A removal that is recorded as complete did remove: the definition it was
\* asked to remove is gone, whatever failed, died, was recovered, or was added
\* in between (markDeletionComplete).
CompletedMeansRemoved == record = "complete" => definition # "old"

\* What a removal or a recovery destroys of the model it was asked for, it
\* destroys while its record is pending on the disk, so that it can be finished.
DestroyedUnderRecord ==
  [][definition = "old" /\ (definition' = "none" \/ (published /\ ~published'))
       => record = "pending"]_removalVars

\* A removal that a death interrupted is finished by the recovery in the next
\* process, unless a write or a deletion fails again.
RecoveryFinishes ==
  recovery = "check" /\ record = "pending" /\ faults = MaxFaults ~> record # "pending"
===============================================================================
