---------------------------- MODULE AtomicJsonFile ----------------------------
(***************************************************************************)
(* utils/AtomicJsonFile.kt over AndroidAtomicFileTransaction: the primary   *)
(* file, the copy ".lastgood" that write() makes of it and read() falls     *)
(* back on, and the ".new" file of android.util.AtomicFile.  Callers hold a *)
(* lock of their own: one read, write or delete runs at a time.  The        *)
(* process may die between any two steps, and every file operation may      *)
(* fail (a full disk).                                                      *)
(*                                                                          *)
(* A file is Missing, Bad (blank, torn or not parseable) or a document.  A  *)
(* read that finds the primary readable, and one that finds nothing         *)
(* readable, changes no file it will look at again and is no action.        *)
(***************************************************************************)
EXTENDS Naturals

CONSTANTS
  Documents,
  Missing, Bad, Nothing,
  MaxDamage   \* bound: times that the primary file goes bad on the medium

ASSUME DocumentAssumption ==
  /\ {Missing, Bad, Nothing} \cap Documents = {}
  /\ Missing # Bad /\ Missing # Nothing /\ Bad # Nothing
  /\ MaxDamage \in Nat

VARIABLES
  primary,   \* file
  lastgood,  \* transaction.recoveryBackupFile
  newFile,   \* the file AtomicFile.startWrite opens
  pc,        \* where the operation under way is
  arg,       \* the document it writes, Missing for a delete, or Nothing
  damage     \* times the medium has failed

files == <<primary, lastgood, newFile>>
vars  == <<primary, lastgood, newFile, pc, arg, damage>>

Contents == Documents \cup {Missing, Bad}
Writing  == {"backup", "copying", "torn", "start", "write", "finish"}
Healing  == {"heal", "healwrite", "healfinish"}
Deleting == {"delete", "unlink"}

TypeOK ==
  /\ primary \in Contents
  /\ lastgood \in Contents
  /\ newFile \in Contents
  /\ pc \in Writing \cup Healing \cup Deleting \cup {"idle", "done", "deleted"}
  /\ arg \in Documents \cup {Missing, Nothing}
  /\ damage \in 0..MaxDamage
  /\ (pc \in Writing \cup Healing \cup {"done"}) => arg \in Documents

Init ==
  /\ primary \in Documents \cup {Missing}
  /\ lastgood \in IF primary = Missing THEN {Missing} ELSE Contents
  /\ newFile = Missing
  /\ pc = "idle"
  /\ arg = Nothing
  /\ damage = 0

Goto(here, there) == pc = here /\ pc' = there

\* The operation returns, or the process dies.
Stop == pc' = "idle" /\ arg' = Nothing

-----------------------------------------------------------------------------
(* write(data): the primary is copied to .lastgood, then replaced.          *)

Write ==
  /\ pc = "idle"
  /\ \E d \in Documents : arg' = d
  /\ pc' = "backup"
  /\ UNCHANGED <<files, damage>>

\* There is no primary, or it is blank, ...
SkipBackup ==
  /\ primary \in {Missing, Bad}
  /\ Goto("backup", "start")
  /\ UNCHANGED <<files, arg, damage>>

\* ... or file.copyTo(overwrite = true) deletes its target, creates and fills it.
DropBackup ==
  /\ primary # Missing
  /\ Goto("backup", "copying")
  /\ lastgood' = Missing
  /\ UNCHANGED <<primary, newFile, arg, damage>>

OpenBackup ==
  /\ Goto("copying", "torn")
  /\ lastgood' = Bad
  /\ UNCHANGED <<primary, newFile, arg, damage>>

FillBackup ==
  /\ Goto("torn", "start")
  /\ lastgood' = primary
  /\ UNCHANGED <<primary, newFile, arg, damage>>

\* catch (_: Throwable) {}: the write goes on without its backup.
BackupFails ==
  /\ pc \in {"backup", "copying", "torn"}
  /\ pc' = "start"
  /\ UNCHANGED <<files, arg, damage>>

\* Mutant: the primary itself is opened for writing.
StartWriteInPlace ==
  /\ Goto("start", "write")
  /\ primary' = Bad
  /\ UNCHANGED <<lastgood, newFile, arg, damage>>

StartWrite ==
  /\ Goto("start", "write")
  /\ newFile' = Bad
  /\ UNCHANGED <<primary, lastgood, arg, damage>>

FillNew ==
  /\ Goto("write", "finish")
  /\ newFile' = arg
  /\ UNCHANGED <<primary, lastgood, arg, damage>>

\* finishWrite: synced, closed and renamed onto the primary.
FinishWrite ==
  /\ Goto("finish", "done")
  /\ primary' = newFile
  /\ newFile' = Missing
  /\ UNCHANGED <<lastgood, arg, damage>>

\* startWrite throws, or the stream does and failWrite deletes the new file.
WriteFails ==
  /\ \/ pc = "start" /\ UNCHANGED newFile
     \/ pc = "write" /\ newFile' = Missing
  /\ Stop
  /\ UNCHANGED <<primary, lastgood, damage>>

Return ==
  /\ pc \in {"done", "deleted"}
  /\ Stop
  /\ UNCHANGED <<files, damage>>

-----------------------------------------------------------------------------
(* read(): an unreadable primary is healed from a readable .lastgood.        *)

ReadBackup ==
  /\ pc = "idle"
  /\ primary \in {Missing, Bad} /\ lastgood \in Documents
  /\ pc' = "heal"
  /\ arg' = lastgood
  /\ UNCHANGED <<files, damage>>

\* Mutant: .lastgood is moved into place instead of being written again.
StartHealByMove ==
  /\ Goto("heal", "healwrite")
  /\ newFile' = Bad
  /\ lastgood' = Missing
  /\ UNCHANGED <<primary, arg, damage>>

StartHeal ==
  /\ Goto("heal", "healwrite")
  /\ newFile' = Bad
  /\ UNCHANGED <<primary, lastgood, arg, damage>>

FillHeal ==
  /\ Goto("healwrite", "healfinish")
  /\ newFile' = arg
  /\ UNCHANGED <<primary, lastgood, arg, damage>>

FinishHeal ==
  /\ pc = "healfinish"
  /\ primary' = newFile
  /\ newFile' = Missing
  /\ Stop
  /\ UNCHANGED <<lastgood, damage>>

\* The recovered document is returned all the same.
HealFails ==
  /\ \/ pc = "heal" /\ UNCHANGED newFile
     \/ pc = "healwrite" /\ newFile' = Missing
  /\ Stop
  /\ UNCHANGED <<primary, lastgood, damage>>

-----------------------------------------------------------------------------
(* delete(): .lastgood goes first, then AtomicFile deletes its own files.    *)

\* Mutant: the primary goes first, and a crash leaves .lastgood to be read.
DeletePrimaryFirst ==
  /\ pc = "idle"
  /\ pc' = "delete"
  /\ arg' = Missing
  /\ primary' = Missing
  /\ UNCHANGED <<lastgood, newFile, damage>>

Delete ==
  /\ pc = "idle"
  /\ pc' = "delete"
  /\ arg' = Missing
  /\ UNCHANGED <<files, damage>>

DeleteBackup ==
  /\ Goto("delete", "unlink")
  /\ lastgood' = Missing
  /\ UNCHANGED <<primary, newFile, arg, damage>>

DeletePrimary ==
  /\ Goto("unlink", "deleted")
  /\ primary' = Missing
  /\ newFile' = Missing
  /\ UNCHANGED <<lastgood, arg, damage>>

-----------------------------------------------------------------------------
Crash ==
  /\ pc # "idle"
  /\ Stop
  /\ UNCHANGED <<files, damage>>

\* The medium damages the primary between two operations.
Damage ==
  /\ damage < MaxDamage
  /\ pc = "idle" /\ primary \in Documents
  /\ damage' = damage + 1
  /\ primary' = Bad
  /\ UNCHANGED <<lastgood, newFile, pc, arg>>

Next ==
  \/ Write \/ SkipBackup \/ DropBackup \/ OpenBackup \/ FillBackup \/ BackupFails
  \/ StartWrite \/ FillNew \/ FinishWrite \/ WriteFails \/ Return
  \/ ReadBackup \/ StartHeal \/ FillHeal \/ FinishHeal \/ HealFails
  \/ Delete \/ DeleteBackup \/ DeletePrimary
  \/ Crash \/ Damage

Spec == Init /\ [][Next]_vars

-----------------------------------------------------------------------------
(* Properties                                                               *)

\* What a read would return now.
Readable ==
  CASE primary \in Documents -> primary
    [] primary \notin Documents /\ lastgood \in Documents -> lastgood
    [] OTHER -> IF primary = Missing /\ lastgood = Missing THEN Missing ELSE Bad

\* As long as the medium keeps the primary, write and delete take place at one
\* instant or not at all, whatever fails and whenever the process dies: until
\* then the file is a DurableFile.
Durable == INSTANCE DurableFile WITH
  stored <- primary,
  update <- IF pc \in Healing THEN Nothing ELSE arg,
  committed <- pc \in {"done", "deleted"}

ImplementsDurable ==
  Durable!Init /\ [][damage' = 0 => [Durable!Next]_(Durable!vars)]_vars

\* A file that was never damaged needs no backup, and a missing one has none that
\* a later read could bring back.
PrimaryIsAuthority == damage = 0 =>
  /\ primary # Bad
  /\ primary = Missing => lastgood = Missing

\* Recovering from a damaged primary never changes what the next read finds, even
\* if the healing fails or the process dies in the middle of it.
RecoveryIsStable == [][(pc \in Healing) => (Readable' = Readable)]_vars

==============================================================================
