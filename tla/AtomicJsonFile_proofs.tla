------------------------- MODULE AtomicJsonFile_proofs -------------------------
(***************************************************************************)
(* Proofs about AtomicJsonFile, for any documents and any number of damages *)
(* of the medium, crashes and failing file operations between them.         *)
(*                                                                          *)
(* The inductive invariant says what each stage of an operation may rely    *)
(* on (Stages), and that the backup is needed for nothing before the medium *)
(* fails (Undamaged).                                                       *)
(***************************************************************************)
EXTENDS AtomicJsonFile, TLAPS

\* What holds where an operation stands: between operations none is under way, a
\* backup is only made of a primary that exists, a renamed file is complete, and
\* a primary is only healed from the backup a read would use.
Stages ==
  /\ pc = "idle" <=> arg = Nothing
  /\ pc \in {"copying", "torn"} => primary # Missing
  /\ pc \in {"finish", "healfinish"} => newFile = arg
  /\ pc \in Healing => primary \notin Documents /\ arg = lastgood
  /\ pc \in Deleting \cup {"deleted"} => arg = Missing
  /\ pc = "unlink" => lastgood = Missing

Undamaged == damage = 0 => pc \notin Healing

\* The inductive invariant.
Inv == TypeOK /\ Stages /\ PrimaryIsAuthority /\ Undamaged

\* Inv holds of a file as an earlier run of the app left it.
LEMMA InitInv == Init => Inv
  BY DocumentAssumption
  DEF Init, Inv, TypeOK, Stages, PrimaryIsAuthority, Undamaged, Contents, Writing, Healing,
      Deleting

\* No step of an operation, failure, crash or damage leaves Inv.
LEMMA StepInv == Inv /\ [Next]_vars => Inv'
<1> SUFFICES ASSUME Inv, [Next]_vars PROVE Inv'
  OBVIOUS
<1> USE DocumentAssumption
    DEF Inv, TypeOK, Stages, PrimaryIsAuthority, Undamaged, Contents, Writing, Healing,
        Deleting, Goto, Stop, files
<1>1. CASE Write
  BY <1>1 DEF Write
<1>2. CASE SkipBackup \/ DropBackup \/ OpenBackup \/ FillBackup \/ BackupFails
  BY <1>2 DEF SkipBackup, DropBackup, OpenBackup, FillBackup, BackupFails
<1>3. CASE StartWrite \/ FillNew \/ FinishWrite
  BY <1>3 DEF StartWrite, FillNew, FinishWrite
<1>4. CASE WriteFails \/ Return
  BY <1>4 DEF WriteFails, Return
<1>5. CASE ReadBackup
  BY <1>5 DEF ReadBackup
<1>6. CASE StartHeal \/ FillHeal \/ FinishHeal \/ HealFails
  BY <1>6 DEF StartHeal, FillHeal, FinishHeal, HealFails
<1>7. CASE Delete \/ DeleteBackup \/ DeletePrimary
  BY <1>7 DEF Delete, DeleteBackup, DeletePrimary
<1>8. CASE Crash \/ Damage
  BY <1>8 DEF Crash, Damage
<1>9. CASE UNCHANGED vars
  BY <1>9 DEF vars
<1> QED
  BY <1>1, <1>2, <1>3, <1>4, <1>5, <1>6, <1>7, <1>8, <1>9 DEF Next

\* Inv holds in every reachable state.
THEOREM Invariance == Spec => []Inv
  BY InitInv, StepInv, PTL DEF Spec

\* The type invariant of the file.
THEOREM TypeCorrect == Spec => []TypeOK
<1>1. Inv => TypeOK
  BY DEF Inv
<1> QED
  BY <1>1, Invariance, PTL

\* A file that was never damaged is readable without its backup, and one that is
\* missing has no backup from which a deleted document could be read again.
THEOREM AuthorityIsKept == Spec => []PrimaryIsAuthority
<1>1. Inv => PrimaryIsAuthority
  BY DEF Inv
<1> QED
  BY <1>1, Invariance, PTL

\* While the medium is sound, a step of the file is a step of a DurableFile or
\* none: a document is replaced or removed at the one step of the rename or the
\* unlink.
LEMMA StepDurable ==
  ASSUME Inv, [Next]_vars, damage' = 0
  PROVE  [Durable!Next]_(Durable!vars)
<1> USE DocumentAssumption
    DEF Inv, TypeOK, Stages, PrimaryIsAuthority, Undamaged, Contents, Writing, Healing,
        Deleting, Goto, Stop, files, Durable!Next, Durable!Begin, Durable!Commit,
        Durable!End, Durable!vars
<1>1. damage = 0
  BY DEF Next, vars, Write, SkipBackup, DropBackup, OpenBackup, FillBackup, BackupFails,
     StartWrite, FillNew, FinishWrite, WriteFails, Return, ReadBackup, StartHeal, FillHeal,
     FinishHeal, HealFails, Delete, DeleteBackup, DeletePrimary, Crash, Damage
<1>2. CASE Write \/ Delete
  BY <1>1, <1>2 DEF Write, Delete
<1>3. CASE SkipBackup \/ DropBackup \/ OpenBackup \/ FillBackup \/ BackupFails
  BY <1>1, <1>3 DEF SkipBackup, DropBackup, OpenBackup, FillBackup, BackupFails
<1>4. CASE StartWrite \/ FillNew \/ FinishWrite
  BY <1>1, <1>4 DEF StartWrite, FillNew, FinishWrite
<1>5. CASE WriteFails \/ Return
  BY <1>1, <1>5 DEF WriteFails, Return
<1>6. ~ReadBackup
  BY <1>1 DEF ReadBackup
<1>7. ~(StartHeal \/ FillHeal \/ FinishHeal \/ HealFails)
  BY <1>1 DEF StartHeal, FillHeal, FinishHeal, HealFails
<1>8. CASE DeleteBackup \/ DeletePrimary
  BY <1>1, <1>8 DEF DeleteBackup, DeletePrimary
<1>9. CASE Crash
  BY <1>1, <1>9 DEF Crash
<1>10. ~Damage
  BY <1>1 DEF Damage
<1>11. CASE UNCHANGED vars
  BY <1>11 DEF vars
<1> QED
  BY <1>2, <1>3, <1>4, <1>5, <1>6, <1>7, <1>8, <1>9, <1>10, <1>11 DEF Next

\* AtomicJsonFile implements DurableFile until the medium first damages it.
THEOREM FileIsDurable == Spec => ImplementsDurable
<1>1. Init => Durable!Init
  BY DocumentAssumption DEF Init, Durable!Init, Healing
<1>2. Inv /\ [Next]_vars => [damage' = 0 => [Durable!Next]_(Durable!vars)]_vars
  BY StepDurable
<1> QED
  BY <1>1, <1>2, Invariance, PTL DEF Spec, ImplementsDurable

\* The healing of a damaged primary, finished, failed or interrupted, leaves the
\* document the next read returns as it was.
THEOREM HealingIsStable == Spec => RecoveryIsStable
<1>1. ASSUME Inv, [Next]_vars, pc \in Healing PROVE Readable' = Readable
  <2> USE DocumentAssumption, <1>1
      DEF Inv, TypeOK, Stages, Contents, Writing, Healing, Deleting, Goto, Stop, files
  <2>1. primary \notin Documents /\ lastgood \in Documents /\ Readable = lastgood
    BY DEF Readable
  <2>2. lastgood' = lastgood /\ primary' \in {primary, lastgood}
    BY DEF Next, vars, Write, SkipBackup, DropBackup, OpenBackup, FillBackup, BackupFails,
       StartWrite, FillNew, FinishWrite, WriteFails, Return, ReadBackup, StartHeal,
       FillHeal, FinishHeal, HealFails, Delete, DeleteBackup, DeletePrimary, Crash, Damage
  <2> QED
    BY <2>1, <2>2 DEF Readable
<1>2. Inv /\ [Next]_vars => [(pc \in Healing) => (Readable' = Readable)]_vars
  BY <1>1
<1> QED
  BY <1>2, Invariance, PTL DEF Spec, RecoveryIsStable
================================================================================
