-------------------------- MODULE ModelRemoval_proofs --------------------------
(***************************************************************************)
(* Proofs about ModelRemoval, and so about DownloadController beside it,    *)
(* for any number of starts, calls, removals, deaths and faults.            *)
(*                                                                          *)
(* CountInv: the count of operations is at least the number of jobs and     *)
(* calls under way; a job cancelled before it ran makes it larger.  So a    *)
(* check that reads zero overlooks only what begins after it.               *)
(* RemovalOrder: what each place of a removal and of a recovery knows of    *)
(* the record and of the definition, also of the one that a failing add     *)
(* may write back.                                                          *)
(* ChainInv: a job replaces an older one, so the oldest waits for none.     *)
(***************************************************************************)
EXTENDS ModelRemoval, FiniteSetTheorems, WellFoundedInduction, TLAPS

PendingJobs ==
  {j \in Attempts :
     job[j] \notin {"none", "check", "completed"} \/ (starting = "swap" /\ j = attemptCounter)}
CountedCalls == {c \in Calls : Counted(c)}

\* What the count is at least.
LeastCount == Cardinality(PendingJobs) + Cardinality(CountedCalls)

\* The jobs of later attempts, and of one that is not swapped in yet.
UnusedAttempts ==
  \A j \in Attempts :
    j > attemptCounter \/ (starting = "swap" /\ j = attemptCounter) => job[j] = "none"

\* A step that brings nothing under way, does not count and does not check the count.
Quiet ==
  /\ PendingJobs' \subseteq PendingJobs /\ CountedCalls' \subseteq CountedCalls
  /\ UnusedAttempts' /\ UNCHANGED counting

CountInv == LeastCount =< pendingOperationsCount /\ UnusedAttempts

\* A step of a check: what it lets go on it knows already, or nothing is counted.
Checking ==
  /\ PendingJobs' = PendingJobs /\ CountedCalls' = CountedCalls /\ UnusedAttempts'
  /\ UNCHANGED pendingOperationsCount
  /\ \A x \in Operations : Passed(x)' =>
       (Passed(x) /\ newcomers'[x] = newcomers[x]) \/ pendingOperationsCount =< 0

\* The old definition is stored, or may be written back.
OldIsThere == definition = "old" \/ (adding = "writing" /\ before = "old")

\* The places of a removal that has written its record and not failed.
Deciding ==
  {"controller", "first", "second", "stop", "join", "show", "return", "returned",
   "definition", "files", "complete"}

RemovalOrder ==
  /\ adding = "writing" => definition = "new"
  /\ record = "complete" => ~OldIsThere
  /\ \A c \in Calls : kind[c] = "remove" =>
       /\ pc[c] \in Deciding => (OldIsThere => record = "pending")
       /\ pc[c] \in {"files", "complete"} => ~OldIsThere
  /\ recovery \in {"definition", "files", "complete"} => (OldIsThere => record = "pending")
  /\ recovery \in {"files", "complete"} => ~OldIsThere

\* The types, in parts that different steps disturb.
JobTypes ==
  /\ activeJobs \in Attempts \cup {None} /\ activeAttempts \in Attempts \cup {None}
  /\ cancellingJobs \subseteq Attempts /\ status \in Statuses
  /\ starting \in {"idle", "swap", "attempt", "launch"}
  /\ attemptCounter \in 0 .. MaxStarts /\ (starting # "idle" => attemptCounter \in Attempts)
  /\ previousJob \in [Attempts -> Attempts \cup {None}]
  /\ job \in [Attempts -> JobPlaces] /\ cancelled \subseteq Attempts
  /\ taken \in [Calls -> Attempts \cup {None}]

PlaceTypes ==
  /\ pc \in [Calls -> CallPlaces] /\ kind \in [Calls -> Kinds]
  /\ record \in {"none", "pending", "complete"}
  /\ definition \in {"old", "new", "none"} /\ before \in {"old", "new", "none"}
  /\ adding \in {"idle", "checked", "writing", "done"}
  /\ recovery \in {"off", "check", "definition", "files", "complete"}
  /\ deaths \in 0 .. MaxDeaths /\ faults \in 0 .. MaxFaults

FlagTypes ==
  /\ published \in BOOLEAN /\ reserved \in BOOLEAN
  /\ newer \in BOOLEAN /\ listed \in BOOLEAN

CheckTypes ==
  check \in [Operations -> CheckPlaces] /\ newcomers \in [Operations -> SUBSET Operations]

\* The four parts and the type of the count make up the two type invariants.
LEMMA TypeParts ==
  TypeOK /\ RemovalTypeOK <=>
    JobTypes /\ PlaceTypes /\ FlagTypes /\ CheckTypes /\ pendingOperationsCount \in Nat
  BY DEF TypeOK, RemovalTypeOK, JobTypes, PlaceTypes, FlagTypes, CheckTypes

Inv == TypeOK /\ RemovalTypeOK /\ CountInv /\ OnlyNewcomersOverlooked /\ RemovalOrder

-----------------------------------------------------------------------------
(* Counting *)

\* Attempts and calls are finite in number.
LEMMA Finite == IsFiniteSet(Attempts) /\ IsFiniteSet(Calls)
  BY DownloadAssumption, FS_Interval DEF Attempts

\* So are the jobs and calls under way, before and after a step.
LEMMA Countable ==
  /\ IsFiniteSet(PendingJobs) /\ IsFiniteSet(CountedCalls)
  /\ Cardinality(PendingJobs) \in Nat /\ Cardinality(CountedCalls) \in Nat
  /\ IsFiniteSet(PendingJobs') /\ IsFiniteSet(CountedCalls')
  /\ Cardinality(PendingJobs') \in Nat /\ Cardinality(CountedCalls') \in Nat
<1>1. PendingJobs \subseteq Attempts /\ PendingJobs' \subseteq Attempts
  BY DEF PendingJobs
<1>2. CountedCalls \subseteq Calls /\ CountedCalls' \subseteq Calls
  BY DEF CountedCalls
<1>3. /\ IsFiniteSet(PendingJobs) /\ IsFiniteSet(CountedCalls)
      /\ IsFiniteSet(PendingJobs') /\ IsFiniteSet(CountedCalls')
  BY <1>1, <1>2, Finite, FS_Subset
<1> QED
  BY <1>3, FS_CardinalityType

\* A step after which no more is under way may leave the count alone.
LEMMA SameIsUnderWay ==
  ASSUME pendingOperationsCount \in Nat, LeastCount =< pendingOperationsCount,
         UNCHANGED pendingOperationsCount,
         PendingJobs' \subseteq PendingJobs, CountedCalls' \subseteq CountedCalls
  PROVE  (LeastCount =< pendingOperationsCount)' /\ pendingOperationsCount' \in Nat
<1>1. /\ Cardinality(PendingJobs') =< Cardinality(PendingJobs)
      /\ Cardinality(CountedCalls') =< Cardinality(CountedCalls)
  BY Countable, FS_Subset
<1> QED
  BY <1>1, Countable DEF LeastCount

\* One more job, or one more call, is counted once.
LEMMA MoreIsUnderWay ==
  ASSUME pendingOperationsCount \in Nat, LeastCount =< pendingOperationsCount, NEW x,
         pendingOperationsCount' = pendingOperationsCount + 1,
         \/ PendingJobs' \subseteq PendingJobs \cup {x} /\ CountedCalls' = CountedCalls
         \/ PendingJobs' = PendingJobs /\ CountedCalls' \subseteq CountedCalls \cup {x}
  PROVE  (LeastCount =< pendingOperationsCount)' /\ pendingOperationsCount' \in Nat
<1>1. ASSUME NEW S, NEW T, IsFiniteSet(S), T \subseteq S \cup {x}
      PROVE  Cardinality(T) =< Cardinality(S) + 1
  <2>1. Cardinality(S) \in Nat
    BY <1>1, FS_CardinalityType
  <2>2. /\ IsFiniteSet(S \cup {x})
        /\ Cardinality(S \cup {x}) =< Cardinality(S) + 1
    BY <1>1, <2>1, FS_AddElement
  <2>3. IsFiniteSet(T) /\ Cardinality(T) =< Cardinality(S \cup {x})
    BY <1>1, <2>2, FS_Subset
  <2>4. Cardinality(T) \in Nat /\ Cardinality(S \cup {x}) \in Nat
    BY <2>2, <2>3, FS_CardinalityType
  <2> QED
    BY <2>1, <2>2, <2>3, <2>4
<1>2. \/ /\ Cardinality(PendingJobs') =< Cardinality(PendingJobs) + 1
         /\ CountedCalls' = CountedCalls
      \/ /\ Cardinality(CountedCalls') =< Cardinality(CountedCalls) + 1
         /\ PendingJobs' = PendingJobs
  BY <1>1, Countable
<1> QED
  BY <1>2, Countable DEF LeastCount

\* One job, or one call, less.
LEMMA LessIsUnderWay ==
  ASSUME pendingOperationsCount \in Nat, LeastCount =< pendingOperationsCount, NEW x,
         pendingOperationsCount' = pendingOperationsCount - 1,
         \/ /\ x \in PendingJobs /\ PendingJobs' \subseteq PendingJobs \ {x}
            /\ CountedCalls' = CountedCalls
         \/ /\ x \in CountedCalls /\ CountedCalls' \subseteq CountedCalls \ {x}
            /\ PendingJobs' = PendingJobs
  PROVE  (LeastCount =< pendingOperationsCount)' /\ pendingOperationsCount' \in Nat
<1>1. ASSUME NEW S, NEW T, IsFiniteSet(S), x \in S, T \subseteq S \ {x}
      PROVE  Cardinality(T) =< Cardinality(S) - 1
  <2>1. IsFiniteSet(S \ {x}) /\ Cardinality(S \ {x}) = Cardinality(S) - 1
    BY <1>1, FS_RemoveElement
  <2> QED
    BY <1>1, <2>1, FS_Subset
<1>2. \/ /\ Cardinality(PendingJobs') =< Cardinality(PendingJobs) - 1
         /\ CountedCalls' = CountedCalls
      \/ /\ Cardinality(CountedCalls') =< Cardinality(CountedCalls) - 1
         /\ PendingJobs' = PendingJobs
  BY <1>1, Countable
<1> QED
  BY <1>2, Countable DEF LeastCount

Checks(x) == CheckAllFinished(x) \/ OnAllDownloadsFinished(x)

\* Most steps bring no job or call under way and leave the count alone.
LEMMA QuietStep ==
  ASSUME TypeOK, UnusedAttempts,
         \/ SwapJob \/ SwapAttempt \/ Launch
         \/ \E j \in Attempts : JobNext(j) /\ ~Release(j) /\ ~Checks(j)
         \/ \E c \in Calls : CallNext(c) /\ ~Call(c) /\ ~EndCall(c) /\ ~Checks(c)
         \/ \E c \in Calls : RemovalStep(c)
         \/ BeginAdd \/ AddStep \/ PrepareExplicitDownload \/ RecoveryStep
  PROVE  Quiet
<1> USE DEF TypeOK, UnusedAttempts, Quiet, PendingJobs, CountedCalls, Counted, Attempts, starter,
     others, tombstone, vars, controller, outside
<1>1. ASSUME SwapJob \/ SwapAttempt \/ Launch PROVE Quiet
  <2>1. CASE SwapJob
    BY <2>1 DEF SwapJob, Live
  <2>2. CASE SwapAttempt
    BY <2>2 DEF SwapAttempt
  <2>3. CASE Launch
    BY <2>3 DEF Launch
  <2> QED
    BY <2>1, <2>2, <2>3, <1>1
<1>2. ASSUME NEW j \in Attempts, JobNext(j), ~Release(j), ~Checks(j) PROVE Quiet
  <2>1. CASE NeverRuns(j)
    BY <2>1 DEF NeverRuns, JobStep
  <2>2. CASE Run(j)
    BY <2>2 DEF Run, JobStep
  <2>3. CASE Join(j)
    BY <2>3 DEF Join, JobStep, Live
  <2>4. CASE Begin(j)
    BY <2>4 DEF Begin, JobStep
  <2>5. CASE BeginOffline(j)
    BY <2>5 DEF BeginOffline, JobStep
  <2>6. CASE BeginRefused(j)
    BY <2>6 DEF BeginRefused, JobStep
  <2>7. CASE BackOff(j)
    BY <2>7 DEF BackOff, JobStep
  <2>8. CASE TestAttempt(j)
    BY <2>8 DEF TestAttempt, JobStep
  <2>9. CASE ShowProgress(j)
    BY <2>9 DEF ShowProgress, JobStep
  <2>10. CASE Publish(j)
    BY <2>10 DEF Publish, JobStep
  <2>11. CASE TransferFails(j)
    BY <2>11 DEF TransferFails, JobStep
  <2>12. CASE NoticeCancellation(j)
    BY <2>12 DEF NoticeCancellation, JobStep
  <2>13. CASE EndTransfer(j)
    BY <2>13 DEF EndTransfer, JobStep
  <2>14. CASE Finally(j)
    BY <2>14 DEF Finally, JobStep
  <2>15. CASE ForgetAttempt(j)
    BY <2>15 DEF ForgetAttempt, JobStep
  <2>16. CASE ForgetJob(j)
    BY <2>16 DEF ForgetJob, JobStep
  <2>17. CASE Complete(j)
    BY <2>17 DEF Complete, JobStep
  <2> QED
    BY <2>1, <2>2, <2>3, <2>4, <2>5, <2>6, <2>7, <2>8, <2>9, <2>10, <2>11, <2>12, <2>13,
       <2>14, <2>15, <2>16, <2>17, <1>2 DEF JobNext, Checks
<1>3. ASSUME NEW c \in Calls, CallNext(c), ~Call(c), ~EndCall(c), ~Checks(c) PROVE Quiet
  <2>1. CASE PauseAll(c)
    BY <2>1 DEF PauseAll, Goto, Live
  <2>2. CASE TakeJob(c)
    BY <2>2 DEF TakeJob, Goto
  <2>3. CASE DropAttempt(c)
    BY <2>3 DEF DropAttempt, Goto
  <2>4. CASE StopJob(c)
    BY <2>4 DEF StopJob, Goto, Live
  <2>5. CASE JoinJob(c)
    BY <2>5 DEF JoinJob, Goto, Live
  <2>6. CASE Show(c)
    BY <2>6 DEF Show, Goto
  <2>7. CASE DeletePublished(c)
    BY <2>7 DEF DeletePublished, Goto
  <2>8. CASE DeletionRefused(c)
    BY <2>8 DEF DeletionRefused, Goto
  <2>9. CASE ReturnCall(c)
    BY <2>9 DEF ReturnCall, Goto
  <2> QED
    BY <2>1, <2>2, <2>3, <2>4, <2>5, <2>6, <2>7, <2>8, <2>9, <1>3 DEF CallNext, Checks
<1>4. ASSUME NEW c \in Calls, RemovalStep(c) PROVE Quiet
  <2>1. CASE Reserve(c)
    BY <2>1 DEF Reserve, Goto, Removal
  <2>2. CASE Record(c)
    BY <2>2 DEF Record, Goto, Removal
  <2>3. CASE StillInUse(c)
    BY <2>3 DEF StillInUse, Goto, Removal
  <2>4. CASE RemoveDefinition(c)
    BY <2>4 DEF RemoveDefinition, Goto, Removal
  <2>5. CASE DeleteFiles(c)
    BY <2>5 DEF DeleteFiles, Goto, Removal
  <2>6. CASE MarkComplete(c)
    BY <2>6 DEF MarkComplete, Goto, Removal
  <2>7. CASE Unreserve(c)
    BY <2>7 DEF Unreserve, Goto, Removal
  <2> QED
    BY <2>1, <2>2, <2>3, <2>4, <2>5, <2>6, <2>7, <1>4 DEF RemovalStep
<1>5. ASSUME BeginAdd \/ AddStep \/ PrepareExplicitDownload \/ RecoveryStep PROVE Quiet
  <2>1. CASE BeginAdd
    BY <2>1 DEF BeginAdd
  <2>2. CASE WriteDefinition
    BY <2>2 DEF WriteDefinition
  <2>3. CASE ClearRecord
    BY <2>3 DEF ClearRecord
  <2>4. CASE PrepareExplicitDownload
    BY <2>4 DEF PrepareExplicitDownload
  <2>5. CASE Recover
    BY <2>5 DEF Recover, Recovery
  <2>6. CASE RecoverDefinition
    BY <2>6 DEF RecoverDefinition, Recovery
  <2>7. CASE RecoverFiles
    BY <2>7 DEF RecoverFiles, Recovery
  <2>8. CASE RecoverComplete
    BY <2>8 DEF RecoverComplete, Recovery
  <2> QED
    BY <2>1, <2>2, <2>3, <2>4, <2>5, <2>6, <2>7, <2>8, <1>5 DEF AddStep, RecoveryStep
<1> QED
  BY <1>1, <1>2, <1>3, <1>4, <1>5

\* A start, and a call of the others, brings one more under way and counts it.
LEMMA BeginStep ==
  ASSUME TypeOK, UnusedAttempts
  PROVE  /\ StartCall =>
              /\ PendingJobs' \subseteq PendingJobs \cup {attemptCounter'}
              /\ CountedCalls' = CountedCalls /\ UnusedAttempts'
              /\ attemptCounter' \in Operations /\ Count(attemptCounter')
         /\ \A c \in Calls : Call(c) =>
              /\ PendingJobs' = PendingJobs /\ UnusedAttempts'
              /\ CountedCalls' \subseteq CountedCalls \cup {c}
              /\ c \in Operations /\ Count(c)
<1> USE DEF TypeOK, PendingJobs, CountedCalls, Counted, Attempts, UnusedAttempts, Operations
<1>1. ASSUME StartCall
      PROVE  /\ PendingJobs' \subseteq PendingJobs \cup {attemptCounter'}
             /\ CountedCalls' = CountedCalls /\ UnusedAttempts'
             /\ attemptCounter' \in Operations /\ Count(attemptCounter')
  <2>1. attemptCounter' = attemptCounter + 1 /\ attemptCounter + 1 \in Attempts
    BY <1>1, DownloadAssumption DEF StartCall, MayStart
  <2>2. Count(attemptCounter')
    BY <1>1, <2>1 DEF StartCall
  <2>3. /\ PendingJobs' \subseteq PendingJobs \cup {attemptCounter'}
        /\ CountedCalls' = CountedCalls /\ UnusedAttempts'
    BY <1>1 DEF StartCall, others
  <2> QED
    BY <2>1, <2>2, <2>3
<1>2. ASSUME NEW c \in Calls, Call(c)
      PROVE  /\ PendingJobs' = PendingJobs /\ UnusedAttempts'
             /\ CountedCalls' \subseteq CountedCalls \cup {c}
             /\ c \in Operations /\ Count(c)
  BY <1>2 DEF Call, Goto, starter
<1> QED
  BY <1>1, <1>2

\* The end of a job, and of a call, leaves one less under way and counts it down.
LEMMA EndStep ==
  ASSUME TypeOK, UnusedAttempts
  PROVE  /\ \A j \in Attempts : Release(j) =>
              /\ j \in PendingJobs /\ PendingJobs' \subseteq PendingJobs \ {j}
              /\ CountedCalls' = CountedCalls /\ UnusedAttempts' /\ Discount(j)
         /\ \A c \in Calls : EndCall(c) =>
              /\ c \in CountedCalls /\ CountedCalls' \subseteq CountedCalls \ {c}
              /\ PendingJobs' = PendingJobs /\ UnusedAttempts' /\ Discount(c)
<1> USE DEF TypeOK, PendingJobs, CountedCalls, Counted, Attempts, UnusedAttempts
<1>1. ASSUME NEW j \in Attempts, Release(j)
      PROVE  /\ j \in PendingJobs /\ PendingJobs' \subseteq PendingJobs \ {j}
             /\ CountedCalls' = CountedCalls /\ UnusedAttempts' /\ Discount(j)
  BY <1>1 DEF Release, JobStep, starter, others
<1>2. ASSUME NEW c \in Calls, EndCall(c)
      PROVE  /\ c \in CountedCalls /\ CountedCalls' \subseteq CountedCalls \ {c}
             /\ PendingJobs' = PendingJobs /\ UnusedAttempts' /\ Discount(c)
  BY <1>2 DEF EndCall, Goto, starter
<1> QED
  BY <1>1, <1>2

\* A read of a check changes nothing else, and goes on from a read of the count only
\* if that is zero.
LEMMA CheckStep ==
  ASSUME TypeOK, UnusedAttempts, NEW x \in Operations, Checks(x)
  PROVE  Checking
<1>1. /\ PendingJobs' = PendingJobs /\ CountedCalls' = CountedCalls /\ UnusedAttempts'
      /\ UNCHANGED pendingOperationsCount
  BY DEF Checks, CheckAllFinished, OnAllDownloadsFinished, PendingJobs, CountedCalls, Counted,
     UnusedAttempts, starter, others
<1>2. ASSUME NEW from, NEW ended \in BOOLEAN, NEW to, Read(x, from, ended, to),
             from \in {"count", "recount"} => (ended => pendingOperationsCount =< 0),
             from # "none"
      PROVE  \A y \in Operations : Passed(y)' =>
               (Passed(y) /\ newcomers'[y] = newcomers[y]) \/ pendingOperationsCount =< 0
  <2> SUFFICES ASSUME NEW y \in Operations, Passed(y)'
               PROVE  \/ Passed(y) /\ newcomers'[y] = newcomers[y]
                      \/ pendingOperationsCount =< 0
    OBVIOUS
  <2>1. CASE y # x
    BY <1>2, <2>1 DEF TypeOK, Read, Passed
  <2>2. CASE y = x
    BY <1>2, <2>2 DEF TypeOK, Read, Passed
  <2> QED
    BY <2>1, <2>2
<1>3. CASE CheckAllFinished(x)
  <2>1. \/ Read(x, "count", NothingCounted, "active")
        \/ Read(x, "active", NoneActive, "cancelling")
        \/ Read(x, "cancelling", NoneCancelling, "recount")
        \/ Read(x, "cancelling", FALSE, "recount")
    BY <1>3 DEF CheckAllFinished, NoneCancelling
  <2>2. NothingCounted \in BOOLEAN /\ NoneActive \in BOOLEAN /\ NoneCancelling \in BOOLEAN
    BY DEF NothingCounted, NoneActive, NoneCancelling, Live
  <2> QED
    BY <1>1, <1>2, <2>1, <2>2 DEF Checking, NothingCounted
<1>4. CASE OnAllDownloadsFinished(x)
  <2>1. NothingCounted \in BOOLEAN /\ NoneActive \in BOOLEAN /\ NoneCancelling \in BOOLEAN
    BY DEF NothingCounted, NoneActive, NoneCancelling, Live
  <2> QED
    BY <1>1, <1>2, <1>4, <2>1 DEF OnAllDownloadsFinished, Checking, NothingCounted
<1> QED
  BY <1>3, <1>4 DEF Checks

\* So each step of the system is quiet, begins or ends one operation, or checks.
LEMMA StepKinds ==
  ASSUME TypeOK, UnusedAttempts, RemovalNext
  PROVE  \/ Quiet \/ Checking \/ StartCall \/ Die
         \/ \E j \in Attempts : Release(j)
         \/ \E c \in Calls : Call(c) \/ EndCall(c)
<1>1. ASSUME NEW j \in Attempts, JobNext(j) PROVE Quiet \/ Checking \/ Release(j)
  BY <1>1, QuietStep, CheckStep DEF Operations
<1>2. ASSUME NEW c \in Calls, CallNext(c) PROVE Quiet \/ Checking \/ Call(c) \/ EndCall(c)
  BY <1>2, QuietStep, CheckStep DEF Operations
<1>3. ASSUME \/ SwapJob \/ SwapAttempt \/ Launch
             \/ \E c \in Calls : RemovalStep(c)
             \/ BeginAdd \/ AddStep \/ PrepareExplicitDownload \/ RecoveryStep
      PROVE  Quiet
  BY <1>3, QuietStep
<1> QED
  BY <1>1, <1>2, <1>3 DEF RemovalNext, Next

\* The count of operations covers every job and every call after a step too.
LEMMA CountStep ==
  ASSUME TypeOK, CountInv, [RemovalNext]_removalVars
  PROVE  CountInv' /\ pendingOperationsCount' \in Nat
<1> DEFINE Balanced == CountInv' /\ pendingOperationsCount' \in Nat
<1> SUFFICES Balanced
  OBVIOUS
<1> USE DEF CountInv
<1>0. pendingOperationsCount \in Nat
  BY DEF TypeOK
<1>1. ASSUME Quiet \/ Checking PROVE Balanced
  BY <1>0, <1>1, SameIsUnderWay DEF Quiet, Checking, counting
<1>2. ASSUME StartCall PROVE Balanced
  BY <1>0, <1>2, BeginStep, MoreIsUnderWay DEF Count
<1>3. ASSUME NEW j \in Attempts, Release(j) PROVE Balanced
  BY <1>0, <1>3, EndStep, LessIsUnderWay DEF Discount
<1>4. ASSUME NEW c \in Calls, Call(c) PROVE Balanced
  BY <1>0, <1>4, BeginStep, MoreIsUnderWay DEF Count
<1>5. ASSUME NEW c \in Calls, EndCall(c) PROVE Balanced
  BY <1>0, <1>5, EndStep, LessIsUnderWay DEF Discount
<1>6. CASE Die
  <2>1. PendingJobs' = {} /\ CountedCalls' = {} /\ UnusedAttempts'
    BY <1>6, DownloadAssumption DEF Die, PendingJobs, CountedCalls, Counted, Attempts,
         UnusedAttempts
  <2>2. LeastCount' = 0
    BY <2>1, FS_EmptySet DEF LeastCount
  <2> QED
    BY <1>6, <2>1, <2>2 DEF Die
<1>7. CASE UNCHANGED removalVars
  <2>1. PendingJobs' = PendingJobs /\ CountedCalls' = CountedCalls /\ UnusedAttempts'
    BY <1>7 DEF removalVars, vars, starter, others, PendingJobs, CountedCalls, Counted,
         UnusedAttempts
  <2> QED
    BY <1>0, <1>7, <2>1 DEF removalVars, vars, counting, LeastCount
<1> QED
  BY <1>1, <1>2, <1>3, <1>4, <1>5, <1>6, <1>7, StepKinds

\* With a count of zero nothing is under way.
LEMMA NothingIsUnderWay ==
  ASSUME TypeOK, CountInv, pendingOperationsCount =< 0
  PROVE  UnderWay = {}
<1>1. Cardinality(PendingJobs) = 0 /\ Cardinality(CountedCalls) = 0
  BY Countable DEF TypeOK, CountInv, LeastCount
<1>2. PendingJobs = {} /\ CountedCalls = {}
  BY <1>1, Countable, FS_EmptySet
<1> QED
  BY <1>2 DEF PendingJobs, CountedCalls, UnderWay

\* What a check may overlook began after it read the count, also after a step.
LEMMA OverlookStep ==
  ASSUME TypeOK, CountInv, OnlyNewcomersOverlooked, [RemovalNext]_removalVars
  PROVE  OnlyNewcomersOverlooked'
<1>1. UnderWay = PendingJobs \cup CountedCalls /\ UnderWay' = PendingJobs' \cup CountedCalls'
  BY DEF UnderWay, PendingJobs, CountedCalls
<1>2. ASSUME UnderWay' \subseteq UnderWay, UNCHANGED newcomers,
             \A x \in Operations : Passed(x)' => Passed(x)
      PROVE  OnlyNewcomersOverlooked'
  BY <1>2 DEF OnlyNewcomersOverlooked
<1>3. ASSUME NEW o \in Operations, Count(o), UnderWay' \subseteq UnderWay \cup {o}
      PROVE  OnlyNewcomersOverlooked'
  <2> SUFFICES ASSUME NEW x \in Operations, Passed(x)' PROVE UnderWay' \subseteq newcomers'[x]
    BY DEF OnlyNewcomersOverlooked
  <2>1. Passed(x) /\ newcomers'[x] = newcomers[x] \cup {o}
    BY <1>3 DEF Count, Passed
  <2> QED
    BY <1>3, <2>1 DEF OnlyNewcomersOverlooked
<1>4. CASE Quiet
  BY <1>1, <1>2, <1>4 DEF Quiet, counting, Passed
<1>5. CASE Checking
  <2> SUFFICES ASSUME NEW x \in Operations, Passed(x)' PROVE UnderWay' \subseteq newcomers'[x]
    BY DEF OnlyNewcomersOverlooked
  <2>1. UnderWay' = UnderWay
    BY <1>1, <1>5 DEF Checking
  <2>2. CASE Passed(x) /\ newcomers'[x] = newcomers[x]
    BY <2>1, <2>2 DEF OnlyNewcomersOverlooked
  <2>3. CASE pendingOperationsCount =< 0
    BY <2>1, <2>3, NothingIsUnderWay
  <2> QED
    BY <1>5, <2>2, <2>3 DEF Checking
<1>6. ASSUME \/ StartCall
             \/ \E c \in Calls : Call(c)
      PROVE  OnlyNewcomersOverlooked'
  BY <1>1, <1>3, <1>6, BeginStep DEF CountInv
<1>7. ASSUME NEW x \in Operations, Discount(x), UnderWay' \subseteq UnderWay
      PROVE  OnlyNewcomersOverlooked'
  <2>1. \A y \in Operations : Passed(y)' => Passed(y)
    BY <1>7 DEF TypeOK, Discount, Passed
  <2> QED
    BY <1>2, <1>7, <2>1 DEF Discount
<1>8. ASSUME \/ \E j \in Attempts : Release(j)
             \/ \E c \in Calls : EndCall(c)
      PROVE  OnlyNewcomersOverlooked'
  BY <1>1, <1>7, <1>8, EndStep DEF CountInv, Operations
<1>9. CASE Die
  BY <1>9 DEF Die, OnlyNewcomersOverlooked, Passed
<1>10. CASE UNCHANGED removalVars
  <2>1. UNCHANGED <<UnderWay, newcomers, check>>
    BY <1>10 DEF removalVars, vars, counting, starter, others, UnderWay, Counted
  <2> QED
    BY <1>2, <2>1 DEF Passed
<1> QED
  BY <1>4, <1>5, <1>6, <1>8, <1>9, <1>10, StepKinds DEF CountInv

-----------------------------------------------------------------------------
(* Types *)

\* A job or a start leaves the calls and the removal as they are.
LEMMA DownloadsLeaveCalls ==
  ASSUME \/ StartCall \/ SwapJob \/ SwapAttempt \/ Launch
         \/ \E j \in Attempts : JobNext(j)
  PROVE  UNCHANGED others
<1>1. CASE StartCall \/ SwapJob \/ SwapAttempt \/ Launch
  BY <1>1 DEF StartCall, SwapJob, SwapAttempt, Launch
<1>2. ASSUME NEW j \in Attempts, JobNext(j) PROVE UNCHANGED others
  BY <1>2 DEF JobNext, NeverRuns, Run, Join, Begin, BeginOffline, BeginRefused, BackOff,
       TestAttempt, ShowProgress, Publish, TransferFails, NoticeCancellation, EndTransfer,
       Finally, ForgetAttempt, ForgetJob, Release, Complete, CheckAllFinished,
       OnAllDownloadsFinished
<1> QED
  BY <1>1, <1>2

\* No step leaves the types of the maps, the jobs and the starts.
LEMMA JobTypesStep ==
  ASSUME JobTypes, [RemovalNext]_removalVars
  PROVE  JobTypes'
<1> USE DownloadAssumption DEF JobTypes, Statuses, JobPlaces, maps, snapshot, starter, others
<1>1. ASSUME StartCall \/ SwapJob \/ SwapAttempt \/ Launch PROVE JobTypes'
  <2>1. CASE StartCall
    BY <2>1 DEF StartCall, MayStart, Attempts
  <2>2. CASE SwapJob
    BY <2>2 DEF SwapJob, Live
  <2>3. CASE SwapAttempt
    BY <2>3 DEF SwapAttempt
  <2>4. CASE Launch
    BY <2>4 DEF Launch
  <2> QED
    BY <2>1, <2>2, <2>3, <2>4, <1>1
<1>2. ASSUME NEW j \in Attempts, JobNext(j) PROVE JobTypes'
  <2>1. CASE NeverRuns(j)
    BY <2>1 DEF NeverRuns, JobStep
  <2>2. CASE Run(j)
    BY <2>2 DEF Run, JobStep
  <2>3. CASE Join(j)
    BY <2>3 DEF Join, JobStep, Live
  <2>4. CASE Begin(j)
    BY <2>4 DEF Begin, JobStep
  <2>5. CASE BeginOffline(j)
    BY <2>5 DEF BeginOffline, JobStep
  <2>6. CASE BeginRefused(j)
    BY <2>6 DEF BeginRefused, JobStep
  <2>7. CASE BackOff(j)
    BY <2>7 DEF BackOff, JobStep
  <2>8. CASE TestAttempt(j)
    BY <2>8 DEF TestAttempt, JobStep
  <2>9. CASE ShowProgress(j)
    BY <2>9 DEF ShowProgress, JobStep
  <2>10. CASE Publish(j)
    BY <2>10 DEF Publish, JobStep
  <2>11. CASE TransferFails(j)
    BY <2>11 DEF TransferFails, JobStep
  <2>12. CASE NoticeCancellation(j)
    BY <2>12 DEF NoticeCancellation, JobStep
  <2>13. CASE EndTransfer(j)
    BY <2>13 DEF EndTransfer, JobStep, Recovered
  <2>14. CASE Finally(j)
    BY <2>14 DEF Finally, JobStep
  <2>15. CASE ForgetAttempt(j)
    BY <2>15 DEF ForgetAttempt, JobStep
  <2>16. CASE ForgetJob(j)
    BY <2>16 DEF ForgetJob, JobStep
  <2>17. CASE Release(j)
    BY <2>17 DEF Release, JobStep
  <2>18. CASE Complete(j)
    BY <2>18 DEF Complete, JobStep
  <2>19. CASE CheckAllFinished(j) \/ OnAllDownloadsFinished(j)
    BY <2>19 DEF CheckAllFinished, OnAllDownloadsFinished
  <2> QED
    BY <2>1, <2>2, <2>3, <2>4, <2>5, <2>6, <2>7, <2>8, <2>9, <2>10, <2>11, <2>12, <2>13,
       <2>14, <2>15, <2>16, <2>17, <2>18, <2>19, <1>2 DEF JobNext
<1>3. ASSUME NEW c \in Calls, CallNext(c) PROVE JobTypes'
  <2>1. CASE PauseAll(c)
    BY <2>1 DEF PauseAll, Goto, Live
  <2>2. CASE Call(c)
    BY <2>2 DEF Call, Goto
  <2>3. CASE TakeJob(c)
    BY <2>3 DEF TakeJob, Goto
  <2>4. CASE DropAttempt(c)
    BY <2>4 DEF DropAttempt, Goto
  <2>5. CASE StopJob(c)
    BY <2>5 DEF StopJob, Goto, Live
  <2>6. CASE JoinJob(c)
    BY <2>6 DEF JoinJob, Goto, Live
  <2>7. CASE Show(c)
    BY <2>7 DEF Show, Goto, Recovered
  <2>8. CASE DeletePublished(c)
    BY <2>8 DEF DeletePublished, Goto
  <2>9. CASE DeletionRefused(c)
    BY <2>9 DEF DeletionRefused, Goto
  <2>10. CASE ReturnCall(c)
    BY <2>10 DEF ReturnCall, Goto
  <2>11. CASE EndCall(c)
    BY <2>11 DEF EndCall, Goto
  <2>12. CASE CheckAllFinished(c) \/ OnAllDownloadsFinished(c)
    BY <2>12 DEF CheckAllFinished, OnAllDownloadsFinished
  <2> QED
    BY <2>1, <2>2, <2>3, <2>4, <2>5, <2>6, <2>7, <2>8, <2>9, <2>10, <2>11, <2>12,
       <1>3 DEF CallNext
<1>4. ASSUME NEW c \in Calls, RemovalStep(c) PROVE JobTypes'
  BY <1>4 DEF RemovalStep, Reserve, Record, StillInUse, RemoveDefinition, DeleteFiles,
       MarkComplete, Unreserve, Removal, controller
<1>5. CASE Die
  BY <1>5 DEF Die, Attempts
<1>6. ASSUME BeginAdd \/ AddStep \/ PrepareExplicitDownload \/ RecoveryStep PROVE JobTypes'
  BY <1>6 DEF AddStep, RecoveryStep, BeginAdd, WriteDefinition, ClearRecord,
       PrepareExplicitDownload, Recover, RecoverDefinition, RecoverFiles, RecoverComplete,
       vars, controller
<1>7. CASE UNCHANGED removalVars
  BY <1>7 DEF removalVars, vars
<1> QED
  BY <1>1, <1>2, <1>3, <1>4, <1>5, <1>6, <1>7 DEF RemovalNext, Next

\* Nor those of the calls, of the stored documents and of what is going on with them.
LEMMA PlaceTypesStep ==
  ASSUME PlaceTypes, [RemovalNext]_removalVars
  PROVE  PlaceTypes'
<1> USE DEF PlaceTypes, others, tombstone, catalog, outside, bounds
<1>1. ASSUME UNCHANGED <<others, catalog, outside, bounds>> PROVE PlaceTypes'
  BY <1>1
<1>2. ASSUME NEW c \in Calls, CallNext(c), UNCHANGED <<catalog, outside, bounds>>
      PROVE  PlaceTypes'
  <2>1. CASE PauseAll(c)
    BY <1>2, <2>1 DEF PauseAll, Goto, CallPlaces
  <2>2. CASE Call(c)
    BY <1>2, <2>2 DEF Call, Goto, CallPlaces
  <2>3. CASE TakeJob(c)
    BY <1>2, <2>3 DEF TakeJob, Goto, CallPlaces
  <2>4. CASE DropAttempt(c)
    BY <1>2, <2>4 DEF DropAttempt, Goto, CallPlaces
  <2>5. CASE StopJob(c)
    BY <1>2, <2>5 DEF StopJob, Goto, CallPlaces
  <2>6. CASE JoinJob(c)
    BY <1>2, <2>6 DEF JoinJob, Goto, CallPlaces
  <2>7. CASE Show(c)
    BY <1>2, <2>7 DEF Show, Goto, CallPlaces
  <2>8. CASE DeletePublished(c)
    BY <1>2, <2>8 DEF DeletePublished, Goto, CallPlaces
  <2>9. CASE DeletionRefused(c)
    BY <1>2, <2>9 DEF DeletionRefused, Goto, CallPlaces
  <2>10. CASE ReturnCall(c)
    BY <1>2, <2>10 DEF ReturnCall, Goto, CallPlaces
  <2>11. CASE EndCall(c)
    BY <1>2, <2>11 DEF EndCall, Goto, CallPlaces
  <2>12. CASE CheckAllFinished(c) \/ OnAllDownloadsFinished(c)
    BY <1>1, <1>2, <2>12 DEF CheckAllFinished, OnAllDownloadsFinished
  <2> QED
    BY <2>1, <2>2, <2>3, <2>4, <2>5, <2>6, <2>7, <2>8, <2>9, <2>10, <2>11, <2>12,
       <1>2 DEF CallNext
<1>3. ASSUME NEW c \in Calls, RemovalStep(c) PROVE PlaceTypes'
  <2>1. CASE Reserve(c)
    BY <2>1, RemovalAssumption DEF Reserve, Removal, Goto, CallPlaces, vars
  <2>2. CASE Record(c)
    BY <2>2, RemovalAssumption DEF Record, Removal, Goto, Fault, CallPlaces, vars
  <2>3. CASE StillInUse(c)
    BY <2>3, RemovalAssumption DEF StillInUse, Removal, Goto, CallPlaces, vars
  <2>4. CASE RemoveDefinition(c)
    BY <2>4, RemovalAssumption DEF RemoveDefinition, Removal, Goto, Fault, CallPlaces, vars
  <2>5. CASE DeleteFiles(c)
    BY <2>5, RemovalAssumption DEF DeleteFiles, Removal, Goto, Fault, CallPlaces, vars
  <2>6. CASE MarkComplete(c)
    BY <2>6, RemovalAssumption DEF MarkComplete, Removal, Goto, Fault, Completed, CallPlaces, vars
  <2>7. CASE Unreserve(c)
    BY <2>7, RemovalAssumption DEF Unreserve, Removal, Goto, CallPlaces, vars
  <2> QED
    BY <2>1, <2>2, <2>3, <2>4, <2>5, <2>6, <2>7, <1>3 DEF RemovalStep
<1>4. ASSUME BeginAdd \/ AddStep \/ PrepareExplicitDownload \/ Die \/ RecoveryStep
      PROVE  PlaceTypes'
  <2>1. CASE BeginAdd
    BY <2>1, RemovalAssumption DEF BeginAdd, CallPlaces, vars
  <2>2. CASE WriteDefinition
    BY <2>2, RemovalAssumption DEF WriteDefinition, Fault, CallPlaces, vars
  <2>3. CASE ClearRecord
    BY <2>3, RemovalAssumption DEF ClearRecord, Fault, CallPlaces, vars
  <2>4. CASE PrepareExplicitDownload
    BY <2>4, RemovalAssumption DEF PrepareExplicitDownload, CallPlaces, vars
  <2>5. CASE Die
    BY <2>5, RemovalAssumption DEF Die, MayDie, CallPlaces, vars
  <2>6. CASE Recover
    BY <2>6, RemovalAssumption DEF Recover, Recovery, CallPlaces, vars
  <2>7. CASE RecoverDefinition
    BY <2>7, RemovalAssumption DEF RecoverDefinition, Recovery, Fault, CallPlaces, vars
  <2>8. CASE RecoverFiles
    BY <2>8, RemovalAssumption DEF RecoverFiles, Recovery, Fault, CallPlaces, vars
  <2>9. CASE RecoverComplete
    BY <2>9, RemovalAssumption DEF RecoverComplete, Recovery, Fault, Completed, CallPlaces, vars
  <2> QED
    BY <2>1, <2>2, <2>3, <2>4, <2>5, <2>6, <2>7, <2>8, <2>9, <1>4 DEF AddStep, RecoveryStep
<1>5. CASE UNCHANGED removalVars
  BY <1>1, <1>5 DEF removalVars, vars
<1> QED
  BY <1>1, <1>2, <1>3, <1>4, <1>5, DownloadsLeaveCalls DEF RemovalNext, Next

\* Nor those of the flags.
LEMMA FlagTypesStep ==
  ASSUME FlagTypes, [RemovalNext]_removalVars
  PROVE  FlagTypes'
<1> USE DEF FlagTypes, snapshot, others, tombstone, catalog
<1>1. ASSUME Next, UNCHANGED catalog PROVE FlagTypes'
  <2>1. published' \in {published, TRUE, FALSE}
    <3>1. ASSUME StartCall \/ SwapJob \/ SwapAttempt \/ Launch PROVE UNCHANGED published
      BY <3>1 DEF StartCall, SwapJob, SwapAttempt, Launch
    <3>2. ASSUME NEW j \in Attempts, JobNext(j) PROVE published' \in {published, TRUE}
      BY <3>2 DEF JobNext, NeverRuns, Run, Join, Begin, BeginOffline, BeginRefused, BackOff,
           TestAttempt, ShowProgress, Publish, TransferFails, NoticeCancellation,
           EndTransfer, Finally, ForgetAttempt, ForgetJob, Release, Complete, CheckAllFinished,
       OnAllDownloadsFinished
    <3>3. ASSUME NEW c \in Calls, CallNext(c) PROVE published' \in {published, FALSE}
      BY <3>3 DEF CallNext, PauseAll, Call, TakeJob, DropAttempt, StopJob, JoinJob, Show,
           DeletePublished, DeletionRefused, EndCall, ReturnCall, CheckAllFinished,
           OnAllDownloadsFinished
    <3> QED
      BY <1>1, <3>1, <3>2, <3>3 DEF Next
  <2>2. UNCHANGED reserved
    <3>1. ASSUME NEW c \in Calls, CallNext(c) PROVE UNCHANGED reserved
      BY <3>1 DEF CallNext, PauseAll, Call, TakeJob, DropAttempt, StopJob, JoinJob, Show,
           DeletePublished, DeletionRefused, EndCall, ReturnCall, CheckAllFinished,
           OnAllDownloadsFinished
    <3> QED
      BY <1>1, <3>1, DownloadsLeaveCalls DEF Next
  <2> QED
    BY <1>1, <2>1, <2>2
<1>2. ASSUME NEW c \in Calls, RemovalStep(c) PROVE FlagTypes'
  <2>1. CASE Reserve(c)
    BY <2>1, Zenon DEF Reserve
  <2>2. CASE Record(c)
    BY <2>2, Zenon DEF Record
  <2>3. CASE StillInUse(c)
    BY <2>3, Zenon DEF StillInUse
  <2>4. CASE RemoveDefinition(c)
    BY <2>4, Zenon DEF RemoveDefinition
  <2>5. CASE DeleteFiles(c)
    BY <2>5, Zenon DEF DeleteFiles
  <2>6. CASE MarkComplete(c)
    BY <2>6, Zenon DEF MarkComplete
  <2>7. CASE Unreserve(c)
    BY <2>7, Zenon DEF Unreserve
  <2> QED
    BY <2>1, <2>2, <2>3, <2>4, <2>5, <2>6, <2>7, <1>2 DEF RemovalStep
<1>3. ASSUME BeginAdd \/ AddStep \/ PrepareExplicitDownload \/ Die \/ RecoveryStep
      PROVE  FlagTypes'
  <2>1. CASE BeginAdd
    BY <2>1, Zenon DEF BeginAdd, vars
  <2>2. CASE WriteDefinition
    BY <2>2, Zenon DEF WriteDefinition, vars
  <2>3. CASE ClearRecord
    BY <2>3, Zenon DEF ClearRecord, vars
  <2>4. CASE PrepareExplicitDownload
    BY <2>4, Zenon DEF PrepareExplicitDownload, vars
  <2>5. CASE Die
    BY <2>5, Zenon DEF Die, vars
  <2>6. CASE Recover
    BY <2>6, Zenon DEF Recover, vars
  <2>7. CASE RecoverDefinition
    BY <2>7, Zenon DEF RecoverDefinition, vars
  <2>8. CASE RecoverFiles
    BY <2>8, Zenon DEF RecoverFiles, vars
  <2>9. CASE RecoverComplete
    BY <2>9, Zenon DEF RecoverComplete, vars
  <2> QED
    BY <2>1, <2>2, <2>3, <2>4, <2>5, <2>6, <2>7, <2>8, <2>9, <1>3 DEF AddStep, RecoveryStep
<1>4. CASE UNCHANGED removalVars
  BY <1>4 DEF removalVars, vars
<1> QED
  BY <1>1, <1>2, <1>3, <1>4 DEF RemovalNext

\* Nor those of the checks.
LEMMA CheckTypesStep ==
  ASSUME TypeOK, UnusedAttempts, [RemovalNext]_removalVars
  PROVE  CheckTypes'
<1> USE DEF TypeOK, CheckTypes
<1>1. CASE UNCHANGED counting
  BY <1>1 DEF counting
<1>2. ASSUME NEW o \in Operations, Count(o) PROVE CheckTypes'
  BY <1>2 DEF Count
<1>3. ASSUME NEW x \in Operations, Discount(x) PROVE CheckTypes'
  BY <1>3 DEF Discount, CheckPlaces
<1>4. ASSUME NEW x \in Operations, Checks(x) PROVE CheckTypes'
  BY <1>4 DEF Checks, CheckAllFinished, OnAllDownloadsFinished, Read, CheckPlaces
<1>5. CASE Die
  BY <1>5 DEF Die, CheckPlaces
<1>6. ASSUME NEW j \in Attempts, JobNext(j) PROVE CheckTypes'
  BY <1>1, <1>3, <1>4, <1>6, EndStep, QuietStep DEF Quiet, Operations
<1>7. ASSUME NEW c \in Calls, CallNext(c) PROVE CheckTypes'
  BY <1>1, <1>2, <1>3, <1>4, <1>7, BeginStep, EndStep, QuietStep DEF Quiet, Operations
<1>8. CASE StartCall
  BY <1>2, <1>8, BeginStep
<1>9. ASSUME \/ SwapJob \/ SwapAttempt \/ Launch
             \/ \E c \in Calls : RemovalStep(c)
             \/ BeginAdd \/ AddStep \/ PrepareExplicitDownload \/ RecoveryStep
      PROVE  CheckTypes'
  BY <1>1, <1>9, QuietStep DEF Quiet
<1>10. CASE UNCHANGED removalVars
  BY <1>1, <1>10 DEF removalVars, vars
<1> QED
  BY <1>5, <1>6, <1>7, <1>8, <1>9, <1>10 DEF RemovalNext, Next

-----------------------------------------------------------------------------
(* The order of a removal *)

\* Every step of the controller, of the removal, of an import and of the recovery
\* keeps the order in which a removal works.
LEMMA OrderStep ==
  ASSUME TypeOK, RemovalTypeOK, RemovalOrder, [RemovalNext]_removalVars
  PROVE  RemovalOrder'
<1> USE DEF TypeOK, RemovalTypeOK, RemovalOrder, OldIsThere, Deciding, tombstone
<1>1. ASSUME UNCHANGED <<others, catalog, outside>> PROVE RemovalOrder'
  BY <1>1 DEF others, catalog, outside
<1>2. ASSUME NEW c \in Calls, CallNext(c), UNCHANGED <<catalog, outside>> PROVE RemovalOrder'
  <2>1. CASE PauseAll(c)
    BY <1>2, <2>1 DEF PauseAll, Goto, others, catalog, outside
  <2>2. CASE Call(c)
    BY <1>2, <2>2 DEF Call, Goto, others, catalog, outside
  <2>3. CASE TakeJob(c)
    BY <1>2, <2>3 DEF TakeJob, Goto, others, catalog, outside
  <2>4. CASE DropAttempt(c)
    BY <1>2, <2>4 DEF DropAttempt, Goto, others, catalog, outside
  <2>5. CASE StopJob(c)
    BY <1>2, <2>5 DEF StopJob, Goto, others, catalog, outside
  <2>6. CASE JoinJob(c)
    BY <1>2, <2>6 DEF JoinJob, Goto, others, catalog, outside
  <2>7. CASE Show(c)
    BY <1>2, <2>7 DEF Show, Goto, others, catalog, outside
  <2>8. CASE DeletePublished(c)
    BY <1>2, <2>8 DEF DeletePublished, Goto, others, catalog, outside
  <2>9. CASE DeletionRefused(c)
    BY <1>2, <2>9 DEF DeletionRefused, Goto, others, catalog, outside
  <2>10. CASE ReturnCall(c)
    BY <1>2, <2>10 DEF ReturnCall, Goto, others, catalog, outside
  <2>11. CASE EndCall(c)
    BY <1>2, <2>11 DEF EndCall, Goto, others, catalog, outside
  <2>12. CASE CheckAllFinished(c) \/ OnAllDownloadsFinished(c)
    BY <1>2, <2>12 DEF CheckAllFinished, OnAllDownloadsFinished, others, catalog, outside
  <2> QED
    BY <2>1, <2>2, <2>3, <2>4, <2>5, <2>6, <2>7, <2>8, <2>9, <2>10, <2>11, <2>12,
       <1>2 DEF CallNext
<1>3. ASSUME NEW c \in Calls, RemovalStep(c) PROVE RemovalOrder'
  <2>1. CASE Reserve(c)
    BY <2>1 DEF Reserve, Removal, Goto, vars, others, catalog, outside
  <2>2. CASE Record(c)
    BY <2>2 DEF Record, Removal, Goto, Fault, vars, others, catalog, outside
  <2>3. CASE StillInUse(c)
    BY <2>3 DEF StillInUse, Removal, Goto, vars, others, catalog, outside
  <2>4. CASE RemoveDefinition(c)
    BY <2>4 DEF RemoveDefinition, Removal, Goto, Fault, StoreIsFree, vars, others, catalog, outside
  <2>5. CASE DeleteFiles(c)
    BY <2>5 DEF DeleteFiles, Removal, Goto, Fault, vars, others, catalog, outside
  <2>6. CASE MarkComplete(c)
    BY <2>6 DEF MarkComplete, Removal, Goto, Fault, Completed, vars, others, catalog, outside
  <2>7. CASE Unreserve(c)
    BY <2>7 DEF Unreserve, Removal, Goto, vars, others, catalog, outside
  <2> QED
    BY <2>1, <2>2, <2>3, <2>4, <2>5, <2>6, <2>7, <1>3 DEF RemovalStep
<1>4. ASSUME BeginAdd \/ AddStep \/ PrepareExplicitDownload \/ Die \/ RecoveryStep
      PROVE  RemovalOrder'
  <2>1. CASE BeginAdd
    BY <2>1 DEF BeginAdd, vars, others, catalog, outside
  <2>2. CASE WriteDefinition
    BY <2>2 DEF WriteDefinition, Fault, vars, others, catalog, outside
  <2>3. CASE ClearRecord
    BY <2>3 DEF ClearRecord, Fault, vars, others, catalog, outside
  <2>4. CASE PrepareExplicitDownload
    BY <2>4 DEF PrepareExplicitDownload, vars, others, catalog, outside
  <2>5. CASE Die
    BY <2>5 DEF Die, vars, others, catalog, outside
  <2>6. CASE Recover
    BY <2>6 DEF Recover, Recovery, StoreIsFree, vars, others, catalog, outside
  <2>7. CASE RecoverDefinition
    BY <2>7 DEF RecoverDefinition, Recovery, Fault, StoreIsFree, vars, others, catalog, outside
  <2>8. CASE RecoverFiles
    BY <2>8 DEF RecoverFiles, Recovery, Fault, vars, others, catalog, outside
  <2>9. CASE RecoverComplete
    BY <2>9 DEF RecoverComplete, Recovery, Fault, Completed, vars, others, catalog, outside
  <2> QED
    BY <2>1, <2>2, <2>3, <2>4, <2>5, <2>6, <2>7, <2>8, <2>9, <1>4 DEF AddStep, RecoveryStep
<1>5. CASE UNCHANGED removalVars
  BY <1>1, <1>5 DEF removalVars, vars
<1> QED
  BY <1>1, <1>2, <1>3, <1>4, <1>5, DownloadsLeaveCalls DEF RemovalNext, Next

-----------------------------------------------------------------------------
(* The invariant and what follows from it *)

\* At the start nothing is under way, and the old definition is stored.
LEMMA InvInit == RemovalInit => Inv
<1> SUFFICES ASSUME RemovalInit PROVE Inv
  OBVIOUS
<1> USE DEF RemovalInit, Init
<1>1. JobTypes
  BY DownloadAssumption DEF JobTypes, None, Statuses, JobPlaces
<1>2. PlaceTypes /\ pendingOperationsCount \in Nat
  BY RemovalAssumption DEF PlaceTypes, CallPlaces
<1>3. FlagTypes
  BY DEF FlagTypes
<1>4. PendingJobs = {} /\ CountedCalls = {}
  BY DEF PendingJobs, CountedCalls, Counted
<1>5. CountInv
  BY <1>4, FS_EmptySet DEF CountInv, LeastCount, UnusedAttempts
<1>6. RemovalOrder
  BY DEF RemovalOrder, OldIsThere, Deciding
<1>7. CheckTypes /\ OnlyNewcomersOverlooked
  BY DEF CheckTypes, CheckPlaces, OnlyNewcomersOverlooked, Passed
<1> QED
  BY <1>1, <1>2, <1>3, <1>5, <1>6, <1>7, TypeParts DEF Inv

\* The invariant is inductive.
LEMMA InvNext == Inv /\ [RemovalNext]_removalVars => Inv'
<1> SUFFICES ASSUME Inv, [RemovalNext]_removalVars PROVE Inv'
  OBVIOUS
<1>1. CountInv' /\ pendingOperationsCount' \in Nat
  BY CountStep DEF Inv
<1>2. JobTypes' /\ PlaceTypes' /\ FlagTypes' /\ CheckTypes'
  BY JobTypesStep, PlaceTypesStep, FlagTypesStep, CheckTypesStep, TypeParts DEF Inv, CountInv
<1>3. TypeOK' /\ RemovalTypeOK'
  BY <1>1, <1>2 DEF TypeOK, RemovalTypeOK, JobTypes, PlaceTypes, FlagTypes, CheckTypes
<1>4. RemovalOrder' /\ OnlyNewcomersOverlooked'
  BY OrderStep, OverlookStep DEF Inv
<1> QED
  BY <1>1, <1>3, <1>4 DEF Inv

\* The strengthened invariant of removal holds in every state that it reaches.
THEOREM Invariance == RemovalSpec => []Inv
  BY InvInit, InvNext, PTL DEF RemovalSpec

\* Every variable of the downloads and of the removal has its type.
THEOREM TypeCorrect == RemovalSpec => [](TypeOK /\ RemovalTypeOK)
<1>1. Inv => TypeOK /\ RemovalTypeOK
  BY DEF Inv
<1> QED
  BY <1>1, Invariance, PTL

\* A check that may let the foreground service stop overlooks only operations that
\* began after it read the count, for any number of starts and calls.
THEOREM StopIsSafe == RemovalSpec => []OnlyNewcomersOverlooked
<1>1. Inv => OnlyNewcomersOverlooked
  BY DEF Inv
<1> QED
  BY <1>1, Invariance, PTL

\* A removal recorded as complete has removed the definition it was asked to
\* remove, whatever failed, died, was recovered or was added in between.
THEOREM CompletedIsRemoved == RemovalSpec => []CompletedMeansRemoved
<1>1. Inv => CompletedMeansRemoved
  BY DEF Inv, RemovalOrder, OldIsThere, CompletedMeansRemoved
<1> QED
  BY <1>1, Invariance, PTL

\* The definition leaves the store only under a pending record.
LEMMA DefinitionGoesUnderRecord ==
  ASSUME Inv, [RemovalNext]_removalVars, definition = "old", definition' = "none"
  PROVE  record = "pending"
<1> USE DEF Inv, RemovalOrder, OldIsThere, Deciding
<1>1. CASE UNCHANGED <<catalog, outside>>
  BY <1>1 DEF catalog
<1>2. ASSUME NEW c \in Calls, RemovalStep(c) PROVE record = "pending"
  BY <1>2 DEF RemovalStep, Reserve, Record, StillInUse, RemoveDefinition, DeleteFiles,
       MarkComplete, Unreserve, Removal, Goto, catalog
<1>3. ASSUME BeginAdd \/ AddStep \/ PrepareExplicitDownload PROVE record = "pending"
  BY <1>3 DEF BeginAdd, AddStep, WriteDefinition, ClearRecord, PrepareExplicitDownload, catalog
<1>4. ASSUME Die \/ RecoveryStep PROVE record = "pending"
  BY <1>4 DEF Die, RecoveryStep, Recover, RecoverDefinition, RecoverFiles, RecoverComplete,
       Recovery, catalog
<1> QED
  BY <1>1, <1>2, <1>3, <1>4 DEF RemovalNext, removalVars

\* The published files of a stored model are deleted only under a pending record.
LEMMA FilesGoUnderRecord ==
  ASSUME Inv, [RemovalNext]_removalVars, definition = "old", published, ~published'
  PROVE  record = "pending"
<1> USE DEF Inv, RemovalOrder, OldIsThere, Deciding, snapshot
<1>1. ASSUME StartCall \/ SwapJob \/ SwapAttempt \/ Launch PROVE record = "pending"
  BY <1>1 DEF StartCall, SwapJob, SwapAttempt, Launch
<1>2. ASSUME NEW j \in Attempts, JobNext(j) PROVE record = "pending"
  BY <1>2 DEF JobNext, NeverRuns, Run, Join, Begin, BeginOffline, BeginRefused, BackOff,
       TestAttempt, ShowProgress, Publish, TransferFails, NoticeCancellation, EndTransfer,
       Finally, ForgetAttempt, ForgetJob, Release, Complete, CheckAllFinished,
       OnAllDownloadsFinished
<1>3. ASSUME NEW c \in Calls, CallNext(c) PROVE record = "pending"
  BY <1>3 DEF CallNext, PauseAll, Call, TakeJob, DropAttempt, StopJob, JoinJob, Show,
       DeletePublished, DeletionRefused, EndCall, ReturnCall, CheckAllFinished,
           OnAllDownloadsFinished, Goto
<1>4. ASSUME NEW c \in Calls, RemovalStep(c) PROVE record = "pending"
  BY <1>4 DEF RemovalStep, Reserve, Record, StillInUse, RemoveDefinition, DeleteFiles,
       MarkComplete, Unreserve, Removal, Goto
<1>5. ASSUME BeginAdd \/ AddStep \/ PrepareExplicitDownload PROVE record = "pending"
  BY <1>5 DEF BeginAdd, AddStep, WriteDefinition, ClearRecord, PrepareExplicitDownload, vars
<1>6. ASSUME Die \/ RecoveryStep PROVE record = "pending"
  BY <1>6 DEF Die, RecoveryStep, Recover, RecoverDefinition, RecoverFiles, RecoverComplete,
       Recovery, vars
<1>7. CASE UNCHANGED removalVars
  BY <1>7 DEF removalVars, vars
<1> QED
  BY <1>1, <1>2, <1>3, <1>4, <1>5, <1>6, <1>7 DEF RemovalNext, Next

\* Whatever a removal or a recovery destroys of the model it was asked for, it
\* destroys while its record is pending, so that it can be finished.
THEOREM DestructionIsRecorded == RemovalSpec => DestroyedUnderRecord
<1>1. Inv /\ [RemovalNext]_removalVars =>
        [definition = "old" /\ (definition' = "none" \/ (published /\ ~published'))
           => record = "pending"]_removalVars
  BY DefinitionGoesUnderRecord, FilesGoUnderRecord
<1> QED
  BY <1>1, Invariance, PTL DEF RemovalSpec, DestroyedUnderRecord

-----------------------------------------------------------------------------
(* Who waits for whom                                                       *)

\* A job replaces an older one, and only the job of the start under way is lazy.
ChainInv ==
  /\ \A j \in Attempts :
       /\ previousJob[j] # None => previousJob[j] < j /\ job[previousJob[j]] # "none"
       /\ job[j] = "lazy" => starting \in {"attempt", "launch"} /\ attemptCounter = j
  /\ activeJobs # None => job[activeJobs] # "none"
  /\ \A c \in Calls : taken[c] # None => job[taken[c]] # "none"

\* A step that makes no job, and none lazy.
Kept ==
  /\ \A j \in Attempts : job'[j] \in {"none", "lazy"} => job[j] = job'[j]
  /\ UNCHANGED starter
  /\ activeJobs' \in {activeJobs, None}
  /\ \A c \in Calls : taken'[c] \in {taken[c], activeJobs, None}

\* Such steps keep the chain of jobs.
LEMMA KeptChain == ASSUME TypeOK, TypeOK', ChainInv, Kept PROVE ChainInv'
<1> USE DEF TypeOK, None, Attempts
<1>1. ASSUME NEW j \in Attempts
      PROVE  /\ previousJob'[j] # None => previousJob'[j] < j /\ job'[previousJob'[j]] # "none"
             /\ job'[j] = "lazy" => starting' \in {"attempt", "launch"} /\ attemptCounter' = j
  BY DEF ChainInv, Kept, starter
<1>2. activeJobs' # None => job'[activeJobs'] # "none"
  BY DEF ChainInv, Kept
<1>3. ASSUME NEW c \in Calls, taken'[c] # None PROVE job'[taken'[c]] # "none"
  <2>1. taken'[c] \in Attempts /\ taken[c] \in Attempts \cup {None}
    BY <1>3
  <2>2. taken'[c] \in {taken[c], activeJobs}
    BY <1>3 DEF Kept
  <2> QED
    BY <1>3, <2>1, <2>2 DEF ChainInv, Kept
<1> QED
  BY <1>1, <1>2, <1>3 DEF ChainInv

\* All but the starts and the death are such steps.
LEMMA KeptStep ==
  ASSUME TypeOK,
         \/ \E j \in Attempts : JobNext(j)
         \/ \E c \in Calls : CallNext(c) \/ RemovalStep(c)
         \/ BeginAdd \/ AddStep \/ PrepareExplicitDownload \/ RecoveryStep
  PROVE  Kept
<1> USE DEF TypeOK, Kept, starter, others, maps, tombstone, vars, controller, outside
<1>1. ASSUME NEW j \in Attempts, JobNext(j) PROVE Kept
  <2>1. CASE NeverRuns(j)
    BY <2>1 DEF NeverRuns, JobStep
  <2>2. CASE Run(j)
    BY <2>2 DEF Run, JobStep
  <2>3. CASE Join(j)
    BY <2>3 DEF Join, JobStep
  <2>4. CASE Begin(j)
    BY <2>4 DEF Begin, JobStep
  <2>5. CASE BeginOffline(j)
    BY <2>5 DEF BeginOffline, JobStep
  <2>6. CASE BeginRefused(j)
    BY <2>6 DEF BeginRefused, JobStep
  <2>7. CASE BackOff(j)
    BY <2>7 DEF BackOff, JobStep
  <2>8. CASE TestAttempt(j)
    BY <2>8 DEF TestAttempt, JobStep
  <2>9. CASE ShowProgress(j)
    BY <2>9 DEF ShowProgress, JobStep
  <2>10. CASE Publish(j)
    BY <2>10 DEF Publish, JobStep
  <2>11. CASE TransferFails(j)
    BY <2>11 DEF TransferFails, JobStep
  <2>12. CASE NoticeCancellation(j)
    BY <2>12 DEF NoticeCancellation, JobStep
  <2>13. CASE EndTransfer(j)
    BY <2>13 DEF EndTransfer, JobStep
  <2>14. CASE Finally(j)
    BY <2>14 DEF Finally, JobStep
  <2>15. CASE ForgetAttempt(j)
    BY <2>15 DEF ForgetAttempt, JobStep
  <2>16. CASE ForgetJob(j)
    BY <2>16 DEF ForgetJob, JobStep
  <2>17. CASE Release(j)
    BY <2>17 DEF Release, JobStep
  <2>18. CASE Complete(j)
    BY <2>18 DEF Complete, JobStep
  <2>19. CASE CheckAllFinished(j) \/ OnAllDownloadsFinished(j)
    BY <2>19 DEF CheckAllFinished, OnAllDownloadsFinished
  <2> QED
    BY <1>1, <2>1, <2>2, <2>3, <2>4, <2>5, <2>6, <2>7, <2>8, <2>9, <2>10, <2>11,
       <2>12, <2>13, <2>14, <2>15, <2>16, <2>17, <2>18, <2>19 DEF JobNext
<1>2. ASSUME NEW c \in Calls, CallNext(c) PROVE Kept
  <2>1. CASE PauseAll(c)
    BY <2>1 DEF PauseAll, Goto
  <2>2. CASE Call(c)
    BY <2>2 DEF Call, Goto
  <2>3. CASE TakeJob(c)
    BY <2>3 DEF TakeJob, Goto
  <2>4. CASE DropAttempt(c)
    BY <2>4 DEF DropAttempt, Goto
  <2>5. CASE StopJob(c)
    BY <2>5 DEF StopJob, Goto
  <2>6. CASE JoinJob(c)
    BY <2>6 DEF JoinJob, Goto
  <2>7. CASE Show(c)
    BY <2>7 DEF Show, Goto
  <2>8. CASE DeletePublished(c)
    BY <2>8 DEF DeletePublished, Goto
  <2>9. CASE DeletionRefused(c)
    BY <2>9 DEF DeletionRefused, Goto
  <2>10. CASE ReturnCall(c)
    BY <2>10 DEF ReturnCall, Goto
  <2>11. CASE EndCall(c)
    BY <2>11 DEF EndCall, Goto
  <2>12. CASE CheckAllFinished(c) \/ OnAllDownloadsFinished(c)
    BY <2>12 DEF CheckAllFinished, OnAllDownloadsFinished
  <2> QED
    BY <1>2, <2>1, <2>2, <2>3, <2>4, <2>5, <2>6, <2>7, <2>8, <2>9, <2>10, <2>11,
       <2>12 DEF CallNext
<1>3. ASSUME NEW c \in Calls, RemovalStep(c) PROVE Kept
  <2>1. CASE Reserve(c)
    BY <2>1 DEF Reserve, Goto, Removal
  <2>2. CASE Record(c)
    BY <2>2 DEF Record, Goto, Removal
  <2>3. CASE StillInUse(c)
    BY <2>3 DEF StillInUse, Goto, Removal
  <2>4. CASE RemoveDefinition(c)
    BY <2>4 DEF RemoveDefinition, Goto, Removal
  <2>5. CASE DeleteFiles(c)
    BY <2>5 DEF DeleteFiles, Goto, Removal
  <2>6. CASE MarkComplete(c)
    BY <2>6 DEF MarkComplete, Goto, Removal
  <2>7. CASE Unreserve(c)
    BY <2>7 DEF Unreserve, Goto, Removal
  <2> QED
    BY <1>3, <2>1, <2>2, <2>3, <2>4, <2>5, <2>6, <2>7 DEF RemovalStep
<1>4. ASSUME BeginAdd \/ AddStep \/ PrepareExplicitDownload \/ RecoveryStep PROVE Kept
  <2>1. CASE BeginAdd
    BY <2>1 DEF BeginAdd, Recovery
  <2>2. CASE WriteDefinition
    BY <2>2 DEF WriteDefinition, Recovery
  <2>3. CASE ClearRecord
    BY <2>3 DEF ClearRecord, Recovery
  <2>4. CASE PrepareExplicitDownload
    BY <2>4 DEF PrepareExplicitDownload, Recovery
  <2>5. CASE Recover
    BY <2>5 DEF Recover, Recovery
  <2>6. CASE RecoverDefinition
    BY <2>6 DEF RecoverDefinition, Recovery
  <2>7. CASE RecoverFiles
    BY <2>7 DEF RecoverFiles, Recovery
  <2>8. CASE RecoverComplete
    BY <2>8 DEF RecoverComplete, Recovery
  <2> QED
    BY <1>4, <2>1, <2>2, <2>3, <2>4, <2>5, <2>6, <2>7, <2>8 DEF AddStep, RecoveryStep
<1> QED
  BY <1>1, <1>2, <1>3, <1>4

\* A start links its job to an older one; every other step keeps the links.
LEMMA ChainStep ==
  ASSUME TypeOK, TypeOK', UnusedAttempts, ChainInv, [RemovalNext]_removalVars
  PROVE  ChainInv'
<1>1. CASE \/ \E j \in Attempts : JobNext(j)
           \/ \E c \in Calls : CallNext(c) \/ RemovalStep(c)
           \/ BeginAdd \/ AddStep \/ PrepareExplicitDownload \/ RecoveryStep
  BY <1>1, KeptStep, KeptChain
<1>2. CASE StartCall
  <2>1. /\ UNCHANGED <<activeJobs, previousJob, job, taken>>
        /\ starting = "idle"
    BY <1>2 DEF StartCall, maps, others
  <2> QED
    BY <2>1 DEF ChainInv
<1>3. CASE SwapJob
  <2> DEFINE a == attemptCounter
  <2> USE DEF TypeOK, None, Attempts
  <2>1. /\ a \in Attempts /\ job[a] = "none"
        /\ previousJob' = [previousJob EXCEPT ![a] = activeJobs]
        /\ job' = [job EXCEPT ![a] = "lazy"]
        /\ activeJobs' = a /\ starting' = "attempt" /\ attemptCounter' = a /\ UNCHANGED taken
    BY <1>3 DEF SwapJob, UnusedAttempts, others
  <2>2. activeJobs # None => activeJobs < a /\ job[activeJobs] # "none"
    BY <1>3 DEF SwapJob, UnusedAttempts, ChainInv
  <2>3. \A j \in Attempts : job[j] # "none" => j # a /\ job'[j] = job[j]
    BY <2>1
  <2>4. job'[a] = "lazy"
    BY <2>1
  <2>5. ASSUME NEW j \in Attempts, previousJob'[j] # None
        PROVE  previousJob'[j] < j /\ job'[previousJob'[j]] # "none"
    <3>1. CASE j = a
      <4>1. previousJob'[j] = activeJobs
        BY <2>1, <3>1
      <4> QED
        BY <2>2, <2>3, <2>5, <3>1, <4>1
    <3>2. CASE j # a
      <4>1. previousJob'[j] = previousJob[j] /\ previousJob[j] \in Attempts
        BY <2>1, <2>5, <3>2
      <4>2. previousJob[j] < j /\ job[previousJob[j]] # "none"
        BY <2>5, <4>1 DEF ChainInv
      <4> QED
        BY <2>3, <4>1, <4>2
    <3> QED
      BY <3>1, <3>2
  <2>6. ASSUME NEW j \in Attempts, job'[j] = "lazy"
        PROVE  starting' \in {"attempt", "launch"} /\ attemptCounter' = j
    <3>1. j # a => job[j] = "lazy"
      BY <2>1, <2>6
    <3>2. job[j] # "lazy"
      BY <1>3 DEF SwapJob, ChainInv
    <3> QED
      BY <2>1, <3>1, <3>2
  <2>7. ASSUME NEW c \in Calls, taken'[c] # None PROVE job'[taken'[c]] # "none"
    <3>1. taken[c] \in Attempts /\ job[taken[c]] # "none"
      BY <2>1, <2>7 DEF ChainInv
    <3> QED
      BY <2>1, <2>3, <3>1
  <2> HIDE DEF a
  <2> QED
    BY <2>1, <2>4, <2>5, <2>6, <2>7 DEF ChainInv
<1>4. CASE SwapAttempt
  <2>1. /\ UNCHANGED <<activeJobs, previousJob, job, taken, attemptCounter>>
        /\ starting' = "launch"
    BY <1>4 DEF SwapAttempt, others
  <2> QED
    BY <2>1 DEF ChainInv
<1>5. CASE Launch
  <2>1. /\ UNCHANGED <<activeJobs, previousJob, taken>>
        /\ \A j \in Attempts :
             job'[j] = IF j = attemptCounter /\ job[j] = "lazy" THEN "dispatched" ELSE job[j]
    BY <1>5 DEF Launch, maps, others, TypeOK
  <2>2. \A j \in Attempts : job'[j] # "lazy" /\ (job[j] # "none" => job'[j] # "none")
    BY <2>1 DEF ChainInv
  <2> QED
    BY <2>1, <2>2 DEF ChainInv, TypeOK
<1>6. CASE Die
  <2>1. /\ activeJobs' = None
        /\ \A j \in Attempts : previousJob'[j] = None /\ job'[j] \in {"none", "completed"}
        /\ \A c \in Calls : taken'[c] = None
    BY <1>6 DEF Die
  <2> QED
    BY <2>1 DEF ChainInv
<1>7. CASE UNCHANGED removalVars
  BY <1>7 DEF removalVars, vars, maps, starter, others, ChainInv
<1> QED
  BY <1>1, <1>2, <1>3, <1>4, <1>5, <1>6, <1>7 DEF RemovalNext, Next, removalVars

\* The jobs are linked to older ones from the start.
LEMMA ChainInvariant == RemovalSpec => [](Inv /\ ChainInv)
<1>1. RemovalInit => ChainInv
  BY DEF RemovalInit, Init, ChainInv
<1>2. Inv /\ Inv' /\ ChainInv /\ [RemovalNext]_removalVars => ChainInv'
  BY ChainStep DEF Inv, CountInv
<1> QED
  BY <1>1, <1>2, Invariance, PTL DEF RemovalSpec

\* Some number of a set is the least: the intervals from 1 to them are finite sets,
\* whose inclusion is well-founded.
LEMMA LeastNumber ==
  ASSUME NEW S, S \subseteq Nat, S # {}
  PROVE  \E x \in S : \A y \in S : x <= y
<1> DEFINE T == {1 .. x : x \in S}
<1>1. \A x \in Nat : 1 .. x \in FiniteSubsetsOf(Nat)
  <2> SUFFICES ASSUME NEW x \in Nat PROVE 1 .. x \in FiniteSubsetsOf(Nat)
    OBVIOUS
  <2>1. IsFiniteSet(1 .. x)
    BY FS_Interval
  <2> QED
    BY <2>1 DEF FiniteSubsetsOf
<1>2. T \subseteq FiniteSubsetsOf(Nat) /\ T # {}
  BY <1>1
<1>3. PICK X \in T : \A Y \in T : ~ (<<Y, X>> \in StrictSubsetOrdering(Nat))
  <2> HIDE DEF T
  <2> QED
    BY <1>2, FS_StrictSubsetOrderingWellFounded, WFMin, Zenon
<1>4. PICK x \in S : X = 1 .. x
  BY <1>3
<1>5. \A y \in S : x <= y
  <2> SUFFICES ASSUME NEW y \in S, y < x PROVE FALSE
    OBVIOUS
  <2>1. 1 .. y \subseteq 1 .. x /\ x \in 1 .. x /\ x \notin 1 .. y
    OBVIOUS
  <2>2. <<1 .. y, 1 .. x>> \in StrictSubsetOrdering(Nat)
    BY <2>1 DEF StrictSubsetOrdering
  <2> QED
    BY <1>3, <1>4, <2>2
<1> QED
  BY <1>5

\* Where a job, or a call, stands still until another job has ended.
JobWaits(j) == job[j] = "join" /\ Live(previousJob[j]) /\ j \notin cancelled
CallWaits(c) == pc[c] = "join" /\ Live(taken[c])

JobGoesOn(j) == job[j] \notin {"none", "lazy", "completed"} /\ ~JobWaits(j)

\* As long as a job is made, or a call under way, the thread inside start, a job or
\* a call can go on: a job waits for the one it replaced, which may wait itself, a
\* call for the one it took out.
SomeoneGoesOn ==
  (\E j \in Attempts : job[j] # "none" /\ Live(j)) \/ (\E c \in Calls : Counted(c)) =>
    \/ starting # "idle"
    \/ \E j \in Attempts : JobGoesOn(j)
    \/ \E c \in Calls : Counted(c) /\ ~CallWaits(c)

\* Downloads, pauses and removals of a model never all wait, for any number of them:
\* the oldest job that is left goes on.
THEOREM NobodyIsStuck == RemovalSpec => []SomeoneGoesOn
<1> USE DEF None, Attempts
<1>1. ASSUME TypeOK, ChainInv, NEW q \in Attempts, job[q] # "none", Live(q)
      PROVE  starting # "idle" \/ \E j \in Attempts : JobGoesOn(j)
  <2> DEFINE S == {p \in Attempts : job[p] # "none" /\ Live(p)}
  <2>1. S \subseteq Nat /\ S # {}
    BY <1>1
  <2>2. PICK j \in S : \A p \in S : j <= p
    <3> HIDE DEF S
    <3> QED
      BY <2>1, LeastNumber
  <2>3. ~JobWaits(j)
    <3> SUFFICES ASSUME JobWaits(j) PROVE FALSE
      OBVIOUS
    <3>1. previousJob[j] \in Attempts /\ Live(previousJob[j])
      BY <1>1, <2>2 DEF JobWaits, Live, TypeOK
    <3>2. previousJob[j] < j /\ job[previousJob[j]] # "none"
      BY <1>1, <2>2, <3>1 DEF ChainInv
    <3>3. previousJob[j] \in S
      BY <3>1, <3>2
    <3> QED
      BY <2>2, <3>1, <3>2, <3>3
  <2>4. job[j] = "lazy" => starting # "idle"
    BY <1>1, <2>2 DEF ChainInv
  <2> QED
    BY <2>2, <2>3, <2>4 DEF JobGoesOn, Live
<1>2. ASSUME TypeOK, ChainInv, NEW c \in Calls, Counted(c), CallWaits(c)
      PROVE  taken[c] \in Attempts /\ job[taken[c]] # "none" /\ Live(taken[c])
  BY <1>2 DEF CallWaits, Live, ChainInv, TypeOK
<1>3. TypeOK /\ ChainInv => SomeoneGoesOn
  BY <1>1, <1>2 DEF SomeoneGoesOn
<1>4. Inv /\ ChainInv => SomeoneGoesOn
  BY <1>3 DEF Inv
<1> QED
  BY <1>4, ChainInvariant, PTL
===============================================================================
