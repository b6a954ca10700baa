--------------------------- MODULE DownloadController --------------------------
(***************************************************************************)
(* services/DownloadController.kt for one model: calls of start, each with  *)
(* an attempt and a job of its own, and of pause, cancelDownload,           *)
(* removeModel and pauseAllRetainingStaging, all running beside each other. *)
(*                                                                          *)
(* start swaps its job in under a monitor, but the other calls and a job's  *)
(* finally take entries out of the two maps without it: each access of a    *)
(* map is a step.  The sections under the model's mutex read and write      *)
(* nothing that another section could see half done and are one step each;  *)
(* a cancelled coroutine that finds the mutex taken leaves its section out. *)
(* An operation that ends reads the count and the collections one by one    *)
(* and tells the service, which reads them again and stops; that a service  *)
(* which is destroyed pauses what is active is a call of pauseAll.          *)
(* Journals and partial files are not modelled; a downloader publishes its  *)
(* file, fails, or notices that its job was cancelled.  removeModel is      *)
(* called in the middle of a removal, the rest of which is ModelRemoval.    *)
(***************************************************************************)
EXTENDS Naturals, FiniteSets

CONSTANTS
  MaxStarts,  \* bound: calls of start
  RemovalStarts,  \* bound: calls of start beside a removal
  Calls,      \* bound: calls of the other operations
  Kinds       \* what they may be: pause, cancel (deleting), retain, pauseAll, remove

ASSUME DownloadAssumption ==
  /\ MaxStarts \in Nat /\ RemovalStarts \in Nat /\ IsFiniteSet(Calls)
  /\ Kinds \subseteq {"pause", "cancel", "retain", "pauseAll", "remove"}

Attempts == 1 .. MaxStarts
Operations == Attempts \cup Calls
None == 0

VARIABLES
  activeJobs, activeAttempts,  \* the model's entries, or None
  pendingOperationsCount, cancellingJobs,
  check,                       \* [Operations -> where its checkAllFinished is, or none]
  newcomers,                   \* history: what was counted since it read a count of zero
  status,                      \* of the model's snapshot
  published,                   \* is its file in place?
  starting,                    \* where the thread that calls start is
  attemptCounter,
  previousJob,                 \* [Attempts -> Attempts or None]
  job,                         \* [Attempts -> where the job is]
  cancelled,                   \* the jobs that were cancelled
  pc, kind, taken,             \* of the other calls; taken is the job to join
  reserved,                    \* ModelRemovalCoordinator.reservedModelIds
  record                       \* its record of the model: none, pending or complete

maps == <<activeJobs, activeAttempts>>
counting == <<pendingOperationsCount, check, newcomers>>
snapshot == <<status, published>>
starter == <<starting, attemptCounter, previousJob>>
tombstone == <<reserved, record>>
others == <<pc, kind, taken, tombstone>>
vars == <<maps, counting, cancellingJobs, snapshot, starter, job, cancelled, others>>

Init ==
  /\ activeJobs = None /\ activeAttempts = None
  /\ pendingOperationsCount = 0 /\ cancellingJobs = {}
  /\ check = [x \in Operations |-> "none"] /\ newcomers = [x \in Operations |-> {}]
  /\ status = "NotDownloaded" /\ published = FALSE
  /\ starting = "idle" /\ attemptCounter = 0
  /\ previousJob = [j \in Attempts |-> None]
  /\ job = [j \in Attempts |-> "none"] /\ cancelled = {}
  /\ pc = [c \in Calls |-> "idle"] /\ kind \in [Calls -> Kinds]
  /\ taken = [c \in Calls |-> None]
  /\ reserved = FALSE /\ record = "none"

\* a job, if there is one, that has not completed
Live(j) == j # None /\ job[j] # "completed"
JobStep(j, from, to) == job[j] = from /\ job' = [job EXCEPT ![j] = to]
\* a call that is counted, and whose last section takes the mutex
Counted(c) == pc[c] \in {"first", "second", "stop", "join", "show", "return", "threw"}
Contended(j) ==
  \/ \E i \in Attempts \ {j} : job[i] \notin {"none", "completed"}
  \/ \E c \in Calls : Counted(c)
\* isReserved or isModelDeletionPendingOrCompleted
Withheld == reserved \/ record # "none"

\* A check that has read the count as zero, and goes on.
Passed(x) == check[x] \notin {"none", "count"}
\* The operation o is counted.
Count(o) ==
  /\ pendingOperationsCount' = pendingOperationsCount + 1 /\ UNCHANGED check
  /\ newcomers' = [x \in Operations |-> IF Passed(x) THEN newcomers[x] \cup {o} ELSE {}]
\* The operation x is not counted any more, and its check begins.
Discount(x) ==
  /\ pendingOperationsCount' = pendingOperationsCount - 1 /\ UNCHANGED newcomers
  /\ check' = [check EXCEPT ![x] = "count"]

-----------------------------------------------------------------------------
(* start, called by one thread *)

\* The bounds on starts are not reached.
MayStart ==
  /\ attemptCounter < MaxStarts
  /\ (\E c \in Calls : kind[c] = "remove") => attemptCounter < RemovalStarts

\* Mutant: the operation is counted only by the job, once it runs.
StartCallUncounted ==
  /\ starting = "idle" /\ MayStart
  /\ starting' = "swap" /\ attemptCounter' = attemptCounter + 1
  /\ UNCHANGED <<maps, counting, cancellingJobs, snapshot, previousJob, job,
                 cancelled, others>>

StartCall ==
  /\ starting = "idle" /\ MayStart
  /\ starting' = "swap" /\ attemptCounter' = attemptCounter + 1 /\ Count(attemptCounter + 1)
  /\ UNCHANGED <<maps, cancellingJobs, snapshot, previousJob, job, cancelled, others>>

\* Mutant: the previous job is read after the new one was put in.
SwapJobAndReadBack ==
  LET prev == activeJobs IN
  /\ starting = "swap" /\ starting' = "attempt"
  /\ previousJob' = [previousJob EXCEPT ![attemptCounter] = attemptCounter]
  /\ IF Live(prev)
       THEN cancellingJobs' = cancellingJobs \cup {prev} /\ cancelled' = cancelled \cup {prev}
       ELSE UNCHANGED <<cancellingJobs, cancelled>>
  /\ activeJobs' = attemptCounter
  /\ job' = [job EXCEPT ![attemptCounter] = "lazy"]
  /\ UNCHANGED <<activeAttempts, counting, snapshot, attemptCounter, others>>

SwapJob ==
  LET prev == activeJobs IN
  /\ starting = "swap" /\ starting' = "attempt"
  /\ previousJob' = [previousJob EXCEPT ![attemptCounter] = prev]
  /\ IF Live(prev)
       THEN cancellingJobs' = cancellingJobs \cup {prev} /\ cancelled' = cancelled \cup {prev}
       ELSE UNCHANGED <<cancellingJobs, cancelled>>
  /\ activeJobs' = attemptCounter
  /\ job' = [job EXCEPT ![attemptCounter] = "lazy"]
  /\ UNCHANGED <<activeAttempts, counting, snapshot, attemptCounter, others>>

SwapAttempt ==
  /\ starting = "attempt" /\ starting' = "launch"
  /\ activeAttempts' = attemptCounter
  /\ UNCHANGED <<activeJobs, counting, cancellingJobs, snapshot, attemptCounter,
                 previousJob, job, cancelled, others>>

Launch ==
  /\ starting = "launch" /\ starting' = "idle"
  /\ job' = [job EXCEPT ![attemptCounter] = IF @ = "lazy" THEN "dispatched" ELSE @]
  /\ UNCHANGED <<maps, counting, cancellingJobs, snapshot, attemptCounter,
                 previousJob, cancelled, others>>

-----------------------------------------------------------------------------
(* The job of attempt j *)

\* A job that is cancelled before it runs never runs, not even its finally.
NeverRuns(j) ==
  /\ j \in cancelled /\ job[j] \in {"lazy", "dispatched"}
  /\ job' = [job EXCEPT ![j] = "completed"]
  /\ UNCHANGED <<maps, counting, cancellingJobs, snapshot, starter, cancelled,
                 others>>

Run(j) ==
  /\ j \notin cancelled /\ JobStep(j, "dispatched", "join")
  /\ UNCHANGED <<maps, counting, cancellingJobs, snapshot, starter, cancelled,
                 others>>

\* runCatching { prev.join() }: the wait ends with the other job, or with the
\* cancellation of the job that waits.
Join(j) ==
  LET prev == previousJob[j] IN
  /\ JobStep(j, "join", "begin")
  /\ \/ /\ ~Live(prev)                          \* nothing to wait for
        /\ UNCHANGED cancellingJobs
     \/ /\ prev # None /\ (Live(prev) => j \in cancelled)
        /\ cancellingJobs' = cancellingJobs \ {prev}
  /\ UNCHANGED <<maps, counting, snapshot, starter, cancelled, others>>

Begin(j) ==
  /\ activeAttempts = j /\ ~Withheld /\ JobStep(j, "begin", "transfer")
  /\ status' = "Downloading"
  /\ UNCHANGED <<maps, counting, cancellingJobs, published, starter, cancelled,
                 others>>

\* No network: the attempt is taken back, the job's entry stays.
BeginOffline(j) ==
  /\ activeAttempts = j /\ ~Withheld /\ JobStep(j, "begin", "finally")
  /\ activeAttempts' = None /\ \E s \in {"Paused", "Failed"} : status' = s
  /\ UNCHANGED <<activeJobs, counting, cancellingJobs, published, starter, cancelled,
                 others>>

\* The model is being removed, or was: the attempt is taken back.
BackOff(j) ==
  /\ activeAttempts = j /\ Withheld
  /\ JobStep(j, "begin", "finally") \/ JobStep(j, "complete", "finally")
  /\ activeAttempts' = None
  /\ UNCHANGED <<activeJobs, counting, cancellingJobs, snapshot, starter, cancelled,
                 others>>

BeginRefused(j) ==
  /\ activeAttempts # j \/ (j \in cancelled /\ Contended(j))
  /\ JobStep(j, "begin", "finally")
  /\ UNCHANGED <<maps, counting, cancellingJobs, snapshot, starter, cancelled,
                 others>>

\* onProgress tests the attempt, and then writes.
TestAttempt(j) ==
  /\ activeAttempts = j /\ JobStep(j, "transfer", "progress")
  /\ UNCHANGED <<maps, counting, cancellingJobs, snapshot, starter, cancelled,
                 others>>

ShowProgress(j) ==
  /\ JobStep(j, "progress", "transfer") /\ status' = "Downloading"
  /\ UNCHANGED <<maps, counting, cancellingJobs, published, starter, cancelled,
                 others>>

Publish(j) ==
  /\ JobStep(j, "transfer", "complete") /\ published' = TRUE
  /\ UNCHANGED <<maps, counting, cancellingJobs, status, starter, cancelled, others>>

TransferFails(j) ==
  /\ JobStep(j, "transfer", "failed")
  /\ UNCHANGED <<maps, counting, cancellingJobs, snapshot, starter, cancelled,
                 others>>

NoticeCancellation(j) ==
  /\ j \in cancelled
  /\ JobStep(j, "transfer", "stopped") \/ (Contended(j) /\ JobStep(j, "complete", "stopped"))
  /\ UNCHANGED <<maps, counting, cancellingJobs, snapshot, starter, cancelled,
                 others>>

\* recoverPublishedDownload, or what the caller shows instead.
Recovered(otherwise) == IF status = "Available" \/ published THEN "Available" ELSE otherwise

\* The three sections that end a transfer show it for the current attempt only.
EndTransfer(j) ==
  /\ \/ JobStep(j, "complete", "finally")
     \/ JobStep(j, "stopped", "finally")
     \/ JobStep(j, "failed", "finally")
  /\ \/ /\ activeAttempts = j /\ ~(job[j] = "complete" /\ Withheld)
        /\ \E otherwise \in IF job[j] = "failed" THEN {"Paused", "Failed"} ELSE {"Paused"} :
             status' = IF job[j] = "complete" THEN "Available" ELSE Recovered(otherwise)
     \/ /\ activeAttempts # j \/ (j \in cancelled /\ Contended(j) /\ job[j] # "complete")
        /\ UNCHANGED status
  /\ UNCHANGED <<maps, counting, cancellingJobs, published, starter, cancelled,
                 others>>

\* finally tests the attempt and removes what is in the maps by then.
Finally(j) ==
  /\ JobStep(j, "finally", IF activeAttempts = j THEN "forget" ELSE "release")
  /\ UNCHANGED <<maps, counting, cancellingJobs, snapshot, starter, cancelled,
                 others>>

ForgetAttempt(j) ==
  /\ JobStep(j, "forget", "forgetJob") /\ activeAttempts' = None
  /\ UNCHANGED <<activeJobs, counting, cancellingJobs, snapshot, starter, cancelled,
                 others>>

ForgetJob(j) ==
  /\ JobStep(j, "forgetJob", "release") /\ activeJobs' = None
  /\ UNCHANGED <<activeAttempts, counting, cancellingJobs, snapshot, starter,
                 cancelled, others>>

Release(j) ==
  /\ JobStep(j, "release", "check") /\ Discount(j)
  /\ UNCHANGED <<maps, cancellingJobs, snapshot, starter, cancelled, others>>

Complete(j) ==
  /\ JobStep(j, "check", "completed") /\ check[j] = "none"
  /\ UNCHANGED <<maps, counting, cancellingJobs, snapshot, starter, cancelled, others>>

-----------------------------------------------------------------------------
(* pause, cancelDownload, removeModel and pauseAllRetainingStaging *)

Goto(c, from, to) == pc[c] = from /\ pc' = [pc EXCEPT ![c] = to]

PauseAll(c) ==
  /\ kind[c] = "pauseAll" /\ Goto(c, "idle", "done")
  /\ IF Live(activeJobs)
       THEN /\ cancellingJobs' = cancellingJobs \cup {activeJobs}
            /\ cancelled' = cancelled \cup {activeJobs}
       ELSE UNCHANGED <<cancellingJobs, cancelled>>
  /\ UNCHANGED <<maps, counting, snapshot, starter, job, kind, taken, tombstone>>

Call(c) ==
  /\ kind[c] # "pauseAll"
  /\ Goto(c, IF kind[c] = "remove" THEN "controller" ELSE "idle", "first")
  /\ Count(c)
  /\ UNCHANGED <<maps, cancellingJobs, snapshot, starter, job, cancelled, kind, taken, tombstone>>

\* pause takes the job out first, the others the attempt.
TakeJob(c) ==
  /\ IF kind[c] = "pause" THEN Goto(c, "first", "second") ELSE Goto(c, "second", "stop")
  /\ taken' = [taken EXCEPT ![c] = activeJobs] /\ activeJobs' = None
  /\ UNCHANGED <<activeAttempts, counting, cancellingJobs, snapshot, starter, job,
                 cancelled, kind, tombstone>>

DropAttempt(c) ==
  /\ IF kind[c] = "pause" THEN Goto(c, "second", "stop") ELSE Goto(c, "first", "second")
  /\ activeAttempts' = None
  /\ UNCHANGED <<activeJobs, counting, cancellingJobs, snapshot, starter, job,
                 cancelled, kind, taken, tombstone>>

StopJob(c) ==
  /\ IF Live(taken[c])
       THEN /\ Goto(c, "stop", "join")
            /\ cancellingJobs' = cancellingJobs \cup {taken[c]}
            /\ cancelled' = cancelled \cup {taken[c]}
       ELSE Goto(c, "stop", "show") /\ UNCHANGED <<cancellingJobs, cancelled>>
  /\ UNCHANGED <<maps, counting, snapshot, starter, job, kind, taken, tombstone>>

JoinJob(c) ==
  /\ Goto(c, "join", "show") /\ ~Live(taken[c])
  /\ cancellingJobs' = cancellingJobs \ {taken[c]}
  /\ UNCHANGED <<maps, counting, snapshot, starter, job, cancelled, kind, taken,
                 tombstone>>

Show(c) ==
  /\ kind[c] # "remove" /\ Goto(c, "show", "return")
  /\ status' = Recovered(IF kind[c] = "cancel" THEN "NotDownloaded" ELSE "Paused")
  /\ UNCHANGED <<maps, counting, cancellingJobs, published, starter, job, cancelled,
                 kind, taken, tombstone>>

\* removeModel deletes the published model.
DeletePublished(c) ==
  /\ kind[c] = "remove" /\ Goto(c, "show", "return")
  /\ published' = FALSE /\ status' = "NotDownloaded"
  /\ UNCHANGED <<maps, counting, cancellingJobs, starter, job, cancelled, kind, taken,
                 tombstone>>

\* It throws when inference does not end or the files are leased.
DeletionRefused(c) ==
  /\ kind[c] = "remove" /\ Goto(c, "show", "threw")
  /\ UNCHANGED <<maps, counting, cancellingJobs, snapshot, starter, job, cancelled,
                 kind, taken, tombstone>>

EndCall(c) ==
  /\ Goto(c, "return", "returned") \/ Goto(c, "threw", "rejected")
  /\ Discount(c)
  /\ UNCHANGED <<maps, cancellingJobs, snapshot, starter, job, cancelled, kind, taken, tombstone>>

ReturnCall(c) ==
  /\ check[c] = "none"
  /\ \/ kind[c] # "remove" /\ Goto(c, "returned", "done")
     \/ kind[c] = "remove" /\ Goto(c, "returned", "definition")
     \/ Goto(c, "rejected", "unreserve")
  /\ UNCHANGED <<maps, counting, cancellingJobs, snapshot, starter, job, cancelled, kind, taken,
                 tombstone>>

-----------------------------------------------------------------------------
(* checkAllFinished, after an operation x was counted down, and the listener *)

\* A read that does not find everything ended ends the check.
Read(x, from, ended, to) ==
  /\ check[x] = from
  /\ check' = [check EXCEPT ![x] = IF ended THEN to ELSE "none"]
  /\ newcomers' = [newcomers EXCEPT ![x] = IF ended /\ from \notin {"count", "recount"}
                                             THEN @ ELSE {}]

NothingCounted == pendingOperationsCount =< 0
NoneActive == ~Live(activeJobs)
NoneCancelling == \A j \in cancellingJobs : ~Live(j)

\* The listener is told, if a service listens.
CheckAllFinished(x) ==
  /\ \/ Read(x, "count", NothingCounted, "active")
     \/ Read(x, "active", NoneActive, "cancelling")
     \/ \E listening \in BOOLEAN :
          Read(x, "cancelling", NoneCancelling /\ listening, "recount")
  /\ UNCHANGED <<maps, pendingOperationsCount, cancellingJobs, snapshot, starter, job, cancelled,
                 others>>

\* onAllDownloadsFinished: hasActiveOrPendingOperations, and the foreground service stops.
OnAllDownloadsFinished(x) ==
  /\ \/ Read(x, "recount", NothingCounted, "active again")
     \/ Read(x, "active again", NoneActive, "cancelling again")
     \/ Read(x, "cancelling again", NoneCancelling, "stop")
     \/ Read(x, "stop", FALSE, "none")
  /\ UNCHANGED <<maps, pendingOperationsCount, cancellingJobs, snapshot, starter, job, cancelled,
                 others>>

-----------------------------------------------------------------------------

JobNext(j) ==
  \/ NeverRuns(j) \/ Run(j) \/ Join(j)
  \/ Begin(j) \/ BeginOffline(j) \/ BeginRefused(j) \/ BackOff(j)
  \/ TestAttempt(j) \/ ShowProgress(j) \/ Publish(j) \/ TransferFails(j) \/ NoticeCancellation(j)
  \/ EndTransfer(j) \/ Finally(j) \/ ForgetAttempt(j) \/ ForgetJob(j) \/ Release(j) \/ Complete(j)
  \/ CheckAllFinished(j) \/ OnAllDownloadsFinished(j)

CallNext(c) ==
  \/ PauseAll(c) \/ Call(c) \/ TakeJob(c) \/ DropAttempt(c) \/ StopJob(c) \/ JoinJob(c)
  \/ Show(c) \/ DeletePublished(c) \/ DeletionRefused(c) \/ EndCall(c) \/ ReturnCall(c)
  \/ CheckAllFinished(c) \/ OnAllDownloadsFinished(c)

Next ==
  \/ StartCall \/ SwapJob \/ SwapAttempt \/ Launch
  \/ \E j \in Attempts : JobNext(j)
  \/ \E c \in Calls : CallNext(c)

Spec == Init /\ [][Next]_vars

\* A thread inside a call goes on, a coroutine that can run is run, and a
\* transfer ends: it is finite, and a stalled connection times out.
Fairness ==
  /\ WF_vars(SwapJob \/ SwapAttempt \/ Launch)
  /\ \A j \in Attempts :
       /\ WF_vars(JobNext(j))
       /\ SF_vars(Publish(j) \/ TransferFails(j) \/ NoticeCancellation(j))
  /\ \A c \in Calls : WF_vars(pc[c] # "idle" /\ CallNext(c))

FairSpec == Spec /\ Fairness

-----------------------------------------------------------------------------

Statuses == {"NotDownloaded", "Downloading", "Paused", "Failed", "Available"}
JobPlaces ==
  {"none", "lazy", "dispatched", "join", "begin", "transfer", "progress", "complete", "stopped",
   "failed", "finally", "forget", "forgetJob", "release", "check", "completed"}
CallPlaces ==
  {"idle", "first", "second", "stop", "join", "show", "return", "threw", "returned", "rejected",
   "done"} \cup
  {"record", "controller", "definition", "files", "complete", "unreserve"}  \* of a removal
CheckPlaces ==
  {"none", "count", "active", "cancelling", "recount", "active again", "cancelling again", "stop"}

\* The type invariant: the two maps, the jobs, the calls and the status keep to
\* the places and values that the code knows.
TypeOK ==
  /\ activeJobs \in Attempts \cup {None} /\ activeAttempts \in Attempts \cup {None}
  /\ pendingOperationsCount \in Nat /\ cancellingJobs \subseteq Attempts
  /\ check \in [Operations -> CheckPlaces] /\ newcomers \in [Operations -> SUBSET Operations]
  /\ status \in Statuses /\ published \in BOOLEAN
  /\ starting \in {"idle", "swap", "attempt", "launch"}
  /\ attemptCounter \in 0 .. MaxStarts /\ (starting # "idle" => attemptCounter \in Attempts)
  /\ previousJob \in [Attempts -> Attempts \cup {None}]
  /\ job \in [Attempts -> JobPlaces] /\ cancelled \subseteq Attempts
  /\ pc \in [Calls -> CallPlaces] /\ kind \in [Calls -> Kinds]
  /\ taken \in [Calls -> Attempts \cup {None}]
  /\ reserved \in BOOLEAN /\ record \in {"none", "pending", "complete"}

\* The operations that were begun and are not counted down yet, and the jobs that
\* were never run, which are never counted down.
UnderWay ==
  {j \in Attempts :
     job[j] \notin {"none", "check", "completed"} \/ (starting = "swap" /\ j = attemptCounter)}
  \cup {c \in Calls : Counted(c)}

\* checkAllFinished and the listener read a counter and two collections one after
\* the other while starts, pauses and removals go on, and the last read lets the
\* foreground service stop.  All that such a check may overlook is what was begun
\* after it read the count: it stops nothing that was under way before.
OnlyNewcomersOverlooked == \A x \in Operations : Passed(x) => UnderWay \subseteq newcomers[x]

\* Jobs wait for the jobs they replace and calls wait for the jobs they take
\* out, which may be waiting themselves: every job and every call still ends.
EverythingEnds ==
  /\ \A j \in Attempts : job[j] = "dispatched" ~> ~Live(j)
  /\ \A c \in Calls : pc[c] = "first" ~> ~Counted(c)
===============================================================================
