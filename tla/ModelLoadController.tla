------------------------- MODULE ModelLoadController -------------------------
(***************************************************************************)
(* ai/ModelLoadController.kt: one model load at a time, superseded by newer *)
(* loads, cancelled by shutdown and reset requests, watched for stalls, and *)
(* published as a ModelLoadState.                                           *)
(*                                                                          *)
(* The controller's state is guarded by a suspending Mutex; a               *)
(* "mutex.withLock" section is one action, but for the one that publishes   *)
(* Ready: its test and its writes are two, with the mutex held between them *)
(* (job place "ready").  Progress is published under a different lock       *)
(* (progressLock), so a publication is two actions as well, and             *)
(* clearReadiness, which takes no lock, is one action per assignment.       *)
(*                                                                          *)
(* An operation is numbered in the order loadOrAttach creates it and stands *)
(* for everything made for it: its id, deferred, job, native control token, *)
(* watchdog and poller.  inFlightJob, inFlightDeferred and                  *)
(* activeCancellationAction are always set and cleared together: inFlight.  *)
(* A caller that finds its model ready, or attaches to the load in flight,  *)
(* changes nothing and is not an action.  The cancellation of the view      *)
(* model's scope (its end) is not modelled, nor is a clearReadiness that    *)
(* falls inside a locked section other than the one that publishes Ready.   *)
(***************************************************************************)
EXTENDS Naturals, FiniteSets

CONSTANTS
  Identities,   \* ModelLoadIdentity values
  Requests,     \* calls of cancelActiveOperation, resetToUnloaded, clearReadiness
  MaxOps,       \* bound: load operations that may be created
  MaxCalls,     \* bound: loads and requests in all
  Stalls,       \* bound: the operations that may last until a timeout
  Publications, \* bound: the operations that may publish progress
  None

ASSUME BoundsAssumption ==
  /\ MaxOps \in Nat /\ MaxCalls \in Nat
  /\ Stalls \subseteq 1..MaxOps /\ Publications \subseteq 1..MaxOps
  /\ None \notin Identities

Ops  == 1..MaxOps
NoOp == 0

VARIABLES
  loadState,        \* [kind, op]: the published ModelLoadState
  currentIdentity,  \* Identities \cup {None}
  currentOp,        \* currentOperationId, or NoOp
  currentEpoch,
  inFlight,         \* the operation in flight, or NoOp
  isShutdownStalled,
  epoch,            \* [Ops -> myEpoch]
  previous,         \* [Ops -> previousJob, or NoOp]
  job,              \* [Ops -> where the job is]
  cancelled,        \* [Ops -> was job.cancel() called?]
  timedOut,         \* [Ops -> has the watchdog given up on it?]
  watchdog,         \* [Ops -> where the watchdog coroutine is]
  deferred,         \* [Ops -> the callers' answer]
  token,            \* [Ops -> the native operation control]
  publisher,        \* [Ops -> is a publication between test and write?]
  request,          \* [Requests -> where the request is]
  target,           \* [Requests -> targetOperationId]
  captured,         \* [Requests -> the job the request waits for]
  reqEpoch          \* [Requests -> the request's epoch]

shared  == <<loadState, currentIdentity, currentOp, currentEpoch, inFlight,
             isShutdownStalled>>
perOp   == <<epoch, previous, job, cancelled, timedOut, watchdog, deferred,
             token, publisher>>
perReq  == <<request, target, captured, reqEpoch>>
vars    == <<loadState, currentIdentity, currentOp, currentEpoch, inFlight,
             isShutdownStalled, epoch, previous, job, cancelled, timedOut,
             watchdog, deferred, token, publisher, request, target, captured,
             reqEpoch>>

State(kind, op) == [kind |-> kind, op |-> op]

TypeOK ==
  /\ loadState \in [kind : {"Unloaded", "Loading", "Ready", "Stopping",
                            "Failed", "ShutdownStalled"}, op : Ops \cup {NoOp}]
  /\ currentIdentity \in Identities \cup {None}
  /\ currentOp \in Ops \cup {NoOp}
  /\ currentEpoch \in Nat
  /\ inFlight \in Ops \cup {NoOp}
  /\ isShutdownStalled \in BOOLEAN
  /\ epoch \in [Ops -> Nat]
  /\ previous \in [Ops -> Ops \cup {NoOp}]
  /\ job \in [Ops -> {"none", "new", "join", "check", "running", "returned",
                      "ready", "threw", "finally", "closing", "done"}]
  /\ cancelled \in [Ops -> BOOLEAN]
  /\ timedOut \in [Ops -> BOOLEAN]
  /\ watchdog \in [Ops -> {"off", "armed", "woken", "fired", "stopped"}]
  /\ deferred \in [Ops -> {"pending", "ok", "failed"}]
  /\ token \in [Ops -> {"none", "live", "released"}]
  /\ publisher \in [Ops -> {"idle", "called", "tested", "ticking"}]
  /\ request \in [Requests -> {"new", "cancel", "shutdown", "reset", "stopping",
                               "waiting", "clearing", "cleared", "over"}]
  /\ target \in [Requests -> Ops \cup {NoOp}]
  /\ captured \in [Requests -> Ops \cup {NoOp}]
  /\ reqEpoch \in [Requests -> Nat]

Init ==
  /\ loadState = State("Unloaded", NoOp)
  /\ currentIdentity = None
  /\ currentOp = NoOp
  /\ currentEpoch = 0
  /\ inFlight = NoOp
  /\ isShutdownStalled = FALSE
  /\ epoch = [o \in Ops |-> 0]
  /\ previous = [o \in Ops |-> NoOp]
  /\ job = [o \in Ops |-> "none"]
  /\ cancelled = [o \in Ops |-> FALSE]
  /\ timedOut = [o \in Ops |-> FALSE]
  /\ watchdog = [o \in Ops |-> "off"]
  /\ deferred = [o \in Ops |-> "pending"]
  /\ token = [o \in Ops |-> "none"]
  /\ publisher = [o \in Ops |-> "idle"]
  /\ request = [r \in Requests |-> "new"]
  /\ target = [r \in Requests |-> NoOp]
  /\ captured = [r \in Requests |-> NoOp]
  /\ reqEpoch = [r \in Requests |-> 0]

-----------------------------------------------------------------------------
IsCurrent(o) == currentOp = o /\ currentEpoch = epoch[o]
Completed(o) == IF o = NoOp THEN TRUE ELSE job[o] = "done"
MoveJob(o, here, there) == job[o] = here /\ job' = [job EXCEPT ![o] = there]

\* completeExceptionally on a deferred that may already have its answer
FailDeferred(o) ==
  deferred' = [d \in Ops |->
    IF d = o /\ deferred[d] = "pending" THEN "failed" ELSE deferred[d]]

CancelJob(o) == cancelled' = [c \in Ops |-> cancelled[c] \/ c = o]

\* A publication, or Ready, is meant for the operation's own, current load.
MayPublish(o) ==
  /\ IsCurrent(o) /\ ~timedOut[o]
  /\ loadState.kind \notin {"Stopping", "Failed"}

\* No job is between the test and the writes of Ready.
MutexFree == \A o \in Ops : job[o] # "ready"

\* The bound on calls is not reached.
MayCall ==
  Cardinality({o \in Ops : job[o] # "none"})
    + Cardinality({r \in Requests : request[r] # "new"}) < MaxCalls

-----------------------------------------------------------------------------
(* loadOrAttach                                                             *)

\* Mutant: the callers of the superseded load are not told.
LoadSilently(o, i) ==
  /\ MutexFree
  /\ MayCall
  /\ job[o] = "none" /\ (o > 1 => job[o - 1] # "none")
  /\ ~isShutdownStalled
  /\ CancelJob(inFlight)
  /\ currentEpoch' = currentEpoch + 1
  /\ epoch' = [epoch EXCEPT ![o] = currentEpoch + 1]
  /\ currentIdentity' = i
  /\ currentOp' = o
  /\ inFlight' = o
  /\ previous' = [previous EXCEPT ![o] = inFlight]
  /\ token' = [token EXCEPT ![o] = "live"]
  /\ loadState' = State("Loading", o)
  /\ job' = [job EXCEPT ![o] = "new"]
  /\ UNCHANGED <<isShutdownStalled, timedOut, watchdog, deferred, publisher,
                 perReq>>

\* A new operation; it supersedes the one in flight, if that still runs.
Load(o, i) ==
  LET superseded == IF Completed(inFlight) THEN NoOp ELSE inFlight IN
  /\ MutexFree
  /\ job[o] = "none" /\ (o > 1 => job[o - 1] # "none")
  /\ MayCall
  /\ ~isShutdownStalled
  /\ ~(loadState.kind = "Ready" /\ currentIdentity = i)
  /\ ~(currentIdentity = i /\ ~Completed(inFlight))
  /\ CancelJob(superseded)
  /\ FailDeferred(superseded)
  /\ currentEpoch' = currentEpoch + 1
  /\ epoch' = [epoch EXCEPT ![o] = currentEpoch + 1]
  /\ currentIdentity' = i
  /\ currentOp' = o
  /\ inFlight' = o
  /\ previous' = [previous EXCEPT ![o] = inFlight]
  /\ token' = [token EXCEPT ![o] = "live"]
  /\ loadState' = State("Loading", o)
  /\ job' = [job EXCEPT ![o] = "new"]
  /\ UNCHANGED <<isShutdownStalled, timedOut, watchdog, publisher, perReq>>

\* A job cancelled before it is dispatched never runs its body.
NeverRuns(o) ==
  /\ cancelled[o]
  /\ MoveJob(o, "new", "done")
  /\ UNCHANGED <<shared, epoch, previous, cancelled, timedOut, watchdog,
                 deferred, token, publisher, perReq>>

BeginJob(o) ==
  /\ MoveJob(o, "new", IF Completed(previous[o]) THEN "check" ELSE "join")
  /\ UNCHANGED <<shared, epoch, previous, cancelled, timedOut, watchdog,
                 deferred, token, publisher, perReq>>

\* previousJob.join() returns, or throws because this job was cancelled; the
\* exception is swallowed.
EndJoin(o) ==
  /\ Completed(previous[o]) \/ cancelled[o]
  /\ MoveJob(o, "join", "check")
  /\ UNCHANGED <<shared, epoch, previous, cancelled, timedOut, watchdog,
                 deferred, token, publisher, perReq>>

\* Mutant: a job does not ask whether it was superseded while it waited.
StartLoaderAnyway(o) ==
  /\ MutexFree
  /\ MoveJob(o, "check", "running")
  /\ watchdog' = [watchdog EXCEPT ![o] = "armed"]
  /\ UNCHANGED <<shared, epoch, previous, cancelled, timedOut, deferred, token,
                 publisher, perReq>>

StartLoader(o) ==
  /\ MutexFree
  /\ IsCurrent(o) /\ ~isShutdownStalled
  /\ MoveJob(o, "check", "running")
  /\ watchdog' = [watchdog EXCEPT ![o] = "armed"]
  /\ UNCHANGED <<shared, epoch, previous, cancelled, timedOut, deferred, token,
                 publisher, perReq>>

\* return@launch: the job ends without reaching the "finally".
SupersededBeforeStarting(o) ==
  /\ MutexFree
  /\ ~(IsCurrent(o) /\ ~isShutdownStalled)
  /\ MoveJob(o, "check", "done")
  /\ FailDeferred(o)
  /\ UNCHANGED <<shared, epoch, previous, cancelled, timedOut, watchdog, token,
                 publisher, perReq>>

\* A cancelled job that has to wait for the mutex is thrown out of it.
CancelledAtMutex(o) ==
  /\ cancelled[o]
  /\ \/ MoveJob(o, "check", "done")
     \/ MoveJob(o, "returned", "threw")
     \/ MoveJob(o, "threw", "finally")
  /\ UNCHANGED <<shared, epoch, previous, cancelled, timedOut, watchdog,
                 deferred, token, publisher, perReq>>

\* The loader returns: the watchdog is cancelled, the token released.
LoaderReturns(o) ==
  /\ MoveJob(o, "running", "returned")
  /\ watchdog' = [watchdog EXCEPT ![o] = IF @ = "armed" THEN "off" ELSE @]
  /\ token' = [token EXCEPT ![o] = "released"]
  /\ UNCHANGED <<shared, epoch, previous, cancelled, timedOut, deferred,
                 publisher, perReq>>

LoaderThrows(o) ==
  /\ MoveJob(o, "running", "threw")
  /\ watchdog' = [watchdog EXCEPT ![o] = IF @ = "armed" THEN "off" ELSE @]
  /\ UNCHANGED <<shared, epoch, previous, cancelled, timedOut, deferred, token,
                 publisher, perReq>>

\* Mutant: a loader that succeeded publishes Ready after its timeout too.
TestReadyLate(o) ==
  /\ MutexFree /\ IsCurrent(o)
  /\ MoveJob(o, "returned", "ready")
  /\ UNCHANGED <<shared, epoch, previous, cancelled, timedOut, watchdog,
                 deferred, token, publisher, perReq>>

\* The mutex is taken, the operation is current and may be shown as Ready.
TestReady(o) ==
  /\ MutexFree /\ MayPublish(o)
  /\ MoveJob(o, "returned", "ready")
  /\ UNCHANGED <<shared, epoch, previous, cancelled, timedOut, watchdog,
                 deferred, token, publisher, perReq>>

\* It is shown as Ready, whatever took no mutex meanwhile.
WriteReady(o) ==
  /\ MoveJob(o, "ready", "finally")
  /\ loadState' = State("Ready", o)
  /\ deferred' = [deferred EXCEPT ![o] = IF @ = "pending" THEN "ok" ELSE @]
  /\ inFlight' = NoOp
  /\ UNCHANGED <<currentIdentity, currentOp, currentEpoch, isShutdownStalled,
                 epoch, previous, cancelled, timedOut, watchdog, token,
                 publisher, perReq>>

\* It is superseded, stopped, timed out or failed.
RefuseReady(o) ==
  /\ MutexFree /\ ~MayPublish(o)
  /\ MoveJob(o, "returned", "finally")
  /\ FailDeferred(o)
  /\ inFlight' = IF IsCurrent(o) THEN NoOp ELSE inFlight
  /\ UNCHANGED <<loadState, currentIdentity, currentOp, currentEpoch,
                 isShutdownStalled, epoch, previous, cancelled, timedOut,
                 watchdog, token, publisher, perReq>>

PublishFailed(o) ==
  /\ MutexFree
  /\ MoveJob(o, "threw", "finally")
  /\ IF IsCurrent(o)
     THEN loadState' = State("Failed", o) /\ inFlight' = NoOp
     ELSE UNCHANGED <<loadState, inFlight>>
  /\ FailDeferred(o)
  /\ UNCHANGED <<currentIdentity, currentOp, currentEpoch, isShutdownStalled,
                 epoch, previous, cancelled, timedOut, watchdog, token,
                 publisher, perReq>>

\* Mutant: only a loader that returned has its token released.
FinallyKeepsToken(o) ==
  /\ MutexFree
  /\ MoveJob(o, "finally", "closing")
  /\ inFlight' = IF IsCurrent(o) THEN NoOp ELSE inFlight
  /\ UNCHANGED <<loadState, currentIdentity, currentOp, currentEpoch,
                 isShutdownStalled, epoch, previous, cancelled, timedOut,
                 watchdog, deferred, token, publisher, perReq>>

Finally(o) ==
  /\ MutexFree
  /\ MoveJob(o, "finally", "closing")
  /\ token' = [token EXCEPT ![o] = "released"]
  /\ inFlight' = IF IsCurrent(o) THEN NoOp ELSE inFlight
  /\ UNCHANGED <<loadState, currentIdentity, currentOp, currentEpoch,
                 isShutdownStalled, epoch, previous, cancelled, timedOut,
                 watchdog, deferred, publisher, perReq>>

\* A job is completed when its children, the watchdog and the poller, are; the
\* ticker is no child of it.
CompleteJob(o) ==
  /\ watchdog[o] = "off" /\ publisher[o] \in {"idle", "ticking"}
  /\ MoveJob(o, "closing", "done")
  /\ UNCHANGED <<shared, epoch, previous, cancelled, timedOut, watchdog,
                 deferred, token, publisher, perReq>>

-----------------------------------------------------------------------------
(* The watchdog: 120 s without progress, or 10 min in all.                  *)

WatchdogWakes(o) ==
  /\ o \in Stalls
  /\ job[o] = "running" /\ ~cancelled[o] /\ watchdog[o] = "armed"
  /\ watchdog' = [watchdog EXCEPT ![o] = "woken"]
  /\ UNCHANGED <<shared, epoch, previous, job, cancelled, timedOut, deferred,
                 token, publisher, perReq>>

WatchdogFires(o) ==
  /\ watchdog[o] = "woken"
  /\ watchdog' = [watchdog EXCEPT ![o] = "fired"]
  /\ timedOut' = [timedOut EXCEPT ![o] = TRUE]
  /\ UNCHANGED <<shared, epoch, previous, job, cancelled, deferred, token,
                 publisher, perReq>>

WatchdogStops(o) ==
  /\ MutexFree
  /\ watchdog[o] = "fired"
  /\ watchdog' = [watchdog EXCEPT ![o] = "stopped"]
  /\ loadState' = IF IsCurrent(o) THEN State("Stopping", o) ELSE loadState
  /\ UNCHANGED <<currentIdentity, currentOp, currentEpoch, inFlight,
                 isShutdownStalled, epoch, previous, job, cancelled, timedOut,
                 deferred, token, publisher, perReq>>

\* Cancelled with its job, or once the loader has ended, the watchdog is thrown
\* out of the mutex if it has to wait for it.
WatchdogCancelled(o) ==
  /\ watchdog[o] = "fired" /\ (cancelled[o] \/ job[o] # "running")
  /\ watchdog' = [watchdog EXCEPT ![o] = "off"]
  /\ UNCHANGED <<shared, epoch, previous, job, cancelled, timedOut, deferred,
                 token, publisher, perReq>>

WatchdogAnswers(o) ==
  /\ watchdog[o] = "stopped"
  /\ watchdog' = [watchdog EXCEPT ![o] = "off"]
  /\ FailDeferred(o)
  /\ UNCHANGED <<shared, epoch, previous, job, cancelled, timedOut, token,
                 publisher, perReq>>

-----------------------------------------------------------------------------
(* Publications: onProgressUpdate, which the native poller and the loader    *)
(* call, and the 500 ms ticker.  One at a time per operation, as they hold   *)
(* progressLock; what they test is not guarded by it.                        *)

CallProgress(o) ==
  /\ o \in Publications
  /\ publisher[o] = "idle" /\ job[o] = "running"
  /\ publisher' = [publisher EXCEPT ![o] = "called"]
  /\ UNCHANGED <<shared, epoch, previous, job, cancelled, timedOut, watchdog,
                 deferred, token, perReq>>

\* The poller may come here after its loader has returned.
TestProgress(o) ==
  /\ publisher[o] = "called"
  /\ publisher' = [publisher EXCEPT ![o] =
       IF MayPublish(o) THEN "tested" ELSE "idle"]
  /\ UNCHANGED <<shared, epoch, previous, job, cancelled, timedOut, watchdog,
                 deferred, token, perReq>>

Tick(o) ==
  /\ o \in Publications
  /\ publisher[o] = "idle" /\ job[o] \notin {"none", "done"}
  /\ IsCurrent(o) /\ loadState = State("Loading", o)
  /\ publisher' = [publisher EXCEPT ![o] = "ticking"]
  /\ UNCHANGED <<shared, epoch, previous, job, cancelled, timedOut, watchdog,
                 deferred, token, perReq>>

WriteProgress(o) ==
  /\ publisher[o] \in {"tested", "ticking"}
  /\ publisher' = [publisher EXCEPT ![o] = "idle"]
  /\ loadState' = State("Loading", o)
  /\ UNCHANGED <<currentIdentity, currentOp, currentEpoch, inFlight,
                 isShutdownStalled, epoch, previous, job, cancelled, timedOut,
                 watchdog, deferred, token, perReq>>

-----------------------------------------------------------------------------
(* Requests: the view model reads activeOperationId and asks for that        *)
(* operation to be cancelled (cancelActiveOperation) or reset.               *)

AskCancel(r) ==
  /\ request[r] = "new" /\ currentOp # NoOp /\ MayCall
  /\ request' = [request EXCEPT ![r] = "cancel"]
  /\ target' = [target EXCEPT ![r] = currentOp]
  /\ UNCHANGED <<shared, perOp, captured, reqEpoch>>

AskReset(r) ==
  /\ request[r] = "new" /\ currentOp # NoOp /\ MayCall
  /\ request' = [request EXCEPT ![r] = "reset"]
  /\ target' = [target EXCEPT ![r] = currentOp]
  /\ UNCHANGED <<shared, perOp, captured, reqEpoch>>

\* cancelActiveOperation compares once before shutdown compares again.
MatchCancel(r) ==
  /\ MutexFree
  /\ request[r] = "cancel"
  /\ request' = [request EXCEPT ![r] =
       IF currentOp = target[r] THEN "shutdown" ELSE "over"]
  /\ UNCHANGED <<shared, perOp, target, captured, reqEpoch>>

ClearedState ==
  /\ loadState' = State("Unloaded", NoOp)
  /\ currentIdentity' = None
  /\ currentOp' = NoOp
  /\ inFlight' = NoOp
  /\ isShutdownStalled' = FALSE

\* shutdown with no operation: Unloaded, Success
ShutdownIdle(r) ==
  /\ MutexFree
  /\ request[r] = "shutdown" /\ currentOp = NoOp
  /\ request' = [request EXCEPT ![r] = "over"]
  /\ ClearedState
  /\ UNCHANGED <<currentEpoch, perOp, target, captured, reqEpoch>>

\* StaleNoOp, or resetToUnloaded's "ignoring mismatched operation"
IgnoreStale(r) ==
  /\ MutexFree
  /\ \/ request[r] = "shutdown" /\ currentOp # NoOp
     \/ request[r] = "reset"
  /\ currentOp # target[r]
  /\ request' = [request EXCEPT ![r] = "over"]
  /\ UNCHANGED <<shared, perOp, target, captured, reqEpoch>>

\* Stopping: the callers are told, the job is captured.
BeginStop(r) ==
  /\ MutexFree
  /\ \/ request[r] = "shutdown"
     \/ request[r] = "reset" /\ ~Completed(inFlight)
  /\ currentOp = target[r]
  /\ request' = [request EXCEPT ![r] = "stopping"]
  /\ currentEpoch' = currentEpoch + 1
  /\ reqEpoch' = [reqEpoch EXCEPT ![r] = currentEpoch + 1]
  /\ captured' = [captured EXCEPT ![r] = inFlight]
  /\ loadState' = State("Stopping", currentOp)
  /\ FailDeferred(inFlight)
  /\ UNCHANGED <<currentIdentity, currentOp, inFlight, isShutdownStalled, epoch,
                 previous, job, cancelled, timedOut, watchdog, token, publisher,
                 target>>

\* job?.cancel(), outside the mutex; the request then joins the job.
CancelCaptured(r) ==
  /\ request[r] = "stopping"
  /\ request' = [request EXCEPT ![r] = "waiting"]
  /\ CancelJob(captured[r])
  /\ UNCHANGED <<shared, epoch, previous, job, timedOut, watchdog, deferred,
                 token, publisher, target, captured, reqEpoch>>

\* resetToUnloaded with nothing to wait for
ResetNow(r) ==
  /\ MutexFree
  /\ request[r] = "reset" /\ Completed(inFlight)
  /\ currentOp = target[r]
  /\ request' = [request EXCEPT ![r] = "over"]
  /\ currentEpoch' = currentEpoch + 1
  /\ FailDeferred(inFlight)
  /\ ClearedState
  /\ UNCHANGED <<epoch, previous, job, cancelled, timedOut, watchdog, token,
                 publisher, target, captured, reqEpoch>>

\* Mutant: a request whose wait is over does not look at the epoch again.
StopSucceedsAnyway(r) ==
  /\ MutexFree
  /\ request[r] = "waiting" /\ Completed(captured[r])
  /\ request' = [request EXCEPT ![r] = "over"]
  /\ ClearedState
  /\ UNCHANGED <<currentEpoch, perOp, target, captured, reqEpoch>>

\* The job has ended within 30 s.
StopSucceeds(r) ==
  /\ MutexFree
  /\ request[r] = "waiting" /\ Completed(captured[r])
  /\ request' = [request EXCEPT ![r] = "over"]
  /\ IF currentEpoch = reqEpoch[r]
     THEN ClearedState
     ELSE UNCHANGED <<loadState, currentIdentity, currentOp, inFlight,
                      isShutdownStalled>>
  /\ UNCHANGED <<currentEpoch, perOp, target, captured, reqEpoch>>

\* It has not: no load may start until a later shutdown succeeds.
StopStalls(r) ==
  /\ MutexFree
  /\ request[r] = "waiting" /\ ~Completed(captured[r])
  /\ request' = [request EXCEPT ![r] = "over"]
  /\ IF currentEpoch = reqEpoch[r]
     THEN /\ isShutdownStalled' = TRUE
          /\ loadState' = State("ShutdownStalled", currentOp)
     ELSE UNCHANGED <<isShutdownStalled, loadState>>
  /\ UNCHANGED <<currentIdentity, currentOp, currentEpoch, inFlight, perOp,
                 target, captured, reqEpoch>>

\* clearReadiness(errorReason) takes no lock: another step may come between its
\* assignments, and between the test and the write of Ready.
BeginClear(r) ==
  /\ request[r] = "new" /\ MayCall
  /\ request' = [request EXCEPT ![r] = "clearing"]
  /\ target' = [target EXCEPT ![r] = currentOp]
  /\ currentEpoch' = currentEpoch + 1
  /\ UNCHANGED <<loadState, currentIdentity, currentOp, inFlight,
                 isShutdownStalled, perOp, captured, reqEpoch>>

ClearIdentity(r) ==
  /\ request[r] = "clearing"
  /\ request' = [request EXCEPT ![r] = "cleared"]
  /\ currentIdentity' = None
  /\ UNCHANGED <<loadState, currentOp, currentEpoch, inFlight,
                 isShutdownStalled, perOp, target, captured, reqEpoch>>

EndClear(r) ==
  /\ request[r] = "cleared"
  /\ request' = [request EXCEPT ![r] = "over"]
  /\ loadState' = State("Failed", target[r])
  /\ UNCHANGED <<currentIdentity, currentOp, currentEpoch, inFlight,
                 isShutdownStalled, perOp, target, captured, reqEpoch>>

-----------------------------------------------------------------------------
JobStep(o) ==
  \/ NeverRuns(o) \/ BeginJob(o) \/ EndJoin(o) \/ StartLoader(o)
  \/ SupersededBeforeStarting(o) \/ CancelledAtMutex(o)
  \/ LoaderReturns(o) \/ LoaderThrows(o)
  \/ TestReady(o) \/ WriteReady(o) \/ RefuseReady(o)
  \/ PublishFailed(o) \/ Finally(o) \/ CompleteJob(o)

WatchdogStep(o) ==
  \/ WatchdogFires(o) \/ WatchdogStops(o) \/ WatchdogCancelled(o)
  \/ WatchdogAnswers(o)

RequestStep(r) ==
  \/ MatchCancel(r) \/ ShutdownIdle(r) \/ IgnoreStale(r) \/ BeginStop(r)
  \/ CancelCaptured(r) \/ ResetNow(r) \/ StopSucceeds(r) \/ StopStalls(r)
  \/ ClearIdentity(r) \/ EndClear(r)

Next ==
  \/ \E o \in Ops : \/ \E i \in Identities : Load(o, i)
                    \/ JobStep(o) \/ WatchdogWakes(o) \/ WatchdogStep(o)
                    \/ CallProgress(o) \/ Tick(o)
                    \/ TestProgress(o) \/ WriteProgress(o)
  \/ \E r \in Requests : AskCancel(r) \/ AskReset(r) \/ BeginClear(r)
                         \/ RequestStep(r)

Spec == Init /\ [][Next]_vars

(***************************************************************************)
(* Fairness.  Dispatched coroutines go on, a request waits 30 s at most, a  *)
(* woken watchdog and a publication end.  A loader ends too: it is          *)
(* cancellable, or the native side polls its cancelled operation control.   *)
(* No fairness for new loads, requests, timeouts or progress.               *)
(***************************************************************************)
Fairness ==
  /\ \A o \in Ops : /\ WF_vars(JobStep(o)) /\ WF_vars(WatchdogStep(o))
                    /\ WF_vars(TestProgress(o) \/ WriteProgress(o))
  /\ \A r \in Requests : WF_vars(RequestStep(r))

FairSpec == Spec /\ Fairness

-----------------------------------------------------------------------------
(* Properties                                                               *)

\* Ready is never offered to a caller for a superseded, stopped, timed-out or
\* failed load: its callers were given the configuration, its loader is over, and
\* while the model is known (a new caller would take the Ready as his answer) it is
\* of the current operation, but for a clearReadiness that is halfway.
ReadyIsCurrent ==
  loadState.kind = "Ready" =>
    /\ deferred[loadState.op] = "ok" /\ job[loadState.op] \notin {"none", "running"}
    /\ \/ IsCurrent(loadState.op)
       \/ currentIdentity = None
       \/ \E r \in Requests : request[r] = "clearing"

\* A loader runs only after the very job its operation superseded has completed,
\* even when the wait for that job was cut short by a cancellation.
PredecessorEnded ==
  \A o \in Ops : job[o] = "running" => Completed(previous[o])

\* cancelActiveOperation and resetToUnloaded for one operation never disturb the
\* controller, or any job, once a later operation is the current one.
RequestsHitTheirTarget ==
  [][ \A r \in Requests :
        /\ request[r] \in {"cancel", "shutdown", "reset", "waiting"}
        /\ request'[r] # request[r]
        /\ currentOp \notin {NoOp, target[r]}
        => UNCHANGED <<shared, perOp>> ]_vars

\* Every caller of loadOrAttach gets its configuration or an exception.
CallersAreAnswered ==
  \A o \in Ops : job[o] = "new" ~> deferred[o] # "pending"

\* However a loader that started ends, its native operation control is released.
LoaderTokenReleased ==
  \A o \in Ops : job[o] = "running" ~> token[o] = "released"

\* The comment in loadOrAttach, "If there was a previous job, wait for it to
\* cleanly complete cancellation": no two loaders run at once.
OneLoaderAtATime ==
  \A o, p \in Ops : job[o] = "running" /\ job[p] = "running" => o = p

\* The test elapsedTimeAdvancesWhileWaitingWithoutProgressAndStopsAtReady: an
\* operation that is Ready does not go back to Loading.
ReadyStaysReady ==
  [][ loadState.kind = "Ready" => loadState' # State("Loading", loadState.op) ]_vars

==============================================================================
