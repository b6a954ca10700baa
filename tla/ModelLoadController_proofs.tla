----------------------- MODULE ModelLoadController_proofs ----------------------
(***************************************************************************)
(* Proofs about ModelLoadController, for any number of operations and       *)
(* requests.  Every cancellation goes with a new epoch, so a cancelled job  *)
(* is never the current one (StaleInv): a job whose wait was cut short does *)
(* not start its loader, and a caller who was refused is not shown Ready    *)
(* (AnswerInv).  Whoever is cancelled or has ended was answered (OwedInv),  *)
(* and a job joins an older one (OrderInv).                                 *)
(***************************************************************************)
EXTENDS ModelLoadController, FiniteSetTheorems, WellFoundedInduction, TLAPS

\* The types of the controller's fields, of the operations and of the requests.
ModelLoadStates ==
  [kind : {"Unloaded", "Loading", "Ready", "Stopping", "Failed", "ShutdownStalled"},
   op : Ops \cup {NoOp}]

SharedTypes ==
  /\ loadState \in ModelLoadStates
  /\ currentIdentity \in Identities \cup {None}
  /\ currentOp \in Ops \cup {NoOp}
  /\ currentEpoch \in Nat
  /\ inFlight \in Ops \cup {NoOp}
  /\ isShutdownStalled \in BOOLEAN

OpTypes ==
  /\ epoch \in [Ops -> Nat]
  /\ previous \in [Ops -> Ops \cup {NoOp}]
  /\ job \in [Ops -> {"none", "new", "join", "check", "running", "returned",
                      "ready", "threw", "finally", "closing", "done"}]
  /\ cancelled \in [Ops -> BOOLEAN]
  /\ timedOut \in [Ops -> BOOLEAN]
  /\ watchdog \in [Ops -> {"off", "armed", "woken", "fired", "stopped"}]
  /\ deferred \in [Ops -> {"pending", "ok", "failed"}]
  /\ token \in [Ops -> {"none", "live", "released"}]
  /\ publisher \in [Ops -> {"idle", "called", "tested", "ticking"}]

RequestTypes ==
  /\ request \in [Requests -> {"new", "cancel", "shutdown", "reset", "stopping",
                               "waiting", "clearing", "cleared", "over"}]
  /\ target \in [Requests -> Ops \cup {NoOp}]
  /\ captured \in [Requests -> Ops \cup {NoOp}]
  /\ reqEpoch \in [Requests -> Nat]

\* The controller starts unloaded, with nothing under way.
LEMMA TypeInit == Init => TypeOK
<1> SUFFICES ASSUME Init PROVE TypeOK
  OBVIOUS
<1>1. SharedTypes
  BY DEF Init, State, SharedTypes, ModelLoadStates
<1>2. OpTypes
  BY DEF Init, OpTypes
<1>3. RequestTypes
  BY DEF Init, RequestTypes
<1> QED
  BY <1>1, <1>2, <1>3 DEF TypeOK, SharedTypes, ModelLoadStates, OpTypes, RequestTypes

\* No step of a load, a watchdog, a publication or a request leaves the types.
LEMMA TypeStep == TypeOK /\ [Next]_vars => TypeOK'
<1> SUFFICES ASSUME TypeOK, [Next]_vars PROVE TypeOK'
  OBVIOUS
<1> USE DEF TypeOK, State, MoveJob, shared, perOp, perReq
<1>1. ASSUME NEW o \in Ops, NEW i \in Identities, Load(o, i) PROVE TypeOK'
  BY <1>1 DEF Load, CancelJob, FailDeferred
<1>2. ASSUME NEW o \in Ops, JobStep(o) PROVE TypeOK'
  <2>1. CASE NeverRuns(o)
    BY <2>1 DEF NeverRuns
  <2>2. CASE BeginJob(o)
    BY <2>2 DEF BeginJob
  <2>3. CASE EndJoin(o)
    BY <2>3 DEF EndJoin
  <2>4. CASE StartLoader(o)
    BY <2>4 DEF StartLoader
  <2>5. CASE SupersededBeforeStarting(o)
    BY <2>5 DEF SupersededBeforeStarting, FailDeferred
  <2>6. CASE CancelledAtMutex(o)
    BY <2>6 DEF CancelledAtMutex
  <2>7. CASE LoaderReturns(o)
    BY <2>7 DEF LoaderReturns
  <2>8. CASE LoaderThrows(o)
    BY <2>8 DEF LoaderThrows
  <2>9. CASE TestReady(o)
    BY <2>9 DEF TestReady
  <2>10. CASE WriteReady(o)
    BY <2>10 DEF WriteReady, NoOp
  <2>11. CASE RefuseReady(o)
    BY <2>11 DEF RefuseReady, FailDeferred, IsCurrent
  <2>12. CASE PublishFailed(o)
    BY <2>12 DEF PublishFailed, FailDeferred, IsCurrent
  <2>13. CASE Finally(o)
    BY <2>13 DEF Finally, IsCurrent
  <2>14. CASE CompleteJob(o)
    BY <2>14 DEF CompleteJob
  <2> QED
    BY <1>2, <2>1, <2>2, <2>3, <2>4, <2>5, <2>6, <2>7, <2>8, <2>9, <2>10, <2>11, <2>12,
       <2>13, <2>14 DEF JobStep
<1>3. ASSUME NEW o \in Ops, WatchdogWakes(o) \/ WatchdogStep(o) PROVE TypeOK'
  <2>1. CASE WatchdogWakes(o)
    BY <2>1 DEF WatchdogWakes
  <2>2. CASE WatchdogFires(o)
    BY <2>2 DEF WatchdogFires
  <2>3. CASE WatchdogStops(o)
    BY <2>3 DEF WatchdogStops, IsCurrent
  <2>4. CASE WatchdogCancelled(o)
    BY <2>4 DEF WatchdogCancelled
  <2>5. CASE WatchdogAnswers(o)
    BY <2>5 DEF WatchdogAnswers, FailDeferred
  <2> QED
    BY <1>3, <2>1, <2>2, <2>3, <2>4, <2>5 DEF WatchdogStep
<1>4. ASSUME NEW o \in Ops, CallProgress(o) \/ Tick(o) \/ TestProgress(o) \/ WriteProgress(o)
      PROVE TypeOK'
  <2>1. CASE CallProgress(o)
    BY <2>1 DEF CallProgress
  <2>2. CASE Tick(o)
    BY <2>2 DEF Tick
  <2>3. CASE TestProgress(o)
    BY <2>3 DEF TestProgress
  <2>4. CASE WriteProgress(o)
    BY <2>4 DEF WriteProgress
  <2> QED
    BY <1>4, <2>1, <2>2, <2>3, <2>4
<1>5. ASSUME NEW r \in Requests, RequestStep(r) PROVE TypeOK'
  <2>1. CASE MatchCancel(r)
    BY <2>1 DEF MatchCancel
  <2>2. CASE ShutdownIdle(r)
    BY <2>2 DEF ShutdownIdle, ClearedState
  <2>3. CASE IgnoreStale(r)
    BY <2>3 DEF IgnoreStale
  <2>4. CASE BeginStop(r)
    BY <2>4 DEF BeginStop, FailDeferred
  <2>5. CASE CancelCaptured(r)
    BY <2>5 DEF CancelCaptured, CancelJob
  <2>6. CASE ResetNow(r)
    <3>1. SharedTypes'
      <4>1. loadState' \in ModelLoadStates /\ currentIdentity' \in Identities \cup {None}
        BY <2>6 DEF ResetNow, FailDeferred, ClearedState, ModelLoadStates
      <4>2. currentOp' \in Ops \cup {NoOp} /\ currentEpoch' \in Nat /\ inFlight' \in Ops \cup {NoOp}
        BY <2>6 DEF ResetNow, FailDeferred, ClearedState
      <4>3. isShutdownStalled' \in BOOLEAN
        BY <2>6 DEF ResetNow, FailDeferred, ClearedState
      <4> QED
        BY <4>1, <4>2, <4>3 DEF SharedTypes
    <3>2. OpTypes'
      BY <2>6 DEF ResetNow, FailDeferred, ClearedState, OpTypes
    <3>3. RequestTypes'
      BY <2>6 DEF ResetNow, FailDeferred, ClearedState, RequestTypes
    <3> QED
      BY <3>1, <3>2, <3>3 DEF SharedTypes, ModelLoadStates, OpTypes, RequestTypes
  <2>7. CASE StopSucceeds(r)
    <3>1. SharedTypes'
      <4>1. loadState' \in ModelLoadStates /\ currentIdentity' \in Identities \cup {None}
        BY <2>7 DEF StopSucceeds, ClearedState, ModelLoadStates
      <4>2. currentOp' \in Ops \cup {NoOp} /\ currentEpoch' \in Nat /\ inFlight' \in Ops \cup {NoOp}
        BY <2>7 DEF StopSucceeds, ClearedState
      <4>3. isShutdownStalled' \in BOOLEAN
        BY <2>7 DEF StopSucceeds, ClearedState
      <4> QED
        BY <4>1, <4>2, <4>3 DEF SharedTypes
    <3>2. OpTypes'
      BY <2>7 DEF StopSucceeds, ClearedState, OpTypes
    <3>3. RequestTypes'
      BY <2>7 DEF StopSucceeds, ClearedState, RequestTypes
    <3> QED
      BY <3>1, <3>2, <3>3 DEF SharedTypes, ModelLoadStates, OpTypes, RequestTypes
  <2>8. CASE StopStalls(r)
    <3>1. SharedTypes'
      <4>1. loadState' \in ModelLoadStates /\ currentIdentity' \in Identities \cup {None}
        BY <2>8 DEF StopStalls, ModelLoadStates
      <4>2. currentOp' \in Ops \cup {NoOp} /\ currentEpoch' \in Nat /\ inFlight' \in Ops \cup {NoOp}
        BY <2>8 DEF StopStalls
      <4>3. isShutdownStalled' \in BOOLEAN
        BY <2>8 DEF StopStalls
      <4> QED
        BY <4>1, <4>2, <4>3 DEF SharedTypes
    <3>2. OpTypes'
      BY <2>8 DEF StopStalls, OpTypes
    <3>3. RequestTypes'
      BY <2>8 DEF StopStalls, RequestTypes
    <3> QED
      BY <3>1, <3>2, <3>3 DEF SharedTypes, ModelLoadStates, OpTypes, RequestTypes
  <2>9. CASE EndClear(r)
    BY <2>9 DEF EndClear
  <2>10. CASE ClearIdentity(r)
    BY <2>10 DEF ClearIdentity
  <2> QED
    BY <1>5, <2>1, <2>2, <2>3, <2>4, <2>5, <2>6, <2>7, <2>8, <2>9,
       <2>10 DEF RequestStep
<1>6. ASSUME NEW r \in Requests, AskCancel(r) \/ AskReset(r) \/ BeginClear(r) PROVE TypeOK'
  <2>1. CASE AskCancel(r)
    BY <2>1 DEF AskCancel
  <2>2. CASE AskReset(r)
    BY <2>2 DEF AskReset
  <2>3. CASE BeginClear(r)
    BY <2>3 DEF BeginClear
  <2> QED
    BY <1>6, <2>1, <2>2, <2>3
<1>7. CASE UNCHANGED vars
  BY <1>7 DEF vars
<1> QED
  BY <1>1, <1>2, <1>3, <1>4, <1>5, <1>6, <1>7 DEF Next

\* Every variable of the controller, its operations and its requests has its type.
THEOREM TypeCorrect == Spec => []TypeOK
<1> QED
  BY TypeInit, TypeStep, PTL DEF Spec

-----------------------------------------------------------------------------
(* Who is cancelled, and when                                               *)

\* An operation that was not created yet is not referred to.
NotReferred ==
  \A o \in Ops : job[o] = "none" =>
    /\ ~cancelled[o] /\ ~timedOut[o] /\ deferred[o] = "pending" /\ watchdog[o] = "off"
    /\ inFlight # o
    /\ \A r \in Requests : captured[r] # o

EpochsPast ==
  /\ \A o \in Ops : epoch[o] <= currentEpoch
  /\ \A r \in Requests : reqEpoch[r] <= currentEpoch

\* A job is cancelled only with an epoch newer than its own.
CancelledIsStale ==
  /\ \A o \in Ops : cancelled[o] => epoch[o] < currentEpoch
  /\ \A r \in Requests : request[r] = "stopping" /\ captured[r] # NoOp =>
       epoch[captured[r]] < currentEpoch

\* A job goes on after its wait when the other has completed, or when it was
\* cancelled itself.
WaitedOrCancelled ==
  \A o \in Ops : job[o] = "check" => Completed(previous[o]) \/ cancelled[o]

\* An epoch of a request that is still the newest is of its own operation.
RequestEpoch ==
  \A r \in Requests :
    request[r] \in {"stopping", "waiting"} /\ reqEpoch[r] = currentEpoch =>
      currentOp \in {NoOp, target[r]}

StaleInv ==
  /\ NotReferred /\ EpochsPast /\ CancelledIsStale /\ WaitedOrCancelled
  /\ PredecessorEnded /\ RequestEpoch

\* NoOp names no operation.
LEMMA NoOpIsNone == NoOp \notin Ops
  BY BoundsAssumption DEF NoOp, Ops

\* Nothing is under way at the start.
LEMMA StaleInit == Init => StaleInv
  BY DEF Init, StaleInv, NotReferred, EpochsPast, CancelledIsStale, WaitedOrCancelled,
         PredecessorEnded, RequestEpoch, NoOp, Ops

\* Each step keeps what is known of cancelled jobs and of epochs.
LEMMA StaleStep == TypeOK /\ TypeOK' /\ StaleInv /\ [Next]_vars => StaleInv'
<1> SUFFICES ASSUME TypeOK, TypeOK', StaleInv, [Next]_vars PROVE StaleInv'
  OBVIOUS
<1> USE DEF TypeOK, StaleInv, NotReferred, EpochsPast, CancelledIsStale, WaitedOrCancelled,
     PredecessorEnded, RequestEpoch, Completed, MoveJob, shared, perOp, perReq
<1>1. ASSUME NEW o \in Ops, NEW i \in Identities, Load(o, i) PROVE StaleInv'
  <2>1. NotReferred'
    BY <1>1, NoOpIsNone DEF Load, CancelJob, FailDeferred
  <2>2. EpochsPast'
    BY <1>1 DEF Load
  <2>3. CancelledIsStale'
    BY <1>1, NoOpIsNone DEF Load, CancelJob
  <2>4. WaitedOrCancelled' /\ PredecessorEnded'
    BY <1>1 DEF Load, CancelJob
  <2>5. RequestEpoch'
    BY <1>1 DEF Load
  <2> QED
    BY <2>1, <2>2, <2>3, <2>4, <2>5
<1>2. ASSUME NEW o \in Ops, JobStep(o) PROVE StaleInv'
  <2>1. CASE NeverRuns(o)
    BY <2>1 DEF NeverRuns
  <2>2. CASE BeginJob(o)
    BY <2>2 DEF BeginJob
  <2>3. CASE EndJoin(o)
    BY <2>3 DEF EndJoin, IsCurrent
  <2>4. CASE StartLoader(o)
    BY <2>4 DEF StartLoader, IsCurrent
  <2>5. CASE SupersededBeforeStarting(o)
    BY <2>5 DEF SupersededBeforeStarting, FailDeferred
  <2>6. CASE CancelledAtMutex(o)
    BY <2>6 DEF CancelledAtMutex
  <2>7. CASE LoaderReturns(o)
    BY <2>7 DEF LoaderReturns
  <2>8. CASE LoaderThrows(o)
    BY <2>8 DEF LoaderThrows
  <2>9. CASE TestReady(o)
    BY <2>9 DEF TestReady
  <2>10. CASE WriteReady(o)
    <3>1. NotReferred' /\ EpochsPast'
      BY <2>10, NoOpIsNone DEF WriteReady
    <3>2. CancelledIsStale'
      BY <2>10, NoOpIsNone DEF WriteReady
    <3>3. WaitedOrCancelled' /\ PredecessorEnded'
      BY <2>10 DEF WriteReady
    <3>4. RequestEpoch'
      BY <2>10 DEF WriteReady
    <3> QED
      BY <3>1, <3>2, <3>3, <3>4
  <2>11. CASE RefuseReady(o)
    <3>1. NotReferred' /\ EpochsPast'
      BY <2>11, NoOpIsNone DEF RefuseReady, FailDeferred, IsCurrent
    <3>2. CancelledIsStale'
      BY <2>11, NoOpIsNone DEF RefuseReady, FailDeferred, IsCurrent
    <3>3. WaitedOrCancelled' /\ PredecessorEnded'
      BY <2>11 DEF RefuseReady, FailDeferred, IsCurrent
    <3>4. RequestEpoch'
      BY <2>11 DEF RefuseReady, FailDeferred, IsCurrent
    <3> QED
      BY <3>1, <3>2, <3>3, <3>4
  <2>12. CASE PublishFailed(o)
    <3>1. NotReferred' /\ EpochsPast'
      BY <2>12, NoOpIsNone DEF PublishFailed, FailDeferred, IsCurrent
    <3>2. CancelledIsStale'
      BY <2>12, NoOpIsNone DEF PublishFailed, FailDeferred, IsCurrent
    <3>3. WaitedOrCancelled' /\ PredecessorEnded'
      BY <2>12 DEF PublishFailed, FailDeferred, IsCurrent
    <3>4. RequestEpoch'
      BY <2>12 DEF PublishFailed, FailDeferred, IsCurrent
    <3> QED
      BY <3>1, <3>2, <3>3, <3>4
  <2>13. CASE Finally(o)
    <3>1. NotReferred' /\ EpochsPast'
      BY <2>13, NoOpIsNone DEF Finally, IsCurrent
    <3>2. CancelledIsStale'
      BY <2>13, NoOpIsNone DEF Finally, IsCurrent
    <3>3. WaitedOrCancelled' /\ PredecessorEnded'
      BY <2>13 DEF Finally, IsCurrent
    <3>4. RequestEpoch'
      BY <2>13 DEF Finally, IsCurrent
    <3> QED
      BY <3>1, <3>2, <3>3, <3>4
  <2>14. CASE CompleteJob(o)
    BY <2>14 DEF CompleteJob
  <2> QED
    BY <1>2, <2>1, <2>2, <2>3, <2>4, <2>5, <2>6, <2>7, <2>8, <2>9, <2>10, <2>11, <2>12,
       <2>13, <2>14 DEF JobStep
<1>3. ASSUME NEW o \in Ops, WatchdogWakes(o) \/ WatchdogStep(o) PROVE StaleInv'
  <2>1. CASE WatchdogWakes(o)
    BY <2>1 DEF WatchdogWakes
  <2>2. CASE WatchdogFires(o)
    <3>1. NotReferred' /\ EpochsPast'
      BY <2>2, NoOpIsNone DEF WatchdogFires
    <3>2. CancelledIsStale'
      BY <2>2, NoOpIsNone DEF WatchdogFires
    <3>3. WaitedOrCancelled' /\ PredecessorEnded'
      BY <2>2 DEF WatchdogFires
    <3>4. RequestEpoch'
      BY <2>2 DEF WatchdogFires
    <3> QED
      BY <3>1, <3>2, <3>3, <3>4
  <2>3. CASE WatchdogStops(o)
    BY <2>3 DEF WatchdogStops, IsCurrent
  <2>4. CASE WatchdogCancelled(o)
    BY <2>4 DEF WatchdogCancelled
  <2>5. CASE WatchdogAnswers(o)
    <3>1. NotReferred' /\ EpochsPast'
      BY <2>5, NoOpIsNone DEF WatchdogAnswers, FailDeferred
    <3>2. CancelledIsStale'
      BY <2>5, NoOpIsNone DEF WatchdogAnswers, FailDeferred
    <3>3. WaitedOrCancelled' /\ PredecessorEnded'
      BY <2>5 DEF WatchdogAnswers, FailDeferred
    <3>4. RequestEpoch'
      BY <2>5 DEF WatchdogAnswers, FailDeferred
    <3> QED
      BY <3>1, <3>2, <3>3, <3>4
  <2> QED
    BY <1>3, <2>1, <2>2, <2>3, <2>4, <2>5 DEF WatchdogStep
<1>4. ASSUME NEW o \in Ops, CallProgress(o) \/ Tick(o) \/ TestProgress(o) \/ WriteProgress(o)
      PROVE StaleInv'
  <2>1. CASE CallProgress(o)
    BY <2>1 DEF CallProgress
  <2>2. CASE Tick(o)
    BY <2>2 DEF Tick
  <2>3. CASE TestProgress(o)
    BY <2>3 DEF TestProgress
  <2>4. CASE WriteProgress(o)
    BY <2>4 DEF WriteProgress
  <2> QED
    BY <1>4, <2>1, <2>2, <2>3, <2>4
<1>5. ASSUME NEW r \in Requests, RequestStep(r) PROVE StaleInv'
  <2>1. CASE MatchCancel(r)
    BY <2>1 DEF MatchCancel
  <2>2. CASE ShutdownIdle(r)
    <3>1. NotReferred' /\ EpochsPast'
      BY <2>2, NoOpIsNone DEF ShutdownIdle, ClearedState
    <3>2. CancelledIsStale'
      BY <2>2, NoOpIsNone DEF ShutdownIdle, ClearedState
    <3>3. WaitedOrCancelled' /\ PredecessorEnded'
      BY <2>2 DEF ShutdownIdle, ClearedState
    <3>4. RequestEpoch'
      BY <2>2 DEF ShutdownIdle, ClearedState
    <3> QED
      BY <3>1, <3>2, <3>3, <3>4
  <2>3. CASE IgnoreStale(r)
    BY <2>3 DEF IgnoreStale
  <2>4. CASE BeginStop(r)
    BY <2>4 DEF BeginStop, FailDeferred
  <2>5. CASE CancelCaptured(r)
    <3>1. NotReferred' /\ EpochsPast'
      BY <2>5, NoOpIsNone DEF CancelCaptured, CancelJob
    <3>2. CancelledIsStale'
      BY <2>5, NoOpIsNone DEF CancelCaptured, CancelJob
    <3>3. WaitedOrCancelled' /\ PredecessorEnded'
      BY <2>5 DEF CancelCaptured, CancelJob
    <3>4. RequestEpoch'
      BY <2>5 DEF CancelCaptured, CancelJob
    <3> QED
      BY <3>1, <3>2, <3>3, <3>4
  <2>6. CASE ResetNow(r)
    <3>1. NotReferred' /\ EpochsPast'
      BY <2>6, NoOpIsNone DEF ResetNow, FailDeferred, ClearedState
    <3>2. CancelledIsStale'
      BY <2>6, NoOpIsNone DEF ResetNow, FailDeferred, ClearedState
    <3>3. WaitedOrCancelled' /\ PredecessorEnded'
      BY <2>6 DEF ResetNow, FailDeferred, ClearedState
    <3>4. RequestEpoch'
      BY <2>6 DEF ResetNow, FailDeferred, ClearedState
    <3> QED
      BY <3>1, <3>2, <3>3, <3>4
  <2>7. CASE StopSucceeds(r)
    <3>1. NotReferred' /\ EpochsPast'
      BY <2>7, NoOpIsNone DEF StopSucceeds, ClearedState
    <3>2. CancelledIsStale'
      BY <2>7, NoOpIsNone DEF StopSucceeds, ClearedState
    <3>3. WaitedOrCancelled' /\ PredecessorEnded'
      BY <2>7 DEF StopSucceeds, ClearedState
    <3>4. RequestEpoch'
      BY <2>7 DEF StopSucceeds, ClearedState
    <3> QED
      BY <3>1, <3>2, <3>3, <3>4
  <2>8. CASE StopStalls(r)
    BY <2>8 DEF StopStalls
  <2>9. CASE EndClear(r)
    BY <2>9 DEF EndClear
  <2>10. CASE ClearIdentity(r)
    BY <2>10 DEF ClearIdentity
  <2> QED
    BY <1>5, <2>1, <2>2, <2>3, <2>4, <2>5, <2>6, <2>7, <2>8, <2>9,
       <2>10 DEF RequestStep
<1>6. ASSUME NEW r \in Requests, AskCancel(r) \/ AskReset(r) \/ BeginClear(r) PROVE StaleInv'
  <2>1. CASE AskCancel(r)
    BY <2>1 DEF AskCancel
  <2>2. CASE AskReset(r)
    BY <2>2 DEF AskReset
  <2>3. CASE BeginClear(r)
    BY <2>3 DEF BeginClear
  <2> QED
    BY <1>6, <2>1, <2>2, <2>3
<1>7. CASE UNCHANGED vars
  BY <1>7 DEF vars
<1> QED
  BY <1>1, <1>2, <1>3, <1>4, <1>5, <1>6, <1>7 DEF Next

\* The invariant of the cancellations and epochs.
LEMMA StaleInvariant == Spec => [](TypeOK /\ StaleInv)
<1>1. Init => TypeOK /\ StaleInv
  BY TypeInit, StaleInit
<1>2. TypeOK /\ StaleInv /\ [Next]_vars => (TypeOK /\ StaleInv)'
  BY TypeStep, StaleStep
<1> QED
  BY <1>1, <1>2, PTL DEF Spec

\* A loader runs only after the very job that its operation superseded has
\* completed, however many loads and requests there are.
THEOREM PredecessorHasEnded == Spec => []PredecessorEnded
<1>1. StaleInv => PredecessorEnded
  BY DEF StaleInv
<1> QED
  BY <1>1, StaleInvariant, PTL

\* A request for one operation changes nothing once a later one is current.
THEOREM RequestsAreAimed == Spec => RequestsHitTheirTarget
<1>1. ASSUME TypeOK, StaleInv, [Next]_vars, NEW r \in Requests,
             request[r] \in {"cancel", "shutdown", "reset", "waiting"},
             request'[r] # request[r], currentOp \notin {NoOp, target[r]}
      PROVE  UNCHANGED <<shared, perOp>>
  <2> USE <1>1 DEF TypeOK, perReq
  <2>1. ASSUME NEW s \in Requests, RequestStep(s) PROVE UNCHANGED <<shared, perOp>>
    <3>1. CASE MatchCancel(s) \/ IgnoreStale(s)
      BY <3>1 DEF MatchCancel, IgnoreStale
    <3>2. CASE ShutdownIdle(s) \/ BeginStop(s) \/ ResetNow(s)
      BY <3>2 DEF ShutdownIdle, BeginStop, ResetNow
    <3>3. CASE CancelCaptured(s) \/ ClearIdentity(s) \/ EndClear(s)
      BY <3>3 DEF CancelCaptured, ClearIdentity, EndClear
    <3>4. CASE StopSucceeds(s) \/ StopStalls(s)
      BY <3>4 DEF StopSucceeds, StopStalls, StaleInv, RequestEpoch, shared
    <3> QED
      BY <2>1, <3>1, <3>2, <3>3, <3>4 DEF RequestStep
  <2>2. ASSUME NEW s \in Requests, AskCancel(s) \/ AskReset(s) \/ BeginClear(s) PROVE FALSE
    BY <2>2 DEF AskCancel, AskReset, BeginClear
  <2>3. ASSUME NEW o \in Ops, NEW i \in Identities, Load(o, i) PROVE FALSE
    BY <2>3 DEF Load
  <2>4. ASSUME NEW o \in Ops, JobStep(o) PROVE FALSE
    BY <2>4 DEF JobStep, NeverRuns, BeginJob, EndJoin, StartLoader, SupersededBeforeStarting,
       CancelledAtMutex, LoaderReturns, LoaderThrows, TestReady, WriteReady, RefuseReady,
       PublishFailed, Finally, CompleteJob
  <2>5. ASSUME NEW o \in Ops, WatchdogWakes(o) \/ WatchdogStep(o) PROVE FALSE
    BY <2>5 DEF WatchdogWakes, WatchdogStep, WatchdogFires, WatchdogStops, WatchdogCancelled,
       WatchdogAnswers
  <2>6. ASSUME NEW o \in Ops, CallProgress(o) \/ Tick(o) \/ TestProgress(o) \/ WriteProgress(o)
        PROVE FALSE
    BY <2>6 DEF CallProgress, Tick, TestProgress, WriteProgress
  <2>7. CASE UNCHANGED vars
    BY <2>7 DEF vars
  <2> QED
    BY <2>1, <2>2, <2>3, <2>4, <2>5, <2>6, <2>7 DEF Next
<1>2. TypeOK /\ StaleInv /\ [Next]_vars =>
        [\A r \in Requests :
           /\ request[r] \in {"cancel", "shutdown", "reset", "waiting"}
           /\ request'[r] # request[r]
           /\ currentOp \notin {NoOp, target[r]}
           => UNCHANGED <<shared, perOp>>]_vars
  BY <1>1
<1> QED
  BY <1>2, StaleInvariant, PTL DEF Spec, RequestsHitTheirTarget

-----------------------------------------------------------------------------
(* What the callers are told, and what is shown                             *)

\* A caller who was refused belongs to an operation that is no longer current,
\* timed out, or whose job has published its end.
RefusedIsOver ==
  \A o \in Ops : deferred[o] = "failed" =>
    epoch[o] < currentEpoch \/ timedOut[o] \/ job[o] \in {"finally", "closing", "done"}

AnsweredIsOver ==
  \A o \in Ops : deferred[o] = "ok" => job[o] \in {"finally", "closing", "done"}

FiredIsTimedOut ==
  \A o \in Ops : watchdog[o] \in {"fired", "stopped"} => timedOut[o]

\* A job that holds the mutex has asked whether it may show Ready: nobody was
\* refused, and only a clearReadiness can have made it stale meanwhile.
HeldIsCurrent ==
  \A o \in Ops : job[o] = "ready" =>
    /\ deferred[o] = "pending" /\ watchdog[o] # "stopped"
    /\ \/ IsCurrent(o)
       \/ currentIdentity = None
       \/ \E r \in Requests : request[r] = "clearing"

ReadyIsAnOperation == loadState.kind = "Ready" => loadState.op \in Ops

AnswerInv ==
  /\ RefusedIsOver /\ AnsweredIsOver /\ FiredIsTimedOut
  /\ HeldIsCurrent /\ ReadyIsAnOperation /\ ReadyIsCurrent

\* Nobody was told anything at the start.
LEMMA AnswerInit == Init => AnswerInv
  BY DEF Init, State, AnswerInv, RefusedIsOver, AnsweredIsOver, FiredIsTimedOut,
         HeldIsCurrent, ReadyIsAnOperation, ReadyIsCurrent

\* Each step keeps what is known of the callers and of Ready.
LEMMA AnswerStep == TypeOK /\ TypeOK' /\ StaleInv /\ AnswerInv /\ [Next]_vars => AnswerInv'
<1> SUFFICES ASSUME TypeOK, TypeOK', StaleInv, AnswerInv, [Next]_vars PROVE AnswerInv'
  OBVIOUS
<1> USE DEF TypeOK, StaleInv, NotReferred, EpochsPast, AnswerInv, RefusedIsOver, AnsweredIsOver,
     FiredIsTimedOut, HeldIsCurrent, MutexFree, ReadyIsAnOperation, ReadyIsCurrent, IsCurrent,
     State, MoveJob, shared, perOp, perReq
<1>1. ASSUME NEW o \in Ops, NEW i \in Identities, Load(o, i) PROVE AnswerInv'
  <2>1. RefusedIsOver'
    <3>1. ASSUME NEW p \in Ops, p # o PROVE epoch'[p] < currentEpoch'
      BY <1>1, <3>1 DEF Load
    <3>2. deferred'[o] # "failed"
      BY <1>1, NoOpIsNone DEF Load, FailDeferred
    <3> QED
      BY <3>1, <3>2
  <2>2. AnsweredIsOver' /\ FiredIsTimedOut'
    BY <1>1 DEF Load, FailDeferred
  <2>3. HeldIsCurrent' /\ ReadyIsAnOperation' /\ ReadyIsCurrent'
    BY <1>1 DEF Load
  <2> QED
    BY <2>1, <2>2, <2>3
<1>2. ASSUME NEW o \in Ops, JobStep(o) PROVE AnswerInv'
  <2>1. CASE NeverRuns(o)
    BY <2>1 DEF NeverRuns
  <2>2. CASE BeginJob(o)
    BY <2>2 DEF BeginJob
  <2>3. CASE EndJoin(o)
    BY <2>3 DEF EndJoin
  <2>4. CASE StartLoader(o)
    BY <2>4 DEF StartLoader
  <2>5. CASE SupersededBeforeStarting(o)
    BY <2>5 DEF SupersededBeforeStarting, FailDeferred
  <2>6. CASE CancelledAtMutex(o)
    BY <2>6 DEF CancelledAtMutex
  <2>7. CASE LoaderReturns(o)
    BY <2>7 DEF LoaderReturns
  <2>8. CASE LoaderThrows(o)
    BY <2>8 DEF LoaderThrows
  <2>9. CASE TestReady(o)
    BY <2>9 DEF TestReady, MayPublish
  <2>10. CASE WriteReady(o)
    BY <2>10 DEF WriteReady
  <2>11. CASE RefuseReady(o)
    BY <2>11 DEF RefuseReady, FailDeferred
  <2>12. CASE PublishFailed(o)
    BY <2>12 DEF PublishFailed, FailDeferred
  <2>13. CASE Finally(o)
    BY <2>13 DEF Finally
  <2>14. CASE CompleteJob(o)
    BY <2>14 DEF CompleteJob
  <2> QED
    BY <1>2, <2>1, <2>2, <2>3, <2>4, <2>5, <2>6, <2>7, <2>8, <2>9, <2>10, <2>11, <2>12,
       <2>13, <2>14 DEF JobStep
<1>3. ASSUME NEW o \in Ops, WatchdogWakes(o) \/ WatchdogStep(o) PROVE AnswerInv'
  <2>1. CASE WatchdogWakes(o)
    BY <2>1 DEF WatchdogWakes
  <2>2. CASE WatchdogFires(o)
    BY <2>2 DEF WatchdogFires
  <2>3. CASE WatchdogStops(o)
    BY <2>3 DEF WatchdogStops
  <2>4. CASE WatchdogCancelled(o)
    BY <2>4 DEF WatchdogCancelled
  <2>5. CASE WatchdogAnswers(o)
    BY <2>5 DEF WatchdogAnswers, FailDeferred
  <2> QED
    BY <1>3, <2>1, <2>2, <2>3, <2>4, <2>5 DEF WatchdogStep
<1>4. ASSUME NEW o \in Ops, CallProgress(o) \/ Tick(o) \/ TestProgress(o) \/ WriteProgress(o)
      PROVE AnswerInv'
  <2>1. CASE CallProgress(o)
    BY <2>1 DEF CallProgress
  <2>2. CASE Tick(o)
    BY <2>2 DEF Tick
  <2>3. CASE TestProgress(o)
    BY <2>3 DEF TestProgress
  <2>4. CASE WriteProgress(o)
    BY <2>4 DEF WriteProgress
  <2> QED
    BY <1>4, <2>1, <2>2, <2>3, <2>4
<1>5. ASSUME NEW r \in Requests, RequestStep(r) PROVE AnswerInv'
  <2>1. CASE MatchCancel(r)
    BY <2>1 DEF MatchCancel
  <2>2. CASE ShutdownIdle(r)
    BY <2>2 DEF ShutdownIdle, ClearedState
  <2>3. CASE IgnoreStale(r)
    BY <2>3 DEF IgnoreStale
  <2>4. CASE BeginStop(r)
    BY <2>4 DEF BeginStop, FailDeferred
  <2>5. CASE CancelCaptured(r)
    BY <2>5 DEF CancelCaptured, CancelJob
  <2>6. CASE ResetNow(r)
    BY <2>6 DEF ResetNow, FailDeferred, ClearedState
  <2>7. CASE StopSucceeds(r)
    BY <2>7 DEF StopSucceeds, ClearedState
  <2>8. CASE StopStalls(r)
    BY <2>8 DEF StopStalls
  <2>9. CASE EndClear(r)
    BY <2>9 DEF EndClear
  <2>10. CASE ClearIdentity(r)
    BY <2>10 DEF ClearIdentity
  <2> QED
    BY <1>5, <2>1, <2>2, <2>3, <2>4, <2>5, <2>6, <2>7, <2>8, <2>9,
       <2>10 DEF RequestStep
<1>6. ASSUME NEW r \in Requests, AskCancel(r) \/ AskReset(r) \/ BeginClear(r) PROVE AnswerInv'
  <2>1. CASE AskCancel(r)
    BY <2>1 DEF AskCancel
  <2>2. CASE AskReset(r)
    BY <2>2 DEF AskReset
  <2>3. CASE BeginClear(r)
    BY <2>3 DEF BeginClear
  <2> QED
    BY <1>6, <2>1, <2>2, <2>3
<1>7. CASE UNCHANGED vars
  BY <1>7 DEF vars
<1> QED
  BY <1>1, <1>2, <1>3, <1>4, <1>5, <1>6, <1>7 DEF Next

\* Whoever finds Ready with his model known finds the current operation, answered,
\* however many loads, timeouts, requests and publications there are, and wherever a
\* clearReadiness falls.
THEOREM ReadyIsForTheCurrent == Spec => []ReadyIsCurrent
<1>1. Init => AnswerInv
  BY AnswerInit
<1>2. TypeOK /\ StaleInv /\ AnswerInv /\ [Next]_vars /\ TypeOK' /\ StaleInv' => AnswerInv'
  BY AnswerStep
<1>3. AnswerInv => ReadyIsCurrent
  BY DEF AnswerInv
<1> QED
  BY <1>1, <1>2, <1>3, StaleInvariant, PTL DEF Spec

-----------------------------------------------------------------------------
(* Who is still owed an answer, and who waits for whom.                     *)

\* Jobs that have published their end, whether they ran or not.
Published == {"finally", "closing", "done"}

\* Whoever is cancelled, or about to be, and whoever has ended, has been answered.
OwedInv ==
  /\ \A o \in Ops : cancelled[o] \/ job[o] \in Published => deferred[o] # "pending"
  /\ \A r \in Requests :
       request[r] = "stopping" /\ captured[r] # NoOp => deferred[captured[r]] # "pending"

\* An operation supersedes an older one; a watchdog is armed while its loader runs.
OrderInv ==
  /\ \A o, p \in Ops : p < o /\ job[o] # "none" => job[p] # "none"
  /\ \A o \in Ops : previous[o] # NoOp => previous[o] < o /\ job[previous[o]] # "none"
  /\ \A o \in Ops : watchdog[o] = "armed" => job[o] = "running"

\* A step that answers nobody, cancels nobody and ends no job.
Unheard ==
  /\ UNCHANGED <<deferred, cancelled>>
  /\ \A o \in Ops : job'[o] \in Published => job[o] \in Published
  /\ \A r \in Requests : request'[r] = "stopping" => request[r] = "stopping"
  /\ UNCHANGED captured

\* Such steps owe nobody an answer.
LEMMA UnheardOwes == ASSUME OwedInv, Unheard PROVE OwedInv'
  BY DEF OwedInv, Unheard

\* An answer is never taken back, and only the operation's own is refused.
LEMMA FailDeferredAnswers ==
  ASSUME TypeOK, NEW o \in Ops \cup {NoOp}, FailDeferred(o)
  PROVE  /\ \A p \in Ops : deferred[p] # "pending" => deferred'[p] # "pending"
         /\ o # NoOp => deferred'[o] # "pending"
  BY NoOpIsNone DEF FailDeferred, TypeOK

\* No job ends, and none is cancelled, before its callers are told.
LEMMA OwedStep == TypeOK /\ TypeOK' /\ StaleInv /\ OwedInv /\ [Next]_vars => OwedInv'
<1> SUFFICES ASSUME TypeOK, TypeOK', StaleInv, OwedInv, [Next]_vars PROVE OwedInv'
  OBVIOUS
<1> USE DEF TypeOK, Unheard, Published, MoveJob, shared, perOp, perReq
<1>1. ASSUME NEW o \in Ops, NEW i \in Identities, Load(o, i) PROVE OwedInv'
  <2> DEFINE superseded == IF Completed(inFlight) THEN NoOp ELSE inFlight
  <2>1. superseded \in Ops \cup {NoOp}
    OBVIOUS
  <2>2. /\ \A p \in Ops : deferred[p] # "pending" => deferred'[p] # "pending"
        /\ superseded # NoOp => deferred'[superseded] # "pending"
    BY <1>1, <2>1, FailDeferredAnswers DEF Load
  <2>3. \A p \in Ops : cancelled'[p] => cancelled[p] \/ p = superseded
    BY <1>1 DEF Load, CancelJob
  <2>4. \A p \in Ops : job'[p] \in Published => job[p] \in Published
    BY <1>1 DEF Load
  <2>5. UNCHANGED <<request, captured>>
    BY <1>1 DEF Load
  <2> HIDE DEF superseded
  <2> QED
    BY <2>2, <2>3, <2>4, <2>5, NoOpIsNone DEF OwedInv
<1>2. ASSUME NEW o \in Ops, JobStep(o) PROVE OwedInv'
  <2>1. CASE NeverRuns(o)
    BY <2>1 DEF NeverRuns, OwedInv
  <2>2. CASE BeginJob(o)
    BY <2>2, UnheardOwes DEF BeginJob
  <2>3. CASE EndJoin(o)
    BY <2>3, UnheardOwes DEF EndJoin
  <2>4. CASE StartLoader(o)
    BY <2>4, UnheardOwes DEF StartLoader
  <2>5. CASE SupersededBeforeStarting(o)
    BY <2>5, FailDeferredAnswers, NoOpIsNone DEF SupersededBeforeStarting, OwedInv
  <2>6. CASE CancelledAtMutex(o)
    BY <2>6 DEF CancelledAtMutex, OwedInv
  <2>7. CASE LoaderReturns(o)
    BY <2>7, UnheardOwes DEF LoaderReturns
  <2>8. CASE LoaderThrows(o)
    BY <2>8, UnheardOwes DEF LoaderThrows
  <2>9. CASE TestReady(o)
    BY <2>9, UnheardOwes DEF TestReady
  <2>10. CASE WriteReady(o)
    BY <2>10 DEF WriteReady, OwedInv
  <2>11. CASE RefuseReady(o)
    BY <2>11, FailDeferredAnswers, NoOpIsNone DEF RefuseReady, OwedInv
  <2>12. CASE PublishFailed(o)
    BY <2>12, FailDeferredAnswers, NoOpIsNone DEF PublishFailed, OwedInv
  <2>13. CASE Finally(o)
    BY <2>13, UnheardOwes DEF Finally
  <2>14. CASE CompleteJob(o)
    BY <2>14, UnheardOwes DEF CompleteJob
<2> QED
    BY <1>2, <2>1, <2>2, <2>3, <2>4, <2>5, <2>6, <2>7, <2>8, <2>9, <2>10, <2>11, <2>12,
       <2>13, <2>14 DEF JobStep
<1>3. ASSUME NEW o \in Ops, WatchdogWakes(o) \/ WatchdogStep(o) PROVE OwedInv'
  <2>1. CASE WatchdogWakes(o)
    BY <2>1, UnheardOwes DEF WatchdogWakes
  <2>2. CASE WatchdogFires(o)
    BY <2>2, UnheardOwes DEF WatchdogFires
  <2>3. CASE WatchdogStops(o)
    BY <2>3, UnheardOwes DEF WatchdogStops
  <2>4. CASE WatchdogCancelled(o)
    BY <2>4, UnheardOwes DEF WatchdogCancelled
  <2>5. CASE WatchdogAnswers(o)
    BY <2>5, FailDeferredAnswers, NoOpIsNone DEF WatchdogAnswers, OwedInv
<2> QED
    BY <1>3, <2>1, <2>2, <2>3, <2>4, <2>5 DEF WatchdogStep
<1>4. ASSUME NEW o \in Ops, CallProgress(o) \/ Tick(o) \/ TestProgress(o) \/ WriteProgress(o)
      PROVE OwedInv'
  <2>1. CASE CallProgress(o)
    BY <2>1, UnheardOwes DEF CallProgress
  <2>2. CASE Tick(o)
    BY <2>2, UnheardOwes DEF Tick
  <2>3. CASE TestProgress(o)
    BY <2>3, UnheardOwes DEF TestProgress
  <2>4. CASE WriteProgress(o)
    BY <2>4, UnheardOwes DEF WriteProgress
<2> QED
    BY <1>4, <2>1, <2>2, <2>3, <2>4
<1>5. ASSUME NEW r \in Requests, RequestStep(r) PROVE OwedInv'
  <2>1. CASE MatchCancel(r)
    BY <2>1, UnheardOwes DEF MatchCancel
  <2>2. CASE ShutdownIdle(r)
    BY <2>2, UnheardOwes DEF ShutdownIdle
  <2>3. CASE IgnoreStale(r)
    BY <2>3, UnheardOwes DEF IgnoreStale
  <2>4. CASE BeginStop(r)
    BY <2>4, FailDeferredAnswers, NoOpIsNone DEF BeginStop, OwedInv
  <2>5. CASE CancelCaptured(r)
    <3>1. \A p \in Ops : cancelled'[p] => cancelled[p] \/ p = captured[r]
      BY <2>5 DEF CancelCaptured, CancelJob
    <3>2. /\ request[r] = "stopping" /\ UNCHANGED <<job, deferred, captured>>
          /\ \A q \in Requests : request'[q] = "stopping" => request[q] = "stopping"
      BY <2>5 DEF CancelCaptured
    <3> QED
      BY <3>1, <3>2, NoOpIsNone DEF OwedInv
  <2>6. CASE ResetNow(r)
    BY <2>6, FailDeferredAnswers, NoOpIsNone DEF ResetNow, OwedInv
  <2>7. CASE StopSucceeds(r)
    BY <2>7, UnheardOwes DEF StopSucceeds
  <2>8. CASE StopStalls(r)
    BY <2>8, UnheardOwes DEF StopStalls
  <2>9. CASE EndClear(r)
    BY <2>9, UnheardOwes DEF EndClear
  <2>10. CASE ClearIdentity(r)
    BY <2>10, UnheardOwes DEF ClearIdentity
<2> QED
    BY <1>5, <2>1, <2>2, <2>3, <2>4, <2>5, <2>6, <2>7, <2>8, <2>9,
       <2>10 DEF RequestStep
<1>6. ASSUME NEW r \in Requests, AskCancel(r) \/ AskReset(r) \/ BeginClear(r)
      PROVE OwedInv'
  <2>1. CASE AskCancel(r)
    BY <2>1, UnheardOwes DEF AskCancel
  <2>2. CASE AskReset(r)
    BY <2>2, UnheardOwes DEF AskReset
  <2>3. CASE BeginClear(r)
    BY <2>3, UnheardOwes DEF BeginClear
<2> QED
    BY <1>6, <2>1, <2>2, <2>3
<1>7. CASE UNCHANGED vars
  BY <1>7, UnheardOwes DEF vars
<1> QED
  BY <1>1, <1>2, <1>3, <1>4, <1>5, <1>6, <1>7 DEF Next

\* A step that creates no operation; a loader that begins or ends takes its
\* watchdog along.
Settled ==
  /\ \A o \in Ops : job'[o] = "none" <=> job[o] = "none"
  /\ UNCHANGED previous
  /\ \A o \in Ops : watchdog'[o] = "armed" =>
       \/ job'[o] = "running"
       \/ watchdog[o] = "armed" /\ job'[o] = job[o]

\* Such steps leave the order as it is.
LEMMA SettledOrder == ASSUME TypeOK, OrderInv, Settled PROVE OrderInv'
<1>1. \A o, p \in Ops : p < o /\ job'[o] # "none" => job'[p] # "none"
  BY DEF OrderInv, Settled
<1>2. ASSUME NEW o \in Ops, previous'[o] # NoOp
      PROVE  previous'[o] < o /\ job'[previous'[o]] # "none"
  <2>1. previous'[o] = previous[o] /\ previous[o] \in Ops
    BY <1>2 DEF Settled, TypeOK
  <2> QED
    BY <1>2, <2>1 DEF OrderInv, Settled
<1>3. \A o \in Ops : watchdog'[o] = "armed" => job'[o] = "running"
  BY DEF OrderInv, Settled
<1> QED
  BY <1>1, <1>2, <1>3 DEF OrderInv

\* Operations are created in order, and end where they began.
LEMMA OrderStep == TypeOK /\ StaleInv /\ OrderInv /\ [Next]_vars => OrderInv'
<1> SUFFICES ASSUME TypeOK, StaleInv, OrderInv, [Next]_vars PROVE OrderInv'
  OBVIOUS
<1> USE DEF TypeOK, MoveJob, shared, perOp, perReq
<1>1. ASSUME NEW o \in Ops, NEW i \in Identities, Load(o, i) PROVE OrderInv'
  <2>1. /\ \A p \in Ops : job'[p] = IF p = o THEN "new" ELSE job[p]
        /\ \A p \in Ops : previous'[p] = IF p = o THEN inFlight ELSE previous[p]
        /\ job[o] = "none" /\ (o > 1 => job[o - 1] # "none") /\ UNCHANGED watchdog
    BY <1>1 DEF Load
  <2>2. \A p \in Ops : p < o => job[p] # "none"
    <3> SUFFICES ASSUME NEW p \in Ops, p < o PROVE job[p] # "none"
      OBVIOUS
    <3>1. o - 1 \in Ops /\ o > 1
      BY BoundsAssumption DEF Ops
    <3>2. p = o - 1 \/ p < o - 1
      BY BoundsAssumption DEF Ops
    <3> QED
      BY <2>1, <3>1, <3>2 DEF OrderInv
  <2>3. inFlight # NoOp => inFlight < o /\ job[inFlight] # "none"
    <3> SUFFICES ASSUME inFlight # NoOp PROVE inFlight < o /\ job[inFlight] # "none"
      OBVIOUS
    <3>1. inFlight \in Ops /\ job[inFlight] # "none"
      BY DEF StaleInv, NotReferred
    <3>2. inFlight # o /\ ~(o < inFlight)
      BY <2>1, <3>1 DEF OrderInv
    <3> QED
      BY <3>1, <3>2, BoundsAssumption DEF Ops
  <2>4. \A p, q \in Ops : p < q /\ job'[q] # "none" => job'[p] # "none"
    BY <2>1, <2>2 DEF OrderInv
  <2>5. \A p \in Ops : previous'[p] # NoOp => previous'[p] < p /\ job'[previous'[p]] # "none"
    <3> SUFFICES ASSUME NEW p \in Ops, previous'[p] # NoOp
                 PROVE  previous'[p] < p /\ job'[previous'[p]] # "none"
      OBVIOUS
    <3>1. CASE p = o
      BY <2>1, <2>3, <3>1
    <3>2. CASE p # o
      <4>1. previous'[p] = previous[p] /\ previous[p] \in Ops
        BY <2>1, <3>2
      <4>2. previous[p] < p /\ job[previous[p]] # "none"
        BY <4>1 DEF OrderInv
      <4> QED
        BY <2>1, <4>1, <4>2
    <3> QED
      BY <3>1, <3>2
  <2>6. \A p \in Ops : watchdog'[p] = "armed" => job'[p] = "running"
    BY <2>1 DEF OrderInv
  <2> QED
    BY <2>4, <2>5, <2>6 DEF OrderInv
<1>2. ASSUME NEW o \in Ops, JobStep(o) PROVE OrderInv'
  <2>1. CASE NeverRuns(o)
    <3>1. Settled
      BY <2>1 DEF NeverRuns, Settled, OrderInv
    <3> QED
      BY <3>1, SettledOrder
  <2>2. CASE BeginJob(o)
    <3>1. Settled
      BY <2>2 DEF BeginJob, Settled, OrderInv
    <3> QED
      BY <3>1, SettledOrder
  <2>3. CASE EndJoin(o)
    <3>1. Settled
      BY <2>3 DEF EndJoin, Settled, OrderInv
    <3> QED
      BY <3>1, SettledOrder
  <2>4. CASE StartLoader(o)
    <3>1. \A p \in Ops : job'[p] = IF p = o THEN "running" ELSE job[p]
      BY <2>4 DEF StartLoader
    <3>2. job[o] = "check" /\ UNCHANGED previous
      BY <2>4 DEF StartLoader
    <3>3. \A p \in Ops : watchdog'[p] = IF p = o THEN "armed" ELSE watchdog[p]
      BY <2>4 DEF StartLoader
    <3>4. ASSUME NEW p \in Ops
          PROVE  /\ job'[p] = "none" <=> job[p] = "none"
                 /\ watchdog'[p] = "armed" =>
                      \/ job'[p] = "running"
                      \/ watchdog[p] = "armed" /\ job'[p] = job[p]
      <4>1. CASE p = o
        BY <3>1, <3>2, <4>1
      <4>2. CASE p # o
        BY <3>1, <3>3, <4>2
      <4> QED
        BY <4>1, <4>2
    <3>5. Settled
      BY <3>2, <3>4 DEF Settled
    <3> QED
      BY <3>5, SettledOrder
  <2>5. CASE SupersededBeforeStarting(o)
    <3>1. Settled
      BY <2>5 DEF SupersededBeforeStarting, Settled, OrderInv
    <3> QED
      BY <3>1, SettledOrder
  <2>6. CASE CancelledAtMutex(o)
    <3>1. Settled
      BY <2>6 DEF CancelledAtMutex, Settled, OrderInv
    <3> QED
      BY <3>1, SettledOrder
  <2>7. CASE LoaderReturns(o)
    <3>1. Settled
      BY <2>7 DEF LoaderReturns, Settled, OrderInv
    <3> QED
      BY <3>1, SettledOrder
  <2>8. CASE LoaderThrows(o)
    <3>1. Settled
      BY <2>8 DEF LoaderThrows, Settled, OrderInv
    <3> QED
      BY <3>1, SettledOrder
  <2>9. CASE TestReady(o)
    <3>1. Settled
      BY <2>9 DEF TestReady, Settled, OrderInv
    <3> QED
      BY <3>1, SettledOrder
  <2>10. CASE WriteReady(o)
    <3>1. Settled
      BY <2>10 DEF WriteReady, Settled, OrderInv
    <3> QED
      BY <3>1, SettledOrder
  <2>11. CASE RefuseReady(o)
    <3>1. Settled
      BY <2>11 DEF RefuseReady, Settled, OrderInv
    <3> QED
      BY <3>1, SettledOrder
  <2>12. CASE PublishFailed(o)
    <3>1. Settled
      BY <2>12 DEF PublishFailed, Settled, OrderInv
    <3> QED
      BY <3>1, SettledOrder
  <2>13. CASE Finally(o)
    <3>1. Settled
      BY <2>13 DEF Finally, Settled, OrderInv
    <3> QED
      BY <3>1, SettledOrder
  <2>14. CASE CompleteJob(o)
    <3>1. Settled
      BY <2>14 DEF CompleteJob, Settled, OrderInv
    <3> QED
      BY <3>1, SettledOrder
<2> QED
    BY <1>2, <2>1, <2>2, <2>3, <2>4, <2>5, <2>6, <2>7, <2>8, <2>9, <2>10, <2>11, <2>12,
       <2>13, <2>14 DEF JobStep
<1>3. ASSUME NEW o \in Ops, WatchdogWakes(o) \/ WatchdogStep(o) PROVE OrderInv'
  <2>1. CASE WatchdogWakes(o)
    BY <2>1, SettledOrder DEF WatchdogWakes, Settled
  <2>2. CASE WatchdogFires(o)
    BY <2>2, SettledOrder DEF WatchdogFires, Settled
  <2>3. CASE WatchdogStops(o)
    BY <2>3, SettledOrder DEF WatchdogStops, Settled
  <2>4. CASE WatchdogCancelled(o)
    BY <2>4, SettledOrder DEF WatchdogCancelled, Settled
  <2>5. CASE WatchdogAnswers(o)
    BY <2>5, SettledOrder DEF WatchdogAnswers, Settled
<2> QED
    BY <1>3, <2>1, <2>2, <2>3, <2>4, <2>5 DEF WatchdogStep
<1>4. ASSUME NEW o \in Ops, CallProgress(o) \/ Tick(o) \/ TestProgress(o) \/ WriteProgress(o)
      PROVE OrderInv'
  <2>1. CASE CallProgress(o)
    BY <2>1, SettledOrder DEF CallProgress, Settled
  <2>2. CASE Tick(o)
    BY <2>2, SettledOrder DEF Tick, Settled
  <2>3. CASE TestProgress(o)
    BY <2>3, SettledOrder DEF TestProgress, Settled
  <2>4. CASE WriteProgress(o)
    BY <2>4, SettledOrder DEF WriteProgress, Settled
<2> QED
    BY <1>4, <2>1, <2>2, <2>3, <2>4
<1>5. ASSUME NEW r \in Requests, RequestStep(r) PROVE OrderInv'
  <2>1. CASE MatchCancel(r)
    BY <2>1, SettledOrder DEF MatchCancel, Settled
  <2>2. CASE ShutdownIdle(r)
    BY <2>2, SettledOrder DEF ShutdownIdle, Settled
  <2>3. CASE IgnoreStale(r)
    BY <2>3, SettledOrder DEF IgnoreStale, Settled
  <2>4. CASE BeginStop(r)
    BY <2>4, SettledOrder DEF BeginStop, Settled
  <2>5. CASE CancelCaptured(r)
    BY <2>5, SettledOrder DEF CancelCaptured, Settled
  <2>6. CASE ResetNow(r)
    BY <2>6, SettledOrder DEF ResetNow, Settled
  <2>7. CASE StopSucceeds(r)
    BY <2>7, SettledOrder DEF StopSucceeds, Settled
  <2>8. CASE StopStalls(r)
    BY <2>8, SettledOrder DEF StopStalls, Settled
  <2>9. CASE EndClear(r)
    BY <2>9, SettledOrder DEF EndClear, Settled
  <2>10. CASE ClearIdentity(r)
    BY <2>10, SettledOrder DEF ClearIdentity, Settled
<2> QED
    BY <1>5, <2>1, <2>2, <2>3, <2>4, <2>5, <2>6, <2>7, <2>8, <2>9,
       <2>10 DEF RequestStep
<1>6. ASSUME NEW r \in Requests, AskCancel(r) \/ AskReset(r) \/ BeginClear(r)
      PROVE OrderInv'
  <2>1. CASE AskCancel(r)
    BY <2>1, SettledOrder DEF AskCancel, Settled
  <2>2. CASE AskReset(r)
    BY <2>2, SettledOrder DEF AskReset, Settled
  <2>3. CASE BeginClear(r)
    BY <2>3, SettledOrder DEF BeginClear, Settled
<2> QED
    BY <1>6, <2>1, <2>2, <2>3
<1>7. CASE UNCHANGED vars
  BY <1>7, SettledOrder DEF vars, Settled
<1> QED
  BY <1>1, <1>2, <1>3, <1>4, <1>5, <1>6, <1>7 DEF Next

\* What is known of the answers and of the order, from the start.
LEMMA OwedInvariant == Spec => [](TypeOK /\ OwedInv /\ OrderInv)
<1>1. Init => OwedInv /\ OrderInv
  BY NoOpIsNone DEF Init, OwedInv, OrderInv, Published
<1> QED
  BY <1>1, StaleInvariant, OwedStep, OrderStep, PTL DEF Spec

\* Whoever waits for an answer waits for a job that has not published its end and
\* was not cancelled: no way a load can end, be superseded, be stopped or be
\* thrown out of a lock forgets its callers.
NobodyIsForgotten ==
  \A o \in Ops : job[o] # "none" /\ deferred[o] = "pending" =>
    /\ ~cancelled[o]
    /\ job[o] \in {"new", "join", "check", "running", "returned", "ready", "threw"}

\* No caller is left without an answer by a load that is over, for any number of
\* loads, requests and timeouts.
THEOREM CallersAreRemembered == Spec => []NobodyIsForgotten
<1>1. TypeOK /\ OwedInv => NobodyIsForgotten
  BY DEF TypeOK, OwedInv, Published, NobodyIsForgotten
<1> QED
  BY <1>1, OwedInvariant, PTL

\* Some number of a set is the least: the intervals from 1 to them are finite sets,
\* whose inclusion is well-founded.
LEMMA LeastNumber ==
  ASSUME NEW S, S \subseteq Nat, S # {}
  PROVE  \E x \in S : \A y \in S : x <= y
<1> DEFINE T == {1 .. x : x \in S}
<1>1. \A x \in Nat : 1 .. x \in FiniteSubsetsOf(Nat)
  <2> SUFFICES ASSUME NEW x \in Nat PROVE 1 .. x \in FiniteSubsetsOf(Nat)
    OBVIOUS
  <2>1. IsFiniteSet(1 .. x)
    BY FS_Interval
  <2> QED
    BY <2>1 DEF FiniteSubsetsOf
<1>2. T \subseteq FiniteSubsetsOf(Nat) /\ T # {}
  BY <1>1
<1>3. PICK X \in T : \A Y \in T : ~ (<<Y, X>> \in StrictSubsetOrdering(Nat))
  <2> HIDE DEF T
  <2> QED
    BY <1>2, FS_StrictSubsetOrderingWellFounded, WFMin, Zenon
<1>4. PICK x \in S : X = 1 .. x
  BY <1>3
<1>5. \A y \in S : x <= y
  <2> SUFFICES ASSUME NEW y \in S, y < x PROVE FALSE
    OBVIOUS
  <2>1. 1 .. y \subseteq 1 .. x /\ x \in 1 .. x /\ x \notin 1 .. y
    OBVIOUS
  <2>2. <<1 .. y, 1 .. x>> \in StrictSubsetOrdering(Nat)
    BY <2>1 DEF StrictSubsetOrdering
  <2> QED
    BY <1>3, <1>4, <2>2
<1> QED
  BY <1>5

\* Where a job stands still until another one has moved, and where only until its
\* own watchdog has: one that is armed ends with the loader alone.
Joins(o) == job[o] = "join" /\ ~Completed(previous[o]) /\ ~cancelled[o]

AtMutex(o) == job[o] \in {"check", "returned", "threw", "finally"} /\ ~MutexFree

UnderWay(o) == job[o] \notin {"none", "done"}

\* Of the loads under way one waits neither for the end of another one nor for the
\* mutex, and none that closes waits for a watchdog that nobody stops.
SomeoneGoesOn ==
  /\ (\E o \in Ops : UnderWay(o)) =>
       \E o \in Ops : UnderWay(o) /\ ~Joins(o) /\ ~AtMutex(o)
  /\ \A o \in Ops : job[o] = "closing" => watchdog[o] # "armed"

\* Loads that supersede each other never all wait, for any number of them: the
\* one that holds the mutex goes on, or the oldest one.
THEOREM NobodyIsStuck == Spec => []SomeoneGoesOn
<1>1. ASSUME TypeOK, OrderInv, NEW q \in Ops, UnderWay(q)
      PROVE  \E o \in Ops : UnderWay(o) /\ ~Joins(o) /\ ~AtMutex(o)
  <2> DEFINE S == {p \in Ops : UnderWay(p)}
  <2>1. S \subseteq Nat /\ S # {}
    BY <1>1, BoundsAssumption DEF Ops
  <2>2. PICK o \in S : \A p \in S : o <= p
    <3> HIDE DEF S
    <3> QED
      BY <2>1, LeastNumber
  <2>3. ASSUME Joins(o) PROVE FALSE
    <3>1. previous[o] # NoOp /\ previous[o] \in Ops /\ job[previous[o]] # "done"
      BY <1>1, <2>3 DEF Joins, Completed, TypeOK
    <3>2. previous[o] < o /\ job[previous[o]] # "none"
      BY <1>1, <3>1 DEF OrderInv
    <3>3. previous[o] \in S
      BY <3>1, <3>2 DEF UnderWay
    <3> QED
      BY <2>2, <3>1, <3>2, <3>3, BoundsAssumption DEF Ops
  <2>4. CASE ~MutexFree
    <3>1. PICK p \in Ops : job[p] = "ready"
      BY <2>4 DEF MutexFree
    <3> QED
      BY <3>1 DEF UnderWay, Joins, AtMutex
  <2>5. CASE MutexFree
    BY <2>2, <2>3, <2>5 DEF AtMutex
  <2> QED
    BY <2>4, <2>5
<1>2. OrderInv => \A o \in Ops : job[o] = "closing" => watchdog[o] # "armed"
  BY DEF OrderInv
<1>3. TypeOK /\ OrderInv => SomeoneGoesOn
  BY <1>1, <1>2 DEF SomeoneGoesOn
<1> QED
  BY <1>3, OwedInvariant, PTL

==============================================================================
