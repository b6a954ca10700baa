---------------------- MODULE RuntimeCoordinator_proofs ----------------------
(***************************************************************************)
(* Proofs about RuntimeCoordinator, for any number of coroutines, owners    *)
(* and instances.  On the types (TypeInv) rests who holds the Mutex         *)
(* "operations" (GateInv); on that, which released registrations are still  *)
(* to be notified (NotifyInv), what a registration that is not registered   *)
(* takes part in (IdleInv) and what the holder knows of the owner it takes  *)
(* the runtime from (HandoverInv).  Two sections add which tasks are still  *)
(* wanted (TaskInv, OwnInv) and which registrations a release that clears   *)
(* the ownership still names (ReleaseInv); the last one who holds the       *)
(* gate of the benchmarks beside "operations" (AdmissionInv).               *)
(***************************************************************************)
EXTENDS RuntimeCoordinator, TLAPS

LocalsOK ==
  \A c \in Callers :
    /\ pc[c] \in {"wait", "read", "lookup", "release", "take", "notify",
                  "enter", "block", "admit", "register", "unregister"}
       => me[c] \in Instances
    /\ pc[c] \in {"lookup", "release", "token", "check", "ria_wait", "recheck",
                  "ria_release", "ria_clear", "ria_notify"}
       => seen[c] \in Owners
    /\ pc[c] \in {"release", "notify", "ria_wait", "recheck", "ria_release",
                  "ria_clear", "ria_notify"}
       => reg[c] \in Instances

TypeInv == TypeOK /\ LocalsOK

\* A process starts with well typed registrations and empty frames.
LEMMA TypeInit == Init => TypeInv
<1> SUFFICES ASSUME Init PROVE TypeInv
  OBVIOUS
<1>1. registrations \in [Owners -> Instances \cup {None}]
  <2>1. ASSUME NEW o \in Owners, \E i \in AtStart : OwnerOf[i] = o
        PROVE  (CHOOSE i \in AtStart : OwnerOf[i] = o) \in Instances
    BY <2>1, ConfigAssumption
  <2> QED
    BY <2>1 DEF Init
<1>2. TypeOK
  BY <1>1, ConfigAssumption DEF Init, TypeOK, Waiting, Gated, Ungated
<1>3. LocalsOK
  BY DEF Init, LocalsOK
<1> QED
  BY <1>2, <1>3 DEF TypeInv

\* What the frame of a call looks like after it returned.
LEMMA ReturnTypes ==
  ASSUME TypeInv, NEW c \in Callers, Return(c)
  PROVE  /\ pc' \in [Callers -> Waiting \cup Gated \cup Ungated]
         /\ me' \in [Callers -> Instances \cup {None}]
         /\ seen' \in [Callers -> Owners \cup {None}]
         /\ reg' \in [Callers -> Instances \cup {None}]
         /\ expected' \in [Callers -> Instances \cup {None}]
         /\ targets' \in [Callers -> SUBSET Instances]
         /\ fire' \in [Callers -> SUBSET Instances]
         /\ failed' \in [Callers -> BOOLEAN]
         /\ LocalsOK'
<1> USE ConfigAssumption DEF TypeInv, TypeOK, LocalsOK, Waiting, Gated, Ungated
<1>1. CASE IsBenchmark(c)
  BY <1>1 DEF Return, IsBenchmark, locals
<1>2. CASE ~IsBenchmark(c)
  <2>1. pc' = [pc EXCEPT ![c] = "idle"] /\ ForgetLocals(c)
    BY <1>2 DEF Return
  <2>2. LocalsOK'
    BY <2>1 DEF ForgetLocals
  <2>3. /\ pc' \in [Callers -> Waiting \cup Gated \cup Ungated]
        /\ failed' \in [Callers -> BOOLEAN]
        /\ targets' \in [Callers -> SUBSET Instances]
        /\ fire' \in [Callers -> SUBSET Instances]
    BY <2>1 DEF ForgetLocals
  <2>4. /\ me' \in [Callers -> Instances \cup {None}]
        /\ seen' \in [Callers -> Owners \cup {None}]
        /\ reg' \in [Callers -> Instances \cup {None}]
        /\ expected' \in [Callers -> Instances \cup {None}]
    BY <2>1 DEF ForgetLocals
  <2> QED
    BY <2>2, <2>3, <2>4
<1> QED
  BY <1>1, <1>2

\* What a release that says Success does to the engines.
LEMMA SucceedsEffect ==
  ASSUME TypeInv, NEW i \in Instances, ReleaseSucceeds(i)
  PROVE  /\ phase' = phase
         /\ stale' \in [Callers -> BOOLEAN]
         /\ \A c \in Callers : stale[c] => stale'[c]
         /\ resident' \subseteq resident
         /\ lastSuccess' \subseteq Instances
         /\ survivors' \subseteq Instances
         /\ Held' \subseteq Held
         /\ OwnerOf[i] # Benchmark => i \notin Held'
<1> USE DEF TypeInv, TypeOK, Held, native, engines, Supersede
<1>1. CASE ReleaseCloses(i)
  BY <1>1 DEF ReleaseCloses, Close
<1>2. CASE ReleaseSkipped(i)
  BY <1>2 DEF ReleaseSkipped
<1>3. CASE OwnerOf[i] = Benchmark /\ UNCHANGED native
  BY <1>3
<1> QED
  BY <1>1, <1>2, <1>3 DEF ReleaseSucceeds

\* What a release that fails does to them.
LEMMA FailsEffect ==
  ASSUME TypeInv, NEW i \in Instances, ReleaseFails(i)
  PROVE  /\ OwnerOf[i] # Benchmark
         /\ phase' = phase \/ phase' = [phase EXCEPT ![i] = "draining"]
         /\ Supersede(i)
         /\ stale' \in [Callers -> BOOLEAN]
         /\ \A c \in Callers : stale[c] => stale'[c]
         /\ resident' = resident
         /\ lastSuccess' \subseteq Instances
         /\ survivors' = survivors
         /\ Held' = Held
  BY DEF TypeInv, TypeOK, Held, ReleaseFails, NotClosed, Supersede

\* No step of a call leaves the types of the monitor, the engines and the frames.
LEMMA TypeStep == TypeInv /\ [Next]_vars => TypeInv'
<1> SUFFICES ASSUME TypeInv, [Next]_vars PROVE TypeInv'
  OBVIOUS
<1> USE ConfigAssumption DEF TypeInv, TypeOK, LocalsOK, Waiting, Gated, Ungated, monitor,
     locals, native, engines, Goto
<1>1. ASSUME NEW c \in Callers, WithRuntime(c) PROVE TypeInv'
  <2>1. CASE CallWithRuntime(c)
    BY <2>1 DEF CallWithRuntime
  <2>2. CASE AcquireRuntime(c)
    BY <2>2 DEF AcquireRuntime, EnterGate
  <2>3. CASE ReadActiveOwner(c)
    BY <2>3 DEF ReadActiveOwner
  <2>4. CASE LookupPrevious(c)
    BY <2>4 DEF LookupPrevious
  <2>5. CASE ReleasePrevious(c)
    BY <2>5, SucceedsEffect DEF ReleasePrevious
  <2>6. CASE TransitionFails(c)
    <3>1. pc[c] = "release" /\ reg[c] \in Instances /\ ReleaseFails(reg[c])
      BY <2>6 DEF TransitionFails
    <3>2. /\ Return(c) /\ operations' = None
          /\ UNCHANGED <<registrations, activeOwner, busy, admission>>
      BY <2>6 DEF TransitionFails, ReturnUngated
    <3> HIDE DEF LocalsOK
    <3> QED
      BY <3>1, <3>2, ReturnTypes, FailsEffect
  <2>7. CASE TakeOwnership(c)
    BY <2>7 DEF TakeOwnership
  <2>8. CASE NotifyPrevious(c)
    BY <2>8 DEF NotifyPrevious
  <2>9. CASE EnterBlock(c)
    BY <2>9 DEF EnterBlock
  <2>10. CASE LoadInBlock(c)
    BY <2>10 DEF LoadInBlock
  <2>11. CASE LeaveBlock(c)
    BY <2>11, ReturnTypes DEF LeaveBlock, ReturnUngated
  <2> QED
    BY <1>1, <2>1, <2>2, <2>3, <2>4, <2>5, <2>6, <2>7, <2>8, <2>9, <2>10, <2>11
         DEF WithRuntime
<1>2. ASSUME NEW c \in Callers, RunBenchmark(c) PROVE TypeInv'
  <2>1. CASE CallBenchmark(c)
    BY <2>1 DEF CallBenchmark
  <2>2. CASE CancelAdmission(c)
    BY <2>2 DEF CancelAdmission, ForgetLocals
  <2>3. CASE AdmitBenchmark(c)
    BY <2>3 DEF AdmitBenchmark
  <2>4. CASE RegisterBenchmark(c)
    BY <2>4 DEF RegisterBenchmark
  <2>5. CASE UnregisterBenchmark(c)
    <3>1. /\ registrations' \in [Owners -> Instances \cup {None}]
          /\ activeOwner' \in Owners \cup {None}
          /\ busy' \in BOOLEAN
      <4>1. Unregister(me[c])
        BY <2>5 DEF UnregisterBenchmark
      <4>2. \/ registrations' = [registrations EXCEPT ![OwnerOf[me[c]]] = None]
            \/ registrations' = registrations
        BY <4>1 DEF Unregister
      <4>3. activeOwner' \in {activeOwner, None} /\ busy' \in {busy, FALSE}
        BY <4>1 DEF Unregister
      <4> QED
        BY <4>2, <4>3
    <3>2. /\ pc' = [pc EXCEPT ![c] = "idle"] /\ admission' = None
          /\ ForgetLocals(c) /\ UNCHANGED <<operations, native>>
      BY <2>5 DEF UnregisterBenchmark
    <3> QED
      BY <3>1, <3>2 DEF ForgetLocals
  <2> QED
    BY <1>2, <2>1, <2>2, <2>3, <2>4, <2>5 DEF RunBenchmark
<1>3. ASSUME NEW c \in Callers, ReleaseIfActive(c) PROVE TypeInv'
  <2>1. CASE CallReleaseIfActive(c)
    BY <2>1 DEF CallReleaseIfActive
  <2>2. CASE GetActiveToken(c)
    BY <2>2 DEF GetActiveToken
  <2>3. CASE CheckBeforeGate(c)
    BY <2>3 DEF CheckBeforeGate, StillExpected
  <2>4. CASE StaleBeforeGate(c)
    BY <2>4, ReturnTypes DEF StaleBeforeGate
  <2>5. CASE AcquireReleaseIfActive(c)
    BY <2>5 DEF AcquireReleaseIfActive, EnterGate
  <2>6. CASE RecheckUnderGate(c)
    BY <2>6 DEF RecheckUnderGate, StillExpected
  <2>7. CASE StaleUnderGate(c)
    BY <2>7, ReturnTypes DEF StaleUnderGate, ReturnUngated
  <2>8. CASE ReleaseExpected(c)
    BY <2>8, SucceedsEffect DEF ReleaseExpected
  <2>9. CASE ReleaseExpectedFails(c)
    <3>1. pc[c] = "ria_release" /\ reg[c] \in Instances /\ ReleaseFails(reg[c])
      BY <2>9 DEF ReleaseExpectedFails
    <3>2. /\ Return(c) /\ operations' = None
          /\ UNCHANGED <<registrations, activeOwner, busy, admission>>
      BY <2>9 DEF ReleaseExpectedFails, ReturnUngated
    <3> HIDE DEF LocalsOK
    <3> QED
      BY <3>1, <3>2, ReturnTypes, FailsEffect
  <2>10. CASE ClearReleased(c)
    BY <2>10 DEF ClearReleased, Clear
  <2>11. CASE NotifyReleased(c)
    BY <2>11, ReturnTypes DEF NotifyReleased, ReturnUngated
  <2> QED
    BY <1>3, <2>1, <2>2, <2>3, <2>4, <2>5, <2>6, <2>7, <2>8, <2>9, <2>10, <2>11
         DEF ReleaseIfActive
<1>4. ASSUME NEW c \in Callers, ReleaseAll(c) PROVE TypeInv'
  <2>1. CASE CallReleaseAll(c)
    BY <2>1 DEF CallReleaseAll, Registered
  <2>2. CASE AcquireReleaseAll(c)
    BY <2>2 DEF AcquireReleaseAll, EnterGate
  <2>3. CASE ReleaseTarget(c)
    <3>1. PICK i \in targets[c] :
            /\ targets' = [targets EXCEPT ![c] = @ \ {i}]
            /\ \/ /\ ReleaseSucceeds(i)
                  /\ fire' = [fire EXCEPT ![c] = @ \cup {i}]
                  /\ UNCHANGED failed
               \/ /\ ReleaseFails(i)
                  /\ failed' = [failed EXCEPT ![c] = TRUE]
                  /\ UNCHANGED fire
            /\ UNCHANGED <<monitor, operations, admission, pc, me, seen, reg,
                           expected>>
      BY <2>3 DEF ReleaseTarget
    <3>2. i \in Instances
      BY <3>1
    <3>3. /\ stale' \in [Callers -> BOOLEAN]
          /\ phase' \in [Instances -> {"new", "live", "draining", "releasing",
                                      "closed", "clearing", "gone"}]
          /\ resident' \subseteq Instances
          /\ lastSuccess' \subseteq Instances
          /\ survivors' \subseteq Instances
      <4>1. CASE ReleaseSucceeds(i)
        BY <4>1, <3>2, SucceedsEffect
      <4>2. CASE ReleaseFails(i)
        BY <4>2, <3>2, FailsEffect
      <4> QED
        BY <3>1, <4>1, <4>2
    <3>4. /\ targets' \in [Callers -> SUBSET Instances]
          /\ fire' \in [Callers -> SUBSET Instances]
          /\ failed' \in [Callers -> BOOLEAN]
      <4>1. targets' \in [Callers -> SUBSET Instances]
        BY <3>1
      <4>2. fire' = [fire EXCEPT ![c] = @ \cup {i}] \/ fire' = fire
        BY <3>1
      <4>3. failed' = [failed EXCEPT ![c] = TRUE] \/ failed' = failed
        BY <3>1
      <4>4. fire' \in [Callers -> SUBSET Instances]
        <5>1. CASE fire' = fire
          BY <5>1
        <5>2. CASE fire' = [fire EXCEPT ![c] = @ \cup {i}]
          BY <3>2, <5>2
        <5> QED
          BY <4>2, <5>1, <5>2
      <4>5. failed' \in [Callers -> BOOLEAN]
        BY <4>3
      <4> QED
        BY <4>1, <4>4, <4>5
    <3>5. LocalsOK'
      BY <3>1
    <3> QED
      BY <3>1, <3>3, <3>4, <3>5
  <2>4. CASE TargetsReleased(c)
    BY <2>4 DEF TargetsReleased
  <2>5. CASE ClearAll(c)
    BY <2>5 DEF ClearAll
  <2>6. CASE NotifyAll(c)
    BY <2>6, ReturnTypes DEF NotifyAll, ReturnUngated
  <2> QED
    BY <1>4, <2>1, <2>2, <2>3, <2>4, <2>5, <2>6 DEF ReleaseAll
<1>5. ASSUME NEW i \in Instances, ViewModel(i) PROVE TypeInv'
  <2>1. CASE Register(i)
    BY <2>1 DEF Register
  <2>2. CASE BeginRelease(i)
    BY <2>2 DEF BeginRelease, Supersede
  <2>3. CASE CloseOwn(i)
    BY <2>3 DEF CloseOwn, Close, NotClosed
  <2>4. CASE ClearOwn(i)
    BY <2>4 DEF ClearOwn, Clear
  <2>5. CASE OnCleared(i)
    BY <2>5 DEF OnCleared, Supersede
  <2>6. CASE CloseLate(i)
    BY <2>6 DEF CloseLate, Close
  <2>7. CASE DrainEnds(i)
    BY <2>7 DEF DrainEnds, NotClosed
  <2>8. CASE UnregisterCleared(i)
    BY <2>8 DEF UnregisterCleared, Unregister
  <2> QED
    BY <1>5, <2>1, <2>2, <2>3, <2>4, <2>5, <2>6, <2>7, <2>8 DEF ViewModel
<1>6. ASSUME NEW c \in Callers, CancelWaiting(c) PROVE TypeInv'
  BY <1>6, ReturnTypes DEF CancelWaiting
<1>7. CASE UNCHANGED vars
  BY <1>7 DEF vars
<1> QED
  BY <1>1, <1>2, <1>3, <1>4, <1>5, <1>6, <1>7 DEF Next

\* Every state of every instance of the coordinator is well typed.
THEOREM TypeCorrect == Spec => []TypeOK
<1>1. Spec => []TypeInv
  BY TypeInit, TypeStep, PTL DEF Spec
<1>2. TypeInv => TypeOK
  BY DEF TypeInv
<1> QED
  BY <1>1, <1>2, PTL

-----------------------------------------------------------------------------
(* The gate.                                                                *)

\* A coroutine is inside "operations.withLock { }" exactly if it holds the Mutex.
GateInv ==
  /\ \A c \in Callers : pc[c] \in Gated => operations = c
  /\ operations # None => pc[operations] \in Gated

\* After a return the coroutine is out of the gate and its frame is empty.
LEMMA ReturnGate ==
  ASSUME TypeInv, NEW c \in Callers, Return(c)
  PROVE  /\ pc'[c] \in {"idle", "unregister"}
         /\ \A d \in Callers \ {c} : pc'[d] = pc[d]
  BY DEF Return, TypeInv, TypeOK

\* No step separates the busy flag from the coroutine that runs its block.
LEMMA GateStep ==
  TypeInv /\ GateInv /\ BusyOnlyInBlock /\ [Next]_vars
    => (GateInv /\ BusyOnlyInBlock)'
<1> SUFFICES ASSUME TypeInv /\ GateInv /\ BusyOnlyInBlock, [Next]_vars
             PROVE  (GateInv /\ BusyOnlyInBlock)'
  OBVIOUS
<1> USE ConfigAssumption DEF TypeInv, TypeOK, LocalsOK, Waiting, Gated, Ungated, monitor,
     locals, native, engines, Goto, GateInv, BusyOnlyInBlock
<1>1. ASSUME NEW c \in Callers, WithRuntime(c) PROVE (GateInv /\ BusyOnlyInBlock)'
  <2>1. CASE CallWithRuntime(c)
    BY <2>1 DEF CallWithRuntime
  <2>2. CASE AcquireRuntime(c)
    BY <2>2 DEF AcquireRuntime, EnterGate
  <2>3. CASE ReadActiveOwner(c)
    BY <2>3 DEF ReadActiveOwner
  <2>4. CASE LookupPrevious(c)
    BY <2>4 DEF LookupPrevious
  <2>5. CASE ReleasePrevious(c)
    BY <2>5, SucceedsEffect DEF ReleasePrevious
  <2>6. CASE TransitionFails(c)
    BY <2>6, ReturnGate, FailsEffect DEF TransitionFails, ReturnUngated
  <2>7. CASE TakeOwnership(c)
    BY <2>7 DEF TakeOwnership
  <2>8. CASE NotifyPrevious(c)
    BY <2>8 DEF NotifyPrevious
  <2>9. CASE EnterBlock(c)
    BY <2>9 DEF EnterBlock
  <2>10. CASE LoadInBlock(c)
    BY <2>10 DEF LoadInBlock
  <2>11. CASE LeaveBlock(c)
    BY <2>11, ReturnGate DEF LeaveBlock, ReturnUngated
  <2> QED
    BY <1>1, <2>1, <2>2, <2>3, <2>4, <2>5, <2>6, <2>7, <2>8, <2>9, <2>10, <2>11
         DEF WithRuntime
<1>2. ASSUME NEW c \in Callers, RunBenchmark(c) PROVE (GateInv /\ BusyOnlyInBlock)'
  <2>1. CASE CallBenchmark(c)
    BY <2>1 DEF CallBenchmark
  <2>2. CASE CancelAdmission(c)
    BY <2>2 DEF CancelAdmission, ForgetLocals
  <2>3. CASE AdmitBenchmark(c)
    BY <2>3 DEF AdmitBenchmark
  <2>4. CASE RegisterBenchmark(c)
    BY <2>4 DEF RegisterBenchmark
  <2>5. CASE UnregisterBenchmark(c)
    BY <2>5 DEF UnregisterBenchmark, Unregister, ForgetLocals
  <2> QED
    BY <1>2, <2>1, <2>2, <2>3, <2>4, <2>5 DEF RunBenchmark
<1>3. ASSUME NEW c \in Callers, ReleaseIfActive(c) PROVE (GateInv /\ BusyOnlyInBlock)'
  <2>1. CASE CallReleaseIfActive(c)
    BY <2>1 DEF CallReleaseIfActive
  <2>2. CASE GetActiveToken(c)
    BY <2>2 DEF GetActiveToken
  <2>3. CASE CheckBeforeGate(c)
    BY <2>3 DEF CheckBeforeGate, StillExpected
  <2>4. CASE StaleBeforeGate(c)
    BY <2>4, ReturnGate DEF StaleBeforeGate
  <2>5. CASE AcquireReleaseIfActive(c)
    BY <2>5 DEF AcquireReleaseIfActive, EnterGate
  <2>6. CASE RecheckUnderGate(c)
    BY <2>6 DEF RecheckUnderGate, StillExpected
  <2>7. CASE StaleUnderGate(c)
    BY <2>7, ReturnGate DEF StaleUnderGate, ReturnUngated
  <2>8. CASE ReleaseExpected(c)
    BY <2>8, SucceedsEffect DEF ReleaseExpected
  <2>9. CASE ReleaseExpectedFails(c)
    BY <2>9, ReturnGate, FailsEffect DEF ReleaseExpectedFails, ReturnUngated
  <2>10. CASE ClearReleased(c)
    BY <2>10 DEF ClearReleased, Clear
  <2>11. CASE NotifyReleased(c)
    BY <2>11, ReturnGate DEF NotifyReleased, ReturnUngated
  <2> QED
    BY <1>3, <2>1, <2>2, <2>3, <2>4, <2>5, <2>6, <2>7, <2>8, <2>9, <2>10, <2>11
         DEF ReleaseIfActive
<1>4. ASSUME NEW c \in Callers, ReleaseAll(c) PROVE (GateInv /\ BusyOnlyInBlock)'
  <2>1. CASE CallReleaseAll(c)
    BY <2>1 DEF CallReleaseAll, Registered
  <2>2. CASE AcquireReleaseAll(c)
    BY <2>2 DEF AcquireReleaseAll, EnterGate
  <2>3. CASE ReleaseTarget(c)
    BY <2>3, SucceedsEffect, FailsEffect DEF ReleaseTarget
  <2>4. CASE TargetsReleased(c)
    BY <2>4 DEF TargetsReleased
  <2>5. CASE ClearAll(c)
    BY <2>5 DEF ClearAll
  <2>6. CASE NotifyAll(c)
    BY <2>6, ReturnGate DEF NotifyAll, ReturnUngated
  <2> QED
    BY <1>4, <2>1, <2>2, <2>3, <2>4, <2>5, <2>6 DEF ReleaseAll
<1>5. ASSUME NEW i \in Instances, ViewModel(i) PROVE (GateInv /\ BusyOnlyInBlock)'
  <2>1. CASE Register(i)
    BY <2>1 DEF Register
  <2>2. CASE BeginRelease(i)
    BY <2>2 DEF BeginRelease, Supersede
  <2>3. CASE CloseOwn(i)
    BY <2>3 DEF CloseOwn, Close, NotClosed
  <2>4. CASE ClearOwn(i)
    BY <2>4 DEF ClearOwn, Clear
  <2>5. CASE OnCleared(i)
    BY <2>5 DEF OnCleared, Supersede
  <2>6. CASE CloseLate(i)
    BY <2>6 DEF CloseLate, Close
  <2>7. CASE DrainEnds(i)
    BY <2>7 DEF DrainEnds, NotClosed
  <2>8. CASE UnregisterCleared(i)
    BY <2>8 DEF UnregisterCleared, Unregister
  <2> QED
    BY <1>5, <2>1, <2>2, <2>3, <2>4, <2>5, <2>6, <2>7, <2>8 DEF ViewModel
<1>6. ASSUME NEW c \in Callers, CancelWaiting(c) PROVE (GateInv /\ BusyOnlyInBlock)'
  BY <1>6, ReturnGate DEF CancelWaiting
<1>7. CASE UNCHANGED vars
  BY <1>7 DEF vars
<1> QED
  BY <1>1, <1>2, <1>3, <1>4, <1>5, <1>6, <1>7 DEF Next

\* The device is shown busy only while the holder of the gate runs its block:
\* neither unregister, clear nor a release can leave the flag set behind.
THEOREM BusyIsExact == Spec => []BusyOnlyInBlock
<1>1. Init => GateInv /\ BusyOnlyInBlock
  BY ConfigAssumption DEF Init, GateInv, BusyOnlyInBlock, Gated
<1>2. Spec => [](TypeInv /\ GateInv /\ BusyOnlyInBlock)
  BY <1>1, TypeInit, TypeStep, GateStep, PTL DEF Spec
<1> QED
  BY <1>2, PTL

-----------------------------------------------------------------------------
(* Who takes part in what.                                                  *)

\* A benchmark's registration is only ever resident inside its own block, and
\* an instance that is not registered yet takes part in nothing.
IdleInv ==
  /\ \A i \in Instances :
       /\ OwnerOf[i] = Benchmark => phase[i] = "live"
       /\ i \in resident /\ OwnerOf[i] = Benchmark =>
            \E c \in Callers : pc[c] = "block" /\ me[c] = i
       /\ phase[i] = "new" => i \notin resident
  /\ \A c \in Callers :
       /\ pc[c] \in {"admit", "register", "unregister"} => OwnerOf[me[c]] = Benchmark
       /\ me[c] # None => phase[me[c]] # "new"

\* A call that returns leaves the coroutine idle, or a benchmark to unregister.
LEMMA ReturnIdle ==
  ASSUME TypeInv, NEW c \in Callers, Return(c)
  PROVE  /\ me'[c] \in {me[c], None}
         /\ pc'[c] = "idle" \/ (pc'[c] = "unregister" /\ OwnerOf[me[c]] = Benchmark)
         /\ pc'[c] = "unregister" => me'[c] = me[c]
         /\ \A d \in Callers \ {c} : pc'[d] = pc[d] /\ me'[d] = me[d]
  BY DEF Return, ForgetLocals, IsBenchmark, locals, TypeInv, TypeOK

\* No step lets a registration act that is not registered.
LEMMA IdleStep == TypeInv /\ GateInv /\ IdleInv /\ [Next]_vars => IdleInv'
<1> SUFFICES ASSUME TypeInv /\ GateInv /\ IdleInv, [Next]_vars PROVE IdleInv'
  OBVIOUS
<1> USE ConfigAssumption DEF TypeInv, TypeOK, LocalsOK, GateInv, Waiting, Gated, Ungated,
     monitor, locals, native, engines, Goto, IdleInv
<1>1. ASSUME NEW c \in Callers, WithRuntime(c) PROVE IdleInv'
  <2>1. CASE CallWithRuntime(c)
    BY <2>1 DEF CallWithRuntime
  <2>2. CASE AcquireRuntime(c)
    BY <2>2 DEF AcquireRuntime, EnterGate
  <2>3. CASE ReadActiveOwner(c)
    BY <2>3 DEF ReadActiveOwner
  <2>4. CASE LookupPrevious(c)
    BY <2>4 DEF LookupPrevious
  <2>5. CASE ReleasePrevious(c)
    BY <2>5, SucceedsEffect DEF ReleasePrevious
  <2>6. CASE TransitionFails(c)
    BY <2>6, ReturnIdle, FailsEffect DEF TransitionFails, ReturnUngated
  <2>7. CASE TakeOwnership(c)
    BY <2>7 DEF TakeOwnership
  <2>8. CASE NotifyPrevious(c)
    BY <2>8 DEF NotifyPrevious
  <2>9. CASE EnterBlock(c)
    BY <2>9 DEF EnterBlock
  <2>10. CASE LoadInBlock(c)
    BY <2>10 DEF LoadInBlock
  <2>11. CASE LeaveBlock(c)
    <3>1. CASE resident' = resident \ {me[c]}
      BY <2>11, <3>1, ReturnIdle DEF LeaveBlock, ReturnUngated
    <3>2. CASE ~IsBenchmark(c) /\ UNCHANGED resident
      BY <2>11, <3>2, ReturnIdle DEF LeaveBlock, ReturnUngated, IsBenchmark
    <3> QED
      BY <2>11, <3>1, <3>2 DEF LeaveBlock
  <2> QED
    BY <1>1, <2>1, <2>2, <2>3, <2>4, <2>5, <2>6, <2>7, <2>8, <2>9, <2>10, <2>11
         DEF WithRuntime
<1>2. ASSUME NEW c \in Callers, RunBenchmark(c) PROVE IdleInv'
  <2>1. CASE CallBenchmark(c)
    BY <2>1 DEF CallBenchmark
  <2>2. CASE CancelAdmission(c)
    BY <2>2 DEF CancelAdmission, ForgetLocals
  <2>3. CASE AdmitBenchmark(c)
    BY <2>3 DEF AdmitBenchmark
  <2>4. CASE RegisterBenchmark(c)
    BY <2>4 DEF RegisterBenchmark
  <2>5. CASE UnregisterBenchmark(c)
    BY <2>5 DEF UnregisterBenchmark, Unregister, ForgetLocals
  <2> QED
    BY <1>2, <2>1, <2>2, <2>3, <2>4, <2>5 DEF RunBenchmark
<1>3. ASSUME NEW c \in Callers, ReleaseIfActive(c) PROVE IdleInv'
  <2>1. CASE CallReleaseIfActive(c)
    BY <2>1 DEF CallReleaseIfActive
  <2>2. CASE GetActiveToken(c)
    BY <2>2 DEF GetActiveToken
  <2>3. CASE CheckBeforeGate(c)
    BY <2>3 DEF CheckBeforeGate, StillExpected
  <2>4. CASE StaleBeforeGate(c)
    BY <2>4, ReturnIdle DEF StaleBeforeGate
  <2>5. CASE AcquireReleaseIfActive(c)
    BY <2>5 DEF AcquireReleaseIfActive, EnterGate
  <2>6. CASE RecheckUnderGate(c)
    BY <2>6 DEF RecheckUnderGate, StillExpected
  <2>7. CASE StaleUnderGate(c)
    BY <2>7, ReturnIdle DEF StaleUnderGate, ReturnUngated
  <2>8. CASE ReleaseExpected(c)
    BY <2>8, SucceedsEffect DEF ReleaseExpected
  <2>9. CASE ReleaseExpectedFails(c)
    BY <2>9, ReturnIdle, FailsEffect DEF ReleaseExpectedFails, ReturnUngated
  <2>10. CASE ClearReleased(c)
    BY <2>10 DEF ClearReleased, Clear
  <2>11. CASE NotifyReleased(c)
    BY <2>11, ReturnIdle DEF NotifyReleased, ReturnUngated
  <2> QED
    BY <1>3, <2>1, <2>2, <2>3, <2>4, <2>5, <2>6, <2>7, <2>8, <2>9, <2>10, <2>11
         DEF ReleaseIfActive
<1>4. ASSUME NEW c \in Callers, ReleaseAll(c) PROVE IdleInv'
  <2>1. CASE CallReleaseAll(c)
    BY <2>1 DEF CallReleaseAll, Registered
  <2>2. CASE AcquireReleaseAll(c)
    BY <2>2 DEF AcquireReleaseAll, EnterGate
  <2>3. CASE ReleaseTarget(c)
    BY <2>3, SucceedsEffect, FailsEffect DEF ReleaseTarget
  <2>4. CASE TargetsReleased(c)
    BY <2>4 DEF TargetsReleased
  <2>5. CASE ClearAll(c)
    BY <2>5 DEF ClearAll
  <2>6. CASE NotifyAll(c)
    BY <2>6, ReturnIdle DEF NotifyAll, ReturnUngated
  <2> QED
    BY <1>4, <2>1, <2>2, <2>3, <2>4, <2>5, <2>6 DEF ReleaseAll
<1>5. ASSUME NEW i \in Instances, ViewModel(i) PROVE IdleInv'
  <2>1. CASE Register(i)
    BY <2>1 DEF Register
  <2>2. CASE BeginRelease(i)
    BY <2>2 DEF BeginRelease, Supersede
  <2>3. CASE CloseOwn(i)
    BY <2>3 DEF CloseOwn, Close, NotClosed
  <2>4. CASE ClearOwn(i)
    BY <2>4 DEF ClearOwn, Clear
  <2>5. CASE OnCleared(i)
    BY <2>5 DEF OnCleared, Supersede
  <2>6. CASE CloseLate(i)
    BY <2>6 DEF CloseLate, Close
  <2>7. CASE DrainEnds(i)
    BY <2>7 DEF DrainEnds, NotClosed
  <2>8. CASE UnregisterCleared(i)
    BY <2>8 DEF UnregisterCleared, Unregister
  <2> QED
    BY <1>5, <2>1, <2>2, <2>3, <2>4, <2>5, <2>6, <2>7, <2>8 DEF ViewModel
<1>6. ASSUME NEW c \in Callers, CancelWaiting(c) PROVE IdleInv'
  BY <1>6, ReturnIdle DEF CancelWaiting
<1>7. CASE UNCHANGED vars
  BY <1>7 DEF vars
<1> QED
  BY <1>1, <1>2, <1>3, <1>4, <1>5, <1>6, <1>7 DEF Next

-----------------------------------------------------------------------------
(* Callbacks.  Only the holder of the gate loads an engine, so what it has   *)
(* released stays closed until it leaves.                                    *)

NotifyInv ==
  \A c \in Callers :
    /\ pc[c] \in {"idle", "admit", "register", "wait", "read", "lookup",
                  "token", "check"} => reg[c] = None
    /\ pc[c] \notin {"ra_release", "ra_clear", "ra_notify"} => fire[c] = {}
    /\ pc[c] \in {"take", "notify", "ria_clear", "ria_notify"}
       => reg[c] \notin Held
    /\ fire[c] \cap Held = {}
    /\ pc[c] \in {"idle", "token", "check", "ria_wait", "recheck",
                  "ria_release", "ria_clear", "ria_notify", "ra_wait",
                  "ra_release", "ra_clear", "ra_notify"} => me[c] = None

\* A call that returns has no registration left to notify.
LEMMA ReturnNotify ==
  ASSUME TypeInv, NEW c \in Callers, Return(c),
         fire[c] = {} \/ me[c] = None
  PROVE  /\ pc'[c] = "idle" => reg'[c] = None /\ me'[c] = None
         /\ pc'[c] \in {"idle", "unregister"} /\ fire'[c] = {}
         /\ \A d \in Callers \ {c} :
              /\ pc'[d] = pc[d] /\ reg'[d] = reg[d]
              /\ fire'[d] = fire[d] /\ me'[d] = me[d]
  BY ConfigAssumption DEF Return, ForgetLocals, IsBenchmark, locals, TypeInv, TypeOK

\* No step leaves a released registration to be notified while its engine is open.
LEMMA NotifyStep ==
  TypeInv /\ GateInv /\ IdleInv /\ NotifyInv /\ [Next]_vars => NotifyInv'
<1> SUFFICES ASSUME TypeInv /\ GateInv /\ IdleInv /\ NotifyInv, [Next]_vars
             PROVE  NotifyInv'
  OBVIOUS
<1> USE ConfigAssumption DEF TypeInv, TypeOK, LocalsOK, GateInv, Waiting, Gated, Ungated,
     monitor, locals, native, engines, Goto, IdleInv, NotifyInv, Held
<1>1. ASSUME NEW c \in Callers, WithRuntime(c) PROVE NotifyInv'
  <2>1. CASE CallWithRuntime(c)
    BY <2>1 DEF CallWithRuntime
  <2>2. CASE AcquireRuntime(c)
    BY <2>2 DEF AcquireRuntime, EnterGate
  <2>3. CASE ReadActiveOwner(c)
    BY <2>3 DEF ReadActiveOwner
  <2>4. CASE LookupPrevious(c)
    BY <2>4 DEF LookupPrevious
  <2>5. CASE ReleasePrevious(c)
    BY <2>5, SucceedsEffect DEF ReleasePrevious
  <2>6. CASE TransitionFails(c)
    BY <2>6, ReturnNotify, FailsEffect DEF TransitionFails, ReturnUngated
  <2>7. CASE TakeOwnership(c)
    BY <2>7 DEF TakeOwnership
  <2>8. CASE NotifyPrevious(c)
    BY <2>8 DEF NotifyPrevious
  <2>9. CASE EnterBlock(c)
    BY <2>9 DEF EnterBlock
  <2>10. CASE LoadInBlock(c)
    BY <2>10 DEF LoadInBlock
  <2>11. CASE LeaveBlock(c)
    BY <2>11, ReturnNotify DEF LeaveBlock, ReturnUngated
  <2> QED
    BY <1>1, <2>1, <2>2, <2>3, <2>4, <2>5, <2>6, <2>7, <2>8, <2>9, <2>10, <2>11
         DEF WithRuntime
<1>2. ASSUME NEW c \in Callers, RunBenchmark(c) PROVE NotifyInv'
  <2>1. CASE CallBenchmark(c)
    BY <2>1 DEF CallBenchmark
  <2>2. CASE CancelAdmission(c)
    BY <2>2 DEF CancelAdmission, ForgetLocals
  <2>3. CASE AdmitBenchmark(c)
    BY <2>3 DEF AdmitBenchmark
  <2>4. CASE RegisterBenchmark(c)
    BY <2>4 DEF RegisterBenchmark
  <2>5. CASE UnregisterBenchmark(c)
    BY <2>5 DEF UnregisterBenchmark, Unregister, ForgetLocals
  <2> QED
    BY <1>2, <2>1, <2>2, <2>3, <2>4, <2>5 DEF RunBenchmark
<1>3. ASSUME NEW c \in Callers, ReleaseIfActive(c) PROVE NotifyInv'
  <2>1. CASE CallReleaseIfActive(c)
    BY <2>1 DEF CallReleaseIfActive
  <2>2. CASE GetActiveToken(c)
    BY <2>2 DEF GetActiveToken
  <2>3. CASE CheckBeforeGate(c)
    BY <2>3 DEF CheckBeforeGate, StillExpected
  <2>4. CASE StaleBeforeGate(c)
    BY <2>4, ReturnNotify DEF StaleBeforeGate
  <2>5. CASE AcquireReleaseIfActive(c)
    BY <2>5 DEF AcquireReleaseIfActive, EnterGate
  <2>6. CASE RecheckUnderGate(c)
    BY <2>6 DEF RecheckUnderGate, StillExpected
  <2>7. CASE StaleUnderGate(c)
    BY <2>7, ReturnNotify DEF StaleUnderGate, ReturnUngated
  <2>8. CASE ReleaseExpected(c)
    BY <2>8, SucceedsEffect DEF ReleaseExpected
  <2>9. CASE ReleaseExpectedFails(c)
    BY <2>9, ReturnNotify, FailsEffect DEF ReleaseExpectedFails, ReturnUngated
  <2>10. CASE ClearReleased(c)
    BY <2>10 DEF ClearReleased, Clear
  <2>11. CASE NotifyReleased(c)
    BY <2>11, ReturnNotify DEF NotifyReleased, ReturnUngated
  <2> QED
    BY <1>3, <2>1, <2>2, <2>3, <2>4, <2>5, <2>6, <2>7, <2>8, <2>9, <2>10, <2>11
         DEF ReleaseIfActive
<1>4. ASSUME NEW c \in Callers, ReleaseAll(c) PROVE NotifyInv'
  <2>1. CASE CallReleaseAll(c)
    BY <2>1 DEF CallReleaseAll, Registered
  <2>2. CASE AcquireReleaseAll(c)
    BY <2>2 DEF AcquireReleaseAll, EnterGate
  <2>3. CASE ReleaseTarget(c)
    BY <2>3, SucceedsEffect, FailsEffect DEF ReleaseTarget
  <2>4. CASE TargetsReleased(c)
    BY <2>4 DEF TargetsReleased
  <2>5. CASE ClearAll(c)
    BY <2>5 DEF ClearAll
  <2>6. CASE NotifyAll(c)
    BY <2>6, ReturnNotify DEF NotifyAll, ReturnUngated
  <2> QED
    BY <1>4, <2>1, <2>2, <2>3, <2>4, <2>5, <2>6 DEF ReleaseAll
<1>5. ASSUME NEW i \in Instances, ViewModel(i) PROVE NotifyInv'
  <2>1. CASE Register(i)
    BY <2>1 DEF Register
  <2>2. CASE BeginRelease(i)
    BY <2>2 DEF BeginRelease, Supersede
  <2>3. CASE CloseOwn(i)
    BY <2>3 DEF CloseOwn, Close, NotClosed
  <2>4. CASE ClearOwn(i)
    BY <2>4 DEF ClearOwn, Clear
  <2>5. CASE OnCleared(i)
    BY <2>5 DEF OnCleared, Supersede
  <2>6. CASE CloseLate(i)
    BY <2>6 DEF CloseLate, Close
  <2>7. CASE DrainEnds(i)
    BY <2>7 DEF DrainEnds, NotClosed
  <2>8. CASE UnregisterCleared(i)
    BY <2>8 DEF UnregisterCleared, Unregister
  <2> QED
    BY <1>5, <2>1, <2>2, <2>3, <2>4, <2>5, <2>6, <2>7, <2>8 DEF ViewModel
<1>6. ASSUME NEW c \in Callers, CancelWaiting(c) PROVE NotifyInv'
  BY <1>6, ReturnNotify DEF CancelWaiting
<1>7. CASE UNCHANGED vars
  BY <1>7 DEF vars
<1> QED
  BY <1>1, <1>2, <1>3, <1>4, <1>5, <1>6, <1>7 DEF Next

\* onReleased reaches the user interface only for an engine that is closed, or that
\* its release left loaded and reported as Success all the same.
THEOREM CallbacksFollowClose == Spec => []NotifiedOnlyWhenClosed
<1>1. Init => GateInv /\ BusyOnlyInBlock /\ IdleInv /\ NotifyInv
  BY ConfigAssumption DEF Init, GateInv, BusyOnlyInBlock, Gated, IdleInv, NotifyInv
<1>2. Spec => [](TypeInv /\ GateInv /\ BusyOnlyInBlock /\ IdleInv /\ NotifyInv)
  BY <1>1, TypeInit, TypeStep, GateStep, IdleStep, NotifyStep, PTL DEF Spec
<1>3. NotifyInv => NotifiedOnlyWhenClosed
  BY DEF NotifyInv, NotifiedOnlyWhenClosed
<1> QED
  BY <1>2, <1>3, PTL

-----------------------------------------------------------------------------
(* Handing the runtime over.                                                *)

\* Between reading the previous owner and taking over, the gate's holder knows
\* the registration that may still be loaded.
HandoverInv ==
  \A c \in Callers :
    /\ pc[c] \in {"lookup", "release"} => activeOwner \in {None, seen[c]}
    /\ pc[c] = "release" =>
         registrations[seen[c]] = reg[c] \/ registrations[seen[c]] \notin Held
    /\ pc[c] = "take" =>
         \/ activeOwner \in {None, OwnerOf[me[c]]}
         \/ registrations[activeOwner] \notin Held

\* A call that returns leaves the other coroutines' frames alone.
LEMMA ReturnFrame ==
  ASSUME TypeInv, NEW c \in Callers, Return(c)
  PROVE  /\ pc'[c] \in {"idle", "unregister"}
         /\ \A d \in Callers \ {c} : /\ pc'[d] = pc[d] /\ me'[d] = me[d]
                                     /\ seen'[d] = seen[d] /\ reg'[d] = reg[d]
  BY DEF Return, ForgetLocals, IsBenchmark, locals, TypeInv, TypeOK

\* No step of another call unloads or replaces what the gate's holder has read.
LEMMA HandoverStep ==
  TypeInv /\ GateInv /\ IdleInv /\ HandoverInv /\ [Next]_vars
    => HandoverInv'
<1> SUFFICES ASSUME TypeInv /\ GateInv /\ IdleInv /\ HandoverInv, [Next]_vars
             PROVE  HandoverInv'
  OBVIOUS
<1> USE ConfigAssumption DEF TypeInv, TypeOK, LocalsOK, GateInv, Waiting, Gated, Ungated,
     monitor, locals, native, engines, Goto, IdleInv, HandoverInv, Held
<1>1. ASSUME NEW c \in Callers, WithRuntime(c) PROVE HandoverInv'
  <2>1. CASE CallWithRuntime(c)
    BY <2>1 DEF CallWithRuntime
  <2>2. CASE AcquireRuntime(c)
    BY <2>2 DEF AcquireRuntime, EnterGate
  <2>3. CASE ReadActiveOwner(c)
    BY <2>3 DEF ReadActiveOwner
  <2>4. CASE LookupPrevious(c)
    BY <2>4 DEF LookupPrevious
  <2>5. CASE ReleasePrevious(c)
    BY <2>5, SucceedsEffect DEF ReleasePrevious
  <2>6. CASE TransitionFails(c)
    BY <2>6, ReturnGate, FailsEffect DEF TransitionFails, ReturnUngated
  <2>7. CASE TakeOwnership(c)
    BY <2>7 DEF TakeOwnership
  <2>8. CASE NotifyPrevious(c)
    BY <2>8 DEF NotifyPrevious
  <2>9. CASE EnterBlock(c)
    BY <2>9 DEF EnterBlock
  <2>10. CASE LoadInBlock(c)
    BY <2>10 DEF LoadInBlock
  <2>11. CASE LeaveBlock(c)
    BY <2>11, ReturnGate DEF LeaveBlock, ReturnUngated
  <2> QED
    BY <1>1, <2>1, <2>2, <2>3, <2>4, <2>5, <2>6, <2>7, <2>8, <2>9, <2>10, <2>11
         DEF WithRuntime
<1>2. ASSUME NEW c \in Callers, RunBenchmark(c) PROVE HandoverInv'
  <2>1. CASE CallBenchmark(c)
    BY <2>1 DEF CallBenchmark
  <2>2. CASE CancelAdmission(c)
    BY <2>2 DEF CancelAdmission, ForgetLocals
  <2>3. CASE AdmitBenchmark(c)
    BY <2>3 DEF AdmitBenchmark
  <2>4. CASE RegisterBenchmark(c)
    BY <2>4 DEF RegisterBenchmark
  <2>5. CASE UnregisterBenchmark(c)
    BY <2>5 DEF UnregisterBenchmark, Unregister, ForgetLocals
  <2> QED
    BY <1>2, <2>1, <2>2, <2>3, <2>4, <2>5 DEF RunBenchmark
<1>3. ASSUME NEW c \in Callers, ReleaseIfActive(c) PROVE HandoverInv'
  <2>1. CASE CallReleaseIfActive(c)
    BY <2>1 DEF CallReleaseIfActive
  <2>2. CASE GetActiveToken(c)
    BY <2>2 DEF GetActiveToken
  <2>3. CASE CheckBeforeGate(c)
    BY <2>3 DEF CheckBeforeGate, StillExpected
  <2>4. CASE StaleBeforeGate(c)
    BY <2>4, ReturnFrame DEF StaleBeforeGate
  <2>5. CASE AcquireReleaseIfActive(c)
    BY <2>5 DEF AcquireReleaseIfActive, EnterGate
  <2>6. CASE RecheckUnderGate(c)
    BY <2>6 DEF RecheckUnderGate, StillExpected
  <2>7. CASE StaleUnderGate(c)
    BY <2>7, ReturnGate DEF StaleUnderGate, ReturnUngated
  <2>8. CASE ReleaseExpected(c)
    BY <2>8, SucceedsEffect DEF ReleaseExpected
  <2>9. CASE ReleaseExpectedFails(c)
    BY <2>9, ReturnGate, FailsEffect DEF ReleaseExpectedFails, ReturnUngated
  <2>10. CASE ClearReleased(c)
    BY <2>10 DEF ClearReleased, Clear
  <2>11. CASE NotifyReleased(c)
    BY <2>11, ReturnGate DEF NotifyReleased, ReturnUngated
  <2> QED
    BY <1>3, <2>1, <2>2, <2>3, <2>4, <2>5, <2>6, <2>7, <2>8, <2>9, <2>10, <2>11
         DEF ReleaseIfActive
<1>4. ASSUME NEW c \in Callers, ReleaseAll(c) PROVE HandoverInv'
  <2>1. CASE CallReleaseAll(c)
    BY <2>1 DEF CallReleaseAll, Registered
  <2>2. CASE AcquireReleaseAll(c)
    BY <2>2 DEF AcquireReleaseAll, EnterGate
  <2>3. CASE ReleaseTarget(c)
    BY <2>3, SucceedsEffect, FailsEffect DEF ReleaseTarget
  <2>4. CASE TargetsReleased(c)
    BY <2>4 DEF TargetsReleased
  <2>5. CASE ClearAll(c)
    BY <2>5 DEF ClearAll
  <2>6. CASE NotifyAll(c)
    BY <2>6, ReturnGate DEF NotifyAll, ReturnUngated
  <2> QED
    BY <1>4, <2>1, <2>2, <2>3, <2>4, <2>5, <2>6 DEF ReleaseAll
<1>5. ASSUME NEW i \in Instances, ViewModel(i) PROVE HandoverInv'
  <2>1. CASE Register(i)
    BY <2>1 DEF Register
  <2>2. CASE BeginRelease(i)
    BY <2>2 DEF BeginRelease, Supersede
  <2>3. CASE CloseOwn(i)
    BY <2>3 DEF CloseOwn, Close, NotClosed
  <2>4. CASE ClearOwn(i)
    BY <2>4 DEF ClearOwn, Clear
  <2>5. CASE OnCleared(i)
    BY <2>5 DEF OnCleared, Supersede
  <2>6. CASE CloseLate(i)
    BY <2>6 DEF CloseLate, Close
  <2>7. CASE DrainEnds(i)
    BY <2>7 DEF DrainEnds, NotClosed
  <2>8. CASE UnregisterCleared(i)
    BY <2>8 DEF UnregisterCleared, Unregister
  <2> QED
    BY <1>5, <2>1, <2>2, <2>3, <2>4, <2>5, <2>6, <2>7, <2>8 DEF ViewModel
<1>6. ASSUME NEW c \in Callers, CancelWaiting(c) PROVE HandoverInv'
  BY <1>6, ReturnFrame DEF CancelWaiting
<1>7. CASE UNCHANGED vars
  BY <1>7 DEF vars
<1> QED
  BY <1>1, <1>2, <1>3, <1>4, <1>5, <1>6, <1>7 DEF Next

\* The runtime passes straight from one owner to the next only when the engine
\* of the previous owner's registration is closed, or its release skipped the close
\* and said Success, however calls, timeouts, cancellations, view-model deaths and
\* registrations interleave.
THEOREM HandoverIsSafe == Spec => HandoverReleases
<1> DEFINE Inv == TypeInv /\ GateInv /\ IdleInv /\ HandoverInv
           Safe == (activeOwner' # activeOwner /\ activeOwner # None /\ activeOwner' # None)
                     => registrations[activeOwner] \notin Held
<1>1. Init => GateInv /\ BusyOnlyInBlock /\ IdleInv /\ HandoverInv
  BY ConfigAssumption DEF Init, GateInv, BusyOnlyInBlock, Gated, IdleInv, HandoverInv
<1>2. Spec => [](Inv /\ BusyOnlyInBlock)
  BY <1>1, TypeInit, TypeStep, GateStep, IdleStep, HandoverStep, PTL DEF Spec
<1>3. Inv /\ [Next]_vars => [Safe]_vars
  <2> SUFFICES ASSUME Inv, Next, activeOwner' # activeOwner,
                      activeOwner # None, activeOwner' # None
               PROVE  registrations[activeOwner] \notin Held
    BY DEF vars
  <2>1. PICK c \in Callers : TakeOwnership(c)
    <3>1. ASSUME NEW c \in Callers, WithRuntime(c)
          PROVE  activeOwner' \in {activeOwner, None} \/ TakeOwnership(c)
      BY <3>1 DEF WithRuntime, CallWithRuntime, AcquireRuntime, EnterGate,
         ReadActiveOwner, LookupPrevious, ReleasePrevious, TransitionFails,
         NotifyPrevious, EnterBlock, LoadInBlock, LeaveBlock, monitor
    <3>2. ASSUME NEW c \in Callers, RunBenchmark(c)
          PROVE  activeOwner' \in {activeOwner, None}
      BY <3>2 DEF RunBenchmark, CallBenchmark, CancelAdmission,
         AdmitBenchmark, RegisterBenchmark, UnregisterBenchmark, Unregister,
         monitor
    <3>3. ASSUME NEW c \in Callers, ReleaseIfActive(c)
          PROVE  activeOwner' \in {activeOwner, None}
      BY <3>3 DEF ReleaseIfActive, CallReleaseIfActive, GetActiveToken,
         CheckBeforeGate, StaleBeforeGate, AcquireReleaseIfActive,
         EnterGate, RecheckUnderGate, StaleUnderGate, ReleaseExpected,
         ReleaseExpectedFails, ClearReleased, Clear, NotifyReleased, monitor
    <3>4. ASSUME NEW c \in Callers, ReleaseAll(c)
          PROVE  activeOwner' \in {activeOwner, None}
      BY <3>4 DEF ReleaseAll, CallReleaseAll, AcquireReleaseAll, EnterGate,
         ReleaseTarget, TargetsReleased, ClearAll, NotifyAll, monitor
    <3>5. ASSUME NEW i \in Instances, ViewModel(i)
          PROVE  activeOwner' \in {activeOwner, None}
      BY <3>5 DEF ViewModel, Register, BeginRelease, CloseOwn, ClearOwn,
         Clear, OnCleared, CloseLate, DrainEnds, UnregisterCleared,
         Unregister, monitor
    <3>6. ASSUME NEW c \in Callers, CancelWaiting(c) PROVE activeOwner' = activeOwner
      BY <3>6 DEF CancelWaiting, monitor
    <3> QED
      BY <3>1, <3>2, <3>3, <3>4, <3>5, <3>6 DEF Next
  <2> QED
    BY <2>1, ConfigAssumption DEF TakeOwnership, Goto, HandoverInv, TypeInv, TypeOK
<1> QED
  BY <1>2, <1>3, PTL DEF Spec, HandoverReleases

-----------------------------------------------------------------------------
(* Ownership.  What a wanted block relies on is its own owner's             *)
(* registration, so the proofs are about an owner that registers once.      *)

\* One view model per owner: with a second one of the same owner, the death of
\* either clears the ownership that the other one's block relies on.
OneEach ==
  \A i, j \in Instances : OwnerOf[i] = OwnerOf[j] /\ OwnerOf[i] # Benchmark => i = j

\* Every view model has registered before the first call.
AllAtStart == \A i \in Instances : OwnerOf[i] # Benchmark => i \in AtStart

\* A task of an instance that is being unloaded has been superseded, one
\* benchmark at a time runs under the admission gate, and it registers while no
\* benchmark engine is loaded.
TaskInv ==
  /\ \A o \in Owners : registrations[o] # None => OwnerOf[registrations[o]] = o
  /\ \A c \in Callers :
       /\ me[c] # None /\ phase[me[c]] # "live" => stale[c]
       /\ IsBenchmark(c) /\ pc[c] # "admit" => admission = c
       /\ pc[c] = "register" => registrations[Benchmark] \notin resident

\* A call that returns leaves an empty frame, or that of a benchmark.
LEMMA ReturnTask ==
  ASSUME TypeInv, NEW c \in Callers, Return(c)
  PROVE  /\ me'[c] = None \/ (me'[c] = me[c] /\ IsBenchmark(c))
         /\ pc'[c] \in {"idle", "unregister"}
         /\ \A d \in Callers \ {c} :
              /\ pc'[d] = pc[d] /\ me'[d] = me[d]
              /\ seen'[d] = seen[d] /\ reg'[d] = reg[d]
              /\ targets'[d] = targets[d] /\ fire'[d] = fire[d]
              /\ failed'[d] = failed[d]
  BY DEF Return, ForgetLocals, IsBenchmark, locals, TypeInv, TypeOK

\* The tasks that run on behalf of a superseded instance are stale.
LEMMA SupersedeMarks ==
  ASSUME NEW i, Supersede(i)
  PROVE  \A c \in Callers : (stale[c] => stale'[c]) /\ (me[c] = i => stale'[c])
  BY Zenon DEF Supersede

\* No step leaves a task of an unloading instance wanted, or admits a second
\* benchmark beside the first.
LEMMA TaskStep ==
  TypeInv /\ GateInv /\ NotifyInv /\ IdleInv /\ TaskInv /\ [Next]_vars => TaskInv'
<1> SUFFICES ASSUME TypeInv /\ GateInv /\ NotifyInv /\ IdleInv /\ TaskInv, [Next]_vars
             PROVE  TaskInv'
  OBVIOUS
<1> USE ConfigAssumption DEF TypeInv, TypeOK, LocalsOK, GateInv, NotifyInv, IdleInv,
     Waiting, Gated, Ungated, monitor, locals, native, engines, Goto, TaskInv, IsBenchmark
<1>1. ASSUME NEW c \in Callers, WithRuntime(c) PROVE TaskInv'
  <2>1. CASE CallWithRuntime(c)
    BY <2>1 DEF CallWithRuntime
  <2>2. CASE AcquireRuntime(c)
    BY <2>2 DEF AcquireRuntime, EnterGate
  <2>3. CASE ReadActiveOwner(c)
    BY <2>3 DEF ReadActiveOwner
  <2>4. CASE LookupPrevious(c)
    BY <2>4 DEF LookupPrevious
  <2>5. CASE ReleasePrevious(c)
    BY <2>5, SucceedsEffect DEF ReleasePrevious
  <2>6. CASE TransitionFails(c)
    <3>1. /\ pc[c] = "release" /\ ReleaseFails(reg[c]) /\ Return(c)
          /\ UNCHANGED <<registrations, admission>>
      BY <2>6 DEF TransitionFails, ReturnUngated
    <3>2. Supersede(reg[c]) /\ UNCHANGED resident
      BY <3>1, FailsEffect
    <3>3. phase' = phase \/ phase' = [phase EXCEPT ![reg[c]] = "draining"]
      BY <3>1, FailsEffect
    <3>4. \A d \in Callers : /\ me'[d] # None => me'[d] = me[d]
                             /\ stale[d] => stale'[d]
                             /\ me[d] = reg[c] => stale'[d]
      BY <3>1, <3>2, ReturnTask, SupersedeMarks
    <3>5. ASSUME NEW d \in Callers, me'[d] # None, phase'[me'[d]] # "live"
          PROVE  stale'[d]
      <4>1. me'[d] = me[d] /\ (phase[me[d]] # "live" \/ me[d] = reg[c])
        BY <3>3, <3>4, <3>5
      <4> QED
        BY <3>4, <3>5, <4>1
    <3>6. ASSUME NEW d \in Callers
          PROVE  /\ IsBenchmark(d)' /\ pc'[d] # "admit" => admission' = d
                 /\ pc'[d] = "register" => registrations'[Benchmark] \notin resident'
      BY <3>1, <3>2, ReturnTask
    <3> QED
      BY <3>1, <3>5, <3>6
  <2>7. CASE TakeOwnership(c)
    BY <2>7 DEF TakeOwnership
  <2>8. CASE NotifyPrevious(c)
    BY <2>8 DEF NotifyPrevious
  <2>9. CASE EnterBlock(c)
    BY <2>9 DEF EnterBlock
  <2>10. CASE LoadInBlock(c)
    BY <2>10 DEF LoadInBlock
  <2>11. CASE LeaveBlock(c)
    BY <2>11, ReturnTask DEF LeaveBlock, ReturnUngated
  <2> QED
    BY <1>1, <2>1, <2>2, <2>3, <2>4, <2>5, <2>6, <2>7, <2>8, <2>9, <2>10, <2>11
         DEF WithRuntime
<1>2. ASSUME NEW c \in Callers, RunBenchmark(c) PROVE TaskInv'
  <2>1. CASE CallBenchmark(c)
    BY <2>1 DEF CallBenchmark
  <2>2. CASE CancelAdmission(c)
    BY <2>2 DEF CancelAdmission, ForgetLocals
  <2>3. CASE AdmitBenchmark(c)
    BY <2>3 DEF AdmitBenchmark
  <2>4. CASE RegisterBenchmark(c)
    BY <2>4 DEF RegisterBenchmark
  <2>5. CASE UnregisterBenchmark(c)
    BY <2>5 DEF UnregisterBenchmark, Unregister, ForgetLocals
  <2> QED
    BY <1>2, <2>1, <2>2, <2>3, <2>4, <2>5 DEF RunBenchmark
<1>3. ASSUME NEW c \in Callers, ReleaseIfActive(c) PROVE TaskInv'
  <2>1. CASE CallReleaseIfActive(c)
    BY <2>1 DEF CallReleaseIfActive
  <2>2. CASE GetActiveToken(c)
    BY <2>2 DEF GetActiveToken
  <2>3. CASE CheckBeforeGate(c)
    BY <2>3 DEF CheckBeforeGate, StillExpected
  <2>4. CASE StaleBeforeGate(c)
    BY <2>4, ReturnTask DEF StaleBeforeGate
  <2>5. CASE AcquireReleaseIfActive(c)
    BY <2>5 DEF AcquireReleaseIfActive, EnterGate
  <2>6. CASE RecheckUnderGate(c)
    BY <2>6 DEF RecheckUnderGate, StillExpected
  <2>7. CASE StaleUnderGate(c)
    BY <2>7, ReturnTask DEF StaleUnderGate, ReturnUngated
  <2>8. CASE ReleaseExpected(c)
    BY <2>8, SucceedsEffect DEF ReleaseExpected
  <2>9. CASE ReleaseExpectedFails(c)
    <3>1. /\ pc[c] = "ria_release" /\ ReleaseFails(reg[c]) /\ Return(c)
          /\ UNCHANGED <<registrations, admission>>
      BY <2>9 DEF ReleaseExpectedFails, ReturnUngated
    <3>2. Supersede(reg[c]) /\ UNCHANGED resident
      BY <3>1, FailsEffect
    <3>3. phase' = phase \/ phase' = [phase EXCEPT ![reg[c]] = "draining"]
      BY <3>1, FailsEffect
    <3>4. \A d \in Callers : /\ me'[d] # None => me'[d] = me[d]
                             /\ stale[d] => stale'[d]
                             /\ me[d] = reg[c] => stale'[d]
      BY <3>1, <3>2, ReturnTask, SupersedeMarks
    <3>5. ASSUME NEW d \in Callers, me'[d] # None, phase'[me'[d]] # "live"
          PROVE  stale'[d]
      <4>1. me'[d] = me[d] /\ (phase[me[d]] # "live" \/ me[d] = reg[c])
        BY <3>3, <3>4, <3>5
      <4> QED
        BY <3>4, <3>5, <4>1
    <3>6. ASSUME NEW d \in Callers
          PROVE  /\ IsBenchmark(d)' /\ pc'[d] # "admit" => admission' = d
                 /\ pc'[d] = "register" => registrations'[Benchmark] \notin resident'
      BY <3>1, <3>2, ReturnTask
    <3> QED
      BY <3>1, <3>5, <3>6
  <2>10. CASE ClearReleased(c)
    BY <2>10 DEF ClearReleased, Clear
  <2>11. CASE NotifyReleased(c)
    BY <2>11, ReturnTask DEF NotifyReleased, ReturnUngated
  <2> QED
    BY <1>3, <2>1, <2>2, <2>3, <2>4, <2>5, <2>6, <2>7, <2>8, <2>9, <2>10, <2>11
         DEF ReleaseIfActive
<1>4. ASSUME NEW c \in Callers, ReleaseAll(c) PROVE TaskInv'
  <2>1. CASE CallReleaseAll(c)
    BY <2>1 DEF CallReleaseAll, Registered
  <2>2. CASE AcquireReleaseAll(c)
    BY <2>2 DEF AcquireReleaseAll, EnterGate
  <2>3. CASE ReleaseTarget(c)
    <3>1. PICK i \in targets[c] : ReleaseSucceeds(i) \/ ReleaseFails(i)
      BY <2>3 DEF ReleaseTarget
    <3>2. UNCHANGED <<registrations, admission, pc, me>>
      BY <2>3 DEF ReleaseTarget
    <3>3. i \in Instances
      BY <3>1
    <3>4. /\ resident' \subseteq resident
          /\ \A d \in Callers : stale[d] => stale'[d]
      BY <3>1, <3>3, SucceedsEffect, FailsEffect
    <3>5. \/ phase' = phase
          \/ phase' = [phase EXCEPT ![i] = "draining"] /\ Supersede(i)
      BY <3>1, <3>3, SucceedsEffect, FailsEffect
    <3> QED
      BY <3>2, <3>4, <3>5, SupersedeMarks
  <2>4. CASE TargetsReleased(c)
    BY <2>4 DEF TargetsReleased
  <2>5. CASE ClearAll(c)
    BY <2>5 DEF ClearAll
  <2>6. CASE NotifyAll(c)
    BY <2>6, ReturnTask DEF NotifyAll, ReturnUngated
  <2> QED
    BY <1>4, <2>1, <2>2, <2>3, <2>4, <2>5, <2>6 DEF ReleaseAll
<1>5. ASSUME NEW i \in Instances, ViewModel(i) PROVE TaskInv'
  <2>1. CASE Register(i)
    BY <2>1 DEF Register
  <2>2. CASE BeginRelease(i)
    BY <2>2, SupersedeMarks DEF BeginRelease
  <2>3. CASE CloseOwn(i)
    BY <2>3 DEF CloseOwn, Close, NotClosed, InBlock
  <2>4. CASE ClearOwn(i)
    BY <2>4 DEF ClearOwn, Clear
  <2>5. CASE OnCleared(i)
    BY <2>5, SupersedeMarks DEF OnCleared
  <2>6. CASE CloseLate(i)
    BY <2>6 DEF CloseLate, Close
  <2>7. CASE DrainEnds(i)
    BY <2>7 DEF DrainEnds, NotClosed
  <2>8. CASE UnregisterCleared(i)
    BY <2>8 DEF UnregisterCleared, Unregister
  <2> QED
    BY <1>5, <2>1, <2>2, <2>3, <2>4, <2>5, <2>6, <2>7, <2>8 DEF ViewModel
<1>6. ASSUME NEW c \in Callers, CancelWaiting(c) PROVE TaskInv'
  BY <1>6, ReturnTask DEF CancelWaiting
<1>7. CASE UNCHANGED vars
  BY <1>7 DEF vars
<1> QED
  BY <1>1, <1>2, <1>3, <1>4, <1>5, <1>6, <1>7 DEF Next

\* From taking the runtime over to the end of its block, a task that nobody has
\* superseded has its owner active, and the device shown busy in the block.
OwnInv ==
  \A c \in Callers :
    pc[c] \in {"notify", "enter", "block"} /\ ~stale[c] =>
      /\ activeOwner = OwnerOf[me[c]]
      /\ pc[c] = "block" => busy

\* A process starts with no task, and with every registration under its owner.
LEMMA TaskInit == Init => TaskInv /\ OwnInv
<1> SUFFICES ASSUME Init PROVE TaskInv /\ OwnInv
  OBVIOUS
<1>1. ASSUME NEW o \in Owners, registrations[o] # None
      PROVE  OwnerOf[registrations[o]] = o
  BY <1>1 DEF Init
<1> QED
  BY <1>1, ConfigAssumption DEF Init, TaskInv, OwnInv, IsBenchmark

\* No step takes the runtime from a wanted block.
LEMMA OwnStep ==
  ASSUME OneEach
  PROVE  TypeInv /\ GateInv /\ IdleInv /\ TaskInv /\ OwnInv /\ [Next]_vars => OwnInv'
<1> SUFFICES ASSUME TypeInv /\ GateInv /\ IdleInv /\ TaskInv /\ OwnInv, [Next]_vars
             PROVE  OwnInv'
  OBVIOUS
<1> USE ConfigAssumption DEF TypeInv, TypeOK, LocalsOK, GateInv, IdleInv,
     Waiting, Gated, Ungated, monitor, locals, native, engines, Goto, TaskInv, IsBenchmark,
     OwnInv, OneEach
<1>1. ASSUME NEW c \in Callers, WithRuntime(c) PROVE OwnInv'
  <2>1. CASE CallWithRuntime(c)
    BY <2>1 DEF CallWithRuntime
  <2>2. CASE AcquireRuntime(c)
    BY <2>2 DEF AcquireRuntime, EnterGate
  <2>3. CASE ReadActiveOwner(c)
    BY <2>3 DEF ReadActiveOwner
  <2>4. CASE LookupPrevious(c)
    BY <2>4 DEF LookupPrevious
  <2>5. CASE ReleasePrevious(c)
    BY <2>5, SucceedsEffect DEF ReleasePrevious
  <2>6. CASE TransitionFails(c)
    <3>1. /\ ReleaseFails(reg[c]) /\ Return(c) /\ reg[c] \in Instances
          /\ UNCHANGED <<registrations, activeOwner, busy>>
      BY <2>6 DEF TransitionFails, ReturnUngated
    <3>2. \A d \in Callers : stale[d] => stale'[d]
      BY <3>1, FailsEffect
    <3> QED
      BY <3>1, <3>2, ReturnTask
  <2>7. CASE TakeOwnership(c)
    BY <2>7 DEF TakeOwnership
  <2>8. CASE NotifyPrevious(c)
    BY <2>8 DEF NotifyPrevious
  <2>9. CASE EnterBlock(c)
    BY <2>9 DEF EnterBlock
  <2>10. CASE LoadInBlock(c)
    BY <2>10 DEF LoadInBlock
  <2>11. CASE LeaveBlock(c)
    BY <2>11, ReturnTask DEF LeaveBlock, ReturnUngated
  <2> QED
    BY <1>1, <2>1, <2>2, <2>3, <2>4, <2>5, <2>6, <2>7, <2>8, <2>9, <2>10, <2>11
         DEF WithRuntime
<1>2. ASSUME NEW c \in Callers, RunBenchmark(c) PROVE OwnInv'
  <2>1. CASE CallBenchmark(c)
    BY <2>1 DEF CallBenchmark
  <2>2. CASE CancelAdmission(c)
    BY <2>2 DEF CancelAdmission, ForgetLocals
  <2>3. CASE AdmitBenchmark(c)
    BY <2>3 DEF AdmitBenchmark
  <2>4. CASE RegisterBenchmark(c)
    BY <2>4 DEF RegisterBenchmark
  <2>5. CASE UnregisterBenchmark(c)
    BY <2>5 DEF UnregisterBenchmark, Unregister, ForgetLocals
  <2> QED
    BY <1>2, <2>1, <2>2, <2>3, <2>4, <2>5 DEF RunBenchmark
<1>3. ASSUME NEW c \in Callers, ReleaseIfActive(c) PROVE OwnInv'
  <2>1. CASE CallReleaseIfActive(c)
    BY <2>1 DEF CallReleaseIfActive
  <2>2. CASE GetActiveToken(c)
    BY <2>2 DEF GetActiveToken
  <2>3. CASE CheckBeforeGate(c)
    BY <2>3 DEF CheckBeforeGate, StillExpected
  <2>4. CASE StaleBeforeGate(c)
    BY <2>4, ReturnTask DEF StaleBeforeGate
  <2>5. CASE AcquireReleaseIfActive(c)
    BY <2>5 DEF AcquireReleaseIfActive, EnterGate
  <2>6. CASE RecheckUnderGate(c)
    BY <2>6 DEF RecheckUnderGate, StillExpected
  <2>7. CASE StaleUnderGate(c)
    BY <2>7, ReturnTask DEF StaleUnderGate, ReturnUngated
  <2>8. CASE ReleaseExpected(c)
    BY <2>8, SucceedsEffect DEF ReleaseExpected
  <2>9. CASE ReleaseExpectedFails(c)
    <3>1. /\ ReleaseFails(reg[c]) /\ Return(c) /\ reg[c] \in Instances
          /\ UNCHANGED <<registrations, activeOwner, busy>>
      BY <2>9 DEF ReleaseExpectedFails, ReturnUngated
    <3>2. \A d \in Callers : stale[d] => stale'[d]
      BY <3>1, FailsEffect
    <3> QED
      BY <3>1, <3>2, ReturnTask
  <2>10. CASE ClearReleased(c)
    BY <2>10 DEF ClearReleased, Clear
  <2>11. CASE NotifyReleased(c)
    BY <2>11, ReturnTask DEF NotifyReleased, ReturnUngated
  <2> QED
    BY <1>3, <2>1, <2>2, <2>3, <2>4, <2>5, <2>6, <2>7, <2>8, <2>9, <2>10, <2>11
         DEF ReleaseIfActive
<1>4. ASSUME NEW c \in Callers, ReleaseAll(c) PROVE OwnInv'
  <2>1. CASE CallReleaseAll(c)
    BY <2>1 DEF CallReleaseAll, Registered
  <2>2. CASE AcquireReleaseAll(c)
    BY <2>2 DEF AcquireReleaseAll, EnterGate
  <2>3. CASE ReleaseTarget(c)
    BY <2>3, SucceedsEffect, FailsEffect DEF ReleaseTarget
  <2>4. CASE TargetsReleased(c)
    BY <2>4 DEF TargetsReleased
  <2>5. CASE ClearAll(c)
    BY <2>5 DEF ClearAll
  <2>6. CASE NotifyAll(c)
    BY <2>6, ReturnTask DEF NotifyAll, ReturnUngated
  <2> QED
    BY <1>4, <2>1, <2>2, <2>3, <2>4, <2>5, <2>6 DEF ReleaseAll
<1>5. ASSUME NEW i \in Instances, ViewModel(i) PROVE OwnInv'
  <2>1. CASE Register(i)
    BY <2>1 DEF Register
  <2>2. CASE BeginRelease(i)
    BY <2>2 DEF BeginRelease, Supersede
  <2>3. CASE CloseOwn(i)
    BY <2>3 DEF CloseOwn, Close, NotClosed, InBlock
  <2>4. CASE ClearOwn(i)
    BY <2>4 DEF ClearOwn, Clear
  <2>5. CASE OnCleared(i)
    BY <2>5 DEF OnCleared, Supersede
  <2>6. CASE CloseLate(i)
    BY <2>6 DEF CloseLate, Close
  <2>7. CASE DrainEnds(i)
    BY <2>7 DEF DrainEnds, NotClosed
  <2>8. CASE UnregisterCleared(i)
    BY <2>8 DEF UnregisterCleared, Unregister
  <2> QED
    BY <1>5, <2>1, <2>2, <2>3, <2>4, <2>5, <2>6, <2>7, <2>8 DEF ViewModel
<1>6. ASSUME NEW c \in Callers, CancelWaiting(c) PROVE OwnInv'
  BY <1>6, ReturnTask DEF CancelWaiting
<1>7. CASE UNCHANGED vars
  BY <1>7 DEF vars
<1> QED
  BY <1>1, <1>2, <1>3, <1>4, <1>5, <1>6, <1>7 DEF Next

\* While a block that is still wanted runs, its owner is the active owner and the
\* device is shown busy, for every number of callers, benchmarks and owners with
\* one view model each, whenever they register and however closes are delayed.
THEOREM WantedBlocksOwn == OneEach => (Spec => []WantedBlockOwnsRuntime)
<1> SUFFICES ASSUME OneEach PROVE Spec => []WantedBlockOwnsRuntime
  OBVIOUS
<1> DEFINE Inv == /\ TypeInv /\ GateInv /\ BusyOnlyInBlock /\ NotifyInv /\ IdleInv
                  /\ TaskInv /\ OwnInv
<1>1. Init => Inv
  BY TypeInit, TaskInit, ConfigAssumption
     DEF Init, GateInv, BusyOnlyInBlock, Gated, NotifyInv, IdleInv
<1>2. OwnInv /\ [Next]_vars /\ TypeInv /\ GateInv /\ IdleInv /\ TaskInv => OwnInv'
  BY OwnStep
<1>3. Spec => []Inv
  BY <1>1, <1>2, TypeStep, GateStep, NotifyStep, IdleStep, TaskStep, PTL
     DEF Spec
<1>4. Inv => WantedBlockOwnsRuntime
  BY DEF OwnInv, WantedBlockOwnsRuntime
<1> QED
  BY <1>3, <1>4, PTL

-----------------------------------------------------------------------------
(* Loaded runtimes.  A release that clears the ownership has released every  *)
(* registration that could be loaded by then.                                *)

\* A view model that has closed its engine keeps it closed until it clears its
\* ownership; a call of releaseIfActive or releaseAll names the registrations of
\* the owners it is about to clear, so far as they are still registered.
ReleaseInv ==
  /\ \A i \in Instances : /\ phase[i] # "new"
                          /\ phase[i] = "closed" => i \notin resident
  /\ \A c \in Callers :
       /\ pc[c] \in {"token", "check", "ria_wait", "recheck", "ria_release",
                     "ria_clear"} => seen[c] # Benchmark
       /\ pc[c] \in {"ria_wait", "recheck", "ria_release", "ria_clear"}
            => OwnerOf[reg[c]] = seen[c]
       /\ pc[c] \in {"ra_wait", "ra_release"} /\ ~failed[c] =>
            \A o \in Owners \ {Benchmark} :
              registrations[o] \in targets[c] \cup fire[c] \cup {None}
       /\ pc[c] = "ra_clear" =>
            \A o \in Owners \ {Benchmark} : registrations[o] \in fire[c] \cup {None}

\* No step loads an engine under the release that is about to clear its owner.
LEMMA ReleaseStep ==
  TypeInv /\ GateInv /\ NotifyInv /\ TaskInv /\ ReleaseInv /\ [Next]_vars
    => ReleaseInv'
<1> SUFFICES ASSUME TypeInv /\ GateInv /\ NotifyInv /\ TaskInv /\ ReleaseInv, [Next]_vars
             PROVE  ReleaseInv'
  OBVIOUS
<1> USE ConfigAssumption DEF TypeInv, TypeOK, LocalsOK, GateInv, NotifyInv,
     Waiting, Gated, Ungated, monitor, locals, native, engines, Goto, TaskInv, IsBenchmark,
     ReleaseInv
<1>1. ASSUME NEW c \in Callers, WithRuntime(c) PROVE ReleaseInv'
  <2>1. CASE CallWithRuntime(c)
    BY <2>1 DEF CallWithRuntime
  <2>2. CASE AcquireRuntime(c)
    BY <2>2 DEF AcquireRuntime, EnterGate
  <2>3. CASE ReadActiveOwner(c)
    BY <2>3 DEF ReadActiveOwner
  <2>4. CASE LookupPrevious(c)
    BY <2>4 DEF LookupPrevious
  <2>5. CASE ReleasePrevious(c)
    BY <2>5, SucceedsEffect DEF ReleasePrevious
  <2>6. CASE TransitionFails(c)
    BY <2>6, ReturnTask, FailsEffect DEF TransitionFails, ReturnUngated
  <2>7. CASE TakeOwnership(c)
    BY <2>7 DEF TakeOwnership
  <2>8. CASE NotifyPrevious(c)
    BY <2>8 DEF NotifyPrevious
  <2>9. CASE EnterBlock(c)
    BY <2>9 DEF EnterBlock
  <2>10. CASE LoadInBlock(c)
    BY <2>10 DEF LoadInBlock
  <2>11. CASE LeaveBlock(c)
    BY <2>11, ReturnTask DEF LeaveBlock, ReturnUngated
  <2> QED
    BY <1>1, <2>1, <2>2, <2>3, <2>4, <2>5, <2>6, <2>7, <2>8, <2>9, <2>10, <2>11
         DEF WithRuntime
<1>2. ASSUME NEW c \in Callers, RunBenchmark(c) PROVE ReleaseInv'
  <2>1. CASE CallBenchmark(c)
    BY <2>1 DEF CallBenchmark
  <2>2. CASE CancelAdmission(c)
    BY <2>2 DEF CancelAdmission, ForgetLocals
  <2>3. CASE AdmitBenchmark(c)
    BY <2>3 DEF AdmitBenchmark
  <2>4. CASE RegisterBenchmark(c)
    BY <2>4 DEF RegisterBenchmark
  <2>5. CASE UnregisterBenchmark(c)
    BY <2>5 DEF UnregisterBenchmark, Unregister, ForgetLocals
  <2> QED
    BY <1>2, <2>1, <2>2, <2>3, <2>4, <2>5 DEF RunBenchmark
<1>3. ASSUME NEW c \in Callers, ReleaseIfActive(c) PROVE ReleaseInv'
  <2>1. CASE CallReleaseIfActive(c)
    BY <2>1 DEF CallReleaseIfActive
  <2>2. CASE GetActiveToken(c)
    BY <2>2 DEF GetActiveToken
  <2>3. CASE CheckBeforeGate(c)
    BY <2>3 DEF CheckBeforeGate, StillExpected
  <2>4. CASE StaleBeforeGate(c)
    BY <2>4, ReturnTask DEF StaleBeforeGate
  <2>5. CASE AcquireReleaseIfActive(c)
    BY <2>5 DEF AcquireReleaseIfActive, EnterGate
  <2>6. CASE RecheckUnderGate(c)
    BY <2>6 DEF RecheckUnderGate, StillExpected
  <2>7. CASE StaleUnderGate(c)
    BY <2>7, ReturnTask DEF StaleUnderGate, ReturnUngated
  <2>8. CASE ReleaseExpected(c)
    BY <2>8, SucceedsEffect DEF ReleaseExpected
  <2>9. CASE ReleaseExpectedFails(c)
    BY <2>9, ReturnTask, FailsEffect DEF ReleaseExpectedFails, ReturnUngated
  <2>10. CASE ClearReleased(c)
    BY <2>10 DEF ClearReleased, Clear
  <2>11. CASE NotifyReleased(c)
    BY <2>11, ReturnTask DEF NotifyReleased, ReturnUngated
  <2> QED
    BY <1>3, <2>1, <2>2, <2>3, <2>4, <2>5, <2>6, <2>7, <2>8, <2>9, <2>10, <2>11
         DEF ReleaseIfActive
<1>4. ASSUME NEW c \in Callers, ReleaseAll(c) PROVE ReleaseInv'
  <2>1. CASE CallReleaseAll(c)
    BY <2>1 DEF CallReleaseAll, Registered
  <2>2. CASE AcquireReleaseAll(c)
    BY <2>2 DEF AcquireReleaseAll, EnterGate
  <2>3. CASE ReleaseTarget(c)
    BY <2>3, SucceedsEffect, FailsEffect DEF ReleaseTarget
  <2>4. CASE TargetsReleased(c)
    BY <2>4 DEF TargetsReleased
  <2>5. CASE ClearAll(c)
    BY <2>5 DEF ClearAll
  <2>6. CASE NotifyAll(c)
    BY <2>6, ReturnTask DEF NotifyAll, ReturnUngated
  <2> QED
    BY <1>4, <2>1, <2>2, <2>3, <2>4, <2>5, <2>6 DEF ReleaseAll
<1>5. ASSUME NEW i \in Instances, ViewModel(i) PROVE ReleaseInv'
  <2>1. CASE Register(i)
    BY <2>1 DEF Register
  <2>2. CASE BeginRelease(i)
    BY <2>2 DEF BeginRelease, Supersede
  <2>3. CASE CloseOwn(i)
    BY <2>3 DEF CloseOwn, Close, NotClosed, InBlock
  <2>4. CASE ClearOwn(i)
    BY <2>4 DEF ClearOwn, Clear
  <2>5. CASE OnCleared(i)
    BY <2>5 DEF OnCleared, Supersede
  <2>6. CASE CloseLate(i)
    BY <2>6 DEF CloseLate, Close
  <2>7. CASE DrainEnds(i)
    BY <2>7 DEF DrainEnds, NotClosed
  <2>8. CASE UnregisterCleared(i)
    BY <2>8 DEF UnregisterCleared, Unregister
  <2> QED
    BY <1>5, <2>1, <2>2, <2>3, <2>4, <2>5, <2>6, <2>7, <2>8 DEF ViewModel
<1>6. ASSUME NEW c \in Callers, CancelWaiting(c) PROVE ReleaseInv'
  BY <1>6, ReturnTask DEF CancelWaiting
<1>7. CASE UNCHANGED vars
  BY <1>7 DEF vars
<1> QED
  BY <1>1, <1>2, <1>3, <1>4, <1>5, <1>6, <1>7 DEF Next

\* From taking the runtime over to the beginning of its block an instance keeps it,
\* unless its registration goes or its engine is closed.
EnterInv ==
  \A c \in Callers :
    pc[c] \in {"notify", "enter"} =>
      \/ activeOwner = OwnerOf[me[c]]
      \/ registrations[OwnerOf[me[c]]] \notin resident

\* No step takes the runtime from an instance whose engine is still loaded.
LEMMA EnterStep ==
  ASSUME OneEach
  PROVE  TypeInv /\ GateInv /\ IdleInv /\ TaskInv /\ ReleaseInv /\ EnterInv /\ [Next]_vars
           => EnterInv'
<1> SUFFICES ASSUME TypeInv /\ GateInv /\ IdleInv /\ TaskInv /\ ReleaseInv /\ EnterInv,
                    [Next]_vars
             PROVE  EnterInv'
  OBVIOUS
<1> USE ConfigAssumption DEF TypeInv, TypeOK, LocalsOK, GateInv, IdleInv,
     Waiting, Gated, Ungated, monitor, locals, native, engines, Goto, TaskInv, IsBenchmark,
     ReleaseInv, EnterInv, OneEach
<1>1. ASSUME NEW c \in Callers, WithRuntime(c) PROVE EnterInv'
  <2>1. CASE CallWithRuntime(c)
    BY <2>1 DEF CallWithRuntime
  <2>2. CASE AcquireRuntime(c)
    BY <2>2 DEF AcquireRuntime, EnterGate
  <2>3. CASE ReadActiveOwner(c)
    BY <2>3 DEF ReadActiveOwner
  <2>4. CASE LookupPrevious(c)
    BY <2>4 DEF LookupPrevious
  <2>5. CASE ReleasePrevious(c)
    BY <2>5, SucceedsEffect DEF ReleasePrevious
  <2>6. CASE TransitionFails(c)
    <3>1. /\ ReleaseFails(reg[c]) /\ Return(c) /\ reg[c] \in Instances
          /\ UNCHANGED <<registrations, activeOwner, busy>>
      BY <2>6 DEF TransitionFails, ReturnUngated
    <3>2. resident' = resident
      BY <3>1, FailsEffect
    <3> QED
      BY <3>1, <3>2, ReturnTask
  <2>7. CASE TakeOwnership(c)
    BY <2>7 DEF TakeOwnership
  <2>8. CASE NotifyPrevious(c)
    BY <2>8 DEF NotifyPrevious
  <2>9. CASE EnterBlock(c)
    BY <2>9 DEF EnterBlock
  <2>10. CASE LoadInBlock(c)
    BY <2>10 DEF LoadInBlock
  <2>11. CASE LeaveBlock(c)
    BY <2>11, ReturnTask DEF LeaveBlock, ReturnUngated
  <2> QED
    BY <1>1, <2>1, <2>2, <2>3, <2>4, <2>5, <2>6, <2>7, <2>8, <2>9, <2>10, <2>11
         DEF WithRuntime
<1>2. ASSUME NEW c \in Callers, RunBenchmark(c) PROVE EnterInv'
  <2>1. CASE CallBenchmark(c)
    BY <2>1 DEF CallBenchmark
  <2>2. CASE CancelAdmission(c)
    BY <2>2 DEF CancelAdmission, ForgetLocals
  <2>3. CASE AdmitBenchmark(c)
    BY <2>3 DEF AdmitBenchmark
  <2>4. CASE RegisterBenchmark(c)
    BY <2>4 DEF RegisterBenchmark
  <2>5. CASE UnregisterBenchmark(c)
    BY <2>5 DEF UnregisterBenchmark, Unregister, ForgetLocals
  <2> QED
    BY <1>2, <2>1, <2>2, <2>3, <2>4, <2>5 DEF RunBenchmark
<1>3. ASSUME NEW c \in Callers, ReleaseIfActive(c) PROVE EnterInv'
  <2>1. CASE CallReleaseIfActive(c)
    BY <2>1 DEF CallReleaseIfActive
  <2>2. CASE GetActiveToken(c)
    BY <2>2 DEF GetActiveToken
  <2>3. CASE CheckBeforeGate(c)
    BY <2>3 DEF CheckBeforeGate, StillExpected
  <2>4. CASE StaleBeforeGate(c)
    BY <2>4, ReturnTask DEF StaleBeforeGate
  <2>5. CASE AcquireReleaseIfActive(c)
    BY <2>5 DEF AcquireReleaseIfActive, EnterGate
  <2>6. CASE RecheckUnderGate(c)
    BY <2>6 DEF RecheckUnderGate, StillExpected
  <2>7. CASE StaleUnderGate(c)
    BY <2>7, ReturnTask DEF StaleUnderGate, ReturnUngated
  <2>8. CASE ReleaseExpected(c)
    BY <2>8, SucceedsEffect DEF ReleaseExpected
  <2>9. CASE ReleaseExpectedFails(c)
    <3>1. /\ ReleaseFails(reg[c]) /\ Return(c) /\ reg[c] \in Instances
          /\ UNCHANGED <<registrations, activeOwner, busy>>
      BY <2>9 DEF ReleaseExpectedFails, ReturnUngated
    <3>2. resident' = resident
      BY <3>1, FailsEffect
    <3> QED
      BY <3>1, <3>2, ReturnTask
  <2>10. CASE ClearReleased(c)
    BY <2>10 DEF ClearReleased, Clear
  <2>11. CASE NotifyReleased(c)
    BY <2>11, ReturnTask DEF NotifyReleased, ReturnUngated
  <2> QED
    BY <1>3, <2>1, <2>2, <2>3, <2>4, <2>5, <2>6, <2>7, <2>8, <2>9, <2>10, <2>11
         DEF ReleaseIfActive
<1>4. ASSUME NEW c \in Callers, ReleaseAll(c) PROVE EnterInv'
  <2>1. CASE CallReleaseAll(c)
    BY <2>1 DEF CallReleaseAll, Registered
  <2>2. CASE AcquireReleaseAll(c)
    BY <2>2 DEF AcquireReleaseAll, EnterGate
  <2>3. CASE ReleaseTarget(c)
    BY <2>3, SucceedsEffect, FailsEffect DEF ReleaseTarget
  <2>4. CASE TargetsReleased(c)
    BY <2>4 DEF TargetsReleased
  <2>5. CASE ClearAll(c)
    BY <2>5 DEF ClearAll
  <2>6. CASE NotifyAll(c)
    BY <2>6, ReturnTask DEF NotifyAll, ReturnUngated
  <2> QED
    BY <1>4, <2>1, <2>2, <2>3, <2>4, <2>5, <2>6 DEF ReleaseAll
<1>5. ASSUME NEW i \in Instances, ViewModel(i) PROVE EnterInv'
  <2>1. CASE Register(i)
    BY <2>1 DEF Register
  <2>2. CASE BeginRelease(i)
    BY <2>2 DEF BeginRelease, Supersede
  <2>3. CASE CloseOwn(i)
    BY <2>3 DEF CloseOwn, Close, NotClosed, InBlock
  <2>4. CASE ClearOwn(i)
    BY <2>4 DEF ClearOwn, Clear
  <2>5. CASE OnCleared(i)
    BY <2>5 DEF OnCleared, Supersede
  <2>6. CASE CloseLate(i)
    BY <2>6 DEF CloseLate, Close
  <2>7. CASE DrainEnds(i)
    BY <2>7 DEF DrainEnds, NotClosed
  <2>8. CASE UnregisterCleared(i)
    BY <2>8 DEF UnregisterCleared, Unregister
  <2> QED
    BY <1>5, <2>1, <2>2, <2>3, <2>4, <2>5, <2>6, <2>7, <2>8 DEF ViewModel
<1>6. ASSUME NEW c \in Callers, CancelWaiting(c) PROVE EnterInv'
  BY <1>6, ReturnTask DEF CancelWaiting
<1>7. CASE UNCHANGED vars
  BY <1>7 DEF vars
<1> QED
  BY <1>1, <1>2, <1>3, <1>4, <1>5, <1>6, <1>7 DEF Next

\* No step unloads the bookkeeping before the engine.
LEMMA ResidentStep ==
  ASSUME OneEach
  PROVE  TypeInv /\ GateInv /\ NotifyInv /\ IdleInv /\ TaskInv /\ HandoverInv /\ OwnInv
           /\ ReleaseInv /\ EnterInv /\ ResidentRuntimeIsActive /\ [Next]_vars
         => ResidentRuntimeIsActive'
<1> SUFFICES ASSUME /\ TypeInv /\ GateInv /\ NotifyInv /\ IdleInv /\ TaskInv
                    /\ HandoverInv /\ OwnInv /\ ReleaseInv /\ EnterInv
                    /\ ResidentRuntimeIsActive,
                    [Next]_vars
             PROVE  ResidentRuntimeIsActive'
  OBVIOUS
<1> USE ConfigAssumption DEF TypeInv, TypeOK, LocalsOK, GateInv, NotifyInv, IdleInv,
     Waiting, Gated, Ungated, monitor, locals, native, engines, Goto, TaskInv, IsBenchmark, Held,
     HandoverInv, OwnInv, ReleaseInv, ResidentRuntimeIsActive, OneEach
<1>1. ASSUME NEW c \in Callers, WithRuntime(c) PROVE ResidentRuntimeIsActive'
  <2>1. CASE CallWithRuntime(c)
    BY <2>1 DEF CallWithRuntime
  <2>2. CASE AcquireRuntime(c)
    BY <2>2 DEF AcquireRuntime, EnterGate
  <2>3. CASE ReadActiveOwner(c)
    BY <2>3 DEF ReadActiveOwner
  <2>4. CASE LookupPrevious(c)
    BY <2>4 DEF LookupPrevious
  <2>5. CASE ReleasePrevious(c)
    BY <2>5, SucceedsEffect DEF ReleasePrevious
  <2>6. CASE TransitionFails(c)
    BY <2>6, ReturnTask, FailsEffect DEF TransitionFails, ReturnUngated
  <2>7. CASE TakeOwnership(c)
    BY <2>7 DEF TakeOwnership
  <2>8. CASE NotifyPrevious(c)
    BY <2>8 DEF NotifyPrevious
  <2>9. CASE EnterBlock(c)
    BY <2>9 DEF EnterBlock, EnterInv
  <2>10. CASE LoadInBlock(c)
    BY <2>10 DEF LoadInBlock
  <2>11. CASE LeaveBlock(c)
    BY <2>11, ReturnTask DEF LeaveBlock, ReturnUngated
  <2> QED
    BY <1>1, <2>1, <2>2, <2>3, <2>4, <2>5, <2>6, <2>7, <2>8, <2>9, <2>10, <2>11
         DEF WithRuntime
<1>2. ASSUME NEW c \in Callers, RunBenchmark(c) PROVE ResidentRuntimeIsActive'
  <2>1. CASE CallBenchmark(c)
    BY <2>1 DEF CallBenchmark
  <2>2. CASE CancelAdmission(c)
    BY <2>2 DEF CancelAdmission, ForgetLocals
  <2>3. CASE AdmitBenchmark(c)
    BY <2>3 DEF AdmitBenchmark
  <2>4. CASE RegisterBenchmark(c)
    BY <2>4 DEF RegisterBenchmark
  <2>5. CASE UnregisterBenchmark(c)
    <3>1. /\ UNCHANGED <<resident, survivors>>
          /\ Unregister(me[c]) /\ me[c] \in Instances
      BY <2>5 DEF UnregisterBenchmark
    <3>2. ASSUME NEW o \in Owners, registrations'[o] \in Held'
          PROVE  activeOwner' = o
      <4>1. registrations[o] = registrations'[o] /\ registrations[o] \in Held
        BY <3>1, <3>2 DEF Unregister
      <4>2. activeOwner = o
        BY <4>1
      <4>3. OwnerOf[me[c]] = o => registrations[o] # me[c]
        BY <3>1, <3>2, <4>1 DEF Unregister
      <4> QED
        BY <3>1, <4>2, <4>3 DEF Unregister
    <3> QED
      BY <3>2
  <2> QED
    BY <1>2, <2>1, <2>2, <2>3, <2>4, <2>5 DEF RunBenchmark
<1>3. ASSUME NEW c \in Callers, ReleaseIfActive(c) PROVE ResidentRuntimeIsActive'
  <2>1. CASE CallReleaseIfActive(c)
    BY <2>1 DEF CallReleaseIfActive
  <2>2. CASE GetActiveToken(c)
    BY <2>2 DEF GetActiveToken
  <2>3. CASE CheckBeforeGate(c)
    BY <2>3 DEF CheckBeforeGate, StillExpected
  <2>4. CASE StaleBeforeGate(c)
    BY <2>4, ReturnTask DEF StaleBeforeGate
  <2>5. CASE AcquireReleaseIfActive(c)
    BY <2>5 DEF AcquireReleaseIfActive, EnterGate
  <2>6. CASE RecheckUnderGate(c)
    BY <2>6 DEF RecheckUnderGate, StillExpected
  <2>7. CASE StaleUnderGate(c)
    BY <2>7, ReturnTask DEF StaleUnderGate, ReturnUngated
  <2>8. CASE ReleaseExpected(c)
    BY <2>8, SucceedsEffect DEF ReleaseExpected
  <2>9. CASE ReleaseExpectedFails(c)
    BY <2>9, ReturnTask, FailsEffect DEF ReleaseExpectedFails, ReturnUngated
  <2>10. CASE ClearReleased(c)
    BY <2>10 DEF ClearReleased, Clear
  <2>11. CASE NotifyReleased(c)
    BY <2>11, ReturnTask DEF NotifyReleased, ReturnUngated
  <2> QED
    BY <1>3, <2>1, <2>2, <2>3, <2>4, <2>5, <2>6, <2>7, <2>8, <2>9, <2>10, <2>11
         DEF ReleaseIfActive
<1>4. ASSUME NEW c \in Callers, ReleaseAll(c) PROVE ResidentRuntimeIsActive'
  <2>1. CASE CallReleaseAll(c)
    BY <2>1 DEF CallReleaseAll, Registered
  <2>2. CASE AcquireReleaseAll(c)
    BY <2>2 DEF AcquireReleaseAll, EnterGate
  <2>3. CASE ReleaseTarget(c)
    BY <2>3, SucceedsEffect, FailsEffect DEF ReleaseTarget
  <2>4. CASE TargetsReleased(c)
    BY <2>4 DEF TargetsReleased
  <2>5. CASE ClearAll(c)
    BY <2>5 DEF ClearAll
  <2>6. CASE NotifyAll(c)
    BY <2>6, ReturnTask DEF NotifyAll, ReturnUngated
  <2> QED
    BY <1>4, <2>1, <2>2, <2>3, <2>4, <2>5, <2>6 DEF ReleaseAll
<1>5. ASSUME NEW i \in Instances, ViewModel(i) PROVE ResidentRuntimeIsActive'
  <2>1. CASE Register(i)
    BY <2>1 DEF Register
  <2>2. CASE BeginRelease(i)
    BY <2>2 DEF BeginRelease, Supersede
  <2>3. CASE CloseOwn(i)
    BY <2>3 DEF CloseOwn, Close, NotClosed, InBlock
  <2>4. CASE ClearOwn(i)
    BY <2>4 DEF ClearOwn, Clear
  <2>5. CASE OnCleared(i)
    BY <2>5 DEF OnCleared, Supersede
  <2>6. CASE CloseLate(i)
    BY <2>6 DEF CloseLate, Close
  <2>7. CASE DrainEnds(i)
    BY <2>7 DEF DrainEnds, NotClosed
  <2>8. CASE UnregisterCleared(i)
    BY <2>8 DEF UnregisterCleared, Unregister
  <2> QED
    BY <1>5, <2>1, <2>2, <2>3, <2>4, <2>5, <2>6, <2>7, <2>8 DEF ViewModel
<1>6. ASSUME NEW c \in Callers, CancelWaiting(c) PROVE ResidentRuntimeIsActive'
  BY <1>6, ReturnTask DEF CancelWaiting
<1>7. CASE UNCHANGED vars
  BY <1>7 DEF vars
<1> QED
  BY <1>1, <1>2, <1>3, <1>4, <1>5, <1>6, <1>7 DEF Next

\* When every view model has registered, the coordinator never forgets a loaded
\* engine: neither a release that times out, nor an unload of the view model's
\* own, nor releaseAll or a benchmark's end clears the owner of an engine that
\* is registered and loaded; only a stale Success makes it forget one.
THEOREM LoadedRuntimesAreKnown == AllAtStart => (Spec => []ResidentRuntimeIsActive)
<1> SUFFICES ASSUME AllAtStart PROVE Spec => []ResidentRuntimeIsActive
  OBVIOUS
<1> DEFINE Inv == /\ TypeInv /\ GateInv /\ BusyOnlyInBlock /\ NotifyInv /\ IdleInv
                  /\ TaskInv /\ HandoverInv /\ OwnInv /\ ReleaseInv /\ EnterInv
                  /\ ResidentRuntimeIsActive
<1>1. OneEach
  BY ConfigAssumption DEF AllAtStart, OneEach
<1>2. Init => Inv
  <2> SUFFICES ASSUME Init PROVE Inv
    OBVIOUS
  <2>1. /\ GateInv /\ BusyOnlyInBlock /\ NotifyInv /\ IdleInv /\ HandoverInv
        /\ ResidentRuntimeIsActive
    BY ConfigAssumption
       DEF Init, GateInv, BusyOnlyInBlock, Gated, NotifyInv, IdleInv, HandoverInv,
           ResidentRuntimeIsActive, Held
  <2>2. TaskInv /\ OwnInv
    BY TaskInit
  <2>3. ReleaseInv /\ EnterInv
    BY ConfigAssumption DEF Init, ReleaseInv, EnterInv, AllAtStart
  <2> QED
    BY <2>1, <2>2, <2>3, TypeInit
<1>3. OwnInv /\ [Next]_vars /\ TypeInv /\ GateInv /\ IdleInv /\ TaskInv => OwnInv'
  BY <1>1, OwnStep
<1>4. Inv /\ [Next]_vars => ResidentRuntimeIsActive' /\ EnterInv'
  BY <1>1, ResidentStep, EnterStep
<1>5. Spec => []Inv
  BY <1>2, <1>3, <1>4, TypeStep, GateStep, NotifyStep, IdleStep, TaskStep,
     HandoverStep, ReleaseStep, PTL DEF Spec
<1> QED
  BY <1>5, PTL

-----------------------------------------------------------------------------
(* The two gates.  A benchmark keeps BenchmarkAdmission's gate while it waits *)
(* for the other one; nobody else takes both.                                *)

\* The benchmark has registered, and not unregistered yet.
Registering(c) == IsBenchmark(c) /\ pc[c] \notin {"admit", "register"}

\* The gate of BenchmarkAdmission is held by the benchmark that was admitted.
AdmissionInv ==
  /\ \A c \in Callers :
       /\ pc[c] = "idle" => me[c] = None
       /\ pc[c] \in {"admit", "register", "unregister"} => IsBenchmark(c)
       /\ admission = c <=> IsBenchmark(c) /\ pc[c] # "admit"
       /\ Registering(c) => registrations[Benchmark] = me[c]
  /\ registrations[Benchmark] # None => \E c \in Callers : Registering(c)
  /\ \A i \in Instances : OwnerOf[i] = Benchmark => phase[i] = "live"

\* A step of c that is no step of the admission leaves it as it was.
Elsewhere(c) ==
  /\ UNCHANGED <<admission, registrations>>
  /\ \A d \in Callers \ {c} : pc'[d] = pc[d] /\ me'[d] = me[d]
  /\ me'[c] = me[c]
  /\ pc[c] \notin {"idle", "admit", "register", "unregister"}
  /\ pc'[c] \notin {"idle", "admit", "register", "unregister"}
  /\ \A i \in Instances : OwnerOf[i] = Benchmark => phase'[i] = phase[i]

\* Such steps keep the invariant.
LEMMA ElsewhereAdmission ==
  ASSUME TypeInv, AdmissionInv, NEW c \in Callers, Elsewhere(c)
  PROVE  AdmissionInv'
<1>1. \A d \in Callers : IsBenchmark(d)' <=> IsBenchmark(d)
  BY DEF Elsewhere, IsBenchmark
<1>2. \A d \in Callers : Registering(d)' <=> Registering(d)
  BY <1>1 DEF Elsewhere, Registering
<1>3. ASSUME NEW d \in Callers
      PROVE  /\ pc'[d] = "idle" => me'[d] = None
             /\ pc'[d] \in {"admit", "register", "unregister"} => IsBenchmark(d)'
             /\ admission' = d <=> IsBenchmark(d)' /\ pc'[d] # "admit"
             /\ Registering(d)' => registrations'[Benchmark] = me'[d]
  BY <1>1, <1>2 DEF Elsewhere, AdmissionInv
<1>4. registrations'[Benchmark] # None => \E d \in Callers : Registering(d)'
  BY <1>2 DEF Elsewhere, AdmissionInv
<1> QED
  BY <1>3, <1>4 DEF AdmissionInv, Elsewhere

\* A call that returns: a benchmark goes on to its "finally", any other is over.
LEMMA ReturnAdmission ==
  ASSUME TypeInv, AdmissionInv, NEW c \in Callers, Return(c),
         pc[c] \notin {"idle", "admit", "register", "unregister"},
         UNCHANGED <<admission, registrations>>,
         \A i \in Instances : OwnerOf[i] = Benchmark => phase'[i] = phase[i]
  PROVE  AdmissionInv'
<1>1. \A d \in Callers \ {c} : pc'[d] = pc[d] /\ me'[d] = me[d]
  BY DEF Return, ForgetLocals, locals, TypeInv, TypeOK
<1>2. CASE IsBenchmark(c)
  <2>1. pc'[c] = "unregister" /\ me'[c] = me[c]
    BY <1>2 DEF Return, locals, TypeInv, TypeOK
  <2>2. \A d \in Callers : IsBenchmark(d)' <=> IsBenchmark(d)
    BY <1>1, <2>1 DEF IsBenchmark
  <2>3. \A d \in Callers : Registering(d)' <=> Registering(d)
    BY <1>1, <2>1, <2>2 DEF Registering
  <2> QED
    BY <1>1, <1>2, <2>1, <2>2, <2>3 DEF AdmissionInv
<1>3. CASE ~IsBenchmark(c)
  <2>1. pc'[c] = "idle" /\ me'[c] = None
    BY <1>3 DEF Return, ForgetLocals, TypeInv, TypeOK
  <2>2. \A d \in Callers : IsBenchmark(d)' <=> IsBenchmark(d)
    BY <1>1, <1>3, <2>1 DEF IsBenchmark
  <2>3. \A d \in Callers : Registering(d)' <=> Registering(d)
    BY <1>1, <1>3, <2>1, <2>2 DEF Registering
  <2>4. ASSUME NEW d \in Callers
        PROVE  /\ pc'[d] = "idle" => me'[d] = None
               /\ pc'[d] \in {"admit", "register", "unregister"} => IsBenchmark(d)'
               /\ admission' = d <=> IsBenchmark(d)' /\ pc'[d] # "admit"
               /\ Registering(d)' => registrations'[Benchmark] = me'[d]
    <3>1. CASE d = c
      BY <3>1, <1>3, <2>1, <2>2 DEF AdmissionInv, Registering
    <3>2. CASE d # c
      BY <3>2, <1>1, <2>2, <2>3 DEF AdmissionInv
    <3> QED
      BY <3>1, <3>2
  <2> QED
    BY <2>3, <2>4 DEF AdmissionInv
<1> QED
  BY <1>2, <1>3

\* A failing release never makes a benchmark drain.
LEMMA FailKeepsBenchmarks ==
  ASSUME TypeInv, NEW i \in Instances, ReleaseFails(i)
  PROVE  \A j \in Instances : OwnerOf[j] = Benchmark => phase'[j] = phase[j]
  BY FailsEffect DEF TypeInv, TypeOK

\* What the view models do leaves it as it was, too.
LEMMA SameAdmission ==
  ASSUME AdmissionInv, UNCHANGED <<admission, pc, me>>,
         registrations'[Benchmark] = registrations[Benchmark],
         \A i \in Instances : OwnerOf[i] = Benchmark => phase'[i] = phase[i]
  PROVE  AdmissionInv'
  BY DEF AdmissionInv, Registering, IsBenchmark

\* A release begins on nobody's behalf.
LEMMA CallAdmission ==
  ASSUME TypeInv, AdmissionInv, NEW c \in Callers, pc[c] = "idle",
         NEW p \in {"token", "ra_wait"}, pc' = [pc EXCEPT ![c] = p],
         UNCHANGED <<admission, registrations, me, phase>>
  PROVE  AdmissionInv'
<1>1. ~IsBenchmark(c)
  BY DEF AdmissionInv, IsBenchmark
<1>2. \A d \in Callers : IsBenchmark(d)' <=> IsBenchmark(d)
  BY DEF IsBenchmark
<1>3. pc'[c] = p /\ \A d \in Callers \ {c} : pc'[d] = pc[d]
  BY DEF TypeInv, TypeOK
<1>4. \A d \in Callers : Registering(d)' <=> Registering(d)
  BY <1>1, <1>2, <1>3 DEF Registering
<1> QED
  BY <1>1, <1>2, <1>3, <1>4 DEF AdmissionInv

\* No step takes the gate of the admission, or the registration, from a benchmark.
LEMMA AdmissionStep == TypeInv /\ TypeInv' /\ AdmissionInv /\ [Next]_vars => AdmissionInv'
<1> SUFFICES ASSUME TypeInv, TypeInv', AdmissionInv, [Next]_vars PROVE AdmissionInv'
  OBVIOUS
<1> USE DEF monitor, native, engines, Goto
<1>1. ASSUME NEW c \in Callers, WithRuntime(c) PROVE AdmissionInv'
  <2> USE DEF TypeInv, TypeOK, LocalsOK, Elsewhere, locals
  <2>1. CASE CallWithRuntime(c)
    <3>1. PICK i \in Instances : /\ OwnerOf[i] # Benchmark
                                 /\ pc[c] = "idle" /\ pc' = [pc EXCEPT ![c] = "wait"]
                                 /\ me' = [me EXCEPT ![c] = i]
                                 /\ UNCHANGED <<admission, registrations, phase>>
      BY <2>1 DEF CallWithRuntime
    <3>2. \A d \in Callers \ {c} : pc'[d] = pc[d] /\ me'[d] = me[d]
      BY <3>1
    <3>3. ~IsBenchmark(c) /\ ~IsBenchmark(c)'
      BY <3>1 DEF AdmissionInv, IsBenchmark
    <3>4. \A d \in Callers : IsBenchmark(d)' <=> IsBenchmark(d)
      BY <3>2, <3>3 DEF IsBenchmark
    <3>5. \A d \in Callers : Registering(d)' <=> Registering(d)
      BY <3>2, <3>3, <3>4 DEF Registering
    <3>6. ASSUME NEW d \in Callers
          PROVE  /\ pc'[d] = "idle" => me'[d] = None
                 /\ pc'[d] \in {"admit", "register", "unregister"} => IsBenchmark(d)'
                 /\ admission' = d <=> IsBenchmark(d)' /\ pc'[d] # "admit"
                 /\ Registering(d)' => registrations'[Benchmark] = me'[d]
      <4>1. CASE d = c
        BY <4>1, <3>1, <3>3 DEF AdmissionInv, Registering
      <4>2. CASE d # c
        BY <4>2, <3>1, <3>2, <3>4, <3>5 DEF AdmissionInv
      <4> QED
        BY <4>1, <4>2
    <3> QED
      BY <3>1, <3>5, <3>6 DEF AdmissionInv
  <2>2. CASE AcquireRuntime(c)
    <3>1. Elsewhere(c)
      BY <2>2 DEF AcquireRuntime, EnterGate
    <3> QED
      BY <3>1, ElsewhereAdmission
  <2>3. CASE ReadActiveOwner(c)
    <3>1. Elsewhere(c)
      BY <2>3 DEF ReadActiveOwner
    <3> QED
      BY <3>1, ElsewhereAdmission
  <2>4. CASE LookupPrevious(c)
    <3>1. Elsewhere(c)
      BY <2>4 DEF LookupPrevious
    <3> QED
      BY <3>1, ElsewhereAdmission
  <2>5. CASE ReleasePrevious(c)
    <3>1. Elsewhere(c)
      BY <2>5, SucceedsEffect DEF ReleasePrevious
    <3> QED
      BY <3>1, ElsewhereAdmission
  <2>6. CASE TransitionFails(c)
    BY <2>6, ReturnAdmission, FailKeepsBenchmarks DEF TransitionFails, ReturnUngated
  <2>7. CASE TakeOwnership(c)
    <3>1. Elsewhere(c)
      BY <2>7 DEF TakeOwnership
    <3> QED
      BY <3>1, ElsewhereAdmission
  <2>8. CASE NotifyPrevious(c)
    <3>1. Elsewhere(c)
      BY <2>8 DEF NotifyPrevious
    <3> QED
      BY <3>1, ElsewhereAdmission
  <2>9. CASE EnterBlock(c)
    <3>1. Elsewhere(c)
      BY <2>9 DEF EnterBlock
    <3> QED
      BY <3>1, ElsewhereAdmission
  <2>10. CASE LoadInBlock(c)
    <3>1. Elsewhere(c)
      BY <2>10 DEF LoadInBlock
    <3> QED
      BY <3>1, ElsewhereAdmission
  <2>11. CASE LeaveBlock(c)
    BY <2>11, ReturnAdmission DEF LeaveBlock, ReturnUngated
  <2> QED
    BY <1>1, <2>1, <2>2, <2>3, <2>4, <2>5, <2>6, <2>7, <2>8, <2>9, <2>10, <2>11
         DEF WithRuntime
<1>2. ASSUME NEW c \in Callers, RunBenchmark(c) PROVE AdmissionInv'
  <2> USE DEF TypeInv, TypeOK, LocalsOK
  <2>1. CASE CallBenchmark(c)
    <3>1. /\ pc[c] = "idle" /\ pc' = [pc EXCEPT ![c] = "admit"]
          /\ \E i \in Instances : OwnerOf[i] = Benchmark /\ me' = [me EXCEPT ![c] = i]
          /\ UNCHANGED <<admission, registrations, phase>>
      BY <2>1 DEF CallBenchmark
    <3>2. \A d \in Callers \ {c} : pc'[d] = pc[d] /\ me'[d] = me[d]
      BY <3>1
    <3>3. pc'[c] = "admit" /\ IsBenchmark(c)' /\ ~IsBenchmark(c) /\ admission # c
      BY <3>1, ConfigAssumption DEF IsBenchmark, AdmissionInv
    <3>4. \A d \in Callers : Registering(d)' <=> Registering(d)
      BY <3>2, <3>3 DEF Registering, IsBenchmark
    <3>5. ASSUME NEW d \in Callers
          PROVE  /\ pc'[d] = "idle" => me'[d] = None
                 /\ pc'[d] \in {"admit", "register", "unregister"} => IsBenchmark(d)'
                 /\ admission' = d <=> IsBenchmark(d)' /\ pc'[d] # "admit"
                 /\ Registering(d)' => registrations'[Benchmark] = me'[d]
      <4>1. CASE d = c
        BY <4>1, <3>1, <3>3 DEF Registering
      <4>2. CASE d # c
        BY <4>2, <3>1, <3>2, <3>4 DEF AdmissionInv, IsBenchmark
      <4> QED
        BY <4>1, <4>2
    <3> QED
      BY <3>1, <3>4, <3>5 DEF AdmissionInv
  <2>2. CASE CancelAdmission(c)
    <3>1. /\ pc[c] = "admit" /\ pc'[c] = "idle" /\ me'[c] = None
          /\ UNCHANGED <<admission, registrations, phase>>
          /\ \A d \in Callers \ {c} : pc'[d] = pc[d] /\ me'[d] = me[d]
      BY <2>2 DEF CancelAdmission, ForgetLocals
    <3>2. ~IsBenchmark(c)' /\ admission # c
      BY <3>1 DEF IsBenchmark, AdmissionInv
    <3>3. \A d \in Callers : Registering(d)' <=> Registering(d)
      BY <3>1, <3>2 DEF Registering, IsBenchmark
    <3>4. ASSUME NEW d \in Callers
          PROVE  /\ pc'[d] = "idle" => me'[d] = None
                 /\ pc'[d] \in {"admit", "register", "unregister"} => IsBenchmark(d)'
                 /\ admission' = d <=> IsBenchmark(d)' /\ pc'[d] # "admit"
                 /\ Registering(d)' => registrations'[Benchmark] = me'[d]
      <4>1. CASE d = c
        BY <4>1, <3>1, <3>2 DEF Registering
      <4>2. CASE d # c
        BY <4>2, <3>1, <3>3 DEF AdmissionInv, IsBenchmark
      <4> QED
        BY <4>1, <4>2
    <3> QED
      BY <3>1, <3>3, <3>4 DEF AdmissionInv
  <2>3. CASE AdmitBenchmark(c)
    <3>1. /\ pc[c] = "admit" /\ pc'[c] = "register" /\ admission = None /\ admission' = c
          /\ UNCHANGED <<me, registrations, phase>>
          /\ \A d \in Callers \ {c} : pc'[d] = pc[d]
      BY <2>3 DEF AdmitBenchmark, locals
    <3>2. \A d \in Callers : IsBenchmark(d)' <=> IsBenchmark(d)
      BY <3>1 DEF IsBenchmark
    <3>3. \A d \in Callers : Registering(d)' <=> Registering(d)
      BY <3>1, <3>2 DEF Registering
    <3>4. ASSUME NEW d \in Callers
          PROVE  /\ pc'[d] = "idle" => me'[d] = None
                 /\ pc'[d] \in {"admit", "register", "unregister"} => IsBenchmark(d)'
                 /\ admission' = d <=> IsBenchmark(d)' /\ pc'[d] # "admit"
                 /\ Registering(d)' => registrations'[Benchmark] = me'[d]
      <4>1. CASE d = c
        BY <4>1, <3>1, <3>2, <3>3 DEF AdmissionInv
      <4>2. CASE d # c
        BY <4>2, <3>1, <3>2, <3>3, ConfigAssumption DEF AdmissionInv
      <4> QED
        BY <4>1, <4>2
    <3> QED
      BY <3>1, <3>3, <3>4 DEF AdmissionInv
  <2>4. CASE RegisterBenchmark(c)
    <3>1. /\ pc[c] = "register" /\ pc'[c] = "wait"
          /\ registrations'[Benchmark] = me[c]
          /\ UNCHANGED <<me, admission, phase>>
          /\ \A d \in Callers \ {c} : pc'[d] = pc[d]
      BY <2>4, ConfigAssumption DEF RegisterBenchmark, locals
    <3>2. \A d \in Callers : IsBenchmark(d)' <=> IsBenchmark(d)
      BY <3>1 DEF IsBenchmark
    <3>3. Registering(c)' /\ admission = c
      BY <3>1, <3>2 DEF Registering, AdmissionInv
    <3>4. ASSUME NEW d \in Callers
          PROVE  /\ pc'[d] = "idle" => me'[d] = None
                 /\ pc'[d] \in {"admit", "register", "unregister"} => IsBenchmark(d)'
                 /\ admission' = d <=> IsBenchmark(d)' /\ pc'[d] # "admit"
                 /\ Registering(d)' => registrations'[Benchmark] = me'[d]
      <4>1. CASE d = c
        BY <4>1, <3>1, <3>2, <3>3 DEF AdmissionInv
      <4>2. CASE d # c
        BY <4>2, <3>1, <3>2, <3>3 DEF AdmissionInv, Registering
      <4> QED
        BY <4>1, <4>2
    <3> QED
      BY <3>1, <3>3, <3>4 DEF AdmissionInv
  <2>5. CASE UnregisterBenchmark(c)
    <3>1. /\ pc[c] = "unregister" /\ pc'[c] = "idle" /\ me'[c] = None
          /\ admission' = None /\ UNCHANGED phase
          /\ \A d \in Callers \ {c} : pc'[d] = pc[d] /\ me'[d] = me[d]
      BY <2>5 DEF UnregisterBenchmark, ForgetLocals
    <3>2. IsBenchmark(c) /\ admission = c /\ registrations[Benchmark] = me[c]
      BY <3>1 DEF AdmissionInv, Registering
    <3>3. registrations'[Benchmark] = None
      BY <2>5, <3>2, ConfigAssumption DEF UnregisterBenchmark, Unregister, IsBenchmark
    <3>4. ~IsBenchmark(c)'
      BY <3>1 DEF IsBenchmark
    <3>5. ASSUME NEW d \in Callers
          PROVE  /\ pc'[d] = "idle" => me'[d] = None
                 /\ pc'[d] \in {"admit", "register", "unregister"} => IsBenchmark(d)'
                 /\ admission' = d <=> IsBenchmark(d)' /\ pc'[d] # "admit"
                 /\ Registering(d)' => registrations'[Benchmark] = me'[d]
      <4>1. CASE d = c
        BY <4>1, <3>1, <3>4, ConfigAssumption DEF Registering
      <4>2. CASE d # c
        <5>1. IsBenchmark(d)' <=> IsBenchmark(d)
          BY <4>2, <3>1 DEF IsBenchmark
        <5>2. IsBenchmark(d) => pc[d] = "admit"
          BY <4>2, <3>2 DEF AdmissionInv
        <5> QED
          BY <4>2, <3>1, <5>1, <5>2, ConfigAssumption DEF AdmissionInv, Registering
      <4> QED
        BY <4>1, <4>2
    <3> QED
      BY <3>1, <3>3, <3>5 DEF AdmissionInv
  <2> QED
    BY <1>2, <2>1, <2>2, <2>3, <2>4, <2>5 DEF RunBenchmark
<1>3. ASSUME NEW c \in Callers, ReleaseIfActive(c) PROVE AdmissionInv'
  <2> USE DEF TypeInv, TypeOK, LocalsOK, Elsewhere, locals
  <2>1. CASE CallReleaseIfActive(c)
    BY <2>1, CallAdmission DEF CallReleaseIfActive
  <2>2. CASE GetActiveToken(c)
    <3>1. Elsewhere(c)
      BY <2>2 DEF GetActiveToken
    <3> QED
      BY <3>1, ElsewhereAdmission
  <2>3. CASE CheckBeforeGate(c)
    <3>1. Elsewhere(c)
      BY <2>3 DEF CheckBeforeGate
    <3> QED
      BY <3>1, ElsewhereAdmission
  <2>4. CASE StaleBeforeGate(c)
    BY <2>4, ReturnAdmission DEF StaleBeforeGate
  <2>5. CASE AcquireReleaseIfActive(c)
    <3>1. Elsewhere(c)
      BY <2>5 DEF AcquireReleaseIfActive, EnterGate
    <3> QED
      BY <3>1, ElsewhereAdmission
  <2>6. CASE RecheckUnderGate(c)
    <3>1. Elsewhere(c)
      BY <2>6 DEF RecheckUnderGate
    <3> QED
      BY <3>1, ElsewhereAdmission
  <2>7. CASE StaleUnderGate(c)
    BY <2>7, ReturnAdmission DEF StaleUnderGate, ReturnUngated
  <2>8. CASE ReleaseExpected(c)
    <3>1. Elsewhere(c)
      BY <2>8, SucceedsEffect DEF ReleaseExpected
    <3> QED
      BY <3>1, ElsewhereAdmission
  <2>9. CASE ReleaseExpectedFails(c)
    BY <2>9, ReturnAdmission, FailKeepsBenchmarks DEF ReleaseExpectedFails, ReturnUngated
  <2>10. CASE ClearReleased(c)
    <3>1. Elsewhere(c)
      BY <2>10 DEF ClearReleased, Clear
    <3> QED
      BY <3>1, ElsewhereAdmission
  <2>11. CASE NotifyReleased(c)
    BY <2>11, ReturnAdmission DEF NotifyReleased, ReturnUngated
  <2> QED
    BY <1>3, <2>1, <2>2, <2>3, <2>4, <2>5, <2>6, <2>7, <2>8, <2>9, <2>10, <2>11
         DEF ReleaseIfActive
<1>4. ASSUME NEW c \in Callers, ReleaseAll(c) PROVE AdmissionInv'
  <2> USE DEF TypeInv, TypeOK, LocalsOK, Elsewhere, locals
  <2>1. CASE CallReleaseAll(c)
    BY <2>1, CallAdmission DEF CallReleaseAll
  <2>2. CASE AcquireReleaseAll(c)
    <3>1. Elsewhere(c)
      BY <2>2 DEF AcquireReleaseAll, EnterGate
    <3> QED
      BY <3>1, ElsewhereAdmission
  <2>3. CASE ReleaseTarget(c)
    <3>1. PICK i \in Instances : ReleaseSucceeds(i) \/ ReleaseFails(i)
      BY <2>3 DEF ReleaseTarget
    <3>2. \A j \in Instances : OwnerOf[j] = Benchmark => phase'[j] = phase[j]
      BY <3>1, FailKeepsBenchmarks, SucceedsEffect
    <3>3. Elsewhere(c)
      BY <2>3, <3>2 DEF ReleaseTarget
    <3> QED
      BY <3>3, ElsewhereAdmission
  <2>4. CASE TargetsReleased(c)
    <3>1. Elsewhere(c)
      BY <2>4 DEF TargetsReleased
    <3> QED
      BY <3>1, ElsewhereAdmission
  <2>5. CASE ClearAll(c)
    <3>1. Elsewhere(c)
      BY <2>5 DEF ClearAll
    <3> QED
      BY <3>1, ElsewhereAdmission
  <2>6. CASE NotifyAll(c)
    BY <2>6, ReturnAdmission DEF NotifyAll, ReturnUngated
  <2> QED
    BY <1>4, <2>1, <2>2, <2>3, <2>4, <2>5, <2>6 DEF ReleaseAll
<1>5. ASSUME NEW i \in Instances, ViewModel(i) PROVE AdmissionInv'
  <2>1. /\ UNCHANGED <<admission, pc, me>>
        /\ registrations'[Benchmark] = registrations[Benchmark]
        /\ \A j \in Instances : OwnerOf[j] = Benchmark => phase'[j] = phase[j]
    <3> USE ConfigAssumption DEF TypeInv, TypeOK, AdmissionInv, locals
    <3>1. CASE Register(i)
      BY <3>1 DEF Register
    <3>2. CASE BeginRelease(i)
      BY <3>2 DEF BeginRelease
    <3>3. CASE CloseOwn(i)
      BY <3>3 DEF CloseOwn, Close, NotClosed
    <3>4. CASE ClearOwn(i)
      BY <3>4 DEF ClearOwn, Clear
    <3>5. CASE OnCleared(i)
      BY <3>5 DEF OnCleared
    <3>6. CASE CloseLate(i)
      BY <3>6 DEF CloseLate, Close
    <3>7. CASE DrainEnds(i)
      BY <3>7 DEF DrainEnds, NotClosed
    <3>8. CASE UnregisterCleared(i)
      BY <3>8 DEF UnregisterCleared, Unregister
    <3> QED
      BY <1>5, <3>1, <3>2, <3>3, <3>4, <3>5, <3>6, <3>7, <3>8 DEF ViewModel
  <2> QED
    BY <2>1, SameAdmission
<1>6. ASSUME NEW c \in Callers, CancelWaiting(c) PROVE AdmissionInv'
  BY <1>6, ReturnAdmission DEF CancelWaiting, Waiting
<1>7. CASE UNCHANGED vars
  BY <1>7, SameAdmission DEF vars
<1> QED
  BY <1>1, <1>2, <1>3, <1>4, <1>5, <1>6, <1>7 DEF Next

\* Whoever is in one of the gates holds it, from the start.
LEMMA AdmissionInvariant == Spec => [](TypeInv /\ GateInv /\ AdmissionInv)
<1>1. Init => GateInv /\ BusyOnlyInBlock
  BY ConfigAssumption DEF Init, GateInv, BusyOnlyInBlock, Gated
<1>2. Init => AdmissionInv
  <2> SUFFICES ASSUME Init PROVE AdmissionInv
    OBVIOUS
  <2>1. registrations[Benchmark] = None
    BY ConfigAssumption DEF Init
  <2> QED
    BY <2>1, ConfigAssumption DEF Init, AdmissionInv, Registering, IsBenchmark
<1> QED
  BY <1>1, <1>2, TypeInit, TypeStep, GateStep, AdmissionStep, PTL DEF Spec

\* The registration of a benchmark is there while it is admitted, its own, and no
\* longer: nothing that a view model or another benchmark does replaces it, so a
\* release of the benchmark reaches the one that runs.
BenchmarkIsRegistered ==
  /\ \A c \in Callers : Registering(c) => registrations[Benchmark] = me[c]
  /\ registrations[Benchmark] # None => \E c \in Callers : Registering(c)
  /\ \A c, d \in Callers : Registering(c) /\ Registering(d) => c = d

\* Benchmarks are registered one at a time, for any number of them.
THEOREM BenchmarksTakeTurns == Spec => []BenchmarkIsRegistered
<1>1. AdmissionInv => BenchmarkIsRegistered
  BY DEF AdmissionInv, BenchmarkIsRegistered, Registering
<1> QED
  BY <1>1, AdmissionInvariant, PTL

\* Where a coroutine stands still until another one has moved.
WaitsForGate(c) ==
  \/ pc[c] \in Waiting /\ operations # None
  \/ pc[c] = "admit" /\ admission # None

\* Of the coroutines inside the coordinator one can always go on: a benchmark that
\* waits for the operations gate with the admission held closes no circle.
SomeoneGoesOn ==
  (\E c \in Callers : pc[c] # "idle") =>
    \E c \in Callers : pc[c] # "idle" /\ ~WaitsForGate(c)

\* The coordinator and the admission never block each other.
THEOREM NobodyIsStuck == Spec => []SomeoneGoesOn
<1>1. ASSUME TypeInv, GateInv, AdmissionInv, NEW c \in Callers, pc[c] # "idle"
      PROVE  \E d \in Callers : pc[d] # "idle" /\ ~WaitsForGate(d)
  <2>1. CASE operations # None
    <3>1. operations \in Callers /\ pc[operations] \in Gated
      BY <1>1, <2>1 DEF GateInv, TypeInv, TypeOK
    <3> QED
      BY <3>1 DEF WaitsForGate, Gated, Waiting
  <2>2. CASE operations = None /\ WaitsForGate(c)
    <3>1. admission \in Callers /\ operations = None
      BY <1>1, <2>2 DEF WaitsForGate, TypeInv, TypeOK
    <3>2. pc[admission] # "idle" /\ pc[admission] # "admit"
      BY <1>1, <3>1 DEF AdmissionInv, IsBenchmark
    <3> QED
      BY <3>1, <3>2 DEF WaitsForGate
  <2> QED
    BY <1>1, <2>1, <2>2
<1>2. TypeInv /\ GateInv /\ AdmissionInv => SomeoneGoesOn
  BY <1>1 DEF SomeoneGoesOn
<1> QED
  BY <1>2, AdmissionInvariant, PTL
==============================================================================
