-------------------------- MODULE LlamaEngine_proofs ---------------------------
(***************************************************************************)
(* Proofs about LlamaEngine, for any number of threads, loads and           *)
(* generations, overlapping or not.  The count of leases is that of the     *)
(* calls that hold one (CountInv); one thread at a time takes the engine    *)
(* from one state to another (WorkInv); every handle has one owner, the     *)
(* load that made it, the engine, or the close() that frees it (OwnerInv).  *)
(* On these rests the life of models and bundles (LifeInv).                 *)
(*                                                                          *)
(* Three results need loads, or generations, that do not overlap.  What is  *)
(* open has a holder (AloneInv, HeldInv), what a close() has to end is over *)
(* or still at work (DoomedInv), and a stop stays aimed at its generation   *)
(* until it has taken effect (StopInv).                                     *)
(*                                                                          *)
(* The last section says who waits for whom: the lock nativeOperations is   *)
(* held by whoever decodes (LockInv), and somebody is at an engine that is  *)
(* being loaded or closed (BusyInv).                                        *)
(***************************************************************************)
EXTENDS LlamaEngine, FiniteSetTheorems, TLAPS

Leased == {t \in Threads : pc[t] \in LeasedPcs}

CountInv == activeLeaseCount = Cardinality(Leased)

\* The fields of the engine, of its native half, and of the calls.
EngineStates ==
  {"UNINITIALIZED", "INITIALIZING", "OPEN", "CLOSING", "CLOSED", "CLOSE_FAILED"}
AllPcs == {"idle"} \cup ClosePcs \cup LoadPcs \cup LeasedPcs

EngineTypes ==
  /\ engineState \in EngineStates
  /\ nativeHandle \in Handles \cup {NoHandle}
  /\ initEpoch \in Nat /\ activeLeaseCount \in Nat
  /\ activeBundleLease \in Handles \cup {NoHandle}
  /\ nativeOperations \in Threads \cup {Nobody}
  /\ life \in [Handles -> {"none", "alive", "freed"}]
  /\ stop_requested \in [Handles -> BOOLEAN]
  /\ bundles \subseteq Handles
  /\ inits \in 0..MaxInits /\ gens \in 0..MaxGens

GenerationTypes ==
  /\ activeGenerationId \in 0..gens
  /\ queuedGenerationIds \subseteq 1..gens
  /\ stoppedQueuedGenerationIds \subseteq queuedGenerationIds
  /\ active_generation_id \in [Handles -> 0..gens]
  /\ cancelled_generation_id \in [Handles -> 0..gens]
  /\ gen \in [Threads -> 0..gens]
  /\ target \in [Threads -> 0..gens]
  /\ meant \in [Threads -> SUBSET (1..gens)]
  /\ asked \subseteq 1..gens

CallTypes ==
  /\ pc \in [Threads -> AllPcs]
  /\ handle \in [Threads -> Handles \cup {NoHandle}]
  /\ load \in [Threads -> Handles \cup {NoHandle}]
  /\ epoch \in [Threads -> Nat]
  /\ doomed \in [Threads -> SUBSET Handles]

\* The three parts make up TypeOK.
LEMMA TypeParts == TypeOK <=> EngineTypes /\ GenerationTypes /\ CallTypes
  BY DEF TypeOK, EngineTypes, GenerationTypes, CallTypes, EngineStates, AllPcs

TypeInv == EngineTypes /\ GenerationTypes /\ CallTypes /\ CountInv

\* Nothing is loaded or leased at the start.
LEMMA TypeInit == Init => TypeInv
<1> SUFFICES ASSUME Init PROVE TypeInv
  OBVIOUS
<1>1. EngineTypes
  BY EngineAssumption DEF Init, EngineTypes, EngineStates, NoGen
<1>2. GenerationTypes
  BY EngineAssumption DEF Init, GenerationTypes, NoGen
<1>3. CallTypes
  BY DEF Init, CallTypes, AllPcs
<1>4. Leased = {}
  BY DEF Init, Leased, LeasedPcs, QueuePcs, LockedPcs
<1>5. CountInv
  BY <1>4, FS_EmptySet DEF Init, CountInv
<1> QED
  BY <1>1, <1>2, <1>3, <1>5 DEF TypeInv

\* A call that takes a lease, or gives it back, is counted.
LEMMA LeaseCounted ==
  ASSUME CallTypes, CallTypes', CountInv, NEW t \in Threads,
         \A u \in Threads \ {t} : pc'[u] = pc[u]
  PROVE  /\ pc[t] \notin LeasedPcs /\ pc'[t] \in LeasedPcs =>
              Cardinality(Leased') = activeLeaseCount + 1
         /\ pc[t] \in LeasedPcs /\ pc'[t] \notin LeasedPcs =>
              activeLeaseCount - 1 \in Nat /\ Cardinality(Leased') = activeLeaseCount - 1
         /\ (pc[t] \in LeasedPcs <=> pc'[t] \in LeasedPcs) =>
              Cardinality(Leased') = activeLeaseCount
<1> USE DEF CountInv
<1>1. IsFiniteSet(Leased)
  BY EngineAssumption, FS_Subset DEF Leased
<1>2. ASSUME pc[t] \notin LeasedPcs, pc'[t] \in LeasedPcs
      PROVE  Cardinality(Leased') = activeLeaseCount + 1
  <2>1. Leased' = Leased \cup {t} /\ t \notin Leased
    BY <1>2 DEF Leased
  <2> QED
    BY <1>1, <2>1, FS_AddElement
<1>3. ASSUME pc[t] \in LeasedPcs, pc'[t] \notin LeasedPcs
      PROVE  activeLeaseCount - 1 \in Nat /\ Cardinality(Leased') = activeLeaseCount - 1
  <2>1. Leased' = Leased \ {t} /\ t \in Leased
    BY <1>3 DEF Leased
  <2>2. Cardinality(Leased') = Cardinality(Leased) - 1
    BY <1>1, <2>1, FS_RemoveElement
  <2>3. IsFiniteSet(Leased')
    BY <1>1, <2>1, FS_Subset
  <2> QED
    BY <2>2, <2>3, FS_CardinalityType
<1>4. ASSUME pc[t] \in LeasedPcs <=> pc'[t] \in LeasedPcs
      PROVE  Cardinality(Leased') = activeLeaseCount
  <2>1. Leased' = Leased
    BY <1>4 DEF Leased
  <2> QED
    BY <2>1
<1> QED
  BY <1>2, <1>3, <1>4

\* No step leaves the types of the calls under way.
LEMMA CallTypesStep == TypeInv /\ [Next]_vars => CallTypes'
<1> SUFFICES ASSUME TypeInv, [Next]_vars PROVE CallTypes'
  OBVIOUS
<1> USE DEF TypeInv, EngineTypes, CallTypes, AllPcs, ClosePcs, LoadPcs, LeasedPcs,
     QueuePcs, LockedPcs, monitor, natives, locals, history, counters, Goto
<1>1. ASSUME NEW t \in Threads, CloseStep(t) PROVE CallTypes'
  <2>1. CASE CloseRefused(t)
    BY <2>1 DEF CloseRefused, CloseThrows, Return
  <2>2. CASE CloseNothing(t)
    BY <2>2 DEF CloseNothing, CloseReturns, Return, Loading
  <2>3. CASE CloseLoading(t)
    BY <2>3 DEF CloseLoading
  <2>4. CASE LoadIsOver(t)
    BY <2>4 DEF LoadIsOver, CloseReturns, Return, Loading
  <2>5. CASE LoadIsStuck(t)
    BY <2>5 DEF LoadIsStuck, CloseThrows, Return
  <2>6. CASE CloseOpen(t)
    BY <2>6 DEF CloseOpen
  <2>7. CASE SignalGeneration(t)
    BY <2>7 DEF SignalGeneration, NativeStop
  <2>8. CASE LeasesDrained(t)
    BY <2>8 DEF LeasesDrained
  <2>9. CASE FreeModel(t)
    BY <2>9 DEF FreeModel, NativeFree
  <2>10. CASE CloseBundle(t)
    BY <2>10 DEF CloseBundle, CloseReturns, Return, Loading
  <2>11. CASE CloseFails(t)
    BY <2>11 DEF CloseFails, CloseThrows, Return
  <2> QED
    BY <1>1, <2>1, <2>2, <2>3, <2>4, <2>5, <2>6, <2>7, <2>8, <2>9, <2>10, <2>11 DEF CloseStep
<1>2. ASSUME NEW t \in Threads, LoadStep(t) PROVE CallTypes'
  <2>1. CASE BeginLoad(t) /\ engineState # "CLOSE_FAILED"
    BY <2>1 DEF BeginLoad
  <2>2. CASE BeginLoad(t) /\ engineState = "CLOSE_FAILED"
    BY <2>2 DEF BeginLoad, Return
  <2>3. CASE LoadModel(t)
    BY <2>3 DEF LoadModel
  <2>4. CASE Publish(t)
    BY <2>4 DEF Publish, Return
  <2>5. CASE PublishRefused(t)
    BY <2>5 DEF PublishRefused
  <2>6. CASE FreeDiscarded(t)
    BY <2>6 DEF FreeDiscarded, NativeFree
  <2>7. CASE FreeDiscardedFails(t)
    BY <2>7 DEF FreeDiscardedFails, Return
  <2>8. CASE EndDiscarded(t)
    BY <2>8 DEF EndDiscarded, Return
  <2> QED
    BY <1>2, <2>1, <2>2, <2>3, <2>4, <2>5, <2>6, <2>7, <2>8 DEF LoadStep
<1>3. ASSUME NEW t \in Threads, LeasedStep(t) PROVE CallTypes'
  <2>1. CASE Admit(t)
    BY <2>1 DEF Admit
  <2>2. CASE NativeEnter(t)
    BY <2>2 DEF NativeEnter
  <2>3. CASE NativeStart(t)
    BY <2>3 DEF NativeStart
  <2>4. CASE NoticeStop(t)
    BY <2>4 DEF NoticeStop
  <2>5. CASE UnlockNative(t)
    BY <2>5 DEF UnlockNative
  <2>6. CASE Leave(t)
    BY <2>6 DEF Leave, Return
  <2>7. CASE EndOperation(t)
    BY <2>7 DEF EndOperation
  <2>8. CASE StopNative(t)
    BY <2>8 DEF StopNative, NativeStop
  <2> QED
    BY <1>3, <2>1, <2>2, <2>3, <2>4, <2>5, <2>6, <2>7, <2>8 DEF LeasedStep
<1>4. ASSUME NEW t \in Threads, Call(t) PROVE CallTypes'
  <2>1. CASE CallClose(t)
    BY <2>1 DEF CallClose, Begun
  <2>2. CASE CallInitialize(t)
    <3>1. inits + 1 \in Handles
      BY <2>2, EngineAssumption DEF CallInitialize, Handles
    <3> QED
      BY <2>2, <3>1 DEF CallInitialize, Begun
  <2>3. CASE CallGenerate(t)
    BY <2>3 DEF CallGenerate, LeaseGiven
  <2>4. CASE CallOperation(t)
    BY <2>4 DEF CallOperation, LeaseGiven
  <2>5. CASE CallStop(t)
    BY <2>5 DEF CallStop, LeaseGiven
  <2> QED
    BY <1>4, <2>1, <2>2, <2>3, <2>4, <2>5 DEF Call
<1>5. ASSUME NEW t \in Threads, LockNative(t) \/ CancelledAtLock(t) \/ EndDecode(t)
      PROVE  CallTypes'
  <2>1. CASE LockNative(t)
    BY <2>1 DEF LockNative
  <2>2. CASE CancelledAtLock(t)
    BY <2>2 DEF CancelledAtLock
  <2>3. CASE EndDecode(t)
    BY <2>3 DEF EndDecode
  <2> QED
    BY <1>5, <2>1, <2>2, <2>3
<1>6. CASE UNCHANGED vars
  BY <1>6 DEF vars
<1> QED
  BY <1>1, <1>2, <1>3, <1>4, <1>5, <1>6 DEF Next

\* No step leaves the types of the generations and of the stops.
LEMMA GenerationTypesStep == TypeInv /\ [Next]_vars => GenerationTypes'
<1> SUFFICES ASSUME TypeInv, [Next]_vars PROVE GenerationTypes'
  OBVIOUS
<1> USE DEF TypeInv, EngineTypes, GenerationTypes, CallTypes, NoGen, monitor,
     natives, locals, history, counters, Goto
<1>1. ASSUME NEW t \in Threads, CloseStep(t) PROVE GenerationTypes'
  <2>1. CASE CloseRefused(t)
    BY <2>1 DEF CloseRefused, CloseThrows, Return
  <2>2. CASE CloseNothing(t)
    <3>1. gen' \in [Threads -> 0..gens] /\ target' \in [Threads -> 0..gens]
      BY <2>2 DEF CloseNothing, CloseReturns, Return, Loading
    <3> QED
      BY <2>2, <3>1 DEF CloseNothing, CloseReturns
  <2>3. CASE CloseLoading(t)
    BY <2>3 DEF CloseLoading
  <2>4. CASE LoadIsOver(t)
    <3>1. gen' \in [Threads -> 0..gens] /\ target' \in [Threads -> 0..gens]
      BY <2>4 DEF LoadIsOver, CloseReturns, Return, Loading
    <3> QED
      BY <2>4, <3>1 DEF LoadIsOver, CloseReturns
  <2>5. CASE LoadIsStuck(t)
    BY <2>5 DEF LoadIsStuck, CloseThrows, Return
  <2>6. CASE CloseOpen(t)
    BY <2>6 DEF CloseOpen
  <2>7. CASE SignalGeneration(t)
    BY <2>7 DEF SignalGeneration, NativeStop
  <2>8. CASE LeasesDrained(t)
    BY <2>8 DEF LeasesDrained
  <2>9. CASE FreeModel(t)
    BY <2>9 DEF FreeModel, NativeFree
  <2>10. CASE CloseBundle(t)
    <3>1. gen' \in [Threads -> 0..gens] /\ target' \in [Threads -> 0..gens]
      BY <2>10 DEF CloseBundle, CloseReturns, Return, Loading
    <3> QED
      BY <2>10, <3>1 DEF CloseBundle, CloseReturns
  <2>11. CASE CloseFails(t)
    BY <2>11 DEF CloseFails, CloseThrows, Return
  <2> QED
    BY <1>1, <2>1, <2>2, <2>3, <2>4, <2>5, <2>6, <2>7, <2>8, <2>9, <2>10, <2>11 DEF CloseStep
<1>2. ASSUME NEW t \in Threads, LoadStep(t) PROVE GenerationTypes'
  <2>1. CASE BeginLoad(t) /\ engineState # "CLOSE_FAILED"
    BY <2>1 DEF BeginLoad
  <2>2. CASE BeginLoad(t) /\ engineState = "CLOSE_FAILED"
    <3>1. Return(t) /\ UNCHANGED <<activeGenerationId, queuedGenerationIds,
                     stoppedQueuedGenerationIds, natives, counters, history>>
      BY <2>2 DEF BeginLoad
    <3> QED
      BY <3>1 DEF Return
  <2>3. CASE LoadModel(t)
    BY <2>3 DEF LoadModel
  <2>4. CASE Publish(t)
    BY <2>4 DEF Publish, Return
  <2>5. CASE PublishRefused(t)
    BY <2>5 DEF PublishRefused
  <2>6. CASE FreeDiscarded(t)
    BY <2>6 DEF FreeDiscarded, NativeFree
  <2>7. CASE FreeDiscardedFails(t)
    BY <2>7 DEF FreeDiscardedFails, Return
  <2>8. CASE EndDiscarded(t)
    BY <2>8 DEF EndDiscarded, Return
  <2> QED
    BY <1>2, <2>1, <2>2, <2>3, <2>4, <2>5, <2>6, <2>7, <2>8 DEF LoadStep
<1>3. ASSUME NEW t \in Threads, LeasedStep(t) PROVE GenerationTypes'
  <2>1. CASE Admit(t)
    BY <2>1 DEF Admit
  <2>2. CASE NativeEnter(t)
    BY <2>2 DEF NativeEnter
  <2>3. CASE NativeStart(t)
    BY <2>3 DEF NativeStart
  <2>4. CASE NoticeStop(t)
    BY <2>4 DEF NoticeStop
  <2>5. CASE UnlockNative(t)
    BY <2>5 DEF UnlockNative
  <2>6. CASE Leave(t)
    <3>1. gen' \in [Threads -> 0..gens] /\ target' \in [Threads -> 0..gens]
      BY <2>6 DEF Leave, Return
    <3>2. asked' \subseteq 1..gens /\ meant' \in [Threads -> SUBSET (1..gens)]
      BY <2>6 DEF Leave
    <3>3. activeGenerationId' \in 0..gens
      BY <2>6 DEF Leave
    <3>4. /\ queuedGenerationIds' \subseteq 1..gens
          /\ stoppedQueuedGenerationIds' \subseteq queuedGenerationIds'
      BY <2>6 DEF Leave
    <3> QED
      BY <2>6, <3>1, <3>2, <3>3, <3>4 DEF Leave
  <2>7. CASE EndOperation(t)
    BY <2>7 DEF EndOperation
  <2>8. CASE StopNative(t)
    BY <2>8 DEF StopNative, NativeStop
  <2> QED
    BY <1>3, <2>1, <2>2, <2>3, <2>4, <2>5, <2>6, <2>7, <2>8 DEF LeasedStep
<1>4. ASSUME NEW t \in Threads, Call(t) PROVE GenerationTypes'
  <2>1. CASE CallClose(t)
    BY <2>1 DEF CallClose
  <2>2. CASE CallInitialize(t)
    BY <2>2 DEF CallInitialize
  <2>3. CASE CallGenerate(t)
    BY <2>3 DEF CallGenerate, LeaseGiven
  <2>4. CASE CallOperation(t)
    BY <2>4 DEF CallOperation, LeaseGiven
  <2>5. CASE CallStop(t)
    <3>1. target' \in [Threads -> 0..gens] /\ gen' = gen /\ gens' = gens
      BY <2>5 DEF CallStop
    <3>2. meant' \in [Threads -> SUBSET (1..gens)]
      <4>1. CASE activeGenerationId = NoGen
        <5>1. meant' = [meant EXCEPT ![t] = queuedGenerationIds]
          BY <2>5, <4>1 DEF CallStop
        <5>2. queuedGenerationIds \subseteq 1..gens
          OBVIOUS
        <5> QED
          BY <5>1, <5>2
      <4>2. CASE activeGenerationId # NoGen
        BY <2>5, <4>2 DEF CallStop
      <4> QED
        BY <4>1, <4>2
    <3>3. stoppedQueuedGenerationIds' \subseteq queuedGenerationIds
      BY <2>5 DEF CallStop
    <3> QED
      BY <2>5, <3>1, <3>2, <3>3 DEF CallStop
  <2> QED
    BY <1>4, <2>1, <2>2, <2>3, <2>4, <2>5 DEF Call
<1>5. ASSUME NEW t \in Threads, LockNative(t) \/ CancelledAtLock(t) \/ EndDecode(t)
      PROVE  GenerationTypes'
  <2>1. CASE LockNative(t)
    BY <2>1 DEF LockNative
  <2>2. CASE CancelledAtLock(t)
    BY <2>2 DEF CancelledAtLock
  <2>3. CASE EndDecode(t)
    BY <2>3 DEF EndDecode
  <2> QED
    BY <1>5, <2>1, <2>2, <2>3
<1>6. CASE UNCHANGED vars
  BY <1>6 DEF vars
<1> QED
  BY <1>1, <1>2, <1>3, <1>4, <1>5, <1>6 DEF Next

\* What a step of thread t does to the leases.
LeaseStep(t) ==
  /\ \A u \in Threads \ {t} : pc'[u] = pc[u]
  /\ \/ (pc[t] \in LeasedPcs <=> pc'[t] \in LeasedPcs) /\ activeLeaseCount' = activeLeaseCount
     \/ pc[t] \notin LeasedPcs /\ pc'[t] \in LeasedPcs /\ activeLeaseCount' = activeLeaseCount + 1
     \/ pc[t] \in LeasedPcs /\ pc'[t] \notin LeasedPcs /\ activeLeaseCount' = activeLeaseCount - 1

\* The step of a thread takes one lease, gives one back, or neither.
LEMMA StepOfThread ==
  ASSUME TypeInv, NEW t \in Threads,
         \/ Call(t) \/ CloseStep(t) \/ LoadStep(t) \/ LeasedStep(t)
         \/ LockNative(t) \/ CancelledAtLock(t) \/ EndDecode(t)
  PROVE  LeaseStep(t)
<1> USE DEF TypeInv, EngineTypes, CallTypes, LeaseStep, ClosePcs, LoadPcs,
     LeasedPcs, QueuePcs, LockedPcs, monitor, natives, locals, history, counters,
     Goto
<1>1. CASE CloseStep(t)
  <2>1. CASE CloseRefused(t)
    BY <2>1 DEF CloseRefused, CloseThrows, Return
  <2>2. CASE CloseNothing(t)
    BY <2>2 DEF CloseNothing, CloseReturns, Return, Loading
  <2>3. CASE CloseLoading(t)
    BY <2>3 DEF CloseLoading
  <2>4. CASE LoadIsOver(t)
    BY <2>4 DEF LoadIsOver, CloseReturns, Return, Loading
  <2>5. CASE LoadIsStuck(t)
    BY <2>5 DEF LoadIsStuck, CloseThrows, Return
  <2>6. CASE CloseOpen(t)
    BY <2>6 DEF CloseOpen
  <2>7. CASE SignalGeneration(t)
    BY <2>7 DEF SignalGeneration, NativeStop
  <2>8. CASE LeasesDrained(t)
    BY <2>8 DEF LeasesDrained
  <2>9. CASE FreeModel(t)
    BY <2>9 DEF FreeModel, NativeFree
  <2>10. CASE CloseBundle(t)
    BY <2>10 DEF CloseBundle, CloseReturns, Return, Loading
  <2>11. CASE CloseFails(t)
    BY <2>11 DEF CloseFails, CloseThrows, Return
  <2> QED
    BY <1>1, <2>1, <2>2, <2>3, <2>4, <2>5, <2>6, <2>7, <2>8, <2>9, <2>10, <2>11 DEF CloseStep
<1>2. CASE LoadStep(t)
  <2>1. CASE BeginLoad(t)
    BY <2>1 DEF BeginLoad, Return
  <2>2. CASE LoadModel(t)
    BY <2>2 DEF LoadModel, Return
  <2>3. CASE Publish(t)
    BY <2>3 DEF Publish, Return
  <2>4. CASE PublishRefused(t)
    BY <2>4 DEF PublishRefused
  <2>5. CASE FreeDiscarded(t)
    BY <2>5 DEF FreeDiscarded, NativeFree
  <2>6. CASE FreeDiscardedFails(t)
    BY <2>6 DEF FreeDiscardedFails, Return
  <2>7. CASE EndDiscarded(t)
    BY <2>7 DEF EndDiscarded, Return
  <2> QED
    BY <1>2, <2>1, <2>2, <2>3, <2>4, <2>5, <2>6, <2>7 DEF LoadStep
<1>3. CASE LeasedStep(t)
  BY <1>3 DEF LeasedStep, Admit, NativeEnter, NativeStart, NoticeStop, UnlockNative,
       Leave, Return, EndOperation, StopNative, NativeStop
<1>4. CASE Call(t)
  BY <1>4 DEF Call, CallClose, CallInitialize, CallGenerate, LeaseGiven, CallOperation,
       CallStop
<1>5. CASE LockNative(t) \/ CancelledAtLock(t) \/ EndDecode(t)
  BY <1>5 DEF LockNative, CancelledAtLock, EndDecode
<1> QED
  BY <1>1, <1>2, <1>3, <1>4, <1>5

\* The count of leases stays that of the calls that hold one.
LEMMA CountStep == TypeInv /\ [Next]_vars => CountInv' /\ activeLeaseCount' \in Nat
<1> SUFFICES ASSUME TypeInv, [Next]_vars PROVE CountInv' /\ activeLeaseCount' \in Nat
  OBVIOUS
<1>0. CallTypes'
  BY CallTypesStep
<1>a. ASSUME NEW t \in Threads, LeaseStep(t) PROVE CountInv' /\ activeLeaseCount' \in Nat
  BY <1>0, <1>a, LeaseCounted DEF LeaseStep, CountInv, TypeInv, EngineTypes
<1>b. ASSUME UNCHANGED vars PROVE CountInv' /\ activeLeaseCount' \in Nat
  BY <1>b DEF CountInv, Leased, vars, TypeInv, EngineTypes
<1> QED
  BY StepOfThread, <1>a, <1>b DEF Next

\* No step leaves the types of the engine and of its native half.
LEMMA EngineTypesStep == TypeInv /\ [Next]_vars => EngineTypes'
<1> SUFFICES ASSUME TypeInv, [Next]_vars PROVE EngineTypes'
  OBVIOUS
<1> DEFINE Rest ==
      /\ engineState \in EngineStates
      /\ nativeHandle \in Handles \cup {NoHandle}
      /\ initEpoch \in Nat
      /\ activeBundleLease \in Handles \cup {NoHandle}
      /\ nativeOperations \in Threads \cup {Nobody}
      /\ life \in [Handles -> {"none", "alive", "freed"}]
      /\ stop_requested \in [Handles -> BOOLEAN]
      /\ bundles \subseteq Handles
      /\ inits \in 0..MaxInits /\ gens \in 0..MaxGens
<1> USE DEF TypeInv, EngineTypes, CallTypes, EngineStates, monitor, natives, locals,
     history, counters, Goto
<1>1. ASSUME NEW t \in Threads, CloseStep(t) PROVE Rest'
  <2>1. CASE CloseRefused(t)
    BY <2>1 DEF CloseRefused, CloseThrows, Return
  <2>2. CASE CloseNothing(t)
    BY <2>2 DEF CloseNothing, CloseReturns, Return, Loading
  <2>3. CASE CloseLoading(t)
    BY <2>3 DEF CloseLoading
  <2>4. CASE LoadIsOver(t)
    BY <2>4 DEF LoadIsOver, CloseReturns, Return, Loading
  <2>5. CASE LoadIsStuck(t)
    BY <2>5 DEF LoadIsStuck, CloseThrows, Return
  <2>6. CASE CloseOpen(t)
    BY <2>6 DEF CloseOpen
  <2>7. CASE SignalGeneration(t)
    BY <2>7 DEF SignalGeneration, NativeStop
  <2>8. CASE LeasesDrained(t)
    BY <2>8 DEF LeasesDrained
  <2>9. CASE FreeModel(t)
    BY <2>9 DEF FreeModel, NativeFree
  <2>10. CASE CloseBundle(t)
    BY <2>10 DEF CloseBundle, CloseReturns, Return, Loading
  <2>11. CASE CloseFails(t)
    BY <2>11 DEF CloseFails, CloseThrows, Return
  <2> QED
    BY <1>1, <2>1, <2>2, <2>3, <2>4, <2>5, <2>6, <2>7, <2>8, <2>9, <2>10, <2>11 DEF CloseStep
<1>2. ASSUME NEW t \in Threads, LoadStep(t) PROVE Rest'
  <2>1. CASE BeginLoad(t) /\ engineState # "CLOSE_FAILED"
    BY <2>1 DEF BeginLoad
  <2>2. CASE BeginLoad(t) /\ engineState = "CLOSE_FAILED"
    BY <2>2 DEF BeginLoad, Return
  <2>3. CASE LoadModel(t)
    BY <2>3 DEF LoadModel
  <2>4. CASE Publish(t)
    BY <2>4 DEF Publish, Return
  <2>5. CASE PublishRefused(t)
    BY <2>5 DEF PublishRefused
  <2>6. CASE FreeDiscarded(t)
    BY <2>6 DEF FreeDiscarded, NativeFree
  <2>7. CASE FreeDiscardedFails(t)
    BY <2>7 DEF FreeDiscardedFails, Return
  <2>8. CASE EndDiscarded(t)
    BY <2>8 DEF EndDiscarded, Return
  <2> QED
    BY <1>2, <2>1, <2>2, <2>3, <2>4, <2>5, <2>6, <2>7, <2>8 DEF LoadStep
<1>3. ASSUME NEW t \in Threads, LeasedStep(t) PROVE Rest'
  <2>1. CASE Admit(t)
    BY <2>1 DEF Admit
  <2>2. CASE NativeEnter(t)
    BY <2>2 DEF NativeEnter
  <2>3. CASE NativeStart(t)
    BY <2>3 DEF NativeStart
  <2>4. CASE NoticeStop(t)
    BY <2>4 DEF NoticeStop
  <2>5. CASE UnlockNative(t)
    BY <2>5 DEF UnlockNative
  <2>6. CASE Leave(t)
    BY <2>6 DEF Leave, Return
  <2>7. CASE EndOperation(t)
    BY <2>7 DEF EndOperation
  <2>8. CASE StopNative(t)
    BY <2>8 DEF StopNative, NativeStop
  <2> QED
    BY <1>3, <2>1, <2>2, <2>3, <2>4, <2>5, <2>6, <2>7, <2>8 DEF LeasedStep
<1>4. ASSUME NEW t \in Threads, Call(t) PROVE Rest'
  <2>1. CASE CallClose(t)
    BY <2>1 DEF CallClose
  <2>2. CASE CallInitialize(t)
    <3>1. inits + 1 \in Handles /\ inits + 1 \in 0..MaxInits
      BY <2>2, EngineAssumption DEF CallInitialize, Handles
    <3> QED
      BY <2>2, <3>1 DEF CallInitialize
  <2>3. CASE CallGenerate(t)
    BY <2>3, EngineAssumption DEF CallGenerate, LeaseGiven
  <2>4. CASE CallOperation(t)
    BY <2>4 DEF CallOperation, LeaseGiven
  <2>5. CASE CallStop(t)
    BY <2>5 DEF CallStop, LeaseGiven
  <2> QED
    BY <1>4, <2>1, <2>2, <2>3, <2>4, <2>5 DEF Call
<1>5. ASSUME NEW t \in Threads, LockNative(t) \/ CancelledAtLock(t) \/ EndDecode(t)
      PROVE  Rest'
  <2>1. CASE LockNative(t)
    BY <2>1 DEF LockNative
  <2>2. CASE CancelledAtLock(t)
    BY <2>2 DEF CancelledAtLock
  <2>3. CASE EndDecode(t)
    BY <2>3 DEF EndDecode
  <2> QED
    BY <1>5, <2>1, <2>2, <2>3
<1>6. CASE UNCHANGED vars
  BY <1>6 DEF vars
<1>7. Rest'
  BY <1>1, <1>2, <1>3, <1>4, <1>5, <1>6 DEF Next
<1> QED
  BY <1>7, CountStep DEF EngineTypes

\* No step leaves the types, or the count of leases.
LEMMA TypeStep == TypeInv /\ [Next]_vars => TypeInv'
  BY CallTypesStep, GenerationTypesStep, EngineTypesStep, CountStep DEF TypeInv

\* The types are invariant.
LEMMA TypeInvariant == Spec => []TypeInv
<1> QED
  BY TypeInit, TypeStep, PTL DEF Spec

\* Every variable of the engine, its native half and its callers has its type.
THEOREM TypeCorrect == Spec => []TypeOK
<1>1. TypeInv => TypeOK
  BY TypeParts DEF TypeInv
<1> QED
  BY <1>1, TypeInvariant, PTL

-----------------------------------------------------------------------------
(* Who owns the handles, and how long they live                            *)

Workers == {"load", "publish", "discard", "discarded"}
Closers == {"signal", "drain", "free", "closed", "failed"}

\* One thread at a time takes the engine from one state to another.
WorkInv ==
  /\ \A t, u \in Threads : pc[t] \in Workers \cup Closers /\ pc[u] \in Workers \cup Closers => t = u
  /\ \A t \in Threads : pc[t] \in Workers => engineState \in {"INITIALIZING", "CLOSING"}
  /\ \A t \in Threads : pc[t] \in Closers => engineState = "CLOSING"

\* Each step keeps one thread at work.
LEMMA WorkStep == TypeInv /\ WorkInv /\ [Next]_vars => WorkInv'
<1> SUFFICES ASSUME TypeInv, WorkInv, [Next]_vars PROVE WorkInv'
  OBVIOUS
<1> USE DEF TypeInv, EngineTypes, CallTypes, EngineStates, AllPcs, WorkInv, Workers,
     Closers, ClosePcs, LoadPcs, LeasedPcs, QueuePcs, LockedPcs, monitor, natives,
     locals, history, counters, Goto
<1>1. ASSUME NEW t \in Threads, CloseStep(t) PROVE WorkInv'
  <2>1. CASE CloseRefused(t)
    BY <2>1 DEF CloseRefused, CloseThrows, Return
  <2>2. CASE CloseNothing(t)
    BY <2>2 DEF CloseNothing, CloseReturns, Return, Loading
  <2>3. CASE CloseLoading(t)
    BY <2>3 DEF CloseLoading
  <2>4. CASE LoadIsOver(t)
    BY <2>4 DEF LoadIsOver, CloseReturns, Return, Loading
  <2>5. CASE LoadIsStuck(t)
    BY <2>5 DEF LoadIsStuck, CloseThrows, Return
  <2>6. CASE CloseOpen(t)
    BY <2>6 DEF CloseOpen
  <2>7. CASE SignalGeneration(t)
    BY <2>7 DEF SignalGeneration, NativeStop
  <2>8. CASE LeasesDrained(t)
    BY <2>8 DEF LeasesDrained
  <2>9. CASE FreeModel(t)
    BY <2>9 DEF FreeModel, NativeFree
  <2>10. CASE CloseBundle(t)
    BY <2>10 DEF CloseBundle, CloseReturns, Return, Loading
  <2>11. CASE CloseFails(t)
    BY <2>11 DEF CloseFails, CloseThrows, Return
  <2> QED
    BY <1>1, <2>1, <2>2, <2>3, <2>4, <2>5, <2>6, <2>7, <2>8, <2>9, <2>10, <2>11 DEF CloseStep
<1>2. ASSUME NEW t \in Threads, LoadStep(t) PROVE WorkInv'
  <2>1. CASE BeginLoad(t) /\ engineState # "CLOSE_FAILED"
    BY <2>1 DEF BeginLoad
  <2>2. CASE BeginLoad(t) /\ engineState = "CLOSE_FAILED"
    BY <2>2 DEF BeginLoad, Return
  <2>3. CASE LoadModel(t)
    BY <2>3 DEF LoadModel
  <2>4. CASE Publish(t)
    BY <2>4 DEF Publish, Return
  <2>5. CASE PublishRefused(t)
    BY <2>5 DEF PublishRefused
  <2>6. CASE FreeDiscarded(t)
    BY <2>6 DEF FreeDiscarded, NativeFree
  <2>7. CASE FreeDiscardedFails(t)
    BY <2>7 DEF FreeDiscardedFails, Return
  <2>8. CASE EndDiscarded(t)
    BY <2>8 DEF EndDiscarded, Return
  <2> QED
    BY <1>2, <2>1, <2>2, <2>3, <2>4, <2>5, <2>6, <2>7, <2>8 DEF LoadStep
<1>3. ASSUME NEW t \in Threads, LeasedStep(t) PROVE WorkInv'
  <2>1. CASE Admit(t)
    BY <2>1 DEF Admit
  <2>2. CASE NativeEnter(t)
    BY <2>2 DEF NativeEnter
  <2>3. CASE NativeStart(t)
    BY <2>3 DEF NativeStart
  <2>4. CASE NoticeStop(t)
    BY <2>4 DEF NoticeStop
  <2>5. CASE UnlockNative(t)
    BY <2>5 DEF UnlockNative
  <2>6. CASE Leave(t)
    BY <2>6 DEF Leave, Return
  <2>7. CASE EndOperation(t)
    BY <2>7 DEF EndOperation
  <2>8. CASE StopNative(t)
    BY <2>8 DEF StopNative, NativeStop
  <2> QED
    BY <1>3, <2>1, <2>2, <2>3, <2>4, <2>5, <2>6, <2>7, <2>8 DEF LeasedStep
<1>4. ASSUME NEW t \in Threads, Call(t) PROVE WorkInv'
  <2>1. CASE CallClose(t)
    BY <2>1 DEF CallClose
  <2>2. CASE CallInitialize(t)
    BY <2>2 DEF CallInitialize
  <2>3. CASE CallGenerate(t)
    BY <2>3 DEF CallGenerate, LeaseGiven
  <2>4. CASE CallOperation(t)
    BY <2>4 DEF CallOperation, LeaseGiven
  <2>5. CASE CallStop(t)
    BY <2>5 DEF CallStop, LeaseGiven
  <2> QED
    BY <1>4, <2>1, <2>2, <2>3, <2>4, <2>5 DEF Call
<1>5. ASSUME NEW t \in Threads, LockNative(t) \/ CancelledAtLock(t) \/ EndDecode(t)
      PROVE  WorkInv'
  <2>1. CASE LockNative(t)
    BY <2>1 DEF LockNative
  <2>2. CASE CancelledAtLock(t)
    BY <2>2 DEF CancelledAtLock
  <2>3. CASE EndDecode(t)
    BY <2>3 DEF EndDecode
  <2> QED
    BY <1>5, <2>1, <2>2, <2>3
<1>6. CASE UNCHANGED vars
  BY <1>6 DEF vars
<1> QED
  BY <1>1, <1>2, <1>3, <1>4, <1>5, <1>6 DEF Next

\* A load has its own handle until it is published; the engine's handle goes to
\* the close() that frees it.
LoadsOwn ==
  \A t \in Threads : load[t] # NoHandle =>
    /\ load[t] <= inits /\ load[t] \in bundles
    /\ load[t] # nativeHandle /\ load[t] # activeBundleLease
    /\ \A u \in Threads : load[t] # handle[u] /\ (load[u] = load[t] => u = t)

LoadersLoad ==
  \A t \in Threads :
    /\ pc[t] \in LoadPcs => load[t] # NoHandle
    /\ pc[t] \in {"idle"} \cup LeasedPcs => load[t] = NoHandle

EngineOwns ==
  /\ \A t \in Threads : pc[t] \in Closers =>
       /\ nativeHandle = NoHandle
       /\ handle[t] # NoHandle /\ activeBundleLease = handle[t]
  /\ nativeHandle # NoHandle => activeBundleLease = nativeHandle
  /\ engineState = "OPEN" => nativeHandle # NoHandle

HandlesMade ==
  /\ nativeHandle <= inits /\ activeBundleLease <= inits
  /\ \A t \in Threads : handle[t] <= inits

OwnerInv == LoadsOwn /\ LoadersLoad /\ EngineOwns /\ HandlesMade


\* What a close() that returns leaves of its call.
LEMMA CloseReturnsFrame ==
  ASSUME TypeInv, NEW t \in Threads, CloseReturns(t)
  PROVE  \A u \in Threads :
           /\ load'[u] = load[u] /\ handle'[u] \in {handle[u], NoHandle}
           /\ u # t => handle'[u] = handle[u] /\ pc'[u] = pc[u]
           /\ u = t => pc'[u] = IF load[u] = NoHandle THEN "idle" ELSE "begin"
<1>1. CASE Loading(t)
  BY <1>1 DEF CloseReturns, Loading, locals, TypeInv, CallTypes
<1>2. CASE ~Loading(t)
  BY <1>2 DEF CloseReturns, Return, Loading, TypeInv, CallTypes
<1> QED
  BY <1>1, <1>2

\* Forgetting a handle keeps the bound on those that were made.
LEMMA HandlesMadeKept ==
  ASSUME HandlesMade, inits' = inits, inits \in Nat, nativeHandle' = nativeHandle,
         activeBundleLease' \in {activeBundleLease, NoHandle},
         \A u \in Threads : handle'[u] \in {handle[u], NoHandle}
  PROVE  HandlesMade'
  BY DEF HandlesMade, NoHandle

\* Each step keeps every handle with one owner.
LEMMA OwnerStep == TypeInv /\ TypeInv' /\ WorkInv /\ OwnerInv /\ [Next]_vars => OwnerInv'
<1> SUFFICES ASSUME TypeInv, TypeInv', WorkInv, OwnerInv, [Next]_vars PROVE OwnerInv'
  OBVIOUS
<1> USE EngineAssumption DEF TypeInv, EngineTypes, CallTypes, EngineStates, AllPcs,
     WorkInv, Workers, Closers, OwnerInv, LoadsOwn, LoadersLoad, EngineOwns,
     HandlesMade, Handles, NoHandle, ClosePcs, LoadPcs, LeasedPcs, QueuePcs,
     LockedPcs, monitor, natives, locals, history, counters, Goto
<1>1. ASSUME NEW t \in Threads, CloseStep(t) PROVE OwnerInv'
  <2>1. CASE CloseRefused(t)
    BY <2>1 DEF CloseRefused, CloseThrows, Return
  <2>2. CASE CloseNothing(t)
    <3>1. \A u \in Threads :
            /\ load'[u] = load[u] /\ handle'[u] \in {handle[u], NoHandle}
            /\ u # t => handle'[u] = handle[u] /\ pc'[u] = pc[u]
            /\ u = t => pc'[u] = IF load[u] = NoHandle THEN "idle" ELSE "begin"
      BY <2>2, CloseReturnsFrame DEF CloseNothing
    <3>2. LoadsOwn'
      BY <2>2, <3>1 DEF CloseNothing
    <3>3. LoadersLoad'
      BY <2>2, <3>1 DEF CloseNothing
    <3>4. EngineOwns'
      BY <2>2, <3>1 DEF CloseNothing
    <3>5. HandlesMade'
      <4>1. \A u \in Threads : handle'[u] \in {handle[u], NoHandle}
        BY <3>1
      <4>2. inits' = inits /\ inits \in Nat /\ nativeHandle' = nativeHandle
        BY <2>2 DEF CloseNothing
      <4>3. activeBundleLease' \in {activeBundleLease, NoHandle}
        BY <2>2 DEF CloseNothing
      <4> QED
        BY <4>1, <4>2, <4>3, HandlesMadeKept
    <3> QED
      BY <3>2, <3>3, <3>4, <3>5
  <2>3. CASE CloseLoading(t)
    BY <2>3 DEF CloseLoading
  <2>4. CASE LoadIsOver(t)
    <3>1. \A u \in Threads :
            /\ load'[u] = load[u] /\ handle'[u] \in {handle[u], NoHandle}
            /\ u # t => handle'[u] = handle[u] /\ pc'[u] = pc[u]
            /\ u = t => pc'[u] = IF load[u] = NoHandle THEN "idle" ELSE "begin"
      BY <2>4, CloseReturnsFrame DEF LoadIsOver
    <3>2. LoadsOwn'
      BY <2>4, <3>1 DEF LoadIsOver
    <3>3. LoadersLoad'
      BY <2>4, <3>1 DEF LoadIsOver
    <3>4. EngineOwns'
      BY <2>4, <3>1 DEF LoadIsOver
    <3>5. HandlesMade'
      <4>1. \A u \in Threads : handle'[u] \in {handle[u], NoHandle}
        BY <3>1
      <4>2. inits' = inits /\ inits \in Nat /\ nativeHandle' = nativeHandle
        BY <2>4 DEF LoadIsOver
      <4>3. activeBundleLease' \in {activeBundleLease, NoHandle}
        BY <2>4 DEF LoadIsOver
      <4> QED
        BY <4>1, <4>2, <4>3, HandlesMadeKept
    <3> QED
      BY <3>2, <3>3, <3>4, <3>5
  <2>5. CASE LoadIsStuck(t)
    BY <2>5 DEF LoadIsStuck, CloseThrows, Return
  <2>6. CASE CloseOpen(t)
    BY <2>6 DEF CloseOpen
  <2>7. CASE SignalGeneration(t)
    BY <2>7 DEF SignalGeneration, NativeStop
  <2>8. CASE LeasesDrained(t)
    BY <2>8 DEF LeasesDrained
  <2>9. CASE FreeModel(t)
    BY <2>9 DEF FreeModel, NativeFree
  <2>10. CASE CloseBundle(t)
    <3>1. \A u \in Threads :
            /\ load'[u] = load[u] /\ handle'[u] \in {handle[u], NoHandle}
            /\ u # t => handle'[u] = handle[u] /\ pc'[u] = pc[u]
            /\ u = t => pc'[u] = IF load[u] = NoHandle THEN "idle" ELSE "begin"
      BY <2>10, CloseReturnsFrame DEF CloseBundle
    <3>2. LoadsOwn'
      BY <2>10, <3>1 DEF CloseBundle
    <3>3. LoadersLoad'
      BY <2>10, <3>1 DEF CloseBundle
    <3>4. EngineOwns'
      <4>1. nativeHandle' = NoHandle /\ engineState' = "CLOSED"
        BY <2>10 DEF CloseBundle
      <4>2. ASSUME NEW u \in Threads PROVE pc'[u] \notin Closers
        <5>1. pc[t] = "closed"
          BY <2>10 DEF CloseBundle
        <5>2. u # t => pc[u] \notin Closers
          BY <5>1
        <5> QED
          BY <3>1, <5>2
      <4> QED
        BY <4>1, <4>2
    <3>5. HandlesMade'
      <4>1. \A u \in Threads : handle'[u] \in {handle[u], NoHandle}
        BY <3>1
      <4>2. inits' = inits /\ inits \in Nat /\ nativeHandle' = nativeHandle
        BY <2>10 DEF CloseBundle
      <4>3. activeBundleLease' \in {activeBundleLease, NoHandle}
        BY <2>10 DEF CloseBundle
      <4> QED
        BY <4>1, <4>2, <4>3, HandlesMadeKept
    <3> QED
      BY <3>2, <3>3, <3>4, <3>5
  <2>11. CASE CloseFails(t)
    BY <2>11 DEF CloseFails, CloseThrows, Return
  <2> QED
    BY <1>1, <2>1, <2>2, <2>3, <2>4, <2>5, <2>6, <2>7, <2>8, <2>9, <2>10, <2>11 DEF CloseStep
<1>2. ASSUME NEW t \in Threads, LoadStep(t) PROVE OwnerInv'
  <2>1. CASE BeginLoad(t) /\ engineState # "CLOSE_FAILED"
    BY <2>1 DEF BeginLoad
  <2>2. CASE BeginLoad(t) /\ engineState = "CLOSE_FAILED"
    <3>1. /\ pc[t] = "begin" /\ engineState = "CLOSE_FAILED"
          /\ bundles' = bundles \ {load[t]}
          /\ Return(t)
          /\ UNCHANGED <<monitor, activeBundleLease, nativeOperations, life,
                         natives, counters, history>>
      BY <2>2 DEF BeginLoad
    <3> QED
      BY <3>1 DEF Return
  <2>3. CASE LoadModel(t)
    BY <2>3 DEF LoadModel
  <2>4. CASE Publish(t)
    BY <2>4 DEF Publish, Return
  <2>5. CASE PublishRefused(t)
    BY <2>5 DEF PublishRefused
  <2>6. CASE FreeDiscarded(t)
    BY <2>6 DEF FreeDiscarded, NativeFree
  <2>7. CASE FreeDiscardedFails(t)
    BY <2>7 DEF FreeDiscardedFails, Return
  <2>8. CASE EndDiscarded(t)
    BY <2>8 DEF EndDiscarded, Return
  <2> QED
    BY <1>2, <2>1, <2>2, <2>3, <2>4, <2>5, <2>6, <2>7, <2>8 DEF LoadStep
<1>3. ASSUME NEW t \in Threads, LeasedStep(t) PROVE OwnerInv'
  <2>1. CASE Admit(t)
    BY <2>1 DEF Admit
  <2>2. CASE NativeEnter(t)
    BY <2>2 DEF NativeEnter
  <2>3. CASE NativeStart(t)
    BY <2>3 DEF NativeStart
  <2>4. CASE NoticeStop(t)
    BY <2>4 DEF NoticeStop
  <2>5. CASE UnlockNative(t)
    BY <2>5 DEF UnlockNative
  <2>6. CASE Leave(t)
    BY <2>6 DEF Leave, Return
  <2>7. CASE EndOperation(t)
    BY <2>7 DEF EndOperation
  <2>8. CASE StopNative(t)
    BY <2>8 DEF StopNative, NativeStop
  <2> QED
    BY <1>3, <2>1, <2>2, <2>3, <2>4, <2>5, <2>6, <2>7, <2>8 DEF LeasedStep
<1>4. ASSUME NEW t \in Threads, Call(t) PROVE OwnerInv'
  <2>1. CASE CallClose(t)
    BY <2>1 DEF CallClose
  <2>2. CASE CallInitialize(t)
    <3>1. LoadsOwn'
      BY <2>2 DEF CallInitialize
    <3>2. LoadersLoad'
      BY <2>2 DEF CallInitialize
    <3>3. EngineOwns'
      BY <2>2 DEF CallInitialize
    <3>4. HandlesMade'
      BY <2>2 DEF CallInitialize
    <3> QED
      BY <3>1, <3>2, <3>3, <3>4
  <2>3. CASE CallGenerate(t)
    BY <2>3 DEF CallGenerate, LeaseGiven
  <2>4. CASE CallOperation(t)
    BY <2>4 DEF CallOperation, LeaseGiven
  <2>5. CASE CallStop(t)
    BY <2>5 DEF CallStop, LeaseGiven
  <2> QED
    BY <1>4, <2>1, <2>2, <2>3, <2>4, <2>5 DEF Call
<1>5. ASSUME NEW t \in Threads, LockNative(t) \/ CancelledAtLock(t) \/ EndDecode(t)
      PROVE  OwnerInv'
  <2>1. CASE LockNative(t)
    BY <2>1 DEF LockNative
  <2>2. CASE CancelledAtLock(t)
    BY <2>2 DEF CancelledAtLock
  <2>3. CASE EndDecode(t)
    BY <2>3 DEF EndDecode
  <2> QED
    BY <1>5, <2>1, <2>2, <2>3
<1>6. CASE UNCHANGED vars
  BY <1>6 DEF vars
<1> QED
  BY <1>1, <1>2, <1>3, <1>4, <1>5, <1>6 DEF Next

\* Which models are loaded, by who owns them.
LoadsAlive ==
  \A t \in Threads : load[t] # NoHandle =>
    /\ pc[t] \in ClosePcs \cup {"begin", "load"} => life[load[t]] = "none"
    /\ pc[t] \in {"publish", "discard"} => life[load[t]] = "alive"
    /\ pc[t] = "discarded" => life[load[t]] # "alive"

EngineAlive ==
  /\ \A h \in Handles : h > inits => life[h] = "none"
  /\ nativeHandle # NoHandle => life[nativeHandle] = "alive"
  /\ \A t \in Threads : pc[t] \in {"signal", "drain", "free", "failed"} => life[handle[t]] = "alive"
  /\ \A t \in Threads : pc[t] = "closed" => life[handle[t]] = "freed"

LeasesAlive ==
  /\ \A t \in Threads : pc[t] \in LeasedPcs => handle[t] # NoHandle /\ life[handle[t]] = "alive"
  /\ \A t \in Threads : pc[t] = "free" => activeLeaseCount = 0

LifeInv == LoadsAlive /\ EngineAlive /\ LeasesAlive /\ ModelFilesStayOpen

\* When no lease is counted, no call holds one.
LEMMA NoLeases == TypeInv /\ activeLeaseCount = 0 => \A t \in Threads : pc[t] \notin LeasedPcs
<1> SUFFICES ASSUME TypeInv, activeLeaseCount = 0 PROVE Leased = {}
  BY DEF Leased
<1>1. IsFiniteSet(Leased)
  BY EngineAssumption, FS_Subset DEF Leased
<1> QED
  BY <1>1, FS_EmptySet DEF TypeInv, CountInv

\* Each step keeps what is known of the models that are loaded.
LEMMA LifeStep ==
  TypeInv /\ TypeInv' /\ WorkInv /\ OwnerInv /\ OwnerInv' /\ LifeInv /\ [Next]_vars => LifeInv'
<1> SUFFICES ASSUME TypeInv, TypeInv', WorkInv, OwnerInv, OwnerInv', LifeInv, [Next]_vars
             PROVE  LifeInv'
  OBVIOUS
<1> USE EngineAssumption, NoLeases DEF TypeInv, EngineTypes, CallTypes,
     EngineStates, AllPcs, WorkInv, Workers, Closers, OwnerInv, LoadsOwn,
     LoadersLoad, EngineOwns, HandlesMade, Handles, NoHandle, LifeInv, LoadsAlive,
     EngineAlive, LeasesAlive, ModelFilesStayOpen, ClosePcs, LoadPcs, LeasedPcs,
     QueuePcs, LockedPcs, monitor, natives, locals, history, counters, Goto
<1>1. ASSUME NEW t \in Threads, CloseStep(t) PROVE LifeInv'
  <2>1. CASE CloseRefused(t)
    <3>1. LoadsAlive'
      BY <2>1 DEF CloseRefused, CloseThrows, Return
    <3>2. EngineAlive'
      BY <2>1 DEF CloseRefused, CloseThrows, Return
    <3>3. LeasesAlive'
      BY <2>1 DEF CloseRefused, CloseThrows, Return
    <3>4. ModelFilesStayOpen'
      BY <2>1 DEF CloseRefused, CloseThrows, Return
    <3> QED
      BY <3>1, <3>2, <3>3, <3>4
  <2>2. CASE CloseNothing(t)
    <3>1. LoadsAlive'
      BY <2>2 DEF CloseNothing, CloseReturns, Return, Loading
    <3>2. EngineAlive'
      BY <2>2 DEF CloseNothing, CloseReturns, Return, Loading
    <3>3. LeasesAlive'
      BY <2>2 DEF CloseNothing, CloseReturns, Return, Loading
    <3>4. ModelFilesStayOpen'
      BY <2>2 DEF CloseNothing, CloseReturns, Return, Loading
    <3> QED
      BY <3>1, <3>2, <3>3, <3>4
  <2>3. CASE CloseLoading(t)
    BY <2>3 DEF CloseLoading
  <2>4. CASE LoadIsOver(t)
    <3>1. \A u \in Threads :
            /\ load'[u] = load[u] /\ handle'[u] \in {handle[u], NoHandle}
            /\ u # t => handle'[u] = handle[u] /\ pc'[u] = pc[u]
            /\ u = t => pc'[u] = IF load[u] = NoHandle THEN "idle" ELSE "begin"
      BY <2>4, CloseReturnsFrame DEF LoadIsOver
    <3>2. LoadsAlive'
      <4>1. SUFFICES ASSUME NEW u \in Threads, load'[u] # NoHandle
                     PROVE  /\ pc'[u] \in ClosePcs \cup {"begin", "load"}
                                 => life'[load'[u]] = "none"
                            /\ pc'[u] \in {"publish", "discard"} => life'[load'[u]] = "alive"
                            /\ pc'[u] = "discarded" => life'[load'[u]] # "alive"
        OBVIOUS
      <4>2. life' = life /\ load'[u] = load[u]
        BY <2>4, <3>1 DEF LoadIsOver
      <4>3. CASE u = t
        <5>1. pc[u] \in ClosePcs /\ pc'[u] = "begin"
          BY <2>4, <3>1, <4>1, <4>2, <4>3 DEF LoadIsOver
        <5> QED
          BY <4>1, <4>2, <5>1
      <4>4. CASE u # t
        <5>1. pc'[u] = pc[u]
          BY <3>1, <4>4
        <5>2. LoadsAlive
          OBVIOUS
        <5> QED
          BY ONLY <4>1, <4>2, <5>1, <5>2 DEF LoadsAlive
      <4> QED
        BY <4>3, <4>4
    <3>3. EngineAlive'
      <4>1. \A u \in Threads : pc'[u] \in ClosePcs =>
              u # t /\ pc'[u] = pc[u] /\ handle'[u] = handle[u]
        BY <3>1
      <4>2. life' = life /\ inits' = inits /\ nativeHandle' = nativeHandle
        BY <2>4 DEF LoadIsOver
      <4> QED
        BY <4>1, <4>2
    <3>4. LeasesAlive'
      <4>1. \A u \in Threads : pc'[u] \in LeasedPcs \cup {"free"} =>
              u # t /\ pc'[u] = pc[u] /\ handle'[u] = handle[u]
        BY <3>1
      <4>2. activeLeaseCount' = activeLeaseCount /\ life' = life
        BY <2>4 DEF LoadIsOver
      <4> QED
        BY <4>1, <4>2
    <3>5. ModelFilesStayOpen'
      BY <2>4, <3>1 DEF LoadIsOver
    <3> QED
      BY <3>2, <3>3, <3>4, <3>5
  <2>5. CASE LoadIsStuck(t)
    <3>1. LoadsAlive'
      BY <2>5 DEF LoadIsStuck, CloseThrows, Return
    <3>2. EngineAlive'
      BY <2>5 DEF LoadIsStuck, CloseThrows, Return
    <3>3. LeasesAlive'
      BY <2>5 DEF LoadIsStuck, CloseThrows, Return
    <3>4. ModelFilesStayOpen'
      BY <2>5 DEF LoadIsStuck, CloseThrows, Return
    <3> QED
      BY <3>1, <3>2, <3>3, <3>4
  <2>6. CASE CloseOpen(t)
    BY <2>6 DEF CloseOpen
  <2>7. CASE SignalGeneration(t)
    BY <2>7 DEF SignalGeneration, NativeStop
  <2>8. CASE LeasesDrained(t)
    BY <2>8 DEF LeasesDrained
  <2>9. CASE FreeModel(t)
    <3>1. CASE NativeFree(handle[t]) /\ pc' = [pc EXCEPT ![t] = "closed"]
      <4>1. LoadsAlive'
        BY <2>9, <3>1 DEF FreeModel, NativeFree
      <4>2. EngineAlive'
        BY <2>9, <3>1 DEF FreeModel, NativeFree
      <4>3. LeasesAlive'
        BY <2>9, <3>1 DEF FreeModel, NativeFree
      <4>4. ModelFilesStayOpen'
        BY <2>9, <3>1 DEF FreeModel, NativeFree
      <4> QED
        BY <4>1, <4>2, <4>3, <4>4
    <3>2. CASE UNCHANGED life /\ pc' = [pc EXCEPT ![t] = "failed"]
      BY <2>9, <3>2 DEF FreeModel
    <3> QED
      BY <2>9, <3>1, <3>2 DEF FreeModel
  <2>10. CASE CloseBundle(t)
    <3>1. \A u \in Threads :
            /\ load'[u] = load[u] /\ handle'[u] \in {handle[u], NoHandle}
            /\ u # t => handle'[u] = handle[u] /\ pc'[u] = pc[u]
            /\ u = t => pc'[u] = IF load[u] = NoHandle THEN "idle" ELSE "begin"
      BY <2>10, CloseReturnsFrame DEF CloseBundle
    <3>2. LoadsAlive'
      BY <2>10, <3>1 DEF CloseBundle
    <3>3. EngineAlive'
      <4>1. \A u \in Threads : pc'[u] \in ClosePcs =>
              u # t /\ pc'[u] = pc[u] /\ handle'[u] = handle[u]
        BY <3>1
      <4>2. life' = life /\ inits' = inits /\ nativeHandle' = nativeHandle
        BY <2>10 DEF CloseBundle
      <4> QED
        BY <4>1, <4>2
    <3>4. LeasesAlive'
      <4>1. \A u \in Threads : pc'[u] \in LeasedPcs \cup {"free"} =>
              u # t /\ pc'[u] = pc[u] /\ handle'[u] = handle[u]
        BY <3>1
      <4>2. activeLeaseCount' = activeLeaseCount /\ life' = life
        BY <2>10 DEF CloseBundle
      <4> QED
        BY <4>1, <4>2
    <3>5. ModelFilesStayOpen'
      BY <2>10, <3>1 DEF CloseBundle
    <3> QED
      BY <3>2, <3>3, <3>4, <3>5
  <2>11. CASE CloseFails(t)
    <3>1. LoadsAlive'
      <4>1. load' = [load EXCEPT ![t] = NoHandle] /\ pc' = [pc EXCEPT ![t] = "idle"]
        BY <2>11 DEF CloseFails, CloseThrows, Return
      <4>2. life' = life
        BY <2>11 DEF CloseFails
      <4> QED
        BY <4>1, <4>2
    <3>2. EngineAlive'
      <4>1. /\ handle' = [handle EXCEPT ![t] = NoHandle]
            /\ pc' = [pc EXCEPT ![t] = "idle"]
        BY <2>11 DEF CloseFails, CloseThrows, Return
      <4>2. UNCHANGED <<nativeHandle, life, inits>>
        BY <2>11 DEF CloseFails
      <4> QED
        BY <4>1, <4>2
    <3>3. LeasesAlive'
      <4>1. /\ handle' = [handle EXCEPT ![t] = NoHandle]
            /\ pc' = [pc EXCEPT ![t] = "idle"]
        BY <2>11 DEF CloseFails, CloseThrows, Return
      <4>2. UNCHANGED <<activeLeaseCount, life>>
        BY <2>11 DEF CloseFails
      <4> QED
        BY <4>1, <4>2
    <3>4. ModelFilesStayOpen'
      <4>1. life' = life /\ bundles' = bundles \ {load[t]} /\ pc[t] = "failed"
        BY <2>11 DEF CloseFails, CloseThrows
      <4>2. load[t] # NoHandle => life[load[t]] = "none"
        BY <4>1
      <4> QED
        BY <4>1, <4>2
    <3> QED
      BY <3>1, <3>2, <3>3, <3>4
  <2> QED
    BY <1>1, <2>1, <2>2, <2>3, <2>4, <2>5, <2>6, <2>7, <2>8, <2>9, <2>10, <2>11 DEF CloseStep
<1>2. ASSUME NEW t \in Threads, LoadStep(t) PROVE LifeInv'
  <2>1. CASE BeginLoad(t) /\ engineState # "CLOSE_FAILED"
    BY <2>1 DEF BeginLoad
  <2>2. CASE BeginLoad(t) /\ engineState = "CLOSE_FAILED"
    <3>1. /\ pc[t] = "begin" /\ engineState = "CLOSE_FAILED"
          /\ bundles' = bundles \ {load[t]}
          /\ Return(t)
          /\ UNCHANGED <<monitor, activeBundleLease, nativeOperations, life,
                         natives, counters, history>>
      BY <2>2 DEF BeginLoad
    <3> QED
      BY <3>1 DEF Return
  <2>3. CASE LoadModel(t)
    BY <2>3 DEF LoadModel
  <2>4. CASE Publish(t)
    BY <2>4 DEF Publish, Return
  <2>5. CASE PublishRefused(t)
    BY <2>5 DEF PublishRefused
  <2>6. CASE FreeDiscarded(t)
    BY <2>6 DEF FreeDiscarded, NativeFree
  <2>7. CASE FreeDiscardedFails(t)
    BY <2>7 DEF FreeDiscardedFails, Return
  <2>8. CASE EndDiscarded(t)
    BY <2>8 DEF EndDiscarded, Return
  <2> QED
    BY <1>2, <2>1, <2>2, <2>3, <2>4, <2>5, <2>6, <2>7, <2>8 DEF LoadStep
<1>3. ASSUME NEW t \in Threads, LeasedStep(t) PROVE LifeInv'
  <2>1. CASE Admit(t)
    BY <2>1 DEF Admit
  <2>2. CASE NativeEnter(t)
    BY <2>2 DEF NativeEnter
  <2>3. CASE NativeStart(t)
    BY <2>3 DEF NativeStart
  <2>4. CASE NoticeStop(t)
    BY <2>4 DEF NoticeStop
  <2>5. CASE UnlockNative(t)
    BY <2>5 DEF UnlockNative
  <2>6. CASE Leave(t)
    BY <2>6 DEF Leave, Return
  <2>7. CASE EndOperation(t)
    BY <2>7 DEF EndOperation
  <2>8. CASE StopNative(t)
    BY <2>8 DEF StopNative, NativeStop
  <2> QED
    BY <1>3, <2>1, <2>2, <2>3, <2>4, <2>5, <2>6, <2>7, <2>8 DEF LeasedStep
<1>4. ASSUME NEW t \in Threads, Call(t) PROVE LifeInv'
  <2>1. CASE CallClose(t)
    BY <2>1 DEF CallClose
  <2>2. CASE CallInitialize(t)
    BY <2>2 DEF CallInitialize
  <2>3. CASE CallGenerate(t)
    BY <2>3 DEF CallGenerate, LeaseGiven
  <2>4. CASE CallOperation(t)
    BY <2>4 DEF CallOperation, LeaseGiven
  <2>5. CASE CallStop(t)
    BY <2>5 DEF CallStop, LeaseGiven
  <2> QED
    BY <1>4, <2>1, <2>2, <2>3, <2>4, <2>5 DEF Call
<1>5. ASSUME NEW t \in Threads, LockNative(t) \/ CancelledAtLock(t) \/ EndDecode(t)
      PROVE  LifeInv'
  <2>1. CASE LockNative(t)
    BY <2>1 DEF LockNative
  <2>2. CASE CancelledAtLock(t)
    BY <2>2 DEF CancelledAtLock
  <2>3. CASE EndDecode(t)
    BY <2>3 DEF EndDecode
  <2> QED
    BY <1>5, <2>1, <2>2, <2>3
<1>6. CASE UNCHANGED vars
  BY <1>6 DEF vars
<1> QED
  BY <1>1, <1>2, <1>3, <1>4, <1>5, <1>6 DEF Next

\* Nothing is loaded at the start.
LEMMA OwnersInit == Init => WorkInv /\ OwnerInv /\ LifeInv
<1> SUFFICES ASSUME Init PROVE WorkInv /\ OwnerInv /\ LifeInv
  OBVIOUS
<1> USE DEF Init, ClosePcs, LoadPcs, LeasedPcs, QueuePcs, LockedPcs, Workers,
     Closers, NoHandle
<1>1. WorkInv
  BY DEF WorkInv
<1>2. OwnerInv
  BY DEF OwnerInv, LoadsOwn, LoadersLoad, EngineOwns, HandlesMade
<1>3. LifeInv
  BY DEF LifeInv, LoadsAlive, EngineAlive, LeasesAlive, ModelFilesStayOpen
<1> QED
  BY <1>1, <1>2, <1>3

\* The invariant of owners and lives.
LEMMA OwnersInvariant == Spec => [](WorkInv /\ OwnerInv /\ LifeInv)
<1> DEFINE I == WorkInv /\ OwnerInv /\ LifeInv
<1>1. Init => I
  BY OwnersInit
<1>2. TypeInv /\ TypeInv' /\ I /\ [Next]_vars => I'
  <2> SUFFICES ASSUME TypeInv, TypeInv', I, [Next]_vars PROVE I'
    OBVIOUS
  <2>1. WorkInv' /\ OwnerInv'
    BY WorkStep, OwnerStep
  <2> QED
    BY <2>1, LifeStep
<1> HIDE DEF I
<1>3. Spec => []I
  BY <1>1, <1>2, TypeInvariant, PTL DEF Spec
<1> QED
  BY <1>3 DEF I

\* Whoever holds a lease, in native code or about to go there, has a model that
\* is loaded: close() frees it only when the count of leases is zero.
THEOREM LeasesProtect == Spec => []LeasedModelIsAlive
<1>1. LifeInv => LeasedModelIsAlive
  BY DEF LifeInv, LeasesAlive, LeasedModelIsAlive
<1> QED
  BY <1>1, OwnersInvariant, PTL

\* A loaded model has its files open, also when initializations overlap or a
\* model could not be freed.
THEOREM FilesStayOpen == Spec => []ModelFilesStayOpen
<1>1. LifeInv => ModelFilesStayOpen
  BY DEF LifeInv
<1> QED
  BY <1>1, OwnersInvariant, PTL

-----------------------------------------------------------------------------
(* Loads that do not overlap: what is loaded is shown, or held by one call.  *)
(* With two initializations under way the second may publish over the        *)
(* first's model, so that both properties need ~Overlaps.                    *)

\* The steps that neither load, close nor begin to.
QuietStep(t) ==
  \/ SignalGeneration(t) \/ LeasesDrained(t) \/ LeasedStep(t) \/ LockNative(t)
  \/ CancelledAtLock(t) \/ EndDecode(t) \/ CallGenerate(t) \/ CallOperation(t)
  \/ CallStop(t)

\* They leave the loads, and whoever closes, as they are.
Steady ==
  /\ UNCHANGED <<engineState, nativeHandle, activeBundleLease, life, bundles,
                 inits, doomed>>
  /\ \A u \in Threads :
       /\ load'[u] = load[u]
       /\ pc[u] \in Closers => handle'[u] = handle[u]
       /\ \/ pc'[u] = pc[u]
          \/ pc[u] \in {"signal", "drain"} /\ pc'[u] \in {"drain", "free"}
          \/ /\ pc[u] \in {"idle"} \cup LeasedPcs
             /\ pc'[u] \in {"idle"} \cup LeasedPcs

\* Signals, generations, reads and stops are such steps.
LEMMA QuietIsSteady ==
  ASSUME TypeInv, OwnerInv, NEW t \in Threads, QuietStep(t)
  PROVE  Steady
<1> USE DEF TypeInv, EngineTypes, CallTypes, AllPcs, OwnerInv, LoadersLoad,
     Closers, ClosePcs, LoadPcs, LeasedPcs, QueuePcs, LockedPcs, monitor, natives,
     locals, history, counters, Goto, Steady, NoHandle
<1>1. CASE SignalGeneration(t)
  BY <1>1 DEF SignalGeneration, NativeStop
<1>2. CASE LeasesDrained(t)
  BY <1>2 DEF LeasesDrained
<1>3. CASE LeasedStep(t)
  <2>1. CASE Admit(t)
    BY <2>1 DEF Admit
  <2>2. CASE NativeEnter(t)
    BY <2>2 DEF NativeEnter
  <2>3. CASE NativeStart(t)
    BY <2>3 DEF NativeStart
  <2>4. CASE NoticeStop(t)
    BY <2>4 DEF NoticeStop
  <2>5. CASE UnlockNative(t)
    BY <2>5 DEF UnlockNative
  <2>6. CASE Leave(t)
    BY <2>6 DEF Leave, Return
  <2>7. CASE EndOperation(t)
    BY <2>7 DEF EndOperation
  <2>8. CASE StopNative(t)
    BY <2>8 DEF StopNative, NativeStop
  <2> QED
    BY <1>3, <2>1, <2>2, <2>3, <2>4, <2>5, <2>6, <2>7, <2>8 DEF LeasedStep
<1>4. CASE LockNative(t)
  BY <1>4 DEF LockNative
<1>5. CASE CancelledAtLock(t)
  BY <1>5 DEF CancelledAtLock
<1>6. CASE EndDecode(t)
  BY <1>6 DEF EndDecode
<1>7. CASE CallGenerate(t)
  BY <1>7 DEF CallGenerate, LeaseGiven
<1>8. CASE CallOperation(t)
  BY <1>8 DEF CallOperation, LeaseGiven
<1>9. CASE CallStop(t)
  BY <1>9 DEF CallStop, LeaseGiven
<1> QED
  BY <1>1, <1>2, <1>3, <1>4, <1>5, <1>6, <1>7, <1>8, <1>9 DEF QuietStep

\* So does a step that changes nothing.
LEMMA StutterIsSteady == UNCHANGED vars => Steady
  BY DEF vars, Steady

\* One call loads at a time: from the end of its close() to its publication
\* nothing else is shown, and no close() that waits for it loads itself.
OneLoad ==
  \A t, u \in Threads : load[t] # NoHandle /\ load[u] # NoHandle => t = u

LoadsAreMade ==
  /\ engineState = "INITIALIZING" => \E t \in Threads : pc[t] \in Workers
  /\ \A t \in Threads : pc[t] = "waitInit" => load[t] = NoHandle

BeginsClosed ==
  \A t \in Threads :
    pc[t] = "begin" => engineState \in {"UNINITIALIZED", "CLOSED", "CLOSE_FAILED"}

AloneInv == OneLoad /\ LoadsAreMade /\ BeginsClosed

\* Each step keeps one load at a time.
LEMMA AloneStep ==
  ASSUME ~Overlaps, TypeInv, WorkInv, OwnerInv, AloneInv, [Next]_vars
  PROVE  AloneInv'
<1> USE DEF TypeInv, EngineTypes, CallTypes, EngineStates, AllPcs, WorkInv, Workers,
     Closers, OwnerInv, LoadersLoad, AloneInv, OneLoad, LoadsAreMade, BeginsClosed,
     Handles, NoHandle, ClosePcs, LoadPcs, LeasedPcs, QueuePcs, LockedPcs, monitor,
     natives, locals, history, counters, Goto, Loading
<1>a. ASSUME Steady PROVE AloneInv'
  <2>1. OneLoad'
    BY <1>a DEF Steady
  <2>2. LoadsAreMade'
    <3>1. \A u \in Threads : pc[u] \in Workers => pc'[u] \in Workers
      BY <1>a DEF Steady
    <3>2. \A u \in Threads : pc'[u] = "waitInit" => pc[u] = "waitInit"
      BY <1>a DEF Steady
    <3> QED
      BY <1>a, <3>1, <3>2 DEF Steady
  <2>3. BeginsClosed'
    BY <1>a DEF Steady
  <2> QED
    BY <2>1, <2>2, <2>3
<1>1. ASSUME NEW t \in Threads, CloseStep(t), ~QuietStep(t) PROVE AloneInv'
  <2>1. CASE CloseRefused(t)
    <3>1. OneLoad'
      BY <2>1 DEF CloseRefused, CloseThrows, Return
    <3>2. LoadsAreMade'
      BY <2>1 DEF CloseRefused, CloseThrows, Return
    <3>3. BeginsClosed'
      BY <2>1 DEF CloseRefused, CloseThrows, Return
    <3> QED
      BY <3>1, <3>2, <3>3
  <2>2. CASE CloseNothing(t)
    <3>r. \A u \in Threads :
            /\ load'[u] = load[u] /\ handle'[u] \in {handle[u], NoHandle}
            /\ u # t => handle'[u] = handle[u] /\ pc'[u] = pc[u]
            /\ u = t => pc'[u] = IF load[u] = NoHandle THEN "idle" ELSE "begin"
      BY <2>2, CloseReturnsFrame DEF CloseNothing
    <3>d. doomed' = [doomed EXCEPT ![t] = {}]
      BY <2>2 DEF CloseNothing, CloseReturns
    <3>1. OneLoad'
      BY <2>2, <3>r, <3>d DEF CloseNothing
    <3>2. LoadsAreMade'
      BY <2>2, <3>r, <3>d DEF CloseNothing
    <3>3. BeginsClosed'
      BY <2>2, <3>r, <3>d DEF CloseNothing
    <3> QED
      BY <3>1, <3>2, <3>3
  <2>3. CASE CloseLoading(t)
    <3>1. OneLoad'
      BY <2>3 DEF CloseLoading
    <3>2. LoadsAreMade'
      BY <2>3 DEF CloseLoading
    <3>3. BeginsClosed'
      BY <2>3 DEF CloseLoading
    <3> QED
      BY <3>1, <3>2, <3>3
  <2>4. CASE LoadIsOver(t)
    <3>r. \A u \in Threads :
            /\ load'[u] = load[u] /\ handle'[u] \in {handle[u], NoHandle}
            /\ u # t => handle'[u] = handle[u] /\ pc'[u] = pc[u]
            /\ u = t => pc'[u] = IF load[u] = NoHandle THEN "idle" ELSE "begin"
      BY <2>4, CloseReturnsFrame DEF LoadIsOver
    <3>d. doomed' = [doomed EXCEPT ![t] = {}]
      BY <2>4 DEF LoadIsOver, CloseReturns
    <3>1. OneLoad'
      BY <3>r
    <3>2. LoadsAreMade'
      <4>1. pc[t] = "waitInit" /\ engineState' = engineState
        BY <2>4 DEF LoadIsOver
      <4>2. \A u \in Threads : pc[u] \in Workers => pc'[u] = pc[u]
        BY <4>1, <3>r
      <4>3. \A u \in Threads : pc'[u] = "waitInit" => pc[u] = "waitInit"
        BY <3>r
      <4>4. engineState' = "INITIALIZING" => \E u \in Threads : pc'[u] \in Workers
        BY <4>1, <4>2
      <4>5. \A u \in Threads : pc'[u] = "waitInit" => load'[u] = NoHandle
        BY <4>3, <3>r
      <4> QED
        BY <4>4, <4>5
    <3>3. BeginsClosed'
      BY <2>4, <3>r, <3>d DEF LoadIsOver
    <3> QED
      BY <3>1, <3>2, <3>3
  <2>5. CASE LoadIsStuck(t)
    <3>1. OneLoad'
      BY <2>5 DEF LoadIsStuck, CloseThrows, Return
    <3>2. LoadsAreMade'
      BY <2>5 DEF LoadIsStuck, CloseThrows, Return
    <3>3. BeginsClosed'
      BY <2>5 DEF LoadIsStuck, CloseThrows, Return
    <3> QED
      BY <3>1, <3>2, <3>3
  <2>6. CASE CloseOpen(t)
    <3>1. OneLoad'
      BY <2>6 DEF CloseOpen
    <3>2. LoadsAreMade'
      BY <2>6 DEF CloseOpen
    <3>3. BeginsClosed'
      BY <2>6 DEF CloseOpen
    <3> QED
      BY <3>1, <3>2, <3>3
  <2>7. CASE FreeModel(t)
    <3>1. OneLoad'
      BY <2>7 DEF FreeModel, NativeFree
    <3>2. LoadsAreMade'
      BY <2>7 DEF FreeModel, NativeFree
    <3>3. BeginsClosed'
      BY <2>7 DEF FreeModel, NativeFree
    <3> QED
      BY <3>1, <3>2, <3>3
  <2>8. CASE CloseBundle(t)
    <3>r. \A u \in Threads :
            /\ load'[u] = load[u] /\ handle'[u] \in {handle[u], NoHandle}
            /\ u # t => handle'[u] = handle[u] /\ pc'[u] = pc[u]
            /\ u = t => pc'[u] = IF load[u] = NoHandle THEN "idle" ELSE "begin"
      BY <2>8, CloseReturnsFrame DEF CloseBundle
    <3>d. doomed' = [doomed EXCEPT ![t] = {}]
      BY <2>8 DEF CloseBundle, CloseReturns
    <3>1. OneLoad'
      BY <2>8, <3>r, <3>d DEF CloseBundle
    <3>2. LoadsAreMade'
      BY <2>8, <3>r, <3>d DEF CloseBundle
    <3>3. BeginsClosed'
      BY <2>8, <3>r, <3>d DEF CloseBundle
    <3> QED
      BY <3>1, <3>2, <3>3
  <2>9. CASE CloseFails(t)
    <3>1. OneLoad'
      BY <2>9 DEF CloseFails, CloseThrows, Return
    <3>2. LoadsAreMade'
      BY <2>9 DEF CloseFails, CloseThrows, Return
    <3>3. BeginsClosed'
      BY <2>9 DEF CloseFails, CloseThrows, Return
    <3> QED
      BY <3>1, <3>2, <3>3
  <2> QED
    BY <1>1, <2>1, <2>2, <2>3, <2>4, <2>5, <2>6, <2>7, <2>8, <2>9 DEF CloseStep, QuietStep
<1>2. ASSUME NEW t \in Threads, LoadStep(t) PROVE AloneInv'
  <2>1. CASE BeginLoad(t) /\ engineState # "CLOSE_FAILED"
    <3>1. OneLoad'
      BY <2>1 DEF BeginLoad
    <3>2. LoadsAreMade'
      BY <2>1 DEF BeginLoad
    <3>3. BeginsClosed'
      BY <2>1 DEF BeginLoad
    <3> QED
      BY <3>1, <3>2, <3>3
  <2>2. CASE BeginLoad(t) /\ engineState = "CLOSE_FAILED"
    <3>r. /\ pc[t] = "begin" /\ engineState = "CLOSE_FAILED"
          /\ bundles' = bundles \ {load[t]}
          /\ Return(t)
          /\ UNCHANGED <<monitor, activeBundleLease, nativeOperations, life,
                         natives, counters, history>>
      BY <2>2 DEF BeginLoad
    <3>1. OneLoad'
      BY <3>r DEF Return
    <3>2. LoadsAreMade'
      BY <3>r DEF Return
    <3>3. BeginsClosed'
      BY <3>r DEF Return
    <3> QED
      BY <3>1, <3>2, <3>3
  <2>3. CASE LoadModel(t)
    <3>1. OneLoad'
      BY <2>3 DEF LoadModel
    <3>2. LoadsAreMade'
      BY <2>3 DEF LoadModel
    <3>3. BeginsClosed'
      BY <2>3 DEF LoadModel
    <3> QED
      BY <3>1, <3>2, <3>3
  <2>4. CASE Publish(t)
    <3>1. OneLoad'
      BY <2>4 DEF Publish, Return
    <3>2. LoadsAreMade'
      BY <2>4 DEF Publish, Return
    <3>3. BeginsClosed'
      BY <2>4 DEF Publish, Return
    <3> QED
      BY <3>1, <3>2, <3>3
  <2>5. CASE PublishRefused(t)
    <3>1. OneLoad'
      BY <2>5 DEF PublishRefused
    <3>2. LoadsAreMade'
      BY <2>5 DEF PublishRefused
    <3>3. BeginsClosed'
      BY <2>5 DEF PublishRefused
    <3> QED
      BY <3>1, <3>2, <3>3
  <2>6. CASE FreeDiscarded(t)
    <3>1. OneLoad'
      BY <2>6 DEF FreeDiscarded, NativeFree
    <3>2. LoadsAreMade'
      BY <2>6 DEF FreeDiscarded, NativeFree
    <3>3. BeginsClosed'
      BY <2>6 DEF FreeDiscarded, NativeFree
    <3> QED
      BY <3>1, <3>2, <3>3
  <2>7. CASE FreeDiscardedFails(t)
    <3>1. OneLoad'
      BY <2>7 DEF FreeDiscardedFails, Return
    <3>2. LoadsAreMade'
      BY <2>7 DEF FreeDiscardedFails, Return
    <3>3. BeginsClosed'
      BY <2>7 DEF FreeDiscardedFails, Return
    <3> QED
      BY <3>1, <3>2, <3>3
  <2>8. CASE EndDiscarded(t)
    <3>1. OneLoad'
      BY <2>8 DEF EndDiscarded, Return
    <3>2. LoadsAreMade'
      BY <2>8 DEF EndDiscarded, Return
    <3>3. BeginsClosed'
      BY <2>8 DEF EndDiscarded, Return
    <3> QED
      BY <3>1, <3>2, <3>3
  <2> QED
    BY <1>2, <2>1, <2>2, <2>3, <2>4, <2>5, <2>6, <2>7, <2>8 DEF LoadStep
<1>3. ASSUME NEW t \in Threads, CallClose(t) \/ CallInitialize(t) PROVE AloneInv'
  <2>1. CASE CallClose(t)
    <3>1. OneLoad'
      BY <2>1 DEF CallClose, Begun
    <3>2. LoadsAreMade'
      BY <2>1 DEF CallClose, Begun
    <3>3. BeginsClosed'
      BY <2>1 DEF CallClose, Begun
    <3> QED
      BY <3>1, <3>2, <3>3
  <2>2. CASE CallInitialize(t)
    <3>1. OneLoad'
      BY <2>2 DEF CallInitialize, Begun
    <3>2. LoadsAreMade'
      BY <2>2 DEF CallInitialize, Begun
    <3>3. BeginsClosed'
      BY <2>2 DEF CallInitialize, Begun
    <3> QED
      BY <3>1, <3>2, <3>3
  <2> QED
    BY <1>3, <2>1, <2>2
<1>4. ASSUME NEW t \in Threads, QuietStep(t) PROVE AloneInv'
  BY <1>4, <1>a, QuietIsSteady
<1>5. CASE UNCHANGED vars
  BY <1>5, <1>a, StutterIsSteady
<1> QED
  BY <1>1, <1>2, <1>3, <1>4, <1>5 DEF Next, Call, QuietStep

\* Who holds the bundles that are open: the engine, the close() that ends it, or
\* a call that loads.
ShownIsOpen == nativeHandle # NoHandle => engineState = "OPEN"

LeaseIsShown ==
  activeBundleLease # NoHandle =>
    \/ activeBundleLease = nativeHandle
    \/ \E t \in Threads : pc[t] \in Closers

BundlesHeld ==
  engineState # "CLOSE_FAILED" =>
    \A h \in bundles : h = activeBundleLease \/ \E t \in Threads : load[t] = h

HeldInv == ShownIsOpen /\ LeaseIsShown /\ BundlesHeld

\* Each step keeps every open bundle with a holder.
LEMMA HeldStep ==
  ASSUME ~Overlaps, TypeInv, WorkInv, OwnerInv, AloneInv, HeldInv, [Next]_vars
  PROVE  HeldInv'
<1> USE DEF TypeInv, EngineTypes, CallTypes, EngineStates, AllPcs, WorkInv, Workers,
     Closers, OwnerInv, LoadersLoad, EngineOwns, AloneInv, BeginsClosed, HeldInv,
     ShownIsOpen, LeaseIsShown, BundlesHeld, NoHandle, ClosePcs, LoadPcs,
     LeasedPcs, QueuePcs, LockedPcs, monitor, natives, locals, history, counters,
     Goto, Loading
<1>a. Steady => HeldInv'
  BY DEF Steady
<1>1. ASSUME NEW t \in Threads, CloseStep(t), ~QuietStep(t) PROVE HeldInv'
  <2>1. CASE CloseRefused(t)
    <3>1. ShownIsOpen'
      BY <2>1 DEF CloseRefused, CloseThrows, Return
    <3>2. LeaseIsShown'
      BY <2>1 DEF CloseRefused, CloseThrows, Return
    <3>3. BundlesHeld'
      BY <2>1 DEF CloseRefused, CloseThrows, Return
    <3> QED
      BY <3>1, <3>2, <3>3
  <2>2. CASE CloseNothing(t)
    <3>r. \A u \in Threads :
            /\ load'[u] = load[u] /\ handle'[u] \in {handle[u], NoHandle}
            /\ u # t => handle'[u] = handle[u] /\ pc'[u] = pc[u]
            /\ u = t => pc'[u] = IF load[u] = NoHandle THEN "idle" ELSE "begin"
      BY <2>2, CloseReturnsFrame DEF CloseNothing
    <3>d. doomed' = [doomed EXCEPT ![t] = {}]
      BY <2>2 DEF CloseNothing, CloseReturns
    <3>1. ShownIsOpen'
      BY <2>2, <3>r, <3>d DEF CloseNothing
    <3>2. LeaseIsShown'
      BY <2>2, <3>r, <3>d DEF CloseNothing
    <3>3. BundlesHeld'
      BY <2>2, <3>r, <3>d DEF CloseNothing
    <3> QED
      BY <3>1, <3>2, <3>3
  <2>3. CASE CloseLoading(t)
    <3>1. ShownIsOpen'
      BY <2>3 DEF CloseLoading
    <3>2. LeaseIsShown'
      BY <2>3 DEF CloseLoading
    <3>3. BundlesHeld'
      BY <2>3 DEF CloseLoading
    <3> QED
      BY <3>1, <3>2, <3>3
  <2>4. CASE LoadIsOver(t)
    <3>r. \A u \in Threads :
            /\ load'[u] = load[u] /\ handle'[u] \in {handle[u], NoHandle}
            /\ u # t => handle'[u] = handle[u] /\ pc'[u] = pc[u]
            /\ u = t => pc'[u] = IF load[u] = NoHandle THEN "idle" ELSE "begin"
      BY <2>4, CloseReturnsFrame DEF LoadIsOver
    <3>d. doomed' = [doomed EXCEPT ![t] = {}]
      BY <2>4 DEF LoadIsOver, CloseReturns
    <3>1. ShownIsOpen'
      BY <2>4, <3>r, <3>d DEF LoadIsOver
    <3>2. LeaseIsShown'
      BY <2>4, <3>r, <3>d DEF LoadIsOver
    <3>3. BundlesHeld'
      BY <2>4, <3>r, <3>d DEF LoadIsOver
    <3> QED
      BY <3>1, <3>2, <3>3
  <2>5. CASE LoadIsStuck(t)
    <3>1. ShownIsOpen'
      BY <2>5 DEF LoadIsStuck, CloseThrows, Return
    <3>2. LeaseIsShown'
      BY <2>5 DEF LoadIsStuck, CloseThrows, Return
    <3>3. BundlesHeld'
      BY <2>5 DEF LoadIsStuck, CloseThrows, Return
    <3> QED
      BY <3>1, <3>2, <3>3
  <2>6. CASE CloseOpen(t)
    <3>1. ShownIsOpen'
      BY <2>6 DEF CloseOpen
    <3>2. LeaseIsShown'
      BY <2>6 DEF CloseOpen
    <3>3. BundlesHeld'
      BY <2>6 DEF CloseOpen
    <3> QED
      BY <3>1, <3>2, <3>3
  <2>7. CASE FreeModel(t)
    <3>1. ShownIsOpen'
      BY <2>7 DEF FreeModel, NativeFree
    <3>2. LeaseIsShown'
      BY <2>7 DEF FreeModel, NativeFree
    <3>3. BundlesHeld'
      BY <2>7 DEF FreeModel, NativeFree
    <3> QED
      BY <3>1, <3>2, <3>3
  <2>8. CASE CloseBundle(t)
    <3>r. \A u \in Threads :
            /\ load'[u] = load[u] /\ handle'[u] \in {handle[u], NoHandle}
            /\ u # t => handle'[u] = handle[u] /\ pc'[u] = pc[u]
            /\ u = t => pc'[u] = IF load[u] = NoHandle THEN "idle" ELSE "begin"
      BY <2>8, CloseReturnsFrame DEF CloseBundle
    <3>d. doomed' = [doomed EXCEPT ![t] = {}]
      BY <2>8 DEF CloseBundle, CloseReturns
    <3>1. ShownIsOpen'
      BY <2>8, <3>r, <3>d DEF CloseBundle
    <3>2. LeaseIsShown'
      BY <2>8, <3>r, <3>d DEF CloseBundle
    <3>3. BundlesHeld'
      BY <2>8, <3>r, <3>d DEF CloseBundle
    <3> QED
      BY <3>1, <3>2, <3>3
  <2>9. CASE CloseFails(t)
    <3>1. ShownIsOpen'
      BY <2>9 DEF CloseFails, CloseThrows, Return
    <3>2. LeaseIsShown'
      BY <2>9 DEF CloseFails, CloseThrows, Return
    <3>3. BundlesHeld'
      BY <2>9 DEF CloseFails, CloseThrows, Return
    <3> QED
      BY <3>1, <3>2, <3>3
  <2> QED
    BY <1>1, <2>1, <2>2, <2>3, <2>4, <2>5, <2>6, <2>7, <2>8, <2>9 DEF CloseStep, QuietStep
<1>2. ASSUME NEW t \in Threads, LoadStep(t) PROVE HeldInv'
  <2>1. CASE BeginLoad(t) /\ engineState # "CLOSE_FAILED"
    <3>1. ShownIsOpen'
      BY <2>1 DEF BeginLoad
    <3>2. LeaseIsShown'
      BY <2>1 DEF BeginLoad
    <3>3. BundlesHeld'
      BY <2>1 DEF BeginLoad
    <3> QED
      BY <3>1, <3>2, <3>3
  <2>2. CASE BeginLoad(t) /\ engineState = "CLOSE_FAILED"
    <3>r. /\ pc[t] = "begin" /\ engineState = "CLOSE_FAILED"
          /\ bundles' = bundles \ {load[t]}
          /\ Return(t)
          /\ UNCHANGED <<monitor, activeBundleLease, nativeOperations, life,
                         natives, counters, history>>
      BY <2>2 DEF BeginLoad
    <3>1. ShownIsOpen'
      BY <3>r DEF Return
    <3>2. LeaseIsShown'
      BY <3>r DEF Return
    <3>3. BundlesHeld'
      BY <3>r DEF Return
    <3> QED
      BY <3>1, <3>2, <3>3
  <2>3. CASE LoadModel(t)
    <3>1. ShownIsOpen'
      BY <2>3 DEF LoadModel
    <3>2. LeaseIsShown'
      BY <2>3 DEF LoadModel
    <3>3. BundlesHeld'
      BY <2>3 DEF LoadModel
    <3> QED
      BY <3>1, <3>2, <3>3
  <2>4. CASE Publish(t)
    <3>1. ShownIsOpen'
      BY <2>4 DEF Publish, Return
    <3>2. LeaseIsShown'
      BY <2>4 DEF Publish, Return
    <3>3. BundlesHeld'
      BY <2>4 DEF Publish, Return
    <3> QED
      BY <3>1, <3>2, <3>3
  <2>5. CASE PublishRefused(t)
    <3>1. ShownIsOpen'
      BY <2>5 DEF PublishRefused
    <3>2. LeaseIsShown'
      BY <2>5 DEF PublishRefused
    <3>3. BundlesHeld'
      BY <2>5 DEF PublishRefused
    <3> QED
      BY <3>1, <3>2, <3>3
  <2>6. CASE FreeDiscarded(t)
    <3>1. ShownIsOpen'
      BY <2>6 DEF FreeDiscarded, NativeFree
    <3>2. LeaseIsShown'
      BY <2>6 DEF FreeDiscarded, NativeFree
    <3>3. BundlesHeld'
      BY <2>6 DEF FreeDiscarded, NativeFree
    <3> QED
      BY <3>1, <3>2, <3>3
  <2>7. CASE FreeDiscardedFails(t)
    <3>1. ShownIsOpen'
      BY <2>7 DEF FreeDiscardedFails, Return
    <3>2. LeaseIsShown'
      BY <2>7 DEF FreeDiscardedFails, Return
    <3>3. BundlesHeld'
      BY <2>7 DEF FreeDiscardedFails, Return
    <3> QED
      BY <3>1, <3>2, <3>3
  <2>8. CASE EndDiscarded(t)
    <3>1. ShownIsOpen'
      BY <2>8 DEF EndDiscarded, Return
    <3>2. LeaseIsShown'
      BY <2>8 DEF EndDiscarded, Return
    <3>3. BundlesHeld'
      BY <2>8 DEF EndDiscarded, Return
    <3> QED
      BY <3>1, <3>2, <3>3
  <2> QED
    BY <1>2, <2>1, <2>2, <2>3, <2>4, <2>5, <2>6, <2>7, <2>8 DEF LoadStep
<1>3. ASSUME NEW t \in Threads, CallClose(t) \/ CallInitialize(t) PROVE HeldInv'
  <2>1. CASE CallClose(t)
    <3>1. ShownIsOpen'
      BY <2>1 DEF CallClose, Begun
    <3>2. LeaseIsShown'
      BY <2>1 DEF CallClose, Begun
    <3>3. BundlesHeld'
      BY <2>1 DEF CallClose, Begun
    <3> QED
      BY <3>1, <3>2, <3>3
  <2>2. CASE CallInitialize(t)
    <3>1. ShownIsOpen'
      BY <2>2 DEF CallInitialize
    <3>2. LeaseIsShown'
      BY <2>2 DEF CallInitialize
    <3>3. BundlesHeld'
      <4>1. load[t] = NoHandle /\ load'[t] = inits + 1
        BY <2>2 DEF CallInitialize
      <4>2. \A u \in Threads : u # t => load'[u] = load[u]
        BY <2>2 DEF CallInitialize
      <4>3. \A h \in bundles : h # NoHandle
        BY DEF Handles
      <4> QED
        BY <2>2, <4>1, <4>2, <4>3 DEF CallInitialize
    <3> QED
      BY <3>1, <3>2, <3>3
  <2> QED
    BY <1>3, <2>1, <2>2
<1>4. ASSUME NEW t \in Threads, QuietStep(t) PROVE HeldInv'
  BY <1>4, <1>a, QuietIsSteady
<1>5. CASE UNCHANGED vars
  BY <1>5, <1>a, StutterIsSteady
<1> QED
  BY <1>1, <1>2, <1>3, <1>4, <1>5 DEF Next, Call, QuietStep

\* A load that is over stays over; one that has begun is shown, at work, or
\* being freed.
Over(h) ==
  /\ h <= inits /\ h # nativeHandle /\ life[h] # "alive"
  /\ \A t \in Threads : load[t] # h

UnderWay(h) ==
  \/ h = nativeHandle
  \/ \E t \in Threads : pc[t] \in Workers /\ load[t] = h
  \/ \E t \in Threads : pc[t] \in Closers /\ handle[t] = h

\* What a close() has to end, and, while it waits for a load, that only CLOSING
\* stands between it and its return.
DoomedHeld ==
  engineState # "CLOSE_FAILED" =>
    \A t \in Threads : pc[t] \in ClosePcs =>
      \A h \in doomed[t] : Over(h) \/ UnderWay(h)

WaiterHeld ==
  engineState \notin {"CLOSE_FAILED", "CLOSING"} =>
    \A t \in Threads : pc[t] = "waitInit" => \A h \in doomed[t] : Over(h)

DoomedInv == DoomedHeld /\ WaiterHeld

\* Each step keeps what a close() has to end as it should be.
LEMMA DoomedStep ==
  ASSUME ~Overlaps, TypeInv, TypeInv', WorkInv, OwnerInv, OwnerInv', LifeInv,
         AloneInv, HeldInv, HeldInv', DoomedInv, [Next]_vars
  PROVE  DoomedInv'
<1> USE EngineAssumption DEF TypeInv, EngineTypes, CallTypes, EngineStates, AllPcs,
     WorkInv, Workers, Closers, OwnerInv, LoadsOwn, LoadersLoad, EngineOwns,
     HandlesMade, AloneInv, OneLoad, LoadsAreMade, BeginsClosed, HeldInv,
     ShownIsOpen, LifeInv, LoadsAlive, EngineAlive, DoomedInv, DoomedHeld,
     WaiterHeld, Over, UnderWay, Handles, NoHandle, ClosePcs, LoadPcs, LeasedPcs,
     QueuePcs, LockedPcs, monitor, natives, locals, history, counters, Goto, Loading
<1>a. ASSUME Steady PROVE DoomedInv'
  <2>1. \A h \in Handles : Over(h) => Over(h)'
    BY <1>a DEF Steady
  <2>2. \A u \in Threads : pc[u] \in Workers => pc'[u] = pc[u] /\ load'[u] = load[u]
    BY <1>a DEF Steady
  <2>3. \A u \in Threads :
          pc[u] \in Closers => pc'[u] \in Closers /\ handle'[u] = handle[u]
    <3> SUFFICES ASSUME NEW u \in Threads, pc[u] \in Closers
                 PROVE  pc'[u] \in Closers /\ handle'[u] = handle[u]
      OBVIOUS
    <3>1. handle'[u] = handle[u]
      BY <1>a DEF Steady
    <3>2. pc'[u] \in Closers
      BY <1>a DEF Steady
    <3> QED
      BY <3>1, <3>2
  <2>4. \A u \in Threads : pc'[u] \in ClosePcs => pc[u] \in ClosePcs
    BY <1>a DEF Steady
  <2>5. \A u \in Threads : pc'[u] = "waitInit" => pc[u] = "waitInit"
    BY <1>a DEF Steady
  <2>6. \A h \in Handles : UnderWay(h) => UnderWay(h)'
    BY <1>a, <2>2, <2>3 DEF Steady
  <2>7. engineState' = engineState /\ doomed' = doomed
    BY <1>a DEF Steady
  <2> HIDE DEF Over, UnderWay, ClosePcs
  <2> QED
    BY <2>1, <2>4, <2>5, <2>6, <2>7
<1>b. ASSUME engineState = "CLOSE_FAILED" => engineState' = "CLOSE_FAILED",
             \A h \in Handles : Over(h) => Over(h)',
             \A h \in Handles : UnderWay(h) => UnderWay(h)' \/ Over(h)',
             \A u \in Threads : pc'[u] \in ClosePcs =>
               pc[u] \in ClosePcs /\ doomed'[u] = doomed[u]
      PROVE  DoomedHeld'
  <2> HIDE DEF Over, UnderWay, ClosePcs
  <2> QED
    BY <1>b
<1>c. ASSUME NEW t \in Threads, engineState' = engineState,
             \A h \in Handles : Over(h) => Over(h)',
             \A h \in Handles : UnderWay(h) => UnderWay(h)',
             \A u \in Threads : u # t => pc'[u] = pc[u] /\ doomed'[u] = doomed[u],
             doomed'[t] = Begun /\ \A h \in Begun : UnderWay(h)
      PROVE  DoomedHeld'
  <2> SUFFICES ASSUME engineState' # "CLOSE_FAILED",
                      NEW u \in Threads, pc'[u] \in ClosePcs, NEW h \in doomed'[u]
               PROVE  Over(h)' \/ UnderWay(h)'
    OBVIOUS
  <2>1. h \in Handles
    OBVIOUS
  <2> HIDE DEF Over, UnderWay, ClosePcs, Begun
  <2>2. CASE u = t
    BY <1>c, <2>1, <2>2
  <2>3. CASE u # t
    BY <1>c, <2>1, <2>3
  <2> QED
    BY <2>2, <2>3
<1>1. ASSUME NEW t \in Threads, CloseStep(t), ~QuietStep(t) PROVE DoomedInv'
  <2>1. CASE CloseRefused(t)
    <3>1. DoomedHeld'
      BY <2>1 DEF CloseRefused, CloseThrows, Return
    <3>2. WaiterHeld'
      BY <2>1 DEF CloseRefused, CloseThrows, Return
    <3> QED
      BY <3>1, <3>2
  <2>2. CASE CloseNothing(t)
    <3>r. \A u \in Threads :
            /\ load'[u] = load[u] /\ handle'[u] \in {handle[u], NoHandle}
            /\ u # t => handle'[u] = handle[u] /\ pc'[u] = pc[u]
            /\ u = t => pc'[u] = IF load[u] = NoHandle THEN "idle" ELSE "begin"
      BY <2>2, CloseReturnsFrame DEF CloseNothing
    <3>d. doomed' = [doomed EXCEPT ![t] = {}]
      BY <2>2 DEF CloseNothing, CloseReturns
    <3>1. DoomedHeld'
      <4>1. engineState = "CLOSE_FAILED" => engineState' = "CLOSE_FAILED"
        BY <2>2, <3>r, <3>d DEF CloseNothing
      <4>2. \A h \in Handles : Over(h) => Over(h)'
        BY <2>2, <3>r, <3>d DEF CloseNothing
      <4>3. \A h \in Handles : UnderWay(h) => UnderWay(h)' \/ Over(h)'
        BY <2>2, <3>r, <3>d DEF CloseNothing
      <4>4. \A u \in Threads : pc'[u] \in ClosePcs =>
              pc[u] \in ClosePcs /\ doomed'[u] = doomed[u]
        BY <2>2, <3>r, <3>d DEF CloseNothing
      <4> QED
        BY <4>1, <4>2, <4>3, <4>4, <1>b
    <3>2. WaiterHeld'
      BY <2>2, <3>r, <3>d DEF CloseNothing
    <3> QED
      BY <3>1, <3>2
  <2>3. CASE CloseLoading(t)
    <3>1. DoomedHeld'
      <4>1. engineState = "CLOSE_FAILED" => engineState' = "CLOSE_FAILED"
        BY <2>3 DEF CloseLoading
      <4>2. \A h \in Handles : Over(h) => Over(h)'
        BY <2>3 DEF CloseLoading
      <4>3. \A h \in Handles : UnderWay(h) => UnderWay(h)' \/ Over(h)'
        BY <2>3 DEF CloseLoading
      <4>4. \A u \in Threads : pc'[u] \in ClosePcs =>
              pc[u] \in ClosePcs /\ doomed'[u] = doomed[u]
        BY <2>3 DEF CloseLoading
      <4> QED
        BY <4>1, <4>2, <4>3, <4>4, <1>b
    <3>2. WaiterHeld'
      BY <2>3 DEF CloseLoading
    <3> QED
      BY <3>1, <3>2
  <2>4. CASE LoadIsOver(t)
    <3>r. \A u \in Threads :
            /\ load'[u] = load[u] /\ handle'[u] \in {handle[u], NoHandle}
            /\ u # t => handle'[u] = handle[u] /\ pc'[u] = pc[u]
            /\ u = t => pc'[u] = IF load[u] = NoHandle THEN "idle" ELSE "begin"
      BY <2>4, CloseReturnsFrame DEF LoadIsOver
    <3>d. doomed' = [doomed EXCEPT ![t] = {}]
      BY <2>4 DEF LoadIsOver, CloseReturns
    <3>1. DoomedHeld'
      <4>1. engineState = "CLOSE_FAILED" => engineState' = "CLOSE_FAILED"
        BY <2>4, <3>r, <3>d DEF LoadIsOver
      <4>2. \A h \in Handles : Over(h) => Over(h)'
        BY <2>4, <3>r, <3>d DEF LoadIsOver
      <4>3. \A h \in Handles : UnderWay(h) => UnderWay(h)' \/ Over(h)'
        BY <2>4, <3>r, <3>d DEF LoadIsOver
      <4>4. \A u \in Threads : pc'[u] \in ClosePcs =>
              pc[u] \in ClosePcs /\ doomed'[u] = doomed[u]
        BY <2>4, <3>r, <3>d DEF LoadIsOver
      <4> QED
        BY <4>1, <4>2, <4>3, <4>4, <1>b
    <3>2. WaiterHeld'
      BY <2>4, <3>r, <3>d DEF LoadIsOver
    <3> QED
      BY <3>1, <3>2
  <2>5. CASE LoadIsStuck(t)
    <3>1. DoomedHeld'
      BY <2>5 DEF LoadIsStuck, CloseThrows, Return
    <3>2. WaiterHeld'
      BY <2>5 DEF LoadIsStuck, CloseThrows, Return
    <3> QED
      BY <3>1, <3>2
  <2>6. CASE CloseOpen(t)
    <3>1. DoomedHeld'
      <4>1. engineState = "CLOSE_FAILED" => engineState' = "CLOSE_FAILED"
        BY <2>6 DEF CloseOpen
      <4>2. \A h \in Handles : Over(h) => Over(h)'
        BY <2>6 DEF CloseOpen
      <4>3. \A h \in Handles : UnderWay(h) => UnderWay(h)' \/ Over(h)'
        BY <2>6 DEF CloseOpen
      <4>4. \A u \in Threads : pc'[u] \in ClosePcs =>
              pc[u] \in ClosePcs /\ doomed'[u] = doomed[u]
        BY <2>6 DEF CloseOpen
      <4> QED
        BY <4>1, <4>2, <4>3, <4>4, <1>b
    <3>2. WaiterHeld'
      BY <2>6 DEF CloseOpen
    <3> QED
      BY <3>1, <3>2
  <2>7. CASE FreeModel(t)
    <3>1. DoomedHeld'
      <4>1. engineState = "CLOSE_FAILED" => engineState' = "CLOSE_FAILED"
        BY <2>7 DEF FreeModel, NativeFree
      <4>2. \A h \in Handles : Over(h) => Over(h)'
        BY <2>7 DEF FreeModel, NativeFree
      <4>3. \A h \in Handles : UnderWay(h) => UnderWay(h)' \/ Over(h)'
        BY <2>7 DEF FreeModel, NativeFree
      <4>4. \A u \in Threads : pc'[u] \in ClosePcs =>
              pc[u] \in ClosePcs /\ doomed'[u] = doomed[u]
        BY <2>7 DEF FreeModel, NativeFree
      <4> QED
        BY <4>1, <4>2, <4>3, <4>4, <1>b
    <3>2. WaiterHeld'
      BY <2>7 DEF FreeModel, NativeFree
    <3> QED
      BY <3>1, <3>2
  <2>8. CASE CloseBundle(t)
    <3>r. \A u \in Threads :
            /\ load'[u] = load[u] /\ handle'[u] \in {handle[u], NoHandle}
            /\ u # t => handle'[u] = handle[u] /\ pc'[u] = pc[u]
            /\ u = t => pc'[u] = IF load[u] = NoHandle THEN "idle" ELSE "begin"
      BY <2>8, CloseReturnsFrame DEF CloseBundle
    <3>d. doomed' = [doomed EXCEPT ![t] = {}]
      BY <2>8 DEF CloseBundle, CloseReturns
    <3>1. DoomedHeld'
      <4>1. engineState = "CLOSE_FAILED" => engineState' = "CLOSE_FAILED"
        BY <2>8, <3>r, <3>d DEF CloseBundle
      <4>2. \A h \in Handles : Over(h) => Over(h)'
        BY <2>8, <3>r, <3>d DEF CloseBundle
      <4>3. \A h \in Handles : UnderWay(h) => UnderWay(h)' \/ Over(h)'
        BY <2>8, <3>r, <3>d DEF CloseBundle
      <4>5. \A u \in Threads : pc'[u] \in ClosePcs => u # t
        BY <3>r
      <4>4. \A u \in Threads : pc'[u] \in ClosePcs =>
              pc[u] \in ClosePcs /\ doomed'[u] = doomed[u]
        <5> SUFFICES ASSUME NEW u \in Threads, pc'[u] \in ClosePcs
                     PROVE  pc[u] \in ClosePcs /\ doomed'[u] = doomed[u]
          OBVIOUS
        <5>1. u # t
          BY <4>5
        <5> QED
          BY <5>1, <3>r, <3>d
      <4> QED
        BY <4>1, <4>2, <4>3, <4>4, <1>b
    <3>2. WaiterHeld'
      <4>1. nativeHandle' = NoHandle
        BY <2>8 DEF CloseBundle
      <4>5. \A u \in Threads : pc'[u] \notin Workers \cup Closers
        BY <2>8, <3>r DEF CloseBundle
      <4>2. \A u \in Threads : pc'[u] \in ClosePcs => doomed'[u] \subseteq Handles
        OBVIOUS
      <4>3. engineState' # "CLOSE_FAILED"
        BY <2>8 DEF CloseBundle
      <4>4. \A h \in Handles : ~UnderWay(h)'
        BY <4>1, <4>5
      <4> HIDE DEF Over, UnderWay
      <4> QED
        BY <3>1, <4>2, <4>3, <4>4
    <3> QED
      BY <3>1, <3>2
  <2>9. CASE CloseFails(t)
    <3>1. DoomedHeld'
      BY <2>9 DEF CloseFails, CloseThrows, Return
    <3>2. WaiterHeld'
      BY <2>9 DEF CloseFails, CloseThrows, Return
    <3> QED
      BY <3>1, <3>2
  <2> QED
    BY <1>1, <2>1, <2>2, <2>3, <2>4, <2>5, <2>6, <2>7, <2>8, <2>9 DEF CloseStep, QuietStep
<1>2. ASSUME NEW t \in Threads, LoadStep(t) PROVE DoomedInv'
  <2>1. CASE BeginLoad(t) /\ engineState # "CLOSE_FAILED"
    <3>1. DoomedHeld'
      <4>1. engineState = "CLOSE_FAILED" => engineState' = "CLOSE_FAILED"
        BY <2>1 DEF BeginLoad
      <4>2. \A h \in Handles : Over(h) => Over(h)'
        BY <2>1 DEF BeginLoad
      <4>3. \A h \in Handles : UnderWay(h) => UnderWay(h)' \/ Over(h)'
        BY <2>1 DEF BeginLoad
      <4>4. \A u \in Threads : pc'[u] \in ClosePcs =>
              pc[u] \in ClosePcs /\ doomed'[u] = doomed[u]
        BY <2>1 DEF BeginLoad
      <4> QED
        BY <4>1, <4>2, <4>3, <4>4, <1>b
    <3>2. WaiterHeld'
      BY <2>1 DEF BeginLoad
    <3> QED
      BY <3>1, <3>2
  <2>2. CASE BeginLoad(t) /\ engineState = "CLOSE_FAILED"
    <3>r. /\ pc[t] = "begin" /\ engineState = "CLOSE_FAILED"
          /\ bundles' = bundles \ {load[t]}
          /\ Return(t)
          /\ UNCHANGED <<monitor, activeBundleLease, nativeOperations, life,
                         natives, counters, history>>
      BY <2>2 DEF BeginLoad
    <3>1. DoomedHeld'
      BY <3>r DEF Return
    <3>2. WaiterHeld'
      BY <3>r DEF Return
    <3> QED
      BY <3>1, <3>2
  <2>3. CASE LoadModel(t)
    <3>1. DoomedHeld'
      <4>1. engineState = "CLOSE_FAILED" => engineState' = "CLOSE_FAILED"
        BY <2>3 DEF LoadModel
      <4>2. \A h \in Handles : Over(h) => Over(h)'
        BY <2>3 DEF LoadModel
      <4>3. \A h \in Handles : UnderWay(h) => UnderWay(h)' \/ Over(h)'
        BY <2>3 DEF LoadModel
      <4>4. \A u \in Threads : pc'[u] \in ClosePcs =>
              pc[u] \in ClosePcs /\ doomed'[u] = doomed[u]
        BY <2>3 DEF LoadModel
      <4> QED
        BY <4>1, <4>2, <4>3, <4>4, <1>b
    <3>2. WaiterHeld'
      BY <2>3 DEF LoadModel
    <3> QED
      BY <3>1, <3>2
  <2>4. CASE Publish(t)
    <3>1. DoomedHeld'
      <4>1. engineState = "CLOSE_FAILED" => engineState' = "CLOSE_FAILED"
        BY <2>4 DEF Publish, Return
      <4>2. \A h \in Handles : Over(h) => Over(h)'
        BY <2>4 DEF Publish, Return
      <4>3. \A h \in Handles : UnderWay(h) => UnderWay(h)' \/ Over(h)'
        BY <2>4 DEF Publish, Return
      <4>4. \A u \in Threads : pc'[u] \in ClosePcs =>
              pc[u] \in ClosePcs /\ doomed'[u] = doomed[u]
        BY <2>4 DEF Publish, Return
      <4> QED
        BY <4>1, <4>2, <4>3, <4>4, <1>b
    <3>2. WaiterHeld'
      BY <2>4 DEF Publish, Return
    <3> QED
      BY <3>1, <3>2
  <2>5. CASE PublishRefused(t)
    <3>1. DoomedHeld'
      <4>1. engineState = "CLOSE_FAILED" => engineState' = "CLOSE_FAILED"
        BY <2>5 DEF PublishRefused
      <4>2. \A h \in Handles : Over(h) => Over(h)'
        BY <2>5 DEF PublishRefused
      <4>3. \A h \in Handles : UnderWay(h) => UnderWay(h)' \/ Over(h)'
        BY <2>5 DEF PublishRefused
      <4>4. \A u \in Threads : pc'[u] \in ClosePcs =>
              pc[u] \in ClosePcs /\ doomed'[u] = doomed[u]
        BY <2>5 DEF PublishRefused
      <4> QED
        BY <4>1, <4>2, <4>3, <4>4, <1>b
    <3>2. WaiterHeld'
      BY <2>5 DEF PublishRefused
    <3> QED
      BY <3>1, <3>2
  <2>6. CASE FreeDiscarded(t)
    <3>1. DoomedHeld'
      <4>1. engineState = "CLOSE_FAILED" => engineState' = "CLOSE_FAILED"
        BY <2>6 DEF FreeDiscarded, NativeFree
      <4>2. \A h \in Handles : Over(h) => Over(h)'
        BY <2>6 DEF FreeDiscarded, NativeFree
      <4>3. \A h \in Handles : UnderWay(h) => UnderWay(h)' \/ Over(h)'
        BY <2>6 DEF FreeDiscarded, NativeFree
      <4>4. \A u \in Threads : pc'[u] \in ClosePcs =>
              pc[u] \in ClosePcs /\ doomed'[u] = doomed[u]
        BY <2>6 DEF FreeDiscarded, NativeFree
      <4> QED
        BY <4>1, <4>2, <4>3, <4>4, <1>b
    <3>2. WaiterHeld'
      BY <2>6 DEF FreeDiscarded, NativeFree
    <3> QED
      BY <3>1, <3>2
  <2>7. CASE FreeDiscardedFails(t)
    <3>1. DoomedHeld'
      BY <2>7 DEF FreeDiscardedFails, Return
    <3>2. WaiterHeld'
      BY <2>7 DEF FreeDiscardedFails, Return
    <3> QED
      BY <3>1, <3>2
  <2>8. CASE EndDiscarded(t)
    <3>1. DoomedHeld'
      <4>1. engineState = "CLOSE_FAILED" => engineState' = "CLOSE_FAILED"
        BY <2>8 DEF EndDiscarded, Return
      <4>2. \A h \in Handles : Over(h) => Over(h)'
        BY <2>8 DEF EndDiscarded, Return
      <4>3. \A h \in Handles : UnderWay(h) => UnderWay(h)' \/ Over(h)'
        BY <2>8 DEF EndDiscarded, Return
      <4>4. \A u \in Threads : pc'[u] \in ClosePcs =>
              pc[u] \in ClosePcs /\ doomed'[u] = doomed[u]
        BY <2>8 DEF EndDiscarded, Return
      <4> QED
        BY <4>1, <4>2, <4>3, <4>4, <1>b
    <3>2. WaiterHeld'
      <4>1. engineState' = "CLOSED" \/ engineState' = "CLOSE_FAILED"
        BY <2>8 DEF EndDiscarded
      <4>2. \A u \in Threads : pc'[u] \in ClosePcs => doomed'[u] \subseteq Handles
        OBVIOUS
      <4>3. engineState' = "CLOSED" => \A h \in Handles : ~UnderWay(h)'
        BY <2>8 DEF EndDiscarded, Return
      <4> HIDE DEF Over, UnderWay
      <4> QED
        BY <3>1, <4>1, <4>2, <4>3
    <3> QED
      BY <3>1, <3>2
  <2> QED
    BY <1>2, <2>1, <2>2, <2>3, <2>4, <2>5, <2>6, <2>7, <2>8 DEF LoadStep
<1>3. ASSUME NEW t \in Threads, CallClose(t) \/ CallInitialize(t) PROVE DoomedInv'
  <2>1. CASE CallClose(t)
    <3>1. DoomedHeld'
      <4>1. engineState' = engineState
        BY <2>1 DEF CallClose
      <4>2. \A h \in Handles : Over(h) => Over(h)'
        BY <2>1 DEF CallClose
      <4>3. \A h \in Handles : UnderWay(h) => UnderWay(h)'
        BY <2>1 DEF CallClose
      <4>4. \A u \in Threads : u # t => pc'[u] = pc[u] /\ doomed'[u] = doomed[u]
        BY <2>1 DEF CallClose
      <4>5. doomed'[t] = Begun /\ \A h \in Begun : UnderWay(h)
        BY <2>1 DEF CallClose, Begun
      <4> QED
        BY <4>1, <4>2, <4>3, <4>4, <4>5, <1>c
    <3>2. WaiterHeld'
      BY <2>1 DEF CallClose, Begun
    <3> QED
      BY <3>1, <3>2
  <2>2. CASE CallInitialize(t)
    <3>1. DoomedHeld'
      <4>1. engineState' = engineState
        BY <2>2 DEF CallInitialize
      <4>2. \A h \in Handles : Over(h) => Over(h)'
        BY <2>2 DEF CallInitialize
      <4>3. \A h \in Handles : UnderWay(h) => UnderWay(h)'
        BY <2>2 DEF CallInitialize
      <4>4. \A u \in Threads : u # t => pc'[u] = pc[u] /\ doomed'[u] = doomed[u]
        BY <2>2 DEF CallInitialize
      <4>5. doomed'[t] = Begun /\ \A h \in Begun : UnderWay(h)
        BY <2>2 DEF CallInitialize, Begun
      <4> QED
        BY <4>1, <4>2, <4>3, <4>4, <4>5, <1>c
    <3>2. WaiterHeld'
      BY <2>2 DEF CallInitialize, Begun
    <3> QED
      BY <3>1, <3>2
  <2> QED
    BY <1>3, <2>1, <2>2
<1>4. ASSUME NEW t \in Threads, QuietStep(t) PROVE DoomedInv'
  BY <1>4, <1>a, QuietIsSteady
<1>5. CASE UNCHANGED vars
  BY <1>5, <1>a, StutterIsSteady
<1> QED
  BY <1>1, <1>2, <1>3, <1>4, <1>5 DEF Next, Call, QuietStep

\* Together, for loads that do not overlap.
LEMMA HeldInvariant == ~Overlaps => (Spec => [](AloneInv /\ HeldInv /\ DoomedInv))
<1> SUFFICES ASSUME ~Overlaps PROVE Spec => [](AloneInv /\ HeldInv /\ DoomedInv)
  OBVIOUS
<1> DEFINE I == WorkInv /\ OwnerInv /\ LifeInv
<1> DEFINE J == AloneInv /\ HeldInv /\ DoomedInv
<1>1. Init => J
  BY DEF Init, AloneInv, OneLoad, LoadsAreMade, BeginsClosed, HeldInv, ShownIsOpen,
         LeaseIsShown, BundlesHeld, DoomedInv, DoomedHeld, WaiterHeld, ClosePcs,
         NoHandle
<1>2. TypeInv /\ TypeInv' /\ I /\ I' /\ J /\ [Next]_vars => J'
  BY AloneStep, HeldStep, DoomedStep
<1>3. Spec => []I
  BY OwnersInvariant
<1> HIDE DEF I, J
<1>4. Spec => []J
  BY <1>1, <1>2, <1>3, TypeInvariant, PTL DEF Spec
<1> QED
  BY <1>4 DEF J

\* When no call is under way, nothing is loaded or open but the model that the
\* engine shows, unless a model could not be freed: every open bundle has a
\* holder, and the engine shows what it holds.
THEOREM NothingLost == ~Overlaps => (Spec => []NothingIsLost)
<1> SUFFICES ASSUME ~Overlaps PROVE Spec => []NothingIsLost
  OBVIOUS
<1>1. TypeInv /\ OwnerInv /\ LifeInv /\ HeldInv => NothingIsLost
  <2> SUFFICES ASSUME TypeInv, OwnerInv, LifeInv, HeldInv,
                      \A t \in Threads : pc[t] = "idle", engineState # "CLOSE_FAILED"
               PROVE  LET shown == IF engineState = "OPEN" THEN {nativeHandle} ELSE {}
                      IN /\ bundles = shown
                         /\ {h \in Handles : life[h] = "alive"} = shown
    BY DEF NothingIsLost
  <2>1. \A t \in Threads : load[t] = NoHandle /\ pc[t] \notin Closers
    BY DEF OwnerInv, LoadersLoad, Closers
  <2>2. \A h \in bundles : h \in Handles /\ h = nativeHandle
    BY <2>1 DEF TypeInv, EngineTypes, HeldInv, BundlesHeld, LeaseIsShown, Handles,
                NoHandle
  <2>3. \A h \in Handles : life[h] = "alive" => h \in bundles
    BY DEF LifeInv, ModelFilesStayOpen
  <2>4. CASE engineState = "OPEN"
    <3>1. nativeHandle \in Handles /\ life[nativeHandle] = "alive"
      BY <2>4 DEF TypeInv, EngineTypes, OwnerInv, EngineOwns, LifeInv, EngineAlive
    <3> QED
      BY <2>2, <2>3, <2>4, <3>1
  <2>5. CASE engineState # "OPEN"
    <3>1. nativeHandle = NoHandle
      BY <2>5 DEF HeldInv, ShownIsOpen
    <3>2. bundles = {}
      BY <2>2, <3>1 DEF Handles, NoHandle
    <3> QED
      BY <2>3, <2>5, <3>2
  <2> QED
    BY <2>4, <2>5
<1> QED
  BY <1>1, TypeInvariant, OwnersInvariant, HeldInvariant, PTL

\* A close() that returns has ended every load that had begun when it was called.
LEMMA CloseEnds ==
  ASSUME ~Overlaps, TypeInv, WorkInv, OwnerInv, LifeInv, HeldInv, DoomedInv, Next,
         NEW t \in Threads, pc[t] \in ClosePcs, pc'[t] \in {"begin", "idle"},
         engineState' # "CLOSE_FAILED", NEW h \in doomed[t]
  PROVE  life'[h] # "alive" /\ h \notin Begun'
<1> USE DEF TypeInv, EngineTypes, CallTypes, EngineStates, AllPcs, ClosePcs, LoadPcs,
     LeasedPcs, QueuePcs, LockedPcs, monitor, natives, locals, history, counters, Goto
<1>0. h \in Handles
  OBVIOUS
<1>1. ASSUME Over(h), life' = life, nativeHandle' = nativeHandle,
             \A u \in Threads : load'[u] = load[u]
      PROVE  life'[h] # "alive" /\ h \notin Begun'
  BY <1>1 DEF Over, Begun
<1>2. ASSUME CloseNothing(t) PROVE life'[h] # "alive" /\ h \notin Begun'
  <2>1. \A u \in Threads : load'[u] = load[u]
    BY <1>2, CloseReturnsFrame DEF CloseNothing
  <2>2. Over(h) \/ UnderWay(h)
    BY <1>2 DEF CloseNothing, DoomedInv, DoomedHeld
  <2>3. ~UnderWay(h)
    BY <1>2 DEF CloseNothing, UnderWay, WorkInv, HeldInv, ShownIsOpen, Handles,
                NoHandle
  <2> QED
    BY <1>1, <1>2, <2>1, <2>2, <2>3 DEF CloseNothing
<1>3. ASSUME LoadIsOver(t) PROVE life'[h] # "alive" /\ h \notin Begun'
  <2>1. \A u \in Threads : load'[u] = load[u]
    BY <1>3, CloseReturnsFrame DEF LoadIsOver
  <2>2. Over(h)
    BY <1>3 DEF LoadIsOver, DoomedInv, WaiterHeld
  <2> QED
    BY <1>1, <1>3, <2>1, <2>2 DEF LoadIsOver
<1>4. ASSUME CloseBundle(t) PROVE life'[h] # "alive" /\ h \notin Begun'
  <2>1. \A u \in Threads : load'[u] = load[u]
    BY <1>4, CloseReturnsFrame DEF CloseBundle
  <2>2. Over(h) \/ UnderWay(h)
    BY <1>4 DEF CloseBundle, DoomedInv, DoomedHeld, WorkInv, Closers
  <2>3. CASE UnderWay(h)
    <3>1. h = handle[t] /\ nativeHandle = NoHandle
      BY <1>4, <2>3 DEF CloseBundle, UnderWay, WorkInv, Closers, Workers, OwnerInv,
                        EngineOwns, Handles, NoHandle
    <3>2. life[h] = "freed" /\ \A u \in Threads : load[u] # h
      BY <1>4, <3>1 DEF CloseBundle, LifeInv, EngineAlive, OwnerInv, LoadsOwn,
                        Handles, NoHandle
    <3> QED
      BY <1>4, <2>1, <3>1, <3>2 DEF CloseBundle, Begun, Handles, NoHandle
  <2> QED
    BY <1>1, <1>4, <2>1, <2>2, <2>3 DEF CloseBundle
<1>5. CloseNothing(t) \/ LoadIsOver(t) \/ CloseBundle(t)
  <2>1. PICK u \in Threads : \/ Call(u) \/ CloseStep(u) \/ LoadStep(u) \/ LeasedStep(u)
                             \/ LockNative(u) \/ CancelledAtLock(u) \/ EndDecode(u)
    BY DEF Next
  <2>2. u = t
    BY <2>1, StepOfThread DEF LeaseStep
  <2>3. ~Call(t) /\ ~LoadStep(t) /\ ~LeasedStep(t) /\ ~LockNative(t)
        /\ ~CancelledAtLock(t) /\ ~EndDecode(t)
    BY DEF Call, CallClose, CallInitialize, CallGenerate, CallOperation, CallStop,
       LoadStep, BeginLoad, LoadModel, Publish, PublishRefused, FreeDiscarded,
       FreeDiscardedFails, EndDiscarded, LeasedStep, Admit, NativeEnter, NativeStart,
       NoticeStop, UnlockNative, Leave, EndOperation, StopNative, LockNative,
       CancelledAtLock, EndDecode
  <2>4. CloseStep(t)
    BY <2>1, <2>2, <2>3
  <2>5. ~CloseLoading(t) /\ ~CloseOpen(t) /\ ~SignalGeneration(t)
        /\ ~LeasesDrained(t) /\ ~FreeModel(t)
    BY DEF CloseLoading, CloseOpen, SignalGeneration, LeasesDrained, FreeModel
  <2>6. ~CloseRefused(t) /\ ~LoadIsStuck(t) /\ ~CloseFails(t)
    BY DEF CloseRefused, LoadIsStuck, CloseFails
  <2> QED
    BY <2>4, <2>5, <2>6 DEF CloseStep
<1> QED
  BY <1>2, <1>3, <1>4, <1>5

\* When close() returns, every load that had begun when it was called is over and
\* its model freed, also one that it only told to give up.
THEOREM CloseWaits == ~Overlaps => (Spec => CloseEndsLoads)
<1> SUFFICES ASSUME ~Overlaps PROVE Spec => CloseEndsLoads
  OBVIOUS
<1> DEFINE A == \A t \in Threads :
                  /\ pc[t] \in ClosePcs /\ pc'[t] \in {"begin", "idle"}
                  /\ engineState' # "CLOSE_FAILED"
                  => \A h \in doomed[t] : life'[h] # "alive" /\ h \notin Begun'
<1> DEFINE I == WorkInv /\ OwnerInv /\ LifeInv
<1> DEFINE J == AloneInv /\ HeldInv /\ DoomedInv
<1>1. TypeInv /\ I /\ J /\ [Next]_vars => [A]_vars
  <2> SUFFICES ASSUME TypeInv, I, J, Next PROVE A
    OBVIOUS
  <2> QED
    BY CloseEnds
<1>2. Spec => []I
  BY OwnersInvariant
<1>3. Spec => []J
  BY HeldInvariant
<1>4. CloseEndsLoads <=> [][A]_vars
  BY DEF CloseEndsLoads
<1> HIDE DEF A, I, J
<1> QED
  BY <1>1, <1>2, <1>3, <1>4, TypeInvariant, PTL DEF Spec

-----------------------------------------------------------------------------
(* A stop and the generation it is for.  Generations that overlap may enter   *)
(* the native holder out of the order of their ids, and the holder ignores a *)
(* stop of an id below the last it has seen: hence ~Overlaps.                 *)

Entered == {"enter", "start", "decode"}

\* One generation at a time, the last that was given an id.
OneGeneration ==
  /\ \A t, u \in Threads : gen[t] # NoGen /\ gen[u] # NoGen => t = u
  /\ \A t \in Threads : gen[t] \in {NoGen, gens}

\* A generation has its id until it gives its lease back; only a stop means one.
GenerationPcs ==
  /\ \A t \in Threads : pc[t] \in Entered \cup {"queue", "admit"} => gen[t] # NoGen
  /\ \A t \in Threads : gen[t] # NoGen => pc[t] \in LeasedPcs
  /\ \A t \in Threads : pc[t] \in Entered => gen[t] \notin queuedGenerationIds
  /\ \A t \in Threads : meant[t] # {} => pc[t] \in {"stop", "leave"}

\* The active generation was admitted, on the model that is open.
ActiveInv ==
  activeGenerationId # NoGen =>
    /\ nativeHandle # NoHandle
    /\ \A t \in Threads : gen[t] = activeGenerationId =>
         pc[t] \in Entered \cup {"unlock", "leave"} /\ handle[t] = nativeHandle

\* What a stop does to the generation it is for, by where both are: in the
\* queue it is marked; once admitted, the stop has its id and its model; once the
\* native half was told, its id is cancelled and, if it decodes, the flag set.
StopMeant ==
  \A t, u \in Threads : gen[t] # NoGen /\ gen[t] \in meant[u] =>
    /\ pc[t] \in {"queue", "admit"} => gen[t] \in stoppedQueuedGenerationIds
    /\ pc[t] \in Entered /\ pc[u] = "stop" => target[u] = gen[t] /\ handle[u] = handle[t]
    /\ pc[t] \in Entered /\ pc[u] = "leave" => cancelled_generation_id[handle[t]] >= gen[t]
    /\ pc[t] = "decode" /\ pc[u] = "leave" => stop_requested[handle[t]]

StopAsked ==
  \A t \in Threads : gen[t] # NoGen /\ gen[t] \in asked =>
    /\ pc[t] \in {"queue", "admit"} => gen[t] \in stoppedQueuedGenerationIds
    /\ pc[t] \in Entered => cancelled_generation_id[handle[t]] >= gen[t]
    /\ pc[t] = "decode" => stop_requested[handle[t]]

StopInv == OneGeneration /\ GenerationPcs /\ ActiveInv /\ StopMeant /\ StopAsked

\* The other steps: whatever they do to the engine or to a holder, the generation
\* that is under way and the stops stay where they were, or it is over.
Unheard ==
  /\ UNCHANGED <<queuedGenerationIds, stoppedQueuedGenerationIds, gens, meant, asked>>
  /\ activeGenerationId' # NoGen =>
       activeGenerationId' = activeGenerationId /\ nativeHandle' = nativeHandle
  /\ \A h \in Handles : cancelled_generation_id'[h] >= cancelled_generation_id[h]
  /\ \A h \in Handles : stop_requested[h] => stop_requested'[h]
  /\ \A u \in Threads :
       /\ gen'[u] = gen[u]
       /\ gen[u] # NoGen => pc'[u] \in LeasedPcs
       /\ pc'[u] \in Entered \cup {"stop"} => pc'[u] = pc[u]
       /\ pc'[u] \in {"queue", "admit"} => pc[u] \in {"queue", "admit"}
       /\ pc[u] \in Entered \cup {"unlock", "leave"} /\ gen[u] # NoGen =>
            pc'[u] \in Entered \cup {"unlock", "leave"}
       /\ pc[u] \in {"stop", "leave"} => pc'[u] = pc[u]
       /\ pc[u] \in LeasedPcs => handle'[u] = handle[u] /\ target'[u] = target[u]

HeardStep(t) ==
  \/ Admit(t) \/ NativeEnter(t) \/ NativeStart(t) \/ Leave(t) \/ StopNative(t)
  \/ CallGenerate(t) \/ CallStop(t)

\* A native stop cancels no less than before.
LEMMA NativeStopCancels ==
  ASSUME TypeInv, NEW h \in Handles, NEW g \in 0..gens, NativeStop(h, g)
  PROVE  /\ \A k \in Handles : cancelled_generation_id'[k] >= cancelled_generation_id[k]
         /\ \A k \in Handles : stop_requested[k] => stop_requested'[k]
         /\ g # NoGen /\ active_generation_id[h] <= g =>
              cancelled_generation_id'[h] >= g /\ stop_requested'[h]
<1> USE DEF TypeInv, EngineTypes, GenerationTypes, natives, NoGen
<1>1. CASE g # NoGen /\ active_generation_id[h] # NoGen /\ g < active_generation_id[h]
  <2>1. UNCHANGED natives
    BY <1>1 DEF NativeStop
  <2> QED
    BY <1>1, <2>1
<1>2. CASE ~(g # NoGen /\ active_generation_id[h] # NoGen /\ g < active_generation_id[h])
  <2> DEFINE aimed == IF g = NoGen THEN active_generation_id[h] ELSE g
  <2>1. aimed \in Nat /\ cancelled_generation_id[h] \in Nat
    OBVIOUS
  <2>2. /\ cancelled_generation_id' = [cancelled_generation_id EXCEPT
             ![h] = IF aimed > @ THEN aimed ELSE @]
        /\ stop_requested' = [stop_requested EXCEPT ![h] = TRUE]
    BY <1>2 DEF NativeStop
  <2>3. \A k \in Handles : cancelled_generation_id'[k] >= cancelled_generation_id[k]
    BY <2>1, <2>2
  <2>4. \A k \in Handles : stop_requested[k] => stop_requested'[k]
    BY <2>2
  <2>5. cancelled_generation_id'[h] >= aimed /\ stop_requested'[h]
    BY <2>1, <2>2
  <2> QED
    BY <2>3, <2>4, <2>5
<1> QED
  BY <1>1, <1>2

\* Every other step is unheard.
LEMMA OthersUnheard ==
  ASSUME TypeInv, OwnerInv, WorkInv, HeldInv, StopInv, NEW t \in Threads, ~HeardStep(t),
         \/ Call(t) \/ CloseStep(t) \/ LoadStep(t) \/ LeasedStep(t)
         \/ LockNative(t) \/ CancelledAtLock(t) \/ EndDecode(t)
  PROVE  Unheard
<1> USE DEF TypeInv, EngineTypes, GenerationTypes, CallTypes, AllPcs, OwnerInv,
     LoadersLoad, EngineOwns, Closers, HeldInv, ShownIsOpen, StopInv, GenerationPcs,
     ActiveInv, Entered, NoGen, NoHandle, ClosePcs, LoadPcs, LeasedPcs, QueuePcs,
     LockedPcs, monitor, natives, locals, history, counters, Goto, Unheard
<1>1. ASSUME CloseStep(t) PROVE Unheard
  <2>1. CASE CloseRefused(t)
    BY <2>1 DEF CloseRefused, CloseThrows, Return
  <2>2. CASE CloseNothing(t)
    BY <2>2 DEF CloseNothing, CloseReturns, Return, Loading
  <2>3. CASE CloseLoading(t)
    BY <2>3 DEF CloseLoading
  <2>4. CASE LoadIsOver(t)
    BY <2>4 DEF LoadIsOver, CloseReturns, Return, Loading
  <2>5. CASE LoadIsStuck(t)
    BY <2>5 DEF LoadIsStuck, CloseThrows, Return
  <2>6. CASE CloseOpen(t)
    BY <2>6 DEF CloseOpen
  <2>7. CASE SignalGeneration(t)
    <3>1. handle[t] \in Handles /\ target[t] \in 0..gens
      BY <2>7 DEF SignalGeneration
    <3>2. NativeStop(handle[t], target[t])
      BY <2>7 DEF SignalGeneration
    <3>3. /\ \A h \in Handles : cancelled_generation_id'[h] >= cancelled_generation_id[h]
          /\ \A h \in Handles : stop_requested[h] => stop_requested'[h]
      BY <3>1, <3>2, NativeStopCancels
    <3> QED
      BY <2>7, <3>3 DEF SignalGeneration
  <2>8. CASE LeasesDrained(t)
    BY <2>8 DEF LeasesDrained
  <2>9. CASE FreeModel(t)
    BY <2>9 DEF FreeModel, NativeFree
  <2>10. CASE CloseBundle(t)
    BY <2>10 DEF CloseBundle, CloseReturns, Return, Loading
  <2>11. CASE CloseFails(t)
    BY <2>11 DEF CloseFails, CloseThrows, Return
  <2> QED
    BY <1>1, <2>1, <2>2, <2>3, <2>4, <2>5, <2>6, <2>7, <2>8, <2>9, <2>10, <2>11 DEF CloseStep
<1>2. ASSUME LoadStep(t) PROVE Unheard
  <2>1. CASE BeginLoad(t)
    BY <2>1 DEF BeginLoad, Return
  <2>2. CASE LoadModel(t)
    BY <2>2 DEF LoadModel
  <2>3. CASE Publish(t)
    BY <2>3 DEF Publish, Return
  <2>4. CASE PublishRefused(t)
    BY <2>4 DEF PublishRefused
  <2>5. CASE FreeDiscarded(t)
    BY <2>5 DEF FreeDiscarded, NativeFree
  <2>6. CASE FreeDiscardedFails(t)
    BY <2>6 DEF FreeDiscardedFails, Return
  <2>7. CASE EndDiscarded(t)
    BY <2>7 DEF EndDiscarded, Return
  <2> QED
    BY <1>2, <2>1, <2>2, <2>3, <2>4, <2>5, <2>6, <2>7 DEF LoadStep
<1>3. ASSUME LeasedStep(t) PROVE Unheard
  <2>1. CASE NoticeStop(t)
    BY <2>1 DEF NoticeStop
  <2>2. CASE UnlockNative(t)
    BY <2>2 DEF UnlockNative
  <2>3. CASE EndOperation(t)
    BY <2>3 DEF EndOperation
  <2> QED
    BY <1>3, <2>1, <2>2, <2>3 DEF LeasedStep, HeardStep
<1>4. ASSUME Call(t) PROVE Unheard
  <2>1. CASE CallClose(t)
    BY <2>1 DEF CallClose
  <2>2. CASE CallInitialize(t)
    BY <2>2 DEF CallInitialize
  <2>3. CASE CallOperation(t)
    BY <2>3 DEF CallOperation, LeaseGiven
  <2> QED
    BY <1>4, <2>1, <2>2, <2>3 DEF Call, HeardStep
<1>5. ASSUME LockNative(t) \/ CancelledAtLock(t) \/ EndDecode(t) PROVE Unheard
  <2>1. CASE LockNative(t)
    BY <2>1 DEF LockNative
  <2>2. CASE CancelledAtLock(t)
    BY <2>2 DEF CancelledAtLock
  <2>3. CASE EndDecode(t)
    BY <2>3 DEF EndDecode
  <2> QED
    BY <1>5, <2>1, <2>2, <2>3
<1> QED
  BY <1>1, <1>2, <1>3, <1>4, <1>5

\* An unheard step keeps what is known of the stops.
LEMMA UnheardKeeps == TypeInv /\ TypeInv' /\ LifeInv /\ StopInv /\ Unheard => StopInv'
<1> SUFFICES ASSUME TypeInv, TypeInv', LifeInv, StopInv, Unheard PROVE StopInv'
  OBVIOUS
<1>0. \A u \in Threads : pc[u] \in Entered => handle[u] \in Handles /\ pc[u] \in LeasedPcs
  BY DEF TypeInv, CallTypes, LifeInv, LeasesAlive, Entered, LeasedPcs, QueuePcs, LockedPcs
<1>n. \A u \in Threads, h \in Handles :
        /\ gen[u] \in Nat /\ cancelled_generation_id[h] \in Nat
        /\ cancelled_generation_id'[h] \in Nat
  BY DEF TypeInv, EngineTypes, GenerationTypes
<1>1. OneGeneration'
  BY DEF StopInv, OneGeneration, Unheard
<1>2. GenerationPcs'
  <2>1. \A u \in Threads : pc'[u] \in Entered \cup {"queue", "admit"} => gen'[u] # NoGen
    BY DEF StopInv, GenerationPcs, Unheard, Entered
  <2>2. \A u \in Threads : gen'[u] # NoGen => pc'[u] \in LeasedPcs
    BY DEF Unheard
  <2>3. \A u \in Threads : pc'[u] \in Entered => gen'[u] \notin queuedGenerationIds'
    BY DEF StopInv, GenerationPcs, Unheard, Entered
  <2>4. \A u \in Threads : meant'[u] # {} => pc'[u] \in {"stop", "leave"}
    BY DEF StopInv, GenerationPcs, Unheard
  <2> QED
    BY <2>1, <2>2, <2>3, <2>4 DEF GenerationPcs
<1>3. ActiveInv'
  BY DEF StopInv, ActiveInv, Unheard, Entered, LeasedPcs, LockedPcs
<1>4. StopMeant'
  <2> SUFFICES ASSUME NEW u \in Threads, NEW v \in Threads, gen[u] # NoGen,
                      gen[u] \in meant[v]
               PROVE  /\ pc'[u] \in {"queue", "admit"} => gen[u] \in stoppedQueuedGenerationIds
                      /\ pc'[u] \in Entered /\ pc'[v] = "stop" =>
                           target'[v] = gen[u] /\ handle'[v] = handle'[u]
                      /\ pc'[u] \in Entered /\ pc'[v] = "leave" =>
                           cancelled_generation_id'[handle'[u]] >= gen[u]
                      /\ pc'[u] = "decode" /\ pc'[v] = "leave" => stop_requested'[handle'[u]]
    BY DEF StopMeant, Unheard
  <2>1. pc[v] \in {"stop", "leave"} /\ pc'[v] = pc[v]
    BY DEF StopInv, GenerationPcs, Unheard
  <2>2. pc'[u] \in Entered =>
          pc'[u] = pc[u] /\ handle'[u] = handle[u] /\ handle[u] \in Handles
    BY <1>0 DEF Unheard
  <2>3. pc'[u] \in {"queue", "admit"} => gen[u] \in stoppedQueuedGenerationIds
    BY DEF StopInv, StopMeant, Unheard
  <2>4. pc'[u] \in Entered /\ pc'[v] = "stop" => target'[v] = gen[u] /\ handle'[v] = handle'[u]
    BY <2>1, <2>2 DEF StopInv, StopMeant, Unheard, LeasedPcs
  <2>5. pc'[u] \in Entered /\ pc'[v] = "leave" => cancelled_generation_id'[handle'[u]] >= gen[u]
    <3> SUFFICES ASSUME pc'[u] \in Entered, pc'[v] = "leave"
                 PROVE  cancelled_generation_id'[handle'[u]] >= gen[u]
      OBVIOUS
    <3>1. cancelled_generation_id[handle[u]] >= gen[u]
      BY <2>1, <2>2 DEF StopInv, StopMeant
    <3>2. cancelled_generation_id'[handle[u]] >= cancelled_generation_id[handle[u]]
      BY <2>2 DEF Unheard
    <3> QED
      BY <2>2, <3>1, <3>2, <1>n
  <2>6. pc'[u] = "decode" /\ pc'[v] = "leave" => stop_requested'[handle'[u]]
    <3> SUFFICES ASSUME pc'[u] = "decode", pc'[v] = "leave"
                 PROVE  stop_requested'[handle'[u]]
      OBVIOUS
    <3>1. stop_requested[handle[u]]
      BY <2>1, <2>2 DEF StopInv, StopMeant, Entered
    <3>2. stop_requested[handle[u]] => stop_requested'[handle[u]]
      BY <2>2 DEF Unheard, Entered
    <3> QED
      BY <2>2, <3>1, <3>2 DEF Entered
  <2> QED
    BY <2>3, <2>4, <2>5, <2>6
<1>5. StopAsked'
  <2> SUFFICES ASSUME NEW u \in Threads, gen[u] # NoGen, gen[u] \in asked
               PROVE  /\ pc'[u] \in {"queue", "admit"} => gen[u] \in stoppedQueuedGenerationIds
                      /\ pc'[u] \in Entered => cancelled_generation_id'[handle'[u]] >= gen[u]
                      /\ pc'[u] = "decode" => stop_requested'[handle'[u]]
    BY DEF StopAsked, Unheard
  <2>2. pc'[u] \in Entered =>
          pc'[u] = pc[u] /\ handle'[u] = handle[u] /\ handle[u] \in Handles
    BY <1>0 DEF Unheard
  <2>3. pc'[u] \in {"queue", "admit"} => gen[u] \in stoppedQueuedGenerationIds
    BY DEF StopInv, StopAsked, Unheard
  <2>4. pc'[u] \in Entered => cancelled_generation_id'[handle'[u]] >= gen[u]
    BY <2>2, <1>n DEF StopInv, StopAsked, Unheard
  <2>5. pc'[u] = "decode" => stop_requested'[handle'[u]]
    BY <2>2 DEF StopInv, StopAsked, Unheard, Entered
  <2> QED
    BY <2>3, <2>4, <2>5
<1> QED
  BY <1>1, <1>2, <1>3, <1>4, <1>5 DEF StopInv

\* The steps of the generation and of a stop.
LEMMA HeardKeeps ==
  ASSUME ~Overlaps, TypeInv, TypeInv', OwnerInv, LifeInv, StopInv, NEW t \in Threads,
         HeardStep(t)
  PROVE  StopInv'
<1> USE DEF TypeInv, EngineTypes, GenerationTypes, CallTypes, AllPcs, OwnerInv,
     EngineOwns, LifeInv, LeasesAlive, StopInv, OneGeneration, GenerationPcs,
     ActiveInv, StopMeant, StopAsked, Entered, NoGen, NoHandle, ClosePcs, LoadPcs,
     LeasedPcs, QueuePcs, LockedPcs, monitor, natives, locals, history, counters, Goto
<1>1. CASE Admit(t)
  <2>1. OneGeneration'
    BY <1>1 DEF Admit
  <2>2. GenerationPcs'
    BY <1>1 DEF Admit
  <2>3. ActiveInv'
    BY <1>1 DEF Admit
  <2>4. StopMeant'
    BY <1>1 DEF Admit
  <2>5. StopAsked'
    BY <1>1 DEF Admit
  <2> QED
    BY <2>1, <2>2, <2>3, <2>4, <2>5
<1>2. CASE NativeEnter(t)
  <2>1. OneGeneration'
    BY <1>2 DEF NativeEnter
  <2>2. GenerationPcs'
    BY <1>2 DEF NativeEnter
  <2>3. ActiveInv'
    BY <1>2 DEF NativeEnter
  <2>4. StopMeant'
    BY <1>2 DEF NativeEnter
  <2>5. StopAsked'
    BY <1>2 DEF NativeEnter
  <2> QED
    BY <2>1, <2>2, <2>3, <2>4, <2>5
<1>3. CASE NativeStart(t)
  <2>1. OneGeneration'
    BY <1>3 DEF NativeStart
  <2>2. GenerationPcs'
    BY <1>3 DEF NativeStart
  <2>3. ActiveInv'
    BY <1>3 DEF NativeStart
  <2>4. StopMeant'
    BY <1>3 DEF NativeStart
  <2>5. StopAsked'
    BY <1>3 DEF NativeStart
  <2> QED
    BY <2>1, <2>2, <2>3, <2>4, <2>5
<1>4. CASE Leave(t)
  <2>1. OneGeneration'
    BY <1>4 DEF Leave, Return
  <2>2. GenerationPcs'
    BY <1>4 DEF Leave, Return
  <2>3. ActiveInv'
    BY <1>4 DEF Leave, Return
  <2>4. StopMeant'
    BY <1>4 DEF Leave, Return
  <2>5. StopAsked'
    BY <1>4 DEF Leave, Return
  <2> QED
    BY <2>1, <2>2, <2>3, <2>4, <2>5
<1>5. CASE StopNative(t)
  <2>r. /\ Goto(t, "stop", "leave") /\ NativeStop(handle[t], target[t])
        /\ UNCHANGED <<monitor, activeBundleLease, nativeOperations, life, bundles,
                       locals, counters, history>>
    BY <1>5 DEF StopNative
  <2>n. handle[t] \in Handles /\ target[t] \in 0..gens
    BY <2>r
  <2>s. /\ \A k \in Handles : cancelled_generation_id'[k] >= cancelled_generation_id[k]
        /\ \A k \in Handles : stop_requested[k] => stop_requested'[k]
        /\ target[t] # NoGen /\ active_generation_id[handle[t]] <= target[t] =>
             /\ cancelled_generation_id'[handle[t]] >= target[t]
             /\ stop_requested'[handle[t]]
    BY <2>r, <2>n, NativeStopCancels
  <2>1. OneGeneration'
    BY <2>r, <2>n, <2>s
  <2>2. GenerationPcs'
    BY <2>r, <2>n, <2>s
  <2>3. ActiveInv'
    BY <2>r, <2>n, <2>s
  <2>4. StopMeant'
    BY <2>r, <2>n, <2>s
  <2>5. StopAsked'
    BY <2>r, <2>n, <2>s
  <2> QED
    BY <2>1, <2>2, <2>3, <2>4, <2>5
<1>6. CASE CallGenerate(t)
  <2>1. OneGeneration'
    BY <1>6 DEF CallGenerate, LeaseGiven
  <2>2. GenerationPcs'
    BY <1>6 DEF CallGenerate, LeaseGiven
  <2>3. ActiveInv'
    BY <1>6 DEF CallGenerate, LeaseGiven
  <2>4. StopMeant'
    BY <1>6 DEF CallGenerate, LeaseGiven
  <2>5. StopAsked'
    BY <1>6 DEF CallGenerate, LeaseGiven
  <2> QED
    BY <2>1, <2>2, <2>3, <2>4, <2>5
<1>7. CASE CallStop(t)
  <2>1. OneGeneration'
    BY <1>7 DEF CallStop, LeaseGiven
  <2>2. GenerationPcs'
    BY <1>7 DEF CallStop, LeaseGiven
  <2>3. ActiveInv'
    BY <1>7 DEF CallStop, LeaseGiven
  <2>4. StopMeant'
    BY <1>7 DEF CallStop, LeaseGiven
  <2>5. StopAsked'
    BY <1>7 DEF CallStop, LeaseGiven
  <2> QED
    BY <2>1, <2>2, <2>3, <2>4, <2>5
<1> QED
  BY <1>1, <1>2, <1>3, <1>4, <1>5, <1>6, <1>7 DEF HeardStep

\* The invariant of the stops.
LEMMA StopInvariant == ~Overlaps => (Spec => []StopInv)
<1> SUFFICES ASSUME ~Overlaps PROVE Spec => []StopInv
  OBVIOUS
<1> DEFINE I == WorkInv /\ OwnerInv /\ LifeInv
<1> DEFINE J == AloneInv /\ HeldInv /\ DoomedInv
<1>1. Init => StopInv
  BY DEF Init, StopInv, OneGeneration, GenerationPcs, ActiveInv, StopMeant, StopAsked,
         Entered, NoGen
<1>2. TypeInv /\ TypeInv' /\ I /\ J /\ StopInv /\ [Next]_vars => StopInv'
  <2> SUFFICES ASSUME TypeInv, TypeInv', I, J, StopInv, [Next]_vars PROVE StopInv'
    OBVIOUS
  <2>1. CASE UNCHANGED vars
    BY <2>1 DEF vars, StopInv, OneGeneration, GenerationPcs, ActiveInv, StopMeant,
                StopAsked
  <2>2. ASSUME NEW t \in Threads,
               \/ Call(t) \/ CloseStep(t) \/ LoadStep(t) \/ LeasedStep(t)
               \/ LockNative(t) \/ CancelledAtLock(t) \/ EndDecode(t)
        PROVE  StopInv'
    BY <2>2, HeardKeeps, OthersUnheard, UnheardKeeps
  <2> QED
    BY <2>1, <2>2 DEF Next
<1>3. Spec => []I
  BY OwnersInvariant
<1>4. Spec => []J
  BY HeldInvariant
<1> HIDE DEF I, J
<1> QED
  BY <1>1, <1>2, <1>3, <1>4, TypeInvariant, PTL DEF Spec

\* A generation that a stop() was for, in the queue or active, does not decode once
\* that stop() has returned, other than to notice it: the stop was aimed at its id,
\* on its model, or it was marked before it was admitted.
THEOREM StopReaches == ~Overlaps => (Spec => []StopReachesGeneration)
<1> SUFFICES ASSUME ~Overlaps PROVE Spec => []StopReachesGeneration
  OBVIOUS
<1>1. StopInv => StopReachesGeneration
  BY DEF StopInv, GenerationPcs, StopAsked, StopReachesGeneration, Entered
<1> QED
  BY <1>1, StopInvariant, PTL

-----------------------------------------------------------------------------
(* Who waits for whom.                                                      *)

\* nativeOperations is held by the call that decodes, and by nobody else.
LockInv == \A t \in Threads : nativeOperations = t <=> pc[t] \in LockedPcs

\* While the engine is being loaded or closed, somebody is at it.
BusyInv ==
  engineState \in {"INITIALIZING", "CLOSING"} =>
    \E t \in Threads : pc[t] \in Workers \cup Closers

\* What a step of one call does to the lock, and to the work on the engine.
Moves(t) ==
  /\ \A u \in Threads : u # t => pc'[u] = pc[u]
  /\ \/ /\ nativeOperations' = nativeOperations
        /\ pc[t] \in LockedPcs <=> pc'[t] \in LockedPcs
     \/ nativeOperations = Nobody /\ nativeOperations' = t /\ pc'[t] \in LockedPcs
     \/ /\ pc[t] \in LockedPcs /\ pc'[t] \notin LockedPcs
        /\ nativeOperations' = Nobody
  /\ engineState' \in {"INITIALIZING", "CLOSING"} =>
       \/ pc'[t] \in Workers \cup Closers
       \/ engineState \in {"INITIALIZING", "CLOSING"} /\ pc[t] \notin Workers \cup Closers

\* Every step of a call is such a move.
LEMMA EveryStepMoves ==
  ASSUME TypeInv, NEW t \in Threads,
         \/ Call(t) \/ CloseStep(t) \/ LoadStep(t) \/ LeasedStep(t)
         \/ LockNative(t) \/ CancelledAtLock(t) \/ EndDecode(t)
  PROVE  Moves(t)
<1> USE DEF TypeInv, EngineTypes, CallTypes, EngineStates, AllPcs, Moves, Workers,
     Closers, ClosePcs, LoadPcs, LeasedPcs, QueuePcs, LockedPcs, monitor, natives,
     locals, history, counters, Goto
<1>1. CASE CloseStep(t)
  <2>1. CASE CloseRefused(t)
    BY <2>1 DEF CloseRefused, CloseThrows, Return
  <2>2. CASE CloseNothing(t)
    BY <2>2 DEF CloseNothing, CloseReturns, Return, Loading
  <2>3. CASE CloseLoading(t)
    BY <2>3 DEF CloseLoading
  <2>4. CASE LoadIsOver(t)
    BY <2>4 DEF LoadIsOver, CloseReturns, Return, Loading
  <2>5. CASE LoadIsStuck(t)
    BY <2>5 DEF LoadIsStuck, CloseThrows, Return
  <2>6. CASE CloseOpen(t)
    BY <2>6 DEF CloseOpen
  <2>7. CASE SignalGeneration(t)
    BY <2>7 DEF SignalGeneration, NativeStop
  <2>8. CASE LeasesDrained(t)
    BY <2>8 DEF LeasesDrained
  <2>9. CASE FreeModel(t)
    BY <2>9 DEF FreeModel, NativeFree
  <2>10. CASE CloseBundle(t)
    BY <2>10 DEF CloseBundle, CloseReturns, Return, Loading
  <2>11. CASE CloseFails(t)
    BY <2>11 DEF CloseFails, CloseThrows, Return
  <2> QED
    BY <1>1, <2>1, <2>2, <2>3, <2>4, <2>5, <2>6, <2>7, <2>8, <2>9, <2>10, <2>11 DEF CloseStep
<1>2. CASE LoadStep(t)
  <2>1. CASE BeginLoad(t)
    BY <2>1 DEF BeginLoad, Return
  <2>2. CASE LoadModel(t)
    BY <2>2 DEF LoadModel, Return
  <2>3. CASE Publish(t)
    BY <2>3 DEF Publish, Return
  <2>4. CASE PublishRefused(t)
    BY <2>4 DEF PublishRefused
  <2>5. CASE FreeDiscarded(t)
    BY <2>5 DEF FreeDiscarded, NativeFree
  <2>6. CASE FreeDiscardedFails(t)
    BY <2>6 DEF FreeDiscardedFails, Return
  <2>7. CASE EndDiscarded(t)
    BY <2>7 DEF EndDiscarded, Return
  <2> QED
    BY <1>2, <2>1, <2>2, <2>3, <2>4, <2>5, <2>6, <2>7 DEF LoadStep
<1>3. CASE LeasedStep(t)
  <2>1. CASE Admit(t)
    BY <2>1 DEF Admit
  <2>2. CASE NativeEnter(t)
    BY <2>2 DEF NativeEnter
  <2>3. CASE NativeStart(t)
    BY <2>3 DEF NativeStart
  <2>4. CASE NoticeStop(t)
    BY <2>4 DEF NoticeStop
  <2>5. CASE UnlockNative(t)
    BY <2>5 DEF UnlockNative
  <2>6. CASE Leave(t)
    BY <2>6 DEF Leave, Return
  <2>7. CASE EndOperation(t)
    BY <2>7 DEF EndOperation
  <2>8. CASE StopNative(t)
    BY <2>8 DEF StopNative, NativeStop
  <2> QED
    BY <1>3, <2>1, <2>2, <2>3, <2>4, <2>5, <2>6, <2>7, <2>8 DEF LeasedStep
<1>4. CASE Call(t)
  <2>1. CASE CallClose(t)
    BY <2>1 DEF CallClose
  <2>2. CASE CallInitialize(t)
    BY <2>2 DEF CallInitialize
  <2>3. CASE CallGenerate(t)
    BY <2>3 DEF CallGenerate, LeaseGiven
  <2>4. CASE CallOperation(t)
    BY <2>4 DEF CallOperation, LeaseGiven
  <2>5. CASE CallStop(t)
    BY <2>5 DEF CallStop, LeaseGiven
  <2> QED
    BY <1>4, <2>1, <2>2, <2>3, <2>4, <2>5 DEF Call
<1>5. CASE LockNative(t)
  BY <1>5 DEF LockNative
<1>6. CASE CancelledAtLock(t) \/ EndDecode(t)
  BY <1>6 DEF CancelledAtLock, EndDecode
<1> QED
  BY <1>1, <1>2, <1>3, <1>4, <1>5, <1>6

\* Both hold in every state.
LEMMA WaitInvariant == Spec => [](LockInv /\ BusyInv)
<1> DEFINE I == LockInv /\ BusyInv
<1>1. Init => I
  BY ThreadAssumption DEF Init, LockInv, BusyInv, LockedPcs
<1>2. TypeInv /\ I /\ [Next]_vars => I'
  <2> SUFFICES ASSUME TypeInv, I, [Next]_vars PROVE I'
    OBVIOUS
  <2>1. ASSUME NEW t \in Threads, Moves(t) PROVE LockInv'
    <3> SUFFICES ASSUME NEW u \in Threads
                 PROVE  nativeOperations' = u <=> pc'[u] \in LockedPcs
      BY DEF LockInv
    <3>1. /\ nativeOperations = u <=> pc[u] \in LockedPcs
          /\ nativeOperations = t <=> pc[t] \in LockedPcs
      BY DEF LockInv
    <3>2. Nobody # u /\ Nobody # t
      BY ThreadAssumption
    <3> QED
      BY <2>1, <3>1, <3>2 DEF Moves
  <2>2. ASSUME NEW t \in Threads, Moves(t) PROVE BusyInv'
    <3> SUFFICES ASSUME engineState' \in {"INITIALIZING", "CLOSING"}
                 PROVE  \E u \in Threads : pc'[u] \in Workers \cup Closers
      BY DEF BusyInv
    <3>1. CASE pc'[t] \in Workers \cup Closers
      BY <3>1
    <3>2. CASE engineState \in {"INITIALIZING", "CLOSING"} /\ pc[t] \notin Workers \cup Closers
      <4>1. PICK u \in Threads : pc[u] \in Workers \cup Closers
        BY <3>2 DEF BusyInv
      <4>2. pc'[u] = pc[u]
        BY <2>2, <3>2, <4>1 DEF Moves
      <4> QED
        BY <4>1, <4>2
    <3> QED
      BY <2>2, <3>1, <3>2 DEF Moves
  <2>3. CASE UNCHANGED vars
    BY <2>3 DEF vars, LockInv, BusyInv
  <2> QED
    BY <2>1, <2>2, <2>3, EveryStepMoves DEF Next
<1> HIDE DEF I
<1>3. Spec => []I
  BY <1>1, <1>2, TypeInvariant, PTL DEF Spec
<1> QED
  BY <1>3 DEF I

\* The calls never all wait: whoever waits for the lock waits for a call that holds
\* it, a close() that drains for a call that leaves or waits for the lock, and the
\* others for the one that loads or closes.  Overlapping calls included.
THEOREM NobodyIsStuck == Spec => []SomeoneGoesOn
<1>1. ASSUME TypeInv, LockInv, BusyInv PROVE SomeoneGoesOn
  <2> SUFFICES ASSUME NEW t \in Threads, pc[t] # "idle"
               PROVE  \E u \in Threads : pc[u] # "idle" /\ ~Waits(u)
    BY DEF SomeoneGoesOn
  <2> USE DEF Waits, Workers, Closers, ClosePcs, LoadPcs, LeasedPcs, QueuePcs, LockedPcs
  <2>1. CASE nativeOperations # Nobody
    <3>1. nativeOperations \in Threads /\ pc[nativeOperations] \in LockedPcs
      BY <1>1, <2>1 DEF TypeInv, EngineTypes, LockInv
    <3> QED
      BY <3>1
  <2>2. CASE nativeOperations = Nobody /\ activeLeaseCount # 0
    <3>1. Leased # {}
      BY <1>1, <2>2, FS_EmptySet DEF TypeInv, CountInv
    <3>2. PICK u \in Threads : pc[u] \in LeasedPcs
      BY <3>1 DEF Leased
    <3> QED
      BY <2>2, <3>2
  <2>3. CASE /\ nativeOperations = Nobody /\ activeLeaseCount = 0
             /\ engineState \in {"INITIALIZING", "CLOSING"}
    <3>1. PICK u \in Threads : pc[u] \in Workers \cup Closers
      BY <1>1, <2>3 DEF BusyInv
    <3> QED
      BY <2>3, <3>1
  <2>4. CASE /\ nativeOperations = Nobody /\ activeLeaseCount = 0
             /\ engineState \notin {"INITIALIZING", "CLOSING"}
    BY <2>4
  <2> QED
    BY <2>1, <2>2, <2>3, <2>4
<1> QED
  BY <1>1, TypeInvariant, WaitInvariant, PTL

================================================================================
