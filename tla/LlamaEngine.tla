------------------------------ MODULE LlamaEngine ------------------------------
(***************************************************************************)
(* ai/LlamaCppEngine.kt over its native half in cpp/llama-jni.cpp: one      *)
(* engine object, called from any thread.                                   *)
(*                                                                          *)
(* The engine keeps its state, a count of leases and three sets of          *)
(* generation ids behind a monitor (lifecycleLock): each "synchronized"     *)
(* section is one action.  nativeOperations, a reentrant lock that is not   *)
(* fair, is held by whoever decodes.  What the native holder keeps is       *)
(* reached through a handle, by calls that hold a lease or not: a call is   *)
(* split where the native code takes its own lock.                          *)
(*                                                                          *)
(* The i-th call of initializeBundle stands for its bundle lease (the open  *)
(* files of the model) and for the handle that nativeInitModelBundle gives  *)
(* it.  A generation's id is taken together with its lease.  Interrupted    *)
(* waits only restore the interrupt flag and go on.                         *)
(***************************************************************************)
EXTENDS Naturals, FiniteSets

CONSTANTS
  Threads,
  Loaders,      \* bound: the threads that load and close
  MaxInits,     \* bound: calls of initializeBundle
  MaxGens,      \* bound: generations
  Overlaps,     \* may initializations, or generations, overlap each other?
  FreeMayFail   \* may nativeFree throw?

ASSUME EngineAssumption ==
  /\ IsFiniteSet(Threads) /\ Loaders \subseteq Threads
  /\ MaxInits \in Nat /\ MaxGens \in Nat
  /\ Overlaps \in BOOLEAN /\ FreeMayFail \in BOOLEAN

Handles == 1..MaxInits
NoHandle == 0
NoGen == 0
Nobody == "nobody"

ASSUME ThreadAssumption == Nobody \notin Threads

VARIABLES
  \* of the Kotlin object
  engineState, nativeHandle, initEpoch, activeLeaseCount, activeGenerationId,
  queuedGenerationIds, stoppedQueuedGenerationIds,
  activeBundleLease,     \* a handle, for the bundle it was loaded from
  nativeOperations,      \* the thread that holds the lock
  \* of the native holders, and of the bundles
  life,                  \* [Handles -> none, alive or freed]
  active_generation_id,  \* [Handles -> Nat], as are the next
  cancelled_generation_id,
  stop_requested,        \* [Handles -> BOOLEAN]
  bundles,               \* the bundle leases that are open
  \* of the calls under way
  pc,
  handle,                \* the leased handle, or the one close() frees
  gen,                   \* the generation's own id
  target,                \* the generation that stop() or close() aims at
  load,                  \* the call of initializeBundle, and its epoch
  epoch,
  \* bounds and history
  inits, gens,
  doomed,                \* [Threads -> the loads its close() has to end]
  meant,                 \* [Threads -> the generations its stop() is for]
  asked                  \* the generations that a stop() that returned was for

monitor  == <<engineState, nativeHandle, initEpoch, activeLeaseCount,
              activeGenerationId, queuedGenerationIds,
              stoppedQueuedGenerationIds>>
natives  == <<active_generation_id, cancelled_generation_id, stop_requested>>
locals   == <<handle, gen, target, load, epoch>>
history  == <<doomed, meant, asked>>
counters == <<inits, gens>>
vars == <<engineState, nativeHandle, initEpoch, activeLeaseCount,
          activeGenerationId, queuedGenerationIds, stoppedQueuedGenerationIds,
          activeBundleLease, nativeOperations, life, active_generation_id,
          cancelled_generation_id, stop_requested, bundles, pc, handle, gen,
          target, load, epoch, inits, gens, doomed, meant, asked>>

ClosePcs  == {"close", "waitInit", "signal", "drain", "free", "closed", "failed"}
LoadPcs   == {"begin", "load", "publish", "discard", "discarded"}
QueuePcs  == {"queue", "opQueue"}
LockedPcs == {"admit", "enter", "start", "decode", "op", "unlock"}
LeasedPcs == QueuePcs \cup LockedPcs \cup {"leave", "stop", "read"}

\* The thread is inside native code with its handle.
NativePcs == {"start", "decode", "op", "stop", "read"}

TypeOK ==
  /\ engineState \in {"UNINITIALIZED", "INITIALIZING", "OPEN", "CLOSING",
                      "CLOSED", "CLOSE_FAILED"}
  /\ nativeHandle \in Handles \cup {NoHandle}
  /\ initEpoch \in Nat /\ activeLeaseCount \in Nat
  /\ activeGenerationId \in 0..gens
  /\ queuedGenerationIds \subseteq 1..gens
  /\ stoppedQueuedGenerationIds \subseteq queuedGenerationIds
  /\ activeBundleLease \in Handles \cup {NoHandle}
  /\ nativeOperations \in Threads \cup {Nobody}
  /\ life \in [Handles -> {"none", "alive", "freed"}]
  /\ active_generation_id \in [Handles -> 0..gens]
  /\ cancelled_generation_id \in [Handles -> 0..gens]
  /\ stop_requested \in [Handles -> BOOLEAN]
  /\ bundles \subseteq Handles
  /\ pc \in [Threads -> {"idle"} \cup ClosePcs \cup LoadPcs \cup LeasedPcs]
  /\ handle \in [Threads -> Handles \cup {NoHandle}]
  /\ gen \in [Threads -> 0..gens]
  /\ target \in [Threads -> 0..gens]
  /\ load \in [Threads -> Handles \cup {NoHandle}]
  /\ epoch \in [Threads -> Nat]
  /\ inits \in 0..MaxInits /\ gens \in 0..MaxGens
  /\ doomed \in [Threads -> SUBSET Handles]
  /\ meant \in [Threads -> SUBSET (1..gens)]
  /\ asked \subseteq 1..gens

Init ==
  /\ engineState = "UNINITIALIZED"
  /\ nativeHandle = NoHandle /\ activeBundleLease = NoHandle
  /\ initEpoch = 0 /\ activeLeaseCount = 0 /\ activeGenerationId = NoGen
  /\ queuedGenerationIds = {} /\ stoppedQueuedGenerationIds = {}
  /\ nativeOperations = Nobody
  /\ life = [h \in Handles |-> "none"]
  /\ active_generation_id = [h \in Handles |-> NoGen]
  /\ cancelled_generation_id = [h \in Handles |-> NoGen]
  /\ stop_requested = [h \in Handles |-> FALSE]
  /\ bundles = {}
  /\ pc = [t \in Threads |-> "idle"]
  /\ handle = [t \in Threads |-> NoHandle]
  /\ gen = [t \in Threads |-> NoGen]
  /\ target = [t \in Threads |-> NoGen]
  /\ load = [t \in Threads |-> NoHandle]
  /\ epoch = [t \in Threads |-> 0]
  /\ inits = 0 /\ gens = 0
  /\ doomed = [t \in Threads |-> {}]
  /\ meant = [t \in Threads |-> {}]
  /\ asked = {}

-----------------------------------------------------------------------------
(* Steps shared by the operations.                                          *)

Loading(t) == load[t] # NoHandle

Goto(t, here, there) == pc[t] = here /\ pc' = [pc EXCEPT ![t] = there]

\* The call returns or throws.
Return(t) ==
  /\ pc' = [pc EXCEPT ![t] = "idle"]
  /\ handle' = [handle EXCEPT ![t] = NoHandle]
  /\ gen' = [gen EXCEPT ![t] = NoGen]
  /\ target' = [target EXCEPT ![t] = NoGen]
  /\ load' = [load EXCEPT ![t] = NoHandle]
  /\ epoch' = [epoch EXCEPT ![t] = 0]

\* acquireOperationLeaseUnlocked
LeaseGiven(t) ==
  /\ engineState = "OPEN" /\ nativeHandle # NoHandle
  /\ activeLeaseCount' = activeLeaseCount + 1
  /\ handle' = [handle EXCEPT ![t] = nativeHandle]

\* nativeStop, under the holder's state_mutex
NativeStop(h, g) ==
  LET active == active_generation_id[h]
      aimed  == IF g = NoGen THEN active ELSE g
  IN IF g # NoGen /\ active # NoGen /\ g < active
     THEN UNCHANGED natives
     ELSE /\ cancelled_generation_id' = [cancelled_generation_id EXCEPT
               ![h] = IF aimed > @ THEN aimed ELSE @]
          /\ stop_requested' = [stop_requested EXCEPT ![h] = TRUE]
          /\ UNCHANGED active_generation_id

\* nativeFree waits for the generations that have entered the holder.
NativeFree(h) ==
  /\ \A t \in Threads : handle[t] = h => pc[t] \notin {"start", "decode"}
  /\ life' = [life EXCEPT ![h] = "freed"]

-----------------------------------------------------------------------------
(* close()                                                                  *)

\* The loads that have begun and not ended, the model that is open included.
Begun ==
  {h \in Handles :
     \/ h = nativeHandle
     \/ \E t \in Threads : load[t] = h /\ pc[t] \in LoadPcs \ {"begin"}}

CallClose(t) ==
  /\ t \in Loaders
  /\ Goto(t, "idle", "close")
  /\ doomed' = [doomed EXCEPT ![t] = Begun]
  /\ UNCHANGED <<monitor, activeBundleLease, nativeOperations, life, natives,
                 bundles, locals, counters, meant, asked>>

\* close() returns to initialize, or to its caller.
CloseReturns(t) ==
  /\ doomed' = [doomed EXCEPT ![t] = {}]
  /\ UNCHANGED <<meant, asked>>
  /\ IF Loading(t)
     THEN pc' = [pc EXCEPT ![t] = "begin"] /\ UNCHANGED locals
     ELSE Return(t)

\* close() throws; initializeBundle then closes the bundle it has opened.
CloseThrows(t) ==
  /\ doomed' = [doomed EXCEPT ![t] = {}]
  /\ bundles' = bundles \ {load[t]}
  /\ Return(t)

CloseRefused(t) ==
  /\ pc[t] = "close"
  /\ engineState = "CLOSE_FAILED"
  /\ CloseThrows(t)
  /\ UNCHANGED <<monitor, activeBundleLease, nativeOperations, life, natives,
                 counters, meant, asked>>

CloseNothing(t) ==
  /\ pc[t] = "close"
  /\ engineState \in {"UNINITIALIZED", "CLOSED"}
  /\ CloseReturns(t)
  /\ UNCHANGED <<monitor, activeBundleLease, nativeOperations, life, natives,
                 bundles, counters>>

\* Mutant: the initialization is told, but not waited for.
CloseLoadingAtOnce(t) ==
  /\ pc[t] = "close"
  /\ engineState = "INITIALIZING"
  /\ initEpoch' = initEpoch + 1
  /\ CloseReturns(t)
  /\ UNCHANGED <<engineState, nativeHandle, activeLeaseCount,
                 activeGenerationId, queuedGenerationIds,
                 stoppedQueuedGenerationIds, activeBundleLease,
                 nativeOperations, life, natives, bundles, counters>>

\* An initialization is under way: its epoch is made stale.
CloseLoading(t) ==
  /\ Goto(t, "close", "waitInit")
  /\ engineState = "INITIALIZING"
  /\ initEpoch' = initEpoch + 1
  /\ engineState' = "CLOSING"
  /\ UNCHANGED <<nativeHandle, activeLeaseCount, activeGenerationId,
                 queuedGenerationIds, stoppedQueuedGenerationIds,
                 activeBundleLease, nativeOperations, life, natives, bundles,
                 locals, counters, history>>

LoadIsOver(t) ==
  /\ pc[t] = "waitInit"
  /\ engineState \notin {"CLOSING", "CLOSE_FAILED"}
  /\ CloseReturns(t)
  /\ UNCHANGED <<monitor, activeBundleLease, nativeOperations, life, natives,
                 bundles, counters>>

LoadIsStuck(t) ==
  /\ pc[t] = "waitInit"
  /\ engineState = "CLOSE_FAILED"
  /\ CloseThrows(t)
  /\ UNCHANGED <<monitor, activeBundleLease, nativeOperations, life, natives,
                 counters, meant, asked>>

\* One thread wins the transition from OPEN to CLOSING.
CloseOpen(t) ==
  /\ Goto(t, "close", "signal")
  /\ engineState = "OPEN"
  /\ engineState' = "CLOSING"
  /\ handle' = [handle EXCEPT ![t] = nativeHandle]
  /\ target' = [target EXCEPT ![t] = activeGenerationId]
  /\ nativeHandle' = NoHandle
  /\ activeGenerationId' = NoGen
  /\ initEpoch' = initEpoch + 1
  /\ UNCHANGED <<activeLeaseCount, queuedGenerationIds,
                 stoppedQueuedGenerationIds, activeBundleLease,
                 nativeOperations, life, natives, bundles, gen, load, epoch,
                 counters, history>>

\* Mutant: the generation in progress is not told to stop.
SignalNobody(t) ==
  /\ Goto(t, "signal", "drain")
  /\ UNCHANGED <<monitor, natives, activeBundleLease, nativeOperations, life,
                 bundles, locals, counters, history>>

SignalGeneration(t) ==
  /\ Goto(t, "signal", "drain")
  /\ NativeStop(handle[t], target[t])
  /\ UNCHANGED <<monitor, activeBundleLease, nativeOperations, life, bundles,
                 locals, counters, history>>

\* Mutant: only the generations are waited for.
GenerationsDrained(t) ==
  /\ Goto(t, "drain", "free")
  /\ \A u \in Threads : gen[u] = NoGen
  /\ UNCHANGED <<monitor, activeBundleLease, nativeOperations, life, natives,
                 bundles, locals, counters, history>>

LeasesDrained(t) ==
  /\ Goto(t, "drain", "free")
  /\ activeLeaseCount = 0
  /\ UNCHANGED <<monitor, activeBundleLease, nativeOperations, life, natives,
                 bundles, locals, counters, history>>

FreeModel(t) ==
  /\ pc[t] = "free"
  /\ \/ NativeFree(handle[t]) /\ pc' = [pc EXCEPT ![t] = "closed"]
     \/ FreeMayFail /\ UNCHANGED life /\ pc' = [pc EXCEPT ![t] = "failed"]
  /\ UNCHANGED <<monitor, activeBundleLease, nativeOperations, natives,
                 bundles, locals, counters, history>>

CloseBundle(t) ==
  /\ pc[t] = "closed"
  /\ bundles' = bundles \ {activeBundleLease}
  /\ activeBundleLease' = NoHandle
  /\ engineState' = "CLOSED"
  /\ CloseReturns(t)
  /\ UNCHANGED <<nativeHandle, initEpoch, activeLeaseCount,
                 activeGenerationId, queuedGenerationIds,
                 stoppedQueuedGenerationIds, nativeOperations, life, natives,
                 counters>>

\* Mutant: the bundle is closed although the model still uses its files.
CloseFailsOpenly(t) ==
  /\ pc[t] = "failed"
  /\ activeBundleLease' = NoHandle
  /\ engineState' = "CLOSE_FAILED"
  /\ doomed' = [doomed EXCEPT ![t] = {}]
  /\ bundles' = bundles \ {load[t], activeBundleLease}
  /\ Return(t)
  /\ UNCHANGED <<nativeHandle, initEpoch, activeLeaseCount,
                 activeGenerationId, queuedGenerationIds,
                 stoppedQueuedGenerationIds, nativeOperations, life, natives,
                 counters, meant, asked>>

\* failedHandle and failedBundleLease keep the model and its files.
CloseFails(t) ==
  /\ pc[t] = "failed"
  /\ activeBundleLease' = NoHandle
  /\ engineState' = "CLOSE_FAILED"
  /\ CloseThrows(t)
  /\ UNCHANGED <<nativeHandle, initEpoch, activeLeaseCount,
                 activeGenerationId, queuedGenerationIds,
                 stoppedQueuedGenerationIds, nativeOperations, life, natives,
                 counters, meant, asked>>

-----------------------------------------------------------------------------
(* initializeBundle and initialize                                          *)

\* The bundle is resolved, and any earlier model closed.
CallInitialize(t) ==
  /\ t \in Loaders
  /\ inits < MaxInits
  /\ engineState # "CLOSE_FAILED"
  /\ Overlaps \/ \A u \in Threads : ~Loading(u)
  /\ Goto(t, "idle", "close")
  /\ inits' = inits + 1
  /\ load' = [load EXCEPT ![t] = inits + 1]
  /\ bundles' = bundles \cup {inits + 1}
  /\ doomed' = [doomed EXCEPT ![t] = Begun]
  /\ UNCHANGED <<monitor, activeBundleLease, nativeOperations, life, natives,
                 handle, gen, target, epoch, gens, meant, asked>>

\* A close() of another thread may have failed since this call's own ended.
BeginLoad(t) ==
  /\ pc[t] = "begin"
  /\ engineState \notin {"CLOSING", "INITIALIZING"}
  /\ IF engineState = "CLOSE_FAILED"
     THEN /\ bundles' = bundles \ {load[t]}
          /\ Return(t)
          /\ UNCHANGED <<engineState, initEpoch>>
     ELSE /\ pc' = [pc EXCEPT ![t] = "load"]
          /\ engineState' = "INITIALIZING"
          /\ initEpoch' = initEpoch + 1
          /\ epoch' = [epoch EXCEPT ![t] = initEpoch + 1]
          /\ UNCHANGED <<bundles, handle, gen, target, load>>
  /\ UNCHANGED <<nativeHandle, activeLeaseCount, activeGenerationId,
                 queuedGenerationIds, stoppedQueuedGenerationIds,
                 activeBundleLease, nativeOperations, life, natives, counters,
                 history>>

\* nativeInitModelBundle returns a handle, whose metadata can be read or not,
\* or 0 because it failed or was cancelled.
LoadModel(t) ==
  /\ pc[t] = "load"
  /\ \/ /\ life' = [life EXCEPT ![load[t]] = "alive"]
        /\ \E next \in {"publish", "discard"} : pc' = [pc EXCEPT ![t] = next]
     \/ pc' = [pc EXCEPT ![t] = "discarded"] /\ UNCHANGED life
  /\ UNCHANGED <<monitor, activeBundleLease, nativeOperations, natives,
                 bundles, locals, counters, history>>

Publish(t) ==
  /\ pc[t] = "publish"
  /\ engineState = "INITIALIZING" /\ epoch[t] = initEpoch
  /\ nativeHandle' = load[t]
  /\ activeBundleLease' = load[t]
  /\ engineState' = "OPEN"
  /\ Return(t)
  /\ UNCHANGED <<initEpoch, activeLeaseCount, activeGenerationId,
                 queuedGenerationIds, stoppedQueuedGenerationIds,
                 nativeOperations, life, natives, bundles, counters, history>>

PublishRefused(t) ==
  /\ Goto(t, "publish", "discard")
  /\ ~(engineState = "INITIALIZING" /\ epoch[t] = initEpoch)
  /\ UNCHANGED <<monitor, activeBundleLease, nativeOperations, life, natives,
                 bundles, locals, counters, history>>

FreeDiscarded(t) ==
  /\ Goto(t, "discard", "discarded")
  /\ NativeFree(load[t])
  /\ UNCHANGED <<monitor, activeBundleLease, nativeOperations, natives,
                 bundles, locals, counters, history>>

FreeDiscardedFails(t) ==
  /\ pc[t] = "discard"
  /\ FreeMayFail
  /\ engineState' = "CLOSE_FAILED"
  /\ Return(t)
  /\ UNCHANGED <<nativeHandle, initEpoch, activeLeaseCount,
                 activeGenerationId, queuedGenerationIds,
                 stoppedQueuedGenerationIds, activeBundleLease,
                 nativeOperations, life, natives, bundles, counters, history>>

\* Mutant: the bundle of a load that was given up stays open.
EndDiscardedOpen(t) ==
  /\ pc[t] = "discarded"
  /\ engineState' = IF engineState \in {"INITIALIZING", "CLOSING"}
                    THEN "CLOSED" ELSE engineState
  /\ Return(t)
  /\ UNCHANGED <<bundles, nativeHandle, initEpoch, activeLeaseCount,
                 activeGenerationId, queuedGenerationIds,
                 stoppedQueuedGenerationIds, activeBundleLease,
                 nativeOperations, life, natives, counters, history>>

EndDiscarded(t) ==
  /\ pc[t] = "discarded"
  /\ bundles' = bundles \ {load[t]}
  /\ engineState' = IF engineState \in {"INITIALIZING", "CLOSING"}
                    THEN "CLOSED" ELSE engineState
  /\ Return(t)
  /\ UNCHANGED <<nativeHandle, initEpoch, activeLeaseCount,
                 activeGenerationId, queuedGenerationIds,
                 stoppedQueuedGenerationIds, activeBundleLease,
                 nativeOperations, life, natives, counters, history>>

-----------------------------------------------------------------------------
(* generateMultimodalStream                                                 *)

CallGenerate(t) ==
  /\ gens < MaxGens
  /\ Overlaps \/ \A u \in Threads : gen[u] = NoGen
  /\ Goto(t, "idle", "queue")
  /\ LeaseGiven(t)
  /\ gens' = gens + 1
  /\ gen' = [gen EXCEPT ![t] = gens + 1]
  /\ queuedGenerationIds' = queuedGenerationIds \cup {gens + 1}
  /\ UNCHANGED <<engineState, nativeHandle, initEpoch, activeGenerationId,
                 stoppedQueuedGenerationIds, activeBundleLease,
                 nativeOperations, life, natives, bundles, target, load,
                 epoch, inits, history>>

LockNative(t) ==
  /\ nativeOperations = Nobody
  /\ \/ Goto(t, "queue", "admit")
     \/ Goto(t, "opQueue", "op")
  /\ nativeOperations' = t
  /\ UNCHANGED <<monitor, activeBundleLease, life, natives, bundles, locals,
                 counters, history>>

\* Mutant: the lock is not given back.
CancelledWithLock(t) ==
  /\ Goto(t, "admit", "leave")
  /\ UNCHANGED <<monitor, activeBundleLease, nativeOperations, life, natives,
                 bundles, locals, counters, history>>

\* ensureActive: the coroutine was cancelled while it waited for the lock.
CancelledAtLock(t) ==
  /\ Goto(t, "admit", "unlock")
  /\ UNCHANGED <<monitor, activeBundleLease, nativeOperations, life, natives,
                 bundles, locals, counters, history>>

\* The generation becomes the active one, unless the engine was closed or the
\* generation stopped while it waited.
Admit(t) ==
  LET wanted == /\ engineState = "OPEN" /\ nativeHandle = handle[t]
                /\ gen[t] \notin stoppedQueuedGenerationIds
  IN
  /\ Goto(t, "admit", IF wanted THEN "enter" ELSE "unlock")
  /\ queuedGenerationIds' = queuedGenerationIds \ {gen[t]}
  /\ stoppedQueuedGenerationIds' = stoppedQueuedGenerationIds \ {gen[t]}
  /\ activeGenerationId' = IF wanted THEN gen[t] ELSE activeGenerationId
  /\ UNCHANGED <<engineState, nativeHandle, initEpoch, activeLeaseCount,
                 activeBundleLease, nativeOperations, life, natives, bundles,
                 locals, counters, history>>

NativeEnter(t) ==
  /\ Goto(t, "enter", "start")
  /\ active_generation_id' = [active_generation_id EXCEPT ![handle[t]] = gen[t]]
  /\ UNCHANGED <<monitor, cancelled_generation_id, stop_requested,
                 activeBundleLease, nativeOperations, life, bundles, locals,
                 counters, history>>

\* Mutant: the stop flag is reset, but the cancelled id not looked at.
NativeStartAnyway(t) ==
  /\ Goto(t, "start", "decode")
  /\ stop_requested' = [stop_requested EXCEPT ![handle[t]] = FALSE]
  /\ UNCHANGED <<monitor, active_generation_id, cancelled_generation_id,
                 activeBundleLease, nativeOperations, life, bundles, locals,
                 counters, history>>

\* Under state_mutex: the stop flag of earlier turns is reset.
NativeStart(t) ==
  /\ Goto(t, "start",
          IF cancelled_generation_id[handle[t]] >= gen[t] THEN "unlock" ELSE "decode")
  /\ stop_requested' = [stop_requested EXCEPT ![handle[t]] = FALSE]
  /\ UNCHANGED <<monitor, active_generation_id, cancelled_generation_id,
                 activeBundleLease, nativeOperations, life, bundles, locals,
                 counters, history>>

\* The abort callback or the loop sees the stop flag.
NoticeStop(t) ==
  /\ Goto(t, "decode", "unlock")
  /\ stop_requested[handle[t]]
  /\ UNCHANGED <<monitor, activeBundleLease, nativeOperations, life, natives,
                 bundles, locals, counters, history>>

\* The answer ends, or fails.
EndDecode(t) ==
  /\ Goto(t, "decode", "unlock")
  /\ ~stop_requested[handle[t]]
  /\ UNCHANGED <<monitor, activeBundleLease, nativeOperations, life, natives,
                 bundles, locals, counters, history>>

UnlockNative(t) ==
  /\ Goto(t, "unlock", "leave")
  /\ nativeOperations' = Nobody
  /\ UNCHANGED <<monitor, activeBundleLease, life, natives, bundles, locals,
                 counters, history>>

\* releaseOperationLeaseUnlocked; a generation forgets itself first.
Leave(t) ==
  /\ pc[t] = "leave"
  /\ activeGenerationId' = IF activeGenerationId = gen[t] THEN NoGen
                           ELSE activeGenerationId
  /\ queuedGenerationIds' = queuedGenerationIds \ {gen[t]}
  /\ stoppedQueuedGenerationIds' = stoppedQueuedGenerationIds \ {gen[t]}
  /\ activeLeaseCount' = activeLeaseCount - 1
  /\ asked' = asked \cup meant[t]
  /\ meant' = [meant EXCEPT ![t] = {}]
  /\ Return(t)
  /\ UNCHANGED <<engineState, nativeHandle, initEpoch, activeBundleLease,
                 nativeOperations, life, natives, bundles, counters, doomed>>

-----------------------------------------------------------------------------
(* Calls that decode but are no generation (warmUp, probeReference,         *)
(* probeCompare, resetAfterValidation, supportsToolCalling), getMetadata,   *)
(* which takes no lock, and stop.                                           *)

CallOperation(t) ==
  /\ Goto(t, "idle", "opQueue") \/ Goto(t, "idle", "read")
  /\ LeaseGiven(t)
  /\ UNCHANGED <<engineState, nativeHandle, initEpoch, activeGenerationId,
                 queuedGenerationIds, stoppedQueuedGenerationIds,
                 activeBundleLease, nativeOperations, life, natives, bundles,
                 gen, target, load, epoch, counters, history>>

EndOperation(t) ==
  /\ Goto(t, "op", "unlock") \/ Goto(t, "read", "leave")
  /\ UNCHANGED <<monitor, activeBundleLease, nativeOperations, life, natives,
                 bundles, locals, counters, history>>

CallStop(t) ==
  /\ Goto(t, "idle", "stop")
  /\ LeaseGiven(t)
  /\ target' = [target EXCEPT ![t] = activeGenerationId]
  /\ IF activeGenerationId = NoGen
     THEN /\ stoppedQueuedGenerationIds' =
               stoppedQueuedGenerationIds \cup queuedGenerationIds
          /\ meant' = [meant EXCEPT ![t] = queuedGenerationIds]
     ELSE /\ meant' = [meant EXCEPT ![t] = {activeGenerationId}]
          /\ UNCHANGED stoppedQueuedGenerationIds
  /\ UNCHANGED <<engineState, nativeHandle, initEpoch, activeGenerationId,
                 queuedGenerationIds, activeBundleLease, nativeOperations,
                 life, natives, bundles, gen, load, epoch, counters, doomed,
                 asked>>

StopNative(t) ==
  /\ Goto(t, "stop", "leave")
  /\ NativeStop(handle[t], target[t])
  /\ UNCHANGED <<monitor, activeBundleLease, nativeOperations, life, bundles,
                 locals, counters, history>>

-----------------------------------------------------------------------------
CloseStep(t) ==
  \/ CloseRefused(t) \/ CloseNothing(t) \/ CloseLoading(t) \/ LoadIsOver(t)
  \/ LoadIsStuck(t) \/ CloseOpen(t) \/ SignalGeneration(t)
  \/ LeasesDrained(t) \/ FreeModel(t) \/ CloseBundle(t) \/ CloseFails(t)

LoadStep(t) ==
  \/ BeginLoad(t) \/ LoadModel(t) \/ Publish(t) \/ PublishRefused(t)
  \/ FreeDiscarded(t) \/ FreeDiscardedFails(t) \/ EndDiscarded(t)

\* The steps of a leased call that end by themselves.  A warm-up, a probe or a
\* read decodes a few tokens; a generation is only sure to notice a stop.
LeasedStep(t) ==
  \/ Admit(t) \/ NativeEnter(t) \/ NativeStart(t) \/ NoticeStop(t)
  \/ UnlockNative(t) \/ Leave(t) \/ EndOperation(t) \/ StopNative(t)

Call(t) ==
  \/ CallClose(t) \/ CallInitialize(t) \/ CallGenerate(t) \/ CallOperation(t)
  \/ CallStop(t)

Next ==
  \E t \in Threads :
    \/ Call(t) \/ CloseStep(t) \/ LoadStep(t) \/ LeasedStep(t)
    \/ LockNative(t) \/ CancelledAtLock(t) \/ EndDecode(t)

Spec == Init /\ [][Next]_vars

(***************************************************************************)
(* Fairness.  A thread that can go on goes on; a waiter polls every 50 ms.  *)
(* A native load ends, since it is cancelled or done, and so does every     *)
(* native call but a generation, of which nothing is assumed until it has   *)
(* been asked to stop.  nativeOperations goes to some waiter, no matter to  *)
(* which.                                                                   *)
(***************************************************************************)
Fairness ==
  /\ \A t \in Threads : WF_vars(CloseStep(t) \/ LoadStep(t) \/ LeasedStep(t))
  /\ WF_vars(\E t \in Threads : LockNative(t))

FairSpec == Spec /\ Fairness

-----------------------------------------------------------------------------
(* Properties                                                               *)

\* "nativeFree() CANNOT execute while any operation holds a valid lease on the
\* handle": whoever is in native code, or about to go there with a lease, has a
\* model that is loaded.
LeasedModelIsAlive ==
  \A t \in Threads : pc[t] \in LeasedPcs => life[handle[t]] = "alive"

\* A model that is loaded has its files open, whoever has given it up: nobody
\* closes a bundle before its model is freed, or when it could not be freed.
ModelFilesStayOpen ==
  \A h \in Handles : life[h] = "alive" => h \in bundles

\* When no call is under way, nothing is loaded or open but the model that the
\* engine shows, unless a model could not be freed.
NothingIsLost ==
  (\A t \in Threads : pc[t] = "idle") /\ engineState # "CLOSE_FAILED" =>
    LET shown == IF engineState = "OPEN" THEN {nativeHandle} ELSE {}
    IN bundles = shown /\ {h \in Handles : life[h] = "alive"} = shown

\* Where a call stands still until another one has moved: for the engine to be
\* neither closed nor loaded by somebody else, for the leases to be given back, or
\* for nativeOperations.
Waits(t) ==
  \/ pc[t] \in {"close", "waitInit"} /\ engineState = "CLOSING"
  \/ pc[t] = "begin" /\ engineState \in {"CLOSING", "INITIALIZING"}
  \/ pc[t] = "drain" /\ activeLeaseCount # 0
  \/ pc[t] \in QueuePcs /\ nativeOperations # Nobody

\* The calls under way never all wait for each other: close() for a load or for
\* the leases, a lease for the native lock, a load for a close().
SomeoneGoesOn ==
  (\E t \in Threads : pc[t] # "idle") =>
    \E t \in Threads : pc[t] # "idle" /\ ~Waits(t)

\* When close() returns, every load that had begun when it was called is over
\* and its model freed: no obsolete handle is published behind its back.
CloseEndsLoads ==
  [][ \A t \in Threads :
        /\ pc[t] \in ClosePcs /\ pc'[t] \in {"begin", "idle"}
        /\ engineState' # "CLOSE_FAILED"
        => \A h \in doomed[t] : life'[h] # "alive" /\ h \notin Begun' ]_vars

\* A generation that a stop() was for, queued or active, does not decode once
\* that stop() has returned, other than to notice it.
StopReachesGeneration ==
  \A t \in Threads :
    pc[t] = "decode" /\ gen[t] \in asked => stop_requested[handle[t]]

\* Every close(), that of a new load included, ends, though nothing but stop
\* signals ends the generations it waits for.
CloseTerminates ==
  \A t \in Threads : pc[t] \in ClosePcs ~> pc[t] \notin ClosePcs

==============================================================================
