-------------------------- MODULE RuntimeCoordinator --------------------------
(***************************************************************************)
(* utils/ModelRuntimeCoordinator.kt and its callers: which of the Chat,     *)
(* Vision and Benchmark runtimes may hold the device's native memory.       *)
(*                                                                          *)
(* The coordinator keeps a map of registrations (one per owner), the active *)
(* owner and a busy flag behind a monitor, and one suspending Mutex, the    *)
(* "operations" gate.  Every critical section of the monitor is one action  *)
(* here; what happens between two of them interleaves with everything else. *)
(*                                                                          *)
(* An Instance is one registration: a view model and the RegistrationToken  *)
(* it was given.  What a view model does with its own native engine         *)
(* (release lambda, releaseModel, onCleared) is modelled as far as the      *)
(* coordinator depends on it.                                               *)
(***************************************************************************)
EXTENDS FiniteSets

CONSTANTS
  Callers,        \* coroutines that call into the coordinator
  Owners,         \* ModelRuntimeOwner
  Benchmark,      \* the owner that BenchmarkAdmission registers for each run
  Instances,      \* registrations that may ever be made (Benchmark's is reused)
  OwnerOf,        \* [Instances -> Owners]
  AtStart,        \* the instances already registered in the initial state
  CloseMayStall,  \* may a native close fail or outlast the 10 s of onCleared?
  None            \* Kotlin's null

ASSUME ConfigAssumption ==
  /\ Benchmark \in Owners
  /\ OwnerOf \in [Instances -> Owners]
  /\ AtStart \subseteq Instances
  /\ \A i, j \in AtStart : OwnerOf[i] = OwnerOf[j] => i = j
  /\ \A i \in AtStart : OwnerOf[i] # Benchmark
  /\ CloseMayStall \in BOOLEAN
  /\ None \notin Callers \cup Owners \cup Instances

VARIABLES
  registrations,  \* [Owners -> Instances \cup {None}]
  activeOwner,    \* Owners \cup {None}
  busy,           \* _isRuntimeBusy
  operations,     \* the holder of the operations Mutex
  admission,      \* the holder of BenchmarkAdmission.gate
  pc,             \* [Callers -> where the coroutine is]
  me,             \* [Callers -> the instance on whose behalf it runs]
  seen,           \* [Callers -> the activeOwner it read, or releases]
  reg,            \* [Callers -> the Registration it captured]
  expected,       \* [Callers -> expectedToken of releaseIfActive]
  targets,        \* [Callers -> registrations releaseAll still has to release]
  fire,           \* [Callers -> registrations whose onReleased it will call]
  failed,         \* [Callers -> has some release of this call failed?]
  stale,          \* [Callers -> has the instance moved on since the call?]
  phase,          \* [Instances -> life of the view model]
  resident,       \* the instances whose native runtime is loaded
  lastSuccess,    \* the view models whose lastShutdownResult is a Success
  survivors       \* history, read by properties only: the loaded engines that a
                  \* release has reported closed without closing them

monitor == <<registrations, activeOwner, busy>>
locals  == <<me, seen, reg, expected, targets, fire, failed>>
engines == <<resident, lastSuccess, survivors>>
native  == <<phase, engines, stale>>
vars    == <<registrations, activeOwner, busy, operations, admission, pc, me,
             seen, reg, expected, targets, fire, failed, stale, phase, engines>>

Waiting   == {"wait", "ria_wait", "ra_wait"}
Gated     == {"read", "lookup", "release", "take", "notify", "enter", "block",
              "recheck", "ria_release", "ria_clear", "ria_notify",
              "ra_release", "ra_clear", "ra_notify"}
Ungated   == {"idle", "admit", "register", "unregister", "token", "check"}
Notifying == {"notify", "ria_notify", "ra_notify"}

TypeOK ==
  /\ registrations \in [Owners -> Instances \cup {None}]
  /\ activeOwner \in Owners \cup {None}
  /\ busy \in BOOLEAN
  /\ operations \in Callers \cup {None}
  /\ admission \in Callers \cup {None}
  /\ pc \in [Callers -> Waiting \cup Gated \cup Ungated]
  /\ me \in [Callers -> Instances \cup {None}]
  /\ seen \in [Callers -> Owners \cup {None}]
  /\ reg \in [Callers -> Instances \cup {None}]
  /\ expected \in [Callers -> Instances \cup {None}]
  /\ targets \in [Callers -> SUBSET Instances]
  /\ fire \in [Callers -> SUBSET Instances]
  /\ failed \in [Callers -> BOOLEAN]
  /\ stale \in [Callers -> BOOLEAN]
  /\ phase \in [Instances -> {"new", "live", "draining", "releasing",
                              "closed", "clearing", "gone"}]
  /\ resident \subseteq Instances
  /\ lastSuccess \subseteq Instances
  /\ survivors \subseteq Instances

Init ==
  /\ registrations = [o \in Owners |->
       IF \E i \in AtStart : OwnerOf[i] = o
       THEN CHOOSE i \in AtStart : OwnerOf[i] = o ELSE None]
  /\ activeOwner = None
  /\ busy = FALSE
  /\ operations = None
  /\ admission = None
  /\ pc = [c \in Callers |-> "idle"]
  /\ me = [c \in Callers |-> None]
  /\ seen = [c \in Callers |-> None]
  /\ reg = [c \in Callers |-> None]
  /\ expected = [c \in Callers |-> None]
  /\ targets = [c \in Callers |-> {}]
  /\ fire = [c \in Callers |-> {}]
  /\ failed = [c \in Callers |-> FALSE]
  /\ stale = [c \in Callers |-> FALSE]
  /\ phase = [i \in Instances |->
       IF i \in AtStart \/ OwnerOf[i] = Benchmark THEN "live" ELSE "new"]
  /\ resident = {}
  /\ lastSuccess = {}
  /\ survivors = {}

-----------------------------------------------------------------------------
(* Steps shared by the operations.                                          *)

Goto(c, here, there) == pc[c] = here /\ pc' = [pc EXCEPT ![c] = there]

\* The coroutine forgets its locals when the call returns.
ForgetLocals(c) ==
  /\ me' = [me EXCEPT ![c] = None]
  /\ seen' = [seen EXCEPT ![c] = None]
  /\ reg' = [reg EXCEPT ![c] = None]
  /\ expected' = [expected EXCEPT ![c] = None]
  /\ targets' = [targets EXCEPT ![c] = {}]
  /\ fire' = [fire EXCEPT ![c] = {}]
  /\ failed' = [failed EXCEPT ![c] = FALSE]

IsBenchmark(c) == me[c] # None /\ OwnerOf[me[c]] = Benchmark

\* The call returns or throws: a benchmark runs its "finally" first.
Return(c) ==
  IF IsBenchmark(c)
  THEN pc' = [pc EXCEPT ![c] = "unregister"] /\ UNCHANGED locals
  ELSE pc' = [pc EXCEPT ![c] = "idle"] /\ ForgetLocals(c)

\* Leaving "operations.withLock { }".
ReturnUngated(c) == operations' = None /\ Return(c)

\* The tasks an instance started are superseded (initGeneration++).
Supersede(i) == stale' = [c \in Callers |-> stale[c] \/ me[c] = i]

\* The instance's ioMutex: a block holds it, and so does a close.
InBlock(i) == \E c \in Callers : pc[c] = "block" /\ me[c] = i

\* close() succeeds under the instance's ioMutex.
Close(i) ==
  /\ resident' = resident \ {i}
  /\ survivors' = survivors \ {i}
  /\ lastSuccess' = lastSuccess \cup {i}

\* A release job ends with the engine as it was: close() failed or threw, or the
\* job found that initGeneration had moved and returned without a close.
NotClosed(i) ==
  /\ lastSuccess' \in {lastSuccess, lastSuccess \ {i}}
  /\ UNCHANGED <<resident, survivors>>

\* Registration.release(): it joins the release jobs already under way and
\* succeeds when the engine is closed, ...
ReleaseCloses(i) ==
  /\ OwnerOf[i] # Benchmark
  /\ phase[i] \in {"live", "clearing", "gone"}
  /\ Close(i)
  /\ Supersede(i)
  /\ UNCHANGED phase

\* ... or when a load, a stop or another release moved initGeneration while its
\* job waited for a generation: the job returns without a close, and the lambda
\* with the result of an earlier shutdown, which nothing resets, or, where there
\* was none, with the answer of isReady, ...
ReleaseSkipped(i) ==
  /\ OwnerOf[i] # Benchmark
  /\ phase[i] # "new"
  /\ i \in lastSuccess \/ i \notin resident
  /\ survivors' = survivors \cup ({i} \cap resident)
  /\ Supersede(i)
  /\ UNCHANGED <<phase, resident, lastSuccess>>

\* ... while a benchmark's lambda only says Success.
ReleaseSucceeds(i) ==
  \/ ReleaseCloses(i)
  \/ ReleaseSkipped(i)
  \/ OwnerOf[i] = Benchmark /\ UNCHANGED native

\* It throws, or outlasts its 10 s and goes on in the background.
ReleaseFails(i) ==
  /\ OwnerOf[i] # Benchmark
  /\ Supersede(i)
  /\ NotClosed(i)
  /\ \/ UNCHANGED phase
     \/ phase[i] = "live" /\ phase' = [phase EXCEPT ![i] = "draining"]

-----------------------------------------------------------------------------
(* register, unregister, clear, and the life of an instance.                *)

Register(i) ==
  /\ phase[i] = "new"
  /\ registrations' = [registrations EXCEPT ![OwnerOf[i]] = i]
  /\ phase' = [phase EXCEPT ![i] = "live"]
  /\ UNCHANGED <<activeOwner, busy, operations, admission, pc, locals,
                 engines, stale>>

\* unregister(owner, token)
Unregister(i) ==
  LET o == OwnerOf[i] IN
  IF registrations[o] = i
  THEN /\ registrations' = [registrations EXCEPT ![o] = None]
       /\ IF activeOwner = o
          THEN activeOwner' = None /\ busy' = FALSE
          ELSE UNCHANGED <<activeOwner, busy>>
  ELSE UNCHANGED monitor

\* Mutant: clear does not compare the owner.
ClearAnyOwner(o) ==
  /\ activeOwner' = None /\ busy' = FALSE
  /\ UNCHANGED registrations

\* clear(owner)
Clear(o) ==
  /\ IF activeOwner = o
     THEN activeOwner' = None /\ busy' = FALSE
     ELSE UNCHANGED <<activeOwner, busy>>
  /\ UNCHANGED registrations

\* A view model unloads on its own account: releaseModel(clearCoordinator = true).
BeginRelease(i) ==
  /\ OwnerOf[i] # Benchmark
  /\ phase[i] = "live"
  /\ phase' = [phase EXCEPT ![i] = "releasing"]
  /\ Supersede(i)
  /\ UNCHANGED <<monitor, operations, admission, pc, locals, engines>>

CloseOwn(i) ==
  /\ phase[i] = "releasing"
  /\ ~InBlock(i)
  /\ \/ Close(i) /\ phase' = [phase EXCEPT ![i] = "closed"]
     \/ NotClosed(i) /\ phase' = [phase EXCEPT ![i] = "live"]
  /\ UNCHANGED <<monitor, operations, admission, pc, locals, stale>>

ClearOwn(i) ==
  /\ phase[i] = "closed"
  /\ Clear(OwnerOf[i])
  /\ phase' = [phase EXCEPT ![i] = "live"]
  /\ UNCHANGED <<operations, admission, pc, locals, engines, stale>>

\* onCleared: the scope is cancelled, the engine closes in shutdownScope, and
\* the registration goes once it is closed or 10 s have passed.
OnCleared(i) ==
  /\ OwnerOf[i] # Benchmark
  /\ phase[i] \in {"live", "draining"}
  /\ phase' = [phase EXCEPT ![i] = "clearing"]
  /\ Supersede(i)
  /\ UNCHANGED <<monitor, operations, admission, pc, locals, engines>>

CloseLate(i) ==
  /\ phase[i] \in {"clearing", "gone", "draining"}
  /\ i \in resident
  /\ ~InBlock(i)
  /\ Close(i)
  /\ UNCHANGED <<monitor, operations, admission, pc, locals, phase, stale>>

\* The background job of a timed-out release has ended.
DrainEnds(i) ==
  /\ phase[i] = "draining"
  /\ phase' = [phase EXCEPT ![i] = "live"]
  /\ (i \in resident /\ NotClosed(i)) \/ UNCHANGED engines
  /\ UNCHANGED <<monitor, operations, admission, pc, locals, stale>>

UnregisterCleared(i) ==
  /\ phase[i] = "clearing"
  /\ (i \notin resident /\ ~InBlock(i)) \/ CloseMayStall
  /\ Unregister(i)
  /\ phase' = [phase EXCEPT ![i] = "gone"]
  /\ UNCHANGED <<operations, admission, pc, locals, engines, stale>>

-----------------------------------------------------------------------------
(* withRuntime(owner) { block }                                             *)

CallWithRuntime(c) ==
  \E i \in Instances :
    /\ OwnerOf[i] # Benchmark
    /\ phase[i] = "live"                     \* releaseJob?.join()
    /\ Goto(c, "idle", "wait")
    /\ me' = [me EXCEPT ![c] = i]
    /\ stale' = [stale EXCEPT ![c] = FALSE]
    /\ UNCHANGED <<monitor, operations, admission, seen, reg, expected,
                   targets, fire, failed, phase, engines>>

EnterGate(c, here, there) ==
  /\ operations = None
  /\ Goto(c, here, there)
  /\ operations' = c
  /\ UNCHANGED <<monitor, admission, locals, native>>

AcquireRuntime(c) == EnterGate(c, "wait", "read")

\* A coroutine that waits for the gate may be cancelled.
CancelWaiting(c) ==
  /\ pc[c] \in Waiting
  /\ Return(c)
  /\ UNCHANGED <<monitor, operations, admission, native>>

ReadActiveOwner(c) ==
  LET other == activeOwner # None /\ activeOwner # OwnerOf[me[c]] IN
  /\ Goto(c, "read", IF other THEN "lookup" ELSE "take")
  /\ seen' = [seen EXCEPT ![c] = IF other THEN activeOwner ELSE None]
  /\ UNCHANGED <<monitor, operations, admission, me, reg, expected, targets,
                 fire, failed, native>>

\* Mutant: the previous owner's registration is found but not released.
LookupOnly(c) ==
  /\ Goto(c, "lookup", "take")
  /\ reg' = [reg EXCEPT ![c] = registrations[seen[c]]]
  /\ UNCHANGED <<monitor, operations, admission, me, seen, expected, targets,
                 fire, failed, native>>

LookupPrevious(c) ==
  LET previous == registrations[seen[c]] IN
  /\ Goto(c, "lookup", IF previous = None THEN "take" ELSE "release")
  /\ reg' = [reg EXCEPT ![c] = previous]
  /\ UNCHANGED <<monitor, operations, admission, me, seen, expected, targets,
                 fire, failed, native>>

ReleasePrevious(c) ==
  /\ Goto(c, "release", "take")
  /\ ReleaseSucceeds(reg[c])
  /\ UNCHANGED <<monitor, operations, admission, locals>>

\* IllegalStateException: ownership stays where it was.
TransitionFails(c) ==
  /\ pc[c] = "release"
  /\ ReleaseFails(reg[c])
  /\ ReturnUngated(c)
  /\ UNCHANGED <<monitor, admission>>

\* Mutant: ownership is taken only when nobody has it.
TakeFreeOwnership(c) ==
  /\ Goto(c, "take", IF reg[c] = None THEN "enter" ELSE "notify")
  /\ activeOwner' = IF activeOwner = None THEN OwnerOf[me[c]] ELSE activeOwner
  /\ UNCHANGED <<registrations, busy, operations, admission, locals, native>>

TakeOwnership(c) ==
  /\ Goto(c, "take", IF reg[c] = None THEN "enter" ELSE "notify")
  /\ activeOwner' = OwnerOf[me[c]]
  /\ UNCHANGED <<registrations, busy, operations, admission, locals, native>>

NotifyPrevious(c) ==
  /\ Goto(c, "notify", "enter")
  /\ UNCHANGED <<monitor, operations, admission, locals, native>>

EnterBlock(c) ==
  /\ Goto(c, "enter", "block")
  /\ busy' = TRUE
  /\ survivors' = survivors \ {me[c]}     \* its owner is the active one again
  /\ UNCHANGED <<registrations, activeOwner, operations, admission, locals,
                 phase, resident, lastSuccess, stale>>

\* The block loads the instance's engine unless it finds itself superseded.
LoadInBlock(c) ==
  /\ pc[c] = "block"
  /\ ~stale[c]
  /\ resident' = resident \cup {me[c]}
  /\ UNCHANGED <<monitor, operations, admission, pc, locals, phase,
                 lastSuccess, survivors, stale>>

\* Mutant: busy is reset only when the block succeeds.
LeaveBlockBusy(c) ==
  /\ pc[c] = "block"
  /\ busy' \in BOOLEAN
  /\ resident' = resident \ {me[c]}
  /\ ReturnUngated(c)
  /\ UNCHANGED <<registrations, activeOwner, admission, phase,
                 lastSuccess, survivors, stale>>

\* The block ends; a benchmark frees the engine it loaded, and so does a block
\* whose load failed or was superseded meanwhile.
LeaveBlock(c) ==
  /\ pc[c] = "block"
  /\ busy' = FALSE
  /\ \/ resident' = resident \ {me[c]}
     \/ ~IsBenchmark(c) /\ UNCHANGED resident
  /\ ReturnUngated(c)
  /\ UNCHANGED <<registrations, activeOwner, admission, phase,
                 lastSuccess, survivors, stale>>

-----------------------------------------------------------------------------
(* BenchmarkAdmission.run                                                   *)

CallBenchmark(c) ==
  \E i \in Instances :
    /\ OwnerOf[i] = Benchmark
    /\ Goto(c, "idle", "admit")
    /\ me' = [me EXCEPT ![c] = i]
    /\ stale' = [stale EXCEPT ![c] = FALSE]
    /\ UNCHANGED <<monitor, operations, admission, seen, reg, expected,
                   targets, fire, failed, phase, engines>>

CancelAdmission(c) ==
  /\ Goto(c, "admit", "idle")
  /\ ForgetLocals(c)
  /\ UNCHANGED <<monitor, operations, admission, native>>

AdmitBenchmark(c) ==
  /\ admission = None
  /\ Goto(c, "admit", "register")
  /\ admission' = c
  /\ UNCHANGED <<monitor, operations, locals, native>>

\* register, then requestActiveStop and withRuntime
RegisterBenchmark(c) ==
  /\ Goto(c, "register", "wait")
  /\ registrations' = [registrations EXCEPT ![Benchmark] = me[c]]
  /\ UNCHANGED <<activeOwner, busy, operations, admission, locals, native>>

\* Mutant: the admission gate is not left.
UnregisterOnly(c) ==
  /\ Goto(c, "unregister", "idle")
  /\ Unregister(me[c])
  /\ ForgetLocals(c)
  /\ UNCHANGED <<operations, admission, native>>

UnregisterBenchmark(c) ==
  /\ Goto(c, "unregister", "idle")
  /\ Unregister(me[c])
  /\ admission' = None
  /\ ForgetLocals(c)
  /\ UNCHANGED <<operations, native>>

-----------------------------------------------------------------------------
(* releaseIfActive(owner, ..., expectedToken), as MainViewModel calls it:   *)
(* isActive and getActiveToken are two critical sections before the call.   *)

CallReleaseIfActive(c) ==
  \E o \in Owners \ {Benchmark} :
    /\ activeOwner = o
    /\ Goto(c, "idle", "token")
    /\ seen' = [seen EXCEPT ![c] = o]
    /\ UNCHANGED <<monitor, operations, admission, me, reg, expected, targets,
                   fire, failed, native>>

GetActiveToken(c) ==
  /\ Goto(c, "token", "check")
  /\ expected' = [expected EXCEPT ![c] =
       IF activeOwner = seen[c] THEN registrations[seen[c]] ELSE None]
  /\ UNCHANGED <<monitor, operations, admission, me, seen, reg, targets, fire,
                 failed, native>>

\* The tests made both before and under the gate.  matchesIdentity asks the
\* view model which model it holds, and may answer either way.
StillExpected(c) ==
  /\ activeOwner = seen[c]
  /\ registrations[seen[c]] # None
  /\ expected[c] # None => registrations[seen[c]] = expected[c]

CheckBeforeGate(c) ==
  /\ Goto(c, "check", "ria_wait")
  /\ StillExpected(c)
  /\ reg' = [reg EXCEPT ![c] = registrations[seen[c]]]
  /\ UNCHANGED <<monitor, operations, admission, me, seen, expected, targets,
                 fire, failed, native>>

\* ShutdownResult.StaleNoOp before the gate: the owner, the token or the
\* identity does not match.
StaleBeforeGate(c) ==
  /\ pc[c] = "check"
  /\ Return(c)
  /\ UNCHANGED <<monitor, operations, admission, native>>

AcquireReleaseIfActive(c) == EnterGate(c, "ria_wait", "recheck")

\* Two critical sections, taken as one.
RecheckUnderGate(c) ==
  /\ Goto(c, "recheck", "ria_release")
  /\ StillExpected(c)
  /\ UNCHANGED <<monitor, operations, admission, locals, native>>

StaleUnderGate(c) ==
  /\ pc[c] = "recheck"
  /\ ReturnUngated(c)
  /\ UNCHANGED <<monitor, admission, native>>

\* It is the registration captured before the gate that is released.
ReleaseExpected(c) ==
  /\ Goto(c, "ria_release", "ria_clear")
  /\ ReleaseSucceeds(reg[c])
  /\ UNCHANGED <<monitor, operations, admission, locals>>

ReleaseExpectedFails(c) ==
  /\ pc[c] = "ria_release"
  /\ ReleaseFails(reg[c])
  /\ ReturnUngated(c)
  /\ UNCHANGED <<monitor, admission>>

ClearReleased(c) ==
  /\ Goto(c, "ria_clear", "ria_notify")
  /\ Clear(seen[c])
  /\ UNCHANGED <<operations, admission, locals, native>>

NotifyReleased(c) ==
  /\ pc[c] = "ria_notify"
  /\ ReturnUngated(c)
  /\ UNCHANGED <<monitor, admission, native>>

-----------------------------------------------------------------------------
(* releaseAll()                                                             *)

Registered == {registrations[o] : o \in Owners} \ {None}

CallReleaseAll(c) ==
  /\ Goto(c, "idle", "ra_wait")
  /\ targets' = [targets EXCEPT ![c] = Registered]
  /\ UNCHANGED <<monitor, operations, admission, me, seen, reg, expected,
                 fire, failed, native>>

AcquireReleaseAll(c) == EnterGate(c, "ra_wait", "ra_release")

\* Mutant: the callback is queued whether or not the release succeeded.
ReleaseAndNotifyTarget(c) ==
  \E i \in targets[c] :
    /\ pc[c] = "ra_release"
    /\ targets' = [targets EXCEPT ![c] = @ \ {i}]
    /\ fire' = [fire EXCEPT ![c] = @ \cup {i}]
    /\ \/ ReleaseSucceeds(i) /\ UNCHANGED failed
       \/ ReleaseFails(i) /\ failed' = [failed EXCEPT ![c] = TRUE]
    /\ UNCHANGED <<monitor, operations, admission, pc, me, seen, reg, expected>>

\* One iteration of the loop over the targets, in any order of the map.
ReleaseTarget(c) ==
  \E i \in targets[c] :
    /\ pc[c] = "ra_release"
    /\ targets' = [targets EXCEPT ![c] = @ \ {i}]
    /\ \/ /\ ReleaseSucceeds(i)
          /\ fire' = [fire EXCEPT ![c] = @ \cup {i}]
          /\ UNCHANGED failed
       \/ /\ ReleaseFails(i)
          /\ failed' = [failed EXCEPT ![c] = TRUE]
          /\ UNCHANGED fire
    /\ UNCHANGED <<monitor, operations, admission, pc, me, seen, reg, expected>>

TargetsReleased(c) ==
  /\ targets[c] = {}
  /\ Goto(c, "ra_release", IF failed[c] THEN "ra_notify" ELSE "ra_clear")
  /\ UNCHANGED <<monitor, operations, admission, locals, native>>

ClearAll(c) ==
  /\ Goto(c, "ra_clear", "ra_notify")
  /\ activeOwner' = None
  /\ busy' = FALSE
  /\ UNCHANGED <<registrations, operations, admission, locals, native>>

NotifyAll(c) ==
  /\ pc[c] = "ra_notify"
  /\ ReturnUngated(c)
  /\ UNCHANGED <<monitor, admission, native>>

-----------------------------------------------------------------------------
WithRuntime(c) ==
  \/ CallWithRuntime(c) \/ AcquireRuntime(c) \/ ReadActiveOwner(c)
  \/ LookupPrevious(c) \/ ReleasePrevious(c) \/ TransitionFails(c)
  \/ TakeOwnership(c) \/ NotifyPrevious(c) \/ EnterBlock(c)
  \/ LoadInBlock(c) \/ LeaveBlock(c)

RunBenchmark(c) ==
  \/ CallBenchmark(c) \/ CancelAdmission(c) \/ AdmitBenchmark(c)
  \/ RegisterBenchmark(c) \/ UnregisterBenchmark(c)

ReleaseIfActive(c) ==
  \/ CallReleaseIfActive(c) \/ GetActiveToken(c) \/ CheckBeforeGate(c)
  \/ StaleBeforeGate(c) \/ AcquireReleaseIfActive(c) \/ RecheckUnderGate(c)
  \/ StaleUnderGate(c) \/ ReleaseExpected(c) \/ ReleaseExpectedFails(c)
  \/ ClearReleased(c) \/ NotifyReleased(c)

ReleaseAll(c) ==
  \/ CallReleaseAll(c) \/ AcquireReleaseAll(c) \/ ReleaseTarget(c)
  \/ TargetsReleased(c) \/ ClearAll(c) \/ NotifyAll(c)

ViewModel(i) ==
  \/ Register(i) \/ BeginRelease(i) \/ CloseOwn(i) \/ ClearOwn(i)
  \/ OnCleared(i) \/ CloseLate(i) \/ DrainEnds(i) \/ UnregisterCleared(i)

Next ==
  \/ \E c \in Callers : \/ WithRuntime(c) \/ RunBenchmark(c)
                        \/ ReleaseIfActive(c) \/ ReleaseAll(c)
                        \/ CancelWaiting(c)
  \/ \E i \in Instances : ViewModel(i)

Spec == Init /\ [][Next]_vars

(***************************************************************************)
(* Fairness.  A release is bounded by withTimeoutOrNull(10 s), a block by   *)
(* the load watchdog or by the engine that ends a generation, and every     *)
(* other step inside the gate runs to its end; kotlinx's Mutex is fair (it  *)
(* serves its waiters in order), hence strong fairness of entering.  No     *)
(* fairness for calls, cancellations, or what users and engines do.         *)
(***************************************************************************)
GatedStep(c) ==
  \/ ReadActiveOwner(c) \/ LookupPrevious(c) \/ ReleasePrevious(c)
  \/ TransitionFails(c) \/ TakeOwnership(c) \/ NotifyPrevious(c)
  \/ EnterBlock(c) \/ LeaveBlock(c)
  \/ RecheckUnderGate(c) \/ StaleUnderGate(c) \/ ReleaseExpected(c)
  \/ ReleaseExpectedFails(c) \/ ClearReleased(c) \/ NotifyReleased(c)
  \/ ReleaseTarget(c) \/ TargetsReleased(c) \/ ClearAll(c) \/ NotifyAll(c)

UngatedStep(c) ==
  \/ RegisterBenchmark(c) \/ UnregisterBenchmark(c)
  \/ GetActiveToken(c) \/ CheckBeforeGate(c) \/ StaleBeforeGate(c)

Acquire(c) ==
  \/ AcquireRuntime(c) \/ AcquireReleaseIfActive(c) \/ AcquireReleaseAll(c)

Fairness ==
  \A c \in Callers : /\ WF_vars(GatedStep(c)) /\ WF_vars(UngatedStep(c))
                     /\ SF_vars(Acquire(c)) /\ SF_vars(AdmitBenchmark(c))

FairSpec == Spec /\ Fairness

-----------------------------------------------------------------------------
(* Properties                                                               *)

\* The loaded engines, but for those that a release reported closed without
\* closing them: the coordinator cannot know of these until their owner is back.
Held == resident \ survivors

\* A runtime that is loaded under a live registration belongs to the active
\* owner: the coordinator never forgets a loaded engine that the next owner's
\* withRuntime would have to release first.  A stale Success of the release
\* itself is the only way to lose one.
ResidentRuntimeIsActive ==
  \A o \in Owners : registrations[o] \in Held => activeOwner = o

\* While a block that is still wanted runs, its owner is the active owner and
\* the device is shown busy (WorkspaceBackup and the cache cleaner rely on it).
WantedBlockOwnsRuntime ==
  \A c \in Callers :
    pc[c] = "block" /\ ~stale[c] => activeOwner = OwnerOf[me[c]] /\ busy

\* The device is shown busy only while the holder of the gate runs its block.
BusyOnlyInBlock ==
  busy => \E c \in Callers : operations = c /\ pc[c] = "block"

\* onReleased(token), which makes MainViewModel drop its selection, is called
\* only for registrations whose engine is closed at that moment, or was reported
\* closed by a release that skipped its close: never after a failed release, a
\* release that timed out, or a load that came in between.
NotifiedOnlyWhenClosed ==
  \A c \in Callers :
    /\ pc[c] \in {"notify", "ria_notify"} => reg[c] \notin Held
    /\ pc[c] = "ra_notify" => fire[c] \cap Held = {}

\* Ownership passes straight from one owner to another only after the engine of
\* the registration that the old owner has at that moment is closed, or its
\* release has skipped the close and said Success.
HandoverReleases ==
  [][ (activeOwner' # activeOwner /\ activeOwner # None /\ activeOwner' # None)
      => registrations[activeOwner] \notin Held ]_vars

\* What modelSwitchWaitsForNativeReleaseInBothDirections asserts of a release that
\* closes what it reports: the block of the next owner runs only when the engine
\* of the other view model is closed.
NextStartsAfterClose ==
  \A c \in Callers :
    pc[c] = "block" /\ ~IsBenchmark(c) =>
      \A o \in Owners \ {OwnerOf[me[c]]} : registrations[o] \notin resident

\* Every coroutine that waits for the operations gate, or for the benchmark
\* gate, gets in or is cancelled.
NobodyWaitsForever ==
  \A c \in Callers :
    pc[c] \in Waiting \cup {"admit"} ~> pc[c] \notin Waiting \cup {"admit"}

==============================================================================
