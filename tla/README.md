# Solus: a TLA+ verification project

Solus is an Android application that runs language and vision models on the
phone. This directory models the parts of it whose correctness depends on the
order in which coroutines, callbacks, native code, crashes and disk writes
happen: who may hold the device's native memory, how a model is loaded,
superseded, stopped and freed, how a turn of the native engine uses what earlier
turns left in its cache, how a document is replaced on disk, how the chat
history survives deletions, restores and deaths of the process, how downloads are
started and stopped, and how a model is removed beside them.

Paths below are relative to `src/app/src/main/java/com/shounak/localmeshai/`,
those of native code to `src/app/src/main/cpp/`.
Every definition that models code is listed in `PROJECT.json` under `map` with
the lines it stands for; every hazard of the code with its line and the
properties that cover it is under `hazards`.

## 1. Inventory

| Component (main files) | State it keeps | Operations | Why it is hard |
|---|---|---|---|
| Runtime coordinator: `utils/ModelRuntimeCoordinator.kt`, `ai/BenchmarkAdmission.kt` | a registration per owner (Chat, Vision, Benchmark), the active owner, the busy flag, the `operations` Mutex, the admission Mutex | register, unregister, clear, withRuntime, releaseIfActive, releaseAll, BenchmarkAdmission.run | a monitor inside a suspending lock, registrations that change while a release waits, releases that time out and go on, cancellation |
| Model load controller: `ai/ModelLoadController.kt`, `ai/ModelLoadState.kt` | the published state, the current identity, operation and epoch, the job in flight | loadOrAttach, cancelActiveOperation, shutdown, resetToUnloaded, clearReadiness | superseded jobs that ignore cancellation, a watchdog, a poller and a ticker under another lock, requests for stale operations |
| Atomic JSON file: `utils/AtomicJsonFile.kt` | a document, its `.lastgood` copy, the `.new` file of AtomicFile | read (which heals), write, delete | a crash or a failure between any two file operations |
| Chat history: `data/ChatSessionRepository.kt`, `data/ChatDeletionJournal.kt`, `data/ChatAttachmentStore.kt`, `data/SessionSnapshotMerge.kt`, `data/HistoryDeletionCoordinator.kt`, `utils/CacheCleanupCoordinator.kt` | stored chats, tombstones, pending removals, attachment directories, flags of unreadable files | load, save, delete, restore, attach, reconcile | three locks, snapshots written late, reads merged late, removals over four files, crashes |
| View models: `ui/viewmodels/*.kt` | visible chats, an engine, jobs and generations | the user's actions, onCleared | they outlive nothing, but the work they start does |
| Downloads: `services/DownloadController.kt`, `utils/ModelDownloader.kt`, `utils/ModelArtifactStorage.kt`, `utils/DownloadStateStore.kt` | attempts, jobs, a mutex per model, staged files | start, pause, cancel, remove, restore | stale attempts, late progress, counters read in pieces |
| Model removal: `utils/ModelRemovalCoordinator.kt`, `models/CustomModelStore.kt` | removal records, reservations, the definitions of added models | remove, recover, add, prepareExplicitDownload | a durable sequence over two documents and the files, which a crash may cut anywhere, beside downloads and imports of the same model |
| Init crash guard: `utils/InitCrashGuard.kt` | one persisted marker, blocked and authorized models | markStarted, markSucceeded, markFailed, recoverCrash | the crash is the event it is for |
| Response streaming: `ai/InferenceResponseController.kt`, `utils/StreamingResponsePublisher.kt` | an accumulator, attempts, revisions | append, beginAttempt, publish, finish | decided under a lock, published outside it |
| GGUF engine: `ai/LlamaCppEngine.kt` | the engine's state, the native handle, a count of leases, ids of active, queued and stopped generations, the lease of the model's files | initializeBundle, close, generateMultimodalStream, warmUp, probes, getMetadata, stop | called from any thread; native calls that outlive the state they began in; a stop that races with the start of what it stops |
| Native bridge: `llama-jni.cpp`, `llama-multimodal.cpp`, `prompt-budget.h`, `prompt-cache.h` | a holder: context and KV cache, the tokens it holds, generation ids, the stop flag | generation, warm-up, reset, probes, stop, free | a cache that any failure must leave usable, a window that must not overflow, tokens that cut characters |
| Other engines: `ai/ChatInferenceManager.kt`, `ai/VisionInferenceManager.kt`, LiteRT, ONNX, Candle | an engine per model format | forward calls | native code that returns when it likes |
| Memory, retrieval, backup, imports, updates, tools | documents and files behind one lock each | read, write, search, transfer | mostly sequential I/O |
| Screens, formatting, policies, scripts | none or derived | render, compute | none of this kind |

How they interact:

* A view model registers with the coordinator and gives it a `release` lambda;
  the coordinator calls back into the view model while it holds its gate. Loads
  and generations of a view model run inside `withRuntime`, and the load itself
  inside `loadOrAttach`, whose job runs the native loader. `releaseModel` closes
  the engine and may clear the coordinator.
* The main view model unloads through `isActive`, `getActiveToken` and
  `releaseIfActive`, the activity through `releaseAll`, a benchmark through its
  admission gate. Backup and cache cleaning ask `isRuntimeBusy`.
* A view model persists its chats through a conflated channel with one worker
  that calls `saveChatSessions`; it loads them at the start and after external
  changes. A deletion goes through the coordinator of history deletions into the
  repository, which uses the journal and the attachment store, each with a lock
  of its own. Reconciliation runs when the app goes to the background or comes
  back, and takes the journal's lock only.
* Every store writes its document with AtomicJsonFile under its own lock.
* A loader opens the model's files and calls `LlamaCppEngine.initializeBundle`;
  generations, warm-ups and probes take a lease of the engine, then the lock
  `nativeOperations`, and then run one at a time in native code on the holder;
  `stop` and `close` reach the holder beside them.
* The foreground service, the screens and the removal of models call the
  download controller; it calls the downloader from its jobs, and tells the
  service when nothing is under way any more. Its jobs ask the removal coordinator
  whether the model is reserved or recorded; an import clears the record.

The properties that make each modelled component correct are in section 3. For
those not modelled: a crash during initialization is blamed on the model that
was initializing; no text of an older attempt is shown after a newer one began.

## 2. Modules

| Module | What it is |
|---|---|
| `RuntimeCoordinator` | the coordinator, the benchmark admission and what the view models do about it |
| `RuntimeCoordinator_proofs` | its theorems |
| `ModelLoadController` | the controller with its jobs, watchdogs, publications and requests |
| `DurableFile` | what a store expects of its file: replaced or removed at one instant, or not at all |
| `AtomicJsonFile` | the file operations, shown to implement `DurableFile` |
| `AtomicJsonFile_proofs` | its theorems, the refinement among them |
| `ChatStore` | the chat history over its three locks, with its view models |
| `ChatStore_proofs` | its theorems |
| `ModelLoadController_proofs` | its theorems |
| `LlamaEngine` | one GGUF engine over its native holders, called from any thread |
| `LlamaEngine_proofs` | its theorems |
| `PromptBudget` | the pure functions that fit a conversation into the window |
| `Utf8Stream` | the pure functions that stream bytes as text |
| `Utf8Stream_proofs` | lemmas about them |
| `GgufTurn` | the turns of one native context; extends the two modules above |
| `GgufTurn_proofs` | its theorems |
| `DownloadController` | the downloads of one model |
| `ModelRemoval` | its removal and recovery, and its being added again; extends `DownloadController` |
| `ModelRemoval_proofs` | the theorems about both |
| `MC*` | instances for TLC: model values, bounds, symmetry |

`ModelLoadController` ends where its loader begins: it sees a load that ends when
it likes. `LlamaEngine` is that loader's engine, where a load, a lease and a
native call are steps; whoever decodes there holds `nativeOperations`, and what
happens meanwhile in the context is `GgufTurn`.

### RuntimeCoordinator

An *instance* is one registration: a view model and the token it was given. Each
`synchronized(lock)` section is one action, so anything may happen between two
of them; the suspending Mutex is the variable `operations`. A coroutine's
program counter `pc` names the statement it is about to execute, its locals are
functions of the coroutine. `withRuntime` is
wait → read → lookup → release → take → notify → enter → block; the other
operations have steps with prefixes `ria_` (releaseIfActive) and `ra_`
(releaseAll). `phase` is the life of a view model: `releasing` and `closed`
are its own releaseModel, `draining` is a release whose ten seconds have passed
and which goes on, `clearing` and `gone` are onCleared before and after
unregister. `resident` holds the instances whose engine is loaded, and `stale`
says that a call's work was superseded (`initGeneration`), which is what the
block asks before it loads. The same counter makes a release job return without a
close (`ReleaseSkipped`): the release then has the result of the last close that
succeeded (`lastSuccess`), and the engine that is left is among the `survivors`.
Abstracted: which model an owner holds
(`matchesIdentity` may answer either way), the result values, and
`requestStop`, which only makes a block end sooner.

### ModelLoadController

Each `mutex.withLock` section is one action. An operation is numbered in the order it is
created and stands for its id, deferred, job, native control, watchdog and poller. `job`
follows the body of the coroutine: new, join (for the job it superseded), check,
running, returned or threw, finally, closing (waiting for its children), done. A
cancelled job may be thrown out of every wait for the mutex (`CancelledAtMutex`) but not
out of its loader, which ends when the native side notices. Publications hold another
lock (`progressLock`), so they are a test and a later write; so is Ready, which is
tested and written inside the mutex (`TestReady`, `WriteReady`), because clearReadiness
takes no lock: its three assignments may fall between the two, or around them. A request
reads the active operation first and acts later. The identity of a model is a model
value, the epoch is the code's. Stages, units, times and messages are left out.

### AtomicJsonFile and DurableFile

A file is missing, `Bad` (blank, torn or not parseable) or a document. Each file
operation is an action, each may fail where the code catches it, and the process
may die after any. `Damage` is the medium losing the primary between two
operations, at most `MaxDamage` times; it is what `.lastgood` is for. Two
assumptions about Android: AtomicFile on the supported releases writes `.new`,
syncs it and renames it, and a rename that fails without an exception (which
finishWrite only logs) does not happen.

`DurableFile` has three variables: the stored document, the update under way and
whether it was committed. The refinement maps `stored` to the primary, `update`
to the argument of a write or delete, and `committed` to the operation having
passed its rename or its unlink.

### ChatStore

Chats are ids, a stored document is a set of ids. A load, a save or a restore is one
step, because the repository's lock is held throughout and a file has its old or new
contents (the property shown of AtomicJsonFile); what a failed read or write leaves in
the `corrupt` flags is part of the step. A deletion holds that lock over several steps,
because it takes other locks and a crash between them matters: check → record (tombstone
and pending entry) → save → files → entry → told. An attachment copy takes `writeLock`,
then waits for the journal's lock to ask for the tombstone, and publishes later. Loads
reach the view model in two steps (`FetchSessions`, `MergeSessions`), saves in three
(queue, `TakeSnapshot`, `WriteSnapshot`). A crash clears everything but the disk.
Abstracted: the contents of a chat, the vision half, which is the same code over another
file, the legacy migration, temporary chats, the documents of retrieval, and the removal
of a chat that has become empty.

### LlamaEngine

Each `synchronized(lifecycleLock)` section is one action; what happens between
two of them (native calls, the lock `nativeOperations`) are steps of their own.
`pc` names the next statement of a thread's call. The i-th call of
`initializeBundle` stands for the bundle lease it opens and for the handle that
the native load returns, so `life[h]` and `h \in bundles` compare the life of a
model with that of its files. The native holder's fields have the names of the
code; `nativeStop`, and the two places where a generation enters it and resets
the stop flag, are separate steps because the code takes `state_mutex`
for each. `doomed`, `meant` and `asked` are history: which loads a close has to
end, which generations a stop is for. Abstracted: backends, configurations,
metadata and metrics; a bundle's own close is taken to succeed, as the code does.

### GgufTurn, PromptBudget and Utf8Stream

A token is a value, a prompt what the constant operator `Template` makes of a
list of messages: nothing is assumed of a chat template but that it writes
tokens. The KV cache is the sequence of the tokens in its cells; `logits` is the
context they were computed for. Any message of the user may have media, the last or
an earlier one that trimming drops. `mislabelled` is history: a turn with media,
whose prompt is never in `cached_tokens`, left its own tokens there, and nothing
was cleared since. A turn goes through format (trimming), prefill
(text) or one step of an encoder or of a prompt with images, decode, and ends
completed, refused or failed. Failures of a decode, numerical anomalies and the
abort callback end a turn in the same way and are one action; an exception
(`Throw`) leaves the holder as it is at any point. A stop may fall into any round of
the sampling loop. `Utf8Stream` classifies a byte by what it can be in UTF-8.
Not modelled of a turn: tool calls and the parser of reasoning, sampling itself.

### DownloadController

One model. `start` swaps its job and attempt in under a monitor, but pause,
cancellation and the finally of a job take entries out of the two concurrent maps
without it, so each access of a map is an action. A job is lazy, dispatched,
join (for the job it replaced), begin, transfer, progress (between the test of
the attempt and the write), complete, stopped or failed, finally, forget,
release, check. After an operation is counted down it reads the count, the map of
jobs and the set of cancelled ones one by one, and so does the listener of the
foreground service before it stops (`check`); a service that is destroyed is a call of
pauseAll. `newcomers` is history: what began since a check read a count of zero.
A cancelled job that was never dispatched never runs; one that waits
for a job ends its wait at once; one that meets a taken mutex skips the section.
Two variables belong to the removal and are only read here: `reserved` and the
`record`, for which a job backs off.

### ModelRemoval

One model that the user added, over `DownloadController`: a call of kind `remove` is
executeRemovalSequence, and enters the controller (`Call`) between its record and its
removal of the definition. What survives a death is the stored definition (`old`, or
`new` when it was added again), the record (none, pending, complete) and the published
files. `listed` says whether the files were there when the record took its paths, which
are all that is deleted; `newer` compares the times of the definition and the record.
Each write of a document is one step, which may fail; add writes two documents under one
lock, with `before` to write back, which may fail too, and a death or a step of the
removal may come between. After a death `recovery` follows recoverInterruptedDeletions.
The steps of the controller are those of `Next` with the rest unchanged. The bounds in
the guards: `MayDie` (only where a removal or an add is half done), `MayAdd` (only
beside a removal), `MayStart` (`RemovalStarts` starts of a download beside a removal),
and no start after a death. Abstracted: the staged files, which hold nothing once the
definition is gone, and the paths one by one. Models imported from the phone own no
files here, only permissions, and are left out.

## 3. Runs

All counts are distinct states. Deadlock is checked for the runtime, atomic,
engine and native runs, whose systems never stop (that of `runtime_stale` ends with its
violation). The load, chat and removal
runs have `CHECK_DEADLOCK FALSE`: loads, requests, view models, new chats,
crashes, faults and starts are bounded, and a behaviour that has used them up
really ends.

| Run | Instance | Properties | States |
|---|---|---|---|
| `runtime_settled` | 2 callers; a chat and a vision instance, both there from the start; closes may stall | `ResidentRuntimeIsActive`, `WantedBlockOwnsRuntime` | 3.0 M |
| `runtime_live` | 2 callers; a chat instance that comes and goes, a benchmark; closes may stall | `BusyOnlyInBlock`, `NotifiedOnlyWhenClosed`, `HandoverReleases`, `NobodyWaitsForever` | 145 k |
| `runtime_stale` | 1 caller; a chat and a vision instance from the start | `NextStartsAfterClose` violated | |
| `load_all` | 3 calls: up to 2 loads of 2 models and up to 2 requests; the first load may time out, the second publish progress | `ReadyIsCurrent`, `PredecessorEnded`, `RequestsHitTheirTarget`, `CallersAreAnswered`, `LoaderTokenReleased` | 233 k |
| `load_oneloader` | 3 loads, 1 request | `OneLoaderAtATime` violated | |
| `load_ready` | 2 loads, 1 request, progress | `ReadyStaysReady` violated | |
| `atomic_safety` | 3 documents, 2 damages | `PrimaryIsAuthority`, `ImplementsDurable`, `RecoveryIsStable` | 3 k |
| `chat_one` | 1 view model per process; a stored chat, a new one, one in a backup; 1 crash, 1 fault | `TypeOK`, `HistoryKept`, `DeletedStaysDeleted` | 2.6 M |
| `chat_live` | 1 view model, 1 chat with attachments, 1 crash, 1 fault | `OrphansAreListed`, `DeletionEnds`, `CleanupIsFinished` | 40 k |
| `engine_lifecycle` | 3 threads, 2 of which load and close; 2 loads, 1 generation, frees that may fail | `LeasedModelIsAlive`, `ModelFilesStayOpen`, `NothingIsLost`, `StopReachesGeneration`, `SomeoneGoesOn`, `CloseEndsLoads`, `CloseTerminates` | 220 k |
| `native_text` | a window of 9 tokens; 7 conversations, and each again with an image in one of its messages; 4 pieces, batches of 2; text, images and encoder models | `TypeOK`, `CachedTokensAreEvaluated`, `AnswersThePrompt`, `LogitsAreFresh`, `WindowIsKept`, `TrimmingKeepsTurnsWhole`, `StreamedTextIsWhole`, `TurnEnds` | 174 k |
| `removal_downloads` | 2 starts and 1 call of pause, cancel or pauseAll, or 1 start and 1 removal with the model added again once; 1 death, 1 fault | `OnlyNewcomersOverlooked`, `CompletedMeansRemoved`, `DestroyedUnderRecord`, `EverythingEnds`, `RecoveryFinishes` | 183 k |

What they show:

* `ResidentRuntimeIsActive` and `WantedBlockOwnsRuntime` say that the coordinator
  never loses track of a loaded engine, even when closes outlast their timeouts.
  An engine that a stale Success left loaded is the one exception they name
  (`Held`); what the next owner then finds is `runtime_stale` (section 5).
  The first holds for view models that are there from the start (`AtStart`): one
  that registers while `releaseAll` waits for the gate is not in the list that
  it took before (section 5). What holds of view models that come and go is
  checked by `runtime_live`: the busy flag is exact, callbacks follow a close, a
  handover releases the registration of the moment, with the same exception, and
  both gates are always given on.
* `ReadyIsCurrent` and `RequestsHitTheirTarget` are the two promises of epochs and
  operation ids: a late loader publishes nothing that a caller would be given, a late
  request clears nothing. The first allows what a clearReadiness between the test and
  the write of Ready leaves: a Ready without an identity (section 5).
  `CallersAreAnswered` and `LoaderTokenReleased` say that nobody is forgotten meanwhile.
  `PredecessorEnded` is what the join really gives: the job that was superseded has
  completed, though its own predecessor may not have (below).
* `ImplementsDurable` says that every write and delete of an undamaged file is
  one atomic step of `DurableFile`, whatever fails; `RecoveryIsStable` covers
  the damaged file, `PrimaryIsAuthority` says that the backup of an undamaged
  file is never what a read returns.
* `HistoryKept` says that a chat leaves the file only after its deletion was
  recorded, `DeletedStaysDeleted` that it then never comes back, `OrphansAreListed`
  that its files are not forgotten, `DeletionEnds` and `CleanupIsFinished` that
  the three locks let every deletion and every retry end.

* `LeasedModelIsAlive`, `ModelFilesStayOpen` and `NothingIsLost` relate the
  leases, the native models and the open files: nothing is freed under a call,
  no file is closed under a model, and what no call is about is either shown by
  the engine or gone. `CloseEndsLoads` is the promise of `initEpoch`,
  `StopReachesGeneration` that of the queued and stopped ids and of the native
  `cancelled_generation_id`, and `CloseTerminates` says that stop signals are
  enough to end what `close` waits for. `SomeoneGoesOn` needs no fairness: the calls
  under way, which wait for loads, leases, closes and the native lock, never
  wait in a circle.
* `CachedTokensAreEvaluated` is what makes reuse sound whatever ended the earlier
  turns; `AnswersThePrompt` and `LogitsAreFresh` are what a turn does with it.
  The first two except what two kinds of media turns leave uncleared (section 5).
  `TrimmingKeepsTurnsWhole` is about histories the app really sends: cut by count,
  they may begin with an answer. `StreamedTextIsWhole` compares the text that
  was streamed piece by piece with the text of all bytes at once; it leaves out
  the answers that are not `LeadsApart`, for which it does not hold (section 5).
* `OnlyNewcomersOverlooked` is what lets the foreground service stop: of its six reads
  none is of the moment, and still an operation that they miss began after the first;
  what a test says of the end is not kept (section 5). `EverythingEnds` says that the
  joins of jobs and calls never wait in a circle.
* `DestroyedUnderRecord` says that a removal can always be finished: what it takes
  from the user, it takes while the disk says so. `CompletedMeansRemoved` is the
  other end: the record that hides the model for good is written only after the
  definition is gone. Neither is about a model added again meanwhile, for which the
  code promises less (section 5). `RecoveryFinishes` says that a removal cut by a
  death is finished by the next process, unless something fails in it again.

The type invariants of `RuntimeCoordinator`, `ModelLoadController`, `AtomicJsonFile`,
`LlamaEngine`, `DownloadController` and `ModelRemoval` are theorems and are not repeated
in the runs.

Bounds, and why they are enough: two callers make every pair of operations of the
coordinator race, and a third only waits at the gate, since whatever is inside it is
alone; a chat and a vision instance give a change of owners, the benchmark, in the other
run, one that registers under the gate. Two loads make one supersede another, and three
are needed for the chain in which the middle one is superseded while it waits. One
request meets every point of two loads, and two requests meet each other around one (a
shutdown that finds nothing active needs a second request to have cleared the first
one's target). `MaxCalls` bounds their sum: two loads and a request, or a load and two
requests. That any number of requests and loads keep the safety properties is a theorem.
Two threads that load and close one engine make two loads, or a load and a close, meet;
a third generates, stops or reads meanwhile. Loads do not overlap each other, nor
generations (`Overlaps = FALSE`): their callers hold a mutex around them
(`ChatViewModel.kt:879`, 996, 1368); the theorems about types, leases and files do
without that, and so cover the one case that no run reaches, an initialization that
finds a close failed since its own (`BeginLoad`). A window of nine tokens has
conversations that fit, that fit after dropping one or two turns, and that never fit,
that share a prefix with the one before or repeat it, and answers that reach its end.
Two starts and one call replace, pause, cancel or remove a download at every point of
the other, and their checks overlap; beside a removal one start is enough to have a job
to join, to publish a file and to be overlooked (`RemovalStarts`), and the theorems have
any number. The kind `retain` is left out of the run: it is a cancellation that shows
Paused. One fault and one death stop a removal at every step, and its recovery once
more. Three documents are an old, a new and an older one in the backup; one damage
suffices to need a backup and two to damage what was healed. A crash or a fault of the
chat store may fall on any step; each is needed once for a repair to be interrupted
once. The chat sessions are one of each kind: stored, new, and in a backup. A chat that
is deleted and one that is attached to are the same chat in the interesting case, so
`chat_live` needs only one. Two *overlapping* view models with crashes are out of reach
of the five-minute runs, and are covered by the theorem about `DeletedStaysDeleted`.

Every property of a passing run has a mutant under `mutants` in `PROJECT.json`:
a plausible bug, written in the module beside the definition it changes and
marked "Mutant", under which TLC finds the property violated.

### Fairness

* `RuntimeCoordinator`: weak fairness of the steps inside the gate (a release is
  bounded by `withTimeoutOrNull(10_000)`, a block by the load watchdog or the end
  of a generation) and of the ungated steps of a call; strong fairness of
  entering either Mutex, because kotlinx's Mutex serves its waiters in order.
  None for calls, cancellations, users or engines.
* `ModelLoadController`: weak fairness of jobs, woken watchdogs, publications and
  requests (a shutdown waits thirty seconds at most). A loader is assumed to end,
  since it is cancellable or polls its operation control. None for new loads,
  requests, timeouts or progress.
* `LlamaEngine`: weak fairness of the steps of each call under way, among them
  the native load, which is cancelled or done in the end, a probe or warm-up of a
  few tokens, and a generation *once its stop flag is set*: that a generation
  ends by itself is not assumed. Weak fairness of giving `nativeOperations` to
  some waiter, no matter which, since the lock is not fair.
* `GgufTurn`: weak fairness of the turn, whose thread holds the lock and runs, without
  `Throw`: that it ends by running out of memory is not assumed.
* `DownloadController`: weak fairness of a thread inside a call and of a runnable
  job; strong fairness of the end of a transfer between its progress callbacks:
  a transfer is finite, and a connection that stalls times out. `ModelRemoval` adds
  weak fairness of a running recovery and of an add inside its lock.
* `ChatStore`: strong fairness of the steps of a deletion and of an attachment
  copy, which need locks that a parked thread is given in the end; weak fairness
  of a running reconciliation; strong fairness of starting one, because the
  user keeps leaving and reopening the app, and each time requests it. None for
  view models, loads, saves, restores or crashes.

## 4. What is proved

The theorems hold for every value of the constants that satisfies the module's
ASSUMEs: any number of coroutines, owners, registrations, loads, requests,
threads, generations, documents, chats, view models, crashes and faults. tlapm
checks every leaf.

**Runtime coordinator.** `TypeCorrect`, `BusyIsExact` (`BusyOnlyInBlock`),
`CallbacksFollowClose` (`NotifiedOnlyWhenClosed`), `HandoverIsSafe`
(`HandoverReleases`), `WantedBlocksOwn` (`WantedBlockOwnsRuntime`),
`LoadedRuntimesAreKnown` (`ResidentRuntimeIsActive`), `BenchmarksTakeTurns` and
`NobodyIsStuck`, from `ConfigAssumption`. None of the properties is inductive. The
invariant is built in layers, each using those below:

1. `TypeInv`: types, and at which statements a local variable is set.
2. `GateInv`: a coroutine is at a gated statement exactly if it holds the Mutex.
   From here only one coroutine touches ownership at a time.
3. `NotifyInv`: what the gate's holder has released stays closed until it leaves,
   because only the holder of the gate loads an engine; or it is a survivor of its
   release, and stays one.
4. `IdleInv`: a benchmark's engine is resident only inside its own block, and an
   instance that is not registered yet takes part in nothing. Without it a
   registration that replaces the previous owner's under the holder's feet might
   be a loaded one.
5. `HandoverInv`: between reading the previous owner and taking over, the holder
   has captured the registration that may still be loaded, or none is.
6. `TaskInv` and `OwnInv`, for `WantedBlocksOwn`: what a cancellation reaches, and
   that a block that is still wanted has the ownership it took. The hypothesis is
   `OneEach`, one instance per owner. With two chat instances, one registering late,
   the death of either clears the ownership under the other's block.
7. `ReleaseInv`, for `LoadedRuntimesAreKnown`: what `releaseAll` listed is all that
   may be loaded. The hypothesis is `AllAtStart`, every view model registered from
   the start. One that registers and loads while `releaseAll` waits is missed (section
   5). The instance of `runtime_settled` satisfies both hypotheses.
8. `AdmissionInv`, for `BenchmarksTakeTurns` and, with `GateInv`, `NobodyIsStuck`:
   the gate of the benchmarks is held by the one that was admitted, whose
   registration is then the one there is. A benchmark waits for `operations` with the
   admission held; whoever holds `operations` never waits for the admission.

**Atomic file.** `TypeCorrect`, `AuthorityIsKept`, `FileIsDurable` (initial
states map to initial states, and every step without damage is a step of
`DurableFile` or a stutter), `HealingIsStable`, from `DocumentAssumption`. The
invariant adds `Stages` to the properties: what each statement knows of the files
(a renamed file is complete, a backup is made only of a primary that exists, a
healing writes what the backup holds).

**Chat store.** `TypeCorrect`, `DeletedStays` (`DeletedStaysDeleted`),
`OrphansAreKnown` (`OrphansAreListed`) and `HistoryIsKept` (`HistoryKept`), from
`SessionAssumption`. For the deletions the invariant is `TypeOK`, with
`ChatsAreKnown` (every id anywhere was given to a chat, so that a *new* chat
never has the id of a deleted one) and `ReadsKnowDeletions` (whoever waits to
merge a read has the tombstones of the journal in memory). The second is
the heart: a merge after a crash can show a deleted chat only if the journal had
not been read in this process, and reading the chats reads it first. `OrphanInv` follows
a chat's files through a deletion: as long as they exist, the journal on disk, the
journal in memory or a removal under way (`WillRemove`) names them; `RecordInv` says
which of the first two a step may rely on. `HistoryInv` says where the
chats of the stored document are: in memory or in the read that is about to be merged, and
in whatever is queued or being written over it, but for what was deleted. Restores, crashes
and failing writes are included; the hypothesis is `OneViewModel`, without which it
is false (section 5).

**Model load controller.** `TypeCorrect`, `PredecessorHasEnded`
(`PredecessorEnded`), `RequestsAreAimed` (`RequestsHitTheirTarget`),
`ReadyIsForTheCurrent` (`ReadyIsCurrent`), `CallersAreRemembered` and `NobodyIsStuck`,
from `BoundsAssumption`. What makes
them true is that every cancellation goes with a new epoch. `StaleInv` says so
(`CancelledIsStale`), for jobs already cancelled and for those that a request
under way is about to cancel; so a job whose wait was cut short by a cancellation
fails the test of its epoch and starts no loader (`WaitedOrCancelled`), and a request
whose epoch is still the newest is about the current operation
(`RequestEpoch`). `AnswerInv` adds who was told what: a caller who was refused belongs to
an operation that is stale, timed out or over, hence is not shown as Ready. It follows a
clearReadiness through its assignments: while a job is between the test and the write of
Ready nothing else under the mutex runs, so if its operation is stale by then, the identity is
gone or about to go.
`OwedInv` is its converse: an operation that was cancelled or has published its end has
answered, so whoever still waits, waits for a job that will (`CallersAreRemembered`).
`OrderInv` says that a job joins an older one; the oldest that is left therefore
joins nobody (`LeastNumber`), and of all the loads under way that one goes on.

**GGUF engine.** From `EngineAssumption` and `ThreadAssumption`. `TypeCorrect`,
`LeasesProtect` (`LeasedModelIsAlive`) and `FilesStayOpen` (`ModelFilesStayOpen`)
hold with loads and generations that may overlap. `CountInv`: the
count of leases is the number of calls that hold one (a fact about finite
cardinalities, which no bounded run can show in general). `WorkInv`: one
thread at a time takes the engine from one state to the next. `OwnerInv`: every
handle has one owner: the load that made it, the engine, or the close that frees
it. On these rests `LifeInv`: a model is freed only by its owner, when no
lease is counted.

The other three take `~Overlaps`, which the app's callers guarantee, and are false without
it (section 5). `AloneInv`: one call loads at a time, and it begins when nothing is
shown. `NothingLost` (`NothingIsLost`) rests on `HeldInv`: an open bundle is the
engine's, or that of the load or close under way, which will publish or free it.
`CloseWaits` (`CloseEndsLoads`) rests on `DoomedInv`: what a close found when it began is
over or still under way in it, and a close that waits for a load leaves only when that is
over. `StopReaches` (`StopReachesGeneration`) rests on `StopInv`, which says
what a stop has done to its generation by where both are: in the queue the generation is
marked; once admitted, the stop has its id and its model; once the native half was told, the
id is cancelled and the flag set. An id is never below one cancelled earlier, because
one generation runs at a time.

`NobodyIsStuck` (`SomeoneGoesOn`) holds with overlaps again. Whoever waits for
`nativeOperations` waits for the call that holds it (`LockInv`), a load or a close for
the call that loads or closes (`BusyInv`), and a close that drains for a lease, which by
`CountInv` some call holds; that one waits for nothing or for the lock.

**GGUF turn.** From `BudgetAssumption`, `TurnAssumption` and
`ConversationAssumption`: any window, chat template, batch size, and
conversations that end with the user. `TurnsAreKeptWhole`
(`TrimmingKeepsTurnsWhole`) rests on `TrimInv`: what is left is the system
messages and a suffix, which begins with a message of the user once anything was
dropped; the loop of `trim_oldest_turn` may run as often as it likes. The others are
`TypeCorrect`, `ReuseIsSound` (`CachedTokensAreEvaluated`), `AnswersAreTheirOwn`
(`AnswersThePrompt`), `SamplesAreFresh` (`LogitsAreFresh`) and `WindowIsNeverOverrun`
(`WindowIsKept`). No hypothesis restricts the turns; the first two except the states
after a turn with media that was not followed by a clear, and the last two hold there too.
The invariant says for each phase what the code relies on: in prefill the cells
are the first `evaluated` tokens of the prompt, which is shorter than the window;
while a text turn decodes, the cache is what is in the cells, and the count
`occupied_cells` that the loop tests is the number of cells really filled, for
text, images and encoders; between turns the cache is a prefix of the cells,
because every path that ends a turn cuts or clears the list with the cells or
before them, but for two after a turn with media (section 5). Even then the list is
no longer than the cells, and that is enough for the window and the logits.

`TextIsWhole` (`StreamedTextIsWhole`) is about the bytes alone. Its invariant
(`ShownInv`): the bytes so far are those that are shown and those held back, and the
first are *closed*, no character of theirs is cut off. Closed bytes decode to the same text
whatever follows (`DecodedJoins`), and what the scan passes is closed
(`SplitIsClosed`) as long as no character of several bytes begins within the bytes that
another one announces (`LeadsApart`).

**Downloads and removal.** `TypeCorrect`, `StopIsSafe` (`OnlyNewcomersOverlooked`),
`CompletedIsRemoved` (`CompletedMeansRemoved`) and `DestructionIsRecorded`
(`DestroyedUnderRecord`), of `RemovalSpec`, from `DownloadAssumption` and
`RemovalAssumption`: any number of starts, calls, removals, deaths and faults.
`CountInv` says that the count of operations is at least the number of jobs and
calls under way. It cannot say equal, because a job cancelled before it runs leaves its
count behind; so the end may be told never. When a check reads zero nothing is under way,
and from then on `newcomers` names whatever begins: that is what it may overlook. `RemovalOrder`
says what each place of a removal and of a recovery knows: from the record on,
either the record is pending or the old definition is gone; from the files on, it
is gone. The definition is that of the store or, while an add has written one
document and not the other, the one that it may write back (`OldIsThere`);
without that case the invariant is not inductive. `NobodyIsStuck` rests on
`ChainInv`: a job replaces one of a lower number, a call takes out a job that exists, and only
the job that a start has not launched yet is lazy. Of the jobs that are left the
oldest goes on.

**Why four theorems called `NobodyIsStuck`.** The liveness properties
(`NobodyWaitsForever`, `CallersAreAnswered`, `CloseTerminates`, `EverythingEnds`) say that
everything under way ends. Their safe half, that the calls of a component never wait in a
circle, needs no fairness and holds for every instance. As ENABLED is beyond the prover, each
theorem spells out where a call stands still (`WaitsForGate`, `Joins`, `Waits`,
`JobWaits`); that a call which is not there has an enabled step is by the guards.
TLC found it true in the states of the configurations above. No run of the project
lists these properties or the two about benchmarks and callers, except
`SomeoneGoesOn` of the engine: their systems are checked for the liveness that needs them.

**Only model-checked.** Liveness (`NobodyWaitsForever`, `CallersAreAnswered`,
`LoaderTokenReleased`, `DeletionEnds`, `CleanupIsFinished`, `CloseTerminates`,
`TurnEnds`, `EverythingEnds`, `RecoveryFinishes`) stays with TLC, since fairness and
ENABLED are beyond the prover. Every other property of a passing run is a theorem; of
the deadlocks among calls, which lie under four of the liveness properties, the theorems
exclude all those that come from waiting in a circle. The induction theorems of the
library take an operator, which the provers cannot instantiate; where a lemma needs
induction over data (`FromTheEnd`, `FromZero`) it is about a set, and comes from the
theorem that the inclusion of finite sets is well-founded (`LeastNumber`).

## 5. Findings

* **Two loaders at once** (`load_oneloader`). "If there was a previous job, wait
  for it to cleanly complete cancellation" (`ai/ModelLoadController.kt:274`). The
  join throws when the waiting job is itself superseded, and the exception is
  swallowed (276-278); that job then completes, and the third load, which waits
  only for it, starts its native loader while the first is still running.
* **Ready goes back to Loading** (`load_ready`). The test
  `elapsedTimeAdvancesWhileWaitingWithoutProgressAndStopsAtReady`
  (`ModelLoadControllerTest.kt:62`) expects Ready to stay. Progress is tested and
  written under `progressLock` (343-357, 264-268), Ready under the mutex
  (458-464); a publication in between overwrites it.
* **A stale Success** (`runtime_stale`). "Chat must be released before Vision starts"
  (`ModelRuntimeCoordinatorTest.kt:128`). A release job returns without a close when a
  load, a stop or another release moved `initGeneration` while it waited
  (`ChatViewModel.kt:2201`); the lambda then returns the result of an earlier close
  (530), which nothing resets. The coordinator hands the runtime over, and the next
  owner loads beside the engine that is left. `VisionViewModel.kt:2870` is the same.

Further behaviour that the models show, in addition to the notes under `hazards`:

* A `clearReadiness` that falls between the test (459) and the write of Ready (461) is
  overwritten: the model is shown as ready after it, though no new caller is given it,
  against "Clears readiness (e.g. after CPU recovery failure or unexpected crash)"
  (`ai/ModelLoadController.kt:759`).
* A second view model in the same process drops the history for a while: a read that
  finishes "after a chat was created, updated or deleted in memory"
  (`data/SessionSnapshotMerge.kt:3`) is handled by the merge, and not by the save
  that comes first. `chatStoreState` is process-wide and still Ready
  (`ChatViewModel.kt:2014`), so a chat started before the merge is saved alone, and the
  stored ones are lost if the process dies before a later save. `HistoryKept` fails on
  it in an instance with two view models.
* Trimmed images, against "Disable prefix-cache reuse for multimodal requests"
  (`llama-jni.cpp:1767`): the clear at the end of such a turn is left out when trimming
  has dropped the messages with the images (1906-1916, 2365), and `cached_tokens` lists
  the answer where the cells hold the prompt. A later text prompt that begins like that
  answer reuses the wrong cells.
* The end of the downloads is told too early, or never, against
  "onAllDownloadsFinished should only fire once after all operations complete"
  (`DownloadControllerTest.kt:564`). A start between the reads of the count and of the
  collections (`DownloadController.kt:509`) is not seen; the listener's second look
  (`ModelDownloadService.kt:102`) narrows this, but a start after it is paused by the
  service that stops (165-169). And a job cancelled before it is dispatched never runs the
  finally that counts it down (94, 273): the count stays above zero, and the service in
  the foreground, for the rest of the process.
* `releaseAll` lists the registrations before it waits for the gate
  (`ModelRuntimeCoordinator.kt:270`) and clears the active owner afterwards
  (299). A runtime that registers and loads in between stays loaded with no active
  owner: `ResidentRuntimeIsActive` fails in `runtime_settled` with `AtStart = {}`. The
  next release through its own view model closes it.
* A stalled close: onCleared unregisters an engine that is still resident after
  ten seconds (`ChatViewModel.kt:2154`).
* `LlamaEngine` with `Overlaps = TRUE`: of two initializations, the second may find
  the first's model open when it begins (1060-1075 waits, but does not close), so
  publishing forgets it, against "Any prior model (OPEN, CLOSING, or INITIALIZING) is
  fully closed and freed before the new model is loaded" (946-949); and
  a close may return without the second's model. Of two generations, the lock, which is
  not fair, may admit the second first; the native half then ignores a stop of the
  first, whose id is below the last it saw (`llama-jni.cpp:2457`). The app's callers
  exclude both.
* A stop that comes after its generation ended leaves the native stop flag set;
  a warm-up then fails until a generation resets it (`llama-jni.cpp:2548`).
* The micro-batch of an encoder model is sized for the default reserve
  (`llama-jni.cpp:1456`): a turn that requests fewer tokens accepts a longer prompt,
  which the encoder then refuses, against the comment at 1454.
* An exception out of memory in a turn with an image leaves `cached_tokens` with
  the sampled tokens while the cells hold the image (2412), as trimmed images do.
* A character that the end of an answer cuts off takes the bytes after its
  lead with it (`safe_new_string`), which `Decoded` does too. The same happens inside an
  answer: of the pieces `L3`, `A` and `L3` (a broken character, a letter, the next
  lead) `extract_complete_utf8` passes on the first two bytes (`llama-jni.cpp:424`), and
  `safe_new_string`, which is given no third, ends at the broken lead (327), so the letter is
  lost. `StreamedTextIsWhole` fails on it without `LeadsApart`.
* With three starts two transfers of one model can run at once: the second job,
  cancelled while it joins the first, ends at once (`DownloadController.kt:98`),
  and the third joins only the second.
* A start beside a pause can end with the status Downloading and nothing running:
  progress is tested (181) before and written after the pause. The finally's test and removals
  (269-271) are not one step and can take out a newer job's entries.
* `ModelRemoval`: a removal reserved after an import asked (`MainViewModel.kt:1878`),
  or a recovery past its guard, removes the definition just added, against "if a
  newer import exists, do not delete it!" (`ModelRemovalCoordinator.kt:387`). A
  recovery that does spare it records the removal as complete (392), and
  `getAll` and `getById` then hide what was spared. Files published after the paths
  were listed, by a job that was superseded and is still in its transfer, stay
  under a completed record. Such a job can also show Downloading after it, though
  "Stale workers remain blocked" (103).
* A load superseded before it started
  keeps its native control (`ModelLoadController.kt:285`), files can be orphaned by a
  reconciliation that takes no `writeLock`, and a write over an unparseable primary
  consumes the backup (`AtomicJsonFile.kt:338`).

## 6. Not modelled

`PROJECT.json` lists every part with its reason. In short: screens, formatting,
policies, encodings and scripts have no state of this kind; LiteRT, ONNX and Candle
engines, vendored llama.cpp, Vulkan headers and Rust code are the environment, seen as
calls that end, fail or stall; transfers and imports are I/O. Almost all of the
repository's C++ is vendored (`llama.cpp`, `vulkan-headers`); the native models are
about the files that are the project's own. Of these, the load of a model into
native memory (shards, projectors, backends and their fallbacks) is a
sequence of library calls that ends with a handle or an error, and the audits of
logits are numerical.

## 7. Plan

Done, in this order: the coordinator (it decides whether the phone runs out of memory),
the load controller, the atomic file with its abstract specification, the chat history,
with the proofs of the coordinator, the file and the history; then the GGUF engine, the
native turn, the downloads and the removal, with the proofs of the load controller, the
engine, the turn, the downloads and the removal; then the proofs of the remaining safety
and action properties of the coordinator, the history, the engine and the stream of
text, and of the absence of circles among the calls of four components.

Candidates, most important first:

1. `InitCrashGuard`: a crash blocks the model that was initializing.
2. The response controller and the publisher over an abstract "latest attempt
   wins" specification.
3. `MemoryStore` as a client of `DurableFile`, and `ChatStore` restated over
   `DurableFile` instances for its two documents.

The number of runs is kept small: properties of a new component share an instance
where its bounds allow it, and the runs of a component that differ only in
bounds are merged when the theorems have made one of them redundant.
