# LimCode, specified in TLA+

LimCode is a VS Code extension that runs LLM agents. Its backend is an
entity-component-system (ECS) world: every domain fact is a component in one
in-memory world, every reaction is a *system* run by a scheduler, and everything that
touches the outside (model provider, shell, disk, MCP servers, webview) is an *effect*
of a capability that answers with *events*. Several extension hosts (VS Code windows) can
share one data root on disk.

This directory holds TLA+ models of the parts of the program in which order, concurrency
and failure decide whether it is right, TLC configurations that check them on small
instances, and TLAPS proofs for every instance. Paths below are relative to `src/`.

* `tlc -workers 2 -config <X>.cfg <Module>` runs a check; `tlapm <Module>Proofs.tla` the proofs.
* `PROJECT.json` maps every definition to the lines it models, and lists the runs, the
  hazards, the theorems and the disagreements between code and comments the runs show.

Contents: [1 the system](#1-the-system) · [2 the modules](#2-the-modules) ·
[3 the runs](#3-the-runs) · [4 fairness](#4-fairness) · [5 proofs](#5-what-is-proved) ·
[6 what the code does and its comments do not say](#6-where-code-and-comments-disagree) ·
[7 not modelled](#7-what-is-not-modelled-and-why) · [8 plan](#8-plan)

## 1 The system

### 1.1 Inventory

The backend (`backend/`, 350 files, 63,000 lines) divides in four layers.

**ECS engine (`backend/ecs`)**

| part | state | operations | hard behaviour | what makes it correct |
| --- | --- | --- | --- | --- |
| `Scheduler` (loop), `World` | event queue, version counter, `running`, `scheduled`, `stopped` | `enqueue`/`wake`, `tick`, passes, `afterPass`/`afterTick`, `stopAndDrain`, `dispose` | wake-ups during a tick, hooks that enqueue, `MAX_ITER`, stop while events arrive | no event without a tick, one tick at a time, rest only at a fixpoint, stop leaves nothing behind |
| schedule compiler (`buildWaves`) | access declarations of the systems | edges, conflicts, greedy waves | read/write feedback, `before`/`after`, cycles | producers before consumers, no conflict inside a wave |
| `SystemWorkerPool`, `SnapshotWorldReader` | worker slots, job queue, snapshot | run a system in a worker, apply its commands | a worker that dies or never answers, dispose | each job ends once, none waits beside an idle worker |
| `CommandBuffer` | commands of a system | emit, apply at the end of the wave | systems read the committed world, not each other's commands | see the agent loop |

**World (`backend/world`)**

| part | state | operations | hard behaviour | what makes it correct |
| --- | --- | --- | --- | --- |
| `modules/agentRun` (3,391 lines) | `AgentRun` status, `AgentRunNeedsModel`, queue order, holds, queued input, source links | cancel, stop of a conversation, promote, reorder, remove, hold, pause, resume, retry, stale; activation and merging; delivery | ten systems write the status from what they read at their start; commands and late answers cross | ended runs stay ended, one model call at a time, no message lost or doubled, the queue moves |
| `modules/chat` (3,763) | messages, `LlmInvocation`, `LlmRequest` | input, context assembly, dispatch, poll; edit, delete, retry of messages | resolution of an invocation is asynchronous, contexts load late, answers after a stop | no stream without its run, input before call |
| `modules/tools` (6,435) | `ToolCall` states, results, approvals | policy rejection, serial/parallel batches, execution, interruption, results | interruption against a result, calls that arrive while the message streams | each call is settled and returned once; the run goes on or ends |
| `modules/compression` (1,656), `checkpoint` (1,612) | compression in progress; barriers | start, end; hold back a request or a tool | a barrier that never clears | what waits is woken |
| `agent`, `workflow`, `plan`, `project`, `workEnvironment`, `runtimeContext`, `llm`, `skill`, `rules` | configuration records | create, update, delete | none of their own | – |
| `agentAnswer`, `notificationDelivery`, `backgroundCommand` | child runs, notifications | `run_agent`, delivery to the parent | parent stopped while the child answers | an answer reaches its parent once |
| `clientSync`, `projection`, `storageProjection` | revisions, caches, patches | diff, patch, snapshot | a patch over a stale revision | the client's state is the world's projection |

**Application (`backend/application`)**

| part | state | operations | hard behaviour | what makes it correct |
| --- | --- | --- | --- | --- |
| `BackendApplication` (2,791) | wiring, effect handlers, context loads | start, hydrate, hooks, fork, evict, dispose | staged hydration, eviction against a load | effects flushed in order; the world is saved before it goes |
| `ClientStatePersistence` (1,648) | dirty flags, in-flight save, base records, mutation gate | schedule, flush, retry, gate | save against mutation and against another window | nothing saved is undone, nothing dirty is forgotten |
| `WebviewMessageRouter` (1,836) | – | accept or refuse messages | the world moves on before the command is handled | refused or handled, never half |
| `mcpRuntimeManager` | chain of refreshes, clients | refresh, dispose | a server that never answers | the chain moves |

**Capabilities (`backend/capabilities`)**

| part | state | operations | hard behaviour | what makes it correct |
| --- | --- | --- | --- | --- |
| `vscodeStorage/storageResourceLock` | lock file, in-process turns, heartbeat | acquire, recover, release | file system calls of several processes interleave; a process dies | mutual exclusion, recovery, no call waits for ever |
| `vscodeStorage/clientStateSkeletonTransaction` and its record stores | generations, manifests, two pointers, markers, pins | open, staged load, commit, garbage collection | crash between two files, collection under a reader, damage, write from stale state | one register with compare and set; named snapshots stay whole |
| timeline and history stores | generations of a conversation, root pointer | patch, commit, truncate, load | generations of timeline and compression published together; two windows finish one call | as above; finished answers and first results stay |
| data root: lease, migration, admission | lease files, state of a migration | admit, renew, migrate | suspended window against a migration | no window writes to a root that moves |
| settings stores | revisioned records | read-modify-write | two windows | no lost update |
| `durableWrite`, `json` | temporary files | write, sync, rename | crash inside a write | old or new, never torn |
| attachments, shadow repositories, diffs | files, git | put, checkpoint, diff | – | – |
| `llmProvider` (2,508) | live streams | resolve, stream, retry, abort | late answers | abort is final |
| `commandRunner` | handles of children, records on disk | start, background, read, kill, finalize | a window dies, another one reads or kills | output kept until read, an end told once |
| `vscodeFs`, work environments, proxies | files, the network | read, write | – | – |

**Panels and hosts**

| part | state | operations | hard behaviour | what makes it correct |
| --- | --- | --- | --- | --- |
| panel stores for client state and timelines (`webview/src/stores`) | per stream a number and contents, a batch of patches not yet shown, pages | follow a stream, resync, page, flush | patches lost or applied twice, pages that answer late, removals against pages | the panel shows the world, without gaps |
| `useGlobalSettingsStore` | a form per section, its base and revision, a save on its way and one queued | edit, reload, merge, choose | two panels edit one table; a choice of what is not stored yet | no edit undone, none forgotten |
| `vscode/` | panels, watchers | forward | none of its own | – |

The rest of the frontend (`webview/`, 32,000 lines of Vue) holds no state the backend
depends on; `shared/protocol.ts` is types.

### 1.2 How the parts interact

```
 webview ──message──> WebviewMessageRouter ──enqueue──> World queue ──wake──> Scheduler.tick
                                                                                  │ passes
 capability answers ──enqueue──────────────────────────────^        systems read the committed world,
                                                                    emit commands, emit effects
 Scheduler.afterPass ──> effects of the pass (llm.abort, llm.start, ...)          │
 Scheduler.afterTick ──> remaining effects, ClientStatePersistence.schedule  <────┘
 ClientStatePersistence ──patch──> skeleton transaction ──inside──> storage resource lock
 other extension hosts ──────────────^ (same files)

 World ──ClientSync: numbered patches──> hub ──> panels (client-state store, timeline store)
 timeline commits ──totals, patches, pages──> panels
```

* A wave's systems read one committed world and their commands are applied when they end
  (`Scheduler.runSchedule`, `World.commit`). A handler that takes two events of one batch thus
  reads the same world twice. This is the root of most hazards of the agent loop.
* Events are drained once, at the start of a pass, and seen by every system of that pass.
* Effects emitted in a pass are executed after it; their answers are events of later passes.
* Persistence is behind the world: a host patches the disk from the state it last knew
  (its *base*), under the coordinator lock, which is a storage resource lock.
* Everything that touches the disk passes the gate of the data root first: a window is admitted
  with a lease, and the data root moves only when no other window has a lease on it.
* Panels hold what the host believes they hold: a patch names the number it follows, a panel that
  misses one asks for the whole stream.

## 2 The modules

| module | models | extends / instantiates |
| --- | --- | --- |
| `EventLoop` | abstract: what the scheduler promises to whoever enqueues | |
| `Scheduler` | `backend/ecs/Scheduler.ts` loop, `World.enqueue` | `EventLoop` (refined) |
| `ScheduleCompiler` | `backend/ecs/Scheduler.ts` `compileSchedule`, `buildWaves`, conflicts | |
| `WorkerPool` | `backend/ecs/SystemWorkerPool.ts` | |
| `AgentRunWorld` | the entities of one conversation, the queries and the commands on them | |
| `AgentRunLoop` | ten systems of `tools`, `chat` and `agentRun`, the user, provider, tools | `AgentRunWorld`; its pass structure is `Scheduler`'s |
| `ChildAgents` | `run_agent`, `submit_agent_answer`, interruption and stop across conversations | |
| `ClientPersistence` | `ClientStatePersistence.ts` and the operations of `BackendApplication` around it | assumes a store that saves a record as a whole |
| `DataRoot` | `vscodeStorage/index.ts` (gate, move), `globalStatus.ts`, `migration.ts`, `dataRootProcessLease.ts` | assumes a fence, a storage resource lock |
| `StorageResourceLock` | `storageResourceLock.ts` | |
| `SkeletonRegister` | abstract: the store is one register with compare and set | |
| `SkeletonTransaction` | `clientStateSkeletonTransaction.ts`, `clientStateSkeletonPatch.ts` and the loads of `vscodeStorage/index.ts` | `SkeletonRegister` (refined); assumes what `StorageResourceLock` provides |
| `TimelineChunks` | how a conversation is cut into chunks and pages | |
| `TimelineRegister` | abstract: a table of records with compare and set per record | |
| `TimelineStore` | `conversationTimelineStore.ts`, `...Commit.ts`, `...Patch.ts`, the saves of `clientStateStore.ts` | `TimelineChunks`, `TimelineRegister` (refined) |
| `TimelineWindow` | `webview/src/stores/useConversationTimelineStore.ts` | `TimelineChunks` |
| `ClientSync` | `ClientSyncSystem.ts`, the hub of `vscodeWebview.ts`, the stores of two panels | |
| `SettingsSync` | `useGlobalSettingsStore.ts`, `GlobalSettingsBridge.ts`, the settings stores | |
| `McpRuntime` | `application/mcpRuntimeManager.ts` | |
| `BackgroundCommands` | `capabilities/commandRunner.ts` | |
| `MCScheduler`, `MCAgentRunLoop`, `MCStorageResourceLock`, `MCSkeletonTransaction`, `MCClientPersistence` | small instances for TLC | the module of that name |
| `MCPanels`, `MCRuntime`; `MCHosts`, of `HostServices`; `MCStores`, of `Stores` | small instances of several components that share no state | `INSTANCE` of each |
| `HostServices` | the skeleton, the MCP servers and the commands side by side | `SkeletonTransaction`, `INSTANCE` of `McpRuntime` and of `BackgroundCommands` |
| `Stores` | the data root and the settings side by side | `DataRoot`, `INSTANCE` of `SettingsSync` |
| `*Proofs` | theorems | the module of that name, `TLAPS` |

The last group of `MC` modules, `HostServices` and `Stores` check several components in one run. A variable `part`, chosen
in the first state, says which of them moves; the others rest in one initial state, and a property is
`part = "x" => X!P`. The states of such a run are the sum of those of its components, not the
product.

Operators whose comment starts with "Mutant:" are the definition they stand before with a
plausible mistake; they are in no specification, and each shows that a property can fail.

### 2.1 Scheduler and EventLoop

One action is the code between two points at which JavaScript can run something else.

| state | code |
| --- | --- |
| `queue`, `handled` | `World`'s event queue; the events some pass has drained |
| `dirty` | `world.version()` differs from its value when the pass began |
| `guard` | the pass counter compared with `MAX_ITER` |
| `running`, `scheduled`, `stopped` | the fields of those names |
| `pc`, `stopper`, `disposed` | where the tick and the `stopAndDrain` call stand |

`Enqueue` is `World.enqueue` with `wake`; `RunTask` the `setImmediate` callback; `Commit` one
wave's commands; `ContinueTick`, `EndTick` the end of a pass with the `afterPass` (and
`afterTick`) hooks, which enqueue any set of events; `NextPass` the code after the yield;
`DrainPoll` one turn of the loop of `stopAndDrain`. What systems do is left open: they change
the world and enqueue events. `EventLoop` says what this is for: everything accepted while the
loop is open is delivered once, together with all that was pending, and an orderly close
happens only when nothing is pending.

### 2.2 ScheduleCompiler and WorkerPool

A behaviour of `ScheduleCompiler` chooses the declarations in `Init` and builds one wave per
step, as the loop of `buildWaves` does. `DataEdge` is the write→work-read edge in registration
order, `declared` the edges of `before` and `after`, `Conflict` the test of `hasConflict` with the
three mutation modes, `Accepted` the greedy choice among the ready systems, `DetectCycle` the
exception. Declarations that name an unknown system, which throw before a wave is built, are
left out.

`WorkerPool` has the queue of jobs, the slots in the order of their creation, the stack of idle
ones and the job each was given. `Run` is a call (an idle worker, a new one, or the queue),
`Answers`/`Babbles` a worker posting an answer to its job or to another, `Receive` the handler of
a message, `PostFails` a `postMessage` that throws, `Dies` an error or exit, `Dispose` the end.

### 2.3 AgentRunWorld and AgentRunLoop

`AgentRunWorld` has the components as one record. Operators that stand for commands take two
worlds: `w`, the committed one the code reads, and `d`, the draft with the commands emitted so
far; that distinction is the code's (`world` against `cmd` in a system's context) and is kept everywhere.

| field | code |
| --- | --- |
| `status`, `needsModel`, `held`, `input`, `order`, `parent` | `AgentRun`, `AgentRunNeedsModel`, `AgentRunQueueHold`, `AgentRunQueuedInput`, `AgentRunQueueOrder`, `AgentRunSourceLink` |
| `stage`, `call`, `turn` | the latest `LlmInvocation` of a run (being resolved), its `LlmRequest` (ready, in flight), the model message of that invocation |
| `copies` | how often the message of a run was put into the conversation |
| `toolStatus`, `toolRun`, `toolTurn`, `consumed` | `ToolCall` with its state, owner and message; results already returned |

A pass is `BeginPass` and then the systems in the order they are registered: `toolDispatch`,
`toolPoll`, `toolResult`, `input`, `assembly`, `llmDispatch`, `llmPoll`, `lifecycle`, `queue`,
`delivery`. A system with handlers takes one action per event (`Send`, `InvocationResolved`,
`LlmUpdate`, `Cancel`, `Promote`, `Retry`, ...) on the draft, and one that ends it and commits.
`streaming` are the live streams of the provider and `resolving` the resolutions under way, so a
stream can outlive the request it was started for. `Background` are the calls of tools that go on
after their run has ended.

Abstractions, each one on the data side or outside the loop:

* one conversation; a run has one message; time stamps are the order of creation;
* approvals, user input, application of changes, plan review, submission of a result and
  checkpoints are part of "executing" a tool; the calls of a message come in any order;
* the provider's retries inside a request, token accounting and formats are left out; a
  request ends with done or error, an invocation resolves or fails to;
* compression is a flag that holds back requests and activations; barriers are left out;
* the effects of a system (resolving an invocation, `llm.start`, `llm.abort`) take place when it commits; in the code they are flushed
  after the pass, in order, before the provider can answer;
* systems run one after another in the order they are registered. Where one works on what
  another writes, the compiler's edges keep that order (`EdgesRespected`), and systems of one
  wave do not conflict (`WavesConflictFree`); where one only looks up what another writes, the
  order is an assumption of the model;
* a reordering moves one run to the front; the policy is `queue_next_run`; the delivery mode
  `direct_reply`; `Regenerate` has the same handler as `Retry`; `UpdateQueuedInput` changes
  content only;
* a pass whose commands change nothing is not repeated. In the code such a pass may bump the
  version and run again, which adds passes and no states.

### 2.4 ChildAgents

Runs, tool calls and conversations in the order of their creation, each run with its source and
each conversation with the one it was made from. A pass of the scheduler is one action (`Pass`):
what the model asked for (`ModelCalls`) is dispatched, ended runs deliver, results are heard,
interrupts and stops work through the tree of runs. `ModelEnds`, `UserInterrupts` and `UserStops` are
the environment. A run has one call open at a time; a child's bridge to its parent is its
conversation. How a run itself gets its turns is `AgentRunLoop`'s concern.

### 2.5 StorageResourceLock

A `Task` is one call of `withStorageResourceLock`; `pc` says before which file system call it
stands. `file` is the lock file: its owner, whether its metadata has been written, and whether
it is older than `invalidMetadataWaitMs`. Every system call is one action, so another process can
step between `Stat` and `ReadFile`, between the check and the removal (`RemoveStale`), between
the check of a heartbeat and its rename. `Age` is the passing of time, `Deadline` the passing of
`waitMs`, `Crash` the death of a process, which takes its turns and heartbeats with it and leaves
its file. Retries inside one system call are part of that call.

Every system call may fail (`FileOpsMayFail`). An open that is refused counts as contention when the
error looks transient and ends the call when it does not (`OpenRefused`); a write that fails is cleaned
up after, and if its error is the only one and looks transient it counts as contention too, while a cleanup that
fails leaves the file (`WriteFails`, `CleanupCreate`); a `stat`, read or removal that fails ends the recovery
(`RecoveryFails`) or the release (`ReleaseFails`) with an error; a heartbeat that fails is only logged. All
errors leave through `Reject`, which gives the turn back.

Two variables are history. `outdated` are the recoveries since whose `stat` a lock file was created; `flaws`
has `"replaced"` once such a recovery has removed a file, which is then not the one it judged, and `"slow"` once a
creator was at work for `invalidMetadataWaitMs`. Exclusion fails after either (section 6), and
`MutualExclusion` and `VerdictsAreRight` say that it fails after nothing else.

### 2.6 SkeletonTransaction and SkeletonRegister

| state | code |
| --- | --- |
| `current`, `previous` | the two pointer files |
| `manifest[i]` | `snapshots/<id>.json`: a generation for every store, absent or damaged |
| `generation[s][i]` | the directory of generation `i` of store `s`: its record, absent or torn |
| `preparing`, `prepared` | the transaction markers, with their age |
| `pins` | pin files: owner, snapshot, age |
| `txn[h]` | the commit of a host, named for the file it wrote last |
| `load[h]` | the hydration of a host: stage, snapshot, what it has read |
| `base[h]` | what the host's persistence last knew of the stores |
| `published`, `mishaps` | history: what was published under an id; which mishaps happened |

The coordinator lock is `txn[h].at \in Locked`: a section that leaves no intermediate files is
one action with guard `LockFree`. A commit is one action per file whose presence matters:
`BeginSave`/`BeginDeletion` (conflict test, plan, `preparing` marker), `WriteStores`,
`WriteManifest`, `WritePrepared`, `WritePrevious`, `WriteCurrent` (the publication),
`RemoveMarkers`, `Collect` (garbage collection). Loads take the lock to pin and to release, and
not to read. `Crash`, `WriteFails`, `Damage`, `Lapse` (60 minutes pass) are mishaps.

Abstractions: one record per store (conflicts are per record, the union over records is the
union over stores); collection is one action whose survivors are any set, because time buckets
of the last 24 hours and failing deletions keep what they like; a refused commit changes
nothing and is not an action; equality of records is up to time stamps, over which writers never conflict; damage happens
while no commit is under way; a store that has traces of a first commit and no pointer
refuses to open for ever, as in the code, where that is deliberate.

`SkeletonRegister` is the promise: one value over all stores, `Ask`, `Commit` whole or `Fail` in
doubt, never over a record somebody else has changed; damage takes it back as a whole
(`FallBack`). The mapping: `latest` is what the store opens on, `known` the bases, `request` the
commit under way, which takes effect when `current` is written.

### 2.7 Timelines: TimelineChunks, TimelineStore, TimelineRegister, TimelineWindow

Messages are sequence numbers. `TimelineChunks` cuts a conversation into chunks of fixed size, whose id is their position
(ids are thus used again after a truncation), and pages of chunks.

In `TimelineStore` a generation of the timeline is an index of chunk files, which may lie in older
generations; `root` names the committed index and the compression generation. A host has what
it loaded (`loaded`, `world`, `seen`), what it acknowledged last (`base`, `savedBlocks`) and a save under way. `Save` takes the
difference of world and base and patches what the root names; `Publish` replaces the root; `Finish` acknowledges. `Recover`
and `Again` are the second attempt after another host had finished the same tool call first, with
`override` its result. Work under the root's lock that leaves no trace before the root is written is one action. `PublishFails`
is a failed write of the root, which may or may not have taken place; `Crash` loses a host.
`TimelineRegister` is the promise: a commit changes any number of records, each only from the
version its host knew; a call goes with its message; a truncation cuts at one place.

`TimelineWindow` is one panel that receives the stream of newest messages, the totals and patches
of commits (`SendTotals`, `Deliver`) and the pages it asked for (`Click`, `ReadPage`, `SendPage`).
The conversation itself and its saves (`Say`, `Truncate`, `Cut`, `Commit`) are its environment.

### 2.8 ClientPersistence

One conversation is a function from records to versions; 0 is no record. `world` is what the host has loaded and edited,
`disk` what is stored, `p` the fields of the class: the base, the projected state, the one waiting for a save, timers, the
retry count, the user of the gate. There is one save at a time (`SaveCommits` for timelines and, in either order, `ListCommits` for the
skeleton), beside it a flush of the timeline for a removal or inside a gate (`FlushCommits`), and a gate that
keeps saves out while a conversation is deleted or read for a model.
`Requests` come from outside (edits, `Open`, `Close`, `EvictStarts`, loads, gates, `ShutDown`); `Internal` is what follows by
itself; callers that were woken go on first (`NobodyWoken`), as micro-tasks do. No other host
writes: between hosts, `TimelineStore` and `SkeletonTransaction` speak.

### 2.9 DataRoot

Windows share a status file (`canonical`) and directories (`disk`). A window asks for
admission, takes the fence, reads the status, writes its lease and is admitted; its heartbeat
renews the lease (`BeatLands`, `BeatFails`). A shared call passes the gate and writes; a call that
moves the root has the gate alone, beats, takes the fence, compares the revision, checks the
leases at source and target, copies directory by directory, commits the status, beats again, cleans
the source. A lease can expire (`Expires`: the window was suspended), a window can crash, a
step of copying can fail. The lock behind the fence is never taken from the living here.

### 2.10 ClientSync

The contents of a stream are counts of what changed in it (text, messages, other records). `Pass`
is `ClientSyncSystem` in one pass: it answers resyncs, drops released streams, sends full
projections or fast patches, and defers the full projection while a model streams. `Attach`, `Detach` and
`Handles` are a panel and the hub; `Receive`, `FlushTimeline`, `FlushState` are the two stores of
a panel, which keep a batch until the next frame.

### 2.11 SettingsSync

Two sections, the table of configurations and the one that chooses among them, stand for ten. A panel has
a form, the base and revision it came from, a save on its way and one queued. `jobs` are the
requests in the host; a save carries a revision and is refused when another is stored; a
commit is published to all panels, and a panel merges record by record. Other windows' writes reach
the host through the watcher (`changed`). `touched` is history: what each user edited. So is `gaveUp`:
the edits a user took back by loading, and choices that wait for a configuration whose save was refused or that
came with another save (`BroughtBy`). With `EditsWhileLoading = FALSE` users edit what is on the screen and
nothing while the answer to a reload is under way.

### 2.12 McpRuntime and BackgroundCommands

`McpRuntime` has one chain of refreshes, each of which reads the settings, visits every server
(closes, connects, lists tools) and tells the world. Servers exit, requests fail, settings
cannot be read, and `Dispose` comes at any moment.

`BackgroundCommands` has, for each child process, the handle in its window and its record on
disk. Output is printed, persisted by a timer, and finalized when the child closes; the record has a heartbeat, after which
other windows judge whether its owner lives. Any window reads and kills; a window crashes or closes.
The index of records changes together with them; cached copies are left out.

## 3 The runs

| run | question | instance |
| --- | --- | --- |
| `scheduler` | Does an event ever lose its tick, do ticks overlap, does the loop rest with unseen changes, does an orderly stop return and lose nothing? | 3 events, `MaxIter` 3, one `stopAndDrain`, `dispose` at any moment |
| `runtime` | Do waves obey edges and keep conflicts apart, is feedback ever taken for a cycle? Does each job end by its own answer? Is a timeline a register that stays readable? Does the lock exclude, are its recoveries right? Do answers of child agents arrive once? | see below |
| `agent_main` | One stream at a time, no stream without its run, no message lost or doubled, input before call, stopped runs closed | 3 runs, 2 parallel tool calls (one of a background tool), 1 command of any stop or queue kind, 1 compression, context on disk |
| `agent_live` | Do started runs end and queued runs move, and do ended runs stay ended? | 2 runs, 2 serial tool calls (one of a background tool), 1 command of 8 kinds and retries, 1 compression, context on disk, fairness |
| `children_stop` | test name refuted: who interrupts a child is cancelled with it | 3 runs, 3 calls, 2 conversations, no user |
| `lock_three_calls` | Turns with errors; does the lock exclude, does a dead owner's file keep anybody, does every call end? | 2 processes, 3 calls, one process may die, slow creators, any system call fails |
| `lock_preempted` | comment refuted: recovery removes the file of a living owner | 2 processes, 3 calls, nothing fails |
| `skeleton_deferred` | test name refuted: a staged read fails | 2 hosts, no mishaps |
| `hosts` | Is the skeleton a register, do named snapshots stay whole, do awaited reads succeed and come from one snapshot? Are MCP servers connected as stored? Is output kept, and an end told once? | see below |
| `stores` | Does a move of the data root lose a write? Is an edit of the settings undone or forgotten? | see below |
| `persistence` | Is what is reported as saved stored, does eviction lose anything, do gates exclude saves, does every call return? | 2 records, 3 requests, 1 failing write, 1 retry, 2 attempts of shutdown |
| `panels` | Do panels show the world, without gaps? | see below |

A run with "refuted" expects TLC to find a counterexample; section 6 tells them.

The runs of several components, each with its own instance:

| run | component | instance |
| --- | --- | --- |
| `runtime` | `ScheduleCompiler` | 3 systems, 1 token, 3 read roles, 4 sets of mutation modes, every set of `before`/`after` edges |
| | `WorkerPool` | 4 jobs, 2 workers at most, 1 answer to nobody's job, dispose |
| | `TimelineStore` | 2 hosts, 5 messages in chunks of 2, 1 tool call, 1 compression block, 2 commits, 3 changes, 1 crash, failed write, late or unreadable file |
| | `StorageResourceLock` | 3 processes with a call each, one may die, slow creators |
| | `ChildAgents` | 4 runs, 3 calls, 3 conversations, depth 2, 1 stop or interruption by the user |
| `hosts` | `SkeletonTransaction` | 2 hosts, 1 startup and 1 deferred store, 3 snapshots, 1 mishap of 4 kinds |
| | `McpRuntime` | 2 servers, 2 saves, 2 faults |
| | `BackgroundCommands` | 2 windows, 1 process, 2 lines of output, 3 faults, 4 reads |
| `stores` | `DataRoot` | 2 windows with 2 calls each, 2 roots, 2 directories, 1 write, 2 moves, 1 load of the status, 1 fault |
| | `SettingsSync` | 2 panels, 2 configurations, 2 edits |
| `panels` | `ClientSync` | 2 panels, 1 conversation, 2 changes, 1 streamed delta, 2 openings, 2 messages on their way to a panel |
| | `TimelineWindow` | 2 or 4 messages at first, chunks of 2, pages of 1, 3 steps |

### What each property is for

Several properties are conjunctions of named parts, given here in parentheses; the first part is
usually the type of the state.

* `LoopHolds` (`TypeOK`, `OneTick`, `NoLostWake`, `StableWhenIdle`), `EveryEventDelivered`: `wake` does nothing while a tick runs; an event
  enqueued after the last comparison of versions, or by a hook, has a tick only because `runTick` looks at
  the queue again. `StableWhenIdle` has the exception the code has, a tick that gave up at
  `MAX_ITER`. `StopEnds` is the loop of `stopAndDrain`.
* `EdgesRespected`, `WavesConflictFree`, `CycleNeedsBackEdge`: the guarantee every system relies on
  silently, and that feedback between systems, which is common, is never reported as a cycle.
* `JobsHeld`: no job waits while a worker could take it, and a job is settled once, by its own worker's
  answer, failure or the end of the pool.
* `EndedStaysEnded`: systems write the status of a run from what they read; late answers,
  failing resolutions and commands for an ended run must all be dropped.
* `OneStream`, `NoOrphanStream`: promotion, stop, merge and late resolution never leave two
  streams, or a stream nobody reads, between passes.
* `InputInOrder` (`InputOnce`, `InputBeforeCall`), `InputNotLost`: queued messages move between runs when runs are
  merged or start; each enters the conversation exactly once, before its run calls.
* `EndedRunsAreClosed`: a stopped run leaves no mark, no queued message, no open call, background work
  excepted.
* `QueueMoves`, `RunsEnd`: no hold, compression, interruption or late context strands the queue.
* `ChildrenHold` (`AnswersArrive`, `InterruptedIsOver`, `BackgroundGoesOn`): an answer reaches its parent
  once, as a result or as a notification; an interrupted child is over; the stop of a parent spares
  what it was told goes on.
* `LockHolds` (`MutualExclusion`, `VerdictsAreRight`): heartbeats, cleanups, releases, a crash anywhere and the verdicts by age and by
  pid never let two callers in, nor take a file from its living owner; what does is a removal
  that hits another file than the one judged, or a slow creator. `InProcessExclusion`, `EveryCallEnds`: an error passes the turn on,
  once. `DeadOwnerRecovered`: nobody waits until the deadline for the dead.
* `SnapshotsHold` (`NamedSnapshotsWhole`, `OpensWhole`, `OneSnapshotRead`, `PinnedReadsSucceed`), `IsRegister` of
  `hosts`: what windows rely on when they load and save.
* `StoreWhole` (`RootReadable`, `ChunksAreCanonical`): the index finds every chunk whatever was collected,
  and a timeline saved in increments is cut as if written at once. `RecordsStand` (`FinishedStays`,
  `FirstResultStands`, `AcknowledgedIsStored`): hosts that save from different states take back no answer and no
  result, and know afterwards what is stored. `IsRegister` of `runtime`: all commits are those of `TimelineRegister`.
* `GatesHold` (`GateExcludesSaves`, `DeletedStaysUnlisted`), `SavedMeansStored`, `EvictionLosesNothing`,
  `EverythingReturns`: saves against gates, what "saved" means, and no caller that waits for ever.
* `WritesKept`: a write reported as done is in the root the status names, whoever moved it.
  `AdmissionHolds` (`AdmittedAgree`, `GateHolds`): admitted windows work in that root and say so on disk.
* `FormsHold` (`NothingForgotten`), `SavesHold` (`UneditedKept`, `ChoiceFollows`): every edit is stored, refused
  on the screen, waiting, or given up; a save changes only what its user edited; a choice is saved after what it chooses.
* `ConnectionsHold` (`SettledAsStored`, `TransportsAreHeld`): when the chain is empty, servers are as stored.
* `OutputHolds` (`Retained`), `ReportsHold` (`EndIsNews`, `KilledStaysGone`, `GivenWhole`): what a command printed
  can be read until it was, its end is told once, a killed one's record does not return, and output
  given out as complete is.
* `PanelsAgree` (`InStep`, `Converged`), `NobodyStarves`: a panel with a stream's number has its
  contents; at rest it shows the world; a conversation that streams does not keep others waiting.
* `WindowHolds` (`ShowsAStretch`): at rest a panel shows a stretch without gaps or ghosts.

### Bounds, and why they are enough

* Three events are an event being handled, one that arrives during the pass and one that arrives in the last
  window of the tick. Three passes reach the first, a middle and the last pass of a tick.
* Three systems are the least for a wave in which the candidate must be compared with two accepted
  ones, and for a cycle through a third system. One token suffices because conflicts and edges exist
  per token and are joined by disjunction; all sets of explicit edges stand for the others.
* Four jobs on two workers are two running, one that waits and one that comes while one waits.
* Three runs are one that has the conversation, and two in the queue, so that order, merging and promotion
  past another run all occur. Two tool calls make batches, and one call per batch entry done
  while the other is not. One command at any moment suffices for the hazards in which
  a command meets an answer or a pass; retries, which `MaxOps` does not limit, can meet another command in a batch.
  One message is put into a batch (`SendsAtOnce`). What `agent_main` checks is proved without these bounds (section 5).
* Four runs in three conversations are a parent, a child, its child and a notification.
* Three calls are the least for a lock file that is replaced between two system calls of a third party, and three
  processes for two that recover what a dead one left. Both races occur in `runtime` (65,860 states of the lock, in which
  two living calls do hold it after `"replaced"`); two calls of one process, which take turns, are in
  `lock_three_calls`. Beyond the runs, TLC checked the safety properties with four calls in three processes and failing
  system calls (3,024,722 states), and they are proved for any number (section 5).
* Three snapshots are a base, the one that replaces it and the one that makes the base collectable;
  one reader and one writer are the two hosts, and either may be both. Each run with one mishap at any
  point of a commit; mishaps are rare and independent.
* Five messages are two full chunks and a part of a third; two commits one over the other, of the two hosts; three changes let
  a host change what it has already sent.
* Two records tell a partial save from a whole one; three requests are a change, a request that waits for
  its save and one that comes between.
* A window that moves the root and one that writes are two; each has two calls, so that one waits at the
  gate behind the other; two moves are there and back.
* Two panels make every conflict of settings; two configurations are one that is chosen and one that is new.
* Two MCP servers are the one being connected and one that changes meanwhile. One command in two windows is
  owned and foreign.
* Two panels of one conversation subscribe to the same stream at different moments; gaps come from late subscription and
  from streams that are released and made again, no message to an attached panel is lost. A window of two chunks among three
  has something before, in and after it.

`CHECK_DEADLOCK FALSE` is set in every configuration because the systems rest: no events,
all calls done, every commit spent.

## 4 Fairness

* `Scheduler`: weak fairness of the `setImmediate` callback, of the end of a pass, of the yield and of
  the polling loop: Node runs callbacks and a wave ends (a worker that never answers is
  outside, section 7). Nothing obliges anybody to enqueue, to stop or to dispose.
* `AgentRunLoop`: weak fairness of `SystemStep` (the scheduler's theorem `NoWakeIsLost` and
  `EveryEventDelivered` justify it), of the provider (a stream ends or fails, an
  invocation resolves or fails: this is an assumption, the code has no timeout of its own), of tools, of context loads and of the end
  of a compression. Nothing obliges a user to do anything, nor the provider to call a tool.
* `StorageResourceLock`: each call runs, the work under the lock ends, time passes. No fairness among
  processes: a call that loses every race gives up at its deadline, as in the code. `Transience` is an assumption about
  the file system: a call that goes on opening, or writing, is not refused for ever (strong fairness of `OpenExclusive`
  and `WriteMetadata`). The code relies on it: it takes `EPERM`, `EACCES` and `EBUSY` for contention and, finding no lock file, tries again
  without a pause and without a look at the clock, so without it a call need not end (section 6).
* `ClientPersistence`: weak fairness of `Internal`, all that goes on without anybody asking: timers fire, reads and
  writes return or fail, woken callers go on. Weak fairness of the disjunction is enough, since each of its steps brings
  something to an end; users, panels and loads are not obliged to anything.
* The other modules are checked for safety only. `ScheduleCompiler`'s loop is synchronous; what the panels owe in
  the end is stated of states in which nothing is on its way (`Converged`, `ShowsAStretch`, `NothingForgotten`,
  `SettledAsStored`).

## 5 What is proved

TLAPS checks about 22,300 obligations in eight modules, for every value of the constants that
satisfies the named assumptions. Each proof has the same shape: an inductive invariant (`...Inv`), which TLC
confirmed on the instance of a run before it was proved; one lemma per action; the theorem by temporal logic.

| theorem | from | what the invariant adds |
| --- | --- | --- |
| `SchedulerProofs`: `LoopIsSound` (and its parts `TypeCorrect`, `TicksNeverOverlap`, `NoWakeIsLost`, `RestsAtFixpoint`) | `SchedulerAssumption` (`MaxIter` positive); any set of events | `SchedulerInv`: the four properties together, strengthened by `PassesLeft` (a running tick has passes left), without which the counter could leave its range |
| `ImplementsEventLoop` | the same | `StoppedIdle` (a scheduler that is stopped and not disposed has no tick running, so it drains nothing): each step is a step of `EventLoop` or stutters. Its liveness part is checked by TLC |
| `ScheduleCompilerProofs`: `ProducersFirst`, `ConflictFreeWaves`, `FeedbackIsNoCycle` | `CompilerAssumption`; any number of systems, tokens, declarations | `CompilerInv`: the range of the wave numbers and the three properties together. The cycle theorem takes the least remaining system: if it is not ready, the edge into it comes from a later one, so it was declared |
| `AgentRunLoopProofs`: `TypeCorrect`, `EndedRunsStay` | `BoundsAssumption`, `ToolsAssumption`, `BudgetAssumption`, `UnloadedAssumption`; any number of runs, calls, commands of every kind | `DraftKeepsEnded`: `EndedStaysEnded` is about committed worlds, while handlers write the draft; the commands emitted so far leave every run ended that the committed world has ended |
| `OneStreamHolds`, `InputInOrderHolds`, `NoOrphanStreamHolds`, `EndedRunsAreClosedHolds`, `InputNotLostHolds` | the same and `OrdinaryUse` | `TurnInv`, below |
| `StorageResourceLockProofs`: `TypeCorrect`, `InProcessExclusionHolds` | `TaskAssumption`; any processes and calls, any of which may die, any system call fails | `TurnInv`, a call that has its turn is the head of its process's queue; the queue is thus never popped when empty, and two calls with a turn are the same |
| `LockIsSound` (`LockExcludes`, `RecoveryIsRight`) | the same | `OwnerInv`, below |
| `StoresProofs`: `NoWriteIsLost`, `AdmissionIsSound` | `CallsAssumption`, `DirsAssumption`, `RootsAssumption`, `NoneAssumption`; any windows, calls, roots, directories and faults | `IInv`, below |
| `FormsAreKept`, `SavesAreSound` | `IdsAreNumbered`, `EditsAreCounted`, `~EditsWhileLoading`; any panels, configurations, edits, reloads and changes by other windows | `FormInv` and `SaveInv`, below |
| `ClientPersistenceProofs`: `GatesAreSound` | `RecordsAreNumbered`, `BoundsAreNumbers`; any records, requests, retries and failing writes | `IInv`, below |
| `SavedIsStored`, `EvictionIsSafe` | the same | `StoredInv`, below |
| `HostServicesProofs`: `ServersAreAsStored` | `Numbered`, `Apart`; any number of servers, changes of the settings and failing connections | `McpInv`, below |
| `OutputIsKept`, `ReportsAreTrue` | `NoneIsApart`; any number of commands, any amount of output and faults | `CommandInv`, below |
| `SnapshotsStayWhole`, `CommitsFormOneRegister` | `SnapshotsAssumption`, `HostsAssumption`, `WorldsAssumption`, `FilesAssumption`; any hosts, stores, records, commits and mishaps | `IInv`, below |
| `ClientSyncProofs`: `PanelsAgreeAlways`, `NobodyIsLeftBehind` | `BoundsAreNumbers`, `ConversationsAreNamed`, `NoneIsApart`; any panels and conversations, any number of changes, deltas, openings and messages under way | `Inv`, below |

**Turns of the agent loop.** `TurnInv` says that at most one run of the conversation is *engaged*, that is out of the
queue or marked for the model (`Alone`); that only an engaged run has a request (`CallsFit`) and only the
request of a run has a stream (`StreamsFit`); that a queued message belongs to a run that waits and is not in the
conversation (`InputsFit`, `CopiesFit`); and that a run that was stopped owes no answers (`Closed`). These are true of committed
worlds. Within a pass, a system has done part of its work to the draft, and `DraftFits` says what: each
system changes the world in its own way (`ToolChange`, `SendDraft`, `ResolveDraft`, `AnswerDraft`, `EndChange`), and
each of these relations leads from a sound world to a sound one, which is proved once per relation and not
per handler. Two facts speak of events under way: an invocation is resolved once (`ResolvedOnce`), and the
end of an answer comes from a request that was sent and is no longer streamed (`FinishedOnce`). TLC found
`TurnInv` to hold on the instance of `agent_main` and on one with serial calls, a forbidden tool, two runs and
two commands.

`OrdinaryUse` excludes four commands (`retry`, `pause`, `resume`, `toolCancel`) and more than
one message in a batch. It cannot be dropped: retries, a pause with its resumption, interruptions of single calls and several messages at once each
refute one of the five properties in the code as it is, and section 6 has the counterexamples. Users, the other commands, the provider, tools, late
contexts and compressions are unrestricted, and so are the numbers of all of them.

**Owners of the lock.** While the history is clean (`flaws = {}`), the lock file exists and is that of every living call
that has created one and not given it back (`FileInv`), so there is one such call. A file that has an owner and is old
has its metadata (`OldInv`); a recovery that saw its age will find it (`ReadInv`); so one that is about to remove a file removes
nobody's (`RemoveInv`). All that but for outdated recoveries, whose removal finds no file or ends the clean history. `BeatInv` and `DeadInv`
say that heartbeats in flight belong to calls that hold the lock, whose rename therefore keeps the owner, and that the dead run nothing.

**Moves of the data root.** `NoWriteIsLost` needs to know that a move sees all whom it concerns. A window that
is not *astray* (it did not lose its lease, and its own move did not fail half way) agrees with the status file, in
its memory, its lease and the lease it is writing (`AgreeInv`). So a move that has found no fresh lease on its source is
alone among windows that may write (`AloneInv`), and stays alone because admission needs the fence (`FenceInv`).
In its own window it is alone by the gate (`GateInv`: counts are right, the queue holds whom it should,
one call that moves is past it with nobody else). What the copy has passed over is in the target
(`CopyInv`), so the commit of the status loses nothing. `AdmissionIsSound` is the gate and `AgreeInv`.

**Forms and saves of the settings.** A save is sound for what its panel knew: what the form differs in from its base, and from
a save on its way, was edited here, and each revision has one content (`SaveInv`). `FormsAreKept` is harder,
because an edit passes a queue, a request, an answer and a snapshot, and each may be overtaken. `FormInv` says that a
save on its way is exactly one job or one message that will end it (`TokenInv`); that a section that was not read has its
snapshot on its way (`ComingInv`); that an edit is about to be sent, was sent, waits for a decision, or is
excused (`EditInv`); that a panel knows what is stored, or will be told, or the watcher has still to look, or
its save will be refused (`FreshInv`); and why a choice is not sent (`MissedInv`). Both theorems exclude
`EditsWhileLoading`, for which section 6 has a counterexample to `UneditedKept`. TLC found the invariants
to hold on 513,692 states (those of `stores`) and on 2,031,899 with five edits of one section.

**Commits of the skeleton.** Only the holder of the lock writes generations (`LockInv`), under an id newer than all
that is published (`IdsInv`). What a pointer or a pin names is whole (`NamedInv`, up to damage). A commit
that is not published has written its draft beside it (`TxnInv`): the references of stores it does not change are those of
the parent, which is still active. A load reads the snapshot it has opened or nothing (`LoadInv`). Collection keeps what is
named. For the refinement each action is mapped: `Begin` asks, `NothingToSave` agrees, `StageRead` loads,
`WriteCurrent` commits or fails in doubt, `WriteFails` fails, `Collect` confirms, `Crash` crashes, damage and what follows
falls back, and all other actions stutter. TLC found `IInv` to hold on 407,564 states.

**Gates of the persistence.** The two sections a gate protects differ: a read for a model lets no save run at all, a deletion has two
saves of its own. `GateInv` says whose the gate is (the head of its queue), that a save in flight inside it is one of these two,
and that a deletion goes from stage to stage only when its save has ended. `DeletedInv` is what keeps a deleted conversation
out of the list: not the disk alone must say so, but the save in flight, the state that is due, the one a failed save hands back (`Restored`)
and all that can be collected later, because the world has the conversation no more. A failed deletion is
taken back at once. TLC found `IInv` to hold on the states of `persistence`.

**What is stored.** With a clean history (no save failed, and no known flaw read or projected an unhydrated conversation) each record that
was not removed has one current version, that of the world, or that of the disk where the world has not read it
(`Current`). `StoredInv` follows it everywhere. A version that the persister takes for known is old or stored (`Fits`), and
what it is about to write does not take back the current one (`WriteFits`). What is projected is stored, or carried by the save in flight, and
a change beyond it has a save due (`SafeFit`). What the world lacks of the disk is still to be hydrated, by a load
under way or by the range the gate reads (`MissingFit`), and pages are as stored where they will be used (`LoadFit`). `LaneOrder` is what
makes the latter true: a flush that was under way when the gate closed is ahead of the gate's own in the lane, so it has committed before the
range is read. An eviction that nobody interrupts saves what it will discard (`EvictFit`, `EvictOrder`). TLC found `StoredInv` to hold on the 921,043
states of `persistence`.

**MCP servers.** `ConnectionsHold` speaks of states in which every refresh is over, and so says nothing while one
runs. The invariant says it by the work that is left: the refresh that no request asks to follow works for the settings
that are stored (`LastInv`; an older one will be followed), the servers it has visited are as it wants them
(`VisitedInv`), and those it has still to visit are compared with the plan they were connected by (`RestInv`,
`ConnsInv`). TLC found it to hold on 773,623 states.

**Commands in the background.** What a command has written is in its record, is in memory to be written, or the command was
killed or lost with its host. `RetainedInv` and `WholeInv` say which by the stage a command is in: a record that is missing or
short belongs to a command whose handle is marked for another attempt (`dirty`). So who reads the end of a command that is
not so marked gets all it printed, which is what `ReportsAreTrue` adds. TLC found `CommandInv` to hold on 425,111 states.

**Panels in step.** `PanelsAgree` compares what a panel has with what the host sent, between which messages are
under way, lost with a listener, replaced by snapshots and kept back for a frame. The invariant says that all of them tell one story
(`Linked`): there is a history, a content for each number of the stream, of which the stream has the last, the entry of
the panel that of the number it knows, and each message the step from one number to the next. The numbers
on their way to a panel follow one another and end with the stream's (`Channel`), so a panel that listens and has a
gap either is going to get a snapshot or has one promised (`Promised`: an event, a load or a debt of the host).
`TwinInv` ties the two stores of a panel together. `LastFits` ties what was projected last to the world: a clock that did not move
changed nothing, and text on the fast path is what the projection lacks. `NobodyStarves` is about one pass and follows
from `LastFits`.

**Only model-checked.** Liveness (`StopEnds`, `EveryEventDelivered`, `QueueMoves`, `RunsEnd`, `EveryCallEnds`,
`DeadOwnerRecovered`, `EverythingReturns`) needs fairness and ENABLED, which no installed prover handles. Safety not
yet proved: `StoreWhole`, `RecordsStand`, `IsRegister` of timelines, `JobsHeld`, `ChildrenHold`, `WindowHolds`. Facts by induction over data, such as what `Lineage` computes or what the
queue of `WorkerPool` leaves when it is drained, are not proved: no installed prover instantiates the induction theorems.

## 6 Where code and comments disagree

Three disagreements have runs that expect a counterexample; `PROJECT.json` quotes both sides.

1. `children_stop` — `ToolDispatchSystem.ts:934`. The run that notifies a parent of an answer is given the submitter as
   its source, and so counts among the submitter's children. When it calls `run_agent` with mode
   `interrupt` for that child, the tree that is cancelled contains the caller; `tests/runAgentInterrupt.test.cjs:25`
   says the caller stays alive.
2. `lock_preempted` — `storageResourceLock.ts:313`. Recovery takes the age of the lock file from a `stat` and its content from a
   later read. If the file is released and created anew in between, the age of the old file condemns the new, still empty
   one, whose owner is alive and goes on to hold the lock beside the next; :321 says a living owner is never preempted.
3. `skeleton_deferred` — `vscodeStorage/index.ts:485` (and :552). The deferred load is returned and not
   awaited inside `try`/`finally`, so the pin is released while stores are being read; two
   commits of another window collect what they read, unless a retention bucket keeps it. The test
   `clientStateSkeletonTransaction.test.cjs:269` says commits do not make a staged load fail.

Fourteen more were found with the constants given, on which TLC refutes the property; they have no run of their own.

| property | code | what happens | constants |
| --- | --- | --- | --- |
| `MutualExclusion` without its condition on `flaws` | `storageResourceLock.ts:324` | The removal acts on the path. Of two processes that recover the file of a dead one, the slower removes the new file of the faster, and both hold the lock; or, as in `lock_preempted`, nobody is dead | `runtime`, creators quick |
| `EveryCallEnds` without `Transience` | `storageResourceLock.ts:237` | An open that fails with `EPERM`, `EACCES` or `EBUSY` counts as contention; the recovery finds no file and returns true, and the loop goes on past its deadline, which :238 looks at only when there is a file, without the pause of :241, for as long as the error lasts. A write that keeps failing so and is cleaned up after does the same | 2 processes with a call each, `FileOpsMayFail`, `Spec /\ Fairness` |
| `OneStream` | `AgentRunLifecycleSystem.ts:212` | A retry makes a queued run that is already marked for the model; the queue sees a queued run later in the order, which blocks nobody, and activates another: two model calls of one conversation, which :326 says must not be | `MaxRuns = 3`, `MaxTools = 0`, `UserKinds <- RetryKinds`, `Unloaded <- Resident`, `MaxOps = MaxCompress = 0` |
| `NoOrphanStream` | `ToolResultSystem.ts:197` | Interrupting all calls of a message that still streams ends the run and not its request; :194 says it is as if everything had been interrupted | 1 run, 1 tool, `UserKinds = {"toolCancel"}`, `MaxOps = 1` |
| `ResultsReturned` | `ToolDispatchSystem.ts:347` | A forbidden call is settled while the message still streams; if the other call is interrupted then too, the answer's end sends the run to `waiting_tool` with no result left to come; :242 says the run goes on | 1 run, 2 tools, `Disallowed <- FirstTool`, otherwise as above, `FairSpec` |
| `UnloadedBlocksStay` | `conversationTimelineCommit.ts:429` | A save of a conversation whose tail alone was loaded writes exactly the compression blocks it has, so older blocks are dropped; `ClientStatePersistence.ts:335` says a partial base does not turn what was not loaded into a removal | 1 host, 3 stored messages, 2 blocks, tail only |
| `TailIsShown` | `useConversationTimelineStore.ts:475` | A shrunken timeline is detected by totals which a page read before may have replaced: the newest messages lie outside the window and are not shown; :428 says the live tail is never cut | `Start = {4}`, `MaxSteps = 2` |
| `RemovedStaysRemoved` | `ClientStatePersistence.ts:919` | A state whose save failed stays pending while a flush stores newer ones, and the timer then saves the old one, after a truncation: a removed message is stored again; :545 says truncations queue behind old snapshots | those of `persistence` |
| `SavedMeansStored`, `EvictionLosesNothing` without their condition on `"early"` | `ClientStatePersistence.ts:718` | The gate is one for all conversations. A read of a range that waits for it when the panel closes does not keep the conversation from being evicted (`BackendApplication.ts:1208-1250`); the flush that opens the gate then projects the emptied conversation against its full base and removes the stored timeline | those of `persistence`, `Records = {1}`, `Retries = 0`, `MaxOps = 5` |
| `EvictionLosesNothing` without its condition on `"failure"` | `ClientStatePersistence.ts:919` | A save fails, and its state stays pending while a flush stores newer ones; the timer saves the old state over them as another flush starts from the newest. The base then says newest where the disk is old, so the save of the eviction writes nothing and the newest messages are discarded | those of `persistence`, `MaxOps = 6`, `MaxFailures = 2` |
| `UneditedKept` | `useGlobalSettingsStore.ts:1130` | A reload forgets what the panel knows and leaves the form; an edit before the answer is sent with the revision the answer brings, and replaces what others stored; :864 says tables are joined | 1 panel, `MaxEdits = 3`, `EditsWhileLoading = TRUE` |
| `NothingForgotten` without its condition on `conflict` | `useGlobalSettingsStore.ts:1127` | A save is refused, and the stored section returns to the revision the panel has. The snapshot that should resolve the refusal only pumps (:1979), which `awaitingConflictSnapshot`, still set, prevents; the next edit deletes the message of the failure (:1162) and stays queued | 2 panels, `MaxEdits = 5`, edits of `"llm"` only |
| `RemembersLatest` | `globalStatus.ts:29` | A status read before the window's own move is remembered after it: the window works in the old root until the next load | those of `stores`, no fault |
| `GivenOnce` | `commandRunner.ts:271` (:289) | Two windows read the output of an ended command at once, and both give it out; the tool's description says once | 2 windows, no fault, 3 reads |

Behaviour the models contain and no run of its own shows, by component:

* *Agent loop.* Several messages in one batch find the conversation at rest, and each goes to the model
  (`SendsAtOnce = 2` violates `OneStream`; `docs/agentrun-unification-followups.md:620-621` wants the
  later one queued). Pausing a queued run and resuming it lets it call the model with its message still queued
  (violates `InputBeforeCall`). A run that is paused while its invocation is being resolved still sends its request and streams while
  paused (`llmRequestCleanup.ts:30`; `docs/agentrun-unification-followups.md:1106-1107`); the shipped
  interface does not send `agentRun.pause`. A run that fails keeps the tool calls its answer had announced open;
  `EndedRunsAreClosed` speaks of cancelled and stale runs.
* *Scheduler.* `buildWaves` may put a conflicting system that was registered later in an earlier wave, when the
  other one waits for a producer (`Scheduler.ts:482`; the comment at :83 speaks of registration order).
* *Child agents.* The stop of a child also cancels the parent's response to its answer. The description of
  `submit_agent_answer` (`definitions/agentAnswer/index.ts:23`) says a background submission interrupts a responding parent;
  the code has `promoteIfActive: false` (`ToolDispatchSystem.ts:936`). No timer wakes the scheduler when
  `foregroundWaitMs` has passed. Two parallel calls that continue one idle child start two responses. An interruption looks at
  the active runs of the child's conversation, so grandchildren of an earlier, ended run go on. Retrying a parent or marking
  it stale ends its open `run_agent` calls without touching the children.
* *Skeleton.* A crash in the first commit of a store leaves traces without a pointer, and the store refuses to
  open from then on. This is deliberate, and no code clears it.
* *Persistence.* A change that is projected while the conversation cannot be persisted is not collected again by itself; a
  load of details outside the gate resets the base; a flush is awaited neither by gates nor by the deletion.
* *Data root.* The heartbeat after the commit of a move is essential; a failure between the two leaves a
  lease that names the old root. A window that was suspended writes to the old root until it loads the status. A partial
  copy after a crash makes the target refused.
* *Settings.* A rejected save is not sent again, and the next snapshot clears its message; a choice that waits for a
  configuration somebody else deleted waits for ever; a conflict on the screen is not renewed when the stored section returns to what it was.
* *MCP.* A transport is left open when the tools cannot be listed; a refresh that runs at `dispose` leaves a server
  connected; an exited server stays "connected" until its configuration changes (`mcpRuntimeManager.ts:77`); other windows'
  saves do not refresh; a server that never answers blocks the chain (:85).
* *Client synchronisation.* A gap is answered by a resync of the current conversation, not of the stream with the gap;
  snapshots for conversations nobody opened create streams that nobody releases.

## 7 What is not modelled, and why

* What a worker thread computes and its copy of the world (`SystemWorker`, `SnapshotWorldReader`): data without a state that
  outlives the job. A worker that never answers keeps the tick for ever; there is no timeout.
* Exceptions of systems (`Scheduler.ts:241`) and of effect handlers, which lose commands, events or later effects.
* Checkpoints and their barriers, approvals and plan reviews: part of the time a tool takes. The selection of history for a
  compression. Message edit, delete and retry: they rewrite messages at rest and then use the commands `AgentRunLoop` has; the stored side of a
  truncation is in `TimelineStore` and `TimelineWindow`.
* Conversation history entries, which follow the timeline's commits; `withLockedClientStateSkeletonSnapshot`, a
  collection outside a commit, the writes of a failed commit that `Promise.all` leaves running.
* The inside of a durable write: a temporary file, sync and rename. A write is one atomic step of the models, as a rename is.
* Run history, the hydration of the skeleton's record tables, forks and the start of `BackendApplication`; the closing
  of a window, which deletes its lease while it still saves; the resolution of paths.
* The projection of the world to panels and files: functions with caches per component version. `ClientSync` and
  `ClientPersistence` take their results as given.
* The configuration modules of the world and most of the message router: one record, one system, no concurrency.
* Retries and wire formats of the provider, prompts, shells, git, diffs, processes, proxies, the Vue frontend, VS Code
  glue, `shared/protocol.ts`: functions, types, or input and output without ordering of their own.

## 8 Plan

Written, in this order: the lock (everything on disk rests on it), the scheduler and its
compiler (everything in memory rests on them), the agent loop (the program's purpose), the skeleton
transaction (its memory), persistence, timelines, data root, worker pool, synchronisation, settings, MCP and commands,
child agents; then the proofs of section 5.

Next:

1. Invariants of `TimelineStore`, and `SettingsSync` with `EditsWhileLoading`.
2. The agent properties in wider use: `EndedRunsAreClosed` and `InputNotLost` do not need all of `OrdinaryUse`.
3. `durableWrite`: write, sync, rename and directory sync against a crash; abstract: old or new content.
   It justifies the atomic file writes of the other modules.
4. Further commands of the agent loop: message edit, delete and retry, barriers and approvals.
