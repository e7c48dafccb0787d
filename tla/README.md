# TLA+ models of the agent core

This directory models the concurrent core of the agent server in
`src/packages`: the loop that drives an agent through turns and steps, the
scheduler that runs the tool calls of one step, the registry of background
jobs with their output and the notices that tell the model of their completion,
the storage runtime that keeps a session's log on disk, and the repair of that log
after a crash. The models are checked with TLC on small instances, and their
safety properties are proved with TLAPS for every value of the constants.

Contents: [the system](#the-system), [modules](#modules),
[the agent driver](#the-agent-driver), [the tool batch](#the-tool-batch),
[the job registry](#the-job-registry), [completion notices](#completion-notices),
[job output](#job-output), [the session storage](#the-session-storage), [crash and repair](#crash-and-repair),
[runs and bounds](#runs-and-bounds), [fairness](#fairness), [proofs](#proofs),
[where the code and its comments disagree](#where-the-code-and-its-comments-disagree),
[not modelled](#what-is-not-modelled), [plan](#plan).

## The system

The program is a TypeScript monorepo. Everything runs in a JavaScript event
loop, so "concurrency" means: a function is suspended at an `await`, and
anything else may run before it resumes; and a function that emits an event
runs every listener before its next line, and a listener may call back.

| component | state it keeps | operations | depends on | what is hard | what makes it correct |
|---|---|---|---|---|---|
| agent driver (`core/agent-loop/src/agent.ts`) | phase (idle, maintenance, running), abort controller, wake latch, turn and step counters | `send`, `followup`, `steer`, `cancel`, `whenIdle`, `runMaintenance`; `kick`, `turn`, `preStep`, `step` | inbox, session log, model provider, tool executor, listeners | cancel and send at every await and inside listeners; wakes that arrive while the driver winds down | no wake lost, one prompt per turn, no work after a cancel, a log that can be replayed |
| inbox (`core/agent-loop/src/inbox.ts`) | two lists, next-turn and next-step | insert, claim, remove, clear, replace, prepend | driver | claim against withdrawal and clear | every message in one place |
| recovery, repair, fork seeds (`core/session/src/repair.ts`, `fork.ts`) | unanswered tool calls of the open step | observe, results, closers | driver, resume, fork | a failure or a crash between call and result, or inside a repair | every call is answered exactly once and truly |
| checkpoint policy (`session/session-checkpoint-policy`) | | flushes before a step, a model request and a tool body | storage, driver, batch | a crash after a side effect | what a request or a body was given is stored |
| turn projection (`core/agent/src/projection.ts`) | open turn, open step | fold of boundary events | log readers | accepts only well-nested logs | the driver writes only accepted logs |
| tool batch (`core/tools/src/batch.ts`) | groups, rolling pool, result slots | classify, start, commit, race, drain, skip | pipeline, registry, log | settlement order, abort, failure with bodies running, registry changes | model order, bounded pool, lone exclusive call, no body outlives the batch |
| tool pipeline (`core/tools/src/pipeline.ts`) | cancellation state of one call | prepare, dispatch, complete | policies, wrappers, tool body | cancel racing a result | a cancelled result says truly whether the body ran |
| job registry (`jobs/jobs-local/src/index.ts`) | job records, waiters, owners | start, kill, wait, settle, remove, dispose | subprocesses, session events | wait timeout, kill and teardown against settlement | one settlement, every waiter released, nothing runs after teardown |
| job output ring and pump (`jobs/jobs-local`) | retained tail with absolute offsets | append, trim, read, drain | registry | read cursor against trimming | no byte shown twice or silently lost |
| job tools (`jobs/tool-jobs/src/index.ts`) | pending completions, suppressed settlements | `job_output`, `job_kill`, notices | registry, driver | wait, kill, read and notice all see one settlement | it is told to the model once |
| agent lifecycle (`core/agent-loop/src/index.ts`) | publication window, disposal | create, publish, dispose | driver, log | teardown overtakes publication | no half-published agent |
| session log (`core/session`) | append-only log, surface | append, attach, replace | all of the above | an observer appends | one order for all observers |
| session storage (`session/session-persistence-jsonl`) | log file, kernel lock, write claims; per handle a mutation chain, a live buffer with timer and drain, cursor and torn tail | create, open, append, live events, flush, close, delete | log, file system, other processes | a crash at any await, failing writes, two writers, a timer against close | one writer at a time; no event lost, repeated or out of order; what was acknowledged survives |
| subagents, schedule, approvals, goals, compaction, retry, storage, workspace, credentials | see `PROJECT.json` | | agent core | each is a protocol of its own | listed under the plan |
| adapters, clients, shells, vendored code | | | | | outside the plan |

How they interact: a client calls `send` on an agent handle. The driver puts
the message in its inbox and, if idle, starts `kick`, which runs turns until
the inbox is empty. A turn claims messages, asks plugins (`agent/pre-step`),
and enters steps; a step appends the messages to the log, streams a reply from
a provider and hands its tool calls to the tool executor, which appends
`tool/call` and `tool/result` events. `cancel` aborts the controller of the
phase; everybody below observes that signal. Sessions, jobs, subagents and
goals are plugins that hold listeners and call `send`, `cancel` and
`runMaintenance`.

`PROJECT.json` lists every component with its status, and the hazards of the
modelled ones at their lines.

## Modules

| module | models | uses |
|---|---|---|
| `Transcript` | abstract: the log of turns, steps, messages and tool calls that the log's readers accept | |
| `AgentDriver` | `ReactLoopAgent`, `Inbox`, `ToolCallRecovery` | |
| `AgentDriverProps` | what the driver promises; the inductive invariant; fairness | `AgentDriver`, instance of `Transcript` |
| `AgentDriverProofs` | theorems for every value of the constants | `AgentDriverProps` |
| `ToolLedger` | abstract: the `ToolExecutor` contract as the calling step sees it | |
| `ToolBatch` | `executeToolBatch` with the stages of the pipeline | |
| `ToolBatchProps` | what a batch promises; the inductive invariant; fairness | `ToolBatch`, instance of `ToolLedger` |
| `ToolBatchProofs` | theorems for every number of calls and every limit | `ToolBatchProps` |
| `JobLedger` | abstract: what the registry promises of each job and owner | |
| `JobRegistry` | `LocalJobRegistry` | |
| `JobRegistryProps` | what the registry promises; the inductive invariant; fairness | `JobRegistry`, instance of `JobLedger` |
| `JobRegistryProofs` | theorems for every set of jobs, waits and owners and every limit | `JobRegistryProps` |
| `JobNotices` | `tool-jobs`: the settlement listener, `job_output`, `job_kill` | extends `JobRegistry`: composes the plugin with the registry |
| `JobNoticesProps` | what the tools promise the model; the inductive invariant | `JobNotices`, `JobRegistryProps` |
| `JobNoticesProofs` | theorems for every set of jobs, calls and owners and every limit | `JobNoticesProps`, `JobRegistryProofs` |
| `JobOutput` | `OutputRing`, `JobOutputPump`, the model's cursor and the trims of the registry | |
| `JobOutputProps` | what the ring promises the model | `JobOutput` |
| `JobOutputProofs` | theorems for every number of sources, every cap and window and any amount of output; the inductive invariant | `JobOutputProps` |
| `DurableLog` | abstract: what the persistence seam promises of one stored session | |
| `SessionHandles` | `JsonlSessionHandle`, `JsonlBackendTracker`, `SessionWriteLease`, the file operations of one session | |
| `SessionHandlesProps` | what the storage promises; the inductive invariants; `Guarded` | `SessionHandles`, instance of `DurableLog` |
| `SessionHandlesProofs` | theorems for every set of handles, processes and callers | `SessionHandlesProps` |
| `SessionDurableProofs` | durability: the refinement of `DurableLog`, and flushes | `SessionHandlesProofs` |
| `SessionRepair` | the log over crashes: what driver and batch append, the checkpoint policy, `resumeWith()`, `openTurnClosers()`, `buildForkSeed()` | |
| `SessionRepairProps` | what the log promises over crashes, repairs and forks | `SessionRepair`, instance of `Transcript` |
| `SessionRepairProofs` | theorems for every number of calls, turns, steps and faults | `SessionRepairProps` |
| `MCAgentDriver`, `MCToolBatch`, `MCJobRegistry`, `MCJobNotices`, `MCJobOutput`, `MCSessionHandles`, `MCSessionRepair` | instances for TLC | the `Props` modules |

Operators whose name begins with `Fault` are single mistakes in the operator
that follows them. They are used by no specification; substituting one for its
operator must break the property named with it under `mutants` in
`PROJECT.json`, which shows that the property can tell the code from a wrong
version of it.

## The agent driver

`pc` names the place where the driver rests. Places are of two kinds. At most of
them the code is suspended in an `await` (`agent/pre-step` listeners,
`prepareRequest`, the provider's stream, `agent/request-error` and
`agent/turn-stopping` listeners, the tool executor, the microtask of `kick`);
at the others it has emitted a notification whose listeners run now
(`turn/start`, `step/end`, `turn/end`, `agent/error`, the running status). An
action is the whole synchronous span to the next place.

| `pc` | code |
|---|---|
| `opening` | `kick()`, about to call `turn()`: status listeners run |
| `loop` | top of the step loop of `turn()` |
| `resolving` | `preStep()`: model resolution and the `agent/pre-step` listeners |
| `decided` | `preStep()` returned its decision; `turn()` resumes a microtask later |
| `preparing`, `streaming`, `requestError`, `tools` | the awaits of `step()` |
| `recovering`, `stepFailing` | the inner `catch` of `turn()`: results for unanswered calls, then `step/end` |
| `stepClosed`, `stopping` | after `step/end`; `agent/turn-stopping` |
| `catching`, `reporting` | the outer `catch`; `agent/error` listeners before `turn/end` |
| `turnEnded` | after `turn/end`, at the last look at the inbox |
| `exit` | `turn()` returned false; `kick()` resumes a microtask later |

The environment may act at every place: `Send` (any target, waking or not),
`Withdraw`, `Cancel` (any cause, with or without the inbox) and maintenance.
Three notifications leave a synchronous frame suspended, and what their
listeners do is modelled too. `sending` is a `send()` whose insertion listeners
run before its `wakeDriver()`; `clearing` is a `cancel()` whose `inbox.clear()`
empties one list after the other, each before the `agent/inbox/discarded` listeners of its
messages run, and all before the latch is dropped and the controller aborted (`clearCause` is its
cause, `held` tells whether a driver waits below it); `settling` is `kick()`'s
`finally` whose idle-status listeners run before a latched wake is replayed. A
`cancel` inside an insertion listener, a waking `send` inside a `cancel`, or a whole new activity
started inside a listener is therefore part of the state space.

`phase`, `signal`, `wakeRequested`, `turn` and `step` are the fields of `Phase`.
`signal` is the reason of the current abort controller: `"live"`, or the
*first* cause passed to `abort()`, as an `AbortController` keeps it. The inbox is
`nextTurn` (a sequence) and `nextStep` (a set: nothing here depends on the
order of steering input). The log is the fold its readers compute: open turn
and step, unanswered calls, the last ending, and how often each message was
appended. Histories (`fate`, `woken`, `gap`, `amid`, `owed`, `exitedBy`, `disposing`,
`hitMax`, `ordinary`, `unread`) serve the properties; only `fate` is read by a guard, so
that a message identity is sent once.

Details of other packages that the driver depends on are modelled as outcomes:
a reply cut off by the token ceiling loses its tool calls, and the interrupted
prefix of a reply carries none (`llm/llm/src/assembler.ts`); the tool executor
answers or throws after draining, which `ToolBatch` shows of the real one;
teardown passes `disposed` with `keepInbox` only while publication holds the
agent in maintenance (`core/agent-loop/src/index.ts`).

What it promises:

- `InboxKept`: a message is in one inbox list, in the proposed step, or
  at its end, and is appended to the log at most once, however often the
  request of its step is retried (`MessageAccounting`); a turn takes one prompt,
  over all its steps (`SoleOrdinaryMessage`).
- `TranscriptWellFormed`: the driver implements `Transcript`. Turns and steps are
  numbered consecutively and do not nest, and no step closes with an unanswered
  tool call, also when it fails or is cancelled.
- `NoWorkUnderAbort`: after a cancel nothing new begins.
- `EndingsHonest`: a turn whose signal was aborted while it ran is not recorded as completed,
  truncated or blocked, an aborted ending carries the first cause, and a
  truncated turn is not recorded as completed, whatever its later steps do. The code keeps the first
  part but for one microtask, which is excepted (`DecidedBeforeAbort`, see
  [below](#where-the-code-and-its-comments-disagree)).
- `WakeLatchExact` (`LatchedWakeDelivered`, `LatchJustified`), `DisposedStaysParked`: a wake behind
  maintenance or an aborted activity starts the driver afterwards; input queued
  before a `keepInbox` cancel does not; a disposed agent is left alone. Messages that a listener sends
  from inside a `cancel` that clears the inbox (`amid`) are excepted, as their latch does not survive it.
- `DrainedQueue`: nobody's waking message is left behind, but for the gap
  described below.
- `TurnCloses`, `CancelConverges`: liveness.

## The tool batch

`pc` is again the await (or append) at which the scheduler rests: `classify` is
the head of `executeToolBatch`'s loop, `fill`, `commit` and `skipping` are the
loops of `runGroup`, `commitReady` and `skip`; `preparing`, `completing` and
`racing` are the awaits of `prepare()`, `complete()` and `Promise.race`; `started`
and `committed` are the microtasks after which a caller looks for a recorded
failure; `draining` is `Promise.allSettled`. Tool bodies run on their own
(`body`: wrapped by around-policies, running, done), the caller may abort at any
await, and the registry may change a call's execution mode at any await.

A call has one of four outcomes: success, error, cancelled after its body
began, cancelled before. `Cancelled` is the rewriting of a success under an
aborted signal, which both `dispatch` and `complete` do.

What it promises:

- `LedgerKept`: the batch implements `ToolLedger`, the contract of `ToolExecutor`. It
  returns only with every call answered, in order, rejects only when
  nothing runs, so a failed batch cannot write into a later step, and records no call
  for starting once its caller aborted.
- `ResultsInModelOrder`: whatever order bodies settle in.
- `OverlapBounded`: at most `MaxParallel` bodies; a call that was
  exclusive when it started is alone, even when modes change meanwhile.
- `CancellationHonest`: a result that says "before dispatch" belongs to a call whose
  body was never invoked.
- `BatchEnds`: liveness.

Assumptions: an around-wrapper calls `next()` at most once; `Promise.race` may
report any settled dispatch; an append may fail where a call starts or is
committed, and does not fail while skipped calls are written.

## The job registry

Every operation of `LocalJobRegistry` is synchronous up to its first await, but it notifies
while it works: `settle()` appends `job/settled` to the owner's session, whose observers
run before the waiters are released, and the loops of a teardown emit `stopping` and
`removed`. What such a listener calls is a step of the model taken while `stack` is
not empty: `SettleRecords` pushes a frame that `SettleReleases` pops, and a
teardown rests in a frame while it cancels (`CancelVictim`) and while it drops
(`DropVictim`). Frames nest, as when a cancel hook that throws settles a job inside the
cancelling loop. Promise continuations and timers (`ProducerSettles`, `WaitReturns`,
a timeout, `BeginDrop`) need an empty stack.

| state | code |
|---|---|
| `store`, `owner`, `status`, `settleCause` | the map of records and their fields |
| `producer`, `cancelled` | the `done` promise of the hooks; whether `cancel()` returned |
| `resolvers`, `wait`, `waitJob`, `seen` | `waitResolvers`; each call of `wait()`, its job, the status it answered |
| `settled`, `announced`, `recorded`, `cause` | the `settled` promise; the event's `awaited` flag; durable records; announced cause |
| `scope`, `ownerCleanups`, `teardown`, `victims`, `todo` | the owner's scope; attached cleanups; progress of `disposeOwned` and `disposeAll` with their snapshot |
| `served` | history: waits a settlement released |

`ensureOwnerCleanup` succeeds if the cleanup is attached already or the scope still
takes effects; the cleanup deletes its entry *before* it disposes, so a `start()` from a
listener of the teardown finds neither. Job controllers unload with the
service, but only after the synchronous loop of `disposeAll()` returned: a `start()` from a listener of
that loop succeeds (`ServesOwner`), and its job is outside the snapshot. If it has an owner, the
service's detaching of the remaining cleanups still cancels it; an unowned one outlives the
registry. `ServesOwner` ends where the drop begins, which leaves room for the
microtasks the unloading takes.

What it promises:

- `LedgerKept`: the registry implements `JobLedger`. A job is registered within its owner's
  limit and never for an owner that is gone, settles once with the first
  outcome and one durable record, is removed only when settled, and an
  owner's disposal ends when none of its jobs is left.
- `WithinLimit`: counted over `running` and `stopping` jobs.
- `WaitsAnswered` (`WaitersReleased`, `AwaitedMeansServed`): a settlement leaves no wait behind, and its
  `awaited` flag is true exactly when some wait will return the terminal state.
  The completion notices depend on that flag.
- `OwnerLeavesNothing`: a disposed owner owns no job.
- `TeardownEnds`: liveness, with cancel hooks that throw.

## Completion notices

`JobNotices` extends the registry with the plugin of `tool-jobs`. Where the plugin listens
to the registry, its action contains the registry's (`Settled` is `SettleReleases` and the
listener in one step; `Removed` is `DropVictim` and the listener); where it calls the
registry, likewise (`ModelKills`, `OutputWaits`, `InputReleases`). Other steps of the
registry are `RegistryAlone`.

Two facts are followed for each job: that its completion is `told`, and where the
output is that its first read after the settlement consumes. The output is unread in
the registry, held by a pending notice (inside its text, or aside because the notice
would be too long), carried by the result of a `job_output` call, or shown. Output
consumed earlier, while the job runs, is not followed.

- `CompletionReaches`: after the settlement of a job of a live owner, a kill result
  told of it, or a notice was queued, or a `job_output` call covers it.
- `OutputOnce`: the output is in exactly one place, so races of reads, waits,
  claims and notices neither lose nor repeat it.
- `ToldOnce`: what a released read collected is not announced as well, and a notice
  of a listed job is logged only if no result covered it before.

The owner's inbox appears as what it does to a notice (`NoticeLogged`,
`NoticeDiscarded`) and the tool pipeline as what it does to a result
(`ResultCommits`, `ResultReplaced`). A notice is logged only between the calls of a step, as
the driver admits messages before it asks for tools.

## Job output

`JobOutput` is the path of one job's output. A chunk is the range of absolute byte
offsets it covers, the stream it came from and the place in that stream; its text
is left out, and the part of a code point that a cut may not split is the choice of up
to `CharSlack` bytes in `Cuts`.

| state | code |
|---|---|
| `chunks`, `retainedBytes`, `total`, `earliest` | the fields of `OutputRing` (`ring.ts`) |
| `pump`, `next`, `cursor`, `failed` | `pumpSources`: the round, the source it reads next, the sources' cursors, the sources that threw |
| `modelCursor`, `lastRead` | the record's `modelCursor`; the last answer of `readJob` |
| `status`, `producer` | settlement; the `done` promise of the hooks |
| `written`, `pushed` | external: how much each stream has produced |

A round reads its sources one after the other and an append announces itself to
listeners, so reads, writes and a settlement may come between two sources. A trim counts the
head chunks that go with the sums of `Before`; a read is the set of chunks it shows, as their offsets give their order. A source keeps
`SourceWindow` bytes for late readers and reports a gap behind it (the external part).
The registry settles after the pump's last drain (`ProducerSettles`), or at once when a
teardown's cancel throws (`ForceSettles`), and what comes later is refused by `appendRing`.

- `LossHonest`: a read starts where the last one ended, shows no byte twice, and shows everything
  from its cursor on unless it says `lossy`; in the ring, bytes that a source lost are marked; and
  between two reads, however many trims lie between them, each stream goes on where the first left it,
  or behind a gap mark, unless the second says `lossy`.
- `SettlementKeeps`: the trim of a settlement takes nothing the model has not read, and
  unless it was forced every byte of every source has been offered to the ring.

## The session storage

`SessionHandles` is one stored session on one root: the file, the kernel lock on its
directory, and the write handles of one or several processes, each of which is
constructed, used, closed and possibly killed.

| state | code |
|---|---|
| `exists`, `log`, `tail`, `torn`, `encoding` | the file: committed records, the complete records of a torn last frame, whether there are torn bytes at all, the physical encoding |
| `lock`, `held` | `SessionWriteLease`: the `flock` and the handle's `lease` field |
| `claim`, `born`, `deleting` | the tracker's `writers` map of each process; the id was minted; a `delete()` past its check |
| `phase`, `home` | how far `open()` and `close()` have got; the process |
| `materialized`, `cursor`, `tornSeen`, `recovered` | `StorageHandleState`: `materialized`, `nextSeq`, `truncateTo`, `recoveredTail` |
| `buffer`, `timer`, `paused`, `drain` | `buffered`, `batchTimer`, `drainPaused`, `draining` with its outcome |
| `chain`, `stage`, `batch`, `waits` | the promise chain: the queued turns, the await the first has reached, its events, the turns `close()` still awaits |
| `live`, `pub` | the session was announced; its last event |
| `asked`, `on`, `mark`, `late` | each caller of `session/flush`: state, handle, the event it must find durable, whether it came late (below) |
| `acked`, `orphans` | history: the last acknowledged event; the handles whose locked file a `delete()` has removed |

An action is what runs from one await to the next. `close()` is the phases `draining`
(it awaits a drain), `settling` (it awaits the chain and looks again), `finishing` (it awaits
the chain after a failed drain or an empty pass), `releasing` (the lock is gone, the claim is not),
`closed`. An `open()` is `claimed`, `leased`, `open`. A write is `lease`, then as needed `truncate` and
`recover`, then `write`, or `header` for the flush of an empty session.

The fault model: each file operation may fail (`IOFails`), leaving the file as it was,
truncated but not synced, or published but without a synced directory. A process may die at
any await (`Crash`): the kernel drops its lock, and an append in flight has left any whole
lines or, for zstd, a frame of which any number of complete records can be recovered. Contention
on the lock and the failure of an `open()` are ordinary steps. Producers may publish while `close()`
waits, as its comment says.

- `OwnedWrites`: until its `close()` lets go, a handle changes the file only as the holder of the
  kernel lock, unless its locked file was deleted. The theorem holds for both values of both
  constants below; the run checks an instance with both FALSE.
- `NoEventLost`: every published event is in the log, in the batch being written or in the
  buffer, once and in order; and a buffered one has a timer, a drain or a reported failure
  that stands for it.
- `FlushDurable`: a resolved `session/flush` covers everything published before the call.
- `DurableKept`: the runtime implements `DurableLog`: the log a reader finds is a
  prefix of the session's events, grows by whole batches, shrinks only by unacknowledged
  records, and never loses an acknowledged one.
- `CloseEnds`, `FlushAnswered`: liveness. `close()` has no limit of its own: it drains as
  long as a pass finds events, so it ends because the producers do (`MaxSeq`); one that
  published during every pass for ever would starve it.

Two constants name what the code does beyond these promises. `LateDrain` lets a drain
begin when `close()` no longer looks: a timer armed after the last pass, or one after a failed drain.
`DeleteLive` lets a `delete()` past its check remove the directory of a session that some process
claims; the check sees the writers of its own process only, once. Both really happen (below). A late
drain writes without the lock, and a deletion takes the lock file from under a writer, so `NoEventLost`,
`FlushDurable`, `DurableKept` and the theorems about them state what holds without the two
(`Guarded`): no late drain at all, and no deletion while any process claims the session. They
say nothing of a session in which one of them has happened. `OwnedWrites` is proved without `Guarded`: it says
that the handles still serving keep the lock beside such drains and deletes, and leaves
out the two writers that have lost it. `doc_single_mutator` shows the first of them at work.

## Crash and repair

`SessionRepair` follows one session's log through crashes. It keeps of the driver and the
batch what they append, and the three places where `session-checkpoint-policy` awaits
`session/flush`; it takes the storage at its word (`DurableLog`): a crash leaves a prefix of the
log that holds at least what was acknowledged.

| state | code |
|---|---|
| `log` | the events; each with the fold of the log up to it, as its readers compute it: `openTurn` and `openStep` of `openTurnClosers()`, `pendingCalls` of `ToolCallRecovery`, `lastTurn` of the turn boundary |
| `acked` | how much of it the storage has acknowledged |
| `phase` | a live driver; no process; `resumeWith()` at work; a fork seed being written |
| `pc`, `body`, `callSeq` | where `turn()` rests; the batch's slots and the sequence numbers of their `tool/call` |
| `loaded` | `persisted.length` in `resumeWith()` |
| `sent`, `ran` | history: the steps whose request went to a provider, the calls whose body ran |

The closers are appended one at a time although the code appends them as one batch: a batch of
which a crash leaves a part is thereby included, and the next resume closes the rest. A
resume awaits its appends before it publishes the agent (`Awaited`). After `Fork` the model follows the
child, whose seed is the source's prefix with the marker and the closers of cause `forked`. A
turn's number comes from the log (`lastTurn`), so a step that a crash took away could be opened
again under the same numbers.

- `StoredTranscript`: the acknowledged log evolves as a `Transcript` over every crash and
  repair: consecutive numbers, nothing nested, each requested call answered once and before its step closes.
- `RecoveryHonest`: a result that says that its call never started belongs to a call whose body
  never ran, in this process or one that crashed. It rests on the flush before the body.
- `StepsFresh`: the numbers of a step whose request was sent are never given to another. It rests on
  the flushes before a step and before a request, of which the second alone would do.

A `forked` result may be given for a call that ran in the source session; its wording says so, and
`RecoveryHonest` is about the cause `interrupted`. The caller of `session/flush` that comes too
late (`late` in `SessionHandles`) is not the flush of a tool call here: several microtasks
separate its `tool/call` from the flush, and the gap is one.

## Runs and bounds

| run | instance | what it shows |
|---|---|---|
| `driver_log` | 2 messages, 2 tool calls, 2 steps, 1 retry, 2 causes | wakes, latches, parking and withdrawal: one message in the inbox or sent inside a listener while the other is claimed; the log: mixtures of requested, started and answered calls under failure and cancel; a retry; steering that continues a turn |
| `driver_live` | 2 messages, 1 call | liveness under `FairSpec` |
| `tool_batch` | 3 calls, limit 2, 1 registry change | a full pool with a waiting call, a group boundary after each position, one reclassification at every await |
| `tool_batch_live` | 2 calls, limit 2 | every batch returns or rejects |
| `job_registry` | 2 jobs, 1 wait, 1 owner and the unowned bucket, limit 1 | a second start against a job that is stopping or settling, from every listener; a wait against every settlement; both teardowns overlap |
| `job_teardown_live` | 2 jobs, limit 2 | a teardown ends, also when it begins inside another |
| `job_notices` | 1 job, 2 `job_output` calls, 1 owner | every order of settlement, release, read, cancel, notice; one wait leaves while another is served |
| `output_ring` | 2 sources, caps 3 and 1, window and slack 1, 2 bytes per stream | trims that drop chunks, cut one, and stop at the cap; a source ahead of its window; a forced settlement between two sources |
| `session_log` | 2 handles, 2 processes, 1 flush caller, 2 events, 1 fault, 1 crash, both encodings | two owners after one another in one or two processes, with a torn or failed write between them |
| `session_close_live` | 2 handles, 1 process, zstd | `close()` ends and a flush is answered under `FairSpec` |
| `session_repair` | 2 turns of 1 step, 2 calls, 2 crashes or forks | every mixture of requested, recorded, running and answered calls at a crash, a crash inside the repair, a fork of a repaired log, and a turn after it |
| `doc_single_mutator` | as `session_log`, no crash, `LateDrain` | one sentence of the code's comments, violated (below) |

Each bound is a constant. `MaxSteps` is the last step whose reply may ask for
tools and go on; a turn takes further steps for steering input, of which there
are finitely many messages. `MaxAttempts` bounds the retries of a
listener, `MaxFlips` the registry changes. Messages are delivered once each, so
their number bounds the turns. Two causes suffice as the code compares
a cause only with `disposed`. Deadlock is not checked: an agent to which all
messages were sent, and a batch that settled, really stop; the liveness runs
check that they stop nowhere else. Message symmetry is used in the safety runs
only.

Jobs share nothing but their owner's limit and the loops of a teardown, for which
two suffice; waits of one job share its resolvers and its `awaited` flag, and
claims of one job their counter. A limit of one makes every second start meet
it. `Outcomes` leaves out statuses that no code compares. The registry
stops when its jobs, waits and owners are used up, so deadlock is not checked.

One stream of two bytes fills a live cap of three together with a second, so the ring
drops a whole chunk and cuts the next; a settled cap of one is below what the model may have left
unread. A handle is used once, so two handles are one ownership and its successor, or two
that contend; of three, two would be closed or waiting. Two events make a batch of two or
two batches of one, hence a crash with none, some or all of a batch and a recovered tail in
front of a new event. A crash leaves a torn tail for the second handle, and the fault
falls into any of its repairs. Streams and sessions stop when everything is written and closed.

Two calls show each order of recording, running and answering; the second turn shows what a repair
leaves to its successor, and two faults a crash inside a repair or a crash of a fork. `MaxLog` keeps a log
that has grown by repairs from growing for ever: beyond it no message asks for tools.

## Fairness

`AgentDriverProps!FairSpec` is weak fairness of the driver's steps, of a `send()` that
has inserted its message, of a `cancel()` that has begun to clear the inbox, and of the end of a
maintenance task. The first three hold
because JavaScript runs a pending microtask and returns from a synchronous
call; where the driver waits for a listener, a provider or a tool, it is the
assumption that these settle, without which the code makes no promise (an
aborted signal does not interrupt a listener that ignores it). There is no
fairness for `Send`, `Cancel`, `Withdraw` or `BeginMaintenance`.

`ToolBatchProps!FairSpec` is weak fairness of the scheduler and of every body, for the
same reasons; none of abort or registry changes.

`JobRegistryProps!FairSpec` is weak fairness of what the registry has still to do (the
continuations, the rest of a loop) and of the `done` promise of a producer whose
`cancel()` returned, which is the contract of `JobHooks`. A producer that nobody cancels
may run for ever.

`SessionHandles!FairSpec` is weak fairness of what the event loop owes: the resumption after a
drain, the turns of the chain (each file operation settles, with success or failure), the steps of
`close()`, and the second half of `session/flush`. There is none for producers, timers, deletes or
crashes: a batching timer that never fires is covered by `close()`, not assumed away.

## Proofs

`AgentDriverProofs` proves, from `DriverConstants` alone (any set of messages and calls,
any causes that contain `disposed`, any bounds): every invariant and
action property of `driver_log`, and that the driver implements
`Transcript`.

The promises are not inductive: that a turn claims one prompt depends on where
the driver is and which boundary it serves next; that a wake is delivered
depends on who will still look at the inbox. `IInv` adds this: `Control` (what is open
in the log and which locals are set at each `pc`), `Placement` (where the messages
of the proposed step are), `Clearing` (what a suspended `cancel()` has emptied holds only messages sent
from inside it), `Latching` (what a latch, a suspended `send()` and a suspended
`kick()` stand for) and `Delivery` (who still serves a queued wake). TLC
checked `IInv` first. The proof has one lemma per part, with a step per action.
The refinement follows from the same invariant, action by action.

`ToolBatchProofs` proves, from `BatchConstants` (any number of calls, any positive limit):
the inductive invariant (`Counters`, `Pool`, `Calls`, `Barrier`, `Cancellation`), every safety
property of `tool_batch`, and the refinement of `ToolLedger`. The bound on the pool
is a fact about cardinalities: the active bodies are among the dispatches the
scheduler still waits for, and together with the call it is preparing these never
exceed the limit.

`JobRegistryProofs` proves, from `JobConstants` (finitely many jobs, any positive limit): the
inductive invariant, every safety property of `job_registry`, and the
refinement of `JobLedger`. `IInv` adds to the promises how the parts of a record agree
(`Records`), that a `settle()` under way is of a terminal job not yet announced and stands
once on the stack (`Settling`), that a waiting call and its resolver belong
together (`Waiting`), that each stage of a teardown covers every job its owner still has
(`Ownership`), and that nothing is dropped before it settled (`Victims`). The last two
are why an owner leaves nothing although its teardown works on a snapshot.

`JobNoticesProofs` proves every property of `job_notices` from `JobConstants` alone. The composition is not a
refinement of `JobRegistry`, as the tools begin and abort waits in steps of their own, so it first shows that every step
keeps the registry's `IInv` and that what no registry step undoes stays (`Stable`). `NInv` then adds where a text
is (`Texts`), what notices and suppressed settlements stand for (`Noticed`), how calls, claims and waits move together
(`Calls`), that a terminal job is announced unless its `settle()` is under way (`Announced`), and who owes the model a
completion (`Reaching`): a covering call is an answer already given, a call a settlement served, or the
claim behind a suppressed settlement, of which the last to end delivers. `CompletionReaches` alone is not
inductive: a claim made after the settlement covers nothing when it fails. The registry's own promises survive the composition:
`LimitUnderTools`, `OwnersUnderTools`, `AwaitedUnderTools`, and `LedgerUnderTools`, as every step of the tools
is a step of the registry or one that `JobLedger` does not see.

`SessionHandlesProofs` proves from `HandleConstants` alone (any handles, processes, callers
and events, any number of faults and crashes, both encodings) the types and `OwnedWrites`, hence with
late drains and deletes. The invariant of the latter, `LInv`, says that a handle which has not opened runs no turn
and that one which serves has the lock it believes in unless it is an orphan; TLC checked it first, on two
handles and two processes with both constants TRUE. With `Guarded` it proves
`NoEventLost` and that no two handles ever mutate the log together. `NoEventLost` is an
equation between the batch, the buffer, the cursor and the last event (`Placed`), kept only if a
turn that is not a drain cannot meet a non-empty batch, if there is one drain turn at most and
it will take the buffer, and if no turn is left when the lock is released. So `IInv` adds
`Queueing` (drain turns in the chain, against the drain's state and the turns `close()` still awaits),
`Batching` (where a batch comes from), `Owning` (claims, leases and the lock in each phase), `Watched` and
`Calling`. The proof takes one lemma per part and per group of actions.

`SessionDurableProofs` proves from `HandleConstants` and `Guarded` that the runtime implements `DurableLog`
(`DurableKept`) and that a resolved flush is stored (`FlushDurable`). Both rest on a second invariant,
`DInv`, inductive together with `IInv`: `Kept` (the committed log is contiguous, its recoverable tail
continues it, everything acknowledged is committed), `Filed` (a handle that writes knows where the file
ends and what of it is torn, which the lock keeps true while other processes come, go and crash), `Queued`
(a flush waits for one turn, its own) and `Answering` (a caller's mark is published, and
committed once the drain it joined in time has settled). `LogStep` is what every step but a deletion does
to the file, faults and crashes included: the committed part never shrinks, and what a reader finds shrinks only
when a torn tail is cut off, which nobody acknowledged. The refinement reads it as `Grow` or `Shrink`.

`SessionRepairProofs` proves, from `RepairConstants` (any number of calls, turns, steps and faults, any log
length), every property of `session_repair`. The invariant says of a log what a crash must not
break, so each of its parts holds of every prefix: each event was allowed by the fold before it and
the fold is what it claims (`Chained`), no event is numbered ahead of the fold (`Numbered`), and a call of
the open step whose `tool/call` is in the log is not taken for one that was merely requested
(`Truthful`). Four lemmas carry this over an append, a cut, a fork and the two events of a skipped
call. `Kept` then ties the log to what happened outside of it: whatever was sent or has run stands in every prefix that a
crash may leave, from the acknowledged one on, unless a fork took it over from turns that are over. `Resting`,
`Batched` and `Running` say what is open, and not yet recovered, where the driver rests. TLC checked
`IInv` first. `StoredTranscript` reads `Chained` one acknowledged event at a time.

`JobOutputProofs` proves every property of `output_ring` from `OutputConstants` (any number of sources, any
positive caps and window, any slack of a cut). Three facts carry it. The chunks are a `Chain`, back to back up to
`total`, so that the bytes of the dropped head are a difference of two offsets (`BeforeSums`), a trim is
a suffix or the tail of the last chunk (`Shrinks`), and no byte lies in two chunks. The model's cursor
lies between two chunks (`Aligned`): every read moves it to `total`, and a cut leaves the end of its chunk where it was. Hence
a read that skips the chunks before its cursor cuts none, and a settlement, which drops a chunk only while more than the
unread bytes would be left, drops none of those. And the last chunk a stream has in the ring ends where that stream
will go on (`Latest`), so the next one continues it or is marked. The same is kept for what the last read
ended with, once the chunks themselves are trimmed away: the first unread chunk of its stream continues it
(`Resumes`), or the stream has none in the ring and has offered nothing since (`Rests`); this fails only where the head past the
cursor was cut, and there the next read is lossy. `Pumping` says what the last round has read.
TLC checked `IInv` first. `OffsetsAreAbsolute` states of every step what `ring.ts` says of `earliest`, and that a byte keeps its
offset; TLC checked it as well, on the instance of `output_ring`.

Chains and sums need induction, for which the library's theorems (over an operator) cannot be used. Its
`WFMin` is about sets: a non-empty set of numbers has a least one (`Least`), so a set that holds 0
and every successor of its elements is `Nat` (`NatSet`). A property of numbers becomes the set of those that have it.

Only model-checked: the liveness properties (`TurnCloses`, `CancelConverges`, `BatchEnds`, `TeardownEnds`,
`CloseEnds`, `FlushAnswered`), which rest on fairness and are out of the prover's reach.

## Where the code and its comments disagree

One is kept as a run, whose property states the comment and which TLC violates:

- `SingleMutator` (storage.ts:63, "a write handle is its session's single mutator"; lease.ts:3,
  the lock is held "for the whole life of a write handle"). The last look of `close()` at the buffer is
  at line 239, the live route ends at line 256. An event published while a failing drain
  settles, or while `close()` awaits the release of the lock, arms the batching timer; the drain it starts
  finds its `lease` field still set (line 353) and writes without the lock, beside the next owner.

The others were found the same way, and the models hold them; the properties are the strongest
forms that the code keeps.

- agent.ts:226, "Live drivers claim queued work themselves". The last look at the inbox is at
  line 420; `kick()` leaves the running phase a microtask later. A follow-up sent in between
  finds a live driver, latches nothing, and stays queued in an idle agent. `DrainedQueue` excepts it.
- agent.ts:227, "disposal never latches, so teardown waits on no model turn". After `cancel(user)` the
  controller keeps its first reason (line 189), so a disposed cancel is not seen by the latch and
  the next wake starts a turn that teardown waits for.
- jobs-local index.ts:697, "Whatever settles this job from here on [...] the settlement announces
  `teardown`". A kill while the teardown awaits a slow producer sets the cause back to `kill` (line 491).
- tool-jobs index.ts:420, "The model's own kill result and a live waiter's collection both
  deliver this settlement". A cancel after the read replaces the result; no notice was
  queued, and the output is consumed.
- jobs-local index.ts:282, "The producer's settlement or a registry-forced one ends the pump; the
  pump's final drain then lands before this registry trims the ring". A forced settlement trims at once,
  and the final drain finds a settled job and is dropped. `SettlementKeeps` promises the drain
  only to a producer that settled itself.
- jobs-local index.ts:671, `disposeAll()` is to "drop every record". An unowned job that a listener of
  its cancelling loop starts is outside its snapshot, and nothing cancels or drops it.
- A caller of `session/flush` that joins a drain between its last look at the buffer and its `finally`
  (storage.ts:289) resolves without its event being written. `late` marks such calls and `FlushDurable`
  excepts them.
- When the first write links the log and the sync of the directory then fails (index.ts:1336), the handle
  keeps believing that there is no artifact, so every retry is refused by `rejectExistingLog`, and its
  release reports a session that never existed, although the log is on disk.
- `delete()` (index.ts:578) looks for a writer of its own process only, awaits, and removes the directory with
  the lock file in it: a writer that opened meanwhile, or one of another process, loses its lock with its log.
- A reader sees the complete records of a torn frame. The next writer first truncates the frame and then
  writes these records again (storage.ts:328-337), so a crash in between takes away what was readable. They
  were never acknowledged, which is all that `DurableLog` promises.

Three more. A turn whose first batch `agent/pre-step` empties returns at line 351
of `agent.ts` without the last look at the inbox. When a listener of `turn/end` cancels with
`disposed` and input is sent, line 421 replaces the aborted controller and the driver opens one
more turn (runtime-types.ts:236 says a disposed cancel leaves input parked). And an
observer of the durable `job/settled` record, which `settle()` writes before it releases its
waiters, can abort the wait of a terminal job (jobs-local index.ts:513 says it cannot).

Two more gaps of the driver, which no comment denies but a reader would not expect:

- `preStep()` reads the signal for the last time at line 300. `turn()` resumes a microtask later and
  reads it again only where it opens a step (line 353), so a turn that is cancelled in between is
  still recorded `blocked` (lines 341-343), `completed` (lines 349-351) or with the ending of its last
  step (line 346). `EndingsHonest` excepts exactly this point; everywhere else it is proved.
- `cancel()` clears the inbox before it drops the latch (lines 186-187). A waking `send` from a listener of
  `agent/inbox/discarded`, during maintenance or after an earlier cancel, sets the latch that line 187 then drops, and
  its message stays queued in an idle agent. `WakeLatchExact` excepts the messages sent from inside a `cancel`.

`DrainedQueue`, `EndingsHonest`, `WakeLatchExact` and `DisposedStaysParked` are the strongest forms of
these promises that the code keeps; all four are proved.

## What is not modelled

In the driver: the content of requests, replies and messages, model
selection, system prompt and request headers, stream frames, the order of
next-step input, `Inbox.replace` and `prepend`, appends that throw, sends nested in the
insertion listener of another send, the listeners of a `cancel` that runs inside another `cancel` or inside a
send's insertion listener (it is one span there), and listeners that call back from the
individual appends of one admission. In the batch: argument parsing, result
materialisation and contexts, the `concluded` flag, nested calls of programmatic tools.
In the registry: progress, access checks,
producers that call the registry from their hooks. In the notices: the teardown of the whole
service, the wake
budget, the choice of `inject` or `followup`, rendering, `job_list`, jobs that a listener removes
by id. In the output: text, the text of gap notices, timers between rounds and announcements (a
round may begin at any time).

In the session storage: read handles, listing, the catalog and its memo, format generations and their
migration, publication on Windows, `flushAll`, abort signals of `open()` (an `open()` may fail at any await), an
append whose own rollback fails, a lock release that rejects (the handle goes on as if it had not), and
a power loss that undoes synced writes. Sessions of different ids share nothing here.

In the repair: user messages and other events that move no boundary, failures of an append, and a second
resume of a session whose first one is still at work (the storage refuses it).

The share of the repository these modules stand for stays small. Of its 588 thousand lines,
most are clients, locales, catalogs, code generators, adapters to models and operating systems, and
configuration: they keep no state that several actors contend for, and their correctness is a
matter of unit tests. What remains, listed below, are protocols above the components modelled here.

Other components: see the table above and the notes in `PROJECT.json`.

## Plan

Done: `AgentDriver` with `Transcript`, `ToolBatch` with `ToolLedger`, `JobRegistry` with `JobLedger`, `SessionHandles` with
`DurableLog`, `JobNotices`, `JobOutput`, `SessionRepair`, and their theorems. What remains, the most important
behaviour first:

1. `AgentLifecycle`, composed with the phase machine of `AgentDriver`: publication against
   teardown.
2. `SessionStore`: appends from observers, attachment and surface replacement, composed with
   `SessionHandles`, whose producers are abstract here.
3. `SubagentManager`, `Schedule`, `GoalRounds`, `Approvals`, `Compaction`: protocols above the agent
   handle, each with the abstract agent (idle, busy, wake) as its environment.
