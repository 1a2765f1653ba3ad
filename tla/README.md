# Verification of the agent runtime core of DeepSeek Harness

This directory holds TLA+ models, model-checking configurations and proofs for
the part of the repository that carries its core logic: the agent runtime in
`deepseek-harness/packages`. Paths below are relative to that directory unless
they start with another one.

- [1. The system](#1-the-system)
- [2. The modules and the code](#2-the-modules-and-the-code)
- [3. Runs, bounds and results](#3-runs-bounds-and-results)
- [4. Fairness](#4-fairness)
- [5. What is proved](#5-what-is-proved)
- [6. Disagreements between the code and its documents](#6-disagreements-between-the-code-and-its-documents)
- [7. What is not modelled](#7-what-is-not-modelled)
- [8. Plan](#8-plan)
- [9. Running the checks](#9-running-the-checks)

## 1. The system

The repository collects several projects. Most of its ten thousand files are
documentation, deployment values and vendored web assets; the rest is one large
program, **DeepSeek Harness** (an agent runtime in TypeScript), a Java service
(`recognition-api`), and batch scripts. The harness is where long-lived state,
concurrency, cancellation, crash recovery and durability meet, so it is what
this project is about.

### Components on the spine of the harness

| Component | Code | State it keeps | Operations | Hard behaviour |
|---|---|---|---|---|
| Agent driver | `core/agent-loop/src/agent.ts`, `core/agent/src/inbox.ts` | phase (idle, maintenance, running with turn, step, abort controller, wake latch), two pending queues | send, followup, steer, inject, cancel, runMaintenance, whenIdle, dispose; the turn and step loop | every await is a window for cancel and send; synchronous listeners call back in the middle of an operation |
| Session log | `core/session/src/index.ts`, grammar in `core/session/src/invariant.ts` | the event sequence and its derived surface | append, with veto and publication | endings written from `finally`, re-entrant observers, repair of interrupted turns |
| Tool-call scheduler | `core/agent-loop/src/tool-calls.ts` | slots, in-flight promises, committed prefix | classify, start, race, commit, skip | bodies settle in any order while the log must be in model order; abort and scheduler failure in the middle |
| Tool pipeline | `core/tools/src/index.ts` | per-call execution state, cancellation fused from several signals | prepare, execute wrappers, body, finalize | abort between policy and body; wrappers that retry |
| Write-behind controller | `session/session-persistence/src/write-behind.ts` | queue, timer, active write, pause flag, barrier | enqueue, flush, deadline, refusal | flush racing a background write, refused batches, a slow disk |
| Persistence coordinator | `session/session-persistence/src/coordinator.ts`, `preparations.ts` | per id: owner and cursor, operation chain, live state, retirement, preparation | prepare, load, inspect, publish, release, create, append, dispose, reload, repair | two resumes, resume against publication, adoption of a stored prefix, retirement, crash in a write |
| JSONL backend | `session/session-persistence-jsonl/src/index.ts`, `format.ts` | one file per session | append with rollback, materialize by link, torn-tail repair, scan, list | partial writes, failed fsync, crash between truncate and append |
| Crash repair, checkpoints | `core/session/src/repair.ts`, `session/session-checkpoint-policy/src/index.ts` | none of their own | close an interrupted turn; flush before a step, a request, a tool body | a log cut anywhere; an effect whose record is lost |
| Lifecycle | `core/agent-loop/src/index.ts`, `core/agent/src/index.ts`, the store of `core/session/src/index.ts` | registries, factory ownership, memoized teardown | create, createAgent, resume, start-up entries, publish, announce, dispose, unload | teardown while set-up still awaits, listeners that call back, owners that unload |
| Background jobs | `jobs/jobs-local/src/index.ts`, `jobs/tool-jobs/src/index.ts` | job records, owner cleanups, waits | start, read, wait, kill, settle, teardown of an owner and of the service | settlement against abort, time-out and teardown; cancels that throw |

How they interact. A surface (web, SDK, ACP, a schedule, a subagent) *calls*
the driver's `send` and `cancel`. The driver *appends* to the session log and
*calls* the tool scheduler once per step, which *calls* the staged tool
pipeline and appends call and result events. The session log *publishes* each
event synchronously to its observers; the persistence coordinator is one of
them and hands events to the session's write-behind controller, whose batches
go through the coordinator's per-id chain to the backend. The checkpoint policy
*flushes* that controller before an effect leaves the process; after a crash
the coordinator *loads* the file, repairs the torn tail and the interrupted
turn, and hands the session to the lifecycle, which *publishes* agent and
session in their registries and later tears both down. Background jobs hang on
the scope of the agent that started them and *send* it a notice when they end.
Everything runs on one JavaScript thread: two pieces of code interleave only at awaits, and by
synchronous callbacks (listeners, observers, abort handlers) inside a call.

What makes each component correct, in a sentence: the driver neither loses nor
doubles input, converges after a cancel and writes a log that obeys the
grammar; a tool batch answers every call once, in order, and runs nothing after
a cancel; the write controller loses and reorders nothing and a flush means
durable; the coordinator never lets two owners write one id, never forks a
history, and shows a reader everything the previous owners wrote; the
file keeps what was acknowledged through any failed call or power loss; repair
yields a log that continues as if it had never been cut, and no effect is
without its record; lifecycles of one id never overlap and nothing outlives its
teardown; a job's completion is heard once and a teardown takes every job.

`PROJECT.json` lists every component of the repository, also those that are not
modelled, and the hazards found in the code, with their lines and the
properties that would catch them. A few more were noted on the way and are left
to review: a cancel that keeps the queue, called by an observer of `turn/end`,
aborts a controller the next turn replaces (`agent.ts:332`, accepted by the
comment there); a cancel from a session observer throws from its first splice
before it aborts (`agent.ts:143`); a tool replaced between its classification
and its body runs under the old mode (`core/tools/src/index.ts:1545`); a flush
outlives a producer that never pauses (`write-behind.ts:125`); one claim takes
one queued message (`inbox.ts:71`, part of `PendingExactlyOnce`); an edit of the
surface between two awaits of request building must restart the request
(`agent.ts:347`); a final drain that fails leaves a retired session owning its
id (`coordinator.ts:1232`); a notice suppressed because a `job_output` call
waits for the job is lost when that call is aborted before it returns
(`core/tools/src/index.ts:1551`, against `jobs/jobs/src/index.ts:123`).

## 2. The modules and the code

| Module | Role |
|---|---|
| `SessionTrace` | the grammar of the durable log; an abstract specification of its own |
| `AgentDriver` | the driver and its queues; INSTANCEs `SessionTrace` and is shown to implement it |
| `AgentDriverProofs` | proofs about `AgentDriver` |
| `ToolBatch` | what one batch of tool calls promises the log |
| `ToolCalls` | the scheduler and the tool pipeline; implements `ToolBatch` |
| `ToolCallsProofs` | proofs about `ToolCalls` |
| `DurableLog` | what a live session may expect of its write controller |
| `WriteBehind` | the controller; implements `DurableLog` |
| `WriteBehindProofs` | proofs about `WriteBehind` |
| `SessionPersistence` | the coordinator with its preparations, for one session id |
| `SessionPersistenceProofs` | proofs about it: types, what is queued for whom, reservations |
| `SessionPersistenceHistory` | on top of that: histories, that nothing is lost, and that answers reach the tail |
| `TurnRepair` | `interruptedTurnClosers` as operators over logs of `SessionTrace` |
| `JsonlLog` | the file of one session: its calls, failures, power losses and the scan |
| `CrashRecovery` | turn loop, checkpoints and write controller over `JsonlLog`, repaired by `TurnRepair`; composes the chain from an effect to its record |
| `CrashRecoveryProofs` | proofs about `CrashRecovery`, `JsonlLog` and `TurnRepair` |
| `AgentLifecycle` | the lifecycles of one id in the loop, the two registries and their owners' fibers |
| `AgentLifecycleProofs` | proofs about `AgentLifecycle` |
| `BackgroundJobs` | the job registry with the completion notices of `tool-jobs` |
| `BackgroundJobsProofs` | proofs about `BackgroundJobs` |
| `MC*` | instances for TLC: symmetry sets |

A definition named `X_Y` beside a definition `X` (`Claim_KeepsHead` beside
`Claim`) is a plausible bug of `X`, kept to show that a property can tell the
difference: every checked property fails for at least one of them. Nothing
else uses them.

**Granularity.** An action is the code between two awaits, or between two
points where synchronous callbacks can run. Assignments, early returns and
calls in between are one step.

### SessionTrace

`trace` is the runtime checker's bookkeeping (`openTurn`, `openStep`,
`nextTurn`, `nextStep`, `pending`), `last` the event appended last. `Allowed`
is `validateEvent`, `Apply` is `applyTransition`. 0 stands for `null`. The three forms of
`tool/result` (answer, synthetic answer of crash repair, surface replacement)
are three event types here. Sequence numbers are left out: the log appends, so
they increase.

### AgentDriver

| State | Code |
|---|---|
| `phase` | the `Phase` union; `abort` is the reason of the phase's controller, the first one |
| `pc` | the await, or the `session.append`, that `kick`/`turn`/`step` is at |
| `turnEnds`, `stepEnd`, `batch`, `todo` | locals of `turn()` and `step()` |
| `inbox` | the two queues of `Inbox` |
| `fate`, `owner` | what the durable log says became of each message, and which turn claimed it |
| `stack` | the unfinished synchronous frames: the rest of `send`, of `cancel`'s two splices and abort, of a status change and of a replay |
| `disposer` | the lifecycle's `dispose()` waiting in `whenIdle()` |

Callers (`Send`, `Remove`, `Cancel`, `Dispose`, `RunMaintenance`) run while the
driver awaits, or from a listener while a frame is on the stack, so a cancel
from inside a send, a send from inside a cancel, and a cancel from inside the
status announcement of a starting driver are all behaviours. A synchronous
observer of a session append may not append; the only call it can complete is a
cancel that splices nothing (`AtObserver`). Each await of the turn loop is a
`pc` value and each way out of it an action: settle, reject, throw, find the
abort. `preStep()` looks at the signal before it returns and `turn()` takes its
answer up only after the await, so three `pc` values (`Decided`) stand for the
time between: a step is admitted, rejected, or nothing is left to do, and a
cancel may still come. What a listener or a model answers is nondeterministic. The tool step is
the `ToolBatch` contract: calls and results in any prefix, then return or
throw. Calls are a set here because the grammar does not tell their order
apart; the order is the business of `ToolCalls`. Messages are interchangeable, so
which one is sent next is fixed (`NextMessage`).

### ToolCalls

One assistant message with `N` calls. `pc` is the scheduler's await; `base`,
`mode`, `cap`, `called`, `committed`, `inFlight`, `aborted`, `failure` are the
locals of `executeToolCalls` and `runGroup`, with indices relative to the
message; `stage` is how far a call is in prepare, dispatch and finalize;
`ran` records which bodies were ever invoked. The registry may reclassify a
call each time it is looked at. Wrappers may call `next()`, and those of the
calls in `Retried` twice, answer themselves, or throw.

### WriteBehind

Events are the numbers 1, 2, ... in acceptance order. `pending`, `timer`,
`deadlineExpired`, `automaticPaused`, `active`, `barrier` are the fields of the
controller; `active` and `barrier` also say how far the promise chain behind
them got, because the code's correctness depends on which microtask runs first
(`Finally` before `ContinueAutomatic` before the next deadline). `asking` are
callers between the coordinator's `cancelAutomaticWait()` and `flush()`, which
an await separates. The backend either stores a batch or refuses it.

### SessionPersistence

One id. `disk` is the artifact: events, and whether a torn fragment follows.
`chain` is the id's `serialize` queue, whose head may be waiting in the backend
(`stage`, `batch`); `state`, `live`, `retirement`, `entry` are the coordinator's
maps at the id; `store`, `life`, `hist` are the session store and the logs of
the lifecycles that come and go under the id; `caller` is each
prepare/load/inspect call in progress. An event keeps its author (a lifecycle,
crash recovery, an outside caller) and whether it opens or closes a turn, marks
the end of a seed, or is neutral. Reads are one step because every writer of
the id is behind them on the chain; a write and a repair are two, and a crash
may fall between them. `owed` and `tails` of a call are history, read by no
action: what the log held when the call began, and the histories of the disposed
sessions that still drained then, whatever the coordinator's map of retirements
said.

Assumptions of this module, each taken from the code around it:

- a refused write has no effect (`rollbackAppend` truncates back). `JsonlLog`
  examines this: it holds for failing writes and syncs, and fails for a
  `close()` that fails after the sync and for a failing directory sync
  (section 6);
- a torn fragment yields no recovered event, and whatever is stored next is
  written in its place (`JsonlLog` has the fragment and its removal, byte for
  byte);
- the write controller does what `WriteBehind` proves of it;
- the public `append()` is called by code that holds neither a live session nor
  a reservation of the id (`Unheld`), as the callers in the packages are;
- the service is reloaded when no prepare, load or inspect call is in flight.

### TurnRepair and JsonlLog

`TurnRepair` has the scan of `repair.ts` (`ScanEvent`, folded over the log) and
the closers it yields, the pending calls `InOrder`: calls are numbered in model
order, the insertion order of the code's map.

`JsonlLog` keeps a file as lines: an event with its sequence number, whole or a
fragment. `file` is what readers see, `media` what survives a power loss,
`entry` the directory entry. `op` is the operation in progress and the system
call it has reached; each call that can fail is an action with a failing
alternative (`Faults` names them), and `PowerLoss` may fall between any two. After
it the file is any cut of the unsynced batch: for plain text a prefix of its
bytes, for Zstandard a prefix of its one frame, which is why `Cuts` and `Join`
depend on the encoding. The header is published with the first batch and not
counted.

### CrashRecovery

The module composes the turn loop (only the events that matter for what is on
record), the three checkpoint listeners, the write controller as `WriteBehind`
proves it to be, the coordinator's cursor (`acked`), and the load after a crash:
scan, torn-tail repair, `interruptedTurnClosers`, resume. `requested` and `ran`
are the effects outside the process that no crash undoes. Cancellation may fall
anywhere in the turn; a refused checkpoint ends what it was to guard.

### AgentLifecycle

Calls of `create`, `createAgent`, `resume` and start-up entries for one id, on
behalf of two owners: a plugin, whose fiber may unload, and the loop itself.

| State | Code |
|---|---|
| `pc`, `kind`, `by` | where each call of the factory stands |
| `stop`, `down` | the fused abort signal, and how far the memoized `dispose()` came |
| `drv` | the machine: not built, idle, started, running |
| `own`, `joined`, `liveAgents`, `awaited`, `fiber` | the effects on the owners' fibers and `FactoryOwnership` |
| `sess`, `agnt`, `announced`, `deferred` | the entry of the id in each registry |
| `frame` | the stack of event dispatches, in which listeners call back into the factory |
| `edge` | the lifecycle event dispatched last, as the first observer sees it |

Publication, announcement and the leaving of the registries are synchronous and
cut at each dispatch, since a listener may veto, create, abort, dispose or send
there; everything else is a job and needs an empty stack. Points worth knowing:
only the factory calls `enter` and `announce` in this code base, so the agent
registry's deferred removal during an announcement cannot be reached and is not
modelled, while the session store's, during an append, is; a message sent after
`dispose()` began draining is the sender's bug by the code's own words
(`agent-loop/src/index.ts:503`) and is left out; a start-up entry that falls back
to creation is a fresh call; a fiber unloads once. `Pending` says whether an agent
may be disposed from a listener of its own append with messages queued: the
properties hold without it and fail with it (section 6).

### BackgroundJobs

| State | Code |
|---|---|
| `store`, `owner`, `status`, `reported` | the job records; `ended` is the producer's outcome, `failed` a teardown's |
| `wait` | each `wait()`: waiting, released by a settlement, timed out but still counted, and what it returned |
| `cleanup`, `awaited` | `ownerCleanups`, and the jobs each teardown awaits |
| `reg`, `scope`, `service`, `mounted` | the agents that succeed one another under an id, their scopes, the registry's fiber, `tool-jobs` |
| `seen` | what a change observer that lists again on every notification shows |
| `notices`, `claimed`, `unheard` | who heard of a completion: history, read by no action |

The owner's cleanup is attached before the limit is looked at and the producer
runs, so a refused start leaves it behind. A settlement is the reaction to the
producer's promise, a job of its own: between the two a kill, an abort or a
teardown may come. `cancelForTeardown` claims each job's report, then cancels it;
any subset of the cancels may throw. Agents leave their registry after their
scope in an orderly disposal and before it in a failing one, as `AgentLifecycle`
shows, so both orders are here.

## 3. Runs, bounds and results

| Run | Question | Bounds | Distinct states |
|---|---|---|---|
| `driver` | is the driver safe under every interleaving? | 3 messages, 2 tool calls, 2 steps per turn, 2 nested frames, 1 maintenance | 3.2 M (symmetry of calls) |
| `driver_live` | does cancel converge, is a latched wake replayed? | 3 messages, 1 call, 1 step, 2 frames, 1 maintenance | 1.33 M |
| `tools` | is a batch ordered, bounded, drained, and does it end? | 3 calls, pool of 1 or 2, call 2 may be retried | 2.29 M |
| `write_behind` | is the controller conservative, durable, live, and a `DurableLog`? | 2 flush callers, 4 events | 19.8 k |
| `session_persistence` | one history, nothing lost, exclusive ownership, answers reach the tail | 2 lifecycles, 1 call at a time, 2 events each, 2 upsets, one detached service call | 3.4 M |
| `session_persistence_live` | do calls and retirements settle? | 1 lifecycle, 2 concurrent calls, 1 event, 1 upset | 363 k |
| `crash_recovery` | does what was acknowledged survive, is every effect on record, is a repaired log legal? | 2 calls, 2 turns, 2 upsets, failing write, sync, link and directory sync, both encodings | 1.33 M |
| `lifecycle` | do lifecycles nest, does nothing outlive its teardown, does every teardown end? | 2 calls, 2 nested dispatches, 1 message | 2.14 M |
| `jobs` | is each completion heard once, does a teardown take every job and end? | 2 owners, 2 jobs, 1 wait, 1 active job per owner | 1.62 M |
| `refused_seed`, `close_fails`, `dispose_in_append` | does the code do what a document says? (it does not) | the smallest instance that shows it | to first violation |

What each passing run shows:

- `driver`: `PendingExactlyOnce` (a message the log shows as pending is in one
  queue, once, whatever interrupted the send or cancel that put it there, and a
  turn claims one), `LatchOnlyWhenBlocked` (the wake latch is held only by an
  activity that cannot deliver the wake itself), `AbortedTurnSaysSo` (a
  cancel that reaches an open turn before its driver's last look at the signal is
  what the turn records, the first cause of several; no other turn is recorded
  as aborted), and `LogWellFormed`, the refinement of `SessionTrace`.
- `driver_live`: `CancelConverges`, `LatchedWakeReplays`. The second makes an
  exception of a later `cancel()`: it drops the latch after its discard
  listeners ran, with whatever they sent, and that message stays queued. It takes
  three messages to see this.
- `tools`: `BarriersAndPool` (exclusive calls alone, the pool within its limit,
  nothing running at a barrier, a return or a throw), `NotDispatchedMeansNotRun`
  (but for a call whose wrapper retried), `NothingStartsLate` (after an abort or
  a failure), `ImplementsToolBatch`, `BatchEnds`.
- `write_behind`: `Conserved`, `NeverStranded`, `FlushMeansDurable`,
  `PauseHolds`, `ImplementsDurableLog`, `FlushSettles`, `EventuallyStored`.
- `session_persistence`: `OneHistory`, `NothingLost`, `ReservationIsCurrent`,
  `RepairSparesLive`, and `ViewReachesTail`: what a call answers with holds what
  the log held when the call began and the history of every session disposed by
  then whose drain is not refused. The sessions are taken from the store, not
  from the map the coordinator waits by, so a retirement that is not recorded, or
  is forgotten too early, is a violation. `prepare` and `load` keep this even
  where the map is wrong, since a commit is refused while the id has an owner; an
  inspect keeps it of the session disposed last (5 of section 6).
- `session_persistence_live`: `OneReservation`, `CallsSettle`.
- `crash_recovery`: `AckedSurvives` (an acknowledged event is in the file and
  can be read, whatever failed since), `RepairedLogIsLegal` (a log interrupted
  anywhere, repaired and continued is accepted by the grammar, balanced between
  turns, with one answer for every call), `NotStartedNeverRan` (a call reported
  as never started did not run), `EffectsAreOnRecord` (no request and no body
  before its event would survive), `RepairIsFinal`. `SequenceOnce`: a batch
  that is retried is stored once; `close_fails` shows what becomes of it when
  closes fail.
- `lifecycle`: `SessionLiveWhileRunning`, `NoMissedRelease` (no start-up entry
  waits for an id that is free), `UnloadIsQuiescent`, `LifecyclesNest` (an
  observer is told of intervals that never overlap, the agent's inside the
  session's), `TeardownSettles` (nobody waits on himself or in a ring).
- `jobs`: `CompletionHeard` (a notice, or a kill, teardown or counted wait that
  took the report, and never both), `TeardownTakesAll` (no job or record outlives
  its owner's scope or the service, and none goes otherwise),
  `ObserverIsCurrent`, `JobsSettle`.

The type invariants of `AgentDriver` and `WriteBehind` are proved and no longer
checked; those of the other modules are the first conjunct of an invariant, and
proved too for `ToolCalls`, `SessionPersistence`, `CrashRecovery` and
`BackgroundJobs`.

**Why the bounds are enough to be interesting.** Three messages let one be
claimed, one be queued behind it and one arrive during an abort; two nested
frames let a listener interrupt an operation and be interrupted itself. Three
calls with a pool of two fill the pool, leave one waiting and let the registry
make the third exclusive. Four events and two callers give a batch being
written, one queued behind it, and one admitted by each of two overlapping
flushes. Two lifecycles give a predecessor that drains while its successor is
resumed; two upsets let a refusal be followed by a crash, or a crash interrupt
the recovery from a crash. Before the bounds of `session_persistence` were
fixed the module was also run once, without violation, with two concurrent
calls and two lifecycles (3.2 M states) and with three lifecycles (6.5 M). Two
upsets of `crash_recovery` let a repair be cut in turn, or a refused batch be
followed by a power loss; two turns put a repaired turn before a live one. Two
calls of `lifecycle` for one id collide in the registries or succeed one
another, and depth 2 lets a listener's call dispatch to a listener of its own.
In `jobs` the second owner registers while the first unwinds; the safety
properties were also run once with two waits (16 M states).

Deadlock is checked for the driver, where a caller can always cancel again, so
some step is always possible. The other configurations turn it off because the
bounded system really stops: a batch ends, and events, turns, lifecycles, jobs
and upsets run out.

## 4. Fairness

No safety property depends on fairness. The liveness properties assume what the
JavaScript event loop and the contracts of awaited code give:

- driver: an awaited operation settles, a synchronous call finishes, a
  maintenance task ends: whenever one of these can go on, one of them does.
  Tools and providers are documented to settle once their signal is aborted.
  Callers owe nothing.
- tools: the scheduler moves on, and each call's policy, wrappers and body
  settle. Nobody is obliged to abort.
- write-behind: timers fire, a backend call settles one way or the other,
  queued jobs run, and a caller that stopped the deadline goes on to flush.
  Producers are under no obligation; with a producer that never stops, a flush
  need not end, which the code accepts, so `FlushSettles` is checked with
  finitely many events.
- persistence: the chain moves on, an await of a settled promise resumes, a
  deadline or flush hands over what is queued, and whoever holds a reservation
  publishes or releases it. `Reserve` is strongly fair because waiters of one
  promise resume in the order in which they began to wait. `CallsSettle` also
  supposes that new calls stop coming.
- lifecycle: `Due` goes on while it can: listeners return, queued jobs run, a
  cancelled driver drains, and what awaits an aborted signal ends. A load or a
  set-up that nobody aborted owes nothing, nor do callers.
- jobs: `Due` goes on while it can: reactions and continuations run, deadlines
  fire, fibers unwind, and a producer that accepted its cancellation settles.
  The last is the contract `jobs-local/README.md:58` states; without it a teardown
  may stall, as it says. A producer nobody cancelled owes nothing.

`crash_recovery` has no liveness property: power may fail for ever.

## 5. What is proved

All theorems hold for every value of the constants; the assumptions are the
named ASSUMEs of the modules (bounds are natural numbers, sets of callers are
finite). Each safety property below is checked by a run as well, and so were
the inductive invariants before they were proved. None of the properties is
inductive; what has to be carried with it, and why, is the content of the
proof.

**`AgentDriverProofs`.** `TypeCorrect` proves `TypeOK`, one lemma per group of
actions. `DriverWritesLegalLog` proves that the driver implements
`SessionTrace`: whatever callers, listeners and the model do, every append is
one the grammar allows. `TypeOK` says nothing about the log's open turn and
step, so the proof rests on the strengthening `LogAgrees`
(`PositionAgreesWithLog`): at each `pc` the bookkeeping of the log has exactly
the turn and step open that the driver is in, and none while idle. Callers
change neither side (`CallersLeaveTheLog`), a silent move of the driver stays
in a region with the same open turn and step (`SilentMove`), and each append is
legal by the region it starts in (`LegalAppend`).

Three invariants of the driver follow, each with a strengthening of its own:

- `LatchIsHeldByTheBlocked`. A wake call that found its agent aborted sets the
  latch only when its listeners return, so until then the agent must stay
  aborted. `LatchInv` says that such a frame never waits underneath the driver's
  own frame, the only one that resets the controller.
- `AbortIsRecorded`. An action property: while a turn can hear a cancel
  (`Hears`) and its controller is aborted, the cause stays, and each step leaves
  the turn hearing or closing it with that cause; an ending that is recorded is
  not changed again. It follows step by step from `TypeOK` and `LogAgrees`: a
  caller's frame never touches the ending or a cause that is there
  (`CallersKeepTheCause`), and each other way of the driver to `closing` looks at
  the signal (`DriverRecords`). The two decisions of `preStep()` that open no step are outside `Hears`, because the
  code does not look again there (4 of section 6).
- `MessagesAreKept`. `QueueInv` gives each pending message its one place in the
  two queues, and the claimed ones to the batch; `OwnerInv` says that no turn so
  far owns what the next turn could claim as its first message.

**`ToolCallsProofs`.** One inductive invariant, for any number of calls and any
pool size:

    IInv == TypeOK /\ Order /\ Slots /\ Pool

`Order` relates the log to the counters: the results are the first calls in
order, and only a result whose append threw is not counted. `Slots` says how far
each call may be, given those counters. `Pool` is what the race may assume of
the promises it still holds, among it that the branch the code calls unreachable
is. From it follow `PoolIsBounded`, `NoLateStart` and `Refinement`: the
scheduler implements `ToolBatch`. `ResultsTellTruth` needs in addition what each
stage has said of the call so far (`Told`).

**`WriteBehindProofs`.** The inductive invariant is

    IInv == TypeOK /\ BarrierTracksWrite /\ TimerHasWork /\ NeverStranded /\ Conserved

`Conserved` alone is not inductive: a write may start only when the slot is
free, or it would overwrite a batch. `BarrierTracksWrite` ties the barrier's
position, the write slot and the continuation job together and gives that;
`TimerHasWork` says the armed timer is the only one and is for work it may
write, which `NeverStranded` needs. From `IInv` follow `EventsConserved`,
`NobodyStranded`, `BarrierInStep`, `FlushIsDurable`, `OneWriteAtATime` and
`Refinement`: the controller implements `DurableLog`. `RefusalPauses` needs one
more fact, that a pause and an expired deadline never stand together
(`PauseSpendsDeadline`).

**`AgentLifecycleProofs`.** Four theorems for any number of calls, nested
dispatches and messages, under the assumption `~Pending` that no agent is
disposed from a listener of its own append with messages queued. The inductive
invariants form a chain:

    LifecycleInv == Shape /\ Aborted /\ Left /\ Stopped /\ SessionLiveWhileRunning
    NestInv      == LifecycleInv /\ EdgeOK /\ Entered /\ Frames
    WakeInv      == NestInv /\ (Waits \/ Telling(frame))
    UnloadInv    == NestInv /\ TypeOK /\ Traced /\ Effects /\ Guarded

`SessionLiveWhileRunning` needs to know that a teardown stands behind an aborted
signal (`Aborted`), that an agent leaves its registry before its session and a
deferred removal's session is still registered (`Left`), and that a scope is
unwound only behind an idle machine (`Stopped`): `DriversAreRegistered`. For
`LifecyclesNest` the last event must agree with the registries (`EdgeOK`), what
was announced must have been entered (`Entered`), and a call must be in one
dispatch at a time, a session being announced being the registered one
(`Frames`): `LifecyclesAreNested`. `NoMissedRelease` holds between jobs only; within
a job the id may be free while the event that will tell so is being dispatched
(`Telling`): `NobodyIsForgotten`. `UnloadIsQuiescent` needs to know that between
jobs no call is inside `prepare()` or `publish()` and no removal is put off
(`Traced`), what the effect a call holds says of its progress (`Effects`), that
whatever is or may be registered is tracked and has a teardown or somebody who
will begin it, and that the factory waits for all of it (`Guarded`):
`UnloadsAreQuiescent`.

**`BackgroundJobsProofs`.** Two inductive invariants over the types, for any
number of agents, jobs and waits:

    RecordsInv == TeardownTakesAll /\ Covered /\ Attached /\ ObserverIsCurrent
    ReportsInv == TypeOK /\ OwedUntilEnd /\ WaitsAreForActive /\ CompletionHeard

`TeardownIsComplete` needs to know that a stored job's owner still has its
cleanup or is awaiting it (`Attached`), and that what a teardown awaits is all
there is (`Covered`): the cleanup is attached before the limit is looked at, and
a scope that unwinds takes no new one. `CompletionsAreHeard` rests on
`OwedUntilEnd`: until a job ends nobody has been told, and it counts as reported
exactly when a kill or a teardown claimed it. `ObserversStayCurrent` holds with
the first.

**`SessionPersistenceProofs`, `SessionPersistenceHistory`.** For any number of lifecycles, callers, events and
upsets, five invariants on top of one another:

    Shaped       == TypeOK /\ Lifecycle /\ Backlog /\ Queued
    Reservations == Calls /\ Exclusive /\ Entries /\ Served /\ Births
                      /\ Undisturbed /\ ReservationIsCurrent
    Histories    == Cursors /\ Owners /\ Queue /\ Writing /\ Views
    Sparing      == Authors /\ Begins /\ Added /\ Repairing /\ Spared
    Reaching     == Stored /\ Watching /\ Retiring /\ Ranks /\ Owing /\ Checking
                      /\ Cached /\ Precede /\ Discards /\ ViewReachesTail

- `Shaped`: every queued operation is still awaited by the session it is for,
  and is the only one of its sort (`Queued`); a disposed session gives the id up
  with nothing left to write (`Lifecycle`); a controller holds seqs of its
  session's history (`Backlog`). Without these not even the types are inductive:
  a write reads the controller's slot when it settles.
- `Reservations`: whoever holds an entry committed it alone (`Calls`,
  `Exclusive`); a queued read, check or commit serves a call that still waits
  for it (`Served`); a session created before a preparation began is registered
  before the preparation is read (`Births`), and no write is under way while one
  is reserved (`Undisturbed`). So `ReservationsAreExclusive`, and
  `ReservationsAreCurrent`: every other operation of the id waits behind the
  commit, finds the entry reserved and refuses, or came before it.
- `Histories` follows an event from its session to the log. The cursor is the
  end of the log while the id is tracked (`Cursors`); what the owner's controller
  holds is the end of its history, and goes on where the log ends (`Owners`);
  seeds, suffixes and batches on the chain extend the log to exactly there, and
  nothing on the chain overtakes an append that was queued before it (`Queue`);
  the batch being written is the next of them (`Writing`); and the view a resume
  publishes is the log it read, balanced (`Views`). It gives `HistoryIsOne` (no
  adoption, claim, repair or resume forks a history) and `NothingIsLost` (the log
  followed by what the controller holds is the session's history).
- `Sparing` says why no repair can meet a live session's open turn. What the log
  still lacks of a history was authored by its session, and a turn in the log
  that a session began is in its history (`Authors`, `Begins`; setup and
  `append()` add neither turns nor closers, `Added`); only a commit or an
  `append()` stores closers (`Repairing`); and while a live session that does
  not own the id has its turn open in the log, which only a reload brings about,
  nothing of that kind is queued or can be (`Spared`): admission was closed and
  the chain empty when the coordinator started, and the live session refuses
  whoever comes later. It gives `LiveTurnsAreSpared`.
- `Reaching` has three parts. *What a call is owed.* What the log held when it
  began is in the log still. The history of each session that was disposed by
  then is in the log, or its drain was refused, or it still drains and nothing
  has been read past it: the call waits for that session or a later one, or the
  session owns the id, which refuses a commit (`Owing`). Only an inspect goes
  on without a commit (`Checking`), so only an inspect can be overtaken. *The
  order of the sessions.* That waiting for a later session is enough is a matter
  of order: a session's initialization is queued when it is registered
  (`Initializing`), no later session is refused or ends before the turn of an
  earlier one came (`InTurn`), a session that drains is the one whose retirement
  is noted unless a later one took its place (`Noted`), a drain that failed was
  refused (`Refusing`), one that ended has nothing left to tell (`Ends`), and
  sessions of an id succeed one another (`Succession`); together they are
  `Ranks`. *The answer is the log.* The session whose retirement is waited for is
  watched and still drains (`Watching`, `Retiring`), the id goes to nobody else
  before its history is stored (`Stored`), and a preparation that was read stays
  what the log holds, or is dropped (`Cached`), which rests on every writer of
  the log dropping it: a commit that repairs is of the current entry or comes
  before the next one is read (`Precede`), and the repair of an `append()` took
  the entry first (`Discards`). It gives `AnswersReachTheTail`.

**`CrashRecoveryProofs`.** For any number of calls, turns, failed system calls
and power losses, in both encodings: `AcknowledgedEventsSurvive`,
`EventsAreStoredOnce`, `NoEffectBeforeItsRecord`, `OneRepairIsEnough`,
`UnstartedCallsNeverRan` and `RepairedLogsAreLegal`. One invariant carries all
of them:

    IInv == Memory /\ Operation /\ Files /\ Storage /\ Effects /\ Position /\ Steps

- *Folds.* The scan of repair and the replay of the grammar are folds over the
  log. That each of them is a function which goes through the log event by event
  (`ScanRec`, `FollowRec`) is shown without the library's induction theorems: a
  set of numbers closed under successor and missing one would have a least
  missing interval (`Climb`, from the well-foundedness of inclusion on finite
  sets). From there `ScanAppend` and `FollowAppend` are what the proofs cite.
- *Logs.* `LogOK` says a log is legal wherever it is cut: scan and replay stand at
  the same turn and step, the scan's pending calls are those asked for without an
  answer, no call is both recorded and reported as never started (`Legal`). One
  lemma per event shows what it does to the place where a log stands, and
  `Answering` and `Closers` what `interruptedTurnClosers` appends: a legal log
  that ends between turns. A crash may cut anywhere, so it is the closure under
  prefixes that is inductive.
- *The file.* `Files` says that file and disk can be read, that what they hold is
  `LogOK`, and that what was acknowledged is beyond the reach of a torn batch
  (`Sure`: with Zstandard the events of a torn frame can be read once more, and
  a later cut may still lose them). `Storage` says at each stage of an append, a
  creation or a repair what file and disk hold; one lemma per system call. An
  append starts only on a file that ends with the last acknowledged line
  (`Holds`), which is why a failed one must be taken back, and a repair cut short
  leaves a log the next one can start from (`Backed`).
- *The loop.* `Effects` says each effect, and each flush that was answered, is
  named by an acknowledged event; `Position` where the live log stands at each
  place of the loop; `Steps` bounds the steps by the calls used.

The theorems have the hypothesis `"close" \notin Faults`: neither a close after
a successful sync nor the rollback, which closes the file and opens it again,
fails. It is the one failure that undoes them (2 of section 6). With
`"close"` among the faults `SequenceOnce` fails (`close_fails`), and TLC finds
`AckedSurvives`, `EffectsAreOnRecord` and `NotStartedNeverRan` violated as well,
since the reader drops or refuses what follows the first copy of a line. It
found no violation of `RepairIsFinal` and `RepairedLogIsLegal` on a small
instance, but the invariant they are proved from no longer holds.
Failing writes, syncs, links and directory syncs, and power losses, are all
allowed, in any number.

**Only model-checked.** Every liveness property: the prover handles neither
fairness nor ENABLED. Every safety invariant and safety action property of a
passing run is stated by a theorem.

## 6. Disagreements between the code and its documents

Three have a run whose counterexample shows them, and an entry under `findings`.

1. `session-persistence/README.md:90` says an explicit flush or a teardown
   retries a rejected write. When the rejected write is the one that stores a
   session's seed during initialization, nothing is retried (`refused_seed`).
2. `session-persistence-jsonl/src/index.ts:665` says a failed append restores the
   previous size because a retry would otherwise create duplicate sequence
   numbers. A `close()` that fails after the sync is outside the `try` that
   restores: the lines are stored, the append is rejected, and the retry stores
   them again (`close_fails`).
3. `core/agent/src/index.ts:154` says `dispose()` stops the loop, awaits its exit
   and then unregisters. Called from a listener of the agent's own append with
   messages queued, its cancel throws and its `finally` block unregisters the
   running agent (`dispose_in_append`).

Two more are stated by a definition no run lists; TLC finds each violated, in the
instance named, when it is added as an invariant. Each is the reason for an
exception a checked property makes.

4. `docs/subsystems/core.md:205` says the cancel cause of a turn lands in its
   durable `turn/end`. A cancel between the last look of `preStep()` at the signal
   (`agent.ts:248`) and the use of its answer (`:274` to `:284`) aborts the
   controller of a turn that is then recorded as blocked or completed
   (`CancelCauseLands`, in the instance of `driver`; excepted by `Hears`).
5. `coordinator.ts:596` says the map of retirements holds the disposed lifecycles
   whose tail is still draining, and `session-persistence/README.md:46` that
   `inspect` reads the view `load` returns. The map has one place per id: a
   session that collides with one still draining takes it, fails and clears it
   (`:1220` to `:1224`), and an `inspect` that begins then answers without the
   first one's tail, while a `load` is refused (`InspectReachesTail`, in the
   instance of `session_persistence`; excepted by `Overtaken`).

The rest were met on the way and are not rerun:

- `agent.ts:183` says disposal never latches a wake. The first abort cause stays
  on a controller, so after a user cancel a later dispose does not change it,
  and a waking send during teardown is latched: teardown waits for a model turn.
- `docs/subsystems/core.md:235` says `agent/request-error` runs after the failed
  model step closes. It runs inside the open step.
- `agent.ts:173` says a wake sent while idle always opens its turn boundary. A
  status listener that cancels the starting driver prevents it.
- `core/tools/src/index.ts:472` reserves `ABORTED_BEFORE_DISPATCH` for calls whose
  body was never invoked. A wrapper that retries after an abort gets that code
  (`:1539`, `:1333`) for a call whose body already ran.
- A directory sync that fails after `link()` published the log makes the append
  fail and every retry find the file it made, until a restart loads it
  (`session-persistence-jsonl/src/index.ts:576`). Nothing acknowledged is lost.
- `agent-loop/src/index.ts:526` says owner disposal owns the same quiescence
  boundary. An owner whose agent somebody else began to tear down does not wait
  for it: its effect returns at once (`:528`).
- `core/agent/src/index.ts:154` puts the unwinding of the scope last; the code
  unwinds it before it leaves the registries.
- `jobs/jobs/src/index.ts:147` says change observers hear of everything that
  changes what `list()` returns. `read()` and `wait()` set `reported`, which it
  returns, silently; `ObserverIsCurrent` leaves that field out.
- `jobs/tool-jobs/README.md:40` says a turn cannot close over an injected notice.
  One that errs, is blocked or is aborted can; the notice then waits for the
  next turn.

## 7. What is not modelled

- In `SessionPersistence`: pins of borrowed sessions, paged reads (`readFrom`),
  the flush inside a live snapshot, refusals for a different working directory
  or format version, writers outside the process, several ids at once (they
  share only the cache, whose eviction is modelled). A torn fragment is gone with
  the next write, so that nothing is written behind one is for `JsonlLog` to
  say; and no event precedes the created listener, so the cursor filter of a
  batch (`Fresh`) never drops any.
- In `ToolCalls`: the registry's contents, schemas, presentation, nested calls
  from code mode; a commit that fails before it appends the result of a call that
  needs no post-processing (`tool-calls.ts:153`).
- In `AgentDriver`: the content of messages and requests, the surface, model
  selection; refused appends of `turn/start` and `turn/end` (`agent.ts:261`,
  `:324`). `max-tokens` is kept as an ending because it is sticky.
- In `JsonlLog`: listing and artifact discovery, the header's identity checks,
  the stable-read loop against writers of other processes and the
  publication on Windows.
- In `AgentLifecycle`: forks, the ownership tree of the agent registry, the
  restart of a fiber, several ids, and the await of `unfollowOwner()` at the end of
  `dispose()` (`agent-loop/src/index.ts:518`).
- In `BackgroundJobs`: the output of jobs, the layers of several compositions,
  the lane of a notice and its wake budget.
- Surfaces, providers, tools, the web client, the Java service and the scripts:
  each has an entry with its reason in `PROJECT.json`. For the core they are
  the environment, which the models leave free.

## 8. Plan

Done, in this order: `SessionTrace` and `AgentDriver`; `ToolBatch` and
`ToolCalls`; `DurableLog` and `WriteBehind`; proofs for the driver and the
controller; `SessionPersistence`; `TurnRepair`, `JsonlLog` and `CrashRecovery`;
`AgentLifecycle` and its proofs; `BackgroundJobs`; then the proofs for the tool
scheduler, the jobs, the rest of the driver's safety, every safety property of
the coordinator, and every one of crash recovery.

Next:

1. `SessionArchive`, an abstract specification (one owner, an append-only
   history, readers see a prefix) that `SessionPersistence` refines by the
   invariants proved above.
2. After it: approvals against abort, retry back-off, the goal round driver,
   compaction over a surface.

## 9. Running the checks

    tlc -workers 2 -config MCAgentDriver.cfg MCAgentDriver
    tlapm AgentDriverProofs.tla      # and the other proof modules

Each `.cfg` names the properties it checks; the three violation runs
(`RefusedSeed.cfg`, `CloseFails.cfg`, `DisposeInAppend.cfg`) are expected to end
with a counterexample.

Notes for whoever extends the proofs: tuple patterns in set filters and CASE in
an action are not accepted by the SMT backend, so split the action first;
an EXCEPT that assigns a Boolean is a job for Zenon; a guard written as a
disjunction is evaluated on both sides by TLC, so write it as an implication
when one side protects the other.
