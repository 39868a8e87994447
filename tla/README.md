# A TLA+ model of pi-discord-threads

pi-discord-threads is a daemon that turns Discord threads into Pi coding
sessions. A message in a thread becomes a *run*: it is enqueued in Redis, a
worker lane claims it, Pi executes it, and the answer is posted in the thread.
Every part of that chain may die, stall or be repeated. This directory holds
TLA+ modules for the parts of the daemon where the order of things matters, the
TLC configurations that check them, and the TLAPS proofs of their main
properties. Paths below are relative to the repository.

## 1. The system

### Components and their state

| Component | Code | State it keeps | Operations |
|---|---|---|---|
| Run-control store | `src/run-control/store.ts`, `lua-scripts.ts` | Redis: run hash, active pointer per thread, lease, finalize key, jobs stream with a consumer group, inputs stream | enqueue, deliver, acknowledge, claim / heartbeat / release lease, count a retry, acquire / complete finalize, patch, mark terminal, append / read inputs |
| Worker job machine | `worker-machine.ts` | the job, the loaded run, the lease token | load, validate, claim, execute, release, acknowledge, retry later |
| Leased-run machine | `leased-run-machine.ts` | the result, the finalize claim, pending inputs | drain inputs, execute, abort, persist the result, claim finalization, post, complete, mark terminal, clear the pointer; heartbeat beside all of it |
| Worker lanes | `worker-lane-machine.ts`, `worker.ts` | consumer-group readiness, stop flag, backoff | dequeue loop |
| Final-answer outbox | `src/discord/final-answer-outbox.ts` | message ids and start time in the run hash | open, send with nonce, record, edit, refuse |
| Reconcile loop | `reconcile.ts`, `read-model.ts` | a snapshot of runs, pointers and registry | clear stale pointers, interrupt runs that are not active, repair the registry |
| Bot | `src/discord-bot.ts`, `thread-run-state.ts` | placeholders | enqueue a prompt, append an input, adapter of the worker |
| Registry | `src/registry.ts`, `src/engine/*` | thread status and active run in memory, saved to a file | patch, save queue, interrupt at startup |
| Pi sessions | `src/pi-runtime.ts` | runtimes and an operation queue per thread, idle timers | prompt, steer, follow up, abort, dispose |
| Progress HUD, renderer | `src/discord/progress-hud-machine.ts`, `message-renderer.ts` | latest progress, timers, edit queue, last payload hash | flush, heartbeat, stop, edit |
| Release transition | `release-transition.ts`, `release-deploy.ts`, `release-snapshots.ts`, `inspection.ts` | current release link, ledger, plist | canary, activate, restart, classify, roll back, compensate |
| App lifecycle | `app-lifecycle-machine.ts` | which resources were started | start by role, signals, drain, shut down |
| Result bridges | `async-subagent-result-bridge.ts`, `link-ingest-status-bridge.ts` | files, seen set, posted statuses | scan, publish, forget |
| Titles, memory, daily threads, operator tools, formatting | the rest of `src/` | files, none | - |

### How they interact

The bot and the lanes share only Redis and the registry. The bot enqueues with
one script that sets the pointer, the hash and the stream entry together. A lane
is handed entries by XREADGROUP and, when an entry has been idle for a lease
TTL, by XAUTOCLAIM. It claims the run's lease, heartbeats it, and verifies it at
the start of the states that touch Discord or the finalize key. Reconcile
repairs what crashes leave behind. The registry is a view of this for cards and
commands, written by the bot, the lanes and reconcile. Pi sessions and the HUD
live in the lane's process and are reached by thread id.

### What is hard

- *Interleaving.* A job is redelivered while its first lane is still at it: the
  heartbeat extends the lease, not the entry's idle time.
- *Read, then write.* `patchRun` and `markTerminal` look for a terminal status
  in one command and write in the next; pointers are cleared one command after
  their run was read.
- *Crashes and failed commands* between any two commands, in particular between
  Discord's send and the record of the message id, between `completeFinalize`
  and `markTerminal`, and between `markTerminal` and the clear of the pointer.
- *Expiry.* The lease of a stalled lane, the finalize claim during a slow post,
  the window in which Discord remembers a nonce.
- *Retries* that must neither repeat an answer nor go on for ever.

- *Promises that outlive their owner.* A drain, a render, a session being opened,
  the close of a bot: nothing cancels them when the state that waits for them is
  left, and their effects land later.
- *Two readings of one thing.* A handler decides from the record it read when
  its message arrived, reconcile from a snapshot of Redis, a deploy from two
  inspections.

`PROJECT.json` lists each hazard at its line, with the properties that cover it
and what they leave out.

### What makes each component correct

- Run control: one Pi turn per thread; an accepted prompt is settled once, frees
  its thread and leaves the stream; its job is not lost before; its answer is
  durable before it is visible, and visible at most once.
- Inputs: an accepted input reaches its run's turn while that lasts, once, and no
  other run's.
- Registry: the record of a quiet thread does not say queued or running.
- Pi sessions: one turn per thread, which messages and ESC can reach; a runtime
  out of the map is disposed; every prompt ends; what is recovered for a prompt is
  its answer.
- HUD: nothing edits the placeholder after the final card; the last progress is
  shown while a turn lasts.
- Release transition: what is current can run; one daemon; a failed deploy is
  harmless or compensated, a good one lost nothing.
- App lifecycle: what was started is shut down, whatever signal comes when, and
  nothing under a lane that still works.
- Bridges: a result or a status reaches its thread.

## 2. Modules

| Module | What it is |
|---|---|
| `RunStore` | the Redis keyspace and its commands |
| `RunControl` | lanes, bot, reconcile, Discord and faults over `RunStore` |
| `RunLifecycle` | the abstract promise to a thread |
| `RunThread` | one thread over `RunStore`: messages that become runs or inputs, drains, turns, the registry record and its repair |
| `PiSessions` | one thread without run control: handlers, runtimes, timers, recovery |
| `WorkerLanes` | the lane machine: start, outage, STOP |
| `AppLifecycle` | the process around `WorkerLanes`: startup, bot, signals, shutdown |
| `ReleaseFiles` | bundles, symlink, config and ledger on disk |
| `DeploySafety` | `classifyDeploySafety` as an operator |
| `ReleaseDeploy` | the release commands over both, the LaunchAgent and its runs |
| `ProgressHud` | the status cards of a run's attempts |
| `SubagentResults` | result files and their publication |
| `LinkIngest` | a captured link, its intake and its status functions |
| `Surfaces` | the three modules above side by side |
| `MCRunControl`, `MCRunThread`, `MCPiSessions`, `MCAppLifecycle`, `MCReleaseDeploy`, `MCSurfaces` | instances for TLC |
| `RunControlProofs` | types and what survives stalls |
| `RunExclusionProofs` | what leases give while no lane stalls |
| `RunRefinementProofs` | `RunControl` implements `RunLifecycle` |
| `RunThreadProofs` | an input steers one turn, once, and its own run's |
| `PiSessionsProofs` | one turn, within reach and left alone, no runtime left behind, no wrong answer recovered |
| `AppLifecycleProofs` | what a stopped process has closed, and in which order |
| `ReleaseDeployProofs` | what the outcome of a release command promises |
| `SurfacesProofs` | the final card stands |
`RunControl` and `RunThread` both model a lane, at two grains. In `RunControl`
each Redis command is a step, which is what leases, finalization and settlement
need. In `RunThread` the lane's end is a few steps and the detail is in what goes
on beside it: handlers, drains, the chain of turns, the registry. What one leaves
out the other has.

### RunStore

One variable per kind of key; one operator per atomic command (one EVAL, one
HSET). A method that sends several commands is several operators.

| TLA+ | Code |
|---|---|
| `status`, `result`, `retryLaterCount`, `outbox` | fields of the run hash. `outbox` is "started" once `finalDiscordOutboxStartedAt` is set, "sent" once the message id is recorded |
| `active`, `lease`, `finalize` | the keys of those names |
| `job` | the run's stream entry: not added, new, pending in the group, acknowledged |
| `settled` | history variable: runs that ever had a terminal status |
| `AtomicEnqueueRun` ... `CompleteFinalize` | the Lua scripts and commands |
| `WriteFinalizing`, `WriteTerminal`, `WriteOutbox` | the HSETs of `patchRun` and `markTerminal` |

Abstractions, all in the module's head or beside the operator: a token is the
lane that drew it; a TTL is an expiry step at any time its owner does not
prevent; `acquireFinalize` (GET, SET NX, GET) is one step; an answer is one
message, and empty or not, because `runRecordFromHash` reads an empty
`resultText` back as missing. Three terminal statuses are enough: nobody writes
"aborted".

### RunControl

`pc[w]` is the state of the machines of lane `w`. Machine states with several
Redis commands have one pc per command (`patchVerify`, `patchRead`,
`patchWrite`), since what others do in between matters. Each action is one
command with the transition that follows it.

| TLA+ | Code |
|---|---|
| `TakeJob`, `LoadRun`, `LoadActiveRunId`, `ClaimLease` | `worker-machine.ts` before the lease |
| `EnsureOwnership`, `VerifiedNext` | `ensureOwnership` at the head of a state |
| `Execute`, `AbortExecution` | `freshExecution`: the turn ends with an answer, an error or a lost lease |
| `ReadStatus`, `PatchRunFinalizing`, `MarkTerminal` | the read and the write of `patchRun` / `markTerminal` |
| `ClaimSuccess`, `ClaimFailure`, `Complete` | the finalize claim and its routing |
| `OpenOutbox`, `SendAnswer`, `RecordMessageId`, `SettleSurface` | `final-answer-outbox.ts` inside `finalizeRun` |
| `ClearActivePointer`, `ReleaseLease`, `CheckTerminal`, `RecordRetryLater`, `ReleaseAfterFailure`, `Acknowledge` | the way out |
| `Enqueue`, `ObserveStalePointer`, `ClearStalePointer`, `ReconcileReads`, `ReconcileInterrupts` | bot and reconcile, read and write apart |
| `Crash`, `CommandFails`, `HeldLeaseExpires` | faults, counted by `faults` up to `MaxFaults` |
| `OrphanLeaseExpires`, `FinalizeClaimExpires`, `NonceWindowCloses` | time |

`Stalls` separates two worlds. With `Stalls = FALSE` a lane that is alive keeps
its lease: the heartbeat, every 10 s by default and never slower than half the
TTL, does its job. With `Stalls = TRUE` a lane may be paused for a whole TTL
(a suspended host, a blocked event loop) and continue as a zombie.

Reconcile reads runs, then pointers, then, inside `markTerminal`, the run again.
A pointer that left a run never comes back to it, so what the last read sees is
what decides, and `ReconcileReads` is that read.

Left out of this module: inputs and the registry (`RunThread`; here `drainInputs`
only verifies ownership), the lane's STOP and backoff (`WorkerLanes`), answers of several messages, a message
deleted in Discord, the outbox's fallback to the run it was loaded with when
`getRun` fails, and a command that was applied but whose reply was lost (a crash
right after the command covers its effect on Redis and Discord, not what the
lane itself would do next). The guard `hasFinalizeAttemptReceipt` is subsumed: an
answer of one message has its receipt exactly when its id is recorded.

### RunLifecycle

Three variables (`phase`, `holder`, `answers`) and five actions. The refinement
maps the seven statuses to absent / open / settled, the active pointers to the
holders, and the copies in Discord to the answers.

### RunThread

One thread, over the store of `RunStore`. A run is named after the message that
started it.

| TLA+ | Code |
|---|---|
| `msg`, `target` | where the handler of a message is; the run it read as queueable |
| `Look`, `TryEnqueue`, `LookAgain`, `AppendInput`, `PatchQueued` | `queueIfActive` and `enqueueRunControlPrompt` of `discord-bot.ts` |
| `lane`, `TakeRun`, `SkipSettled`, `Leave`, `LoseRun` | `leased-run-machine.ts`, coarse |
| `drain`, `Page`, `ReadInputs`, `ApplyInput`, `EndDrain` | `drainInputs`, a promise apart from its machine: `own` says whether the machine still waits for it |
| `waiting`, `turn`, `StartPrompt`, `TurnBegins`, `TurnEnds` | `executeRun`, the chain of `enqueueOperation`, the Pi turn |
| `PatchFinalizing`, `SettleSurface`, `FailRun`, `Settle`, `Release` | the end of a run and its registry patches |
| `snapshot`, `ReconcileReads`, `ReconcileRepairs` | `reconcile.ts`: read Redis, later repair the record |

Abstractions: an ownership check is one step with the write it protects, and the
finalize claim is left out (`RunControl` has both). The registry record is its
status. A lane has at most one drain in flight; a new machine of that lane starts
its own when the old one is over. Leases are lost only while a lane executes.
`abortRun` by a lane that lost its run stops whatever turn streams, and so any
turn may end at any time. The inputs of a drain (`due`, `kept`) and those a lane
remembers (`pending`) are sets; their order is the stream's (`Place`). Each input
that waits for its backoff may be due at any later drain (`ready`), or not, which
includes the orders in which backoffs let later inputs pass. There is one thread.
A reconcile pass reads in one step and repairs in another. A prompt that meets a
finalizing run is `dropped`, as in the code.

### PiSessions

The same thread with run control off. `pc[m]` is where the handler of a message
is, `queue` the chained operations, `at` where the first of them stands. The
awaits of the code are the boundaries of the actions.

| TLA+ | Code |
|---|---|
| `Arrive`, `Ask...`, `AbortUntracked`, `EnqueuePrompt`, `PostAnswer`, `HandlerFails` | the message and prompt handlers of `discord-bot.ts`, `queueMessageForThreadIfActive` |
| `mapped`, `rt`, `StartOpening`, `Opened`, `DisposeThread` | `runtimes`, `getOrCreateRuntime`, `disposeThread` |
| `timers`, `TimerFires` | `scheduleDispose` |
| `OpStarts`, `TurnBegins`, `TurnEnds`, `PromptDone`, `PromptFails`, `Command...`, `ReloadFails` | `enqueueOperation`, `prompt`, `reload`, `compact` |
| `Esc` | `abort` |
| `Crash`, `Recovery...`, `RecoverAnswer`, `Resume`, `SkipRecursiveRecovery`, `ReconcilePlaceholder` | `markRunningThreadsInterrupted` and the recovery when the bot is ready |
| `crowd`, `began`, `timedOut`, `raced`, `reloadFailed` | history, to name the cases a property leaves out |

Abstractions: the thread already has a session file. A record's patch is one step
with its save. The abort and the disposal of an untracked turn are one step.
`prompt`'s branch that queues a prompt on a session that streams is unreachable in
the chain (`OneTurn`). A turn that ESC stops ends as an answer, as the code posts
it. A runtime that nothing refers to makes room for a new one. Compacting is
the reload's action with the difference that its failure too leaves the record
idle; the instance has a reload. `deferRegistryCompletion` and the abort signal
belong to run control and are in `RunThread`. Of the awaits between the running
patch and the prompt, and of those that follow the turn, one failure stands for
all: the handler's catch does the same after each. `SecondRestart` is an initial state
so that one fault suffices for a crash during a recovery.

### WorkerLanes, AppLifecycle

`lane[l]` is the state of a lane's machine. `AppLifecycle` has the machine's
`state`, what it remembers (`known`) and what is open in the process (`open`,
`parts`), which differ as soon as a signal drops a promise.

| TLA+ | Code |
|---|---|
| `Warm`, `WarmFails`, `LateWarm` | the starting states of `app-lifecycle-machine.ts` and the promise of one that was left |
| `LoggedIn`, `Registered`, `Linked`, `Recovered`, `LoginFails` | login and the ClientReady handler of `startBot` |
| `CallStop`, `LinksStopped`, `LinksStopThrows`, `WorkerStopped` | `stop()` of the bot, await by await |
| `ConnectFails`, `ConnectFailed` | `startDiscordBot` when `ready` rejects |
| `Signal` | SIGINT and SIGTERM in every state |
| `CloseNext`, `CloseFails`, `CloseBot...`, `ShutdownOver` | `closeAppResources`, once per shutdown: a signal during a failing startup begins a second one |
| `exited` | the handler of unhandled rejections in `index.ts` |

Abstractions: starting the reconcile loop awaits nothing and is part of the
registry's step. Closing awaits are one step each, except the bot's. The event
`APP_FAILURE` is handled by the machine and sent by nobody. A reconcile pass in
flight after its loop stopped, interaction handlers and direct prompts that
`stop()` does not wait for, and a Redis client that reopens are left out. `cut`,
`broken` and `overtime` are ghosts. A step of the startup that fails has opened
nothing, except the registry's own (`OpenedByThen`).

### ReleaseFiles, DeploySafety, ReleaseDeploy

A command is a list of steps (`DeploySteps`, `RollbackSteps`, ...); `step` is where
it is, `mode` which it is, with `rollingBack` and `compensating` for the rollback
inside a deploy. `FailStep` is the transition's `onError`.

| TLA+ | Code |
|---|---|
| `Copy`, `Move`, `Record`, `StepFails` with `RemoveBundle` | `createReleaseSnapshot`, the ledger |
| `Backup`, `Replace`, `Flip` | `backupAndRestoreReleaseConfig`, `activateRelease` |
| `WritePlist`, `Bootout`, `WaitForExit`, `ExitTooSlow`, `Bootstrap` | `launch-agent.ts` |
| `Preflight`, `Postflight`, `Classified`, `AfterRollback` | inspections and the choice after them |
| `ClassifyDeploySafety` | `inspection.ts` |
| `KeptAlive`, `Exits`, `DaemonCrashes` | launchd and its process |
| `Prompted`, `Claimed`, `Settles`, `LeaseLapses`, `DeadLettered`, ... | run control as the inspections see it |

Abstractions: one command at a time; the operator edits the config between
commands. A file's content is the version of the config it holds. Digests,
permissions, tampering and the guards of the command line are steps that succeed
or fail. A target is resolved by name, not by prefix. The refusal of a bundle of
another data directory is a failure of the flip. Whether run control is on is the
same in every config (`enabled`), so a rollback does not classify with a restored
config that differs in it. A `ps` that fails is a success of the wait (`blind`).
Of the ledger only the entries that are read back are kept.

### ProgressHud, SubagentResults, LinkIngest, Surfaces

| TLA+ | Code |
|---|---|
| `placeholder`, `ShowQueued` | the message the handler posted, and its last edit of it |
| `hud`, `Progress`, `Frame`, `TimerFires`, `RenderDone`, `StopReturns` | `progress-hud-machine.ts` and its controller |
| `edits`, `rendered`, `Render`, `EditLands`, `EditRefused` | `message-renderer.ts` |
| `attempt`, `StartAttempt`, `TurnStarts`, `TurnEnds`, `Finish` | `executeRun`, `finalizeRun`, `failRun` |
| `Scan`, `Read`, `ReadFails`, `SendChunk`, `Unlink`, `ProcessFails`, `BridgeRestarts` | `async-subagent-result-bridge.ts` |
| `RecordIngest`, `PostIngest`, `PostTimesOut`, `RecordOutcome`, `IntakeDies` | the link commands' handlers |
| `Resolve`, `PostStatus`, `RecordStatus`, `StepFails`, `Redelivered` | the memoized steps of a status function |

Abstractions: a card is what it shows, the narrator's last frame or else the last
progress, and does not depend on the elapsed time (`buildHudPayload` ignores it).
Whether the throttle lets an event through is open, but for the first, which
always goes; the timeout of the machine's stop is subsumed by the flush after it,
which has none. The narrator is the frames it may send. A later attempt that
finalizes again and archives again is left out. Of result files, two of one seen
key and a session file that several threads name are left out; one that can
never be parsed is a failure without end and beyond the bound. An event's status
is its kind or another that `statusFromEvent` may take from its data. Left out of
link events are two deliveries of one event at the same time.

## 3. Runs

| Run | Instance | Checks | Shows |
|---|---|---|---|
| `run_lanes` | 2 runs of 1 thread, 2 lanes, 1 attempt, 1 fault | `TypeOK`, `OneTurnPerThread`, `NonterminalIsActive`, `AckedIsSettled`, `RefinesLifecycle` | redelivery, takeover after a crash and two prompts in a row never give a thread two turns; a crash or a failure anywhere leaves a run that settles once, with one answer at most, and whose job and pointer stay until it has |
| `run_stalls` | 1 run, 2 lanes, stalls, 2 attempts, 2 faults, both kinds of answer | `AckedWasSettled`, `ExhaustedRunFreesThread`, `AnswerIsDurable` | what remains true of zombies |
| `run_liveness` | 1 run, 2 lanes, 2 attempts, 1 fault, both kinds of answer | `EveryRunSettles` | an accepted prompt ends, for good |
| `run_thread` | 3 messages, 2 lanes, pages of 1, 2 attempts to apply, 1 handler, 1 fault | `TypeOK`, `InputsHeardOnce`, `InputsStayWithTheirRun` | drains, their leftovers and takeovers never steer a turn twice or the wrong one, but for the two cases the property names |
| `thread_liveness` | the same with 1 lane | `InputsAreHeard`, `RegistrySettles` | an input queued in time reaches the turn; the record of a quiet thread comes to rest |
| `pi_sessions` | 2 messages, 1 reload, 2 runtimes, 1 fault; first start or a second restart | `TypeOK`, `OneTurn`, `TurnIsReachable`, `NoOrphanRuntime`, `QuietThreadIsIdle`, `LoneTurnIsSafe`, `RecoveredAnswerIsItsOwn`, `PromptsSettle` | the chain of operations against handlers that are not in it, late timers, failed posts and restarts |
| `app_lifecycle` | 2 lanes, all role sets, 2 failures | `TypeOK`, `NothingLeftOpen`, `JobsKeepTheirServices`, `OneJobOvertime`, `SignalEndsTheApp` | signals and failures at any step of startup and shutdown |
| `release_deploy` | 2 releases, 1 run, 2 config versions, 2 commands, 1 fault | `TypeOK`, `OneDaemon`, `CurrentIsRunnable`, `ConfigIsKept`, `HarmlessUntilFlipped`, `FlippedDeployIsCompensated`, `RollbackRestores`, `GoodDeployRuns`, `GoodDeployLostNothing` | two commands in a row, with one of their steps, the daemon or a command failing, over a live run |
| `surfaces` | 2 attempts of 3 events, 1 refused edit, the handler's queued card; 2 results of 2 chunks, 2 faults; 1 recorded and 1 posted kind of event, 2 attempts, 2 faults | `ArchiveStands`, `ResultsReachTheirThread`, `LinksAreAnswered`, `ProgressIsShown` | the final card stands, a card that is behind catches up, and what the bot shows beside the answer arrives |
| `active_steered` | 2 messages, no command, 1 runtime, no fault | `ActiveRunIsSteered` | violated: finding 3 |
| `zombie_reopens` | 1 run, 2 lanes, stalls, 2 faults | `UnleasedRunIsPending` (violated) | finding 1 |
| `finalize_done` | 1 run, 1 lane, 1 fault | `SucceededMeansAnswered` (violated) | finding 2 |

*Bounds.* `MaxFaults` bounds crashes, failed commands and stalls; without it a
run could be retried for ever by faults alone. `posted` is capped at 2, which
means "more than one". One thread suffices for properties of a thread, and the
proofs cover any number. Two runs make the second prompt meet the first one's
leftovers. Two lanes are a holder and a taker-over. Two attempts separate "count"
from "dead-letter". An instance with two lanes, two runs, two attempts and one
fault was also checked for the properties of `run_lanes`; it has five times the
states and finds nothing else. Lanes are interchangeable, so the safety runs use them
as a symmetry set; the liveness run does not. 
In `run_thread` three messages are a run, its input and what comes next, or two
inputs in two pages; two lanes are a run's old and new owner. A message is
named by its arrival; the two lanes are a symmetry set. `run_thread` has a view,
`WithoutRegistry`: no step but the repair of the registry record reads the record,
and a pass of reconcile touches Redis only when it has read a settled run, so what
the view leaves out changes nothing for the inputs. (`thread_liveness`, which is
about the record, has none.) With two handlers or two faults the run takes a few
million states and finds nothing else. In `pi_sessions` two messages are a turn and the message
that meets it, and the reload is the operation between them; a third runtime adds
nothing, because a runtime that nothing refers to is used again. A third message, which
may read a record that the first overwrote while the second's turn streams, was
also checked for `LoneTurnIsSafe` and `RecoveredAnswerIsItsOwn` (without the
reload and with one runtime); both are proved for any number of messages. In
`app_lifecycle` two failures are one that ends the startup and one in the
shutdown that follows. In `release_deploy` two commands make a second one meet
what a first one that failed has left, and a command that fails is already a
sequence of three (deploy, its compensation, the next command's start); release
ids are a symmetry set. In `surfaces` two attempts are a HUD that is being stopped
and its successor, and three events fill the throttle, a timer and an edit under
way. `Init` gives work to one of the three components: they share no state, so a
behaviour in which two of them run is an interleaving of two that are checked.

Deadlock is not checked in any run: each run id is enqueued once, messages,
commands, events and faults are bounded, and when all have been used and
answered the instance has nothing to do.

*Fairness* (`Fairness` in `RunControl`). Weak for a lane's steps: the event loop
runs every continuation, and a Pi turn ends by itself or by the heartbeat's
abort. Strong for the delivery of a job: XAUTOCLAIM scans from the oldest entry
and delivery resets an entry's idle time, so entries take turns and each is
handed out again and again while lanes poll. Weak for expiry (Redis) and for
reconcile (an interval). None for prompts, faults, stalls and the nonce window.
`EveryRunSettles` is false with stalls, by the behaviour of finding 1.

The later modules state theirs under `Fairness` too. `RunThread`: handlers,
lanes and the delivery of jobs go on, orphaned leases expire, reconcile's interval
fires; strong for the drain that finds a backoff over, because the ticker keeps
firing while drains come and go. No fairness on the end of a turn:
`InputsAreHeard` speaks of turns that last. `PiSessions`: code that can run
does, a turn ends, an idle timer fires. `AppLifecycle`: promises settle, delays
end, a job that a lane handles ends; `SignalEndsTheApp` is therefore "as long as
every turn ends". `Surfaces`: weak for each HUD, for the result bridge and for the
link functions, each as a whole: edits settle, timers fire, scans and Inngest steps
run, but which of a component's steps comes next is left open. `ReleaseDeploy` states safety only. Nothing makes people, subagents, Central,
signals, timers' exact times or faults happen.

*Findings.*

1. `zombie_reopens`: lane A stalls between the read and the write of
   `patchRunFinalizing`; its lease expires; lane B settles the run, fails to clear
   the pointer or dies after it has marked the run, and the job is acknowledged; A's write turns the
   run back to "finalizing". The run is active, has no lease and no pending job.
   `reconcile.ts:55` leaves it "pending for worker XAUTOCLAIM recovery" that
   cannot come, and the thread takes no prompt. A status guard in the same script
   as the write would exclude it.
2. `finalize_done`: an attempt ends in an error, completes finalization and dies
   before `markTerminal`. The next attempt succeeds, meets "done", and marks the
   run succeeded without posting.
3. `active_steered`: two messages arrive together and both read a record that
   shows no run. The first patches the record, starts its session and streams; the
   second then asks the session manager, which holds its own reading of the
   record against the streaming session, takes the turn for a leftover
   (`pi-runtime.ts:147`) and aborts it. `README.md:132` promises steering. Reading
   the record again inside `queueMessageForThreadIfActive` would exclude it.
*What the properties of passing runs exempt.* Some promises hold only up to
cases in which the code really behaves otherwise. Those cases are named in the
property, so that nothing else can hide behind them:

- `InputsAreHeard`: an input appended after the last drain of a turn is never
  heard, though its author was told it is queued.
- `InputsStayWithTheirRun`: a drain in flight outlives its run and may steer the
  next run's turn; the turn of a lane that lost its run may be steered by the next
  owner, and the inputs it took are not taken again by the right one.
- `RegistrySettles`: a live thread that a stale snapshot interrupts stays so until
  its run's next patch; a quiet one comes to rest.
- `TurnIsReachable`, `NoOrphanRuntime`: two sessions opened at once over one
  session file; a timer that fires during a turn.
- `LoneTurnIsSafe`: with two prompts under way the later one may abort the
  earlier's turn as a leftover (`pi-runtime.ts:146`), where `README.md:132`
  promises steering (finding 3). So may a later message when posting an earlier
  answer fails and the catch (`discord-bot.ts:2144`) writes over the record: a
  handler that still posts is company. A turn that starts over after a login was renewed counts as
  new, with the messages in flight by then as its company.
- `QuietThreadIsIdle`: a reload that fails leaves the record running.
- `RecoveredAnswerIsItsOwn`: with another prompt under way at the crash, or
  before the prompt's turn began, the answer at the end of the session file is
  another prompt's.
- `ArchiveStands`: the HUD of an earlier attempt that is being stopped, and the
  queued card of the handler that enqueued the run (`discord-bot.ts:2190`), which
  nothing orders with the lanes. `ProgressIsShown`: a refused edit is not tried
  again before newer news, and what another drew over is not drawn again.
- `ResultsReachTheirThread`: a thread that is resumed with another session while
  the result waits. The property is silent on results that are posted twice.
- `NothingLeftOpen`, `JobsKeepTheirServices`: what a cut-off promise opens later;
  a stop before the bot is ready, which nobody waits for; a link bridge whose
  close throws, after which neither lanes nor client are stopped; without run
  control, a registry that was opened by a step of the startup that then threw
  (`app-lifecycle-machine.ts:138`).
- `FlippedDeployIsCompensated`: a ledger entry that cannot be appended after the
  flip. `OneDaemon`: `--force`, and a start for which `ps` failed:
  `listProcesses` answers with an empty list (`launch-agent.ts:403`), the wait ends
  at once, and the bootstrap goes ahead beside the daemon that still drains,
  although line 235 says that only `--force` risks this.

Each property of a passing run has a mutant in its module, a definition with a
plausible slip (a dropped guard, an acknowledgement too early, an off-by-one),
and the run finds the property violated when the mutant replaces the original.

## 4. Proofs

**Run control.** The proofs assume `StoreAssumption` and `RunControlAssumption` (the constants
are what they are used as; "None" and "Done" are none of the ids) and, where it
says so, `~Stalls`. Nothing else: any sets of runs, threads and lanes, finite or
not, any number of attempts and faults.

| Theorem | Assumes | States |
|---|---|---|
| `TypeCorrect` | - | `[]TypeOK` |
| `AckedJobsWereSettled` | - | `[]AckedWasSettled` |
| `DeadLetterFreesThread` | - | `[]ExhaustedRunFreesThread` |
| `PostedIsDurable` | - | `[]AnswerIsDurable` |
| `LiveRunsAreActive` | `~Stalls` | `[]NonterminalIsActive` |
| `AckedJobsAreSettled` | `~Stalls` | `[]AckedIsSettled` |
| `OneTurn` | `~Stalls` | `[]OneTurnPerThread` |
| `RunControlImplementsLifecycle` | `~Stalls` | `RefinesLifecycle` |

The argument goes up four inductive invariants, each relative to the ones before:

- `Settlement` (`RunControlProofs`). "Was settled" cannot be lost, so it can be
  carried from the write of a terminal status to the acknowledgement. The
  strengthening says where a lane knows it (`SettledAt`), that only settled runs
  lose their pointer, and that a run nobody accepted has no job and no lane.
- `Answering` (`RunControlProofs`). A lane about to post has a result in the hash
  (`AnsweredAt`). The one exception is a lane whose `patchRunFinalizing` was
  skipped because its run was terminal. If such a run is live again by the time
  the lane verifies its lease, a zombie's write made it so, and that write had a
  result.
- `Exclusion` (`RunExclusionProofs`). While no lane stalls, a lane past its claim
  holds the lease of its run. So the status it read is still true when it writes,
  nobody else settles the run, and reconcile has nothing to interrupt. One turn
  per thread follows: two executing lanes have two live runs, both would be the
  active run of the thread.
- `Posting` (`RunRefinementProofs`). An answer in Discord whose id is not
  recorded has its outbox open, and the outbox is never reopened for another
  send after the nonce window; hence at most one copy.

The refinement proof maps each action with one lemma per kind of effect: writes
of a status (`StatusWrites`), clears of a pointer (`PointerClears`), acceptance
(`EnqueueAccepts`), the post, and stutters.

**Later modules.** Their theorems assume the constants' assumptions of their own
modules: `StoreAssumption` and `RunThreadAssumption`, `ConstantsAssumption`
(`PiSessions`), `HudAssumption`, `ResultsAssumption` and `LinkAssumption`
(`Surfaces`), `AppLifecycleAssumption`,
`ReleaseFilesAssumption`, `DeploySafetyAssumption` and `ReleaseDeployAssumption`.
They hold for any messages, runtimes, lanes, HUDs, releases and runs and any
number of events, commands and faults, where the runs of section 3 have two or
three of each. `RunThread` is about one thread, so its assumption says that there
is one. The exempted cases are the properties' own, listed in section 3.

| Theorem | Module | States |
|---|---|---|
| `TypeCorrect` | `PiSessionsProofs`, `AppLifecycleProofs`, `ReleaseDeployProofs` | `[]TypeOK` |
| `OneTurnAtATime` | `PiSessionsProofs` | `[]OneTurn` |
| `TurnsAreReachable` | `PiSessionsProofs` | `[]TurnIsReachable` |
| `NoRuntimeIsOrphaned` | `PiSessionsProofs` | `[]NoOrphanRuntime` |
| `QuietThreadsAreIdle` | `PiSessionsProofs` | `[]QuietThreadIsIdle` |
| `LoneTurnsStand` | `PiSessionsProofs` | `LoneTurnIsSafe`, an action property |
| `RecoveredAnswersMatch` | `PiSessionsProofs` | `RecoveredAnswerIsItsOwn`, an action property |
| `ThreadTypes` | `RunThreadProofs` | `[]TypeOK` |
| `InputsAreHeardOnce` | `RunThreadProofs` | `InputsHeardOnce`, an action property |
| `InputsReachTheirRun` | `RunThreadProofs` | `InputsStayWithTheirRun`, an action property |
| `FinalCardStands` | `SurfacesProofs` | `ArchiveStands`, an action property |
| `StoppedLanesFinish` | `AppLifecycleProofs` | `[]OneJobOvertime` |
| `LanesKeepTheirServices` | `AppLifecycleProofs` | `[]JobsKeepTheirServices` |
| `ShutdownIsComplete` | `AppLifecycleProofs` | `[]NothingLeftOpen` |
| `OneDaemonAtATime` | `ReleaseDeployProofs` | `[]OneDaemon` |
| `CurrentCanRun` | `ReleaseDeployProofs` | `[]CurrentIsRunnable` |
| `ConfigSurvives` | `ReleaseDeployProofs` | `[]ConfigIsKept` |
| `FailureIsHarmless` | `ReleaseDeployProofs` | `[]HarmlessUntilFlipped` |
| `FailureIsCompensated` | `ReleaseDeployProofs` | `[]FlippedDeployIsCompensated` |
| `RollbackIsComplete` | `ReleaseDeployProofs` | `[]RollbackRestores` |
| `GoodDeployIsRunning` | `ReleaseDeployProofs` | `[]GoodDeployRuns` |
| `GoodDeployKeptRuns` | `ReleaseDeployProofs` | `[]GoodDeployLostNothing` |

Each proof has an inductive invariant, in named parts, and one lemma per part
that takes it through every action; `PiSessionsProofs` has a second one on top of
the first.

- `ThreadInv` (`RunThreadProofs`). That a lane does not steer its turn twice with
  an input rests on the lane's cursor: all its turn has heard lies behind the
  cursor, and none of it is among the inputs still to be applied
  (`HeardIsBehind`). The cursor is in the machine or, while a drain is under way,
  in the drain, which may outlive the machine: `Drains` says when the drain's
  results still count, and that it is never behind the machine. `Own` says that
  what is kept or due is behind the cursor too, is for the run of the lane, and
  is there once, so that a page read later brings only new inputs; that needs the
  stream to hold a message once, which is in `TypeOK`, and a queued message to be
  queued only once (`Streamed`). `Chained` says that a turn that streams is that
  of its lane's run. `InputsStayWithTheirRun` follows from `Own` and from there
  being one owner of a lane's run.
- `SessionInv` (`PiSessionsProofs`). A runtime that is being opened is in one pair
  of hands (`Openers`), without which even the types are not inductive. A session
  streams only for the prompt at the head of the chain (`Streaming`), so two
  sessions cannot. `Racing` and `Reaching` follow the mapped runtime: it changes
  under an operation only by a timer or by a second open. `Accounted` names who
  will take a "running" record back; `Chained` and `Recovering` say that those
  people exist, that a prompt is in the chain once and that a record never names
  a settled run.
- `LoneInv` (`PiSessionsProofs`, relative to `SessionInv`). It is about the
  prompts that have the thread to themselves until their turn: those not in
  `crowd`. `Alone` says that before the turn nobody else is in flight, `First`
  that the prompt stays at the head of the chain, `Tracked` that during the turn
  the record names it and every other message has read that; such a message
  steers, so it cannot take the turn for a leftover. For the recovery, `Unasked`,
  `Unrivalled` and `Transcribed` say that the session file ends with the active
  run's turn or answer, and `Restarting` carries that over a restart to the run
  that the recovery found.
- `HudInv` (`SurfacesProofs`). `Stopping` ties the machine of a HUD to the attempt
  that owns it: when its `stop()` has returned nothing is queued at the renderer
  and nothing can be. `Ordered` and `Final` say that attempts start in order and
  that only the last one, which is over, has put up the final card.
- `AppInv` (`AppLifecycleProofs`). `Tracked` says of everything open whose job it
  is to close it: the machine's, a shutdown's, or nobody's, which are the cases
  the property exempts. `BotFirst` and `Passed` say where in `closeAppResources`
  each shutdown is. Two shutdowns may run at once after a signal in a failing
  startup, so both are about every shutdown; from them follows that none is past
  the bot while a lane works, hence that its services are open (`Warmed`,
  `Serving`). `Shutting`, `Connecting`, `Stopping` and `Working` tie the state of
  the machine to that of the bot and the lanes.
- `ReleaseInv` (`ReleaseDeployProofs`). A command is at a step of its own list
  (`OnScript`), and what the steps before have done still holds although the
  daemon, launchd, the runs and the operator go on: `Untouched` until the flip,
  `Restored` from the config's rename on, `Restarted` from the flip, the plist and
  the start on, `Fresh` for a bundle in the making. `AdvanceOrder` says once how
  the lists order the steps. `Promised` holds what the verdict says after the
  command is over. `HarmlessUntilFlipped` owes its last clause to this proof: a
  daemon that crashes before the flip is restarted from `current`, which may
  differ from what it ran, so "the process it had" alone would be false with
  three releases and is not what the order of the steps guarantees.

*What the proofs changed.* `LoneTurnIsSafe` was false for three messages and two
faults, out of the reach of the instance TLC checks: a turn that fails on a login
that was renewed meanwhile starts over (`prompt`, `pi-runtime.ts:605`). A message
that came during the first try finds no turn to steer in between, may fail and
puts its error into the record; a third message then takes the second try for a
leftover and aborts it. The history variable `crowd` now counts a prompt that
starts over as one that has company when another message is in flight or its
runtime is no longer the mapped one. `RunThread` had its
inputs in sequences and let the backoff of inputs pass together; they are sets in
the order of the stream now, and each input has its own backoff, as in the code.
It also let only the first of idle lanes take a run, which kept some takeovers of
a run whose old turn still streams out; any idle lane may take it now.

*Only model-checked:* the liveness properties (`EveryRunSettles`,
`InputsAreHeard`, `RegistrySettles`, `PromptsSettle`, `SignalEndsTheApp`,
`ProgressIsShown`, `ResultsReachTheirThread`, `LinksAreAnswered`; liveness under
fairness is out of the prover's reach), and the three violated properties, which
are false. The bounds of section 3 apply to them. Every safety property that a
passing run checks is proved.

## 5. Not modelled, and why

Formatting, payloads, parsing of configuration, secrets, and the reports of
`doctor` have no state that several actors share. Titles and session memory are
model calls and files that nobody waits for; daily threads are one timer over one
small file. Pi, Discord, Redis, launchd, Inngest and Central are modelled by what
this code sees of them: a turn that ends, a send that honours a nonce for a while,
commands that are atomic and keys that expire, a process that is kept alive, steps
that are attempted again. Run events and worker heartbeat records are written and
never read for a decision.

Parts of modelled components that are left out, beyond the abstractions named in
section 2: answers of several Discord messages and the outbox's edit pass; the
registry's save queue with its temp file and message index; a session's creation,
`/resume`, `/name` and the choice of provider and model; reconnection inside
the Redis client; reconcile's reports that repair nothing.
