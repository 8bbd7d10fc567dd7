# brevi, specified and checked

brevi turns Linear tickets into pull requests. A host process (the
orchestrator) polls Linear, queues runs and dispatches them to worker daemons;
a worker boots a sandbox, runs a coding agent in it, opens the pull request and
reports everything back over the socket it dialled. This directory holds TLA+
modules of that system, TLC configurations that check them on small instances,
and TLAPS proofs of the properties that matter most for every instance.

Everything is written from the source, at the lines `PROJECT.json` names in
`map`. Paths below are relative to `src/`.

## The system

| Component | Code | State it keeps | Operations |
|---|---|---|---|
| Report stream, worker side | `packages/worker/src/connection.ts` | per lease: next sequence number, frames not yet acknowledged, which of them this socket was handed, the last ack, the gap given up, the deadline | report a frame, cap the buffer, flush, heartbeat, connect, registered, lease-ack, lease-lost, run-complete-ack, sweep deadlines |
| Report stream, host side | `packages/orchestrator/src/workers.ts` | per lease: applied watermark, frames applied ahead of it, frames in flight, the write chain, a completion being applied or parked | admit, write, mark applied, skip a gap, complete, ack |
| Lease persistence | `packages/orchestrator/src/leases.ts` | leases in memory and in `leases.json`, a debounce timer, a write queue | put, putDurable, delete, flush, init |
| Lease registry | `packages/orchestrator/src/workers.ts` | connections, leases by id and by run, grace timers, heartbeat watchdogs, cancel intents, sessions, usage requests | accept, register, dispatch, cancel, expire, restore, attach, ask for usage, stop |
| Run scheduler | `packages/orchestrator/src/scheduler.ts` | the queue, follow-up markers, resume and reap timers, per-run locks, Linear's client and refresh, configuration operations | poll, queue, dispatch, settle, reject, interrupt, cancel, retry, follow up, resume, reap, archive, recover, connect |
| Run store | `packages/orchestrator/src/state.ts` | runs and their event logs, a write queue | create, update, setStatus, appendEvent, upsertCost |
| Fleet store | `packages/orchestrator/src/fleet.ts` | worker records, credential hashes, pairing tokens | mint, redeem, authenticate, touch, drain, revoke |
| Host server | `packages/orchestrator/src/server.ts`, `pulls.ts`, `connectors.ts`, `terminal.ts` | dashboards' sockets and subscriptions, a device session | start, stop, push, answer |
| Worker daemon | `packages/worker/src/daemon.ts`, `attach.ts` | active executions, retained sandboxes, discards, sessions, stop sequences | dispatch, cancel, lease lost, discard, attach, complete-ack, shutdown |
| Run execution | `packages/worker/src/runner.ts`, `followup.ts`, `review.ts`, `reporter.ts` | one run's progress, its processes, its sandbox | the steps of an implementation or a follow-up |
| Usage accounting | `packages/worker/src/costs.ts`, `ccusage.ts`, `usageSnapshot.ts`, `packages/shared/src/usage.ts` | what an execution has burned, by three sources; samples; an archive | observe, sample, settle, export, report |
| Memories | `packages/integrations/src/memory.ts` | a list per repository, a write queue | record, forget, clear |
| Desktop shell | `apps/desktop/src/main/` | the host in this process, the local worker and its restart timer, updater state | start, restart, stop, back off, update |
| Dashboard | `apps/app/src/` | a websocket, runs and their logs, queries, polls of device codes | connect, reconnect, show, act |
| Installer | `packages/worker/scripts/install.sh` | accounts, files, a unit, the record of what it made | install, upgrade, uninstall |
| Integrations, sandboxes, site | `packages/integrations`, `packages/sandbox`, `apps/api`, `apps/docs` | clients, directories, processes | mostly I/O |

Workers and host share no memory: everything between them is a frame on one
websocket per worker, in order, lost with the socket. The host's own pieces call
each other in one event loop, so the interesting interleavings are at its
`await`s: a write to disk between two frames, a registration draining a lease,
a completion waiting for the writes ahead of it, an answer of GitHub, Linear or
`wrangler` that comes when the state it was asked for has moved on. What is hard:
sockets that die with frames and acks in flight, hosts that die between an ack and
a debounced write, workers that come back after their run was given to somebody
else, writes that fail and are retransmitted or rolled back, buffers and queues at
their limit, timers that fire beside what they were to bound, and late answers.

## What makes each component correct

- Report stream: no reported frame is lost without being accounted for; the
  watermark never claims a frame that is not; a completion is applied only with
  everything below it; a frame is applied once per boot; frames reach the disk
  in the order they were sent; every stream ends.
- Lease registry: a run is executed by one worker at a time; a lease known to
  the worker is known to the disk; a cancelled run stops; an expired lease is
  given back exactly once; a worker cut off from its host stops in bounded time.
- Run scheduler: a run is queued, running or settled, never two of them; a
  settled run is not resurrected; a run with a live lease is never requeued; a
  decision of the user is not overwritten by a late answer; only what is over is
  archived.
- Fleet: a pairing token enrols one machine; a revoked worker is out for good, and
  nobody else is told that it is.
- Worker daemon: one execution per lease, abandoned ones report nothing, one user
  of a retained disk, a stop that leaves nothing behind.
- Execution: no work outlives its sandbox, "completed" means delivered, a human's
  push stands, every attempt ends.
- Accounting: every execution once, in full, however it was measured.
- Dashboard: what is shown is what happened, once it has been told.
- Desktop: one host at a time, one local worker under it; an update is tried twice
  at most.

## Modules

| Module | What it is |
|---|---|
| `ReportLog` | What a reporting stream promises, without wire, buffer or crashes |
| `ReportChannel` | The stream of one lease, both ends, the socket, the disk and the faults |
| `MCReportChannel` | Its TLC instances: what an execution reports |
| `ReportChannelProofs` | Its inductive invariants, the theorems they give and the refinement |
| `RunDispatch` | Runs, leases and workers: scheduler, registry, daemons, restarts |
| `MCRunDispatch` | Its TLC instances |
| `RunDispatchProofs` | That nobody executes a lease the host does not own or could lose in a crash, and that recorded cancels arrive |
| `RunDispatchPlaces` | That a run is in one place: handed out once, never stranded, moved by no late report, and leased for what was asked for |
| `LeaseFence` | One lease against the clock, at both ends |
| `FleetGate`, `FleetGateProofs` | Pairing, enrollment, registration and revocation, with the fleet's file; that they are exact |
| `LinearConnector` | Linear's credential and its refresh, the configuration's writers, the poll |
| `DesktopShell` | The app around the host: supervisor, local worker, updater, quitting |
| `MemoryStore`, `MemoryStoreProofs` | What is remembered of one repository, and its file; that deletions stick |
| `WorkerInstaller` | `install.sh` and the unit it leaves, interrupted anywhere |
| `ConnectFlow` | A provider's row and the host's search, check and device codes |
| `EvidenceBucket` | The one-click bucket for evidence |
| `MCHost` | TLC instance of the eight components from `LeaseFence` to here |
| `HostProofs` | Theorems of `LeaseFence`, `LinearConnector`, `DesktopShell`, `WorkerInstaller`, `ConnectFlow` and `EvidenceBucket` |
| `RunExecution` | One attempt on its worker, with its processes, sandbox and pull request |
| `RetainedDisk` | One retained disk and everybody who wants it |
| `PullWatch` | A run after its work: its pull request watched, the archive |
| `PullPage` | The page of one pull request |
| `WorkerShutdown` | How a worker process stops |
| `MCWork` | TLC instance of the five modules above |
| `WorkProofs` | Theorems of the five, and of `MCWork`'s composition of the first two |
| `UsageLedger` | What executions cost, from three sources that disagree |
| `UsageReport` | What every machine spent, asked of workers and added up |
| `ActivityFeed` | What the dashboard shows of an agent's stream |
| `Dashboard` | The console of one run: history over HTTP joined with live events |
| `MCShown` | TLC instance of the four modules above |
| `ShownProofs` | Theorems of `UsageReport`, `UsageLedger` and `Dashboard` |

They look at the same code at different depths. `ReportChannel` takes one lease and
keeps everything about its frames. `RunDispatch` takes many runs, leases and workers
and keeps of the frames only those that carry a status, arriving in order and once:
what `ReportLog` promises, and what the first module shows the stream to deliver,
with the exceptions named under Runs. The others each take one more actor or one more
resource and rely on those two for what lies between: `RetainedDisk`, `PullWatch` and
`RunExecution` have reports arrive in order and once, `LeaseFence` has time where
`RunDispatch` lets anything expire.

`MCHost`, `MCWork` and `MCShown` put modules that share no variable side by side: the variable
`part` says which of them a behaviour moves, and the others stay as they began. TLC
checks the parts as if one after another, so the numbers of their states add up. No
interaction is lost by this, for none is modelled between these modules: where two
components do interact, they are in one module.

### ReportChannel and the code

| State | Code |
|---|---|
| `seq`, `held`, `delivered`, `awaitingAck`, `lastAckedSeq`, `gapThrough`, `open` | `LeaseBuffer` in `connection.ts` |
| `conn`, `installed`, `toHost`, `toWorker` | the socket, the worker's and the host's view of it, what is on it |
| `leased`, `appliedSeq`, `appliedAhead`, `inFlight`, `chain`, `completion`, `ackOwed` | `Lease`, `#leaseWrites`, the parked and the finishing completion in `workers.ts` |
| `durableSeq` | the lease's entry in `leases.json` |
| `applied`, `runDone` | the effects of frames on the run store |
| `dropped` | history: the frames the cap gave up |

`Report` is `sendReporting` with everything it calls (number the frame, cap the
buffer, announce a gap, flush). `HandleFrame` is one frame's admission;
`WriteLands` and `WriteFails` are the two ends of its chained write;
`DrainEnds`, `CompletionLands` and `CompletionFails` are the awaits of
`#completeRun` and `#finishCompletion`; `HandleRegister` and `AckRegistration`
are `#handleRegister` before and after it has drained the lease. A frame's
content is left out: what it does is "its effect is on disk".

### RunDispatch and the code

| State | Code |
|---|---|
| `status`, `result` | a run's status and result in the run store |
| `queue`, `followUps`, `resumeTimers`, `driving` | `Scheduler`'s fields, and its dispatch loop being under way |
| `busy`, `lost` | `#withRunLock`: who holds a run's lock across an await, and the interruptions queued behind it |
| `grant`, `held`, `leaseByRun`, `cancelIntents` | `WorkerRegistry`'s leases |
| `claiming`, `stored` | leases whose `putDurable` is pending; the LeaseStore's leases |
| `admitted`, `finishing` | how many of a lease's reports the host has chained; completions between their write and their settling |
| `running`, `aborted`, `claimed`, `stage`, `reports` | the daemon's executions, their abort signals and progress, the lease buffers |
| `seen`, `sock`, `toHost`, `toWorker` | the registry's connections, and the sockets |
| `pr`, `prNew`, `sawPr` | the pull request of a run's branch, and what a comparison of its creation time with an attempt's beginning would find |
| `asked`, `wanted`, `spent` | history, and the counters of the bounds |

One handler is one action; where it awaits, it is as many as it has awaits, and
the state between them is in `busy`, `claiming` or `finishing`. `#dispatchQueued`
runs without an await, so while `driving` holds no other host action is enabled:
one turn of its loop per step, nothing in between. A lease id is a fresh UUID in
the code; the model takes an id again only when nothing refers to it any more.

Time is left out of `RunDispatch`. A lease may expire whenever the host holds no
socket for its worker and its writes have landed; a worker may give a lease up
(`FenceSelf`) whenever it has no live socket. So the model has every race between
the two deadlines, and also orders the timing might exclude; what depends on the
deadlines being in the right order is `LeaseFence`'s.

### The modules of MCHost and the code

| Module | State | Code |
|---|---|---|
| `LeaseFence` | `hostDue`, `graceDue`, `watchDue` | a lease's `expiresAt`, the reconnect window's timer, the heartbeat watchdog (`workers.ts`) |
| | `workDue`, `beatDue`, `budget` | the worker's copy of `expiresAt`, its next heartbeat (`connection.ts`), `config.fleet` |
| `FleetGate` | `mem`, `disk`, `writes`, `pairing` | `FleetStore`'s workers, `fleet.json`, its `#io` queue, the tokens |
| | `gate`, `live`, `wire`, `machine` | `WorkerRegistry.#gate` and `#workers`, the sockets, a machine's process and `worker.json` |
| `LinearConnector` | `config`, `file`, `chain`, `reloadTimer` | the scheduler's `#current`, `config.json`, `#configOps`, `#configReloadTimer` |
| | `age`, `refused`, `generation`, `client`, `health`, `backoff`, `refresh`, `call` | the access token, `#linearGeneration`, `#linear`, `linearStatus`, `#linearRefreshBackoff`, `#linearRefresh`, the calls in flight |
| | `polling`, `pollAgain`, `tickets`, `todo`, `creating`, `listed` | `#polling`'s cycle, `#pollAgain`, `#tickets`, `createRun`'s window, the store's runs |
| `DesktopShell` | `ops`, `at`, `handle`, `hosts` | the supervisor's `#operation` chain and `#handle`, orchestrators alive |
| | `daemon`, `stopping`, `told`; `updater`, `record` | `startLocalWorker`'s cycle; the updater's state and `desktop-update.json` |
| `MemoryStore` | `list`, `onDisk`, `saves` | `#repos`, a repository's file, the write queue |
| `WorkerInstaller` | `step`, `args`, `owned`, `account`, `installed`, `env` | the script, `ownership.env`, accounts, files, `worker.env` |
| | `service`, `journal`, `enrolled` | the unit, its log, `worker.json` |
| `ConnectFlow` | a row per tab, its timer and polls, the host's device session and its two credential slots | `ConnectorsSection.tsx`, `connectors.ts`, `credentials.ts`, `connect.ts` |
| `EvidenceBucket` | the row, its questions, the wrangler login, the account's buckets, the two fields of the configuration | `ConnectorsSection.tsx`, `lib/settings.ts`, `scheduler.ts`, `r2.ts` |

### The modules of MCWork and the code

| Module | State | Code |
|---|---|---|
| `RunExecution` | `step`, `pass`, `cause`, `aborted` | where `executeRun` or `executeFollowUp` waits, its session, its catch block, its signal |
| | `procs`, `box`, `disk`, `tree`, `pulled`, `head`, `pr` | processes, a session's usage samples among them, the `Sandbox`, the workspace, the finalizing copy, the branch and pull request |
| `RetainedDisk` | `runState`, `queued`, `followUp`, `retainedUntil`, timers | the scheduler's view of the run |
| | `held`, `attached`; `active`, `known`, `tracked`, `removing`; `shared`, `tty` | the registry's leases and sessions; `activeRuns`, `knownRuns`, `activeDiscards`; `attach.ts` |
| `PullWatch` | `run`, `lock`, `refresh`, `sweep`, `work` | the store's run, its lock, `#prRefreshes`, `#autoArchive`, the worker's copy |
| `PullPage` | `query`, `acts`, `text`, `notice` | the page's queries, its mutation, the composer, the banner |
| `WorkerShutdown` | `sequences`, `exec`, `completion`, `socket`, `halted`, `forgetting`, `terminal` | `shutdown()`'s runs, `activeRuns`, the owed frames, the connection, `onRevoked`, `attach.ts` |

### The modules of MCShown and the code

| Module | State | Code |
|---|---|---|
| `UsageLedger` | `streamed`, `result`; `latest`, `inFlight`; `costs`, `interim`; `frames`, `archive` | `claudeStreamAdapter`; the ccusage sampler; the reporter's list; snapshots and the host's archive |
| | `reviews` | the codex passes of a review, which run beside one another |
| `UsageReport` | the collection, its requests, the worker's line and the registry's entry of it, the page's cache | `#collectUsage`, `requestUsage`, `daemon.ts`'s answer, `Usage.tsx` |
| `ActivityFeed` | `calls`, `inMessage`, `thinking`; `startedAt`, `log` | the agent's stream; `thinkingTracker` and the run's log |
| `Dashboard` | `logged`, `subs`, `pushed`, `sent` | a run's log, the server's subscriptions, the socket both ways |
| | `selected`, `loaded`, `console`, `fetches` | the reducer's state and its requests (`useOrchestrator.ts`) |

Each module's head says what it leaves to another one. The variables counted by the
bounds (`spent`, `counts`, `around`, ...) and those marked `(history)` are the model's.

## Runs

Passing runs of the stream (`ReportChannel`):

| Run | Question | Bounds |
|---|---|---|
| `stream_faults` | Is any frame lost silently, applied twice in a boot, skipped while it could still arrive, missing from a finished run, or written out of order before a write has failed? Does the stream implement `ReportLog`? | 4 frames of the four sorts, buffer of 2, one socket death, one crash, one failing write |
| `stream_live` | Does every stream end? | 3 frames, buffer of 1, one socket death, one orderly restart, one failing write |

Passing runs of dispatching (`RunDispatch`):

| Run | Question | Bounds |
|---|---|---|
| `dispatch_faults` | Is a run handed out twice, lost, brought back or overwritten? Is anything executed that a crash would erase from the record, or that the host has given up on? | 1 run, 2 workers, 2 leases, one socket death, one host restart |
| `dispatch_commands` | Does the scheduler keep its word about kinds and pull requests when users interfere? | 1 run, 1 worker, 2 leases, two commands of retry, follow-up, cancel, one claim that cannot be written; runs may wait |
| `dispatch_cancel` | Does a recorded cancel reach a worker that was away before it can go on executing? | 1 run, 1 worker, 2 leases, one cancel, one socket death, one worker restart, one fence |
| `dispatch_live` | Do queued runs come to rest, are leases given back? | 2 runs, 1 worker of capacity 1, 2 leases, one socket death |

`host` (`MCHost`), one property and one question per component, where two words of the
code belong together joined in one property of named parts:

| Property | Question | Bounds |
|---|---|---|
| `FenceHolds` | Is a lease the host has written off worked on no longer than budgets allow, and a healthy one never given up? | 12 instants, two budgets the settings switch between, one stall of the network, one host restart |
| `RevocationIsExact` | Does a revoked enrollment stay out of memory, disk and connections, and is nobody turned away for good whose revocation did not take? | 2 machines, 2 tokens, 2 sockets, one heartbeat, one revocation, one failed write, dead socket, crash or restart |
| `PairingIsExact` | Does a token enrol at most once, and is no credential handed out without a record? | the same |
| `LastDecisionStands` | Can a refresh write over what the user decided meanwhile, but for a hand edit it overtakes? Do file and memory ever differ with nothing under way to join them? | 2 connections, one of them a personal key, one refresh each, one event from outside |
| `PollsAreExact` | Is a revision of a ticket queued once, and no request to poll swallowed? | the same, one ticket |
| `WorkerHasItsHost` | Does the local worker run only under its host, and is it always told to go? | 2 releases, 4 launches, 2 clicks, one failing worker |
| `DeletionsStick` | Does a deleted memory come back, from a failed write's roll-back or the queue? | 2 facts, 3 records, 2 deletions, a clear, a failing write, a crash |
| `FoundAccountsStay` | Does the installer delete an account it found, but a group that goes with the user it made? | every set of accounts found, 3 runs of the script, cut anywhere, one death of the daemon |
| `RowsAreBacked` | Is a code that is shown polled for, and "connected" backed by an accepted credential? | one tab, 2 clicks, one upset, every provider |
| `PublishingIsAskedFor` | Is a bucket made public only if this very call created it, and does a row connect by itself no more often than logins were started, and never unclicked? | one page, 2 presses, 2 bucket names, one typed form, one twist of the user's |

`work` (`MCWork`), around one execution:

| Property | Question | Bounds |
|---|---|---|
| `NoWorkOutlivesItsSandbox` | Is the agent, a reviewer or the synthesis alive in a sandbox that is gone? | 2 reviewers, every set-up, every failure, abort and timeout |
| `CompletedIsDelivered` | Is what a completed run says it delivered where it says? | the same |
| `HumanPushesStand` | Does a follow-up overwrite a push? | the same, a colleague who pushes at any time |
| `EveryAttemptSettles` | Does an attempt end, whatever hangs? | the same |
| `RetainedDiskIsUsable` | Is a disk that is called retained there, and used by one at a time? | 2 attempts, one retry, one session, one socket death |
| `ArchivedIsOver` | Is a run in the archive that is not over? | 2 pull requests, 2 attempts, 2 lookups or sweeps, one restart |
| `WhatWasDoneIsShown` | Does the page show what it was told had succeeded? | 2 clicks, one event around them |
| `CleanStopsAreWhole` | Does a stop that reports success leave an execution, a sandbox or an owed completion behind? | 2 executions, one connection lost, every way to stop, several at once |

`shown` (`MCShown`), what people see of the work:

| Property | Question | Bounds |
|---|---|---|
| `SpendIsCountedOnce` | Is any execution missing from the cost list, in it twice, or above what it burned? | 2 executions, 2 review passes, 2 models |
| `SpendIsReportedOnce` | Is a machine's spend counted once, and in full where it answered? | one remote and one local worker, 2 collections, 2 sockets, one source that cannot be read |
| `FeedIsTrue` | Has every call one row with its own outcome, every edit its diff, and does the spinner turn exactly while the agent thinks? | 2 calls, 2 processes, spells, messages and lost events up to 2, three stream formats |
| `ConsoleHasEverything` | Does the console show the whole log, whichever of history and live events came first? | 2 events, 2 opens, one broken socket |

Why these are enough. Frames of a stream interact pairwise (one below another),
so four frames and a buffer of two have a frame dropped, one kept behind it, one
ahead of a gap and the completion. A run interacts with at most its previous
lease: two lease ids are the old and the new one, two workers are the old and the
new owner. The host serialises one run against another only through capacity and
the queue, which two runs on one slot show. In the components of `host`, `work` and `shown` the
hazard is one late answer, one failure or one interruption among two uses of the same
thing, and the bounds have that: two of what is used, one of what goes wrong. Every kind
of fault and of command happens in some passing run, at the moment TLC likes best.
Some bounds were widened by hand with the same result: two pages of `EvidenceBucket`
(305,000 states with one press each, 1,089,000 with a twist of the user's besides), two tabs of `ConnectFlow` (536,000), two edits in
`ActivityFeed`, one too large to be compared (374,000). Worker and lease ids
are numbers, since placement orders workers by id, so no symmetry is declared there; the
machines of `FleetGate` are symmetric. The counters of the faults and of commands are named
in the CONSTANTS of the modules. Streams, runs, attempts and bounds end, so deadlock is
not checked.

Most modules have a type invariant. `ReportChannel`'s is checked in `stream_faults` and
proved; the others (`TypeOK` of `RunDispatch`, and `FenceTypeOK`, `GateTypeOK`,
`ConnTypeOK`, `DeskTypeOK`, `MemoryTypeOK`, `DashTypeOK`, `InstallTypeOK`, `ExecTypeOK`,
`UsageTypeOK`, `DiskTypeOK`, `WatchTypeOK`, `PageTypeOK`) hold when they are added to
`RunDispatchFaults.cfg`, `MCHost.cfg`, `MCWork.cfg` and `MCShown.cfg`.

Each of the violation runs checks one sentence of the code's comments (quoted in
`PROJECT.json`, `findings`) against what the code does:

| Run | What happens |
|---|---|
| `dispatch_early_cancel` | a cancel overtakes the dispatch that waits for its claim |
| `dispatch_draft_adopted` | the draft of a checkpoint is adopted as a completed run |
| `disk_timers` | a retry consumes a run's timers before a discard that throws; nothing wakes the run |

Six more configurations reproduce a disagreement without being a run of their own:
`RunDispatchStranded.cfg` (`NoRunStranded`: a worker restarts while the host writes a
patch of its lease; registration expires the lease and requeues the run without draining
that write, `workers.ts` 1481, which then marks the run active, and the queue drops it, so
that nothing moves it any more, although `scheduler.ts` 2452-2457 means to prevent it),
`RunDispatchTwice.cfg` (`HandedOutOnce`: a claim that fails after its lease was expired
hands a leased run back to the queue), `RunDispatchRetryOverwritten.cfg`
(`NoLateReportMovesARun`: a late run-complete overwrites a queued retry),
`ReportChannelCrashStuck.cfg` (`StreamSettles`: after a crash that lost an acked
watermark, the completion stays parked), `MemoryStoreClears.cfg` (`DeletionsStick`: of two
clears of a repository queued together the first fails and puts back what the second had
taken out, `memory.ts` 260-269) and `FleetGateLost.cfg` (`PairingIsExact`: a revocation
whose write fails is undone in memory, but a heartbeat's write already asked for behind it
has the record out; if that one lands, the next fails and the host restarts, a worker
nobody revoked is out, `fleet.ts` 313-330).

The passing runs leave out the one circumstance that breaks a property elsewhere:
`HandedOutOnce` no failing claim write, `NoRunStranded` no worker restart,
`NoLateReportMovesARun` no retry, and no cancel of a run that waits. More such circumstances are known, each found
by widening the bounds of a passing run:

| Widen | by | and TLC violates | because |
|---|---|---|---|
| `stream_live` | `Script <- PatchFirstScript`, `BufferLimit = 2` | `StreamSettles` | the cap drops a console line from behind a patch it must keep, and no `lease-gap` ever covers that hole (`connection.ts` 333-339) |
| `dispatch_cancel` | `MaxHostRestarts = 1` | `PendingCancelsArrive` | recorded cancels live in memory only (`workers.ts` 1033) |
| `dispatch_commands` | `MaxHostRestarts = 1` | `LeasesAreAsAsked` | a follow-up that was queued at the restart has no lease to restore its marker from (`scheduler.ts` 773); and the marker of one that is restored with its lease (787) is never taken off, so that the retry of a follow-up that failed after the restart goes out as a follow-up again |
| `dispatch_commands` | `MaxBreaks = 1` | `LeasesAreAsAsked` | an interrupted follow-up is requeued without its result (`scheduler.ts` 2036) |
| `dispatch_faults` | `MaxFences = 1` | `NoLateReportMovesARun` | a worker gives a lease up between its register frame and the answer; the host takes the execution's last word for the lease it has just renewed, a second registration expires that lease without draining the write (`workers.ts` 1481), and the write then moves the run that went back to the queue |
| `dispatch_faults` | `Commands = {"cancel"}`, `MaxCommands = 1`, `Outcomes = {"completed", "waiting"}` | `NoLateReportMovesARun` | a waiting run is cancelled between its run-patch and its run-complete; the completion writes "waiting" over "cancelled" and arms the resume timer again (`workers.ts` 2242) |
| `dispatch_live` | `MaxHostRestarts = 1`, `MaxFences = 1` | `LeasesAreGivenBack` | the host renews a lease its worker gave up between its register frame and the answer (`workers.ts` 1787) |
| `work` | `Capacity = 2`, `MaxRetries = 2`, `MaxDiskAttempts = 3` | `RetainedDiskIsUsable` | a retry while the last attempt is still finishing, and another once its completion has written over the first: the second sends a discard behind the first one's dispatch, and the worker removes the disk under the attempt at work |

## Properties that do not hold

Some modules state what one would expect of the code and what TLC refutes, next to the
property that does hold. To reproduce one, name it as the invariant of its run (`FoundGroupsStay`
is an action property, to be named under PROPERTIES):

| Property | Module | What the code does |
|---|---|---|
| `NeverBothAtWork` | `LeaseFence` | the host pulls a deadline in to the grace window, the worker counts from its last ack: for the difference both are at work (`connection.ts` 405-409 says they are not) |
| `ToldOnlyOnceDurable` | `FleetGate` | a revocation whose write fails while an earlier one succeeds tells the worker all the same (`workers.ts` 1615-1631) |
| `HandEditsStand` | `LinearConnector` | a write of the configuration that comes before the reload of a hand edit, as a refreshed credential's, writes what is in memory over it: a key edited away comes back (`scheduler.ts` 1242-1254, against 1281: "the file stays the source of truth") |
| `OneLiveRunPerTicket` | `LinearConnector` | the poll and a click both find no run between their check and `createRun` (`scheduler.ts` 2224-2227, `state.ts` 99-117) |
| `TicketsHaveAConnection` | `LinearConnector` | a poll under way across a disconnect shows the old account's tickets |
| `PausedOnlyOnDeadCredential` | `LinearConnector` | a retry refused after a reconnect reports the new connection as dead |
| `OneHost` | `DesktopShell` | a start that fails to bind leaves its orchestrator polling (`server.ts` 973-991) |
| `LeavesOnceStopped`, `AutoInstallWaits` | `DesktopShell` | quitting twice leaves before the host has stopped; the fleet monitor may not know of a run yet |
| `ShownOnce` | `Dashboard` | an answer that overtakes live events on the socket shows them twice |
| `FullyRemovedIsTrue`, `ConfirmedByTheNewWorker` | `WorkerInstaller` | a failed `userdel` is forgotten by the next uninstall; the old daemon's registration passes for the new one's |
| `FoundGroupsStay` | `WorkerInstaller` | where `userdel` removes the primary group with its user (`USERGROUPS_ENAB`), uninstalling takes a group along that was there before (`install.sh` 545, 678-679) |
| `OneConnectPerClick` | `EvidenceBucket` | the answer "login-started" arms the row whoever asked: a connect the row made by itself can be followed by another (`ConnectorsSection.tsx` 795-800, 823-829) |
| `RequestsAreOnTheLine` | `UsageReport` | a request on a socket that was replaced waits for its timer |
| `NoTeardownUnderWork` | `RetainedDisk` | a second discard hides the first from the dispatch that waits for it (`daemon.ts` 487-497) |
| `SamplesEndWithTheirSandbox` | `RunExecution` | nobody awaits a usage sample in flight (`ccusage.ts` 357, 396-420): where `bubblewrap` is used it can run on, for 30 seconds at most, after its sandbox was released or destroyed, although `runner.ts` 329-331 has nothing still running then |
| `ReclaimedDiskIsForgotten` | `RunExecution` | a run keeps `retainedUntil` after its disk was destroyed (`types.ts` 315-318) |
| `MergedIsItsOwn` | `PullWatch` | an answer about a run's former pull request is written to its current one |
| `PostedOnce` | `PullPage` | the composer can be sent again while its page still refreshes, and loses what is typed meanwhile |
| `RevokedStopsFail`, `NoSessionAfterTheStop` | `WorkerShutdown` | a stop for a revocation may end as a success; a session may open after the stop |
| `ResultsAreTheirOwn` | `ActivityFeed` | Codex numbers items anew in every process: when the beginning of a command is lost, its end is given to the command of that number a killed process left open |

Met while modelling, not stated as a property: `ticketClosedAt` is never cleared, so a
reopened and retried ticket's run is archived at once; a run-complete writes the worker's
older pull request state over the host's until the next poll; a pull request closed and
reopened is not polled any more; a device code's poll in flight at a cancel may still
connect, and the poll of an older session clears a newer one; Anthropic's and Codex's key
does not clear a stored login as Grok's does; after a `whoami` that timed out, the
bucket's row waits for a change that does not come (`ConnectorsSection.tsx` 756);
a bucket created whose publication failed is never made public by later clicks; on a
cancel the stale sample replaces the fuller stream entry (`runner.ts` 229); a follow-up
is not pinned to the worker that holds the disk; the implementation run's push is forced;
`parseUnifiedDiff` drops changed lines whose text begins with `--` or `++`.

## Fairness

`FairSpec` of both modules asks for weak fairness of what the two event loops do
by themselves: a handler runs when its frame has arrived, an await that can
settle does, a socket that is down is dialled again. In `RunDispatch` the
restart of a limit's probe (`Resume`) is fair because the code re-arms it, and an
execution is fair as a whole (`Execution`), because every step of it has a
timeout; which way it goes is its own choice. The dispatch loop and `Redrive` are
fair because every heartbeat of a connected worker emits the event that drives
the queue. Faults, users, failing writes, fences and expiry carry no fairness. A
host restart in `stream_live` is an orderly one: `ReportChannelCrashStuck.cfg` shows what a
crash does to the same property.

`WorkSpec` of `MCWork` is weakly fair to the execution's own steps (`ExecStep`: an await
of the pipeline settles, since every command in the sandbox and every GitHub call has a
timeout or ends with its process; of git, whose clone has none (`runner.ts` 577), it is
assumed that it returns) and to `Killed` (the timeout or the abort kills the process group
of what the pipeline waits for; samples have no part in it). Processes need not end by themselves, and the other parts have no
fairness. `host` and
`shown` have no liveness property and no fairness.

## Mutants

Every property of a passing run is shown to notice a plausible slip in the code.
Each slip is a definition under "Slips" in its module or next to the definition it
stands in for, with a comment naming that and the property that then fails: acking the next
frame expected, forgetting the frames in flight, expiring nothing on
registration, requeueing a run that still has a lease, sending a dispatch before
its claim is durable, putting a revoked worker's record back on its heartbeat, enabling
a bucket that was found, renewing the lease check of a force push, waiting for one reviewer
of two, and so on. `PROJECT.json`, `mutants`, lists them with the run
that finds them.

## Proofs

Eight modules hold proofs. A theorem stands for every value of the constants that their
assumptions allow: every script and buffer, every fleet and set of runs, every number of
faults, commands, clicks and restarts. The assumptions (`ChannelAssumption`,
`DispatchAssumption`, `FenceAssumption`, `GateAssumption`, `MemoryAssumption`,
`ExecAssumption`, `RetainedAssumption`, `UsageAssumption`, `ReportAssumption`) give the
constants their types and make sets finite where they are counted, with four that say
more: the completion, the last frame of every script, is not droppable (it is not in
`DROPPABLE_TYPES`); a heartbeat timeout is longer than a heartbeat (`BudgetAssumption`;
`config.ts` 253-259 refuses less than two); the mark of a closed tab is not the name of
one (`ConnectAssumption`); and no reviewer has the name of a session (`ExecAssumption`).

| Module | Theorem | Property | Inductive invariant |
|---|---|---|---|
| `ReportChannelProofs` | `TypeCorrect` | `TypeOK` | `IInv` |
| | `NothingIsSilentlyLost` | `NoSilentLoss` | `IInv` |
| | `WatermarkIsHonest` | `WatermarkHonest` | `IInv` |
| | `CompletionsAreWhole` | `CompletionIsWhole` | `IInv` |
| | `GapsAreOfGoneFrames` | `GapsAreGone` | `IInv` |
| | `ImplementsReportLog` | `LogSpec`, the refinement | `IInv` |
| | `FramesApplyOncePerBoot` | `AppliedOncePerBoot` | `OnceInv` |
| | `WritesComeInOrder` | `FirstWritesInOrder`, an action property | `OrderInv` |
| `RunDispatchProofs` | `NobodyRunsUnrecorded` | `ExecutionsAreOnRecord` | `RecordInv` |
| | `NobodyExecutesUnowned` | `ConnectedExecutionsAreOwned` | `OwnershipInv` |
| | `DispatchTypes` | `TypeOK` | `OwnershipInv` |
| | `RecordedCancelsArrive` | `PendingCancelsArrive`, while the host stays up | `CancelsInv` |
| `RunDispatchPlaces` | `RunsAreHandedOutOnce` | `HandedOutOnce`, under `Orderly` | `PlaceInv` |
| | `NothingIsStranded` | `NoRunStranded`, under `Orderly` | `PlaceInv` |
| | `ReportsComeInTime` | `NoLateReportMovesARun`, an action property, under `Unhurried` | `LateInv` |
| | `LeasesAreOfTheKindAskedFor` | the first half of `LeasesAreAsAsked`, under `MarkersKept` | `KindInv` |
| | `LeasesAreIssuedAsAsked` | `LeasesAreAsAsked`, an action property, under `Unbroken` | `KindInv`, `ResultInv` |
| `FleetGateProofs` | `GateIsExact` | `RevocationIsExact`, `PairingIsExact`, under `UndoneAlone` | `HoldersInv` and below |
| | `OneFailureIsSurvived` | the same with at most one failing write, and nothing assumed | the same |
| | `RevocationIsFinal`, `TokensBuyOnce` | the halves that need no hypothesis | `RecordsInv` |
| `MemoryStoreProofs` | `StoreIsWellFormed` | `MemoryTypeOK` | itself |
| | `ReportedDeletionsStick` | `DeletionsStick`, under `ClearsApart` | `MemoryInv` |
| `WorkProofs` | `NoWorkIsLeftRunning` | `NoWorkOutlivesItsSandbox` | `ExecInv` |
| | `CompletedMeansDelivered` | `CompletedIsDelivered` | `ExecInv` |
| | `FollowUpsYieldToPeople` | `HumanPushesStand`, an action property | `ExecInv` |
| | `RetainedMeansThere` | a run's retained disk is there | `ExecInv` |
| | `RetainedDisksAreUsable` | `RetainedDiskIsUsable`, under `OneLeaseAtATime` | `ExecInv`, `DiskInv` |
| | `StopsAreWhole` | `CleanStopsAreWhole` | `StopInv` |
| | `ArchiveIsOfTheOver` | `ArchivedIsOver` | `WatchInv` |
| | `PageShowsWhatWasDone` | `WhatWasDoneIsShown` | `PageInv` |
| `HostProofs` | `TheFenceHolds` | `FenceHolds` | `FenceInv` |
| | `DecisionsStand` | `LastDecisionStands` | `ChosenInv` |
| | `PollingIsExact` | `PollsAreExact` | `PollInv` |
| | `LocalWorkerHasItsHost` | `WorkerHasItsHost` | `DeskInv` |
| | `FoundAccountsAreKept` | `FoundAccountsStay`, an action property | `InstallInv` |
| | `BucketsArePublishedOnRequest` | `PublishingIsAskedFor` | `BucketInv` |
| | `RowsTellTheTruth` | `RowsAreBacked` | `ConnectInv` |
| `ShownProofs` | `SpendIsShownOnce` | `SpendIsReportedOnce` | `ReportInv` |
| | `SpendIsListedOnce` | `SpendIsCountedOnce` | `LedgerInv` |
| | `ConsoleIsComplete` | `ConsoleHasEverything` | `ConsoleInv` |

An inductive invariant stands at the end of the module it is about, above the properties
that do not hold. TLC checked each one before it was proved, at the bounds of its run or
near them. They are not among the runs: they imply properties that are.

| Invariant | Distinct states | Invariant | Distinct states |
|---|---|---|---|
| `OrderInv` | 1,713,250 | `ExecInv` | 141,990 |
| `OwnershipInv` | 3,861,641 | `DiskInv` | 1,610,819 |
| `CancelsInv` | 3,226,946 | `StopInv` | 84,326 |
| `PlaceInv` | 2,159,778 | `WatchInv` | 410,608 |
| `LateInv` | 3,250,404 | `PageInv` | 365,201 |
| `FenceInv` | 423,722 | `ChosenInv`, `PollInv` | 248,050 |
| `HoldersInv` | 4,173,601 | `BucketInv` | 168,491 |
| `MemoryInv` | 558,182 | `ConnectInv` | 3,901,639 |
| `DeskInv` | 26,355 | `ReportInv` | 1,412,626 |
| `InstallInv` | 8,452 | `LedgerInv` | 1,065,607 |
| `KindInv` | 2,877,187 | `ConsoleInv` | 852,852 |
| `ResultInv` | 2,706,407 | | |

`PlaceInv`, `LateInv`, `KindInv`, `ResultInv` and `DiskInv` were checked with their
hypothesis conjoined to the next-state relation: `LateInv` with retries, follow-ups, cancels
and waiting runs, `KindInv` and `ResultInv` as `dispatch_commands` with a broken socket and
a restart of the host besides, `DiskInv` at `Capacity = 2` with two retries, and at
`Capacity = 1` with nothing assumed.

### Hypotheses

These hypotheses name a circumstance in which the code does break the property; each is
reproduced by a configuration or a row of the tables above, so they are not assumptions of
convenience but the edge of what is true.

- `Orderly` (an action formula, for `HandedOutOnce` and `NoRunStranded`) leaves out three
  kinds of step: a registration that settles a lease while one of its reports is still
  being written; a claim whose write fails after its lease was settled; a retry, follow-up
  or resume of a run that still has a lease, as between a completion's write and its
  settling.
- `Unhurried` (`NoLateReportMovesARun`) is `Orderly`, and nobody cancels a waiting run whose
  execution has yet to say that it is over.
- `MarkersKept` (the kind of work in `LeasesAreAsAsked`) is `Orderly`, and no restart of the
  host finds a follow-up queued or at work: the marker that tells a follow-up from an
  implementation is in memory only, and what a restart derives of it is too little for the
  one and too lasting for the other.
- `Unbroken` (`LeasesAreAsAsked`) is `MarkersKept`, and no follow-up is interrupted:
  `#enqueueForAttempt` clears the result that its next dispatch would name.
- `OneLeaseAtATime` (`RetainedDiskIsUsable`) assumes nothing of a worker that has room for
  one lease, which is what the run checks. On a worker with more room a run gets its next
  lease once its last one is settled.
- `ClearsApart` (`DeletionsStick`): a repository is not cleared while an earlier clear of it
  is still being written.
- `UndoneAlone` (the enrollment): a revocation whose write fails has no write queued behind
  it. With at most one failing write it need not be assumed.
- `RecordedCancelsArrive` speaks of behaviours without a restart of the host, which
  forgets the cancels it has recorded.

### The arguments

`ReportChannel`. An ack under way could name anything, so `IInv` says what it may name. A
lease-ack on the wire names a watermark that is already accounted for (`AcksAreHonest`);
nothing on the wire, in flight or on the chain is numbered above what was reported
(`NothingAhead`); frames applied ahead of the watermark are applied (`AheadIsApplied`);
what the worker calls a gap it does not hold (`GapIsGone`); a completion being applied has
nothing missing below it (`CompletionSafe`); and a lease is released only for a run with
its outcome (`ReleaseIsEarned`). The worker's steps leave the host's half alone and the
host's the worker's, which `WorkerSide` and `HostSide` state once. The refinement maps
`Report`, `WriteLands` and `CompletionLands` to the steps of `ReportLog` and every other
action to a stutter, under `IInv`. `OnceInv` adds that a frame still admissible or still on
the chain has not been applied since the boot. `OrderInv` follows every frame that may still
be written for the first time, held by the worker, on the wire or on the write chain, and
says that a frame ahead of it on that way is numbered below it or is already with it; so the
chain meets them in order, whatever was cut, replayed or stepped over.

`RunDispatch`. `RecordInv`: what the host holds is in its lease store, and while a lease's
claim is being written no dispatch of it is on any socket. `OwnershipInv` follows a lease
from its claim to its release: it is dispatched and begun at most once, its socket is its
own worker's, the register frame lists exactly what its worker claims, a run-complete is
the last word of an execution that is over; so the answer to a registration tells the
worker of everything the host no longer holds, and what a connected worker still executes
is held, or a lease-lost is on its way. `CancelsInv` says where a recorded cancel is: in
the host's memory, and after the registration on the wire ahead of anything that could end
the execution otherwise. `PlaceInv` adds, for each run, that it is in one place (`Placed`):
the queue, a lease, or with the holder of its lock, and what that holder will find.
`LateInv` adds what the reports of a lease may still say: an execution repeats its ending
to the last, the run of a held lease is over only as its execution has it, and a run that
an interruption gives back is not over. `KindInv` says where the marker of a run is: where
a dispatch would read it, exactly if a follow-up was asked for last, and nowhere else; a
lease, and an interruption that waits for its run's lock, remember what it said. `ResultInv`
says that a follow-up on its way to a worker has its result, since what clears a result has
taken the run's lock for something else, or reports on a lease that was begun.

`LeaseFence`. Every deadline the worker holds, or will when the acks under way arrive, was
granted by some budget at some instant, and while the host holds the lease it goes on to
hold it for the grace window of that instant, or longer; once it has written the lease off,
none of those deadlines is later than the bound. While nothing stalls, what both ends hold
was granted at the last beat, or at the one before while the last is under way, and a
timeout longer than a heartbeat outlasts that.

`FleetGate`. Whoever holds a credential, or is being handed one, has its record in memory,
on the disk and in every write under way, unless its revocation is queued before that write
or done; what is revoked is in none of these. The undo of a revocation whose write failed
puts the record back in memory but not into the writes asked for behind it, which is where
`UndoneAlone` is needed.

`MemoryStore`. What is in memory is what the last operation queued left there, so that a
roll-back undoes the last operation or nothing; and a fact that was deleted is in no later
write and in nothing a later roll-back could put back, unless a run recorded it since.
Clearing leaves no list behind, and two absent lists are identical, which is where
`ClearsApart` is needed.

`RunExecution`. `ExecInv` says at each step of the coroutine which of the processes it
waits for may be alive (of usage samples it says nothing), that the sandbox is up from its boot to the last step, whose retained disk it is, and what
has been delivered where `Close` begins. `WorkerShutdown`: a sequence that stops the
worker awaits whatever still runs, drains only when nothing does, and is over only when
nothing is owed, unless it gave up. `PullWatch`: the sweep reads the run again when it
archives it, whatever makes a run live again takes it out of the archive, and a lookup
writes no more than the state of a pull request, of a run that has one. `PullPage`: a
reading of everything that was done is shown, read or asked for, for the detail at any
time, and for the list but while the detail's is awaited.

`RetainedDisk`. `DiskInv` says which frames of the one lease are under way and in which
order: a discard comes before the dispatch it makes room for, and that attempt waits for
it; the beginning is the first thing an attempt reports and the completion the last.
From the claim of a lease to the outcome of its attempt nothing else has a hand on the
disk: the host reads the run as queued or active, has no reap timer and sends no discard,
and a follow-up finds no session attached. `RetainedDisksAreUsable` is stated of `MCWork`,
where the attempt and the disk stand side by side.

`LinearConnector`. The credential in the file is of the grant last decided on, unless a
write put back a key that was edited away since, which `broughtBack` remembers until the
next decision; and the one in memory is the file's or the timer of a reload runs or a reload
waits for its turn. Both are kept because a refresh is applied only to the credential it was
asked for, and every write of the file arms the timer (`ChosenInv`);
the poll's call is out only in the two stages that wait for it, it creates one run at a
time, of a revision that had none, and a request that came during a cycle is remembered
until the next begins (`PollInv`). `DesktopShell`: a local worker goes through its cycle
only under a host the supervisor owns, or is being told to stop. `WorkerInstaller`: what
`ownership.env` says was made was not there before, so what is removed as found can only be
a group that goes with a user that was made. `EvidenceBucket`: a request that is
about to enable has created its bucket, a row that is armed has an unused login, and a row
that is armed or connecting is of a page where somebody has clicked.
`ConnectFlow`: each request a page has out says what its answer may still do to the row,
a secret on its way into a slot was accepted before it, and a row that shows a code has the
timer of its next poll or the poll itself.

`UsageReport`. `ReportInv`: whatever row a collection has of a machine, or a worker has on
its way for it, counts no more than the transcripts hold now and, where no source is
missing, no less than they held when the collection began. `UsageLedger`. `LedgerInv`: what
a stream, a sample, a final read or a snapshot says of an execution was burned by it, and
each entry of the list is of one execution, which is settled or the one in flight; the
rounds of review passes are counted as functions over the numbers of executions, by a least
element instead of an induction. `Dashboard`. `ConsoleInv`: of an answer that can still be
joined to what the socket carries, every later log entry is on the console, pushed to it,
or shares its millisecond with one that is.

### Model-checked only

- The liveness properties (`StreamSettles`, `QueuedRunsComeToRest`, `LeasesAreGivenBack`,
  `EveryAttemptSettles`) and what rests on ENABLED, which TLAPS does not reach.
- `FeedIsTrue`: a row's outcome is computed by a fold over the log, and an edit's diff is
  the longest common subsequence, which needs induction over data. TLAPS cannot apply the
  library's induction theorems, whose parameter is an operator; a function over the numbers
  can be reasoned about by its least counterexample, as `WorkProofs` and `ShownProofs` do,
  but not what a fold or a filter of a sequence returns.
- The properties of the violation runs, which do not hold.

The modules of `MCHost`, `MCWork` and `MCShown` declare no RECURSIVE operator, and those
with assumptions name them, so that they can be proved about.

## Not modelled

- Of the scheduler and registry: settings that only change a number, notifications,
  announcements to dashboards, the listener's rebinding, a worker's renaming, the local
  worker's record.
- Of the lease store: a delete whose write fails or is queued at a crash.
- The contents of frames and files: console lines, artifacts and their upload, prompts,
  the text of memories, price tables, the parsing of limits and of `git`'s output.
- HTTP routes that forward one call, GitHub's and Linear's queries and paging.
- The arguments of `bwrap` and `seatbelt`, the directories of a workspace.
- Everything drawn: forms, layout, markdown, charts, windows, the tray.
- The download service, the documentation site and release scripts, which keep no state.

Where a module is coarser than the code:

- `ReportChannel`: a completion waits until the write chain is empty; `#drainLeaseWrites`
  looks five times at most (`workers.ts` 1309-1315) and then goes on, to park the completion
  if anything below it is missing.
- `RunExecution`: a session has at most one usage sample in flight and two sessions' can
  overlap; what a sample reads is `UsageLedger`'s. The final read is part of `AgentReturns`,
  which waits for it. A clone is assumed to return. Of the heads somebody else may push only
  one is told apart, so that a second push between fetch and push looks like the first.
- `RetainedDisk`: a restart of the worker, and the sweep of its workspaces that follows, are
  left out, as are usage samples, of which one may still read in a disk that was released.
- `UsageReport`: only the host's own worker, the one it flags, shares the host's usage files.
- `PullPage`: the page begins with its pull request shown; the first fetch of the list behind
  a deep link, which an invalidation would join, is left out.
- `LinearConnector`: the directory of `config.json` can be watched. Where it cannot
  (`scheduler.ts` 1301-1304), a hand edit is read at the next start.

`PROJECT.json`, `components`, says for each part what is in which module and what is left
out, and `hazards` what can go wrong there.

## Plan

Done: the modules of all components and their runs, and the proofs above. What remains:

1. `RunDispatch`: its abstract specification: a lease is free, claimed, executed or settled.
2. `ActivityFeed`: the half of `FeedIsTrue` that is no recursion, that each call has one row.
3. The file queue of the lease store, beside the one of the fleet.
4. The hazards without a property: a restored lease whose run already ended, and the slots
   that leases and sessions share.
