# TLA+ models of the backup orchestrator

The backup orchestrator has a **server** (`src/server`: gRPC for agents, REST and WebSocket for the
browser, a SQL database) and **agents** (`src/agent`: one per machine, running restic on a schedule
set by the server). An agent works while the server is away and reports later. What is hard in it is
concurrency and failure: goroutines joined by bounded channels and wait groups, a database used in
several calls where one was meant, connections that are replaced before their end is noticed,
reports that are retried, and processes that stop between two steps.

## 1. Inventory

| Part | State | Operations | Talks to | Correct when |
|---|---|---|---|---|
| Agent outbox (`agent/internal/outbox`) | in-memory channel, SQLite table `outbox_spill`, tunables, worker and prune loop | `SubmitReport`, `Run` (`drainOnce`, `deliver`), prune, `UpdateConfig`, `FlushNow` | scheduler's jobs call it; it calls the server's `ReportJob` | no report is lost unaccounted for, duplicated without cause, given up early or kept forever; the table respects its cap |
| Agent stream handler (`agent/internal/grpcclient/stream.go`) | outbound channel, error channel, two wait groups, stream context | `Run`: send, receive and handler goroutines, shutdown | the server's `Connect`; `onConfig`, `onCommand` | every handler can answer, `Run` returns when the stream ends |
| Agent reconnect loop (`agent/cmd/agent/reconnect.go`) | back-off | connect, run, flush outbox, sleep | stream handler, outbox | one stream at a time, bounded waits |
| Agent scheduler (`agent/internal/scheduler`) | cron entries, running slot per plan | `UpdateSchedule`, `TriggerNow`, `runJob`, `Stop` | executor, outbox | one job per plan at a time, a rejected trigger is reported |
| Agent executor (`agent/internal/executor`) | one job's result | hooks, backup per repository, retention | restic, rclone | hooks run in order, the status reflects what failed |
| Agent identity, local config (`identity`, `localconfig`, `atomicfile`) | files | load, save | stream handler | a crash leaves the old or the new file |
| Server agent registry (`server/internal/agentmgr`) | entry per connected agent, pending commands | `Register`, `Unregister`, `Send`, `SendCommand`, `HandleCommandResult`, `UpdateHeartbeat`, `Close` | `Connect`, REST handlers, config push | a connected agent is registered, a caller gets its own result or an error, no channel is misused |
| Server `Connect` (`server/internal/grpcserver/connect.go`) | two goroutines, `errCh`, send channel | accept, register, forward, receive, leave | registry, database, event hub | ends when its stream ends |
| Server jobs (`grpcserver/report.go`, `database/jobs.go`, `api/plans.go`) | `jobs` table | trigger, heartbeat transition, live logs, report | registry, event hub | a report is stored in a row of its plan, an aborted trigger's in one of its own, and no planned row stays open without a reason |
| Server config push (`configpush/resolver.go`) | config version per agent | resolve, bump version, push | database, registry | the agent ends up with the newest configuration |
| Server enrolment (`grpcserver/register.go`, `auth.go`, `api/agents.go`) | agent status, key | register, approve, reject, authenticate | registry, agent identity | an approved agent can always authenticate |
| Event hub (`server/internal/events`) | client channels | register, broadcast, close | WebSocket handlers | slow clients lose events, never block |
| Settings, hooks, scripts, repositories, plans (`settings`, `api`, `database`) | rows | create, read, update, delete, reorder | config push | validation, layering |

`PROJECT.json` lists every part with its status, and under `hazards` what in this code a test would
hardly reach, each at its line with the properties that watch it.

## 2. Modules

| Module | Models |
|---|---|
| `ReportLedger` | abstract promise of the outbox: a report is held until it leaves for good |
| `Outbox` | outbox, spill table and process life cycle; implements `ReportLedger` |
| `MC_Outbox` | small instances of `Outbox` |
| `OutboxProofs` | type correctness and the bound on the table |
| `OutboxLedgerProofs` | who owns a report, what becomes of it, and the refinement of `ReportLedger` |
| `AgentManager` | registry and `Connect` for one agent that reconnects |
| `AgentManagerProofs` | types, open entries, woken callers, and each command's journey to its answer |
| `AgentStream` | goroutines of one `StreamHandler.Run` |
| `AgentStreamProofs` | types, and what is guaranteed when `Run` ends |
| `JobLifecycle` | the `jobs` table between triggers, heartbeats, live logs, reports and the agent's scheduler |
| `MC_Jobs` | small instances of `JobLifecycle` |
| `JobLifecycleProofs` | all the safety properties of `JobLifecycle` |
| `ConfigPush` | enrolment, pushes, and the configuration and key an agent applies, saves and starts from |
| `MC_Config` | small instances of `ConfigPush` |
| `ConfigPushProofs` | which keys and which configurations an agent can hold |
| `ConfigSyncProofs` | types, versions, saved configurations, and when an agent is locked out or left behind |
| `BackupJob` | one agent's executions: hooks, restic on each repository, status, retention |
| `MC_Backup` | the plans of the small instance of `BackupJob` |
| `BackupJobProofs` | all the properties of `BackupJob` |

They meet where one promises what another relies on. `JobLifecycle` delivers reports as `ReportLedger`
says (held until acknowledged or given up), which `Outbox` is shown to implement, and adds what the
ledger leaves open: the order, and calls whose answer comes after the deadline. `ConfigPush` takes
from `AgentManager` that a send is refused without an entry or with a full buffer and that
a stream loses what is in it, and from `AgentStream` that the next stream starts only when the
handlers of the last one are done. `BackupJob` is what `JobLifecycle!Execute` abstracts to one step.

**Granularity.** A step is what the code does between two points where another goroutine can
intervene: one database call (the agent's handle has a single connection), one critical section of a
mutex, one channel operation. So `submit`'s count, evict and insert are three steps of `Outbox`, and
`HandleCommandResult` is three steps of `AgentManager`: two lookups under two locks and a send under
none. `SendCommand` up to its unlock is one step, because `Unregister` and `Close` need the write
lock.

**Outbox.** `mem` is the channel, `spill` with `createdAt` and `attempts` the table, `call` the
activation of `submit` or `spillWithEviction` of each goroutine, `wk`, `page` and `cursor` the worker
(which sends *copies* of rows it loaded), `prune` the prune loop. Submitters and `deliver` share the
three spill steps; they differ where the code does: a submitter returns an error on the root context,
the worker uses a fresh context and inserts anyway. Two kinds of database failure exist: SQLite
errors, counted by `faults`, and calls on the cancelled root context. `Unanswered` is an RPC that
failed, after or before the server stored the report. `Crash`, `Signal`, `Exit` and `Restart` are the
process; `Exit` waits for cron jobs only, as `main` does. The variables `submitted` to `fate` are
history that no action reads.

**AgentManager.** A connection names its `ConnectedAgent` and its send channel. `Accept` requires
that the agent has given up its earlier stream, which the server may not have noticed: that is how
`Register` replaces a live entry. `CloseEntry` is the body shared by `Unregister` and `Close`; it
acts on whatever entry the agent has. A Go panic is the state `panicked`, after which nothing runs.
Callers of `SendCommand` are HTTP requests: at shutdown `CloseManager` comes after `httpSrv.Shutdown`,
which waits for those in flight, unless its ten seconds pass first (`ShutdownExpires`; a command may
wait for thirty).

**AgentStream.** Handlers pass through `work` and `enqueue`; a configuration's acknowledgement blocks
on the channel, a command's result gives up when the stream is done. `late` records handlers that were
dispatched after `handlerWg.Wait` returned.

**JobLifecycle.** `jobs`, `planned` and `plans` are the tables; a row planned by a trigger has an id
of the server, a row created by a report the id of the agent's job, so a trigger and an activation of
`runJob` name rows. Each database call is a step: `FindForReport` and `StoreReport` are the two calls
of `storeJobReport`, `FindStarted` and `MarkRunning` those of `handleJobStarted`, `ReadLog` and
`WriteLog` those of `AppendJobLogs`. The stream is one goroutine (`recv`), so heartbeats and live logs
do not overlap each other, but do overlap every `calls[c]`. A call that the outbox gave up (`left`)
runs on: each of its remaining database calls may succeed or fail. A report that was answered is still
held when its row of the spill table cannot be deleted, and is called again; `resent` counts these and
the calls given up, and a restart of the agent between answer and delete has the same effect. The
registry's `CurrentJob` is abstracted, because it is nil in the entry of every new connection: any
heartbeat of a started job may be taken for its start. The plan it finds, by name, may be any plan of
the agent, or none. Rows record which reports inserted results (`results`) and whether the report's log
or live lines are in `log_tail`. The foreign keys of the schema are `CreatePasses` and the outcome
`orphan`. The agent's slot is `slots`. `runOf` is history: which activation a trigger's command started.

**ConfigPush.** There is one agent. The three parts of a configuration that one push reads with
separate calls are `agent` (the agent's row: rclone configuration, overrides), `plans`, and `shared`
(repositories, settings, hooks with their scripts); each is a revision number that an edit increments.
`EditShared` stands for the handlers of hooks, scripts, repositories and settings: they differ in how
they look up the agents to push to, and that look-up is a step. `push[p]` is one activation of
`PushConfigToAgent`, with what it has read so far. `wire` is the send channel and the stream behind it;
the send goroutine takes from the channel at any time, so a send at full length may succeed or be
refused. `handler[h]` is `onConfig`, one goroutine per configuration, which writes a temporary file,
renames it and updates the scheduler. `Start` is `main` up to the stream's goroutine and
`StartScheduler` what it does afterwards. `stale` and `keyLost` are history: the reasons, since the
latest edit, why the agent may not have what the database holds. No action reads them.

**BackupJob.** One job per plan at a time, as the scheduler grants it; several plans side by side. A
step is one hook or one restic command, which does its work, fails before, or fails after having done
it. restic is external: a repository is a set of snapshots, `ResticForget` keeps the newest `k` of each
plan (the plans have different paths, by which restic groups), for every plan of the agent, because
restic takes several `--tag` flags as alternatives. `Stop` cancels the context: jobs go on and their
commands fail. `taken` and `broke` are history. A plan may have no repository: `aggregateStatus` then
returns before it counts, and its job is a success unless a hook aborts it.

## 3. Runs

| Run | Expect | Properties | Shows |
|---|---|---|---|
| `outbox_recovery` | pass | `TypeOK`, `SpillBound`, `SingleOwner`, `NoSilentLoss`, `NoSpuriousDuplicate`, `LedgerSpec` | crash, shutdown, restart, lost answers and a failed call around a one-row table, with a submitter for which the exit does not wait (a manual trigger) |
| `outbox_progress` | pass | `NoEarlyDrop`, `Settles` | reports leave under changing tunables and ageing rows, and none is given up early |
| `outbox_shutdown` | violation | `ShutdownKeepsReports` | an orderly exit loses reports, against `docs/outbox-redesign.md` |
| `manager_registry` | pass | `TypeOK`, `EntryOpen`, `ClosedWakesCallers`, `NoStalePending`, `AnsweredByAgent`, `BrokenStreamEnds` | a reconnect overlapping the old handler, a command, a push and the server's shutdown, with requests in flight that it gave up on |
| `manager_online` | violation | `OnlineWhileConnected` | the replaced connection unregisters the new one |
| `manager_panic` | violation | `NoPanic` | a command result meets a channel that the replaced connection's `Unregister` closed |
| `stream_run` | pass | `TypeOK`, `WaitCoversHandlers`, `NothingLeftBehind`, `RunReturns` | the end of a stream with handlers at every stage |
| `stream_close` | violation | `NoSendOnClosed` | a handler dispatched after the wait sends on the closed channel |
| `jobs_reports` | pass | `TypeOK`, `OneRunPerPlan`, `AbortsApart`, `AckedStored`, `OwnPlan`, `RepeatedIfUnanswered`, `LeftOpenExplained`, `ReportedRowKept` | two jobs, one trigger, a plan deleted, reports late, repeated or out of order: which row each ends in, and which rows none |
| `jobs_ends` | violation | `RunningEnds` | a heartbeat sets a completed row back to running, for good |
| `config_push` | pass | `TypeOK`, `OnlyKnownStaleness`, `OnlyKnownLockout`, `KeyValid`, `OnlyApprovedConfigured`, `StartsFromSaved`, `VersionsDistinct` | edits, pushes, applications, stops and failures in any order: when an agent may be left behind or locked out, and when it may not |
| `backup_job` | pass | `TypeOK`, `SuccessHasSnapshot`, `FailureCaused`, `AbortStopsJob`, `HooksInOrder`, `NotifiedRight`, `OwnPolicy` | what a reported status says about hooks and snapshots when any command may fail |

The passing runs also show what does *not* go wrong next to each violation: entries are
never closed twice although the wrong one may be closed, and handlers known to the wait group are
safe although late ones are not; a row that a report *created* is final although a planned one is
not. `OnlyKnownStaleness` and `OnlyKnownLockout` are stated with their exceptions because the code
repairs none of them: there is no repeated push, no comparison of versions and no second key, so the
list of causes is exactly what an operator has to know.

**Bounds.** Every hazard above needs a channel that is full, a table at its cap and one more writer:
capacities are one (the code has 2000, 20000 and 32), reports two or three, so each queue overflows.
`PageSize` is two where a page must hold a row that another goroutine deletes. One fault, one restart
and one clock tick each happen anywhere; a second one repeats the same handling from a state already
explored. `manager_registry` has two connections (the old and the new), one command and one push, which
competes with it for the one-slot buffer, and a shutdown that does not wait for requests in flight
(`ShutdownExpires`), which includes one that does; `manager_panic` and `manager_online` have one that does, so
that the channel is closed by a handler; commands share nothing but that buffer and the sweep of
`CloseEntry`, and the proofs cover any number of them. `stream_run` has two configurations and a command
for one slot, so that a handler of each kind can block. `jobs_reports` has two plans (a row may be taken
from the wrong one), one trigger, two activations of `runJob` (the second meets the first's slot, or
reports after it), two calls of `ReportJob`, one call that the outbox repeats in doubt
(`MaxResent`), and one database failure.
`config_push` has two pushes and two handlers (to overtake each other), a buffer of one, three edits or
approvals (an approval and two edits), one failing call and one stream or process that ends.
`backup_job` has two plans out of four kinds, one of them without repositories, two jobs of each (so that retention has something to
forget), two repositories that may be missing or shared, and policies of one, two or none. In the runs
with symmetry the symmetric constants are compared for equality only. Deadlock is not checked: a process that is
down, or has panicked, really stops.

**Fairness.** Weak fairness of each goroutine: the Go scheduler runs what can run, the flush ticker
fires, an RPC returns within its deadline (`DeliveryTimeout`), and gRPC keepalive makes a blocked
`Recv` fail on a dead connection. Nothing is assumed of the server's answers, SQLite, operators, pushes
or the 30 second command timer. `JobLifecycle`, `ConfigPush` and `BackupJob` state no fairness: their properties are safety. A heartbeat is not assumed to become due.

## 4. Proofs

Every safety property that a passing run checks, the action property and the refinement included, is a
theorem of the module's specification. The theorems hold for every value of the constants that the
modules' `ASSUME`s allow: any number of reports, connections, commands, plans, runs, pushes, edits,
faults and losses, and any capacity. None of the properties is inductive as it stands; what follows is
the strengthening each needed and why.

* **Outbox: types and bound** (`OutboxProofs`). `Inv` adds to the types that a working goroutine has a
  report, an eviction is of at least one row under a cap the server pushed, and the table is finite. The
  bound is an invariant of the table *plus* the goroutines past the check (`Admitted`): a count below
  the cap admits one goroutine at a time, at most all writers are admitted at once, an eviction makes
  room for its own insert, and only a blind write, paid for by a fault, adds more. It rests on lemmas about
  `Oldest`, whose minimal elements come from the well-foundedness of strict inclusion on finite sets.
* **Outbox: ownership and fate** (`OutboxLedgerProofs`). `Owners` is `Inv` with three parts. `Shape`:
  which states of `deliver` handle a row. `Tiers`: channel, spilling goroutines, the report being sent and
  the table are disjoint, and a loaded page and the worker's copy hold copies of *rows* only, though the
  rows may be gone. `History`: only submitted reports are anywhere (`Known`), only a report that went to the
  table has failed attempts (`Fresh`), a submitted report is in a tier, accepted or has a fate, and an
  accepted one that is still held had its answer or its deletion fail (`Settled`), and counted attempts
  are sends that failed (`Counted`). `OneOwner`, `NothingForgotten`, `DuplicatesExplained` and
  `GivenUpAfterFailures` follow. `ImplementsLedger` maps every step to a submission, an acceptance, a
  release or a stutter of `ReportLedger`; it needs `Owners`, because only then is what is sent also held.
* **Registry** (`AgentManagerProofs`). `EntryStaysOpen` and `CallersWoken`: closed connections have
  registered, the entry is not among them, and each waiting caller has something to receive or is in
  the pending set of an open connection (`Attended`). `SendCommand` establishes `Attended` because the
  lookup, the registration and the send share one read lock; `CloseEntry` preserves it because it
  sweeps the pending set it closes. `PendingRemoved` and `ResultsAreAnswers` add the `Journey` of each
  command: it is on its caller's connection, once, in the channel or at the agent but not both, and what
  the receive goroutine carries, and what the caller is given, answers it.
* **Stream** (`AgentStreamProofs`). `HandlersCovered`: the channel is closed only past the wait, every
  handler in flight past the wait is late, and no receive goroutine survives `Run`. `NothingStranded`
  and the types (`EndInv`): the send goroutine stops only on a closed, empty channel, and each of the
  three goroutines reports at most one error.
* **Jobs** (`JobLifecycleProofs`). `Sound` says of each row what its results, its status and its plan are
  (`RowSound`), of each call what it has found and what it may answer (`CallSound`), and what the outbox and
  the stream's goroutine hold. The steps are proved as changes of a single call (`CallStep`), row (`RowStep`)
  and receive goroutine (`RecvStep`), so a property of rows looks at five kinds of change and not at
  eighteen actions. `AbortedApart`, `AcknowledgedStored`, `RowsOfOwnPlan` and the action property
  `ReportedRowsKept` follow. `RepeatsExplained` needs a count (`Tally`): the rows that hold a report, the calls
  that may still store it and the outbox's right to call again are together at most one more than the calls
  repeated in doubt. `OpenRowsExplained` counts too. A trigger is `Closed` when the report of its job is stored, or
  is past a look-up that found no open row; a row is `Filled` when it has results. `Counted` says that a plan that
  exists has at most as many closed triggers as filled rows, but for faults and for reports that share a row: a look-up
  finds no row only when every row of the plan is filled (`NothingFound`), or when it failed, which a fault paid for; a
  report that completes a row fills it or shares it. What is not filled is then no more
  than what is not closed.
* **Enrolment and pushes, what an agent can hold** (`ConfigPushProofs`). A row without an approval has no
  key, every key in memory, on disk or in a message is none or the row's (`Keys`); and until the row is
  approved or deleted no push is past `GetAgent` and no configuration exists anywhere (`Origins`).
  The steps are proved in two classes: those of the server move pushes and send what the agent may
  have (`ServerStep`), those of the agent take up only what it was sent (`AgentStep`).
* **Enrolment and pushes, what an agent has** (`ConfigSyncProofs`). `Delivered` follows the key of an
  approved agent from the handler that sends it to the file. `Numbered`: every configuration held
  anywhere has a version the row gave out, and no other has it; only `UpdateConfigVersion` makes one
  (`Carries`). `Startable`: what was saved is whole, and a start takes it up. `Current` is the argument why
  the list of causes of staleness is complete: as long as `stale` is empty, every push has read what the
  database holds, and the contents of the latest edit are with a push, or last on the wire, or with the
  only handler, or in force, in that order and with nothing old behind them.
* **Executions** (`BackupJobProofs`). `Sound` says of each job where it is in its list of repositories
  (`Place`), that its results have causes and add up to its status (`Verdict`), what ends it (`Halts`), and
  which hooks ran and are to run (`HooksSound`); and of the repositories that a successful result rests on
  a snapshot that is there (`SnapsSound`), which is why `Forget` needs that a policy keeps at least the newest.
  The proof found two errors of an earlier model, both about a plan without repositories: `NotifiedRight`
  did not hold for one aborted by a hook, and `AggregateStatus` was a `CASE` with overlapping guards.

Only model-checked: liveness (`Settles`, `BrokenStreamEnds`, `RunReturns`), which is out of the prover's
reach, as is `ENABLED`, on which weak fairness rests. The expected violations are counterexamples, found by
TLC; nothing is proved about them.

## 5. Observations

Beyond the violations of section 3, which `PROJECT.json` lists as findings, the models state what the
code does where a reader might expect something else.

* Snapshots of an agent all carry its agent tag, and `forget` passes the plan's tag and the agent's tag
  as two flags (`executor/restic.go:263`): in a repository that two plans share, one plan's policy also
  forgets the other's snapshots. `OwnPolicy` is therefore about a repository of a plan's own.
* `docs/hooks-design.md:127` says "`post_*` hooks always run (regardless of success/failure)", and the comments
  at `executor/backup.go:27` and `:162` say "Run post_backup hooks (always)". When a `pre_backup` hook aborts the job
  `ExecuteBackupJob` runs the `on_failure` hooks and returns before them (`PreBackupDone`), so what an earlier
  `pre_backup` hook set up is not cleaned up. `AbortStopsJob` says that they run in every other case, failed backups
  included, and leaves this one open.
* A heartbeat counts as the start of a job only when the one before, on the same connection, named none, so the second
  of two overlapping jobs is not marked as running, and a job that goes on after a reconnect is announced again. Its
  plan is found by name: after plans were renamed it may be another plan whose planned row is marked, but no report is
  ever stored there (`OwnPlan`). Live log lines find a row only after a report created it.
* A report completes the newest open row of its plan, whichever trigger made it (`database/jobs.go:284`): a later
  trigger's, or that of a command that was lost, while the row of its own trigger waits for the next report. Which row
  it is is not constrained by any property; `LeftOpenExplained` says that no row stays open because of it.
* A trigger that the agent drops, because it does not know the plan yet, is answered with success and
  leaves a planned row, which the next job of the plan completes.
* A configuration is acknowledged although it could not be saved, and a plan whose hooks could not be
  loaded is left out of a configuration that is sent all the same; a script that could not be loaded
  drops its hook.
* Only an agent without jobs can be deleted (`jobs.agent_id` has no delete rule); it keeps its stream, its
  configuration and its schedule, and its reports are refused. A plan given to another agent stays with the old one until its next push.
* A file browser whose list of blocked paths is emptied keeps the old list, because an empty list is not
  applied (`main.go:212`), and an agent that restarts has none until the next push, because the saved
  configuration is applied without it.
* Events `pre_forget`, `post_forget`, `pre_restore` and `post_restore` can be configured and are never
  run; a plan's prune schedule is stored and pushed, and the agent prunes with each forget.
* A triggered or scheduled job has no deadline of its own: a restic that hangs holds its plan's slot, and
  later triggers are aborted.

## 6. Plan

Done: `Outbox`, `AgentManager`, `AgentStream`, `JobLifecycle`, `ConfigPush` with enrolment, `BackupJob`;
their safety properties are theorems.

Left to prove: that `JobLifecycle`, read from the agent's side, implements `ReportLedger` too, which
would make the reliance of section 2 a theorem; that the registry and the stream implement the lossy queue that
`ConfigPush` assumes of them. Left to model: the event hub, the batching of live log lines, the layering
of timeouts and tunables in the resolver.

## 7. Not modelled

The frontend, generated protocol code, restic and rclone command lines, log formatting and redaction,
column encryption, replication and migration of the server's database, and the migration of the agent's
legacy table: pure I/O or external behaviour. The event hub drops events for slow browsers, which reload
what they show. The interceptor that authenticates `ReportJob`, restore, listing of snapshots and
files beyond their command, the rclone configuration's file, blocked paths, cron expressions and
template expansion keep no state that the other parts read. The numbers of jobs, edits and streams that
the bounds of section 3 name are limits of the runs, not of the code. Payloads, names and timings are abstracted: a report is its
id, back-off and timers are steps that may happen at any time.
