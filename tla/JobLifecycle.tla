---------------------------- MODULE JobLifecycle ----------------------------
(***************************************************************************)
(* The life of a backup job between the server's jobs table and one        *)
(* agent: the REST trigger (server/internal/api/plans.go), the agent's     *)
(* scheduler (agent/internal/scheduler), ReportJob                         *)
(* (server/internal/grpcserver/report.go), and the heartbeats and live     *)
(* logs of the stream (connect.go), over database/jobs.go.                 *)
(*                                                                         *)
(* A row that a trigger plans has an id of the server, a row that a report *)
(* creates has the id the agent gave the job: a trigger and an activation  *)
(* of runJob name them here.  Each database call is a step.  The outbox is *)
(* what ReportLedger promises: it holds a report and sends it again until  *)
(* it has let it go, after an answer or a failed attempt; a report that    *)
(* was answered and could not be deleted is still held.                    *)
(***************************************************************************)
EXTENDS Naturals, Sequences, FiniteSets, SequencesExt

CONSTANTS
  Plans,      \* backup plans of the agent
  Triggers,   \* requests to trigger a plan
  Runs,       \* activations of runJob
  None,       \* no plan, no row, no run
  Calls,      \* activations of ReportJob on the server
  MaxResent,  \* bound: calls of one report that the outbox repeats in doubt
  MaxFaults   \* bound: failures of the server's database

Rows  == Triggers \cup Runs

ASSUME JobLifecycleAssumption ==
  /\ Triggers \cap Runs = {}
  /\ None \notin Rows \cup Plans \cup Calls
  /\ MaxResent \in Nat
  /\ MaxFaults \in Nat

VARIABLES
  plans,    \* rows of backup_plans
  jobs,     \* rows of jobs: plan_id, status, reports whose results were
            \* inserted with the row, parts of log_tail
  planned,  \* planned rows in the order of created_at
  faults,   \* database failures so far
  asked,    \* the plan each trigger was for, once it was made
  cmds,     \* TriggerBackup commands on their way to the agent
  run,      \* runJob
  slots,    \* Scheduler.currentJobs, by StartedAt
  outbox,   \* reports the outbox holds
  waiting,  \* the call whose answer the outbox waits for
  resent,   \* calls of each report after which the outbox holds it although
            \* the server may have stored it
  acked,    \* reports acknowledged to the agent
  calls,    \* ReportJob on the server
  recv,     \* Connect's receive goroutine
  runOf     \* history: the activation that each trigger's command started

table  == <<plans, jobs, planned, faults>>
agent  == <<run, slots, runOf>>
deliv  == <<outbox, waiting, resent, acked, calls>>
vars   == <<table, asked, cmds, agent, deliv, recv>>

Open == {"planned", "running"}

JobRows == [plan : Plans \cup {None}, results : SUBSET Runs,
            status : Open \cup {"absent", "final", "aborted"},
            log : SUBSET {"report", "live"}]

RunStates == [pc   : {"idle", "exec", "clear", "over"},
              plan : Plans \cup {None},
              out  : {"none", "final", "orphan", "aborted"}]

NoCall == [pc |-> "free", report |-> None, row |-> None, ok |-> FALSE,
           left |-> FALSE]
Idle   == [pc |-> "idle", plan |-> None, row |-> None, log |-> {}]

CallStates ==
  {NoCall}
    \cup [pc : {"find", "create", "reply"}, report : Runs, row : {None},
          ok : BOOLEAN, left : BOOLEAN]
    \cup [pc : {"complete"}, report : Runs, row : Triggers, ok : {FALSE},
          left : BOOLEAN]

RecvStates ==
  {Idle}
    \cup [pc : {"find"}, plan : Plans, row : {None}, log : {{}}]
    \cup [pc : {"update"}, plan : Plans, row : Triggers, log : {{}}]
    \cup [pc : {"write"}, plan : {None}, row : Runs, log : SUBSET {"report", "live"}]

Absent == [plan |-> None, results |-> {}, status |-> "absent", log |-> {}]

Init ==
  /\ plans = Plans
  /\ jobs = [j \in Rows |-> Absent]
  /\ planned = <<>>
  /\ faults = 0
  /\ asked = [t \in Triggers |-> None]
  /\ cmds = {}
  /\ run = [r \in Runs |-> [pc |-> "idle", plan |-> None, out |-> "none"]]
  /\ slots = <<>>
  /\ outbox = {}
  /\ waiting = None
  /\ resent = [r \in Runs |-> 0]
  /\ acked = {}
  /\ calls = [c \in Calls |-> NoCall]
  /\ recv = Idle
  /\ runOf = [t \in Triggers |-> None]

-----------------------------------------------------------------------------
\* The jobs table.

\* The plan is left out of the query.
FindAnyPlannedJob(p) ==
  LET open == {i \in DOMAIN planned : jobs[planned[i]].status \in Open} IN
  IF open = {} THEN None ELSE planned[Max(open)]

\* A row that a heartbeat marked as running is not found.
FindPlannedOnly(p) ==
  LET open == {i \in DOMAIN planned : /\ jobs[planned[i]].plan = p
                                      /\ jobs[planned[i]].status = "planned"} IN
  IF open = {} THEN None ELSE planned[Max(open)]

\* FindPlannedJob: the newest open row of the plan.
FindPlannedJob(p) ==
  LET open == {i \in DOMAIN planned : /\ jobs[planned[i]].plan = p
                                      /\ jobs[planned[i]].status \in Open} IN
  IF open = {} THEN None ELSE planned[Max(open)]

Status(r) == IF run[r].out = "aborted" THEN "aborted" ELSE "final"

\* The results are not inserted.
CreateJobUnchecked(r) ==
  [jobs EXCEPT ![r] = [plan |-> run[r].plan, results |-> {}, log |-> {"report"},
                       status |-> Status(r)]]

\* CreateJob, one transaction: an insert with its results.
CreateJob(r) ==
  [jobs EXCEPT ![r] = [plan |-> run[r].plan, results |-> {r}, log |-> {"report"},
                       status |-> Status(r)]]

\* What the constraints of the schema let pass: no row of that id yet, and the
\* plan and the repositories that the report names still exist.
CreatePasses(r) ==
  /\ jobs[r].status = "absent"
  /\ run[r].plan \in plans
  /\ run[r].out # "orphan"

\* CompleteJob, one transaction: an update by id, whatever the row has become,
\* and the inserts of the results.
CompleteJob(j, r) ==
  [jobs EXCEPT ![j].status = Status(r), ![j].log = {"report"},
               ![j].results = @ \cup {r}]

\* UpdateJobStatus(id, "running", nil, nil), by id too.
UpdateJobStatus(j) ==
  [jobs EXCEPT ![j].status = "running", ![j].log = {}]

\* A plan is deleted: plan_id of its jobs becomes NULL.
DeletePlan(p) ==
  /\ p \in plans
  /\ plans' = plans \ {p}
  /\ jobs' = [j \in Rows |-> IF jobs[j].plan = p
                             THEN [jobs[j] EXCEPT !.plan = None] ELSE jobs[j]]
  /\ UNCHANGED <<planned, faults, asked, cmds, agent, deliv, recv>>

-----------------------------------------------------------------------------
\* triggerPlanHandler.

\* The agent is online: CreatePlannedJob, so that the job is visible at once,
\* then SendCommand.  The command reaches the agent, sooner or later, or never,
\* whatever the caller is told; the planned row stays.
TriggerPlan(t, p) ==
  /\ asked[t] = None
  /\ p \in plans
  /\ asked' = [asked EXCEPT ![t] = p]
  /\ jobs' = [jobs EXCEPT ![t] = [Absent EXCEPT !.plan = p, !.status = "planned"]]
  /\ planned' = Append(planned, t)
  /\ cmds' \in {cmds, cmds \cup {t}}
  /\ UNCHANGED <<plans, faults, agent, deliv, recv>>

-----------------------------------------------------------------------------
\* The agent's scheduler.

Running(p) == \E i \in DOMAIN slots : slots[i] = p

\* delete(currentJobs, p).
Freed(p) ==
  IF Running(p) THEN RemoveAt(slots, CHOOSE i \in DOMAIN slots : slots[i] = p)
                ELSE slots

\* The slot is cleared on the way out of every activation.
RunJobClearsAlways(r, p) ==
  /\ run[r].pc = "idle"
  /\ \/ /\ ~Running(p)
        /\ run' = [run EXCEPT ![r] = [pc |-> "exec", plan |-> p, out |-> "none"]]
        /\ slots' = Append(slots, p)
        /\ UNCHANGED outbox
     \/ /\ Running(p)
        /\ run' = [run EXCEPT ![r] = [pc |-> "over", plan |-> p, out |-> "aborted"]]
        /\ slots' = Freed(p)
        /\ outbox' = outbox \cup {r}

\* runJob up to the job: tryStartJob reserves the slot of the plan, or the
\* trigger is aborted and reported.
RunJob(r, p) ==
  /\ run[r].pc = "idle"
  /\ \/ /\ ~Running(p)
        /\ run' = [run EXCEPT ![r] = [pc |-> "exec", plan |-> p, out |-> "none"]]
        /\ slots' = Append(slots, p)
        /\ UNCHANGED outbox
     \/ /\ Running(p)
        /\ run' = [run EXCEPT ![r] = [pc |-> "over", plan |-> p, out |-> "aborted"]]
        /\ outbox' = outbox \cup {r}
        /\ UNCHANGED slots

\* The plan's cron entry fires (it may outlive the plan on the server).
CronFires(r, p) ==
  /\ RunJob(r, p)
  /\ UNCHANGED <<table, asked, cmds, runOf, waiting, resent, acked, calls, recv>>

\* handleCommand and TriggerNow: the agent's configuration may not have the
\* plan, and the command succeeds all the same.
TriggerNow(t, r) ==
  /\ t \in cmds
  /\ cmds' = cmds \ {t}
  /\ RunJob(r, asked[t])
  /\ runOf' = [runOf EXCEPT ![t] = r]
  /\ UNCHANGED <<table, asked, waiting, resent, acked, calls, recv>>

TriggerUnknown(t) ==
  /\ t \in cmds
  /\ cmds' = cmds \ {t}
  /\ UNCHANGED <<table, asked, agent, deliv, recv>>

\* ExecuteBackupJob returns and the outbox takes the report; "orphan" is a
\* report that names a repository the server has deleted.
Execute(r) ==
  /\ run[r].pc = "exec"
  /\ \E out \in {"final", "orphan"} :
       run' = [run EXCEPT ![r].pc = "clear", ![r].out = out]
  /\ outbox' = outbox \cup {r}
  /\ UNCHANGED <<table, asked, cmds, slots, runOf, waiting, resent, acked, calls,
                 recv>>

\* The deferred clearCurrentJob.
ClearCurrentJob(r) ==
  /\ run[r].pc = "clear"
  /\ run' = [run EXCEPT ![r].pc = "over"]
  /\ slots' = Freed(run[r].plan)
  /\ UNCHANGED <<table, asked, cmds, runOf, deliv, recv>>

-----------------------------------------------------------------------------
\* Delivery of reports: one at a time, in any order (a report that comes from
\* memory overtakes the ones in the spill table).

\* An aborted report is looked up like any other.
CallReportJobAborted(r, c) ==
  /\ waiting = None
  /\ r \in outbox
  /\ calls[c].pc = "free"
  /\ waiting' = c
  /\ calls' = [calls EXCEPT ![c] = [NoCall EXCEPT !.report = r, !.pc = "find"]]
  /\ UNCHANGED <<table, asked, cmds, agent, outbox, resent, acked, recv>>

\* The outbox calls ReportJob; an aborted report goes straight to CreateJob.
CallReportJob(r, c) ==
  /\ waiting = None
  /\ r \in outbox
  /\ calls[c].pc = "free"
  /\ waiting' = c
  /\ calls' = [calls EXCEPT ![c] = [NoCall EXCEPT
       !.report = r, !.pc = IF run[r].out = "aborted" THEN "create" ELSE "find"]]
  /\ UNCHANGED <<table, asked, cmds, agent, outbox, resent, acked, recv>>

\* The outbox will send r again, not knowing, or not recording, what the server
\* did with it.
Repeats(r) ==
  /\ \A s \in Runs : resent[s] < MaxResent
  /\ resent' = [resent EXCEPT ![r] = @ + 1]

\* The deadline passes: the outbox keeps the report, and a handler that has not
\* answered goes on with a cancelled context.
DeliveryTimeout(c) ==
  /\ waiting = c
  /\ Repeats(calls[c].report)
  /\ calls' = [calls EXCEPT ![c] = IF @.pc = "reply" THEN NoCall
                                   ELSE [@ EXCEPT !.left = TRUE]]
  /\ waiting' = None
  /\ UNCHANGED <<table, asked, cmds, agent, outbox, acked, recv>>

\* The answer; nobody waits for that of a call that was given up.
Reply(c, ok) ==
  calls' = [calls EXCEPT ![c] =
    IF @.left THEN NoCall ELSE [@ EXCEPT !.pc = "reply", !.row = None, !.ok = ok]]

\* A database call of a handler fails by itself.
DatabaseFails ==
  /\ faults < MaxFaults
  /\ faults' = faults + 1
  /\ UNCHANGED <<plans, jobs, planned>>

\* Or it fails on the cancelled context, as does every call after it.
CallFails(c) ==
  \/ DatabaseFails
  \/ calls[c].left /\ UNCHANGED table

\* storeJobReport: an error of FindPlannedJob falls through to CreateJob.
FindForReport(c) ==
  LET p == run[calls[c].report].plan
      j == FindPlannedJob(p) IN
  /\ calls[c].pc = "find"
  /\ \/ /\ calls' = [calls EXCEPT ![c].row = j,
                     ![c].pc = IF j = None THEN "create" ELSE "complete"]
        /\ UNCHANGED table
     \/ /\ DatabaseFails
        /\ calls' = [calls EXCEPT ![c].pc = "create"]
     \/ /\ calls[c].left
        /\ Reply(c, FALSE)
        /\ UNCHANGED table
  /\ UNCHANGED <<asked, cmds, agent, outbox, waiting, resent, acked, recv>>

\* A call that follows the commit fails, and its error is the answer.
StoreReportErrsLate(c) ==
  LET r == calls[c].report
      j == calls[c].row IN
  /\ calls[c].pc \in {"complete", "create"}
  /\ run[r].out # "orphan"
  /\ jobs' = IF calls[c].pc = "complete" THEN CompleteJob(j, r) ELSE CreateJob(r)
  /\ calls[c].pc = "create" => CreatePasses(r)
  /\ Reply(c, FALSE)
  /\ UNCHANGED <<plans, planned, faults, asked, cmds, agent, outbox, waiting,
                 resent, acked, recv>>

\* storeJobReport: CompleteJob or CreateJob, which commit or roll back.
StoreReport(c) ==
  LET r == calls[c].report
      j == calls[c].row IN
  /\ calls[c].pc \in {"complete", "create"}
  /\ \/ /\ calls[c].pc = "complete"
        /\ run[r].out # "orphan"
        /\ jobs' = CompleteJob(j, r)
        /\ Reply(c, TRUE)
        /\ UNCHANGED <<plans, planned, faults>>
     \/ /\ calls[c].pc = "complete"
        /\ run[r].out = "orphan"
        /\ Reply(c, FALSE)
        /\ UNCHANGED table
     \/ /\ calls[c].pc = "create"
        /\ CreatePasses(r)
        /\ jobs' = CreateJob(r)
        /\ Reply(c, TRUE)
        /\ UNCHANGED <<plans, planned, faults>>
     \/ /\ calls[c].pc = "create"
        /\ ~CreatePasses(r)
        /\ Reply(c, FALSE)
        /\ UNCHANGED table
     \/ /\ CallFails(c)
        /\ Reply(c, FALSE)
  /\ UNCHANGED <<asked, cmds, agent, outbox, waiting, resent, acked, recv>>

\* deliver: the outbox lets an acknowledged report go, unless it was in the
\* spill table and its delete fails (as on a cancelled context), and keeps a
\* refused one or gives it up at its last attempt.
AnswerReport(c) ==
  LET r == calls[c].report IN
  /\ calls[c].pc = "reply"
  /\ c = waiting
  /\ calls' = [calls EXCEPT ![c] = NoCall]
  /\ waiting' = None
  /\ acked' = IF calls[c].ok THEN acked \cup {r} ELSE acked
  /\ \/ outbox' = outbox \ {r} /\ UNCHANGED resent
     \/ calls[c].ok /\ Repeats(r) /\ UNCHANGED outbox
     \/ ~calls[c].ok /\ UNCHANGED <<outbox, resent>>
  /\ UNCHANGED <<table, asked, cmds, agent, recv>>

-----------------------------------------------------------------------------
\* The stream: heartbeats and live logs, handled one at a time.

\* A heartbeat or a batch of log lines names a job that has started; the message
\* may be handled late.
Started(r) == run[r].pc # "idle" /\ run[r].out # "aborted"

\* handleAgentMessage, UpdateHeartbeat: the job is a new one if CurrentJob was
\* nil, as it is in the registry's entry of every new connection: it may be,
\* whatever was said of the job before.  handleJobStarted looks among the agent's
\* plans for one of the plan's name.  Names are not unique, and the agent may have
\* one that a plan no longer has: the plan found may be any, or none.
Heartbeat ==
  /\ recv.pc = "idle"
  /\ \E r \in Runs : Started(r)
  /\ \E p \in plans : recv' = [Idle EXCEPT !.pc = "find", !.plan = p]
  /\ UNCHANGED <<table, asked, cmds, agent, deliv>>

\* The result of the query is used without a test for nil.
FindStartedUnchecked ==
  /\ recv.pc = "find"
  /\ recv' = [recv EXCEPT !.pc = "update", !.row = FindPlannedJob(recv.plan)]
  /\ UNCHANGED <<table, asked, cmds, agent, deliv>>

\* handleJobStarted: FindPlannedJob.
FindStarted ==
  LET j == FindPlannedJob(recv.plan) IN
  /\ recv.pc = "find"
  /\ recv' = IF j = None THEN Idle ELSE [recv EXCEPT !.pc = "update", !.row = j]
  /\ UNCHANGED <<table, asked, cmds, agent, deliv>>

\* handleJobStarted: UpdateJobStatus.
MarkRunning ==
  /\ recv.pc = "update"
  /\ jobs' = UpdateJobStatus(recv.row)
  /\ recv' = Idle
  /\ UNCHANGED <<plans, planned, faults, asked, cmds, agent, deliv>>

\* handleLiveLogs and AppendJobLogs, the read of log_tail.  A batch names the
\* job whose id was logged last; a job without a row is ignored.
ReadLog(r) ==
  /\ recv.pc = "idle"
  /\ Started(r)
  /\ jobs[r].status # "absent"
  /\ recv' = [Idle EXCEPT !.pc = "write", !.row = r, !.log = jobs[r].log]
  /\ UNCHANGED <<table, asked, cmds, agent, deliv>>

\* The entries read are not kept.
WriteLogFresh ==
  /\ recv.pc = "write"
  /\ jobs' = [jobs EXCEPT ![recv.row].log = {"live"}]
  /\ recv' = Idle
  /\ UNCHANGED <<plans, planned, faults, asked, cmds, agent, deliv>>

\* AppendJobLogs writes what it read and the new entries.
WriteLog ==
  /\ recv.pc = "write"
  /\ jobs' = [jobs EXCEPT ![recv.row].log = recv.log \cup {"live"}]
  /\ recv' = Idle
  /\ UNCHANGED <<plans, planned, faults, asked, cmds, agent, deliv>>

Next ==
  \/ \E p \in Plans : DeletePlan(p)
  \/ \E t \in Triggers, p \in Plans : TriggerPlan(t, p)
  \/ \E t \in Triggers, r \in Runs : TriggerNow(t, r)
  \/ \E r \in Runs, p \in Plans : CronFires(r, p)
  \/ \E t \in Triggers : TriggerUnknown(t)
  \/ \E r \in Runs : Execute(r) \/ ClearCurrentJob(r)
  \/ \E r \in Runs, c \in Calls : CallReportJob(r, c)
  \/ \E c \in Calls : \/ FindForReport(c) \/ StoreReport(c)
                      \/ AnswerReport(c) \/ DeliveryTimeout(c)
  \/ Heartbeat \/ FindStarted \/ MarkRunning
  \/ \E r \in Runs : ReadLog(r)
  \/ WriteLog

Spec == Init /\ [][Next]_vars

-----------------------------------------------------------------------------
\* Properties.

TypeOK ==
  /\ plans \in SUBSET Plans
  /\ jobs \in [Rows -> JobRows]
  /\ planned \in Seq(Triggers)
  /\ faults \in 0..MaxFaults
  /\ asked \in [Triggers -> Plans \cup {None}]
  /\ cmds \in SUBSET Triggers
  /\ run \in [Runs -> RunStates]
  /\ slots \in Seq(Plans)
  /\ outbox \in SUBSET Runs
  /\ waiting \in Calls \cup {None}
  /\ resent \in [Runs -> 0..MaxResent]
  /\ acked \in SUBSET Runs
  /\ calls \in [Calls -> CallStates]
  /\ recv \in RecvStates
  /\ runOf \in [Triggers -> Runs \cup {None}]

HasSlot(r) == run[r].pc \in {"exec", "clear"}

\* The scheduler's concurrency policy: cron and manual triggers of one plan
\* never execute it twice at a time, and the slot of a plan that executes is
\* not freed by the trigger that lost.
OneRunPerPlan ==
  \A r, s \in Runs : HasSlot(r) =>
    /\ Running(run[r].plan)
    /\ HasSlot(s) /\ r # s => run[r].plan # run[s].plan

\* An aborted trigger is visible in a row of its own and nowhere else: its
\* report, however often it is delivered, takes no row that a trigger planned
\* or that another report wrote, and nothing is written over it.
AbortsApart ==
  \A j \in Rows :
    /\ jobs[j].status = "aborted" =>
         j \in Runs /\ run[j].out = "aborted" /\ jobs[j].results = {j}
    /\ \A r \in jobs[j].results : run[r].out = "aborted" => j = r

\* A report that the agent was told is stored has its results in the table,
\* although rows are completed by id, plans and repositories go away, and calls
\* that the agent gave up run on.
AckedStored == \A r \in acked : \E j \in Rows : r \in jobs[j].results

\* A report is never stored in a row of another plan, however late the call that
\* found the row writes it and whatever became of the row's plan in between.
\* (A heartbeat may mark such a row as running: it finds its plan by name.)
OwnPlan ==
  \A j \in Rows : \A r \in jobs[j].results : jobs[j].plan \in {run[r].plan, None}

Holding(r) == {j \in Rows : r \in jobs[j].results}

\* A report is in two rows only if the outbox repeated a call in doubt: one more
\* row, at most, for each call it gave up and each answer after which it could
\* not delete the report.
RepeatedIfUnanswered ==
  \A r \in Runs : Cardinality(Holding(r)) <= 1 + resent[r]

\* Rows of p that a trigger planned and no report has completed.
LeftOpen(p) == {j \in Triggers : /\ jobs[j].plan = p
                                 /\ jobs[j].status \in Open
                                 /\ jobs[j].results = {}}

\* The job that t started has run, and the agent knows that its report is stored.
Reported(t) == runOf[t] \in acked /\ run[runOf[t]].out # "aborted"

Unreported(p) == {t \in Triggers : asked[t] = p /\ ~Reported(t)}

\* Reports stored in a row that held another one: a heartbeat had reopened it.
Crowded == {r \in Runs : \E j \in Triggers, s \in Runs \ {r} :
                           {r, s} \subseteq jobs[j].results}

\* A report completes the newest open row of its plan, which need not be the one
\* planned for its job: it may be that of a trigger made later, of one that was
\* aborted, of one whose command was lost.  No row is left open by that: a plan
\* has no more of them than triggers whose job has not been reported, but for
\* look-ups that failed and for reports that share a row.
LeftOpenExplained ==
  \A p \in Plans :
    Cardinality(LeftOpen(p)) <= Cardinality(Unreported(p)) + faults + Cardinality(Crowded)

\* The row that a report created is final: no heartbeat, no other report, no
\* repeated delivery and no late batch of log lines changes its status, its
\* results or the log of the report.
ReportedRowKept ==
  [][\A r \in Runs : jobs[r].status # "absent" =>
       /\ jobs'[r].status = jobs[r].status
       /\ jobs'[r].results = jobs[r].results
       /\ jobs[r].log \subseteq jobs'[r].log]_vars

\* The agent has no job, and no report, message or call is on its way.
Quiet ==
  /\ outbox = {} /\ cmds = {}
  /\ \A r \in Runs : run[r].pc \in {"idle", "over"}
  /\ \A c \in Calls : calls[c] = NoCall
  /\ recv = Idle

\* What the documented life cycle of a job says, planned, running, then
\* success, partial or failed: no job is running when all have been reported.
RunningEnds ==
  Quiet /\ (\A r \in Runs : run[r].pc = "over" => r \in acked) =>
    \A j \in Rows : jobs[j].status # "running"
=============================================================================
