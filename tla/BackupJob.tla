----------------------------- MODULE BackupJob -----------------------------
(***************************************************************************)
(* What a backup job does on the agent: its hooks, and restic on each of   *)
(* the plan's repositories (agent/internal/executor: backup.go, hooks.go,  *)
(* restic.go), with the hooks as configpush.Resolver hands them over.      *)
(*                                                                         *)
(* The plans are those of one agent, on different paths, and their jobs    *)
(* run side by side, one at a time for each plan; they may share a         *)
(* repository.  A hook or a restic command is one step, in which it does   *)
(* what it is for, or fails.  restic itself is external: a repository is   *)
(* the set of its snapshots, and the n-th job of a plan makes snapshot n.  *)
(***************************************************************************)
EXTENDS Integers, FiniteSets

CONSTANTS
  Plans,        \* backup plans of the agent
  Repos,        \* repositories the plans name
  PlanChoices,  \* settings a plan may have
  DefaultKeep,  \* the setting default_retention: --keep-last, or Nil
  MaxRuns,      \* jobs of a plan
  None          \* no repository

Nil == -1  \* a policy that is not set; 0 is one without any --keep flag

Events == {"pre_backup", "post_backup", "on_success", "on_failure"}

\* A row of plan_hooks: "own" is its on_error, which may be unset, "script" the
\* on_error of its script, if it has one.
Hooks == [event : Events, order : Nat, script : {"inline", "continue", "abort"},
          own : {"unset", "continue", "abort"}]

ASSUME BackupJobAssumption ==
  /\ DefaultKeep \in Nat \cup {Nil}
  /\ MaxRuns \in Nat
  /\ None \notin Repos
  /\ PlanChoices \subseteq
       [targets : SUBSET Repos, hooks : SUBSET Hooks, forget : BOOLEAN,
        prune : BOOLEAN, keep : Nat \cup {Nil}]

VARIABLES
  plan,      \* the settings of each plan
  known,     \* repositories in the agent's configuration
  inited,    \* repositories that exist
  snaps,     \* snapshots in each repository
  job,       \* ExecuteBackupJob, one activation for each plan
  stopping,  \* the scheduler's context is cancelled
  taken,     \* every snapshot there ever was
  broke      \* targets of the job where a command failed that it depends on

vars == <<plan, known, inited, snaps, job, stopping, taken, broke>>

Snapshots == [plan : Plans, n : 1..MaxRuns]

\* pc; jobs of the plan so far; hooks to run; repositories to back up to, and
\* the one it is at; RepositoryResults; hooks that ran and that failed; aborted
\* by RunHooks; JobReport.Status.
NoJob(n) == [pc |-> "idle", n |-> n, todo |-> {}, left |-> {}, at |-> None,
             result |-> [r \in Repos |-> "none"], ran |-> {}, failed |-> {},
             aborted |-> FALSE, status |-> "none"]

Init ==
  /\ plan \in [Plans -> PlanChoices]
  /\ known \in SUBSET Repos
  /\ inited = {}
  /\ snaps = [r \in Repos |-> {}]
  /\ job = [p \in Plans |-> NoJob(0)]
  /\ stopping = FALSE
  /\ taken = [r \in Repos |-> {}]
  /\ broke = [p \in Plans |-> {}]

config == <<plan, known>>
repo   == <<inited, snaps, taken>>

-----------------------------------------------------------------------------
\* Hooks.

\* The script's on_error wins over the one of the hook.
ResolvedOnErrorScript(h) ==
  IF h.script # "inline" THEN h.script
  ELSE IF h.own # "unset" THEN h.own ELSE "continue"

\* PushConfigToAgent: the on_error of the hook, else of its script, else
\* "continue".
ResolvedOnError(h) ==
  IF h.own # "unset" THEN h.own
  ELSE IF h.script # "inline" THEN h.script ELSE "continue"

On(p, event) == {h \in plan[p].hooks : h.event = event}

FirstUnsorted(hooks) == hooks

\* RunHooks sorts by sort_order; hooks of one order may run either way.
First(hooks) == {h \in hooks : \A g \in hooks : h.order <= g.order}

\* RunHooks, one RunHook: hooks run in order, and a failure of one with
\* on_error "abort" ends the phase.  No hook starts when the context is
\* cancelled: it fails.
RunHook(p) ==
  /\ job[p].pc \in {"pre", "post", "notify"}
  /\ \E h \in First(job[p].todo) :
       LET ran == [job[p] EXCEPT !.todo = @ \ {h}, !.ran = @ \cup {h}] IN
       \/ ~stopping /\ job' = [job EXCEPT ![p] = ran]
       \/ LET abort == ResolvedOnError(h) = "abort" IN
          job' = [job EXCEPT ![p] = [ran EXCEPT
            !.failed  = @ \cup {h},
            !.todo    = IF abort THEN {} ELSE @,
            !.aborted = @ \/ (abort /\ job[p].pc = "pre")]]
  /\ UNCHANGED <<config, repo, stopping, broke>>

-----------------------------------------------------------------------------
\* ExecuteBackupJob.

StartJob(p) ==
  /\ job[p].pc \in {"idle", "over"}
  /\ job[p].n < MaxRuns
  /\ job' = [job EXCEPT ![p] = [NoJob(@.n + 1) EXCEPT
       !.pc = "pre", !.todo = On(p, "pre_backup")]]
  /\ broke' = [broke EXCEPT ![p] = {}]
  /\ UNCHANGED <<config, repo, stopping>>

\* The hooks have run.  An abort is a failed job, and only on_failure follows:
\* the code returns before the post_backup hooks, which its own comments and
\* docs/hooks-design.md say run always.
PreBackupDone(p) ==
  /\ job[p].pc = "pre" /\ job[p].todo = {}
  /\ job' = [job EXCEPT ![p] =
       IF @.aborted
       THEN [@ EXCEPT !.pc = "notify", !.status = "failed", !.todo = On(p, "on_failure")]
       ELSE [@ EXCEPT !.pc = "repos", !.left = plan[p].targets]]
  /\ UNCHANGED <<config, repo, stopping, broke>>

\* The rows of backup_plan_repositories come in no order.
NextRepo(p) ==
  /\ job[p].pc = "repos"
  /\ \E r \in job[p].left :
       job' = [job EXCEPT ![p] =
         IF r \in known
         THEN [job[p] EXCEPT !.left = @ \ {r}, !.pc = "list", !.at = r]
         ELSE [job[p] EXCEPT !.left = @ \ {r}, !.result[r] = "skipped"]]
  /\ UNCHANGED <<config, repo, stopping, broke>>

\* The repository is not left.
RepoDoneStays(p, res) ==
  job' = [job EXCEPT ![p].pc = "repos", ![p].result[job[p].at] = res]

\* backupToRepo returns.
RepoDone(p, res) ==
  job' = [job EXCEPT ![p].pc = "repos", ![p].result[job[p].at] = res, ![p].at = None]

Goto(p, pc) == job' = [job EXCEPT ![p].pc = pc]

Breaks(p) == broke' = [broke EXCEPT ![p] = @ \cup {job[p].at}]

\* EnsureRepo: "restic snapshots" tells whether the repository is there.
ListSnapshots(p) ==
  /\ job[p].pc = "list"
  /\ \/ ~stopping /\ job[p].at \in inited /\ Goto(p, "backup")
     \/ Goto(p, "init")
  /\ UNCHANGED <<config, repo, stopping, broke>>

SettlesIfNew(out) == out = "ok"

\* An init that says "already initialized" or "already exists" is a success.
Settles(out) == out \in {"ok", "exists"}

\* EnsureRepo: "restic init", where another job may have been first.
InitRepo(p) ==
  LET r == job[p].at IN
  /\ job[p].pc = "init"
  /\ \E out \in {"ok", "exists", "error"} :
       /\ out = "ok" => ~stopping /\ r \notin inited /\ inited' = inited \cup {r}
       /\ out = "exists" => ~stopping /\ r \in inited /\ UNCHANGED inited
       /\ out = "error" => inited' \in {inited, inited \cup {r}}
       /\ IF Settles(out) THEN Goto(p, "backup") ELSE RepoDone(p, "failed")
       /\ IF out = "error" THEN Breaks(p) ELSE UNCHANGED broke
  /\ UNCHANGED <<config, snaps, taken, stopping>>

Add(f, p) == [f EXCEPT ![job[p].at] = @ \cup {[plan |-> p, n |-> job[p].n]}]

\* resolveRetention with the two swapped.
resolveRetentionDefault(p) == IF DefaultKeep # Nil THEN DefaultKeep ELSE plan[p].keep

\* resolveRetention: the policy of the plan, else the default, if there is one.
resolveRetention(p) == IF plan[p].keep # Nil THEN plan[p].keep ELSE DefaultKeep

\* Backup.  restic may have made a snapshot although it fails: some files could
\* not be read, the summary is missing, or it was killed.
Backup(p) ==
  /\ job[p].pc = "backup"
  /\ \/ /\ ~stopping
        /\ snaps' = Add(snaps, p) /\ taken' = Add(taken, p)
        /\ IF plan[p].forget /\ resolveRetention(p) # Nil
           THEN Goto(p, "forget") ELSE RepoDone(p, "success")
        /\ UNCHANGED broke
     \/ /\ \/ UNCHANGED <<snaps, taken>>
           \/ snaps' = Add(snaps, p) /\ taken' = Add(taken, p)
        /\ RepoDone(p, "failed")
        /\ Breaks(p)
  /\ UNCHANGED <<config, inited, stopping>>

Newer(s, ss) == {t \in ss : t.plan = s.plan /\ t.n > s.n}

\* "restic forget --keep-last k --tag ... --tag ..." looks at the snapshots that
\* have any of the tags, which all of the agent's have, and keeps k of each
\* group of paths; without a --keep flag it removes nothing.
ResticForget(ss, k) == {s \in ss : k = 0 \/ Cardinality(Newer(s, ss)) < k}

\* backupToRepo: a failure of forget or prune is logged; the backup stands.
Forget(p) ==
  LET r == job[p].at IN
  /\ job[p].pc = "forget"
  /\ \/ ~stopping /\ snaps' = [snaps EXCEPT ![r] = ResticForget(@, resolveRetention(p))]
     \/ UNCHANGED snaps
  /\ IF plan[p].prune THEN Goto(p, "prune") ELSE RepoDone(p, "success")
  /\ UNCHANGED <<config, inited, taken, stopping, broke>>

Prune(p) ==
  /\ job[p].pc = "prune"
  /\ RepoDone(p, "success")
  /\ UNCHANGED <<config, repo, stopping, broke>>

Results(p, statuses) == {r \in Repos : job[p].result[r] \in statuses}

\* A repository that is skipped is not counted.
AggregateStatusSkips(p) ==
  IF Results(p, {"failed"}) = {} THEN "success"
  ELSE IF Results(p, {"success"}) = {} THEN "failed" ELSE "partial"

\* A repository that is missing counts as failed; a plan without any succeeds.
AggregateStatus(p) ==
  IF Results(p, {"failed", "skipped"}) = {} THEN "success"
  ELSE IF Results(p, {"success"}) = {} THEN "failed" ELSE "partial"

ReposDone(p) ==
  /\ job[p].pc = "repos" /\ job[p].left = {}
  /\ job' = [job EXCEPT ![p].pc = "post", ![p].status = AggregateStatus(p),
                        ![p].todo = On(p, "post_backup")]
  /\ UNCHANGED <<config, repo, stopping, broke>>

\* A job that failed in part is announced as a success.
OutcomeEventPartial(status) == IF status = "failed" THEN "on_failure" ELSE "on_success"

OutcomeEvent(status) == IF status = "success" THEN "on_success" ELSE "on_failure"

PostBackupDone(p) ==
  /\ job[p].pc = "post" /\ job[p].todo = {}
  /\ job' = [job EXCEPT ![p].pc = "notify",
                        ![p].todo = On(p, OutcomeEvent(job[p].status))]
  /\ UNCHANGED <<config, repo, stopping, broke>>

\* The report is returned.
ReturnReport(p) ==
  /\ job[p].pc = "notify" /\ job[p].todo = {}
  /\ Goto(p, "over")
  /\ UNCHANGED <<config, repo, stopping, broke>>

-----------------------------------------------------------------------------
\* Scheduler.Stop cancels the context of the jobs: they go on, and every
\* command fails.
Stop ==
  /\ ~stopping
  /\ stopping' = TRUE
  /\ UNCHANGED <<config, repo, job, broke>>

\* The process is gone, with its jobs, and starts again.
Restart ==
  /\ job' = [p \in Plans |-> NoJob(job[p].n)]
  /\ stopping' = FALSE
  /\ broke' = [p \in Plans |-> {}]
  /\ UNCHANGED <<config, repo>>

Next ==
  \/ \E p \in Plans :
       \/ StartJob(p) \/ RunHook(p) \/ PreBackupDone(p) \/ NextRepo(p)
       \/ ListSnapshots(p) \/ InitRepo(p) \/ Backup(p) \/ Forget(p) \/ Prune(p)
       \/ ReposDone(p) \/ PostBackupDone(p) \/ ReturnReport(p)
  \/ Stop \/ Restart

Spec == Init /\ [][Next]_vars

-----------------------------------------------------------------------------
\* Properties.

InRepo == {"list", "init", "backup", "forget", "prune"}

\* Types, and where a job is in its list of repositories: it is at one exactly
\* while a command runs there, and that one has no result yet.
TypeOK ==
  /\ plan \in [Plans -> PlanChoices]
  /\ known \in SUBSET Repos
  /\ inited \in SUBSET Repos
  /\ \A r \in Repos : snaps[r] \in SUBSET Snapshots
  /\ stopping \in BOOLEAN
  /\ \A r \in Repos : taken[r] \in SUBSET Snapshots
  /\ broke \in [Plans -> SUBSET Repos]
  /\ \A p \in Plans :
       LET j == job[p] IN
       /\ j.pc \in {"idle", "pre", "repos", "post", "notify", "over"} \cup InRepo
       /\ j.n \in 0..MaxRuns
       /\ j.status \in {"none", "success", "partial", "failed"}
       /\ j.failed \subseteq j.ran /\ j.ran \subseteq plan[p].hooks
       /\ j.todo \subseteq plan[p].hooks
       /\ j.aborted \in BOOLEAN
       /\ j.result \in [Repos -> {"none", "success", "failed", "skipped"}]
       /\ j.left \subseteq {r \in plan[p].targets : j.result[r] = "none"}
       /\ j.at # None <=> j.pc \in InRepo
       /\ j.pc \in InRepo => j.at \in known \ j.left /\ j.result[j.at] = "none"

Own(p) == [plan |-> p, n |-> job[p].n]

\* A job that is reported a success has left a snapshot in every repository of
\* its plan, and it is still there, whatever policies its own forget and the
\* forgets of other jobs apply in between.
SuccessHasSnapshot ==
  \A p \in Plans : job[p].status = "success" =>
    \A r \in plan[p].targets : Own(p) \in snaps[r]

\* A job is not reported failed, or partial, without a cause: a hook aborted
\* it, a repository is missing, or a command it depends on really failed.  Not
\* a cause: two jobs that initialise one repository, a forget or a prune that
\* fails, any other hook.
FailureCaused ==
  \A p \in Plans : job[p].status \in {"failed", "partial"} =>
    job[p].aborted \/ ~plan[p].targets \subseteq known \/ broke[p] # {}

Aborts(h) == h.own = "abort" \/ (h.own = "unset" /\ h.script = "abort")

\* A failed pre_backup hook that is to abort, by its own setting or that of its
\* script, makes the job a failed one without any snapshot.  No other hook does:
\* without it every repository is attempted, and then the post_backup hooks run
\* however that went, unless one before them ends the phase.
\* What post_backup hooks do after an abort is left open here.  The code skips
\* them, while docs/hooks-design.md:127 says "`post_*` hooks always run
\* (regardless of success/failure)", as backup.go:27 and 162 do; README.md,
\* "Observations", reports it.
AbortStopsJob ==
  \A p \in Plans : job[p].pc = "over" =>
    IF \E h \in job[p].failed : h.event = "pre_backup" /\ Aborts(h)
    THEN /\ job[p].status = "failed"
         /\ \A r \in Repos : Own(p) \notin taken[r]
    ELSE /\ \A r \in plan[p].targets : job[p].result[r] # "none"
         /\ \/ On(p, "post_backup") \subseteq job[p].ran
            \/ \E h \in job[p].failed : h.event = "post_backup" /\ Aborts(h)

\* The hooks of an event run in their order, and after one that aborts none.
HooksInOrder ==
  \A p \in Plans : \A h \in job[p].ran : \A g \in On(p, h.event) :
    g.order < h.order => g \in job[p].ran /\ ~(g \in job[p].failed /\ Aborts(g))

\* Success is announced when no hook aborted the job and every repository has
\* its backup, failure in every other case, never both; each hook of that event
\* runs, unless one before it ends the phase.
NotifiedRight ==
  \A p \in Plans : job[p].pc = "over" =>
    LET event == IF /\ ~job[p].aborted
                    /\ \A r \in plan[p].targets : job[p].result[r] = "success"
                 THEN "on_success" ELSE "on_failure"
        told  == {h \in job[p].ran : h.event \in {"on_success", "on_failure"}} IN
    \/ told = On(p, event)
    \/ told \subseteq On(p, event) /\ \E h \in told \cap job[p].failed : Aborts(h)

Sharing(p, r) == {q \in Plans \ {p} : r \in plan[q].targets}

Keep(p) == IF plan[p].keep # Nil THEN plan[p].keep ELSE DefaultKeep

\* In a repository of its own, a plan loses a snapshot only to its own policy:
\* it forgets at all, and at least as many newer snapshots were made as it is
\* to keep.
OwnPolicy ==
  \A p \in Plans : \A r \in plan[p].targets : Sharing(p, r) = {} =>
    \A s \in taken[r] \ snaps[r] :
      /\ plan[p].forget /\ Keep(p) > 0
      /\ Cardinality(Newer(s, taken[r])) >= Keep(p)
=============================================================================
