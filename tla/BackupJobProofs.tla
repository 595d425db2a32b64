-------------------------- MODULE BackupJobProofs --------------------------
(***************************************************************************)
(* Proofs about BackupJob, for every number of plans and repositories,     *)
(* all settings and hooks of the plans, and any number of jobs.            *)
(***************************************************************************)
EXTENDS BackupJob, FiniteSetTheorems, TLAPS

PCs == {"idle", "pre", "repos", "post", "notify", "over"} \cup InRepo

Outcomes == {"none", "success", "failed", "skipped"}

JobRecords ==
  [pc : PCs, n : 0..MaxRuns, todo : SUBSET Hooks, left : SUBSET Repos,
   at : Repos \cup {None}, result : [Repos -> Outcomes], ran : SUBSET Hooks,
   failed : SUBSET Hooks, aborted : BOOLEAN,
   status : {"none", "success", "partial", "failed"}]

\* The variables that are functions are functions.
Shape ==
  /\ plan \in [Plans -> PlanChoices]
  /\ known \subseteq Repos /\ inited \subseteq Repos /\ stopping \in BOOLEAN
  /\ snaps \in [Repos -> SUBSET Snapshots]
  /\ taken \in [Repos -> SUBSET Snapshots]
  /\ broke \in [Plans -> SUBSET Repos]
  /\ job \in [Plans -> JobRecords]

-----------------------------------------------------------------------------
\* What the steps do to a job.

SameLog(p) ==
  /\ job'[p].n = job[p].n /\ job'[p].ran = job[p].ran
  /\ job'[p].failed = job[p].failed /\ job'[p].aborted = job[p].aborted

SameRepos(p) ==
  /\ job'[p].left = job[p].left /\ job'[p].at = job[p].at
  /\ job'[p].result = job[p].result

\* The job goes on at pc.
Moves(p, pc) ==
  /\ job'[p].pc = pc
  /\ job'[p].todo = job[p].todo /\ job'[p].status = job[p].status
  /\ SameLog(p) /\ SameRepos(p)

\* The job has done with the repository it is at.
Leaves(p, res) ==
  /\ job'[p].pc = "repos"
  /\ job'[p].todo = job[p].todo /\ job'[p].status = job[p].status
  /\ SameLog(p)
  /\ job'[p].left = job[p].left /\ job'[p].at = None
  /\ job'[p].result = [job[p].result EXCEPT ![job[p].at] = res]

Others(p) == \A q \in Plans : q # p => job'[q] = job[q]

\* What the settings of a plan are.
LEMMA PlanFacts ==
  ASSUME Shape, NEW p \in Plans
  PROVE  /\ plan[p].targets \subseteq Repos /\ plan[p].hooks \subseteq Hooks
         /\ plan[p].forget \in BOOLEAN /\ plan[p].keep \in Nat \cup {Nil}
         /\ resolveRetention(p) \in Nat \cup {Nil}
         /\ \A e : On(p, e) \subseteq plan[p].hooks
<1>1. plan[p] \in [targets : SUBSET Repos, hooks : SUBSET Hooks, forget : BOOLEAN,
                   prune : BOOLEAN, keep : Nat \cup {Nil}]
  BY BackupJobAssumption DEF Shape
<1>2. /\ plan[p].targets \subseteq Repos /\ plan[p].hooks \subseteq Hooks
      /\ plan[p].forget \in BOOLEAN /\ plan[p].keep \in Nat \cup {Nil}
  BY <1>1
<1> QED BY <1>2, BackupJobAssumption DEF resolveRetention, On

\* A step of ExecuteBackupJob that only goes on.
LEMMA GotoFacts ==
  ASSUME Shape, NEW p \in Plans, NEW pc \in PCs, Goto(p, pc)
  PROVE  job' \in [Plans -> JobRecords] /\ Moves(p, pc) /\ Others(p)
<1> DEFINE k == [job[p] EXCEPT !.pc = pc]
<1>1. job \in [Plans -> JobRecords] /\ job[p] \in JobRecords
  BY DEF Shape
<1>2. /\ k \in JobRecords /\ k.pc = pc /\ k.n = job[p].n /\ k.todo = job[p].todo
      /\ k.left = job[p].left /\ k.at = job[p].at /\ k.result = job[p].result
      /\ k.ran = job[p].ran /\ k.failed = job[p].failed
      /\ k.aborted = job[p].aborted /\ k.status = job[p].status
  BY <1>1 DEF JobRecords
<1>3. job' = [job EXCEPT ![p] = k]
  BY DEF Goto
<1> HIDE DEF k
<1>4. job'[p] = k /\ Others(p) /\ job' \in [Plans -> JobRecords]
  BY <1>1, <1>2, <1>3 DEF Others
<1> QED BY <1>2, <1>4 DEF Moves, SameLog, SameRepos

\* A repository is done: its result is written, the next one is looked for.
LEMMA RepoDoneFacts ==
  ASSUME Shape, NEW p \in Plans, NEW res \in Outcomes, RepoDone(p, res)
  PROVE  job' \in [Plans -> JobRecords] /\ Leaves(p, res) /\ Others(p)
<1> DEFINE f == [job[p].result EXCEPT ![job[p].at] = res]
           k == [job[p] EXCEPT !.pc = "repos", !.result = f, !.at = None]
<1>1. job \in [Plans -> JobRecords] /\ job[p] \in JobRecords
  BY DEF Shape
<1>2. f \in [Repos -> Outcomes]
  <2>1. job[p].result \in [Repos -> Outcomes]
    BY <1>1 DEF JobRecords
  <2> QED BY <2>1
<1>3. job' = [job EXCEPT ![p] = k]
  BY DEF RepoDone
<1> HIDE DEF f
<1>4. /\ k \in JobRecords /\ k.pc = "repos" /\ k.n = job[p].n /\ k.todo = job[p].todo
      /\ k.left = job[p].left /\ k.at = None /\ k.result = f
      /\ k.ran = job[p].ran /\ k.failed = job[p].failed
      /\ k.aborted = job[p].aborted /\ k.status = job[p].status
  BY <1>1, <1>2 DEF JobRecords, PCs
<1> HIDE DEF k
<1>5. job'[p] = k /\ Others(p) /\ job' \in [Plans -> JobRecords]
  BY <1>1, <1>3, <1>4 DEF Others
<1> QED BY <1>4, <1>5 DEF Leaves, SameLog, f

\* There is no job.
LEMMA NoJobFacts ==
  ASSUME NEW m \in 0..MaxRuns
  PROVE  /\ NoJob(m) \in JobRecords
         /\ NoJob(m).pc = "idle" /\ NoJob(m).n = m /\ NoJob(m).todo = {}
         /\ NoJob(m).left = {} /\ NoJob(m).at = None /\ NoJob(m).ran = {}
         /\ NoJob(m).result = [r \in Repos |-> "none"]
         /\ NoJob(m).failed = {} /\ NoJob(m).aborted = FALSE
         /\ NoJob(m).status = "none"
<1> DEFINE f == [r \in Repos |-> "none"]
<1>1. f \in [Repos -> Outcomes]
  BY DEF Outcomes
<1>2. NoJob(m) = [pc |-> "idle", n |-> m, todo |-> {}, left |-> {}, at |-> None,
                  result |-> f, ran |-> {}, failed |-> {}, aborted |-> FALSE,
                  status |-> "none"]
  BY DEF NoJob
<1> HIDE DEF f
<1>3. /\ NoJob(m) \in JobRecords
      /\ NoJob(m).pc = "idle" /\ NoJob(m).n = m /\ NoJob(m).todo = {}
      /\ NoJob(m).left = {} /\ NoJob(m).at = None /\ NoJob(m).ran = {}
      /\ NoJob(m).result = f
      /\ NoJob(m).failed = {} /\ NoJob(m).aborted = FALSE
      /\ NoJob(m).status = "none"
  BY <1>1, <1>2 DEF JobRecords, PCs
<1> QED BY <1>3 DEF f

\* A job starts afresh.
LEMMA StartFacts ==
  ASSUME Shape, NEW p \in Plans, StartJob(p)
  PROVE  /\ job' \in [Plans -> JobRecords] /\ Others(p)
         /\ job'[p].pc = "pre" /\ job'[p].n = job[p].n + 1
         /\ job'[p].todo = On(p, "pre_backup") /\ job'[p].ran = {}
         /\ job'[p].failed = {} /\ job'[p].aborted = FALSE
         /\ job'[p].status = "none" /\ job'[p].left = {} /\ job'[p].at = None
         /\ job'[p].result = [r \in Repos |-> "none"]
         /\ job[p].n \in Nat
<1> DEFINE k == [NoJob(job[p].n + 1) EXCEPT !.pc = "pre", !.todo = On(p, "pre_backup")]
<1>1. /\ job \in [Plans -> JobRecords] /\ job[p] \in JobRecords
      /\ job[p].n \in 0..MaxRuns /\ job[p].n < MaxRuns
  BY DEF Shape, JobRecords, StartJob
<1>2. On(p, "pre_backup") \subseteq Hooks /\ job[p].n + 1 \in 0..MaxRuns
  BY <1>1, PlanFacts, BackupJobAssumption
<1>3. /\ k.pc = "pre" /\ k.n = job[p].n + 1
      /\ k.todo = On(p, "pre_backup") /\ k.ran = {}
      /\ k.failed = {} /\ k.aborted = FALSE
      /\ k.status = "none" /\ k.left = {} /\ k.at = None
      /\ k.result = [r \in Repos |-> "none"]
  BY DEF NoJob
<1>4. k \in JobRecords
  <2>1. NoJob(job[p].n + 1) \in JobRecords
    BY <1>2, NoJobFacts
  <2> QED BY <1>2, <2>1 DEF JobRecords, PCs
<1>5. job' = [job EXCEPT ![p] = k]
  BY DEF StartJob
<1> HIDE DEF k
<1>6. job'[p] = k /\ Others(p) /\ job' \in [Plans -> JobRecords]
  BY <1>1, <1>4, <1>5 DEF Others
<1> QED BY <1>1, <1>3, <1>6

\* A hook has run or failed; h is one that comes first.
HookRan(p, h) ==
  /\ job'[p].pc = job[p].pc /\ job'[p].n = job[p].n /\ job'[p].status = job[p].status
  /\ SameRepos(p)
  /\ job'[p].ran = job[p].ran \cup {h}
  /\ \/ /\ job'[p].todo = job[p].todo \ {h}
        /\ job'[p].failed = job[p].failed /\ job'[p].aborted = job[p].aborted
     \/ /\ job'[p].failed = job[p].failed \cup {h}
        /\ job'[p].todo = IF ResolvedOnError(h) = "abort" THEN {} ELSE job[p].todo \ {h}
        /\ job'[p].aborted <=> \/ job[p].aborted
                               \/ ResolvedOnError(h) = "abort" /\ job[p].pc = "pre"

\* One hook of RunHooks: it is logged, and ends the phase or the job if it aborts.
LEMMA HookFacts ==
  ASSUME Shape, NEW p \in Plans, RunHook(p)
  PROVE  /\ job' \in [Plans -> JobRecords] /\ Others(p)
         /\ \E h \in First(job[p].todo) : HookRan(p, h)
<1>1. job \in [Plans -> JobRecords] /\ job[p] \in JobRecords
  BY DEF Shape
<1>2. PICK h \in First(job[p].todo) :
        LET ran == [job[p] EXCEPT !.todo = @ \ {h}, !.ran = @ \cup {h}] IN
        \/ ~stopping /\ job' = [job EXCEPT ![p] = ran]
        \/ LET abort == ResolvedOnError(h) = "abort" IN
           job' = [job EXCEPT ![p] = [ran EXCEPT
             !.failed  = @ \cup {h},
             !.todo    = IF abort THEN {} ELSE @,
             !.aborted = @ \/ (abort /\ job[p].pc = "pre")]]
  BY DEF RunHook
<1>3. h \in Hooks /\ h \in job[p].todo /\ job[p].todo \subseteq Hooks
      /\ job[p].ran \subseteq Hooks /\ job[p].failed \subseteq Hooks
      /\ job[p].aborted \in BOOLEAN
  BY <1>1 DEF First, JobRecords
<1> DEFINE ran == [job[p] EXCEPT !.todo = job[p].todo \ {h}, !.ran = job[p].ran \cup {h}]
           abort == ResolvedOnError(h) = "abort"
           bad == [ran EXCEPT !.failed = job[p].failed \cup {h},
                              !.todo = IF abort THEN {} ELSE job[p].todo \ {h},
                              !.aborted = job[p].aborted \/ (abort /\ job[p].pc = "pre")]
<1>4. /\ ran \in JobRecords /\ ran.pc = job[p].pc /\ ran.n = job[p].n
      /\ ran.todo = job[p].todo \ {h} /\ ran.left = job[p].left /\ ran.at = job[p].at
      /\ ran.result = job[p].result /\ ran.ran = job[p].ran \cup {h}
      /\ ran.failed = job[p].failed /\ ran.aborted = job[p].aborted
      /\ ran.status = job[p].status
  BY <1>1, <1>3 DEF JobRecords
<1> DEFINE F == job[p].failed \cup {h}
           T == IF abort THEN {} ELSE job[p].todo \ {h}
           A == job[p].aborted \/ (abort /\ job[p].pc = "pre")
<1>5. F \subseteq Hooks /\ T \subseteq Hooks /\ A \in BOOLEAN
  BY <1>3
<1>6. \/ job' = [job EXCEPT ![p] = ran]
      \/ job' = [job EXCEPT ![p] = [ran EXCEPT !.failed = F, !.todo = T, !.aborted = A]]
  <2>1. ran = [job[p] EXCEPT !.todo = @ \ {h}, !.ran = @ \cup {h}]
    OBVIOUS
  <2>2. bad = [ran EXCEPT !.failed = @ \cup {h}, !.todo = IF abort THEN {} ELSE @,
                          !.aborted = @ \/ (abort /\ job[p].pc = "pre")]
    <3> HIDE DEF ran
    <3> QED BY <1>4
  <2> QED BY <1>2, <2>1, <2>2
<1> HIDE DEF F, T, A, ran
<1> DEFINE k == [ran EXCEPT !.failed = F, !.todo = T, !.aborted = A]
<1>7. /\ k \in JobRecords /\ k.pc = job[p].pc /\ k.n = job[p].n
      /\ k.todo = T /\ k.left = job[p].left /\ k.at = job[p].at
      /\ k.result = job[p].result /\ k.ran = job[p].ran \cup {h}
      /\ k.failed = F /\ k.aborted = A /\ k.status = job[p].status
  <2>1. /\ k \in JobRecords /\ k.pc = ran.pc /\ k.n = ran.n
        /\ k.todo = T /\ k.left = ran.left /\ k.at = ran.at
        /\ k.result = ran.result /\ k.ran = ran.ran
        /\ k.failed = F /\ k.aborted = A /\ k.status = ran.status
    BY <1>4, <1>5 DEF JobRecords
  <2> QED BY <1>4, <2>1
<1> HIDE DEF k
<1>8. CASE job' = [job EXCEPT ![p] = ran]
  <2>1. job'[p] = ran /\ Others(p) /\ job' \in [Plans -> JobRecords]
    BY <1>1, <1>4, <1>8 DEF Others
  <2> QED BY <1>4, <2>1 DEF HookRan, SameRepos
<1>9. CASE job' = [job EXCEPT ![p] = k]
  <2>1. job'[p] = k /\ Others(p) /\ job' \in [Plans -> JobRecords]
    BY <1>1, <1>7, <1>9 DEF Others
  <2> QED BY <1>7, <2>1 DEF HookRan, SameRepos, F, T, A
<1> QED BY <1>6, <1>8, <1>9 DEF k

\* The job goes on at pc with another status and other hooks to run.
Enters(p, pc, status, todo) ==
  /\ job'[p].pc = pc /\ job'[p].status = status /\ job'[p].todo = todo
  /\ SameLog(p) /\ SameRepos(p)

\* The pre_backup hooks are done: the repositories of the plan are next.
LEMMA PreBackupFacts ==
  ASSUME Shape, NEW p \in Plans, PreBackupDone(p)
  PROVE  /\ job' \in [Plans -> JobRecords] /\ Others(p)
         /\ \/ /\ job[p].aborted
               /\ Enters(p, "notify", "failed", On(p, "on_failure"))
            \/ /\ ~job[p].aborted
               /\ job'[p].pc = "repos" /\ job'[p].todo = job[p].todo
               /\ job'[p].status = job[p].status /\ SameLog(p)
               /\ job'[p].left = plan[p].targets
               /\ job'[p].at = job[p].at /\ job'[p].result = job[p].result
<1>1. job \in [Plans -> JobRecords] /\ job[p] \in JobRecords
  BY DEF Shape
<1>2. On(p, "on_failure") \subseteq Hooks /\ plan[p].targets \subseteq Repos
  BY PlanFacts
<1>3. CASE job[p].aborted
  <2> DEFINE k == [job[p] EXCEPT !.pc = "notify", !.status = "failed",
                                 !.todo = On(p, "on_failure")]
  <2>1. /\ k \in JobRecords /\ k.pc = "notify" /\ k.n = job[p].n
        /\ k.todo = On(p, "on_failure")
        /\ k.left = job[p].left /\ k.at = job[p].at /\ k.result = job[p].result
        /\ k.ran = job[p].ran /\ k.failed = job[p].failed
        /\ k.aborted = job[p].aborted /\ k.status = "failed"
    BY <1>1, <1>2 DEF JobRecords, PCs
  <2>2. job' = [job EXCEPT ![p] = k]
    BY <1>3 DEF PreBackupDone
  <2> HIDE DEF k
  <2>3. job'[p] = k /\ Others(p) /\ job' \in [Plans -> JobRecords]
    BY <1>1, <2>1, <2>2 DEF Others
  <2> QED BY <1>3, <2>1, <2>3 DEF Enters, SameLog, SameRepos
<1>4. CASE ~job[p].aborted
  <2> DEFINE k == [job[p] EXCEPT !.pc = "repos", !.left = plan[p].targets]
  <2>1. /\ k \in JobRecords /\ k.pc = "repos" /\ k.n = job[p].n
        /\ k.todo = job[p].todo
        /\ k.left = plan[p].targets /\ k.at = job[p].at /\ k.result = job[p].result
        /\ k.ran = job[p].ran /\ k.failed = job[p].failed
        /\ k.aborted = job[p].aborted /\ k.status = job[p].status
    BY <1>1, <1>2 DEF JobRecords, PCs
  <2>2. job' = [job EXCEPT ![p] = k]
    BY <1>4 DEF PreBackupDone
  <2> HIDE DEF k
  <2>3. job'[p] = k /\ Others(p) /\ job' \in [Plans -> JobRecords]
    BY <1>1, <2>1, <2>2 DEF Others
  <2> QED BY <1>4, <2>1, <2>3 DEF SameLog
<1> QED BY <1>3, <1>4

\* The next repository is opened, or skipped when it is not configured.
LEMMA NextRepoFacts ==
  ASSUME Shape, NEW p \in Plans, NextRepo(p)
  PROVE  /\ job' \in [Plans -> JobRecords] /\ Others(p)
         /\ job'[p].todo = job[p].todo /\ job'[p].status = job[p].status /\ SameLog(p)
         /\ \E r \in job[p].left :
              /\ job'[p].left = job[p].left \ {r}
              /\ \/ /\ r \in known /\ job'[p].pc = "list" /\ job'[p].at = r
                    /\ job'[p].result = job[p].result
                 \/ /\ r \notin known /\ job'[p].pc = "repos"
                    /\ job'[p].at = job[p].at
                    /\ job'[p].result = [job[p].result EXCEPT ![r] = "skipped"]
<1>1. /\ job \in [Plans -> JobRecords] /\ job[p] \in JobRecords
      /\ job[p].pc = "repos" /\ job[p].left \subseteq Repos
      /\ job[p].result \in [Repos -> Outcomes]
  BY DEF Shape, JobRecords, NextRepo
<1>2. PICK r \in job[p].left :
        job' = [job EXCEPT ![p] =
          IF r \in known
          THEN [job[p] EXCEPT !.left = @ \ {r}, !.pc = "list", !.at = r]
          ELSE [job[p] EXCEPT !.left = @ \ {r}, !.result[r] = "skipped"]]
  BY DEF NextRepo
<1> DEFINE K == [job[p] EXCEPT !.left = @ \ {r}, !.pc = "list", !.at = r]
           L == [job[p] EXCEPT !.left = @ \ {r}, !.result[r] = "skipped"]
<1>b. job' = [job EXCEPT ![p] = IF r \in known THEN K ELSE L]
  BY <1>2
<1>r. r \in Repos /\ job[p].left \ {r} \subseteq Repos
  BY <1>1
<1>3. CASE r \in known
  <2> DEFINE l == job[p].left \ {r}
             k == [job[p] EXCEPT !.left = l, !.pc = "list", !.at = r]
  <2>0. job' = [job EXCEPT ![p] = k]
    <3>1. job' = [job EXCEPT ![p] = K]
      <4> HIDE DEF K, L
      <4> QED BY <1>b, <1>3
    <3>2. K = k
      OBVIOUS
    <3> QED BY <3>1, <3>2
  <2>a. l \subseteq Repos /\ "list" \in PCs /\ r \in Repos \cup {None}
    BY <1>r DEF PCs, InRepo
  <2> HIDE DEF l
  <2>1. /\ k \in JobRecords /\ k.pc = "list" /\ k.n = job[p].n
        /\ k.todo = job[p].todo
        /\ k.left = l /\ k.at = r /\ k.result = job[p].result
        /\ k.ran = job[p].ran /\ k.failed = job[p].failed
        /\ k.aborted = job[p].aborted /\ k.status = job[p].status
    BY <1>1, <2>a DEF JobRecords
  <2> HIDE DEF k
  <2>3. job'[p] = k /\ Others(p) /\ job' \in [Plans -> JobRecords]
    BY <1>1, <2>0, <2>1 DEF Others
  <2> QED BY <1>3, <2>1, <2>3 DEF SameLog, l
<1>4. CASE r \notin known
  <2> DEFINE l == job[p].left \ {r}
             f == [job[p].result EXCEPT ![r] = "skipped"]
             k == [job[p] EXCEPT !.left = l, !.result = f]
  <2>1. job' = [job EXCEPT ![p] = k]
    <3>1. job' = [job EXCEPT ![p] = L]
      <4> HIDE DEF K, L
      <4> QED BY <1>b, <1>4
    <3>2. L = k
      OBVIOUS
    <3> QED BY <3>1, <3>2
  <2>2. f \in [Repos -> Outcomes] /\ l \subseteq Repos
    BY <1>1, <1>r DEF Outcomes
  <2> HIDE DEF f, l
  <2>3. /\ k \in JobRecords /\ k.pc = "repos" /\ k.n = job[p].n
        /\ k.todo = job[p].todo
        /\ k.left = l /\ k.at = job[p].at /\ k.result = f
        /\ k.ran = job[p].ran /\ k.failed = job[p].failed
        /\ k.aborted = job[p].aborted /\ k.status = job[p].status
    BY <1>1, <2>2 DEF JobRecords
  <2> HIDE DEF k
  <2>4. job'[p] = k /\ Others(p) /\ job' \in [Plans -> JobRecords]
    BY <1>1, <2>1, <2>3 DEF Others
  <2> QED BY <1>4, <2>3, <2>4 DEF SameLog, f, l
<1> QED BY <1>3, <1>4

\* All repositories are done: the status is decided and post_backup hooks run.
LEMMA ReposDoneFacts ==
  ASSUME Shape, NEW p \in Plans, ReposDone(p)
  PROVE  /\ job' \in [Plans -> JobRecords] /\ Others(p)
         /\ Enters(p, "post", AggregateStatus(p), On(p, "post_backup"))
<1>1. job \in [Plans -> JobRecords] /\ job[p] \in JobRecords
  BY DEF Shape
<1>2. /\ On(p, "post_backup") \subseteq Hooks
      /\ AggregateStatus(p) \in {"success", "partial", "failed"}
  BY PlanFacts DEF AggregateStatus
<1> DEFINE st == AggregateStatus(p)
           td == On(p, "post_backup")
           k == [job[p] EXCEPT !.pc = "post", !.status = st, !.todo = td]
<1>3. job' = [job EXCEPT ![p] = k]
  BY DEF ReposDone
<1> HIDE DEF st, td
<1>4. /\ k \in JobRecords /\ k.pc = "post" /\ k.n = job[p].n
      /\ k.todo = td /\ k.left = job[p].left /\ k.at = job[p].at
      /\ k.result = job[p].result
      /\ k.ran = job[p].ran /\ k.failed = job[p].failed
      /\ k.aborted = job[p].aborted /\ k.status = st
  BY <1>1, <1>2 DEF JobRecords, PCs, st, td
<1> HIDE DEF k
<1>5. job'[p] = k /\ Others(p) /\ job' \in [Plans -> JobRecords]
  BY <1>1, <1>3, <1>4 DEF Others
<1> QED BY <1>4, <1>5 DEF Enters, SameLog, SameRepos, st, td

\* The post_backup hooks are done: those of the outcome run.
LEMMA PostBackupFacts ==
  ASSUME Shape, NEW p \in Plans, PostBackupDone(p)
  PROVE  /\ job' \in [Plans -> JobRecords] /\ Others(p)
         /\ Enters(p, "notify", job[p].status, On(p, OutcomeEvent(job[p].status)))
<1>1. job \in [Plans -> JobRecords] /\ job[p] \in JobRecords
  BY DEF Shape
<1>2. On(p, OutcomeEvent(job[p].status)) \subseteq Hooks
  BY PlanFacts
<1> DEFINE td == On(p, OutcomeEvent(job[p].status))
           k == [job[p] EXCEPT !.pc = "notify", !.todo = td]
<1>3. job' = [job EXCEPT ![p] = k]
  BY DEF PostBackupDone
<1> HIDE DEF td
<1>4. /\ k \in JobRecords /\ k.pc = "notify" /\ k.n = job[p].n
      /\ k.todo = td /\ k.left = job[p].left /\ k.at = job[p].at
      /\ k.result = job[p].result
      /\ k.ran = job[p].ran /\ k.failed = job[p].failed
      /\ k.aborted = job[p].aborted /\ k.status = job[p].status
  BY <1>1, <1>2 DEF JobRecords, PCs, td
<1> HIDE DEF k
<1>5. job'[p] = k /\ Others(p) /\ job' \in [Plans -> JobRecords]
  BY <1>1, <1>3, <1>4 DEF Others
<1> QED BY <1>4, <1>5 DEF Enters, SameLog, SameRepos, td

\* A restart leaves no job.
LEMMA RestartFacts ==
  ASSUME Shape, Restart
  PROVE  /\ job' \in [Plans -> JobRecords]
         /\ \A p \in Plans :
              /\ job'[p].pc = "idle" /\ job'[p].n = job[p].n /\ job'[p].todo = {}
              /\ job'[p].left = {} /\ job'[p].at = None /\ job'[p].ran = {}
              /\ job'[p].result = [r \in Repos |-> "none"]
              /\ job'[p].failed = {} /\ job'[p].aborted = FALSE
              /\ job'[p].status = "none" /\ broke'[p] = {}
<1>1. \A p \in Plans : job[p].n \in 0..MaxRuns
  BY DEF Shape, JobRecords
<1>2. /\ job' = [p \in Plans |-> NoJob(job[p].n)]
      /\ \A p \in Plans : broke'[p] = {}
  BY DEF Restart
<1>3. \A p \in Plans : job'[p] = NoJob(job[p].n)
  BY <1>2
<1>4. job' \in [Plans -> JobRecords]
  BY <1>1, <1>2, NoJobFacts
<1> QED BY <1>1, <1>2, <1>3, <1>4, NoJobFacts

-----------------------------------------------------------------------------
\* The invariant of a job.

Early == {"idle", "pre", "repos"} \cup InRepo

\* Where the job is in its list of repositories.
Place(p) ==
  /\ job[p].left \subseteq {r \in plan[p].targets : job[p].result[r] = "none"}
  /\ job[p].at # None <=> job[p].pc \in InRepo
  /\ job[p].pc \in InRepo =>
       /\ job[p].at \in known \ job[p].left /\ job[p].at \in plan[p].targets
       /\ job[p].result[job[p].at] = "none"
  /\ job[p].pc = "forget" => plan[p].forget /\ resolveRetention(p) # Nil

\* Which results there are, what caused them, and the status they add up to.
Verdict(p) ==
  /\ job[p].status = "none" <=> job[p].pc \in Early
  /\ job[p].pc \in {"idle", "pre"} => \A r \in Repos : job[p].result[r] = "none"
  /\ job[p].pc \in {"repos"} \cup InRepo =>
       \A r \in plan[p].targets :
         job[p].result[r] = "none" => r \in job[p].left \/ r = job[p].at
  /\ job[p].pc \in {"post", "notify", "over"} /\ ~job[p].aborted =>
       /\ \A r \in plan[p].targets : job[p].result[r] # "none"
       /\ job[p].status = AggregateStatus(p)
  /\ job[p].pc \in {"notify", "over"} /\ job[p].aborted =>
       job[p].status = "failed" /\ \A r \in Repos : job[p].result[r] = "none"
  /\ \A r \in Repos :
       /\ job[p].result[r] # "none" => r \in plan[p].targets
       /\ job[p].result[r] = "skipped" => r \notin known
       /\ job[p].result[r] = "failed" => broke[p] # {}

\* Where the job begins and ends, and what aborted means.
Halts(p) ==
  /\ IF job[p].pc = "idle" THEN job[p].ran = {} /\ ~job[p].aborted ELSE job[p].n > 0
  /\ job[p].pc = "over" => job[p].todo = {}
  /\ job[p].pc \in {"repos", "post"} \cup InRepo => ~job[p].aborted
  /\ job[p].aborted <=>
       \E h \in job[p].failed : h.event = "pre_backup" /\ Aborts(h)

\* The event whose hooks run, or ran last.
Phase(p) ==
  CASE job[p].pc = "pre"  -> "pre_backup"
    [] job[p].pc = "post" -> "post_backup"
    [] job[p].pc \in {"notify", "over"} -> OutcomeEvent(job[p].status)
    [] OTHER -> "none"

\* The hooks of an event are those that ran and those that are to run, unless
\* one that aborts failed; so are the post_backup hooks once they are past.
HooksSound(p) ==
  /\ job[p].failed \subseteq job[p].ran /\ job[p].ran \subseteq plan[p].hooks
  /\ job[p].todo \subseteq On(p, Phase(p)) /\ job[p].todo \cap job[p].ran = {}
  /\ \/ /\ On(p, Phase(p)) \subseteq job[p].ran \cup job[p].todo
        /\ \/ job[p].todo = {}
           \/ \A g \in On(p, Phase(p)) \cap job[p].failed : ~Aborts(g)
     \/ /\ job[p].todo = {}
        /\ \E h \in On(p, Phase(p)) \cap job[p].failed : Aborts(h)
  /\ \A h \in job[p].ran :
       \/ h.event = "pre_backup"
       \/ h.event = "post_backup" /\ job[p].pc \in {"post", "notify", "over"}
                                  /\ ~job[p].aborted
       \/ h.event = Phase(p)
  /\ job[p].pc \in {"notify", "over"} /\ ~job[p].aborted =>
       \/ On(p, "post_backup") \subseteq job[p].ran
       \/ \E h \in On(p, "post_backup") \cap job[p].failed : Aborts(h)
  /\ \A h \in job[p].ran : \A g \in On(p, h.event) :
       g.order < h.order => g \in job[p].ran /\ ~(g \in job[p].failed /\ Aborts(g))

JobSound(p) == Place(p) /\ Verdict(p) /\ Halts(p) /\ HooksSound(p)

\* The status that aggregateStatus gives depends on the results only.
LEMMA StatusSame ==
  ASSUME NEW p, job'[p].result = job[p].result
  PROVE  AggregateStatus(p)' = AggregateStatus(p)
BY DEF AggregateStatus, Results

\* A job that a step does not touch.
LEMMA Untouched ==
  ASSUME NEW p \in Plans, JobSound(p), UNCHANGED config,
         job'[p] = job[p], broke'[p] = broke[p]
  PROVE  JobSound(p)'
<1>1. /\ plan' = plan /\ known' = known
      /\ AggregateStatus(p)' = AggregateStatus(p)
      /\ Phase(p)' = Phase(p) /\ resolveRetention(p)' = resolveRetention(p)
      /\ \A e : On(p, e)' = On(p, e)
  BY StatusSame DEF config, Phase, resolveRetention, On
<1>2. Place(p)' /\ Halts(p)'
  BY <1>1 DEF JobSound, Place, Halts
<1>3. Verdict(p)'
  BY <1>1 DEF JobSound, Verdict
<1>4. HooksSound(p)'
  BY <1>1 DEF JobSound, HooksSound, On
<1> QED BY <1>2, <1>3, <1>4 DEF JobSound

\* A job that goes on with the repository it is at, or ends.
LEMMA MoveKeeps ==
  ASSUME NEW p \in Plans, JobSound(p), UNCHANGED config, NEW pc \in PCs,
         Moves(p, pc), broke'[p] = broke[p],
         \/ /\ job[p].pc \in InRepo /\ pc \in InRepo
            /\ pc = "forget" => plan[p].forget /\ resolveRetention(p) # Nil
         \/ job[p].pc = "notify" /\ job[p].todo = {} /\ pc = "over"
  PROVE  JobSound(p)'
<1>1. /\ plan' = plan /\ known' = known
      /\ AggregateStatus(p)' = AggregateStatus(p)
      /\ resolveRetention(p)' = resolveRetention(p)
  BY StatusSame DEF config, resolveRetention, Moves, SameRepos
<1>2. Phase(p)' = Phase(p)
  BY DEF Phase, Moves, InRepo
<1>3. Place(p)' /\ Halts(p)'
  BY <1>1 DEF JobSound, Place, Halts, Moves, SameRepos, SameLog, InRepo
<1>4. Verdict(p)'
  BY <1>1 DEF JobSound, Verdict, Moves, SameRepos, SameLog, InRepo, Early
<1>5. HooksSound(p)'
  BY <1>1, <1>2 DEF JobSound, HooksSound, On, Moves, SameRepos, SameLog, InRepo
<1> QED BY <1>3, <1>4, <1>5 DEF JobSound

\* A job that has done with a repository.
LEMMA LeaveKeeps ==
  ASSUME Shape, NEW p \in Plans, JobSound(p), UNCHANGED config,
         NEW res \in {"success", "failed"}, Leaves(p, res), job[p].pc \in InRepo,
         broke[p] \subseteq broke'[p], res = "failed" => broke'[p] # {}
  PROVE  JobSound(p)'
<1>1. plan' = plan /\ known' = known
  BY DEF config
<1>2. /\ job[p].result \in [Repos -> Outcomes] /\ job[p].at \in Repos
      /\ plan[p].targets \subseteq Repos
  BY PlanFacts, BackupJobAssumption DEF Shape, JobRecords, JobSound, Place
<1>3. \A r \in Repos : job'[p].result[r] = IF r = job[p].at THEN res
                                           ELSE job[p].result[r]
  BY <1>2 DEF Leaves
<1>4. Phase(p)' = Phase(p)
  BY DEF Phase, Leaves, InRepo
<1>5. Place(p)'
  BY <1>1, <1>2, <1>3 DEF JobSound, Place, Leaves, InRepo
<1>6. Verdict(p)'
  BY <1>1, <1>2, <1>3
  DEF JobSound, Verdict, Halts, Place, Leaves, SameLog, InRepo, Early
<1>7. Halts(p)'
  BY <1>1 DEF JobSound, Halts, Leaves, SameLog, InRepo
<1>8. HooksSound(p)'
  BY <1>1, <1>4 DEF JobSound, HooksSound, On, Leaves, SameLog, InRepo
<1> QED BY <1>5, <1>6, <1>7, <1>8 DEF JobSound

\* A job that does not exist yet, or no more.
LEMMA StartKeeps ==
  ASSUME Shape, NEW p \in Plans, StartJob(p)
  PROVE  JobSound(p)'
<1>1. plan' = plan /\ known' = known
  BY DEF StartJob, config
<1>2. \A r \in Repos : job'[p].result[r] = "none"
  BY StartFacts
<1>3. Phase(p)' = "pre_backup" /\ job'[p].todo = On(p, "pre_backup")
      /\ On(p, "pre_backup")' = On(p, "pre_backup")
      /\ job'[p].pc = "pre" /\ job'[p].ran = {}
      /\ job'[p].failed = {} /\ job'[p].aborted = FALSE
      /\ job'[p].status = "none" /\ job'[p].left = {} /\ job'[p].at = None
  BY <1>1, StartFacts DEF Phase, On
<1>n. job'[p].n > 0
  <2>1. job'[p].n = job[p].n + 1 /\ job[p].n \in Nat
    BY StartFacts
  <2> QED BY <2>1
<1>4. Place(p)' /\ Halts(p)'
  BY <1>1, <1>2, <1>3, <1>n DEF Place, Halts, InRepo
<1>5. Verdict(p)'
  BY <1>1, <1>2, <1>3 DEF Verdict, InRepo, Early
<1>6. HooksSound(p)'
  BY <1>1, <1>3 DEF HooksSound
<1> QED BY <1>4, <1>5, <1>6 DEF JobSound

\* A process that starts again has no job, and no failure of one.
LEMMA RestartKeeps ==
  ASSUME Shape, NEW p \in Plans, Restart
  PROVE  JobSound(p)'
<1>1. plan' = plan /\ known' = known
  BY DEF Restart, config
<1>2. \A r \in Repos : job'[p].result[r] = "none"
  BY RestartFacts
<1>3. job'[p].pc = "idle" /\ job'[p].ran = {} /\ job'[p].todo = {}
      /\ job'[p].failed = {} /\ job'[p].aborted = FALSE
      /\ job'[p].status = "none" /\ job'[p].left = {} /\ job'[p].at = None
  BY RestartFacts
<1>4. Phase(p)' = "none" /\ On(p, "none")' = {}
  <2>1. Phase(p)' = "none"
    BY <1>3 DEF Phase
  <2>2. \A h \in plan[p].hooks : h.event \in Events
    BY PlanFacts DEF Hooks
  <2> QED BY <1>1, <2>1, <2>2 DEF On, Events
<1>5. Place(p)' /\ Halts(p)'
  BY <1>1, <1>2, <1>3 DEF Place, Halts, InRepo
<1>6. Verdict(p)'
  BY <1>1, <1>2, <1>3 DEF Verdict, InRepo, Early
<1>7. HooksSound(p)'
  BY <1>1, <1>3, <1>4 DEF HooksSound
<1> QED BY <1>5, <1>6, <1>7 DEF JobSound

\* Opening or skipping a repository keeps a job sound.
LEMMA NextRepoKeeps ==
  ASSUME Shape, NEW p \in Plans, JobSound(p), NextRepo(p)
  PROVE  JobSound(p)'
<1>1. plan' = plan /\ known' = known /\ broke' = broke
  BY DEF NextRepo, config
<1>2. PICK r \in job[p].left :
        /\ job'[p].left = job[p].left \ {r}
        /\ \/ /\ r \in known /\ job'[p].pc = "list" /\ job'[p].at = r
              /\ job'[p].result = job[p].result
           \/ /\ r \notin known /\ job'[p].pc = "repos"
              /\ job'[p].at = job[p].at
              /\ job'[p].result = [job[p].result EXCEPT ![r] = "skipped"]
  BY NextRepoFacts
<1>3. /\ job'[p].todo = job[p].todo /\ job'[p].status = job[p].status
      /\ SameLog(p) /\ job[p].pc = "repos"
  BY NextRepoFacts DEF NextRepo
<1>4. /\ job[p].result \in [Repos -> Outcomes] /\ r \in Repos /\ r # None
      /\ plan[p].targets \subseteq Repos
      /\ r \in plan[p].targets /\ job[p].result[r] = "none" /\ job[p].at = None
  BY PlanFacts, BackupJobAssumption, <1>3 DEF Shape, JobRecords, JobSound, Place, InRepo
<1>5. Phase(p)' = Phase(p)
  BY <1>2, <1>3 DEF Phase
<1>6. Halts(p)'
  BY <1>2, <1>3 DEF JobSound, Halts, SameLog, InRepo
<1>7. HooksSound(p)'
  BY <1>1, <1>2, <1>3, <1>5 DEF JobSound, HooksSound, On, SameLog
<1>8. CASE r \in known
  <2>0. /\ job'[p].pc = "list" /\ job'[p].at = r /\ job'[p].left = job[p].left \ {r}
        /\ job'[p].result = job[p].result
    BY <1>2, <1>8
  <2>1. Place(p)'
    BY <1>1, <1>3, <1>4, <1>8, <2>0 DEF JobSound, Place, InRepo
  <2>2. Verdict(p)'
    <3>1. Verdict(p) /\ job[p].pc = "repos" /\ job'[p].status = job[p].status
      BY <1>3 DEF JobSound
    <3>2. \A q \in plan[p].targets :
            job[p].result[q] = "none" => q \in job'[p].left \/ q = r
      BY <1>4, <2>0, <3>1, BackupJobAssumption DEF Verdict
    <3> QED BY <1>1, <2>0, <3>1, <3>2 DEF Verdict, InRepo, Early
  <2> QED BY <1>6, <1>7, <2>1, <2>2 DEF JobSound
<1>9. CASE r \notin known
  <2>1. \A q \in Repos : job'[p].result[q] = IF q = r THEN "skipped"
                                             ELSE job[p].result[q]
    BY <1>2, <1>4, <1>9
  <2>2. Place(p)'
    BY <1>1, <1>2, <1>3, <1>4, <1>9, <2>1 DEF JobSound, Place, InRepo
  <2>3. Verdict(p)'
    BY <1>1, <1>2, <1>3, <1>4, <1>9, <2>1
    DEF JobSound, Verdict, Halts, SameLog, InRepo, Early
  <2> QED BY <1>6, <1>7, <2>2, <2>3 DEF JobSound
<1> QED BY <1>8, <1>9

\* The hooks of a phase that begins: none of them has run.
LEMMA PreBackupKeeps ==
  ASSUME Shape, NEW p \in Plans, JobSound(p), PreBackupDone(p)
  PROVE  JobSound(p)'
<1>1. plan' = plan /\ known' = known /\ broke' = broke
  BY DEF PreBackupDone, config
<1>2. job[p].pc = "pre" /\ job[p].todo = {}
  BY DEF PreBackupDone
<1>3. Phase(p) = "pre_backup"
  BY <1>2 DEF Phase
<1>4. \A e : On(p, e)' = On(p, e)
  BY <1>1 DEF On
<1>5. /\ \A h \in job[p].ran : h.event = "pre_backup"
      /\ job[p].at = None /\ job[p].status = "none"
      /\ \A r \in Repos : job[p].result[r] = "none"
  <2>1. \A h \in job[p].ran : h.event = "pre_backup"
    BY <1>2, <1>3 DEF JobSound, HooksSound
  <2>2. plan[p].targets \subseteq Repos
    BY PlanFacts
  <2> QED BY <1>2, <2>1, <2>2 DEF JobSound, Place, Verdict, InRepo, Early
<1>6. CASE /\ job[p].aborted
           /\ Enters(p, "notify", "failed", On(p, "on_failure"))
  <2>1. Phase(p)' = "on_failure"
    BY <1>6 DEF Phase, Enters, OutcomeEvent
  <2>2. Place(p)' /\ Halts(p)'
    BY <1>1, <1>2, <1>5, <1>6 DEF JobSound, Place, Halts, Enters, SameLog, SameRepos, InRepo
  <2>3. Verdict(p)'
    BY <1>1, <1>2, <1>5, <1>6
    DEF JobSound, Verdict, Enters, SameLog, SameRepos, InRepo, Early
  <2>4. HooksSound(p)'
    BY <1>1, <1>4, <1>5, <1>6, <2>1
    DEF JobSound, HooksSound, On, Enters, SameLog
  <2> QED BY <2>2, <2>3, <2>4 DEF JobSound
<1>7. CASE /\ ~job[p].aborted
           /\ job'[p].pc = "repos" /\ job'[p].todo = job[p].todo
           /\ job'[p].status = job[p].status /\ SameLog(p)
           /\ job'[p].left = plan[p].targets
           /\ job'[p].at = job[p].at /\ job'[p].result = job[p].result
  <2>0. plan[p].targets \subseteq Repos
    BY PlanFacts
  <2>1. Phase(p)' = "none" /\ On(p, "none") = {}
    <3>1. Phase(p)' = "none"
      BY <1>7 DEF Phase
    <3>2. \A h \in plan[p].hooks : h.event \in Events
      BY PlanFacts DEF Hooks
    <3> QED BY <3>1, <3>2 DEF On, Events
  <2>2. Place(p)' /\ Halts(p)'
    BY <1>1, <1>2, <1>5, <1>7, <2>0 DEF JobSound, Place, Halts, SameLog, InRepo
  <2>3. Verdict(p)'
    BY <1>1, <1>2, <1>5, <1>7, <2>0 DEF JobSound, Verdict, SameLog, InRepo, Early
  <2>4. HooksSound(p)'
    BY <1>1, <1>2, <1>4, <1>5, <1>7, <2>1 DEF JobSound, HooksSound, On, SameLog
  <2> QED BY <2>2, <2>3, <2>4 DEF JobSound
<1> QED BY <1>6, <1>7, PreBackupFacts

\* Deciding the status keeps a job sound.
LEMMA ReposDoneKeeps ==
  ASSUME Shape, NEW p \in Plans, JobSound(p), ReposDone(p)
  PROVE  JobSound(p)'
<1>1. plan' = plan /\ known' = known /\ broke' = broke
  BY DEF ReposDone, config
<1>2. job[p].pc = "repos" /\ job[p].left = {} /\ job[p].at = None
  BY DEF ReposDone, JobSound, Place, InRepo
<1>3. Enters(p, "post", AggregateStatus(p), On(p, "post_backup"))
  BY ReposDoneFacts
<1>4. /\ AggregateStatus(p) \in {"success", "partial", "failed"}
      /\ AggregateStatus(p)' = AggregateStatus(p)
      /\ \A e : On(p, e)' = On(p, e)
  BY <1>1, <1>3, StatusSame DEF AggregateStatus, On, Enters, SameRepos
<1>5. Phase(p)' = "post_backup" /\ Phase(p) = "none"
  BY <1>2, <1>3 DEF Phase, Enters
<1>6. plan[p].targets \subseteq Repos /\ \A h \in plan[p].hooks : h.event \in Events
  BY PlanFacts DEF Hooks
<1>7. \A h \in job[p].ran : h.event = "pre_backup"
  BY <1>2, <1>5, <1>6 DEF JobSound, HooksSound, Events
<1>8. Place(p)' /\ Halts(p)'
  BY <1>1, <1>2, <1>3 DEF JobSound, Place, Halts, Enters, SameLog, SameRepos, InRepo
<1>9. Verdict(p)'
  BY <1>1, <1>2, <1>3, <1>4, <1>6, BackupJobAssumption
  DEF JobSound, Verdict, Halts, Enters, SameLog, SameRepos, InRepo, Early
<1>10. HooksSound(p)'
  BY <1>1, <1>3, <1>4, <1>5, <1>7 DEF JobSound, HooksSound, On, Enters, SameLog
<1> QED BY <1>8, <1>9, <1>10 DEF JobSound

\* Going on to the hooks of the outcome keeps a job sound.
LEMMA PostBackupKeeps ==
  ASSUME Shape, NEW p \in Plans, JobSound(p), PostBackupDone(p)
  PROVE  JobSound(p)'
<1>1. plan' = plan /\ known' = known /\ broke' = broke
  BY DEF PostBackupDone, config
<1>2. job[p].pc = "post" /\ job[p].todo = {}
  BY DEF PostBackupDone
<1> DEFINE e == OutcomeEvent(job[p].status)
<1>3. Enters(p, "notify", job[p].status, On(p, e))
  BY PostBackupFacts
<1>4. /\ AggregateStatus(p)' = AggregateStatus(p)
      /\ \A x : On(p, x)' = On(p, x)
  BY <1>1, <1>3, StatusSame DEF On, Enters, SameRepos
<1>5. Phase(p)' = e /\ Phase(p) = "post_backup" /\ e \in {"on_success", "on_failure"}
  BY <1>2, <1>3 DEF Phase, Enters, OutcomeEvent
<1>6. \A h \in job[p].ran : h.event \in {"pre_backup", "post_backup"}
  BY <1>2, <1>5 DEF JobSound, HooksSound
<1>7. Place(p)' /\ Halts(p)'
  BY <1>1, <1>2, <1>3 DEF JobSound, Place, Halts, Enters, SameLog, SameRepos, InRepo
<1>8. Verdict(p)'
  BY <1>1, <1>2, <1>3, <1>4
  DEF JobSound, Verdict, Halts, Enters, SameLog, SameRepos, InRepo, Early
<1> HIDE DEF e
<1>9. HooksSound(p)'
  BY <1>1, <1>2, <1>3, <1>4, <1>5, <1>6 DEF JobSound, HooksSound, Halts, On, Enters, SameLog
<1> QED BY <1>7, <1>8, <1>9 DEF JobSound

\* Whichever on_error wins, a hook aborts the job when the one of the hook says
\* so, or, where it is unset, the one of the script.
LEMMA AbortSetting ==
  ASSUME NEW h \in Hooks
  PROVE  Aborts(h) <=> ResolvedOnError(h) = "abort"
<1>1. h.own \in {"unset", "continue", "abort"} /\ h.script \in {"inline", "continue", "abort"}
  BY DEF Hooks
<1> QED BY <1>1 DEF Aborts, ResolvedOnError

\* A hook keeps a job sound, whether it succeeds, fails or aborts.
LEMMA HookKeeps ==
  ASSUME Shape, NEW p \in Plans, JobSound(p), RunHook(p)
  PROVE  JobSound(p)'
<1>1. /\ plan' = plan /\ known' = known /\ broke' = broke
      /\ job[p].pc \in {"pre", "post", "notify"}
  BY DEF RunHook, config
<1>2. PICK h \in First(job[p].todo) : HookRan(p, h)
  BY HookFacts
<1>3. /\ job'[p].pc = job[p].pc /\ job'[p].n = job[p].n
      /\ job'[p].status = job[p].status
      /\ SameRepos(p) /\ job'[p].ran = job[p].ran \cup {h}
  BY <1>2 DEF HookRan
<1>4. /\ AggregateStatus(p)' = AggregateStatus(p) /\ Phase(p)' = Phase(p)
      /\ \A e : On(p, e)' = On(p, e)
      /\ resolveRetention(p)' = resolveRetention(p)
  BY <1>1, <1>3, StatusSame DEF On, Phase, SameRepos, resolveRetention
<1>5. /\ h \in job[p].todo /\ \A g \in job[p].todo : h.order <= g.order
      /\ h \in plan[p].hooks /\ h.event = Phase(p) /\ h \notin job[p].ran
  BY <1>2 DEF First, JobSound, HooksSound, On
<1>6. /\ h \in Hooks /\ h.order \in Nat
      /\ \A g \in plan[p].hooks : g \in Hooks /\ g.order \in Nat
      /\ job[p].aborted \in BOOLEAN
  BY <1>5, PlanFacts DEF Hooks, Shape, JobRecords
<1>7. Aborts(h) <=> ResolvedOnError(h) = "abort"
  BY <1>6, AbortSetting
<1>8. /\ job[p].pc = "pre" <=> h.event = "pre_backup"
      /\ h.event \in {"pre_backup", "post_backup", "on_success", "on_failure"}
  BY <1>1, <1>5 DEF Phase, OutcomeEvent
<1>9. /\ job'[p].pc = "post" => ~job'[p].aborted
      /\ job'[p].pc # "pre" => job'[p].aborted = job[p].aborted
  <2>1. job'[p].aborted \in BOOLEAN
    BY HookFacts DEF JobRecords
  <2>2. job[p].pc # "pre" => job'[p].aborted = job[p].aborted
    BY <1>2, <1>6, <2>1 DEF HookRan
  <2> QED BY <1>3, <2>2 DEF JobSound, Halts
<1>10. Place(p)'
  BY <1>1, <1>3, <1>4 DEF JobSound, Place, SameRepos, InRepo
<1>11. Verdict(p)'
  BY <1>1, <1>3, <1>4, <1>9 DEF JobSound, Verdict, SameRepos, InRepo, Early
<1>12. Halts(p)'
  <2>1. job'[p].aborted <=>
          \E g \in job'[p].failed : g.event = "pre_backup" /\ Aborts(g)
    <3>1. job[p].aborted <=>
            \E g \in job[p].failed : g.event = "pre_backup" /\ Aborts(g)
      BY DEF JobSound, Halts
    <3> QED BY <1>1, <1>2, <1>7, <1>8, <3>1 DEF HookRan
  <2>2. job[p].pc # "idle" /\ job[p].pc # "over" /\ job[p].n > 0
    BY <1>1 DEF JobSound, Halts
  <2> QED BY <1>1, <1>3, <1>9, <2>1, <2>2 DEF Halts, InRepo
<1>13. HooksSound(p)'
  <2>1. /\ job'[p].failed \subseteq job'[p].ran /\ job'[p].ran \subseteq plan[p].hooks
        /\ job'[p].todo \subseteq On(p, Phase(p)) /\ job'[p].todo \cap job'[p].ran = {}
    BY <1>2, <1>3, <1>5 DEF JobSound, HooksSound, HookRan
  <2>2. /\ On(p, Phase(p)) \subseteq job[p].ran \cup job[p].todo
        /\ \A g \in On(p, Phase(p)) \cap job[p].failed : ~Aborts(g)
    BY <1>5 DEF JobSound, HooksSound
  <2>3. h \in On(p, Phase(p))
    BY <1>5 DEF On
  <2>4. \/ /\ On(p, Phase(p)) \subseteq job'[p].ran \cup job'[p].todo
           /\ \A g \in On(p, Phase(p)) \cap job'[p].failed : ~Aborts(g)
        \/ /\ job'[p].todo = {}
           /\ \E g \in On(p, Phase(p)) \cap job'[p].failed : Aborts(g)
    BY <1>2, <1>7, <2>2, <2>3 DEF HookRan
  <2>5. \A k \in job'[p].ran :
          \/ k.event = "pre_backup"
          \/ k.event = "post_backup" /\ job'[p].pc \in {"post", "notify", "over"}
                                     /\ ~job'[p].aborted
          \/ k.event = Phase(p)
    <3>1. \A k \in job[p].ran :
            \/ k.event = "pre_backup"
            \/ k.event = "post_backup" /\ job[p].pc \in {"post", "notify", "over"}
                                       /\ ~job[p].aborted
            \/ k.event = Phase(p)
      BY DEF JobSound, HooksSound
    <3> QED BY <1>3, <1>5, <1>9, <3>1
  <2>6. \A k \in job'[p].ran : \A g \in On(p, k.event) :
          g.order < k.order => g \in job'[p].ran /\ ~(g \in job'[p].failed /\ Aborts(g))
    <3>1. ASSUME NEW g \in On(p, h.event), g.order < h.order
          PROVE  g \in job[p].ran /\ g # h /\ ~(g \in job[p].failed /\ Aborts(g))
      <4>1. g \in On(p, Phase(p)) /\ g \in Hooks /\ g.order \in Nat
        BY <1>5, <1>6, <3>1 DEF On
      <4>2. g \notin job[p].todo /\ g # h
        BY <1>5, <1>6, <3>1, <4>1
      <4> QED BY <2>2, <4>1, <4>2
    <3>2. ASSUME NEW k \in job[p].ran, NEW g \in On(p, k.event), g.order < k.order
          PROVE  g \in job[p].ran /\ g # h /\ ~(g \in job[p].failed /\ Aborts(g))
      BY <1>5, <3>2 DEF JobSound, HooksSound
    <3>3. job'[p].failed \subseteq job[p].failed \cup {h}
      BY <1>2 DEF HookRan
    <3>4. ASSUME NEW k \in job'[p].ran, NEW g \in On(p, k.event), g.order < k.order
          PROVE  g \in job'[p].ran /\ ~(g \in job'[p].failed /\ Aborts(g))
      <4>1. CASE k = h
        BY <1>3, <3>1, <3>3, <3>4, <4>1
      <4>2. CASE k \in job[p].ran
        BY <1>3, <3>2, <3>3, <3>4, <4>2
      <4> QED BY <1>3, <4>1, <4>2
    <3> QED BY <3>4
  <2>7. \A e : On(p, e)' = On(p, e)
    BY <1>4
  <2>8. job'[p].pc \in {"notify", "over"} /\ ~job'[p].aborted =>
          \/ On(p, "post_backup") \subseteq job'[p].ran
          \/ \E g \in On(p, "post_backup") \cap job'[p].failed : Aborts(g)
    <3>1. job[p].failed \subseteq job'[p].failed
      BY <1>2 DEF HookRan
    <3> SUFFICES ASSUME job[p].pc = "notify", ~job[p].aborted
                 PROVE  \/ On(p, "post_backup") \subseteq job'[p].ran
                        \/ \E g \in On(p, "post_backup") \cap job'[p].failed : Aborts(g)
      BY <1>1, <1>3, <1>9
    <3>2. \/ On(p, "post_backup") \subseteq job[p].ran
          \/ \E g \in On(p, "post_backup") \cap job[p].failed : Aborts(g)
      BY DEF JobSound, HooksSound
    <3> QED BY <1>3, <3>1, <3>2
  <2> QED BY <1>1, <1>4, <2>1, <2>4, <2>5, <2>6, <2>7, <2>8 DEF HooksSound
<1> QED BY <1>10, <1>11, <1>12, <1>13 DEF JobSound

-----------------------------------------------------------------------------
\* The steps.

Steps(p) ==
  \/ StartJob(p) \/ RunHook(p) \/ PreBackupDone(p) \/ NextRepo(p)
  \/ ListSnapshots(p) \/ InitRepo(p) \/ Backup(p) \/ Forget(p) \/ Prune(p)
  \/ ReposDone(p) \/ PostBackupDone(p) \/ ReturnReport(p)

\* A step that runs a command in the repository the job is at, or returns.
LEMMA CommandFacts ==
  ASSUME Shape, NEW p \in Plans, JobSound(p),
         \/ ListSnapshots(p) \/ InitRepo(p) \/ Backup(p) \/ Forget(p) \/ Prune(p)
         \/ ReturnReport(p)
  PROVE  /\ job' \in [Plans -> JobRecords] /\ Others(p) /\ JobSound(p)'
         /\ \A q \in Plans : q # p => broke'[q] = broke[q]
         /\ broke' \in [Plans -> SUBSET Repos]
<1>1. /\ plan' = plan /\ known' = known /\ UNCHANGED config
      /\ broke \in [Plans -> SUBSET Repos]
  BY DEF ListSnapshots, InitRepo, Backup, Forget, Prune, ReturnReport, config, Shape
<1>2. job[p].pc \in InRepo => job[p].at \in Repos
  BY PlanFacts DEF JobSound, Place
<1>3. ASSUME NEW pc \in PCs, Goto(p, pc), broke' = broke,
             \/ /\ job[p].pc \in InRepo /\ pc \in InRepo
                /\ pc = "forget" => plan[p].forget /\ resolveRetention(p) # Nil
             \/ job[p].pc = "notify" /\ job[p].todo = {} /\ pc = "over"
      PROVE  job' \in [Plans -> JobRecords] /\ Others(p) /\ JobSound(p)'
  BY <1>1, <1>3, GotoFacts, MoveKeeps
<1>4. ASSUME RepoDone(p, "success"), broke' = broke, job[p].pc \in InRepo
      PROVE  job' \in [Plans -> JobRecords] /\ Others(p) /\ JobSound(p)'
  <2>1. job' \in [Plans -> JobRecords] /\ Others(p) /\ Leaves(p, "success")
    BY <1>4, RepoDoneFacts DEF Outcomes
  <2> QED BY <1>1, <1>4, <2>1, LeaveKeeps
<1>5. ASSUME RepoDone(p, "failed"), Breaks(p), job[p].pc \in InRepo
      PROVE  /\ job' \in [Plans -> JobRecords] /\ Others(p) /\ JobSound(p)'
             /\ broke' \in [Plans -> SUBSET Repos]
             /\ \A q \in Plans : q # p => broke'[q] = broke[q]
  <2>1. job' \in [Plans -> JobRecords] /\ Others(p) /\ Leaves(p, "failed")
    BY <1>5, RepoDoneFacts DEF Outcomes
  <2>2. /\ broke'[p] = broke[p] \cup {job[p].at}
        /\ broke' \in [Plans -> SUBSET Repos]
        /\ \A q \in Plans : q # p => broke'[q] = broke[q]
    BY <1>1, <1>2, <1>5 DEF Breaks
  <2> QED BY <1>1, <1>5, <2>1, <2>2, LeaveKeeps
<1>6. CASE ListSnapshots(p)
  <2>1. broke' = broke /\ job[p].pc \in InRepo /\ (Goto(p, "backup") \/ Goto(p, "init"))
    BY <1>6 DEF ListSnapshots, InRepo
  <2> QED BY <1>1, <1>3, <2>1 DEF InRepo, PCs
<1>7. CASE InitRepo(p)
  <2>1. /\ job[p].pc \in InRepo
        /\ \/ Goto(p, "backup") /\ broke' = broke
           \/ RepoDone(p, "failed") /\ Breaks(p)
    BY <1>7 DEF InitRepo, InRepo, Settles
  <2> QED BY <1>1, <1>3, <1>5, <2>1 DEF InRepo, PCs
<1>8. CASE Backup(p)
  <2>1. /\ job[p].pc \in InRepo
        /\ \/ /\ Goto(p, "forget") /\ broke' = broke
              /\ plan[p].forget /\ resolveRetention(p) # Nil
           \/ RepoDone(p, "success") /\ broke' = broke
           \/ RepoDone(p, "failed") /\ Breaks(p)
    BY <1>8 DEF Backup, InRepo
  <2> QED BY <1>1, <1>3, <1>4, <1>5, <2>1 DEF InRepo, PCs
<1>9. CASE Forget(p)
  <2>1. /\ job[p].pc \in InRepo /\ broke' = broke
        /\ Goto(p, "prune") \/ RepoDone(p, "success")
    BY <1>9 DEF Forget, InRepo
  <2> QED BY <1>1, <1>3, <1>4, <2>1 DEF InRepo, PCs
<1>10. CASE Prune(p)
  BY <1>1, <1>4, <1>10 DEF Prune, InRepo
<1>11. CASE ReturnReport(p)
  <2>1. /\ job[p].pc = "notify" /\ job[p].todo = {} /\ broke' = broke
        /\ Goto(p, "over")
    BY <1>11 DEF ReturnReport
  <2> QED BY <1>1, <1>3, <2>1 DEF PCs
<1> QED BY <1>6, <1>7, <1>8, <1>9, <1>10, <1>11

\* Whatever one job does leaves the records of the others alone.
LEMMA StepFacts ==
  ASSUME Shape, NEW p \in Plans, JobSound(p), Steps(p)
  PROVE  /\ job' \in [Plans -> JobRecords] /\ Others(p) /\ JobSound(p)'
         /\ \A q \in Plans : q # p => broke'[q] = broke[q]
         /\ broke' \in [Plans -> SUBSET Repos]
         /\ UNCHANGED config
<1>1. CASE \/ ListSnapshots(p) \/ InitRepo(p) \/ Backup(p) \/ Forget(p) \/ Prune(p)
           \/ ReturnReport(p)
  <2>1. UNCHANGED config
    BY <1>1 DEF ListSnapshots, InitRepo, Backup, Forget, Prune, ReturnReport, config
  <2> QED BY <1>1, <2>1, CommandFacts
<1>2. CASE StartJob(p)
  <2>1. /\ UNCHANGED config /\ broke' = [broke EXCEPT ![p] = {}]
        /\ broke \in [Plans -> SUBSET Repos]
    BY <1>2 DEF StartJob, Shape
  <2> QED BY <1>2, <2>1, StartFacts, StartKeeps
<1>3. CASE RunHook(p) \/ PreBackupDone(p) \/ NextRepo(p) \/ ReposDone(p)
             \/ PostBackupDone(p)
  <2>1. UNCHANGED config /\ broke' = broke /\ broke \in [Plans -> SUBSET Repos]
    BY <1>3 DEF RunHook, PreBackupDone, NextRepo, ReposDone, PostBackupDone, Shape
  <2> QED BY <1>3, <2>1, HookFacts, HookKeeps, PreBackupFacts, PreBackupKeeps,
             NextRepoFacts, NextRepoKeeps, ReposDoneFacts, ReposDoneKeeps,
             PostBackupFacts, PostBackupKeeps
<1> QED BY <1>1, <1>2, <1>3 DEF Steps

JobsSound == \A p \in Plans : JobSound(p)

\* Every step keeps every job sound.
LEMMA JobsStep ==
  ASSUME Shape, JobsSound, [Next]_vars
  PROVE  JobsSound'
<1> SUFFICES ASSUME NEW q \in Plans PROVE JobSound(q)'
  BY DEF JobsSound
<1>1. JobSound(q)
  BY DEF JobsSound
<1>2. ASSUME NEW p \in Plans, Steps(p)
      PROVE  JobSound(q)'
  <2>1. JobSound(p)
    BY DEF JobsSound
  <2> QED BY <1>1, <1>2, <2>1, StepFacts, Untouched DEF Others
<1>3. CASE Stop \/ UNCHANGED vars
  BY <1>1, <1>3, Untouched DEF Stop, vars, config
<1>4. CASE Restart
  BY <1>4, RestartKeeps
<1> QED BY <1>2, <1>3, <1>4 DEF Next, Steps

-----------------------------------------------------------------------------
\* The invariant of the repositories.

SnapsSound ==
  /\ \A r \in Repos : snaps[r] \subseteq taken[r]
  /\ \A r \in Repos : \A s \in taken[r] :
       s.n <= job[s.plan].n /\ r \in plan[s.plan].targets
  /\ \A p \in Plans, r \in Repos :
       job[p].pc = "pre" \/ job[p].aborted => Own(p) \notin taken[r]
  /\ \A p \in Plans, r \in Repos :
       \/ job[p].result[r] = "success"
       \/ job[p].pc \in {"forget", "prune"} /\ job[p].at = r
       => Own(p) \in snaps[r]

\* The snapshot that a job makes has its type.
LEMMA OwnIsSnapshot ==
  ASSUME Shape, NEW p \in Plans, JobSound(p), job[p].pc # "idle"
  PROVE  Own(p) \in Snapshots
<1>1. job[p].n \in 0..MaxRuns /\ job[p].n > 0
  BY DEF Shape, JobRecords, JobSound, Halts
<1>2. job[p].n \in 1..MaxRuns
  BY <1>1
<1> QED BY <1>2 DEF Own, Snapshots

\* A backup adds the job's snapshot to its repository, and to no other.
LEMMA AddFacts ==
  ASSUME Shape, NEW p \in Plans, JobSound(p), job[p].pc \in InRepo,
         NEW f \in [Repos -> SUBSET Snapshots]
  PROVE  /\ job[p].at \in Repos
         /\ Add(f, p) \in [Repos -> SUBSET Snapshots]
         /\ \A r \in Repos :
              Add(f, p)[r] = IF r = job[p].at THEN f[r] \cup {Own(p)} ELSE f[r]
<1>1. job[p].at \in Repos /\ Own(p) \in Snapshots
  BY PlanFacts, OwnIsSnapshot DEF JobSound, Place, InRepo
<1> QED BY <1>1 DEF Add, Own

\* A step that touches no repository, and makes neither a claim of a backup nor
\* a job that may have none.
LEMMA SnapsKept ==
  ASSUME Shape, NEW p \in Plans, SnapsSound, Others(p),
         plan' = plan, snaps' = snaps, taken' = taken, job'[p].n = job[p].n,
         job'[p].pc = "pre" \/ job'[p].aborted => job[p].pc = "pre" \/ job[p].aborted,
         \A r \in Repos :
           \/ job'[p].result[r] = "success"
           \/ job'[p].pc \in {"forget", "prune"} /\ job'[p].at = r
           => \/ job[p].result[r] = "success"
              \/ job[p].pc \in {"forget", "prune"} /\ job[p].at = r
  PROVE  SnapsSound'
<1>1. \A q \in Plans : job'[q].n = job[q].n /\ Own(q)' = Own(q)
  BY DEF Own, Others
<1>2. \A r \in Repos : \A s \in taken[r] : s \in Snapshots /\ s.plan \in Plans
  BY DEF Shape, Snapshots
<1>3. \A q \in Plans, r \in Repos :
        job'[q].pc = "pre" \/ job'[q].aborted => Own(q) \notin taken[r]
  BY DEF SnapsSound, Others
<1>4. \A q \in Plans, r \in Repos :
        \/ job'[q].result[r] = "success"
        \/ job'[q].pc \in {"forget", "prune"} /\ job'[q].at = r
        => Own(q) \in snaps[r]
  BY DEF SnapsSound, Others
<1> QED BY <1>1, <1>2, <1>3, <1>4 DEF SnapsSound

\* A job that starts has a number that no snapshot has.
LEMMA StartSnaps ==
  ASSUME Shape, NEW p \in Plans, SnapsSound, StartJob(p)
  PROVE  SnapsSound'
<1>1. /\ plan' = plan /\ snaps' = snaps /\ taken' = taken
      /\ Others(p) /\ job'[p].pc = "pre" /\ job'[p].n = job[p].n + 1
      /\ job[p].n \in Nat
  BY StartFacts DEF StartJob, config, repo
<1>2. \A r \in Repos : job'[p].result[r] = "none"
  BY StartFacts
<1>3. \A r \in Repos : \A s \in taken[r] : s.plan \in Plans /\ s.n \in Nat
  <2>1. \A s \in Snapshots : s.plan \in Plans /\ s.n \in Nat
    BY BackupJobAssumption DEF Snapshots
  <2> QED BY <2>1 DEF Shape
<1>4. \A q \in Plans : q # p => Own(q)' = Own(q) /\ job'[q] = job[q]
  BY <1>1 DEF Own, Others
<1>5. \A q \in Plans : job[q].n \in Nat
  BY BackupJobAssumption DEF Shape, JobRecords
<1>6. Own(p)' = [plan |-> p, n |-> job[p].n + 1]
  BY <1>1 DEF Own
<1>7. \A r \in Repos : Own(p)' \notin taken[r]
  BY <1>1, <1>3, <1>6 DEF SnapsSound
<1>8. \A r \in Repos : \A s \in taken[r] :
        s.n <= job'[s.plan].n /\ r \in plan[s.plan].targets
  <2> TAKE r \in Repos
  <2> TAKE s \in taken[r]
  <2>1. s.plan \in Plans /\ s.n \in Nat /\ s.n <= job[s.plan].n
        /\ r \in plan[s.plan].targets
    BY <1>3 DEF SnapsSound
  <2> QED BY <1>1, <1>4, <1>5, <2>1
<1>9. \A q \in Plans, r \in Repos :
        job'[q].pc = "pre" \/ job'[q].aborted => Own(q)' \notin taken[r]
  BY <1>4, <1>7 DEF SnapsSound
<1>10. \A q \in Plans, r \in Repos :
        \/ job'[q].result[r] = "success"
        \/ job'[q].pc \in {"forget", "prune"} /\ job'[q].at = r
        => Own(q)' \in snaps[r]
  BY <1>1, <1>2, <1>4 DEF SnapsSound
<1> QED BY <1>1, <1>8, <1>9, <1>10 DEF SnapsSound

\* Steps that run no backup and no forget leave the snapshots alone.
LEMMA QuietSnaps ==
  ASSUME Shape, NEW p \in Plans, JobSound(p), SnapsSound,
         \/ RunHook(p) \/ PreBackupDone(p) \/ NextRepo(p) \/ ListSnapshots(p)
         \/ InitRepo(p) \/ Prune(p) \/ ReposDone(p) \/ PostBackupDone(p)
         \/ ReturnReport(p)
  PROVE  SnapsSound'
<1>1. plan' = plan /\ snaps' = snaps /\ taken' = taken
  BY DEF RunHook, PreBackupDone, NextRepo, ListSnapshots, InitRepo, Prune, ReposDone,
         PostBackupDone, ReturnReport, config, repo
<1>2. Others(p)
  BY StepFacts DEF Steps
<1>3. ASSUME NEW pc \in PCs, Moves(p, pc), pc \notin {"pre", "forget", "prune"}
      PROVE  SnapsSound'
  BY <1>1, <1>2, <1>3, SnapsKept DEF Moves, SameLog, SameRepos
<1>4. job[p].result \in [Repos -> Outcomes] /\ (job[p].pc \in InRepo => job[p].at \in Repos)
  BY PlanFacts DEF Shape, JobRecords, JobSound, Place
<1>5. CASE RunHook(p)
  <2>1. job[p].pc \in {"pre", "post", "notify"}
    BY <1>5 DEF RunHook
  <2>2. PICK h \in First(job[p].todo) : HookRan(p, h)
    BY <1>5, HookFacts
  <2>3. job'[p].aborted => job[p].aborted \/ job[p].pc = "pre"
    BY <2>2, HookFacts, <1>5 DEF HookRan
  <2> QED BY <1>1, <1>2, <2>1, <2>2, <2>3, SnapsKept DEF HookRan, SameRepos
<1>6. CASE PreBackupDone(p)
  <2>1. /\ job'[p].pc \in {"notify", "repos"} /\ SameLog(p)
        /\ job'[p].result = job[p].result
    BY <1>6, PreBackupFacts DEF Enters, SameRepos
  <2> QED BY <1>1, <1>2, <2>1, SnapsKept DEF SameLog
<1>7. CASE NextRepo(p)
  <2>1. /\ job'[p].pc \in {"list", "repos"} /\ SameLog(p)
        /\ \A r \in Repos : job'[p].result[r] \in {job[p].result[r], "skipped"}
    BY <1>4, <1>7, NextRepoFacts
  <2> QED BY <1>1, <1>2, <2>1, SnapsKept DEF SameLog
<1>8. CASE ListSnapshots(p)
  <2>1. \E pc \in {"backup", "init"} : Goto(p, pc)
    BY <1>8 DEF ListSnapshots
  <2> QED BY <1>3, <2>1, GotoFacts DEF PCs, InRepo
<1>9. CASE InitRepo(p)
  <2>1. Goto(p, "backup") \/ RepoDone(p, "failed")
    BY <1>9 DEF InitRepo
  <2>2. CASE Goto(p, "backup")
    BY <1>3, <2>2, GotoFacts DEF PCs, InRepo
  <2>3. CASE RepoDone(p, "failed")
    <3>1. Leaves(p, "failed")
      BY <2>3, RepoDoneFacts DEF Outcomes
    <3>2. \A r \in Repos : job'[p].result[r] = "success" => job[p].result[r] = "success"
      BY <1>4, <3>1 DEF Leaves
    <3> QED BY <1>1, <1>2, <3>1, <3>2, SnapsKept DEF Leaves, SameLog
  <2> QED BY <2>1, <2>2, <2>3
<1>10. CASE Prune(p)
  <2>1. Leaves(p, "success") /\ job[p].pc = "prune"
    BY <1>10, RepoDoneFacts DEF Outcomes, Prune
  <2>2. \A r \in Repos : job'[p].result[r] = "success" =>
          job[p].result[r] = "success" \/ r = job[p].at
    BY <1>4, <2>1 DEF Leaves
  <2> QED BY <1>1, <1>2, <2>1, <2>2, SnapsKept DEF Leaves, SameLog
<1>11. CASE ReposDone(p) \/ PostBackupDone(p)
  <2>1. /\ job'[p].pc \in {"post", "notify"} /\ SameLog(p) /\ SameRepos(p)
    BY <1>11, ReposDoneFacts, PostBackupFacts DEF Enters
  <2> QED BY <1>1, <1>2, <2>1, SnapsKept DEF SameLog, SameRepos
<1>12. CASE ReturnReport(p)
  <2>1. Goto(p, "over")
    BY <1>12 DEF ReturnReport
  <2> QED BY <1>3, <2>1, GotoFacts DEF PCs
<1> QED BY <1>5, <1>6, <1>7, <1>8, <1>9, <1>10, <1>11, <1>12

\* A process that starts again finds the snapshots as they were.
LEMMA RestartSnaps ==
  ASSUME Shape, SnapsSound, Restart
  PROVE  SnapsSound'
<1>1. plan' = plan /\ snaps' = snaps /\ taken' = taken
  BY DEF Restart, config, repo
<1>2. \A p \in Plans : /\ job'[p].pc = "idle" /\ job'[p].n = job[p].n
                       /\ job'[p].aborted = FALSE /\ Own(p)' = Own(p)
                       /\ \A r \in Repos : job'[p].result[r] = "none"
  <2>1. \A p \in Plans : /\ job'[p].pc = "idle" /\ job'[p].n = job[p].n
                         /\ job'[p].aborted = FALSE
                         /\ job'[p].result = [r \in Repos |-> "none"]
    BY RestartFacts, Zenon
  <2> QED BY <2>1 DEF Own
<1>3. \A r \in Repos : \A s \in taken[r] : s.plan \in Plans
  BY DEF Shape, Snapshots
<1> QED BY <1>1, <1>2, <1>3 DEF SnapsSound

\* What Backup does: a success leaves its snapshot.
LEMMA BackupFacts ==
  ASSUME Shape, NEW p \in Plans, JobSound(p), Backup(p)
  PROVE  /\ job[p].pc = "backup" /\ job[p].at \in Repos /\ SameLog(p)
         /\ \/ Moves(p, "forget") \/ Leaves(p, "success") \/ Leaves(p, "failed")
         /\ \/ snaps' = Add(snaps, p) /\ taken' = Add(taken, p)
            \/ snaps' = snaps /\ taken' = taken /\ Leaves(p, "failed")
<1>1. /\ job[p].pc = "backup"
      /\ Goto(p, "forget") \/ RepoDone(p, "success") \/ RepoDone(p, "failed")
      /\ \/ snaps' = Add(snaps, p) /\ taken' = Add(taken, p)
         \/ snaps' = snaps /\ taken' = taken /\ RepoDone(p, "failed")
  BY DEF Backup
<1>2. job[p].at \in Repos
  BY <1>1, PlanFacts DEF JobSound, Place, InRepo
<1>3. Goto(p, "forget") => Moves(p, "forget")
  BY GotoFacts DEF PCs, InRepo
<1>4. /\ RepoDone(p, "success") => Leaves(p, "success")
      /\ RepoDone(p, "failed") => Leaves(p, "failed")
  BY RepoDoneFacts DEF Outcomes
<1> QED BY <1>1, <1>2, <1>3, <1>4 DEF Moves, Leaves

\* A backup makes the newest snapshot of its plan.
LEMMA BackupSnaps ==
  ASSUME Shape, NEW p \in Plans, JobSound(p), SnapsSound, Backup(p)
  PROVE  SnapsSound'
<1>1. /\ plan' = plan /\ job[p].pc = "backup" /\ job[p].at \in Repos /\ SameLog(p)
      /\ Others(p)
  BY BackupFacts, StepFacts DEF Backup, config, Steps
<1>2. \A q \in Plans : job'[q].n = job[q].n /\ Own(q)' = Own(q)
  BY <1>1 DEF Own, Others, SameLog
<1>3. /\ job'[p].pc \in {"forget", "repos"} /\ ~job'[p].aborted
  BY <1>1, BackupFacts DEF Moves, Leaves, SameLog, JobSound, Halts, InRepo
<1>4. \A q \in Plans : q # p => job'[q] = job[q] /\ Own(q) # Own(p)
  BY <1>1 DEF Others, Own
<1>5. job[p].result \in [Repos -> Outcomes] /\ job[p].n \in Nat
  BY BackupJobAssumption DEF Shape, JobRecords
<1>6. CASE snaps' = snaps /\ taken' = taken /\ Leaves(p, "failed")
  <2>1. \A r \in Repos : job'[p].result[r] = "success" => job[p].result[r] = "success"
    BY <1>5, <1>6 DEF Leaves
  <2> QED BY <1>1, <1>2, <1>3, <1>6, <2>1, SnapsKept DEF Leaves
<1>7. CASE snaps' = Add(snaps, p) /\ taken' = Add(taken, p)
  <2>1. \A r \in Repos :
          /\ snaps'[r] = IF r = job[p].at THEN snaps[r] \cup {Own(p)} ELSE snaps[r]
          /\ taken'[r] = IF r = job[p].at THEN taken[r] \cup {Own(p)} ELSE taken[r]
    <3>1. job[p].pc \in InRepo
      BY <1>1 DEF InRepo
    <3>2. /\ snaps \in [Repos -> SUBSET Snapshots]
          /\ taken \in [Repos -> SUBSET Snapshots]
      BY DEF Shape
    <3>3. \A r \in Repos :
            Add(snaps, p)[r] = IF r = job[p].at THEN snaps[r] \cup {Own(p)} ELSE snaps[r]
      BY <3>1, <3>2, AddFacts
    <3>4. \A r \in Repos :
            Add(taken, p)[r] = IF r = job[p].at THEN taken[r] \cup {Own(p)} ELSE taken[r]
      BY <3>1, <3>2, AddFacts
    <3> QED BY <1>7, <3>3, <3>4
  <2>2. \A r \in Repos : snaps'[r] \subseteq taken'[r]
    BY <2>1 DEF SnapsSound
  <2>3. \A r \in Repos : \A s \in taken'[r] :
          s.n <= job'[s.plan].n /\ r \in plan[s.plan].targets
    <3>1. /\ Own(p).plan = p /\ Own(p).n = job[p].n
          /\ job[p].at \in plan[p].targets
      BY <1>1 DEF Own, JobSound, Place, InRepo
    <3>2. \A r \in Repos : \A s \in taken[r] : s.plan \in Plans
      BY DEF Shape, Snapshots
    <3>3. ASSUME NEW r \in Repos, NEW s \in taken[r]
          PROVE  s.n <= job'[s.plan].n /\ r \in plan[s.plan].targets
      BY <1>2, <3>2 DEF SnapsSound
    <3>4. Own(p).n <= job'[Own(p).plan].n
      BY <1>2, <1>5, <3>1
    <3>5. ASSUME NEW r \in Repos, NEW s \in taken'[r]
          PROVE  s.n <= job'[s.plan].n /\ r \in plan[s.plan].targets
      <4>1. s \in taken[r] \/ (s = Own(p) /\ r = job[p].at)
        BY <2>1, <3>5
      <4>2. CASE s \in taken[r]
        BY <3>3, <4>2
      <4>3. CASE s = Own(p) /\ r = job[p].at
        BY <3>1, <3>4, <4>3
      <4> QED BY <4>1, <4>2, <4>3
    <3> QED BY <3>5
  <2>4. ASSUME NEW q \in Plans, NEW r \in Repos, job'[q].pc = "pre" \/ job'[q].aborted
        PROVE  Own(q) \notin taken'[r]
    <3>1. q # p
      BY <1>3, <2>4
    <3>2. job'[q] = job[q] /\ Own(q) # Own(p)
      BY <1>4, <3>1
    <3>3. Own(q) \notin taken[r]
      BY <2>4, <3>2 DEF SnapsSound
    <3> QED BY <2>1, <3>2, <3>3
  <2>5. \A q \in Plans, r \in Repos :
          \/ job'[q].result[r] = "success"
          \/ job'[q].pc \in {"forget", "prune"} /\ job'[q].at = r
          => Own(q) \in snaps'[r]
    <3>1. ASSUME NEW r \in Repos,
                 \/ job'[p].result[r] = "success"
                 \/ job'[p].pc \in {"forget", "prune"} /\ job'[p].at = r
          PROVE  r = job[p].at \/ job[p].result[r] = "success"
      <4>1. Moves(p, "forget") \/ Leaves(p, "success") \/ Leaves(p, "failed")
        BY BackupFacts
      <4> QED BY <1>1, <1>5, <3>1, <4>1 DEF Moves, Leaves, SameRepos
    <3>2. ASSUME NEW q \in Plans, NEW r \in Repos,
                 \/ job'[q].result[r] = "success"
                 \/ job'[q].pc \in {"forget", "prune"} /\ job'[q].at = r
          PROVE  Own(q) \in snaps'[r]
      <4>1. CASE q = p
        <5>1. r = job[p].at \/ job[p].result[r] = "success"
          BY <3>1, <3>2, <4>1
        <5>2. job[p].result[r] = "success" => Own(p) \in snaps[r]
          BY DEF SnapsSound
        <5> QED BY <2>1, <4>1, <5>1, <5>2
      <4>2. CASE q # p
        <5>1. job'[q] = job[q]
          BY <1>4, <4>2
        <5>2. Own(q) \in snaps[r]
          BY <3>2, <5>1 DEF SnapsSound
        <5> QED BY <2>1, <5>2
      <4> QED BY <4>1, <4>2
    <3> QED BY <3>2
  <2> QED BY <1>1, <1>2, <2>2, <2>3, <2>4, <2>5 DEF SnapsSound
<1> QED BY <1>6, <1>7, BackupFacts

\* The snapshots of a plan that are newer than one are finitely many.
LEMMA NewerFacts ==
  ASSUME NEW s \in Snapshots, NEW ss \in SUBSET Snapshots, NEW tt \in SUBSET ss
  PROVE  /\ IsFiniteSet(Newer(s, ss)) /\ Cardinality(Newer(s, ss)) \in Nat
         /\ Cardinality(Newer(s, tt)) \in Nat
         /\ Cardinality(Newer(s, tt)) <= Cardinality(Newer(s, ss))
<1> DEFINE S == {t \in Snapshots : t.plan = s.plan}
           f == [i \in 1..MaxRuns |-> [plan |-> s.plan, n |-> i]]
<1>1. s.plan \in Plans /\ \A t \in S : t.n \in 1..MaxRuns /\ t = [plan |-> s.plan, n |-> t.n]
  BY DEF Snapshots
<1>2. \A i \in 1..MaxRuns : f[i] \in S
  BY <1>1 DEF Snapshots
<1>3. \A t \in S : \E i \in 1..MaxRuns : f[i] = t
  BY <1>1
<1>4. f \in Surjection(1..MaxRuns, S)
  <2>1. f \in [1..MaxRuns -> S]
    BY <1>2
  <2> HIDE DEF f, S
  <2> QED BY <1>3, <2>1 DEF Surjection
<1>5. IsFiniteSet(S)
  BY <1>4, FS_Surjection, FS_Interval, BackupJobAssumption
<1>6. Newer(s, ss) \in SUBSET S /\ Newer(s, tt) \in SUBSET Newer(s, ss)
  BY DEF Newer
<1> HIDE DEF S
<1>7. IsFiniteSet(Newer(s, ss))
  BY <1>5, <1>6, FS_Subset
<1>8. /\ IsFiniteSet(Newer(s, tt))
      /\ Cardinality(Newer(s, tt)) <= Cardinality(Newer(s, ss))
  BY <1>6, <1>7, FS_Subset
<1> QED BY <1>7, <1>8, FS_CardinalityType

\* What Forget does: it loses no snapshot of a job that is the latest of its
\* plan, and every one it loses has as many newer ones as the policy says.
LEMMA ForgetFacts ==
  ASSUME Shape, NEW p \in Plans, JobSound(p), SnapsSound, Forget(p)
  PROVE  /\ job[p].pc = "forget" /\ job[p].at \in Repos
         /\ taken' = taken /\ plan' = plan
         /\ Moves(p, "prune") \/ Leaves(p, "success")
         /\ snaps' \in [Repos -> SUBSET Snapshots]
         /\ \A r \in Repos : snaps'[r] \subseteq snaps[r]
         /\ \A r \in Repos : \A q \in Plans :
              Own(q) \in snaps[r] => Own(q) \in snaps'[r]
         /\ \A r \in Repos : \A s \in snaps[r] \ snaps'[r] :
              /\ r = job[p].at /\ resolveRetention(p) # 0
              /\ ~(Cardinality(Newer(s, snaps[r])) < resolveRetention(p))
<1>1. /\ job[p].pc = "forget" /\ taken' = taken /\ plan' = plan
      /\ \/ snaps' = [snaps EXCEPT ![job[p].at] =
                        ResticForget(snaps[job[p].at], resolveRetention(p))]
         \/ snaps' = snaps
      /\ Goto(p, "prune") \/ RepoDone(p, "success")
  BY DEF Forget, config
<1>2. job[p].at \in Repos /\ resolveRetention(p) \in Nat
  BY <1>1, PlanFacts DEF JobSound, Place, InRepo
<1>3. Moves(p, "prune") \/ Leaves(p, "success")
  BY <1>1, GotoFacts, RepoDoneFacts DEF PCs, InRepo, Outcomes
<1>4. snaps \in [Repos -> SUBSET Snapshots]
  BY DEF Shape
<1>5. \A r \in Repos :
        snaps'[r] = snaps[r]
        \/ /\ r = job[p].at
           /\ snaps'[r] = ResticForget(snaps[r], resolveRetention(p))
  BY <1>1, <1>2, <1>4
<1>6. \A r \in Repos : snaps'[r] \subseteq snaps[r]
  BY <1>5 DEF ResticForget
<1>7. snaps' \in [Repos -> SUBSET Snapshots]
  <2>1. ResticForget(snaps[job[p].at], resolveRetention(p)) \subseteq Snapshots
    BY <1>2, <1>4 DEF ResticForget
  <2> QED BY <1>1, <1>2, <1>4, <2>1
<1>8. ASSUME NEW r \in Repos, NEW q \in Plans, Own(q) \in snaps[r]
      PROVE  Own(q) \in snaps'[r]
  <2>1. Own(q).plan = q /\ Own(q).n = job[q].n /\ job[q].n \in Nat
    BY BackupJobAssumption DEF Own, Shape, JobRecords
  <2>2. \A t \in snaps[r] : t.plan = q => t.n \in Nat /\ t.n <= job[q].n
    <3>1. \A t \in Snapshots : t.n \in Nat
      BY BackupJobAssumption DEF Snapshots
    <3> QED BY <1>4, <3>1 DEF SnapsSound
  <2>3. Newer(Own(q), snaps[r]) = {}
    BY <2>1, <2>2 DEF Newer
  <2>4. Cardinality(Newer(Own(q), snaps[r])) = 0
    BY <2>3, FS_EmptySet
  <2> QED BY <1>2, <1>5, <1>8, <2>4 DEF ResticForget
<1>9. \A r \in Repos : \A s \in snaps[r] \ snaps'[r] :
        /\ r = job[p].at /\ resolveRetention(p) # 0
        /\ ~(Cardinality(Newer(s, snaps[r])) < resolveRetention(p))
  BY <1>5 DEF ResticForget
<1> QED BY <1>1, <1>2, <1>3, <1>6, <1>7, <1>8, <1>9

\* Forget keeps the newest snapshot of each plan, so that of a running job.
LEMMA ForgetSnaps ==
  ASSUME Shape, NEW p \in Plans, JobSound(p), SnapsSound, Forget(p)
  PROVE  SnapsSound'
<1>1. /\ plan' = plan /\ taken' = taken /\ job[p].pc = "forget" /\ job[p].at \in Repos
      /\ Others(p)
      /\ Moves(p, "prune") \/ Leaves(p, "success")
  BY ForgetFacts, StepFacts DEF Steps
<1>2. /\ SameLog(p) /\ job'[p].pc # "pre" /\ ~job'[p].aborted
  BY <1>1 DEF Moves, Leaves, SameLog, JobSound, Halts, InRepo
<1>3. \A q \in Plans : job'[q].n = job[q].n /\ Own(q)' = Own(q)
  BY <1>1, <1>2 DEF Own, Others, SameLog
<1>4. job[p].result \in [Repos -> Outcomes]
  BY DEF Shape, JobRecords
<1>5. \A r \in Repos : \A s \in taken[r] : s.plan \in Plans
  BY DEF Shape, Snapshots
<1>6. \A q \in Plans, r \in Repos :
        job'[q].pc = "pre" \/ job'[q].aborted => Own(q) \notin taken[r]
  BY <1>1, <1>2 DEF SnapsSound, Others
<1>7. \A q \in Plans, r \in Repos :
        \/ job'[q].result[r] = "success"
        \/ job'[q].pc \in {"forget", "prune"} /\ job'[q].at = r
        => Own(q) \in snaps[r]
  <2>1. ASSUME NEW r \in Repos,
               \/ job'[p].result[r] = "success"
               \/ job'[p].pc \in {"forget", "prune"} /\ job'[p].at = r
        PROVE  r = job[p].at \/ job[p].result[r] = "success"
    BY <1>1, <1>4, <2>1 DEF Moves, Leaves, SameRepos
  <2> QED BY <1>1, <2>1 DEF SnapsSound, Others
<1>8. \A r \in Repos : snaps'[r] \subseteq taken[r]
  BY ForgetFacts DEF SnapsSound
<1>9. \A r \in Repos : \A q \in Plans : Own(q) \in snaps[r] => Own(q) \in snaps'[r]
  BY ForgetFacts
<1> QED BY <1>1, <1>3, <1>5, <1>6, <1>7, <1>8, <1>9 DEF SnapsSound

-----------------------------------------------------------------------------
\* The invariant.

Sound == Shape /\ JobsSound /\ SnapsSound /\ OwnPolicy

\* Every step loses snapshots of a repository of a plan's own to its policy only.
LEMMA PolicyStep ==
  ASSUME Sound, [Next]_vars
  PROVE  OwnPolicy'
<1> USE DEF Sound
<1>1. CASE UNCHANGED <<plan, snaps, taken>>
  <2>1. \A p, r : Sharing(p, r)' = Sharing(p, r) /\ Keep(p)' = Keep(p)
    BY <1>1 DEF Sharing, Keep
  <2>2. \A s, r : Newer(s, taken[r])' = Newer(s, taken[r])
    BY <1>1 DEF Newer
  <2> QED BY <1>1, <2>1, <2>2 DEF OwnPolicy
<1>2. ASSUME NEW p \in Plans, Backup(p) PROVE OwnPolicy'
  <2>1. JobSound(p) /\ plan' = plan /\ job[p].at \in Repos /\ job[p].pc \in InRepo
    BY <1>2, BackupFacts DEF JobsSound, Backup, config, InRepo
  <2>2. \A q \in Plans, r \in Repos : Sharing(q, r)' = Sharing(q, r) /\ Keep(q)' = Keep(q)
    BY <2>1 DEF Sharing, Keep
  <2>3. CASE snaps' = snaps /\ taken' = taken
    BY <1>1, <2>1, <2>3
  <2>4. CASE snaps' = Add(snaps, p) /\ taken' = Add(taken, p)
    <3>1. /\ snaps \in [Repos -> SUBSET Snapshots]
          /\ taken \in [Repos -> SUBSET Snapshots]
      BY DEF Shape
    <3>2. /\ taken' \in [Repos -> SUBSET Snapshots]
          /\ \A r \in Repos :
               taken'[r] = IF r = job[p].at THEN taken[r] \cup {Own(p)} ELSE taken[r]
      <4>1. /\ Add(taken, p) \in [Repos -> SUBSET Snapshots]
            /\ \A r \in Repos : Add(taken, p)[r] =
                 IF r = job[p].at THEN taken[r] \cup {Own(p)} ELSE taken[r]
        BY <2>1, <3>1, AddFacts
      <4> QED BY <2>4, <4>1
    <3>3. \A r \in Repos :
            snaps'[r] = IF r = job[p].at THEN snaps[r] \cup {Own(p)} ELSE snaps[r]
      <4>1. \A r \in Repos : Add(snaps, p)[r] =
              IF r = job[p].at THEN snaps[r] \cup {Own(p)} ELSE snaps[r]
        BY <2>1, <3>1, AddFacts
      <4> QED BY <2>4, <4>1
    <3>4. ASSUME NEW q \in Plans, NEW r \in plan[q].targets, Sharing(q, r) = {},
                 NEW s \in taken'[r] \ snaps'[r]
          PROVE  /\ plan[q].forget /\ Keep(q) > 0
                 /\ Cardinality(Newer(s, taken'[r])) >= Keep(q)
      <4>1. r \in Repos
        BY PlanFacts
      <4>2. s \in taken[r] \ snaps[r] /\ taken[r] \subseteq taken'[r]
        BY <3>2, <3>3, <4>1
      <4>3. /\ plan[q].forget /\ Keep(q) > 0
            /\ Cardinality(Newer(s, taken[r])) >= Keep(q)
        BY <3>4, <4>2 DEF OwnPolicy
      <4>4. /\ Cardinality(Newer(s, taken[r])) <= Cardinality(Newer(s, taken'[r]))
            /\ Cardinality(Newer(s, taken[r])) \in Nat
            /\ Cardinality(Newer(s, taken'[r])) \in Nat
        <5>1. s \in Snapshots /\ taken'[r] \in SUBSET Snapshots
              /\ taken[r] \in SUBSET taken'[r]
          BY <3>1, <3>2, <4>1, <4>2
        <5> QED BY <5>1, NewerFacts
      <4>5. Keep(q) \in Int
        BY PlanFacts DEF Keep, resolveRetention, Nil
      <4> QED BY <4>3, <4>4, <4>5
    <3>5. \A q \in Plans, r \in Repos :
            r \in plan[q].targets' /\ Sharing(q, r)' = {} =>
              \A s \in taken'[r] \ snaps'[r] :
                /\ plan[q].forget /\ Keep(q) > 0
                /\ Cardinality(Newer(s, taken'[r])) >= Keep(q)
      BY <2>1, <2>2, <3>4
    <3>6. \A q \in Plans : plan'[q].targets \subseteq Repos
      BY <2>1, PlanFacts
    <3>7. \A s, r : Newer(s, taken[r])' = Newer(s, taken'[r])
      BY DEF Newer
    <3> QED BY <2>1, <2>2, <3>5, <3>6, <3>7 DEF OwnPolicy
  <2> QED BY <1>2, <2>1, <2>3, <2>4, BackupFacts
<1>3. ASSUME NEW p \in Plans, Forget(p) PROVE OwnPolicy'
  <2>1. JobSound(p)
    BY DEF JobsSound
  <2>2. /\ job[p].pc = "forget" /\ plan' = plan /\ taken' = taken
        /\ \A r \in Repos : \A s \in snaps[r] \ snaps'[r] :
             /\ r = job[p].at /\ resolveRetention(p) # 0
             /\ ~(Cardinality(Newer(s, snaps[r])) < resolveRetention(p))
    BY <1>3, <2>1, ForgetFacts
  <2>3. /\ job[p].at \in plan[p].targets /\ plan[p].forget
        /\ resolveRetention(p) = Keep(p) /\ Keep(p) \in Nat
    BY <2>1, <2>2, PlanFacts DEF JobSound, Place, InRepo, Keep, resolveRetention
  <2>4. ASSUME NEW q \in Plans, NEW r \in plan[q].targets, Sharing(q, r) = {},
               NEW s \in taken[r] \ snaps'[r]
        PROVE  /\ plan[q].forget /\ Keep(q) > 0
               /\ Cardinality(Newer(s, taken[r])) >= Keep(q)
    <3>1. r \in Repos
      BY PlanFacts
    <3>2. CASE s \notin snaps[r]
      BY <2>4, <3>2 DEF OwnPolicy
    <3>3. CASE s \in snaps[r]
      <4>1. /\ r = job[p].at /\ Keep(p) # 0
            /\ ~(Cardinality(Newer(s, snaps[r])) < Keep(p))
        BY <2>2, <2>3, <2>4, <3>1, <3>3
      <4>2. q = p
        BY <2>3, <2>4, <4>1 DEF Sharing
      <4>3. /\ Cardinality(Newer(s, snaps[r])) <= Cardinality(Newer(s, taken[r]))
            /\ Cardinality(Newer(s, snaps[r])) \in Nat
            /\ Cardinality(Newer(s, taken[r])) \in Nat
        <5>1. s \in Snapshots /\ taken[r] \in SUBSET Snapshots
              /\ snaps[r] \in SUBSET taken[r]
          BY <3>1, <3>3 DEF Shape, SnapsSound
        <5> QED BY <5>1, NewerFacts
      <4> QED BY <2>3, <4>1, <4>2, <4>3
    <3> QED BY <3>2, <3>3
  <2> QED BY <2>2, <2>4 DEF OwnPolicy, Sharing, Keep
<1>4. ASSUME NEW p \in Plans,
             \/ StartJob(p) \/ RunHook(p) \/ PreBackupDone(p) \/ NextRepo(p)
             \/ ListSnapshots(p) \/ InitRepo(p) \/ Prune(p)
             \/ ReposDone(p) \/ PostBackupDone(p) \/ ReturnReport(p)
      PROVE  OwnPolicy'
  <2>1. UNCHANGED <<plan, snaps, taken>>
    BY <1>4 DEF StartJob, RunHook, PreBackupDone, NextRepo, ListSnapshots, InitRepo,
                Prune, ReposDone, PostBackupDone, ReturnReport, config, repo
  <2> QED BY <1>1, <2>1
<1>5. CASE Stop \/ Restart \/ UNCHANGED vars
  BY <1>1, <1>5 DEF Stop, Restart, vars, config, repo
<1> QED BY <1>2, <1>3, <1>4, <1>5 DEF Next

\* Every step keeps the types.
LEMMA ShapeStep ==
  ASSUME Sound, [Next]_vars
  PROVE  Shape'
<1> USE DEF Sound
<1>1. CASE Stop \/ UNCHANGED vars
  BY <1>1 DEF Stop, vars, config, repo, Shape
<1>2. CASE Restart
  BY <1>2, RestartFacts DEF Restart, config, repo, Shape
<1>3. ASSUME NEW p \in Plans, Steps(p) PROVE Shape'
  <2>1. JobSound(p)
    BY DEF JobsSound
  <2>2. /\ job' \in [Plans -> JobRecords] /\ broke' \in [Plans -> SUBSET Repos]
        /\ plan' = plan /\ known' = known
    BY <1>3, <2>1, StepFacts DEF config
  <2>3. job[p].pc \in InRepo => job[p].at \in Repos
    BY <2>1, PlanFacts DEF JobSound, Place
  <2>4. inited' \subseteq Repos /\ stopping' = stopping
    <3>1. CASE InitRepo(p)
      BY <2>3, <3>1 DEF InitRepo, Shape, InRepo
    <3>2. CASE ~InitRepo(p)
      BY <1>3, <3>2 DEF Steps, StartJob, RunHook, PreBackupDone, NextRepo,
         ListSnapshots, Backup, Forget, Prune, ReposDone, PostBackupDone,
         ReturnReport, repo, Shape
    <3> QED BY <3>1, <3>2
  <2>5. /\ snaps' \in [Repos -> SUBSET Snapshots]
        /\ taken' \in [Repos -> SUBSET Snapshots]
    <3>1. /\ snaps \in [Repos -> SUBSET Snapshots]
          /\ taken \in [Repos -> SUBSET Snapshots]
      BY DEF Shape
    <3>2. CASE Backup(p)
      <4>1. job[p].pc \in InRepo
        BY <3>2 DEF Backup, InRepo
      <4>2. /\ Add(snaps, p) \in [Repos -> SUBSET Snapshots]
            /\ Add(taken, p) \in [Repos -> SUBSET Snapshots]
        BY <2>1, <3>1, <4>1, AddFacts
      <4> QED BY <2>1, <3>1, <3>2, <4>2, BackupFacts
    <3>3. CASE Forget(p)
      BY <2>1, <3>1, <3>3, ForgetFacts
    <3>4. CASE ~Backup(p) /\ ~Forget(p)
      BY <1>3, <3>1, <3>4 DEF Steps, StartJob, RunHook, PreBackupDone, NextRepo,
         ListSnapshots, InitRepo, Prune, ReposDone, PostBackupDone,
         ReturnReport, repo
    <3> QED BY <3>2, <3>3, <3>4
  <2> QED BY <2>2, <2>4, <2>5 DEF Shape
<1> QED BY <1>1, <1>2, <1>3 DEF Next, Steps

\* Every step keeps the snapshots that successful repositories rest on.
LEMMA SnapsStep ==
  ASSUME Sound, [Next]_vars
  PROVE  SnapsSound'
<1> USE DEF Sound
<1>1. CASE Stop \/ UNCHANGED vars
  BY <1>1 DEF Stop, vars, config, repo, SnapsSound, Own
<1>2. CASE Restart
  BY <1>2, RestartSnaps
<1>3. ASSUME NEW p \in Plans, Steps(p) PROVE SnapsSound'
  <2>1. JobSound(p)
    BY DEF JobsSound
  <2> QED BY <1>3, <2>1, StartSnaps, QuietSnaps, BackupSnaps, ForgetSnaps DEF Steps
<1> QED BY <1>1, <1>2, <1>3 DEF Next, Steps

\* No job has begun and no repository has a snapshot.
LEMMA SoundInit == Init => Sound
<1> SUFFICES ASSUME Init PROVE Sound
  OBVIOUS
<1>1. 0 \in 0..MaxRuns
  BY BackupJobAssumption
<1>5. Shape
  <2>1. job \in [Plans -> JobRecords]
    BY <1>1, NoJobFacts DEF Init
  <2> QED BY <2>1 DEF Init, Shape
<1>6. \A p \in Plans :
        /\ job[p].pc = "idle" /\ job[p].todo = {} /\ job[p].left = {}
        /\ job[p].at = None /\ job[p].ran = {} /\ job[p].failed = {}
        /\ job[p].aborted = FALSE /\ job[p].status = "none"
        /\ \A r \in Repos : job[p].result[r] = "none"
  <2>1. \A p \in Plans : job[p] = NoJob(0)
    BY DEF Init
  <2>2. /\ NoJob(0).pc = "idle" /\ NoJob(0).todo = {} /\ NoJob(0).left = {}
        /\ NoJob(0).at = None /\ NoJob(0).ran = {} /\ NoJob(0).failed = {}
        /\ NoJob(0).aborted = FALSE /\ NoJob(0).status = "none"
        /\ NoJob(0).result = [r \in Repos |-> "none"]
    BY <1>1, NoJobFacts
  <2> QED BY <2>1, <2>2
<1>7. JobsSound
  <2> SUFFICES ASSUME NEW p \in Plans PROVE JobSound(p)
    BY DEF JobsSound
  <2>1. Phase(p) = "none" /\ On(p, "none") = {}
    <3>1. \A h \in plan[p].hooks : h.event \in Events
      BY <1>5, PlanFacts DEF Hooks
    <3> QED BY <1>6, <3>1 DEF Phase, On, Events
  <2>2. Place(p) /\ Halts(p)
    BY <1>6 DEF Place, Halts, InRepo
  <2>3. Verdict(p)
    BY <1>6 DEF Verdict, InRepo, Early
  <2>4. HooksSound(p)
    BY <1>6, <2>1 DEF HooksSound
  <2> QED BY <2>2, <2>3, <2>4 DEF JobSound
<1>8. SnapsSound
  BY <1>6 DEF Init, SnapsSound
<1>9. OwnPolicy
  <2>1. \A p \in Plans : plan[p].targets \subseteq Repos
    BY <1>5, PlanFacts
  <2> QED BY <2>1 DEF Init, OwnPolicy
<1> QED BY <1>5, <1>7, <1>8, <1>9 DEF Sound

\* Every step of ExecuteBackupJob, of the hooks and of restic keeps what the
\* invariant says of each job and of the repositories.
THEOREM SoundAlways == Spec => []Sound
<1>1. Sound /\ [Next]_vars => Sound'
  <2> SUFFICES ASSUME Sound, [Next]_vars PROVE Sound'
    OBVIOUS
  <2>1. JobsSound'
    BY JobsStep DEF Sound
  <2> QED BY <2>1, ShapeStep, SnapsStep, PolicyStep DEF Sound
<1> QED BY <1>1, SoundInit, PTL DEF Spec

-----------------------------------------------------------------------------
\* What follows from the invariant.

\* Types, and the place of a job in its list of repositories: the code moves at,
\* left and the results together.
THEOREM TypeCorrect == Spec => []TypeOK
<1>1. Sound => TypeOK
  <2> SUFFICES ASSUME Sound PROVE TypeOK
    OBVIOUS
  <2>1. ASSUME NEW p \in Plans
        PROVE  LET j == job[p] IN
               /\ j.pc \in {"idle", "pre", "repos", "post", "notify", "over"} \cup InRepo
               /\ j.n \in 0..MaxRuns
               /\ j.status \in {"none", "success", "partial", "failed"}
               /\ j.failed \subseteq j.ran /\ j.ran \subseteq plan[p].hooks
               /\ j.todo \subseteq plan[p].hooks
               /\ j.aborted \in BOOLEAN
               /\ j.result \in [Repos -> {"none", "success", "failed", "skipped"}]
               /\ j.left \subseteq {r \in plan[p].targets : j.result[r] = "none"}
               /\ j.at # None <=> j.pc \in InRepo
               /\ j.pc \in InRepo => j.at \in known \ j.left /\ j.result[j.at] = "none"
    <3>1. Place(p) /\ HooksSound(p) /\ job[p] \in JobRecords /\ Shape
      BY DEF Sound, JobsSound, JobSound, Shape
    <3>2. job[p].todo \subseteq plan[p].hooks
      BY <3>1, PlanFacts DEF HooksSound
    <3>3. /\ job[p].pc \in PCs /\ job[p].n \in 0..MaxRuns /\ job[p].aborted \in BOOLEAN
          /\ job[p].status \in {"none", "success", "partial", "failed"}
          /\ job[p].result \in [Repos -> Outcomes]
      BY <3>1 DEF JobRecords
    <3> QED BY <3>1, <3>2, <3>3 DEF Place, HooksSound, PCs, Outcomes
  <2> QED BY <2>1 DEF Sound, Shape, TypeOK
<1> QED BY <1>1, SoundAlways, PTL

\* The status of a job that no hook aborted is the one of its results.
LEMMA StatusFacts ==
  ASSUME Sound, NEW p \in Plans, job[p].status # "none"
  PROVE  /\ job[p].pc \in {"post", "notify", "over"}
         /\ job[p].aborted =>
              job[p].status = "failed" /\ \A r \in Repos : job[p].result[r] = "none"
         /\ ~job[p].aborted =>
              /\ \A r \in plan[p].targets : job[p].result[r] # "none"
              /\ job[p].status = "success" <=>
                   \A r \in plan[p].targets : job[p].result[r] = "success"
<1>1. JobSound(p) /\ job[p] \in JobRecords /\ plan[p].targets \subseteq Repos
  BY PlanFacts DEF Sound, JobsSound, Shape
<1>2. job[p].pc \in PCs /\ job[p].result \in [Repos -> Outcomes]
  BY <1>1 DEF JobRecords
<1>3. job[p].pc \in {"post", "notify", "over"}
  BY <1>1, <1>2 DEF JobSound, Verdict, Early, PCs
<1>4. CASE job[p].aborted
  BY <1>1, <1>3, <1>4 DEF JobSound, Verdict, Halts
<1>5. CASE ~job[p].aborted
  <2>1. /\ \A r \in plan[p].targets : job[p].result[r] # "none"
        /\ job[p].status = AggregateStatus(p)
        /\ \A r \in Repos : job[p].result[r] # "none" => r \in plan[p].targets
    BY <1>1, <1>3, <1>5 DEF JobSound, Verdict
  <2>2. \A r \in Repos : job[p].result[r] \in Outcomes
    BY <1>2
  <2>3. Results(p, {"failed", "skipped"}) = {} <=>
          \A r \in plan[p].targets : job[p].result[r] = "success"
    BY <1>1, <2>1, <2>2 DEF Results, Outcomes
  <2>4. job[p].status = "success" <=> Results(p, {"failed", "skipped"}) = {}
    BY <2>1 DEF AggregateStatus
  <2> QED BY <1>3, <1>5, <2>1, <2>3, <2>4
<1> QED BY <1>4, <1>5

\* A success is reported only of a job whose snapshots are still there, in every
\* repository of its plan (ExecuteBackupJob, aggregateStatus, Forget).
THEOREM SuccessMeansBackup == Spec => []SuccessHasSnapshot
<1>1. Sound => SuccessHasSnapshot
  <2> SUFFICES ASSUME Sound, NEW p \in Plans, job[p].status = "success",
                      NEW r \in plan[p].targets
               PROVE  Own(p) \in snaps[r]
    BY DEF SuccessHasSnapshot
  <2>1. job[p].result[r] = "success"
    BY StatusFacts
  <2>2. r \in Repos
    BY PlanFacts DEF Sound
  <2> QED BY <2>1, <2>2 DEF Sound, SnapsSound
<1> QED BY <1>1, SoundAlways, PTL

\* A failure is reported only with one of its causes.
THEOREM FailureHasCause == Spec => []FailureCaused
<1>1. Sound => FailureCaused
  <2> SUFFICES ASSUME Sound, NEW p \in Plans,
                      job[p].status \in {"failed", "partial"},
                      ~job[p].aborted, plan[p].targets \subseteq known
               PROVE  broke[p] # {}
    BY DEF FailureCaused
  <2>1. /\ \A r \in plan[p].targets : job[p].result[r] # "none"
        /\ ~ \A r \in plan[p].targets : job[p].result[r] = "success"
    BY StatusFacts
  <2>2. PICK r \in plan[p].targets : job[p].result[r] \notin {"none", "success"}
    BY <2>1
  <2>3. r \in Repos /\ JobSound(p) /\ job[p] \in JobRecords
    BY PlanFacts DEF Sound, JobsSound, Shape
  <2>4. job[p].result[r] \in Outcomes
    BY <2>3 DEF JobRecords
  <2> QED BY <2>2, <2>3, <2>4 DEF JobSound, Verdict, Outcomes
<1> QED BY <1>1, SoundAlways, PTL

\* A pre_backup hook that aborts makes the job a failed one before any backup;
\* without one every repository is attempted and post_backup runs.
THEOREM AbortMeansNoBackup == Spec => []AbortStopsJob
<1>1. Sound => AbortStopsJob
  <2> SUFFICES ASSUME Sound, NEW p \in Plans, job[p].pc = "over"
               PROVE  IF \E h \in job[p].failed : h.event = "pre_backup" /\ Aborts(h)
                      THEN /\ job[p].status = "failed"
                           /\ \A r \in Repos : Own(p) \notin taken[r]
                      ELSE /\ \A r \in plan[p].targets : job[p].result[r] # "none"
                           /\ \/ On(p, "post_backup") \subseteq job[p].ran
                              \/ \E h \in job[p].failed :
                                   h.event = "post_backup" /\ Aborts(h)
    BY DEF AbortStopsJob
  <2>1. JobSound(p) /\ job[p].status # "none"
    BY DEF Sound, JobsSound, JobSound, Verdict, Early, InRepo
  <2>2. job[p].aborted <=> \E h \in job[p].failed : h.event = "pre_backup" /\ Aborts(h)
    BY <2>1 DEF JobSound, Halts
  <2>3. CASE job[p].aborted
    <3>1. job[p].status = "failed"
      BY <2>1, <2>3, StatusFacts
    <3>2. \A r \in Repos : Own(p) \notin taken[r]
      BY <2>3 DEF Sound, SnapsSound
    <3> QED BY <2>2, <2>3, <3>1, <3>2
  <2>4. CASE ~job[p].aborted
    <3>1. \A r \in plan[p].targets : job[p].result[r] # "none"
      BY <2>1, <2>4, StatusFacts
    <3>2. \/ On(p, "post_backup") \subseteq job[p].ran
          \/ \E h \in On(p, "post_backup") \cap job[p].failed : Aborts(h)
      BY <2>1, <2>4 DEF JobSound, HooksSound
    <3>3. \A h \in On(p, "post_backup") : h.event = "post_backup"
      BY DEF On
    <3> QED BY <2>2, <2>4, <3>1, <3>2, <3>3
  <2> QED BY <2>3, <2>4
<1> QED BY <1>1, SoundAlways, PTL

\* RunHooks keeps the order, and stops at a hook that aborts.
THEOREM HooksOrdered == Spec => []HooksInOrder
<1>1. Sound => HooksInOrder
  BY DEF Sound, JobsSound, JobSound, HooksSound, HooksInOrder
<1> QED BY <1>1, SoundAlways, PTL

\* The hooks of exactly one outcome run, the right one.
THEOREM OutcomeAnnounced == Spec => []NotifiedRight
<1>1. Sound => NotifiedRight
  <2> SUFFICES ASSUME Sound, NEW p \in Plans, job[p].pc = "over"
               PROVE  LET event == IF /\ ~job[p].aborted
                                      /\ \A r \in plan[p].targets :
                                           job[p].result[r] = "success"
                                   THEN "on_success" ELSE "on_failure"
                          told == {h \in job[p].ran :
                                     h.event \in {"on_success", "on_failure"}} IN
                      \/ told = On(p, event)
                      \/ /\ told \subseteq On(p, event)
                         /\ \E h \in told \cap job[p].failed : Aborts(h)
    BY DEF NotifiedRight
  <2> DEFINE event == IF /\ ~job[p].aborted
                         /\ \A r \in plan[p].targets : job[p].result[r] = "success"
                      THEN "on_success" ELSE "on_failure"
             told == {h \in job[p].ran : h.event \in {"on_success", "on_failure"}}
  <2>1. JobSound(p) /\ job[p].status # "none" /\ job[p].todo = {}
    BY DEF Sound, JobsSound, JobSound, Verdict, Halts, Early, InRepo
  <2>2. Phase(p) = event
    BY <2>1, StatusFacts DEF Phase, OutcomeEvent
  <2>3. event \in {"on_success", "on_failure"}
    OBVIOUS
  <2> HIDE DEF event
  <2>4. told = job[p].ran \cap On(p, event)
    BY <2>1, <2>2, <2>3 DEF JobSound, HooksSound, On
  <2>5. \/ On(p, event) \subseteq job[p].ran
        \/ \E h \in On(p, event) \cap job[p].failed : Aborts(h)
    BY <2>1, <2>2 DEF JobSound, HooksSound
  <2>6. job[p].failed \subseteq job[p].ran
    BY <2>1 DEF JobSound, HooksSound
  <2> HIDE DEF told
  <2>7. \/ told = On(p, event)
        \/ told \subseteq On(p, event) /\ \E h \in told \cap job[p].failed : Aborts(h)
    BY <2>4, <2>5, <2>6
  <2> QED BY <2>7 DEF event, told
<1> QED BY <1>1, SoundAlways, PTL

\* Where no other plan is at work a snapshot is lost to the plan's own policy
\* only.
THEOREM PolicyKept == Spec => []OwnPolicy
<1>1. Sound => OwnPolicy
  BY DEF Sound
<1> QED BY <1>1, SoundAlways, PTL
=============================================================================
