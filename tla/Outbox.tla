------------------------------- MODULE Outbox -------------------------------
(***************************************************************************)
(* The agent's outbox (agent/internal/outbox/outbox.go) over its SQLite    *)
(* spill table (agent/internal/database/db.go), inside the process whose   *)
(* life cycle is agent/cmd/agent/main.go.                                  *)
(*                                                                         *)
(* Goroutines: the submitters (cron jobs and triggered jobs that call      *)
(* SubmitReport), the delivery worker Run, the prune loop, main.  The      *)
(* database handle has a single connection, so every database call is one  *)
(* atomic step and two calls of one goroutine are two steps: count, evict  *)
(* and enqueue of a spill are three.                                       *)
(*                                                                         *)
(* A report is its uuid.  Uuids are random, so reports are submitted in    *)
(* any order of their numbers, which break created_at ties in the table.   *)
(***************************************************************************)
EXTENDS Integers, Sequences, FiniteSets

CONSTANTS
  Reports,      \* uuids of the reports the jobs of this agent produce
  Submitters,   \* goroutines that run jobs and submit their reports
  CronJobs,     \* the submitters scheduler.Stop waits for
  Worker,       \* the goroutine in Outbox.Run
  None,         \* no report
  MemoryMax,    \* capacity of the in-memory channel
  PageSize,     \* rows the worker loads per page (pageSize)
  Configs,      \* configurations the server may push, defaults applied
  MaxCap,       \* the largest row cap (SpillMaxRows) among them
  MaxClock,     \* bound: seconds of the database clock
  MaxFaults,    \* bound: database calls that fail
  MaxRestarts   \* bound: process restarts

Config == [cap : Nat \ {0}, maxAttempts : Nat \ {0}, retention : Nat]

ASSUME OutboxAssumption ==
  /\ Reports \subseteq Nat
  /\ IsFiniteSet(Submitters)
  /\ CronJobs \subseteq Submitters
  /\ Worker \notin Submitters
  /\ None \notin Reports
  /\ MemoryMax \in Nat \ {0}
  /\ PageSize \in Nat \ {0}
  /\ Configs \subseteq Config
  /\ Configs # {}
  /\ MaxCap \in Nat
  /\ \A c \in Configs : c.cap <= MaxCap
  /\ MaxClock \in Nat
  /\ MaxFaults \in Nat
  /\ MaxRestarts \in Nat

Writers == Submitters \cup {Worker}

VARIABLES
  mem,        \* the channel Outbox.mem
  spill,      \* ids of the rows of table outbox_spill
  createdAt,  \* created_at of a row (kept when the row is deleted)
  attempts,   \* SpillItem.Attempts, in the row or in the worker's copy
  cfg,        \* the current Config
  call,       \* activation of submit / spillWithEviction of each goroutine
  wk,         \* the worker: pc, item being delivered, where it came from
  page,       \* rows of the loaded page still to deliver
  cursor,     \* (created_at, id) of the last row delivered in this drain
  prune,      \* the prune loop
  up,         \* the process is running
  ctxDone,    \* the root context is cancelled
  now,        \* the database clock, in seconds
  faults,     \* database calls that failed, other than by cancellation
  restarts    \* process restarts so far

\* History, read by no action: what became of each report.
VARIABLES
  submitted,  \* SubmitReport was called
  accepted,   \* the server stored the report
  repeated,   \* the server stored it more than once
  uncertain,  \* the server stored it and the agent could not note that
  fails,      \* failed sends
  fate        \* why the agent dropped it, "none" if it did not

table   == <<spill, createdAt>>
worker  == <<wk, page, cursor>>
process == <<up, ctxDone, restarts>>
history == <<submitted, accepted, repeated, uncertain, fails, fate>>
vars    == <<mem, table, attempts, cfg, call, worker, prune, process, now,
             faults, history>>

\* Activations of submit and spillWithEviction, states of Run, of runPrune.
Calls == [pc   : {"idle", "count", "evict", "enqueue"},
          item : Reports \cup {None}, over : Nat, cap : Nat \ {0}]

WorkerStates ==
  [pc   : {"drainMem", "page", "wait", "send", "delete", "drop",
           "increment", "spill", "stopped"},
   item : Reports \cup {None},
   src  : {"drain", "select", "page"}]

PruneStates == [pc : {"age", "count", "wait"}, cap : Nat \ {0}]

NoCall  == [pc |-> "idle", item |-> None, over |-> 0, cap |-> 1]
Start   == [pc |-> "drainMem", item |-> None, src |-> "drain"]

\* Evicted, pruned, lost to a database error or a crash; given up after
\* MaxAttempts; lost in an orderly shutdown.
Fates == {"none", "dropped", "gaveUp", "exit"}

Init ==
  /\ mem = <<>>
  /\ spill = {}
  /\ createdAt = [r \in Reports |-> 0]
  /\ attempts = [r \in Reports |-> 0]
  /\ cfg \in Configs
  /\ call = [w \in Writers |-> NoCall]
  /\ wk = Start
  /\ page = {}
  /\ cursor = None
  /\ prune = [pc |-> "age", cap |-> 1]
  /\ up = TRUE
  /\ ctxDone = FALSE
  /\ now = 0
  /\ faults = 0
  /\ restarts = 0
  /\ submitted = {}
  /\ accepted = {}
  /\ repeated = {}
  /\ uncertain = {}
  /\ fails = [r \in Reports |-> 0]
  /\ fate = [r \in Reports |-> "none"]

-----------------------------------------------------------------------------
\* The spill table.

\* ORDER BY created_at ASC, id ASC.
Older(q, r) == \/ createdAt[q] < createdAt[r]
               \/ createdAt[q] = createdAt[r] /\ q < r

\* ... LIMIT n
Oldest(S, n) == {r \in S : Cardinality({q \in S : Older(q, r)}) < n}

\* ORDER BY created_at DESC, id DESC LIMIT -1 OFFSET n: all but the newest n.
BeyondNewest(S, n) == {r \in S : Cardinality({q \in S : Older(r, q)}) >= n}

\* WHERE (created_at, id) > cursor ORDER BY created_at, id LIMIT PageSize.
SpillPage ==
  Oldest({r \in spill : cursor = None \/ Older(cursor, r)}, PageSize)

\* The fate of reports that leave the table or the process; an earlier fate
\* is kept.
Dropped(S, why) ==
  fate' = [r \in Reports |-> IF r \in S /\ fate[r] = "none"
                             THEN why ELSE fate[r]]

\* A database call fails: an SQLite error, counted in faults ...
DBError == faults < MaxFaults /\ faults' = faults + 1

\* ... or a call made on the root context after it was cancelled.
CtxError == ctxDone /\ UNCHANGED faults

\* A call on the root context that succeeds.
CtxOK == ~ctxDone /\ UNCHANGED faults

-----------------------------------------------------------------------------
\* SubmitReport and submit: the channel if it has room, else the spill.

Submit(s, r) ==
  /\ up
  /\ call[s].pc = "idle"
  /\ r \notin submitted
  /\ submitted' = submitted \cup {r}
  /\ \/ /\ Len(mem) < MemoryMax
        /\ mem' = Append(mem, r)
        /\ UNCHANGED call
     \/ /\ Len(mem) >= MemoryMax
        /\ call' = [call EXCEPT ![s] = [pc |-> "count", item |-> r,
                                        over |-> 0, cap |-> cfg.cap]]
        /\ UNCHANGED mem
  /\ UNCHANGED <<table, attempts, cfg, worker, prune, process, now, faults,
                 accepted, repeated, uncertain, fails, fate>>

\* A submitter's database call failed: submit returns the error, reportFn
\* logs it, the report is gone.
SubmitError(s) ==
  /\ up
  /\ call[s].pc \in {"count", "evict", "enqueue"}
  /\ DBError \/ CtxError
  /\ call' = [call EXCEPT ![s] = NoCall]
  /\ Dropped({call[s].item}, "dropped")
  /\ UNCHANGED <<mem, table, attempts, cfg, worker, prune, process, now,
                 submitted, accepted, repeated, uncertain, fails>>

\* spillWithEviction runs on a fresh context: cancellation does not fail it.
SpillOK(w) ==
  IF w = Worker THEN UNCHANGED faults ELSE CtxOK

\* Off by one: the cap itself is let through.
AtCapLate(count, cap) == count > cap

AtCap(count, cap) == count >= cap

\* The operands swapped.
ExcessSwapped(count, cap) == cap - count - 1

Excess(count, cap) == count - cap + 1

SpillCount(w) ==
  LET count == Cardinality(spill)
      full  == AtCap(count, call[w].cap)
  IN
  /\ up
  /\ call[w].pc = "count"
  /\ SpillOK(w)
  /\ call' = [call EXCEPT ![w] =
       [@ EXCEPT !.pc   = IF full THEN "evict" ELSE "enqueue",
                 !.over = IF full THEN Excess(count, call[w].cap) ELSE 0]]
  /\ UNCHANGED <<mem, table, attempts, cfg, worker, prune, process, now,
                 history>>

\* SpillDeleteOldest(over), over computed from the count read before.
SpillEvict(w) ==
  LET gone == Oldest(spill, call[w].over) IN
  /\ up
  /\ call[w].pc = "evict"
  /\ SpillOK(w)
  /\ spill' = spill \ gone
  /\ Dropped(gone, "dropped")
  /\ call' = [call EXCEPT ![w].pc = "enqueue"]
  /\ UNCHANGED <<mem, createdAt, attempts, cfg, worker, prune, process, now,
                 submitted, accepted, repeated, uncertain, fails>>

\* Where deliver returns to: the page loop, the drain loop (which checks the
\* context) or, from Run's select, the next drain.
Return == [pc  |-> CASE wk.src = "page"   -> "page"
                     [] wk.src = "select" -> "drainMem"
                     [] wk.src = "drain"  -> IF ctxDone THEN "wait"
                                                        ELSE "drainMem",
           item |-> None, src |-> "drain"]

SpillEnqueue(w) ==
  LET r == call[w].item IN
  /\ up
  /\ call[w].pc = "enqueue"
  /\ SpillOK(w)
  /\ spill' = spill \cup {r}
  /\ createdAt' = [createdAt EXCEPT ![r] = now]
  /\ call' = [call EXCEPT ![w] = NoCall]
  /\ wk' = IF w = Worker THEN Return ELSE wk
  /\ UNCHANGED <<mem, attempts, cfg, page, cursor, prune, process, now,
                 history>>

\* The worker's count or evict failed: logged, and it enqueues anyway.
SpillBlind ==
  /\ up
  /\ call[Worker].pc \in {"count", "evict"}
  /\ DBError
  /\ call' = [call EXCEPT ![Worker].pc = "enqueue"]
  /\ UNCHANGED <<mem, table, attempts, cfg, worker, prune, process, now,
                 history>>

\* The worker's enqueue failed: logged, the item is gone.
SpillLost ==
  /\ up
  /\ call[Worker].pc = "enqueue"
  /\ DBError
  /\ call' = [call EXCEPT ![Worker] = NoCall]
  /\ Dropped({call[Worker].item}, "dropped")
  /\ wk' = Return
  /\ UNCHANGED <<mem, table, attempts, cfg, page, cursor, prune, process,
                 now, submitted, accepted, repeated, uncertain, fails>>

-----------------------------------------------------------------------------
\* The worker: Run, drainOnce, deliver.

\* Off by one: the last attempt is not made.
DispatchEarly(r, src) ==
  [pc   |-> IF attempts[r] + 1 >= cfg.maxAttempts /\ src = "page"
            THEN "drop" ELSE "send",
   item |-> r, src |-> src]

\* deliver's entry: an item past MaxAttempts is dropped, not sent.
Dispatch(r, src) ==
  [pc   |-> IF attempts[r] >= cfg.maxAttempts THEN "drop" ELSE "send",
   item |-> r, src |-> src]

\* What a worker step that only moves the worker leaves alone.
WorkerOnly ==
  UNCHANGED <<table, attempts, cfg, call, prune, process, now, history>>

\* drainOnce, the in-memory half.
DrainMem ==
  /\ up
  /\ wk.pc = "drainMem"
  /\ \/ /\ mem # <<>>
        /\ mem' = Tail(mem)
        /\ wk' = Dispatch(Head(mem), "drain")
     \/ /\ mem = <<>>
        /\ wk' = [wk EXCEPT !.pc = "page"]
        /\ UNCHANGED mem
  /\ page' = {}
  /\ cursor' = None
  /\ UNCHANGED faults
  /\ WorkerOnly

\* drainOnce, the next page of the spill: an error, a cancelled context or an
\* empty page ends the drain.
LoadPage ==
  /\ up
  /\ wk.pc = "page"
  /\ page = {}
  /\ \/ /\ CtxOK
        /\ page' = SpillPage
        /\ wk' = IF page' = {} THEN [wk EXCEPT !.pc = "wait"] ELSE wk
     \/ /\ DBError \/ CtxError
        /\ wk' = [wk EXCEPT !.pc = "wait"]
        /\ UNCHANGED page
  /\ UNCHANGED <<mem, cursor>>
  /\ WorkerOnly

\* drainOnce, the next row of the loaded page, a copy that may be stale.
NextRow ==
  /\ up
  /\ wk.pc = "page"
  /\ page # {}
  /\ \/ /\ ctxDone
        /\ page' = {}
        /\ wk' = [wk EXCEPT !.pc = "wait"]
        /\ UNCHANGED cursor
     \/ /\ ~ctxDone
        /\ \E r \in Oldest(page, 1) :
             /\ page' = page \ {r}
             /\ cursor' = r
             /\ wk' = Dispatch(r, "page")
  /\ UNCHANGED <<mem, faults>>
  /\ WorkerOnly

\* Only a new item or the cancelled context wakes the worker, no ticker.
WakeNoTicker ==
  /\ up
  /\ wk.pc = "wait"
  /\ \/ mem # <<>> /\ wk' = Dispatch(Head(mem), "select") /\ mem' = Tail(mem)
     \/ ctxDone /\ wk' = [wk EXCEPT !.pc = "stopped"] /\ UNCHANGED mem
  /\ UNCHANGED <<page, cursor, faults>>
  /\ WorkerOnly

\* Run's select.  Go picks any ready case: the ticker, a FlushNow nudge, a
\* new item, or the cancelled context, which ends the worker.
Wake ==
  /\ up
  /\ wk.pc = "wait"
  /\ \/ wk' = [wk EXCEPT !.pc = "drainMem"] /\ UNCHANGED mem
     \/ mem # <<>> /\ wk' = Dispatch(Head(mem), "select") /\ mem' = Tail(mem)
     \/ ctxDone /\ wk' = [wk EXCEPT !.pc = "stopped"] /\ UNCHANGED mem
  /\ UNCHANGED <<page, cursor, faults>>
  /\ WorkerOnly

\* The server stores the report.
Stored(r) ==
  /\ accepted' = accepted \cup {r}
  /\ repeated' = IF r \in accepted THEN repeated \cup {r} ELSE repeated

\* The fromSpill test forgotten: every item is treated as in-memory.
FromSpillForgotten == FALSE

FromSpill == wk.src = "page"

\* The row of a delivered report is left in the table.
SendOKKeepsRow ==
  /\ up
  /\ wk.pc = "send"
  /\ Stored(wk.item)
  /\ wk' = Return
  /\ UNCHANGED <<mem, table, attempts, cfg, call, page, cursor, prune,
                 process, now, faults, submitted, uncertain, fails, fate>>

\* send returned nil: a row has yet to be deleted, an in-memory item is done.
SendOK ==
  /\ up
  /\ wk.pc = "send"
  /\ Stored(wk.item)
  /\ wk' = IF FromSpill THEN [wk EXCEPT !.pc = "delete"] ELSE Return
  /\ UNCHANGED <<mem, table, attempts, cfg, call, page, cursor, prune,
                 process, now, faults, submitted, uncertain, fails, fate>>

\* The worker calls spillWithEviction for its in-memory item.
BeginSpill ==
  call' = [call EXCEPT ![Worker] = [pc |-> "count", item |-> wk.item,
                                    over |-> 0, cap |-> cfg.cap]]

\* The RPC failed: the server never saw the report, or it stored it and the
\* answer was lost (timeout, broken connection).
Unanswered ==
  \/ UNCHANGED <<accepted, repeated, uncertain>>
  \/ Stored(wk.item) /\ uncertain' = uncertain \cup {wk.item}

\* An in-memory item goes to the table with attempts = 1; for a row the
\* counter is incremented in place.
SendFail ==
  LET r == wk.item IN
  /\ up
  /\ wk.pc = "send"
  /\ Unanswered
  /\ fails' = [fails EXCEPT ![r] = @ + 1]
  /\ \/ /\ FromSpill
        /\ wk' = [wk EXCEPT !.pc = "increment"]
        /\ UNCHANGED <<attempts, call>>
     \/ /\ ~FromSpill
        /\ attempts' = [attempts EXCEPT ![r] = @ + 1]
        /\ wk' = [wk EXCEPT !.pc = "spill"]
        /\ BeginSpill
  /\ UNCHANGED <<mem, table, cfg, page, cursor, prune, process, now, faults,
                 submitted, fate>>

\* The shutdown branch returns without persisting the in-memory item.
SendCanceledDiscards ==
  /\ up
  /\ wk.pc = "send"
  /\ ctxDone
  /\ Unanswered
  /\ wk' = Return
  /\ UNCHANGED <<mem, table, attempts, cfg, call, page, cursor, prune,
                 process, now, faults, submitted, fails, fate>>

\* The RPC failed with context.Canceled: the attempt does not count.
SendCanceled ==
  /\ up
  /\ wk.pc = "send"
  /\ ctxDone
  /\ Unanswered
  /\ \/ FromSpill /\ wk' = Return /\ UNCHANGED call
     \/ ~FromSpill /\ wk' = [wk EXCEPT !.pc = "spill"] /\ BeginSpill
  /\ UNCHANGED <<mem, table, attempts, cfg, page, cursor, prune, process,
                 now, faults, submitted, fails, fate>>

\* SpillDelete after a successful send, or of an item past MaxAttempts.  A
\* delete that fails leaves the row, which the next drain delivers again.
SpillDelete ==
  LET r == wk.item IN
  /\ up
  /\ wk.pc \in {"delete", "drop"}
  /\ \/ /\ CtxOK
        /\ spill' = spill \ {r}
        /\ IF wk.pc = "drop" THEN Dropped({r}, "gaveUp")
                             ELSE UNCHANGED fate
        /\ UNCHANGED uncertain
     \/ /\ DBError \/ CtxError
        /\ uncertain' = IF wk.pc = "delete" THEN uncertain \cup {r}
                                            ELSE uncertain
        /\ UNCHANGED <<spill, fate>>
  /\ wk' = Return
  /\ UNCHANGED <<mem, createdAt, attempts, cfg, call, page, cursor, prune,
                 process, now, submitted, accepted, repeated, fails>>

\* An upsert where the code updates: a row deleted meanwhile comes back.
SpillUpsertAttempts ==
  LET r == wk.item IN
  /\ up
  /\ wk.pc = "increment"
  /\ CtxOK
  /\ attempts' = [attempts EXCEPT ![r] = @ + 1]
  /\ spill' = spill \cup {r}
  /\ wk' = Return
  /\ UNCHANGED <<mem, createdAt, cfg, call, page, cursor, prune, process, now,
                 history>>

\* SpillIncrementAttempts (no effect on a row deleted meanwhile), then
\* backoff, which only sleeps.
SpillIncrementAttempts ==
  LET r == wk.item IN
  /\ up
  /\ wk.pc = "increment"
  /\ \/ /\ CtxOK
        /\ attempts' = IF r \in spill THEN [attempts EXCEPT ![r] = @ + 1]
                                      ELSE attempts
     \/ (DBError \/ CtxError) /\ UNCHANGED attempts
  /\ wk' = Return
  /\ UNCHANGED <<mem, table, cfg, call, page, cursor, prune, process, now,
                 history>>

-----------------------------------------------------------------------------
\* The prune loop: at start and on each tick, by age and then by count.  The
\* configuration is read once, before the first deletion.

PruneAge ==
  LET gone == {r \in spill : createdAt[r] < now - cfg.retention} IN
  /\ up
  /\ prune.pc = "age"
  /\ prune' = [pc |-> "count", cap |-> cfg.cap]
  /\ \/ /\ CtxOK
        /\ spill' = spill \ gone
        /\ Dropped(gone, "dropped")
     \/ (DBError \/ CtxError) /\ UNCHANGED <<spill, fate>>
  /\ UNCHANGED <<mem, createdAt, attempts, cfg, call, worker, process, now,
                 submitted, accepted, repeated, uncertain, fails>>

PruneCount ==
  LET gone == BeyondNewest(spill, prune.cap) IN
  /\ up
  /\ prune.pc = "count"
  /\ prune' = [pc |-> "wait", cap |-> 1]
  /\ \/ /\ CtxOK
        /\ spill' = spill \ gone
        /\ Dropped(gone, "dropped")
     \/ (DBError \/ CtxError) /\ UNCHANGED <<spill, fate>>
  /\ UNCHANGED <<mem, createdAt, attempts, cfg, call, worker, process, now,
                 submitted, accepted, repeated, uncertain, fails>>

PruneTick ==
  /\ up
  /\ prune.pc = "wait"
  /\ prune' = [prune EXCEPT !.pc = "age"]
  /\ UNCHANGED <<mem, table, attempts, cfg, call, worker, process, now,
                 faults, history>>

-----------------------------------------------------------------------------
\* The process and its environment.

\* The server pushes new tunables (MemoryMax never changes).
UpdateConfig ==
  /\ up
  /\ cfg' \in Configs \ {cfg}
  /\ UNCHANGED <<mem, table, attempts, call, worker, prune, process, now,
                 faults, history>>

Tick ==
  /\ now < MaxClock
  /\ now' = now + 1
  /\ UNCHANGED <<mem, table, attempts, cfg, call, worker, prune, process,
                 faults, history>>

\* SIGINT or SIGTERM: main cancels the root context.
Signal ==
  /\ up
  /\ ~ctxDone
  /\ ctxDone' = TRUE
  /\ UNCHANGED <<mem, table, attempts, cfg, call, worker, prune, up,
                 restarts, now, faults, history>>

Elements(s) == {s[i] : i \in DOMAIN s}

\* Reports that exist only in the memory of the process.
InMemory ==
  Elements(mem)
    \cup {call[w].item : w \in {v \in Writers : call[v].pc # "idle"}}
    \cup (IF wk.pc = "send" /\ wk.src # "page" THEN {wk.item} ELSE {})

\* The process ends: the memory is gone, the table stays.  A worker killed
\* between a successful send and the delete could not note it.
Down(why) ==
  /\ up
  /\ up' = FALSE
  /\ Dropped(InMemory, why)
  /\ uncertain' = IF wk.pc = "delete" THEN uncertain \cup {wk.item}
                                      ELSE uncertain
  /\ mem' = <<>>
  /\ call' = [w \in Writers |-> NoCall]
  /\ wk' = Start
  /\ page' = {}
  /\ cursor' = None
  /\ prune' = [pc |-> "age", cap |-> 1]
  /\ ctxDone' = FALSE
  /\ UNCHANGED <<table, attempts, cfg, restarts, now, faults, submitted,
                 accepted, repeated, fails>>

Crash == Down("dropped")

\* Orderly shutdown: after cancel(), main waits for the scheduler's cron jobs
\* and returns; it does not wait for Outbox.Run.
Exit ==
  /\ ctxDone
  /\ \A s \in CronJobs : call[s].pc = "idle"
  /\ Down("exit")

Restart ==
  /\ ~up
  /\ restarts < MaxRestarts
  /\ up' = TRUE
  /\ restarts' = restarts + 1
  /\ cfg' \in Configs
  /\ UNCHANGED <<mem, table, attempts, call, worker, prune, ctxDone, now,
                 faults, history>>

Spilling(w) == SpillCount(w) \/ SpillEvict(w) \/ SpillEnqueue(w)

Working ==
  \/ DrainMem \/ LoadPage \/ NextRow \/ Wake
  \/ SendOK \/ SendFail \/ SendCanceled
  \/ SpillDelete \/ SpillIncrementAttempts

Pruning == PruneAge \/ PruneCount \/ PruneTick

Environment == UpdateConfig \/ Tick \/ Signal \/ Crash \/ Exit \/ Restart

Next ==
  \/ \E s \in Submitters, r \in Reports : Submit(s, r)
  \/ \E s \in Submitters : SubmitError(s)
  \/ \E w \in Writers : Spilling(w)
  \/ SpillBlind \/ SpillLost
  \/ Working
  \/ Pruning
  \/ Environment

Spec == Init /\ [][Next]_vars

\* The Go scheduler runs every goroutine that can run, the flush ticker fires,
\* and deliver's RPC returns within DeliveryTimeout.  Nothing is assumed of
\* the server, of SQLite, of the operator or of the supervisor that restarts
\* the agent.
Fairness ==
  /\ \A w \in Writers : WF_vars(Spilling(w))
  /\ \A s \in Submitters : WF_vars(SubmitError(s))
  /\ WF_vars(Working)

FairSpec == Spec /\ Fairness

-----------------------------------------------------------------------------
\* Properties.

TypeOK ==
  /\ mem \in Seq(Reports)
  /\ spill \in SUBSET Reports
  /\ createdAt \in [Reports -> Nat]
  /\ attempts \in [Reports -> Nat]
  /\ cfg \in Configs
  /\ call \in [Writers -> Calls]
  /\ wk \in WorkerStates
  /\ page \in SUBSET Reports
  /\ cursor \in Reports \cup {None}
  /\ prune \in PruneStates
  /\ up \in BOOLEAN
  /\ ctxDone \in BOOLEAN
  /\ now \in Nat
  /\ faults \in Nat
  /\ restarts \in Nat
  /\ submitted \in SUBSET Reports
  /\ accepted \in SUBSET Reports
  /\ repeated \in SUBSET Reports
  /\ uncertain \in SUBSET Reports
  /\ fails \in [Reports -> Nat]
  /\ fate \in [Reports -> Fates]

\* The goroutines that passed the cap check and have yet to write their row.
Admitted == {w \in Writers : call[w].pc = "enqueue"}

\* The row cap is checked and enforced in three separate database calls, by
\* several goroutines: the table overshoots the cap by at most one row per
\* other spilling goroutine and one per blind write of the worker.
SpillBound ==
  Cardinality(spill) + Cardinality(Admitted)
    <= MaxCap + Cardinality(Writers) - 1 + faults

\* A report has one owner at a time: the channel, a goroutine that is spilling
\* it, the worker sending it, or the table.  So no INSERT of SpillEnqueue hits
\* the primary key, and no report is delivered twice by being queued twice.
SingleOwner ==
  /\ \A i, j \in DOMAIN mem : mem[i] = mem[j] => i = j
  /\ \A v, w \in Writers :
       call[v].pc # "idle" /\ call[w].pc # "idle"
         /\ call[v].item = call[w].item => v = w
  /\ Elements(mem) \cap spill = {}
  /\ \A w \in Writers : call[w].pc # "idle" =>
       call[w].item \notin spill \cup Elements(mem)
  /\ wk.pc = "send" /\ wk.src # "page" =>
       /\ wk.item \notin spill \cup Elements(mem)
       /\ \A w \in Writers : call[w].pc # "idle" => call[w].item # wk.item

\* Reports the agent may still deliver.  A loaded page counts: its rows are
\* sent even when they were evicted or pruned from the table meanwhile.
Held == InMemory \cup spill \cup page
          \cup (IF wk.pc = "send" THEN {wk.item} ELSE {})

\* A submitted report is still held, or was stored by the server, or one of
\* the dropping branches of the code took it: no path, over crashes, shutdown,
\* failed calls and stale pages, forgets a report.
NoSilentLoss ==
  \A r \in submitted : r \in Held \cup accepted \/ fate[r] # "none"

\* The server is sent a report again only after an answer was lost or the
\* row of a stored report could not be deleted.
NoSpuriousDuplicate == repeated \subseteq uncertain

\* A report is dropped for too many attempts only after that many sends of it
\* really failed, whatever page copy, restart or new configuration decided it.
NoEarlyDrop ==
  \A r \in Reports :
    fate[r] = "gaveUp" => \E c \in Configs : fails[r] >= c.maxAttempts

\* While the process runs and is not told to stop, every submitted report is
\* delivered or dropped in the end: no report is retried or starved forever.
Settles ==
  \A r \in Reports : (r \in submitted) ~> (r \notin Held \/ ~up \/ ctxDone)

\* The redesign's promise for an orderly shutdown: what is in memory is
\* persisted, so a stop without a crash or a database error loses no report.
ShutdownKeepsReports == \A r \in Reports : fate[r] # "exit"

\* The promise the outbox makes to its callers, stated without its tiers.
Ledger == INSTANCE ReportLedger WITH held <- Held, seen <- submitted

\* The outbox implements it.
LedgerSpec == Ledger!Spec
=============================================================================
