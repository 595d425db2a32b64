---------------------------- MODULE OutboxProofs ----------------------------
(***************************************************************************)
(* Proofs about Outbox, for every number of reports, submitters, rows,     *)
(* faults and restarts.                                                    *)
(***************************************************************************)
EXTENDS Outbox, FiniteSetTheorems, WellFoundedInduction, TLAPS

\* What TypeOK needs to be inductive: a goroutine that handles a report has
\* one, a pending eviction is of at least one row, under a cap the server
\* pushed, and the table is finite.
GoodCalls ==
  {c \in Calls : /\ c.pc # "idle" => c.item \in Reports
                 /\ c.pc = "evict" => c.over >= 1
                 /\ c.cap <= MaxCap}

GoodWorkers ==
  {k \in WorkerStates :
     k.pc \in {"send", "delete", "drop", "increment", "spill"}
       => k.item \in Reports}

Inv ==
  /\ TypeOK
  /\ IsFiniteSet(spill)
  /\ call \in [Writers -> GoodCalls]
  /\ wk \in GoodWorkers

-----------------------------------------------------------------------------
\* Lemmas about the operators.

\* A configuration in force has a positive cap, at most MaxCap.
LEMMA ConfigFacts ==
  ASSUME NEW c \in Configs
  PROVE  /\ c.cap \in Nat \ {0}
         /\ c.cap <= MaxCap
         /\ 1 <= MaxCap
BY OutboxAssumption DEF Config

\* There is a configuration, so at least one row is allowed.
LEMMA MaxCapPositive == MaxCap \in Nat /\ 1 <= MaxCap
BY ConfigFacts, OutboxAssumption

\* An idle activation, and one that starts with the cap in force.
LEMMA CallFacts ==
  /\ NoCall \in GoodCalls
  /\ \A r \in Reports, n \in Nat \ {0} : n <= MaxCap =>
       [pc |-> "count", item |-> r, over |-> 0, cap |-> n] \in GoodCalls
BY MaxCapPositive DEF NoCall, GoodCalls, Calls

\* The worker's initial state is one.
LEMMA StartGood == Start \in GoodWorkers
BY DEF Start, GoodWorkers, WorkerStates

\* deliver is entered with a report.
LEMMA DispatchGood ==
  ASSUME NEW r \in Reports, NEW src \in {"drain", "select", "page"}
  PROVE  Dispatch(r, src) \in GoodWorkers
BY DEF Dispatch, GoodWorkers, WorkerStates

\* deliver returns to a state that handles no report.
LEMMA ReturnGood ==
  ASSUME wk \in GoodWorkers
  PROVE  Return \in GoodWorkers
BY DEF Return, GoodWorkers, WorkerStates

\* A move of the worker that keeps its report.
LEMMA MoveGood ==
  ASSUME wk \in GoodWorkers,
         NEW pc \in {"drainMem", "page", "wait", "stopped"}
  PROVE  [wk EXCEPT !.pc = pc] \in GoodWorkers
BY DEF GoodWorkers, WorkerStates

\* Moving an activation of the spill on keeps it well formed.
LEMMA AdvanceGood ==
  ASSUME wk \in GoodWorkers, wk.pc = "send",
         NEW pc \in {"delete", "increment", "spill"}
  PROVE  [wk EXCEPT !.pc = pc] \in GoodWorkers
BY DEF GoodWorkers, WorkerStates

\* Dropped gives every report a fate.
LEMMA DroppedType ==
  ASSUME fate \in [Reports -> Fates], NEW S, NEW why \in Fates,
         Dropped(S, why)
  PROVE  fate' \in [Reports -> Fates]
BY DEF Dropped

-----------------------------------------------------------------------------
\* Type correctness.

\* Init satisfies the invariant.
LEMMA InitInv == Init => Inv
<1> SUFFICES ASSUME Init PROVE Inv
  OBVIOUS
<1>1. call \in [Writers -> GoodCalls] /\ wk \in GoodWorkers
  BY CallFacts, StartGood DEF Init
<1>2. IsFiniteSet(spill)
  BY FS_EmptySet DEF Init
<1>3. TypeOK
  <2>1. call \in [Writers -> Calls] /\ wk \in WorkerStates
    BY <1>1 DEF GoodCalls, GoodWorkers
  <2>2. prune \in PruneStates
    BY DEF Init, PruneStates
  <2>3. fate \in [Reports -> Fates]
    BY DEF Init, Fates
  <2>4. mem \in Seq(Reports)
    BY DEF Init
  <2> QED BY <2>1, <2>2, <2>3, <2>4 DEF Init, TypeOK
<1> QED BY <1>1, <1>2, <1>3 DEF Inv

\* A submitter's report goes to the channel or starts a spill.
LEMMA SubmitInv ==
  ASSUME Inv, NEW s \in Submitters, NEW r \in Reports, Submit(s, r)
  PROVE  Inv'
<1> USE DEF Inv
<1>1. cfg.cap \in Nat \ {0} /\ cfg.cap <= MaxCap
  BY ConfigFacts DEF TypeOK
<1>2. call' \in [Writers -> GoodCalls]
  BY <1>1, CallFacts DEF Submit
<1>3. mem' \in Seq(Reports)
  <2>1. mem' \in {mem, Append(mem, r)}
    BY DEF Submit
  <2>2. mem \in Seq(Reports)
    BY DEF TypeOK
  <2> QED BY <2>1, <2>2
<1>4. TypeOK'
  BY <1>2, <1>3 DEF Submit, TypeOK, GoodCalls, table, worker, process
<1> QED BY <1>2, <1>4 DEF Submit, table, worker

\* A failed submit ends its activation.
LEMMA SubmitErrorInv ==
  ASSUME Inv, NEW s \in Submitters, SubmitError(s)
  PROVE  Inv'
<1> USE DEF Inv
<1>1. call' \in [Writers -> GoodCalls]
  BY CallFacts DEF SubmitError
<1>2. fate' \in [Reports -> Fates]
  BY DroppedType DEF SubmitError, TypeOK, Fates
<1>3. faults' \in Nat
  BY DEF SubmitError, DBError, CtxError, TypeOK
<1>4. TypeOK'
  BY <1>1, <1>2, <1>3
     DEF SubmitError, TypeOK, GoodCalls, table, worker, process
<1> QED BY <1>1, <1>4 DEF SubmitError, table, worker

\* The steps of a spill.
LEMMA SpillCountInv ==
  ASSUME Inv, NEW w \in Writers, SpillCount(w)
  PROVE  Inv'
<1> USE DEF Inv
<1> DEFINE count == Cardinality(spill)
           full  == AtCap(count, call[w].cap)
           c     == [call[w] EXCEPT
                       !.pc   = IF full THEN "evict" ELSE "enqueue",
                       !.over = IF full THEN Excess(count, call[w].cap)
                                ELSE 0]
<1>1. count \in Nat
  BY FS_CardinalityType
<1>2. call[w] \in GoodCalls
  OBVIOUS
<1>3. call[w].pc = "count" /\ call' = [call EXCEPT ![w] = c]
  BY <1>2 DEF SpillCount
<1>4. c \in GoodCalls
  <2>1. /\ call[w].cap \in Nat \ {0} /\ call[w].cap <= MaxCap
        /\ call[w].item \in Reports
    BY <1>2, <1>3 DEF GoodCalls, Calls
  <2>2. full => Excess(count, call[w].cap) \in Nat /\ Excess(count, call[w].cap) >= 1
    BY <1>1, <2>1 DEF AtCap, Excess
  <2> HIDE DEF count, full
  <2>3. CASE full
    BY <1>2, <2>1, <2>2, <2>3 DEF GoodCalls, Calls
  <2>4. CASE ~full
    BY <1>2, <2>1, <2>4 DEF GoodCalls, Calls
  <2> QED BY <2>3, <2>4
<1>5. call' \in [Writers -> GoodCalls]
  BY <1>3, <1>4
<1>6. faults' = faults
  BY DEF SpillCount, SpillOK, CtxOK
<1>7. TypeOK'
  BY <1>5, <1>6
     DEF SpillCount, TypeOK, GoodCalls, table, worker, process, history
<1> QED BY <1>5, <1>7 DEF SpillCount, table, worker

\* Eviction shrinks the table and moves the activation on.
LEMMA SpillEvictInv ==
  ASSUME Inv, NEW w \in Writers, SpillEvict(w)
  PROVE  Inv'
<1> USE DEF Inv
<1>1. call[w] \in GoodCalls
  OBVIOUS
<1>2. /\ call[w].pc = "evict"
      /\ call' = [call EXCEPT ![w] = [call[w] EXCEPT !.pc = "enqueue"]]
  BY DEF SpillEvict
<1>3. [call[w] EXCEPT !.pc = "enqueue"] \in GoodCalls
  BY <1>1, <1>2 DEF GoodCalls, Calls
<1>4. call' \in [Writers -> GoodCalls]
  BY <1>2, <1>3
<1>5. spill' \subseteq spill
  BY DEF SpillEvict
<1>6. IsFiniteSet(spill')
  BY <1>5, FS_Subset
<1>7. fate' \in [Reports -> Fates]
  BY DroppedType DEF SpillEvict, TypeOK, Fates
<1>8. faults' = faults
  BY DEF SpillEvict, SpillOK, CtxOK
<1>9. TypeOK'
  BY <1>4, <1>5, <1>7, <1>8
     DEF SpillEvict, TypeOK, GoodCalls, worker, process
<1> QED BY <1>4, <1>6, <1>9 DEF SpillEvict, worker

\* The insert adds one row to a finite table.
LEMMA SpillEnqueueInv ==
  ASSUME Inv, NEW w \in Writers, SpillEnqueue(w)
  PROVE  Inv'
<1> USE DEF Inv
<1>1. call[w] \in GoodCalls /\ call[w].pc = "enqueue"
  BY DEF SpillEnqueue
<1>2. call[w].item \in Reports
  BY <1>1 DEF GoodCalls
<1>3. call' \in [Writers -> GoodCalls]
  BY CallFacts DEF SpillEnqueue
<1>4. wk' \in GoodWorkers
  BY ReturnGood DEF SpillEnqueue
<1>5. spill' = spill \cup {call[w].item}
  BY DEF SpillEnqueue
<1>6. IsFiniteSet(spill')
  BY <1>5, FS_AddElement
<1>7. createdAt' \in [Reports -> Nat]
  <2>1. createdAt' = [createdAt EXCEPT ![call[w].item] = now]
    BY DEF SpillEnqueue
  <2> QED BY <2>1 DEF TypeOK
<1>8. faults' = faults
  BY DEF SpillEnqueue, SpillOK, CtxOK
<1>9. TypeOK'
  BY <1>2, <1>3, <1>4, <1>5, <1>7, <1>8
     DEF SpillEnqueue, TypeOK, GoodCalls, GoodWorkers, process, history
<1> QED BY <1>3, <1>4, <1>6, <1>9

\* The worker goes on to the insert after a failed count or evict.
LEMMA SpillBlindInv ==
  ASSUME Inv, SpillBlind
  PROVE  Inv'
<1> USE DEF Inv
<1>1. call[Worker] \in GoodCalls /\ Worker \in Writers
  BY DEF Writers
<1>2. /\ call[Worker].pc # "idle"
      /\ call' = [call EXCEPT ![Worker] =
                    [call[Worker] EXCEPT !.pc = "enqueue"]]
  BY DEF SpillBlind
<1>3. [call[Worker] EXCEPT !.pc = "enqueue"] \in GoodCalls
  BY <1>1, <1>2 DEF GoodCalls, Calls
<1>4. call' \in [Writers -> GoodCalls]
  BY <1>2, <1>3
<1>5. faults' \in Nat
  BY DEF SpillBlind, DBError, TypeOK
<1>6. TypeOK'
  BY <1>4, <1>5
     DEF SpillBlind, TypeOK, GoodCalls, table, worker, process, history
<1> QED BY <1>4, <1>6 DEF SpillBlind, table, worker

\* A failed insert of the worker ends its activation.
LEMMA SpillLostInv ==
  ASSUME Inv, SpillLost
  PROVE  Inv'
<1> USE DEF Inv
<1>1. call' \in [Writers -> GoodCalls]
  BY CallFacts DEF SpillLost
<1>2. wk' \in GoodWorkers
  BY ReturnGood DEF SpillLost
<1>3. fate' \in [Reports -> Fates]
  BY DroppedType DEF SpillLost, TypeOK, Fates
<1>4. faults' \in Nat
  BY DEF SpillLost, DBError, TypeOK
<1>5. TypeOK'
  BY <1>1, <1>2, <1>3, <1>4
     DEF SpillLost, TypeOK, GoodCalls, GoodWorkers, table, process
<1> QED BY <1>1, <1>2, <1>5 DEF SpillLost, table

\* The worker's moves.
LEMMA DrainMemInv ==
  ASSUME Inv, DrainMem
  PROVE  Inv'
<1> USE DEF Inv
<1>1. mem \in Seq(Reports)
  BY DEF TypeOK
<1>2. mem' \in Seq(Reports)
  <2>1. mem' = mem \/ (mem # <<>> /\ mem' = Tail(mem))
    BY DEF DrainMem
  <2> QED BY <1>1, <2>1
<1>3. wk' \in GoodWorkers
  <2>1. mem # <<>> => Head(mem) \in Reports
    BY <1>1
  <2> QED BY <2>1, DispatchGood, MoveGood DEF DrainMem
<1>4. TypeOK'
  BY <1>2, <1>3
     DEF DrainMem, WorkerOnly, TypeOK, GoodWorkers, table, process, history
<1> QED BY <1>3, <1>4 DEF DrainMem, WorkerOnly, table

\* A page holds rows of the table.
LEMMA LoadPageInv ==
  ASSUME Inv, LoadPage
  PROVE  Inv'
<1> USE DEF Inv
<1>1. page' \subseteq Reports
  BY DEF LoadPage, SpillPage, Oldest, TypeOK
<1>2. wk' \in GoodWorkers
  BY MoveGood DEF LoadPage
<1>3. faults' \in Nat
  BY DEF LoadPage, CtxOK, DBError, CtxError, TypeOK
<1>4. TypeOK'
  BY <1>1, <1>2, <1>3
     DEF LoadPage, WorkerOnly, TypeOK, GoodWorkers, table, process, history
<1> QED BY <1>2, <1>4 DEF LoadPage, WorkerOnly, table

\* The next row of the page is a report, so deliver is entered with one.
LEMMA NextRowInv ==
  ASSUME Inv, NextRow
  PROVE  Inv'
<1> USE DEF Inv
<1>1. /\ page' \subseteq Reports
      /\ cursor' \in Reports \cup {None}
      /\ wk' \in GoodWorkers
  <2>1. CASE ctxDone
    BY <2>1, MoveGood DEF NextRow, TypeOK
  <2>2. CASE ~ctxDone
    <3>1. PICK r \in Oldest(page, 1) : /\ page' = page \ {r}
                                       /\ cursor' = r
                                       /\ wk' = Dispatch(r, "page")
      BY <2>2 DEF NextRow
    <3>2. r \in Reports /\ page \subseteq Reports
      BY DEF Oldest, TypeOK
    <3> QED BY <3>1, <3>2, DispatchGood
  <2> QED BY <2>1, <2>2
<1>2. TypeOK'
  BY <1>1
     DEF NextRow, WorkerOnly, TypeOK, GoodWorkers, table, process, history
<1> QED BY <1>1, <1>2 DEF NextRow, WorkerOnly, table

\* Run's select hands deliver the head of the channel.
LEMMA WakeInv ==
  ASSUME Inv, Wake
  PROVE  Inv'
<1> USE DEF Inv
<1>1. mem \in Seq(Reports)
  BY DEF TypeOK
<1>2. mem' \in Seq(Reports)
  <2>1. mem' = mem \/ (mem # <<>> /\ mem' = Tail(mem))
    BY DEF Wake
  <2> QED BY <1>1, <2>1
<1>3. wk' \in GoodWorkers
  <2>1. mem # <<>> => Head(mem) \in Reports
    BY <1>1
  <2> QED BY <2>1, DispatchGood, MoveGood DEF Wake
<1>4. TypeOK'
  BY <1>2, <1>3
     DEF Wake, WorkerOnly, TypeOK, GoodWorkers, table, process, history
<1> QED BY <1>3, <1>4 DEF Wake, WorkerOnly, table

\* The outcomes of a send.  The worker sends a report.
LEMMA SendingReport ==
  ASSUME Inv, wk.pc \in {"send", "delete", "drop", "increment"}
  PROVE  wk.item \in Reports
BY DEF Inv, GoodWorkers

\* A delivered row is still the worker's item until its delete.
LEMMA SendOKInv ==
  ASSUME Inv, SendOK
  PROVE  Inv'
<1> USE DEF Inv
<1>1. wk.pc = "send" /\ wk.item \in Reports
  BY SendingReport DEF SendOK
<1>2. wk' \in GoodWorkers
  BY <1>1, ReturnGood, AdvanceGood DEF SendOK
<1>3. accepted' \subseteq Reports /\ repeated' \subseteq Reports
  BY <1>1 DEF SendOK, Stored, TypeOK
<1>4. TypeOK'
  BY <1>2, <1>3 DEF SendOK, TypeOK, GoodWorkers, table, process
<1> QED BY <1>2, <1>4 DEF SendOK, table

\* Whatever the server did with an unanswered report, the history stays typed,
\* and the worker's spill starts under the cap in force.
LEMMA UnansweredFacts ==
  ASSUME Inv, wk.pc = "send", Unanswered
  PROVE  /\ accepted' \subseteq Reports
         /\ repeated' \subseteq Reports
         /\ uncertain' \subseteq Reports
         /\ BeginSpill => call' \in [Writers -> GoodCalls]
<1> USE DEF Inv
<1>1. wk.item \in Reports
  BY SendingReport
<1>2. cfg.cap \in Nat \ {0} /\ cfg.cap <= MaxCap
  BY ConfigFacts DEF TypeOK
<1>3. BeginSpill => call' \in [Writers -> GoodCalls]
  BY <1>1, <1>2, CallFacts DEF BeginSpill
<1> QED BY <1>1, <1>3 DEF Unanswered, Stored, TypeOK

\* A failed send starts a spill or an increment for the same report.
LEMMA SendFailInv ==
  ASSUME Inv, SendFail
  PROVE  Inv'
<1> USE DEF Inv
<1>1. wk.pc = "send" /\ Unanswered
  BY DEF SendFail
<1>2. wk' \in GoodWorkers
  BY <1>1, AdvanceGood DEF SendFail
<1>3. call' \in [Writers -> GoodCalls]
  BY <1>1, UnansweredFacts DEF SendFail
<1>4. attempts' \in [Reports -> Nat] /\ fails' \in [Reports -> Nat]
  <2>1. /\ \/ attempts' = attempts
           \/ attempts' = [attempts EXCEPT ![wk.item] = attempts[wk.item] + 1]
        /\ fails' = [fails EXCEPT ![wk.item] = fails[wk.item] + 1]
    BY DEF SendFail
  <2>2. /\ attempts \in [Reports -> Nat] /\ fails \in [Reports -> Nat]
        /\ wk.item \in Reports
    BY <1>1, SendingReport DEF TypeOK
  <2>3. [attempts EXCEPT ![wk.item] = attempts[wk.item] + 1]
          \in [Reports -> Nat]
    BY <2>2
  <2> QED BY <2>1, <2>2, <2>3
<1>5. TypeOK'
  BY <1>1, <1>2, <1>3, <1>4, UnansweredFacts
     DEF SendFail, TypeOK, GoodCalls, GoodWorkers, table, process
<1> QED BY <1>2, <1>3, <1>5 DEF SendFail, table

\* A cancelled send starts a spill for the same report, or ends.
LEMMA SendCanceledInv ==
  ASSUME Inv, SendCanceled
  PROVE  Inv'
<1> USE DEF Inv
<1>1. wk.pc = "send" /\ Unanswered
  BY DEF SendCanceled
<1>2. wk' \in GoodWorkers
  BY <1>1, AdvanceGood, ReturnGood DEF SendCanceled
<1>3. call' \in [Writers -> GoodCalls]
  BY <1>1, UnansweredFacts DEF SendCanceled
<1>4. TypeOK'
  BY <1>1, <1>2, <1>3, UnansweredFacts
     DEF SendCanceled, TypeOK, GoodCalls, GoodWorkers, table, process
<1> QED BY <1>2, <1>3, <1>4 DEF SendCanceled, table

\* The delete shrinks the table.
LEMMA SpillDeleteInv ==
  ASSUME Inv, SpillDelete
  PROVE  Inv'
<1> USE DEF Inv
<1>1. wk.item \in Reports
  BY SendingReport DEF SpillDelete
<1>2. wk' \in GoodWorkers
  BY ReturnGood DEF SpillDelete
<1>3. spill' \subseteq spill /\ uncertain' \subseteq Reports
  BY <1>1 DEF SpillDelete, TypeOK
<1>4. IsFiniteSet(spill')
  BY <1>3, FS_Subset
<1>5. fate' \in [Reports -> Fates]
  BY DroppedType DEF SpillDelete, TypeOK, Fates
<1>6. faults' \in Nat
  BY DEF SpillDelete, CtxOK, DBError, CtxError, TypeOK
<1>7. TypeOK'
  BY <1>2, <1>3, <1>5, <1>6
     DEF SpillDelete, TypeOK, GoodWorkers, process
<1> QED BY <1>2, <1>4, <1>7 DEF SpillDelete

\* The increment changes a counter and ends deliver.
LEMMA SpillIncrementAttemptsInv ==
  ASSUME Inv, SpillIncrementAttempts
  PROVE  Inv'
<1> USE DEF Inv
<1>1. wk' \in GoodWorkers
  BY ReturnGood DEF SpillIncrementAttempts
<1>2. attempts' \in [Reports -> Nat]
  <2>1. \/ attempts' = attempts
        \/ attempts' = [attempts EXCEPT ![wk.item] = attempts[wk.item] + 1]
    BY DEF SpillIncrementAttempts
  <2>2. attempts \in [Reports -> Nat] /\ wk.item \in Reports
    BY SendingReport DEF TypeOK, SpillIncrementAttempts
  <2>3. [attempts EXCEPT ![wk.item] = attempts[wk.item] + 1]
          \in [Reports -> Nat]
    BY <2>2
  <2> QED BY <2>1, <2>2, <2>3
<1>3. faults' \in Nat
  BY DEF SpillIncrementAttempts, CtxOK, DBError, CtxError, TypeOK
<1>4. TypeOK'
  BY <1>1, <1>2, <1>3
     DEF SpillIncrementAttempts, TypeOK, GoodWorkers, table, process, history
<1> QED BY <1>1, <1>4 DEF SpillIncrementAttempts, table

\* The prune loop only removes rows.
LEMMA PruneAgeInv ==
  ASSUME Inv, PruneAge
  PROVE  Inv'
<1> USE DEF Inv
<1>1. spill' \subseteq spill
  BY DEF PruneAge
<1>2. IsFiniteSet(spill')
  BY <1>1, FS_Subset
<1>3. prune' \in PruneStates
  BY ConfigFacts DEF PruneAge, PruneStates, TypeOK
<1>4. fate' \in [Reports -> Fates]
  BY DroppedType DEF PruneAge, TypeOK, Fates
<1>5. faults' \in Nat
  BY DEF PruneAge, CtxOK, DBError, CtxError, TypeOK
<1>6. TypeOK'
  BY <1>1, <1>3, <1>4, <1>5 DEF PruneAge, TypeOK, worker, process
<1> QED BY <1>2, <1>6 DEF PruneAge, worker

\* Pruning by count shrinks the table.
LEMMA PruneCountInv ==
  ASSUME Inv, PruneCount
  PROVE  Inv'
<1> USE DEF Inv
<1>1. spill' \subseteq spill
  BY DEF PruneCount
<1>2. IsFiniteSet(spill')
  BY <1>1, FS_Subset
<1>3. prune' \in PruneStates
  BY ConfigFacts DEF PruneCount, PruneStates, TypeOK
<1>4. fate' \in [Reports -> Fates]
  BY DroppedType DEF PruneCount, TypeOK, Fates
<1>5. faults' \in Nat
  BY DEF PruneCount, CtxOK, DBError, CtxError, TypeOK
<1>6. TypeOK'
  BY <1>1, <1>3, <1>4, <1>5 DEF PruneCount, TypeOK, worker, process
<1> QED BY <1>2, <1>6 DEF PruneCount, worker

\* The prune ticker changes the prune loop alone.
LEMMA PruneTickInv ==
  ASSUME Inv, PruneTick
  PROVE  Inv'
<1> USE DEF Inv
<1>1. prune' \in PruneStates
  BY DEF PruneTick, PruneStates, TypeOK
<1>2. TypeOK'
  BY <1>1 DEF PruneTick, TypeOK, table, worker, process, history
<1> QED BY <1>2 DEF PruneTick, table, worker

\* The process and its environment.
LEMMA DownInv ==
  ASSUME Inv, NEW why \in Fates, Down(why)
  PROVE  Inv'
<1> USE DEF Inv
<1>1. call' \in [Writers -> GoodCalls]
  BY CallFacts DEF Down
<1>2. wk' \in GoodWorkers
  BY StartGood DEF Down
<1>3. fate' \in [Reports -> Fates]
  BY DroppedType DEF Down, TypeOK
<1>4. uncertain' \subseteq Reports
  BY SendingReport DEF Down, TypeOK
<1>5. prune' \in PruneStates /\ mem' \in Seq(Reports)
  BY DEF Down, PruneStates
<1>6. TypeOK'
  BY <1>1, <1>2, <1>3, <1>4, <1>5
     DEF Down, TypeOK, GoodCalls, GoodWorkers, table
<1> QED BY <1>1, <1>2, <1>6 DEF Down, table

\* The clock, the configuration, the signal, the end and the restart.
LEMMA EnvironmentInv ==
  ASSUME Inv, Environment
  PROVE  Inv'
<1> USE DEF Inv
<1>1. CASE UpdateConfig
  BY <1>1 DEF UpdateConfig, TypeOK, table, worker, process, history
<1>2. CASE Tick
  BY <1>2 DEF Tick, TypeOK, table, worker, process, history
<1>3. CASE Signal
  BY <1>3 DEF Signal, TypeOK, table, worker, process, history
<1>4. CASE Crash
  BY <1>4, DownInv DEF Crash, Fates
<1>5. CASE Exit
  BY <1>5, DownInv DEF Exit, Fates
<1>6. CASE Restart
  BY <1>6 DEF Restart, TypeOK, table, worker, history
<1> QED BY <1>1, <1>2, <1>3, <1>4, <1>5, <1>6 DEF Environment

\* Every step preserves the invariant.
LEMMA NextInv == Inv /\ [Next]_vars => Inv'
<1> SUFFICES ASSUME Inv, [Next]_vars PROVE Inv'
  OBVIOUS
<1>1. ASSUME NEW s \in Submitters, NEW r \in Reports, Submit(s, r)
      PROVE  Inv'
  BY <1>1, SubmitInv
<1>2. ASSUME NEW s \in Submitters, SubmitError(s)
      PROVE  Inv'
  BY <1>2, SubmitErrorInv
<1>3. ASSUME NEW w \in Writers, Spilling(w)
      PROVE  Inv'
  BY <1>3, SpillCountInv, SpillEvictInv, SpillEnqueueInv DEF Spilling
<1>4. CASE SpillBlind \/ SpillLost
  BY <1>4, SpillBlindInv, SpillLostInv
<1>5. CASE Working
  BY <1>5, DrainMemInv, LoadPageInv, NextRowInv, WakeInv, SendOKInv,
     SendFailInv, SendCanceledInv, SpillDeleteInv, SpillIncrementAttemptsInv
     DEF Working
<1>6. CASE Pruning
  BY <1>6, PruneAgeInv, PruneCountInv, PruneTickInv DEF Pruning
<1>7. CASE Environment
  BY <1>7, EnvironmentInv
<1>8. CASE UNCHANGED vars
  BY <1>8
     DEF vars, Inv, TypeOK, table, worker, process, history
<1> QED BY <1>1, <1>2, <1>3, <1>4, <1>5, <1>6, <1>7, <1>8 DEF Next

\* Type correctness of the outbox, in every behaviour of the code the model
\* has: whatever fails, and over crashes and restarts.
THEOREM TypeCorrect == Spec => []TypeOK
<1>1. Inv => TypeOK
  BY DEF Inv
<1> QED BY InitInv, NextInv, <1>1, PTL DEF Spec

-----------------------------------------------------------------------------
\* The bound of the spill table.

\* The order of the table: by created_at, then by id.
LEMMA OlderOrder ==
  ASSUME TypeOK, NEW p \in Reports, NEW q \in Reports, NEW r \in Reports
  PROVE  /\ ~Older(r, r)
         /\ Older(p, q) /\ Older(q, r) => Older(p, r)
BY OutboxAssumption DEF Older, TypeOK

\* A nonempty finite table has an oldest row, so an eviction removes one.
LEMMA OldestNonempty ==
  ASSUME TypeOK, NEW S \in SUBSET Reports, IsFiniteSet(S), S # {},
         NEW n \in Nat, n >= 1
  PROVE  Oldest(S, n) # {}
<1> DEFINE Before(r) == {q \in S : Older(q, r)}
           T == {Before(r) : r \in S}
           R == StrictSubsetOrdering(S)
<1>1. T \subseteq FiniteSubsetsOf(S)
  BY FS_Subset DEF FiniteSubsetsOf
<1>2. IsWellFoundedOn(R, FiniteSubsetsOf(S))
  BY FS_StrictSubsetOrderingWellFounded
<1>3. T # {}
  OBVIOUS
<1>4. PICK x \in T : \A y \in T : ~(<<y, x>> \in R)
  <2> HIDE DEF R, T
  <2> QED BY <1>1, <1>2, <1>3, WFMin
<1>5. PICK r \in S : x = Before(r)
  BY <1>4
<1>6. Before(r) = {}
  <2> SUFFICES ASSUME NEW q \in Before(r) PROVE FALSE
    OBVIOUS
  <2>1. Before(q) \subseteq Before(r)
    BY OlderOrder
  <2>2. q \in Before(r) /\ q \notin Before(q)
    BY OlderOrder
  <2>3. <<Before(q), Before(r)>> \in R
    BY <2>1, <2>2 DEF StrictSubsetOrdering
  <2> QED BY <1>4, <1>5, <2>3
<1>7. Cardinality(Before(r)) = 0
  BY <1>6, FS_EmptySet
<1>8. Cardinality(Before(r)) < n
  <2> HIDE DEF Before
  <2> QED BY <1>7
<1> QED BY <1>5, <1>8 DEF Oldest

\* Cardinalities of the sets the bound is about.
LEMMA SizeFacts ==
  ASSUME Inv
  PROVE  /\ IsFiniteSet(Writers)
         /\ Cardinality(Writers) \in Nat
         /\ IsFiniteSet(Admitted)
         /\ Cardinality(Admitted) \in Nat
         /\ Cardinality(Admitted) <= Cardinality(Writers)
         /\ Cardinality(spill) \in Nat
         /\ faults \in Nat
         /\ MaxCap \in Nat
<1>1. IsFiniteSet(Writers)
  BY OutboxAssumption, FS_AddElement DEF Writers
<1>2. Admitted \subseteq Writers
  BY DEF Admitted
<1>3. IsFiniteSet(Admitted) /\ Cardinality(Admitted) <= Cardinality(Writers)
  BY <1>1, <1>2, FS_Subset
<1> QED BY <1>1, <1>3, FS_CardinalityType, OutboxAssumption DEF Inv, TypeOK

\* A step that adds no row and admits no goroutine keeps the bound.
LEMMA BoundKept ==
  ASSUME Inv, Inv', SpillBound, spill' \subseteq spill,
         Admitted' \subseteq Admitted, faults' >= faults
  PROVE  SpillBound'
<1>1. /\ Cardinality(spill') <= Cardinality(spill)
      /\ Cardinality(spill') \in Nat
  BY FS_Subset, FS_CardinalityType DEF Inv
<1>2. /\ Cardinality(Admitted') <= Cardinality(Admitted)
      /\ Cardinality(Admitted') \in Nat
  BY SizeFacts, FS_Subset, FS_CardinalityType
<1>3. faults' \in Nat
  BY DEF Inv, TypeOK
<1> QED BY <1>1, <1>2, <1>3, SizeFacts DEF SpillBound

\* Reading the count admits a goroutine only below the cap.
LEMMA SpillCountBound ==
  ASSUME Inv, Inv', SpillBound, NEW w \in Writers, SpillCount(w)
  PROVE  SpillBound'
<1>1. call \in [Writers -> GoodCalls] /\ call[w] \in GoodCalls
  BY DEF Inv
<1>2. spill' = spill /\ faults' = faults
  BY DEF SpillCount, table, SpillOK, CtxOK
<1>3. CASE AtCap(Cardinality(spill), call[w].cap)
  <2>1. /\ \A v \in Writers \ {w} : call'[v] = call[v]
        /\ call'[w].pc = "evict"
    BY <1>1, <1>3 DEF SpillCount, GoodCalls, Calls
  <2>2. Admitted' \subseteq Admitted
    BY <2>1 DEF Admitted
  <2>3. faults' >= faults
    BY <1>2, SizeFacts
  <2> QED BY <1>2, <2>2, <2>3, BoundKept
<1>4. CASE ~AtCap(Cardinality(spill), call[w].cap)
  <2>1. Cardinality(spill) <= MaxCap - 1
    BY <1>1, <1>4, SizeFacts DEF AtCap, GoodCalls, Calls
  <2>2. Admitted' \subseteq Writers
    BY DEF Admitted
  <2>3. /\ Cardinality(Admitted') <= Cardinality(Writers)
        /\ Cardinality(Admitted') \in Nat
    BY <2>2, SizeFacts, FS_Subset, FS_CardinalityType
  <2> QED BY <1>2, <2>1, <2>3, SizeFacts DEF SpillBound
<1> QED BY <1>3, <1>4

\* An eviction removes at least one row for the goroutine it admits, unless
\* the table is empty.
LEMMA SpillEvictBound ==
  ASSUME Inv, Inv', SpillBound, NEW w \in Writers, SpillEvict(w)
  PROVE  SpillBound'
<1> DEFINE gone == Oldest(spill, call[w].over)
<1>1. /\ call \in [Writers -> GoodCalls] /\ call[w] \in GoodCalls
      /\ call[w].pc = "evict"
  BY DEF Inv, SpillEvict
<1>2. call[w].over \in Nat /\ call[w].over >= 1
  BY <1>1 DEF GoodCalls, Calls
<1>3. spill' = spill \ gone /\ faults' = faults
  BY DEF SpillEvict, SpillOK, CtxOK
<1>4. Admitted' = Admitted \cup {w} /\ w \notin Admitted
  <2>1. /\ \A v \in Writers \ {w} : call'[v] = call[v]
        /\ call'[w].pc = "enqueue"
    BY <1>1 DEF SpillEvict, GoodCalls, Calls
  <2> QED BY <1>1, <2>1 DEF Admitted
<1>5. /\ Cardinality(Admitted') = Cardinality(Admitted) + 1
      /\ Cardinality(Admitted') <= Cardinality(Writers)
  <2>1. Admitted' \subseteq Writers
    BY DEF Admitted
  <2> QED BY <1>4, <2>1, SizeFacts, FS_AddElement, FS_Subset
<1>6. CASE spill = {}
  <2>1. Cardinality(spill') = 0
    BY <1>3, <1>6, FS_EmptySet
  <2> QED BY <1>3, <1>5, <2>1, SizeFacts, MaxCapPositive DEF SpillBound
<1>7. CASE spill # {}
  <2>1. gone # {}
    BY <1>2, <1>7, OldestNonempty DEF Inv, TypeOK
  <2>2. PICK r \in gone : TRUE
    BY <2>1
  <2>3. r \in spill /\ spill' \subseteq spill \ {r}
    BY <1>3, <2>2 DEF Oldest
  <2>4. /\ IsFiniteSet(spill \ {r})
        /\ Cardinality(spill \ {r}) = Cardinality(spill) - 1
    BY <2>3, FS_RemoveElement DEF Inv
  <2>5. /\ Cardinality(spill') <= Cardinality(spill) - 1
        /\ Cardinality(spill') \in Nat
    BY <2>3, <2>4, FS_Subset, FS_CardinalityType
  <2> QED BY <1>3, <1>5, <2>5, SizeFacts DEF SpillBound
<1> QED BY <1>6, <1>7

\* The row an admitted goroutine writes was counted when it was admitted.
LEMMA SpillEnqueueBound ==
  ASSUME Inv, Inv', SpillBound, NEW w \in Writers, SpillEnqueue(w)
  PROVE  SpillBound'
<1>1. call \in [Writers -> GoodCalls] /\ call[w].pc = "enqueue"
  BY DEF Inv, SpillEnqueue
<1>2. spill' = spill \cup {call[w].item} /\ faults' = faults
  BY DEF SpillEnqueue, SpillOK, CtxOK
<1>3. Admitted' = Admitted \ {w} /\ w \in Admitted
  <2>1. /\ \A v \in Writers \ {w} : call'[v] = call[v]
        /\ call'[w].pc = "idle"
    BY <1>1 DEF SpillEnqueue, NoCall
  <2> QED BY <1>1, <2>1 DEF Admitted
<1>4. Cardinality(Admitted') = Cardinality(Admitted) - 1
  BY <1>3, SizeFacts, FS_RemoveElement
<1>5. /\ Cardinality(spill') <= Cardinality(spill) + 1
      /\ Cardinality(spill') \in Nat
  <2>1. IsFiniteSet(spill)
    BY DEF Inv
  <2>2. /\ IsFiniteSet(spill')
        /\ Cardinality(spill') = IF call[w].item \in spill
                                 THEN Cardinality(spill)
                                 ELSE Cardinality(spill) + 1
    BY <1>2, <2>1, FS_AddElement
  <2> QED BY <2>2, SizeFacts
<1> QED BY <1>2, <1>4, <1>5, SizeFacts DEF SpillBound

\* A blind write is a fault.
LEMMA SpillBlindBound ==
  ASSUME Inv, Inv', SpillBound, SpillBlind
  PROVE  SpillBound'
<1>1. call \in [Writers -> GoodCalls] /\ Worker \in Writers
  BY DEF Inv, Writers
<1>2. spill' = spill /\ faults' = faults + 1
  BY DEF SpillBlind, DBError, table
<1>3. Admitted' = Admitted \cup {Worker}
  <2>1. /\ \A v \in Writers \ {Worker} : call'[v] = call[v]
        /\ call'[Worker].pc = "enqueue"
    BY <1>1 DEF SpillBlind, GoodCalls, Calls
  <2> QED BY <1>1, <2>1 DEF Admitted
<1>4. /\ Cardinality(Admitted') <= Cardinality(Admitted) + 1
      /\ Cardinality(Admitted') \in Nat
  <2>1. Cardinality(Admitted') = IF Worker \in Admitted
                                 THEN Cardinality(Admitted)
                                 ELSE Cardinality(Admitted) + 1
    BY <1>3, SizeFacts, FS_AddElement
  <2> QED BY <2>1, SizeFacts
<1> QED BY <1>2, <1>4, SizeFacts DEF SpillBound

\* Every step keeps the bound.
LEMMA NextBound ==
  ASSUME Inv, Inv', SpillBound, [Next]_vars
  PROVE  SpillBound'
<1>1. call \in [Writers -> GoodCalls] /\ faults \in Nat
  BY DEF Inv, TypeOK
<1>2. ASSUME NEW s \in Submitters, NEW r \in Reports, Submit(s, r)
      PROVE  SpillBound'
  <2>1. spill' = spill /\ faults' = faults
    BY <1>2 DEF Submit, table
  <2>2. Admitted' \subseteq Admitted
    BY <1>1, <1>2 DEF Submit, Admitted, Writers
  <2> QED BY <1>1, <2>1, <2>2, BoundKept
<1>3. ASSUME NEW s \in Submitters, SubmitError(s)
      PROVE  SpillBound'
  <2>1. spill' = spill /\ faults' >= faults
    BY <1>1, <1>3 DEF SubmitError, table, DBError, CtxError
  <2>2. Admitted' \subseteq Admitted
    BY <1>1, <1>3 DEF SubmitError, Admitted, Writers, NoCall
  <2> QED BY <2>1, <2>2, BoundKept
<1>4. ASSUME NEW w \in Writers, Spilling(w)
      PROVE  SpillBound'
  BY <1>4, SpillCountBound, SpillEvictBound, SpillEnqueueBound DEF Spilling
<1>5. CASE SpillBlind
  BY <1>5, SpillBlindBound
<1>6. CASE SpillLost
  <2>1. spill' = spill /\ faults' >= faults
    BY <1>1, <1>6 DEF SpillLost, table, DBError
  <2>2. Admitted' \subseteq Admitted
    BY <1>1, <1>6 DEF SpillLost, Admitted, Writers, NoCall
  <2> QED BY <2>1, <2>2, BoundKept
<1>7. CASE Working
  <2>1. spill' \subseteq spill
    BY <1>7 DEF Working, DrainMem, LoadPage, NextRow, Wake, SendOK, SendFail,
         SendCanceled, SpillDelete, SpillIncrementAttempts, WorkerOnly, table
  <2>2. faults' >= faults
    BY <1>1, <1>7
       DEF Working, DrainMem, LoadPage, NextRow, Wake, SendOK, SendFail,
         SendCanceled, SpillDelete, SpillIncrementAttempts,
         CtxOK, DBError, CtxError
  <2>3. call' = call \/ BeginSpill
    BY <1>7 DEF Working, DrainMem, LoadPage, NextRow, Wake, SendOK, SendFail,
         SendCanceled, SpillDelete, SpillIncrementAttempts, WorkerOnly
  <2>4. Admitted' \subseteq Admitted
    BY <1>1, <2>3 DEF BeginSpill, Admitted, Writers
  <2> QED BY <2>1, <2>2, <2>4, BoundKept
<1>8. CASE Pruning
  <2>1. spill' \subseteq spill /\ call' = call
    BY <1>8 DEF Pruning, PruneAge, PruneCount, PruneTick, table
  <2>2. faults' >= faults
    BY <1>1, <1>8 DEF Pruning, PruneAge, PruneCount, PruneTick,
                      CtxOK, DBError, CtxError
  <2> QED BY <2>1, <2>2, BoundKept DEF Admitted
<1>9. CASE Environment
  <2>1. spill' = spill /\ faults' = faults
    BY <1>9 DEF Environment, UpdateConfig, Tick, Signal, Crash, Exit, Down,
                Restart, table
  <2>2. call' = call \/ call' = [w \in Writers |-> NoCall]
    BY <1>9 DEF Environment, UpdateConfig, Tick, Signal, Crash, Exit, Down,
                Restart
  <2>3. Admitted' \subseteq Admitted
    BY <2>2 DEF Admitted, NoCall
  <2> QED BY <1>1, <2>1, <2>3, BoundKept
<1>10. CASE UNCHANGED vars
  BY <1>1, <1>10, BoundKept DEF vars, table, Admitted
<1> QED BY <1>2, <1>3, <1>4, <1>5, <1>6, <1>7, <1>8, <1>9, <1>10 DEF Next

\* At the start the table is empty and nobody spills.
LEMMA InitBound == Init => SpillBound
<1> SUFFICES ASSUME Init PROVE SpillBound
  OBVIOUS
<1>1. Inv
  BY InitInv
<1>2. spill = {} /\ Admitted = {} /\ faults = 0
  BY DEF Init, Admitted, NoCall
<1>3. Cardinality(spill) = 0 /\ Cardinality(Admitted) = 0
  BY <1>2, FS_EmptySet
<1> QED BY <1>1, <1>2, <1>3, SizeFacts, MaxCapPositive DEF SpillBound

\* The spill table stays within the cap, one row for each other goroutine
\* that may be spilling and one for each blind write, however the separate
\* count, evict and enqueue calls of submit and spillWithEviction interleave.
THEOREM SpillBounded == Spec => []SpillBound
<1>1. Inv /\ SpillBound /\ [Next]_vars => Inv' /\ SpillBound'
  BY NextInv, NextBound
<1> QED BY InitInv, InitBound, <1>1, PTL DEF Spec
=============================================================================
