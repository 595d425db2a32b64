------------------------- MODULE OutboxLedgerProofs -------------------------
(***************************************************************************)
(* Proofs that no report of the outbox is owned twice, lost silently, sent *)
(* twice without cause or given up too early, and that the outbox          *)
(* implements ReportLedger.                                                *)
(***************************************************************************)
EXTENDS OutboxProofs

\* Reports in the channel, those a goroutine is spilling, the in-memory
\* report being sent, the worker's copy of a row, the report being sent.
Queued   == Elements(mem)
Spilled  == {call[w].item : w \in {v \in Writers : call[v].pc # "idle"}}
InFlight == IF wk.pc = "send" /\ wk.src # "page" THEN {wk.item} ELSE {}
RowCopy  == IF wk.src = "page" THEN {wk.item} ELSE {}
Sending  == IF wk.pc = "send" THEN {wk.item} ELSE {}

\* Which of deliver's states handle a row, and the worker's own activation of
\* spillWithEviction.
Shape ==
  /\ wk.src = "page" => wk.pc \in {"send", "delete", "drop", "increment"}
  /\ wk.pc \in {"delete", "drop", "increment"} => wk.src = "page"
  /\ wk.pc = "spill" <=> call[Worker].pc # "idle"

QueuedOnce == \A i, j \in DOMAIN mem : mem[i] = mem[j] => i = j

SpilledOnce ==
  \A v, w \in Writers :
    call[v].pc # "idle" /\ call[w].pc # "idle" /\ call[v].item = call[w].item
      => v = w

\* The tiers that hold a report are disjoint; a loaded page and the worker's
\* copy of a row are copies of rows only.
Tiers ==
  /\ QueuedOnce
  /\ SpilledOnce
  /\ Queued \cap spill = {}
  /\ Spilled \cap (spill \cup Queued) = {}
  /\ InFlight \cap (spill \cup Queued \cup Spilled) = {}
  /\ (page \cup RowCopy) \cap (Queued \cup Spilled \cup InFlight) = {}
  /\ RowCopy \cap page = {}

\* A report that was not handed over is nowhere.
Known ==
  Queued \cup Spilled \cup InFlight \cup spill \cup page \cup RowCopy
    \cup accepted \subseteq submitted

\* Only a report that went to the table has failed attempts.
Fresh == \A r \in Reports : r \in Queued \/ r \notin submitted => attempts[r] = 0

\* Where a submitted report is, and why a stored one may be sent again.
Settled ==
  /\ \A r \in submitted :
       r \in Queued \cup Spilled \cup InFlight \cup spill \cup accepted
         \/ fate[r] # "none"
  /\ wk.pc = "delete" => wk.item \in accepted
  /\ \A r \in accepted \cap Held :
       r \in uncertain \/ (wk.pc = "delete" /\ wk.item = r)
  /\ NoSpuriousDuplicate

\* The attempts counted are sends that failed, the one being counted included.
Counted ==
  /\ \A r \in Reports :
       /\ attempts[r] <= fails[r]
       /\ wk.pc = "increment" /\ wk.item = r => attempts[r] + 1 <= fails[r]
  /\ wk.pc = "drop" => \E c \in Configs : attempts[wk.item] >= c.maxAttempts
  /\ NoEarlyDrop

History == Known /\ Fresh /\ Settled /\ Counted

Owners == Inv /\ Shape /\ Tiers /\ History

-----------------------------------------------------------------------------
\* Lemmas about the tiers.

\* The tiers make up what is in memory and what is held.
LEMMA TierSets ==
  /\ InMemory = Queued \cup Spilled \cup InFlight
  /\ Held = Queued \cup Spilled \cup InFlight \cup spill \cup page \cup Sending
  /\ Held' = (Queued \cup Spilled \cup InFlight \cup spill \cup page \cup Sending)'
BY DEF InMemory, Held, Queued, Spilled, InFlight, Sending

\* Disjoint tiers give every report one owner.
LEMMA TiersSingle == Tiers => SingleOwner
<1> SUFFICES ASSUME Tiers PROVE SingleOwner
  OBVIOUS
<1>1. \A w \in Writers : call[w].pc # "idle" => call[w].item \in Spilled
  BY DEF Spilled
<1>2. wk.pc = "send" /\ wk.src # "page" => InFlight = {wk.item}
  BY DEF InFlight
<1>3. \A w \in Writers : call[w].pc # "idle" =>
        call[w].item \notin spill \cup Elements(mem)
  BY <1>1 DEF Tiers, Queued
<1>4. wk.pc = "send" /\ wk.src # "page" =>
        /\ wk.item \notin spill \cup Elements(mem)
        /\ \A w \in Writers : call[w].pc # "idle" => call[w].item # wk.item
  BY <1>1, <1>2 DEF Tiers, Queued
<1> QED BY <1>3, <1>4 DEF Tiers, SingleOwner, Queued, QueuedOnce, SpilledOnce

\* The other goals, read off the history.
LEMMA HistoryGoals ==
  Settled /\ Counted => NoSilentLoss /\ NoSpuriousDuplicate /\ NoEarlyDrop
BY TierSets DEF Settled, Counted, NoSilentLoss

\* A report joins the end of the channel.
LEMMA QueueAppend ==
  ASSUME mem \in Seq(Reports), NEW r \in Reports, mem' = Append(mem, r)
  PROVE  /\ Queued' = Queued \cup {r}
         /\ QueuedOnce /\ r \notin Queued => QueuedOnce'
<1>1. /\ DOMAIN mem = 1..Len(mem) /\ DOMAIN mem' = 1..(Len(mem) + 1)
      /\ Len(mem) \in Nat
      /\ \A i \in 1..Len(mem) : mem'[i] = mem[i]
      /\ mem'[Len(mem) + 1] = r
  OBVIOUS
<1>2. Queued' = Queued \cup {r}
  <2>1. Queued' \subseteq Queued \cup {r}
    BY <1>1 DEF Queued, Elements
  <2>2. Queued \subseteq Queued'
    BY <1>1 DEF Queued, Elements
  <2>3. r \in Queued'
    BY <1>1 DEF Queued, Elements
  <2> QED BY <2>1, <2>2, <2>3
<1>3. ASSUME QueuedOnce, r \notin Queued PROVE QueuedOnce'
  <2>1. \A i \in DOMAIN mem : mem[i] # r
    BY <1>3 DEF Queued, Elements
  <2>2. \A i \in DOMAIN mem' : i = Len(mem) + 1 \/ i \in DOMAIN mem
    BY <1>1
  <2> QED BY <1>1, <1>3, <2>1, <2>2 DEF QueuedOnce
<1> QED BY <1>2, <1>3

\* The head leaves the channel.
LEMMA QueueTail ==
  ASSUME mem \in Seq(Reports), mem # <<>>, QueuedOnce, mem' = Tail(mem)
  PROVE  /\ Head(mem) \in Queued /\ Head(mem) \in Reports
         /\ Queued' = Queued \ {Head(mem)}
         /\ QueuedOnce'
<1>1. /\ DOMAIN mem = 1..Len(mem) /\ Len(mem) \in Nat /\ Len(mem) >= 1
      /\ DOMAIN mem' = 1..(Len(mem) - 1)
      /\ \A i \in 1..(Len(mem) - 1) : mem'[i] = mem[i + 1]
      /\ Head(mem) = mem[1]
  OBVIOUS
<1>2. Head(mem) \in Queued /\ Head(mem) \in Reports
  BY <1>1 DEF Queued, Elements
<1>3. \A i \in DOMAIN mem' : /\ i + 1 \in DOMAIN mem /\ i + 1 # 1
                             /\ mem'[i] = mem[i + 1]
  BY <1>1
<1>4. QueuedOnce'
  <2> SUFFICES ASSUME NEW i \in DOMAIN mem', NEW j \in DOMAIN mem',
                      mem'[i] = mem'[j]
               PROVE  i = j
    BY DEF QueuedOnce
  <2>1. i + 1 = j + 1
    BY <1>3 DEF QueuedOnce
  <2> QED BY <1>1, <2>1
<1>5. Queued' \subseteq Queued \ {Head(mem)}
  <2> SUFFICES ASSUME NEW i \in DOMAIN mem' 
               PROVE  mem'[i] \in Queued /\ mem'[i] # Head(mem)
    BY DEF Queued, Elements
  <2>1. 1 \in DOMAIN mem
    BY <1>1
  <2> QED BY <1>1, <1>3, <2>1 DEF Queued, Elements, QueuedOnce
<1>6. Queued \ {Head(mem)} \subseteq Queued'
  <2> SUFFICES ASSUME NEW i \in DOMAIN mem, mem[i] # Head(mem)
               PROVE  mem[i] \in Queued'
    BY DEF Queued, Elements
  <2>1. i - 1 \in DOMAIN mem' /\ mem'[i - 1] = mem[i]
    BY <1>1
  <2> QED BY <2>1 DEF Queued, Elements
<1> QED BY <1>2, <1>4, <1>5, <1>6

\* A goroutine starts to spill a report.
LEMMA CallStart ==
  ASSUME call \in [Writers -> GoodCalls], NEW w \in Writers,
         call[w].pc = "idle", NEW c, c.pc # "idle",
         call' = [call EXCEPT ![w] = c]
  PROVE  /\ Spilled' = Spilled \cup {c.item}
         /\ SpilledOnce /\ c.item \notin Spilled => SpilledOnce'
<1>1. call'[w] = c /\ \A v \in Writers \ {w} : call'[v] = call[v]
  OBVIOUS
<1>2. Spilled' = Spilled \cup {c.item}
  BY <1>1 DEF Spilled
<1>3. ASSUME SpilledOnce, c.item \notin Spilled PROVE SpilledOnce'
  <2>1. \A v \in Writers : call[v].pc # "idle" => call[v].item # c.item
    BY <1>3 DEF Spilled
  <2> QED BY <1>1, <1>3, <2>1 DEF SpilledOnce
<1> QED BY <1>2, <1>3

\* A goroutine is done with the report it spilled.
LEMMA CallEnd ==
  ASSUME call \in [Writers -> GoodCalls], NEW w \in Writers,
         call[w].pc # "idle", SpilledOnce,
         call' = [call EXCEPT ![w] = NoCall]
  PROVE  /\ call[w].item \in Spilled
         /\ Spilled' = Spilled \ {call[w].item}
         /\ SpilledOnce'
<1>1. call'[w].pc = "idle" /\ \A v \in Writers \ {w} : call'[v] = call[v]
  BY DEF NoCall
<1>2. \A v \in Writers \ {w} :
        call[v].pc # "idle" => call[v].item # call[w].item
  BY DEF SpilledOnce
<1>3. call[w].item \in Spilled
  BY DEF Spilled
<1>4. Spilled' = Spilled \ {call[w].item}
  BY <1>1, <1>2 DEF Spilled
<1>5. SpilledOnce'
  BY <1>1 DEF SpilledOnce
<1> QED BY <1>3, <1>4, <1>5

\* A goroutine goes on to the next call of its spill.
LEMMA CallMove ==
  ASSUME call \in [Writers -> GoodCalls], NEW w \in Writers,
         call[w].pc # "idle", NEW c, c.pc # "idle", c.item = call[w].item,
         call' = [call EXCEPT ![w] = c]
  PROVE  /\ Spilled' = Spilled
         /\ SpilledOnce => SpilledOnce'
<1>1. call'[w] = c /\ \A v \in Writers \ {w} : call'[v] = call[v]
  OBVIOUS
<1>2. \A v \in Writers : /\ call'[v].pc # "idle" <=> call[v].pc # "idle"
                         /\ call[v].pc # "idle" => call'[v].item = call[v].item
  BY <1>1
<1> QED BY <1>2 DEF Spilled, SpilledOnce

\* deliver's entry.
LEMMA DispatchFacts ==
  ASSUME Inv, NEW r \in Reports, NEW src
  PROVE  /\ Dispatch(r, src).item = r
         /\ Dispatch(r, src).src = src
         /\ Dispatch(r, src).pc \in {"send", "drop"}
         /\ Dispatch(r, src).pc = "drop" =>
              \E c \in Configs : attempts[r] >= c.maxAttempts
         /\ attempts[r] = 0 => Dispatch(r, src).pc = "send"
<1>1. cfg \in Configs /\ cfg.maxAttempts \in Nat \ {0}
  BY OutboxAssumption DEF Inv, TypeOK, Config
<1> QED BY <1>1 DEF Dispatch

\* deliver's return.
LEMMA ReturnFacts ==
  ASSUME wk \in GoodWorkers
  PROVE  /\ Return.pc \in {"page", "drainMem", "wait"}
         /\ Return.src = "drain"
BY DEF Return, GoodWorkers, WorkerStates

\* A worker in a state of its own loop handles nothing.
LEMMA LoopingFacts ==
  ASSUME Shape, wk.pc \notin {"send", "delete", "drop", "increment"}
  PROVE  InFlight = {} /\ RowCopy = {} /\ Sending = {}
BY DEF Shape, InFlight, RowCopy, Sending

-----------------------------------------------------------------------------
\* Steps that move reports between tiers or drop them, and leave the server's
\* and the counters' history alone.
Moved ==
  /\ UNCHANGED <<submitted, accepted, repeated, uncertain, attempts, fails>>
  /\ Queued' \subseteq Queued
  /\ Spilled' \subseteq Spilled
  /\ spill' \subseteq spill \cup Spilled
  /\ page' \subseteq page \cup spill
  /\ RowCopy' \subseteq RowCopy \cup page
  /\ InFlight' \subseteq InFlight \cup Queued
  /\ Sending' \subseteq Sending \cup page \cup Queued
  /\ \A r \in Queued \cup Spilled \cup InFlight \cup spill :
       r \in Queued' \cup Spilled' \cup InFlight' \cup spill'
         \/ fate'[r] # "none"
  /\ \A r \in Reports : \/ fate'[r] = fate[r]
                        \/ fate[r] = "none" /\ fate'[r] = "dropped"
  /\ \/ wk' = wk
     \/ /\ wk.pc # "delete"
        /\ wk'.pc \notin {"delete", "increment"}
        /\ wk'.pc = "drop" =>
             \E c \in Configs : attempts[wk'.item] >= c.maxAttempts

\* Such a step keeps the history.
LEMMA MovedHistory ==
  ASSUME Owners, Moved
  PROVE  History'
<1>1. Known'
  BY DEF Owners, History, Known, Moved
<1>2. Fresh'
  BY DEF Owners, History, Fresh, Moved
<1>3. Held' \subseteq Held
  BY TierSets DEF Moved
<1>4. Settled'
  <2>1. ASSUME NEW r \in submitted'
        PROVE  r \in (Queued \cup Spilled \cup InFlight \cup spill)'
                 \/ r \in accepted' \/ fate'[r] # "none"
    <3>1. r \in submitted /\ r \in Reports
      BY DEF Owners, Inv, TypeOK, Moved
    <3>2. fate[r] # "none" => fate'[r] # "none"
      BY <3>1 DEF Moved
    <3> QED BY <3>1, <3>2 DEF Owners, History, Settled, Moved
  <2>2. wk'.pc = "delete" => wk' = wk
    BY DEF Moved
  <2>3. wk'.pc = "delete" => wk'.item \in accepted'
    BY <2>2 DEF Owners, History, Settled, Moved
  <2>4. ASSUME NEW r \in accepted' \cap Held'
        PROVE  r \in uncertain' \/ (wk'.pc = "delete" /\ wk'.item = r)
    <3>1. r \in accepted \cap Held
      BY <1>3, <2>4 DEF Moved
    <3>2. r \in uncertain \/ (wk.pc = "delete" /\ wk.item = r)
      BY <3>1 DEF Owners, History, Settled
    <3> QED BY <3>2 DEF Moved
  <2>5. NoSpuriousDuplicate'
    BY DEF Owners, History, Settled, Moved, NoSpuriousDuplicate
  <2> QED BY <2>1, <2>3, <2>4, <2>5 DEF Settled
<1>5. Counted'
  <2>1. wk'.pc = "increment" => wk' = wk
    BY DEF Moved
  <2>2. \A r \in Reports :
          /\ attempts'[r] <= fails'[r]
          /\ wk'.pc = "increment" /\ wk'.item = r
               => attempts'[r] + 1 <= fails'[r]
    BY <2>1 DEF Owners, History, Counted, Moved
  <2>3. wk'.pc = "drop" => \E c \in Configs : attempts'[wk'.item] >= c.maxAttempts
    BY DEF Owners, History, Counted, Moved
  <2>4. NoEarlyDrop'
    <3>1. \A r \in Reports : fate'[r] = "gaveUp" => fate[r] = "gaveUp"
      BY DEF Moved
    <3> QED BY <3>1 DEF Owners, History, Counted, Moved, NoEarlyDrop
  <2> QED BY <2>2, <2>3, <2>4 DEF Counted
<1> QED BY <1>1, <1>2, <1>4, <1>5 DEF History

\* What Dropped does to the fates.
LEMMA DroppedFacts ==
  ASSUME Inv, NEW S, NEW why \in Fates \ {"none"}, Dropped(S, why)
  PROVE  /\ \A r \in Reports : r \in S => fate'[r] # "none"
         /\ \A r \in Reports : \/ fate'[r] = fate[r]
                               \/ fate[r] = "none" /\ fate'[r] = why
BY DEF Dropped

\* Every tier holds reports.
LEMMA TierReports ==
  ASSUME Inv
  PROVE  /\ Queued \subseteq Reports /\ Spilled \subseteq Reports
         /\ InFlight \subseteq Reports /\ spill \subseteq Reports
         /\ page \subseteq Reports /\ Sending \subseteq Reports
<1>1. Queued \subseteq Reports
  BY DEF Inv, TypeOK, Queued, Elements
<1>2. Spilled \subseteq Reports
  BY DEF Inv, Spilled, GoodCalls
<1>3. InFlight \subseteq Reports /\ Sending \subseteq Reports
  BY DEF Inv, GoodWorkers, InFlight, Sending
<1> QED BY <1>1, <1>2, <1>3 DEF Inv, TypeOK

\* What the sets of a worker that did not move are.
LEMMA WorkerStays ==
  ASSUME wk' = wk
  PROVE  InFlight' = InFlight /\ RowCopy' = RowCopy /\ Sending' = Sending
BY DEF InFlight, RowCopy, Sending

\* The channel untouched.
LEMMA QueueStays ==
  ASSUME mem' = mem
  PROVE  Queued' = Queued /\ (QueuedOnce => QueuedOnce')
BY DEF Queued, QueuedOnce, Elements

\* The activations untouched.
LEMMA CallStays ==
  ASSUME call' = call
  PROVE  Spilled' = Spilled /\ (SpilledOnce => SpilledOnce')
BY DEF Spilled, SpilledOnce

\* SubmitReport fails on the database: the report is dropped.
LEMMA SubmitErrorMoves ==
  ASSUME Owners, NEW s \in Submitters, SubmitError(s)
  PROVE  Moved /\ Shape' /\ Tiers'
<1>1. /\ call \in [Writers -> GoodCalls] /\ s \in Writers /\ SpilledOnce
      /\ call[s].pc # "idle" /\ call' = [call EXCEPT ![s] = NoCall]
      /\ s # Worker /\ Inv
  BY OutboxAssumption DEF Owners, Inv, Tiers, SubmitError, Writers
<1>2. /\ Spilled' = Spilled \ {call[s].item} /\ SpilledOnce'
      /\ call[s].item \in Spilled
  BY <1>1, CallEnd
<1>3. /\ wk' = wk /\ mem' = mem /\ spill' = spill /\ page' = page
      /\ UNCHANGED <<submitted, accepted, repeated, uncertain, attempts, fails>>
  BY DEF SubmitError, table, worker
<1>4. /\ fate'[call[s].item] # "none"
      /\ \A r \in Reports : \/ fate'[r] = fate[r]
                            \/ fate[r] = "none" /\ fate'[r] = "dropped"
  <2>1. Dropped({call[s].item}, "dropped") /\ call[s].item \in Reports
    BY <1>1, <1>2, TierReports DEF SubmitError
  <2> QED BY <1>1, <2>1, DroppedFacts DEF Fates
<1>5. Moved
  BY <1>2, <1>3, <1>4, WorkerStays, QueueStays DEF Moved
<1>6. Shape'
  BY <1>1, <1>3 DEF Owners, Shape
<1>7. Tiers'
  BY <1>2, <1>3, WorkerStays, QueueStays DEF Owners, Tiers
<1> QED BY <1>5, <1>6, <1>7

\* Counting moves an activation and nothing else.
LEMMA SpillCountMoves ==
  ASSUME Owners, NEW w \in Writers, SpillCount(w)
  PROVE  Moved /\ Shape' /\ Tiers'
<1>1. call \in [Writers -> GoodCalls] /\ call[w] \in GoodCalls
  BY DEF Owners, Inv
<1>2. PICK c : /\ call' = [call EXCEPT ![w] = c]
               /\ c.pc # "idle" /\ c.item = call[w].item
  <2> DEFINE d == [call[w] EXCEPT
                    !.pc   = IF AtCap(Cardinality(spill), call[w].cap)
                             THEN "evict" ELSE "enqueue",
                    !.over = IF AtCap(Cardinality(spill), call[w].cap)
                             THEN Excess(Cardinality(spill), call[w].cap)
                             ELSE 0]
  <2>1. call' = [call EXCEPT ![w] = d]
    BY DEF SpillCount
  <2>2. d.pc # "idle" /\ d.item = call[w].item
    BY <1>1 DEF GoodCalls, Calls
  <2> QED BY <2>1, <2>2
<1>3. /\ wk' = wk /\ mem' = mem /\ spill' = spill /\ page' = page
      /\ call[w].pc # "idle" /\ fate' = fate
      /\ UNCHANGED <<submitted, accepted, repeated, uncertain, attempts, fails>>
  BY DEF SpillCount, table, worker, history
<1>4. Spilled' = Spilled /\ (SpilledOnce => SpilledOnce')
  BY <1>1, <1>2, <1>3, CallMove
<1>5. Moved
  BY <1>3, <1>4, WorkerStays, QueueStays DEF Moved
<1>6. Shape'
  BY <1>1, <1>2, <1>3 DEF Owners, Shape, Writers
<1>7. Tiers'
  BY <1>3, <1>4, WorkerStays, QueueStays DEF Owners, Tiers
<1> QED BY <1>5, <1>6, <1>7

\* An evicted row is dropped.
LEMMA SpillEvictMoves ==
  ASSUME Owners, NEW w \in Writers, SpillEvict(w)
  PROVE  Moved /\ Shape' /\ Tiers'
<1> DEFINE gone == Oldest(spill, call[w].over)
<1>1. call \in [Writers -> GoodCalls] /\ call[w] \in GoodCalls /\ Inv
  BY DEF Owners, Inv
<1>2. /\ call' = [call EXCEPT ![w] = [call[w] EXCEPT !.pc = "enqueue"]]
      /\ call[w].pc # "idle"
  BY DEF SpillEvict
<1>3. /\ [call[w] EXCEPT !.pc = "enqueue"].pc # "idle"
      /\ [call[w] EXCEPT !.pc = "enqueue"].item = call[w].item
  BY <1>1 DEF GoodCalls, Calls
<1>4. Spilled' = Spilled /\ (SpilledOnce => SpilledOnce')
  BY <1>1, <1>2, <1>3, CallMove
<1>5. /\ wk' = wk /\ mem' = mem /\ spill' = spill \ gone /\ page' = page
      /\ UNCHANGED <<submitted, accepted, repeated, uncertain, attempts, fails>>
  BY DEF SpillEvict, worker
<1>6. /\ \A r \in Reports : r \in gone => fate'[r] # "none"
      /\ \A r \in Reports : \/ fate'[r] = fate[r]
                            \/ fate[r] = "none" /\ fate'[r] = "dropped"
  <2>1. Dropped(gone, "dropped")
    BY DEF SpillEvict
  <2> HIDE DEF gone
  <2> QED BY <1>1, <2>1, DroppedFacts DEF Fates
<1>7. Moved
  <2> HIDE DEF gone
  <2> QED BY <1>1, <1>4, <1>5, <1>6, WorkerStays, QueueStays, TierReports
          DEF Moved
<1>8. Shape'
  BY <1>1, <1>2, <1>3, <1>5 DEF Owners, Shape, Writers
<1>9. Tiers'
  <2> HIDE DEF gone
  <2> QED BY <1>4, <1>5, WorkerStays, QueueStays DEF Owners, Tiers
<1> QED BY <1>7, <1>8, <1>9

\* A spilled report goes from its goroutine to the table.
LEMMA SpillEnqueueMoves ==
  ASSUME Owners, NEW w \in Writers, SpillEnqueue(w)
  PROVE  Moved /\ Shape' /\ Tiers'
<1>1. /\ call \in [Writers -> GoodCalls] /\ SpilledOnce
      /\ call[w].pc # "idle" /\ call' = [call EXCEPT ![w] = NoCall]
      /\ wk \in GoodWorkers
  BY DEF Owners, Inv, Tiers, SpillEnqueue
<1>2. /\ Spilled' = Spilled \ {call[w].item} /\ SpilledOnce'
      /\ call[w].item \in Spilled
  BY <1>1, CallEnd
<1>3. /\ wk' = IF w = Worker THEN Return ELSE wk
      /\ mem' = mem /\ spill' = spill \cup {call[w].item} /\ page' = page
      /\ fate' = fate
      /\ UNCHANGED <<submitted, accepted, repeated, uncertain, attempts, fails>>
  BY DEF SpillEnqueue, history
<1>4. Shape'
  BY <1>1, <1>3, ReturnFacts DEF Owners, Shape, NoCall, Writers
<1>5. InFlight' = InFlight /\ RowCopy' = RowCopy /\ Sending' = Sending
  <2>1. CASE w = Worker
    <3>1. wk.pc = "spill" /\ wk' = Return
      BY <1>1, <1>3, <2>1 DEF Owners, Shape
    <3> QED BY <1>1, <3>1, ReturnFacts DEF Owners, Shape, InFlight, RowCopy, Sending
  <2>2. CASE w # Worker
    BY <1>3, <2>2, WorkerStays
  <2> QED BY <2>1, <2>2
<1>6. \/ wk' = wk
      \/ wk.pc = "spill" /\ wk'.pc \notin {"delete", "increment", "drop"}
  BY <1>1, <1>3, ReturnFacts DEF Owners, Shape
<1>7. Moved
  BY <1>2, <1>3, <1>5, <1>6, QueueStays DEF Moved
<1>8. Tiers'
  BY <1>2, <1>3, <1>5, QueueStays DEF Owners, Tiers
<1> QED BY <1>4, <1>7, <1>8

\* The worker goes on after a failed count or evict.
LEMMA SpillBlindMoves ==
  ASSUME Owners, SpillBlind
  PROVE  Moved /\ Shape' /\ Tiers'
<1>1. /\ call \in [Writers -> GoodCalls] /\ Worker \in Writers
      /\ call[Worker] \in GoodCalls
  BY DEF Owners, Inv, Writers
<1>2. /\ call' = [call EXCEPT ![Worker] = [call[Worker] EXCEPT !.pc = "enqueue"]]
      /\ call[Worker].pc # "idle"
  BY DEF SpillBlind
<1>3. /\ [call[Worker] EXCEPT !.pc = "enqueue"].pc # "idle"
      /\ [call[Worker] EXCEPT !.pc = "enqueue"].item = call[Worker].item
  BY <1>1 DEF GoodCalls, Calls
<1>4. Spilled' = Spilled /\ (SpilledOnce => SpilledOnce')
  BY <1>1, <1>2, <1>3, CallMove
<1>5. /\ wk' = wk /\ mem' = mem /\ spill' = spill /\ page' = page
      /\ fate' = fate
      /\ UNCHANGED <<submitted, accepted, repeated, uncertain, attempts, fails>>
  BY DEF SpillBlind, table, worker, history
<1>6. Moved
  BY <1>4, <1>5, WorkerStays, QueueStays DEF Moved
<1>7. Shape'
  BY <1>1, <1>2, <1>3, <1>5 DEF Owners, Shape
<1>8. Tiers'
  BY <1>4, <1>5, WorkerStays, QueueStays DEF Owners, Tiers
<1> QED BY <1>6, <1>7, <1>8

\* The worker's insert fails: the report is dropped.
LEMMA SpillLostMoves ==
  ASSUME Owners, SpillLost
  PROVE  Moved /\ Shape' /\ Tiers'
<1>1. /\ call \in [Writers -> GoodCalls] /\ SpilledOnce /\ Worker \in Writers
      /\ call[Worker].pc # "idle" /\ call' = [call EXCEPT ![Worker] = NoCall]
      /\ wk \in GoodWorkers /\ Inv
  BY DEF Owners, Inv, Tiers, SpillLost, Writers
<1>2. /\ Spilled' = Spilled \ {call[Worker].item} /\ SpilledOnce'
      /\ call[Worker].item \in Spilled
  BY <1>1, CallEnd
<1>3. /\ wk' = Return /\ mem' = mem /\ spill' = spill /\ page' = page
      /\ UNCHANGED <<submitted, accepted, repeated, uncertain, attempts, fails>>
  BY DEF SpillLost, table
<1>4. wk.pc = "spill"
  BY <1>1 DEF Owners, Shape
<1>5. InFlight' = InFlight /\ RowCopy' = RowCopy /\ Sending' = Sending
  BY <1>1, <1>3, <1>4, ReturnFacts DEF Owners, Shape, InFlight, RowCopy, Sending
<1>6. /\ fate'[call[Worker].item] # "none"
      /\ \A r \in Reports : \/ fate'[r] = fate[r]
                            \/ fate[r] = "none" /\ fate'[r] = "dropped"
  <2>1. Dropped({call[Worker].item}, "dropped") /\ call[Worker].item \in Reports
    BY <1>1, <1>2, TierReports DEF SpillLost
  <2> QED BY <1>1, <2>1, DroppedFacts DEF Fates
<1>7. Moved
  BY <1>1, <1>2, <1>3, <1>4, <1>5, <1>6, ReturnFacts, QueueStays DEF Moved
<1>8. Shape'
  BY <1>1, <1>3, ReturnFacts DEF Shape, NoCall
<1>9. Tiers'
  BY <1>2, <1>3, <1>5, QueueStays DEF Owners, Tiers
<1> QED BY <1>7, <1>8, <1>9

\* The worker takes the head of the channel, or goes on to the pages.
LEMMA DrainMemMoves ==
  ASSUME Owners, DrainMem
  PROVE  Moved /\ Shape' /\ Tiers'
<1>1. /\ wk.pc = "drainMem" /\ wk \in GoodWorkers /\ Inv
      /\ mem \in Seq(Reports) /\ QueuedOnce
      /\ page' = {} /\ call' = call /\ spill' = spill /\ fate' = fate
      /\ UNCHANGED <<submitted, accepted, repeated, uncertain, attempts, fails>>
  BY DEF Owners, Inv, TypeOK, Tiers, DrainMem, WorkerOnly, table, history
<1>2. InFlight = {} /\ RowCopy = {} /\ Sending = {}
  BY <1>1, LoopingFacts DEF Owners
<1>3. CASE mem # <<>> /\ mem' = Tail(mem) /\ wk' = Dispatch(Head(mem), "drain")
  <2>1. /\ Head(mem) \in Queued /\ Head(mem) \in Reports
        /\ Queued' = Queued \ {Head(mem)} /\ QueuedOnce'
    BY <1>1, <1>3, QueueTail
  <2>2. attempts[Head(mem)] = 0
    BY <2>1 DEF Owners, History, Fresh
  <2>3. wk'.pc = "send" /\ wk'.item = Head(mem) /\ wk'.src = "drain"
    BY <1>1, <1>3, <2>1, <2>2, DispatchFacts
  <2>4. InFlight' = {Head(mem)} /\ RowCopy' = {} /\ Sending' = {Head(mem)}
    BY <2>3 DEF InFlight, RowCopy, Sending
  <2>5. Moved
    BY <1>1, <1>2, <2>1, <2>3, <2>4, CallStays DEF Moved
  <2>6. Shape'
    BY <1>1, <2>3 DEF Owners, Shape
  <2>7. Tiers'
    BY <1>1, <1>2, <2>1, <2>4, CallStays DEF Owners, Tiers
  <2> QED BY <2>5, <2>6, <2>7
<1>4. CASE mem' = mem /\ wk' = [wk EXCEPT !.pc = "page"]
  <2>1. wk'.pc = "page" /\ wk'.src = wk.src
    BY <1>1, <1>4 DEF GoodWorkers, WorkerStates
  <2>2. InFlight' = {} /\ RowCopy' = {} /\ Sending' = {}
    BY <1>1, <2>1 DEF Owners, Shape, InFlight, RowCopy, Sending
  <2>3. Moved
    BY <1>1, <1>2, <1>4, <2>1, <2>2, CallStays, QueueStays DEF Moved
  <2>4. Shape'
    BY <1>1, <2>1 DEF Owners, Shape
  <2>5. Tiers'
    BY <1>1, <1>2, <1>4, <2>2, CallStays, QueueStays DEF Owners, Tiers
  <2> QED BY <2>3, <2>4, <2>5
<1> QED BY <1>3, <1>4 DEF DrainMem

\* A page copies rows of the table.
LEMMA LoadPageMoves ==
  ASSUME Owners, LoadPage
  PROVE  Moved /\ Shape' /\ Tiers'
<1>1. /\ wk.pc = "page" /\ wk \in GoodWorkers
      /\ mem' = mem /\ call' = call /\ spill' = spill /\ fate' = fate
      /\ UNCHANGED <<submitted, accepted, repeated, uncertain, attempts, fails>>
  BY DEF Owners, Inv, LoadPage, WorkerOnly, table, history
<1>2. InFlight = {} /\ RowCopy = {} /\ Sending = {}
  BY <1>1, LoopingFacts DEF Owners
<1>3. page' \subseteq page \cup spill
  BY DEF LoadPage, SpillPage, Oldest
<1>4. wk'.pc \in {"page", "wait"} /\ wk'.src = wk.src
  BY <1>1 DEF LoadPage, GoodWorkers, WorkerStates
<1>5. InFlight' = {} /\ RowCopy' = {} /\ Sending' = {}
  BY <1>1, <1>4 DEF Owners, Shape, InFlight, RowCopy, Sending
<1>6. Moved
  BY <1>1, <1>2, <1>3, <1>4, <1>5, CallStays, QueueStays DEF Moved
<1>7. Shape'
  BY <1>1, <1>4 DEF Owners, Shape
<1>8. Tiers'
  BY <1>1, <1>2, <1>3, <1>5, CallStays, QueueStays DEF Owners, Tiers
<1> QED BY <1>6, <1>7, <1>8

\* A row of the page becomes the worker's copy.
LEMMA NextRowMoves ==
  ASSUME Owners, NextRow
  PROVE  Moved /\ Shape' /\ Tiers'
<1>1. /\ wk.pc = "page" /\ wk \in GoodWorkers /\ Inv
      /\ mem' = mem /\ call' = call /\ spill' = spill /\ fate' = fate
      /\ UNCHANGED <<submitted, accepted, repeated, uncertain, attempts, fails>>
  BY DEF Owners, Inv, NextRow, WorkerOnly, table, history
<1>2. InFlight = {} /\ RowCopy = {} /\ Sending = {}
  BY <1>1, LoopingFacts DEF Owners
<1>3. CASE ctxDone
  <2>1. page' = {} /\ wk'.pc = "wait" /\ wk'.src = wk.src
    BY <1>1, <1>3 DEF NextRow, GoodWorkers, WorkerStates
  <2>2. InFlight' = {} /\ RowCopy' = {} /\ Sending' = {}
    BY <1>1, <2>1 DEF Owners, Shape, InFlight, RowCopy, Sending
  <2>3. Moved
    BY <1>1, <1>2, <2>1, <2>2, CallStays, QueueStays DEF Moved
  <2>4. Shape'
    BY <1>1, <2>1 DEF Owners, Shape
  <2>5. Tiers'
    BY <1>1, <1>2, <2>1, <2>2, CallStays, QueueStays DEF Owners, Tiers
  <2> QED BY <2>3, <2>4, <2>5
<1>4. CASE ~ctxDone
  <2>1. PICK r \in Oldest(page, 1) : /\ page' = page \ {r}
                                     /\ wk' = Dispatch(r, "page")
    BY <1>4 DEF NextRow
  <2>2. r \in page /\ r \in Reports
    BY <1>1 DEF Oldest, Inv, TypeOK
  <2>3. /\ wk'.pc \in {"send", "drop"} /\ wk'.item = r /\ wk'.src = "page"
        /\ wk'.pc = "drop" => \E c \in Configs : attempts[r] >= c.maxAttempts
    BY <1>1, <2>1, <2>2, DispatchFacts
  <2>4. InFlight' = {} /\ RowCopy' = {r} /\ Sending' \subseteq {r}
    BY <2>3 DEF InFlight, RowCopy, Sending
  <2>5. Moved
    BY <1>1, <1>2, <2>1, <2>2, <2>3, <2>4, CallStays, QueueStays DEF Moved
  <2>6. Shape'
    BY <1>1, <2>3 DEF Owners, Shape
  <2>7. Tiers'
    BY <1>1, <1>2, <2>1, <2>2, <2>4, CallStays, QueueStays DEF Owners, Tiers
  <2> QED BY <2>5, <2>6, <2>7
<1> QED BY <1>3, <1>4

\* Run's select starts a drain, delivers the head of the channel or ends.
LEMMA WakeMoves ==
  ASSUME Owners, Wake
  PROVE  Moved /\ Shape' /\ Tiers'
<1>1. /\ wk.pc = "wait" /\ wk \in GoodWorkers /\ Inv
      /\ mem \in Seq(Reports) /\ QueuedOnce
      /\ page' = page /\ call' = call /\ spill' = spill /\ fate' = fate
      /\ UNCHANGED <<submitted, accepted, repeated, uncertain, attempts, fails>>
  BY DEF Owners, Inv, TypeOK, Tiers, Wake, WorkerOnly, table, history
<1>2. InFlight = {} /\ RowCopy = {} /\ Sending = {}
  BY <1>1, LoopingFacts DEF Owners
<1>3. CASE mem # <<>> /\ mem' = Tail(mem) /\ wk' = Dispatch(Head(mem), "select")
  <2>1. /\ Head(mem) \in Queued /\ Head(mem) \in Reports
        /\ Queued' = Queued \ {Head(mem)} /\ QueuedOnce'
    BY <1>1, <1>3, QueueTail
  <2>2. attempts[Head(mem)] = 0
    BY <2>1 DEF Owners, History, Fresh
  <2>3. wk'.pc = "send" /\ wk'.item = Head(mem) /\ wk'.src = "select"
    BY <1>1, <1>3, <2>1, <2>2, DispatchFacts
  <2>4. InFlight' = {Head(mem)} /\ RowCopy' = {} /\ Sending' = {Head(mem)}
    BY <2>3 DEF InFlight, RowCopy, Sending
  <2>5. Moved
    BY <1>1, <1>2, <2>1, <2>3, <2>4, CallStays DEF Moved
  <2>6. Shape'
    BY <1>1, <2>3 DEF Owners, Shape
  <2>7. Tiers'
    BY <1>1, <1>2, <2>1, <2>4, CallStays DEF Owners, Tiers
  <2> QED BY <2>5, <2>6, <2>7
<1>4. CASE mem' = mem /\ wk' \in {[wk EXCEPT !.pc = "drainMem"],
                                  [wk EXCEPT !.pc = "stopped"]}
  <2>1. wk'.pc \in {"drainMem", "stopped"} /\ wk'.src = wk.src
    BY <1>1, <1>4 DEF GoodWorkers, WorkerStates
  <2>2. InFlight' = {} /\ RowCopy' = {} /\ Sending' = {}
    BY <1>1, <2>1 DEF Owners, Shape, InFlight, RowCopy, Sending
  <2>3. Moved
    BY <1>1, <1>2, <1>4, <2>1, <2>2, CallStays, QueueStays DEF Moved
  <2>4. Shape'
    BY <1>1, <2>1 DEF Owners, Shape
  <2>5. Tiers'
    BY <1>1, <1>2, <1>4, <2>2, CallStays, QueueStays DEF Owners, Tiers
  <2> QED BY <2>3, <2>4, <2>5
<1> QED BY <1>3, <1>4 DEF Wake

\* Pruned rows are dropped.
LEMMA PruningMoves ==
  ASSUME Owners, Pruning
  PROVE  Moved /\ Shape' /\ Tiers'
<1>1. /\ mem' = mem /\ call' = call /\ wk' = wk /\ page' = page /\ Inv
      /\ UNCHANGED <<submitted, accepted, repeated, uncertain, attempts, fails>>
  BY DEF Owners, Pruning, PruneAge, PruneCount, PruneTick, worker, history
<1>2. \/ spill' = spill /\ fate' = fate
      \/ \E gone \in SUBSET spill : spill' = spill \ gone /\ Dropped(gone, "dropped")
  <2>1. CASE PruneAge
    <3> DEFINE gone == {r \in spill : createdAt[r] < now - cfg.retention}
    <3>1. gone \in SUBSET spill
      OBVIOUS
    <3> QED BY <2>1, <3>1 DEF PruneAge
  <2>2. CASE PruneCount
    <3>1. BeyondNewest(spill, prune.cap) \in SUBSET spill
      BY DEF BeyondNewest
    <3> QED BY <2>2, <3>1 DEF PruneCount
  <2>3. CASE PruneTick
    BY <2>3 DEF PruneTick, table, history
  <2> QED BY <2>1, <2>2, <2>3 DEF Pruning
<1>3. /\ spill' \subseteq spill
      /\ \A r \in spill : r \in spill' \/ fate'[r] # "none"
      /\ \A r \in Reports : \/ fate'[r] = fate[r]
                            \/ fate[r] = "none" /\ fate'[r] = "dropped"
  BY <1>1, <1>2, DroppedFacts, TierReports DEF Fates
<1>4. Moved
  BY <1>1, <1>3, WorkerStays, QueueStays, CallStays DEF Moved
<1>5. Shape'
  BY <1>1 DEF Owners, Shape
<1>6. Tiers'
  BY <1>1, <1>3, WorkerStays, QueueStays, CallStays DEF Owners, Tiers
<1> QED BY <1>4, <1>5, <1>6

\* The clock, the configuration, the signal and the restart touch no report.
LEMMA OutsideMoves ==
  ASSUME Owners, UpdateConfig \/ Tick \/ Signal \/ Restart \/ UNCHANGED vars
  PROVE  Moved /\ Shape' /\ Tiers'
<1>1. /\ mem' = mem /\ call' = call /\ wk' = wk /\ page' = page
      /\ spill' = spill /\ fate' = fate
      /\ UNCHANGED <<submitted, accepted, repeated, uncertain, attempts, fails>>
  BY DEF UpdateConfig, Tick, Signal, Restart, vars, table, worker, history
<1>2. Moved
  BY <1>1, WorkerStays, QueueStays, CallStays DEF Moved
<1>3. Shape'
  BY <1>1 DEF Owners, Shape
<1>4. Tiers'
  BY <1>1, WorkerStays, QueueStays, CallStays DEF Owners, Tiers
<1> QED BY <1>2, <1>3, <1>4

-----------------------------------------------------------------------------
\* The steps that change the history.  Each is also a step of the ledger.
Released == Held' \subseteq Held /\ UNCHANGED <<submitted, accepted>>

\* A report that is moved stays held, one that leaves is released.
LEMMA MovedReleases == Moved => Released
BY TierSets DEF Moved, Released

\* A new report is unknown to every tier.
LEMMA SubmitOwners ==
  ASSUME Owners, NEW s \in Submitters, NEW r \in Reports, Submit(s, r)
  PROVE  Shape' /\ Tiers' /\ History' /\ Held' = Held \cup {r}
<1>1. /\ call \in [Writers -> GoodCalls] /\ s \in Writers /\ s # Worker
      /\ mem \in Seq(Reports) /\ Inv
      /\ r \notin submitted /\ submitted' = submitted \cup {r}
      /\ wk' = wk /\ spill' = spill /\ page' = page
      /\ UNCHANGED <<accepted, repeated, uncertain, attempts, fails, fate>>
  BY OutboxAssumption DEF Owners, Inv, TypeOK, Submit, Writers, table, worker
<1>2. r \notin Queued \cup Spilled \cup InFlight \cup spill \cup page
                 \cup RowCopy \cup accepted
  BY <1>1 DEF Owners, History, Known
<1>3. \/ /\ Queued' = Queued \cup {r} /\ QueuedOnce'
         /\ Spilled' = Spilled /\ SpilledOnce' /\ call' = call
      \/ /\ Spilled' = Spilled \cup {r} /\ SpilledOnce'
         /\ Queued' = Queued /\ QueuedOnce'
         /\ \A w \in Writers \ {s} : call'[w] = call[w]
  <2>1. QueuedOnce /\ SpilledOnce
    BY DEF Owners, Tiers
  <2>2. CASE mem' = Append(mem, r) /\ call' = call
    BY <1>1, <1>2, <2>1, <2>2, QueueAppend, CallStays
  <2>3. ASSUME NEW c, c.pc = "count", c.item = r,
               call' = [call EXCEPT ![s] = c], mem' = mem
        PROVE  /\ Spilled' = Spilled \cup {r} /\ SpilledOnce'
               /\ Queued' = Queued /\ QueuedOnce'
               /\ \A w \in Writers \ {s} : call'[w] = call[w]
    <3>1. call[s].pc = "idle" /\ c.pc # "idle"
      BY <2>3 DEF Submit
    <3>2. Spilled' = Spilled \cup {r} /\ SpilledOnce'
      BY <1>1, <1>2, <2>1, <2>3, <3>1, CallStart
    <3>3. \A w \in Writers \ {s} : call'[w] = call[w]
      BY <1>1, <2>3
    <3> QED BY <2>1, <2>3, <3>2, <3>3, QueueStays
  <2>4. \/ mem' = Append(mem, r) /\ call' = call
        \/ /\ mem' = mem
           /\ call' = [call EXCEPT ![s] = [pc |-> "count", item |-> r,
                                           over |-> 0, cap |-> cfg.cap]]
    BY DEF Submit
  <2> QED BY <2>2, <2>3, <2>4
<1>4. InFlight' = InFlight /\ RowCopy' = RowCopy /\ Sending' = Sending
  BY <1>1, WorkerStays
<1>5. Shape'
  <2>1. call'[Worker] = call[Worker]
    BY <1>1, <1>3 DEF Writers
  <2> QED BY <1>1, <2>1 DEF Owners, Shape
<1>6. Tiers'
  BY <1>1, <1>2, <1>3, <1>4 DEF Owners, Tiers
<1>7. Held' = Held \cup {r}
  BY <1>1, <1>3, <1>4, TierSets
<1>8. Known'
  BY <1>1, <1>3, <1>4 DEF Owners, History, Known
<1>9. Fresh'
  <2>1. attempts[r] = 0
    BY <1>1 DEF Owners, History, Fresh
  <2> QED BY <1>1, <1>3, <2>1 DEF Owners, History, Fresh
<1>10. Settled'
  BY <1>1, <1>2, <1>3, <1>4, <1>7
     DEF Owners, History, Settled, NoSpuriousDuplicate
<1>11. Counted'
  BY <1>1 DEF Owners, History, Counted, NoEarlyDrop
<1> QED BY <1>5, <1>6, <1>7, <1>8, <1>9, <1>10, <1>11 DEF History

\* The server stores the report being sent, or does not: what that means for
\* the history.  An answer that was lost leaves the report uncertain.
LEMMA StoredFacts ==
  ASSUME Owners, wk.pc = "send", Stored(wk.item), uncertain' \subseteq Reports,
         uncertain \subseteq uncertain'
  PROVE  /\ accepted' = accepted \cup {wk.item}
         /\ NoSpuriousDuplicate'
<1>1. wk.item \in Held
  BY TierSets DEF Sending
<1>2. wk.item \in accepted => wk.item \in uncertain
  BY <1>1 DEF Owners, History, Settled
<1> QED BY <1>2 DEF Stored, Owners, History, Settled, NoSpuriousDuplicate

\* A stored report: an in-memory one is done, a row has yet to be deleted.
LEMMA SendOKOwners ==
  ASSUME Owners, SendOK
  PROVE  /\ Shape' /\ Tiers' /\ History'
         /\ wk.item \in Held /\ accepted' = accepted \cup {wk.item}
         /\ submitted' = submitted
         /\ Held' = Held \/ Held' = Held \ {wk.item}
<1>1. /\ wk.pc = "send" /\ wk \in GoodWorkers /\ Inv /\ wk.item \in Reports
      /\ mem' = mem /\ call' = call /\ spill' = spill /\ page' = page
      /\ wk' = IF FromSpill THEN [wk EXCEPT !.pc = "delete"] ELSE Return
      /\ UNCHANGED <<submitted, uncertain, attempts, fails, fate>>
  BY SendingReport DEF Owners, Inv, SendOK, table
<1>2. accepted' = accepted \cup {wk.item} /\ NoSpuriousDuplicate'
  BY <1>1, StoredFacts DEF SendOK, Inv, TypeOK
<1>3. /\ Queued' = Queued /\ QueuedOnce'
      /\ Spilled' = Spilled /\ SpilledOnce'
  BY <1>1, QueueStays, CallStays DEF Owners, Tiers
<1>4. wk.item \in submitted
  BY <1>1 DEF Owners, History, Known, InFlight, RowCopy
<1>5. /\ Shape' /\ InFlight' = {} /\ Sending' = {}
      /\ RowCopy' \subseteq RowCopy
      /\ wk'.pc \notin {"increment", "drop"}
      /\ wk'.pc = "delete" => wk'.item = wk.item /\ wk.src = "page"
  <2>1. CASE wk.src = "page"
    <3>1. wk'.pc = "delete" /\ wk'.item = wk.item /\ wk'.src = "page"
      BY <1>1, <2>1 DEF FromSpill, GoodWorkers, WorkerStates
    <3>2. Shape'
      BY <1>1, <3>1 DEF Owners, Shape
    <3> QED BY <2>1, <3>1, <3>2 DEF InFlight, RowCopy, Sending
  <2>2. CASE wk.src # "page"
    <3>1. wk'.pc \in {"page", "drainMem", "wait"} /\ wk'.src = "drain"
      BY <1>1, <2>2, ReturnFacts DEF FromSpill
    <3>2. Shape'
      BY <1>1, <3>1 DEF Owners, Shape
    <3> QED BY <2>2, <3>1, <3>2 DEF InFlight, RowCopy, Sending
  <2> QED BY <2>1, <2>2
<1>6. Tiers'
  BY <1>1, <1>3, <1>5 DEF Owners, Tiers
<1>7. wk.item \in Held /\ (Held' = Held \/ Held' = Held \ {wk.item})
  <2>1. Sending = {wk.item} /\ InFlight \subseteq {wk.item}
    BY <1>1 DEF Sending, InFlight
  <2> QED BY <1>1, <1>3, <1>5, <2>1, TierSets
<1>8. Known'
  BY <1>1, <1>2, <1>3, <1>4, <1>5 DEF Owners, History, Known
<1>9. Fresh'
  BY <1>1, <1>3 DEF Owners, History, Fresh
<1>10. Settled'
  <2>1. ASSUME NEW r \in submitted'
        PROVE  r \in (Queued \cup Spilled \cup InFlight \cup spill)'
                 \/ r \in accepted' \/ fate'[r] # "none"
    <3>1. r \in InFlight => r = wk.item
      BY DEF InFlight
    <3> QED BY <1>1, <1>2, <1>3, <3>1 DEF Owners, History, Settled
  <2>2. wk'.pc = "delete" => wk'.item \in accepted'
    BY <1>2, <1>5
  <2>3. ASSUME NEW r \in accepted' \cap Held'
        PROVE  r \in uncertain' \/ (wk'.pc = "delete" /\ wk'.item = r)
    <3>1. CASE r # wk.item
      <4>1. r \in accepted \cap Held /\ wk.pc # "delete"
        BY <1>1, <1>2, <1>7, <2>3, <3>1
      <4> QED BY <1>1, <4>1 DEF Owners, History, Settled
    <3>2. CASE r = wk.item /\ wk.src = "page"
      BY <1>1, <3>2 DEF FromSpill, GoodWorkers, WorkerStates
    <3>3. CASE r = wk.item /\ wk.src # "page"
      <4>1. InFlight = {wk.item}
        BY <1>1, <3>3 DEF InFlight
      <4>2. wk.item \notin Queued \cup Spilled \cup spill \cup page
        BY <4>1 DEF Owners, Tiers
      <4> QED BY <1>1, <1>3, <1>5, <2>3, <3>3, <4>2, TierSets
    <3> QED BY <3>1, <3>2, <3>3
  <2> QED BY <1>2, <2>1, <2>2, <2>3 DEF Settled
<1>11. Counted'
  BY <1>1, <1>5 DEF Owners, History, Counted, NoEarlyDrop
<1> QED BY <1>1, <1>2, <1>5, <1>6, <1>7, <1>8, <1>9, <1>10, <1>11 DEF History

\* The RPC failed: a row stays the worker's copy or is left in the table, an
\* in-memory report is handed to spillWithEviction.
LEMMA UnansweredOwners ==
  ASSUME Owners, wk.pc = "send", Unanswered,
         UNCHANGED <<mem, spill, page, submitted, fate>>,
         \/ /\ FromSpill
            /\ call' = call
            /\ wk' = [wk EXCEPT !.pc = "increment"] \/ wk' = Return
         \/ /\ ~FromSpill
            /\ BeginSpill
            /\ wk' = [wk EXCEPT !.pc = "spill"]
  PROVE  /\ Shape' /\ Tiers' /\ Known' /\ Settled'
         /\ wk.item \in Held
         /\ accepted' = accepted \/ accepted' = accepted \cup {wk.item}
         /\ Held' = Held \/ Held' = Held \ {wk.item}
<1>1. /\ wk \in GoodWorkers /\ Inv /\ wk.item \in Reports
      /\ call \in [Writers -> GoodCalls] /\ Worker \in Writers
      /\ call[Worker].pc = "idle" /\ wk.item \in submitted
  <2>1. wk.item \in submitted
    BY DEF Owners, History, Known, InFlight, RowCopy
  <2>2. call[Worker].pc = "idle"
    BY DEF Owners, Shape
  <2> QED BY <2>1, <2>2, SendingReport DEF Owners, Inv, Writers
<1>2. Queued' = Queued /\ QueuedOnce'
  BY QueueStays DEF Owners, Tiers
<1>3. /\ accepted' = accepted \/ accepted' = accepted \cup {wk.item}
      /\ \A r \in accepted' : r \in accepted \/ r \in uncertain'
      /\ uncertain \subseteq uncertain' /\ NoSpuriousDuplicate'
  <2>1. CASE UNCHANGED <<accepted, repeated, uncertain>>
    BY <2>1 DEF Owners, History, Settled, NoSpuriousDuplicate
  <2>2. CASE Stored(wk.item) /\ uncertain' = uncertain \cup {wk.item}
    <3>1. uncertain' \subseteq Reports
      BY <1>1, <2>2 DEF Inv, TypeOK
    <3>2. accepted' = accepted \cup {wk.item} /\ NoSpuriousDuplicate'
      BY <2>2, <3>1, StoredFacts
    <3> QED BY <2>2, <3>2
  <2> QED BY <2>1, <2>2 DEF Unanswered
<1>4. Sending = {wk.item} /\ wk.item \in Held
  BY TierSets DEF Sending
<1>5. CASE FromSpill
  <2>1. /\ InFlight = {} /\ Spilled' = Spilled /\ SpilledOnce'
        /\ wk.src = "page" /\ RowCopy = {wk.item}
    BY <1>5, CallStays DEF FromSpill, InFlight, RowCopy, Owners, Tiers
  <2>2. \/ wk'.pc = "increment" /\ wk'.src = "page" /\ wk'.item = wk.item
        \/ wk'.pc \in {"page", "drainMem", "wait"} /\ wk'.src = "drain"
    BY <1>1, <1>5, <2>1, ReturnFacts DEF GoodWorkers, WorkerStates
  <2>3. /\ InFlight' = {} /\ Sending' = {} /\ RowCopy' \subseteq RowCopy
        /\ Shape'
    BY <1>1, <1>5, <2>1, <2>2 DEF InFlight, Sending, RowCopy, Shape
  <2>4. Tiers'
    BY <1>2, <2>1, <2>3 DEF Owners, Tiers
  <2>5. Held' = Held \/ Held' = Held \ {wk.item}
    BY <1>2, <1>4, <2>1, <2>3, TierSets
  <2>6. Known'
    BY <1>1, <1>2, <1>3, <2>1, <2>3 DEF Owners, History, Known
  <2>7. Settled'
    <3>1. wk'.pc # "delete" /\ wk.pc # "delete"
      BY <2>2
    <3>2. accepted' \cap Held' \subseteq uncertain'
      BY <1>3, <2>5, <3>1 DEF Owners, History, Settled
    <3>3. \A r \in submitted' :
            r \in (Queued \cup Spilled \cup InFlight \cup spill)'
              \/ r \in accepted' \/ fate'[r] # "none"
      BY <1>2, <1>3, <2>1, <2>3 DEF Owners, History, Settled
    <3> QED BY <1>3, <3>1, <3>2, <3>3 DEF Settled
  <2> QED BY <1>3, <1>4, <2>3, <2>4, <2>5, <2>6, <2>7
<1>6. CASE ~FromSpill
  <2>1. InFlight = {wk.item} /\ RowCopy = {}
    BY <1>6 DEF FromSpill, InFlight, RowCopy
  <2>2. wk.item \notin Queued \cup Spilled \cup spill \cup page
    BY <2>1 DEF Owners, Tiers
  <2>3. /\ Spilled' = Spilled \cup {wk.item} /\ SpilledOnce'
        /\ call'[Worker].pc # "idle"
    <3> DEFINE c == [pc |-> "count", item |-> wk.item, over |-> 0,
                     cap |-> cfg.cap]
    <3>1. call' = [call EXCEPT ![Worker] = c] /\ c.pc # "idle" /\ c.item = wk.item
      BY <1>6 DEF BeginSpill
    <3> HIDE DEF c
    <3> QED BY <1>1, <2>2, <3>1, CallStart DEF Owners, Tiers
  <2>4. wk'.pc = "spill" /\ wk'.src # "page"
    BY <1>1, <1>6 DEF FromSpill, GoodWorkers, WorkerStates
  <2>5. InFlight' = {} /\ Sending' = {} /\ RowCopy' = {} /\ Shape'
    BY <2>3, <2>4 DEF InFlight, Sending, RowCopy, Shape
  <2>6. Tiers'
    BY <1>2, <2>1, <2>2, <2>3, <2>5 DEF Owners, Tiers
  <2>7. Held' = Held
    BY <1>2, <1>4, <2>1, <2>3, <2>5, TierSets
  <2>8. Known'
    BY <1>1, <1>2, <1>3, <2>3, <2>5 DEF Owners, History, Known
  <2>9. Settled'
    <3>1. wk'.pc # "delete" /\ wk.pc # "delete"
      BY <2>4
    <3>2. accepted' \cap Held' \subseteq uncertain'
      BY <1>3, <2>7, <3>1 DEF Owners, History, Settled
    <3>3. \A r \in submitted' :
            r \in (Queued \cup Spilled \cup InFlight \cup spill)'
              \/ r \in accepted' \/ fate'[r] # "none"
      BY <1>2, <1>3, <2>1, <2>3, <2>5 DEF Owners, History, Settled
    <3> QED BY <1>3, <3>1, <3>2, <3>3 DEF Settled
  <2> QED BY <1>3, <1>4, <2>5, <2>6, <2>7, <2>8, <2>9
<1> QED BY <1>5, <1>6

\* A failed send counts one failure; for an in-memory report also the attempt.
LEMMA SendFailOwners ==
  ASSUME Owners, SendFail
  PROVE  /\ Shape' /\ Tiers' /\ History' /\ submitted' = submitted
         /\ wk.item \in Held
         /\ accepted' = accepted \/ accepted' = accepted \cup {wk.item}
         /\ Held' = Held \/ Held' = Held \ {wk.item}
<1>1. /\ wk.pc = "send" /\ Unanswered
      /\ UNCHANGED <<mem, spill, page, submitted, fate>>
      /\ \/ /\ FromSpill /\ call' = call
            /\ wk' = [wk EXCEPT !.pc = "increment"] \/ wk' = Return
         \/ /\ ~FromSpill /\ BeginSpill
            /\ wk' = [wk EXCEPT !.pc = "spill"]
  BY DEF SendFail, table
<1>2. /\ wk.item \in Reports /\ wk \in GoodWorkers /\ Inv
      /\ attempts \in [Reports -> Nat] /\ fails \in [Reports -> Nat]
  BY <1>1, SendingReport DEF Owners, Inv, TypeOK
<1>3. /\ fails'[wk.item] = fails[wk.item] + 1
      /\ \A r \in Reports \ {wk.item} : fails'[r] = fails[r]
  <2>1. fails' = [fails EXCEPT ![wk.item] = fails[wk.item] + 1]
    BY DEF SendFail
  <2> QED BY <1>2, <2>1
<1>4. \/ /\ FromSpill /\ attempts' = attempts
         /\ wk'.pc = "increment" /\ wk'.item = wk.item
      \/ /\ ~FromSpill
         /\ attempts' = [attempts EXCEPT ![wk.item] = attempts[wk.item] + 1]
         /\ wk'.pc = "spill"
  BY <1>2 DEF SendFail, GoodWorkers, WorkerStates
<1>5. Queued' = Queued
  BY <1>1, QueueStays
<1>6. Fresh'
  <2>1. CASE FromSpill
    BY <1>1, <1>4, <1>5, <2>1 DEF Owners, History, Fresh
  <2>2. CASE ~FromSpill
    <3>1. InFlight = {wk.item}
      BY <1>1, <2>2 DEF FromSpill, InFlight
    <3>2. wk.item \notin Queued /\ wk.item \in submitted
      BY <3>1 DEF Owners, Tiers, History, Known
    <3>3. \A r \in Reports \ {wk.item} : attempts'[r] = attempts[r]
      BY <1>2, <1>4, <2>2
    <3> QED BY <1>1, <1>5, <3>2, <3>3 DEF Owners, History, Fresh
  <2> QED BY <2>1, <2>2
<1>7. Counted'
  <2>1. \A r \in Reports : attempts[r] <= fails[r] /\ attempts[r] \in Nat /\ fails[r] \in Nat
    BY <1>2 DEF Owners, History, Counted
  <2>2. \A r \in Reports :
          /\ attempts'[r] <= fails'[r]
          /\ wk'.pc = "increment" /\ wk'.item = r
               => attempts'[r] + 1 <= fails'[r]
    <3>1. CASE attempts' = attempts /\ wk'.item = wk.item
      BY <1>3, <2>1, <3>1
    <3>2. CASE /\ attempts' = [attempts EXCEPT ![wk.item] = attempts[wk.item] + 1]
               /\ wk'.pc = "spill"
      <4>1. /\ attempts'[wk.item] = attempts[wk.item] + 1
            /\ \A r \in Reports \ {wk.item} : attempts'[r] = attempts[r]
        BY <1>2, <3>2
      <4> QED BY <1>2, <1>3, <2>1, <3>2, <4>1
    <3> QED BY <1>4, <3>1, <3>2
  <2>3. wk'.pc # "drop"
    BY <1>4
  <2>4. NoEarlyDrop'
    <3> SUFFICES ASSUME NEW r \in Reports, fate'[r] = "gaveUp"
                 PROVE  \E c \in Configs : fails'[r] >= c.maxAttempts
      BY DEF NoEarlyDrop
    <3>1. PICK c \in Configs : fails[r] >= c.maxAttempts
      BY <1>1 DEF Owners, History, Counted, NoEarlyDrop
    <3>2. fails'[r] >= fails[r] /\ fails[r] \in Nat /\ fails'[r] \in Nat
      BY <1>2, <1>3, <2>1
    <3>3. c.maxAttempts \in Nat
      BY OutboxAssumption DEF Config
    <3> QED BY <3>1, <3>2, <3>3
  <2> QED BY <2>2, <2>3, <2>4 DEF Counted
<1> QED BY <1>1, <1>6, <1>7, UnansweredOwners DEF History

\* A send cancelled by the shutdown counts nothing.
LEMMA SendCanceledOwners ==
  ASSUME Owners, SendCanceled
  PROVE  /\ Shape' /\ Tiers' /\ History' /\ submitted' = submitted
         /\ wk.item \in Held
         /\ accepted' = accepted \/ accepted' = accepted \cup {wk.item}
         /\ Held' = Held \/ Held' = Held \ {wk.item}
<1>1. /\ wk.pc = "send" /\ Unanswered
      /\ UNCHANGED <<mem, spill, page, submitted, fate, attempts, fails>>
      /\ \/ /\ FromSpill /\ call' = call
            /\ wk' = [wk EXCEPT !.pc = "increment"] \/ wk' = Return
         \/ /\ ~FromSpill /\ BeginSpill
            /\ wk' = [wk EXCEPT !.pc = "spill"]
  BY DEF SendCanceled, table
<1>2. wk'.pc \notin {"increment", "drop"}
  BY ReturnFacts DEF SendCanceled, Owners, Inv, GoodWorkers, WorkerStates
<1>3. Fresh'
  BY <1>1, QueueStays DEF Owners, History, Fresh
<1>4. Counted'
  BY <1>1, <1>2 DEF Owners, History, Counted, NoEarlyDrop
<1> QED BY <1>1, <1>3, <1>4, UnansweredOwners DEF History

\* A delivered row is deleted, or its report becomes uncertain; an item past
\* MaxAttempts is given up after that many failed sends.
LEMMA SpillDeleteOwners ==
  ASSUME Owners, SpillDelete
  PROVE  Shape' /\ Tiers' /\ History' /\ Released
<1>1. /\ wk.pc \in {"delete", "drop"} /\ wk \in GoodWorkers /\ Inv
      /\ wk.item \in Reports /\ wk' = Return
      /\ mem' = mem /\ call' = call /\ page' = page
      /\ UNCHANGED <<submitted, accepted, repeated, attempts, fails>>
  BY SendingReport DEF Owners, Inv, SpillDelete
<1>2. /\ InFlight = {} /\ Sending = {} /\ wk.src = "page"
      /\ RowCopy = {wk.item}
  BY <1>1 DEF Owners, Shape, InFlight, Sending, RowCopy
<1>3. wk'.pc \in {"page", "drainMem", "wait"} /\ wk'.src = "drain"
  BY <1>1, ReturnFacts
<1>4. InFlight' = {} /\ Sending' = {} /\ RowCopy' = {} /\ Shape'
  BY <1>1, <1>3 DEF Owners, InFlight, Sending, RowCopy, Shape
<1>5. Queued' = Queued /\ Spilled' = Spilled /\ QueuedOnce' /\ SpilledOnce'
  BY <1>1, QueueStays, CallStays DEF Owners, Tiers
<1>6. /\ spill' = spill \/ spill' = spill \ {wk.item}
      /\ uncertain' = uncertain \/ uncertain' = uncertain \cup {wk.item}
      /\ wk.pc = "delete" => spill' = spill \ {wk.item} \/ wk.item \in uncertain'
      /\ fate' = fate \/ (wk.pc = "drop" /\ Dropped({wk.item}, "gaveUp"))
      /\ wk.pc = "drop" => spill' = spill \/ fate'[wk.item] # "none"
  <2>1. CASE spill' = spill \ {wk.item} /\ uncertain' = uncertain
             /\ (IF wk.pc = "drop" THEN Dropped({wk.item}, "gaveUp")
                                   ELSE UNCHANGED fate)
    <3>1. wk.pc = "drop" => fate'[wk.item] # "none"
      BY <1>1, <2>1, DroppedFacts DEF Fates
    <3> QED BY <1>1, <2>1, <3>1
  <2>2. CASE /\ spill' = spill /\ fate' = fate
             /\ uncertain' = IF wk.pc = "delete" THEN uncertain \cup {wk.item}
                                                 ELSE uncertain
    BY <1>1, <2>2
  <2> QED BY <2>1, <2>2 DEF SpillDelete
<1>7. Tiers'
  BY <1>4, <1>5, <1>1, <1>6 DEF Owners, Tiers
<1>8. Held' \subseteq Held
  BY <1>1, <1>4, <1>5, <1>6, TierSets
<1>9. Known'
  BY <1>1, <1>4, <1>5, <1>6 DEF Owners, History, Known
<1>10. Fresh'
  BY <1>1, <1>5 DEF Owners, History, Fresh
<1>11. \A r \in Reports : fate[r] # "none" => fate'[r] # "none"
  BY <1>1, <1>6, DroppedFacts DEF Fates
<1>12. Settled'
  <2>1. ASSUME NEW r \in submitted'
        PROVE  r \in (Queued \cup Spilled \cup InFlight \cup spill)'
                 \/ r \in accepted' \/ fate'[r] # "none"
    <3>1. r \in submitted /\ r \in Reports
      BY <1>1 DEF Inv, TypeOK
    <3>2. r \in Queued \cup Spilled \cup spill \/ r \in accepted \/ fate[r] # "none"
      BY <1>2, <3>1 DEF Owners, History, Settled
    <3>3. CASE r = wk.item
      <4>1. wk.pc = "delete" => wk.item \in accepted
        BY DEF Owners, History, Settled
      <4> QED BY <1>1, <1>5, <1>6, <1>11, <3>1, <3>2, <3>3, <4>1
    <3>4. CASE r # wk.item
      BY <1>1, <1>5, <1>6, <1>11, <3>1, <3>2, <3>4
    <3> QED BY <3>3, <3>4
  <2>2. ASSUME NEW r \in accepted' \cap Held' PROVE r \in uncertain'
    <3>1. r \in accepted \cap Held
      BY <1>1, <1>8, <2>2
    <3>2. r \in uncertain \/ (wk.pc = "delete" /\ wk.item = r)
      BY <3>1 DEF Owners, History, Settled
    <3>3. CASE wk.pc = "delete" /\ wk.item = r
      <4>1. r \notin Queued \cup Spilled \cup page
        BY <1>2, <3>3 DEF Owners, Tiers
      <4> QED BY <1>1, <1>4, <1>5, <1>6, <2>2, <3>3, <4>1, TierSets
    <3> QED BY <1>6, <3>2, <3>3
  <2>3. NoSpuriousDuplicate'
    BY <1>1, <1>6 DEF Owners, History, Settled, NoSpuriousDuplicate
  <2> QED BY <1>3, <2>1, <2>2, <2>3 DEF Settled
<1>13. Counted'
  <2>1. NoEarlyDrop'
    <3> SUFFICES ASSUME NEW r \in Reports, fate'[r] = "gaveUp"
                 PROVE  \E c \in Configs : fails'[r] >= c.maxAttempts
      BY DEF NoEarlyDrop
    <3>1. CASE fate[r] = "gaveUp"
      BY <1>1, <3>1 DEF Owners, History, Counted, NoEarlyDrop
    <3>2. CASE fate[r] # "gaveUp"
      <4>1. r = wk.item /\ wk.pc = "drop"
        BY <1>6, <3>2 DEF Dropped
      <4>2. PICK c \in Configs : attempts[r] >= c.maxAttempts
        BY <4>1 DEF Owners, History, Counted
      <4>3. attempts[r] <= fails[r] /\ attempts[r] \in Nat /\ fails[r] \in Nat
        BY <1>1 DEF Owners, History, Counted, Inv, TypeOK
      <4>4. c.maxAttempts \in Nat
        BY OutboxAssumption DEF Config
      <4> QED BY <1>1, <4>2, <4>3, <4>4
    <3> QED BY <3>1, <3>2
  <2> QED BY <1>1, <1>3, <2>1 DEF Owners, History, Counted
<1> QED BY <1>1, <1>4, <1>7, <1>8, <1>9, <1>10, <1>12, <1>13
        DEF History, Released

\* The increment catches up with the failure counted by SendFail.
LEMMA SpillIncrementOwners ==
  ASSUME Owners, SpillIncrementAttempts
  PROVE  Shape' /\ Tiers' /\ History' /\ Released
<1>1. /\ wk.pc = "increment" /\ wk \in GoodWorkers /\ Inv
      /\ wk.item \in Reports /\ wk' = Return
      /\ attempts \in [Reports -> Nat] /\ fails \in [Reports -> Nat]
      /\ mem' = mem /\ call' = call /\ page' = page /\ spill' = spill
      /\ UNCHANGED <<submitted, accepted, repeated, uncertain, fails, fate>>
  BY SendingReport
     DEF Owners, Inv, TypeOK, SpillIncrementAttempts, table, history
<1>2. InFlight = {} /\ Sending = {} /\ RowCopy = {wk.item}
  BY <1>1 DEF Owners, Shape, InFlight, Sending, RowCopy
<1>3. wk'.pc \in {"page", "drainMem", "wait"} /\ wk'.src = "drain"
  BY <1>1, ReturnFacts
<1>4. InFlight' = {} /\ Sending' = {} /\ RowCopy' = {} /\ Shape'
  BY <1>1, <1>3 DEF Owners, InFlight, Sending, RowCopy, Shape
<1>5. Queued' = Queued /\ Spilled' = Spilled /\ QueuedOnce' /\ SpilledOnce'
  BY <1>1, QueueStays, CallStays DEF Owners, Tiers
<1>6. Tiers'
  BY <1>1, <1>4, <1>5 DEF Owners, Tiers
<1>7. Held' \subseteq Held
  BY <1>1, <1>4, <1>5, TierSets
<1>8. Known'
  BY <1>1, <1>4, <1>5 DEF Owners, History, Known
<1>9. /\ \A r \in Reports \ {wk.item} : attempts'[r] = attempts[r]
      /\ \/ attempts'[wk.item] = attempts[wk.item]
         \/ attempts'[wk.item] = attempts[wk.item] + 1
  <2>1. \/ attempts' = attempts
        \/ attempts' = [attempts EXCEPT ![wk.item] = attempts[wk.item] + 1]
    BY DEF SpillIncrementAttempts
  <2> QED BY <1>1, <2>1
<1>10. Fresh'
  <2>1. wk.item \notin Queued /\ wk.item \in submitted
    BY <1>2 DEF Owners, Tiers, History, Known
  <2> QED BY <1>1, <1>5, <1>9, <2>1 DEF Owners, History, Fresh
<1>11. Settled'
  <2>1. accepted' \cap Held' \subseteq uncertain'
    BY <1>1, <1>7 DEF Owners, History, Settled
  <2> QED BY <1>1, <1>2, <1>3, <1>4, <1>5, <2>1
          DEF Owners, History, Settled, NoSpuriousDuplicate
<1>12. Counted'
  <2>1. attempts[wk.item] + 1 <= fails[wk.item] /\ attempts[wk.item] \in Nat
        /\ fails[wk.item] \in Nat
    BY <1>1 DEF Owners, History, Counted
  <2>2. \A r \in Reports : attempts'[r] <= fails'[r]
    BY <1>1, <1>9, <2>1 DEF Owners, History, Counted
  <2>3. NoEarlyDrop'
    BY <1>1 DEF Owners, History, Counted, NoEarlyDrop
  <2> QED BY <1>3, <2>2, <2>3 DEF Counted
<1> QED BY <1>1, <1>4, <1>6, <1>7, <1>8, <1>10, <1>11, <1>12
        DEF History, Released

\* The end of the process drops what is in memory and leaves the table.
LEMMA DownOwners ==
  ASSUME Owners, NEW why \in {"dropped", "exit"}, Down(why)
  PROVE  Shape' /\ Tiers' /\ History' /\ Released
<1>1. /\ mem' = <<>> /\ call' = [w \in Writers |-> NoCall] /\ wk' = Start
      /\ page' = {} /\ spill' = spill /\ Inv /\ Worker \in Writers
      /\ UNCHANGED <<submitted, accepted, repeated, attempts, fails>>
      /\ uncertain' = IF wk.pc = "delete" THEN uncertain \cup {wk.item}
                                          ELSE uncertain
      /\ Dropped(InMemory, why)
  BY DEF Owners, Down, table, Writers
<1>2. wk'.pc = "drainMem" /\ wk'.src = "drain"
  BY <1>1 DEF Start
<1>3. InFlight' = {} /\ Sending' = {} /\ RowCopy' = {}
  BY <1>2 DEF InFlight, Sending, RowCopy
<1>4. Queued' = {} /\ QueuedOnce'
  BY <1>1 DEF Queued, Elements, QueuedOnce
<1>5. \A w \in Writers : call'[w].pc = "idle"
  BY <1>1 DEF NoCall
<1>6. Spilled' = {} /\ SpilledOnce'
  BY <1>5 DEF Spilled, SpilledOnce
<1>7. Shape'
  BY <1>1, <1>2, <1>5 DEF Shape
<1>8. Tiers'
  BY <1>1, <1>3, <1>4, <1>6 DEF Tiers
<1>9. Held' = spill /\ spill \subseteq Held
  BY <1>1, <1>3, <1>4, <1>6, TierSets
<1>10. /\ \A r \in Reports : r \in InMemory => fate'[r] # "none"
       /\ \A r \in Reports : \/ fate'[r] = fate[r]
                             \/ fate[r] = "none" /\ fate'[r] = why
  BY <1>1, DroppedFacts DEF Fates
<1>11. Known'
  BY <1>1, <1>3, <1>4, <1>6 DEF Owners, History, Known
<1>12. Fresh'
  BY <1>1, <1>4 DEF Owners, History, Fresh
<1>13. Settled'
  <2>1. ASSUME NEW r \in submitted'
        PROVE  r \in (Queued \cup Spilled \cup InFlight \cup spill)'
                 \/ r \in accepted' \/ fate'[r] # "none"
    <3>1. r \in submitted /\ r \in Reports
      BY <1>1 DEF Inv, TypeOK
    <3>2. r \in InMemory \cup spill \/ r \in accepted \/ fate[r] # "none"
      BY <3>1, TierSets DEF Owners, History, Settled
    <3> QED BY <1>1, <1>10, <3>1, <3>2
  <2>2. accepted' \cap Held' \subseteq uncertain'
    BY <1>1, <1>9 DEF Owners, History, Settled
  <2>3. NoSpuriousDuplicate'
    BY <1>1 DEF Owners, History, Settled, NoSpuriousDuplicate
  <2> QED BY <1>2, <2>1, <2>2, <2>3 DEF Settled
<1>14. Counted'
  <2>1. \A r \in Reports : fate'[r] = "gaveUp" => fate[r] = "gaveUp"
    BY <1>10
  <2> QED BY <1>1, <1>2, <2>1 DEF Owners, History, Counted, NoEarlyDrop
<1> QED BY <1>1, <1>7, <1>8, <1>9, <1>11, <1>12, <1>13, <1>14
        DEF History, Released

-----------------------------------------------------------------------------
\* The theorems.

\* Init satisfies the invariant.
LEMMA InitOwners == Init => Owners
<1> SUFFICES ASSUME Init PROVE Owners
  OBVIOUS
<1>1. Inv
  BY InitInv
<1>2. \A w \in Writers : call[w].pc = "idle"
  BY DEF Init, NoCall
<1>3. Queued = {} /\ QueuedOnce /\ Spilled = {} /\ SpilledOnce
  BY <1>2 DEF Init, Queued, Elements, QueuedOnce, Spilled, SpilledOnce
<1>4. /\ InFlight = {} /\ RowCopy = {} /\ Sending = {}
      /\ wk.pc = "drainMem" /\ wk.src = "drain"
  BY DEF Init, Start, InFlight, RowCopy, Sending
<1>5. Shape
  BY <1>2, <1>4 DEF Shape, Writers
<1>6. Tiers
  BY <1>3, <1>4 DEF Init, Tiers
<1>7. Known /\ Fresh
  BY <1>3, <1>4 DEF Init, Known, Fresh
<1>8. Settled
  BY <1>4 DEF Init, Settled, NoSpuriousDuplicate
<1>9. Counted
  <2>1. \A r \in Reports : fate[r] = "none" /\ attempts[r] = 0 /\ fails[r] = 0
    BY DEF Init
  <2> QED BY <1>4, <2>1 DEF Counted, NoEarlyDrop
<1> QED BY <1>1, <1>5, <1>6, <1>7, <1>8, <1>9 DEF Owners, History

\* What a step of the outbox does to the ledger's three sets.
LedgerStep ==
  \/ Released
  \/ \E r \in Reports : /\ r \notin submitted
                        /\ submitted' = submitted \cup {r}
                        /\ Held' = Held \cup {r}
                        /\ accepted' = accepted
  \/ \E r \in Held : /\ accepted' = accepted \cup {r}
                     /\ Held' = Held \/ Held' = Held \ {r}
                     /\ submitted' = submitted

\* Every step keeps the invariant and is a step of the ledger.
LEMMA NextOwners ==
  ASSUME Owners, [Next]_vars
  PROVE  Owners' /\ LedgerStep
<1>1. Inv'
  BY NextInv DEF Owners
<1>2. ASSUME Moved, Shape', Tiers' PROVE Owners' /\ LedgerStep
  BY <1>1, <1>2, MovedHistory, MovedReleases DEF Owners, LedgerStep
<1>3. ASSUME Shape', Tiers', History', Released PROVE Owners' /\ LedgerStep
  BY <1>1, <1>3 DEF Owners, LedgerStep
<1>4. ASSUME Shape', Tiers', History', submitted' = submitted,
             wk.item \in Held,
             accepted' = accepted \/ accepted' = accepted \cup {wk.item},
             Held' = Held \/ Held' = Held \ {wk.item}
      PROVE  Owners' /\ LedgerStep
  <2>1. CASE accepted' = accepted
    BY <1>1, <1>4, <2>1 DEF Owners, LedgerStep, Released
  <2>2. CASE accepted' = accepted \cup {wk.item}
    BY <1>1, <1>4, <2>2 DEF Owners, LedgerStep
  <2> QED BY <1>4, <2>1, <2>2
<1>5. ASSUME NEW s \in Submitters, NEW r \in Reports, Submit(s, r)
      PROVE  Owners' /\ LedgerStep
  <2>1. Shape' /\ Tiers' /\ History' /\ Held' = Held \cup {r}
    BY <1>5, SubmitOwners
  <2>2. /\ r \notin submitted /\ submitted' = submitted \cup {r}
        /\ accepted' = accepted
    BY <1>5 DEF Submit
  <2> QED BY <1>1, <2>1, <2>2 DEF Owners, LedgerStep
<1>6. ASSUME NEW s \in Submitters, SubmitError(s)
      PROVE  Owners' /\ LedgerStep
  BY <1>2, <1>6, SubmitErrorMoves
<1>7. ASSUME NEW w \in Writers, Spilling(w)
      PROVE  Owners' /\ LedgerStep
  BY <1>2, <1>7, SpillCountMoves, SpillEvictMoves, SpillEnqueueMoves
     DEF Spilling
<1>8. CASE SpillBlind \/ SpillLost
  BY <1>2, <1>8, SpillBlindMoves, SpillLostMoves
<1>9. CASE DrainMem \/ LoadPage \/ NextRow \/ Wake
  BY <1>2, <1>9, DrainMemMoves, LoadPageMoves, NextRowMoves, WakeMoves
<1>10. CASE SendOK \/ SendFail \/ SendCanceled
  BY <1>4, <1>10, SendOKOwners, SendFailOwners, SendCanceledOwners
<1>11. CASE SpillDelete \/ SpillIncrementAttempts
  BY <1>3, <1>11, SpillDeleteOwners, SpillIncrementOwners
<1>12. CASE Pruning
  BY <1>2, <1>12, PruningMoves
<1>13. CASE UpdateConfig \/ Tick \/ Signal \/ Restart \/ UNCHANGED vars
  BY <1>2, <1>13, OutsideMoves
<1>14. CASE Crash \/ Exit
  BY <1>3, <1>14, DownOwners DEF Crash, Exit
<1> QED BY <1>5, <1>6, <1>7, <1>8, <1>9, <1>10, <1>11, <1>12, <1>13, <1>14
        DEF Next, Working, Environment

\* The invariant holds of every behaviour.
LEMMA OwnersInvariant == Spec => []Owners
<1>1. Owners /\ [Next]_vars => Owners'
  BY NextOwners
<1> QED BY InitOwners, <1>1, PTL DEF Spec

\* A report never has two owners among the channel, the spilling goroutines,
\* the worker and the table, so no INSERT of SpillEnqueue meets its own key.
THEOREM OneOwner == Spec => []SingleOwner
<1>1. Owners => SingleOwner
  BY TiersSingle DEF Owners
<1> QED BY OwnersInvariant, <1>1, PTL

\* No path through submit, the worker, the prune loop, a crash or a shutdown
\* forgets a report without one of the dropping branches having taken it.
THEOREM NothingForgotten == Spec => []NoSilentLoss
<1>1. Owners => NoSilentLoss
  BY HistoryGoals DEF Owners, History
<1> QED BY OwnersInvariant, <1>1, PTL

\* The server is given a report twice only after a lost answer or a row of a
\* stored report that could not be deleted.
THEOREM DuplicatesExplained == Spec => []NoSpuriousDuplicate
<1>1. Owners => NoSpuriousDuplicate
  BY HistoryGoals DEF Owners, History
<1> QED BY OwnersInvariant, <1>1, PTL

\* deliver gives a report up only after as many of its sends failed as some
\* configuration allows attempts.
THEOREM GivenUpAfterFailures == Spec => []NoEarlyDrop
<1>1. Owners => NoEarlyDrop
  BY HistoryGoals DEF Owners, History
<1> QED BY OwnersInvariant, <1>1, PTL

\* The outbox implements its promise: whatever its tiers, retries and failures
\* do, its steps are the ledger's.
THEOREM ImplementsLedger == Spec => LedgerSpec
<1>1. Init => Ledger!Init
  <2> SUFFICES ASSUME Init PROVE Ledger!Init
    OBVIOUS
  <2>1. /\ Queued = {} /\ Spilled = {}
        /\ InFlight = {} /\ Sending = {}
    BY DEF Init, NoCall, Start, Queued, Elements, Spilled, InFlight, Sending
  <2> QED BY <2>1, TierSets DEF Init, Ledger!Init
<1>2. Owners /\ [Next]_vars => [Ledger!Next]_(Ledger!lvars)
  <2> SUFFICES ASSUME Owners, [Next]_vars PROVE Ledger!Next
    OBVIOUS
  <2>1. LedgerStep /\ Held \subseteq Reports
    BY NextOwners, TierSets, TierReports DEF Owners
  <2> QED BY <2>1 DEF LedgerStep, Released, Ledger!Next, Ledger!Release,
                      Ledger!Submit, Ledger!Accept
<1> QED BY OwnersInvariant, <1>1, <1>2, PTL DEF Spec, LedgerSpec, Ledger!Spec
=============================================================================
