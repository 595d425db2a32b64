------------------------- MODULE JobLifecycleProofs -------------------------
(***************************************************************************)
(* Proofs about JobLifecycle, for every number of plans, triggers, runs,   *)
(* calls, database failures and calls that the outbox repeats.             *)
(***************************************************************************)
EXTENDS JobLifecycle, FiniteSetTheorems, WellFoundedInduction,
        SequenceTheorems, TLAPS

\* What TypeOK needs to be inductive: a call that has not answered has no
\* answer, a command is for the plan its trigger asked for, and the outbox
\* waits for a call that it made and did not leave.
GoodCalls == {c \in CallStates : c.pc \in {"find", "create"} => ~c.ok}

Types ==
  /\ TypeOK
  /\ calls \in [Calls -> GoodCalls]
  /\ \A t \in cmds : asked[t] \in Plans
  /\ waiting # None => calls[waiting].pc # "free" /\ ~calls[waiting].left

-----------------------------------------------------------------------------
\* Lemmas about the operators.

\* A nonempty finite set of numbers has a largest one.
LEMMA MaxIn ==
  ASSUME NEW S \in SUBSET Nat, IsFiniteSet(S), S # {}
  PROVE  Max(S) \in S
<1> DEFINE Above(n) == {m \in S : m > n}
           T == {Above(n) : n \in S}
           R == StrictSubsetOrdering(S)
<1>1. T \subseteq FiniteSubsetsOf(S)
  BY FS_Subset DEF FiniteSubsetsOf
<1>2. IsWellFoundedOn(R, FiniteSubsetsOf(S))
  BY FS_StrictSubsetOrderingWellFounded
<1>3. T # {}
  OBVIOUS
<1>4. PICK x \in T : \A y \in T : ~(<<y, x>> \in R)
  <2> HIDE DEF R, T
  <2> QED BY <1>1, <1>2, <1>3, WFMin
<1>5. PICK n \in S : x = Above(n)
  BY <1>4
<1>6. Above(n) = {}
  <2> SUFFICES ASSUME NEW m \in Above(n) PROVE FALSE
    OBVIOUS
  <2>1. m \in S /\ m > n /\ m \in Nat /\ n \in Nat
    BY <1>5
  <2>2. \A k \in S : k > m => k > n
    BY <2>1
  <2>3. Above(m) \subseteq Above(n) /\ m \in Above(n) /\ m \notin Above(m)
    <3>1. Above(m) \subseteq Above(n)
      BY <2>2
    <3>2. ~(m > m)
      BY <2>1
    <3>3. m \notin Above(m)
      BY <3>2
    <3> QED BY <3>1, <3>3
  <2>4. <<Above(m), Above(n)>> \in R
    BY <2>3 DEF StrictSubsetOrdering
  <2> QED BY <1>4, <1>5, <2>1, <2>4
<1>7. \A m \in S : n >= m
  BY <1>6
<1> QED BY <1>7 DEF Max

\* FindPlannedJob finds nothing, or an open row of the plan.
LEMMA FindFacts ==
  ASSUME TypeOK, NEW p
  PROVE  \/ FindPlannedJob(p) = None
         \/ /\ FindPlannedJob(p) \in Triggers
            /\ jobs[FindPlannedJob(p)].plan = p
            /\ jobs[FindPlannedJob(p)].status \in Open
<1> DEFINE open == {i \in DOMAIN planned : /\ jobs[planned[i]].plan = p
                                           /\ jobs[planned[i]].status \in Open}
<1>1. /\ DOMAIN planned = 1..Len(planned) /\ Len(planned) \in Nat
      /\ \A i \in DOMAIN planned : planned[i] \in Triggers
  BY DEF TypeOK
<1>2. CASE open = {}
  BY <1>2 DEF FindPlannedJob
<1>3. CASE open # {}
  <2>1. open \subseteq 1..Len(planned) /\ open \in SUBSET Nat
    BY <1>1
  <2>2. IsFiniteSet(open)
    <3>1. IsFiniteSet(1..Len(planned))
      BY <1>1, FS_Interval
    <3> HIDE DEF open
    <3> QED BY <2>1, <3>1, FS_Subset
  <2>3. Max(open) \in open
    <3> HIDE DEF open
    <3> QED BY <1>3, <2>1, <2>2, MaxIn
  <2>4. FindPlannedJob(p) = planned[Max(open)]
    BY <1>3 DEF FindPlannedJob
  <2> QED BY <1>1, <2>3, <2>4
<1> QED BY <1>2, <1>3

\* Removing a plan from currentJobs keeps every other one.
LEMMA FreedFacts ==
  ASSUME slots \in Seq(Plans), NEW p
  PROVE  /\ Freed(p) \in Seq(Plans)
         /\ \A q : q # p /\ Running(q) =>
              \E i \in DOMAIN Freed(p) : Freed(p)[i] = q
<1>1. CASE ~Running(p)
  BY <1>1 DEF Freed, Running
<1>2. CASE Running(p)
  <2> DEFINE k == CHOOSE i \in DOMAIN slots : slots[i] = p
             n == Len(slots)
             s == SubSeq(slots, 1, k - 1)
             u == SubSeq(slots, k + 1, n)
  <2>1. k \in 1..n /\ slots[k] = p /\ n \in Nat
    BY <1>2 DEF Running
  <2>2. Freed(p) = s \o u
    BY <1>2 DEF Freed, RemoveAt
  <2> HIDE DEF k
  <2>3. /\ s \in Seq(Plans) /\ Len(s) = k - 1
        /\ \A i \in 1..(k - 1) : s[i] = slots[i]
    BY <2>1
  <2>4. /\ u \in Seq(Plans) /\ Len(u) = n - k
        /\ \A i \in 1..(n - k) : u[i] = slots[k + i]
    BY <2>1
  <2> HIDE DEF s, u
  <2>5. /\ s \o u \in Seq(Plans) /\ DOMAIN (s \o u) = 1..(n - 1)
        /\ \A i \in 1..(k - 1) : (s \o u)[i] = slots[i]
        /\ \A i \in k..(n - 1) : (s \o u)[i] = slots[i + 1]
    <3>1. /\ s \o u \in Seq(Plans)
          /\ Len(s \o u) = (k - 1) + (n - k)
          /\ \A i \in 1..((k - 1) + (n - k)) :
               (s \o u)[i] = IF i <= k - 1 THEN s[i] ELSE u[i - (k - 1)]
      <4>1. /\ s \o u \in Seq(Plans)
            /\ Len(s \o u) = Len(s) + Len(u)
            /\ \A i \in 1..(Len(s) + Len(u)) :
                 (s \o u)[i] = IF i <= Len(s) THEN s[i] ELSE u[i - Len(s)]
        BY <2>3, <2>4, ConcatProperties, Zenon
      <4> DEFINE v == s \o u
      <4> HIDE DEF v
      <4>2. /\ v \in Seq(Plans)
            /\ Len(v) = (k - 1) + (n - k)
            /\ \A i \in 1..((k - 1) + (n - k)) :
                 v[i] = IF i <= k - 1 THEN s[i] ELSE u[i - (k - 1)]
        BY <2>3, <2>4, <4>1, Zenon DEF v
      <4> QED BY <4>2, Zenon DEF v
    <3>2. (k - 1) + (n - k) = n - 1
      BY <2>1
    <3>3. \A i \in 1..(k - 1) : (s \o u)[i] = slots[i]
      BY <2>1, <2>3, <3>1, <3>2
    <3>4. ASSUME NEW i \in k..(n - 1)
          PROVE  (s \o u)[i] = slots[i + 1]
      <4>1. /\ i \in 1..(n - 1) /\ ~(i <= k - 1)
            /\ i - (k - 1) \in 1..(n - k) /\ k + (i - (k - 1)) = i + 1
        BY <2>1
      <4>2. (s \o u)[i] = u[i - (k - 1)]
        BY <3>1, <3>2, <4>1
      <4>3. u[i - (k - 1)] = slots[i + 1]
        BY <2>4, <4>1
      <4> QED BY <4>2, <4>3
    <3>5. DOMAIN (s \o u) = 1..(n - 1)
      <4>1. DOMAIN (s \o u) = 1..Len(s \o u)
        BY <3>1, LenProperties, Zenon
      <4> QED BY <3>1, <3>2, <4>1
    <3> QED BY <3>1, <3>3, <3>4, <3>5
  <2>6. ASSUME NEW q, q # p, NEW i \in 1..n, slots[i] = q
        PROVE  \E j \in DOMAIN (s \o u) : (s \o u)[j] = q
    <3>1. i < k \/ i > k
      BY <2>1, <2>6
    <3>2. CASE i < k
      <4>1. i \in 1..(k - 1) /\ i \in 1..(n - 1)
        BY <2>1, <3>2
      <4>2. (s \o u)[i] = slots[i] /\ i \in DOMAIN (s \o u)
        BY <2>5, <4>1, Zenon
      <4> QED BY <2>6, <4>2, Zenon
    <3>3. CASE i > k
      <4>1. i - 1 \in k..(n - 1) /\ i - 1 \in 1..(n - 1) /\ (i - 1) + 1 = i
        BY <2>1, <3>3
      <4>2. (s \o u)[i - 1] = slots[i]
        BY <2>5, <4>1
      <4>3. i - 1 \in DOMAIN (s \o u)
        BY <2>5, <4>1, Zenon
      <4> QED BY <2>6, <4>2, <4>3, Zenon
    <3> QED BY <3>1, <3>2, <3>3
  <2>7. DOMAIN slots = 1..n
    OBVIOUS
  <2> QED BY <2>2, <2>5, <2>6, <2>7 DEF Running
<1> QED BY <1>1, <1>2

\* Taking a slot keeps the slots taken.
LEMMA AppendFacts ==
  ASSUME slots \in Seq(Plans), NEW p \in Plans, slots' = Append(slots, p)
  PROVE  /\ slots' \in Seq(Plans)
         /\ Running(p)'
         /\ \A q : Running(q) => Running(q)'
<1>1. /\ DOMAIN slots = 1..Len(slots) /\ Len(slots) \in Nat
      /\ DOMAIN slots' = 1..(Len(slots) + 1)
      /\ slots'[Len(slots) + 1] = p
      /\ \A i \in 1..Len(slots) : slots'[i] = slots[i]
      /\ slots' \in Seq(Plans)
  OBVIOUS
<1> QED BY <1>1 DEF Running

-----------------------------------------------------------------------------
\* The states of a call and of the receive goroutine are unions of sets of
\* records; one set of records and a condition says the same.

CallRecords == [pc : {"free", "find", "create", "complete", "reply"},
                report : Runs \cup {None}, row : Triggers \cup {None},
                ok : BOOLEAN, left : BOOLEAN]
WellFormed(c) ==
  /\ c.pc = "free" => c.report = None /\ c.row = None /\ ~c.ok /\ ~c.left
  /\ c.pc # "free" => c.report \in Runs
  /\ c.pc = "complete" => c.row \in Triggers
  /\ c.pc # "complete" => c.row = None
  /\ c.pc # "reply" => ~c.ok

RecvRecords == [pc : {"idle", "find", "update", "write"}, plan : Plans \cup {None},
                row : Rows \cup {None}, log : SUBSET {"report", "live"}]
RecvWell(v) ==
  /\ v.pc \in {"idle", "write"} <=> v.plan = None
  /\ v.pc \in {"idle", "find"} => v.row = None
  /\ v.pc = "update" => v.row \in Triggers
  /\ v.pc = "write" => v.row \in Runs
  /\ v.pc # "write" => v.log = {}

\* A record is its fields.
LEMMA RecordIs ==
  ASSUME NEW A, NEW B, NEW C, NEW D, NEW E,
         NEW c \in [pc : A, report : B, row : C, ok : D, left : E]
  PROVE  c = [pc |-> c.pc, report |-> c.report, row |-> c.row, ok |-> c.ok, left |-> c.left]
OBVIOUS

\* The two forms agree on calls.
LEMMA CallForm == ASSUME NEW c PROVE c \in GoodCalls <=> c \in CallRecords /\ WellFormed(c)
<1> DEFINE A == [pc : {"find", "create", "reply"}, report : Runs, row : {None},
          ok : BOOLEAN, left : BOOLEAN]
           B == [pc : {"complete"}, report : Runs, row : Triggers, ok : {FALSE},
          left : BOOLEAN]
<1>0. None \notin Runs /\ None \notin Triggers
  BY JobLifecycleAssumption DEF Rows
<1>1. ASSUME c \in GoodCalls PROVE c \in CallRecords /\ WellFormed(c)
  <2>1. CASE c = NoCall
    BY <2>1 DEF NoCall, CallRecords, WellFormed
  <2>2. CASE c \in A
    BY <1>1, <2>2 DEF GoodCalls, CallRecords, WellFormed
  <2>3. CASE c \in B
    BY <1>1, <2>3 DEF GoodCalls, CallRecords, WellFormed
  <2> QED BY <1>1, <2>1, <2>2, <2>3 DEF GoodCalls, CallStates
<1>2. ASSUME c \in CallRecords, WellFormed(c) PROVE c \in GoodCalls
  <2>1. CASE c.pc = "free"
    <3>1. c.report = None /\ c.row = None /\ c.ok = FALSE /\ c.left = FALSE
      BY <1>2, <2>1 DEF WellFormed, CallRecords
    <3>2. c = NoCall
      BY <1>2, <2>1, <3>1 DEF CallRecords, NoCall
    <3> QED BY <3>2 DEF GoodCalls, CallStates, NoCall
  <2>2. CASE c.pc = "complete"
    <3>1. c.ok = FALSE /\ c.report \in Runs /\ c.row \in Triggers /\ c.left \in BOOLEAN
      BY <1>2, <2>2 DEF WellFormed, CallRecords
    <3>2. c = [pc |-> c.pc, report |-> c.report, row |-> c.row, ok |-> c.ok, left |-> c.left]
      BY <1>2, RecordIs DEF CallRecords
    <3>3. c \in B
      BY <2>2, <3>1, <3>2
    <3> QED BY <3>3, <2>2 DEF GoodCalls, CallStates
  <2>3. CASE c.pc \in {"find", "create", "reply"}
    <3>1. c.report \in Runs /\ c.row = None /\ c.left \in BOOLEAN /\ c.ok \in BOOLEAN
      BY <1>2, <2>3 DEF WellFormed, CallRecords
    <3>2. c = [pc |-> c.pc, report |-> c.report, row |-> c.row, ok |-> c.ok, left |-> c.left]
      BY <1>2, RecordIs DEF CallRecords
    <3>3. c \in A
      BY <2>3, <3>1, <3>2
    <3> QED BY <1>2, <3>3, <2>3 DEF GoodCalls, CallStates, WellFormed
  <2> QED BY <1>2, <2>1, <2>2, <2>3 DEF CallRecords
<1> QED BY <1>1, <1>2


\* The two forms agree on the receive goroutine.
LEMMA RecvForm == ASSUME NEW c PROVE c \in RecvStates <=> c \in RecvRecords /\ RecvWell(c)
<1> DEFINE A == [pc : {"find"}, plan : Plans, row : {None}, log : {{}}]
           B == [pc : {"update"}, plan : Plans, row : Triggers, log : {{}}]
           D == [pc : {"write"}, plan : {None}, row : Runs, log : SUBSET {"report", "live"}]
<1>0. None \notin Plans /\ None \notin Rows /\ Triggers \subseteq Rows /\ Runs \subseteq Rows
  BY JobLifecycleAssumption DEF Rows
<1>1. ASSUME c \in RecvStates PROVE c \in RecvRecords /\ RecvWell(c)
  <2>1. CASE c = Idle
    BY <2>1 DEF Idle, RecvRecords, RecvWell
  <2>2. CASE c \in A
    BY <1>0, <2>2 DEF RecvRecords, RecvWell
  <2>3. CASE c \in B
    BY <1>0, <2>3 DEF RecvRecords, RecvWell
  <2>4. CASE c \in D
    BY <1>0, <2>4 DEF RecvRecords, RecvWell
  <2> QED BY <1>1, <2>1, <2>2, <2>3, <2>4 DEF RecvStates
<1>2. ASSUME c \in RecvRecords, RecvWell(c) PROVE c \in RecvStates
  <2>0. c = [pc |-> c.pc, plan |-> c.plan, row |-> c.row, log |-> c.log]
    BY <1>2 DEF RecvRecords
  <2>1. CASE c.pc = "idle"
    BY <1>2, <2>0, <2>1 DEF RecvWell, RecvStates, Idle
  <2>2. CASE c.pc = "find"
    <3>1. c.plan \in Plans /\ c.row = None /\ c.log = {}
      BY <1>2, <2>2 DEF RecvWell, RecvRecords
    <3>2. c \in A
      BY <2>0, <2>2, <3>1
    <3> QED BY <3>2 DEF RecvStates
  <2>3. CASE c.pc = "update"
    <3>1. c.plan \in Plans /\ c.row \in Triggers /\ c.log = {}
      BY <1>2, <2>3 DEF RecvWell, RecvRecords
    <3>2. c \in B
      BY <2>0, <2>3, <3>1
    <3> QED BY <3>2 DEF RecvStates
  <2>4. CASE c.pc = "write"
    <3>1. c.plan = None /\ c.row \in Runs /\ c.log \in SUBSET {"report", "live"}
      BY <1>2, <2>4 DEF RecvWell, RecvRecords
    <3>2. c \in D
      BY <2>0, <2>4, <3>1
    <3> QED BY <3>2 DEF RecvStates
  <2> QED BY <1>2, <2>1, <2>2, <2>3, <2>4 DEF RecvRecords
<1> QED BY <1>1, <1>2

\* A call that starts.
LEMMA NewCall ==
  ASSUME NEW r \in Runs, NEW pc \in {"create", "find"}
  PROVE  LET d == [NoCall EXCEPT !.report = r, !.pc = pc] IN
           d \in GoodCalls /\ d.pc = pc /\ d.report = r /\ d.row = None
           /\ d.ok = FALSE /\ d.left = FALSE
BY DEF NoCall, GoodCalls, CallStates

\* A call that is given up.
LEMMA LeftCall ==
  ASSUME NEW c \in GoodCalls, c.pc # "free"
  PROVE  LET d == [c EXCEPT !.left = TRUE] IN
           d \in GoodCalls /\ d.pc = c.pc /\ d.report = c.report /\ d.row = c.row
           /\ d.ok = c.ok /\ d.left = TRUE
<1> DEFINE d == [c EXCEPT !.left = TRUE]
<1>1. c \in CallRecords /\ WellFormed(c)
  BY CallForm
<1>2. d \in CallRecords /\ d.pc = c.pc /\ d.report = c.report /\ d.row = c.row
      /\ d.ok = c.ok /\ d.left = TRUE
  BY <1>1 DEF CallRecords
<1> HIDE DEF d
<1>3. WellFormed(d)
  BY <1>1, <1>2 DEF WellFormed
<1> QED BY <1>2, <1>3, CallForm DEF d

\* A call that answers.
LEMMA AnsweredCall ==
  ASSUME NEW c \in GoodCalls, c.pc # "free", NEW ok \in BOOLEAN
  PROVE  LET d == [c EXCEPT !.pc = "reply", !.row = None, !.ok = ok] IN
           d \in GoodCalls /\ d.pc = "reply" /\ d.report = c.report /\ d.row = None
           /\ d.ok = ok /\ d.left = c.left
<1> DEFINE d == [c EXCEPT !.pc = "reply", !.row = None, !.ok = ok]
<1>1. c \in CallRecords /\ WellFormed(c)
  BY CallForm
<1>2. d \in CallRecords /\ d.pc = "reply" /\ d.report = c.report /\ d.row = None
      /\ d.ok = ok /\ d.left = c.left
  BY <1>1 DEF CallRecords
<1> HIDE DEF d
<1>3. WellFormed(d)
  BY <1>1, <1>2 DEF WellFormed
<1> QED BY <1>2, <1>3, CallForm DEF d

\* A call that has looked for a row.
LEMMA FoundCall ==
  ASSUME NEW c \in GoodCalls, c.pc = "find", NEW j \in Triggers \cup {None}
  PROVE  LET d == [c EXCEPT !.row = j,
                     !.pc = IF j = None THEN "create" ELSE "complete"] IN
           d \in GoodCalls /\ d.pc = (IF j = None THEN "create" ELSE "complete")
           /\ d.report = c.report /\ d.row = j
           /\ d.ok = c.ok /\ d.left = c.left
<1> DEFINE d == [c EXCEPT !.row = j,
                     !.pc = IF j = None THEN "create" ELSE "complete"]
<1>0. None \notin Triggers BY JobLifecycleAssumption DEF Rows
<1>1. c \in CallRecords /\ WellFormed(c)
  BY CallForm
<1>2. d \in CallRecords /\ d.pc = (IF j = None THEN "create" ELSE "complete")
      /\ d.report = c.report /\ d.row = j
      /\ d.ok = c.ok /\ d.left = c.left
  BY <1>1 DEF CallRecords
<1> HIDE DEF d
<1>3. WellFormed(d)
  BY <1>0, <1>1, <1>2 DEF WellFormed
<1> QED BY <1>2, <1>3, CallForm DEF d

\* A call whose query failed.
LEMMA ToCreate ==
  ASSUME NEW c \in GoodCalls, c.pc = "find"
  PROVE  LET d == [c EXCEPT !.pc = "create"] IN
           d \in GoodCalls /\ d.pc = "create" /\ d.report = c.report /\ d.row = c.row
           /\ d.ok = c.ok /\ d.left = c.left
<1> DEFINE d == [c EXCEPT !.pc = "create"]
<1>1. c \in CallRecords /\ WellFormed(c)
  BY CallForm
<1>2. d \in CallRecords /\ d.pc = "create" /\ d.report = c.report /\ d.row = c.row
      /\ d.ok = c.ok /\ d.left = c.left
  BY <1>1 DEF CallRecords
<1> HIDE DEF d
<1>3. WellFormed(d)
  BY <1>1, <1>2 DEF WellFormed
<1> QED BY <1>2, <1>3, CallForm DEF d

\* The receive goroutine has found the row of the job that started.
LEMMA Found ==
  ASSUME NEW v \in RecvStates, v.pc = "find", NEW j \in Triggers
  PROVE  LET w == [v EXCEPT !.pc = "update", !.row = j] IN
           w \in RecvStates /\ w.pc = "update" /\ w.row = j /\ w.plan = v.plan /\ w.log = v.log
<1> DEFINE w == [v EXCEPT !.pc = "update", !.row = j]
<1>1. v \in RecvRecords /\ RecvWell(v)
  BY RecvForm
<1>2. w \in RecvRecords /\ w.pc = "update" /\ w.row = j /\ w.plan = v.plan /\ w.log = v.log
  BY <1>1 DEF RecvRecords, Rows
<1> HIDE DEF w
<1>3. RecvWell(w)
  BY <1>1, <1>2 DEF RecvWell
<1> QED BY <1>2, <1>3, RecvForm DEF w

-----------------------------------------------------------------------------
\* Type correctness.

\* What the types say of the rows, runs, calls and the receive goroutine.
LEMMA TypeFacts ==
  ASSUME Types
  PROVE  /\ \A j \in Rows : jobs[j] \in JobRows
         /\ \A r \in Runs : run[r] \in RunStates
         /\ \A c \in Calls : calls[c] \in GoodCalls
         /\ \A c \in Calls : calls[c] \in CallRecords /\ WellFormed(calls[c])
         /\ \A c \in Calls : calls[c].pc # "free" => calls[c].report \in Runs
         /\ \A c \in Calls : calls[c].pc = "complete" =>
              calls[c].row \in Triggers /\ calls[c].row \in Rows
         /\ recv \in RecvRecords /\ RecvWell(recv)
<1>1. \A c \in Calls : calls[c] \in CallRecords /\ WellFormed(calls[c])
  BY CallForm DEF Types
<1> QED BY <1>1, RecvForm DEF Types, TypeOK, WellFormed, Rows

\* Init is well typed.
LEMMA InitTypes == Init => Types
<1> SUFFICES ASSUME Init PROVE Types
  OBVIOUS
<1>1. NoCall \in GoodCalls /\ Idle \in RecvStates
  BY DEF NoCall, GoodCalls, CallStates, Idle, RecvStates
<1>2. Absent \in JobRows
  BY DEF Absent, JobRows
<1>3. \A p \in {None} : [pc |-> "idle", plan |-> p, out |-> "none"] \in RunStates
  BY DEF RunStates
<1>4. planned \in Seq(Triggers) /\ slots \in Seq(Plans)
  BY DEF Init
<1>5. /\ jobs \in [Rows -> JobRows] /\ run \in [Runs -> RunStates]
      /\ calls \in [Calls -> GoodCalls] /\ calls \in [Calls -> CallStates]
      /\ recv \in RecvStates
  BY <1>1, <1>2, <1>3 DEF Init, GoodCalls
<1>6. faults \in 0..MaxFaults /\ resent \in [Runs -> 0..MaxResent]
  BY JobLifecycleAssumption DEF Init
<1> QED BY <1>4, <1>5, <1>6 DEF Init, Types, TypeOK

\* The plan of a row may become NULL.
LEMMA DeletePlanTypes ==
  ASSUME Types, NEW p \in Plans, DeletePlan(p)
  PROVE  Types'
<1>1. jobs' \in [Rows -> JobRows]
  <2>1. \A j \in Rows : [jobs[j] EXCEPT !.plan = None] \in JobRows
    BY TypeFacts DEF JobRows
  <2> QED BY <2>1, TypeFacts DEF DeletePlan
<1> QED BY <1>1 DEF DeletePlan, Types, TypeOK, agent, deliv

\* A trigger writes a planned row.
LEMMA TriggerPlanTypes ==
  ASSUME Types, NEW t \in Triggers, NEW p \in Plans, TriggerPlan(t, p)
  PROVE  Types'
<1>1. jobs' \in [Rows -> JobRows]
  <2>1. [Absent EXCEPT !.plan = p, !.status = "planned"] \in JobRows
    BY DEF Absent, JobRows, Open
  <2>2. jobs \in [Rows -> JobRows]
    BY DEF Types, TypeOK
  <2> QED BY <2>1, <2>2 DEF TriggerPlan
<1>2. planned' \in Seq(Triggers)
  BY DEF TriggerPlan, Types, TypeOK
<1>3. /\ asked' = [asked EXCEPT ![t] = p] /\ cmds' \subseteq cmds \cup {t}
      /\ asked \in [Triggers -> Plans \cup {None}] /\ cmds \subseteq Triggers
  BY DEF TriggerPlan, Types, TypeOK
<1>4. asked' \in [Triggers -> Plans \cup {None}] /\ cmds' \subseteq Triggers
  BY <1>3
<1>5. \A u \in cmds' : asked'[u] \in Plans
  BY <1>3 DEF Types
<1> QED BY <1>1, <1>2, <1>4, <1>5
        DEF TriggerPlan, Types, TypeOK, agent, deliv

\* An activation takes a free slot or reports that it was aborted.
LEMMA RunJobTypes ==
  ASSUME Types, NEW r \in Runs, NEW p \in Plans, RunJob(r, p)
  PROVE  /\ run' \in [Runs -> RunStates]
         /\ slots' \in Seq(Plans)
         /\ outbox' \subseteq Runs
<1>1. /\ run \in [Runs -> RunStates] /\ slots \in Seq(Plans)
      /\ outbox \subseteq Runs
  BY DEF Types, TypeOK
<1>2. [pc |-> "exec", plan |-> p, out |-> "none"] \in RunStates
  BY DEF RunStates
<1>3. [pc |-> "over", plan |-> p, out |-> "aborted"] \in RunStates
  BY DEF RunStates
<1>4. slots' \in Seq(Plans)
  BY <1>1, AppendFacts DEF RunJob
<1> QED BY <1>1, <1>2, <1>3, <1>4 DEF RunJob

\* The steps of the agent's scheduler.
LEMMA SchedulerTypes ==
  ASSUME Types,
         \/ \E r \in Runs, p \in Plans : CronFires(r, p)
         \/ \E t \in Triggers, r \in Runs : TriggerNow(t, r)
         \/ \E t \in Triggers : TriggerUnknown(t)
         \/ \E r \in Runs : Execute(r) \/ ClearCurrentJob(r)
  PROVE  Types'
<1>1. ASSUME NEW r \in Runs, NEW p \in Plans, CronFires(r, p) PROVE Types'
  BY <1>1, RunJobTypes DEF CronFires, Types, TypeOK, table
<1>2. ASSUME NEW t \in Triggers, NEW r \in Runs, TriggerNow(t, r) PROVE Types'
  <2>1. asked[t] \in Plans
    BY <1>2 DEF TriggerNow, Types
  <2> QED BY <1>2, <2>1, RunJobTypes DEF TriggerNow, Types, TypeOK, table
<1>3. ASSUME NEW t \in Triggers, TriggerUnknown(t) PROVE Types'
  BY <1>3 DEF TriggerUnknown, Types, TypeOK, table, agent, deliv
<1>4. ASSUME NEW r \in Runs, Execute(r) PROVE Types'
  <2>1. PICK out \in {"final", "orphan"} :
          run' = [run EXCEPT ![r].pc = "clear", ![r].out = out]
    BY <1>4 DEF Execute
  <2>2. [run[r] EXCEPT !.pc = "clear", !.out = out] \in RunStates
    BY TypeFacts DEF RunStates
  <2>3. run' = [run EXCEPT ![r] = [run[r] EXCEPT !.pc = "clear", !.out = out]]
    BY <2>1
  <2>4. run' \in [Runs -> RunStates]
    BY <2>2, <2>3 DEF Types, TypeOK
  <2> QED BY <1>4, <2>4 DEF Execute, Types, TypeOK, table
<1>5. ASSUME NEW r \in Runs, ClearCurrentJob(r) PROVE Types'
  <2>1. [run[r] EXCEPT !.pc = "over"] \in RunStates
    BY TypeFacts DEF RunStates
  <2>2. run' \in [Runs -> RunStates]
    BY <1>5, <2>1 DEF ClearCurrentJob, Types, TypeOK
  <2>3. slots' \in Seq(Plans)
    BY <1>5, FreedFacts DEF ClearCurrentJob, Types, TypeOK
  <2> QED BY <1>5, <2>2, <2>3
          DEF ClearCurrentJob, Types, TypeOK, table, deliv
<1> QED BY <1>1, <1>2, <1>3, <1>4, <1>5

\* A call that is repeated is counted.
LEMMA RepeatsTypes ==
  ASSUME Types, NEW r \in Runs, Repeats(r)
  PROVE  resent' \in [Runs -> 0..MaxResent]
<1>1. resent \in [Runs -> 0..MaxResent] /\ resent[r] < MaxResent
  BY DEF Repeats, Types, TypeOK
<1>2. resent[r] + 1 \in 0..MaxResent
  BY <1>1, JobLifecycleAssumption
<1> QED BY <1>1, <1>2 DEF Repeats

\* The outbox calls, waits and repeats.
LEMMA DeliveryTypes ==
  ASSUME Types,
         \/ \E r \in Runs, c \in Calls : CallReportJob(r, c)
         \/ \E c \in Calls : DeliveryTimeout(c) \/ AnswerReport(c)
  PROVE  Types'
<1>1. ASSUME NEW r \in Runs, NEW c \in Calls, CallReportJob(r, c) PROVE Types'
  <2> DEFINE pc == IF run[r].out = "aborted" THEN "create" ELSE "find"
             d  == [NoCall EXCEPT !.report = r, !.pc = pc]
  <2>1. d \in GoodCalls /\ d.pc # "free" /\ ~d.left
    BY NewCall
  <2>2. calls' = [calls EXCEPT ![c] = d]
    BY <1>1 DEF CallReportJob
  <2> HIDE DEF d
  <2>3. /\ calls' \in [Calls -> GoodCalls] /\ calls' \in [Calls -> CallStates]
        /\ calls'[c].pc # "free" /\ ~calls'[c].left
    BY <2>1, <2>2 DEF Types, GoodCalls
  <2> QED BY <1>1, <2>3
          DEF CallReportJob, Types, TypeOK, table, agent
<1>2. ASSUME NEW c \in Calls, DeliveryTimeout(c) PROVE Types'
  <2>1. NoCall \in GoodCalls
    BY DEF NoCall, GoodCalls, CallStates
  <2>2. calls[c].pc # "free"
    BY <1>2, JobLifecycleAssumption DEF DeliveryTimeout, Types
  <2>3. [calls[c] EXCEPT !.left = TRUE] \in GoodCalls
    BY <2>2, TypeFacts, LeftCall
  <2>4. calls' = [calls EXCEPT ![c] = IF calls[c].pc = "reply" THEN NoCall
                                      ELSE [calls[c] EXCEPT !.left = TRUE]]
    BY <1>2 DEF DeliveryTimeout
  <2>5. calls' \in [Calls -> GoodCalls] /\ calls' \in [Calls -> CallStates]
    BY <2>1, <2>3, <2>4 DEF Types, GoodCalls
  <2>6. resent' \in [Runs -> 0..MaxResent]
    BY <1>2, <2>2, TypeFacts, RepeatsTypes DEF DeliveryTimeout
  <2> QED BY <1>2, <2>5, <2>6 DEF DeliveryTimeout, Types, TypeOK, table, agent
<1>3. ASSUME NEW c \in Calls, AnswerReport(c) PROVE Types'
  <2>1. NoCall \in GoodCalls
    BY DEF NoCall, GoodCalls, CallStates
  <2>2. calls' \in [Calls -> GoodCalls] /\ calls' \in [Calls -> CallStates]
    BY <1>3, <2>1 DEF AnswerReport, Types, GoodCalls
  <2>3. outbox' \subseteq Runs /\ acked' \subseteq Runs
    BY <1>3, TypeFacts DEF AnswerReport, Types, TypeOK
  <2>4. resent' \in [Runs -> 0..MaxResent]
    BY <1>3, TypeFacts, RepeatsTypes DEF AnswerReport, Types, TypeOK
  <2> QED BY <1>3, <2>2, <2>3, <2>4 DEF AnswerReport, Types, TypeOK, table, agent
<1> QED BY <1>1, <1>2, <1>3

\* The answer of a call.
LEMMA ReplyTypes ==
  ASSUME Types, NEW c \in Calls, NEW ok \in BOOLEAN, calls[c].pc # "free",
         Reply(c, ok)
  PROVE  /\ calls' \in [Calls -> GoodCalls]
         /\ waiting # None =>
              calls'[waiting].pc # "free" /\ ~calls'[waiting].left
<1>1. calls' = [calls EXCEPT ![c] =
         IF calls[c].left THEN NoCall
         ELSE [calls[c] EXCEPT !.pc = "reply", !.row = None, !.ok = ok]]
  BY DEF Reply
<1>2. NoCall \in GoodCalls
  BY DEF NoCall, GoodCalls, CallStates
<1>3. LET d == [calls[c] EXCEPT !.pc = "reply", !.row = None, !.ok = ok] IN
        d \in GoodCalls /\ d.pc = "reply" /\ d.left = calls[c].left
  BY TypeFacts, AnsweredCall
<1>4. calls' \in [Calls -> GoodCalls]
  BY <1>1, <1>2, <1>3 DEF Types
<1>5. ~calls[c].left => calls'[c].pc = "reply" /\ ~calls'[c].left
  <2>1. ~calls[c].left => /\ calls'[c].pc = "reply"
                          /\ calls'[c].left = calls[c].left
    BY <1>1, <1>3 DEF Types
  <2> QED BY <2>1
<1>6. \A d \in Calls \ {c} : calls'[d] = calls[d]
  BY <1>1 DEF Types
<1>7. waiting # None => waiting \in Calls
  BY DEF Types, TypeOK
<1> QED BY <1>4, <1>5, <1>6, <1>7 DEF Types

\* A failed database call is counted, or its context was cancelled.
LEMMA CallFailsTypes ==
  ASSUME Types, NEW c \in Calls, CallFails(c)
  PROVE  faults' \in 0..MaxFaults /\ UNCHANGED <<plans, jobs, planned>>
BY JobLifecycleAssumption DEF Types, TypeOK, CallFails, DatabaseFails, table

\* ReportJob on the server.
LEMMA HandlerTypes ==
  ASSUME Types, NEW c \in Calls, FindForReport(c) \/ StoreReport(c)
  PROVE  Types'
<1> DEFINE r == calls[c].report
<1>1. CASE FindForReport(c)
  <2> DEFINE j == FindPlannedJob(run[r].plan)
  <2>1. j \in Triggers \cup {None} /\ calls[c].pc = "find"
    BY <1>1, FindFacts DEF Types, FindForReport
  <2>2. CASE /\ calls' = [calls EXCEPT ![c].row = j,
                       ![c].pc = IF j = None THEN "create" ELSE "complete"]
             /\ UNCHANGED table
    <3>1. calls' = [calls EXCEPT ![c] = [calls[c] EXCEPT !.row = j,
                       !.pc = IF j = None THEN "create" ELSE "complete"]]
      BY <2>2
    <3> HIDE DEF j
    <3>2. /\ [calls[c] EXCEPT !.row = j,
               !.pc = IF j = None THEN "create" ELSE "complete"] \in GoodCalls
          /\ [calls[c] EXCEPT !.row = j,
               !.pc = IF j = None THEN "create" ELSE "complete"].pc # "free"
          /\ [calls[c] EXCEPT !.row = j,
               !.pc = IF j = None THEN "create" ELSE "complete"].left
                 = calls[c].left
      <4>1. calls[c] \in GoodCalls
        BY TypeFacts
      <4> DEFINE d == [calls[c] EXCEPT !.row = j,
                         !.pc = IF j = None THEN "create" ELSE "complete"]
      <4>2. /\ d \in GoodCalls /\ d.left = calls[c].left
            /\ d.pc = IF j = None THEN "create" ELSE "complete"
        BY <2>1, <4>1, FoundCall, Zenon
      <4>3. d.pc # "free"
        <5> HIDE DEF d
        <5> QED BY <4>2
      <4> QED BY <4>2, <4>3
    <3>3. calls' \in [Calls -> GoodCalls] /\ calls' \in [Calls -> CallStates]
      BY <3>1, <3>2 DEF Types, GoodCalls
    <3>4. waiting # None => calls'[waiting].pc # "free" /\ ~calls'[waiting].left
      BY <3>1, <3>2 DEF Types, TypeOK
    <3> QED BY <1>1, <2>2, <3>3, <3>4
            DEF FindForReport, Types, TypeOK, table, agent
  <2>3. CASE DatabaseFails /\ calls' = [calls EXCEPT ![c].pc = "create"]
    <3>1. /\ [calls[c] EXCEPT !.pc = "create"] \in GoodCalls
          /\ [calls[c] EXCEPT !.pc = "create"].pc # "free"
          /\ [calls[c] EXCEPT !.pc = "create"].left = calls[c].left
      BY <2>1, TypeFacts, ToCreate
    <3>2. calls' \in [Calls -> GoodCalls] /\ calls' \in [Calls -> CallStates]
      BY <2>3, <3>1 DEF Types, GoodCalls
    <3>3. waiting # None => calls'[waiting].pc # "free" /\ ~calls'[waiting].left
      BY <2>3, <3>1 DEF Types, TypeOK
    <3> QED BY <1>1, <2>3, <3>2, <3>3, CallFailsTypes
            DEF FindForReport, CallFails, Types, TypeOK, table, agent
  <2>4. CASE Reply(c, FALSE) /\ UNCHANGED table
    <3>1. /\ calls' \in [Calls -> GoodCalls] /\ calls' \in [Calls -> CallStates]
          /\ waiting # None => calls'[waiting].pc # "free" /\ ~calls'[waiting].left
      BY <2>1, <2>4, ReplyTypes DEF GoodCalls
    <3> QED BY <1>1, <2>4, <3>1 DEF FindForReport, Types, TypeOK, table, agent
  <2> QED BY <1>1, <2>2, <2>3, <2>4 DEF FindForReport
<1>2. CASE StoreReport(c)
  <2>1. /\ calls' \in [Calls -> GoodCalls] /\ calls' \in [Calls -> CallStates]
        /\ waiting # None =>
             calls'[waiting].pc # "free" /\ ~calls'[waiting].left
    <3>1. calls[c].pc # "free" /\ \E ok \in BOOLEAN : Reply(c, ok)
      BY <1>2 DEF StoreReport
    <3> QED BY <3>1, ReplyTypes DEF GoodCalls
  <2>2. jobs' \in [Rows -> JobRows] /\ plans' = plans /\ planned' = planned
        /\ faults' \in 0..MaxFaults
    <3>1. /\ jobs \in [Rows -> JobRows] /\ r \in Runs /\ run[r] \in RunStates
          /\ r \in Rows /\ faults \in 0..MaxFaults
      BY <1>2, TypeFacts DEF StoreReport, Rows, Types, TypeOK
    <3>2. ASSUME NEW j \in Rows PROVE CompleteJob(j, r) \in [Rows -> JobRows]
      <4>1. CompleteJob(j, r) = [jobs EXCEPT ![j] =
              [jobs[j] EXCEPT !.status = Status(r), !.log = {"report"},
                              !.results = jobs[j].results \cup {r}]]
        BY DEF CompleteJob
      <4>2. [jobs[j] EXCEPT !.status = Status(r), !.log = {"report"},
                            !.results = jobs[j].results \cup {r}] \in JobRows
        BY <3>1 DEF JobRows, Status
      <4> QED BY <3>1, <4>1, <4>2
    <3>3. CreateJob(r) \in [Rows -> JobRows]
      <4>1. [plan |-> run[r].plan, results |-> {r}, log |-> {"report"},
             status |-> Status(r)] \in JobRows
        BY <3>1 DEF JobRows, Status, RunStates
      <4> QED BY <3>1, <4>1 DEF CreateJob
    <3>4. calls[c].pc = "complete" => calls[c].row \in Rows
      BY TypeFacts
    <3> QED BY <1>2, <3>1, <3>2, <3>3, <3>4, CallFailsTypes
            DEF StoreReport, table
  <2> QED BY <1>2, <2>1, <2>2 DEF StoreReport, Types, TypeOK, agent
<1> QED BY <1>1, <1>2

\* Heartbeats and live logs.
LEMMA StreamTypes ==
  ASSUME Types,
         \/ Heartbeat \/ FindStarted \/ MarkRunning \/ WriteLog
         \/ \E r \in Runs : ReadLog(r)
  PROVE  Types'
<1>1. Idle \in RecvStates
  BY DEF Idle, RecvStates
<1>2. recv \in RecvStates /\ jobs \in [Rows -> JobRows]
  BY DEF Types, TypeOK
<1>3. CASE Heartbeat
  <2>1. PICK p \in plans : recv' = [Idle EXCEPT !.pc = "find", !.plan = p]
    BY <1>3 DEF Heartbeat
  <2>2. recv' \in RecvStates
    BY <2>1 DEF Idle, RecvStates, Types, TypeOK
  <2> QED BY <1>3, <2>2 DEF Heartbeat, Types, TypeOK, table, agent, deliv
<1>5. CASE FindStarted
  <2> DEFINE j == FindPlannedJob(recv.plan)
  <2>1. j \in Triggers \cup {None}
    BY FindFacts DEF Types
  <2> HIDE DEF j
  <2>2. recv.pc = "find" /\ recv' = IF j = None THEN Idle
                         ELSE [recv EXCEPT !.pc = "update", !.row = j]
    BY <1>5 DEF FindStarted, j
  <2>3. recv' \in RecvStates
    BY <1>1, <1>2, <2>1, <2>2, Found
  <2> QED BY <1>5, <2>3 DEF FindStarted, Types, TypeOK, table, agent, deliv
<1>6. CASE MarkRunning
  <2>1. recv.row \in Rows
    BY <1>2, <1>6 DEF MarkRunning, RecvStates, Idle, Rows
  <2>2. [jobs[recv.row] EXCEPT !.status = "running", !.log = {}] \in JobRows
    BY <1>2, <2>1 DEF JobRows, Open
  <2>3. jobs' = [jobs EXCEPT ![recv.row] =
                   [jobs[recv.row] EXCEPT !.status = "running", !.log = {}]]
    BY <1>6 DEF MarkRunning, UpdateJobStatus
  <2>4. jobs' \in [Rows -> JobRows]
    BY <1>2, <2>1, <2>2, <2>3
  <2> QED BY <1>1, <1>6, <2>4 DEF MarkRunning, Types, TypeOK, agent, deliv
<1>7. CASE WriteLog
  <2>1. recv.row \in Rows /\ recv.log \subseteq {"report", "live"}
    BY <1>2, <1>7 DEF WriteLog, RecvStates, Idle, Rows
  <2>2. [jobs[recv.row] EXCEPT !.log = recv.log \cup {"live"}] \in JobRows
    BY <1>2, <2>1 DEF JobRows
  <2>3. jobs' = [jobs EXCEPT ![recv.row] =
                   [jobs[recv.row] EXCEPT !.log = recv.log \cup {"live"}]]
    BY <1>7 DEF WriteLog
  <2>4. jobs' \in [Rows -> JobRows]
    BY <1>2, <2>1, <2>2, <2>3
  <2> QED BY <1>1, <1>7, <2>4 DEF WriteLog, Types, TypeOK, agent, deliv
<1>8. ASSUME NEW r \in Runs, ReadLog(r) PROVE Types'
  <2>1. jobs[r].log \subseteq {"report", "live"}
    BY <1>2 DEF JobRows, Rows
  <2>2. [Idle EXCEPT !.pc = "write", !.row = r, !.log = jobs[r].log] \in RecvStates
    BY <2>1 DEF Idle, RecvStates
  <2> QED BY <1>8, <2>2 DEF ReadLog, Types, TypeOK, table, agent, deliv
<1> QED BY <1>3, <1>5, <1>6, <1>7, <1>8

\* Every step keeps the types.
LEMMA NextTypes ==
  ASSUME Types, [Next]_vars
  PROVE  Types'
<1>1. CASE UNCHANGED vars
  BY <1>1 DEF vars, Types, TypeOK, table, agent, deliv
<1>2. CASE Next
  BY <1>2, DeletePlanTypes, TriggerPlanTypes, SchedulerTypes, DeliveryTypes,
     HandlerTypes, StreamTypes
     DEF Next
<1> QED BY <1>1, <1>2

\* Type correctness, over every order of reports, heartbeats, commands and
\* failed or abandoned calls.
THEOREM TypeCorrect == Spec => []TypeOK
<1>1. Types /\ [Next]_vars => Types'
  BY NextTypes
<1>2. Types => TypeOK
  BY DEF Types
<1> QED BY InitTypes, <1>1, <1>2, PTL DEF Spec

-----------------------------------------------------------------------------
\* One run per plan: with the types, OneRunPerPlan is inductive.

\* An activation takes a slot only when the plan has none.
LEMMA RunJobKeepsSlots ==
  ASSUME Types, OneRunPerPlan, NEW r \in Runs, NEW p \in Plans, RunJob(r, p)
  PROVE  OneRunPerPlan'
<1>1. run \in [Runs -> RunStates] /\ slots \in Seq(Plans)
  BY DEF Types, TypeOK
<1>2. CASE /\ ~Running(p)
           /\ run' = [run EXCEPT ![r] = [pc |-> "exec", plan |-> p, out |-> "none"]]
           /\ slots' = Append(slots, p)
  <2>1. Running(p)' /\ \A q : Running(q) => Running(q)'
    BY <1>1, <1>2, AppendFacts
  <2>2. /\ run'[r].plan = p
        /\ \A s \in Runs : s # r => run'[s] = run[s]
    BY <1>1, <1>2
  <2>3. \A s \in Runs : HasSlot(s) => run[s].plan # p
    BY <1>2 DEF OneRunPerPlan
  <2>4. \A q : Running(q)' <=> \E i \in DOMAIN slots' : slots'[i] = q
    BY DEF Running
  <2>5. \A s \in Runs : HasSlot(s)' => s = r \/ HasSlot(s)
    BY <2>2 DEF HasSlot
  <2>6. ASSUME NEW s \in Runs, HasSlot(s)'
        PROVE  \E i \in DOMAIN slots' : slots'[i] = run'[s].plan
    BY <2>1, <2>2, <2>5, <2>6 DEF OneRunPerPlan, Running
  <2>7. ASSUME NEW s \in Runs, NEW u \in Runs, HasSlot(s)', HasSlot(u)', s # u
        PROVE  run'[s].plan # run'[u].plan
    BY <2>2, <2>3, <2>5, <2>7 DEF OneRunPerPlan
  <2> QED BY <2>6, <2>7 DEF OneRunPerPlan, Running
<1>3. CASE /\ run' = [run EXCEPT ![r] = [pc |-> "over", plan |-> p, out |-> "aborted"]]
           /\ UNCHANGED slots
  <2>1. /\ run'[r].pc = "over"
        /\ \A s \in Runs : s # r => run'[s] = run[s]
    BY <1>1, <1>3
  <2>2. \A s \in Runs : HasSlot(s)' => HasSlot(s) /\ run'[s] = run[s]
    BY <2>1 DEF HasSlot
  <2> QED BY <1>3, <2>2 DEF OneRunPerPlan, Running
<1> QED BY <1>2, <1>3 DEF RunJob

\* Every step keeps OneRunPerPlan.
LEMMA SlotsKept ==
  ASSUME Types, OneRunPerPlan, [Next]_vars
  PROVE  OneRunPerPlan'
<1>1. run \in [Runs -> RunStates] /\ slots \in Seq(Plans)
  BY DEF Types, TypeOK
<1>2. ASSUME UNCHANGED <<run, slots>> PROVE OneRunPerPlan'
  BY <1>2 DEF OneRunPerPlan, HasSlot, Running
<1>3. ASSUME NEW r \in Runs, NEW p \in Plans, CronFires(r, p)
      PROVE  OneRunPerPlan'
  BY <1>3, RunJobKeepsSlots DEF CronFires
<1>4. ASSUME NEW t \in Triggers, NEW r \in Runs, TriggerNow(t, r)
      PROVE  OneRunPerPlan'
  BY <1>4, RunJobKeepsSlots DEF TriggerNow, Types
<1>5. ASSUME NEW r \in Runs, Execute(r) PROVE OneRunPerPlan'
  <2>1. PICK out \in {"final", "orphan"} :
          run' = [run EXCEPT ![r].pc = "clear", ![r].out = out]
    BY <1>5 DEF Execute
  <2>2. /\ run'[r].plan = run[r].plan
        /\ \A s \in Runs : s # r => run'[s] = run[s]
    BY <1>1, <2>1 DEF RunStates
  <2>3. \A s \in Runs : HasSlot(s)' => HasSlot(s) /\ run'[s].plan = run[s].plan
    <3>1. HasSlot(r)
      BY <1>5 DEF Execute, HasSlot
    <3> QED BY <2>2, <3>1 DEF HasSlot
  <2> QED BY <1>5, <2>3 DEF OneRunPerPlan, Running, Execute, agent
<1>6. ASSUME NEW r \in Runs, ClearCurrentJob(r) PROVE OneRunPerPlan'
  <2>1. /\ run'[r].pc = "over"
        /\ \A s \in Runs : s # r => run'[s] = run[s]
    BY <1>1, <1>6 DEF ClearCurrentJob, RunStates
  <2>2. \A s \in Runs : HasSlot(s)' => s # r /\ HasSlot(s) /\ run'[s] = run[s]
    BY <2>1 DEF HasSlot
  <2>3. HasSlot(r)
    BY <1>6 DEF HasSlot, ClearCurrentJob
  <2>4. \A s \in Runs : HasSlot(s)' =>
          \E i \in DOMAIN slots' : slots'[i] = run[s].plan
    BY <1>1, <1>6, <2>2, <2>3, FreedFacts DEF OneRunPerPlan, ClearCurrentJob
  <2> QED BY <2>2, <2>4 DEF OneRunPerPlan, Running
<1>7. ASSUME NEW c \in Calls, \/ FindForReport(c) \/ StoreReport(c)
                             \/ AnswerReport(c) \/ DeliveryTimeout(c)
      PROVE  UNCHANGED <<run, slots>>
  <2>1. FindForReport(c) => UNCHANGED agent
    BY DEF FindForReport
  <2>2. StoreReport(c) => UNCHANGED agent
    BY DEF StoreReport
  <2>3. AnswerReport(c) \/ DeliveryTimeout(c) => UNCHANGED agent
    BY DEF AnswerReport, DeliveryTimeout
  <2> QED BY <1>7, <2>1, <2>2, <2>3 DEF agent
<1>8. ASSUME \/ Heartbeat \/ FindStarted \/ MarkRunning \/ WriteLog
             \/ \E r \in Runs : ReadLog(r)
      PROVE  UNCHANGED <<run, slots>>
  BY <1>8 DEF Heartbeat, FindStarted, MarkRunning, ReadLog, WriteLog, agent
<1>9. ASSUME \/ \E p \in Plans : DeletePlan(p)
             \/ \E t \in Triggers, p \in Plans : TriggerPlan(t, p)
             \/ \E t \in Triggers : TriggerUnknown(t)
             \/ \E r \in Runs, c \in Calls : CallReportJob(r, c)
             \/ UNCHANGED vars
      PROVE  UNCHANGED <<run, slots>>
  BY <1>9 DEF DeletePlan, TriggerPlan, TriggerUnknown, CallReportJob, agent, vars
<1> QED BY <1>2, <1>3, <1>4, <1>5, <1>6, <1>7, <1>8, <1>9 DEF Next

\* The concurrency policy of the scheduler, for any number of cron and manual
\* triggers: a plan never executes twice at a time, and its slot is kept until
\* the run that took it ends.
THEOREM OneAtATime == Spec => []OneRunPerPlan
<1>1. Init => OneRunPerPlan
  BY DEF Init, OneRunPerPlan, HasSlot
<1>2. Types /\ OneRunPerPlan /\ [Next]_vars => Types' /\ OneRunPerPlan'
  BY NextTypes, SlotsKept
<1> QED BY InitTypes, <1>1, <1>2, PTL DEF Spec

-----------------------------------------------------------------------------
\* What a step does to a run, to a row and to a call.

\* The report of r has been made.
Done(r) == run[r].pc \in {"clear", "over"}

\* A run is changed by the scheduler only.
LEMMA RunChanges ==
  ASSUME Types, [Next]_vars
  PROVE  \/ UNCHANGED run
         \/ \E s \in Runs, p \in Plans : RunJob(s, p)
         \/ \E s \in Runs : Execute(s) \/ ClearCurrentJob(s)
<1>1. ASSUME NEW c \in Calls, \/ FindForReport(c) \/ StoreReport(c)
                             \/ AnswerReport(c) \/ DeliveryTimeout(c)
      PROVE  UNCHANGED run
  <2>1. FindForReport(c) => UNCHANGED agent
    BY DEF FindForReport
  <2>2. StoreReport(c) => UNCHANGED agent
    BY DEF StoreReport
  <2>3. AnswerReport(c) \/ DeliveryTimeout(c) => UNCHANGED agent
    BY DEF AnswerReport, DeliveryTimeout
  <2> QED BY <1>1, <2>1, <2>2, <2>3 DEF agent
<1>2. ASSUME \/ Heartbeat \/ FindStarted \/ MarkRunning \/ WriteLog
             \/ \E s \in Runs : ReadLog(s)
      PROVE  UNCHANGED run
  BY <1>2 DEF Heartbeat, FindStarted, MarkRunning, ReadLog, WriteLog, agent
<1>3. ASSUME \/ \E p \in Plans : DeletePlan(p)
             \/ \E t \in Triggers, p \in Plans : TriggerPlan(t, p)
             \/ \E t \in Triggers : TriggerUnknown(t)
             \/ \E s \in Runs, c \in Calls : CallReportJob(s, c)
             \/ UNCHANGED vars
      PROVE  UNCHANGED run
  BY <1>3 DEF DeletePlan, TriggerPlan, TriggerUnknown, CallReportJob, agent, vars
<1>4. ASSUME \/ \E t \in Triggers, s \in Runs : TriggerNow(t, s)
             \/ \E s \in Runs, p \in Plans : CronFires(s, p)
      PROVE  \E s \in Runs, p \in Plans : RunJob(s, p)
  BY <1>4 DEF TriggerNow, CronFires, Types
<1> QED BY <1>1, <1>2, <1>3, <1>4 DEF Next

\* A report, once made, stays as it is.
LEMMA RunsKept ==
  ASSUME Types, [Next]_vars, NEW r \in Runs, Done(r)
  PROVE  Done(r)' /\ run'[r].plan = run[r].plan /\ run'[r].out = run[r].out
<1>1. run \in [Runs -> RunStates]
  BY DEF Types, TypeOK
<1>2. ASSUME UNCHANGED run PROVE Done(r)'
  BY <1>2 DEF Done
<1>3. ASSUME NEW s \in Runs, NEW p, RunJob(s, p) PROVE s # r /\ run'[r] = run[r]
  BY <1>1, <1>3 DEF RunJob, Done
<1>4. ASSUME NEW s \in Runs, Execute(s) PROVE s # r /\ run'[r] = run[r]
  BY <1>1, <1>4 DEF Execute, Done
<1>5. ASSUME NEW s \in Runs, ClearCurrentJob(s)
      PROVE  /\ s # r => run'[r] = run[r]
             /\ run'[r].pc \in {"clear", "over"}
             /\ run'[r].plan = run[r].plan /\ run'[r].out = run[r].out
  BY <1>1, <1>5 DEF ClearCurrentJob, Done, RunStates
<1> QED BY <1>2, <1>3, <1>4, <1>5, RunChanges DEF Done

\* The ways a step may change call c.
Asked(c) ==
  LET d == calls'[c] IN
  /\ d.report \in outbox /\ d.pc = IF run[d.report].out = "aborted" THEN "create" ELSE "find"

LeftAlone(c) ==
  LET d == calls'[c] IN
  /\ d.pc = calls[c].pc /\ d.report = calls[c].report /\ d.row = calls[c].row
  /\ calls[c].pc # "reply"

LookedUp(c) ==
  LET d == calls'[c]
      j == FindPlannedJob(run[calls[c].report].plan) IN
  /\ calls[c].pc = "find" /\ d.report = calls[c].report /\ d.row = j
  /\ d.pc = IF j = None THEN "create" ELSE "complete"
  /\ UNCHANGED jobs

LookupFailed(c) ==
  /\ calls[c].pc = "find"
  /\ calls'[c].report = calls[c].report /\ calls'[c].pc = "create"

Answered(c) ==
  LET d == calls'[c] IN
  /\ calls[c].pc \in {"complete", "create"}
  /\ d.report = calls[c].report /\ d.pc = "reply"
  /\ d.ok => \E j \in Rows : d.report \in jobs'[j].results

CallStep(c) ==
  \/ calls'[c] = calls[c]
  \/ calls'[c].pc = "free"
  \/ Asked(c) \/ LeftAlone(c) \/ LookedUp(c) \/ LookupFailed(c) \/ Answered(c)

Others(c) == \A d \in Calls : d # c => calls'[d] = calls[d]

\* The handler of call c has looked for a row, or failed to; or it ended on its
\* cancelled context.
LEMMA FindSteps ==
  ASSUME Types, NEW c \in Calls, FindForReport(c)
  PROVE  /\ \/ LookedUp(c)
            \/ LookupFailed(c) /\ faults' = faults + 1
            \/ calls[c].left /\ calls'[c] = NoCall
         /\ Others(c) /\ calls[c].pc = "find" /\ UNCHANGED jobs
<1> DEFINE r == calls[c].report
           j == FindPlannedJob(run[r].plan)
<1>1. calls \in [Calls -> GoodCalls] /\ calls[c] \in GoodCalls /\ calls[c].pc = "find"
  BY DEF Types, FindForReport
<1>2. CASE /\ calls' = [calls EXCEPT ![c].row = j,
                     ![c].pc = IF j = None THEN "create" ELSE "complete"]
           /\ UNCHANGED table
  <2>1. j \in Triggers \cup {None}
    BY FindFacts DEF Types
  <2> HIDE DEF j
  <2> DEFINE d == [calls[c] EXCEPT !.row = j,
                     !.pc = IF j = None THEN "create" ELSE "complete"]
  <2>2. /\ d.report = calls[c].report /\ d.row = j
        /\ d.pc = IF j = None THEN "create" ELSE "complete"
    BY <1>1, <2>1, FoundCall, Zenon
  <2>3. calls' = [calls EXCEPT ![c] = d]
    BY <1>2
  <2> HIDE DEF d
  <2>4. calls'[c] = d /\ Others(c)
    BY <1>1, <2>3 DEF Others
  <2> QED BY <1>1, <1>2, <2>2, <2>4 DEF LookedUp, table, j
<1>3. CASE DatabaseFails /\ calls' = [calls EXCEPT ![c].pc = "create"]
  <2> DEFINE d == [calls[c] EXCEPT !.pc = "create"]
  <2>1. d.report = calls[c].report /\ d.pc = "create"
    BY <1>1, ToCreate, Zenon
  <2>2. calls' = [calls EXCEPT ![c] = d]
    BY <1>3
  <2> HIDE DEF d
  <2>3. calls'[c] = d /\ Others(c)
    BY <1>1, <2>2 DEF Others
  <2> QED BY <1>1, <1>3, <2>1, <2>3 DEF LookupFailed, DatabaseFails
<1>4. CASE calls[c].left /\ Reply(c, FALSE) /\ UNCHANGED table
  BY <1>1, <1>4 DEF Reply, Others, table
<1> QED BY <1>2, <1>3, <1>4 DEF FindForReport

\* The handler of call c has ended: it answers, or nobody waits.  The report is
\* stored in one row, and the answer says so, or no row is written.
LEMMA StoreSteps ==
  ASSUME Types, NEW c \in Calls, StoreReport(c)
  PROVE  /\ \/ calls[c].left /\ calls'[c] = NoCall
            \/ Answered(c)
         /\ Others(c)
         /\ calls[c].pc \in {"complete", "create"}
         /\ \/ UNCHANGED jobs
            \/ /\ calls'[c] = NoCall \/ calls'[c].ok
               /\ \E k \in Rows :
                    /\ \A j \in Rows : j # k => jobs'[j] = jobs[j]
                    /\ jobs'[k].results \subseteq jobs[k].results \cup {calls[c].report}
<1> DEFINE r == calls[c].report
<1>1. /\ calls \in [Calls -> GoodCalls] /\ jobs \in [Rows -> JobRows]
      /\ calls[c] \in GoodCalls
      /\ calls[c].pc # "free" => calls[c].report \in Runs
      /\ calls[c].pc = "complete" => calls[c].row \in Rows
      /\ Runs \subseteq Rows
  BY TypeFacts DEF Types, TypeOK, Rows
<1>2. calls[c].pc \in {"complete", "create"} /\ calls[c].pc # "free"
  BY DEF StoreReport
<1>3. PICK ok \in BOOLEAN :
        /\ Reply(c, ok)
        /\ \/ ~ok /\ UNCHANGED jobs
           \/ /\ ok /\ calls[c].pc = "complete"
              /\ jobs' = CompleteJob(calls[c].row, r)
           \/ ok /\ calls[c].pc = "create" /\ jobs' = CreateJob(r)
  <2>1. \/ Reply(c, FALSE) /\ (UNCHANGED table \/ CallFails(c))
        \/ Reply(c, TRUE) /\ calls[c].pc = "complete"
                          /\ jobs' = CompleteJob(calls[c].row, r)
        \/ Reply(c, TRUE) /\ calls[c].pc = "create" /\ jobs' = CreateJob(r)
    BY Zenon DEF StoreReport
  <2>2. UNCHANGED table \/ CallFails(c) => UNCHANGED jobs
    BY DEF CallFails, DatabaseFails, table
  <2> QED BY <2>1, <2>2
<1>4. ok => \E k \in Rows :
        /\ \A j \in Rows : j # k => jobs'[j] = jobs[j]
        /\ r \in jobs'[k].results
        /\ jobs'[k].results \subseteq jobs[k].results \cup {r}
  <2>1. ASSUME calls[c].pc = "complete", jobs' = CompleteJob(calls[c].row, r)
        PROVE  \E k \in Rows :
                 /\ \A j \in Rows : j # k => jobs'[j] = jobs[j]
                 /\ r \in jobs'[k].results
                 /\ jobs'[k].results \subseteq jobs[k].results \cup {r}
    <3> DEFINE k == calls[c].row
    <3>1. k \in Rows
      BY <1>1, <2>1
    <3>2. jobs' = [jobs EXCEPT ![k] = [jobs[k] EXCEPT !.status = Status(r),
                      !.log = {"report"}, !.results = jobs[k].results \cup {r}]]
      BY <2>1 DEF CompleteJob
    <3>3. /\ jobs'[k].results = jobs[k].results \cup {r}
          /\ \A j \in Rows : j # k => jobs'[j] = jobs[j]
      BY <1>1, <3>1, <3>2 DEF JobRows
    <3> QED BY <3>1, <3>3
  <2>2. ASSUME calls[c].pc = "create", jobs' = CreateJob(r)
        PROVE  \E k \in Rows :
                 /\ \A j \in Rows : j # k => jobs'[j] = jobs[j]
                 /\ r \in jobs'[k].results
                 /\ jobs'[k].results \subseteq jobs[k].results \cup {r}
    <3>1. r \in Rows
      BY <1>1, <2>2
    <3>2. jobs'[r].results = {r} /\ \A j \in Rows : j # r => jobs'[j] = jobs[j]
      BY <1>1, <2>2, <3>1 DEF CreateJob
    <3> QED BY <3>1, <3>2
  <2> QED BY <1>3, <2>1, <2>2
<1> DEFINE d == [calls[c] EXCEPT !.pc = "reply", !.row = None, !.ok = ok]
<1>5. d.report = r /\ d.pc = "reply" /\ d.ok = ok
  <2>1. ASSUME NEW e \in GoodCalls, e.pc # "free"
        PROVE  LET f == [e EXCEPT !.pc = "reply", !.row = None, !.ok = ok] IN
                 f.report = e.report /\ f.pc = "reply" /\ f.ok = ok
    BY <2>1, AnsweredCall
  <2> QED BY <1>1, <1>2, <2>1
<1>6. calls' = [calls EXCEPT ![c] = IF calls[c].left THEN NoCall ELSE d]
  BY <1>3 DEF Reply
<1> HIDE DEF d
<1>7. calls'[c] = (IF calls[c].left THEN NoCall ELSE d) /\ Others(c)
  BY <1>1, <1>6 DEF Others
<1>8. calls'[c] = d => Answered(c)
  BY <1>2, <1>4, <1>5 DEF Answered
<1> QED BY <1>2, <1>3, <1>4, <1>5, <1>7, <1>8

\* The outbox has called.
LEMMA CallSent ==
  ASSUME Types, NEW r \in Runs, NEW c \in Calls, CallReportJob(r, c)
  PROVE  Asked(c) /\ calls'[c].report = r /\ Others(c)
<1> DEFINE pc == IF run[r].out = "aborted" THEN "create" ELSE "find"
           d  == [NoCall EXCEPT !.report = r, !.pc = pc]
<1>1. d.pc = pc /\ d.report = r
  BY NewCall
<1>2. calls' = [calls EXCEPT ![c] = d] /\ r \in outbox /\ calls \in [Calls -> GoodCalls]
  BY DEF CallReportJob, Types
<1> HIDE DEF d
<1>3. calls'[c] = d /\ Others(c)
  BY <1>2 DEF Others
<1> QED BY <1>1, <1>2, <1>3 DEF Asked

\* The outbox has given up a call.
LEMMA CallGivenUp ==
  ASSUME Types, NEW c \in Calls, DeliveryTimeout(c)
  PROVE  /\ \/ calls[c].pc = "reply" /\ calls'[c] = NoCall
            \/ LeftAlone(c)
         /\ Others(c) /\ calls[c].pc # "free"
<1> DEFINE d == [calls[c] EXCEPT !.left = TRUE]
<1>1. calls \in [Calls -> GoodCalls] /\ calls[c] \in GoodCalls /\ calls[c].pc # "free"
  BY JobLifecycleAssumption DEF DeliveryTimeout, Types
<1>2. d.pc = calls[c].pc /\ d.report = calls[c].report /\ d.row = calls[c].row
  BY <1>1, LeftCall, Zenon
<1>3. calls' = [calls EXCEPT ![c] = IF calls[c].pc = "reply" THEN NoCall ELSE d]
  BY DEF DeliveryTimeout
<1> HIDE DEF d
<1>4. calls'[c] = (IF calls[c].pc = "reply" THEN NoCall ELSE d) /\ Others(c)
  BY <1>1, <1>3 DEF Others
<1> QED BY <1>1, <1>2, <1>4 DEF LeftAlone

\* The outbox has its answer.
LEMMA CallOver ==
  ASSUME Types, NEW c \in Calls, AnswerReport(c)
  PROVE  calls'[c] = NoCall /\ Others(c)
<1>1. calls' = [calls EXCEPT ![c] = NoCall] /\ calls \in [Calls -> GoodCalls]
  BY DEF AnswerReport, Types
<1> QED BY <1>1 DEF Others

\* A call is changed in one of these ways, or stays.
LEMMA CallSteps ==
  ASSUME Types, [Next]_vars
  PROVE  \A c \in Calls : CallStep(c)
<1>1. ASSUME UNCHANGED calls PROVE \A c \in Calls : CallStep(c)
  BY <1>1 DEF CallStep
<1>2. ASSUME NEW c \in Calls, \/ FindForReport(c) \/ StoreReport(c)
                             \/ DeliveryTimeout(c) \/ AnswerReport(c)
      PROVE  \A d \in Calls : CallStep(d)
  <2>1. NoCall.pc = "free"
    BY DEF NoCall
  <2>2. CallStep(c) /\ Others(c)
    BY <1>2, <2>1, FindSteps, StoreSteps, CallGivenUp, CallOver DEF CallStep
  <2> QED BY <2>2 DEF CallStep, Others
<1>5. ASSUME NEW r \in Runs, NEW c \in Calls, CallReportJob(r, c)
      PROVE  \A d \in Calls : CallStep(d)
  BY <1>5, CallSent DEF CallStep, Others
<1>3. ASSUME \/ Heartbeat \/ FindStarted \/ MarkRunning \/ WriteLog
             \/ UNCHANGED vars \/ \E r \in Runs : ReadLog(r)
      PROVE  UNCHANGED calls
  BY <1>3 DEF Heartbeat, FindStarted, MarkRunning, WriteLog, ReadLog,
              vars, deliv
<1>4. ASSUME \/ \E t \in Triggers, r \in Runs : TriggerNow(t, r)
             \/ \E r \in Runs, p \in Plans : CronFires(r, p)
             \/ \E t \in Triggers : TriggerUnknown(t)
             \/ \E r \in Runs : Execute(r) \/ ClearCurrentJob(r)
             \/ \E p \in Plans : DeletePlan(p)
             \/ \E t \in Triggers, p \in Plans : TriggerPlan(t, p)
      PROVE  UNCHANGED calls
  BY <1>4 DEF TriggerNow, CronFires, TriggerUnknown, Execute, ClearCurrentJob,
              DeletePlan, TriggerPlan, deliv
<1> QED BY <1>1, <1>2, <1>3, <1>4, <1>5 DEF Next

\* The ways a step may write row j.
PlanDeleted(j) ==
  /\ jobs'[j].plan = None
  /\ jobs'[j].results = jobs[j].results /\ jobs'[j].status = jobs[j].status
  /\ jobs'[j].log = jobs[j].log
  /\ jobs[j].plan # None /\ jobs[j].plan \notin plans'

Planned(j) ==
  /\ j \in Triggers /\ asked[j] = None /\ asked'[j] # None
  /\ jobs'[j].plan = asked'[j] /\ asked'[j] \in plans'
  /\ jobs'[j].status = "planned" /\ jobs'[j].results = {}

Completed(j) ==
  \E c \in Calls :
    /\ calls[c].pc = "complete" /\ calls[c].row = j
    /\ jobs'[j].plan = jobs[j].plan
    /\ jobs'[j].results = jobs[j].results \cup {calls[c].report}
    /\ jobs'[j].status = Status(calls[c].report)

Created(j) ==
  \E c \in Calls :
    /\ calls[c].pc = "create" /\ calls[c].report = j
    /\ jobs[j].status = "absent"
    /\ jobs'[j].plan = run[j].plan /\ jobs'[j].results = {j}
    /\ jobs'[j].status = Status(j)

Marked(j) ==
  /\ recv.pc = "update" /\ recv.row = j
  /\ jobs'[j].plan = jobs[j].plan /\ jobs'[j].results = jobs[j].results
  /\ jobs'[j].status = "running"

Logged(j) ==
  /\ recv.pc = "write" /\ recv.row = j
  /\ jobs'[j].plan = jobs[j].plan /\ jobs'[j].results = jobs[j].results
  /\ jobs'[j].status = jobs[j].status
  /\ jobs'[j].log = recv.log \cup {"live"}

RowStep(j) ==
  \/ jobs'[j] = jobs[j]
  \/ PlanDeleted(j)
  \/ Planned(j)   /\ asked' = [asked EXCEPT ![j] = asked'[j]]
  \/ Completed(j) /\ UNCHANGED recv /\ calls' # calls
  \/ Created(j)   /\ UNCHANGED recv /\ calls' # calls
  \/ Marked(j)    /\ recv' = Idle
  \/ Logged(j)    /\ recv' = Idle

\* A row is written in one of these ways, or stays.
LEMMA RowSteps ==
  ASSUME Types, [Next]_vars
  PROVE  \A j \in Rows : RowStep(j)
<1>1. /\ jobs \in [Rows -> JobRows] /\ Runs \subseteq Rows /\ Triggers \subseteq Rows
      /\ \A c \in Calls : calls[c].pc # "free" => calls[c].report \in Runs
      /\ \A c \in Calls : calls[c].pc = "complete" => calls[c].row \in Triggers
  BY TypeFacts DEF Types, TypeOK, Rows
<1>2. ASSUME UNCHANGED jobs PROVE \A j \in Rows : RowStep(j)
  BY <1>2 DEF RowStep
<1>3. ASSUME NEW p \in Plans, DeletePlan(p) PROVE \A j \in Rows : RowStep(j)
  <2> SUFFICES ASSUME NEW j \in Rows PROVE RowStep(j)
    OBVIOUS
  <2>1. p # None
    BY JobLifecycleAssumption
  <2>2. jobs'[j] = IF jobs[j].plan = p THEN [jobs[j] EXCEPT !.plan = None] ELSE jobs[j]
    BY <1>3 DEF DeletePlan
  <2>3. jobs[j].plan = p => PlanDeleted(j)
    BY <1>1, <1>3, <2>1, <2>2 DEF PlanDeleted, JobRows, DeletePlan
  <2> QED BY <2>2, <2>3 DEF RowStep
<1>4. ASSUME NEW t \in Triggers, NEW p \in Plans, TriggerPlan(t, p)
      PROVE  \A j \in Rows : RowStep(j)
  <2>1. /\ asked[t] = None /\ asked' = [asked EXCEPT ![t] = p]
        /\ jobs' = [jobs EXCEPT ![t] = [Absent EXCEPT !.plan = p, !.status = "planned"]]
        /\ p # None /\ asked \in [Triggers -> Plans \cup {None}]
    BY <1>4, JobLifecycleAssumption DEF TriggerPlan, Types, TypeOK
  <2>2. jobs'[t].status = "planned" /\ jobs'[t].results = {} /\ jobs'[t].plan = p
    BY <1>1, <2>1 DEF Absent
  <2>3. Planned(t) /\ asked' = [asked EXCEPT ![t] = asked'[t]]
    BY <1>4, <2>1, <2>2 DEF Planned, TriggerPlan
  <2>4. \A j \in Rows : j # t => jobs'[j] = jobs[j]
    BY <1>1, <2>1
  <2> QED BY <2>3, <2>4 DEF RowStep
<1>5. ASSUME NEW c \in Calls, StoreReport(c) PROVE \A j \in Rows : RowStep(j)
  <2> DEFINE r == calls[c].report
             k == calls[c].row
  <2>0. calls' # calls
    <3>1. calls'[c].pc # calls[c].pc
      BY <1>5, StoreSteps DEF Answered, NoCall
    <3> QED BY <3>1
  <2>1. CASE UNCHANGED jobs
    BY <1>2, <2>1
  <2>2. CASE calls[c].pc = "complete" /\ jobs' = CompleteJob(k, r)
    <3>1. k \in Rows /\ r \in Runs
      BY <1>1, <2>2
    <3>2. jobs' = [jobs EXCEPT ![k] = [jobs[k] EXCEPT !.status = Status(r),
                      !.log = {"report"}, !.results = jobs[k].results \cup {r}]]
      BY <2>2 DEF CompleteJob
    <3>3. /\ jobs'[k].plan = jobs[k].plan /\ jobs'[k].status = Status(r)
          /\ jobs'[k].results = jobs[k].results \cup {r}
      BY <1>1, <3>1, <3>2 DEF JobRows
    <3>4. UNCHANGED recv
      BY <1>5 DEF StoreReport
    <3>5. \A j \in Rows : j # k => jobs'[j] = jobs[j]
      BY <1>1, <3>2
    <3>6. Completed(k)
      BY <2>2, <3>3 DEF Completed
    <3> QED BY <2>0, <3>4, <3>5, <3>6 DEF RowStep
  <2>3. CASE calls[c].pc = "create" /\ CreatePasses(r) /\ jobs' = CreateJob(r)
    <3>1. r \in Rows
      BY <1>1, <2>3
    <3>2. /\ jobs'[r].plan = run[r].plan /\ jobs'[r].status = Status(r)
          /\ jobs'[r].results = {r}
      BY <1>1, <2>3, <3>1 DEF CreateJob
    <3>3. UNCHANGED recv
      BY <1>5 DEF StoreReport
    <3>4. \A j \in Rows : j # r => jobs'[j] = jobs[j]
      BY <1>1, <2>3 DEF CreateJob
    <3>5. Created(r)
      BY <2>3, <3>2 DEF Created, CreatePasses
    <3> QED BY <2>0, <3>3, <3>4, <3>5 DEF RowStep
  <2>4. \/ UNCHANGED jobs
        \/ calls[c].pc = "complete" /\ jobs' = CompleteJob(k, r)
        \/ calls[c].pc = "create" /\ CreatePasses(r) /\ jobs' = CreateJob(r)
    BY <1>5 DEF StoreReport, CallFails, DatabaseFails, table
  <2> QED BY <2>1, <2>2, <2>3, <2>4
<1>6. ASSUME MarkRunning PROVE \A j \in Rows : RowStep(j)
  <2> DEFINE k == recv.row
  <2>1. k \in Rows /\ recv.pc = "update" /\ recv' = Idle
    BY <1>1, <1>6, TypeFacts DEF MarkRunning, RecvWell
  <2>2. jobs' = [jobs EXCEPT ![k] = [jobs[k] EXCEPT !.status = "running", !.log = {}]]
    BY <1>6 DEF MarkRunning, UpdateJobStatus
  <2>3. /\ jobs'[k].plan = jobs[k].plan /\ jobs'[k].results = jobs[k].results
        /\ jobs'[k].status = "running"
    BY <1>1, <2>1, <2>2 DEF JobRows
  <2>4. \A j \in Rows : j # k => jobs'[j] = jobs[j]
    BY <1>1, <2>2
  <2>5. Marked(k)
    BY <2>1, <2>3 DEF Marked
  <2> QED BY <2>1, <2>4, <2>5 DEF RowStep
<1>7. ASSUME WriteLog PROVE \A j \in Rows : RowStep(j)
  <2> DEFINE k == recv.row
  <2>1. k \in Rows /\ recv.pc = "write" /\ recv' = Idle
    BY <1>1, <1>7, TypeFacts DEF WriteLog, RecvWell
  <2>2. jobs' = [jobs EXCEPT ![k] = [jobs[k] EXCEPT !.log = recv.log \cup {"live"}]]
    BY <1>7 DEF WriteLog
  <2>3. /\ jobs'[k].plan = jobs[k].plan /\ jobs'[k].results = jobs[k].results
        /\ jobs'[k].status = jobs[k].status
        /\ jobs'[k].log = recv.log \cup {"live"}
    BY <1>1, <2>1, <2>2 DEF JobRows
  <2>4. \A j \in Rows : j # k => jobs'[j] = jobs[j]
    BY <1>1, <2>2
  <2>5. Logged(k)
    BY <2>1, <2>3 DEF Logged
  <2> QED BY <2>1, <2>4, <2>5 DEF RowStep
<1>8. \/ UNCHANGED jobs
      \/ \E p \in Plans : DeletePlan(p)
      \/ \E t \in Triggers, p \in Plans : TriggerPlan(t, p)
      \/ \E c \in Calls : StoreReport(c)
      \/ MarkRunning \/ WriteLog
  <2>1. ASSUME NEW c \in Calls, FindForReport(c) \/ AnswerReport(c) \/ DeliveryTimeout(c)
        PROVE  UNCHANGED jobs
    <3>1. FindForReport(c) => UNCHANGED jobs
      BY DEF FindForReport, CallFails, DatabaseFails, table
    <3>2. AnswerReport(c) \/ DeliveryTimeout(c) => UNCHANGED table
      BY DEF AnswerReport, DeliveryTimeout
    <3> QED BY <2>1, <3>1, <3>2 DEF table
  <2>2. ASSUME \/ Heartbeat \/ FindStarted \/ UNCHANGED vars
               \/ \E r \in Runs : ReadLog(r)
        PROVE  UNCHANGED jobs
    BY <2>2 DEF Heartbeat, FindStarted, ReadLog, vars, table
  <2>3. ASSUME \/ \E t \in Triggers, r \in Runs : TriggerNow(t, r)
               \/ \E r \in Runs, p \in Plans : CronFires(r, p)
               \/ \E t \in Triggers : TriggerUnknown(t)
               \/ \E r \in Runs : Execute(r) \/ ClearCurrentJob(r)
               \/ \E r \in Runs, c \in Calls : CallReportJob(r, c)
        PROVE  UNCHANGED jobs
    BY <2>3 DEF TriggerNow, CronFires, TriggerUnknown, Execute, ClearCurrentJob,
                CallReportJob, table
  <2> QED BY <2>1, <2>2, <2>3 DEF Next
<1> QED BY <1>2, <1>3, <1>4, <1>5, <1>6, <1>7, <1>8

\* Reports enter the outbox when they are made, and are acknowledged when a call
\* answered that it stored them.
LEMMA OutboxSteps ==
  ASSUME Types, [Next]_vars
  PROVE  /\ \A r \in outbox' : \/ r \in outbox
                               \/ ~Done(r) /\ run'[r].pc \in {"clear", "over"}
         /\ \A r \in acked' : \/ r \in acked
                              \/ \E c \in Calls : /\ calls[c].pc = "reply" /\ calls[c].ok
                                                  /\ calls[c].report = r
<1> DEFINE OutboxStep == \A r \in outbox' :
                           \/ r \in outbox
                           \/ ~Done(r) /\ run'[r].pc \in {"clear", "over"}
<1>1. run \in [Runs -> RunStates]
  BY DEF Types, TypeOK
<1>2. ASSUME NEW r \in Runs, NEW p, RunJob(r, p) PROVE OutboxStep
  BY <1>1, <1>2 DEF RunJob, Done
<1>3. ASSUME NEW r \in Runs, Execute(r) PROVE OutboxStep /\ UNCHANGED acked
  <2>1. /\ outbox' = outbox \cup {r} /\ run[r].pc = "exec" /\ run'[r].pc = "clear"
        /\ UNCHANGED acked
    BY <1>1, <1>3 DEF Execute, RunStates
  <2> QED BY <2>1 DEF Done
<1>4. ASSUME NEW c \in Calls, AnswerReport(c)
      PROVE  /\ OutboxStep
             /\ \A r \in acked' : \/ r \in acked
                                  \/ /\ calls[c].pc = "reply" /\ calls[c].ok
                                     /\ calls[c].report = r
  BY <1>4 DEF AnswerReport
<1>5. ASSUME NEW c \in Calls, \/ FindForReport(c) \/ StoreReport(c) \/ DeliveryTimeout(c)
                             \/ \E r \in Runs : CallReportJob(r, c)
      PROVE  UNCHANGED <<outbox, acked>>
  <2>1. FindForReport(c) => UNCHANGED <<outbox, acked>>
    BY DEF FindForReport
  <2>2. StoreReport(c) => UNCHANGED <<outbox, acked>>
    BY DEF StoreReport
  <2>3. DeliveryTimeout(c) \/ (\E r \in Runs : CallReportJob(r, c)) => UNCHANGED <<outbox, acked>>
    BY DEF DeliveryTimeout, CallReportJob
  <2> QED BY <1>5, <2>1, <2>2, <2>3
<1>6. ASSUME \/ Heartbeat \/ FindStarted \/ MarkRunning \/ WriteLog
             \/ UNCHANGED vars \/ \E r \in Runs : ReadLog(r)
             \/ \E t \in Triggers : TriggerUnknown(t)
             \/ \E r \in Runs : ClearCurrentJob(r)
             \/ \E p \in Plans : DeletePlan(p)
             \/ \E t \in Triggers, p \in Plans : TriggerPlan(t, p)
      PROVE  UNCHANGED <<outbox, acked>>
  BY <1>6 DEF Heartbeat, FindStarted, MarkRunning, WriteLog, ReadLog,
              vars, deliv, TriggerUnknown, ClearCurrentJob, DeletePlan, TriggerPlan
<1>7. ASSUME NEW r \in Runs, NEW p \in Plans, CronFires(r, p)
      PROVE  OutboxStep /\ UNCHANGED acked
  <2>1. OutboxStep
    BY <1>2, <1>7 DEF CronFires
  <2> QED BY <1>7, <2>1 DEF CronFires
<1>8. ASSUME NEW t \in Triggers, NEW r \in Runs, TriggerNow(t, r)
      PROVE  OutboxStep /\ UNCHANGED acked
  <2>1. OutboxStep
    BY <1>2, <1>8 DEF TriggerNow
  <2> QED BY <1>8, <2>1 DEF TriggerNow
<1>9. ASSUME NEW r \in Runs, NEW c \in Calls, CallReportJob(r, c)
      PROVE  UNCHANGED <<outbox, acked>>
  BY <1>5, <1>9
<1> QED BY <1>3, <1>4, <1>5, <1>6, <1>7, <1>8, <1>9 DEF Next

\* The ways a step may change the receive goroutine.
RecvStep ==
  \/ recv' = recv
  \/ recv'.pc \in {"idle", "find"}
  \/ /\ recv'.pc = "update" /\ UNCHANGED jobs
     /\ recv'.row = FindPlannedJob(recv.plan) /\ recv'.row # None
  \/ /\ recv'.pc = "write" /\ UNCHANGED jobs
     /\ recv'.row \in Rows /\ jobs[recv'.row].status # "absent"
     /\ recv'.log = jobs[recv'.row].log

\* The receive goroutine writes what it read a step before.
LEMMA RecvSteps ==
  ASSUME Types, [Next]_vars
  PROVE  RecvStep
<1>1. Idle.pc = "idle"
  BY DEF Idle
<1>2. CASE Heartbeat
  <2>1. PICK p \in plans : recv' = [Idle EXCEPT !.pc = "find", !.plan = p]
    BY <1>2 DEF Heartbeat
  <2>2. [Idle EXCEPT !.pc = "find", !.plan = p].pc = "find"
    BY DEF Idle
  <2> QED BY <2>1, <2>2 DEF RecvStep
<1>3. CASE FindStarted
  <2> DEFINE j == FindPlannedJob(recv.plan)
  <2>1. /\ j \in Triggers \cup {None} /\ UNCHANGED jobs /\ recv.pc = "find"
        /\ recv' = IF j = None THEN Idle ELSE [recv EXCEPT !.pc = "update", !.row = j]
    BY <1>3, FindFacts DEF FindStarted, Types, table
  <2>2. recv \in RecvStates
    BY DEF Types, TypeOK
  <2>3. ASSUME j # None
        PROVE  recv'.pc = "update" /\ recv'.row = j
    <3>1. j \in Triggers
      BY <2>1, <2>3
    <3> HIDE DEF j
    <3> QED BY <2>1, <2>2, <2>3, <3>1, Found
  <2> QED BY <1>1, <2>1, <2>3 DEF RecvStep
<1>4. ASSUME NEW r \in Runs, ReadLog(r) PROVE RecvStep
  <2>1. /\ recv' = [Idle EXCEPT !.pc = "write", !.row = r, !.log = jobs[r].log]
        /\ jobs[r].status # "absent" /\ UNCHANGED jobs /\ r \in Rows
    BY <1>4 DEF ReadLog, table, Rows
  <2>2. recv'.pc = "write" /\ recv'.row = r /\ recv'.log = jobs[r].log
    BY <2>1 DEF Idle
  <2> QED BY <2>1, <2>2 DEF RecvStep
<1>5. CASE MarkRunning \/ WriteLog
  BY <1>1, <1>5 DEF MarkRunning, WriteLog, RecvStep
<1>6. ASSUME NEW c \in Calls, \/ FindForReport(c) \/ StoreReport(c)
                             \/ DeliveryTimeout(c) \/ AnswerReport(c)
      PROVE  recv' = recv
  <2>1. FindForReport(c) => UNCHANGED recv
    BY DEF FindForReport
  <2>2. StoreReport(c) => UNCHANGED recv
    BY DEF StoreReport
  <2>3. DeliveryTimeout(c) \/ AnswerReport(c) => UNCHANGED recv
    BY DEF DeliveryTimeout, AnswerReport
  <2> QED BY <1>6, <2>1, <2>2, <2>3
<1>7. ASSUME \/ UNCHANGED vars
             \/ \E t \in Triggers, r \in Runs : TriggerNow(t, r)
             \/ \E r \in Runs, p \in Plans : CronFires(r, p)
             \/ \E t \in Triggers : TriggerUnknown(t)
             \/ \E r \in Runs : Execute(r) \/ ClearCurrentJob(r)
             \/ \E r \in Runs, c \in Calls : CallReportJob(r, c)
             \/ \E p \in Plans : DeletePlan(p)
             \/ \E t \in Triggers, p \in Plans : TriggerPlan(t, p)
      PROVE  recv' = recv
  BY <1>7 DEF vars, TriggerNow, CronFires, TriggerUnknown, Execute,
              ClearCurrentJob, CallReportJob, DeletePlan, TriggerPlan
<1>8. recv' = recv => RecvStep
  BY DEF RecvStep
<1> QED BY <1>2, <1>3, <1>4, <1>5, <1>6, <1>7, <1>8 DEF Next

\* Rows are planned by the triggers only.
LEMMA AskedSteps ==
  ASSUME Types, [Next]_vars
  PROVE  \/ UNCHANGED <<asked, planned>>
         \/ \E u \in Triggers, p \in Plans : TriggerPlan(u, p)
<1>1. ASSUME NEW c \in Calls, \/ FindForReport(c) \/ StoreReport(c)
                             \/ DeliveryTimeout(c) \/ AnswerReport(c)
      PROVE  UNCHANGED <<asked, planned>>
  <2>1. FindForReport(c) => UNCHANGED <<asked, planned>>
    BY DEF FindForReport, DatabaseFails, table
  <2>2. StoreReport(c) => UNCHANGED <<asked, planned>>
    BY DEF StoreReport, CallFails, DatabaseFails, table
  <2>3. DeliveryTimeout(c) \/ AnswerReport(c) => UNCHANGED <<asked, planned>>
    BY DEF DeliveryTimeout, AnswerReport, table
  <2> QED BY <1>1, <2>1, <2>2, <2>3
<1>2. ASSUME \/ Heartbeat \/ FindStarted \/ MarkRunning \/ WriteLog
             \/ UNCHANGED vars \/ \E r \in Runs : ReadLog(r)
             \/ \E u \in Triggers, r \in Runs : TriggerNow(u, r)
             \/ \E r \in Runs, p \in Plans : CronFires(r, p)
             \/ \E u \in Triggers : TriggerUnknown(u)
             \/ \E r \in Runs : Execute(r) \/ ClearCurrentJob(r)
             \/ \E r \in Runs, c \in Calls : CallReportJob(r, c)
             \/ \E p \in Plans : DeletePlan(p)
      PROVE  UNCHANGED <<asked, planned>>
  BY <1>2 DEF Heartbeat, FindStarted, MarkRunning, WriteLog, ReadLog,
              vars, TriggerNow, CronFires, TriggerUnknown, Execute, ClearCurrentJob,
              CallReportJob, DeletePlan, table
<1> QED BY <1>1, <1>2 DEF Next

\* A trigger is made once.
LEMMA AskedKept ==
  ASSUME Types, [Next]_vars, NEW t \in Triggers, asked[t] # None
  PROVE  asked'[t] = asked[t]
<1>1. asked \in [Triggers -> Plans \cup {None}]
  BY DEF Types, TypeOK
<1>2. ASSUME NEW u \in Triggers, NEW p \in Plans, TriggerPlan(u, p)
      PROVE  asked'[t] = asked[t]
  BY <1>1, <1>2 DEF TriggerPlan
<1> QED BY <1>2, AskedSteps

-----------------------------------------------------------------------------
\* The invariant behind the properties of the jobs table.

Stored(r) == \E j \in Rows : r \in jobs[j].results

\* A row that is not there is empty.  The results in a row are of reports that
\* were made, of its plan, and those of an aborted trigger are in its own row.
\* A row that a report created holds that report.
RowSound(j) ==
  /\ jobs[j].status = "absent" => jobs[j] = Absent
  /\ j \in Triggers => jobs[j].status # "aborted"
  /\ j \in Triggers /\ asked[j] = None => jobs[j].status = "absent"
  /\ \A r \in jobs[j].results :
       /\ Done(r)
       /\ jobs[j].plan \in {run[r].plan, None}
       /\ run[r].out = "aborted" => j = r
  /\ j \in Runs /\ jobs[j].status # "absent" =>
       Done(j) /\ jobs[j].results = {j} /\ jobs[j].status = Status(j)

RowsSound == \A j \in Rows : RowSound(j)

\* A call delivers a report that was made, an aborted one is never looked up,
\* the row found is there and of the plan of the report (or the plan was
\* deleted), and an answer that the report is stored is true.
CallSound(c) ==
  /\ calls[c].pc # "free" => Done(calls[c].report)
  /\ calls[c].pc \in {"find", "complete"} => run[calls[c].report].out # "aborted"
  /\ calls[c].pc = "complete" =>
       /\ jobs[calls[c].row].status # "absent"
       /\ jobs[calls[c].row].plan \in {run[calls[c].report].plan, None}
  /\ calls[c].pc = "reply" /\ calls[c].ok => Stored(calls[c].report)

CallsSound == \A c \in Calls : CallSound(c)

\* The outbox holds reports that were made; those acknowledged are stored.
OutboxSound ==
  /\ \A r \in outbox : Done(r)
  /\ \A r \in acked : Stored(r)

\* The row that the receive goroutine is about to write is there, and the log
\* it read is the log of the row but for the entries it will add.
RecvSound ==
  /\ recv.pc \in {"update", "write"} => jobs[recv.row].status # "absent"
  /\ recv.pc = "write" => jobs[recv.row].log \subseteq recv.log \cup {"live"}

Sound == Types /\ RowsSound /\ CallsSound /\ OutboxSound /\ RecvSound

\* A row that is there stays, keeps its results, and its plan or none.
LEMMA RowsKept ==
  ASSUME Sound, [Next]_vars, NEW j \in Rows
  PROVE  /\ jobs[j].results \subseteq jobs'[j].results
         /\ jobs[j].status # "absent" =>
              /\ jobs'[j].status # "absent"
              /\ jobs'[j].plan \in {jobs[j].plan, None}
<1>1. RowStep(j) /\ RowSound(j) /\ jobs[j] \in JobRows
  BY RowSteps, TypeFacts DEF Sound, RowsSound
<1>2. jobs[j].status = "absent" => jobs[j].results = {}
  BY <1>1 DEF RowSound, Absent
<1>3. \A r : Status(r) # "absent"
  BY DEF Status
<1>4. CASE jobs'[j] = jobs[j]
  BY <1>4
<1>5. CASE PlanDeleted(j)
  BY <1>5 DEF PlanDeleted
<1>6. CASE Planned(j)
  BY <1>1, <1>2, <1>6 DEF Planned, RowSound
<1>7. CASE Completed(j)
  BY <1>3, <1>7 DEF Completed
<1>8. CASE Created(j)
  BY <1>2, <1>8 DEF Created
<1>9. CASE Marked(j)
  BY <1>9 DEF Marked
<1>10. CASE Logged(j)
  BY <1>10 DEF Logged
<1> QED BY <1>1, <1>4, <1>5, <1>6, <1>7, <1>8, <1>9, <1>10 DEF RowStep

\* A report that is stored stays stored.
LEMMA StoredKept ==
  ASSUME Sound, [Next]_vars, NEW r, Stored(r)
  PROVE  Stored(r)'
BY RowsKept DEF Stored

\* Every step keeps the rows sound.
LEMMA RowsStaySound ==
  ASSUME Sound, [Next]_vars
  PROVE  RowsSound'
<1> SUFFICES ASSUME NEW j \in Rows PROVE RowSound(j)'
  BY DEF RowsSound
<1>1. RowStep(j) /\ RowSound(j) /\ jobs[j] \in JobRows
  BY RowSteps, TypeFacts DEF Sound, RowsSound
<1>2. /\ jobs[j].status = "absent" => jobs[j].results = {} /\ jobs[j].plan = None
      /\ jobs[j].results \subseteq Runs
  BY <1>1 DEF RowSound, Absent, JobRows
<1>3. ASSUME NEW r \in Runs, Done(r)
      PROVE  /\ Done(r)' /\ run'[r].plan = run[r].plan /\ run'[r].out = run[r].out
             /\ Status(r)' = Status(r)
  <2>1. Done(r)' /\ run'[r].plan = run[r].plan /\ run'[r].out = run[r].out
    BY <1>3, RunsKept DEF Sound
  <2> QED BY <2>1 DEF Status
<1>4. j \in Triggers /\ asked'[j] = None => asked[j] = None
  BY AskedKept DEF Sound
<1>5. Triggers \cap Runs = {}
  BY JobLifecycleAssumption
<1>6. ASSUME jobs'[j].results = jobs[j].results, jobs'[j].plan \in {jobs[j].plan, None}
      PROVE  \A r \in jobs'[j].results :
               /\ run'[r].pc \in {"clear", "over"}
               /\ jobs'[j].plan \in {run'[r].plan, None}
               /\ run'[r].out = "aborted" => j = r
  BY <1>1, <1>2, <1>3, <1>6 DEF RowSound, Done
<1>7. ASSUME jobs'[j].results = jobs[j].results, jobs'[j].status = jobs[j].status,
             j \in Runs, jobs'[j].status # "absent"
      PROVE  /\ run'[j].pc \in {"clear", "over"}
             /\ jobs'[j].results = {j} /\ jobs'[j].status = Status(j)'
  BY <1>1, <1>3, <1>7 DEF RowSound, Done
<1>8. CASE jobs'[j] = jobs[j]
  <2>1. Absent' = Absent
    BY DEF Absent
  <2> QED BY <1>1, <1>4, <1>6, <1>7, <1>8, <2>1 DEF RowSound, Done
<1>9. CASE PlanDeleted(j)
  <2>1. jobs'[j].status # "absent"
    BY <1>2, <1>9 DEF PlanDeleted
  <2>2. jobs'[j].status = jobs[j].status /\ jobs'[j].results = jobs[j].results
        /\ jobs'[j].plan = None
    BY <1>9 DEF PlanDeleted
  <2> QED BY <1>1, <1>4, <1>6, <1>7, <2>1, <2>2 DEF RowSound, Done
<1>10. CASE Planned(j)
  BY <1>5, <1>10 DEF Planned, RowSound
<1>11. CASE Completed(j)
  <2>1. PICK c \in Calls :
          /\ calls[c].pc = "complete" /\ calls[c].row = j
          /\ jobs'[j].plan = jobs[j].plan
          /\ jobs'[j].results = jobs[j].results \cup {calls[c].report}
          /\ jobs'[j].status = Status(calls[c].report)
    BY <1>11 DEF Completed
  <2> DEFINE r == calls[c].report
  <2>2. r \in Runs /\ j \in Triggers
    BY <2>1, TypeFacts DEF Sound
  <2>3. /\ Done(r) /\ run[r].out # "aborted" /\ jobs[j].status # "absent"
        /\ jobs[j].plan \in {run[r].plan, None}
    BY <2>1 DEF Sound, CallsSound, CallSound
  <2>4. jobs'[j].status = "final"
    BY <2>1, <2>3 DEF Status
  <2>5. asked'[j] # None
    BY <1>1, <1>4, <2>2, <2>3 DEF RowSound
  <2>6. ASSUME NEW s \in jobs'[j].results
        PROVE  /\ run'[s].pc \in {"clear", "over"}
               /\ jobs'[j].plan \in {run'[s].plan, None}
               /\ run'[s].out = "aborted" => j = s
    <3>1. CASE s = r
      BY <1>3, <2>1, <2>2, <2>3, <3>1 DEF Done
    <3>2. CASE s \in jobs[j].results
      BY <1>1, <1>2, <1>3, <2>1, <3>2 DEF RowSound, Done
    <3> QED BY <2>1, <2>6, <3>1, <3>2
  <2> QED BY <1>5, <2>2, <2>4, <2>5, <2>6 DEF RowSound, Done
<1>12. CASE Created(j)
  <2>1. PICK c \in Calls :
          /\ calls[c].pc = "create" /\ calls[c].report = j
          /\ jobs'[j].plan = run[j].plan /\ jobs'[j].results = {j}
          /\ jobs'[j].status = Status(j)
    BY <1>12 DEF Created
  <2>2. j \in Runs /\ Done(j)
    BY <2>1, TypeFacts DEF Sound, CallsSound, CallSound
  <2>3. /\ Done(j)' /\ run'[j].plan = run[j].plan /\ Status(j)' = Status(j)
        /\ Status(j) # "absent"
    BY <1>3, <2>2 DEF Status
  <2> QED BY <1>5, <2>1, <2>2, <2>3 DEF RowSound, Done
<1>13. CASE Marked(j)
  <2>1. j \in Triggers /\ jobs[j].status # "absent"
    BY <1>13, TypeFacts DEF Sound, RecvSound, RecvWell, Marked
  <2>2. asked'[j] # None
    BY <1>1, <1>4, <2>1 DEF RowSound
  <2>3. /\ jobs'[j].plan = jobs[j].plan /\ jobs'[j].results = jobs[j].results
        /\ jobs'[j].status = "running"
    BY <1>13 DEF Marked
  <2> QED BY <1>5, <1>6, <2>1, <2>2, <2>3 DEF RowSound, Done
<1>14. CASE Logged(j)
  <2>1. j \in Runs /\ jobs[j].status # "absent"
    BY <1>14, TypeFacts DEF Sound, RecvSound, RecvWell, Logged
  <2>2. /\ jobs'[j].plan = jobs[j].plan /\ jobs'[j].results = jobs[j].results
        /\ jobs'[j].status = jobs[j].status
    BY <1>14 DEF Logged
  <2> QED BY <1>5, <1>6, <1>7, <2>1, <2>2 DEF RowSound, Done
<1> QED BY <1>1, <1>8, <1>9, <1>10, <1>11, <1>12, <1>13, <1>14 DEF RowStep

\* Every step keeps the calls sound.
LEMMA CallsStaySound ==
  ASSUME Sound, [Next]_vars
  PROVE  CallsSound'
<1> SUFFICES ASSUME NEW c \in Calls PROVE CallSound(c)'
  BY DEF CallsSound
<1>1. CallStep(c) /\ CallSound(c) /\ calls[c] \in CallRecords /\ WellFormed(calls[c])
  BY CallSteps, TypeFacts DEF Sound, CallsSound
<1> DEFINE r == calls[c].report
<1>2. ASSUME NEW s \in Runs, Done(s)
      PROVE  /\ run'[s].pc \in {"clear", "over"}
             /\ run'[s].plan = run[s].plan /\ run'[s].out = run[s].out
  BY <1>2, RunsKept DEF Sound, Done
<1>3. ASSUME calls[c].pc = "complete"
      PROVE  /\ jobs'[calls[c].row].status # "absent"
             /\ jobs'[calls[c].row].plan \in {run[r].plan, None}
  <2>1. calls[c].row \in Rows
    BY <1>3, TypeFacts DEF Sound
  <2> QED BY <1>1, <1>3, <2>1, RowsKept DEF CallSound
<1>4. calls[c].pc # "free" => r \in Runs /\ Done(r)
  BY <1>1 DEF CallSound, WellFormed
<1>5. calls[c].pc = "reply" /\ calls[c].ok => \E j \in Rows : r \in jobs'[j].results
  BY <1>1, RowsKept DEF CallSound, Stored
<1>6. CASE calls'[c] = calls[c]
  BY <1>1, <1>2, <1>3, <1>4, <1>5, <1>6 DEF CallSound, Done, Stored
<1>7. CASE calls'[c].pc = "free"
  BY <1>7 DEF CallSound
<1>8. CASE Asked(c)
  <2>1. /\ calls'[c].report \in outbox
        /\ calls'[c].pc = IF run[calls'[c].report].out = "aborted" THEN "create" ELSE "find"
    BY <1>8 DEF Asked
  <2>2. Done(calls'[c].report) /\ calls'[c].report \in Runs
    BY <2>1 DEF Sound, OutboxSound, Types, TypeOK
  <2> QED BY <1>2, <2>1, <2>2 DEF CallSound, Done
<1>9. CASE LeftAlone(c)
  <2>1. /\ calls'[c].pc = calls[c].pc /\ calls'[c].report = r
        /\ calls'[c].row = calls[c].row /\ calls[c].pc # "reply"
    BY <1>9 DEF LeftAlone
  <2> QED BY <1>1, <1>2, <1>3, <1>4, <2>1 DEF CallSound, Done
<1>10. CASE LookedUp(c)
  <2> DEFINE j == FindPlannedJob(run[r].plan)
  <2>1. /\ calls[c].pc = "find" /\ calls'[c].report = r /\ calls'[c].row = j
        /\ calls'[c].pc = IF j = None THEN "create" ELSE "complete"
        /\ UNCHANGED jobs
    BY <1>10 DEF LookedUp
  <2>2. j # None => jobs[j].plan = run[r].plan /\ jobs[j].status # "absent"
    BY FindFacts DEF Sound, Types, Open
  <2>3. Done(r) /\ r \in Runs /\ run[r].out # "aborted"
    BY <1>1, <1>4, <2>1 DEF CallSound
  <2> HIDE DEF j
  <2> QED BY <1>2, <2>1, <2>2, <2>3 DEF CallSound, Done
<1>11. CASE LookupFailed(c)
  BY <1>1, <1>2, <1>4, <1>11 DEF LookupFailed, CallSound, Done
<1>12. CASE Answered(c)
  BY <1>2, <1>4, <1>12 DEF Answered, CallSound, Done, Stored
<1> QED BY <1>1, <1>6, <1>7, <1>8, <1>9, <1>10, <1>11, <1>12 DEF CallStep

\* Every step keeps the outbox sound.
LEMMA OutboxStaysSound ==
  ASSUME Sound, [Next]_vars
  PROVE  OutboxSound'
<1>1. \A r \in outbox : r \in Runs
  BY DEF Sound, Types, TypeOK
<1>2. ASSUME NEW r \in outbox' PROVE run'[r].pc \in {"clear", "over"}
  BY <1>1, <1>2, OutboxSteps, RunsKept DEF Sound, OutboxSound, Done
<1>3. ASSUME NEW r \in acked' PROVE Stored(r)
  BY <1>3, OutboxSteps DEF Sound, OutboxSound, CallsSound, CallSound
<1>4. ASSUME NEW r \in acked' PROVE Stored(r)'
  BY <1>3, <1>4, StoredKept
<1> QED BY <1>2, <1>4 DEF OutboxSound, Done

\* Every step keeps the receive goroutine sound.
LEMMA RecvStaysSound ==
  ASSUME Sound, [Next]_vars
  PROVE  RecvSound'
<1>1. RecvStep /\ recv \in RecvRecords /\ RecvWell(recv)
  BY RecvSteps, TypeFacts DEF Sound
<1>2. CASE recv' = recv
  <2> DEFINE j == recv.row
  <2>1. recv.pc \in {"update", "write"} => j \in Rows
    BY <1>1 DEF RecvWell, Rows
  <2>2. recv.pc \in {"update", "write"} => jobs'[j].status # "absent"
    BY <2>1, RowsKept DEF Sound, RecvSound
  <2>3. ASSUME recv.pc = "write" PROVE jobs'[j].log \subseteq recv.log \cup {"live"}
    <3>1. /\ RowStep(j) /\ j \in Runs /\ jobs[j].status # "absent"
          /\ jobs[j].log \subseteq recv.log \cup {"live"}
      BY <1>1, <2>1, <2>3, RowSteps DEF Sound, RecvSound, RecvWell
    <3>2. j \notin Triggers
      BY <3>1, JobLifecycleAssumption
    <3>3. ~Planned(j) /\ ~Created(j)
      BY <3>1, <3>2 DEF Planned, Created
    <3>4. ~Completed(j)
      BY <3>2, TypeFacts DEF Sound, Completed
    <3>5. recv' # Idle
      BY <1>2, <2>3 DEF Idle
    <3>6. jobs'[j] = jobs[j] \/ PlanDeleted(j)
      BY <3>1, <3>3, <3>4, <3>5 DEF RowStep
    <3> QED BY <3>1, <3>6 DEF PlanDeleted
  <2> QED BY <1>2, <2>2, <2>3 DEF RecvSound
<1>3. CASE recv'.pc \in {"idle", "find"}
  BY <1>3 DEF RecvSound
<1>4. CASE /\ recv'.pc = "update" /\ UNCHANGED jobs
           /\ recv'.row = FindPlannedJob(recv.plan) /\ recv'.row # None
  <2>1. jobs[recv'.row].status # "absent"
    BY <1>4, FindFacts DEF Sound, Types, Open
  <2> QED BY <1>4, <2>1 DEF RecvSound
<1>5. CASE /\ recv'.pc = "write" /\ UNCHANGED jobs
           /\ recv'.row \in Rows /\ jobs[recv'.row].status # "absent"
           /\ recv'.log = jobs[recv'.row].log
  BY <1>5 DEF RecvSound
<1> QED BY <1>1, <1>2, <1>3, <1>4, <1>5 DEF RecvStep

\* There are no rows, calls or reports at first.
LEMMA InitSound == Init => Sound
<1> SUFFICES ASSUME Init PROVE Sound
  OBVIOUS
<1>1. \A j \in Rows : jobs[j] = Absent
  BY DEF Init
<1>2. /\ Absent.status = "absent" /\ Absent.results = {} /\ Absent.plan = None
      /\ NoCall.pc = "free" /\ Idle.pc = "idle"
  BY DEF Absent, NoCall, Idle
<1>3. RowsSound
  BY <1>1, <1>2 DEF RowsSound, RowSound
<1>4. CallsSound
  BY <1>2 DEF Init, CallsSound, CallSound
<1>5. OutboxSound /\ RecvSound
  BY <1>2 DEF Init, OutboxSound, RecvSound
<1> QED BY <1>3, <1>4, <1>5, InitTypes DEF Sound

\* Every step keeps rows, calls, outbox and receive goroutine sound.
LEMMA NextSound ==
  ASSUME Sound, [Next]_vars
  PROVE  Sound'
<1>1. Types'
  BY NextTypes DEF Sound
<1> QED BY <1>1, RowsStaySound, CallsStaySound, OutboxStaysSound, RecvStaysSound
        DEF Sound

\* An aborted trigger is in a row of its own, whatever is delivered twice, late
\* or after a failed database call.
THEOREM AbortedApart == Spec => []AbortsApart
<1>1. Sound => AbortsApart
  <2> SUFFICES ASSUME Sound PROVE AbortsApart
    OBVIOUS
  <2>1. \A j \in Rows : RowSound(j) /\ (j \in Triggers \/ j \in Runs)
    BY DEF Sound, RowsSound, Rows
  <2>2. \A r \in Runs : Status(r) = "aborted" => run[r].out = "aborted"
    BY DEF Status
  <2> QED BY <2>1, <2>2 DEF AbortsApart, RowSound
<1>2. Sound /\ [Next]_vars => Sound'
  BY NextSound
<1> QED BY InitSound, <1>1, <1>2, PTL DEF Spec

\* A report that the agent may forget has its results in the table for ever.
THEOREM AcknowledgedStored == Spec => []AckedStored
<1>1. Sound => AckedStored
  BY DEF Sound, OutboxSound, AckedStored, Stored
<1>2. Sound /\ [Next]_vars => Sound'
  BY NextSound
<1> QED BY InitSound, <1>1, <1>2, PTL DEF Spec

\* Results are only in rows of their plan, or of a plan that was deleted.
THEOREM RowsOfOwnPlan == Spec => []OwnPlan
<1>1. Sound => OwnPlan
  BY DEF Sound, RowsSound, RowSound, OwnPlan
<1>2. Sound /\ [Next]_vars => Sound'
  BY NextSound
<1> QED BY InitSound, <1>1, <1>2, PTL DEF Spec

\* The row that a report created keeps its status, its results and the log of
\* the report in every step.
THEOREM ReportedRowsKept == Spec => ReportedRowKept
<1> DEFINE Kept == \A r \in Runs : jobs[r].status # "absent" =>
                     /\ jobs'[r].status = jobs[r].status
                     /\ jobs'[r].results = jobs[r].results
                     /\ jobs[r].log \subseteq jobs'[r].log
<1>1. Sound /\ [Next]_vars => Kept
  <2> SUFFICES ASSUME Sound, [Next]_vars, NEW r \in Runs, jobs[r].status # "absent"
               PROVE  /\ jobs'[r].status = jobs[r].status
                      /\ jobs'[r].results = jobs[r].results
                      /\ jobs[r].log \subseteq jobs'[r].log
    OBVIOUS
  <2>1. RowStep(r) /\ r \notin Triggers
    BY RowSteps, JobLifecycleAssumption DEF Sound, Rows
  <2>2. ~Planned(r) /\ ~Created(r)
    BY <2>1 DEF Planned, Created
  <2>3. ~Completed(r)
    BY <2>1, TypeFacts DEF Sound, Completed
  <2>4. ~Marked(r)
    BY <2>1, TypeFacts DEF Sound, Marked, RecvWell
  <2>5. Logged(r) => jobs'[r].log = recv.log \cup {"live"} /\ recv.pc = "write"
                     /\ recv.row = r
    BY DEF Logged
  <2>6. Logged(r) => jobs[r].log \subseteq jobs'[r].log
    BY <2>5 DEF Sound, RecvSound
  <2> QED BY <2>1, <2>2, <2>3, <2>4, <2>6 DEF RowStep, PlanDeleted, Logged
<1>2. Sound /\ [Next]_vars => Sound'
  BY NextSound
<1>3. Sound /\ [Next]_vars => [Kept]_vars
  BY <1>1
<1> QED BY InitSound, <1>2, <1>3, PTL DEF Spec, ReportedRowKept

-----------------------------------------------------------------------------
\* How often a report is stored.  A report is in the rows that hold it, with the
\* calls that may still store it, and with an outbox that may call again: each
\* call uses up the outbox's turn, a refusal gives the turn back, and only a
\* repetition in doubt adds one.

Pending(r) == {c \in Calls : /\ calls[c].report = r
                             /\ calls[c].pc \in {"find", "create", "complete"}}

Asking(r) == waiting # None /\ calls[waiting].report = r

\* The outbox may call for r without repeating in doubt.
MayCall(r) ==
  \/ Asking(r) /\ calls[waiting].pc = "reply" /\ ~calls[waiting].ok
  \/ ~Asking(r) /\ (r \in outbox \/ ~Done(r))

Tally(r) == Cardinality(Holding(r)) + Cardinality(Pending(r))
              + (IF MayCall(r) THEN 1 ELSE 0)

Tallied(r) ==
  /\ IsFiniteSet(Holding(r)) /\ IsFiniteSet(Pending(r))
  /\ Tally(r) <= 1 + resent[r]

\* A subset of a finite set is not larger.
LEMMA NotLarger ==
  ASSUME NEW S, IsFiniteSet(S), NEW T, T \subseteq S
  PROVE  /\ IsFiniteSet(T) /\ Cardinality(T) \in Nat /\ Cardinality(S) \in Nat
         /\ Cardinality(T) <= Cardinality(S)
BY FS_Subset, FS_CardinalityType

\* One element more.
LEMMA OneMore ==
  ASSUME NEW S, IsFiniteSet(S), NEW x, NEW T, T \subseteq S \cup {x}
  PROVE  /\ IsFiniteSet(T) /\ Cardinality(T) \in Nat /\ Cardinality(S) \in Nat
         /\ Cardinality(T) <= Cardinality(S) + 1
<1>1. /\ IsFiniteSet(S \cup {x})
      /\ Cardinality(S \cup {x}) \in {Cardinality(S), Cardinality(S) + 1}
  BY FS_AddElement
<1>2. /\ IsFiniteSet(T) /\ Cardinality(T) \in Nat
      /\ Cardinality(T) <= Cardinality(S \cup {x})
  BY <1>1, NotLarger
<1>3. Cardinality(S) \in Nat
  BY FS_CardinalityType
<1> QED BY <1>1, <1>2, <1>3

\* One element less.
LEMMA OneLess ==
  ASSUME NEW S, IsFiniteSet(S), NEW x \in S, NEW T, T \subseteq S \ {x}
  PROVE  /\ IsFiniteSet(T) /\ Cardinality(T) \in Nat /\ Cardinality(S) \in Nat
         /\ Cardinality(T) + 1 <= Cardinality(S)
<1>1. IsFiniteSet(S \ {x}) /\ Cardinality(S \ {x}) = Cardinality(S) - 1
  BY FS_RemoveElement
<1>2. /\ IsFiniteSet(T) /\ Cardinality(T) \in Nat
      /\ Cardinality(T) <= Cardinality(S \ {x})
  BY <1>1, NotLarger
<1>3. Cardinality(S) \in Nat
  BY FS_CardinalityType
<1> QED BY <1>1, <1>2, <1>3

\* What the repeated calls are.
LEMMA ResentFacts ==
  ASSUME Types, NEW r \in Runs
  PROVE  resent[r] \in Nat
BY JobLifecycleAssumption DEF Types, TypeOK

\* A repetition adds one.
LEMMA RepeatsFacts ==
  ASSUME Types, NEW s \in Runs, Repeats(s), NEW r \in Runs
  PROVE  /\ resent'[r] \in Nat /\ resent'[r] >= resent[r]
         /\ s = r => resent'[r] > resent[r]
<1>1. resent \in [Runs -> 0..MaxResent] /\ resent[r] \in Nat
  BY ResentFacts DEF Types, TypeOK
<1>2. CASE s = r
  <2>1. resent'[r] = resent[r] + 1
    BY <1>1, <1>2 DEF Repeats
  <2> QED BY <1>1, <2>1
<1>3. CASE s # r
  <2>1. resent'[r] = resent[r]
    BY <1>1, <1>3 DEF Repeats
  <2> QED BY <1>1, <1>3, <2>1
<1> QED BY <1>2, <1>3

\* A step that stores nothing and calls nothing.
LEMMA TallyKept ==
  ASSUME Types, NEW r \in Runs, Tallied(r),
         resent'[r] \in Nat, resent'[r] >= resent[r],
         Holding(r)' \subseteq Holding(r), Pending(r)' \subseteq Pending(r),
         MayCall(r)' => MayCall(r) \/ resent'[r] > resent[r]
  PROVE  Tallied(r)'
<1> DEFINE H == Holding(r)  H1 == Holding(r)'  P == Pending(r)  P1 == Pending(r)'
<1>1. /\ IsFiniteSet(H) /\ IsFiniteSet(P) /\ resent[r] \in Nat
      /\ Cardinality(H) + Cardinality(P) + (IF MayCall(r) THEN 1 ELSE 0) <= 1 + resent[r]
  BY ResentFacts DEF Tallied, Tally
<1>2. /\ IsFiniteSet(H1) /\ Cardinality(H1) \in Nat /\ Cardinality(H) \in Nat
      /\ Cardinality(H1) <= Cardinality(H)
  <2> HIDE DEF H, H1
  <2> QED BY <1>1, NotLarger DEF H, H1
<1>3. /\ IsFiniteSet(P1) /\ Cardinality(P1) \in Nat /\ Cardinality(P) \in Nat
      /\ Cardinality(P1) <= Cardinality(P)
  <2> HIDE DEF P, P1
  <2> QED BY <1>1, NotLarger DEF P, P1
<1>4. Cardinality(H1) + Cardinality(P1) + (IF MayCall(r)' THEN 1 ELSE 0)
        <= 1 + resent'[r]
  <2>1. CASE MayCall(r)'
    BY <1>1, <1>2, <1>3, <2>1
  <2>2. CASE ~MayCall(r)'
    BY <1>1, <1>2, <1>3, <2>2
  <2> QED BY <2>1, <2>2
<1> QED BY <1>2, <1>3, <1>4 DEF Tallied, Tally

\* The outbox calls.
LEMMA TallyCalled ==
  ASSUME Types, NEW r \in Runs, Tallied(r), NEW c,
         resent'[r] = resent[r],
         Holding(r)' \subseteq Holding(r), Pending(r)' \subseteq Pending(r) \cup {c},
         MayCall(r), ~MayCall(r)'
  PROVE  Tallied(r)'
<1> DEFINE H == Holding(r)  H1 == Holding(r)'  P == Pending(r)  P1 == Pending(r)'
<1>1. /\ IsFiniteSet(H) /\ IsFiniteSet(P) /\ resent[r] \in Nat
      /\ Cardinality(H) + Cardinality(P) + 1 <= 1 + resent[r]
  BY ResentFacts DEF Tallied, Tally
<1>2. /\ IsFiniteSet(H1) /\ Cardinality(H1) \in Nat /\ Cardinality(H) \in Nat
      /\ Cardinality(H1) <= Cardinality(H)
  <2> HIDE DEF H, H1
  <2> QED BY <1>1, NotLarger DEF H, H1
<1>3. /\ IsFiniteSet(P1) /\ Cardinality(P1) \in Nat /\ Cardinality(P) \in Nat
      /\ Cardinality(P1) <= Cardinality(P) + 1
  <2> HIDE DEF P, P1
  <2> QED BY <1>1, OneMore DEF P, P1
<1>4. Cardinality(H1) + Cardinality(P1) + (IF MayCall(r)' THEN 1 ELSE 0)
        <= 1 + resent'[r]
  BY <1>1, <1>2, <1>3
<1> QED BY <1>2, <1>3, <1>4 DEF Tallied, Tally

\* A call ends: the report is stored, or the outbox may have its turn back.
LEMMA TallyStored ==
  ASSUME Types, NEW r \in Runs, Tallied(r), NEW c \in Pending(r), NEW k,
         resent'[r] = resent[r],
         Pending(r)' \subseteq Pending(r) \ {c},
         \/ Holding(r)' \subseteq Holding(r)
         \/ Holding(r)' \subseteq Holding(r) \cup {k} /\ (MayCall(r)' => MayCall(r))
  PROVE  Tallied(r)'
<1> DEFINE H == Holding(r)  H1 == Holding(r)'  P == Pending(r)  P1 == Pending(r)'
<1>1. /\ IsFiniteSet(H) /\ IsFiniteSet(P) /\ resent[r] \in Nat
      /\ Cardinality(H) + Cardinality(P) + (IF MayCall(r) THEN 1 ELSE 0) <= 1 + resent[r]
  BY ResentFacts DEF Tallied, Tally
<1>2. /\ IsFiniteSet(H1) /\ Cardinality(H1) \in Nat /\ Cardinality(H) \in Nat
      /\ \/ Cardinality(H1) <= Cardinality(H)
         \/ Cardinality(H1) <= Cardinality(H) + 1 /\ (MayCall(r)' => MayCall(r))
  <2>1. CASE Holding(r)' \subseteq Holding(r)
    <3> HIDE DEF H, H1
    <3> QED BY <1>1, <2>1, NotLarger DEF H, H1
  <2>2. CASE Holding(r)' \subseteq Holding(r) \cup {k} /\ (MayCall(r)' => MayCall(r))
    <3> HIDE DEF H, H1
    <3> QED BY <1>1, <2>2, OneMore DEF H, H1
  <2> QED BY <2>1, <2>2
<1>3. /\ IsFiniteSet(P1) /\ Cardinality(P1) \in Nat /\ Cardinality(P) \in Nat
      /\ Cardinality(P1) + 1 <= Cardinality(P)
  <2> HIDE DEF P, P1
  <2> QED BY <1>1, OneLess DEF P, P1
<1>4. Cardinality(H1) + Cardinality(P1) + (IF MayCall(r)' THEN 1 ELSE 0)
        <= 1 + resent'[r]
  <2>1. CASE MayCall(r)'
    BY <1>1, <1>2, <1>3, <2>1
  <2>2. CASE ~MayCall(r)'
    BY <1>1, <1>2, <1>3, <2>2
  <2> QED BY <2>1, <2>2
<1> QED BY <1>2, <1>3, <1>4 DEF Tallied, Tally

\* What the tally of r depends on.
LEMMA TallyFacts ==
  ASSUME Sound, NEW r \in Runs
  PROVE  /\ waiting # None => waiting \in Calls /\ calls[waiting].pc # "free"
                             /\ ~calls[waiting].left
         /\ Asking(r) => Done(r)
         /\ r \in outbox => Done(r)
         /\ \A c \in Calls : calls[c].pc = "free" => calls[c].report = None
         /\ None # r
BY TypeFacts, JobLifecycleAssumption
   DEF Sound, Types, TypeOK, CallsSound, CallSound, OutboxSound, Asking, WellFormed, Rows

\* A step that writes no results, and leaves calls and the outbox's turn alone.
LEMMA TallyIdle ==
  ASSUME Sound, NEW r \in Runs, Tallied(r), UNCHANGED <<waiting, resent>>,
         \A j \in Rows : jobs'[j].results \subseteq jobs[j].results,
         \A c \in Calls : /\ calls'[c].report = calls[c].report
                          /\ calls'[c].ok = calls[c].ok
                          /\ calls'[c].pc = "reply" <=> calls[c].pc = "reply"
                          /\ calls'[c].pc \in {"find", "create", "complete"} <=>
                               calls[c].pc \in {"find", "create", "complete"},
         r \in outbox' \/ run'[r].pc \notin {"clear", "over"} => r \in outbox \/ ~Done(r)
  PROVE  Tallied(r)'
<1>1. Types /\ resent[r] \in Nat
  BY ResentFacts DEF Sound
<1>2. Holding(r)' \subseteq Holding(r)
  BY DEF Holding
<1>3. Pending(r)' \subseteq Pending(r)
  BY DEF Pending
<1>4. MayCall(r)' => MayCall(r)
  BY TallyFacts DEF MayCall, Asking, Done
<1> QED BY <1>1, <1>2, <1>3, <1>4, TallyKept

\* The steps of the scheduler, of the stream and of the REST handlers.
LEMMA TallyOthers ==
  ASSUME Sound, NEW r \in Runs, Tallied(r),
         \/ \E p \in Plans : DeletePlan(p)
         \/ \E t \in Triggers, p \in Plans : TriggerPlan(t, p)
         \/ \E t \in Triggers, s \in Runs : TriggerNow(t, s)
         \/ \E s \in Runs, p \in Plans : CronFires(s, p)
         \/ \E t \in Triggers : TriggerUnknown(t)
         \/ \E s \in Runs : Execute(s) \/ ClearCurrentJob(s)
         \/ Heartbeat \/ FindStarted \/ MarkRunning
         \/ \E s \in Runs : ReadLog(s)
         \/ WriteLog
         \/ UNCHANGED vars,
         [Next]_vars
  PROVE  Tallied(r)'
<1>1. UNCHANGED <<waiting, resent, calls>>
  BY DEF DeletePlan, TriggerPlan, TriggerNow, CronFires, TriggerUnknown, Execute,
         ClearCurrentJob, Heartbeat, FindStarted, MarkRunning, ReadLog,
         WriteLog, vars, deliv
<1>2. \A j \in Rows : jobs'[j].results \subseteq jobs[j].results
  BY <1>1, RowSteps DEF Sound, RowStep, PlanDeleted, Planned, Marked, Logged
<1>3. r \in outbox' \/ run'[r].pc \notin {"clear", "over"} => r \in outbox \/ ~Done(r)
  BY OutboxSteps, RunsKept DEF Sound, Done
<1> QED BY <1>1, <1>2, <1>3, TallyIdle

\* The outbox calls for s.
LEMMA TallyCalls ==
  ASSUME Sound, NEW r \in Runs, Tallied(r), NEW s \in Runs, NEW c \in Calls,
         CallReportJob(s, c)
  PROVE  Tallied(r)'
<1>1. /\ waiting = None /\ s \in outbox /\ calls[c].pc = "free" /\ waiting' = c
      /\ UNCHANGED <<jobs, run, outbox, resent>>
  BY DEF CallReportJob, table, agent
<1>2. /\ calls'[c].report = s /\ calls'[c].pc \in {"find", "create"}
      /\ \A d \in Calls : d # c => calls'[d] = calls[d]
  BY CallSent DEF Sound, Asked, Others
<1>3. Types /\ resent[r] \in Nat /\ c # None
  BY ResentFacts, JobLifecycleAssumption DEF Sound
<1>4. Holding(r)' \subseteq Holding(r)
  BY <1>1 DEF Holding
<1>5. CASE r = s
  <2>1. Pending(r)' \subseteq Pending(r) \cup {c}
    BY <1>2 DEF Pending
  <2>2. MayCall(r) /\ ~MayCall(r)'
    BY <1>1, <1>2, <1>3, <1>5 DEF MayCall, Asking
  <2> QED BY <1>1, <1>3, <1>4, <2>1, <2>2, TallyCalled
<1>6. CASE r # s
  <2>1. Pending(r)' \subseteq Pending(r)
    BY <1>2, <1>6 DEF Pending
  <2>2. MayCall(r)' => MayCall(r)
    BY <1>1, <1>2, <1>6 DEF MayCall, Asking, Done
  <2> QED BY <1>1, <1>3, <1>4, <2>1, <2>2, TallyKept
<1> QED BY <1>5, <1>6

\* The handler of c looks for a row.
LEMMA TallyFinds ==
  ASSUME Sound, NEW r \in Runs, Tallied(r), NEW c \in Calls, FindForReport(c)
  PROVE  Tallied(r)'
<1>1. UNCHANGED <<jobs, run, outbox, waiting, resent>>
  BY DEF FindForReport, CallFails, DatabaseFails, table, agent
<1>2. /\ calls[c].pc = "find"
      /\ \/ /\ calls'[c].report = calls[c].report
            /\ calls'[c].pc \in {"create", "complete"}
         \/ calls[c].left /\ calls'[c].pc = "free"
      /\ \A d \in Calls : d # c => calls'[d] = calls[d]
  BY FindSteps DEF Sound, LookedUp, LookupFailed, Others, NoCall
<1>3. Types /\ resent[r] \in Nat
  BY ResentFacts DEF Sound
<1>4. Holding(r)' \subseteq Holding(r)
  BY <1>1 DEF Holding
<1>5. Pending(r)' \subseteq Pending(r)
  BY <1>2 DEF Pending
<1>6. MayCall(r)' => MayCall(r)
  BY <1>1, <1>2, TallyFacts DEF MayCall, Asking, Done
<1> QED BY <1>1, <1>3, <1>4, <1>5, <1>6, TallyKept

\* The handler of c ends.
LEMMA TallyStores ==
  ASSUME Sound, NEW r \in Runs, Tallied(r), NEW c \in Calls, StoreReport(c)
  PROVE  Tallied(r)'
<1>1. UNCHANGED <<run, outbox, waiting, resent>>
  BY DEF StoreReport, agent
<1>2. /\ calls[c].pc \in {"complete", "create"}
      /\ \A d \in Calls : d # c => calls'[d] = calls[d]
      /\ \/ calls[c].left /\ calls'[c] = NoCall
         \/ calls'[c].pc = "reply" /\ calls'[c].report = calls[c].report
      /\ \/ UNCHANGED jobs
         \/ /\ calls'[c] = NoCall \/ calls'[c].ok
            /\ \E k \in Rows :
                 /\ \A j \in Rows : j # k => jobs'[j] = jobs[j]
                 /\ jobs'[k].results \subseteq jobs[k].results \cup {calls[c].report}
  BY StoreSteps DEF Sound, Answered, Others
<1>3. Types /\ resent[r] \in Nat
  BY ResentFacts DEF Sound
<1>4. NoCall.pc = "free" /\ NoCall.report = None
  BY DEF NoCall
<1>5. CASE calls[c].report = r
  <2>1. c \in Pending(r)
    BY <1>2, <1>5 DEF Pending
  <2>2. Pending(r)' \subseteq Pending(r) \ {c}
    BY <1>2, <1>4 DEF Pending
  <2>3. CASE UNCHANGED jobs
    <3>1. Holding(r)' \subseteq Holding(r)
      BY <2>3 DEF Holding
    <3> QED BY <1>1, <1>3, <2>1, <2>2, <3>1, TallyStored
  <2>4. CASE calls'[c] = NoCall \/ calls'[c].ok
    <3>1. PICK k : Holding(r)' \subseteq Holding(r) \cup {k}
      BY <1>2 DEF Holding
    <3>2. MayCall(r)' => MayCall(r)
      <4>1. CASE waiting = c
        <5>1. ~calls[c].left
          BY <4>1, TallyFacts, JobLifecycleAssumption
        <5>2. calls'[c].pc = "reply" /\ calls'[c].report = r /\ calls'[c].ok
          BY <1>2, <1>4, <1>5, <2>4, <5>1
        <5>3. c # None
          BY JobLifecycleAssumption
        <5> QED BY <1>1, <4>1, <5>2, <5>3 DEF MayCall, Asking
      <4>2. CASE waiting # c
        BY <1>1, <1>2, <4>2, TallyFacts DEF MayCall, Asking, Done
      <4> QED BY <4>1, <4>2
    <3> QED BY <1>1, <1>3, <2>1, <2>2, <3>1, <3>2, TallyStored
  <2> QED BY <1>2, <2>3, <2>4
<1>6. CASE calls[c].report # r
  <2>1. Holding(r)' \subseteq Holding(r)
    BY <1>2, <1>6 DEF Holding
  <2>2. Pending(r)' \subseteq Pending(r)
    BY <1>2, <1>4, <1>6 DEF Pending
  <2>3. MayCall(r)' => MayCall(r)
    <3>1. CASE waiting = c
      <4>1. ~calls[c].left
        BY <3>1, TallyFacts, JobLifecycleAssumption
      <4>2. calls'[c].report = calls[c].report
        BY <1>2, <4>1
      <4> QED BY <1>1, <1>6, <3>1, <4>2 DEF MayCall, Asking, Done
    <3>2. CASE waiting # c
      BY <1>1, <1>2, <3>2, TallyFacts DEF MayCall, Asking, Done
    <3> QED BY <3>1, <3>2
  <2> QED BY <1>1, <1>3, <2>1, <2>2, <2>3, TallyKept
<1> QED BY <1>5, <1>6

\* The outbox has its answer.
LEMMA TallyAnswers ==
  ASSUME Sound, NEW r \in Runs, Tallied(r), NEW c \in Calls, AnswerReport(c)
  PROVE  Tallied(r)'
<1>1. /\ calls[c].pc = "reply" /\ c = waiting /\ waiting' = None
      /\ UNCHANGED <<jobs, run>>
      /\ \/ outbox' = outbox \ {calls[c].report} /\ UNCHANGED resent
         \/ Repeats(calls[c].report) /\ UNCHANGED outbox
         \/ ~calls[c].ok /\ UNCHANGED <<outbox, resent>>
  BY DEF AnswerReport, table, agent
<1>2. calls'[c] = NoCall /\ \A d \in Calls : d # c => calls'[d] = calls[d]
  BY CallOver DEF Sound, Others
<1>3. /\ Types /\ resent[r] \in Nat /\ c # None /\ calls[c].report \in Runs
  BY <1>1, ResentFacts, TypeFacts, JobLifecycleAssumption DEF Sound
<1>4. Holding(r)' \subseteq Holding(r)
  BY <1>1 DEF Holding
<1>5. Pending(r)' \subseteq Pending(r)
  <2>1. NoCall.pc = "free"
    BY DEF NoCall
  <2> QED BY <1>2, <2>1 DEF Pending
<1>6. MayCall(r)' => MayCall(r) \/ resent'[r] > resent[r]
  <2>1. MayCall(r)' => r \in outbox' \/ ~Done(r)
    BY <1>1 DEF MayCall, Asking, Done
  <2>2. CASE calls[c].report = r
    <3>1. Asking(r) /\ Done(r)
      BY <1>1, <1>3, <2>2, TallyFacts DEF Asking
    <3>2. CASE Repeats(r)
      BY <1>3, <3>2, RepeatsFacts
    <3>3. CASE ~Repeats(r)
      <4>1. calls[c].ok => r \notin outbox'
        BY <1>1, <2>2, <3>3
      <4> QED BY <1>1, <2>1, <3>1, <4>1 DEF MayCall
    <3> QED BY <3>2, <3>3
  <2>3. CASE calls[c].report # r
    <3>1. ~Asking(r)
      BY <1>1, <2>3 DEF Asking
    <3> QED BY <1>1, <2>1, <3>1 DEF MayCall
  <2> QED BY <2>2, <2>3
<1>7. resent'[r] \in Nat /\ resent'[r] >= resent[r]
  BY <1>1, <1>3, RepeatsFacts
<1> QED BY <1>3, <1>4, <1>5, <1>6, <1>7, TallyKept

\* The outbox gives up a call.
LEMMA TallyTimesOut ==
  ASSUME Sound, NEW r \in Runs, Tallied(r), NEW c \in Calls, DeliveryTimeout(c)
  PROVE  Tallied(r)'
<1>1. /\ waiting = c /\ waiting' = None /\ UNCHANGED <<jobs, run, outbox>>
      /\ Repeats(calls[c].report)
  BY DEF DeliveryTimeout, table, agent
<1>2. /\ calls[c].pc # "free"
      /\ \/ calls[c].pc = "reply" /\ calls'[c] = NoCall
         \/ calls'[c].pc = calls[c].pc /\ calls'[c].report = calls[c].report
      /\ \A d \in Calls : d # c => calls'[d] = calls[d]
  BY CallGivenUp DEF Sound, LeftAlone, Others
<1>3. Types /\ calls[c].report \in Runs
  BY <1>2, TypeFacts DEF Sound
<1>4. /\ resent'[r] \in Nat /\ resent'[r] >= resent[r]
      /\ calls[c].report = r => resent'[r] > resent[r]
  BY <1>1, <1>3, RepeatsFacts
<1>5. Holding(r)' \subseteq Holding(r)
  BY <1>1 DEF Holding
<1>6. Pending(r)' \subseteq Pending(r)
  <2>1. NoCall.pc = "free"
    BY DEF NoCall
  <2> QED BY <1>2, <2>1 DEF Pending
<1>7. calls[c].report # r => (MayCall(r)' => MayCall(r))
  BY <1>1 DEF MayCall, Asking, Done
<1> QED BY <1>3, <1>4, <1>5, <1>6, <1>7, TallyKept

\* Every step keeps every tally.
LEMMA TalliesKept ==
  ASSUME Sound, [Next]_vars, NEW r \in Runs, Tallied(r)
  PROVE  Tallied(r)'
<1>1. CASE UNCHANGED vars
  BY <1>1, TallyOthers
<1>2. CASE Next
  BY <1>2, TallyOthers, TallyCalls, TallyFinds, TallyStores, TallyAnswers,
     TallyTimesOut DEF Next
<1> QED BY <1>1, <1>2

Tallies == \A r \in Runs : Tallied(r)

\* A report is in one row, and in one more at most for each time that the outbox
\* sent it again without knowing that it was not stored, or without recording that
\* it was: neither failed queries nor calls that run on after the agent left them
\* make more.
THEOREM RepeatsExplained == Spec => []RepeatedIfUnanswered
<1>1. Init => Tallies
  <2> SUFFICES ASSUME Init, NEW r \in Runs PROVE Tallied(r)
    BY DEF Tallies
  <2>1. Holding(r) = {} /\ Pending(r) = {}
    BY DEF Init, Holding, Pending, Absent, NoCall
  <2>2. IsFiniteSet({}) /\ Cardinality({}) = 0
    BY FS_EmptySet
  <2>3. resent[r] = 0
    BY DEF Init
  <2>4. Tally(r) <= 1
    BY <2>1, <2>2 DEF Tally
  <2> QED BY <2>1, <2>2, <2>3, <2>4 DEF Tallied
<1>2. Sound /\ Tallies /\ [Next]_vars => Sound' /\ Tallies'
  BY NextSound, TalliesKept DEF Tallies
<1>3. Sound /\ Tallies => RepeatedIfUnanswered
  <2> SUFFICES ASSUME Sound, Tallies, NEW r \in Runs
               PROVE  Cardinality(Holding(r)) <= 1 + resent[r]
    BY DEF RepeatedIfUnanswered
  <2>1. /\ Cardinality(Holding(r)) \in Nat /\ Cardinality(Pending(r)) \in Nat
        /\ resent[r] \in Nat /\ Tally(r) <= 1 + resent[r]
    BY FS_CardinalityType, ResentFacts DEF Tallies, Tallied, Sound
  <2> QED BY <2>1 DEF Tally
<1> QED BY InitSound, <1>1, <1>2, <1>3, PTL DEF Spec

-----------------------------------------------------------------------------
\* Why no row is left open without a reason.  A report is settled once it is
\* stored or about to be stored in a row of its own.  It is settled by filling a
\* row of its plan, by sharing one, after a look-up that failed, or when all rows
\* of its plan were filled; so a plan has no more triggers with a settled report
\* than filled rows, shared reports and failures together.

Asks(p) == {t \in Triggers : asked[t] = p}

Filled(p) == {j \in Asks(p) : jobs[j].results # {}}

Settled(r) ==
  \/ Stored(r)
  \/ \E c \in Calls : calls[c].pc = "create" /\ calls[c].report = r

Closed(p) == {t \in Asks(p) : /\ runOf[t] # None /\ run[runOf[t]].out # "aborted"
                              /\ Settled(runOf[t])}

Begun == {r \in Runs : run[r].pc # "idle"}

\* A command starts one run, of the plan that was asked for.
TriggerLinked(t) ==
  /\ asked[t] = None => runOf[t] = None
  /\ t \in cmds => runOf[t] = None
  /\ runOf[t] # None => runOf[t] \in Begun /\ run[runOf[t]].plan = asked[t]
  /\ \A u \in Triggers : runOf[t] # None /\ runOf[t] = runOf[u] => t = u

\* The row a trigger planned is in the order of the planned rows, is of the plan
\* that was asked for until that is deleted, and open until a report fills it.
PlannedLinked(t) ==
  /\ asked[t] # None => \E i \in DOMAIN planned : planned[i] = t
  /\ jobs[t].plan # None => jobs[t].plan = asked[t] /\ asked[t] \in plans
  /\ asked[t] \in plans => jobs[t].plan = asked[t]
  /\ asked[t] # None /\ jobs[t].results = {} => jobs[t].status \in Open

\* A call completes a row that was planned for the plan of its report.
CallLinked(c) ==
  calls[c].pc = "complete" => asked[calls[c].row] = run[calls[c].report].plan

Linked ==
  /\ \A r \in Begun : run[r].plan \in Plans
  /\ \A r \in Runs : run[r].out # "none" => Done(r)
  /\ \A t \in Triggers : TriggerLinked(t) /\ PlannedLinked(t)
  /\ \A c \in Calls : CallLinked(c)
  /\ IsFiniteSet(Begun) /\ \A p \in Plans : IsFiniteSet(Asks(p))

\* A run that began keeps its plan, and one run begins at a time.
LEMMA BegunSteps ==
  ASSUME Types, [Next]_vars
  PROVE  /\ \A r \in Begun : r \in Begun' /\ run'[r].plan = run[r].plan
         /\ \/ Begun' \subseteq Begun
            \/ \E s \in Runs : /\ Begun' \subseteq Begun \cup {s} /\ s \notin Begun
                               /\ run'[s].plan \in Plans
<1>1. run \in [Runs -> RunStates]
  BY DEF Types, TypeOK
<1>2. CASE UNCHANGED run
  BY <1>2 DEF Begun
<1>3. ASSUME NEW s \in Runs, NEW p \in Plans, RunJob(s, p)
      PROVE  /\ \A r \in Begun : r \in Begun' /\ run'[r].plan = run[r].plan
             /\ Begun' \subseteq Begun \cup {s} /\ s \notin Begun
             /\ run'[s].plan \in Plans
  <2>1. /\ run[s].pc = "idle" /\ run'[s].plan = p /\ run'[s].pc # "idle"
        /\ \A r \in Runs \ {s} : run'[r] = run[r]
    BY <1>1, <1>3 DEF RunJob
  <2> QED BY <2>1 DEF Begun
<1>4. ASSUME NEW s \in Runs, Execute(s) \/ ClearCurrentJob(s)
      PROVE  /\ \A r \in Begun : r \in Begun' /\ run'[r].plan = run[r].plan
             /\ Begun' \subseteq Begun
  <2>1. /\ run[s].pc # "idle" /\ run'[s].plan = run[s].plan /\ run'[s].pc # "idle"
        /\ \A r \in Runs \ {s} : run'[r] = run[r]
    BY <1>1, <1>4 DEF Execute, ClearCurrentJob, RunStates
  <2> QED BY <2>1 DEF Begun
<1> QED BY <1>2, <1>3, <1>4, RunChanges

\* A run has an outcome once it is over, or about to be.
LEMMA OutcomeSteps ==
  ASSUME Types, [Next]_vars, \A r \in Runs : run[r].out # "none" => Done(r),
         NEW r \in Runs, run'[r].out # "none"
  PROVE  Done(r)'
<1>1. run \in [Runs -> RunStates]
  BY DEF Types, TypeOK
<1>2. CASE UNCHANGED run
  BY <1>2 DEF Done
<1>3. ASSUME NEW s \in Runs, NEW p \in Plans, RunJob(s, p) PROVE Done(r)'
  BY <1>1, <1>3 DEF RunJob, Done
<1>4. ASSUME NEW s \in Runs, Execute(s) PROVE Done(r)'
  BY <1>1, <1>4 DEF Execute, Done, RunStates
<1>5. ASSUME NEW s \in Runs, ClearCurrentJob(s) PROVE Done(r)'
  BY <1>1, <1>5 DEF ClearCurrentJob, Done, RunStates
<1> QED BY <1>2, <1>3, <1>4, <1>5, RunChanges

\* Commands and the runs they start.
LEMMA CommandSteps ==
  ASSUME Types, [Next]_vars
  PROVE  \/ UNCHANGED runOf /\ cmds' \subseteq cmds
         \/ \E u \in Triggers, p \in Plans : TriggerPlan(u, p)
         \/ \E u \in Triggers, r \in Runs : TriggerNow(u, r)
<1>1. ASSUME NEW c \in Calls, \/ FindForReport(c) \/ StoreReport(c)
                             \/ DeliveryTimeout(c) \/ AnswerReport(c)
      PROVE  UNCHANGED <<runOf, cmds>>
  <2>1. FindForReport(c) => UNCHANGED <<agent, cmds>>
    BY DEF FindForReport
  <2>2. StoreReport(c) => UNCHANGED <<agent, cmds>>
    BY DEF StoreReport
  <2>3. DeliveryTimeout(c) \/ AnswerReport(c) => UNCHANGED <<agent, cmds>>
    BY DEF DeliveryTimeout, AnswerReport
  <2> QED BY <1>1, <2>1, <2>2, <2>3 DEF agent
<1>2. ASSUME \/ Heartbeat \/ FindStarted \/ MarkRunning \/ WriteLog
             \/ UNCHANGED vars \/ \E r \in Runs : ReadLog(r)
             \/ \E r \in Runs, p \in Plans : CronFires(r, p)
             \/ \E u \in Triggers : TriggerUnknown(u)
             \/ \E r \in Runs : Execute(r) \/ ClearCurrentJob(r)
             \/ \E r \in Runs, c \in Calls : CallReportJob(r, c)
             \/ \E p \in Plans : DeletePlan(p)
      PROVE  UNCHANGED runOf /\ cmds' \subseteq cmds
  BY <1>2 DEF Heartbeat, FindStarted, MarkRunning, WriteLog, ReadLog, vars, agent,
              CronFires, TriggerUnknown, Execute, ClearCurrentJob, CallReportJob,
              DeletePlan
<1> QED BY <1>1, <1>2 DEF Next

\* Triggers stay linked to their runs.
LEMMA TriggersLinked ==
  ASSUME Types, Linked, [Next]_vars, NEW t \in Triggers
  PROVE  TriggerLinked(t)'
<1>1. \A u \in Triggers : TriggerLinked(u)
  BY DEF Linked
<1>2. \A r \in Begun : r \in Begun' /\ run'[r].plan = run[r].plan
  BY BegunSteps
<1>3. \A u \in Triggers : asked[u] # None => asked'[u] = asked[u]
  BY AskedKept
<1>4. \A u \in Triggers : runOf[u] # None => asked[u] # None
  BY <1>1 DEF TriggerLinked
<1>5. CASE UNCHANGED runOf /\ cmds' \subseteq cmds
  <2>1. asked'[t] = None => asked[t] = None
    BY <1>3
  <2> QED BY <1>1, <1>2, <1>3, <1>4, <1>5, <2>1 DEF TriggerLinked
<1>6. ASSUME NEW u \in Triggers, NEW p \in Plans, TriggerPlan(u, p)
      PROVE  TriggerLinked(t)'
  <2>1. /\ asked[u] = None /\ cmds' \subseteq cmds \cup {u} /\ UNCHANGED runOf
    BY <1>6 DEF TriggerPlan, agent
  <2>2. asked'[t] = None => asked[t] = None
    BY <1>3
  <2> QED BY <1>1, <1>2, <1>3, <1>4, <2>1, <2>2 DEF TriggerLinked
<1>7. ASSUME NEW u \in Triggers, NEW r \in Runs, TriggerNow(u, r)
      PROVE  TriggerLinked(t)'
  <2>1. /\ u \in cmds /\ cmds' = cmds \ {u} /\ UNCHANGED asked
        /\ runOf' = [runOf EXCEPT ![u] = r] /\ RunJob(r, asked[u])
        /\ asked[u] \in Plans /\ runOf \in [Triggers -> Runs \cup {None}]
    BY <1>7 DEF TriggerNow, Types, TypeOK
  <2>2. r \notin Begun /\ r \in Begun' /\ run'[r].plan = asked[u]
    BY <2>1 DEF RunJob, Begun, Types, TypeOK
  <2>3. /\ runOf'[u] = r /\ \A v \in Triggers \ {u} : runOf'[v] = runOf[v]
        /\ \A v \in Triggers : runOf[v] # r \/ r = None
    BY <1>1, <2>1, <2>2 DEF TriggerLinked
  <2>4. r # None /\ asked[u] # None
    BY <2>1, JobLifecycleAssumption DEF Rows
  <2>5. CASE t = u
    BY <2>1, <2>2, <2>3, <2>4, <2>5 DEF TriggerLinked
  <2>6. CASE t # u
    BY <1>1, <1>2, <2>1, <2>3, <2>4, <2>6 DEF TriggerLinked
  <2> QED BY <2>5, <2>6
<1> QED BY <1>5, <1>6, <1>7, CommandSteps

\* The set of plans changes when one is deleted.
LEMMA PlansSteps ==
  ASSUME Types, [Next]_vars
  PROVE  plans' = plans \/ \E p \in Plans : DeletePlan(p)
<1>1. ASSUME NEW c \in Calls, \/ FindForReport(c) \/ StoreReport(c)
                             \/ DeliveryTimeout(c) \/ AnswerReport(c)
      PROVE  UNCHANGED plans
  <2>1. FindForReport(c) => UNCHANGED plans
    BY DEF FindForReport, DatabaseFails, table
  <2>2. StoreReport(c) => UNCHANGED plans
    BY DEF StoreReport, CallFails, DatabaseFails, table
  <2>3. DeliveryTimeout(c) \/ AnswerReport(c) => UNCHANGED plans
    BY DEF DeliveryTimeout, AnswerReport, table
  <2> QED BY <1>1, <2>1, <2>2, <2>3
<1>2. ASSUME \/ Heartbeat \/ FindStarted \/ MarkRunning \/ WriteLog
             \/ UNCHANGED vars \/ \E r \in Runs : ReadLog(r)
             \/ \E u \in Triggers, r \in Runs : TriggerNow(u, r)
             \/ \E r \in Runs, p \in Plans : CronFires(r, p)
             \/ \E u \in Triggers : TriggerUnknown(u)
             \/ \E u \in Triggers, p \in Plans : TriggerPlan(u, p)
             \/ \E r \in Runs : Execute(r) \/ ClearCurrentJob(r)
             \/ \E r \in Runs, c \in Calls : CallReportJob(r, c)
      PROVE  UNCHANGED plans
  BY <1>2 DEF Heartbeat, FindStarted, MarkRunning, WriteLog, ReadLog, vars, table,
              TriggerNow, CronFires, TriggerUnknown, TriggerPlan, Execute,
              ClearCurrentJob, CallReportJob
<1> QED BY <1>1, <1>2 DEF Next

\* A trigger that is made plans its row.
LEMMA TriggerPlans ==
  ASSUME Types, NEW u \in Triggers, NEW p \in Plans, TriggerPlan(u, p)
  PROVE  /\ Planned(u)
         /\ \A t \in Triggers : t # u => asked'[t] = asked[t]
<1>1. /\ asked[u] = None /\ asked' = [asked EXCEPT ![u] = p] /\ p \in plans'
      /\ jobs' = [jobs EXCEPT ![u] = [Absent EXCEPT !.plan = p, !.status = "planned"]]
      /\ p # None /\ asked \in [Triggers -> Plans \cup {None}]
      /\ jobs \in [Rows -> JobRows] /\ u \in Rows
  BY JobLifecycleAssumption DEF TriggerPlan, Types, TypeOK, Rows
<1>2. jobs'[u].status = "planned" /\ jobs'[u].results = {} /\ jobs'[u].plan = p
  BY <1>1 DEF Absent
<1> QED BY <1>1, <1>2 DEF Planned

\* Triggers stay linked to the rows they planned.
LEMMA RowsLinked ==
  ASSUME Sound, Linked, [Next]_vars, NEW t \in Triggers
  PROVE  PlannedLinked(t)'
<1>1. PlannedLinked(t) /\ RowSound(t) /\ RowStep(t) /\ t \in Rows /\ t \notin Runs
  BY RowSteps, JobLifecycleAssumption DEF Linked, Sound, RowsSound, Rows
<1>2. asked[t] # None => asked'[t] = asked[t]
  BY AskedKept DEF Sound
<1>3. asked'[t] # None => \E i \in DOMAIN planned' : planned'[i] = t
  <2>1. CASE UNCHANGED <<asked, planned>>
    BY <1>1, <2>1 DEF PlannedLinked
  <2>2. ASSUME NEW u \in Triggers, NEW p \in Plans, TriggerPlan(u, p)
        PROVE  asked'[t] # None => \E i \in DOMAIN planned' : planned'[i] = t
    <3>1. /\ planned' = Append(planned, u) /\ planned \in Seq(Triggers)
          /\ asked' = [asked EXCEPT ![u] = p] /\ asked \in [Triggers -> Plans \cup {None}]
      BY <2>2 DEF TriggerPlan, Sound, Types, TypeOK
    <3>2. /\ DOMAIN planned' = 1..(Len(planned) + 1) /\ Len(planned) \in Nat
          /\ planned'[Len(planned) + 1] = u /\ DOMAIN planned = 1..Len(planned)
          /\ \A i \in 1..Len(planned) : planned'[i] = planned[i]
      BY <3>1
    <3>3. CASE t = u
      BY <3>2, <3>3
    <3>4. CASE t # u
      <4>1. asked'[t] = asked[t]
        BY <3>1, <3>4
      <4> QED BY <1>1, <3>2, <4>1 DEF PlannedLinked
    <3> QED BY <3>3, <3>4
  <2> QED BY <2>1, <2>2, AskedSteps DEF Sound
<1>4. plans' \subseteq plans
  BY PlansSteps DEF Sound, DeletePlan
<1>5. /\ jobs'[t].plan # None => jobs'[t].plan = asked'[t] /\ asked'[t] \in plans'
      /\ asked'[t] \in plans' => jobs'[t].plan = asked'[t]
  <2>1. ASSUME NEW p \in Plans, DeletePlan(p)
        PROVE  /\ jobs'[t].plan # None => jobs'[t].plan = asked'[t] /\ asked'[t] \in plans'
               /\ asked'[t] \in plans' => jobs'[t].plan = asked'[t]
    <3>1. /\ plans' = plans \ {p} /\ UNCHANGED asked
          /\ jobs'[t] = IF jobs[t].plan = p THEN [jobs[t] EXCEPT !.plan = None] ELSE jobs[t]
      BY <1>1, <2>1 DEF DeletePlan
    <3>2. jobs[t].plan = p => jobs'[t].plan = None
      BY <1>1, <3>1, TypeFacts DEF Sound, JobRows
    <3> QED BY <1>1, <3>1, <3>2 DEF PlannedLinked
  <2>2. CASE plans' = plans
    <3>1. CASE Planned(t)
      BY <3>1 DEF Planned
    <3>2. CASE ~Planned(t) /\ ~PlanDeleted(t)
      <4>1. jobs'[t].plan = jobs[t].plan
        <5>1. ~Created(t)
          BY <1>1, TypeFacts DEF Created, Sound
        <5> QED BY <1>1, <3>2, <5>1 DEF RowStep, Completed, Marked, Logged
      <4>2. asked'[t] = asked[t]
        BY <1>1, <1>2, <3>2, AskedSteps, TriggerPlans DEF Sound
      <4> QED BY <1>1, <2>2, <4>1, <4>2 DEF PlannedLinked
    <3>3. CASE PlanDeleted(t)
      BY <1>1, <2>2, <3>3 DEF PlanDeleted, PlannedLinked
    <3> QED BY <3>1, <3>2, <3>3
  <2> QED BY <2>1, <2>2, PlansSteps DEF Sound
<1>6. asked'[t] # None /\ jobs'[t].results = {} => jobs'[t].status \in Open
  <2>1. CASE Planned(t)
    BY <2>1 DEF Planned, Open
  <2>2. CASE ~Planned(t)
    <3>1. asked'[t] = asked[t]
      BY <1>1, <1>2, <2>2, AskedSteps, TriggerPlans DEF Sound
    <3>2. ~Created(t)
      BY <1>1, TypeFacts DEF Created, Sound
    <3> QED BY <1>1, <2>2, <3>1, <3>2
            DEF RowStep, PlannedLinked, PlanDeleted, Completed, Marked, Logged, Open
  <2> QED BY <2>1, <2>2
<1> QED BY <1>3, <1>5, <1>6 DEF PlannedLinked

\* Calls stay linked to the rows they complete.
LEMMA CallsLinked ==
  ASSUME Sound, Linked, [Next]_vars, NEW c \in Calls
  PROVE  CallLinked(c)'
<1>1. CallLinked(c) /\ CallSound(c) /\ CallStep(c)
  BY CallSteps DEF Linked, Sound, CallsSound
<1>2. \A r \in Runs : Done(r) => run'[r].plan = run[r].plan
  BY RunsKept DEF Sound
<1>3. \A t \in Triggers : asked[t] # None => asked'[t] = asked[t]
  BY AskedKept DEF Sound
<1>4. \A t \in Triggers : jobs[t].status # "absent" => asked[t] # None
  <2> SUFFICES ASSUME NEW t \in Triggers, jobs[t].status # "absent"
               PROVE  asked[t] # None
    OBVIOUS
  <2> QED BY DEF Sound, RowsSound, RowSound, Rows
<1>5. /\ calls[c].pc # "free" => calls[c].report \in Runs /\ Done(calls[c].report)
      /\ calls[c].pc = "complete" =>
           calls[c].row \in Triggers /\ jobs[calls[c].row].status # "absent"
  BY <1>1, TypeFacts DEF CallSound, Sound
<1>6. CASE calls'[c] = calls[c] \/ LeftAlone(c)
  BY <1>1, <1>2, <1>3, <1>4, <1>5, <1>6 DEF CallLinked, LeftAlone
<1>7. CASE LookedUp(c)
  <2> DEFINE r == calls[c].report
             p == run[r].plan
             j == FindPlannedJob(p)
  <2>1. CASE j = None
    BY <1>7, <2>1 DEF LookedUp, CallLinked
  <2>2. CASE j # None
    <3>1. /\ j \in Triggers /\ jobs[j].plan = p /\ jobs[j].status \in Open
      BY <2>2, FindFacts DEF Sound, Types
    <3>2. r \in Begun /\ p \in Plans /\ p # None /\ run'[r].plan = p
      BY <1>2, <1>5, <1>7, JobLifecycleAssumption DEF LookedUp, Linked, Begun, Done
    <3>3. asked[j] = p /\ asked'[j] = p
      BY <1>3, <3>1, <3>2 DEF Linked, PlannedLinked
    <3>4. calls'[c].report = r /\ calls'[c].row = j
      BY <1>7 DEF LookedUp
    <3> HIDE DEF j, p, r
    <3> QED BY <3>2, <3>3, <3>4 DEF CallLinked
  <2> QED BY <2>1, <2>2
<1>8. CASE \/ calls'[c].pc = "free"
           \/ Asked(c) \/ LookupFailed(c) \/ Answered(c)
  BY <1>8 DEF Asked, LookupFailed, Answered, CallLinked
<1> QED BY <1>1, <1>6, <1>7, <1>8 DEF CallStep

\* Every step keeps the links.
LEMMA NextLinked ==
  ASSUME Sound, Linked, [Next]_vars
  PROVE  Linked'
<1>0. Types
  BY DEF Sound
<1>1. \A r \in Begun' : run'[r].plan \in Plans
  BY <1>0, BegunSteps DEF Linked
<1>2. IsFiniteSet(Begun')
  <2>1. \E s : Begun' \subseteq Begun \cup {s}
    BY <1>0, BegunSteps
  <2> QED BY <2>1, OneMore DEF Linked
<1>3. ASSUME NEW p \in Plans PROVE IsFiniteSet(Asks(p)')
  <2>1. \E u : Asks(p)' \subseteq Asks(p) \cup {u}
    BY <1>0, AskedSteps, TriggerPlans DEF Asks
  <2> QED BY <2>1, OneMore DEF Linked
<1>4. \A r \in Runs : run'[r].out # "none" => Done(r)'
  BY <1>0, OutcomeSteps DEF Linked
<1> QED BY <1>0, <1>1, <1>2, <1>3, <1>4, TriggersLinked, RowsLinked, CallsLinked
        DEF Linked

\* At first nothing is linked.
LEMMA InitLinked == Init => Linked
<1> SUFFICES ASSUME Init PROVE Linked
  OBVIOUS
<1>1. /\ \A t \in Triggers : /\ asked[t] = None /\ runOf[t] = None /\ jobs[t] = Absent
                             /\ None \notin Plans
      /\ Absent.plan = None /\ NoCall.pc = "free"
  BY JobLifecycleAssumption DEF Init, Rows, Absent, NoCall
<1>2. Begun = {} /\ \A p \in Plans : Asks(p) = {}
  BY <1>1 DEF Init, Begun, Asks
<1>3. IsFiniteSet({})
  BY FS_EmptySet
<1>4. \A t \in Triggers : TriggerLinked(t) /\ PlannedLinked(t)
  BY <1>1, JobLifecycleAssumption DEF Init, TriggerLinked, PlannedLinked
<1>5. \A c \in Calls : CallLinked(c)
  BY <1>1 DEF Init, CallLinked
<1>6. \A r \in Runs : run[r].out = "none"
  BY DEF Init
<1> QED BY <1>2, <1>3, <1>4, <1>5, <1>6 DEF Linked

\* When no row is found all rows of the plan are filled.
LEMMA NothingFound ==
  ASSUME Sound, Linked, NEW p \in plans, FindPlannedJob(p) = None
  PROVE  Asks(p) \subseteq Filled(p)
<1> SUFFICES ASSUME NEW t \in Asks(p) PROVE jobs[t].results # {}
  BY DEF Filled
<1> DEFINE open == {i \in DOMAIN planned : /\ jobs[planned[i]].plan = p
                                           /\ jobs[planned[i]].status \in Open}
<1>1. open = {}
  <2> SUFFICES ASSUME open # {} PROVE FALSE
    OBVIOUS
  <2>1. DOMAIN planned = 1..Len(planned) /\ Len(planned) \in Nat
        /\ \A i \in DOMAIN planned : planned[i] \in Triggers
    BY DEF Sound, Types, TypeOK
  <2>2. open \in SUBSET Nat /\ IsFiniteSet(open)
    <3>1. open \subseteq 1..Len(planned) /\ open \in SUBSET Nat
      BY <2>1
    <3>2. IsFiniteSet(1..Len(planned))
      BY <2>1, FS_Interval
    <3> HIDE DEF open
    <3> QED BY <3>1, <3>2, FS_Subset
  <2>3. Max(open) \in open
    <3> HIDE DEF open
    <3> QED BY <2>2, MaxIn
  <2>4. FindPlannedJob(p) = planned[Max(open)]
    BY DEF FindPlannedJob
  <2> QED BY <2>1, <2>3, <2>4, JobLifecycleAssumption DEF Rows
<1>2. t \in Triggers /\ asked[t] = p /\ p # None /\ PlannedLinked(t)
  BY JobLifecycleAssumption DEF Asks, Linked, Sound, Types, TypeOK
<1>3. PICK i \in DOMAIN planned : planned[i] = t
  BY <1>2 DEF PlannedLinked
<1>4. jobs[t].plan = p
  BY <1>2 DEF PlannedLinked
<1> QED BY <1>1, <1>2, <1>3, <1>4 DEF PlannedLinked

\* What a step may settle: at most the report r.
OnlySettles(r) == \A s \in Runs \ {r} : Settled(s)' => Settled(s)

\* A look-up settles its report if it finds nothing or fails.
LEMMA SettledByFind ==
  ASSUME Sound, NEW c \in Calls, FindForReport(c), NEW r, r = calls[c].report
  PROVE  /\ OnlySettles(r)
         /\ \/ faults' = faults + 1
            \/ FindPlannedJob(run[r].plan) = None
            \/ Settled(r)' => Settled(r)
<1>1. /\ \/ LookedUp(c)
         \/ LookupFailed(c) /\ faults' = faults + 1
         \/ calls'[c] = NoCall
      /\ Others(c) /\ UNCHANGED jobs
  BY FindSteps DEF Sound
<1>2. \A s : Stored(s)' <=> Stored(s)
  BY <1>1 DEF Stored
<1>3. calls'[c].report = r \/ calls'[c].pc = "free"
  BY <1>1 DEF LookedUp, LookupFailed, NoCall
<1>4. OnlySettles(r)
  BY <1>1, <1>2, <1>3 DEF OnlySettles, Settled, Others
<1>5. CASE LookedUp(c)
  BY <1>1, <1>2, <1>4, <1>5 DEF LookedUp, Settled, Others
<1>6. CASE calls'[c] = NoCall
  <2>1. calls'[c].pc # "create"
    BY <1>6 DEF NoCall
  <2> QED BY <1>1, <1>2, <1>4, <2>1 DEF Settled, Others
<1> QED BY <1>1, <1>4, <1>5, <1>6

\* A handler that ends settles its report by writing it in the row it found.
LEMMA SettledByStore ==
  ASSUME Sound, NEW c \in Calls, StoreReport(c), NEW r, r = calls[c].report
  PROVE  /\ OnlySettles(r)
         /\ \/ Settled(r)' => Settled(r)
            \/ /\ calls[c].pc = "complete"
               /\ jobs'[calls[c].row].results = jobs[calls[c].row].results \cup {r}
<1>1. /\ (calls[c].left /\ calls'[c] = NoCall) \/ Answered(c)
      /\ Others(c) /\ calls[c].pc \in {"complete", "create"}
      /\ \/ UNCHANGED jobs
         \/ \E k \in Rows :
              /\ \A j \in Rows : j # k => jobs'[j] = jobs[j]
              /\ jobs'[k].results \subseteq jobs[k].results \cup {r}
  BY StoreSteps DEF Sound
<1>2. calls'[c].pc # "create"
  BY <1>1 DEF Answered, NoCall
<1>3. ASSUME NEW s, s # r, Stored(s)' PROVE Stored(s)
  <2>1. PICK j \in Rows : s \in jobs'[j].results
    BY <1>3 DEF Stored
  <2>2. s \in jobs[j].results
    BY <1>1, <1>3, <2>1
  <2> QED BY <2>2 DEF Stored
<1>4. OnlySettles(r)
  BY <1>1, <1>2, <1>3 DEF OnlySettles, Settled, Others
<1>5. CASE calls[c].pc = "create"
  BY <1>4, <1>5 DEF Settled
<1>6. CASE calls[c].pc = "complete"
  <2>1. UNCHANGED jobs \/ jobs' = CompleteJob(calls[c].row, r)
    BY <1>6, Zenon DEF StoreReport, CallFails, DatabaseFails, table
  <2>2. CASE UNCHANGED jobs
    <3>1. Stored(r)' => Stored(r)
      BY <2>2 DEF Stored
    <3> QED BY <1>1, <1>2, <1>4, <3>1 DEF Settled, Others
  <2>3. CASE jobs' = CompleteJob(calls[c].row, r)
    <3>1. jobs \in [Rows -> JobRows] /\ calls[c].row \in Rows
      BY <1>6, TypeFacts DEF Sound, Types, TypeOK
    <3>2. jobs'[calls[c].row].results = jobs[calls[c].row].results \cup {r}
      BY <2>3, <3>1 DEF CompleteJob, JobRows
    <3> QED BY <1>4, <1>6, <3>2
  <2> QED BY <1>4, <2>1, <2>2, <2>3
<1> QED BY <1>1, <1>4, <1>5, <1>6

\* No other step settles a report, but that of an aborted trigger.
LEMMA SettledByOthers ==
  ASSUME Sound, [Next]_vars, NEW r \in Runs, Settled(r)', ~Settled(r)
  PROVE  \/ \E c \in Calls : FindForReport(c) \/ StoreReport(c)
         \/ run[r].out = "aborted"
<1>1. ASSUME UNCHANGED calls PROVE FALSE
  <2>1. \A j \in Rows : jobs'[j].results \subseteq jobs[j].results
    BY <1>1, RowSteps DEF Sound, RowStep, PlanDeleted, Planned, Marked, Logged
  <2> QED BY <1>1, <2>1 DEF Settled, Stored
<1>2. ASSUME NEW s \in Runs, NEW c \in Calls, CallReportJob(s, c)
      PROVE  run[r].out = "aborted"
  <2>1. Asked(c) /\ Others(c) /\ UNCHANGED jobs
    BY <1>2, CallSent DEF Sound, CallReportJob, table
  <2>2. calls'[c].pc = "create" /\ calls'[c].report = r
    BY <2>1 DEF Settled, Stored, Others
  <2> QED BY <2>1, <2>2 DEF Asked
<1>3. ASSUME NEW c \in Calls, DeliveryTimeout(c) \/ AnswerReport(c) PROVE FALSE
  <2>1. /\ Others(c) /\ UNCHANGED jobs
        /\ calls'[c] = NoCall \/ LeftAlone(c)
    BY <1>3, CallGivenUp, CallOver DEF Sound, DeliveryTimeout, AnswerReport, table
  <2> QED BY <2>1 DEF Settled, Stored, Others, LeftAlone, NoCall
<1>4. ASSUME \/ Heartbeat \/ FindStarted \/ MarkRunning \/ WriteLog
             \/ UNCHANGED vars \/ \E s \in Runs : ReadLog(s)
             \/ \E t \in Triggers, s \in Runs : TriggerNow(t, s)
             \/ \E s \in Runs, p \in Plans : CronFires(s, p)
             \/ \E t \in Triggers : TriggerUnknown(t)
             \/ \E s \in Runs : Execute(s) \/ ClearCurrentJob(s)
             \/ \E p \in Plans : DeletePlan(p)
             \/ \E t \in Triggers, p \in Plans : TriggerPlan(t, p)
      PROVE  UNCHANGED calls
  BY <1>4 DEF Heartbeat, FindStarted, MarkRunning, WriteLog, ReadLog, vars, deliv,
              TriggerNow, CronFires, TriggerUnknown, Execute, ClearCurrentJob,
              DeletePlan, TriggerPlan
<1> QED BY <1>1, <1>2, <1>3, <1>4 DEF Next

\* At most one report is settled in a step, and this is how.
LEMMA SettledHow ==
  ASSUME Sound, [Next]_vars, NEW r \in Runs, Settled(r)', ~Settled(r),
         run[r].out # "aborted"
  PROVE  /\ OnlySettles(r) /\ Done(r)
         /\ \/ faults' = faults + 1
            \/ FindPlannedJob(run[r].plan) = None
            \/ \E c \in Calls :
                 /\ calls[c].pc = "complete" /\ calls[c].report = r
                 /\ jobs'[calls[c].row].results = jobs[calls[c].row].results \cup {r}
<1>1. PICK c \in Calls : FindForReport(c) \/ StoreReport(c)
  BY SettledByOthers
<1>2. calls[c].report \in Runs /\ Done(calls[c].report)
  BY <1>1, TypeFacts DEF FindForReport, StoreReport, Sound, CallsSound, CallSound
<1>3. OnlySettles(calls[c].report)
  BY <1>1, SettledByFind, SettledByStore
<1>4. r = calls[c].report
  BY <1>3 DEF OnlySettles
<1>5. CASE FindForReport(c)
  BY <1>2, <1>4, <1>5, SettledByFind
<1>6. CASE StoreReport(c)
  <2>1. OnlySettles(r) /\ calls[c].pc = "complete"
        /\ jobs'[calls[c].row].results = jobs[calls[c].row].results \cup {r}
    BY <1>4, <1>6, SettledByStore
  <2> QED BY <1>2, <1>4, <2>1
<1> QED BY <1>1, <1>5, <1>6

-----------------------------------------------------------------------------
\* The count.

Counted(p) ==
  p \in plans =>
    Cardinality(Closed(p)) <= Cardinality(Filled(p)) + faults + Cardinality(Crowded)

\* What is counted is finite.
LEMMA CountedFinite ==
  ASSUME Sound, Linked, NEW p \in Plans
  PROVE  /\ IsFiniteSet(Asks(p)) /\ IsFiniteSet(Filled(p)) /\ IsFiniteSet(Closed(p))
         /\ IsFiniteSet(Crowded) /\ faults \in Nat
         /\ Cardinality(Asks(p)) \in Nat /\ Cardinality(Filled(p)) \in Nat
         /\ Cardinality(Closed(p)) \in Nat /\ Cardinality(Crowded) \in Nat
<1>1. IsFiniteSet(Asks(p)) /\ IsFiniteSet(Begun)
  BY DEF Linked
<1>2. Filled(p) \subseteq Asks(p) /\ Closed(p) \subseteq Asks(p)
  BY DEF Filled, Closed
<1>3. Crowded \subseteq Begun
  BY DEF Crowded, Begun, Sound, RowsSound, RowSound, Rows, Done
<1>4. faults \in Nat
  BY JobLifecycleAssumption DEF Sound, Types, TypeOK
<1> QED BY <1>1, <1>2, <1>3, <1>4, NotLarger

\* Failures of the database are counted one by one.
LEMMA FaultsSteps ==
  ASSUME Types, [Next]_vars
  PROVE  faults' \in {faults, faults + 1}
<1>1. ASSUME NEW c \in Calls, \/ FindForReport(c) \/ StoreReport(c)
                             \/ DeliveryTimeout(c) \/ AnswerReport(c)
      PROVE  faults' \in {faults, faults + 1}
  <2>1. FindForReport(c) => faults' \in {faults, faults + 1}
    BY DEF FindForReport, DatabaseFails, table
  <2>2. StoreReport(c) => faults' \in {faults, faults + 1}
    BY DEF StoreReport, CallFails, DatabaseFails, table
  <2>3. DeliveryTimeout(c) \/ AnswerReport(c) => UNCHANGED faults
    BY DEF DeliveryTimeout, AnswerReport, table
  <2> QED BY <1>1, <2>1, <2>2, <2>3
<1>2. ASSUME \/ Heartbeat \/ FindStarted \/ MarkRunning \/ WriteLog
             \/ UNCHANGED vars \/ \E r \in Runs : ReadLog(r)
             \/ \E u \in Triggers, r \in Runs : TriggerNow(u, r)
             \/ \E r \in Runs, p \in Plans : CronFires(r, p)
             \/ \E u \in Triggers : TriggerUnknown(u)
             \/ \E u \in Triggers, p \in Plans : TriggerPlan(u, p)
             \/ \E r \in Runs : Execute(r) \/ ClearCurrentJob(r)
             \/ \E r \in Runs, c \in Calls : CallReportJob(r, c)
             \/ \E p \in Plans : DeletePlan(p)
      PROVE  UNCHANGED faults
  BY <1>2 DEF Heartbeat, FindStarted, MarkRunning, WriteLog, ReadLog, vars, table,
              TriggerNow, CronFires, TriggerUnknown, TriggerPlan, Execute,
              ClearCurrentJob, CallReportJob, DeletePlan
<1> QED BY <1>1, <1>2 DEF Next

\* Filled rows stay filled, and reports that share a row stay together.
LEMMA CountKept ==
  ASSUME Sound, [Next]_vars, NEW p \in Plans
  PROVE  /\ Filled(p) \subseteq Filled(p)' /\ Crowded \subseteq Crowded'
         /\ faults' \in {faults, faults + 1}
<1>1. \A j \in Rows : jobs[j].results \subseteq jobs'[j].results
  BY RowsKept
<1>2. \A t \in Triggers : asked[t] # None => asked'[t] = asked[t]
  BY AskedKept DEF Sound
<1>3. Filled(p) \subseteq Filled(p)'
  BY <1>1, <1>2, JobLifecycleAssumption DEF Filled, Asks, Rows
<1>4. Crowded \subseteq Crowded'
  BY <1>1 DEF Crowded, Rows
<1> QED BY <1>3, <1>4, FaultsSteps DEF Sound

\* A trigger is closed when the report of its job is settled.
LEMMA ClosedKept ==
  ASSUME Sound, Linked, [Next]_vars, NEW p \in Plans,
         NEW t \in Triggers, t \in Closed(p)', t \notin Closed(p),
         NEW r, r = runOf'[t]
  PROVE  /\ r \in Runs /\ run[r].out # "aborted" /\ run[r].plan = p
         /\ Settled(r)' /\ ~Settled(r)
<1>1. /\ asked'[t] = p /\ r # None /\ run'[r].out # "aborted" /\ Settled(r)'
      /\ r \in Runs
  <2>1. runOf' \in [Triggers -> Runs \cup {None}]
    BY NextTypes DEF Sound, Types, TypeOK
  <2> QED BY <2>1 DEF Closed, Asks
<1>2. ASSUME Settled(r) PROVE FALSE
  <2>1. Done(r)
    BY <1>1, <1>2, TypeFacts
       DEF Settled, Stored, Sound, RowsSound, RowSound, CallsSound, CallSound
  <2>2. runOf'[t] = runOf[t]
    <3>1. CASE UNCHANGED runOf
      BY <3>1
    <3>2. ASSUME NEW u \in Triggers, NEW q \in Plans, TriggerPlan(u, q)
          PROVE  UNCHANGED runOf
      BY <3>2 DEF TriggerPlan, agent
    <3>3. ASSUME NEW u \in Triggers, NEW s \in Runs, TriggerNow(u, s)
          PROVE  runOf'[t] = runOf[t]
      <4>1. /\ runOf' = [runOf EXCEPT ![u] = s] /\ run[s].pc = "idle"
            /\ runOf \in [Triggers -> Runs \cup {None}]
        BY <3>3 DEF TriggerNow, RunJob, Sound, Types, TypeOK
      <4>2. s # r
        BY <2>1, <4>1 DEF Done
      <4> QED BY <4>1, <4>2
    <3> QED BY <3>1, <3>2, <3>3, CommandSteps DEF Sound
  <2>3. asked[t] = p
    <3>1. asked[t] # None
      BY <1>1, <2>2 DEF Linked, TriggerLinked
    <3> QED BY <1>1, <3>1, AskedKept DEF Sound
  <2>4. run'[r].out = run[r].out
    BY <1>1, <2>1, RunsKept DEF Sound
  <2> QED BY <1>1, <1>2, <2>2, <2>3, <2>4 DEF Closed, Asks
<1>3. run'[r].plan = p
  BY <1>1, NextLinked DEF Linked, TriggerLinked
<1>4. run[r].out # "aborted"
  <2> SUFFICES ASSUME run[r].out = "aborted" PROVE FALSE
    OBVIOUS
  <2>1. Done(r)
    BY <1>1 DEF Linked
  <2> QED BY <1>1, <2>1, RunsKept DEF Sound
<1>5. Done(r)
  BY <1>1, <1>2, <1>4, SettledHow
<1>6. run'[r].plan = run[r].plan
  BY <1>1, <1>5, RunsKept DEF Sound
<1> QED BY <1>1, <1>2, <1>3, <1>4, <1>6

\* Each step that settles a report fills a row, crowds one, is counted as a
\* failure, or finds every row filled.
LEMMA CountStep ==
  ASSUME Sound, Linked, [Next]_vars, NEW p \in Plans, Counted(p)
  PROVE  Counted(p)'
<1> DEFINE A == Asks(p)'   C == Closed(p)  C1 == Closed(p)'  F == Filled(p)
           F1 == Filled(p)'  W == Crowded  W1 == Crowded'
<1> SUFFICES ASSUME p \in plans'
             PROVE  Cardinality(C1) <= Cardinality(F1) + faults' + Cardinality(W1)
  BY DEF Counted
<1>1. p \in plans
  BY PlansSteps DEF Sound, DeletePlan
<1>2. /\ Cardinality(C) <= Cardinality(F) + faults + Cardinality(W)
      /\ IsFiniteSet(C) /\ IsFiniteSet(F) /\ IsFiniteSet(W)
      /\ faults \in Nat
      /\ Cardinality(C) \in Nat /\ Cardinality(F) \in Nat /\ Cardinality(W) \in Nat
  BY <1>1, CountedFinite DEF Counted
<1>3. /\ IsFiniteSet(A) /\ IsFiniteSet(C1) /\ IsFiniteSet(F1) /\ IsFiniteSet(W1)
      /\ faults' \in Nat /\ Cardinality(A) \in Nat /\ Cardinality(C1) \in Nat
      /\ Cardinality(F1) \in Nat /\ Cardinality(W1) \in Nat
  <2>1. Sound' /\ Linked'
    BY NextSound, NextLinked
  <2>2. IsFiniteSet(A) /\ IsFiniteSet(Begun')
    BY <2>1 DEF Linked
  <2>3. F1 \subseteq A /\ C1 \subseteq A
    BY DEF Filled, Closed
  <2>4. W1 \subseteq Begun'
    BY <2>1 DEF Crowded, Begun, Sound, RowsSound, RowSound, Rows, Done
  <2>5. faults' \in Nat
    BY <2>1, JobLifecycleAssumption DEF Sound, Types, TypeOK
  <2> HIDE DEF A, C1, F1, W1
  <2> QED BY <2>2, <2>3, <2>4, <2>5, NotLarger
<1>4. F \subseteq F1 /\ W \subseteq W1 /\ faults' \in {faults, faults + 1}
  BY CountKept
<1>5. Cardinality(F) <= Cardinality(F1) /\ Cardinality(W) <= Cardinality(W1)
      /\ faults <= faults'
  <2> HIDE DEF F, F1, W, W1
  <2> QED BY <1>2, <1>3, <1>4, NotLarger
<1>6. CASE C1 \subseteq C
  <2>1. Cardinality(C1) <= Cardinality(C)
    <3> HIDE DEF C, C1
    <3> QED BY <1>2, <1>6, NotLarger
  <2> HIDE DEF C, C1, F, F1, W, W1
  <2> QED BY <1>2, <1>3, <1>5, <2>1
<1>7. ASSUME NEW t \in C1, t \notin C
      PROVE  Cardinality(C1) <= Cardinality(F1) + faults' + Cardinality(W1)
  <2>1. t \in Triggers
    BY <1>7 DEF Closed, Asks
  <2>2. PICK r : r = runOf'[t]
    OBVIOUS
  <2>3. /\ r \in Runs /\ run[r].out # "aborted" /\ run[r].plan = p
        /\ Settled(r)' /\ ~Settled(r)
    BY <1>7, <2>1, <2>2, ClosedKept
  <2>4. /\ OnlySettles(r) /\ Done(r)
        /\ \/ faults' = faults + 1
           \/ FindPlannedJob(p) = None
           \/ \E c \in Calls :
                /\ calls[c].pc = "complete" /\ calls[c].report = r
                /\ jobs'[calls[c].row].results = jobs[calls[c].row].results \cup {r}
    BY <2>3, SettledHow
  <2>5. C1 \subseteq C \cup {t}
    <3> SUFFICES ASSUME NEW u \in C1, u \notin C PROVE u = t
      OBVIOUS
    <3>1. u \in Triggers
      BY DEF Closed, Asks
    <3>2. PICK s : s = runOf'[u]
      OBVIOUS
    <3>3. s \in Runs /\ Settled(s)' /\ ~Settled(s)
      BY <3>1, <3>2, ClosedKept
    <3>4. s = r
      BY <2>4, <3>3 DEF OnlySettles
    <3>5. TriggerLinked(t)' /\ r # None
      BY <2>1, <2>3, NextLinked, JobLifecycleAssumption DEF Linked, Rows
    <3> QED BY <2>1, <2>2, <3>1, <3>2, <3>4, <3>5 DEF TriggerLinked
  <2>6. Cardinality(C1) <= Cardinality(C) + 1
    <3> HIDE DEF C, C1
    <3> QED BY <1>2, <2>5, OneMore
  <2>7. CASE faults' = faults + 1
    <3> HIDE DEF C, C1, F, F1, W, W1
    <3> QED BY <1>2, <1>3, <1>5, <2>6, <2>7
  <2>8. CASE FindPlannedJob(p) = None /\ UNCHANGED asked
    <3>1. Asks(p) \subseteq F /\ C1 \subseteq A /\ A = Asks(p)
      BY <1>1, <2>8, NothingFound DEF Closed, Asks
    <3>2. C1 \subseteq F1
      BY <1>4, <3>1
    <3>3. Cardinality(C1) <= Cardinality(F1)
      <4> HIDE DEF C1, F1
      <4> QED BY <1>3, <3>2, NotLarger
    <3> HIDE DEF C, C1, F, F1, W, W1
    <3> QED BY <1>3, <3>3
  <2>9. ASSUME NEW c \in Calls, calls[c].pc = "complete", calls[c].report = r,
               jobs'[calls[c].row].results = jobs[calls[c].row].results \cup {r}
        PROVE  Cardinality(C1) <= Cardinality(F1) + faults' + Cardinality(W1)
    <3> DEFINE k == calls[c].row
    <3>1. k \in Triggers /\ k \in Rows /\ asked[k] = p /\ asked'[k] = p
      <4>1. k \in Triggers /\ asked[k] = p
        BY <2>3, <2>9, TypeFacts DEF Sound, Linked, CallLinked
      <4>2. p # None
        BY JobLifecycleAssumption
      <4> QED BY <4>1, <4>2, AskedKept DEF Sound, Rows
    <3>2. CASE jobs[k].results = {}
      <4>1. k \in F1 /\ F \subseteq F1 \ {k}
        BY <1>4, <2>9, <3>1, <3>2 DEF Filled, Asks
      <4>2. Cardinality(F) + 1 <= Cardinality(F1)
        <5> HIDE DEF F, F1, k
        <5> QED BY <1>3, <4>1, OneLess
      <4> HIDE DEF C, C1, F, F1, W, W1
      <4> QED BY <1>2, <1>3, <1>5, <2>6, <4>2
    <3>3. CASE jobs[k].results # {}
      <4>1. PICK s \in jobs[k].results : TRUE
        BY <3>3
      <4>2. s \in Runs /\ s # r /\ ~Stored(r)
        BY <2>3, <3>1, <4>1, TypeFacts DEF Settled, Stored, Sound, JobRows
      <4>3. r \in W1
        BY <2>3, <2>9, <3>1, <4>1, <4>2 DEF Crowded
      <4>4. r \notin W
        BY <4>2 DEF Crowded, Stored, Rows
      <4>5. W \subseteq W1 \ {r}
        BY <1>4, <4>4
      <4>6. Cardinality(W) + 1 <= Cardinality(W1)
        <5> HIDE DEF W, W1
        <5> QED BY <1>3, <4>3, <4>5, OneLess
      <4> HIDE DEF C, C1, F, F1, W, W1
      <4> QED BY <1>2, <1>3, <1>5, <2>6, <4>6
    <3> QED BY <3>2, <3>3
  <2>10. UNCHANGED asked
    <3> SUFFICES ASSUME NEW u \in Triggers, NEW q \in Plans, TriggerPlan(u, q) PROVE FALSE
      BY AskedSteps DEF Sound
    <3>1. asked' # asked
      BY JobLifecycleAssumption DEF TriggerPlan, Sound, Types, TypeOK
    <3>2. ASSUME NEW c \in Calls, FindForReport(c) \/ StoreReport(c) PROVE UNCHANGED asked
      <4>1. FindForReport(c) => UNCHANGED asked
        BY DEF FindForReport
      <4>2. StoreReport(c) => UNCHANGED asked
        BY DEF StoreReport
      <4> QED BY <3>2, <4>1, <4>2
    <3> QED BY <2>3, <3>1, <3>2, SettledByOthers
  <2> QED BY <2>4, <2>7, <2>8, <2>9, <2>10
<1> QED BY <1>6, <1>7

\* What a part of a finite set leaves of it.
LEMMA SizeOfRest ==
  ASSUME NEW S, NEW T, IsFiniteSet(S), T \subseteq S
  PROVE  Cardinality(S \ T) = Cardinality(S) - Cardinality(T)
<1>1. S \cap T = T
  OBVIOUS
<1> QED BY <1>1, FS_Difference

\* No row is left open without a reason, whichever row of its plan a report
\* completes, for every number of triggers, runs, calls and failures.
THEOREM OpenRowsExplained == Spec => []LeftOpenExplained
<1> DEFINE Inv == Sound /\ Linked /\ \A p \in Plans : Counted(p)
<1>1. Init => Inv
  <2> SUFFICES ASSUME Init, NEW p \in Plans PROVE Counted(p)
    BY InitSound, InitLinked
  <2>1. Closed(p) = {}
    BY DEF Init, Closed, Asks
  <2>2. Cardinality(Closed(p)) = 0
    BY <2>1, FS_EmptySet
  <2>3. /\ Cardinality(Filled(p)) \in Nat /\ faults \in Nat /\ Cardinality(Crowded) \in Nat
    BY InitSound, InitLinked, CountedFinite
  <2> QED BY <2>2, <2>3 DEF Counted
<1>2. Inv /\ [Next]_vars => Inv'
  BY NextSound, NextLinked, CountStep
<1>3. Inv => LeftOpenExplained
  <2> SUFFICES ASSUME Inv, NEW p \in Plans
               PROVE  Cardinality(LeftOpen(p))
                        <= Cardinality(Unreported(p)) + faults + Cardinality(Crowded)
    BY DEF LeftOpenExplained
  <2>1. /\ IsFiniteSet(Asks(p)) /\ IsFiniteSet(Filled(p)) /\ IsFiniteSet(Closed(p))
        /\ Cardinality(Asks(p)) \in Nat /\ Cardinality(Filled(p)) \in Nat
        /\ Cardinality(Closed(p)) \in Nat /\ Cardinality(Crowded) \in Nat
        /\ faults \in Nat
    BY CountedFinite
  <2>2. Asks(p) \ Closed(p) \subseteq Unreported(p) /\ Unreported(p) \subseteq Asks(p)
    <3>1. \A r \in acked : r # None /\ Settled(r)
      BY JobLifecycleAssumption
         DEF Sound, Types, TypeOK, OutboxSound, Settled, Rows
    <3>2. \A t \in Asks(p) \ Closed(p) : ~Reported(t)
      BY <3>1 DEF Reported, Closed
    <3> QED BY <3>2 DEF Unreported, Asks
  <2>3. IsFiniteSet(Unreported(p)) /\ Cardinality(Unreported(p)) \in Nat
    BY <2>1, <2>2, NotLarger
  <2>4. CASE p \notin plans
    <3>1. LeftOpen(p) = {}
      BY <2>4, JobLifecycleAssumption DEF LeftOpen, Linked, PlannedLinked
    <3>2. Cardinality(LeftOpen(p)) = 0
      BY <3>1, FS_EmptySet
    <3> QED BY <2>1, <2>3, <3>2
  <2>5. CASE p \in plans
    <3>1. LeftOpen(p) \subseteq Asks(p) \ Filled(p)
      BY JobLifecycleAssumption DEF LeftOpen, Asks, Filled, Linked, PlannedLinked
    <3>2. /\ Cardinality(LeftOpen(p)) <= Cardinality(Asks(p) \ Filled(p))
          /\ Cardinality(LeftOpen(p)) \in Nat
      BY <2>1, <3>1, FS_Difference, NotLarger
    <3>3. Cardinality(Asks(p) \ Filled(p)) = Cardinality(Asks(p)) - Cardinality(Filled(p))
      <4>1. Filled(p) \subseteq Asks(p)
        BY DEF Filled
      <4> QED BY <2>1, <4>1, SizeOfRest
    <3>4. Cardinality(Asks(p) \ Closed(p)) = Cardinality(Asks(p)) - Cardinality(Closed(p))
      <4>1. Closed(p) \subseteq Asks(p)
        BY DEF Closed
      <4> QED BY <2>1, <4>1, SizeOfRest
    <3>5. Cardinality(Asks(p) \ Closed(p)) <= Cardinality(Unreported(p))
      BY <2>2, <2>3, NotLarger
    <3>6. Cardinality(Closed(p)) <= Cardinality(Filled(p)) + faults + Cardinality(Crowded)
      BY <2>5 DEF Counted
    <3>7. /\ Cardinality(Asks(p) \ Filled(p))
                <= Cardinality(Asks(p) \ Closed(p)) + faults + Cardinality(Crowded)
          /\ Cardinality(Asks(p) \ Filled(p)) \in Int
          /\ Cardinality(Asks(p) \ Closed(p)) \in Int
      BY <2>1, <3>3, <3>4, <3>6
    <3> QED BY <2>1, <2>3, <3>2, <3>5, <3>7
  <2> QED BY <2>4, <2>5
<1> QED BY <1>1, <1>2, <1>3, PTL DEF Spec
=============================================================================
