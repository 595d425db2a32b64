------------------------- MODULE AgentManagerProofs -------------------------
(***************************************************************************)
(* The invariants of AgentManager, for any number of connections, commands *)
(* and pushes and any buffer size.                                         *)
(***************************************************************************)
EXTENDS AgentManager, TLAPS

\* The connections that have been in the registry.
Registered == {c \in Conns : conn[c] \in {"open", "leaving", "done"}}

\* The types the argument needs.
RegistryTypes ==
  /\ entry \in Conns \cup {None}
  /\ conn \in [Conns -> {"new", "accepted", "open", "leaving", "done"}]
  /\ closed \in SUBSET Conns
  /\ pending \in [Conns -> SUBSET Cmds]
  /\ resp \in [Cmds -> Responses]
  /\ caller \in [Cmds -> Callers]

\* A channel is closed only after its connection registered it, and never
\* while its entry is in the map.
EntryInv ==
  /\ closed \subseteq Registered
  /\ entry # None => entry \in Registered
  /\ entry \notin closed

\* A waiting caller has something to receive, or is in the PendingCmds of a
\* connection whose channel is open.
Attended(k) ==
  caller[k].pc = "wait" =>
    \/ resp[k].val \/ resp[k].closed
    \/ /\ caller[k].obj \in Conns \ closed
       /\ k \in pending[caller[k].obj]

Inv == RegistryTypes /\ EntryInv /\ \A k \in Cmds : Attended(k)

\* The initial state: nothing is registered and nobody waits.
LEMMA InitInv == Init => Inv
<1> SUFFICES ASSUME Init PROVE Inv
  OBVIOUS
<1>1. RegistryTypes
  BY DEF Init, RegistryTypes, Responses, Callers, Outcomes
<1>2. EntryInv
  BY AgentManagerAssumption DEF Init, EntryInv
<1>3. \A k \in Cmds : Attended(k)
  BY DEF Init, Attended
<1> QED
  BY <1>1, <1>2, <1>3 DEF Inv

\* Steps that leave the registry and the callers alone, and move a connection
\* at most forward, keep the invariant.
LEMMA QuietInv ==
  ASSUME Inv,
         UNCHANGED <<entry, pending, resp, closed, caller>>,
         conn' \in [Conns -> {"new", "accepted", "open", "leaving", "done"}],
         Registered \subseteq Registered'
  PROVE  Inv'
  BY DEF Inv, RegistryTypes, EntryInv, Attended

\* CloseEntry, in Unregister and in Close: the entry's callers are all woken,
\* and the entry leaves the map with its channel.
LEMMA CloseEntryInv ==
  ASSUME Inv, CloseEntry, UNCHANGED caller,
         conn' \in [Conns -> {"new", "accepted", "open", "leaving", "done"}],
         Registered \subseteq Registered'
  PROVE  Inv'
<1>1. CASE entry = None
  <2>1. UNCHANGED registry
    BY <1>1 DEF CloseEntry
  <2> QED
    BY <2>1, QuietInv DEF registry
<1>2. CASE entry # None
  <2>1. /\ resp' = [k \in Cmds |-> IF k \in pending[entry]
                                   THEN [resp[k] EXCEPT !.closed = TRUE]
                                   ELSE resp[k]]
        /\ pending' = [pending EXCEPT ![entry] = {}]
        /\ closed' = closed \cup {entry}
        /\ entry' = None
    BY <1>2 DEF CloseEntry
  <2>2. RegistryTypes'
    <3>1. resp' \in [Cmds -> Responses]
      BY <2>1 DEF Inv, RegistryTypes, Responses
    <3> QED
      BY <1>2, <2>1, <3>1 DEF Inv, RegistryTypes
  <2>3. EntryInv'
    BY <1>2, <2>1, AgentManagerAssumption DEF Inv, RegistryTypes, EntryInv
  <2>4. ASSUME NEW k \in Cmds PROVE Attended(k)'
    <3>1. CASE k \in pending[entry]
      <4>1. resp'[k].closed
        BY <2>1, <3>1 DEF Inv, RegistryTypes, Responses
      <4> QED
        BY <4>1 DEF Attended
    <3>2. CASE k \notin pending[entry]
      <4>1. resp'[k] = resp[k]
        BY <2>1, <3>2
      <4>2. caller[k].obj # entry => pending'[caller[k].obj] = pending[caller[k].obj]
        BY <1>2, <2>1 DEF Inv, RegistryTypes
      <4> QED
        BY <2>1, <3>2, <4>1, <4>2 DEF Inv, Attended
    <3> QED
      BY <3>1, <3>2
  <2> QED
    BY <2>2, <2>3, <2>4 DEF Inv
<1> QED
  BY <1>1, <1>2

\* The handler of a connection: Register overwrites the entry, Unregister
\* closes whatever entry there is.
LEMMA HandlerInv ==
  ASSUME Inv, NEW c \in Conns, Handler(c)
  PROVE  Inv'
<1>1. CASE Register(c)
  <2>1. /\ entry' = c
        /\ conn[c] = "accepted"
        /\ conn' = [conn EXCEPT ![c] = "open"]
        /\ UNCHANGED <<pending, resp, closed, caller>>
    BY <1>1 DEF Register
  <2>2. RegistryTypes'
    BY <2>1 DEF Inv, RegistryTypes
  <2>3. EntryInv'
    BY <2>1 DEF Inv, RegistryTypes, EntryInv, Registered
  <2>4. \A k \in Cmds : Attended(k)'
    BY <2>1 DEF Inv, Attended
  <2> QED
    BY <2>2, <2>3, <2>4 DEF Inv
<1>2. CASE Leave(c)
  BY <1>2, QuietInv DEF Leave, registry, Inv, RegistryTypes, Registered
<1>3. CASE Unregister(c)
  <2>1. /\ CloseEntry /\ UNCHANGED caller
        /\ conn' = [conn EXCEPT ![c] = "done"]
    BY <1>3 DEF Unregister
  <2>2. /\ conn' \in [Conns -> {"new", "accepted", "open", "leaving", "done"}]
        /\ Registered \subseteq Registered'
    BY <2>1 DEF Inv, RegistryTypes, Registered
  <2> QED
    BY <2>1, <2>2, CloseEntryInv
<1> QED
  BY <1>1, <1>2, <1>3 DEF Handler

\* The streams, the network, pushes and the stop of the gRPC server.
LEMMA StreamInv ==
  ASSUME Inv,
         \/ \E c \in Conns : \/ Accept(c) \/ Break(c) \/ Sender(c)
                             \/ ReceiverFails(c) \/ FindPending(c)
                             \/ \E k \in Cmds : ReceiveResult(c, k)
         \/ \E p \in Pushes : Send(p)
         \/ StopServer
         \/ UNCHANGED vars
  PROVE  Inv'
<1>1. UNCHANGED <<entry, pending, resp, closed, caller>>
  BY DEF Accept, Break, Sender, SenderForward, SenderDone, ReceiverFails,
         FindPending, ReceiveResult, Send, StopServer, vars, registry
<1>2. \/ UNCHANGED conn
      \/ \E c \in Conns : conn' = [conn EXCEPT ![c] = "accepted"]
                            /\ conn[c] = "new"
  BY DEF Accept, Break, Sender, SenderForward, SenderDone, ReceiverFails,
         FindPending, ReceiveResult, Send, StopServer, vars, streams
<1>3. /\ conn' \in [Conns -> {"new", "accepted", "open", "leaving", "done"}]
      /\ Registered \subseteq Registered'
  BY <1>2 DEF Inv, RegistryTypes, Registered
<1> QED
  BY <1>1, <1>3, QuietInv

\* HandleCommandResult's send fills an open response channel or panics.
LEMMA DeliverInv ==
  ASSUME Inv, NEW c \in Conns, Deliver(c)
  PROVE  Inv'
<1>1. /\ UNCHANGED <<entry, pending, closed, caller, conn>>
      /\ \/ UNCHANGED resp
         \/ resp' = [resp EXCEPT ![receiver[c].cmd].val = TRUE]
  BY DEF Deliver
<1>2. resp' \in [Cmds -> Responses]
  <2>1. \A r \in Responses : [r EXCEPT !.val = TRUE] \in Responses
    BY DEF Responses
  <2>2. resp \in [Cmds -> Responses]
    BY DEF Inv, RegistryTypes
  <2> QED
    BY <1>1, <2>1, <2>2
<1>3. \A k \in Cmds : \/ resp'[k] = resp[k]
                      \/ resp'[k].val
  BY <1>1 DEF Inv, RegistryTypes, Responses
<1>4. RegistryTypes'
  BY <1>1, <1>2 DEF Inv, RegistryTypes
<1>5. EntryInv'
  BY <1>1 DEF Inv, EntryInv, Registered
<1>6. \A k \in Cmds : Attended(k)'
  BY <1>1, <1>3 DEF Inv, Attended
<1> QED
  BY <1>4, <1>5, <1>6 DEF Inv

\* SendCommand registers the caller and sends under one read lock: the entry it
\* joins is open.
LEMMA SendCommandInv ==
  ASSUME Inv, NEW k \in Cmds, SendCommand(k)
  PROVE  Inv'
<1>1. UNCHANGED <<entry, resp, closed, conn>>
  BY DEF SendCommand, streams
<1>2. CASE entry = None
  <2>1. /\ UNCHANGED pending
        /\ caller' = [caller EXCEPT ![k] = [pc |-> "returned", obj |-> None,
                                            out |-> "offline"]]
    BY <1>2 DEF SendCommand
  <2>2. caller' \in [Cmds -> Callers]
    BY <2>1 DEF Inv, RegistryTypes, Callers, Outcomes
  <2>3. \A j \in Cmds : Attended(j)'
    BY <1>1, <2>1 DEF Inv, RegistryTypes, Attended
  <2> QED
    BY <1>1, <2>1, <2>2, <2>3 DEF Inv, RegistryTypes, EntryInv, Registered
<1>3. CASE entry # None
  <2>1. PICK pc \in {"wait", "full"}, out \in Outcomes :
          /\ pending' = [pending EXCEPT ![entry] = @ \cup {k}]
          /\ caller' = [caller EXCEPT ![k] = [pc |-> pc, obj |-> entry,
                                              out |-> out]]
    BY <1>3 DEF SendCommand, Outcomes
  <2>2. caller' \in [Cmds -> Callers]
    BY <2>1 DEF Inv, RegistryTypes, Callers
  <2>3. pending' \in [Conns -> SUBSET Cmds]
    BY <2>1 DEF Inv, RegistryTypes
  <2>4. ASSUME NEW j \in Cmds PROVE Attended(j)'
    <3>1. CASE j = k
      <4>1. caller'[j].obj = entry /\ entry \in Conns
        BY <1>3, <2>1, <3>1 DEF Inv, RegistryTypes
      <4>2. k \in pending'[entry]
        BY <1>3, <2>1 DEF Inv, RegistryTypes
      <4> QED
        BY <1>1, <3>1, <4>1, <4>2 DEF Inv, EntryInv, Attended
    <3>2. CASE j # k
      <4>1. caller'[j] = caller[j]
        BY <2>1, <3>2 DEF Inv, RegistryTypes
      <4>2. caller[j].obj \in Conns /\ j \in pending[caller[j].obj]
              => j \in pending'[caller[j].obj]
        BY <2>1 DEF Inv, RegistryTypes
      <4> QED
        BY <1>1, <4>1, <4>2 DEF Inv, Attended
    <3> QED
      BY <3>1, <3>2
  <2> QED
    BY <1>1, <2>2, <2>3, <2>4 DEF Inv, RegistryTypes, EntryInv, Registered
<1> QED
  BY <1>2, <1>3

\* A caller that stops waiting touches nobody's channel but its own.
LEMMA CallerInv ==
  ASSUME Inv, NEW k \in Cmds, Caller(k) \/ TimeoutCommand(k)
  PROVE  Inv'
<1>1. UNCHANGED <<entry, closed, conn>>
  BY DEF Caller, ReceiveResponse, ForgetPending, TimeoutCommand, streams,
         registry
<1>2. PICK pc \in {"cleanup", "returned"}, out \in Outcomes :
        caller' = [caller EXCEPT ![k] = [@ EXCEPT !.pc = pc, !.out = out]]
  <2>1. caller[k] \in Callers /\ caller[k].out \in Outcomes
    BY DEF Inv, RegistryTypes, Callers
  <2>2. ASSUME ForgetPending(k)
        PROVE  caller' = [caller EXCEPT ![k] =
                            [@ EXCEPT !.pc = "returned", !.out = caller[k].out]]
    BY <2>1, <2>2 DEF ForgetPending, Callers
  <2> QED
    BY <2>1, <2>2 DEF Caller, ReceiveResponse, TimeoutCommand, Outcomes
<1>3. caller' \in [Cmds -> Callers] /\ caller'[k].pc # "wait"
  <2>1. caller \in [Cmds -> Callers]
    BY DEF Inv, RegistryTypes
  <2>2. caller[k] \in Callers
    BY <2>1
  <2>3. /\ [caller[k] EXCEPT !.pc = pc, !.out = out] \in Callers
        /\ [caller[k] EXCEPT !.pc = pc, !.out = out].pc = pc
    BY <2>2 DEF Callers
  <2> QED
    BY <1>2, <2>1, <2>3
<1>4. resp' \in [Cmds -> Responses]
  <2>1. \/ UNCHANGED resp
        \/ resp' = [resp EXCEPT ![k].val = FALSE]
    BY DEF Caller, ReceiveResponse, ForgetPending, TimeoutCommand, registry
  <2>2. \A r \in Responses : [r EXCEPT !.val = FALSE] \in Responses
    BY DEF Responses
  <2>3. resp \in [Cmds -> Responses]
    BY DEF Inv, RegistryTypes
  <2> QED
    BY <2>1, <2>2, <2>3
<1>5. pending' \in [Conns -> SUBSET Cmds]
  BY DEF Caller, ReceiveResponse, ForgetPending, TimeoutCommand, Inv,
         RegistryTypes, registry
<1>6. ASSUME NEW j \in Cmds, j # k
      PROVE  /\ caller'[j] = caller[j]
             /\ resp'[j] = resp[j]
             /\ caller[j].obj \in Conns /\ j \in pending[caller[j].obj]
                  => j \in pending'[caller[j].obj]
  <2>1. caller'[j] = caller[j]
    BY <1>2, <1>6 DEF Inv, RegistryTypes
  <2>2. resp'[j] = resp[j]
    BY <1>6 DEF Caller, ReceiveResponse, ForgetPending, TimeoutCommand, Inv,
                RegistryTypes, registry
  <2>3. UNCHANGED pending
          \/ pending' = [pending EXCEPT ![caller[k].obj] = @ \ {k}]
    BY DEF Caller, ReceiveResponse, ForgetPending, TimeoutCommand, registry
  <2>4. caller[j].obj \in Conns /\ j \in pending[caller[j].obj]
          => j \in pending'[caller[j].obj]
    BY <1>6, <2>3 DEF Inv, RegistryTypes
  <2> QED
    BY <2>1, <2>2, <2>4
<1>7. \A j \in Cmds : Attended(j)'
  BY <1>1, <1>3, <1>6 DEF Inv, Attended
<1> QED
  BY <1>1, <1>4, <1>5, <1>7, <1>3
     DEF Inv, RegistryTypes, EntryInv, Registered

\* One step per group of actions.
LEMMA NextInv == Inv /\ [Next]_vars => Inv'
<1> SUFFICES ASSUME Inv, [Next]_vars PROVE Inv'
  OBVIOUS
<1>1. ASSUME CloseManager PROVE Inv'
  <2>1. CloseEntry /\ UNCHANGED <<caller, conn>>
    BY <1>1 DEF CloseManager, streams
  <2>2. Registered' = Registered
    BY <2>1 DEF Registered
  <2> QED
    BY <2>1, <2>2, CloseEntryInv DEF Inv, RegistryTypes
<1> QED
  BY <1>1, HandlerInv, StreamInv, DeliverInv, SendCommandInv, CallerInv
     DEF Next, Receiver

\* Send, SendCommand and Unregister never meet a closed send channel, in any
\* interleaving of old and new connections of the agent.
THEOREM EntryStaysOpen == Spec => []EntryOpen
<1>1. Inv => EntryOpen
  BY DEF Inv, EntryInv, EntryOpen
<1> QED
  BY InitInv, NextInv, <1>1, PTL DEF Spec

\* However an entry came to be closed, each caller waiting on it has a result
\* or a closed channel to receive from.
THEOREM CallersWoken == Spec => []ClosedWakesCallers
<1>1. Inv => ClosedWakesCallers
  BY DEF Inv, Attended, ClosedWakesCallers
<1> QED
  BY InitInv, NextInv, <1>1, PTL DEF Spec

-----------------------------------------------------------------------------
\* Where a command is.

\* The types.
Types ==
  /\ RegistryTypes
  /\ live \in SUBSET Conns
  /\ sendCh \in [Conns -> Seq(Cmds \cup Pushes)]
  /\ sender \in [Conns -> {"off", "run", "stopped"}]
  /\ receiver \in [Conns -> Receivers]
  /\ errs \in [Conns -> Nat]
  /\ atAgent \in [Conns -> SUBSET Cmds]
  /\ unpushed \in SUBSET Pushes
  /\ server \in {"up", "stopping", "closed"}
  /\ panicked \in BOOLEAN

In(x, q) == \E i \in DOMAIN q : q[i] = x

\* The agent has had the command, and its result was read.
Answered(k) ==
  /\ caller[k].obj # None
  /\ k \notin atAgent[caller[k].obj] /\ ~In(k, sendCh[caller[k].obj])

\* A command travels once, on the connection its caller chose: in the send
\* channel, then at the agent, then with the receive goroutine.  No call is
\* registered anywhere but there.
Journey(k) ==
  /\ caller[k].pc = "idle" => caller[k].obj = None
  /\ \A c \in Conns : k \in pending[c] =>
       caller[k].pc \in {"wait", "full", "cleanup"} /\ caller[k].obj = c
  /\ \A c \in Conns : k \in atAgent[c] \/ In(k, sendCh[c]) => caller[k].obj = c
  /\ \A c \in Conns : k \in atAgent[c] => ~In(k, sendCh[c])
  /\ \A c \in Conns : \A i, j \in DOMAIN sendCh[c] :
       sendCh[c][i] = k /\ sendCh[c][j] = k => i = j
  /\ \A c \in Conns : receiver[c].cmd = k => Answered(k)
  /\ resp[k].val \/ caller[k].out = "ok" => Answered(k)

Travels == Inv /\ Types /\ \A k \in Cmds : Journey(k)

\* A message goes behind those in the channel.
LEMMA AppendFacts ==
  ASSUME NEW S, NEW q \in Seq(S), NEW x \in S
  PROVE  /\ Append(q, x) \in Seq(S)
         /\ \A y : In(y, Append(q, x)) <=> In(y, q) \/ y = x
         /\ \A y : (\A i, j \in DOMAIN q : q[i] = y /\ q[j] = y => i = j)
                     /\ (y = x => ~In(y, q))
                   => \A i, j \in DOMAIN Append(q, x) :
                        Append(q, x)[i] = y /\ Append(q, x)[j] = y => i = j
<1> DEFINE r == Append(q, x)
<1>1. /\ r \in Seq(S) /\ Len(q) \in Nat /\ DOMAIN q = 1..Len(q)
      /\ DOMAIN r = 1..(Len(q) + 1) /\ r[Len(q) + 1] = x
      /\ \A i \in 1..Len(q) : r[i] = q[i]
  OBVIOUS
<1>2. \A i \in DOMAIN r : i \in DOMAIN q \/ i = Len(q) + 1
  BY <1>1
<1> HIDE DEF r
<1>3. \A y : In(y, r) <=> In(y, q) \/ y = x
  BY <1>1, <1>2 DEF In
<1>4. ASSUME NEW y, \A i, j \in DOMAIN q : q[i] = y /\ q[j] = y => i = j,
             y = x => ~In(y, q), NEW i \in DOMAIN r, NEW j \in DOMAIN r,
             r[i] = y, r[j] = y
      PROVE  i = j
  BY <1>1, <1>2, <1>4 DEF In
<1> QED BY <1>1, <1>3, <1>4 DEF r

\* The first message is taken; the others stay, once each.
LEMMA TailFacts ==
  ASSUME NEW S, NEW q \in Seq(S), q # <<>>
  PROVE  /\ Tail(q) \in Seq(S) /\ Head(q) \in S /\ In(Head(q), q)
         /\ \A y : In(y, Tail(q)) => In(y, q)
         /\ \A y : (\A i, j \in DOMAIN q : q[i] = y /\ q[j] = y => i = j)
                   => /\ \A i, j \in DOMAIN Tail(q) :
                           Tail(q)[i] = y /\ Tail(q)[j] = y => i = j
                      /\ y = Head(q) => ~In(y, Tail(q))
<1> DEFINE r == Tail(q)
<1>1. /\ r \in Seq(S) /\ Len(q) \in Nat \ {0} /\ DOMAIN q = 1..Len(q)
      /\ DOMAIN r = 1..(Len(q) - 1) /\ Head(q) = q[1] /\ Head(q) \in S
      /\ \A i \in 1..(Len(q) - 1) : r[i] = q[i + 1]
  OBVIOUS
<1>2. 1 \in DOMAIN q /\ \A i \in DOMAIN r : i + 1 \in DOMAIN q /\ i + 1 # 1
  BY <1>1
<1> HIDE DEF r
<1>3. \A y : In(y, r) => In(y, q)
  BY <1>1, <1>2 DEF In
<1>4. ASSUME NEW y, \A i, j \in DOMAIN q : q[i] = y /\ q[j] = y => i = j
      PROVE  /\ \A i, j \in DOMAIN r : r[i] = y /\ r[j] = y => i = j
             /\ y = Head(q) => ~In(y, r)
  <2>1. ASSUME NEW i \in DOMAIN r, NEW j \in DOMAIN r, r[i] = y, r[j] = y
        PROVE  i = j
    <3>1. i + 1 = j + 1
      BY <1>1, <1>2, <1>4, <2>1
    <3>2. i \in Nat /\ j \in Nat
      BY <1>1
    <3> QED BY <3>1, <3>2
  <2>2. ASSUME y = Head(q), NEW i \in DOMAIN r, r[i] = y
        PROVE  FALSE
    <3>1. q[1] = y /\ q[i + 1] = y
      BY <1>1, <2>2
    <3> QED BY <1>2, <1>4, <3>1
  <2> QED BY <2>1, <2>2 DEF In
<1>5. In(Head(q), q)
  BY <1>1, <1>2 DEF In
<1> QED BY <1>1, <1>3, <1>4, <1>5 DEF r

\* A step that takes a command at most further on its way.
LEMMA Onwards ==
  ASSUME Types, NEW k \in Cmds, Journey(k),
         caller'[k].obj = caller[k].obj,
         caller'[k].pc = "idle" => caller[k].pc = "idle",
         \A c \in Conns : k \in pending'[c] =>
           k \in pending[c] /\ caller'[k].pc \in {"wait", "full", "cleanup"},
         \A c \in Conns : k \in atAgent'[c] \/ In(k, sendCh'[c])
                            => k \in atAgent[c] \/ In(k, sendCh[c]),
         \A c \in Conns : k \in atAgent'[c] => ~In(k, sendCh'[c]),
         \A c \in Conns : \A i, j \in DOMAIN sendCh'[c] :
           sendCh'[c][i] = k /\ sendCh'[c][j] = k => i = j,
         \A c \in Conns : receiver'[c].cmd = k => receiver[c].cmd = k \/ Answered(k)',
         resp'[k].val \/ caller'[k].out = "ok" => Answered(k)
  PROVE  Journey(k)'
<1>1. Answered(k) => Answered(k)'
  <2>1. caller[k].obj # None => caller[k].obj \in Conns
    BY DEF Types, RegistryTypes, Callers
  <2> QED BY <2>1 DEF Answered
<1>2. \A c \in Conns : receiver[c].cmd = k => Answered(k)
  BY DEF Journey
<1> QED BY <1>1, <1>2 DEF Journey, In

\* A step that moves no command.
LEMMA StayPut ==
  ASSUME Types, NEW k \in Cmds, Journey(k),
         caller' = caller, sendCh' = sendCh, atAgent' = atAgent,
         \A c \in Conns : pending'[c] \subseteq pending[c],
         \A c \in Conns : receiver'[c].cmd = k => receiver[c].cmd = k,
         resp'[k].val => resp[k].val
  PROVE  Journey(k)'
<1>1. \A c \in Conns : k \in pending'[c] =>
        k \in pending[c] /\ caller[k].pc \in {"wait", "full", "cleanup"}
  BY DEF Journey
<1>2. resp'[k].val \/ caller'[k].out = "ok" => Answered(k)
  BY DEF Journey
<1>3. /\ \A c \in Conns : k \in atAgent'[c] => ~In(k, sendCh'[c])
      /\ \A c \in Conns : \A i, j \in DOMAIN sendCh'[c] :
           sendCh'[c][i] = k /\ sendCh'[c][j] = k => i = j
  BY DEF Journey
<1> QED BY <1>1, <1>2, <1>3, Onwards

\* None is no command.
LEMMA NoneApart == \A k \in Cmds : k # None
BY AgentManagerAssumption

\* The steps of a connection, of the network and of shutdown that move no
\* command.
LEMMA StillSteps ==
  ASSUME Travels,
         \/ \E c \in Conns : \/ Accept(c) \/ Break(c) \/ SenderDone(c)
                             \/ ReceiverFails(c) \/ FindPending(c) \/ Handler(c)
         \/ StopServer \/ CloseManager \/ UNCHANGED vars
  PROVE  /\ RegistryTypes' => Types'
         /\ \A k \in Cmds : Journey(k)'
<1>1. /\ caller' = caller /\ sendCh' = sendCh /\ atAgent' = atAgent
      /\ unpushed' = unpushed
  BY DEF Accept, Break, SenderDone, ReceiverFails, FindPending, Handler, Register, Leave,
         Unregister, StopServer, CloseManager, vars, streams
<1>2. /\ \A c \in Conns : pending'[c] \subseteq pending[c]
      /\ \A k \in Cmds : resp'[k].val => resp[k].val
  <2>1. CASE CloseEntry
    <3>1. CASE UNCHANGED registry
      BY <3>1 DEF registry
    <3>2. CASE /\ resp' = [k \in Cmds |-> IF k \in pending[entry]
                                          THEN [resp[k] EXCEPT !.closed = TRUE]
                                          ELSE resp[k]]
               /\ pending' = [pending EXCEPT ![entry] = {}]
      <4>1. \A c \in Conns : pending'[c] \subseteq pending[c]
        BY <3>2 DEF Travels, Types, RegistryTypes
      <4>2. ASSUME NEW k \in Cmds PROVE resp'[k].val = resp[k].val
        <5>1. resp[k] \in Responses
          BY DEF Travels, Types, RegistryTypes
        <5>2. [resp[k] EXCEPT !.closed = TRUE].val = resp[k].val
          BY <5>1 DEF Responses
        <5> QED BY <3>2, <5>2
      <4> QED BY <4>1, <4>2
    <3> QED BY <2>1, <3>1, <3>2 DEF CloseEntry
  <2>2. CASE ~CloseEntry
    <3>1. pending' = pending /\ resp' = resp
      BY <2>2 DEF Accept, Break, SenderDone, ReceiverFails, FindPending, Handler,
         Register, Leave, Unregister, StopServer, CloseManager, vars, registry
    <3> QED BY <3>1
  <2> QED BY <2>1, <2>2
<1>3. /\ receiver' \in [Conns -> Receivers]
      /\ \A c \in Conns : receiver'[c].cmd \in {receiver[c].cmd, None}
  <2>1. receiver \in [Conns -> Receivers]
    BY DEF Travels, Types
  <2>2. \A pc \in {"off", "run", "stopped"} : Idle(pc) \in Receivers /\ Idle(pc).cmd = None
    BY DEF Idle, Receivers
  <2>3. CASE receiver' = receiver
    BY <2>1, <2>3
  <2>4. ASSUME NEW c \in Conns, NEW pc \in {"run", "stopped"},
               receiver' = [receiver EXCEPT ![c] = Idle(pc)]
        PROVE  /\ receiver' \in [Conns -> Receivers]
               /\ \A d \in Conns : receiver'[d].cmd \in {receiver[d].cmd, None}
    BY <2>1, <2>2, <2>4
  <2>5. ASSUME NEW c \in Conns, FindPending(c)
        PROVE  /\ receiver' \in [Conns -> Receivers]
               /\ \A d \in Conns : receiver'[d].cmd \in {receiver[d].cmd, None}
    <3> DEFINE f == [receiver[c] EXCEPT !.pc = "deliver"]
    <3>1. f \in Receivers /\ f.cmd = receiver[c].cmd
      BY <2>1 DEF Receivers
    <3>2. \/ receiver' = [receiver EXCEPT ![c] = f]
          \/ receiver' = [receiver EXCEPT ![c] = Idle("run")]
      BY <2>5 DEF FindPending
    <3> HIDE DEF f
    <3>3. CASE receiver' = [receiver EXCEPT ![c] = f]
      BY <2>1, <3>1, <3>3
    <3> QED BY <2>4, <3>2, <3>3
  <2>6. \/ receiver' = receiver
        \/ \E c \in Conns : FindPending(c)
        \/ \E c \in Conns : receiver' = [receiver EXCEPT ![c] = Idle("run")]
        \/ \E c \in Conns : receiver' = [receiver EXCEPT ![c] = Idle("stopped")]
    BY DEF Accept, Break, SenderDone, ReceiverFails, Handler,
       Register, Leave, Unregister, StopServer, CloseManager, vars, streams
  <2> QED BY <2>3, <2>4, <2>5, <2>6
<1>4. \A k \in Cmds : Journey(k)'
  BY <1>1, <1>2, <1>3, NoneApart, StayPut DEF Travels
<1>5. /\ live' \in SUBSET Conns /\ sender' \in [Conns -> {"off", "run", "stopped"}]
      /\ errs' \in [Conns -> Nat]
      /\ server' \in {"up", "stopping", "closed"} /\ panicked' \in BOOLEAN
  <2>1. /\ live \in SUBSET Conns /\ sender \in [Conns -> {"off", "run", "stopped"}]
        /\ errs \in [Conns -> Nat]
        /\ server \in {"up", "stopping", "closed"} /\ panicked \in BOOLEAN
    BY DEF Travels, Types
  <2>2. CASE \E c \in Conns : Accept(c) \/ Break(c) \/ FindPending(c)
    BY <2>1, <2>2 DEF Accept, Break, FindPending, process
  <2>3. CASE \E c \in Conns : SenderDone(c) \/ ReceiverFails(c)
    BY <2>1, <2>3 DEF SenderDone, ReceiverFails, process
  <2>4. ASSUME NEW c \in Conns, Handler(c)
        PROVE  /\ live' \in SUBSET Conns
               /\ sender' \in [Conns -> {"off", "run", "stopped"}]
               /\ errs' \in [Conns -> Nat]
               /\ server' \in {"up", "stopping", "closed"} /\ panicked' \in BOOLEAN
    BY <2>1, <2>4 DEF Handler, Register, Leave, Unregister, process
  <2>5. CASE StopServer \/ CloseManager \/ UNCHANGED vars
    BY <2>1, <2>5 DEF StopServer, CloseManager, vars, streams, process
  <2> QED BY <2>2, <2>3, <2>4, <2>5
<1> QED BY <1>1, <1>3, <1>4, <1>5 DEF Travels, Types

\* The send goroutine hands a command over, or loses it.
LEMMA ForwardStep ==
  ASSUME Travels, NEW c \in Conns, SenderForward(c)
  PROVE  /\ RegistryTypes' => Types'
         /\ \A k \in Cmds : Journey(k)'
<1>1. /\ caller' = caller /\ receiver' = receiver /\ resp' = resp /\ pending' = pending
      /\ unpushed' = unpushed /\ live' = live /\ server' = server /\ panicked' = panicked
      /\ sendCh[c] # <<>> /\ sendCh' = [sendCh EXCEPT ![c] = Tail(@)]
      /\ \/ atAgent' = [atAgent EXCEPT ![c] = @ \cup ({Head(sendCh[c])} \cap Cmds)]
         \/ atAgent' = atAgent
      /\ \/ sender' = sender /\ errs' = errs
         \/ /\ sender' = [sender EXCEPT ![c] = "stopped"]
            /\ errs' = [errs EXCEPT ![c] = @ + 1]
  BY DEF SenderForward, registry, process
<1>2. /\ sendCh \in [Conns -> Seq(Cmds \cup Pushes)]
      /\ atAgent \in [Conns -> SUBSET Cmds] /\ receiver \in [Conns -> Receivers]
      /\ live \in SUBSET Conns /\ sender \in [Conns -> {"off", "run", "stopped"}]
      /\ errs \in [Conns -> Nat] /\ unpushed \in SUBSET Pushes
      /\ server \in {"up", "stopping", "closed"} /\ panicked \in BOOLEAN
  BY DEF Travels, Types
<1> DEFINE q == sendCh[c]
<1>3. q \in Seq(Cmds \cup Pushes) /\ q # <<>>
  BY <1>1, <1>2
<1>4. /\ Tail(q) \in Seq(Cmds \cup Pushes) /\ In(Head(q), q)
      /\ \A y : In(y, Tail(q)) => In(y, q)
  BY <1>3, TailFacts
<1>5. /\ sendCh' \in [Conns -> Seq(Cmds \cup Pushes)]
      /\ \A d \in Conns : sendCh'[d] = IF d = c THEN Tail(q) ELSE sendCh[d]
  BY <1>1, <1>2, <1>4
<1>6. /\ atAgent' \in [Conns -> SUBSET Cmds]
      /\ \A d \in Conns : atAgent'[d] \subseteq atAgent[d] \cup
                            (IF d = c THEN {Head(q)} ELSE {})
  <2>1. CASE atAgent' = [atAgent EXCEPT ![c] = @ \cup ({Head(q)} \cap Cmds)]
    BY <1>2, <2>1
  <2>2. CASE atAgent' = atAgent
    BY <1>2, <2>2
  <2> QED BY <1>1, <2>1, <2>2
<1>7. RegistryTypes' => Types'
  <2>1. /\ sender' \in [Conns -> {"off", "run", "stopped"}] /\ errs' \in [Conns -> Nat]
    <3>1. CASE sender' = sender /\ errs' = errs
      BY <1>2, <3>1
    <3>2. CASE /\ sender' = [sender EXCEPT ![c] = "stopped"]
               /\ errs' = [errs EXCEPT ![c] = @ + 1]
      BY <1>2, <3>2
    <3> QED BY <1>1, <3>1, <3>2
  <2> QED BY <1>1, <1>2, <1>5, <1>6, <2>1 DEF Types
<1>8. ASSUME NEW k \in Cmds PROVE Journey(k)'
  <2>1. Journey(k) /\ Types
    BY DEF Travels
  <2>2. \A d \in Conns : \A i, j \in DOMAIN sendCh[d] :
          sendCh[d][i] = k /\ sendCh[d][j] = k => i = j
    BY <2>1 DEF Journey
  <2>3. /\ \A i, j \in DOMAIN Tail(q) : Tail(q)[i] = k /\ Tail(q)[j] = k => i = j
        /\ k = Head(q) => ~In(k, Tail(q))
    BY <1>3, <2>2, TailFacts
  <2>4. \A d \in Conns : \A i, j \in DOMAIN sendCh'[d] :
          sendCh'[d][i] = k /\ sendCh'[d][j] = k => i = j
    BY <1>5, <2>2, <2>3
  <2>5. \A d \in Conns : k \in atAgent'[d] \/ In(k, sendCh'[d])
                           => k \in atAgent[d] \/ In(k, sendCh[d])
    BY <1>4, <1>5, <1>6
  <2>6. \A d \in Conns : k \in atAgent'[d] => ~In(k, sendCh'[d])
    BY <1>4, <1>5, <1>6, <2>1, <2>3 DEF Journey
  <2>7. /\ \A d \in Conns : k \in pending'[d] =>
             k \in pending[d] /\ caller'[k].pc \in {"wait", "full", "cleanup"}
        /\ resp'[k].val \/ caller'[k].out = "ok" => Answered(k)
    BY <1>1, <2>1 DEF Journey
  <2> QED BY <1>1, <2>1, <2>4, <2>5, <2>6, <2>7, Onwards
<1> QED BY <1>7, <1>8

\* A push joins the queue, and is no command.
LEMMA SendStep ==
  ASSUME Travels, NEW p \in Pushes, Send(p)
  PROVE  /\ RegistryTypes' => Types'
         /\ \A k \in Cmds : Journey(k)'
<1>1. /\ caller' = caller /\ receiver' = receiver /\ resp' = resp /\ pending' = pending
      /\ atAgent' = atAgent /\ unpushed' = unpushed \ {p}
      /\ live' = live /\ server' = server /\ panicked' = panicked
      /\ sender' = sender /\ errs' = errs
      /\ \/ sendCh' = sendCh
         \/ entry # None /\ sendCh' = [sendCh EXCEPT ![entry] = Append(@, p)]
  BY DEF Send, registry, streams, process
<1>2. /\ sendCh \in [Conns -> Seq(Cmds \cup Pushes)] /\ entry \in Conns \cup {None}
      /\ atAgent \in [Conns -> SUBSET Cmds] /\ receiver \in [Conns -> Receivers]
      /\ live \in SUBSET Conns /\ sender \in [Conns -> {"off", "run", "stopped"}]
      /\ errs \in [Conns -> Nat] /\ unpushed \in SUBSET Pushes
      /\ server \in {"up", "stopping", "closed"} /\ panicked \in BOOLEAN
  BY DEF Travels, Types, RegistryTypes
<1>3. CASE sendCh' = sendCh
  <2>1. RegistryTypes' => Types'
    BY <1>1, <1>2, <1>3 DEF Types
  <2>2. \A k \in Cmds : Journey(k)'
    BY <1>1, <1>3, StayPut DEF Travels
  <2> QED BY <2>1, <2>2
<1>4. CASE entry # None /\ sendCh' = [sendCh EXCEPT ![entry] = Append(@, p)]
  <2> DEFINE q == sendCh[entry]
  <2>1. q \in Seq(Cmds \cup Pushes) /\ p \in Cmds \cup Pushes /\ entry \in Conns
    BY <1>2, <1>4
  <2>2. /\ Append(q, p) \in Seq(Cmds \cup Pushes)
        /\ \A y : In(y, Append(q, p)) <=> In(y, q) \/ y = p
    BY <2>1, AppendFacts
  <2>3. /\ sendCh' \in [Conns -> Seq(Cmds \cup Pushes)]
        /\ \A d \in Conns : sendCh'[d] = IF d = entry THEN Append(q, p) ELSE sendCh[d]
    BY <1>2, <1>4, <2>1, <2>2
  <2>4. RegistryTypes' => Types'
    BY <1>1, <1>2, <2>3 DEF Types
  <2>5. ASSUME NEW k \in Cmds PROVE Journey(k)'
    <3>1. Journey(k) /\ Types /\ k # p
      BY AgentManagerAssumption DEF Travels
    <3>2. \A d \in Conns : \A i, j \in DOMAIN sendCh[d] :
            sendCh[d][i] = k /\ sendCh[d][j] = k => i = j
      BY <3>1 DEF Journey
    <3>3. \A i, j \in DOMAIN Append(q, p) :
            Append(q, p)[i] = k /\ Append(q, p)[j] = k => i = j
      BY <2>1, <3>1, <3>2, AppendFacts
    <3>4. \A d \in Conns : \A i, j \in DOMAIN sendCh'[d] :
            sendCh'[d][i] = k /\ sendCh'[d][j] = k => i = j
      BY <2>3, <3>2, <3>3
    <3>5. \A d \in Conns : In(k, sendCh'[d]) => In(k, sendCh[d])
      BY <2>2, <2>3, <3>1
    <3>6. /\ \A d \in Conns : k \in atAgent'[d] => ~In(k, sendCh'[d])
          /\ \A d \in Conns : k \in pending'[d] =>
               k \in pending[d] /\ caller'[k].pc \in {"wait", "full", "cleanup"}
          /\ resp'[k].val \/ caller'[k].out = "ok" => Answered(k)
      BY <1>1, <3>1, <3>5 DEF Journey
    <3> QED BY <1>1, <3>1, <3>4, <3>5, <3>6, Onwards
  <2> QED BY <2>4, <2>5
<1> QED BY <1>1, <1>3, <1>4

\* A command sets out.
LEMMA SendCommandStep ==
  ASSUME Travels, NEW k \in Cmds, SendCommand(k)
  PROVE  /\ RegistryTypes' => Types'
         /\ \A j \in Cmds : Journey(j)'
<1>1. /\ caller[k].pc = "idle" /\ resp' = resp /\ receiver' = receiver
      /\ atAgent' = atAgent /\ unpushed' = unpushed
      /\ live' = live /\ server' = server /\ panicked' = panicked
      /\ sender' = sender /\ errs' = errs
  BY DEF SendCommand, streams, process
<1>2. /\ sendCh \in [Conns -> Seq(Cmds \cup Pushes)] /\ entry \in Conns \cup {None}
      /\ atAgent \in [Conns -> SUBSET Cmds] /\ receiver \in [Conns -> Receivers]
      /\ live \in SUBSET Conns /\ sender \in [Conns -> {"off", "run", "stopped"}]
      /\ errs \in [Conns -> Nat] /\ unpushed \in SUBSET Pushes
      /\ server \in {"up", "stopping", "closed"} /\ panicked \in BOOLEAN
      /\ pending \in [Conns -> SUBSET Cmds] /\ caller \in [Cmds -> Callers]
  BY DEF Travels, Types, RegistryTypes
<1>3. \A j \in Cmds : Journey(j) /\ Types
  BY DEF Travels
<1>4. /\ caller[k].obj = None
      /\ \A c \in Conns : k \notin atAgent[c] /\ ~In(k, sendCh[c]) /\ k \notin pending[c]
      /\ \A c \in Conns : receiver[c].cmd # k
      /\ ~resp[k].val
  BY <1>1, <1>3, AgentManagerAssumption DEF Journey, Answered
<1>5. PICK e \in {[pc |-> "returned", obj |-> None, out |-> "offline"],
                  [pc |-> "wait", obj |-> entry, out |-> "none"],
                  [pc |-> "full", obj |-> entry, out |-> "full"]} :
        /\ caller' = [caller EXCEPT ![k] = e]
        /\ e.pc = "returned" => pending' = pending /\ sendCh' = sendCh
        /\ e.pc # "returned" =>
             entry # None /\ pending' = [pending EXCEPT ![entry] = @ \cup {k}]
        /\ e.pc = "wait" => sendCh' = [sendCh EXCEPT ![entry] = Append(@, k)]
        /\ e.pc = "full" => sendCh' = sendCh
  BY DEF SendCommand
<1>6. /\ e.pc \in {"returned", "wait", "full"} /\ e.out # "ok"
      /\ e.obj = IF e.pc = "returned" THEN None ELSE entry
  BY <1>5
<1>7. /\ caller'[k] = e /\ \A j \in Cmds : j # k => caller'[j] = caller[j]
  BY <1>2, <1>5
<1>8. \A c \in Conns : pending'[c] = IF e.pc # "returned" /\ c = entry
                                     THEN pending[c] \cup {k} ELSE pending[c]
  BY <1>2, <1>5
<1> DEFINE q == sendCh[entry]
<1>9. e.pc = "wait" =>
        /\ entry \in Conns
        /\ Append(q, k) \in Seq(Cmds \cup Pushes)
        /\ \A y : In(y, Append(q, k)) <=> In(y, q) \/ y = k
  <2>1. ASSUME e.pc = "wait"
        PROVE  entry \in Conns /\ q \in Seq(Cmds \cup Pushes) /\ k \in Cmds \cup Pushes
    BY <1>2, <1>5, <2>1
  <2> QED BY <2>1, AppendFacts
<1>10. /\ sendCh' \in [Conns -> Seq(Cmds \cup Pushes)]
       /\ \A d \in Conns : sendCh'[d] = IF e.pc = "wait" /\ d = entry
                                        THEN Append(q, k) ELSE sendCh[d]
  BY <1>2, <1>5, <1>6, <1>9
<1>11. RegistryTypes' => Types'
  BY <1>1, <1>2, <1>10 DEF Types
<1>12. ASSUME NEW j \in Cmds PROVE Journey(j)'
  <2>1. Journey(j) /\ Types
    BY <1>3
  <2>2. \A d \in Conns : \A a, b \in DOMAIN sendCh[d] :
          sendCh[d][a] = j /\ sendCh[d][b] = j => a = b
    BY <2>1 DEF Journey
  <2>3. e.pc = "wait" => \A a, b \in DOMAIN Append(q, k) :
          Append(q, k)[a] = j /\ Append(q, k)[b] = j => a = b
    <3>1. ASSUME e.pc = "wait"
          PROVE  /\ q \in Seq(Cmds \cup Pushes) /\ k \in Cmds \cup Pushes
                 /\ \A a, b \in DOMAIN q : q[a] = j /\ q[b] = j => a = b
                 /\ j = k => ~In(j, q)
      BY <1>2, <1>4, <1>9, <2>2, <3>1
    <3> QED BY <3>1, AppendFacts
  <2>4. \A d \in Conns : \A a, b \in DOMAIN sendCh'[d] :
          sendCh'[d][a] = j /\ sendCh'[d][b] = j => a = b
    BY <1>10, <2>2, <2>3
  <2>5. CASE j = k
    <3>1. \A d \in Conns : k \in pending'[d] =>
            caller'[k].pc \in {"wait", "full", "cleanup"} /\ caller'[k].obj = d
      BY <1>4, <1>6, <1>7, <1>8
    <3>2. \A d \in Conns : k \in atAgent'[d] \/ In(k, sendCh'[d]) => caller'[k].obj = d
      BY <1>1, <1>4, <1>6, <1>7, <1>10
    <3>3. \A d \in Conns : k \in atAgent'[d] => ~In(k, sendCh'[d])
      BY <1>1, <1>4
    <3>4. /\ caller'[k].pc # "idle" /\ \A d \in Conns : receiver'[d].cmd # k
          /\ ~resp'[k].val /\ caller'[k].out # "ok"
      BY <1>1, <1>4, <1>6, <1>7
    <3> QED BY <2>4, <2>5, <3>1, <3>2, <3>3, <3>4 DEF Journey, In
  <2>6. CASE j # k
    <3>1. caller'[j] = caller[j]
      BY <1>7, <2>6
    <3>2. \A d \in Conns : In(j, sendCh'[d]) => In(j, sendCh[d])
      BY <1>9, <1>10, <2>6
    <3>3. /\ \A d \in Conns : j \in pending'[d] =>
               j \in pending[d] /\ caller'[j].pc \in {"wait", "full", "cleanup"}
          /\ \A d \in Conns : j \in atAgent'[d] => ~In(j, sendCh'[d])
          /\ resp'[j].val \/ caller'[j].out = "ok" => Answered(j)
      <4>1. \A d \in Conns : j \in pending'[d] =>
              j \in pending[d] /\ caller'[j].pc \in {"wait", "full", "cleanup"}
        BY <1>8, <2>1, <2>6, <3>1 DEF Journey
      <4>2. \A d \in Conns : j \in atAgent'[d] => ~In(j, sendCh'[d])
        BY <1>1, <2>1, <3>2 DEF Journey
      <4>3. resp'[j].val \/ caller'[j].out = "ok" => Answered(j)
        BY <1>1, <2>1, <3>1 DEF Journey
      <4> QED BY <4>1, <4>2, <4>3
    <3> QED BY <1>1, <2>1, <2>4, <3>1, <3>2, <3>3, Onwards
  <2> QED BY <2>5, <2>6
<1> QED BY <1>11, <1>12

\* A caller takes its answer, gives up or forgets the call.
LEMMA CallerStep ==
  ASSUME Travels, NEW k \in Cmds, Caller(k) \/ TimeoutCommand(k)
  PROVE  /\ RegistryTypes' => Types'
         /\ \A j \in Cmds : Journey(j)'
<1>1. /\ caller[k].pc # "idle" /\ receiver' = receiver
      /\ atAgent' = atAgent /\ unpushed' = unpushed /\ sendCh' = sendCh
      /\ live' = live /\ server' = server /\ panicked' = panicked
      /\ sender' = sender /\ errs' = errs
  BY DEF Caller, ReceiveResponse, ForgetPending, TimeoutCommand, streams, process
<1>2. RegistryTypes' => Types'
  BY <1>1 DEF Travels, Types
<1>3. /\ caller \in [Cmds -> Callers] /\ caller[k] \in Callers
      /\ resp \in [Cmds -> Responses] /\ pending \in [Conns -> SUBSET Cmds]
  BY DEF Travels, Types, RegistryTypes
<1>4. \A j \in Cmds : Journey(j) /\ Types
  BY DEF Travels
<1>5. ASSUME NEW pc \in {"cleanup", "returned"}, NEW out \in Outcomes,
             caller' = [caller EXCEPT ![k] = [@ EXCEPT !.pc = pc, !.out = out]]
      PROVE  /\ caller'[k].pc = pc /\ caller'[k].out = out
             /\ caller'[k].obj = caller[k].obj
             /\ \A j \in Cmds : j # k => caller'[j] = caller[j]
  <2> DEFINE e == [caller[k] EXCEPT !.pc = pc, !.out = out]
  <2>1. e.pc = pc /\ e.out = out /\ e.obj = caller[k].obj
    BY <1>3 DEF Callers
  <2>2. caller' = [caller EXCEPT ![k] = e]
    BY <1>5
  <2> HIDE DEF e
  <2> QED BY <1>3, <2>1, <2>2
<1>6. /\ caller'[k].obj = caller[k].obj /\ caller'[k].pc \in {"cleanup", "returned"}
      /\ \A j \in Cmds : j # k => caller'[j] = caller[j]
      /\ caller'[k].out = "ok" => caller[k].out = "ok" \/ resp[k].val
      /\ \A j \in Cmds : resp'[j].val => resp[j].val
      /\ \A c \in Conns : pending'[c] \subseteq pending[c]
      /\ caller'[k].pc = "returned" => \A c \in Conns : k \notin pending'[c]
  <2>1. CASE ReceiveResponse(k)
    <3>1. /\ caller' = [caller EXCEPT ![k] = [@ EXCEPT !.pc = "cleanup",
                          !.out = IF resp[k].val THEN "ok" ELSE "disconnected"]]
          /\ resp' = [resp EXCEPT ![k].val = FALSE] /\ pending' = pending
      BY <2>1 DEF ReceiveResponse
    <3>2. \A j \in Cmds : resp'[j].val => resp[j].val
      BY <1>3, <3>1 DEF Responses
    <3> DEFINE o == IF resp[k].val THEN "ok" ELSE "disconnected"
    <3>3. o \in Outcomes /\ (o = "ok" => resp[k].val)
      BY DEF Outcomes
    <3>4. caller' = [caller EXCEPT ![k] = [@ EXCEPT !.pc = "cleanup", !.out = o]]
      BY <3>1
    <3> HIDE DEF o
    <3>5. /\ caller'[k].pc = "cleanup" /\ caller'[k].out = o
          /\ caller'[k].obj = caller[k].obj
          /\ \A j \in Cmds : j # k => caller'[j] = caller[j]
      BY <1>5, <3>3, <3>4
    <3> QED BY <3>1, <3>2, <3>3, <3>5
  <2>2. CASE TimeoutCommand(k)
    <3>1. /\ caller' = [caller EXCEPT ![k] = [@ EXCEPT !.pc = "cleanup",
                                                       !.out = "timeout"]]
          /\ resp' = resp /\ pending' = pending
      BY <2>2 DEF TimeoutCommand, registry
    <3>2. /\ caller'[k].pc = "cleanup" /\ caller'[k].out = "timeout"
          /\ caller'[k].obj = caller[k].obj
          /\ \A j \in Cmds : j # k => caller'[j] = caller[j]
      BY <1>5, <3>1 DEF Outcomes
    <3> QED BY <3>1, <3>2
  <2>3. CASE ForgetPending(k)
    <3>1. /\ caller' = [caller EXCEPT ![k].pc = "returned"] /\ resp' = resp
          /\ pending' = [pending EXCEPT ![caller[k].obj] = @ \ {k}]
      BY <2>3 DEF ForgetPending
    <3>2. caller' = [caller EXCEPT ![k] = [@ EXCEPT !.pc = "returned",
                                                    !.out = caller[k].out]]
      BY <1>3, <3>1 DEF Callers
    <3>3. /\ \A c \in Conns : pending'[c] \subseteq pending[c]
          /\ \A c \in Conns : c = caller[k].obj => k \notin pending'[c]
      BY <1>3, <3>1
    <3>4. \A c \in Conns : k \notin pending'[c]
      BY <1>4, <3>3 DEF Journey
    <3>5. caller[k].out \in Outcomes
      BY <1>3 DEF Callers
    <3>6. /\ caller'[k].pc = "returned" /\ caller'[k].out = caller[k].out
          /\ caller'[k].obj = caller[k].obj
          /\ \A j \in Cmds : j # k => caller'[j] = caller[j]
      BY <1>5, <3>2, <3>5
    <3> QED BY <3>1, <3>3, <3>4, <3>6
  <2> QED BY <2>1, <2>2, <2>3 DEF Caller
<1>7. ASSUME NEW j \in Cmds PROVE Journey(j)'
  <2>1. Journey(j) /\ Types
    BY <1>4
  <2>2. /\ caller'[j].obj = caller[j].obj
        /\ caller'[j].pc = "idle" => caller[j].pc = "idle"
        /\ \A c \in Conns : j \in pending'[c] =>
             j \in pending[c] /\ caller'[j].pc \in {"wait", "full", "cleanup"}
        /\ caller'[j].out = "ok" => caller[j].out = "ok" \/ resp[j].val
    BY <1>6, <2>1 DEF Journey
  <2>3. resp'[j].val \/ caller'[j].out = "ok" => Answered(j)
    BY <1>6, <2>1, <2>2 DEF Journey
  <2>4. /\ \A c \in Conns : j \in atAgent[c] => ~In(j, sendCh[c])
        /\ \A c \in Conns : \A a, b \in DOMAIN sendCh[c] :
             sendCh[c][a] = j /\ sendCh[c][b] = j => a = b
    BY <2>1 DEF Journey
  <2> QED BY <1>1, <2>1, <2>2, <2>3, <2>4, Onwards
<1> QED BY <1>2, <1>7

\* A result is read from the stream.
LEMMA ResultStep ==
  ASSUME Travels, NEW c \in Conns, NEW k \in Cmds, ReceiveResult(c, k)
  PROVE  /\ RegistryTypes' => Types'
         /\ \A j \in Cmds : Journey(j)'
<1>1. /\ k \in atAgent[c] /\ atAgent' = [atAgent EXCEPT ![c] = @ \ {k}]
      /\ \/ receiver' = receiver
         \/ entry # None /\ receiver' = [receiver EXCEPT ![c] =
              [pc |-> "lookup", cmd |-> k, obj |-> entry]]
      /\ caller' = caller /\ resp' = resp /\ pending' = pending
      /\ sendCh' = sendCh /\ unpushed' = unpushed
      /\ live' = live /\ server' = server /\ panicked' = panicked
      /\ sender' = sender /\ errs' = errs
  BY DEF ReceiveResult, registry, process
<1>2. /\ sendCh \in [Conns -> Seq(Cmds \cup Pushes)] /\ entry \in Conns \cup {None}
      /\ atAgent \in [Conns -> SUBSET Cmds] /\ receiver \in [Conns -> Receivers]
      /\ live \in SUBSET Conns /\ sender \in [Conns -> {"off", "run", "stopped"}]
      /\ errs \in [Conns -> Nat] /\ unpushed \in SUBSET Pushes
      /\ server \in {"up", "stopping", "closed"} /\ panicked \in BOOLEAN
      /\ caller \in [Cmds -> Callers]
  BY DEF Travels, Types, RegistryTypes
<1>3. /\ atAgent' \in [Conns -> SUBSET Cmds] /\ k \notin atAgent'[c]
      /\ \A d \in Conns : atAgent'[d] \subseteq atAgent[d]
  BY <1>1, <1>2
<1>4. /\ receiver' \in [Conns -> Receivers]
      /\ \A d \in Conns : receiver'[d].cmd \in {receiver[d].cmd, k}
  <2> DEFINE f == [pc |-> "lookup", cmd |-> k, obj |-> entry]
  <2>1. f \in Receivers /\ f.cmd = k
    BY <1>2 DEF Receivers
  <2>2. receiver' = receiver \/ receiver' = [receiver EXCEPT ![c] = f]
    BY <1>1
  <2> HIDE DEF f
  <2> QED BY <1>2, <2>1, <2>2
<1>5. RegistryTypes' => Types'
  BY <1>1, <1>2, <1>3, <1>4 DEF Types
<1>6. Answered(k)'
  <2>1. Journey(k)
    BY DEF Travels
  <2>2. caller[k].obj = c /\ ~In(k, sendCh[c])
    BY <1>1, <2>1 DEF Journey
  <2>3. c # None
    BY AgentManagerAssumption
  <2> QED BY <1>1, <1>3, <2>2, <2>3 DEF Answered, In
<1>7. ASSUME NEW j \in Cmds PROVE Journey(j)'
  <2>1. Journey(j) /\ Types
    BY DEF Travels
  <2>2. \A d \in Conns : receiver'[d].cmd = j => receiver[d].cmd = j \/ Answered(j)'
    BY <1>4, <1>6
  <2>3. /\ \A d \in Conns : j \in pending'[d] =>
             j \in pending[d] /\ caller'[j].pc \in {"wait", "full", "cleanup"}
        /\ \A d \in Conns : j \in atAgent'[d] => ~In(j, sendCh'[d])
        /\ \A d \in Conns : \A a, b \in DOMAIN sendCh'[d] :
             sendCh'[d][a] = j /\ sendCh'[d][b] = j => a = b
        /\ resp'[j].val \/ caller'[j].out = "ok" => Answered(j)
    BY <1>1, <1>3, <2>1 DEF Journey
  <2> QED BY <1>1, <1>3, <2>1, <2>2, <2>3, Onwards
<1> QED BY <1>5, <1>7

\* The result is put into the response channel of its command.
LEMMA DeliverStep ==
  ASSUME Travels, NEW c \in Conns, Deliver(c)
  PROVE  /\ RegistryTypes' => Types'
         /\ \A j \in Cmds : Journey(j)'
<1>1. /\ receiver' = [receiver EXCEPT ![c] = Idle("run")]
      /\ resp' = resp \/ resp' = [resp EXCEPT ![receiver[c].cmd].val = TRUE]
      /\ panicked' \in {TRUE, panicked}
      /\ caller' = caller /\ pending' = pending /\ atAgent' = atAgent
      /\ sendCh' = sendCh /\ unpushed' = unpushed
      /\ live' = live /\ server' = server
      /\ sender' = sender /\ errs' = errs
  BY DEF Deliver
<1>2. receiver \in [Conns -> Receivers] /\ resp \in [Cmds -> Responses]
  BY DEF Travels, Types, RegistryTypes
<1>3. /\ receiver' \in [Conns -> Receivers]
      /\ \A d \in Conns : receiver'[d].cmd \in {receiver[d].cmd, None}
  <2>1. Idle("run") \in Receivers /\ Idle("run").cmd = None
    BY DEF Idle, Receivers
  <2> QED BY <1>1, <1>2, <2>1
<1>4. RegistryTypes' => Types'
  BY <1>1, <1>3 DEF Travels, Types
<1>5. \A j \in Cmds : j # receiver[c].cmd => resp'[j] = resp[j]
  BY <1>1, <1>2
<1>6. ASSUME NEW j \in Cmds PROVE Journey(j)'
  <2>1. Journey(j) /\ Types /\ j # None
    BY NoneApart DEF Travels
  <2>2. resp'[j].val \/ caller'[j].out = "ok" => Answered(j)
    BY <1>1, <1>5, <2>1 DEF Journey
  <2>3. /\ \A d \in Conns : j \in pending'[d] =>
             j \in pending[d] /\ caller'[j].pc \in {"wait", "full", "cleanup"}
        /\ \A d \in Conns : j \in atAgent'[d] => ~In(j, sendCh'[d])
        /\ \A d \in Conns : \A a, b \in DOMAIN sendCh'[d] :
             sendCh'[d][a] = j /\ sendCh'[d][b] = j => a = b
        /\ \A d \in Conns : receiver'[d].cmd = j => receiver[d].cmd = j
    BY <1>1, <1>3, <2>1 DEF Journey
  <2> QED BY <1>1, <2>1, <2>2, <2>3, Onwards
<1> QED BY <1>4, <1>6

\* No command has been sent.
LEMMA TravelsInit == Init => Travels
<1> SUFFICES ASSUME Init PROVE Travels
  OBVIOUS
<1>1. Inv
  BY InitInv
<1>2. receiver = [c \in Conns |-> Idle("off")] /\ Idle("off") \in Receivers
      /\ Idle("off").cmd = None
  BY DEF Init, Idle, Receivers
<1>3. /\ sendCh \in [Conns -> Seq(Cmds \cup Pushes)]
      /\ \A c \in Conns : sendCh[c] = <<>> /\ DOMAIN sendCh[c] = {}
    BY DEF Init
<1>4. Types
  BY <1>1, <1>2, <1>3 DEF Init, Inv, Types
<1>5. ASSUME NEW k \in Cmds PROVE Journey(k)
  <2>1. /\ caller[k].pc = "idle" /\ caller[k].obj = None /\ caller[k].out = "none"
        /\ ~resp[k].val
        /\ \A c \in Conns : pending[c] = {} /\ atAgent[c] = {} /\ receiver[c].cmd = None
    BY <1>2 DEF Init
  <2> QED BY <1>3, <2>1, NoneApart DEF Journey, In
<1> QED BY <1>1, <1>4, <1>5 DEF Travels

\* Every step keeps each command's journey.
LEMMA TravelsNext == Travels /\ [Next]_vars => Travels'
<1> SUFFICES ASSUME Travels, [Next]_vars PROVE Travels'
  OBVIOUS
<1>1. Inv'
  BY NextInv DEF Travels
<1>2. RegistryTypes'
  BY <1>1 DEF Inv
<1>3. /\ RegistryTypes' => Types'
      /\ \A k \in Cmds : Journey(k)'
  BY StillSteps, ForwardStep, SendStep, SendCommandStep, CallerStep, ResultStep,
     DeliverStep
  DEF Next, Sender, Receiver
<1> QED BY <1>1, <1>2, <1>3 DEF Travels

\* Types of the registry, the streams and the callers.
THEOREM TypeCorrect == Spec => []TypeOK
<1>1. Travels => TypeOK
  BY DEF Travels, Types, RegistryTypes, TypeOK
<1> QED
  BY TravelsInit, TravelsNext, <1>1, PTL DEF Spec

\* Every way out of SendCommand removes its response channel from the entry it
\* joined.
THEOREM PendingRemoved == Spec => []NoStalePending
<1>1. Travels => NoStalePending
  BY DEF Travels, Types, RegistryTypes, Journey, NoStalePending
<1> QED
  BY TravelsInit, TravelsNext, <1>1, PTL DEF Spec

\* "ok" means that the agent had the command and its own result was read, on
\* whichever connection.
THEOREM ResultsAreAnswers == Spec => []AnsweredByAgent
<1>1. Travels => AnsweredByAgent
  BY DEF Travels, Journey, Answered, In, AnsweredByAgent
<1> QED
  BY TravelsInit, TravelsNext, <1>1, PTL DEF Spec
=============================================================================
