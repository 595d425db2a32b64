-------------------------- MODULE ConfigSyncProofs --------------------------
(***************************************************************************)
(* What an agent has of its configuration and of its key, for every number *)
(* of pushes, handlers, edits, faults and losses, and every buffer size:   *)
(* the types, the versions, the saved configuration, and that an agent is  *)
(* locked out or left behind for the known reasons only.                   *)
(***************************************************************************)
EXTENDS ConfigPushProofs

\* The variables that Types leaves out.  A process that is down has no stream
\* and saves nothing.
Rest ==
  /\ approver \in {"idle", "approve", "reject"}
  /\ conn \in {"down", "hello", "up"}
  /\ conn # "up" => wire = <<>>
  /\ proc \in {"down", "boot", "up"}
  /\ saving \in BOOLEAN
  /\ budget \in [edits : Nat, faults : Nat, losses : Nat]
  /\ stale \in SUBSET Causes
  /\ keyLost \in BOOLEAN
  /\ everSaved \in BOOLEAN
  /\ conn # "down" \/ saving => proc # "down"

\* Where the key of an approved agent is: with the handler that is to send it,
\* on the wire, with the goroutine that saves it, or in the file and, while the
\* process runs, in memory.
Delivered ==
  /\ \A i \in DOMAIN wire : wire[i].type = "approval" => wire[i].key = row.key
  /\ row.status \in {"none", "pending"} => approver # "approve" /\ ~OnWire("approval")
  /\ row.status = "approved" /\ ~keyLost =>
       \/ approver = "approve"
       \/ OnWire("approval")
       \/ saving /\ key = row.key
       \/ disk.key = row.key /\ (proc # "down" => key = row.key)

-----------------------------------------------------------------------------
\* The types of the remaining variables.

\* The three counters count.
LEMMA BudgetTypes ==
  ASSUME budget \in [edits : Nat, faults : Nat, losses : Nat], Edit \/ Fault \/ Loss
  PROVE  budget' \in [edits : Nat, faults : Nat, losses : Nat]
  BY DEF Edit, Fault, Loss

\* A step of the server that sends nothing, or to a connected agent.
LEMMA RestAdministration == Rest /\ Administration => Rest'
<1> SUFFICES ASSUME Rest, Administration PROVE Rest'
  OBVIOUS
<1> USE DEF memory, link, history, Overlap, Causes
<1>1. CASE ApproveAgent \/ RejectAgent \/ DeleteAgent \/ MovePlanAway \/ ApplyFails
  <2>1. CASE ApproveAgent
    BY <2>1, BudgetTypes DEF ApproveAgent, Rest
  <2>2. CASE RejectAgent \/ DeleteAgent
    BY <2>2, BudgetTypes DEF RejectAgent, DeleteAgent, Rest
  <2>3. CASE MovePlanAway
    BY <2>3, BudgetTypes DEF MovePlanAway, Rest
  <2>4. CASE ApplyFails
    BY <2>4, BudgetTypes DEF ApplyFails, Rest
  <2> QED BY <1>1, <2>1, <2>2, <2>3, <2>4
<1>2. CASE SkipApproval \/ SendRejection
  <2>1. CASE SkipApproval
    BY <2>1 DEF SkipApproval, Rest
  <2>2. CASE SendRejection
    BY <2>2 DEF SendRejection, Send, SendRefused, Rest
  <2> QED BY <1>2, <2>1, <2>2
<1>3. ASSUME NEW p \in Pushes, SendApproval(p) PROVE Rest'
  BY <1>3 DEF SendApproval, Send, SendRefused, Rest
<1>4. ASSUME NEW p \in Pushes, EditAgent(p) \/ EditPlan(p) \/ EditShared(p) PROVE Rest'
  BY <1>4, BudgetTypes DEF EditAgent, EditPlan, EditShared, EditOwn, Rest
<1> QED BY <1>1, <1>2, <1>3, <1>4 DEF Administration

\* A push changes, of these, the reasons and the faults only.
LEMMA RestPushing == Rest /\ Pushing => Rest'
<1> SUFFICES ASSUME Rest, NEW p \in Pushes,
                    \/ LookUp(p) \/ CheckOnline(p) \/ GetAgent(p) \/ ListPlans(p)
                    \/ LoadShared(p) \/ ListHooksFails(p) \/ UpdateConfigVersion(p)
                    \/ SendConfig(p) \/ PushFails(p)
             PROVE  Rest'
  BY DEF Pushing
<1> USE DEF memory, link, history, Causes, GiveUp
<1>1. CASE LookUp(p) \/ CheckOnline(p) \/ GetAgent(p) \/ ListPlans(p) \/ LoadShared(p)
           \/ UpdateConfigVersion(p)
  BY <1>1 DEF LookUp, CheckOnline, GetAgent, ListPlans, LoadShared, UpdateConfigVersion, Rest
<1>2. CASE ListHooksFails(p) \/ PushFails(p)
  BY <1>2, BudgetTypes DEF ListHooksFails, PushFails, Rest
<1>3. CASE SendConfig(p)
  BY <1>3 DEF SendConfig, Send, SendRefused, Rest
<1> QED BY <1>1, <1>2, <1>3

\* A stream that ends is empty; a process that is down has none.
LEMMA RestStream == Rest /\ Stream => Rest'
<1> SUFFICES ASSUME Rest, Stream PROVE Rest'
  OBVIOUS
<1> USE DEF memory, server, history, Causes, LostOnWire
<1>1. CASE Hello \/ Register
  BY <1>1 DEF Hello, Register, Rest
<1>2. CASE StreamEnds \/ ServerRestart
  <2>1. keyLost' \in BOOLEAN
    BY <1>2, Zenon DEF StreamEnds, ServerRestart, LostOnWire
  <2>2. budget' \in [edits : Nat, faults : Nat, losses : Nat]
    BY <1>2, BudgetTypes DEF StreamEnds, ServerRestart, Rest
  <2>3. /\ approver' \in {"idle", "approve", "reject"}
        /\ conn' = "down" /\ wire' = <<>> /\ UNCHANGED <<proc, saving, everSaved>>
        /\ stale' \in {stale, stale \cup {"lost"}}
    BY <1>2 DEF StreamEnds, ServerRestart, Rest
  <2> QED BY <2>1, <2>2, <2>3 DEF Rest
<1> QED BY <1>1, <1>2 DEF Stream

\* A stop ends the stream and what is being saved with the process.
LEMMA RestAgent == Rest /\ Agent => Rest'
<1> SUFFICES ASSUME Rest, Agent PROVE Rest'
  OBVIOUS
<1> USE DEF memory, server, link, history, Causes
<1>1. CASE Start \/ StartScheduler \/ SaveIdentity
  BY <1>1 DEF Start, StartScheduler, SaveIdentity, Rest
<1>2. CASE AgentStops \/ SaveIdentityFails
  BY <1>2, BudgetTypes DEF AgentStops, SaveIdentityFails, Rest, OnWire
<1>3. CASE ReceiveApproval \/ ReceiveRejection
  BY <1>3 DEF ReceiveApproval, ReceiveRejection, Rest
<1>4. ASSUME NEW h \in Handlers,
             \/ ReceiveConfig(h) \/ SaveTemp(h) \/ Rename(h)
             \/ SaveFails(h) \/ UpdateSchedule(h)
      PROVE  Rest'
  <2>1. CASE ReceiveConfig(h)
    BY <2>1 DEF ReceiveConfig, Rest
  <2>3. CASE SaveTemp(h) \/ UpdateSchedule(h)
    BY <2>3 DEF SaveTemp, UpdateSchedule, Rest
  <2>4. CASE Rename(h)
    BY <2>4 DEF Rename, Rest
  <2>2. CASE SaveFails(h)
    BY <2>2, BudgetTypes DEF SaveFails, Rest
  <2> QED BY <1>4, <2>1, <2>2, <2>3, <2>4
<1> QED BY <1>1, <1>2, <1>3, <1>4 DEF Agent

\* Every step keeps the types.
LEMMA RestStep == Rest /\ [Next]_vars => Rest'
<1>1. Rest /\ UNCHANGED vars => Rest'
  BY DEF vars, server, link, memory, history, Rest
<1> QED BY <1>1, RestAdministration, RestPushing, RestStream, RestAgent DEF Next

-----------------------------------------------------------------------------
\* Delivered: the key of an approved agent is somewhere, or known to be lost.

\* Nothing of the key moves, and no approval leaves the wire.
KeyQuiet ==
  /\ row'.key = row.key
  /\ row'.status = row.status \/ row'.status \in {"rejected", "deleted"}
  /\ keyLost => keyLost'
  /\ approver' = "approve" => approver = "approve"
  /\ approver = "approve" => approver' = "approve" \/ keyLost'
  /\ saving' = saving /\ key' = key /\ disk'.key = disk.key /\ proc' = proc
  /\ OnWire("approval") => OnWire("approval")' \/ keyLost'
  /\ OnWire("approval")' => OnWire("approval")
  /\ \A i \in DOMAIN wire' : wire'[i].type = "approval" => wire'[i].key = row.key

\* A step of that kind keeps the key where it is, or known to be lost.
LEMMA KeyQuietDelivered ==
  ASSUME Delivered, keyLost \in BOOLEAN, KeyQuiet
  PROVE  Delivered'
  BY DEF Delivered, KeyQuiet, OnWire

\* What happens to the messages on the wire: it stays, it is lost, a message is
\* added, the first is taken.
LEMMA WireSent ==
  ASSUME wire \in Seq(Messages), NEW m \in Messages, Send(m)
  PROVE  /\ \A type : OnWire(type)' <=> OnWire(type) \/ m.type = type
         /\ \A i \in DOMAIN wire' : (i \in DOMAIN wire /\ wire'[i] = wire[i]) \/ wire'[i] = m
<1>1. /\ DOMAIN wire' = DOMAIN wire \cup {Len(wire) + 1}
      /\ \A i \in DOMAIN wire : wire'[i] = wire[i]
      /\ wire'[Len(wire) + 1] = m
  BY SendWire
<1> QED BY <1>1 DEF OnWire

\* A message that is taken is missed, if at all, in its own type.
LEMMA WireReceived ==
  ASSUME wire \in Seq(Messages), wire # <<>>, wire' = Tail(wire)
  PROVE  /\ \A type : OnWire(type)' => OnWire(type)
         /\ \A type : OnWire(type) /\ Head(wire).type # type => OnWire(type)'
         /\ \A i \in DOMAIN wire' : \E j \in DOMAIN wire : wire'[i] = wire[j]
<1>1. /\ Head(wire) = wire[1]
      /\ \A i \in DOMAIN wire' : i + 1 \in DOMAIN wire /\ wire'[i] = wire[i + 1]
  BY ReceiveWire
<1>2. \A j \in DOMAIN wire : j # 1 => j - 1 \in DOMAIN wire' /\ wire'[j - 1] = wire[j]
  <2>1. /\ DOMAIN wire = 1..Len(wire) /\ Len(wire) \in Nat \ {0}
        /\ DOMAIN wire' = 1..(Len(wire) - 1)
    OBVIOUS
  <2> QED BY <1>1, <2>1
<1>3. \A i \in DOMAIN wire' : \E j \in DOMAIN wire : wire'[i] = wire[j]
  BY <1>1
<1>4. ASSUME NEW type, OnWire(type), Head(wire).type # type PROVE OnWire(type)'
  BY <1>1, <1>2, <1>4 DEF OnWire
<1>5. ASSUME NEW type, OnWire(type)' PROVE OnWire(type)
  BY <1>3, <1>5 DEF OnWire
<1> QED BY <1>3, <1>4, <1>5

\* The wire keeps its approvals when it is left alone, and when a message of
\* another type is added or taken.
LEMMA ApprovalsKept ==
  ASSUME Delivered, wire \in Seq(Messages),
         \/ UNCHANGED wire
         \/ \E m \in Messages : Send(m) /\ m.type # "approval"
         \/ wire # <<>> /\ wire' = Tail(wire) /\ Head(wire).type # "approval"
  PROVE  /\ OnWire("approval")' <=> OnWire("approval")
         /\ \A i \in DOMAIN wire' : wire'[i].type = "approval" => wire'[i].key = row.key
<1>1. \A i \in DOMAIN wire : wire[i].type = "approval" => wire[i].key = row.key
  BY DEF Delivered
<1>2. CASE UNCHANGED wire
  BY <1>1, <1>2 DEF OnWire
<1>3. ASSUME NEW m \in Messages, Send(m), m.type # "approval"
      PROVE  /\ OnWire("approval")' <=> OnWire("approval")
             /\ \A i \in DOMAIN wire' : wire'[i].type = "approval" => wire'[i].key = row.key
  <2>1. /\ \A type : OnWire(type)' <=> OnWire(type) \/ m.type = type
        /\ \A i \in DOMAIN wire' : (i \in DOMAIN wire /\ wire'[i] = wire[i]) \/ wire'[i] = m
    BY <1>3, WireSent
  <2> QED BY <1>1, <1>3, <2>1
<1>4. CASE wire # <<>> /\ wire' = Tail(wire) /\ Head(wire).type # "approval"
  <2>1. /\ \A type : OnWire(type)' => OnWire(type)
        /\ \A type : OnWire(type) /\ Head(wire).type # type => OnWire(type)'
        /\ \A i \in DOMAIN wire' : \E j \in DOMAIN wire : wire'[i] = wire[j]
    BY <1>4, WireReceived
  <2> QED BY <1>1, <1>4, <2>1
<1> QED BY <1>2, <1>3, <1>4

\* Everything an administrator does but for an approval.
LEMMA QuietAdministration ==
  ASSUME Inv, Rest, Delivered, Administration, ~ApproveAgent, ~SkipApproval,
         \A p \in Pushes : ~SendApproval(p)
  PROVE  Delivered'
<1>1. /\ row \in [status : Statuses, key : Nat, version : Nat]
      /\ wire \in Seq(Messages) /\ keyLost \in BOOLEAN
  BY DEF Inv, Types, Rest
<1>2. /\ row'.key = row.key
      /\ row'.status = row.status \/ row'.status \in {"rejected", "deleted"}
      /\ keyLost' = keyLost /\ (approver' = "approve" <=> approver = "approve")
      /\ UNCHANGED <<saving, key, disk, proc>>
      /\ UNCHANGED wire \/ Send(Rejection)
  <2>1. CASE RejectAgent \/ DeleteAgent
    BY <1>1, <2>1 DEF RejectAgent, DeleteAgent, link, memory, history
  <2>2. CASE SendRejection \/ MovePlanAway \/ ApplyFails
    BY <2>2 DEF SendRejection, SendRefused, MovePlanAway, ApplyFails, link, memory, history
  <2>3. ASSUME NEW p \in Pushes, EditAgent(p) \/ EditPlan(p) \/ EditShared(p)
        PROVE  UNCHANGED <<row, keyLost, approver, saving, key, disk, proc, wire>>
    BY <2>3 DEF EditAgent, EditPlan, EditShared, EditOwn, link, memory
  <2> QED BY <2>1, <2>2, <2>3 DEF Administration
<1>3. Rejection \in Messages /\ Rejection.type # "approval"
  BY MessageTypes DEF Rejection
<1>4. /\ OnWire("approval")' <=> OnWire("approval")
      /\ \A i \in DOMAIN wire' : wire'[i].type = "approval" => wire'[i].key = row.key
  BY <1>1, <1>2, <1>3, ApprovalsKept
<1>5. KeyQuiet
  BY <1>2, <1>4 DEF KeyQuiet
<1> QED BY <1>1, <1>5, KeyQuietDelivered

\* A push sends configurations, never a key.
LEMMA QuietPushing ==
  ASSUME Inv, Rest, Delivered, Pushing
  PROVE  Delivered'
<1>1. /\ row \in [status : Statuses, key : Nat, version : Nat]
      /\ wire \in Seq(Messages) /\ keyLost \in BOOLEAN
      /\ \A p \in Pushes : push[p].config \in Configs
  BY DEF Inv, Types, Rest, PushStates
<1>2. /\ row'.key = row.key /\ row'.status = row.status
      /\ UNCHANGED <<keyLost, approver, saving, key, disk, proc>>
      /\ UNCHANGED wire \/ \E p \in Pushes : Send(Message(push[p].config))
  <2>1. ASSUME NEW p \in Pushes,
               \/ LookUp(p) \/ CheckOnline(p) \/ GetAgent(p) \/ ListPlans(p)
               \/ LoadShared(p) \/ ListHooksFails(p) \/ PushFails(p)
        PROVE  UNCHANGED <<row, keyLost, approver, saving, key, disk, proc, wire>>
    BY <2>1 DEF LookUp, CheckOnline, GetAgent, ListPlans, LoadShared, ListHooksFails,
       PushFails, link, memory, history
  <2>2. ASSUME NEW p \in Pushes, UpdateConfigVersion(p)
        PROVE  /\ row'.key = row.key /\ row'.status = row.status
               /\ UNCHANGED <<keyLost, approver, saving, key, disk, proc, wire>>
    BY <1>1, <2>2 DEF UpdateConfigVersion, link, memory, history
  <2>3. ASSUME NEW p \in Pushes, SendConfig(p)
        PROVE  /\ UNCHANGED <<row, keyLost, approver, saving, key, disk, proc>>
               /\ UNCHANGED wire \/ Send(Message(push[p].config))
    BY <2>3 DEF SendConfig, SendRefused, memory
  <2> QED BY <2>1, <2>2, <2>3 DEF Pushing
<1>3. UNCHANGED wire \/ \E m \in Messages : Send(m) /\ m.type # "approval"
  <2>1. \A p \in Pushes : /\ Message(push[p].config) \in Messages
                          /\ Message(push[p].config).type # "approval"
    BY <1>1, MessageTypes DEF Message
  <2> QED BY <1>2, <2>1
<1>4. /\ OnWire("approval")' <=> OnWire("approval")
      /\ \A i \in DOMAIN wire' : wire'[i].type = "approval" => wire'[i].key = row.key
  BY <1>1, <1>3, ApprovalsKept
<1>5. KeyQuiet
  BY <1>2, <1>4 DEF KeyQuiet
<1> QED BY <1>1, <1>5, KeyQuietDelivered

\* What is lost with a stream is counted as lost.
LEMMA QuietStream ==
  ASSUME Inv, Rest, Delivered, Stream
  PROVE  Delivered'
<1>1. wire \in Seq(Messages) /\ keyLost \in BOOLEAN
  BY DEF Inv, Types, Rest
<1>2. CASE Hello \/ Register
  BY <1>2 DEF Hello, Register, server, memory, history, Delivered, OnWire
<1>3. CASE StreamEnds \/ ServerRestart
  <2>1. wire' = <<>> /\ UNCHANGED <<row, saving, key, disk, proc>>
    BY <1>3 DEF StreamEnds, ServerRestart, server, memory
  <2>2. /\ keyLost => keyLost'
        /\ OnWire("approval") => keyLost'
        /\ approver = "approve" => approver' = "approve" \/ keyLost'
        /\ approver' = "approve" => approver = "approve"
    BY <1>3 DEF StreamEnds, ServerRestart, LostOnWire, server
  <2>3. KeyQuiet
    BY <2>1, <2>2 DEF KeyQuiet, OnWire
  <2> QED BY <1>1, <2>3, KeyQuietDelivered
<1> QED BY <1>2, <1>3 DEF Stream

\* Rejections and configurations do not touch the key.
LEMMA QuietAgent ==
  ASSUME Inv, Rest, Delivered,
         \/ ReceiveRejection
         \/ \E h \in Handlers : \/ ReceiveConfig(h) \/ SaveTemp(h) \/ Rename(h)
                                \/ SaveFails(h) \/ UpdateSchedule(h)
  PROVE  Delivered'
<1>1. /\ wire \in Seq(Messages) /\ keyLost \in BOOLEAN
      /\ disk \in [known : BOOLEAN, key : Nat, config : Configs]
  BY DEF Inv, Types, Rest
<1> DEFINE Kept ==
      /\ UNCHANGED <<row, approver, keyLost, saving, key, proc>> /\ disk'.key = disk.key
      /\ \/ UNCHANGED wire
         \/ wire # <<>> /\ wire' = Tail(wire) /\ Head(wire).type # "approval"
<1>2. Kept
  <2>1. CASE ReceiveRejection
    BY <2>1 DEF ReceiveRejection, server, memory, history
  <2>2. ASSUME NEW h \in Handlers, ReceiveConfig(h) \/ SaveTemp(h)
        PROVE  Kept
    BY <2>2 DEF ReceiveConfig, SaveTemp, server, link, history
  <2>3. ASSUME NEW h \in Handlers, Rename(h) \/ SaveFails(h) \/ UpdateSchedule(h)
        PROVE  Kept
    BY <1>1, <2>3 DEF Rename, SaveFails, UpdateSchedule, server, link, history
  <2> QED BY <2>1, <2>2, <2>3
<1>3. /\ OnWire("approval")' <=> OnWire("approval")
      /\ \A i \in DOMAIN wire' : wire'[i].type = "approval" => wire'[i].key = row.key
  BY <1>1, <1>2, ApprovalsKept
<1>4. KeyQuiet
  BY <1>2, <1>3 DEF KeyQuiet
<1> QED BY <1>1, <1>4, KeyQuietDelivered

\* A row that is approved had no key, and no approval of it was on its way.
LEMMA ApproveDelivered ==
  ASSUME Inv, Delivered, ApproveAgent
  PROVE  Delivered'
  BY DEF ApproveAgent, Delivered, OnWire, link

\* The approval is sent with the key of the row, or counted as lost.
LEMMA SendApprovalDelivered ==
  ASSUME Inv, Rest, Delivered, NEW p \in Pushes, SendApproval(p)
  PROVE  Delivered'
<1>1. /\ wire \in Seq(Messages) /\ Approval(row.key) \in Messages
      /\ Approval(row.key).type = "approval" /\ Approval(row.key).key = row.key
  BY MessageTypes DEF Inv, Types, Approval
<1>2. /\ UNCHANGED <<row, disk, key, saving, proc>> /\ approver = "approve"
      /\ approver' = "idle"
      /\ row.status \notin {"none", "pending"}
      /\ \A i \in DOMAIN wire : wire[i].type = "approval" => wire[i].key = row.key
  BY DEF SendApproval, memory, Delivered
<1>3. CASE Send(Approval(row.key))
  <2>1. /\ \A type : OnWire(type)' <=> OnWire(type) \/ Approval(row.key).type = type
        /\ \A i \in DOMAIN wire' : \/ i \in DOMAIN wire /\ wire'[i] = wire[i]
                                   \/ wire'[i] = Approval(row.key)
    BY <1>1, <1>3, WireSent
  <2>2. OnWire("approval")'
    BY <1>1, <2>1
  <2>3. \A i \in DOMAIN wire' : wire'[i].type = "approval" => wire'[i].key = row'.key
    BY <1>1, <1>2, <2>1
  <2> QED BY <1>2, <2>2, <2>3 DEF Delivered
<1>4. CASE UNCHANGED wire /\ keyLost'
  BY <1>2, <1>4 DEF Delivered, OnWire
<1> QED BY <1>3, <1>4 DEF SendApproval, SendRefused

\* An approval of an agent that is not connected is counted as lost.
LEMMA SkipApprovalDelivered ==
  ASSUME Delivered, SkipApproval
  PROVE  Delivered'
  BY DEF SkipApproval, Delivered, OnWire, link, memory

\* A start has the key that is in the file.
LEMMA StartDelivered ==
  ASSUME Inv, Rest, Delivered, Start \/ StartScheduler
  PROVE  Delivered'
<1>1. /\ row \in [status : Statuses, key : Nat, version : Nat]
      /\ disk \in [known : BOOLEAN, key : Nat, config : Configs]
  BY DEF Inv, Types
<1>2. CASE Start
  <2>1. /\ row'.key = row.key /\ disk'.key = disk.key /\ key' = disk.key
        /\ row'.status = row.status \/ (row.status = "none" /\ row'.status = "pending")
        /\ proc = "down" /\ ~saving
        /\ UNCHANGED <<wire, approver, saving, keyLost>>
    BY <1>1, <1>2 DEF Start, link, history, Rest
  <2> QED BY <2>1 DEF Delivered, OnWire
<1>3. CASE StartScheduler
  BY <1>3 DEF StartScheduler, Delivered, OnWire, server, link, history, Rest
<1> QED BY <1>2, <1>3

\* A process that stops takes a key with it that it did not save.
LEMMA StopDelivered ==
  ASSUME Rest, Delivered, AgentStops
  PROVE  Delivered'
<1>1. /\ wire' = <<>> /\ proc' = "down" /\ UNCHANGED <<row, approver, disk>>
      /\ keyLost \/ OnWire("approval") \/ saving => keyLost'
  BY DEF AgentStops, server
<1> QED BY <1>1 DEF Delivered, OnWire, Rest

\* An approval that is received is saved, or counted as lost.
LEMMA ReceiveApprovalDelivered ==
  ASSUME Inv, Rest, Delivered, ReceiveApproval \/ SaveIdentity \/ SaveIdentityFails
  PROVE  Delivered'
<1>1. /\ wire \in Seq(Messages)
      /\ disk \in [known : BOOLEAN, key : Nat, config : Configs]
  BY DEF Inv, Types
<1>2. CASE ReceiveApproval
  <2>1. /\ wire # <<>> /\ wire' = Tail(wire) /\ Head(wire).type = "approval"
        /\ key' = Head(wire).key /\ saving'
        /\ UNCHANGED <<row, approver, disk, proc, keyLost>>
    BY <1>2 DEF ReceiveApproval, server, history
  <2>2. Head(wire) = wire[1] /\ 1 \in DOMAIN wire
    BY <1>1, <2>1, ReceiveWire
  <2>3. key' = row.key
    BY <2>1, <2>2 DEF Delivered
  <2>4. /\ \A type : OnWire(type)' => OnWire(type)
        /\ \A i \in DOMAIN wire' : \E j \in DOMAIN wire : wire'[i] = wire[j]
    BY <1>1, <2>1, WireReceived
  <2>5. \A i \in DOMAIN wire' : wire'[i].type = "approval" => wire'[i].key = row'.key
    BY <2>1, <2>4 DEF Delivered
  <2> QED BY <2>1, <2>3, <2>4, <2>5 DEF Delivered
<1>3. CASE SaveIdentity
  <2>1. disk'.key = key /\ UNCHANGED <<row, approver, wire, keyLost, key, proc>> /\ saving
    BY <1>1, <1>3 DEF SaveIdentity, server, link, history
  <2> QED BY <2>1 DEF Delivered, OnWire, Rest
<1>4. CASE SaveIdentityFails
  BY <1>4 DEF SaveIdentityFails, Delivered, OnWire, server, link
<1> QED BY <1>2, <1>3, <1>4

\* Every step.
LEMMA DeliveredStep ==
  ASSUME Inv, Rest, Delivered, [Next]_vars
  PROVE  Delivered'
<1>1. CASE Administration
  BY <1>1, ApproveDelivered, SendApprovalDelivered, SkipApprovalDelivered,
     QuietAdministration
<1>2. CASE Agent
  BY <1>2, StartDelivered, StopDelivered, ReceiveApprovalDelivered, QuietAgent DEF Agent
<1>3. CASE UNCHANGED vars
  BY <1>3 DEF vars, server, link, memory, history, Delivered, OnWire
<1> QED BY <1>1, <1>2, <1>3, QuietPushing, QuietStream DEF Next

-----------------------------------------------------------------------------
\* Numbered: the configurations in the system have versions that the row gave
\* out, a different one each.

Carried == Sent \cup ({sched, loaded, disk.config} \ {NoConfig})

Numbered ==
  /\ \A c \in Carried : c.version \in 1..row.version
  /\ \A c, d \in Carried : c.version = d.version => c = d

\* A step that makes no configuration: what is held after it was held before.
Carries ==
  /\ row'.version = row.version
  /\ \A p \in Pushes : push'[p].pc = "send" =>
       push[p].pc = "send" /\ push'[p].config = push[p].config
  /\ \A i \in DOMAIN wire' : wire'[i].type = "config" => wire'[i].config \in Carried
  /\ \A h \in Handlers : handler'[h].pc # "free" => handler'[h].config \in Carried
  /\ {sched', loaded', disk'.config} \subseteq Carried \cup {NoConfig}

\* Which configurations are carried.
LEMMA CarriedIn ==
  /\ \A p \in Pushes : push[p].pc = "send" => push[p].config \in Carried
  /\ \A i \in DOMAIN wire : wire[i].type = "config" => wire[i].config \in Carried
  /\ \A h \in Handlers : handler[h].pc # "free" => handler[h].config \in Carried
  /\ {sched, loaded, disk.config} \subseteq Carried \cup {NoConfig}
  BY DEF Carried, Sent, Applying

\* A step of that kind keeps the versions.
LEMMA CarriesNumbered ==
  ASSUME Numbered, Carries
  PROVE  Numbered'
<1>1. Carried' \subseteq Carried
  BY CarriedIn DEF Carries, Carried, Sent, Applying
<1> QED BY <1>1 DEF Numbered, Carries

\* The wire of a step that sends no configuration but that of a push.
LEMMA WireCarries ==
  ASSUME wire \in Seq(Messages),
         \/ wire' = <<>> \/ UNCHANGED wire
         \/ wire # <<>> /\ wire' = Tail(wire)
         \/ \E m \in Messages : Send(m) /\ (m.type = "config" => m.config \in Carried)
  PROVE  \A i \in DOMAIN wire' : wire'[i].type = "config" => wire'[i].config \in Carried
<1>1. CASE wire' = <<>> \/ UNCHANGED wire
  BY <1>1, CarriedIn
<1>2. CASE wire # <<>> /\ wire' = Tail(wire)
  <2>1. \A i \in DOMAIN wire' : \E j \in DOMAIN wire : wire'[i] = wire[j]
    BY <1>2, WireReceived
  <2> QED BY <2>1, CarriedIn
<1>3. ASSUME NEW m \in Messages, Send(m), m.type = "config" => m.config \in Carried
      PROVE  \A i \in DOMAIN wire' : wire'[i].type = "config" => wire'[i].config \in Carried
  <2>1. \A i \in DOMAIN wire' : (i \in DOMAIN wire /\ wire'[i] = wire[i]) \/ wire'[i] = m
    BY <1>3, WireSent
  <2> QED BY <1>3, <2>1, CarriedIn
<1> QED BY <1>1, <1>2, <1>3

\* Approvals, rejections and edits make no configuration; an edit's push has
\* yet to get its version.
LEMMA AdministrationCarries ==
  ASSUME Inv, Administration
  PROVE  Carries
<1> USE DEF memory, link
<1>1. /\ row \in [status : Statuses, key : Nat, version : Nat]
      /\ wire \in Seq(Messages) /\ push \in [Pushes -> PushStates]
  BY DEF Inv, Types
<1>2. /\ row'.version = row.version
      /\ UNCHANGED <<disk, loaded, sched, handler>>
      /\ \/ UNCHANGED wire
         \/ \E m \in Messages : Send(m) /\ (m.type = "config" => m.config \in Carried)
  <2>1. CASE ApproveAgent \/ RejectAgent \/ DeleteAgent
    BY <1>1, <2>1 DEF ApproveAgent, RejectAgent, DeleteAgent
  <2>2. CASE SkipApproval \/ MovePlanAway \/ ApplyFails
    BY <2>2 DEF SkipApproval, MovePlanAway, ApplyFails
  <2>3. CASE SendRejection
    BY <2>3, MessageTypes DEF SendRejection, SendRefused, Rejection
  <2>4. ASSUME NEW p \in Pushes, EditAgent(p) \/ EditPlan(p) \/ EditShared(p)
        PROVE  UNCHANGED <<row, wire, disk, loaded, sched, handler>>
    BY <2>4 DEF EditAgent, EditPlan, EditShared, EditOwn
  <2>5. ASSUME NEW p \in Pushes, SendApproval(p)
        PROVE  /\ UNCHANGED <<row, disk, loaded, sched, handler>>
               /\ UNCHANGED wire \/ Send(Approval(row.key))
    BY <2>5 DEF SendApproval, SendRefused
  <2>6. Approval(row.key) \in Messages /\ Approval(row.key).type # "config"
    BY <1>1, MessageTypes DEF Approval
  <2> QED BY <2>1, <2>2, <2>3, <2>4, <2>5, <2>6 DEF Administration
<1>3. \A p \in Pushes : push'[p].pc = "send" => push'[p] = push[p]
  <2>1. ASSUME NEW p \in Pushes, NEW pc \in {"lookup", "online"}, StartPush(p, pc)
        PROVE  \A q \in Pushes : push'[q].pc = "send" => push'[q] = push[q]
    BY <1>1, <2>1 DEF StartPush, NoPush
  <2>2. UNCHANGED push \/ \E p \in Pushes : StartPush(p, "lookup") \/ StartPush(p, "online")
    BY DEF Administration, ApproveAgent, RejectAgent, DeleteAgent, SkipApproval,
       MovePlanAway, ApplyFails, SendRejection, EditAgent, EditPlan, EditShared, EditOwn,
       SendApproval
  <2> QED BY <2>1, <2>2
<1>4. \A i \in DOMAIN wire' : wire'[i].type = "config" => wire'[i].config \in Carried
  BY <1>1, <1>2, WireCarries
<1> QED BY <1>2, <1>3, <1>4, CarriedIn DEF Carries

\* Before its version a push holds nothing that counts; it sends what it holds.
LEMMA PushingCarries ==
  ASSUME Inv, NEW p \in Pushes,
         \/ LookUp(p) \/ CheckOnline(p) \/ GetAgent(p) \/ ListPlans(p) \/ LoadShared(p)
         \/ ListHooksFails(p) \/ SendConfig(p) \/ PushFails(p)
  PROVE  Carries
<1> USE DEF memory, link
<1>1. /\ wire \in Seq(Messages) /\ push \in [Pushes -> PushStates]
  BY DEF Inv, Types
<1>2. UNCHANGED <<row, disk, loaded, sched, handler>>
  BY DEF LookUp, CheckOnline, GetAgent, ListPlans, LoadShared, ListHooksFails,
     SendConfig, PushFails
<1>3. UNCHANGED wire \/ (push[p].pc = "send" /\ Send(Message(push[p].config)))
  BY DEF LookUp, CheckOnline, GetAgent, ListPlans, LoadShared, ListHooksFails,
     SendConfig, PushFails, SendRefused
<1>4. \A q \in Pushes : push'[q].pc = "send" => push'[q] = push[q]
  <2>1. ASSUME NEW why, GiveUp(p, why)
        PROVE  \A q \in Pushes : push'[q].pc = "send" => push'[q] = push[q]
    BY <1>1, <2>1 DEF GiveUp, NoPush
  <2>2. ASSUME NEW from, NEW to \in {"online", "row"}, Step(p, from, to)
        PROVE  \A q \in Pushes : push'[q].pc = "send" => push'[q] = push[q]
    BY <1>1, <2>2 DEF Step, PushStates
  <2>3. ASSUME NEW pc \in {"plans", "shared", "version"}, NEW c, GoOn(p, pc, c)
        PROVE  \A q \in Pushes : push'[q].pc = "send" => push'[q] = push[q]
    BY <1>1, <2>3 DEF GoOn
  <2>4. CASE LookUp(p) \/ CheckOnline(p)
    BY <2>1, <2>2, <2>4 DEF LookUp, CheckOnline
  <2>5. CASE GetAgent(p) \/ ListPlans(p) \/ LoadShared(p) \/ ListHooksFails(p)
    BY <2>1, <2>3, <2>5 DEF GetAgent, ListPlans, LoadShared, ListHooksFails, Load
  <2>6. CASE SendConfig(p) \/ PushFails(p)
    <3>1. push' = [push EXCEPT ![p] = NoPush]
      BY <2>6 DEF SendConfig, PushFails, GiveUp
    <3> QED BY <1>1, <3>1 DEF NoPush
  <2> QED BY <2>4, <2>5, <2>6
<1>5. UNCHANGED wire \/ \E m \in Messages : Send(m) /\ (m.type = "config" => m.config \in Carried)
  <2>1. push[p].config \in Configs
    BY <1>1 DEF PushStates
  <2>2. Message(push[p].config) \in Messages
        /\ Message(push[p].config).config = push[p].config
    BY <2>1, MessageTypes DEF Message
  <2> QED BY <1>3, <2>2, CarriedIn
<1>6. \A i \in DOMAIN wire' : wire'[i].type = "config" => wire'[i].config \in Carried
  BY <1>1, <1>5, WireCarries
<1> QED BY <1>2, <1>4, <1>6, CarriedIn DEF Carries

\* A stream or a server that ends loses configurations.
LEMMA StreamCarries ==
  ASSUME Inv, Stream
  PROVE  Carries
<1>1. /\ UNCHANGED <<row, disk, loaded, sched, handler>>
      /\ UNCHANGED wire \/ wire' = <<>>
      /\ UNCHANGED push \/ push' = [p \in Pushes |-> NoPush]
  BY DEF Stream, Hello, Register, StreamEnds, ServerRestart, server, memory
<1>2. \A p \in Pushes : push'[p].pc = "send" => push'[p] = push[p]
  BY <1>1 DEF NoPush
<1>3. \A i \in DOMAIN wire' : wire'[i].type = "config" => wire'[i].config \in Carried
  BY <1>1, WireCarries DEF Inv, Types
<1> QED BY <1>1, <1>2, <1>3, CarriedIn DEF Carries

\* The agent applies and saves what it was sent, and starts from what it saved.
LEMMA AgentCarries ==
  ASSUME Inv, Agent
  PROVE  Carries
<1> USE DEF link, server, memory
<1>1. /\ row \in [status : Statuses, key : Nat, version : Nat]
      /\ disk \in [known : BOOLEAN, key : Nat, config : Configs]
      /\ wire \in Seq(Messages) /\ handler \in [Handlers -> HandlerStates]
  BY DEF Inv, Types
<1>2. row'.version = row.version /\ UNCHANGED push
  BY <1>1 DEF Agent, Start, StartScheduler, AgentStops, ReceiveApproval, SaveIdentity,
     SaveIdentityFails, ReceiveRejection, ReceiveConfig, SaveTemp, Rename, SaveFails,
     UpdateSchedule
<1>3. UNCHANGED wire \/ wire' = <<>> \/ (wire # <<>> /\ wire' = Tail(wire))
  BY DEF Agent, Start, StartScheduler, AgentStops, ReceiveApproval, SaveIdentity,
     SaveIdentityFails, ReceiveRejection, ReceiveConfig, SaveTemp, Rename, SaveFails,
     UpdateSchedule
<1>4. \A i \in DOMAIN wire' : wire'[i].type = "config" => wire'[i].config \in Carried
  BY <1>1, <1>3, WireCarries
<1> DEFINE Held ==
      /\ \A h \in Handlers : handler'[h].pc # "free" => handler'[h].config \in Carried
      /\ {sched', loaded', disk'.config} \subseteq Carried \cup {NoConfig}
<1>5. Held
  <2>1. CASE Start
    <3>1. disk'.config = disk.config /\ UNCHANGED <<handler, sched>>
          /\ loaded' \in {NoConfig, disk.config}
      BY <1>1, <2>1 DEF Start
    <3> QED BY <3>1, CarriedIn
  <2>2. CASE StartScheduler
    BY <2>2, CarriedIn DEF StartScheduler
  <2>3. CASE AgentStops
    BY <2>3, CarriedIn DEF AgentStops, NoHandler
  <2>4. CASE ReceiveApproval \/ SaveIdentityFails \/ ReceiveRejection
    BY <2>4, CarriedIn DEF ReceiveApproval, SaveIdentityFails, ReceiveRejection
  <2>5. CASE SaveIdentity
    BY <1>1, <2>5, CarriedIn DEF SaveIdentity
  <2>6. ASSUME NEW h \in Handlers, ReceiveConfig(h) PROVE Held
    <3>1. Head(wire) = wire[1] /\ 1 \in DOMAIN wire
      BY <1>1, <2>6, ReceiveWire DEF ReceiveConfig
    <3>2. Head(wire).config \in Carried
      BY <2>6, <3>1, CarriedIn DEF ReceiveConfig
    <3> QED BY <1>1, <2>6, <3>2, CarriedIn DEF ReceiveConfig
  <2>7. ASSUME NEW h \in Handlers, SaveTemp(h) \/ SaveFails(h) PROVE Held
    <3>1. \A g \in Handlers : handler'[g].config = handler[g].config
                              /\ (handler'[g].pc # "free" => handler[g].pc # "free")
      <4>1. PICK pc : handler' = [handler EXCEPT ![h].pc = pc]
        BY <2>7 DEF SaveTemp, SaveFails
      <4>2. handler[h].pc # "free"
        BY <2>7 DEF SaveTemp, SaveFails
      <4> QED BY <1>1, <4>1, <4>2 DEF HandlerStates
    <3>2. UNCHANGED <<sched, loaded, disk>>
      BY <2>7 DEF SaveTemp, SaveFails
    <3> QED BY <3>1, <3>2, CarriedIn
  <2>8. ASSUME NEW h \in Handlers, Rename(h) PROVE Held
    BY <1>1, <2>8, CarriedIn DEF Rename, HandlerStates
  <2>9. ASSUME NEW h \in Handlers, UpdateSchedule(h) PROVE Held
    BY <1>1, <2>9, CarriedIn DEF UpdateSchedule, NoHandler
  <2> QED BY <2>1, <2>2, <2>3, <2>4, <2>5, <2>6, <2>7, <2>8, <2>9 DEF Agent
<1> QED BY <1>2, <1>4, <1>5, CarriedIn DEF Carries

\* UpdateConfigVersion makes the one configuration that is new, with a version
\* above all the others: it is incremented and read back in one transaction.
LEMMA VersionNumbered ==
  ASSUME Inv, Numbered, NEW p \in Pushes, UpdateConfigVersion(p)
  PROVE  Numbered'
<1> DEFINE c == [push[p].config EXCEPT !.version = row.version + 1]
<1>1. /\ row \in [status : Statuses, key : Nat, version : Nat]
      /\ push \in [Pushes -> PushStates] /\ push[p].config \in Configs
  BY DEF Inv, Types, PushStates
<1>2. /\ row'.version = row.version + 1 /\ row.version \in Nat
      /\ push' = [push EXCEPT ![p] = [pc |-> "send", config |-> c]]
      /\ UNCHANGED <<wire, disk, loaded, sched, handler>>
  BY <1>1 DEF UpdateConfigVersion, GoOn, link, memory
<1>3. c.version = row.version + 1
  BY <1>1 DEF Configs
<1> HIDE DEF c
<1>4. \A q \in Pushes : push'[q].pc = "send" =>
        push'[q].config = c \/ (push[q].pc = "send" /\ push'[q].config = push[q].config)
  BY <1>1, <1>2
<1>5. Carried' \subseteq Carried \cup {c}
  BY <1>2, <1>4 DEF Carried, Sent, Applying
<1>6. \A d \in Carried : d.version # c.version /\ d.version \in 1..row'.version
  BY <1>2, <1>3 DEF Numbered
<1>7. c.version \in 1..row'.version
  BY <1>2, <1>3
<1> QED BY <1>5, <1>6, <1>7 DEF Numbered

\* Every step keeps the versions.
LEMMA NumberedStep ==
  ASSUME Inv, Numbered, [Next]_vars
  PROVE  Numbered'
<1>1. CASE Pushing
  BY <1>1, VersionNumbered, PushingCarries, CarriesNumbered DEF Pushing
<1>2. CASE UNCHANGED vars
  BY <1>2 DEF vars, server, link, memory, Numbered, Carried, Sent, Applying
<1> QED BY <1>1, <1>2, AdministrationCarries, StreamCarries, AgentCarries, CarriesNumbered
        DEF Next

-----------------------------------------------------------------------------
\* Startable: once a configuration was saved, an agent that starts has one.

Startable ==
  everSaved =>
    /\ disk.config # NoConfig
    /\ Applying = {} /\ proc = "boot" => loaded # NoConfig \/ sched # NoConfig
    /\ Applying = {} /\ proc = "up" => sched # NoConfig

\* Neither the empty configuration nor a torn file has a version.
LEMMA CarriedWhole ==
  ASSUME Numbered, NEW c \in Carried
  PROVE  c # NoConfig /\ c # Torn
<1>1. c.version # 0
  BY DEF Numbered
<1> QED BY <1>1 DEF NoConfig, Torn

\* A rename puts a whole configuration in the file, and a start takes it up.
LEMMA StartableStep ==
  ASSUME Inv, Rest, Numbered, Startable, [Next]_vars
  PROVE  Startable'
<1> USE DEF link, server, memory, history
<1>1. /\ disk \in [known : BOOLEAN, key : Nat, config : Configs]
      /\ handler \in [Handlers -> HandlerStates]
  BY DEF Inv, Types
<1>2. CASE Administration \/ Pushing \/ Stream \/ UNCHANGED vars
  <2>1. CASE Administration
    BY <2>1 DEF Administration, ApproveAgent, RejectAgent, DeleteAgent, SkipApproval,
       MovePlanAway, ApplyFails, SendRejection, EditAgent, EditPlan, EditShared, EditOwn,
       SendApproval, Startable, Applying
  <2>2. CASE Pushing
    BY <2>2 DEF Pushing, LookUp, CheckOnline, GetAgent, ListPlans, LoadShared,
       ListHooksFails, UpdateConfigVersion, SendConfig, PushFails, Startable, Applying
  <2>3. CASE Stream
    BY <2>3 DEF Stream, Hello, Register, StreamEnds, ServerRestart, Startable, Applying
  <2>4. CASE UNCHANGED vars
    BY <2>4 DEF vars, Startable, Applying
  <2> QED BY <1>2, <2>1, <2>2, <2>3, <2>4
<1>3. CASE Start
  <2>1. /\ disk'.config = disk.config /\ everSaved' = everSaved /\ proc' = "boot"
        /\ loaded' = IF disk.config = Torn THEN NoConfig ELSE disk.config
    BY <1>1, <1>3 DEF Start
  <2>2. disk.config # NoConfig => disk.config # Torn
    BY CarriedIn, CarriedWhole
  <2> QED BY <2>1, <2>2 DEF Startable
<1>4. CASE StartScheduler
  BY <1>4 DEF StartScheduler, Startable, Applying
<1>5. CASE AgentStops
  BY <1>5 DEF AgentStops, Startable
<1>6. CASE ReceiveApproval \/ SaveIdentity \/ SaveIdentityFails \/ ReceiveRejection
  BY <1>1, <1>6 DEF ReceiveApproval, SaveIdentity, SaveIdentityFails, ReceiveRejection,
     Startable, Applying
<1>7. ASSUME NEW h \in Handlers, ReceiveConfig(h) \/ SaveTemp(h) \/ SaveFails(h)
      PROVE  Startable'
  <2>1. handler'[h].pc # "free" /\ UNCHANGED <<disk, everSaved>>
    BY <1>1, <1>7 DEF ReceiveConfig, SaveTemp, SaveFails, HandlerStates
  <2> QED BY <2>1 DEF Startable, Applying
<1>8. ASSUME NEW h \in Handlers, Rename(h) PROVE Startable'
  <2>1. handler'[h].pc # "free" /\ disk'.config = handler[h].config
    BY <1>1, <1>8 DEF Rename, HandlerStates
  <2>2. handler[h].config # NoConfig
    BY <1>8, CarriedIn, CarriedWhole DEF Rename
  <2> QED BY <2>1, <2>2 DEF Startable, Applying
<1>9. ASSUME NEW h \in Handlers, UpdateSchedule(h) PROVE Startable'
  <2>1. sched' = handler[h].config /\ UNCHANGED <<disk, everSaved>>
    BY <1>9 DEF UpdateSchedule
  <2>2. handler[h].config # NoConfig
    BY <1>9, CarriedIn, CarriedWhole DEF UpdateSchedule
  <2> QED BY <2>1, <2>2 DEF Startable
<1> QED BY <1>2, <1>3, <1>4, <1>5, <1>6, <1>7, <1>8, <1>9 DEF Next, Agent

-----------------------------------------------------------------------------
\* Current: as long as nothing is in stale, the contents of the latest edit are
\* somewhere between the database and the scheduler, with nothing behind them.

Fresh(c) == c.has = contents

\* What a push has read is what the database still holds.
ReadRight(p) ==
  /\ push[p].pc \in {"plans", "shared", "version", "send"} =>
       push[p].config.has["agent"] = contents["agent"]
  /\ push[p].pc \in {"shared", "version", "send"} =>
       push[p].config.has["plans"] = contents["plans"]
  /\ push[p].pc \in {"version", "send"} =>
       push[p].config.has["shared"] = contents["shared"]

\* A push is on its way, or about to start.
Underway == Busy # {} \/ approver = "approve"

\* The last configurations on the wire are fresh.
Coming ==
  \E i \in DOMAIN wire :
    /\ wire[i].type = "config"
    /\ \A j \in DOMAIN wire : j >= i /\ wire[j].type = "config" => Fresh(wire[j].config)

\* The only handler has a fresh one, which it has saved when it schedules it.
Taken ==
  /\ proc = "up" /\ ~OnWire("config")
  /\ \E h \in Handlers :
       /\ Applying = {h}
       /\ Fresh(handler[h].config)
       /\ handler[h].pc = "schedule" => Fresh(disk.config)

\* It is saved, and the agent runs on it or is about to.
InForce ==
  /\ Applying = {} /\ ~OnWire("config")
  /\ Fresh(disk.config)
  /\ proc = "boot" => loaded = disk.config
  /\ proc = "up" => Fresh(sched)

Current ==
  /\ \A part \in Parts : contents[part] # 0
  /\ row.status = "approved" /\ stale = {} =>
       /\ \A p \in Pushes : ReadRight(p)
       /\ Underway \/ Coming \/ Taken \/ InForce

\* A revision never goes back to 0, the mark of a part that was left out.
LEMMA ContentsGrow ==
  ASSUME Inv, Current, NEW part \in Parts, Changed(part)
  PROVE  \A q \in Parts : contents'[q] # 0
<1>1. contents \in [Parts -> Nat]
  BY DEF Inv, Types, Revisions
<1> QED BY <1>1 DEF Changed, Current

\* A push that starts has read nothing yet.
LEMMA StartsUnread ==
  ASSUME Inv, NEW p \in Pushes, NEW pc \in {"lookup", "online"}, StartPush(p, pc), Busy = {}
  PROVE  Underway' /\ \A q \in Pushes : ReadRight(q)'
<1>1. push \in [Pushes -> PushStates]
  BY DEF Inv, Types
<1>2. \A q \in Pushes : push'[q].pc = IF q = p THEN pc ELSE "free"
  BY <1>1 DEF StartPush, NoPush, Busy
<1> QED BY <1>2 DEF Underway, Busy, ReadRight

\* An edit starts the push that is to carry it; where none is started, there is
\* a reason.
LEMMA CurrentAdministration ==
  ASSUME Inv, Rest, Current, Administration
  PROVE  Current'
<1> USE DEF memory, link, history
<1>1. CASE ApproveAgent
  <2>1. contents' = contents /\ push' = push /\ approver' = "approve" /\ stale' = Overlap
    BY <1>1 DEF ApproveAgent
  <2>2. stale' = {} => \A p \in Pushes : push'[p].pc = "free"
    BY <2>1 DEF Overlap, Busy
  <2> QED BY <2>1, <2>2 DEF Current, Underway, ReadRight
<1>2. CASE RejectAgent \/ DeleteAgent
  <2>1. row'.status # "approved" /\ contents' = contents
    BY <1>2 DEF RejectAgent, DeleteAgent, Inv, Types
  <2> QED BY <2>1 DEF Current
<1>3. CASE SkipApproval
  <2>1. stale' # {} /\ contents' = contents
    BY <1>3 DEF SkipApproval
  <2> QED BY <2>1 DEF Current
<1>4. CASE MovePlanAway \/ ApplyFails
  <2>1. stale' # {}
    BY <1>4 DEF MovePlanAway, ApplyFails
  <2>2. \A part \in Parts : contents'[part] # 0
    BY <1>4, ContentsGrow DEF MovePlanAway, ApplyFails, Parts
  <2> QED BY <2>1, <2>2 DEF Current
<1>5. ASSUME NEW p \in Pushes, SendApproval(p) PROVE Current'
  <2>1. contents' = contents /\ row' = row /\ StartPush(p, "online") /\ stale' = stale \cup Overlap
    BY <1>5 DEF SendApproval
  <2>2. stale' = {} => Busy = {}
    BY <2>1 DEF Overlap
  <2>3. stale' = {} => Underway' /\ \A q \in Pushes : ReadRight(q)'
    BY <2>1, <2>2, StartsUnread
  <2> QED BY <2>1, <2>3 DEF Current
<1>6. ASSUME NEW p \in Pushes, EditAgent(p) \/ EditPlan(p) \/ EditShared(p) PROVE Current'
  <2>1. PICK part \in Parts, pc \in {"lookup", "online"} :
          Changed(part) /\ StartPush(p, pc) /\ stale' = Overlap
    BY <1>6 DEF EditAgent, EditPlan, EditShared, EditOwn, Parts
  <2>2. \A q \in Parts : contents'[q] # 0
    BY <2>1, ContentsGrow
  <2>3. stale' = {} => Underway' /\ \A q \in Pushes : ReadRight(q)'
    BY <2>1, StartsUnread DEF Overlap
  <2> QED BY <2>2, <2>3 DEF Current
<1>7. CASE SendRejection
  <2>1. UNCHANGED <<contents, push, row, stale, proc, disk, handler, sched, loaded>>
        /\ approver = "reject" /\ (UNCHANGED wire \/ Send(Rejection))
    BY <1>7 DEF SendRejection, SendRefused
  <2>2. Underway => Underway'
    BY <2>1 DEF Underway, Busy
  <2>3. CASE UNCHANGED wire
    BY <2>1, <2>2, <2>3 DEF Current, ReadRight, Coming, Taken, InForce, Fresh, OnWire, Applying
  <2>4. CASE Send(Rejection)
    <3>1. /\ wire \in Seq(Messages) /\ Rejection \in Messages /\ Rejection.type = "rejection"
      BY MessageTypes DEF Inv, Types, Rejection
    <3>2. /\ DOMAIN wire' = DOMAIN wire \cup {Len(wire) + 1}
          /\ \A i \in DOMAIN wire : wire'[i] = wire[i]
          /\ wire'[Len(wire) + 1] = Rejection
      BY <2>4, <3>1, SendWire
    <3>3. Coming => Coming'
      BY <2>1, <3>1, <3>2 DEF Coming, Fresh
    <3>4. OnWire("config")' => OnWire("config")
      BY <3>1, <3>2 DEF OnWire
    <3> QED BY <2>1, <2>2, <3>3, <3>4 DEF Current, ReadRight, Taken, InForce, Fresh, Applying
  <2> QED BY <2>1, <2>3, <2>4
<1> QED BY <1>1, <1>2, <1>3, <1>4, <1>5, <1>6, <1>7 DEF Administration

\* A push that goes on reads what is there; one that gives up says why.
LEMMA CurrentPushing ==
  ASSUME Inv, Current, NEW p \in Pushes,
         \/ LookUp(p) \/ CheckOnline(p) \/ GetAgent(p) \/ ListPlans(p) \/ LoadShared(p)
         \/ ListHooksFails(p) \/ UpdateConfigVersion(p) \/ SendConfig(p) \/ PushFails(p)
  PROVE  Current'
<1> USE DEF memory, link, history
<1>1. /\ row \in [status : Statuses, key : Nat, version : Nat]
      /\ push \in [Pushes -> PushStates] /\ wire \in Seq(Messages)
      /\ push[p].config \in Configs /\ contents \in Revisions
  BY DEF Inv, Types, PushStates
<1>2. contents' = contents /\ row'.status = row.status
  BY <1>1 DEF LookUp, CheckOnline, GetAgent, ListPlans, LoadShared, ListHooksFails,
     UpdateConfigVersion, SendConfig, PushFails
<1>3. CASE stale' # {}
  BY <1>2, <1>3 DEF Current
<1>4. ASSUME NEW pc, NEW c, push' = [push EXCEPT ![p] = [pc |-> pc, config |-> c]],
             pc # "free", stale' = stale,
             (\A q \in Pushes : ReadRight(q)) => ReadRight(p)'
      PROVE  Current'
  <2>1. \A q \in Pushes : push'[q] = IF q = p THEN [pc |-> pc, config |-> c] ELSE push[q]
    BY <1>1, <1>4
  <2>2. Underway'
    BY <1>4, <2>1 DEF Underway, Busy
  <2>3. (\A q \in Pushes : ReadRight(q)) => \A q \in Pushes : ReadRight(q)'
    BY <1>2, <1>4, <2>1 DEF ReadRight
  <2> QED BY <1>2, <1>4, <2>2, <2>3 DEF Current
<1>5. CASE (LookUp(p) \/ CheckOnline(p)) /\ stale' = {}
  <2>1. PICK pc \in {"online", "row"} : push' = [push EXCEPT ![p].pc = pc] /\ stale' = stale
    BY <1>5 DEF LookUp, CheckOnline, Step, GiveUp
  <2>2. push' = [push EXCEPT ![p] = [pc |-> pc, config |-> push[p].config]]
    <3>1. [push[p] EXCEPT !.pc = pc] = [pc |-> pc, config |-> push[p].config]
      BY <1>1 DEF PushStates
    <3> QED BY <2>1, <3>1
  <2>3. ReadRight(p)'
    BY <1>1, <2>2 DEF ReadRight
  <2> QED BY <1>4, <2>1, <2>2, <2>3
<1>6. ASSUME NEW part \in Parts, NEW to \in {"plans", "shared", "version"},
             Load(p, part, to), stale' = stale,
             <<push[p].pc, part, to>> \in {<<"row", "agent", "plans">>,
               <<"plans", "plans", "shared">>, <<"shared", "shared", "version">>}
      PROVE  Current'
  <2> DEFINE c == [push[p].config EXCEPT !.has = [@ EXCEPT ![part] = contents[part]]]
  <2>1. c.has = [push[p].config.has EXCEPT ![part] = contents[part]]
    BY <1>1 DEF Configs
  <2>2. push' = [push EXCEPT ![p] = [pc |-> to, config |-> c]]
    BY <1>6 DEF Load, GoOn
  <2> HIDE DEF c
  <2>3. \A q \in Parts : c.has[q] = IF q = part THEN contents[q] ELSE push[p].config.has[q]
    BY <1>1, <2>1 DEF Configs, Revisions
  <2>4. ReadRight(p) => ReadRight(p)'
    BY <1>1, <1>2, <1>6, <2>2, <2>3 DEF ReadRight, Parts
  <2> QED BY <1>4, <1>6, <2>2, <2>4
<1>7. CASE (GetAgent(p) \/ ListPlans(p) \/ LoadShared(p)) /\ stale' = {}
  BY <1>6, <1>7 DEF GetAgent, ListPlans, LoadShared, GiveUp, Parts
<1>8. CASE UpdateConfigVersion(p)
  <2> DEFINE c == [push[p].config EXCEPT !.version = row'.version]
  <2>1. c.has = push[p].config.has
    BY <1>1 DEF Configs
  <2>2. push' = [push EXCEPT ![p] = [pc |-> "send", config |-> c]] /\ stale' = stale
        /\ push[p].pc = "version"
    BY <1>8 DEF UpdateConfigVersion, GoOn
  <2> HIDE DEF c
  <2>3. ReadRight(p) => ReadRight(p)'
    BY <1>1, <1>2, <2>1, <2>2 DEF ReadRight
  <2> QED BY <1>4, <2>2, <2>3
<1>9. CASE SendConfig(p) /\ stale' = {}
  <2>1. /\ push[p].pc = "send" /\ Send(Message(push[p].config))
        /\ push' = [push EXCEPT ![p] = NoPush] /\ stale' = stale
    BY <1>9 DEF SendConfig, GiveUp
  <2>2. /\ Message(push[p].config) \in Messages
        /\ Message(push[p].config).config = push[p].config
        /\ Message(push[p].config).type = "config"
    BY <1>1, MessageTypes DEF Message
  <2>3. /\ DOMAIN wire' = DOMAIN wire \cup {Len(wire) + 1}
        /\ wire'[Len(wire) + 1] = Message(push[p].config)
    BY <1>1, <2>1, <2>2, SendWire
  <2>4. Len(wire) \in Nat /\ DOMAIN wire = 1..Len(wire)
    BY <1>1
  <2>5. ReadRight(p) => push[p].config.has = contents'
    <3>1. ReadRight(p) => \A q \in Parts : push[p].config.has[q] = contents[q]
      BY <2>1 DEF ReadRight, Parts
    <3>2. push[p].config.has \in [Parts -> Nat] /\ contents \in [Parts -> Nat]
      BY <1>1 DEF Configs, Revisions
    <3> QED BY <1>2, <3>1, <3>2
  <2>6. ReadRight(p) => Coming'
    <3>1. Len(wire) + 1 \in DOMAIN wire'
          /\ \A j \in DOMAIN wire' : j >= Len(wire) + 1 => j = Len(wire) + 1
      BY <2>3, <2>4
    <3> QED BY <2>2, <2>3, <2>5, <3>1 DEF Coming, Fresh
  <2>7. (\A q \in Pushes : ReadRight(q)) => \A q \in Pushes : ReadRight(q)'
    <3>1. \A q \in Pushes : push'[q] = IF q = p THEN NoPush ELSE push[q]
      BY <1>1, <2>1
    <3> QED BY <1>2, <3>1 DEF ReadRight, NoPush
  <2> QED BY <1>2, <2>1, <2>6, <2>7 DEF Current
<1>10. CASE (ListHooksFails(p) \/ PushFails(p)) /\ stale' = {}
  BY <1>10 DEF ListHooksFails, PushFails, GiveUp
<1> QED BY <1>3, <1>5, <1>7, <1>8, <1>9, <1>10

\* A stream that ends with a configuration in it, or a push or an approval of a
\* server that stops, is a reason.
LEMMA CurrentStream ==
  ASSUME Inv, Current, Stream
  PROVE  Current'
<1> USE DEF memory, server, history
<1>1. CASE Hello \/ Register
  BY <1>1 DEF Hello, Register, Current, ReadRight, Underway, Busy, Coming, Taken, InForce,
     Fresh, OnWire, Applying
<1>2. CASE StreamEnds \/ ServerRestart
  <2>1. /\ UNCHANGED <<row, contents, proc, disk, handler, sched, loaded>> /\ wire' = <<>>
    BY <1>2 DEF StreamEnds, ServerRestart
  <2>2. stale' = {} =>
          /\ stale = {} /\ ~OnWire("config")
          /\ \/ UNCHANGED <<push, approver>>
             \/ /\ Busy = {} /\ approver # "approve"
                /\ \A p \in Pushes : push'[p].pc = "free"
    <3>1. CASE StreamEnds
      <4>1. UNCHANGED <<push, approver>>
        BY <3>1 DEF StreamEnds
      <4>2. stale' = IF OnWire("config") THEN stale \cup {"lost"} ELSE stale
        BY <3>1, Zenon DEF StreamEnds, LostOnWire
      <4>3. stale \cup {"lost"} # {}
        OBVIOUS
      <4> QED BY <4>1, <4>2, <4>3
    <3>2. CASE ServerRestart
      <4>1. \A p \in Pushes : push'[p].pc = "free"
        BY <3>2 DEF ServerRestart, NoPush
      <4> QED BY <3>2, <4>1 DEF ServerRestart
    <3> QED BY <1>2, <3>1, <3>2
  <2>3. ~OnWire("config") => ~Coming
    BY DEF OnWire, Coming
  <2>4. ~OnWire("config")'
    BY <2>1 DEF OnWire
  <2>5. (Taken => Taken') /\ (InForce => InForce')
    BY <2>1, <2>4 DEF Taken, InForce, Fresh, Applying
  <2>6. ASSUME stale' = {}, row.status = "approved"
        PROVE  (\A p \in Pushes : ReadRight(p)') /\ (Underway' \/ Taken' \/ InForce')
    <3>1. CASE UNCHANGED <<push, approver>>
      BY <2>1, <2>2, <2>3, <2>5, <2>6, <3>1 DEF Current, ReadRight, Underway, Busy
    <3>2. CASE Busy = {} /\ approver # "approve" /\ \A p \in Pushes : push'[p].pc = "free"
      BY <2>1, <2>2, <2>3, <2>5, <2>6, <3>2 DEF Current, ReadRight, Underway
    <3> QED BY <2>2, <2>6, <3>1, <3>2
  <2> QED BY <2>1, <2>6 DEF Current
<1> QED BY <1>1, <1>2 DEF Stream

\* A message of another type is taken from the wire.
LEMMA OtherReceived ==
  ASSUME wire \in Seq(Messages), wire # <<>>, wire' = Tail(wire),
         Head(wire).type # "config", contents' = contents
  PROVE  (Coming => Coming') /\ (OnWire("config")' => OnWire("config"))
<1>1. /\ Head(wire) = wire[1]
      /\ \A i \in DOMAIN wire' : i + 1 \in DOMAIN wire /\ wire'[i] = wire[i + 1]
  BY ReceiveWire
<1>2. /\ DOMAIN wire = 1..Len(wire) /\ Len(wire) \in Nat \ {0}
      /\ DOMAIN wire' = 1..(Len(wire) - 1)
  OBVIOUS
<1>3. ASSUME NEW i \in DOMAIN wire, wire[i].type = "config",
             \A j \in DOMAIN wire : j >= i /\ wire[j].type = "config" => Fresh(wire[j].config)
      PROVE  Coming'
  <2>1. i # 1
    BY <1>1, <1>3
  <2>2. i - 1 \in DOMAIN wire' /\ wire'[i - 1] = wire[i]
    BY <1>1, <1>2, <2>1
  <2>3. \A j \in DOMAIN wire' : j >= i - 1 /\ wire'[j].type = "config" =>
          wire'[j].config.has = contents'
    BY <1>1, <1>2, <1>3 DEF Fresh
  <2> QED BY <1>3, <2>2, <2>3 DEF Coming, Fresh
<1> QED BY <1>1, <1>3 DEF Coming, OnWire

\* A configuration is taken from the wire: those behind it are as fresh, and it
\* is fresh itself if there is none.
LEMMA ConfigReceived ==
  ASSUME wire \in Seq(Messages), wire # <<>>, wire' = Tail(wire), contents' = contents,
         Coming
  PROVE  Coming' \/ (~OnWire("config")' /\ Fresh(Head(wire).config))
<1>1. /\ Head(wire) = wire[1]
      /\ \A i \in DOMAIN wire' : i + 1 \in DOMAIN wire /\ wire'[i] = wire[i + 1]
  BY ReceiveWire
<1>2. /\ DOMAIN wire = 1..Len(wire) /\ Len(wire) \in Nat \ {0}
      /\ DOMAIN wire' = 1..(Len(wire) - 1)
  OBVIOUS
<1>3. PICK i \in DOMAIN wire :
        /\ wire[i].type = "config"
        /\ \A j \in DOMAIN wire : j >= i /\ wire[j].type = "config" => Fresh(wire[j].config)
  BY DEF Coming
<1>4. CASE i # 1
  <2>1. i - 1 \in DOMAIN wire' /\ wire'[i - 1] = wire[i]
    BY <1>1, <1>2, <1>4
  <2>2. \A j \in DOMAIN wire' : j >= i - 1 /\ wire'[j].type = "config" =>
          wire'[j].config.has = contents'
    BY <1>1, <1>2, <1>3 DEF Fresh
  <2> QED BY <1>3, <2>1, <2>2 DEF Coming, Fresh
<1>5. CASE i = 1
  <2>1. \A j \in DOMAIN wire' : wire'[j].type = "config" => wire'[j].config.has = contents'
    BY <1>1, <1>2, <1>3, <1>5 DEF Fresh
  <2>2. Fresh(Head(wire).config)
    BY <1>1, <1>2, <1>3, <1>5
  <2> QED BY <2>1, <2>2 DEF Coming, Fresh, OnWire
<1> QED BY <1>4, <1>5

\* What a step of the agent leaves of the server's side.
LEMMA AgentLeaves ==
  ASSUME Inv, Agent
  PROVE  /\ UNCHANGED <<contents, push, approver>>
         /\ row'.status = "approved" => row.status = "approved"
<1>1. row \in [status : Statuses, key : Nat, version : Nat]
  BY DEF Inv, Types
<1> QED
  BY <1>1 DEF Agent, Start, StartScheduler, AgentStops, ReceiveApproval, SaveIdentity,
     SaveIdentityFails, ReceiveRejection, ReceiveConfig, SaveTemp, Rename, SaveFails,
     UpdateSchedule, server

\* So only the way of the configuration matters.
LEMMA AgentCurrent ==
  ASSUME Inv, Current, Agent,
         stale' = {} => stale = {},
         stale' = {} /\ (Coming \/ Taken \/ InForce) => Coming' \/ Taken' \/ InForce'
  PROVE  Current'
  BY AgentLeaves DEF Current, ReadRight, Underway, Busy

\* A receive goroutine that takes a configuration while another is applied, or
\* before main has applied the saved one, is a reason.
LEMMA ReceiveCurrent ==
  ASSUME Inv, Rest, Current, NEW h \in Handlers, ReceiveConfig(h)
  PROVE  Current'
<1> USE DEF memory, server, history
<1>1. /\ wire \in Seq(Messages) /\ handler \in [Handlers -> HandlerStates]
      /\ proc' = proc /\ disk' = disk /\ contents' = contents
  BY DEF ReceiveConfig, Inv, Types
<1>2. /\ wire # <<>> /\ wire' = Tail(wire) /\ Head(wire).type = "config"
      /\ handler' = [handler EXCEPT ![h] = [pc |-> "save", config |-> Head(wire).config]]
      /\ stale' = {} => stale = {} /\ Applying = {} /\ proc # "boot"
  BY DEF ReceiveConfig
<1>3. OnWire("config")
  <2>1. Head(wire) = wire[1] /\ 1 \in DOMAIN wire
    BY <1>1, <1>2, ReceiveWire
  <2> QED BY <1>2, <2>1 DEF OnWire
<1>4. ASSUME stale' = {}, Coming, ~Coming'
      PROVE  Taken'
  <2>1. ~OnWire("config")' /\ Fresh(Head(wire).config)
    BY <1>1, <1>2, <1>4, ConfigReceived
  <2>2. Applying' = {h}
    BY <1>1, <1>2, <1>4 DEF Applying
  <2>3. handler'[h].pc = "save" /\ handler'[h].config = Head(wire).config
    BY <1>1, <1>2
  <2>4. proc' = "up"
    BY <1>1, <1>2, <1>4 DEF ReceiveConfig, Rest
  <2> QED BY <1>1, <2>1, <2>2, <2>3, <2>4 DEF Taken, Fresh
<1>5. stale' = {} /\ (Coming \/ Taken \/ InForce) => Coming' \/ Taken' \/ InForce'
  BY <1>3, <1>4 DEF Taken, InForce
<1> QED BY <1>2, <1>5, AgentCurrent DEF Agent

\* The steps of a handler.
LEMMA HandlerCurrent ==
  ASSUME Inv, Current, NEW h \in Handlers,
         SaveTemp(h) \/ Rename(h) \/ SaveFails(h) \/ UpdateSchedule(h)
  PROVE  Current'
<1> USE DEF memory, server, link, history
<1>1. /\ disk \in [known : BOOLEAN, key : Nat, config : Configs]
      /\ handler \in [Handlers -> HandlerStates]
      /\ proc' = proc /\ wire' = wire /\ contents' = contents
      /\ handler[h].pc # "free"
  BY DEF SaveTemp, Rename, SaveFails, UpdateSchedule, Inv, Types
<1>2. Coming => Coming'
  BY <1>1 DEF Coming, Fresh
<1>3. ~InForce
  BY <1>1 DEF InForce, Applying
<1>4. Taken => /\ Applying = {h} /\ Fresh(handler[h].config)
               /\ handler[h].pc = "schedule" => Fresh(disk.config)
               /\ proc = "up" /\ ~OnWire("config")'
  BY <1>1 DEF Taken, Applying, OnWire
<1>5. CASE SaveTemp(h) \/ Rename(h)
  <2>1. /\ handler'[h].pc \in {"rename", "schedule"}
        /\ handler'[h].config = handler[h].config
        /\ \A g \in Handlers \ {h} : handler'[g] = handler[g]
        /\ stale' = stale
    BY <1>1, <1>5 DEF SaveTemp, Rename, HandlerStates
  <2>2. handler'[h].pc = "schedule" => disk'.config = handler[h].config
    BY <1>1, <1>5 DEF SaveTemp, Rename, HandlerStates
  <2>3. Applying' = Applying
    BY <1>1, <2>1 DEF Applying
  <2>4. Taken => Taken'
    BY <1>1, <1>4, <2>1, <2>2, <2>3 DEF Taken, Fresh
  <2> QED BY <1>2, <1>3, <1>5, <2>1, <2>4, AgentCurrent DEF Agent
<1>6. CASE SaveFails(h)
  <2>1. stale' # {}
    BY <1>6 DEF SaveFails
  <2> QED BY <1>6, <2>1, AgentCurrent DEF Agent
<1>7. CASE UpdateSchedule(h)
  <2>1. /\ handler[h].pc = "schedule" /\ sched' = handler[h].config /\ disk' = disk
        /\ stale' = stale
    BY <1>7 DEF UpdateSchedule
  <2>2. Applying = {h} => Applying' = {}
    BY <1>1, <1>7 DEF UpdateSchedule, NoHandler, Applying
  <2>3. Taken => InForce'
    BY <1>1, <1>4, <2>1, <2>2 DEF InForce, Fresh
  <2> QED BY <1>2, <1>3, <1>7, <2>1, <2>3, AgentCurrent DEF Agent
<1> QED BY <1>5, <1>6, <1>7

\* The process starts and stops; the rest of the agent does not touch a
\* configuration.
LEMMA ProcessCurrent ==
  ASSUME Inv, Rest, Numbered, Current,
         \/ Start \/ StartScheduler \/ AgentStops
         \/ ReceiveApproval \/ SaveIdentity \/ SaveIdentityFails \/ ReceiveRejection
  PROVE  Current'
<1> USE DEF memory, server, link, history
<1>1. /\ disk \in [known : BOOLEAN, key : Nat, config : Configs]
      /\ wire \in Seq(Messages) /\ contents' = contents
  BY DEF Start, StartScheduler, AgentStops, ReceiveApproval, SaveIdentity,
     SaveIdentityFails, ReceiveRejection, Inv, Types
<1>2. Fresh(disk.config) => disk.config # NoConfig /\ disk.config # Torn
  <2>1. ASSUME disk.config = NoConfig PROVE ~Fresh(disk.config)
    <3>1. NoConfig.has["agent"] = 0 /\ "agent" \in Parts
      BY DEF NoConfig, Nothing, Parts
    <3>2. contents["agent"] # 0
      BY <3>1 DEF Current
    <3> QED BY <2>1, <3>1, <3>2 DEF Fresh
  <2> QED BY <2>1, CarriedIn, CarriedWhole
<1>3. CASE Start
  <2>1. /\ UNCHANGED <<wire, handler, sched, stale>> /\ disk'.config = disk.config
        /\ proc = "down" /\ proc' = "boot"
        /\ loaded' = IF disk.config = Torn THEN NoConfig ELSE disk.config
    BY <1>1, <1>3 DEF Start
  <2>2. (Coming => Coming') /\ ~Taken
    BY <1>1, <2>1 DEF Coming, Taken, Fresh
  <2>3. InForce => InForce'
    BY <1>1, <1>2, <2>1 DEF InForce, Fresh, OnWire, Applying
  <2> QED BY <1>3, <2>1, <2>2, <2>3, AgentCurrent DEF Agent
<1>4. CASE StartScheduler
  <2>1. /\ UNCHANGED <<wire, handler, stale, disk, loaded>>
        /\ proc = "boot" /\ proc' = "up"
        /\ sched' = IF loaded # NoConfig THEN loaded ELSE sched
    BY <1>4 DEF StartScheduler
  <2>2. (Coming => Coming') /\ ~Taken
    BY <1>1, <2>1 DEF Coming, Taken, Fresh
  <2>3. InForce => InForce'
    BY <1>1, <1>2, <2>1 DEF InForce, Fresh, OnWire, Applying
  <2> QED BY <1>4, <2>1, <2>2, <2>3, AgentCurrent DEF Agent
<1>5. CASE AgentStops
  <2>1. /\ wire' = <<>> /\ disk' = disk /\ proc' = "down"
        /\ \A h \in Handlers : handler'[h].pc = "free"
        /\ stale' = {} => stale = {} /\ ~OnWire("config") /\ Applying = {}
    BY <1>5 DEF AgentStops, NoHandler
  <2>2. stale' = {} => ~Coming /\ ~Taken
    BY <2>1 DEF Coming, Taken, OnWire
  <2>3. InForce => InForce'
    BY <1>1, <2>1 DEF InForce, Fresh, OnWire, Applying
  <2> QED BY <1>5, <2>1, <2>2, <2>3, AgentCurrent DEF Agent
<1>6. CASE ReceiveApproval \/ ReceiveRejection
  <2>1. /\ wire # <<>> /\ wire' = Tail(wire) /\ Head(wire).type # "config"
        /\ UNCHANGED <<proc, disk, handler, sched, loaded, stale>>
    BY <1>6 DEF ReceiveApproval, ReceiveRejection
  <2>2. (Coming => Coming') /\ (OnWire("config")' => OnWire("config"))
    BY <1>1, <2>1, OtherReceived
  <2>3. (Taken => Taken') /\ (InForce => InForce')
    BY <1>1, <2>1, <2>2 DEF Taken, InForce, Fresh, Applying
  <2> QED BY <1>6, <2>1, <2>2, <2>3, AgentCurrent DEF Agent
<1>7. CASE SaveIdentity \/ SaveIdentityFails
  <2>1. /\ UNCHANGED <<wire, proc, handler, sched, loaded, stale>>
        /\ disk'.config = disk.config
    BY <1>1, <1>7 DEF SaveIdentity, SaveIdentityFails
  <2>2. (Coming => Coming') /\ (Taken => Taken') /\ (InForce => InForce')
    BY <1>1, <2>1 DEF Coming, Taken, InForce, Fresh, Applying, OnWire
  <2> QED BY <1>7, <2>1, <2>2, AgentCurrent DEF Agent
<1> QED BY <1>3, <1>4, <1>5, <1>6, <1>7

\* Every step keeps the contents of the latest edit on their way.
LEMMA CurrentStep ==
  ASSUME Inv, Rest, Numbered, Current, [Next]_vars
  PROVE  Current'
<1>1. CASE Pushing
  BY <1>1, CurrentPushing DEF Pushing
<1>2. CASE Agent
  BY <1>2, ProcessCurrent, ReceiveCurrent, HandlerCurrent DEF Agent
<1>3. CASE UNCHANGED vars
  BY <1>3 DEF vars, server, link, memory, history, Current, ReadRight, Underway, Busy,
     Coming, Taken, InForce, Fresh, OnWire, Applying
<1> QED BY <1>1, <1>2, <1>3, CurrentAdministration, CurrentStream DEF Next

-----------------------------------------------------------------------------
\* The theorems.

Sound == Inv /\ Rest /\ Delivered /\ Numbered /\ Startable /\ Current

\* Nothing is approved, edited or saved at first.
LEMMA InitSound == Init => Sound
<1> SUFFICES ASSUME Init PROVE Sound
  OBVIOUS
<1>1. Inv
  BY InitInv
<1>2. Rest
  BY DEF Init, Rest
<1>3. Delivered
  BY DEF Init, Delivered, OnWire
<1>4. Carried = {}
  BY DEF Init, Carried, Sent, Applying, NoPush, NoHandler
<1>5. Numbered
  BY <1>4 DEF Numbered
<1>6. Startable
  BY DEF Init, Startable
<1>7. Current
  BY DEF Init, Current
<1> QED BY <1>1, <1>2, <1>3, <1>5, <1>6, <1>7 DEF Sound

\* Every step of the server, of the stream and of the agent keeps the types, the
\* versions, the key on its way, the saved configuration and the contents of the
\* latest edit.
THEOREM SoundAlways == Spec => []Sound
<1>1. Sound /\ [Next]_vars => Sound'
  BY NextInv, RestStep, DeliveredStep, NumberedStep, StartableStep, CurrentStep DEF Sound
<1> QED BY InitSound, <1>1, PTL DEF Spec

\* Type correctness; a stream that is not up carries nothing.
THEOREM TypeCorrect == Spec => []TypeOK
<1>1. Sound => TypeOK
  BY DEF Sound, Inv, Types, Rest, TypeOK, PushStates, HandlerStates, Messages
<1> QED BY SoundAlways, <1>1, PTL

\* Two different configurations never carry one version (UpdateConfigVersion),
\* for any number of pushes that overlap, fail and are overtaken.
THEOREM VersionsOfTheirOwn == Spec => []VersionsDistinct
<1>1. Sound => VersionsDistinct
  BY DEF Sound, Numbered, Carried, VersionsDistinct
<1> QED BY SoundAlways, <1>1, PTL

\* Once a configuration was saved (atomicfile.Write), every later start has a
\* schedule, whenever the process stops and whichever saves fail.
THEOREM StartsWithSchedule == Spec => []StartsFromSaved
<1>1. Sound => StartsFromSaved
  BY DEF Sound, Startable, StartsFromSaved
<1> QED BY SoundAlways, <1>1, PTL

\* The agent that was approved has its key, in the file and in memory, unless the
\* approval was skipped, refused, lost on the stream or not saved.
THEOREM LockoutsKnown == Spec => []OnlyKnownLockout
<1>1. Sound => OnlyKnownLockout
  BY DEF Sound, Delivered, OnlyKnownLockout
<1> QED BY SoundAlways, <1>1, PTL

\* When nothing is under way the agent runs on the contents of the database and
\* has saved them, unless one of the known reasons applies.
THEOREM StalenessKnown == Spec => []OnlyKnownStaleness
<1>1. Sound => OnlyKnownStaleness
  <2> SUFFICES ASSUME Sound, Settled, stale = {}
               PROVE  sched.has = contents /\ disk.config.has = contents
    BY DEF OnlyKnownStaleness
  <2>1. ~Underway /\ ~Coming /\ ~Taken
    BY DEF Settled, Underway, Coming, Taken
  <2> QED BY <2>1 DEF Sound, Current, Settled, InForce, Fresh
<1> QED BY SoundAlways, <1>1, PTL
=============================================================================
