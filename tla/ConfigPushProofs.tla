-------------------------- MODULE ConfigPushProofs --------------------------
(***************************************************************************)
(* KeyValid and OnlyApprovedConfigured of ConfigPush, for every number of  *)
(* pushes, handlers, edits, faults and losses, and every buffer size.      *)
(***************************************************************************)
EXTENDS ConfigPush, TLAPS

PushStates    == [pc : {"free", "lookup", "online", "row", "plans", "shared",
                        "version", "send"}, config : Configs]
HandlerStates == [pc : {"free", "save", "rename", "schedule"}, config : Configs]
Messages      == [type : {"approval", "rejection", "config"}, key : Nat,
                  config : Configs]

(***************************************************************************)
(* What every key and every configuration must satisfy, wherever it is.    *)
(* A row gets its key when it is approved, which happens once; and until   *)
(* then no push passes GetAgent, so no configuration exists.               *)
(***************************************************************************)
Rightful(k) == k = NoKey \/ k = row.key

Admitted == row.status \in {"approved", "deleted"}

Types ==
  /\ row \in [status : Statuses, key : Nat, version : Nat]
  /\ contents \in Revisions
  /\ push \in [Pushes -> PushStates]
  /\ wire \in Seq(Messages)
  /\ disk \in [known : BOOLEAN, key : Nat, config : Configs]
  /\ key \in Nat
  /\ loaded \in Configs
  /\ handler \in [Handlers -> HandlerStates]
  /\ sched \in Configs

Keys ==
  /\ row.status \in {"none", "pending"} => row.key = NoKey
  /\ Rightful(key)
  /\ Rightful(disk.key)
  /\ \A i \in DOMAIN wire : Rightful(wire[i].key)

Origins ==
  ~Admitted =>
    /\ \A p \in Pushes : push[p].pc \notin {"plans", "shared", "version", "send"}
    /\ ~OnWire("config")
    /\ Applying = {}
    /\ disk.config = NoConfig
    /\ loaded = NoConfig
    /\ sched = NoConfig

Inv == Types /\ Keys /\ Origins

-----------------------------------------------------------------------------
\* Lemmas about what the actions are built from.

\* The empty configuration, and the idle activations, have their types.
LEMMA Constants ==
  /\ NoConfig \in Configs /\ NoConfig # Torn
  /\ NoPush \in PushStates
  /\ NoHandler \in HandlerStates
<1>1. Nothing \in Revisions
  BY DEF Nothing, Revisions
<1>2. NoConfig \in Configs
  BY <1>1 DEF NoConfig, Configs
<1>3. Nothing["agent"] # [p \in Parts |-> 1]["agent"]
  BY DEF Nothing, Parts
<1> QED
  BY <1>2, <1>3 DEF NoConfig, Torn, NoPush, NoHandler, PushStates, HandlerStates

\* A message has its type; only a push puts a configuration in one.
LEMMA MessageTypes ==
  /\ \A k \in Nat : Approval(k) \in Messages
  /\ Rejection \in Messages
  /\ \A c \in Configs : Message(c) \in Messages
  BY Constants DEF Approval, Rejection, Message, Messages, NoKey

\* A message that is sent goes behind those on the wire.
LEMMA SendWire ==
  ASSUME wire \in Seq(Messages), NEW m \in Messages, Send(m)
  PROVE  /\ wire' \in Seq(Messages)
         /\ DOMAIN wire' = DOMAIN wire \cup {Len(wire) + 1}
         /\ \A i \in DOMAIN wire : wire'[i] = wire[i]
         /\ wire'[Len(wire) + 1] = m
  BY DEF Send

\* A message that is received was the first of them; the rest move up.
LEMMA ReceiveWire ==
  ASSUME wire \in Seq(Messages), wire # <<>>, wire' = Tail(wire)
  PROVE  /\ wire' \in Seq(Messages)
         /\ Head(wire) = wire[1] /\ 1 \in DOMAIN wire
         /\ Head(wire) \in Messages
         /\ \A i \in DOMAIN wire' : i + 1 \in DOMAIN wire /\ wire'[i] = wire[i + 1]
<1>1. Len(wire) \in Nat \ {0}
  OBVIOUS
<1> QED
  BY <1>1

\* The initial state satisfies the invariant: there is no key and no configuration.
LEMMA InitInv == Init => Inv
<1> SUFFICES ASSUME Init PROVE Inv
  OBVIOUS
<1>1. Types
  BY Constants DEF Init, Types, Statuses, Revisions, Parts, NoKey, Messages
<1>2. Keys
  BY DEF Init, Keys, Rightful, NoKey
<1>3. Origins
  BY DEF Init, Origins, OnWire, Applying, NoPush, NoHandler
<1> QED
  BY <1>1, <1>2, <1>3 DEF Inv

-----------------------------------------------------------------------------
\* Steps of the server that touch the row.

\* An approval gives a row its first key, so whatever is held is still empty.
LEMMA ApproveStep == Inv /\ ApproveAgent => Inv'
<1> SUFFICES ASSUME Inv, ApproveAgent PROVE Inv'
  OBVIOUS
<1> USE DEF ApproveAgent, link, memory
<1>1. row' \in [status : Statuses, key : Nat, version : Nat] /\ row'.status = "approved"
  <2>1. row \in [status : Statuses, key : Nat, version : Nat]
    BY DEF Inv, Types
  <2>2. row' = [status |-> "approved", key |-> row.key + 1, version |-> row.version]
    BY <2>1
  <2> QED
    BY <2>1, <2>2 DEF Statuses
<1>2. Types'
  BY <1>1 DEF Inv, Types
<1>3. Keys'
  BY <1>1 DEF Inv, Keys, Types, Rightful, NoKey
<1>4. Origins'
  BY <1>1 DEF Origins, Admitted
<1> QED
  BY <1>2, <1>3, <1>4 DEF Inv

\* A rejection and a deletion change the status alone, to one that has a key
\* or needs none.
LEMMA StatusStep == Inv /\ (RejectAgent \/ DeleteAgent) => Inv'
<1> SUFFICES ASSUME Inv, RejectAgent \/ DeleteAgent PROVE Inv'
  OBVIOUS
<1> USE DEF RejectAgent, DeleteAgent, link, memory
<1>1. /\ row' \in [status : Statuses, key : Nat, version : Nat]
      /\ row'.status \in {"rejected", "deleted"} /\ row'.key = row.key
      /\ Admitted => Admitted'
  BY DEF Inv, Types, Statuses, Admitted, Present
<1>2. Types'
  BY <1>1 DEF Inv, Types
<1>3. Keys'
  BY <1>1 DEF Inv, Keys, Rightful
<1>4. Origins'
  BY <1>1 DEF Inv, Origins, OnWire, Applying
<1> QED
  BY <1>2, <1>3, <1>4 DEF Inv

\* A push that increments the version leaves status and key alone.
LEMMA VersionStep == \A p \in Pushes : Inv /\ UpdateConfigVersion(p) => Inv'
<1> SUFFICES ASSUME NEW p \in Pushes, Inv, UpdateConfigVersion(p) PROVE Inv'
  OBVIOUS
<1> USE DEF UpdateConfigVersion, GoOn, link, memory
<1>1. /\ row' \in [status : Statuses, key : Nat, version : Nat]
      /\ row'.status = row.status /\ row'.key = row.key
  <2>1. row \in [status : Statuses, key : Nat, version : Nat]
    BY DEF Inv, Types
  <2>2. row' = [status |-> row.status, key |-> row.key, version |-> row.version + 1]
    BY <2>1
  <2> QED
    BY <2>1, <2>2
<1>2. push' \in [Pushes -> PushStates]
  <2>1. push \in [Pushes -> PushStates] /\ push[p].config \in Configs
    BY DEF Inv, Types, PushStates
  <2>2. row'.version \in Nat
    BY <1>1
  <2>3. [push[p].config EXCEPT !.version = row'.version] \in Configs
    BY <2>1, <2>2 DEF Configs
  <2> QED
    BY <2>1, <2>3 DEF PushStates
<1>3. Types'
  BY <1>1, <1>2 DEF Inv, Types
<1>4. Keys'
  BY <1>1 DEF Inv, Keys, Rightful
<1>5. Admitted
  BY DEF Inv, Origins
<1>6. Origins'
  BY <1>1, <1>5 DEF Origins, Admitted
<1> QED
  BY <1>3, <1>4, <1>6 DEF Inv

-----------------------------------------------------------------------------
\* Steps of the server that leave the row alone.

\* Something is sent that the agent may have.
Sends == \E m \in Messages : /\ Send(m)
                             /\ Rightful(m.key)
                             /\ m.type = "config" => Admitted

\* What such a step may do: it moves pushes, and past GetAgent only for an
\* approved row; what it sends carries no key or that of the row, and no
\* configuration unless the row is admitted.
ServerStep ==
  /\ UNCHANGED <<row, disk, memory>>
  /\ contents' \in Revisions
  /\ push' \in [Pushes -> PushStates]
  /\ \A p \in Pushes : push'[p].pc \in {"plans", "shared", "version", "send"} => Admitted
  /\ \/ UNCHANGED wire
     \/ wire' = <<>>
     \/ Sends

\* A step of that kind preserves the invariant.
LEMMA ServerStepInv == Inv /\ ServerStep => Inv'
<1> SUFFICES ASSUME Inv, ServerStep PROVE Inv'
  OBVIOUS
<1>1. /\ wire' \in Seq(Messages)
      /\ \A i \in DOMAIN wire' : Rightful(wire'[i].key)
      /\ ~Admitted => \A i \in DOMAIN wire' : wire'[i].type # "config"
  <2>1. CASE UNCHANGED wire
    BY <2>1 DEF Inv, Types, Keys, Origins, OnWire
  <2>2. CASE wire' = <<>>
    BY <2>2
  <2>3. CASE Sends
    <3>1. PICK m \in Messages : /\ Send(m)
                                /\ Rightful(m.key)
                                /\ m.type = "config" => Admitted
      BY <2>3, Zenon DEF Sends
    <3>2. wire \in Seq(Messages)
      BY DEF Inv, Types
    <3>3. /\ \A i \in DOMAIN wire : Rightful(wire[i].key)
          /\ ~Admitted => \A i \in DOMAIN wire : wire[i].type # "config"
      BY DEF Inv, Keys, Origins, OnWire
    <3>4. /\ wire' \in Seq(Messages)
          /\ DOMAIN wire' = DOMAIN wire \cup {Len(wire) + 1}
          /\ \A i \in DOMAIN wire : wire'[i] = wire[i]
          /\ wire'[Len(wire) + 1] = m
      BY <3>1, <3>2, SendWire
    <3>5. \A i \in DOMAIN wire' : \/ i \in DOMAIN wire /\ wire'[i] = wire[i]
                                  \/ wire'[i] = m
      BY <3>4
    <3>6. \A i \in DOMAIN wire' : Rightful(wire'[i].key)
      BY <3>1, <3>3, <3>5
    <3>7. ~Admitted => \A i \in DOMAIN wire' : wire'[i].type # "config"
      BY <3>1, <3>3, <3>5
    <3> QED
      BY <3>4, <3>6, <3>7
  <2> QED
    BY <2>1, <2>2, <2>3 DEF ServerStep
<1>2. Types'
  BY <1>1 DEF Inv, Types, ServerStep, memory
<1>3. Keys'
  BY <1>1 DEF Inv, Keys, Rightful, ServerStep, memory
<1>4. Origins'
  BY <1>1 DEF Inv, Origins, OnWire, Applying, Admitted, ServerStep, memory
<1> QED
  BY <1>2, <1>3, <1>4 DEF Inv

\* A push that starts, ends or goes on has its type; it is past GetAgent only
\* if it goes there.
LEMMA PushMoves ==
  ASSUME push \in [Pushes -> PushStates], NEW p \in Pushes,
         NEW pc \in {"free", "lookup", "online", "row", "plans", "shared", "version", "send"},
         NEW c \in Configs,
         push' = [push EXCEPT ![p] = [pc |-> pc, config |-> c]]
  PROVE  /\ push' \in [Pushes -> PushStates]
         /\ push'[p].pc = pc
         /\ \A q \in Pushes \ {p} : push'[q] = push[q]
  BY DEF PushStates

\* Approvals, rejections and edits.
LEMMA AdministrationStep ==
  Inv /\ Administration /\ ~(ApproveAgent \/ RejectAgent \/ DeleteAgent) => ServerStep
<1> SUFFICES ASSUME Inv, Administration, ~(ApproveAgent \/ RejectAgent \/ DeleteAgent)
             PROVE  ServerStep
  OBVIOUS
<1> USE DEF memory, link
<1>0. /\ row \in [status : Statuses, key : Nat, version : Nat]
      /\ push \in [Pushes -> PushStates] /\ contents \in Revisions
      /\ \A p \in Pushes : push[p].pc \in {"plans", "shared", "version", "send"} => Admitted
  BY DEF Inv, Types, Origins
<1>1. CASE SkipApproval
  BY <1>0, <1>1 DEF SkipApproval, ServerStep
<1>2. CASE SendRejection
  <2>1. UNCHANGED wire \/ Sends
    BY <1>2, MessageTypes DEF SendRejection, SendRefused, Sends, Rejection, Rightful
  <2> QED
    BY <1>0, <1>2, <2>1 DEF SendRejection, ServerStep
<1>3. ASSUME NEW part \in Parts, Changed(part) PROVE contents' \in Revisions
  BY <1>0, <1>3 DEF Changed, Revisions
<1>4. CASE MovePlanAway \/ ApplyFails
  BY <1>0, <1>3, <1>4 DEF MovePlanAway, ApplyFails, ServerStep, Parts
<1>5. ASSUME NEW p \in Pushes, NEW pc \in {"lookup", "online"}, StartPush(p, pc)
      PROVE  /\ push' \in [Pushes -> PushStates]
             /\ \A q \in Pushes : push'[q].pc \in {"plans", "shared", "version", "send"} => Admitted
  <2>1. push' = [push EXCEPT ![p] = [pc |-> pc, config |-> NoConfig]]
    <3>1. [NoPush EXCEPT !.pc = pc] = [pc |-> pc, config |-> NoConfig]
      BY DEF NoPush
    <3> QED
      BY <1>5, <3>1 DEF StartPush
  <2> QED
    BY <1>0, <2>1, PushMoves, Constants
<1>6. ASSUME NEW p \in Pushes, SendApproval(p) PROVE ServerStep
  <2>1. UNCHANGED wire \/ Sends
    <3>1. Approval(row.key) \in Messages /\ Rightful(Approval(row.key).key)
          /\ Approval(row.key).type # "config"
      BY <1>0, MessageTypes DEF Approval, Rightful
    <3> QED
      BY <1>6, <3>1 DEF SendApproval, SendRefused, Sends
  <2> QED
    BY <1>0, <1>5, <1>6, <2>1 DEF SendApproval, ServerStep
<1>7. ASSUME NEW p \in Pushes, EditAgent(p) \/ EditPlan(p) PROVE ServerStep
  <2>1. PICK part \in Parts : EditOwn(part, p)
    BY <1>7 DEF EditAgent, EditPlan, Parts
  <2> QED
    BY <1>0, <1>3, <1>5, <2>1 DEF EditOwn, ServerStep
<1>8. ASSUME NEW p \in Pushes, EditShared(p) PROVE ServerStep
  BY <1>0, <1>3, <1>5, <1>8 DEF EditShared, ServerStep, Parts
<1> QED
  BY <1>1, <1>2, <1>4, <1>6, <1>7, <1>8 DEF Administration

\* The calls of PushConfigToAgent, but for the one that increments the version.
LEMMA PushingStep ==
  Inv /\ Pushing /\ ~(\E p \in Pushes : UpdateConfigVersion(p)) => ServerStep
<1> SUFFICES ASSUME Inv, NEW p \in Pushes,
                    \/ LookUp(p) \/ CheckOnline(p) \/ GetAgent(p) \/ ListPlans(p)
                    \/ LoadShared(p) \/ ListHooksFails(p) \/ SendConfig(p) \/ PushFails(p)
             PROVE  ServerStep
  BY DEF Pushing
<1> USE DEF memory, link
<1>0. /\ push \in [Pushes -> PushStates] /\ contents \in Revisions
      /\ push[p] \in PushStates /\ push[p].config \in Configs
      /\ \A q \in Pushes : push[q].pc \in {"plans", "shared", "version", "send"} => Admitted
  BY DEF Inv, Types, Origins, PushStates
<1> DEFINE Moved ==
      /\ push' \in [Pushes -> PushStates]
      /\ \A q \in Pushes : push'[q].pc \in {"plans", "shared", "version", "send"} => Admitted
<1>1. ASSUME NEW why, GiveUp(p, why) PROVE Moved
  <2>1. push' = [push EXCEPT ![p] = [pc |-> "free", config |-> NoConfig]]
    BY <1>1 DEF GiveUp, NoPush
  <2> QED
    BY <1>0, <2>1, PushMoves, Constants
<1>2. ASSUME NEW pc \in {"lookup", "online", "row", "plans", "shared", "version", "send"},
             NEW c \in Configs, GoOn(p, pc, c),
             pc \in {"plans", "shared", "version", "send"} => Admitted
      PROVE  Moved
  BY <1>0, <1>2, PushMoves DEF GoOn
<1>3. ASSUME NEW from, NEW to \in {"online", "row"}, Step(p, from, to) PROVE Moved
  <2>1. push' = [push EXCEPT ![p] = [pc |-> to, config |-> push[p].config]]
    <3>1. [push[p] EXCEPT !.pc = to] = [pc |-> to, config |-> push[p].config]
      BY <1>0 DEF PushStates
    <3>2. push' = [push EXCEPT ![p] = [push[p] EXCEPT !.pc = to]]
      BY <1>3 DEF Step
    <3> QED
      BY <3>1, <3>2
  <2> QED
    BY <1>0, <2>1, PushMoves
<1>4. ASSUME NEW part \in Parts, NEW to \in {"plans", "shared", "version"}, Load(p, part, to),
             Admitted
      PROVE  Moved
  <2>1. [push[p].config EXCEPT !.has = [@ EXCEPT ![part] = contents[part]]] \in Configs
    BY <1>0 DEF Configs, Revisions
  <2> QED
    BY <1>2, <1>4, <2>1 DEF Load
<1> HIDE DEF Moved
<1>5. CASE LookUp(p)
  BY <1>0, <1>3, <1>5 DEF LookUp, ServerStep, Moved
<1>6. CASE CheckOnline(p)
  <2>1. Moved
    BY <1>1, <1>3, <1>6 DEF CheckOnline
  <2> QED
    BY <1>0, <1>6, <2>1 DEF CheckOnline, ServerStep, Moved
<1>7. CASE GetAgent(p)
  <2>1. Moved
    BY <1>1, <1>4, <1>7 DEF GetAgent, Admitted, Parts
  <2> QED
    BY <1>0, <1>7, <2>1 DEF GetAgent, ServerStep, Moved
<1>8. CASE ListPlans(p) \/ LoadShared(p)
  <2>1. Moved
    BY <1>0, <1>4, <1>8 DEF ListPlans, LoadShared, Parts
  <2> QED
    BY <1>0, <1>8, <2>1 DEF ListPlans, LoadShared, ServerStep, Moved
<1>9. CASE ListHooksFails(p)
  <2>1. [push[p].config EXCEPT !.has = [@ EXCEPT !["plans"] = 0,
           !["shared"] = contents["shared"]]] \in Configs
    BY <1>0 DEF Configs, Revisions, Parts
  <2>2. Moved
    BY <1>0, <1>2, <1>9, <2>1 DEF ListHooksFails
  <2> QED
    BY <1>0, <1>9, <2>2 DEF ListHooksFails, ServerStep, Moved
<1>10. CASE SendConfig(p)
  <2>1. Moved
    <3>1. push' = [push EXCEPT ![p] = [pc |-> "free", config |-> NoConfig]]
      BY <1>10 DEF SendConfig, GiveUp, NoPush
    <3> QED
      BY <1>0, <3>1, PushMoves, Constants DEF Moved
  <2>2. UNCHANGED wire \/ Sends
    <3>1. Message(push[p].config) \in Messages /\ Rightful(Message(push[p].config).key)
      BY <1>0, MessageTypes DEF Message, Rightful
    <3>2. Admitted
      BY <1>0, <1>10 DEF SendConfig
    <3> QED
      BY <1>10, <3>1, <3>2 DEF SendConfig, SendRefused, Sends
  <2> QED
    BY <1>0, <1>10, <2>1, <2>2 DEF SendConfig, ServerStep, Moved
<1>11. CASE PushFails(p)
  <2>1. Moved
    BY <1>1, <1>11 DEF PushFails
  <2> QED
    BY <1>0, <1>11, <2>1 DEF PushFails, ServerStep, Moved
<1> QED
  BY <1>5, <1>6, <1>7, <1>8, <1>9, <1>10, <1>11

\* The stream begins and ends, and the server restarts.
LEMMA StreamStep == Inv /\ Stream => ServerStep
<1> SUFFICES ASSUME Inv, Stream PROVE ServerStep
  OBVIOUS
<1>0. /\ push \in [Pushes -> PushStates] /\ contents \in Revisions
      /\ \A p \in Pushes : push[p].pc \in {"plans", "shared", "version", "send"} => Admitted
  BY DEF Inv, Types, Origins
<1>1. CASE Hello \/ Register \/ StreamEnds
  BY <1>0, <1>1 DEF Hello, Register, StreamEnds, ServerStep, server, memory
<1>2. CASE ServerRestart
  <2>1. /\ push' \in [Pushes -> PushStates]
        /\ \A p \in Pushes : push'[p].pc = "free"
    BY <1>2, Constants DEF ServerRestart, NoPush
  <2> QED
    BY <1>0, <1>2, <2>1 DEF ServerRestart, ServerStep, memory
<1> QED
  BY <1>1, <1>2 DEF Stream

-----------------------------------------------------------------------------
\* Steps of the agent.

\* What a step after main has started may do: a key it takes up is the row's, a
\* configuration it takes up is one it was sent.
AgentStep ==
  /\ UNCHANGED <<row, contents, push>>
  /\ \/ UNCHANGED wire
     \/ wire' = <<>>
     \/ wire # <<>> /\ wire' = Tail(wire)
  /\ disk' \in [known : BOOLEAN, key : Nat, config : Configs]
  /\ key' \in Nat /\ Rightful(key') /\ Rightful(disk'.key)
  /\ loaded' \in Configs /\ sched' \in Configs
  /\ handler' \in [Handlers -> HandlerStates]
  /\ ~Admitted => /\ Applying' = {}
                  /\ disk'.config = NoConfig /\ loaded' = NoConfig /\ sched' = NoConfig

\* A step of that kind preserves the invariant.
LEMMA AgentStepInv == Inv /\ AgentStep => Inv'
<1> SUFFICES ASSUME Inv, AgentStep PROVE Inv'
  OBVIOUS
<1>1. /\ wire' \in Seq(Messages)
      /\ \A i \in DOMAIN wire' : Rightful(wire'[i].key)
      /\ ~Admitted => \A i \in DOMAIN wire' : wire'[i].type # "config"
  <2>1. CASE UNCHANGED wire
    BY <2>1 DEF Inv, Types, Keys, Origins, OnWire
  <2>2. CASE wire' = <<>>
    BY <2>2
  <2>3. CASE wire # <<>> /\ wire' = Tail(wire)
    <3>1. wire \in Seq(Messages)
      BY DEF Inv, Types
    <3>2. /\ \A i \in DOMAIN wire : Rightful(wire[i].key)
          /\ ~Admitted => \A i \in DOMAIN wire : wire[i].type # "config"
      BY DEF Inv, Keys, Origins, OnWire
    <3>3. /\ wire' \in Seq(Messages)
          /\ \A i \in DOMAIN wire' : i + 1 \in DOMAIN wire /\ wire'[i] = wire[i + 1]
      BY <2>3, <3>1, ReceiveWire
    <3> QED
      BY <3>2, <3>3
  <2> QED
    BY <2>1, <2>2, <2>3 DEF AgentStep
<1>2. Types'
  BY <1>1 DEF Inv, Types, AgentStep
<1>3. Keys'
  BY <1>1 DEF Inv, Keys, Rightful, AgentStep
<1>4. Origins'
  BY <1>1 DEF Inv, Origins, OnWire, Admitted, AgentStep
<1> QED
  BY <1>2, <1>3, <1>4 DEF Inv

\* A first start registers: there is a row, and still no key in it.
LEMMA StartStep == Inv /\ Start => Inv'
<1> SUFFICES ASSUME Inv, Start PROVE Inv'
  OBVIOUS
<1> USE DEF Start, link
<1>1. /\ row \in [status : Statuses, key : Nat, version : Nat]
      /\ disk \in [known : BOOLEAN, key : Nat, config : Configs]
  BY DEF Inv, Types
<1>2. /\ row' \in [status : Statuses, key : Nat, version : Nat]
      /\ row'.key = row.key
      /\ row'.status = row.status \/ (row.status = "none" /\ row'.status = "pending")
  BY <1>1 DEF Statuses
<1>3. /\ disk' \in [known : BOOLEAN, key : Nat, config : Configs]
      /\ disk'.key = disk.key /\ disk'.config = disk.config
  BY <1>1
<1>4. key' = disk.key /\ loaded' \in {NoConfig, disk.config}
  OBVIOUS
<1>5. UNCHANGED <<contents, push, wire, handler, sched>>
  OBVIOUS
<1>6. Types'
  BY <1>1, <1>2, <1>3, <1>4, <1>5, Constants DEF Inv, Types
<1>7. Keys'
  BY <1>2, <1>3, <1>4, <1>5 DEF Inv, Keys, Rightful
<1>8. Origins'
  BY <1>2, <1>3, <1>4, <1>5 DEF Inv, Origins, OnWire, Applying, Admitted
<1> QED
  BY <1>6, <1>7, <1>8 DEF Inv

\* Every other step of the agent is an AgentStep.
LEMMA AgentStepTaken == Inv /\ Agent /\ ~Start => AgentStep
<1> SUFFICES ASSUME Inv, Agent, ~Start PROVE AgentStep
  OBVIOUS
<1> USE DEF server, link
<1>0. /\ wire \in Seq(Messages)
      /\ disk \in [known : BOOLEAN, key : Nat, config : Configs]
      /\ key \in Nat /\ Rightful(key) /\ Rightful(disk.key)
      /\ loaded \in Configs /\ sched \in Configs
      /\ handler \in [Handlers -> HandlerStates]
      /\ \A i \in DOMAIN wire : Rightful(wire[i].key)
      /\ ~Admitted => /\ \A i \in DOMAIN wire : wire[i].type # "config"
                      /\ \A h \in Handlers : handler[h].pc = "free"
                      /\ disk.config = NoConfig /\ loaded = NoConfig /\ sched = NoConfig
  BY DEF Inv, Types, Keys, Origins, OnWire, Applying
<1>1. CASE StartScheduler
  BY <1>0, <1>1 DEF StartScheduler, AgentStep, Applying
<1>2. CASE AgentStops
  <2>1. handler' \in [Handlers -> HandlerStates] /\ Applying' = {}
    BY <1>2, Constants DEF AgentStops, Applying, NoHandler
  <2> QED
    BY <1>0, <1>2, <2>1, Constants DEF AgentStops, AgentStep, NoKey, Rightful
<1>3. CASE ReceiveApproval
  <2>1. Head(wire).key \in Nat /\ Rightful(Head(wire).key)
    <3>1. wire # <<>> /\ wire' = Tail(wire)
      BY <1>3 DEF ReceiveApproval
    <3>2. Head(wire) \in Messages /\ Head(wire) = wire[1] /\ 1 \in DOMAIN wire
      BY <1>0, <3>1, ReceiveWire
    <3> QED
      BY <1>0, <3>2 DEF Messages
  <2> QED
    BY <1>0, <1>3, <2>1 DEF ReceiveApproval, AgentStep, Applying
<1>4. CASE SaveIdentity
  <2>1. /\ disk' \in [known : BOOLEAN, key : Nat, config : Configs]
        /\ disk'.key = key /\ disk'.config = disk.config
    BY <1>0, <1>4 DEF SaveIdentity
  <2> QED
    BY <1>0, <1>4, <2>1 DEF SaveIdentity, AgentStep, Applying
<1>5. CASE SaveIdentityFails
  BY <1>0, <1>5 DEF SaveIdentityFails, AgentStep, Applying
<1>6. CASE ReceiveRejection
  BY <1>0, <1>6 DEF ReceiveRejection, AgentStep, Applying, memory
<1>7. ASSUME NEW h \in Handlers, ReceiveConfig(h) PROVE AgentStep
  <2>1. Admitted /\ Head(wire).config \in Configs
    <3>1. wire # <<>> /\ wire' = Tail(wire) /\ Head(wire).type = "config"
      BY <1>7 DEF ReceiveConfig
    <3>2. Head(wire) \in Messages /\ Head(wire) = wire[1] /\ 1 \in DOMAIN wire
      BY <1>0, <3>1, ReceiveWire
    <3> QED
      BY <1>0, <3>1, <3>2 DEF Messages
  <2>2. handler' \in [Handlers -> HandlerStates]
    BY <1>0, <1>7, <2>1 DEF ReceiveConfig, HandlerStates
  <2> QED
    BY <1>0, <1>7, <2>1, <2>2 DEF ReceiveConfig, AgentStep
<1>8. ASSUME NEW h \in Handlers, SaveTemp(h) \/ SaveFails(h) PROVE AgentStep
  <2>1. Admitted
    BY <1>0, <1>8 DEF SaveTemp, SaveFails
  <2>2. handler' \in [Handlers -> HandlerStates]
    BY <1>0, <1>8 DEF SaveTemp, SaveFails, HandlerStates
  <2> QED
    BY <1>0, <1>8, <2>1, <2>2 DEF SaveTemp, SaveFails, AgentStep
<1>9. ASSUME NEW h \in Handlers, Rename(h) PROVE AgentStep
  <2>1. Admitted /\ handler[h].config \in Configs
    BY <1>0, <1>9 DEF Rename, HandlerStates
  <2>2. handler' \in [Handlers -> HandlerStates]
    BY <1>0, <1>9 DEF Rename, HandlerStates
  <2>3. /\ disk' \in [known : BOOLEAN, key : Nat, config : Configs]
        /\ disk'.key = disk.key
    BY <1>0, <1>9, <2>1 DEF Rename
  <2> QED
    BY <1>0, <1>9, <2>1, <2>2, <2>3 DEF Rename, AgentStep
<1>10. ASSUME NEW h \in Handlers, UpdateSchedule(h) PROVE AgentStep
  <2>1. Admitted /\ handler[h].config \in Configs
    BY <1>0, <1>10 DEF UpdateSchedule, HandlerStates
  <2>2. handler' \in [Handlers -> HandlerStates]
    BY <1>0, <1>10, Constants DEF UpdateSchedule
  <2> QED
    BY <1>0, <1>10, <2>1, <2>2 DEF UpdateSchedule, AgentStep
<1> QED
  BY <1>1, <1>2, <1>3, <1>4, <1>5, <1>6, <1>7, <1>8, <1>9, <1>10 DEF Agent

\* Every step preserves the invariant.
LEMMA NextInv == Inv /\ [Next]_vars => Inv'
<1> SUFFICES ASSUME Inv, [Next]_vars PROVE Inv'
  OBVIOUS
<1>1. CASE Administration
  BY <1>1, ApproveStep, StatusStep, AdministrationStep, ServerStepInv
<1>2. CASE Pushing
  BY <1>2, VersionStep, PushingStep, ServerStepInv
<1>3. CASE Stream
  BY <1>3, StreamStep, ServerStepInv
<1>4. CASE Agent
  BY <1>4, StartStep, AgentStepTaken, AgentStepInv
<1>5. CASE UNCHANGED vars
  BY <1>5 DEF vars, server, link, memory, Inv, Types, Keys, Origins, Rightful,
              Admitted, OnWire, Applying
<1> QED
  BY <1>1, <1>2, <1>3, <1>4, <1>5 DEF Next

\* The key that approveAgentHandler stores is the only one there ever is for an
\* agent: whatever the agent holds, in memory or on disk, over stops, lost
\* streams and failed saves, is that key or none.
THEOREM KeysValid == Spec => []KeyValid
<1>1. Inv => KeyValid
  BY DEF Inv, Keys, Rightful, KeyValid
<1> QED
  BY InitInv, NextInv, <1>1, PTL DEF Spec

\* PushConfigToAgent's check of the status, which every edit goes through, keeps
\* all plans from an agent that nobody has approved.
THEOREM ConfigurationsApproved == Spec => []OnlyApprovedConfigured
<1>1. Inv => OnlyApprovedConfigured
  BY DEF Inv, Origins, Admitted, OnlyApprovedConfigured
<1> QED
  BY InitInv, NextInv, <1>1, PTL DEF Spec
=============================================================================
