----------------------------- MODULE ConfigPush -----------------------------
(***************************************************************************)
(* How an agent is enrolled and how its configuration reaches it: the REST *)
(* handlers of server/internal/api that change what an agent must know,    *)
(* configpush.Resolver, the approval and the stream it all travels on, and *)
(* the agent that applies a configuration, saves it and starts from it     *)
(* (agent/cmd/agent/main.go, identity, localconfig, atomicfile).           *)
(*                                                                         *)
(* There is one agent, and one row of it.  The contents of the database    *)
(* are revision numbers of the three parts that a push reads one after the *)
(* other.  The stream is a queue: the order of messages holds, and a       *)
(* stream that ends loses what is in it.  Overlapping connections are the  *)
(* subject of AgentManager, the end of a stream that of AgentStream.       *)
(***************************************************************************)
EXTENDS Naturals, Sequences, FiniteSets

CONSTANTS
  Pushes,      \* activations of PushConfigToAgent
  Handlers,    \* activations of handleConfig
  BufferSize,  \* capacity of the send channel
  MaxEdits,    \* edits and approvals of an administrator
  MaxFaults,   \* calls of a database or a file system that fail
  MaxLosses    \* streams that end, processes that stop

ASSUME ConfigPushAssumption ==
  /\ BufferSize \in Nat \ {0}
  /\ MaxEdits \in Nat
  /\ MaxFaults \in Nat
  /\ MaxLosses \in Nat

VARIABLES
  row,       \* the agent's row: status, api_key, config_version
  contents,  \* what the database holds of the agent's configuration
  approver,  \* approveAgentHandler or rejectAgentHandler, after its update
  push,      \* PushConfigToAgent
  conn,      \* the stream: "hello" once Connect has checked the agent
  wire,      \* messages in the send channel and on the stream
  proc,      \* the agent process
  disk,      \* identity.json (known, key) and config.json (config)
  key,       \* Identity.apiKey
  saving,    \* onApproval is about to save the identity
  loaded,    \* localCfg
  handler,   \* handleConfig
  sched,     \* the configuration the scheduler runs on
  budget,    \* edits, faults and losses so far
  stale,     \* why the agent may not have the contents of the latest edit
  keyLost,   \* the key was not delivered, or not saved
  everSaved  \* a configuration has been saved

server  == <<row, contents, approver, push>>
link    == <<conn, wire>>
memory  == <<key, saving, loaded, handler, sched>>
history == <<stale, keyLost, everSaved>>
vars    == <<server, link, proc, disk, memory, budget, history>>

NoKey == 0
Parts == {"agent", "plans", "shared"}

\* A revision of 0 stands for a part with something left out of it.
Revisions == [Parts -> Nat]
Nothing   == [p \in Parts |-> 0]
Configs   == [version : Nat, has : Revisions]
NoConfig  == [version |-> 0, has |-> Nothing]
Torn      == [version |-> 0, has |-> [p \in Parts |-> 1]]

Statuses == {"none", "pending", "approved", "rejected", "deleted"}
Causes   == {"offline", "failed", "unpushed", "overlap", "lost", "unsaved"}

NoPush    == [pc |-> "free", config |-> NoConfig]
NoHandler == [pc |-> "free", config |-> NoConfig]

Init ==
  /\ row = [status |-> "none", key |-> NoKey, version |-> 0]
  /\ contents = [p \in Parts |-> 1]
  /\ approver = "idle"
  /\ push = [p \in Pushes |-> NoPush]
  /\ conn = "down"
  /\ wire = <<>>
  /\ proc = "down"
  /\ disk = [known |-> FALSE, key |-> NoKey, config |-> NoConfig]
  /\ key = NoKey
  /\ saving = FALSE
  /\ loaded = NoConfig
  /\ handler = [h \in Handlers |-> NoHandler]
  /\ sched = NoConfig
  /\ budget = [edits |-> 0, faults |-> 0, losses |-> 0]
  /\ stale = {}
  /\ keyLost = FALSE
  /\ everSaved = FALSE

-----------------------------------------------------------------------------
\* Helpers.

Present == row.status \notin {"none", "deleted"}

\* A call of the database or of the file system fails.
Fault == budget.faults < MaxFaults /\ budget' = [budget EXCEPT !.faults = @ + 1]

Edit == budget.edits < MaxEdits /\ budget' = [budget EXCEPT !.edits = @ + 1]

Loss == budget.losses < MaxLosses /\ budget' = [budget EXCEPT !.losses = @ + 1]

Busy == {p \in Pushes : push[p].pc # "free"}

\* What a new edit may be overtaken by.
Overlap == IF Busy # {} THEN {"overlap"} ELSE {}

\* go PushConfigToAgent(...)
StartPush(p, pc) ==
  /\ push[p].pc = "free"
  /\ push' = [push EXCEPT ![p] = [NoPush EXCEPT !.pc = pc]]

\* A push goes on to its next call with what it has of the configuration.
GoOn(p, pc, config) == push' = [push EXCEPT ![p] = [pc |-> pc, config |-> config]]

\* A push ends without the agent having its configuration.
GiveUp(p, why) ==
  /\ push' = [push EXCEPT ![p] = NoPush]
  /\ stale' = stale \cup {why}

Approval(k) == [type |-> "approval", key |-> k, config |-> NoConfig]
Rejection   == [type |-> "rejection", key |-> NoKey, config |-> NoConfig]
Message(c)  == [type |-> "config", key |-> NoKey, config |-> c]

OnWire(type) == \E i \in DOMAIN wire : wire[i].type = type

\* Manager.Send: refused when the agent has no entry, and when the channel is
\* full; the send goroutine may or may not have emptied it into the stream.
Send(m) == conn = "up" /\ wire' = Append(wire, m)
SendRefused == (conn # "up" \/ Len(wire) >= BufferSize) /\ UNCHANGED wire

\* What is lost with the messages of a stream.
LostOnWire ==
  /\ stale' = IF OnWire("config") THEN stale \cup {"lost"} ELSE stale
  /\ keyLost' = (keyLost \/ OnWire("approval"))

-----------------------------------------------------------------------------
\* Enrolment on the server.

\* The update has no guard on the status.
ApproveAgentAgain ==
  /\ Edit
  /\ approver = "idle"
  /\ Present
  /\ row' = [row EXCEPT !.status = "approved", !.key = @ + 1]
  /\ approver' = "approve"
  /\ stale' = Overlap
  /\ UNCHANGED <<contents, push, link, proc, disk, memory, keyLost, everSaved>>

\* approveAgentHandler: a fresh key, and ApproveAgent, for a pending row only.
ApproveAgent ==
  /\ Edit
  /\ approver = "idle"
  /\ row.status = "pending"
  /\ row' = [row EXCEPT !.status = "approved", !.key = @ + 1]
  /\ approver' = "approve"
  /\ stale' = Overlap
  /\ UNCHANGED <<contents, push, link, proc, disk, memory, keyLost, everSaved>>

\* Its second half: the key is sent to an agent that is online, the outcome is
\* ignored, and the first push starts; nothing is done for one that is not.
SendApproval(p) ==
  /\ approver = "approve"
  /\ conn = "up"
  /\ approver' = "idle"
  /\ \/ Send(Approval(row.key)) /\ UNCHANGED keyLost
     \/ SendRefused /\ keyLost' = TRUE
  /\ StartPush(p, "online")
  /\ stale' = stale \cup Overlap
  /\ UNCHANGED <<row, contents, conn, proc, disk, memory, budget, everSaved>>

SkipApproval ==
  /\ approver = "approve"
  /\ conn # "up"
  /\ approver' = "idle"
  /\ keyLost' = TRUE
  /\ stale' = stale \cup {"offline"}
  /\ UNCHANGED <<row, contents, push, link, proc, disk, memory, budget, everSaved>>

\* rejectAgentHandler, both halves.
RejectAgent ==
  /\ Edit
  /\ approver = "idle"
  /\ row.status = "pending"
  /\ row' = [row EXCEPT !.status = "rejected"]
  /\ approver' = "reject"
  /\ UNCHANGED <<contents, push, link, proc, disk, memory, history>>

SendRejection ==
  /\ approver = "reject"
  /\ approver' = "idle"
  /\ Send(Rejection) \/ SendRefused
  /\ UNCHANGED <<row, contents, push, conn, proc, disk, memory, budget, history>>

\* deleteAgentHandler tells nobody: the stream stays, and the agent goes on.
DeleteAgent ==
  /\ Edit
  /\ Present
  /\ row' = [row EXCEPT !.status = "deleted"]
  /\ UNCHANGED <<contents, approver, push, link, proc, disk, memory, history>>

-----------------------------------------------------------------------------
\* Edits of the configuration.

Changed(part) == contents' = [contents EXCEPT ![part] = @ + 1]

\* The edit is stored, and go PushConfigToAgent.
EditOwn(part, p) ==
  /\ Edit
  /\ Present
  /\ Changed(part)
  /\ StartPush(p, "online")
  /\ stale' = Overlap
  /\ UNCHANGED <<row, approver, link, proc, disk, memory, keyLost, everSaved>>

\* The rclone, timeout and outbox handlers of the agent.
EditAgent(p) == EditOwn("agent", p)

\* createPlanHandler, updatePlanHandler, deletePlanHandler.
EditPlan(p) == EditOwn("plans", p)

\* updatePlanHandler gives a plan to another agent: that one gets the push.
MovePlanAway ==
  /\ Edit
  /\ Present
  /\ Changed("plans")
  /\ stale' = stale \cup {"unpushed"}
  /\ UNCHANGED <<row, approver, push, link, proc, disk, memory, keyLost, everSaved>>

\* Hooks, scripts, repositories and settings: which agents use what was edited
\* is looked up before the pushes start.
EditShared(p) ==
  /\ Edit
  /\ Present
  /\ Changed("shared")
  /\ StartPush(p, "lookup")
  /\ stale' = Overlap
  /\ UNCHANGED <<row, approver, link, proc, disk, memory, keyLost, everSaved>>

\* settings.Apply stores one key at a time: the ones before a failure stay,
\* and the handler returns before its push.
ApplyFails ==
  /\ Fault
  /\ Present
  /\ budget.edits < MaxEdits
  /\ Changed("shared")
  /\ stale' = stale \cup {"unpushed"}
  /\ UNCHANGED <<row, approver, push, link, proc, disk, memory, keyLost, everSaved>>

-----------------------------------------------------------------------------
\* PushConfigToAgent, one database call, or a few of one kind, a step.

Step(p, from, to) == push[p].pc = from /\ push' = [push EXCEPT ![p].pc = to]

\* pushConfigToAgentsUsingRepo and ...UsingScript, pushConfigForPlan, and
\* PushConfigToAllAgents.
LookUp(p) ==
  /\ Step(p, "lookup", "online")
  /\ UNCHANGED <<row, contents, approver, link, proc, disk, memory, budget, history>>

\* The agent is not connected: skipped.
CheckOnline(p) ==
  /\ push[p].pc = "online"
  /\ \/ conn = "up" /\ Step(p, "online", "row") /\ UNCHANGED stale
     \/ conn # "up" /\ GiveUp(p, "offline")
  /\ UNCHANGED <<row, contents, approver, link, proc, disk, memory, budget,
                 keyLost, everSaved>>

Load(p, part, to) ==
  GoOn(p, to, [push[p].config EXCEPT !.has = [@ EXCEPT ![part] = contents[part]]])

\* The status is not looked at.
GetAgentAnyStatus(p) ==
  /\ push[p].pc = "row"
  /\ \/ Present /\ Load(p, "agent", "plans") /\ UNCHANGED stale
     \/ ~Present /\ GiveUp(p, "offline")
  /\ UNCHANGED <<row, contents, approver, link, proc, disk, memory, budget,
                 keyLost, everSaved>>

\* GetAgent, whose rclone configuration and overrides are used later.
GetAgent(p) ==
  /\ push[p].pc = "row"
  /\ \/ row.status = "approved" /\ Load(p, "agent", "plans") /\ UNCHANGED stale
     \/ row.status # "approved" /\ GiveUp(p, "offline")
  /\ UNCHANGED <<row, contents, approver, link, proc, disk, memory, budget,
                 keyLost, everSaved>>

ListPlans(p) ==
  /\ push[p].pc = "plans"
  /\ Load(p, "plans", "shared")
  /\ UNCHANGED <<row, contents, approver, link, proc, disk, memory, budget, history>>

\* Repositories, settings, and the hooks of each plan.
LoadShared(p) ==
  /\ push[p].pc = "shared"
  /\ Load(p, "shared", "version")
  /\ UNCHANGED <<row, contents, approver, link, proc, disk, memory, budget, history>>

\* The hooks of a plan cannot be loaded: the plan is left out, the push goes on.
ListHooksFails(p) ==
  /\ push[p].pc = "shared"
  /\ Fault
  /\ GoOn(p, "version", [push[p].config EXCEPT
       !.has = [@ EXCEPT !["plans"] = 0, !["shared"] = contents["shared"]]])
  /\ stale' = stale \cup {"failed"}
  /\ UNCHANGED <<row, contents, approver, link, proc, disk, memory, keyLost, everSaved>>

\* The transaction is not committed.
UpdateConfigVersionRolledBack(p) ==
  /\ push[p].pc = "version"
  /\ Present
  /\ GoOn(p, "send", [push[p].config EXCEPT !.version = row.version + 1])
  /\ UNCHANGED <<row, contents, approver, link, proc, disk, memory, budget, history>>

\* One transaction: incremented and read back.
UpdateConfigVersion(p) ==
  /\ push[p].pc = "version"
  /\ Present
  /\ row' = [row EXCEPT !.version = @ + 1]
  /\ GoOn(p, "send", [push[p].config EXCEPT !.version = row'.version])
  /\ UNCHANGED <<contents, approver, link, proc, disk, memory, budget, history>>

SendConfig(p) ==
  /\ push[p].pc = "send"
  /\ \/ Send(Message(push[p].config)) /\ push' = [push EXCEPT ![p] = NoPush]
          /\ UNCHANGED stale
     \/ SendRefused /\ GiveUp(p, "failed")
  /\ UNCHANGED <<row, contents, approver, conn, proc, disk, memory, budget,
                 keyLost, everSaved>>

\* A database call fails, or the row is gone when its version is incremented.
PushFails(p) ==
  /\ \/ push[p].pc \in {"lookup", "row", "plans", "shared", "version"} /\ Fault
     \/ push[p].pc = "version" /\ ~Present /\ UNCHANGED budget
  /\ GiveUp(p, "failed")
  /\ UNCHANGED <<row, contents, approver, link, proc, disk, memory, keyLost, everSaved>>

-----------------------------------------------------------------------------
\* The stream.

Applying == {h \in Handlers : handler[h].pc # "free"}

\* The agent connects again once Run of the stream before has returned, which
\* waits for its handlers.  Connect reads the row and compares the key of the
\* first heartbeat.
Hello ==
  /\ proc # "down"
  /\ conn = "down"
  /\ Applying = {} /\ ~saving
  /\ \/ row.status = "pending"
     \/ row.status = "approved" /\ key = row.key
  /\ conn' = "hello"
  /\ UNCHANGED <<server, wire, proc, disk, memory, budget, history>>

\* The agent gets its entry in the manager.
Register ==
  /\ conn = "hello"
  /\ conn' = "up"
  /\ UNCHANGED <<server, wire, proc, disk, memory, budget, history>>

\* The channel outlives the connection.
StreamEndsBuffered ==
  /\ Loss
  /\ conn # "down"
  /\ conn' = "down"
  /\ UNCHANGED <<server, wire, proc, disk, memory, history>>

StreamEnds ==
  /\ Loss
  /\ conn # "down"
  /\ conn' = "down"
  /\ wire' = <<>>
  /\ LostOnWire
  /\ UNCHANGED <<server, proc, disk, memory, everSaved>>

\* The server stops: handlers and pushes are gone, the database stays.
ServerRestart ==
  /\ Loss
  /\ conn' = "down"
  /\ wire' = <<>>
  /\ push' = [p \in Pushes |-> NoPush]
  /\ approver' = "idle"
  /\ stale' = IF Busy # {} \/ OnWire("config") \/ approver = "approve"
                THEN stale \cup {"lost"} ELSE stale
  /\ keyLost' = (keyLost \/ OnWire("approval") \/ approver = "approve")
  /\ UNCHANGED <<row, contents, proc, disk, memory, everSaved>>

-----------------------------------------------------------------------------
\* The agent.

\* main: the identity and the saved configuration are loaded, a first start
\* registers and saves its id; then the stream's goroutine starts.
Start ==
  /\ proc = "down"
  /\ \/ disk.known /\ UNCHANGED <<row, disk>>
     \/ ~disk.known /\ row.status = "none"
          /\ row' = [row EXCEPT !.status = "pending"]
          /\ disk' = [disk EXCEPT !.known = TRUE]
  /\ key' = disk.key
  /\ loaded' = IF disk.config = Torn THEN NoConfig ELSE disk.config
  /\ proc' = "boot"
  /\ UNCHANGED <<contents, approver, push, link, saving, handler, sched, budget, history>>

\* Only then does main give the saved configuration to the scheduler.
StartScheduler ==
  /\ proc = "boot"
  /\ proc' = "up"
  /\ sched' = IF loaded # NoConfig THEN loaded ELSE sched
  /\ UNCHANGED <<server, link, disk, key, saving, loaded, handler, budget, history>>

\* handleApproval in the receive goroutine, up to SetAPIKey.
ReceiveApproval ==
  /\ conn = "up" /\ wire # <<>> /\ ~saving
  /\ Head(wire).type = "approval"
  /\ wire' = Tail(wire)
  /\ key' = Head(wire).key
  /\ saving' = TRUE
  /\ UNCHANGED <<server, conn, proc, disk, loaded, handler, sched, budget, history>>

\* The identity is marshalled without the key.
SaveIdentityKeyless ==
  /\ saving
  /\ saving' = FALSE
  /\ UNCHANGED <<server, link, proc, disk, key, loaded, handler, sched, budget, history>>

\* onApproval: identity.Save, which replaces the file in one rename.
SaveIdentity ==
  /\ saving
  /\ saving' = FALSE
  /\ disk' = [disk EXCEPT !.key = key]
  /\ UNCHANGED <<server, link, proc, key, loaded, handler, sched, budget, history>>

\* A failure is logged; the key is in memory only.
SaveIdentityFails ==
  /\ saving
  /\ Fault
  /\ saving' = FALSE
  /\ keyLost' = TRUE
  /\ UNCHANGED <<server, link, proc, disk, key, loaded, handler, sched, stale, everSaved>>

ReceiveRejection ==
  /\ conn = "up" /\ wire # <<>> /\ ~saving
  /\ Head(wire).type = "rejection"
  /\ wire' = Tail(wire)
  /\ UNCHANGED <<server, conn, proc, disk, memory, budget, history>>

\* A goroutine for each configuration; it may race an earlier one, and main,
\* which has yet to apply the saved configuration.
ReceiveConfig(h) ==
  /\ conn = "up" /\ wire # <<>> /\ ~saving
  /\ Head(wire).type = "config"
  /\ wire' = Tail(wire)
  /\ handler[h].pc = "free"
  /\ handler' = [handler EXCEPT ![h] = [pc |-> "save", config |-> Head(wire).config]]
  /\ stale' = IF Applying # {} \/ proc = "boot" THEN stale \cup {"overlap"} ELSE stale
  /\ UNCHANGED <<server, conn, proc, disk, key, saving, loaded, sched, budget,
                 keyLost, everSaved>>

\* The file is truncated and written in place.
SaveTempInPlace(h) ==
  /\ handler[h].pc = "save"
  /\ handler' = [handler EXCEPT ![h].pc = "rename"]
  /\ disk' = [disk EXCEPT !.config = Torn]
  /\ UNCHANGED <<server, link, proc, key, saving, loaded, sched, budget, history>>

\* atomicfile.Write: a temporary file of its own is written and synced.
SaveTemp(h) ==
  /\ handler[h].pc = "save"
  /\ handler' = [handler EXCEPT ![h].pc = "rename"]
  /\ UNCHANGED <<server, link, proc, disk, key, saving, loaded, sched, budget, history>>

\* The temporary file is removed instead of renamed.
RenameSkipped(h) ==
  /\ handler[h].pc = "rename"
  /\ handler' = [handler EXCEPT ![h].pc = "schedule"]
  /\ UNCHANGED <<server, link, proc, disk, key, saving, loaded, sched, budget, history>>

\* The rename that replaces config.json.
Rename(h) ==
  /\ handler[h].pc = "rename"
  /\ handler' = [handler EXCEPT ![h].pc = "schedule"]
  /\ disk' = [disk EXCEPT !.config = handler[h].config]
  /\ everSaved' = TRUE
  /\ UNCHANGED <<server, link, proc, key, saving, loaded, sched, budget, stale, keyLost>>

\* A save that fails is logged; the configuration is applied, and acknowledged.
SaveFails(h) ==
  /\ handler[h].pc \in {"save", "rename"}
  /\ Fault
  /\ handler' = [handler EXCEPT ![h].pc = "schedule"]
  /\ stale' = stale \cup {"unsaved"}
  /\ UNCHANGED <<server, link, proc, disk, key, saving, loaded, sched, keyLost, everSaved>>

\* UpdateSchedule, and the handler is done.
UpdateSchedule(h) ==
  /\ handler[h].pc = "schedule"
  /\ sched' = handler[h].config
  /\ handler' = [handler EXCEPT ![h] = NoHandler]
  /\ UNCHANGED <<server, link, proc, disk, key, saving, loaded, budget, history>>

\* The process stops, by a crash or a signal: main waits for no handler.
AgentStops ==
  /\ Loss
  /\ proc # "down"
  /\ proc' = "down"
  /\ conn' = "down"
  /\ wire' = <<>>
  /\ key' = NoKey
  /\ saving' = FALSE
  /\ loaded' = NoConfig
  /\ handler' = [h \in Handlers |-> NoHandler]
  /\ sched' = NoConfig
  /\ stale' = IF OnWire("config") \/ Applying # {} THEN stale \cup {"lost"} ELSE stale
  /\ keyLost' = (keyLost \/ OnWire("approval") \/ saving)
  /\ UNCHANGED <<server, disk, everSaved>>

-----------------------------------------------------------------------------
Administration ==
  \/ ApproveAgent \/ SkipApproval \/ RejectAgent \/ SendRejection \/ DeleteAgent
  \/ MovePlanAway \/ ApplyFails
  \/ \E p \in Pushes :
       SendApproval(p) \/ EditAgent(p) \/ EditPlan(p) \/ EditShared(p)

Pushing ==
  \E p \in Pushes :
    \/ LookUp(p) \/ CheckOnline(p) \/ GetAgent(p) \/ ListPlans(p) \/ LoadShared(p)
    \/ ListHooksFails(p) \/ UpdateConfigVersion(p) \/ SendConfig(p) \/ PushFails(p)

Stream == Hello \/ Register \/ StreamEnds \/ ServerRestart

Agent ==
  \/ Start \/ StartScheduler \/ AgentStops
  \/ ReceiveApproval \/ SaveIdentity \/ SaveIdentityFails \/ ReceiveRejection
  \/ \E h \in Handlers : \/ ReceiveConfig(h) \/ SaveTemp(h) \/ Rename(h)
                         \/ SaveFails(h) \/ UpdateSchedule(h)

Next == Administration \/ Pushing \/ Stream \/ Agent

Spec == Init /\ [][Next]_vars

-----------------------------------------------------------------------------
\* Properties.

TypeOK ==
  /\ row \in [status : Statuses, key : Nat, version : Nat]
  /\ contents \in Revisions
  /\ approver \in {"idle", "approve", "reject"}
  /\ push \in [Pushes -> [pc : {"free", "lookup", "online", "row", "plans",
                                "shared", "version", "send"}, config : Configs]]
  /\ conn \in {"down", "hello", "up"}
  /\ wire \in Seq([type : {"approval", "rejection", "config"}, key : Nat,
                   config : Configs])
  /\ conn # "up" => wire = <<>>
  /\ proc \in {"down", "boot", "up"}
  /\ disk \in [known : BOOLEAN, key : Nat, config : Configs]
  /\ key \in Nat
  /\ saving \in BOOLEAN
  /\ loaded \in Configs
  /\ handler \in [Handlers -> [pc : {"free", "save", "rename", "schedule"},
                               config : Configs]]
  /\ sched \in Configs
  /\ budget \in [edits : Nat, faults : Nat, losses : Nat]
  /\ stale \in SUBSET Causes
  /\ keyLost \in BOOLEAN
  /\ everSaved \in BOOLEAN

\* Nothing is on its way to the agent, which is connected and has started.
Settled ==
  /\ row.status = "approved" /\ approver = "idle"
  /\ Busy = {} /\ Applying = {} /\ wire = <<>>
  /\ conn = "up" /\ proc = "up" /\ ~saving

\* Nothing repeats a push, and nothing compares versions, so an agent can run
\* on an old configuration for good; but only for the reasons that are known:
\* since the latest edit a push was skipped or failed, a stream or a process
\* ended with a configuration in it, two pushes or two handlers overlapped, or
\* the configuration was not saved.
OnlyKnownStaleness ==
  Settled /\ stale = {} => sched.has = contents /\ disk.config.has = contents

\* An approved agent whose key was neither skipped, refused, lost on the
\* stream, nor lost before it was saved has it, and keeps it over restarts.
OnlyKnownLockout ==
  row.status = "approved" /\ approver = "idle" /\ ~keyLost
    /\ ~OnWire("approval") /\ ~saving
  => disk.key = row.key /\ (proc # "down" => key = row.key)

\* Whatever key the agent holds is the one the server compares with: an agent
\* is never approved twice, and no old key comes back.
KeyValid ==
  \A k \in {key, disk.key} : k # NoKey => k = row.key

\* No plan reaches an agent that nobody has approved, through any of the edits
\* that push, and whether the agent is connected or not.
OnlyApprovedConfigured ==
  sched # NoConfig \/ disk.config # NoConfig \/ OnWire("config")
    => row.status \in {"approved", "deleted"}

\* Once a configuration was saved, every later start has a schedule, whenever
\* the process stopped.
StartsFromSaved ==
  everSaved /\ proc = "up" /\ Applying = {} => sched # NoConfig

Sent == {push[p].config : p \in {q \in Pushes : push[q].pc = "send"}}
          \cup {wire[i].config : i \in {j \in DOMAIN wire : wire[j].type = "config"}}
          \cup {handler[h].config : h \in Applying}

\* Two different configurations never carry one version.
VersionsDistinct ==
  \A c, d \in Sent \cup ({sched, disk.config} \ {NoConfig}) :
    c.version = d.version => c = d
=============================================================================
