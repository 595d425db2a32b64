---------------------------- MODULE AgentManager ----------------------------
(***************************************************************************)
(* The server's registry of connected agents                               *)
(* (server/internal/agentmgr/manager.go) and the streaming handler that    *)
(* uses it (Connect in server/internal/grpcserver/connect.go), for one     *)
(* agent id: entries of different ids share nothing but the lock.          *)
(*                                                                         *)
(* Each activation of Connect makes one send channel and one               *)
(* ConnectedAgent, so a connection also names its registry entry.  A       *)
(* critical section of Manager.mu or of ConnectedAgent.mu is one step, and *)
(* what follows an unlock is another: that is where goroutines interleave. *)
(***************************************************************************)
EXTENDS Naturals, Sequences, FiniteSets

CONSTANTS
  Conns,    \* activations of Connect for the agent
  Cmds,     \* commands the API sends (SendCommand)
  Pushes,   \* configurations the resolver pushes (Send)
  None,     \* no connection, no command
  SendBuf,  \* capacity of a send channel
  ShutdownExpires  \* httpSrv.Shutdown may give up on requests in flight

ASSUME AgentManagerAssumption ==
  /\ None \notin Conns
  /\ None \notin Cmds \cup Pushes
  /\ Cmds \cap Pushes = {}
  /\ SendBuf \in Nat \ {0}
  /\ ShutdownExpires \in BOOLEAN

VARIABLES
  entry,     \* Manager.agents[id]
  conn,      \* Connect: new, accepted, open, leaving (errCh read), done
  live,      \* streams whose agent end is open
  sendCh,    \* buffered messages of each send channel
  closed,    \* connections whose send channel is closed
  sender,    \* Connect's send goroutine: off, run, stopped
  receiver,  \* Connect's receive goroutine, inside HandleCommandResult
  errs,      \* values in errCh
  pending,   \* ConnectedAgent.PendingCmds
  resp,      \* the response channel of each command
  caller,    \* SendCommand
  atAgent,   \* commands the agent received and will answer on that stream
  unpushed,  \* configurations not pushed yet
  server,    \* up, stopping (the gRPC server), closed (Manager.Close)
  panicked   \* a goroutine sent on a closed channel: the process is gone

registry == <<entry, pending, resp, closed>>
streams  == <<conn, live, sender, receiver, errs, atAgent>>
process  == <<server, panicked>>
vars     == <<registry, streams, sendCh, caller, unpushed, process>>

Receivers == [pc  : {"off", "run", "lookup", "deliver", "stopped"},
              cmd : Cmds \cup {None}, obj : Conns \cup {None}]

Outcomes == {"none", "offline", "full", "ok", "disconnected", "timeout"}

Callers == [pc  : {"idle", "full", "wait", "cleanup", "returned"},
            obj : Conns \cup {None}, out : Outcomes]

Responses == [val : BOOLEAN, closed : BOOLEAN]

Idle(pc) == [pc |-> pc, cmd |-> None, obj |-> None]

Init ==
  /\ entry = None
  /\ conn = [c \in Conns |-> "new"]
  /\ live = {}
  /\ sendCh = [c \in Conns |-> <<>>]
  /\ closed = {}
  /\ sender = [c \in Conns |-> "off"]
  /\ receiver = [c \in Conns |-> Idle("off")]
  /\ errs = [c \in Conns |-> 0]
  /\ pending = [c \in Conns |-> {}]
  /\ resp = [k \in Cmds |-> [val |-> FALSE, closed |-> FALSE]]
  /\ caller = [k \in Cmds |-> [pc |-> "idle", obj |-> None, out |-> "none"]]
  /\ atAgent = [c \in Conns |-> {}]
  /\ unpushed = Pushes
  /\ server = "up"
  /\ panicked = FALSE

-----------------------------------------------------------------------------
\* Connect.

\* The first message has arrived and the agent was found in the database.  The
\* agent opens a stream only after it gave up the one before, which the server
\* may not have noticed yet.
Accept(c) ==
  /\ ~panicked
  /\ server = "up"
  /\ conn[c] = "new"
  /\ live = {}
  /\ conn' = [conn EXCEPT ![c] = "accepted"]
  /\ live' = {c}
  /\ UNCHANGED <<registry, sendCh, sender, receiver, errs, caller, atAgent,
                 unpushed, process>>

\* Register replaces the entry of an earlier connection without closing its
\* channels; then the two goroutines start.
Register(c) ==
  /\ ~panicked
  /\ conn[c] = "accepted"
  /\ conn' = [conn EXCEPT ![c] = "open"]
  /\ entry' = c
  /\ sender' = [sender EXCEPT ![c] = "run"]
  /\ receiver' = [receiver EXCEPT ![c] = Idle("run")]
  /\ UNCHANGED <<pending, resp, closed, live, sendCh, errs, caller, atAgent,
                 unpushed, process>>

\* The stream breaks, or the agent abandons it.
Break(c) ==
  /\ ~panicked
  /\ c \in live
  /\ live' = live \ {c}
  /\ UNCHANGED <<registry, conn, sendCh, sender, receiver, errs, caller,
                 atAgent, unpushed, process>>

\* The send goroutine takes a message.  On a broken stream Send fails, or
\* hands the message to a connection nobody reads.
SenderForward(c) ==
  /\ ~panicked
  /\ sender[c] = "run"
  /\ sendCh[c] # <<>>
  /\ sendCh' = [sendCh EXCEPT ![c] = Tail(@)]
  /\ \/ /\ c \in live
        /\ atAgent' = [atAgent EXCEPT ![c] = @ \cup ({Head(sendCh[c])} \cap Cmds)]
        /\ UNCHANGED <<sender, errs>>
     \/ /\ c \notin live
        /\ UNCHANGED <<atAgent, sender, errs>>
     \/ /\ c \notin live
        /\ sender' = [sender EXCEPT ![c] = "stopped"]
        /\ errs' = [errs EXCEPT ![c] = @ + 1]
        /\ UNCHANGED atAgent
  /\ UNCHANGED <<registry, conn, live, receiver, caller, unpushed, process>>

\* The channel is closed and drained: the range loop ends.
SenderDone(c) ==
  /\ ~panicked
  /\ sender[c] = "run"
  /\ sendCh[c] = <<>>
  /\ c \in closed
  /\ sender' = [sender EXCEPT ![c] = "stopped"]
  /\ errs' = [errs EXCEPT ![c] = @ + 1]
  /\ UNCHANGED <<registry, conn, live, sendCh, receiver, caller, atAgent,
                 unpushed, process>>

\* The receive goroutine exits without reporting to errCh.
ReceiverFailsSilently(c) ==
  /\ ~panicked
  /\ receiver[c].pc = "run"
  /\ c \notin live
  /\ receiver' = [receiver EXCEPT ![c] = Idle("stopped")]
  /\ UNCHANGED <<registry, conn, live, sendCh, sender, errs, caller, atAgent,
                 unpushed, process>>

\* Recv returns an error or EOF.
ReceiverFails(c) ==
  /\ ~panicked
  /\ receiver[c].pc = "run"
  /\ c \notin live
  /\ receiver' = [receiver EXCEPT ![c] = Idle("stopped")]
  /\ errs' = [errs EXCEPT ![c] = @ + 1]
  /\ UNCHANGED <<registry, conn, live, sendCh, sender, caller, atAgent,
                 unpushed, process>>

\* Connect reads errCh and returns; Unregister is deferred.
Leave(c) ==
  /\ ~panicked
  /\ conn[c] = "open"
  /\ errs[c] > 0
  /\ conn' = [conn EXCEPT ![c] = "leaving"]
  /\ errs' = [errs EXCEPT ![c] = @ - 1]
  /\ UNCHANGED <<registry, live, sendCh, sender, receiver, caller, atAgent,
                 unpushed, process>>

\* The pending callers are left waiting.
CloseEntryForgetsPending ==
  /\ closed' = closed \cup ({entry} \ {None})
  /\ entry' = None
  /\ UNCHANGED <<pending, resp>>

\* The entry stays in the map although its channel is closed.
CloseEntryKeepsEntry ==
  /\ closed' = closed \cup ({entry} \ {None})
  /\ UNCHANGED <<entry, pending, resp>>

\* The lookup's ok is not tested.
CloseEntryUnchecked ==
  /\ closed' = closed \cup {entry}
  /\ entry' = None
  /\ UNCHANGED <<pending, resp>>

\* Close the pending response channels and the send channel of the current
\* entry, whichever connection made it, and delete the entry.
CloseEntry ==
  \/ /\ entry = None
     /\ UNCHANGED registry
  \/ /\ entry # None
     /\ resp' = [k \in Cmds |-> IF k \in pending[entry]
                                THEN [resp[k] EXCEPT !.closed = TRUE]
                                ELSE resp[k]]
     /\ pending' = [pending EXCEPT ![entry] = {}]
     /\ closed' = closed \cup {entry}
     /\ entry' = None

\* The deferred Unregister(agentID) of Connect, which names the agent and not
\* the connection; the handler's return ends the stream.
Unregister(c) ==
  /\ ~panicked
  /\ conn[c] = "leaving"
  /\ CloseEntry
  /\ conn' = [conn EXCEPT ![c] = "done"]
  /\ live' = live \ {c}
  /\ UNCHANGED <<sendCh, sender, receiver, errs, caller, atAgent, unpushed,
                 process>>

-----------------------------------------------------------------------------
\* Callers of the registry.

\* Send: a full buffer drops the message.
Send(p) ==
  /\ ~panicked
  /\ p \in unpushed
  /\ unpushed' = unpushed \ {p}
  /\ IF entry # None /\ Len(sendCh[entry]) < SendBuf
     THEN sendCh' = [sendCh EXCEPT ![entry] = Append(@, p)]
     ELSE UNCHANGED sendCh
  /\ UNCHANGED <<registry, streams, caller, process>>

\* SendCommand, up to the unlock: register the response channel and try to
\* send, under the read lock.  The callers are HTTP requests, which the API
\* serves until httpSrv.Shutdown has returned, and for longer only when its ten
\* seconds passed with the request in flight.
SendCommand(k) ==
  /\ ~panicked
  /\ server # "closed" \/ ShutdownExpires
  /\ caller[k].pc = "idle"
  /\ \/ /\ entry = None
        /\ caller' = [caller EXCEPT ![k] = [pc |-> "returned", obj |-> None,
                                            out |-> "offline"]]
        /\ UNCHANGED <<pending, sendCh>>
     \/ /\ entry # None
        /\ pending' = [pending EXCEPT ![entry] = @ \cup {k}]
        /\ \/ /\ Len(sendCh[entry]) < SendBuf
              /\ sendCh' = [sendCh EXCEPT ![entry] = Append(@, k)]
              /\ caller' = [caller EXCEPT ![k] = [pc |-> "wait", obj |-> entry,
                                                  out |-> "none"]]
           \/ /\ Len(sendCh[entry]) >= SendBuf
              /\ caller' = [caller EXCEPT ![k] = [pc |-> "full", obj |-> entry,
                                                  out |-> "full"]]
              /\ UNCHANGED sendCh
  /\ UNCHANGED <<entry, resp, closed, streams, unpushed, process>>

\* A receive from a closed channel is taken for a result.
ReceiveResponseUnchecked(k) ==
  /\ ~panicked
  /\ caller[k].pc = "wait"
  /\ resp[k].val \/ resp[k].closed
  /\ caller' = [caller EXCEPT ![k] = [@ EXCEPT !.pc  = "cleanup",
                                               !.out = "ok"]]
  /\ resp' = [resp EXCEPT ![k].val = FALSE]
  /\ UNCHANGED <<entry, pending, closed, streams, sendCh, unpushed, process>>

\* A value buffered before the close is still received.
ReceiveResponse(k) ==
  /\ ~panicked
  /\ caller[k].pc = "wait"
  /\ resp[k].val \/ resp[k].closed
  /\ caller' = [caller EXCEPT ![k] =
       [@ EXCEPT !.pc  = "cleanup",
                 !.out = IF resp[k].val THEN "ok" ELSE "disconnected"]]
  /\ resp' = [resp EXCEPT ![k].val = FALSE]
  /\ UNCHANGED <<entry, pending, closed, streams, sendCh, unpushed, process>>

\* The 30 second timer.
TimeoutCommand(k) ==
  /\ ~panicked
  /\ caller[k].pc = "wait"
  /\ caller' = [caller EXCEPT ![k] = [@ EXCEPT !.pc  = "cleanup",
                                               !.out = "timeout"]]
  /\ UNCHANGED <<registry, streams, sendCh, unpushed, process>>

\* The caller returns without removing its response channel.
ForgetPendingSkipped(k) ==
  /\ ~panicked
  /\ caller[k].pc \in {"full", "cleanup"}
  /\ caller' = [caller EXCEPT ![k].pc = "returned"]
  /\ UNCHANGED <<registry, streams, sendCh, unpushed, process>>

\* delete(agent.PendingCmds, id), deferred or after a full buffer, on the
\* entry the command was sent to.
ForgetPending(k) ==
  /\ ~panicked
  /\ caller[k].pc \in {"full", "cleanup"}
  /\ pending' = [pending EXCEPT ![caller[k].obj] = @ \ {k}]
  /\ caller' = [caller EXCEPT ![k].pc = "returned"]
  /\ UNCHANGED <<entry, resp, closed, streams, sendCh, unpushed, process>>

\* HandleCommandResult, first critical section: the entry of the agent now,
\* which need not be the one of the stream the result came from.  A result sent
\* before the stream broke may still be read.
ReceiveResult(c, k) ==
  /\ ~panicked
  /\ receiver[c].pc = "run"
  /\ k \in atAgent[c]
  /\ atAgent' = [atAgent EXCEPT ![c] = @ \ {k}]
  /\ receiver' = IF entry = None
                 THEN receiver
                 ELSE [receiver EXCEPT ![c] = [pc |-> "lookup", cmd |-> k,
                                               obj |-> entry]]
  /\ UNCHANGED <<registry, conn, live, sendCh, sender, errs, caller, unpushed,
                 process>>

\* Second critical section: the response channel of the command.
FindPending(c) ==
  /\ ~panicked
  /\ receiver[c].pc = "lookup"
  /\ receiver' = [receiver EXCEPT ![c] =
       IF receiver[c].cmd \in pending[receiver[c].obj]
       THEN [@ EXCEPT !.pc = "deliver"] ELSE Idle("run")]
  /\ UNCHANGED <<registry, conn, live, sendCh, sender, errs, caller, atAgent,
                 unpushed, process>>

\* The send, outside every lock: a full channel discards the result, a closed
\* one panics in a goroutine no recovery interceptor covers.
Deliver(c) ==
  LET k == receiver[c].cmd IN
  /\ ~panicked
  /\ receiver[c].pc = "deliver"
  /\ \/ /\ resp[k].closed
        /\ panicked' = TRUE
        /\ UNCHANGED resp
     \/ /\ ~resp[k].closed
        /\ resp' = [resp EXCEPT ![k].val = TRUE]
        /\ UNCHANGED panicked
  /\ receiver' = [receiver EXCEPT ![c] = Idle("run")]
  /\ UNCHANGED <<entry, pending, closed, conn, live, sendCh, sender, errs,
                 caller, atAgent, unpushed, server>>

-----------------------------------------------------------------------------
\* Shutdown of the server process.

\* GracefulStop, then Stop: no new streams, the open ones end.
StopServer ==
  /\ ~panicked
  /\ server = "up"
  /\ server' = "stopping"
  /\ live' = {}
  /\ UNCHANGED <<registry, conn, sendCh, sender, receiver, errs, caller,
                 atAgent, unpushed, panicked>>

\* main waits in httpSrv.Shutdown for the requests in flight, for ten seconds at
\* most (a command may wait for thirty), and then calls Manager.Close; handlers
\* of streams may still be on their way out.
CloseManager ==
  /\ ~panicked
  /\ server = "stopping"
  /\ ShutdownExpires \/ \A k \in Cmds : caller[k].pc \in {"idle", "returned"}
  /\ server' = "closed"
  /\ CloseEntry
  /\ UNCHANGED <<streams, sendCh, caller, unpushed, panicked>>

Sender(c)   == SenderForward(c) \/ SenderDone(c)
Receiver(c) == ReceiverFails(c) \/ FindPending(c) \/ Deliver(c)
                 \/ \E k \in Cmds : ReceiveResult(c, k)
Handler(c)  == Register(c) \/ Leave(c) \/ Unregister(c)
Caller(k)   == ReceiveResponse(k) \/ ForgetPending(k)

Next ==
  \/ \E c \in Conns : \/ Accept(c) \/ Break(c)
                      \/ Sender(c) \/ Receiver(c) \/ Handler(c)
  \/ \E k \in Cmds : SendCommand(k) \/ TimeoutCommand(k) \/ Caller(k)
  \/ \E p \in Pushes : Send(p)
  \/ StopServer \/ CloseManager

Spec == Init /\ [][Next]_vars

\* The Go scheduler runs every goroutine that can run; gRPC reports a broken
\* stream to a blocked Recv (its keepalive probes a silent peer).  The agent,
\* the network, the API and the operator owe nothing, and the 30 second timer
\* is not relied on.
Fairness ==
  /\ \A c \in Conns : WF_vars(Sender(c))
                        /\ WF_vars(Receiver(c))
                        /\ WF_vars(Handler(c))
  /\ \A k \in Cmds : WF_vars(Caller(k))

FairSpec == Spec /\ Fairness

-----------------------------------------------------------------------------
\* Properties.

TypeOK ==
  /\ entry \in Conns \cup {None}
  /\ conn \in [Conns -> {"new", "accepted", "open", "leaving", "done"}]
  /\ live \in SUBSET Conns
  /\ sendCh \in [Conns -> Seq(Cmds \cup Pushes)]
  /\ closed \in SUBSET Conns
  /\ sender \in [Conns -> {"off", "run", "stopped"}]
  /\ receiver \in [Conns -> Receivers]
  /\ errs \in [Conns -> Nat]
  /\ pending \in [Conns -> SUBSET Cmds]
  /\ resp \in [Cmds -> Responses]
  /\ caller \in [Cmds -> Callers]
  /\ atAgent \in [Conns -> SUBSET Cmds]
  /\ unpushed \in SUBSET Pushes
  /\ server \in {"up", "stopping", "closed"}
  /\ panicked \in BOOLEAN

\* Send and SendCommand never send on a closed channel and Unregister never
\* closes one twice: whatever old handler closed it, the entry goes with it.
EntryOpen == entry \notin closed

\* A caller whose entry was closed, by its own connection, by a stale one or
\* by shutdown, has something to receive: it does not wait for the timer.
ClosedWakesCallers ==
  \A k \in Cmds : caller[k].pc = "wait" /\ caller[k].obj \in closed =>
                    resp[k].val \/ resp[k].closed

\* No response channel outlives its call, in any entry: a late result finds
\* nothing, and a full buffer leaves nothing behind.
NoStalePending ==
  \A c \in Conns : \A k \in pending[c] :
    caller[k].pc \in {"wait", "full", "cleanup"} /\ caller[k].obj = c

\* A caller is told "ok" only if the agent got its command and the result read
\* from the stream is the one of that command.
AnsweredByAgent ==
  \A k \in Cmds : resp[k].val \/ caller[k].out = "ok" =>
    /\ caller[k].obj # None
    /\ k \notin atAgent[caller[k].obj]
    /\ \A i \in DOMAIN sendCh[caller[k].obj] : sendCh[caller[k].obj][i] # k

\* The handler of a broken stream ends and takes its entry with it, so errCh,
\* the two goroutines and the deferred Unregister never wait for each other.
BrokenStreamEnds ==
  \A c \in Conns : (conn[c] # "new" /\ c \notin live) ~>
                      (panicked \/ (conn[c] = "done" /\ entry # c))

\* What IsOnline is documented to tell: a connected agent is online.
OnlineWhileConnected ==
  \A c \in Conns : conn[c] = "open" /\ c \in live => entry # None

\* What the recovery interceptors are there for: no message of a stream takes
\* the server down.
NoPanic == ~panicked
=============================================================================
