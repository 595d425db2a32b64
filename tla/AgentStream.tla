----------------------------- MODULE AgentStream ----------------------------
(***************************************************************************)
(* One activation of StreamHandler.Run on the agent                        *)
(* (agent/internal/grpcclient/stream.go): the body of Run, its send and    *)
(* receive goroutines, and one handler goroutine per configuration or      *)
(* command, joined by a bounded outbound channel, an error channel, a      *)
(* cancellable context and two wait groups.                                *)
(***************************************************************************)
EXTENDS Naturals, FiniteSets

CONSTANTS
  Configs,   \* configurations the server sends
  Commands,  \* commands the server sends
  OutBuf     \* capacity of the outbound channel (outboundChSize)

ASSUME AgentStreamAssumption ==
  /\ Configs \cap Commands = {}
  /\ OutBuf \in Nat \ {0}

Msgs == Configs \cup Commands

VARIABLES
  run,       \* Run: select, wait (handlerWg), close, join (wg), returned
  stop,      \* the agent's context is cancelled
  streamUp,  \* the connection works
  done,      \* streamCtx is cancelled
  sender,    \* send goroutine: run, drain, failed (heartbeat), stopped
  receiver,  \* receive goroutine: recv, dispatch (message in hand), stopped
  inHand,    \* messages received and not dispatched, at most one
  handler,   \* handler of each message: none, work, enqueue, finished
  late,      \* handlers started after handlerWg.Wait returned
  outbound,  \* answers in the outbound channel
  closed,    \* the outbound channel is closed
  sent,      \* answers taken from the channel and passed to stream.Send
  errs,      \* values in errCh
  panicked   \* a handler sent on the closed channel: the agent is gone

channel    == <<outbound, closed, sent>>
goroutines == <<sender, receiver, inHand, handler, late>>
context    == <<stop, streamUp, done>>
vars       == <<run, channel, goroutines, context, errs, panicked>>

Init ==
  /\ run = "select"
  /\ stop = FALSE
  /\ streamUp = TRUE
  /\ done = FALSE
  /\ sender = "run"
  /\ receiver = "recv"
  /\ inHand = {}
  /\ handler = [m \in Msgs |-> "none"]
  /\ late = {}
  /\ outbound = {}
  /\ closed = FALSE
  /\ sent = {}
  /\ errs = 0
  /\ panicked = FALSE

InFlight == {m \in Msgs : handler[m] \in {"work", "enqueue"}}

\* The context: cancelled by the signal handler; the connection: breaks.
Cancel ==
  /\ ~panicked
  /\ ~stop
  /\ stop' = TRUE
  /\ done' = TRUE
  /\ UNCHANGED <<run, channel, goroutines, streamUp, errs, panicked>>

BreakStream ==
  /\ ~panicked
  /\ streamUp
  /\ streamUp' = FALSE
  /\ UNCHANGED <<run, channel, goroutines, stop, done, errs, panicked>>

-----------------------------------------------------------------------------
\* The receive goroutine.

\* A configuration or a command arrives.  (Approvals are handled in place and
\* start no goroutine.)
Recv(m) ==
  /\ ~panicked
  /\ receiver = "recv"
  /\ streamUp /\ ~done
  /\ handler[m] = "none"
  /\ receiver' = "dispatch"
  /\ inHand' = {m}
  /\ UNCHANGED <<run, channel, sender, handler, late, context, errs, panicked>>

\* handlerWg.Add(1) and the go statement; nothing looks at the context.
DispatchMsg ==
  /\ ~panicked
  /\ receiver = "dispatch"
  /\ receiver' = "recv"
  /\ inHand' = {}
  /\ handler' = [m \in Msgs |-> IF m \in inHand THEN "work" ELSE handler[m]]
  /\ late' = IF run \in {"close", "join"} THEN late \cup inHand ELSE late
  /\ UNCHANGED <<run, channel, sender, context, errs, panicked>>

\* The loop goes on after an error.
RecvErrorLoops ==
  /\ ~panicked
  /\ receiver = "recv"
  /\ ~streamUp \/ done
  /\ errs' = errs + 1
  /\ UNCHANGED <<run, channel, goroutines, context, panicked>>

\* Recv fails: the error is reported and the goroutine returns.
RecvError ==
  /\ ~panicked
  /\ receiver = "recv"
  /\ ~streamUp \/ done
  /\ receiver' = "stopped"
  /\ errs' = errs + 1
  /\ UNCHANGED <<run, channel, sender, inHand, handler, late, context,
                 panicked>>

-----------------------------------------------------------------------------
\* Handler goroutines: handleConfig and handleCommand.

\* The configuration is applied, or the command run; both return (a command's
\* context is cancelled with the stream).
Work(m) ==
  /\ ~panicked
  /\ handler[m] = "work"
  /\ handler' = [handler EXCEPT ![m] = "enqueue"]
  /\ UNCHANGED <<run, channel, sender, receiver, inHand, late, context, errs,
                 panicked>>

\* outboundCh <- answer: blocks while the channel is full, panics when it is
\* closed.
Enqueue(m) ==
  /\ ~panicked
  /\ handler[m] = "enqueue"
  /\ \/ /\ closed
        /\ panicked' = TRUE
        /\ UNCHANGED <<handler, outbound>>
     \/ /\ ~closed
        /\ Cardinality(outbound) < OutBuf
        /\ outbound' = outbound \cup {m}
        /\ handler' = [handler EXCEPT ![m] = "finished"]
        /\ UNCHANGED panicked
  /\ UNCHANGED <<run, closed, sent, sender, receiver, inHand, late, context,
                 errs>>

\* A command's result blocks like an acknowledgement.
GiveUpNever(m) == FALSE

\* A command's result is given up when the stream is done; a configuration's
\* acknowledgement is not.
GiveUp(m) ==
  /\ ~panicked
  /\ m \in Commands
  /\ handler[m] = "enqueue"
  /\ done
  /\ handler' = [handler EXCEPT ![m] = "finished"]
  /\ UNCHANGED <<run, channel, sender, receiver, inHand, late, context, errs,
                 panicked>>

-----------------------------------------------------------------------------
\* The send goroutine.

\* An answer is taken from the channel; a failing stream.Send is only logged.
SendNext ==
  /\ ~panicked
  /\ sender \in {"run", "drain"}
  /\ \E m \in outbound :
       /\ outbound' = outbound \ {m}
       /\ sent' = sent \cup {m}
  /\ UNCHANGED <<run, closed, goroutines, context, errs, panicked>>

\* streamCtx is done: the goroutine closes the stream at once.
StartDrainQuits ==
  /\ ~panicked
  /\ sender = "run"
  /\ done
  /\ sender' = "stopped"
  /\ UNCHANGED <<run, channel, receiver, inHand, handler, late, context, errs,
                 panicked>>

\* streamCtx is done: range over the channel until it is closed.
StartDrain ==
  /\ ~panicked
  /\ sender = "run"
  /\ done
  /\ sender' = "drain"
  /\ UNCHANGED <<run, channel, receiver, inHand, handler, late, context, errs,
                 panicked>>

\* The ticker fires and the heartbeat cannot be sent: the goroutine returns
\* and nobody reads the channel any more.
HeartbeatError ==
  /\ ~panicked
  /\ sender = "run"
  /\ ~streamUp \/ done
  /\ sender' = "failed"
  /\ errs' = errs + 1
  /\ UNCHANGED <<run, channel, receiver, inHand, handler, late, context,
                 panicked>>

\* The channel is closed and empty.
SenderDone ==
  /\ ~panicked
  /\ sender \in {"run", "drain"}
  /\ closed /\ outbound = {}
  /\ sender' = "stopped"
  /\ UNCHANGED <<run, channel, receiver, inHand, handler, late, context, errs,
                 panicked>>

-----------------------------------------------------------------------------
\* The body of Run.

\* An error, or the cancelled context; then streamCancel().
Select ==
  /\ ~panicked
  /\ run = "select"
  /\ \/ errs > 0 /\ errs' = errs - 1
     \/ stop /\ UNCHANGED errs
  /\ run' = "wait"
  /\ done' = TRUE
  /\ UNCHANGED <<channel, goroutines, stop, streamUp, panicked>>

\* The wait for the handlers is missing.
WaitHandlersSkipped ==
  /\ ~panicked
  /\ run = "wait"
  /\ run' = "close"
  /\ UNCHANGED <<channel, goroutines, context, errs, panicked>>

\* handlerWg.Wait() returns.
WaitHandlers ==
  /\ ~panicked
  /\ run = "wait"
  /\ InFlight = {}
  /\ run' = "close"
  /\ UNCHANGED <<channel, goroutines, context, errs, panicked>>

\* close(outboundCh), whatever was dispatched since the wait.
CloseOutbound ==
  /\ ~panicked
  /\ run = "close"
  /\ closed' = TRUE
  /\ run' = "join"
  /\ UNCHANGED <<outbound, sent, goroutines, context, errs, panicked>>

\* wg.Wait() returns, and Run does.
Join ==
  /\ ~panicked
  /\ run = "join"
  /\ sender \in {"failed", "stopped"}
  /\ receiver = "stopped"
  /\ run' = "returned"
  /\ UNCHANGED <<channel, goroutines, context, errs, panicked>>

Sender   == SendNext \/ StartDrain \/ HeartbeatError \/ SenderDone
Receiver == DispatchMsg \/ RecvError \/ \E m \in Msgs : Recv(m)
Handle(m) == Work(m) \/ Enqueue(m) \/ GiveUp(m)
Body     == Select \/ WaitHandlers \/ CloseOutbound \/ Join

Next ==
  \/ Cancel \/ BreakStream
  \/ Sender \/ Receiver \/ Body
  \/ \E m \in Msgs : Handle(m)

Spec == Init /\ [][Next]_vars

\* The Go scheduler runs every goroutine that can run, and gRPC keepalive makes
\* Recv fail on a dead connection.  Nothing is assumed of the server or of the
\* operator; a heartbeat may fail at any time, or never be due.
FairSpec ==
  /\ Spec
  /\ WF_vars(Receiver)
  /\ WF_vars(Body)
  /\ WF_vars(SendNext \/ StartDrain \/ SenderDone)
  /\ \A m \in Msgs : WF_vars(Handle(m))

-----------------------------------------------------------------------------
\* Properties.

TypeOK ==
  /\ run \in {"select", "wait", "close", "join", "returned"}
  /\ stop \in BOOLEAN /\ streamUp \in BOOLEAN /\ done \in BOOLEAN
  /\ sender \in {"run", "drain", "failed", "stopped"}
  /\ receiver \in {"recv", "dispatch", "stopped"}
  /\ inHand \in SUBSET Msgs
  /\ handler \in [Msgs -> {"none", "work", "enqueue", "finished"}]
  /\ late \in SUBSET Msgs
  /\ outbound \in SUBSET Msgs /\ closed \in BOOLEAN /\ sent \in SUBSET Msgs
  /\ errs \in 0..2            \* the capacity of errCh
  /\ panicked \in BOOLEAN

\* A handler that handlerWg.Wait had to wait for never meets the closed
\* channel: only one dispatched after the wait returned can.
WaitCoversHandlers == closed => InFlight \subseteq late

\* When Run has returned, every acknowledgement a handler enqueued was passed
\* to the stream, except behind a failed heartbeat.
NothingLeftBehind ==
  run = "returned" /\ outbound # {} => sender = "failed"

\* More acknowledgements than the channel holds, and no goroutine to send them.
Jammed ==
  /\ sender = "failed"
  /\ Cardinality(outbound) = OutBuf
  /\ \E m \in Configs : handler[m] = "enqueue"

\* Run returns when the stream disconnects or the context is cancelled, but for
\* the one case in which its handlers are jammed.
RunReturns == (stop \/ ~streamUp) ~> (run = "returned" \/ panicked \/ Jammed)

\* What the wait group is for: Run waits for the handlers before it closes
\* the channel they send on.
NoSendOnClosed == ~panicked
=============================================================================
