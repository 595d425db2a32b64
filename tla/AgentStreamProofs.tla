-------------------------- MODULE AgentStreamProofs -------------------------
(***************************************************************************)
(* The invariants of AgentStream, for every set of messages and every size *)
(* of the outbound channel.                                                *)
(***************************************************************************)
EXTENDS AgentStream, TLAPS

(***************************************************************************)
(* The invariant that carries it.  The channel is closed only past the     *)
(* wait; from the moment the wait returned, every handler in flight is a   *)
(* late one; and once Run has returned there is no receive goroutine left  *)
(* to start another.                                                       *)
(***************************************************************************)
PastWait == run \in {"close", "join", "returned"}

Inv ==
  /\ handler \in [Msgs -> {"none", "work", "enqueue", "finished"}]
  /\ closed => PastWait
  /\ PastWait => InFlight \subseteq late
  /\ run = "returned" => receiver = "stopped"

\* The initial state satisfies the invariant: Run is in its select.
LEMMA InitInv == Init => Inv
  BY DEF Init, Inv, PastWait, InFlight

\* Every step preserves it; only the dispatch of a message adds a handler, and
\* only the end of the wait makes the third conjunct a new obligation.
LEMMA NextInv == Inv /\ [Next]_vars => Inv'
<1> SUFFICES ASSUME Inv, [Next]_vars PROVE Inv'
  OBVIOUS
<1> USE DEF Inv, PastWait, InFlight
<1>1. ASSUME Cancel \/ BreakStream PROVE Inv'
  BY <1>1 DEF Cancel, BreakStream, channel, goroutines
<1>2. ASSUME Sender PROVE Inv'
  BY <1>2 DEF Sender, SendNext, StartDrain, HeartbeatError, SenderDone,
              channel, goroutines, context
<1>3. ASSUME NEW m \in Msgs, Recv(m) PROVE Inv'
  BY <1>3 DEF Recv, channel
<1>4. ASSUME RecvError PROVE Inv'
  BY <1>4 DEF RecvError, channel
<1>5. ASSUME DispatchMsg PROVE Inv'
  <2>1. handler' \in [Msgs -> {"none", "work", "enqueue", "finished"}]
    BY <1>5 DEF DispatchMsg
  <2>2. run \in {"close", "join"} => InFlight' \subseteq late'
    BY <1>5 DEF DispatchMsg
  <2>3. run # "returned"
    BY <1>5 DEF DispatchMsg
  <2> QED
    BY <1>5, <2>1, <2>2, <2>3 DEF DispatchMsg, channel
<1>6. ASSUME NEW m \in Msgs, Handle(m) PROVE Inv'
  <2>1. \/ handler' = [handler EXCEPT ![m] = "enqueue"] /\ handler[m] = "work"
        \/ handler' = [handler EXCEPT ![m] = "finished"]
        \/ handler' = handler
    BY <1>6 DEF Handle, Work, Enqueue, GiveUp
  <2>2. UNCHANGED <<run, closed, receiver, late>>
    BY <1>6 DEF Handle, Work, Enqueue, GiveUp, channel
  <2>3. InFlight' \subseteq InFlight
    BY <2>1
  <2> QED
    BY <2>1, <2>2, <2>3
<1>7. ASSUME Body PROVE Inv'
  BY <1>7 DEF Body, Select, WaitHandlers, CloseOutbound, Join, channel,
              goroutines
<1>8. ASSUME UNCHANGED vars PROVE Inv'
  BY <1>8 DEF vars, channel, goroutines
<1> QED
  BY <1>1, <1>2, <1>3, <1>4, <1>5, <1>6, <1>7, <1>8 DEF Next, Receiver

\* A handler that handlerWg.Wait had to wait for never sends on the closed
\* outbound channel, however many messages arrive while Run shuts down.
THEOREM HandlersCovered == Spec => []WaitCoversHandlers
<1>1. Inv => WaitCoversHandlers
  BY DEF Inv, WaitCoversHandlers
<1> QED
  BY InitInv, NextInv, <1>1, PTL DEF Spec

-----------------------------------------------------------------------------
(***************************************************************************)
(* Each goroutine reports at most once, on its way out, so errCh holds two *)
(* values at most.  The send goroutine stops only when the channel is      *)
(* closed and empty, and nothing enters a closed channel.                  *)
(***************************************************************************)
Reports == (IF sender = "failed" THEN 1 ELSE 0)
             + (IF receiver = "stopped" THEN 1 ELSE 0)

Types ==
  /\ run \in {"select", "wait", "close", "join", "returned"}
  /\ stop \in BOOLEAN /\ streamUp \in BOOLEAN /\ done \in BOOLEAN
  /\ sender \in {"run", "drain", "failed", "stopped"}
  /\ receiver \in {"recv", "dispatch", "stopped"}
  /\ inHand \in SUBSET Msgs
  /\ handler \in [Msgs -> {"none", "work", "enqueue", "finished"}]
  /\ late \in SUBSET Msgs
  /\ outbound \in SUBSET Msgs /\ closed \in BOOLEAN /\ sent \in SUBSET Msgs
  /\ errs \in Nat
  /\ panicked \in BOOLEAN

EndInv ==
  /\ Types
  /\ errs <= Reports
  /\ sender = "stopped" => closed /\ outbound = {}
  /\ run = "returned" => sender \in {"failed", "stopped"}

LEMMA InitEnd == Init => EndInv
<1> SUFFICES ASSUME Init PROVE EndInv
  OBVIOUS
<1>1. handler \in [Msgs -> {"none", "work", "enqueue", "finished"}]
  BY DEF Init
<1>2. /\ run = "select" /\ stop = FALSE /\ streamUp = TRUE /\ done = FALSE
      /\ sender = "run" /\ receiver = "recv" /\ inHand = {} /\ late = {}
      /\ outbound = {} /\ closed = FALSE /\ sent = {} /\ errs = 0
      /\ panicked = FALSE
  BY DEF Init
<1>3. Types
  BY <1>1, <1>2 DEF Types
<1>4. errs <= Reports
  BY <1>2 DEF Reports
<1> QED
  BY <1>2, <1>3, <1>4 DEF EndInv

LEMMA NextEnd == EndInv /\ [Next]_vars => EndInv'
<1> SUFFICES ASSUME EndInv, [Next]_vars PROVE EndInv'
  OBVIOUS
<1> USE DEF EndInv, Types, Reports
<1>1. ASSUME Cancel \/ BreakStream PROVE EndInv'
  BY <1>1 DEF Cancel, BreakStream, channel, goroutines
<1>2. ASSUME SendNext PROVE EndInv'
  BY <1>2 DEF SendNext, goroutines, context
<1>3. ASSUME StartDrain \/ HeartbeatError \/ SenderDone PROVE EndInv'
  BY <1>3 DEF StartDrain, HeartbeatError, SenderDone, channel, context
<1>4. ASSUME NEW m \in Msgs, Recv(m) PROVE EndInv'
  BY <1>4 DEF Recv, channel, context
<1>5. ASSUME RecvError PROVE EndInv'
  BY <1>5 DEF RecvError, channel, context
<1>6. ASSUME DispatchMsg PROVE EndInv'
  BY <1>6 DEF DispatchMsg, channel, context
<1>7. ASSUME NEW m \in Msgs, Handle(m) PROVE EndInv'
  <2>1. CASE Work(m) \/ GiveUp(m)
    BY <2>1 DEF Work, GiveUp, channel, context
  <2>2. CASE Enqueue(m)
    BY <2>2 DEF Enqueue, context
  <2> QED BY <1>7, <2>1, <2>2 DEF Handle
<1>8. ASSUME Body PROVE EndInv'
  <2>1. CASE Select
    BY <2>1 DEF Select, channel, goroutines
  <2>2. CASE WaitHandlers \/ CloseOutbound \/ Join
    BY <2>2 DEF WaitHandlers, CloseOutbound, Join, channel, goroutines, context
  <2> QED BY <1>8, <2>1, <2>2 DEF Body
<1>9. ASSUME UNCHANGED vars PROVE EndInv'
  BY <1>9 DEF vars, channel, goroutines, context
<1> QED
  BY <1>1, <1>2, <1>3, <1>4, <1>5, <1>6, <1>7, <1>8, <1>9 DEF Next, Sender, Receiver

\* Types; errCh never holds more than its capacity, so no goroutine blocks on
\* it on its way out.
THEOREM TypeCorrect == Spec => []TypeOK
<1>1. EndInv => TypeOK
  BY DEF EndInv, Types, Reports, TypeOK
<1> QED
  BY InitEnd, NextEnd, <1>1, PTL DEF Spec

\* When Run has returned, what a handler enqueued was passed to the stream,
\* unless the send goroutine failed.
THEOREM NothingStranded == Spec => []NothingLeftBehind
<1>1. EndInv => NothingLeftBehind
  BY DEF EndInv, NothingLeftBehind
<1> QED
  BY InitEnd, NextEnd, <1>1, PTL DEF Spec
=============================================================================
