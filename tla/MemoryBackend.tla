---------------------------- MODULE MemoryBackend ----------------------------
(***************************************************************************)
(* The memory backend of the broker: pkg/backend/impl/memory.              *)
(*                                                                         *)
(* Producers (requests of the ingest server) put events into a bounded     *)
(* channel; the goroutine of Start takes them out and calls the dispatch   *)
(* function of every subscription, one after the other, holding the read   *)
(* lock.  A dispatch may itself produce the target's response, from        *)
(* Start's own goroutine.  The subscription manager adds and removes       *)
(* subscriptions under the write lock.                                     *)
(*                                                                         *)
(* Events are numbered in the order they are created.  Operators with an   *)
(* underscore are plausible slips in the definition that follows them.     *)
(***************************************************************************)
EXTENDS Integers, Sequences, FiniteSets

CONSTANTS
    Names,       \* trigger names
    Producers,   \* concurrent requests of the ingest server
    None,        \* nobody
    BufferSize,  \* the buffer-size argument
    MaxEvents,   \* bound: events created, by producers or as responses
    MaxUpdates   \* bound: subscriptions added or removed

ASSUME MemoryAssumption ==
    /\ None \notin Names /\ None \notin Producers
    /\ BufferSize \in Nat \ {0} /\ MaxEvents \in Nat /\ MaxUpdates \in Nat

VARIABLES
    buffer,    \* the channel's content
    open,      \* the channel is not closed
    closing,   \* memory.closing
    ctxDone,   \* the context of Start is done
    ccbs,      \* the keys of memory.ccbs
    writer,    \* the Subscribe or Unsubscribe that waits for the lock
    startPc,   \* where the goroutine of Start is
    event,     \* the event in its hands, 0 for none
    todo,      \* subscriptions fanOut has still to call
    target,    \* the subscription whose dispatch runs
    sink,      \* whether it has asked the target or the dead letter sink
    response,  \* the event that dispatch is producing
    prod,      \* for each producer, the event it is sending, 0 for none
    created,   \* events created so far
    updates,   \* subscriptions added or removed so far
    \* history, for the properties only
    accepted,  \* events whose Produce has succeeded, in that order
    taken      \* events Start has taken from the channel, in that order

chan  == <<buffer, open, accepted>>
start == <<startPc, event, todo, target, sink, response>>
vars == <<chan, closing, ctxDone, ccbs, writer, start, prod, created, updates, taken>>

Idle == [op |-> "none", name |-> None]

Init ==
    /\ buffer = <<>> /\ open = TRUE /\ closing = FALSE /\ ctxDone = FALSE
    /\ ccbs = {} /\ writer = Idle
    /\ startPc = "select" /\ event = 0 /\ todo = {} /\ target = None
    /\ sink = "target" /\ response = 0
    /\ prod = [p \in Producers |-> 0]
    /\ created = 0 /\ updates = 0
    /\ accepted = <<>> /\ taken = <<>>

-----------------------------------------------------------------------------
(* Produce: first the check of closing, then the select. *)

NewEvent == created < MaxEvents /\ created' = created + 1

HasRoom_Full == Len(buffer) <= BufferSize
HasRoom == Len(buffer) < BufferSize

\* A non-blocking send.
SendToBuffer_Default(e) ==
    /\ open
    /\ buffer' = IF HasRoom THEN Append(buffer, e) ELSE buffer
    /\ accepted' = Append(accepted, e)
    /\ UNCHANGED open

SendToBuffer(e) ==
    /\ open /\ HasRoom
    /\ buffer' = Append(buffer, e)
    /\ accepted' = Append(accepted, e)
    /\ UNCHANGED open

ProduceCheck(p) ==
    /\ prod[p] = 0 /\ ~closing
    /\ NewEvent
    /\ prod' = [prod EXCEPT ![p] = created']
    /\ UNCHANGED <<chan, closing, ctxDone, ccbs, writer, start, updates, taken>>

ProduceDone(p) ==
    /\ prod[p] # 0
    /\ prod' = [prod EXCEPT ![p] = 0]
    /\ UNCHANGED <<closing, ctxDone, ccbs, writer, start, created, updates, taken>>

ProduceSend(p) == ProduceDone(p) /\ SendToBuffer(prod[p])

\* A timeout of zero, or a late schedule, may fire even when there is room or
\* the channel is closed: select takes any case that is ready.
ProduceTimeout(p) == ProduceDone(p) /\ UNCHANGED chan

\* The channel was closed after the check: the send panics, and the
\* CloudEvents receiver recovers and answers with an error.
ProducePanic(p) == ProduceDone(p) /\ ~open /\ UNCHANGED chan

-----------------------------------------------------------------------------
(* Subscribe and Unsubscribe *)

\* The caller waits for the write lock; from then on no new reader gets it.
UpdateCall(op, n) ==
    /\ writer = Idle /\ updates < MaxUpdates
    /\ updates' = updates + 1
    /\ writer' = [op |-> op, name |-> n]
    /\ UNCHANGED <<chan, closing, ctxDone, ccbs, start, prod, created, taken>>

\* fanOut holds the read lock.
ReadLocked_Never == FALSE
ReadLocked == startPc \in {"iterate", "dispatch", "respond"}

UpdateLocked ==
    /\ writer # Idle /\ ~ReadLocked
    /\ ccbs' = IF writer.op = "subscribe" THEN ccbs \cup {writer.name}
               ELSE ccbs \ {writer.name}
    /\ writer' = Idle
    /\ UNCHANGED <<chan, closing, ctxDone, start, prod, created, updates, taken>>

-----------------------------------------------------------------------------
(* Start *)

Signal ==
    /\ ~ctxDone /\ ctxDone' = TRUE
    /\ UNCHANGED <<chan, closing, ccbs, writer, start, prod, created, updates, taken>>

\* The goroutine that only sets closing.
Closer ==
    /\ ctxDone /\ ~closing /\ closing' = TRUE
    /\ UNCHANGED <<chan, ctxDone, ccbs, writer, start, prod, created, updates, taken>>

\* A case of the select, or an iteration of the range over the closed channel.
Receive ==
    /\ startPc = "select" /\ buffer # <<>>
    /\ startPc' = "received"
    /\ event' = Head(buffer) /\ buffer' = Tail(buffer)
    /\ taken' = Append(taken, Head(buffer))
    /\ UNCHANGED <<open, accepted, closing, ctxDone, ccbs, writer, todo, target, sink,
                   response, prod, created, updates>>

ClosingAtClose_Left == closing
ClosingAtClose == TRUE

Close ==
    /\ startPc = "select" /\ ctxDone /\ open
    /\ closing' = ClosingAtClose
    /\ open' = FALSE
    /\ UNCHANGED <<buffer, accepted, ctxDone, ccbs, writer, start, prod, created, updates,
                   taken>>

\* The range ends when the closed channel is empty.
RangeEnds_AtOnce == ~open
RangeEnds == ~open /\ buffer = <<>>

Return ==
    /\ startPc = "select" /\ RangeEnds
    /\ startPc' = "returned"
    /\ UNCHANGED <<chan, closing, ctxDone, ccbs, writer, event, todo, target, sink,
                   response, prod, created, updates, taken>>

StartMoves(from, to) ==
    /\ startPc = from /\ startPc' = to
    /\ UNCHANGED <<closing, ctxDone, ccbs, writer, prod, updates, taken>>

FanOut ==
    /\ StartMoves("received", "iterate") /\ writer = Idle
    /\ todo' = ccbs
    /\ UNCHANGED <<chan, event, target, sink, response, created>>

\* The filter passes or not; when it passes the target is asked.
Dispatch(n) ==
    /\ StartMoves("iterate", "dispatch") /\ n \in todo
    /\ target' = n /\ todo' = todo \ {n} /\ sink' = "target"
    /\ UNCHANGED <<chan, event, response, created>>

\* Who was asked has answered with an event: it is produced.
Respond ==
    /\ StartMoves("dispatch", "respond") /\ ~closing
    /\ NewEvent
    /\ response' = created'
    /\ UNCHANGED <<chan, event, todo, target, sink>>

\* The dispatch is over: the event was sent, filtered or lost.
Returns(from) ==
    /\ StartMoves(from, "iterate")
    /\ target' = None
    /\ UNCHANGED <<event, todo, sink, created>>

RespondSend == Returns("respond") /\ SendToBuffer(response) /\ response' = 0

DispatchReturn == Returns("dispatch") /\ UNCHANGED <<chan, response>>

\* The target has no URL, failed, or its response was rejected when closing.
TargetFails ==
    /\ StartMoves("dispatch", "dispatch") /\ sink = "target"
    /\ sink' = "deadletter"
    /\ UNCHANGED <<chan, event, todo, target, response, created>>

RespondMayTimeout_Never == FALSE
RespondMayTimeout == TRUE

\* A response that could not be produced is an error like any other.
RespondTimeout ==
    /\ RespondMayTimeout /\ response' = 0
    /\ \/ /\ StartMoves("respond", "dispatch") /\ sink = "target"
          /\ sink' = "deadletter"
          /\ UNCHANGED <<chan, event, todo, target, created>>
       \/ Returns("respond") /\ UNCHANGED chan

FanOutEnds ==
    /\ StartMoves("iterate", "select") /\ todo = {}
    /\ event' = 0
    /\ UNCHANGED <<chan, todo, target, sink, response, created>>

StartStep ==
    \/ Receive \/ Close \/ Return
    \/ FanOut \/ (\E n \in Names : Dispatch(n)) \/ DispatchReturn \/ FanOutEnds
    \/ TargetFails \/ RespondSend \/ RespondTimeout

ProduceStep(p) == ProduceSend(p) \/ ProduceTimeout(p) \/ ProducePanic(p)

Next ==
    \/ \E p \in Producers : ProduceCheck(p) \/ ProduceStep(p)
    \/ \E n \in Names : UpdateCall("subscribe", n) \/ UpdateCall("unsubscribe", n)
    \/ UpdateLocked
    \/ Signal \/ Closer
    \/ StartStep \/ Respond

Spec == Init /\ [][Next]_vars

\* Goroutines that can run are scheduled and dispatches return (targets answer
\* or time out).  Respond is the target's choice and gets no fairness; nor do
\* new requests, configuration updates and the signal.
Fairness ==
    /\ WF_vars(StartStep) /\ WF_vars(Closer) /\ WF_vars(UpdateLocked)
    /\ \A p \in Producers : WF_vars(ProduceStep(p))

FairSpec == Spec /\ Fairness

-----------------------------------------------------------------------------
(* Properties *)

TypeOK ==
    /\ buffer \in Seq(1..MaxEvents) /\ Len(buffer) <= BufferSize
    /\ open \in BOOLEAN /\ closing \in BOOLEAN /\ ctxDone \in BOOLEAN
    /\ ccbs \subseteq Names
    /\ writer \in {Idle} \cup [op : {"subscribe", "unsubscribe"}, name : Names]
    /\ startPc \in {"select", "received", "iterate", "dispatch", "respond", "returned"}
    /\ event \in 0..MaxEvents /\ todo \subseteq Names /\ target \in Names \cup {None}
    /\ sink \in {"target", "deadletter"}
    /\ response \in 0..MaxEvents
    /\ startPc = "respond" => response # 0
    /\ prod \in [Producers -> 0..MaxEvents]
    /\ created \in 0..MaxEvents /\ updates \in 0..MaxUpdates
    /\ accepted \in Seq(1..MaxEvents) /\ taken \in Seq(1..MaxEvents)

\* The backend is a queue: what was accepted has been taken in that order or
\* is still in the channel, in that order, whoever produced it and however the
\* channel was closed.
QueueKept == accepted = taken \o buffer

\* Start returns only when every accepted event was taken and fanned out,
\* although producers race the closing of the channel.
NothingLeft == startPc = "returned" => accepted = taken /\ event = 0 /\ todo = {}

\* Start's own goroutine never sends on the closed channel (nobody would
\* recover from that panic): a dispatch sees closing before the channel closes.
DispatchNeverPanics == startPc = "respond" => open

\* Unsubscribe waits for the fan-out that runs: fanOut calls only subscriptions
\* that exist, and the map does not change while it is iterated.
CalledAreSubscribed == todo \subseteq ccbs /\ (target # None => target \in ccbs)

\* A dispatch that produces into a full buffer waits for its own goroutine,
\* and a manager that waits for the lock keeps the next fan-out waiting: the
\* produce timeout resolves both, so what is accepted is taken in the end.
AcceptedIsTaken ==
    \A k \in 1..MaxEvents : (Len(accepted) >= k) ~> (Len(taken) >= k)

\* Start returns after its context is done.
ShutdownCompletes == ctxDone ~> (startPc = "returned")
=============================================================================
