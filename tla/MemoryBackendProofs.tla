------------------------- MODULE MemoryBackendProofs -------------------------
(***************************************************************************)
(* Proofs about MemoryBackend, for every number of triggers, producers,    *)
(* events and updates and every buffer size.                               *)
(***************************************************************************)
EXTENDS MemoryBackend, SequenceTheorems, TLAPS

(* Type correctness *)

LEMMA Counters ==
    /\ 0 \in 0..MaxEvents /\ 0 \in 0..MaxUpdates
    /\ MaxEvents \in Nat /\ MaxUpdates \in Nat /\ BufferSize \in Nat /\ BufferSize > 0
BY MemoryAssumption

\* A new event gets a number within its bound.
LEMMA NewEventType ==
    ASSUME created \in 0..MaxEvents, NewEvent
    PROVE  created' \in 0..MaxEvents /\ created' \in 1..MaxEvents /\ created' # 0
BY Counters DEF NewEvent

LEMMA SendType ==
    ASSUME TypeOK, NEW e \in 1..MaxEvents, SendToBuffer(e)
    PROVE  /\ buffer' \in Seq(1..MaxEvents) /\ Len(buffer') <= BufferSize
           /\ accepted' \in Seq(1..MaxEvents) /\ open' \in BOOLEAN
BY Counters DEF TypeOK, SendToBuffer, HasRoom

LEMMA InitType == ASSUME Init PROVE TypeOK
<1>1. <<>> \in Seq(1..MaxEvents) /\ Len(<<>>) <= BufferSize
  BY Counters
<1>2. /\ buffer \in Seq(1..MaxEvents) /\ Len(buffer) <= BufferSize
      /\ accepted \in Seq(1..MaxEvents) /\ taken \in Seq(1..MaxEvents)
  BY <1>1 DEF Init
<1>3. prod \in [Producers -> 0..MaxEvents]
  BY Counters DEF Init
<1>4. QED BY <1>2, <1>3, Counters DEF Init, TypeOK

\* What a producer that ends its call was sending is an event.
LEMMA SendingType ==
    ASSUME TypeOK, NEW p \in Producers, prod[p] # 0
    PROVE  prod[p] \in 1..MaxEvents
BY Counters DEF TypeOK

LEMMA ReceiveType ==
    ASSUME TypeOK, Receive
    PROVE  TypeOK'
<1>1. Head(buffer) \in 1..MaxEvents /\ Tail(buffer) \in Seq(1..MaxEvents)
      /\ Len(Tail(buffer)) <= BufferSize
  BY Counters DEF TypeOK, Receive
<1>2. taken' \in Seq(1..MaxEvents)
  BY <1>1 DEF TypeOK, Receive
<1>3. QED BY <1>1, <1>2 DEF TypeOK, Receive

LEMMA StepType ==
    ASSUME TypeOK, [Next]_vars
    PROVE  TypeOK'
<1> USE Counters
<1>1. ASSUME NEW p \in Producers, ProduceCheck(p)
      PROVE  TypeOK'
  BY <1>1, NewEventType DEF TypeOK, ProduceCheck, chan, start
<1>2. ASSUME NEW p \in Producers, ProduceSend(p)
      PROVE  TypeOK'
  <2>1. prod[p] \in 1..MaxEvents
    BY <1>2, SendingType DEF ProduceSend, ProduceDone
  <2>2. QED BY <1>2, <2>1, SendType DEF TypeOK, ProduceSend, ProduceDone, start
<1>3. ASSUME NEW p \in Producers, ProduceTimeout(p) \/ ProducePanic(p)
      PROVE  TypeOK'
  BY <1>3 DEF TypeOK, ProduceTimeout, ProducePanic, ProduceDone, chan, start
<1>4. ASSUME NEW n \in Names, UpdateCall("subscribe", n) \/ UpdateCall("unsubscribe", n)
      PROVE  TypeOK'
  BY <1>4 DEF TypeOK, UpdateCall, chan, start
<1>5. CASE UpdateLocked
  <2>1. writer.name \in Names
    BY <1>5 DEF TypeOK, UpdateLocked
  <2>2. QED BY <1>5, <2>1 DEF TypeOK, UpdateLocked, Idle, chan, start
<1>6. CASE Signal \/ Closer
  BY <1>6 DEF TypeOK, Signal, Closer, chan, start
<1>7. CASE Receive
  BY <1>7, ReceiveType
<1>8. CASE Close \/ Return
  BY <1>8 DEF TypeOK, Close, Return, ClosingAtClose, chan, start
<1>9. CASE FanOut \/ FanOutEnds
  BY <1>9 DEF TypeOK, FanOut, FanOutEnds, StartMoves, chan
<1>10. ASSUME NEW n \in Names, Dispatch(n)
       PROVE  TypeOK'
  BY <1>10 DEF TypeOK, Dispatch, StartMoves, chan
<1>11. CASE Respond
  BY <1>11, NewEventType DEF TypeOK, Respond, StartMoves, chan
<1>12. CASE RespondSend
  <2>1. response \in 1..MaxEvents
    BY <1>12 DEF TypeOK, RespondSend, Returns, StartMoves
  <2>2. QED BY <1>12, <2>1, SendType DEF TypeOK, RespondSend, Returns, StartMoves
<1>13. CASE RespondTimeout
  BY <1>13 DEF TypeOK, RespondTimeout, Returns, StartMoves, chan
<1>14. CASE DispatchReturn \/ TargetFails
  BY <1>14 DEF TypeOK, DispatchReturn, TargetFails, Returns, StartMoves, chan
<1>15. CASE UNCHANGED vars
  BY <1>15 DEF TypeOK, vars, chan, start
<1>16. QED
  BY <1>1, <1>2, <1>3, <1>4, <1>5, <1>6, <1>7, <1>8, <1>9, <1>10, <1>11, <1>12,
     <1>13, <1>14, <1>15
  DEF Next, StartStep, ProduceStep

\* Every variable keeps its type, and the channel never holds more events than
\* its size (memory.go:46).
THEOREM MemoryTypeCorrect == Spec => []TypeOK
<1>1. Init => TypeOK
  BY InitType
<1>2. TypeOK /\ [Next]_vars => TypeOK'
  BY StepType
<1>3. QED BY <1>1, <1>2, PTL DEF Spec

-----------------------------------------------------------------------------
(* The queue *)

\* Moving the head of one sequence to the end of another keeps their
\* concatenation.
LEMMA MoveHead ==
    ASSUME NEW S, NEW s \in Seq(S), NEW t \in Seq(S), t # <<>>
    PROVE  Append(s, Head(t)) \o Tail(t) = s \o t
<1>1. Head(t) \in S /\ Tail(t) \in Seq(S) /\ <<Head(t)>> \in Seq(S)
  BY HeadTailProperties
<1>2. Append(s, Head(t)) = s \o <<Head(t)>>
  BY <1>1, AppendIsConcat
<1>3. (s \o <<Head(t)>>) \o Tail(t) = s \o (<<Head(t)>> \o Tail(t))
  BY <1>1, ConcatAssociative
<1>4. <<Head(t)>> \o Tail(t) = t
  BY <1>1
<1>5. QED BY <1>2, <1>3, <1>4

\* A successful send appends to what was accepted and to the channel.
LEMMA SendKeepsQueue ==
    ASSUME TypeOK, QueueKept, NEW e \in 1..MaxEvents, SendToBuffer(e), taken' = taken
    PROVE  QueueKept'
<1> DEFINE S == 1..MaxEvents
<1>1. Append(taken \o buffer, e) = taken \o Append(buffer, e)
  <2>1. /\ taken \in Seq(S) /\ buffer \in Seq(S) /\ e \in S
        /\ <<e>> \in Seq(S) /\ taken \o buffer \in Seq(S)
    BY DEF TypeOK
  <2> HIDE DEF S
  <2>2. Append(taken \o buffer, e) = (taken \o buffer) \o <<e>>
    BY <2>1, AppendIsConcat
  <2>3. Append(buffer, e) = buffer \o <<e>>
    BY <2>1, AppendIsConcat
  <2>4. (taken \o buffer) \o <<e>> = taken \o (buffer \o <<e>>)
    BY <2>1, ConcatAssociative
  <2>5. QED BY <2>2, <2>3, <2>4
<1>2. /\ accepted' = Append(accepted, e) /\ buffer' = Append(buffer, e)
      /\ accepted = taken \o buffer
  BY DEF QueueKept, SendToBuffer
<1>3. accepted' = taken' \o buffer'
  BY <1>1, <1>2, Zenon
<1>4. QED BY <1>3, Zenon DEF QueueKept

LEMMA StepKeepsQueue ==
    ASSUME TypeOK, QueueKept, [Next]_vars
    PROVE  QueueKept'
<1>1. ASSUME NEW p \in Producers, ProduceSend(p)
      PROVE  QueueKept'
  BY <1>1, SendingType, SendKeepsQueue DEF ProduceSend, ProduceDone
<1>2. CASE RespondSend
  <2>1. response \in 1..MaxEvents
    BY <1>2, Counters DEF TypeOK, RespondSend, Returns, StartMoves
  <2>2. QED BY <1>2, <2>1, SendKeepsQueue DEF RespondSend, Returns, StartMoves
<1>3. CASE Receive
  <2> DEFINE S == 1..MaxEvents
  <2>1. taken \in Seq(S) /\ buffer \in Seq(S) /\ buffer # <<>>
    BY <1>3 DEF TypeOK, Receive
  <2> HIDE DEF S
  <2>2. Append(taken, Head(buffer)) \o Tail(buffer) = taken \o buffer
    BY <2>1, MoveHead, Zenon
  <2>3. /\ taken' = Append(taken, Head(buffer)) /\ buffer' = Tail(buffer)
        /\ accepted' = accepted
    BY <1>3, Zenon DEF Receive
  <2>4. QED BY <2>2, <2>3, Zenon DEF QueueKept
<1>4. ASSUME NEW p \in Producers, ProduceCheck(p) \/ ProduceTimeout(p) \/ ProducePanic(p)
      PROVE  QueueKept'
  BY <1>4 DEF QueueKept, ProduceCheck, ProduceTimeout, ProducePanic, ProduceDone, chan
<1>5. ASSUME NEW n \in Names,
             Dispatch(n) \/ UpdateCall("subscribe", n) \/ UpdateCall("unsubscribe", n)
      PROVE  QueueKept'
  BY <1>5 DEF QueueKept, Dispatch, StartMoves, UpdateCall, chan
<1>6. CASE UpdateLocked \/ Signal \/ Closer \/ Close \/ Return
  BY <1>6 DEF QueueKept, UpdateLocked, Signal, Closer, Close, Return, chan
<1>7. CASE FanOut \/ FanOutEnds \/ Respond \/ RespondTimeout \/ DispatchReturn \/ TargetFails
  BY <1>7 DEF QueueKept, FanOut, FanOutEnds, Respond, RespondTimeout, DispatchReturn,
              TargetFails, Returns, StartMoves, chan
<1>8. CASE UNCHANGED vars
  BY <1>8 DEF QueueKept, vars, chan
<1>9. QED
  BY <1>1, <1>2, <1>3, <1>4, <1>5, <1>6, <1>7, <1>8 DEF Next, StartStep, ProduceStep

\* The channel is a queue: what Produce accepted was taken in that order or is
\* still in the channel (memory.go:58, memory.go:91, memory.go:99).
THEOREM AcceptedInOrder == Spec => []QueueKept
<1>1. Init => TypeOK /\ QueueKept
  <2>1. Init => QueueKept
    BY DEF Init, QueueKept
  <2>2. QED BY <2>1, InitType
<1>2. TypeOK /\ QueueKept /\ [Next]_vars => (TypeOK /\ QueueKept)'
  BY StepType, StepKeepsQueue
<1>3. QED BY <1>1, <1>2, PTL DEF Spec

-----------------------------------------------------------------------------
(* Start and the fan-out *)

\* What Start holds at each of its points, and what a closed channel implies.
StartInv ==
    /\ ~open => closing
    /\ startPc = "respond" => open
    /\ startPc = "returned" => ~open /\ buffer = <<>>
    /\ startPc \in {"select", "returned"} => event = 0
    /\ startPc \in {"select", "received", "returned"} => todo = {} /\ target = None
    /\ startPc = "iterate" => target = None
    /\ CalledAreSubscribed

LEMMA InitStart == ASSUME Init PROVE StartInv
BY DEF Init, StartInv, CalledAreSubscribed

LEMMA StepStart ==
    ASSUME TypeOK, StartInv, [Next]_vars
    PROVE  StartInv'
<1> USE DEF StartInv, CalledAreSubscribed
<1>1. ASSUME NEW p \in Producers,
             ProduceCheck(p) \/ ProduceSend(p) \/ ProduceTimeout(p) \/ ProducePanic(p)
      PROVE  StartInv'
  BY <1>1 DEF ProduceCheck, ProduceSend, ProduceTimeout, ProducePanic, ProduceDone,
              SendToBuffer, chan, start
<1>2. ASSUME NEW n \in Names, UpdateCall("subscribe", n) \/ UpdateCall("unsubscribe", n)
      PROVE  StartInv'
  BY <1>2 DEF UpdateCall, chan, start
<1>3. CASE UpdateLocked
  <2>1. todo = {} /\ target = None
    BY <1>3 DEF UpdateLocked, ReadLocked, TypeOK
  <2>2. QED BY <1>3, <2>1 DEF UpdateLocked, chan, start
<1>4. CASE Signal \/ Closer
  BY <1>4 DEF Signal, Closer, chan, start
<1>5. CASE Receive
  BY <1>5 DEF Receive
<1>6. CASE Close \/ Return
  BY <1>6 DEF Close, ClosingAtClose, Return, RangeEnds, chan, start
<1>7. CASE FanOut \/ FanOutEnds
  BY <1>7 DEF FanOut, FanOutEnds, StartMoves, chan
<1>8. ASSUME NEW n \in Names, Dispatch(n)
      PROVE  StartInv'
  BY <1>8 DEF Dispatch, StartMoves, chan
<1>9. CASE Respond \/ TargetFails
  BY <1>9 DEF Respond, TargetFails, StartMoves, chan
<1>10. CASE RespondSend \/ RespondTimeout \/ DispatchReturn
  BY <1>10 DEF RespondSend, RespondTimeout, DispatchReturn, Returns, StartMoves,
               SendToBuffer, chan
<1>11. CASE UNCHANGED vars
  BY <1>11 DEF vars, chan, start
<1>12. QED
  BY <1>1, <1>2, <1>3, <1>4, <1>5, <1>6, <1>7, <1>8, <1>9, <1>10, <1>11
  DEF Next, StartStep, ProduceStep

LEMMA StartInvariant == Spec => [](TypeOK /\ StartInv)
<1>1. Init => TypeOK /\ StartInv
  BY InitType, InitStart
<1>2. TypeOK /\ StartInv /\ [Next]_vars => (TypeOK /\ StartInv)'
  BY StepType, StepStart
<1>3. QED BY <1>1, <1>2, PTL DEF Spec

\* No dispatch of Start's goroutine sends on the closed channel: the channel is
\* closed by that goroutine alone, after closing was set (memory.go:95-96).
THEOREM StartNeverPanics == Spec => []DispatchNeverPanics
<1>1. StartInv => DispatchNeverPanics
  BY DEF StartInv, DispatchNeverPanics
<1>2. QED BY <1>1, StartInvariant, PTL

\* fanOut calls only existing subscriptions: the write lock keeps Subscribe and
\* Unsubscribe out while it iterates (memory.go:113).
THEOREM OnlySubscribedCalled == Spec => []CalledAreSubscribed
<1>1. StartInv => CalledAreSubscribed
  BY DEF StartInv
<1>2. QED BY <1>1, StartInvariant, PTL

\* Start returns only when all accepted events were taken and fanned out: the
\* closed channel is empty and stays so (memory.go:99).
THEOREM ShutdownDrains == Spec => []NothingLeft
<1>1. TypeOK /\ StartInv /\ QueueKept => NothingLeft
  <2> SUFFICES ASSUME TypeOK, StartInv, QueueKept, startPc = "returned"
               PROVE  accepted = taken /\ event = 0 /\ todo = {}
    BY DEF NothingLeft
  <2>1. buffer = <<>> /\ event = 0 /\ todo = {}
    BY DEF StartInv
  <2>2. taken \o <<>> = taken
    BY DEF TypeOK
  <2>3. QED BY <2>1, <2>2 DEF QueueKept
<1>2. QED BY <1>1, StartInvariant, AcceptedInOrder, PTL
=============================================================================
