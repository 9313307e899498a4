-------------------------- MODULE RedisBackendProofs --------------------------
(***************************************************************************)
(* Proofs about RedisBackend, for every number of triggers, subscriptions, *)
(* entries, faults and restarts: type correctness, at-least-once, and the  *)
(* subscription map, with one tracked loop for each trigger, a wait group  *)
(* that counts the map, and a client that closes with no loop left.        *)
(***************************************************************************)
EXTENDS RedisBackendProperties, TLAPS, FiniteSetTheorems

(* Lemmas about the operators of the model *)

LEMMA Bounds ==
    /\ MaxId \in Nat /\ MaxFaults \in Nat /\ MaxRestarts \in Nat
    /\ 0 \in Nat /\ 0 \in 0..MaxId /\ Ids \subseteq 0..MaxId /\ Ids \subseteq Nat
BY BoundsAssumption DEF Ids

\* The parts of the type invariant the other lemmas use.
LEMMA SubFields ==
    ASSUME TypeOK, NEW s \in Subs
    PROVE  /\ sub[s] \in Subscription
           /\ sub[s].running \in SUBSET Ids /\ sub[s].returned \in SUBSET Ids
           /\ sub[s].seen \in SUBSET Ids
           /\ sub[s].msg \in 0..MaxId /\ sub[s].cursor \in 0..MaxId
           /\ sub[s].exitLoop \in BOOLEAN /\ sub[s].pending \in BOOLEAN
           /\ sub[s].owner \in Names \cup {None}
           /\ Coherent(sub[s])
<1>1. sub[s] \in Subscription /\ Coherent(sub[s])
  BY DEF TypeOK
<1>2. QED BY <1>1 DEF Subscription

\* An update of one subscription object keeps the type of all of them.
LEMMA SetSubType ==
    ASSUME TypeOK, NEW s \in Subs, NEW r \in Subscription,
           Coherent(r), sub' = [sub EXCEPT ![s] = r]
    PROVE  /\ sub' \in [Subs -> Subscription]
           /\ \A t \in Subs : Coherent(sub'[t])
BY DEF TypeOK

\* Subscription objects start with their type.
LEMMA NoSubType == NoSub \in Subscription /\ NoSub.pc = "none"
BY Bounds, Zenon DEF NoSub, Subscription, Pcs, NoEnd

LEMMA NewSubType ==
    ASSUME NEW n \in Names, NEW b \in BoundChoices
    PROVE  /\ NewSub(n, b) \in Subscription /\ NewSub(n, b).owner = n
           /\ NewSub(n, b).pc = "check" /\ NewSub(n, b).returned = {}
<1>1. b.end \in Nat
  BY BoundsAssumption DEF Latest
<1>2. [NoSub EXCEPT !.owner = n, !.pc = "check", !.watching = TRUE,
                    !.pending = TRUE, !.end = b.end] \in Subscription
  BY <1>1, NoSubType, Zenon DEF Subscription, Pcs
<1>3. NewSub(n, b) \in Subscription
  BY <1>2, Zenon DEF NewSub, ReadsPendingFirst
<1>4. QED BY <1>3 DEF NewSub, NoSub

\* What XADD does to the counters of the stream.
LEMMA XAddType ==
    ASSUME TypeOK, XAdd
    PROVE  /\ produced \in Nat /\ produced' \in 0..MaxId /\ produced' = produced + 1
           /\ trimmed \in Nat /\ trimmed' \in 0..produced' /\ trimmed <= trimmed'
<1>1. /\ produced \in Nat /\ trimmed \in Nat /\ trimmed <= produced
      /\ produced < MaxId /\ produced' = produced + 1 /\ MaxId \in Nat
  BY BoundsAssumption DEF TypeOK, XAdd
<1>2. trimmed' \in trimmed..produced'
  BY <1>1 DEF XAdd, TrimChoices
<1>3. QED BY <1>1, <1>2

\* The commands keep the type of the consumer groups.
LEMMA XGroupCreateType ==
    ASSUME TypeOK, NEW n \in Names, NEW b \in BoundChoices, XGroupCreate(n, b)
    PROVE  group' \in [Names -> Group]
<1>1. StartId(b) \in Nat
  BY BoundsAssumption DEF StartId, Latest, TypeOK
<1>2. [exists |-> TRUE, start |-> StartId(b), last |-> StartId(b), pel |-> {}] \in Group
  BY <1>1 DEF Group
<1>3. QED BY <1>2 DEF XGroupCreate, TypeOK

LEMMA XReadGroupType ==
    ASSUME TypeOK, NEW s \in Subs, NEW m \in Ids, XReadGroup(s, m)
    PROVE  group' \in [Names -> Group]
<1> DEFINE g(n) == [group[n] EXCEPT !.last = m, !.pel = PelAfterRead(n, m)]
<1>1. ASSUME NEW n \in Names
      PROVE  g(n) \in Group
  <2>1. group[n] \in Group /\ m \in Nat
    BY Bounds DEF TypeOK
  <2>2. group[n].pel \in SUBSET (Instances \X Ids) /\ inst \in Instances
    BY <2>1 DEF Group, TypeOK
  <2>3. PelAfterRead(n, m) \in SUBSET (Instances \X Ids)
    BY <2>2 DEF PelAfterRead
  <2>4. QED BY <2>1, <2>3, Zenon DEF Group
<1>2. group' = group \/ group' = [group EXCEPT ![sub[s].owner] = g(sub[s].owner)]
  BY DEF XReadGroup
<1> HIDE DEF g
<1>3. QED BY <1>1, <1>2 DEF TypeOK

LEMMA XAckType ==
    ASSUME TypeOK, NEW n, NEW m, XAck(n, m)
    PROVE  group' \in [Names -> Group]
<1>1. \A k \in Names : [group[k] EXCEPT !.pel = {p \in @ : p[2] # m}] \in Group
  BY DEF TypeOK, Group
<1>2. group' = [group EXCEPT ![n] = [group[n] EXCEPT !.pel = {p \in @ : p[2] # m}]]
  BY DEF XAck
<1>3. QED BY <1>1, <1>2 DEF TypeOK

\* What a read returns is an entry.
LEMMA ToReadType ==
    ASSUME NEW s, NEW m \in ToRead(s)
    PROVE  m \in Ids
BY DEF ToRead, LeastOf, Unread, Pending

-----------------------------------------------------------------------------
(* Type correctness *)

LEMMA InitType == Init => TypeOK
<1> SUFFICES ASSUME Init PROVE TypeOK
  OBVIOUS
<1>1. NoGroup \in Group
  BY DEF NoGroup, Group
<1>2. /\ group \in [Names -> Group] /\ subs \in [Names -> Subs \cup {None}]
      /\ processed \in [Names -> SUBSET Ids] /\ bad \subseteq 1..produced
  BY <1>1 DEF Init
<1>3. sub \in [Subs -> Subscription] /\ \A s \in Subs : Coherent(sub[s])
  BY NoSubType DEF Init, Coherent
<1>4. /\ faults \in 0..MaxFaults /\ restarts \in 0..MaxRestarts
      /\ produced \in 0..MaxId /\ trimmed \in 0..produced
  BY Bounds DEF Init
<1>5. /\ inst \in Instances /\ waitFor \in Subs \cup {None} /\ wg \in Int
      /\ startPc = "init" /\ mutex = "free"
  BY DEF Init
<1>6. QED BY <1>2, <1>3, <1>4, <1>5 DEF TypeOK

\* A step of a subscription's goroutines that leaves the rest well typed.
LEMMA LoopFrame ==
    ASSUME TypeOK, NEW s \in Subs, NEW r \in Subscription, Coherent(r), SetSub(s, r),
           UNCHANGED server, group' \in [Names -> Group],
           processed' \in [Names -> SUBSET Ids],
           faults' \in 0..MaxFaults, UNCHANGED restarts
    PROVE  TypeOK'
BY SetSubType DEF TypeOK, SetSub, server, object

LEMMA LoopStepType ==
    ASSUME TypeOK, NEW s \in Subs, LoopStep(s) \/ WatchDone(s)
    PROVE  TypeOK'
<1> DEFINE x == sub[s]
<1>0. /\ group \in [Names -> Group] /\ processed \in [Names -> SUBSET Ids]
      /\ faults \in 0..MaxFaults
  BY DEF TypeOK
<1>f. ASSUME faults < MaxFaults
      PROVE  faults + 1 \in 0..MaxFaults
  BY <1>f, <1>0, Bounds
<1>s. /\ x \in Subscription /\ x.running \in SUBSET Ids /\ x.seen \in SUBSET Ids
      /\ x.msg \in 0..MaxId /\ x.cursor \in 0..MaxId /\ x.exitLoop \in BOOLEAN
      /\ Coherent(x)
  BY SubFields
<1>1. CASE WatchDone(s)
  <2> DEFINE r == [x EXCEPT !.watching = FALSE, !.exitLoop = TRUE]
  <2>1. r \in Subscription
    BY <1>s, Bounds, Zenon DEF Subscription, Pcs
  <2>2. Coherent(r)
    BY <1>s, Bounds DEF Subscription, Coherent
  <2>3. SetSub(s, r)
    BY <1>1 DEF WatchDone
  <2> HIDE DEF r
  <2>9. QED BY <1>0, <1>1, <2>1, <2>2, <2>3, LoopFrame DEF WatchDone, history
<1>2. CASE LoopExit(s)
  <2> DEFINE r == [x EXCEPT !.pc = "stopped", !.pending = FALSE,
                          !.cursor = 0, !.seen = {}]
  <2>1. r \in Subscription
    BY <1>s, Bounds, Zenon DEF Subscription, Pcs
  <2>2. Coherent(r)
    BY <1>s, <1>2 DEF Subscription, Coherent, LoopExit
  <2>3. SetSub(s, r)
    BY <1>2 DEF LoopExit
  <2> HIDE DEF r
  <2>9. QED BY <1>0, <1>2, <2>1, <2>2, <2>3, LoopFrame DEF LoopExit, history
<1>3. CASE IssueRead(s)
  <2> DEFINE r == [x EXCEPT !.pc = "block"]
  <2>1. r \in Subscription
    BY <1>s, Bounds, Zenon DEF Subscription, Pcs
  <2>2. Coherent(r)
    BY <1>s, <1>3 DEF Subscription, Coherent, IssueRead
  <2>3. SetSub(s, r)
    BY <1>3 DEF IssueRead
  <2> HIDE DEF r
  <2>9. QED BY <1>0, <1>3, <2>1, <2>2, <2>3, LoopFrame DEF IssueRead, history
<1>4. CASE ReadOne(s)
  <2>1. PICK m \in ToRead(s) :
          /\ XReadGroup(s, m)
          /\ SetSub(s, [x EXCEPT !.pc = "handle", !.msg = m,
                                 !.valid = m \notin bad /\ m > trimmed])
    BY <1>4 DEF ReadOne
  <2>2. m \in Ids /\ m \in 0..MaxId /\ group' \in [Names -> Group]
    BY ToReadType, Bounds, XReadGroupType, <2>1
  <2> DEFINE v == m \notin bad /\ m > trimmed
             r == [x EXCEPT !.pc = "handle", !.msg = m, !.valid = v]
  <2>3. v \in BOOLEAN
    OBVIOUS
  <2>4. SetSub(s, r)
    BY <2>1
  <2> HIDE DEF v
  <2>5. r \in Subscription
    BY <1>s, <2>2, <2>3, Zenon DEF Subscription, Pcs
  <2>6. Coherent(r)
    BY <1>s, <1>4, <2>2 DEF Subscription, Coherent, ReadOne
  <2> HIDE DEF r
  <2>7. QED BY <1>0, <1>4, <2>2, <2>4, <2>5, <2>6, LoopFrame DEF ReadOne, history
<1>5. CASE ReadLost(s)
  <2> DEFINE r == [x EXCEPT !.pc = "check"]
  <2>1. r \in Subscription
    BY <1>s, Bounds, Zenon DEF Subscription, Pcs
  <2>2. Coherent(r)
    BY <1>s, <1>5 DEF Subscription, Coherent, ReadLost
  <2>3. SetSub(s, r)
    BY <1>5 DEF ReadLost
  <2>4. group' \in [Names -> Group]
    BY <1>5, ToReadType, XReadGroupType DEF ReadLost
  <2>5. faults' \in 0..MaxFaults
    BY <1>5, <1>f DEF ReadLost
  <2> HIDE DEF r
  <2>9. QED BY <1>0, <1>5, <2>1, <2>2, <2>3, <2>4, <2>5, LoopFrame DEF ReadLost
<1>6. CASE ReadNothing(s)
  <2> DEFINE r == [x EXCEPT !.pc = "check"]
             q == [x EXCEPT !.pc = "check", !.pending = FALSE]
  <2>1. r \in Subscription /\ q \in Subscription
    BY <1>s, Zenon DEF Subscription, Pcs
  <2>2. Coherent(r) /\ Coherent(q)
    BY <1>s, <1>6 DEF Subscription, Coherent, ReadNothing
  <2>3. SetSub(s, r) \/ SetSub(s, q)
    BY <1>6 DEF ReadNothing
  <2> HIDE DEF r, q
  <2>4. QED BY <1>0, <1>6, <2>1, <2>2, <2>3, LoopFrame DEF ReadNothing, history
<1>7. CASE HandleInvalid(s)
  <2> DEFINE r == [x EXCEPT !.pc = "check", !.msg = 0]
  <2>1. r \in Subscription
    BY <1>s, Bounds, Zenon DEF Subscription, Pcs
  <2>2. Coherent(r)
    BY <1>s, <1>7 DEF Subscription, Coherent, HandleInvalid
  <2>3. SetSub(s, r)
    BY <1>7 DEF HandleInvalid
  <2>4. group' \in [Names -> Group] /\ faults' \in 0..MaxFaults
    BY <1>0, <1>7, <1>f, XAckType DEF HandleInvalid
  <2> HIDE DEF r
  <2>9. QED BY <1>0, <1>7, <2>1, <2>2, <2>3, <2>4, LoopFrame DEF HandleInvalid
<1>8. CASE HandleExceeded(s)
  <2> DEFINE r == [x EXCEPT !.pc = "check", !.msg = 0,
                          !.exitLoop = TRUE, !.complete = TRUE]
  <2>1. r \in Subscription
    BY <1>s, Bounds, Zenon DEF Subscription, Pcs
  <2>2. Coherent(r)
    BY <1>s, <1>8 DEF Subscription, Coherent, HandleExceeded
  <2>3. SetSub(s, r)
    BY <1>8 DEF HandleExceeded
  <2> HIDE DEF r
  <2>9. QED BY <1>0, <1>8, <2>1, <2>2, <2>3, LoopFrame DEF HandleExceeded, history
<1>9. CASE HandleDispatch(s)
  <2>1. ExitLoopAfterCheck(s) \in BOOLEAN /\ CursorAfter(s) \in 0..MaxId
    BY <1>s DEF ExitLoopAfterCheck, CursorAfter
  <2>2. x.msg \in Ids
    BY <1>s, <1>9 DEF Coherent, HandleDispatch
  <2>3. x.running \cup {x.msg} \in SUBSET Ids /\ x.seen \cup {x.msg} \in SUBSET Ids
    BY <1>s, <2>2
  <2> DEFINE r == [x EXCEPT !.pc = "check", !.msg = 0,
                            !.exitLoop = ExitLoopAfterCheck(s),
                            !.cursor = CursorAfter(s),
                            !.running = @ \cup {x.msg}, !.seen = @ \cup {x.msg}]
  <2>4. r \in Subscription
    BY <1>s, <2>1, <2>3, Bounds, Zenon DEF Subscription, Pcs
  <2>5. Coherent(r)
    BY <1>s, <1>9 DEF Subscription, Coherent, HandleDispatch
  <2>6. SetSub(s, r)
    BY <1>9 DEF HandleDispatch
  <2> HIDE DEF r
  <2>7. QED BY <1>0, <1>9, <2>4, <2>5, <2>6, LoopFrame DEF HandleDispatch, history
<1>10. QED
  BY <1>1, <1>2, <1>3, <1>4, <1>5, <1>6, <1>7, <1>8, <1>9 DEF LoopStep

LEMMA DispatchStepType ==
    ASSUME TypeOK, NEW s \in Subs, NEW m \in Ids, DispatchStep(s, m)
    PROVE  TypeOK'
<1> DEFINE x == sub[s]
<1>0. /\ group \in [Names -> Group] /\ processed \in [Names -> SUBSET Ids]
      /\ faults \in 0..MaxFaults
  BY DEF TypeOK
<1>s. /\ x \in Subscription /\ x.running \in SUBSET Ids /\ x.returned \in SUBSET Ids
      /\ Coherent(x)
  BY SubFields
<1> DEFINE r == [x EXCEPT !.running = @ \ {m}, !.returned = @ \cup {m}]
           q == [x EXCEPT !.returned = @ \ {m}]
<1>1. /\ x.running \ {m} \in SUBSET Ids /\ x.returned \cup {m} \in SUBSET Ids
      /\ x.returned \ {m} \in SUBSET Ids
  BY <1>s
<1>2. r \in Subscription /\ q \in Subscription
  BY <1>s, <1>1, Zenon DEF Subscription
<1>3. Coherent(r) /\ Coherent(q)
  BY <1>s DEF Subscription, Coherent
<1>4. CASE DispatchReturn(s, m)
  <2>1. SetSub(s, r)
    BY <1>4 DEF DispatchReturn
  <2>2. processed' \in [Names -> SUBSET Ids]
    BY <1>0, <1>4 DEF DispatchReturn
  <2> HIDE DEF r, q
  <2>3. QED BY <1>0, <1>2, <1>3, <1>4, <2>1, <2>2, LoopFrame DEF DispatchReturn, history
<1>5. CASE Ack(s, m)
  <2>1. SetSub(s, q)
    BY <1>5 DEF Ack
  <2>2. group' \in [Names -> Group]
    BY <1>0, <1>5, XAckType DEF Ack
  <2> HIDE DEF r, q
  <2>3. QED BY <1>0, <1>2, <1>3, <1>5, <2>1, <2>2, LoopFrame DEF Ack, history
<1>6. CASE AckLost(s, m)
  <2>1. SetSub(s, q)
    BY <1>6 DEF AckLost
  <2>2. faults' \in 0..MaxFaults
    BY <1>0, <1>6, Bounds DEF AckLost
  <2> HIDE DEF r, q
  <2>3. QED BY <1>0, <1>2, <1>3, <1>6, <2>1, <2>2, LoopFrame DEF AckLost
<1>7. QED BY <1>4, <1>5, <1>6 DEF DispatchStep

\* sub.cancel() marks one subscription.
LEMMA CancelType ==
    ASSUME TypeOK, NEW n \in Names, subs[n] \in Subs, CancelAndWait(n),
           mutex' \in {"free", "manager", "start"}
    PROVE  TypeOK'
<1> DEFINE r == [sub[subs[n]] EXCEPT !.cancelled = TRUE]
<1>1. sub[subs[n]] \in Subscription /\ Coherent(sub[subs[n]])
  BY SubFields
<1>2. r \in Subscription
  BY <1>1, Zenon DEF Subscription
<1>3. Coherent(r)
  BY <1>1 DEF Subscription, Coherent
<1>4. sub' = [sub EXCEPT ![subs[n]] = r]
  BY DEF CancelAndWait
<1> HIDE DEF r
<1>5. sub' \in [Subs -> Subscription] /\ \A t \in Subs : Coherent(sub'[t])
  BY <1>2, <1>3, <1>4, SetSubType
<1>6. QED BY <1>5 DEF TypeOK, CancelAndWait, server, history

\* A process that ends leaves the server as it is, and no goroutine.
LEMMA ProcessEndsType ==
    ASSUME TypeOK, ProcessEnds
    PROVE  TypeOK'
<1>1. sub' \in [Subs -> Subscription] /\ \A t \in Subs : Coherent(sub'[t])
  BY NoSubType DEF ProcessEnds, Coherent
<1>2. restarts' \in 0..MaxRestarts
  BY Bounds DEF TypeOK, ProcessEnds
<1>3. subs' \in [Names -> Subs \cup {None}] /\ wg' \in Int
  BY DEF ProcessEnds
<1>4. QED BY <1>1, <1>2, <1>3 DEF TypeOK, ProcessEnds, server

\* The calls of the subscription manager.
LEMMA ManagerStepType ==
    ASSUME TypeOK, NEW n \in Names, ManagerStep(n)
    PROVE  TypeOK'
<1>1. ASSUME NEW b \in BoundChoices, Subscribe(n, b)
      PROVE  TypeOK'
  <2>1. PICK s \in Subs : /\ subs' = [subs EXCEPT ![n] = s]
                          /\ sub' = [sub EXCEPT ![s] = NewSub(n, b)]
    BY <1>1 DEF Subscribe
  <2>2. group' \in [Names -> Group]
    BY <1>1, XGroupCreateType DEF Subscribe
  <2>3. Coherent(NewSub(n, b)) /\ NewSub(n, b) \in Subscription
    BY NewSubType DEF Coherent
  <2>4. sub' \in [Subs -> Subscription] /\ \A t \in Subs : Coherent(sub'[t])
    BY <2>1, <2>3, SetSubType
  <2>5. subs' \in [Names -> Subs \cup {None}] /\ wg' \in Int
    BY <1>1, <2>1 DEF TypeOK, Subscribe
  <2>6. QED BY <1>1, <2>2, <2>4, <2>5 DEF TypeOK, Subscribe, server, history
<1>2. ASSUME NEW b \in BoundChoices, SubscribeReplyLost(n, b)
      PROVE  TypeOK'
  <2>1. group' \in [Names -> Group]
    BY <1>2, XGroupCreateType DEF SubscribeReplyLost
  <2>2. faults' \in 0..MaxFaults
    BY <1>2, Bounds DEF TypeOK, SubscribeReplyLost
  <2>3. QED BY <1>2, <2>1, <2>2 DEF TypeOK, SubscribeReplyLost, server, object
<1>3. CASE Unsubscribe(n)
  <2>1. CancelAndWait(n) /\ subs[n] \in Subs
    BY <1>3 DEF Unsubscribe, Subscribed, TypeOK
  <2>2. QED BY <1>3, <2>1, CancelType DEF Unsubscribe
<1>4. QED BY <1>1, <1>2, <1>3 DEF ManagerStep

\* The steps of Start, of a wait that ends, and of producers.
LEMMA ObjectStepType ==
    ASSUME TypeOK, StartSteps \/ Disconnect \/ UnsubscribeStopped \/ UnsubscribeTimeout
    PROVE  TypeOK'
<1>1. ASSUME NEW from, StartStep(from, startPc'), mutex' \in {"free", "manager", "start"},
             startPc' \in {"serving", "disconnecting", "draining", "closed"}
      PROVE  TypeOK'
  BY <1>1 DEF TypeOK, StartStep, server, history
<1>2. CASE SetContext
  BY <1>1, <1>2 DEF SetContext, StartStep, TypeOK
<1>3. CASE Disconnect
  BY <1>1, <1>3 DEF Disconnect, StartStep, TypeOK
<1>4. CASE LockForDrain
  BY <1>1, <1>4 DEF LockForDrain, StartStep
<1>5. CASE CloseClient
  BY <1>1, <1>5 DEF CloseClient, StartStep
<1>6. CASE \E n \in Names : Drain(n)
  <2>1. PICK n \in Names : Drain(n)
    BY <1>6
  <2>2. CancelAndWait(n) /\ subs[n] \in Subs /\ mutex' \in {"free", "manager", "start"}
    BY <2>1 DEF Drain, Subscribed, TypeOK
  <2>3. QED BY <2>2, CancelType
<1>7. ASSUME Forget
      PROVE  /\ subs' \in [Names -> Subs \cup {None}] /\ wg' \in Int
             /\ waitFor' = None /\ mutex' \in {"free", "manager", "start"}
  BY <1>7 DEF Forget, MutexAfterWait, TypeOK
<1>8. CASE UnsubscribeStopped
  BY <1>7, <1>8 DEF UnsubscribeStopped, TypeOK, server, history
<1>9. CASE UnsubscribeTimeout
  <2> DEFINE r == [sub[waitFor] EXCEPT !.abandoned = TRUE]
  <2>1. waitFor \in Subs
    BY <1>9 DEF UnsubscribeTimeout, TypeOK
  <2>2. sub[waitFor] \in Subscription /\ Coherent(sub[waitFor])
    BY <2>1, SubFields
  <2>3. r \in Subscription
    BY <2>2, Zenon DEF Subscription
  <2>4. Coherent(r)
    BY <2>2 DEF Subscription, Coherent
  <2>5. sub' = [sub EXCEPT ![waitFor] = r]
    BY <1>9 DEF UnsubscribeTimeout
  <2> HIDE DEF r
  <2>6. sub' \in [Subs -> Subscription] /\ \A t \in Subs : Coherent(sub'[t])
    BY <2>1, <2>3, <2>4, <2>5, SetSubType
  <2>7. QED BY <1>7, <1>9, <2>6 DEF UnsubscribeTimeout, TypeOK, server, history
<1>10. QED
  BY <1>2, <1>3, <1>4, <1>5, <1>6, <1>8, <1>9 DEF StartSteps

LEMMA ProduceType ==
    ASSUME TypeOK, Produce \/ ForeignAdd
    PROVE  TypeOK'
<1>1. XAdd
  BY DEF Produce, ForeignAdd
<1>2. bad' \subseteq 1..produced'
  <2>1. produced \in Nat /\ produced' = produced + 1 /\ bad \subseteq 1..produced
    BY <1>1, XAddType DEF TypeOK
  <2>2. bad \subseteq 1..produced' /\ produced' \in 1..produced'
    BY <2>1
  <2>3. QED BY <2>2 DEF Produce, ForeignAdd
<1>3. QED BY <1>1, <1>2, XAddType DEF TypeOK, Produce, ForeignAdd, object, history

LEMMA NextType == TypeOK /\ [Next]_vars => TypeOK'
<1> SUFFICES ASSUME TypeOK, [Next]_vars PROVE TypeOK'
  OBVIOUS
<1>1. CASE Produce \/ ForeignAdd
  BY <1>1, ProduceType
<1>2. CASE \E n \in Names : ManagerStep(n)
  BY <1>2, ManagerStepType
<1>3. CASE StartSteps \/ Disconnect \/ UnsubscribeStopped \/ UnsubscribeTimeout
  BY <1>3, ObjectStepType
<1>4. CASE \E s \in Subs : WatchDone(s) \/ LoopStep(s)
  BY <1>4, LoopStepType
<1>5. CASE \E s \in Subs : \E m \in Ids : DispatchStep(s, m)
  BY <1>5, DispatchStepType
<1>6. CASE Crash
  BY <1>6, ProcessEndsType DEF Crash, TypeOK
<1>7. CASE Restart
  BY <1>7 DEF Restart, TypeOK, server, history
<1>8. CASE UNCHANGED vars
  BY <1>8 DEF TypeOK, vars, server, object, history
<1>9. QED
  BY <1>1, <1>2, <1>3, <1>4, <1>5, <1>6, <1>7, <1>8 DEF Next

\* In every behaviour of the backend every variable keeps its type: the loop
\* never handles an entry it does not have, and no subscription runs without
\* an owner, whatever interleaving of the goroutines of redis.go happens.
THEOREM TypeCorrect == Spec => []TypeOK
<1>1. QED BY InitType, NextType, PTL DEF Spec

-----------------------------------------------------------------------------
(* At least once *)

\* What the goroutines know of an entry: one found invalid holds no CloudEvent
\* or was trimmed, and one whose dispatch has returned is processed.
Knowledge ==
    \A s \in Subs :
        /\ sub[s].pc = "handle" /\ ~sub[s].valid => sub[s].msg \in bad \cup 1..trimmed
        /\ sub[s].owner \in Names => sub[s].returned \subseteq processed[sub[s].owner]

IInv == TypeOK /\ Knowledge /\ NoEventLost

\* Entries are never taken back from what is settled.
LEMMA NoLossFrame ==
    ASSUME TypeOK, TypeOK', NoEventLost, UNCHANGED group,
           bad \subseteq bad', trimmed <= trimmed',
           \A n \in Names : processed[n] \subseteq processed'[n]
    PROVE  NoEventLost'
<1>1. 1..trimmed \subseteq 1..trimmed'
  BY BoundsAssumption DEF TypeOK
<1>2. \A n \in Names : Given(n)' = Given(n) /\ PendingIds(n)' = PendingIds(n)
  BY DEF Given, PendingIds
<1>3. \A n \in Names : Settled(n) \subseteq Settled(n)'
  BY <1>1 DEF Settled
<1>4. QED BY <1>2, <1>3 DEF NoEventLost

\* Acknowledging a settled entry loses nothing.
LEMMA NoLossAck ==
    ASSUME TypeOK, NoEventLost, NEW n, NEW m, n \in Names => m \in Settled(n), XAck(n, m),
           UNCHANGED <<processed, bad, trimmed>>
    PROVE  NoEventLost'
<1> SUFFICES ASSUME NEW k \in Names, NEW e \in Given(k)'
             PROVE  e \in PendingIds(k)' \cup Settled(k)'
  BY DEF NoEventLost
<1>1. Settled(k)' = Settled(k)
  BY DEF Settled
<1>2. CASE k # n
  <2>1. group'[k] = group[k]
    BY <1>2 DEF XAck, TypeOK
  <2>2. QED BY <1>1, <2>1 DEF NoEventLost, Given, PendingIds
<1>3. CASE k = n
  <2>1. /\ group'[k].pel = {p \in group[k].pel : p[2] # m}
        /\ group'[k].exists = group[k].exists
        /\ group'[k].start = group[k].start /\ group'[k].last = group[k].last
    BY <1>3 DEF XAck, TypeOK, Group
  <2>2. e \in Given(k)
    BY <2>1 DEF Given
  <2>3. e \in PendingIds(k) \cup Settled(k)
    BY <2>2 DEF NoEventLost
  <2>4. CASE e = m
    BY <1>1, <1>3, <2>4
  <2>5. CASE e # m
    BY <1>1, <2>1, <2>3, <2>5 DEF PendingIds
  <2>6. QED BY <2>4, <2>5
<1>4. QED BY <1>2, <1>3

\* A read of new entries makes pending what it returns, and skips only
\* entries that were trimmed.
LEMMA NoLossRead ==
    ASSUME TypeOK, NoEventLost, NEW s \in Subs, NEW m \in ToRead(s), XReadGroup(s, m),
           UNCHANGED <<processed, bad, trimmed>>
    PROVE  NoEventLost'
<1> SUFFICES ASSUME NEW k \in Names, NEW e \in Given(k)'
             PROVE  e \in PendingIds(k)' \cup Settled(k)'
  BY DEF NoEventLost
<1>1. Settled(k)' = Settled(k)
  BY DEF Settled
<1>2. CASE group'[k] = group[k]
  BY <1>1, <1>2 DEF NoEventLost, Given, PendingIds
<1>3. CASE group'[k] # group[k]
  <2>1. k = sub[s].owner /\ ~sub[s].pending
    BY <1>3 DEF XReadGroup, TypeOK
  <2>2. /\ group'[k].last = m /\ group'[k].pel = PelAfterRead(k, m)
        /\ group'[k].start = group[k].start /\ group'[k].exists = group[k].exists
    BY <2>1 DEF XReadGroup, TypeOK, Group
  <2>3. m \in LeastOf(Unread(k))
    BY <2>1 DEF ToRead
  <2>4. CASE e <= group[k].last
    <3>1. e \in Given(k)
      BY <2>2, <2>4 DEF Given
    <3>2. QED BY <1>1, <2>2, <3>1 DEF NoEventLost, PendingIds, PelAfterRead
  <2>5. CASE e = m
    <3>1. <<inst, m>> \in group'[k].pel /\ <<inst, m>>[2] = m
      BY <2>2 DEF PelAfterRead
    <3>2. QED BY <2>5, <3>1 DEF PendingIds
  <2>6. CASE e # m /\ ~(e <= group[k].last)
    <3>1. /\ e \in Nat /\ m \in Nat /\ group[k].last \in Nat /\ produced \in Nat
          /\ trimmed \in Nat /\ e \in Ids /\ 1 <= e
      BY BoundsAssumption, <2>3 DEF Given, TypeOK, Group, LeastOf, Unread, Ids
    <3>2. e < m /\ e > group[k].last
      BY <2>2, <2>6, <3>1 DEF Given
    <3>3. m <= produced /\ e \notin Unread(k)
      BY <2>3, <3>1, <3>2 DEF LeastOf, Unread
    <3>4. e <= trimmed
      BY <3>1, <3>2, <3>3 DEF Unread
    <3>5. QED BY <1>1, <3>1, <3>4 DEF Settled
  <2>7. QED BY <2>4, <2>5, <2>6
<1>4. QED BY <1>2, <1>3

\* A new group has been given nothing yet; an existing one stays.
LEMMA NoLossCreate ==
    ASSUME TypeOK, NoEventLost, NEW n \in Names, NEW b \in BoundChoices, XGroupCreate(n, b),
           UNCHANGED <<processed, bad, trimmed>>
    PROVE  NoEventLost'
<1> SUFFICES ASSUME NEW k \in Names, NEW e \in Given(k)'
             PROVE  e \in PendingIds(k)' \cup Settled(k)'
  BY DEF NoEventLost
<1>1. Settled(k)' = Settled(k)
  BY DEF Settled
<1>2. CASE group'[k] = group[k]
  BY <1>1, <1>2 DEF NoEventLost, Given, PendingIds
<1>3. CASE group'[k] # group[k]
  <2>1. group'[k].start = StartId(b) /\ group'[k].last = StartId(b)
    BY <1>3 DEF XGroupCreate, TypeOK
  <2>2. StartId(b) \in Nat /\ e \in Nat
    BY BoundsAssumption DEF StartId, Latest, TypeOK, Given, Ids
  <2>3. QED BY <2>1, <2>2 DEF Given
<1>4. QED BY <1>2, <1>3

\* Steps that change no subscription's entry in hand and no returned dispatch.
LEMMA KnowledgeFrame ==
    ASSUME TypeOK, TypeOK', Knowledge, NEW s \in Subs,
           \A t \in Subs : t # s => sub'[t] = sub[t],
           sub'[s].owner = sub[s].owner,
           sub'[s].pc = "handle" => /\ sub[s].pc = "handle"
                                    /\ sub'[s].msg = sub[s].msg
                                    /\ sub'[s].valid = sub[s].valid,
           sub'[s].returned \subseteq sub[s].returned,
           bad \subseteq bad', trimmed <= trimmed',
           \A n \in Names : processed[n] \subseteq processed'[n]
    PROVE  Knowledge'
<1>1. 1..trimmed \subseteq 1..trimmed'
  BY BoundsAssumption DEF TypeOK
<1>2. QED BY <1>1 DEF Knowledge

LEMMA KnowledgeRest ==
    ASSUME TypeOK, TypeOK', Knowledge, UNCHANGED sub,
           bad \subseteq bad', trimmed <= trimmed',
           \A n \in Names : processed[n] \subseteq processed'[n]
    PROVE  Knowledge'
<1>1. 1..trimmed \subseteq 1..trimmed'
  BY BoundsAssumption DEF TypeOK
<1>2. QED BY <1>1 DEF Knowledge

LEMMA SetSubValue ==
    ASSUME TypeOK, NEW s \in Subs, NEW r, SetSub(s, r)
    PROVE  sub'[s] = r /\ \A t \in Subs : t # s => sub'[t] = sub[t]
BY DEF SetSub, TypeOK

\* Of the steps of a loop only ReadOne takes an entry in hand.
LEMMA LoopKnowledge ==
    ASSUME TypeOK, TypeOK', Knowledge, NEW s \in Subs, LoopStep(s) \/ WatchDone(s)
    PROVE  Knowledge'
<1>u. UNCHANGED <<bad, trimmed, processed>>
  BY DEF LoopStep, WatchDone, LoopExit, IssueRead, ReadOne, ReadLost,
     ReadNothing, HandleInvalid, HandleExceeded, HandleDispatch, server
<1>0. sub[s] \in Subscription /\ UNCHANGED <<bad, trimmed, processed>> /\ trimmed \in Int
  BY <1>u, SubFields, BoundsAssumption DEF TypeOK
<1>1. CASE ReadOne(s)
  <2>1. PICK m \in ToRead(s) :
          SetSub(s, [sub[s] EXCEPT !.pc = "handle", !.msg = m,
                                   !.valid = m \notin bad /\ m > trimmed])
    BY <1>1 DEF ReadOne
  <2>2. /\ \A t \in Subs : t # s => sub'[t] = sub[t]
        /\ sub'[s].msg = m
        /\ sub'[s].owner = sub[s].owner /\ sub'[s].returned = sub[s].returned
    BY <1>0, <2>1 DEF SetSub, TypeOK, Subscription
  <2>3. sub'[s].valid = (m \notin bad /\ m > trimmed)
    BY <1>0, <2>1, Zenon DEF SetSub, TypeOK, Subscription
  <2>4. m \in 1..MaxId /\ MaxId \in Nat
    BY ToReadType, BoundsAssumption DEF Ids
  <2>5. ~sub'[s].valid => m \in bad \cup 1..trimmed
    <3>1. ~sub'[s].valid => m \in bad \/ ~(m > trimmed)
      BY <2>3, Zenon
    <3>2. QED BY <1>0, <2>4, <3>1
  <2>6. QED BY <1>0, <2>2, <2>5 DEF Knowledge
<1>2. CASE ~ReadOne(s)
  <2> DEFINE x == sub[s]
             Keeps(r) == /\ r.owner = x.owner /\ r.returned = x.returned
                         /\ r.pc = "handle" => /\ x.pc = "handle" /\ r.msg = x.msg
                                               /\ r.valid = x.valid
  <2>1. ASSUME NEW r, SetSub(s, r), Keeps(r)
        PROVE  Knowledge'
    <3>1. /\ bad' = bad /\ trimmed' = trimmed /\ trimmed <= trimmed /\ processed' = processed
          /\ sub'[s] = r /\ \A t \in Subs : t # s => sub'[t] = sub[t]
      BY <1>0, <2>1, SetSubValue
    <3>2. QED BY <2>1, <3>1, KnowledgeFrame
  <2>2. CASE WatchDone(s)
    <3> DEFINE r == [x EXCEPT !.watching = FALSE, !.exitLoop = TRUE]
    <3>1. SetSub(s, r)
      BY <2>2 DEF WatchDone
    <3>2. Keeps(r)
      BY <1>0 DEF Subscription
    <3> HIDE DEF r
    <3>3. QED BY <2>1, <3>1, <3>2
  <2>3. CASE LoopExit(s)
    <3> DEFINE r == [x EXCEPT !.pc = "stopped", !.pending = FALSE,
                             !.cursor = 0, !.seen = {}]
    <3>1. SetSub(s, r)
      BY <2>3 DEF LoopExit
    <3>2. Keeps(r)
      BY <1>0 DEF Subscription
    <3> HIDE DEF r
    <3>3. QED BY <2>1, <3>1, <3>2
  <2>4. CASE IssueRead(s)
    <3> DEFINE r == [x EXCEPT !.pc = "block"]
    <3>1. SetSub(s, r)
      BY <2>4 DEF IssueRead
    <3>2. Keeps(r)
      BY <1>0 DEF Subscription
    <3> HIDE DEF r
    <3>3. QED BY <2>1, <3>1, <3>2
  <2>5. CASE ReadLost(s)
    <3> DEFINE r == [x EXCEPT !.pc = "check"]
    <3>1. SetSub(s, r)
      BY <2>5 DEF ReadLost
    <3>2. Keeps(r)
      BY <1>0 DEF Subscription
    <3> HIDE DEF r
    <3>3. QED BY <2>1, <3>1, <3>2
  <2>6. CASE HandleInvalid(s)
    <3> DEFINE r == [x EXCEPT !.pc = "check", !.msg = 0]
    <3>1. SetSub(s, r)
      BY <2>6 DEF HandleInvalid
    <3>2. Keeps(r)
      BY <1>0 DEF Subscription
    <3> HIDE DEF r
    <3>3. QED BY <2>1, <3>1, <3>2
  <2>7. CASE HandleExceeded(s)
    <3> DEFINE r == [x EXCEPT !.pc = "check", !.msg = 0,
                             !.exitLoop = TRUE, !.complete = TRUE]
    <3>1. SetSub(s, r)
      BY <2>7 DEF HandleExceeded
    <3>2. Keeps(r)
      BY <1>0 DEF Subscription
    <3> HIDE DEF r
    <3>3. QED BY <2>1, <3>1, <3>2
  <2>8. CASE HandleDispatch(s)
    <3> DEFINE r == [x EXCEPT !.pc = "check", !.msg = 0,
                             !.exitLoop = ExitLoopAfterCheck(s),
                             !.cursor = CursorAfter(s),
                             !.running = @ \cup {x.msg}, !.seen = @ \cup {x.msg}]
    <3>1. SetSub(s, r)
      BY <2>8 DEF HandleDispatch
    <3>2. Keeps(r)
      BY <1>0 DEF Subscription
    <3> HIDE DEF r
    <3>3. QED BY <2>1, <3>1, <3>2
  <2>9. CASE ReadNothing(s)
    <3> DEFINE r == [x EXCEPT !.pc = "check"]
               q == [x EXCEPT !.pc = "check", !.pending = FALSE]
    <3>1. SetSub(s, r) \/ SetSub(s, q)
      BY <2>9 DEF ReadNothing
    <3>2. Keeps(r) /\ Keeps(q)
      BY <1>0 DEF Subscription
    <3> HIDE DEF r, q
    <3>3. QED BY <2>1, <3>1, <3>2
  <2>10. QED
    BY <1>2, <2>2, <2>3, <2>4, <2>5, <2>6, <2>7, <2>8, <2>9 DEF LoopStep
<1>3. QED BY <1>1, <1>2

LEMMA DispatchKnowledge ==
    ASSUME TypeOK, TypeOK', Knowledge, NEW s \in Subs, NEW m \in Ids, DispatchStep(s, m)
    PROVE  Knowledge'
<1>0. sub[s] \in Subscription /\ UNCHANGED <<bad, trimmed>> /\ trimmed \in Int
  BY SubFields DEF DispatchStep, DispatchReturn, Ack, AckLost, server, TypeOK
<1>1. CASE DispatchReturn(s, m)
  <2>1. /\ \A t \in Subs : t # s => sub'[t] = sub[t]
        /\ sub'[s].owner = sub[s].owner
        /\ sub'[s].returned = sub[s].returned \cup {m}
        /\ sub'[s].pc = sub[s].pc /\ sub'[s].msg = sub[s].msg
        /\ sub'[s].valid = sub[s].valid
    <3> DEFINE r == [sub[s] EXCEPT !.running = @ \ {m}, !.returned = @ \cup {m}]
    <3>1. /\ r.owner = sub[s].owner /\ r.returned = sub[s].returned \cup {m}
          /\ r.pc = sub[s].pc /\ r.msg = sub[s].msg /\ r.valid = sub[s].valid
      BY <1>0 DEF Subscription
    <3>2. SetSub(s, r)
      BY <1>1 DEF DispatchReturn
    <3> HIDE DEF r
    <3>3. QED BY <3>1, <3>2, SetSubValue
  <2>2. /\ \A n \in Names : processed[n] \subseteq processed'[n]
        /\ sub[s].owner \in Names => m \in processed'[sub[s].owner]
    BY <1>1 DEF DispatchReturn, TypeOK
  <2>3. QED BY <1>0, <2>1, <2>2 DEF Knowledge
<1>2. CASE Ack(s, m) \/ AckLost(s, m)
  <2>1. /\ \A t \in Subs : t # s => sub'[t] = sub[t]
        /\ sub'[s].owner = sub[s].owner /\ sub'[s].returned = sub[s].returned \ {m}
        /\ sub'[s].pc = sub[s].pc /\ sub'[s].msg = sub[s].msg
        /\ sub'[s].valid = sub[s].valid /\ processed' = processed
    <3> DEFINE r == [sub[s] EXCEPT !.returned = @ \ {m}]
    <3>1. /\ r.owner = sub[s].owner /\ r.returned = sub[s].returned \ {m}
          /\ r.pc = sub[s].pc /\ r.msg = sub[s].msg /\ r.valid = sub[s].valid
      BY <1>0 DEF Subscription
    <3>2. SetSub(s, r) /\ processed' = processed
      BY <1>2 DEF Ack, AckLost
    <3> HIDE DEF r
    <3>3. QED BY <3>1, <3>2, SetSubValue
  <2>2. QED BY <1>0, <2>1, KnowledgeFrame
<1>3. QED BY <1>1, <1>2 DEF DispatchStep

LEMMA CancelKnowledge ==
    ASSUME TypeOK, TypeOK', Knowledge, NEW n \in Names, subs[n] \in Subs, CancelAndWait(n)
    PROVE  Knowledge'
<1>0. sub[subs[n]] \in Subscription /\ UNCHANGED <<bad, trimmed, processed>> /\ trimmed \in Int
  BY SubFields DEF CancelAndWait, server, TypeOK
<1>1. /\ \A t \in Subs : t # subs[n] => sub'[t] = sub[t]
      /\ sub'[subs[n]].owner = sub[subs[n]].owner /\ sub'[subs[n]].pc = sub[subs[n]].pc
      /\ sub'[subs[n]].returned = sub[subs[n]].returned
      /\ sub'[subs[n]].msg = sub[subs[n]].msg /\ sub'[subs[n]].valid = sub[subs[n]].valid
  BY <1>0 DEF CancelAndWait, TypeOK, Subscription
<1>2. QED BY <1>0, <1>1, KnowledgeFrame

LEMMA ProcessEndsKnowledge ==
    ASSUME TypeOK, TypeOK', NoEventLost, ProcessEnds
    PROVE  Knowledge' /\ NoEventLost'
<1>1. UNCHANGED <<bad, trimmed, processed, group>> /\ \A s \in Subs : sub'[s] = NoSub
  BY DEF ProcessEnds, server
<1>2. Knowledge'
  BY <1>1 DEF Knowledge, NoSub
<1>3. trimmed <= trimmed'
  BY <1>1, BoundsAssumption DEF TypeOK
<1>4. QED BY <1>1, <1>2, <1>3, NoLossFrame

LEMMA InitIInv == Init => IInv
<1> SUFFICES ASSUME Init PROVE IInv
  OBVIOUS
<1>1. TypeOK
  BY InitType
<1>2. Knowledge
  BY DEF Init, NoSub, Knowledge
<1>3. \A n \in Names : Given(n) = {}
  BY DEF Init, Given, NoGroup
<1>4. QED BY <1>1, <1>2, <1>3 DEF IInv, NoEventLost

LEMMA NextIInv == IInv /\ [Next]_vars => IInv'
<1> SUFFICES ASSUME IInv, [Next]_vars PROVE IInv'
  OBVIOUS
<1>t. TypeOK /\ TypeOK' /\ Knowledge /\ NoEventLost
  BY NextType DEF IInv
<1>n. trimmed \in Int /\ trimmed <= trimmed
  BY <1>t, BoundsAssumption DEF TypeOK
<1>1. CASE Produce \/ ForeignAdd
  <2>1. bad \subseteq bad' /\ trimmed <= trimmed' /\ UNCHANGED <<group, sub, processed>>
    BY <1>1, <1>t, XAddType DEF Produce, ForeignAdd
  <2>2. Knowledge' /\ NoEventLost'
    BY <1>t, <2>1, KnowledgeRest, NoLossFrame
  <2>3. QED BY <1>t, <2>2 DEF IInv
<1>2. CASE \E n \in Names : ManagerStep(n)
  <2> SUFFICES ASSUME NEW n \in Names, ManagerStep(n)
               PROVE  Knowledge' /\ NoEventLost'
    BY <1>2, <1>t DEF IInv
  <2>1. UNCHANGED <<bad, trimmed, processed>>
    BY DEF ManagerStep, Subscribe, SubscribeReplyLost, Unsubscribe, CancelAndWait,
       server
  <2>2. ASSUME NEW b \in BoundChoices, Subscribe(n, b)
        PROVE  Knowledge' /\ NoEventLost'
    <3>1. NoEventLost'
      BY <1>t, <2>1, <2>2, NoLossCreate DEF Subscribe
    <3>2. PICK s \in Subs : sub' = [sub EXCEPT ![s] = NewSub(n, b)]
      BY <2>2 DEF Subscribe
    <3>3. /\ sub'[s].pc = "check" /\ sub'[s].returned = {}
          /\ \A t \in Subs : t # s => sub'[t] = sub[t]
      BY <1>t, <3>2, NewSubType DEF TypeOK
    <3>4. QED BY <1>t, <2>1, <3>1, <3>3 DEF Knowledge
  <2>3. ASSUME NEW b \in BoundChoices, SubscribeReplyLost(n, b)
        PROVE  Knowledge' /\ NoEventLost'
    <3>1. UNCHANGED sub /\ XGroupCreate(n, b)
      BY <2>3 DEF SubscribeReplyLost
    <3>2. QED BY <1>t, <1>n, <2>1, <3>1, NoLossCreate, KnowledgeRest
  <2>4. CASE Unsubscribe(n)
    <3>1. CancelAndWait(n) /\ subs[n] \in Subs /\ UNCHANGED group
      BY <1>t, <2>4 DEF Unsubscribe, CancelAndWait, Subscribed, TypeOK
    <3>2. QED BY <1>t, <1>n, <2>1, <3>1, CancelKnowledge, NoLossFrame
  <2>5. QED BY <2>2, <2>3, <2>4 DEF ManagerStep
<1>3. CASE StartSteps \/ Disconnect \/ UnsubscribeStopped \/ UnsubscribeTimeout
  <2>1. UNCHANGED <<bad, trimmed, processed, group>>
    BY <1>3 DEF StartSteps, SetContext, Disconnect, LockForDrain, Drain, CloseClient,
       StartStep, CancelAndWait, UnsubscribeStopped, UnsubscribeTimeout, server
  <2>2. NoEventLost'
    BY <1>t, <1>n, <2>1, NoLossFrame
  <2>3. Knowledge'
    <3>1. CASE UNCHANGED sub
      BY <1>t, <1>n, <2>1, <3>1, KnowledgeRest
    <3>2. CASE \E n \in Names : Drain(n)
      BY <1>t, <3>2, CancelKnowledge DEF Drain, Subscribed, TypeOK
    <3>3. CASE UnsubscribeTimeout
      <4>1. waitFor \in Subs /\ sub[waitFor] \in Subscription
        BY <1>t, <3>3 DEF UnsubscribeTimeout, TypeOK
      <4>2. /\ \A t \in Subs : t # waitFor => sub'[t] = sub[t]
            /\ sub'[waitFor].owner = sub[waitFor].owner
            /\ sub'[waitFor].pc = sub[waitFor].pc
            /\ sub'[waitFor].returned = sub[waitFor].returned
            /\ sub'[waitFor].msg = sub[waitFor].msg
            /\ sub'[waitFor].valid = sub[waitFor].valid
        BY <1>t, <3>3, <4>1 DEF UnsubscribeTimeout, TypeOK, Subscription
      <4>3. QED BY <1>t, <1>n, <2>1, <4>1, <4>2, KnowledgeFrame
    <3>4. QED
      BY <1>3, <3>1, <3>2, <3>3 DEF StartSteps, SetContext, Disconnect, LockForDrain,
         CloseClient, StartStep, UnsubscribeStopped
  <2>4. QED BY <1>t, <2>2, <2>3 DEF IInv
<1>4. ASSUME NEW s \in Subs, WatchDone(s) \/ LoopStep(s)
      PROVE  IInv'
  <2>1. Knowledge'
    BY <1>t, <1>4, LoopKnowledge
  <2>2. UNCHANGED <<bad, trimmed, processed>>
    BY <1>4 DEF LoopStep, WatchDone, LoopExit, IssueRead, ReadOne, ReadLost,
       ReadNothing, HandleInvalid, HandleExceeded, HandleDispatch, server
  <2>3. CASE UNCHANGED group
    BY <1>t, <1>n, <2>1, <2>2, <2>3, NoLossFrame DEF IInv
  <2>4. CASE \E m \in ToRead(s) : XReadGroup(s, m)
    BY <1>t, <2>1, <2>2, <2>4, NoLossRead DEF IInv
  <2>5. CASE HandleInvalid(s) /\ XAck(sub[s].owner, sub[s].msg)
    <3>1. sub[s].msg \in bad \cup 1..trimmed
      BY <1>t, <2>5 DEF HandleInvalid, Knowledge
    <3>2. QED BY <1>t, <2>1, <2>2, <2>5, <3>1, NoLossAck DEF IInv, Settled
  <2>6. QED
    BY <1>4, <2>3, <2>4, <2>5 DEF LoopStep, WatchDone, LoopExit, IssueRead, ReadOne,
       ReadLost, ReadNothing, HandleInvalid, HandleExceeded, HandleDispatch
<1>5. ASSUME NEW s \in Subs, NEW m \in Ids, DispatchStep(s, m)
      PROVE  IInv'
  <2>1. Knowledge'
    BY <1>t, <1>5, DispatchKnowledge
  <2>2. /\ UNCHANGED <<bad, trimmed>>
        /\ \A n \in Names : processed[n] \subseteq processed'[n]
    BY <1>t, <1>5 DEF DispatchStep, DispatchReturn, Ack, AckLost, server, TypeOK
  <2>3. CASE UNCHANGED group
    BY <1>t, <1>n, <2>1, <2>2, <2>3, NoLossFrame DEF IInv
  <2>4. CASE Ack(s, m) /\ XAck(sub[s].owner, m)
    <3>1. UNCHANGED processed /\ m \in sub[s].returned
      BY <2>4 DEF Ack
    <3>2. sub[s].owner \in Names => m \in Settled(sub[s].owner)
      BY <1>t, <3>1 DEF Knowledge, Settled
    <3>3. QED BY <1>t, <2>1, <2>2, <2>4, <3>1, <3>2, NoLossAck DEF IInv
  <2>5. QED
    BY <1>5, <2>3, <2>4 DEF DispatchStep, DispatchReturn, Ack, AckLost
<1>6. CASE Crash
  BY <1>t, <1>n, <1>6, ProcessEndsKnowledge DEF Crash, IInv
<1>7. CASE Restart
  <2>1. UNCHANGED <<bad, trimmed, processed, group, sub>>
    BY <1>7 DEF Restart, server
  <2>2. QED BY <1>t, <1>n, <2>1, KnowledgeRest, NoLossFrame DEF IInv
<1>8. CASE UNCHANGED vars
  <2>1. UNCHANGED <<bad, trimmed, processed, group, sub>>
    BY <1>8 DEF vars, server
  <2>2. QED BY <1>t, <1>n, <2>1, KnowledgeRest, NoLossFrame DEF IInv
<1>9. QED
  BY <1>1, <1>2, <1>3, <1>4, <1>5, <1>6, <1>7, <1>8 DEF Next

\* In every behaviour, what the server has given to a trigger's group is pending
\* there until its dispatch has returned: redis.go and subscription.go lose no
\* event in a crash, a lost reply, a failed acknowledgement, an Unsubscribe
\* that gave up waiting, or a second reader of the same group.
THEOREM AtLeastOnce == Spec => []NoEventLost
<1>1. IInv => NoEventLost
  BY DEF IInv
<1>2. QED BY <1>1, InitIInv, NextIInv, PTL DEF Spec

-----------------------------------------------------------------------------
(* The subscription map *)

(* How the steps change the subscription objects *)

\* A step that only moves subscription s on keeps its owner, and a loop that
\* runs after it ran before, unless it was the loop of unsubscribe().
LivePcs == {"check", "block", "handle"}

Moved(s) ==
    /\ \A t \in Subs : t # s => sub'[t] = sub[t]
    /\ sub'[s].owner = sub[s].owner
    /\ sub'[s].pc = "none" <=> sub[s].pc = "none"
    /\ sub'[s].pc \in LivePcs => sub[s].pc \in LivePcs
    /\ sub'[s].abandoned = sub[s].abandoned

LEMMA LoopMoves ==
    ASSUME TypeOK, NEW s \in Subs, LoopStep(s) \/ WatchDone(s)
    PROVE  Moved(s) /\ UNCHANGED object
<1> DEFINE x == sub[s]
           Keeps(r) == /\ r.owner = x.owner /\ r.abandoned = x.abandoned
                       /\ \/ r.pc = x.pc
                          \/ /\ x.pc \in {"check", "block", "handle"}
                             /\ r.pc \in {"check", "block", "handle", "stopped"}
<1>0. x \in Subscription
  BY SubFields
<1>1. ASSUME NEW r, SetSub(s, r), Keeps(r)
      PROVE  Moved(s) /\ UNCHANGED object
  <2>1. sub'[s] = r /\ \A t \in Subs : t # s => sub'[t] = sub[t]
    BY <1>1, SetSubValue
  <2>2. QED BY <1>1, <2>1 DEF Moved, LivePcs, SetSub
<1>2. CASE WatchDone(s)
  <2> DEFINE r == [x EXCEPT !.watching = FALSE, !.exitLoop = TRUE]
  <2>1. SetSub(s, r) /\ Keeps(r)
    BY <1>0, <1>2 DEF WatchDone, Subscription
  <2> HIDE DEF r
  <2>2. QED BY <1>1, <2>1
<1>3. CASE LoopExit(s)
  <2> DEFINE r == [x EXCEPT !.pc = "stopped", !.pending = FALSE,
                            !.cursor = 0, !.seen = {}]
  <2>1. SetSub(s, r) /\ Keeps(r)
    BY <1>0, <1>3 DEF LoopExit, Subscription
  <2> HIDE DEF r
  <2>2. QED BY <1>1, <2>1
<1>4. CASE IssueRead(s)
  <2> DEFINE r == [x EXCEPT !.pc = "block"]
  <2>1. SetSub(s, r) /\ Keeps(r)
    BY <1>0, <1>4 DEF IssueRead, Subscription
  <2> HIDE DEF r
  <2>2. QED BY <1>1, <2>1
<1>5. CASE ReadOne(s)
  <2>1. PICK m \in ToRead(s) :
          SetSub(s, [x EXCEPT !.pc = "handle", !.msg = m,
                              !.valid = m \notin bad /\ m > trimmed])
    BY <1>5 DEF ReadOne
  <2> DEFINE v == m \notin bad /\ m > trimmed
             r == [x EXCEPT !.pc = "handle", !.msg = m, !.valid = v]
  <2>2. SetSub(s, r)
    BY <2>1
  <2> HIDE DEF v
  <2>3. Keeps(r)
    BY <1>0, <1>5 DEF ReadOne, Subscription
  <2> HIDE DEF r
  <2>4. QED BY <1>1, <2>2, <2>3
<1>6. CASE ReadLost(s)
  <2> DEFINE r == [x EXCEPT !.pc = "check"]
  <2>1. SetSub(s, r) /\ Keeps(r)
    BY <1>0, <1>6 DEF ReadLost, Subscription
  <2> HIDE DEF r
  <2>2. QED BY <1>1, <2>1
<1>7. CASE ReadNothing(s)
  <2> DEFINE r == [x EXCEPT !.pc = "check"]
             q == [x EXCEPT !.pc = "check", !.pending = FALSE]
  <2>1. SetSub(s, r) \/ SetSub(s, q)
    BY <1>7 DEF ReadNothing
  <2>2. Keeps(r) /\ Keeps(q)
    BY <1>0, <1>7 DEF ReadNothing, Subscription
  <2> HIDE DEF r, q
  <2>3. QED BY <1>1, <2>1, <2>2
<1>8. CASE HandleInvalid(s)
  <2> DEFINE r == [x EXCEPT !.pc = "check", !.msg = 0]
  <2>1. SetSub(s, r) /\ Keeps(r)
    BY <1>0, <1>8 DEF HandleInvalid, Subscription
  <2> HIDE DEF r
  <2>2. QED BY <1>1, <2>1
<1>9. CASE HandleExceeded(s)
  <2> DEFINE r == [x EXCEPT !.pc = "check", !.msg = 0,
                            !.exitLoop = TRUE, !.complete = TRUE]
  <2>1. SetSub(s, r) /\ Keeps(r)
    BY <1>0, <1>9 DEF HandleExceeded, Subscription
  <2> HIDE DEF r
  <2>2. QED BY <1>1, <2>1
<1>10. CASE HandleDispatch(s)
  <2> DEFINE r == [x EXCEPT !.pc = "check", !.msg = 0,
                            !.exitLoop = ExitLoopAfterCheck(s),
                            !.cursor = CursorAfter(s),
                            !.running = @ \cup {x.msg}, !.seen = @ \cup {x.msg}]
  <2>1. SetSub(s, r)
    BY <1>10 DEF HandleDispatch
  <2>2. Keeps(r)
    BY <1>0, <1>10 DEF HandleDispatch, Subscription
  <2> HIDE DEF r
  <2>3. QED BY <1>1, <2>1, <2>2
<1>11. QED
  BY <1>2, <1>3, <1>4, <1>5, <1>6, <1>7, <1>8, <1>9, <1>10 DEF LoopStep

LEMMA DispatchMovesOn ==
    ASSUME TypeOK, NEW s \in Subs, NEW m \in Ids, DispatchStep(s, m)
    PROVE  Moved(s) /\ UNCHANGED object
<1> DEFINE r == [sub[s] EXCEPT !.running = @ \ {m}, !.returned = @ \cup {m}]
           q == [sub[s] EXCEPT !.returned = @ \ {m}]
<1>1. SetSub(s, r) \/ SetSub(s, q)
  BY DEF DispatchStep, DispatchReturn, Ack, AckLost
<1>2. /\ r.owner = sub[s].owner /\ r.pc = sub[s].pc /\ r.abandoned = sub[s].abandoned
      /\ q.owner = sub[s].owner /\ q.pc = sub[s].pc /\ q.abandoned = sub[s].abandoned
  BY SubFields DEF Subscription
<1> HIDE DEF r, q
<1>3. /\ \A t \in Subs : t # s => sub'[t] = sub[t]
      /\ sub'[s].owner = sub[s].owner /\ sub'[s].pc = sub[s].pc
      /\ sub'[s].abandoned = sub[s].abandoned
  BY <1>1, <1>2, SetSubValue
<1>4. QED BY <1>1, <1>3 DEF Moved, LivePcs, SetSub

LEMMA CancelMoves ==
    ASSUME TypeOK, NEW n \in Names, subs[n] \in Subs, CancelAndWait(n)
    PROVE  Moved(subs[n])
<1>1. sub[subs[n]] \in Subscription
  BY SubFields
<1>2. /\ \A t \in Subs : t # subs[n] => sub'[t] = sub[t]
      /\ sub'[subs[n]].owner = sub[subs[n]].owner /\ sub'[subs[n]].pc = sub[subs[n]].pc
      /\ sub'[subs[n]].abandoned = sub[subs[n]].abandoned
  BY <1>1 DEF CancelAndWait, TypeOK, Subscription
<1>3. QED BY <1>2 DEF Moved, LivePcs

-----------------------------------------------------------------------------
(* The subscription map *)

\* The map names each subscription under its owner, a wait is for one of them
\* and keeps the mutex, a closed client has none left, and the wait group
\* counts them.
MapsOwner == \A n \in Names : subs[n] # None => /\ sub[subs[n]].owner = n
                                                /\ sub[subs[n]].pc # "none"
WaitsHeld == waitFor # None => mutex # "free" /\ \E n \in Names : subs[n] = waitFor
ClosedEmpty == startPc = "closed" => Subscribed = {}

\* Start holds the mutex while it drains.
DrainHeld == startPc = "draining" => mutex = "start"

Tracking ==
    MapsOwner /\ WaitsHeld /\ DrainHeld /\ ClosedEmpty /\ LoopsTracked /\ WaitGroupCounts

MInv == TypeOK /\ Tracking

\* Steps of a subscription's goroutines leave the map as it is.
LEMMA MovedTracking ==
    ASSUME TypeOK, TypeOK', Tracking, NEW s \in Subs, Moved(s),
           UNCHANGED <<startPc, mutex, waitFor, subs, wg>>
    PROVE  Tracking'
<1>1. \A t \in Subs : /\ sub'[t].owner = sub[t].owner
                      /\ sub'[t].pc = "none" <=> sub[t].pc = "none"
                      /\ sub'[t].pc \in LivePcs => sub[t].pc \in LivePcs
                      /\ sub'[t].abandoned = sub[t].abandoned
  BY DEF Moved
<1>2. MapsOwner'
  BY <1>1 DEF Tracking, MapsOwner, TypeOK
<1>3. LoopsTracked'
  BY <1>1 DEF Tracking, LoopsTracked, Live, LivePcs
<1>4. Subscribed' = Subscribed
  BY DEF Subscribed
<1>5. QED BY <1>2, <1>3, <1>4 DEF Tracking, WaitsHeld, DrainHeld, ClosedEmpty,
      WaitGroupCounts

\* Subscribe puts a fresh subscription under a name that has none.
LEMMA SubscribeTracking ==
    ASSUME TypeOK, TypeOK', Tracking, NEW n \in Names, NEW b \in BoundChoices,
           Subscribe(n, b)
    PROVE  Tracking'
<1>1. PICK s \in Subs : /\ sub[s].pc = "none"
                        /\ subs' = [subs EXCEPT ![n] = s]
                        /\ sub' = [sub EXCEPT ![s] = NewSub(n, b)]
  BY DEF Subscribe
<1>2. /\ subs[n] = None /\ startPc = "serving" /\ mutex = "free" /\ wg' = wg + 1
      /\ UNCHANGED <<startPc, mutex, waitFor>>
  BY DEF Subscribe, MaySubscribe
<1>3. /\ sub'[s].owner = n /\ sub'[s].pc = "check"
      /\ \A t \in Subs : t # s => sub'[t] = sub[t]
  BY <1>1, NewSubType DEF TypeOK
<1>4. /\ subs'[n] = s /\ s # None
      /\ \A k \in Names : k # n => subs'[k] = subs[k]
  BY <1>1, NamesAssumption DEF TypeOK
<1>5. \A k \in Names : subs[k] # s
  BY <1>1, NamesAssumption DEF Tracking, MapsOwner
<1>6. MapsOwner'
  <2>1. \A k \in Names : subs[k] \in Subs \cup {None}
    BY DEF TypeOK
  <2>2. QED BY <1>3, <1>4, <1>5, <2>1 DEF Tracking, MapsOwner
<1>7. WaitsHeld' /\ DrainHeld'
  BY <1>2 DEF Tracking, WaitsHeld, DrainHeld
<1>8. ClosedEmpty'
  BY <1>2 DEF ClosedEmpty
<1>9. LoopsTracked'
  <2> SUFFICES ASSUME NEW t \in Subs, Live(t)', ~sub'[t].abandoned
               PROVE  sub'[t].owner \in Names /\ subs'[sub'[t].owner] = t
    BY DEF LoopsTracked
  <2>1. CASE t = s
    BY <1>3, <1>4, <2>1
  <2>2. CASE t # s
    <3>1. sub[t].owner \in Names /\ subs[sub[t].owner] = t
      BY <1>3, <2>2 DEF Tracking, LoopsTracked, Live
    <3>2. sub[t].owner # n
      BY <1>2, <3>1, NamesAssumption
    <3>3. QED BY <1>3, <1>4, <2>2, <3>1, <3>2
  <2>3. QED BY <2>1, <2>2
<1>10. WaitGroupCounts'
  <2>1. Subscribed' = Subscribed \cup {n} /\ n \notin Subscribed
    BY <1>2, <1>4 DEF Subscribed
  <2>2. IsFiniteSet(Subscribed)
    BY NamesAssumption, FS_Subset DEF Subscribed
  <2>3. Cardinality(Subscribed') = Cardinality(Subscribed) + 1
    BY <2>1, <2>2, FS_AddElement
  <2>4. wg = Cardinality(Subscribed)
    BY DEF Tracking, WaitGroupCounts
  <2>5. QED BY <1>2, <2>3, <2>4 DEF WaitGroupCounts
<1>11. QED BY <1>6, <1>7, <1>8, <1>9, <1>10 DEF Tracking

\* A wait that ends removes one entry of the map, and its loop has stopped or
\* is given up.
LEMMA ForgetTracking ==
    ASSUME TypeOK, TypeOK', Tracking, UnsubscribeStopped \/ UnsubscribeTimeout
    PROVE  Tracking'
<1>1. /\ waitFor \in Subs /\ waitFor # None /\ waitFor' = None /\ wg' = wg - 1
      /\ subs' = [n \in Names |-> IF subs[n] = waitFor THEN None ELSE subs[n]]
      /\ startPc' = startPc
  BY DEF UnsubscribeStopped, UnsubscribeTimeout, Forget, TypeOK
<1>2. \A t \in Subs : /\ t # waitFor => sub'[t] = sub[t]
                      /\ sub'[t].owner = sub[t].owner /\ sub'[t].pc = sub[t].pc
  <2>1. CASE UnsubscribeStopped
    BY <2>1 DEF UnsubscribeStopped
  <2>2. CASE UnsubscribeTimeout
    <3>1. sub[waitFor] \in Subscription
      BY <1>1, SubFields
    <3>2. QED BY <1>1, <2>2, <3>1 DEF UnsubscribeTimeout, TypeOK, Subscription
  <2>3. QED BY <2>1, <2>2
<1>3. sub'[waitFor].pc = "stopped" \/ sub'[waitFor].abandoned
  <2>1. CASE UnsubscribeStopped
    BY <2>1 DEF UnsubscribeStopped
  <2>2. CASE UnsubscribeTimeout
    <3>1. sub[waitFor] \in Subscription
      BY <1>1, SubFields
    <3>2. QED BY <1>1, <2>2, <3>1 DEF UnsubscribeTimeout, TypeOK, Subscription
  <2>3. QED BY <2>1, <2>2
<1>4. MapsOwner'
  <2>1. \A k \in Names : subs'[k] # None => subs'[k] = subs[k] /\ subs[k] \in Subs
    BY <1>1 DEF TypeOK
  <2>2. QED BY <1>2, <2>1 DEF Tracking, MapsOwner
<1>5. WaitsHeld' /\ DrainHeld'
  <2>1. mutex' = MutexAfterWait
    BY DEF UnsubscribeStopped, UnsubscribeTimeout, Forget
  <2>2. QED
    BY <1>1, <2>1 DEF Tracking, WaitsHeld, DrainHeld, MutexAfterWait
<1>6. Subscribed' = {n \in Subscribed : subs[n] # waitFor}
  BY <1>1 DEF Subscribed
<1>7. ClosedEmpty'
  BY <1>1, <1>6 DEF Tracking, ClosedEmpty
<1>8. LoopsTracked'
  <2> SUFFICES ASSUME NEW t \in Subs, Live(t)', ~sub'[t].abandoned
               PROVE  sub'[t].owner \in Names /\ subs'[sub'[t].owner] = t
    BY DEF LoopsTracked
  <2>1. t # waitFor
    BY <1>3 DEF Live
  <2>2. sub[t].owner \in Names /\ subs[sub[t].owner] = t
    BY <1>2, <2>1 DEF Tracking, LoopsTracked, Live
  <2>3. QED BY <1>1, <1>2, <2>1, <2>2
<1>9. WaitGroupCounts'
  <2>1. PICK n \in Names : subs[n] = waitFor
    BY <1>1 DEF Tracking, WaitsHeld
  <2>2. \A k \in Names : subs[k] = waitFor => k = n
    BY <1>1, <2>1 DEF Tracking, MapsOwner
  <2>3. Subscribed' = Subscribed \ {n} /\ n \in Subscribed
    BY <1>1, <1>6, <2>1, <2>2 DEF Subscribed
  <2>4. IsFiniteSet(Subscribed)
    BY NamesAssumption, FS_Subset DEF Subscribed
  <2>5. Cardinality(Subscribed') = Cardinality(Subscribed) - 1
    BY <2>3, <2>4, FS_RemoveElement
  <2>6. wg = Cardinality(Subscribed)
    BY DEF Tracking, WaitGroupCounts
  <2>7. QED BY <1>1, <2>5, <2>6 DEF WaitGroupCounts
<1>10. QED BY <1>4, <1>5, <1>7, <1>8, <1>9 DEF Tracking

\* sub.cancel() and the wait keep the map; the caller holds the mutex.
LEMMA CancelTracking ==
    ASSUME TypeOK, TypeOK', Tracking, NEW n \in Names, subs[n] \in Subs,
           CancelAndWait(n), mutex' # "free", startPc = "draining" => mutex' = "start"
    PROVE  Tracking'
<1>1. PICK s \in Subs : s = subs[n]
  OBVIOUS
<1>2. Moved(s) /\ UNCHANGED <<startPc, subs, wg>> /\ waitFor' = subs[n]
  BY <1>1, CancelMoves DEF CancelAndWait
<1>3. \A t \in Subs : /\ sub'[t].owner = sub[t].owner
                      /\ sub'[t].pc = "none" <=> sub[t].pc = "none"
                      /\ sub'[t].pc \in LivePcs => sub[t].pc \in LivePcs
                      /\ sub'[t].abandoned = sub[t].abandoned
  BY <1>2 DEF Moved
<1>4. MapsOwner'
  BY <1>2, <1>3 DEF Tracking, MapsOwner, TypeOK
<1>5. LoopsTracked'
  BY <1>2, <1>3 DEF Tracking, LoopsTracked, Live, LivePcs
<1>6. Subscribed' = Subscribed
  BY <1>2 DEF Subscribed
<1>7. WaitsHeld' /\ DrainHeld'
  BY <1>2 DEF WaitsHeld, DrainHeld
<1>8. QED BY <1>2, <1>4, <1>5, <1>6, <1>7 DEF Tracking, ClosedEmpty, WaitGroupCounts

LEMMA InitMInv == Init => MInv
<1> SUFFICES ASSUME Init PROVE MInv
  OBVIOUS
<1>1. Subscribed = {}
  BY DEF Init, Subscribed
<1>2. WaitGroupCounts
  BY <1>1, FS_EmptySet DEF Init, WaitGroupCounts
<1>3. MapsOwner /\ WaitsHeld /\ ClosedEmpty /\ LoopsTracked /\ DrainHeld
  BY DEF Init, MapsOwner, WaitsHeld, ClosedEmpty, LoopsTracked, Live, NoSub, DrainHeld
<1>4. QED BY <1>2, <1>3, InitType DEF MInv, Tracking

LEMMA NextMInv == MInv /\ [Next]_vars => MInv'
<1> SUFFICES ASSUME MInv, [Next]_vars PROVE Tracking'
  BY NextType DEF MInv
<1>t. TypeOK /\ TypeOK' /\ Tracking
  BY NextType DEF MInv
<1>1. ASSUME UNCHANGED <<startPc, mutex, waitFor, subs, wg, sub>>
      PROVE  Tracking'
  BY <1>t, <1>1 DEF Tracking, MapsOwner, WaitsHeld, DrainHeld, ClosedEmpty, LoopsTracked,
     Live, WaitGroupCounts, Subscribed
<1>2. CASE Produce \/ ForeignAdd
  BY <1>1, <1>2 DEF Produce, ForeignAdd, object
<1>3. ASSUME NEW n \in Names, ManagerStep(n)
      PROVE  Tracking'
  <2>1. ASSUME NEW b \in BoundChoices, Subscribe(n, b)
        PROVE  Tracking'
    BY <1>t, <2>1, SubscribeTracking
  <2>2. ASSUME NEW b \in BoundChoices, SubscribeReplyLost(n, b)
        PROVE  Tracking'
    BY <1>1, <2>2 DEF SubscribeReplyLost, object
  <2>3. CASE Unsubscribe(n)
    <3>1. /\ CancelAndWait(n) /\ subs[n] \in Subs /\ mutex' # "free"
          /\ startPc # "draining"
      BY <1>t, <2>3 DEF Unsubscribe, Subscribed, TypeOK, Tracking, DrainHeld
    <3>2. QED BY <1>t, <3>1, CancelTracking
  <2>4. QED BY <1>3, <2>1, <2>2, <2>3 DEF ManagerStep
<1>4. CASE UnsubscribeStopped \/ UnsubscribeTimeout
  BY <1>t, <1>4, ForgetTracking
<1>5. CASE StartSteps \/ Disconnect
  <2>1. ASSUME NEW n \in Names, Drain(n)
        PROVE  Tracking'
    <3>1. CancelAndWait(n) /\ subs[n] \in Subs /\ mutex' = "start"
      BY <1>t, <2>1 DEF Drain, Subscribed, TypeOK, Tracking, DrainHeld
    <3>2. QED BY <1>t, <3>1, CancelTracking
  <2>2. CASE SetContext \/ Disconnect \/ LockForDrain \/ CloseClient
    <3>1. UNCHANGED <<waitFor, subs, wg, sub>> /\ Subscribed' = Subscribed
      BY <2>2 DEF SetContext, Disconnect, LockForDrain, CloseClient, StartStep, Subscribed
    <3>2. MapsOwner' /\ LoopsTracked' /\ WaitGroupCounts'
      BY <1>t, <3>1 DEF Tracking, MapsOwner, LoopsTracked, Live, WaitGroupCounts
    <3>3. WaitsHeld' /\ DrainHeld' /\ ClosedEmpty'
      BY <1>t, <2>2, <3>1 DEF SetContext, Disconnect, LockForDrain, CloseClient, StartStep,
         Tracking, WaitsHeld, DrainHeld, ClosedEmpty
    <3>4. QED BY <3>2, <3>3 DEF Tracking
  <2>3. QED BY <1>5, <2>1, <2>2 DEF StartSteps
<1>6. ASSUME NEW s \in Subs, WatchDone(s) \/ LoopStep(s)
      PROVE  Tracking'
  BY <1>t, <1>6, LoopMoves, MovedTracking DEF object
<1>7. ASSUME NEW s \in Subs, NEW m \in Ids, DispatchStep(s, m)
      PROVE  Tracking'
  BY <1>t, <1>7, DispatchMovesOn, MovedTracking DEF object
<1>8. CASE Crash
  <2>1. /\ startPc' = "down" /\ waitFor' = None /\ wg' = 0
        /\ \A n \in Names : subs'[n] = None
        /\ \A s \in Subs : sub'[s] = NoSub
    BY <1>8 DEF Crash, ProcessEnds
  <2>2. Subscribed' = {}
    BY <2>1 DEF Subscribed
  <2>3. WaitGroupCounts'
    BY <2>1, <2>2, FS_EmptySet DEF WaitGroupCounts
  <2>4. QED
    BY <2>1, <2>3 DEF Tracking, MapsOwner, WaitsHeld, DrainHeld, ClosedEmpty, LoopsTracked,
       Live, NoSub
<1>9. CASE Restart
  <2>1. startPc' = "init" /\ UNCHANGED <<mutex, waitFor, subs, wg, sub>>
    BY <1>9 DEF Restart
  <2>2. QED
    BY <1>t, <2>1 DEF Tracking, MapsOwner, WaitsHeld, DrainHeld, ClosedEmpty, LoopsTracked,
       Live, WaitGroupCounts, Subscribed
<1>10. CASE UNCHANGED vars
  BY <1>1, <1>10 DEF vars, object
<1>11. QED
  BY <1>2, <1>3, <1>4, <1>5, <1>6, <1>7, <1>8, <1>9, <1>10 DEF Next

\* In every behaviour a loop that runs belongs to the subscription map, unless
\* unsubscribe() gave up waiting for it: however often triggers are removed
\* and added, no trigger gets a second reader that nobody could stop.
THEOREM OneTrackedReader == Spec => []LoopsTracked
<1>1. MInv => LoopsTracked
  BY DEF MInv, Tracking
<1>2. QED BY <1>1, InitMInv, NextMInv, PTL DEF Spec

\* wgSubs counts the subscription map at every step: Start's Wait() ends when
\* the map is empty, and Done() is never called once too often.
THEOREM WaitGroupExact == Spec => []WaitGroupCounts
<1>1. MInv => WaitGroupCounts
  BY DEF MInv, Tracking
<1>2. QED BY <1>1, InitMInv, NextMInv, PTL DEF Spec

\* Start closes the client only when the wait group is at zero and no tracked
\* loop runs, whatever Subscribe and Unsubscribe do meanwhile.
THEOREM ShutdownClean == Spec => []ClosesClean
<1>1. MInv => ClosesClean
  <2> SUFFICES ASSUME MInv, startPc = "closed"
               PROVE  wg = 0 /\ \A s \in Subs : Live(s) => sub[s].abandoned
    BY DEF ClosesClean
  <2>1. Subscribed = {} /\ wg = Cardinality(Subscribed) /\ LoopsTracked
    BY DEF MInv, Tracking, ClosedEmpty, WaitGroupCounts
  <2>2. wg = 0
    BY <2>1, FS_EmptySet
  <2>3. \A n \in Names : subs[n] = None
    BY <2>1 DEF Subscribed
  <2>4. QED BY <2>1, <2>2, <2>3, NamesAssumption DEF LoopsTracked
<1>2. QED BY <1>1, InitMInv, NextMInv, PTL DEF Spec
=============================================================================
