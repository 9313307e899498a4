------------------------- MODULE RedisDeliveryProofs --------------------------
(***************************************************************************)
(* What RedisBackend promises of each entry, for every number of triggers, *)
(* subscriptions, entries, faults and restarts and every sequence of IDs:  *)
(* it implements BackendContract, each of its steps settling entries,      *)
(* giving some to a trigger, or marking settled ones as processed; a loop  *)
(* dispatches no entry twice, and none beyond its end but where the IDs    *)
(* gain a digit; and a replay that reports Complete has left behind no     *)
(* entry but those that the comparison of texts puts past its end.         *)
(***************************************************************************)
EXTENDS RedisBackendProofs

\* A group that does not exist has no pending entries, and a subscription has
\* a group: reads and acknowledgements never meet a missing one.
Backed ==
    /\ \A n \in Names : ~group[n].exists => group[n].pel = {}
    /\ \A s \in Subs : sub[s].pc # "none" => group[sub[s].owner].exists

CInv == IInv /\ Backed

(* The steps and the contract *)

SettledTyped == \A n \in Names : Settled(n) \in SUBSET Ids

LEMMA SettledType == TypeOK => SettledTyped
<1> SUFFICES ASSUME TypeOK, NEW n \in Names
             PROVE  Settled(n) \in SUBSET Ids
  BY DEF SettledTyped
<1>1. /\ produced \in Nat /\ MaxId \in Nat /\ produced <= MaxId
      /\ trimmed \in Nat /\ trimmed <= produced
  BY BoundsAssumption DEF TypeOK
<1>2. 1..produced \subseteq Ids /\ 1..trimmed \subseteq Ids
  BY <1>1 DEF Ids
<1>3. QED BY <1>2 DEF Settled, TypeOK

LEMMA SettledGrows ==
    ASSUME TypeOK, TypeOK', NEW n \in Names,
           bad \subseteq bad', trimmed <= trimmed', processed[n] \subseteq processed'[n]
    PROVE  Settled(n) \subseteq Settled(n)'
<1>1. 1..trimmed \subseteq 1..trimmed'
  BY BoundsAssumption DEF TypeOK
<1>2. QED BY <1>1 DEF Settled

\* Steps that leave the groups alone settle entries, or nothing.
LEMMA ContractSettle ==
    ASSUME TypeOK, TypeOK', UNCHANGED group, bad \subseteq bad', trimmed <= trimmed',
           \A n \in Names : processed[n] \subseteq processed'[n]
    PROVE  Contract!Next
<1>1. \A n \in Names : PendingIds(n)' = PendingIds(n)
  BY DEF PendingIds
<1>2. SettledTyped'
  BY SettledType, PTL
<1>3. \A n \in Names : Settled(n) \subseteq Settled(n)'
  BY SettledGrows
<1>4. [n \in Names |-> Settled(n)'] \in [Names -> SUBSET Ids]
  BY <1>2 DEF SettledTyped
<1>5. Contract!Settle
  BY <1>1, <1>3, <1>4 DEF Contract!Settle
<1>6. QED BY <1>5 DEF Contract!Next

\* A read of new entries gives one to the trigger; a read of pending ones
\* gives nothing new.
LEMMA ContractGive ==
    ASSUME TypeOK, NEW s \in Subs, sub[s].pc # "none", NEW m \in Ids, XReadGroup(s, m),
           UNCHANGED <<processed, bad, trimmed>>
    PROVE  [Contract!Next]_(Contract!vars)
<1>1. \A n \in Names : Settled(n)' = Settled(n)
  BY DEF Settled
<1>2. PICK n \in Names : n = sub[s].owner
  BY SubFields DEF Coherent
<1>3. CASE sub[s].pending
  <2>1. \A k \in Names : PendingIds(k)' = PendingIds(k)
    BY <1>3 DEF XReadGroup, PendingIds
  <2>2. QED BY <1>1, <2>1 DEF Contract!vars
<1>4. CASE ~sub[s].pending
  <2>1. group[n] \in Group
    BY DEF TypeOK
  <2>2. /\ group'[n].pel = group[n].pel \cup {<<inst, m>>}
        /\ \A k \in Names : k # n => group'[k] = group[k]
    BY <1>2, <1>4, <2>1 DEF XReadGroup, PelAfterRead, TypeOK, Group
  <2>3. PendingIds(n)' = PendingIds(n) \cup {m}
    <3>1. <<inst, m>>[2] = m
      OBVIOUS
    <3> DEFINE new == <<inst, m>>
    <3>2. new[2] = m /\ group'[n].pel = group[n].pel \cup {new}
      BY <2>2, <3>1
    <3> HIDE DEF new
    <3>3. QED BY <3>2 DEF PendingIds
  <2>4. \A k \in Names : k # n => PendingIds(k)' = PendingIds(k)
    BY <2>2 DEF PendingIds
  <2> DEFINE o == [k \in Names |-> PendingIds(k)]
  <2>5. o' = [o EXCEPT ![n] = @ \cup {m}]
    BY <2>3, <2>4
  <2>6. Contract!Give(n)
    BY <1>1, <2>5 DEF Contract!Give
  <2>7. QED BY <2>6 DEF Contract!Next
<1>5. QED BY <1>3, <1>4

\* An acknowledgement marks one settled entry.
LEMMA ContractMark ==
    ASSUME TypeOK, NEW n \in Names, NEW m \in Settled(n), XAck(n, m),
           UNCHANGED <<processed, bad, trimmed>>
    PROVE  Contract!Next
<1>1. \A k \in Names : Settled(k)' = Settled(k)
  BY DEF Settled
<1>2. group[n] \in Group
  BY DEF TypeOK
<1>3. /\ group'[n].pel = {p \in group[n].pel : p[2] # m}
      /\ \A k \in Names : k # n => group'[k] = group[k]
  BY <1>2 DEF XAck, TypeOK, Group
<1>4. PendingIds(n)' = PendingIds(n) \ {m}
  BY <1>3 DEF PendingIds
<1>5. \A k \in Names : k # n => PendingIds(k)' = PendingIds(k)
  BY <1>3 DEF PendingIds
<1> DEFINE o == [k \in Names |-> PendingIds(k)]
<1>6. o' = [o EXCEPT ![n] = @ \ {m}]
  BY <1>4, <1>5
<1>7. Contract!Mark(n)
  BY <1>1, <1>6 DEF Contract!Mark
<1>8. QED BY <1>7 DEF Contract!Next

\* A group is created without pending entries, where there were none.
LEMMA ContractCreate ==
    ASSUME TypeOK, Backed, NEW n \in Names, NEW b \in BoundChoices, XGroupCreate(n, b),
           UNCHANGED <<processed, bad, trimmed>>
    PROVE  UNCHANGED Contract!vars
<1>1. \A k \in Names : Settled(k)' = Settled(k)
  BY DEF Settled
<1>2. \A k \in Names : group'[k].pel = group[k].pel
  BY DEF XGroupCreate, Backed, TypeOK
<1>3. \A k \in Names : PendingIds(k)' = PendingIds(k)
  BY <1>2 DEF PendingIds
<1>4. QED BY <1>1, <1>3 DEF Contract!vars

-----------------------------------------------------------------------------
(* Groups exist where they are used *)

\* Groups stay, and only a new subscription needs one.
LEMMA BackedFrame ==
    ASSUME TypeOK, Backed,
           \A n \in Names : /\ group[n].exists => group'[n].exists
                            /\ ~group'[n].exists => group'[n].pel \subseteq group[n].pel,
           \A t \in Subs : sub'[t].pc # "none" =>
               sub[t].pc # "none" /\ sub'[t].owner = sub[t].owner
    PROVE  Backed'
<1>1. \A n \in Names : ~group'[n].exists => group'[n].pel = {}
  BY DEF Backed
<1>2. ASSUME NEW t \in Subs, sub'[t].pc # "none"
      PROVE  group'[sub'[t].owner].exists
  <2>1. sub[t].pc # "none" /\ sub'[t].owner = sub[t].owner /\ sub[t].owner \in Names
    BY <1>2, SubFields DEF Coherent
  <2>2. QED BY <2>1 DEF Backed
<1>3. QED BY <1>1, <1>2 DEF Backed

\* What XREADGROUP and XACK leave of the groups.
LEMMA GroupsKept ==
    ASSUME TypeOK, Backed, NEW s \in Subs, NEW m,
           \/ UNCHANGED group
           \/ XReadGroup(s, m) /\ sub[s].pc # "none"
           \/ XAck(sub[s].owner, m)
    PROVE  \A n \in Names : /\ group'[n].exists = group[n].exists
                            /\ ~group'[n].exists => group'[n].pel \subseteq group[n].pel
<1> SUFFICES ASSUME NEW n \in Names
             PROVE  /\ group'[n].exists = group[n].exists
                    /\ ~group'[n].exists => group'[n].pel \subseteq group[n].pel
  OBVIOUS
<1>0. group[n] \in Group
  BY DEF TypeOK
<1>1. CASE group'[n] = group[n]
  BY <1>1
<1>2. CASE group'[n] # group[n] /\ XReadGroup(s, m) /\ sub[s].pc # "none"
  <2>1. sub[s].owner = n /\ group[n].exists
    BY <1>2 DEF XReadGroup, TypeOK, Backed
  <2>2. group'[n].exists = group[n].exists
    BY <1>0, <1>2, <2>1 DEF XReadGroup, TypeOK, Group
  <2>3. QED BY <2>1, <2>2
<1>3. CASE group'[n] # group[n] /\ XAck(sub[s].owner, m)
  <2>1. sub[s].owner = n
    BY <1>3 DEF XAck, TypeOK
  <2>2. QED BY <1>0, <1>3, <2>1 DEF XAck, TypeOK, Group
<1>4. QED BY <1>1, <1>2, <1>3

\* The commands of a subscription's goroutines.
LEMMA LoopCommands ==
    ASSUME NEW s \in Subs, LoopStep(s) \/ WatchDone(s)
    PROVE  /\ UNCHANGED <<bad, trimmed, processed>>
           /\ \/ UNCHANGED group
              \/ \E m \in ToRead(s) : XReadGroup(s, m) /\ sub[s].pc # "none"
              \/ /\ sub[s].pc = "handle" /\ ~sub[s].valid
                 /\ XAck(sub[s].owner, sub[s].msg)
<1>1. CASE WatchDone(s)
  BY <1>1 DEF WatchDone, server
<1>2. CASE LoopExit(s) \/ IssueRead(s)
  BY <1>2 DEF LoopExit, IssueRead, server
<1>3. CASE ReadOne(s)
  BY <1>3 DEF ReadOne, server
<1>4. CASE ReadLost(s)
  BY <1>4 DEF ReadLost, server
<1>5. CASE ReadNothing(s)
  BY <1>5 DEF ReadNothing, server
<1>6. CASE HandleInvalid(s)
  BY <1>6 DEF HandleInvalid, server
<1>7. CASE HandleExceeded(s)
  BY <1>7 DEF HandleExceeded, server
<1>8. CASE HandleDispatch(s)
  BY <1>8 DEF HandleDispatch, server
<1>9. QED
  BY <1>1, <1>2, <1>3, <1>4, <1>5, <1>6, <1>7, <1>8 DEF LoopStep

LEMMA InitBacked == Init => Backed
BY DEF Init, Backed, NoGroup, NoSub

LEMMA NextBacked == CInv /\ [Next]_vars => Backed'
<1> SUFFICES ASSUME CInv, [Next]_vars PROVE Backed'
  OBVIOUS
<1>t. TypeOK /\ Backed
  BY DEF CInv, IInv
<1>1. ASSUME UNCHANGED <<group, sub>>
      PROVE  Backed'
  BY <1>t, <1>1 DEF Backed
<1>2. CASE Produce \/ ForeignAdd
  BY <1>1, <1>2 DEF Produce, ForeignAdd
<1>3. ASSUME NEW n \in Names, ManagerStep(n)
      PROVE  Backed'
  <2>1. ASSUME NEW b \in BoundChoices, XGroupCreate(n, b)
        PROVE  \A k \in Names : /\ group[k].exists => group'[k].exists
                                /\ ~group'[k].exists => group'[k] = group[k]
                                /\ group'[n].exists
    BY <1>t, <2>1 DEF XGroupCreate, TypeOK
  <2>2. ASSUME NEW b \in BoundChoices, Subscribe(n, b)
        PROVE  Backed'
    <3>1. PICK s \in Subs : sub' = [sub EXCEPT ![s] = NewSub(n, b)]
      BY <2>2 DEF Subscribe
    <3>2. sub'[s].owner = n /\ \A t \in Subs : t # s => sub'[t] = sub[t]
      BY <1>t, <3>1, NewSubType DEF TypeOK
    <3>3. \A k \in Names : /\ group[k].exists => group'[k].exists
                           /\ ~group'[k].exists => group'[k] = group[k]
                           /\ group'[n].exists
      BY <2>1, <2>2 DEF Subscribe
    <3>4. \A t \in Subs : sub[t].pc # "none" => sub[t].owner \in Names
      BY <1>t DEF TypeOK, Coherent
    <3>5. QED BY <1>t, <3>2, <3>3, <3>4 DEF Backed
  <2>3. ASSUME NEW b \in BoundChoices, SubscribeReplyLost(n, b)
        PROVE  Backed'
    <3>1. UNCHANGED sub /\ XGroupCreate(n, b)
      BY <2>3 DEF SubscribeReplyLost
    <3>2. QED BY <1>t, <2>1, <3>1, BackedFrame
  <2>4. CASE Unsubscribe(n)
    <3>1. CancelAndWait(n) /\ subs[n] \in Subs /\ UNCHANGED group
      BY <1>t, <2>4 DEF Unsubscribe, CancelAndWait, Subscribed, TypeOK
    <3>2. PICK s \in Subs : s = subs[n] /\ Moved(s)
      BY <1>t, <3>1, CancelMoves
    <3>3. QED BY <1>t, <3>1, <3>2, BackedFrame DEF Moved
  <2>5. QED BY <1>3, <2>2, <2>3, <2>4 DEF ManagerStep
<1>4. CASE UnsubscribeStopped \/ UnsubscribeTimeout
  <2>1. CASE UnsubscribeStopped
    BY <1>1, <2>1 DEF UnsubscribeStopped
  <2>2. CASE UnsubscribeTimeout
    <3>1. waitFor \in Subs /\ sub[waitFor] \in Subscription /\ UNCHANGED group
      BY <1>t, <2>2 DEF UnsubscribeTimeout, TypeOK
    <3>2. \A t \in Subs : sub'[t].owner = sub[t].owner /\ sub'[t].pc = sub[t].pc
      BY <1>t, <2>2, <3>1 DEF UnsubscribeTimeout, TypeOK, Subscription
    <3>3. QED BY <1>t, <3>1, <3>2, BackedFrame
  <2>3. QED BY <1>4, <2>1, <2>2
<1>5. CASE StartSteps \/ Disconnect
  <2>1. ASSUME NEW n \in Names, Drain(n)
        PROVE  Backed'
    <3>1. CancelAndWait(n) /\ subs[n] \in Subs /\ UNCHANGED group
      BY <1>t, <2>1 DEF Drain, CancelAndWait, Subscribed, TypeOK
    <3>2. PICK s \in Subs : s = subs[n] /\ Moved(s)
      BY <1>t, <3>1, CancelMoves
    <3>3. QED BY <1>t, <3>1, <3>2, BackedFrame DEF Moved
  <2>2. CASE SetContext \/ Disconnect \/ LockForDrain \/ CloseClient
    BY <1>1, <2>2 DEF SetContext, Disconnect, LockForDrain, CloseClient, StartStep
  <2>3. QED BY <1>5, <2>1, <2>2 DEF StartSteps
<1>6. ASSUME NEW s \in Subs, WatchDone(s) \/ LoopStep(s)
      PROVE  Backed'
  <2>1. Moved(s)
    BY <1>t, <1>6, LoopMoves
  <2>2. \A n \in Names : /\ group'[n].exists = group[n].exists
                         /\ ~group'[n].exists => group'[n].pel \subseteq group[n].pel
    BY <1>t, <1>6, LoopCommands, GroupsKept
  <2>3. QED BY <1>t, <2>1, <2>2, BackedFrame DEF Moved
<1>7. ASSUME NEW s \in Subs, NEW m \in Ids, DispatchStep(s, m)
      PROVE  Backed'
  <2>1. Moved(s)
    BY <1>t, <1>7, DispatchMovesOn
  <2>2. UNCHANGED group \/ XAck(sub[s].owner, m)
    BY <1>7 DEF DispatchStep, DispatchReturn, Ack, AckLost
  <2>3. \A n \in Names : /\ group'[n].exists = group[n].exists
                         /\ ~group'[n].exists => group'[n].pel \subseteq group[n].pel
    BY <1>t, <2>2, GroupsKept
  <2>4. QED BY <1>t, <2>1, <2>3, BackedFrame DEF Moved
<1>8. CASE Crash
  BY <1>t, <1>8 DEF Crash, ProcessEnds, Backed, NoSub
<1>9. CASE Restart
  BY <1>1, <1>9 DEF Restart
<1>10. CASE UNCHANGED vars
  BY <1>1, <1>10 DEF vars
<1>11. QED
  BY <1>2, <1>3, <1>4, <1>5, <1>6, <1>7, <1>8, <1>9, <1>10 DEF Next

LEMMA InitCInv == Init => CInv
BY InitIInv, InitBacked DEF CInv

LEMMA NextCInv == CInv /\ [Next]_vars => CInv'
BY NextIInv, NextBacked DEF CInv

-----------------------------------------------------------------------------
(* The refinement *)

LEMMA InitContract == Init => Contract!Init
<1> SUFFICES ASSUME Init PROVE Contract!Init
  OBVIOUS
<1>1. \A n \in Names : group[n].pel = {} /\ processed[n] = {}
  BY DEF Init, NoGroup
<1>2. bad = {} /\ 1..trimmed = {}
  BY DEF Init
<1>3. \A n \in Names : PendingIds(n) = {} /\ Settled(n) = {}
  BY <1>1, <1>2 DEF PendingIds, Settled
<1>4. QED BY <1>3 DEF Contract!Init

LEMMA NextContract == CInv /\ CInv' /\ [Next]_vars => [Contract!Next]_(Contract!vars)
<1> SUFFICES ASSUME CInv, CInv', [Next]_vars
             PROVE  [Contract!Next]_(Contract!vars)
  OBVIOUS
<1>t. TypeOK /\ TypeOK' /\ Knowledge /\ Backed
  BY DEF CInv, IInv
<1>n. trimmed <= trimmed
  BY <1>t, BoundsAssumption DEF TypeOK
<1>1. ASSUME UNCHANGED <<group, bad, trimmed, processed>>
      PROVE  [Contract!Next]_(Contract!vars)
  BY <1>t, <1>n, <1>1, ContractSettle
<1>2. CASE Produce \/ ForeignAdd
  <2>1. bad \subseteq bad' /\ trimmed <= trimmed' /\ UNCHANGED <<group, processed>>
    BY <1>t, <1>2, XAddType DEF Produce, ForeignAdd
  <2>2. QED BY <1>t, <2>1, ContractSettle
<1>3. ASSUME NEW n \in Names, ManagerStep(n)
      PROVE  [Contract!Next]_(Contract!vars)
  <2>1. UNCHANGED <<bad, trimmed, processed>>
    BY <1>3 DEF ManagerStep, Subscribe, SubscribeReplyLost, Unsubscribe, CancelAndWait, server
  <2>2. CASE \E b \in BoundChoices : XGroupCreate(n, b)
    BY <1>t, <2>1, <2>2, ContractCreate
  <2>3. CASE UNCHANGED group
    BY <1>1, <2>1, <2>3
  <2>4. QED
    BY <1>3, <2>2, <2>3 DEF ManagerStep, Subscribe, SubscribeReplyLost, Unsubscribe,
       CancelAndWait
<1>4. CASE StartSteps \/ Disconnect \/ UnsubscribeStopped \/ UnsubscribeTimeout
  <2>1. UNCHANGED <<bad, trimmed, processed, group>>
    BY <1>4 DEF StartSteps, SetContext, Disconnect, LockForDrain, Drain, CloseClient,
       StartStep, CancelAndWait, UnsubscribeStopped, UnsubscribeTimeout, server
  <2>2. QED BY <1>1, <2>1
<1>5. ASSUME NEW s \in Subs, WatchDone(s) \/ LoopStep(s)
      PROVE  [Contract!Next]_(Contract!vars)
  <2>1. UNCHANGED <<bad, trimmed, processed>>
    BY <1>5, LoopCommands
  <2>2. CASE UNCHANGED group
    BY <1>1, <2>1, <2>2
  <2>3. CASE \E m \in ToRead(s) : XReadGroup(s, m) /\ sub[s].pc # "none"
    BY <1>t, <2>1, <2>3, ToReadType, ContractGive
  <2>4. CASE sub[s].pc = "handle" /\ ~sub[s].valid /\ XAck(sub[s].owner, sub[s].msg)
    <3>1. sub[s].owner \in Names
      BY <1>t, <2>4, SubFields DEF Coherent
    <3>2. sub[s].msg \in Settled(sub[s].owner)
      BY <1>t, <2>4 DEF Knowledge, Settled
    <3>3. Contract!Next
      BY <1>t, <2>1, <2>4, <3>1, <3>2, ContractMark
    <3>4. QED BY <3>3
  <2>5. QED BY <1>5, <2>2, <2>3, <2>4, LoopCommands
<1>6. ASSUME NEW s \in Subs, NEW m \in Ids, DispatchStep(s, m)
      PROVE  [Contract!Next]_(Contract!vars)
  <2>1. /\ UNCHANGED <<bad, trimmed>>
        /\ \A n \in Names : processed[n] \subseteq processed'[n]
    BY <1>t, <1>6 DEF DispatchStep, DispatchReturn, Ack, AckLost, server, TypeOK
  <2>2. CASE UNCHANGED group
    <3>1. Contract!Next
      BY <1>t, <1>n, <2>1, <2>2, ContractSettle
    <3>2. QED BY <3>1
  <2>3. CASE Ack(s, m) /\ XAck(sub[s].owner, m)
    <3>1. UNCHANGED processed /\ m \in sub[s].returned
      BY <2>3 DEF Ack
    <3>2. CASE sub[s].owner \in Names
      <4>1. m \in Settled(sub[s].owner)
        BY <1>t, <3>1, <3>2 DEF Knowledge, Settled
      <4>2. Contract!Next
        BY <1>t, <2>1, <2>3, <3>1, <3>2, <4>1, ContractMark
      <4>3. QED BY <4>2
    <3>3. CASE sub[s].owner \notin Names
      <4>1. group' = group
        BY <1>t, <2>3, <3>3 DEF XAck, TypeOK
      <4>2. QED BY <1>1, <2>1, <3>1, <4>1
    <3>4. QED BY <3>2, <3>3
  <2>4. QED
    BY <1>6, <2>2, <2>3 DEF DispatchStep, DispatchReturn, Ack, AckLost
<1>7. CASE Crash \/ Restart \/ UNCHANGED vars
  <2>1. UNCHANGED <<bad, trimmed, processed, group>>
    BY <1>7 DEF Crash, ProcessEnds, Restart, vars, server
  <2>2. QED BY <1>1, <2>1
<1>8. QED
  BY <1>2, <1>3, <1>4, <1>5, <1>6, <1>7 DEF Next

\* The Redis backend keeps the promise of interface.go: an entry given to a
\* trigger stays owed to it until its dispatch has returned, unless there is
\* nothing to dispatch in it, through every crash, lost reply, removal of the
\* trigger, trimming and change of the instance's name.
THEOREM Implements == Spec => KeepsContract
<1>1. QED BY InitCInv, NextCInv, InitContract, NextContract, PTL
         DEF Spec, KeepsContract, Contract!Spec

-----------------------------------------------------------------------------
(* A loop dispatches no entry twice. *)

\* What a loop has dispatched was read from its group and, while it reads
\* pending entries, is not after its cursor; what it handles comes later.
InOrder(r, last) ==
    /\ \A e \in r.seen : e <= last
    /\ r.pending => \A e \in r.seen : e <= r.cursor
    /\ (r.pc = "handle") => (r.msg <= last /\ \A e \in r.seen : e < r.msg)

\* What is pending was read, after the group's start, and every loop is in
\* order.
PendingRead ==
    \A n \in Names :
        /\ group[n].start <= group[n].last
        /\ \A p \in group[n].pel : group[n].start < p[2] /\ p[2] <= group[n].last

LoopsOrdered ==
    \A s \in Subs : sub[s].pc # "none" => InOrder(sub[s], group[sub[s].owner].last)

SInv == CInv /\ PendingRead /\ LoopsOrdered

\* Groups only move forward, from a start that stays.
Forward ==
    \A n \in Names : group[n].exists =>
        group[n].last <= group'[n].last /\ group'[n].start = group[n].start

LEMMA OrderNumbers ==
    ASSUME TypeOK, NEW s \in Subs
    PROVE  /\ sub[s].seen \in SUBSET Nat /\ sub[s].msg \in Nat /\ sub[s].cursor \in Nat
           /\ \A n \in Names : group[n].last \in Nat
<1>1. /\ sub[s].seen \in SUBSET Ids /\ Ids \subseteq Nat
      /\ sub[s].msg \in 0..MaxId /\ sub[s].cursor \in 0..MaxId /\ MaxId \in Nat
  BY SubFields, Bounds
<1>2. \A n \in Names : group[n].last \in Nat
  BY DEF TypeOK, Group
<1>3. sub[s].seen \in SUBSET Nat
  BY <1>1
<1>4. sub[s].msg \in Nat /\ sub[s].cursor \in Nat
  BY <1>1
<1>5. QED BY <1>2, <1>3, <1>4

\* When the groups move forward and at most one subscription moves on, in
\* order, every loop stays in order.
LEMMA OrderedFrame ==
    ASSUME TypeOK, TypeOK', Backed, LoopsOrdered, Forward,
           NEW s, \A t \in Subs : t # s /\ sub'[t].pc # "none" => sub'[t] = sub[t],
           s \in Subs /\ sub'[s].pc # "none" => InOrder(sub'[s], group'[sub'[s].owner].last)
    PROVE  LoopsOrdered'
<1> SUFFICES ASSUME NEW t \in Subs, sub'[t].pc # "none", t # s
             PROVE  InOrder(sub'[t], group'[sub'[t].owner].last)
  BY DEF LoopsOrdered
<1>1. /\ sub'[t] = sub[t] /\ sub[t].owner \in Names
      /\ InOrder(sub[t], group[sub[t].owner].last)
  BY SubFields DEF LoopsOrdered, Coherent
<1>2. /\ group[sub[t].owner].last \in Nat /\ group'[sub[t].owner].last \in Nat
      /\ group[sub[t].owner].last <= group'[sub[t].owner].last
  BY <1>1 DEF TypeOK, Backed, Group, Forward
<1>3. sub[t].seen \in SUBSET Nat /\ sub[t].msg \in Nat
  BY OrderNumbers
<1>4. QED BY <1>1, <1>2, <1>3 DEF InOrder

\* What the commands do to the groups.
LEMMA CreateOrder ==
    ASSUME TypeOK, PendingRead, NEW n \in Names, NEW b \in BoundChoices, XGroupCreate(n, b)
    PROVE  PendingRead' /\ Forward
<1>1. \A k \in Names : group[k].exists => group'[k] = group[k]
  BY DEF XGroupCreate, TypeOK
<1>2. \A k \in Names :
        \/ group'[k] = group[k]
        \/ group'[k].pel = {} /\ group'[k].start = StartId(b) /\ group'[k].last = StartId(b)
  BY DEF XGroupCreate, TypeOK
<1>i. StartId(b) \in Int
  BY BoundsAssumption DEF StartId, TypeOK
<1>3. PendingRead'
  BY <1>2, <1>i DEF PendingRead
<1>4. Forward
  BY <1>1 DEF Forward, TypeOK, Group
<1>5. QED BY <1>3, <1>4

LEMMA AckOrder ==
    ASSUME TypeOK, PendingRead, NEW n, NEW m, XAck(n, m)
    PROVE  PendingRead' /\ Forward
<1>1. \A k \in Names : /\ group'[k].last = group[k].last /\ group'[k].start = group[k].start
                       /\ group'[k].pel \subseteq group[k].pel
  BY DEF XAck, TypeOK, Group
<1>2. QED BY <1>1 DEF PendingRead, Forward, TypeOK, Group

LEMMA SameOrder ==
    ASSUME TypeOK, PendingRead, UNCHANGED group
    PROVE  PendingRead' /\ Forward
BY DEF PendingRead, Forward, TypeOK, Group

LEMMA ReadOrder ==
    ASSUME TypeOK, PendingRead, NEW s \in Subs, sub[s].pc # "none",
           NEW m \in ToRead(s), XReadGroup(s, m)
    PROVE  /\ PendingRead' /\ Forward
           /\ m <= group'[sub[s].owner].last /\ group[sub[s].owner].start < m
           /\ sub[s].pending => m > sub[s].cursor
           /\ ~sub[s].pending => m > group[sub[s].owner].last
<1>0. m \in Nat
  BY ToReadType, Bounds
<1>1. PICK n \in Names : n = sub[s].owner
  BY SubFields DEF Coherent
<1>2. /\ group[n] \in Group /\ group[n].last \in Nat /\ group[n].start \in Nat
      /\ group[n].start <= group[n].last
  BY DEF TypeOK, Group, PendingRead
<1>3. CASE sub[s].pending
  <2>1. group' = group /\ m > sub[s].cursor /\ <<inst, m>> \in group[n].pel
    BY <1>1, <1>3 DEF XReadGroup, ToRead, LeastOf, Pending
  <2>2. group[n].start < <<inst, m>>[2] /\ <<inst, m>>[2] <= group[n].last
    BY <2>1 DEF PendingRead
  <2>3. QED BY <1>1, <1>3, <2>1, <2>2, SameOrder
<1>4. CASE ~sub[s].pending
  <2>1. m > group[n].last
    BY <1>1, <1>4 DEF ToRead, LeastOf, Unread
  <2>2. /\ group'[n].last = m /\ group'[n].pel = group[n].pel \cup {<<inst, m>>}
        /\ group'[n].start = group[n].start
        /\ \A k \in Names : k # n => group'[k] = group[k]
    BY <1>1, <1>2, <1>4 DEF XReadGroup, PelAfterRead, TypeOK, Group
  <2>3. \A p \in group'[n].pel : group[n].start < p[2] /\ p[2] <= m
    <3>1. ASSUME NEW p \in group[n].pel
          PROVE  group[n].start < p[2] /\ p[2] <= m
      <4>1. group[n].start < p[2] /\ p[2] <= group[n].last /\ p[2] \in Nat
        BY <1>2, Bounds DEF PendingRead, Group
      <4>2. QED BY <1>0, <1>2, <2>1, <4>1
    <3>2. group[n].start < <<inst, m>>[2] /\ <<inst, m>>[2] <= m
      BY <1>0, <1>2, <2>1
    <3>3. QED BY <2>2, <3>1, <3>2
  <2>4. PendingRead'
    BY <1>0, <1>2, <2>1, <2>2, <2>3 DEF PendingRead
  <2>5. Forward
    BY <1>0, <1>2, <2>1, <2>2 DEF Forward, TypeOK, Group
  <2>6. QED BY <1>0, <1>1, <1>2, <1>4, <2>1, <2>2, <2>4, <2>5
<1>5. QED BY <1>3, <1>4

\* A step of the loop keeps the entries in order.
LEMMA LoopOrder ==
    ASSUME TypeOK, TypeOK', Backed, PendingRead, LoopsOrdered,
           NEW s \in Subs, LoopStep(s) \/ WatchDone(s)
    PROVE  PendingRead' /\ LoopsOrdered'
<1> DEFINE x == sub[s]
           last == group[x.owner].last
           Fields(r) == /\ r.owner = x.owner
                        /\ r.seen = x.seen /\ r.cursor = x.cursor /\ r.msg = x.msg
<1>0. /\ x \in Subscription /\ Moved(s)
      /\ x.seen \in SUBSET Nat /\ x.msg \in Nat /\ x.cursor \in Nat
  BY SubFields, OrderNumbers, LoopMoves
<1>1. ASSUME NEW r, SetSub(s, r), r.owner = x.owner, PendingRead', Forward,
             r.pc # "none" => InOrder(r, group'[x.owner].last)
      PROVE  PendingRead' /\ LoopsOrdered'
  <2>1. sub'[s] = r /\ \A t \in Subs : t # s => sub'[t] = sub[t]
    BY <1>1, SetSubValue
  <2>2. QED BY <1>1, <2>1, OrderedFrame
<1>2. CASE WatchDone(s)
  <2> DEFINE r == [x EXCEPT !.watching = FALSE, !.exitLoop = TRUE]
  <2>1. SetSub(s, r) /\ UNCHANGED group
    BY <1>2 DEF WatchDone
  <2>2. /\ r.owner = x.owner /\ r.pc = x.pc /\ r.seen = x.seen /\ r.msg = x.msg
        /\ r.cursor = x.cursor /\ r.pending = x.pending
    BY <1>0 DEF Subscription
  <2> HIDE DEF r
  <2>3. r.pc # "none" => InOrder(r, group'[x.owner].last)
    BY <2>1, <2>2 DEF LoopsOrdered, InOrder
  <2>4. QED BY <1>1, <2>1, <2>2, <2>3, SameOrder
<1>live. ASSUME LoopStep(s)
      PROVE  x.pc \in LivePcs /\ x.owner \in Names /\ InOrder(x, last) /\ last \in Nat
  <2>1. x.pc \in LivePcs
    BY <1>live DEF LoopStep, LoopExit, IssueRead, ReadOne, ReadLost, ReadNothing,
       HandleInvalid, HandleExceeded, HandleDispatch, LivePcs
  <2>2. x.pc # "none" /\ x.owner \in Names
    BY <2>1, SubFields DEF LivePcs, Coherent
  <2>3. QED BY <2>1, <2>2, OrderNumbers DEF LoopsOrdered
<1>back. ASSUME LoopStep(s), NEW r, SetSub(s, r), r.owner = x.owner, r.pc # "handle",
             (r.seen = x.seen /\ r.cursor = x.cursor) \/ r.seen = {},
             r.pending = x.pending \/ r.pending = FALSE,
             PendingRead', Forward
      PROVE  PendingRead' /\ LoopsOrdered'
  <2>1. /\ x.owner \in Names /\ InOrder(x, last) /\ last \in Nat /\ x.pc # "none"
        /\ group'[x.owner].last \in Nat /\ last <= group'[x.owner].last
    <3>1. x.owner \in Names /\ InOrder(x, last) /\ last \in Nat /\ x.pc # "none"
      BY <1>live, <1>back DEF LivePcs
    <3>2. QED BY <1>back, <3>1 DEF TypeOK, Group, Backed, Forward
  <2>2. InOrder(r, group'[x.owner].last)
    BY <1>0, <1>back, <2>1 DEF InOrder
  <2>3. QED BY <1>1, <1>back, <2>2
<1>3. CASE LoopExit(s)
  <2> DEFINE r == [x EXCEPT !.pc = "stopped", !.pending = FALSE,
                            !.cursor = 0, !.seen = {}]
  <2>1. SetSub(s, r) /\ UNCHANGED group /\ LoopStep(s)
    BY <1>3 DEF LoopExit, LoopStep
  <2>2. r.owner = x.owner /\ r.pc # "handle" /\ r.seen = {} /\ r.pending = FALSE
    BY <1>0 DEF Subscription
  <2> HIDE DEF r
  <2>3. QED BY <1>back, <2>1, <2>2, SameOrder
<1>4. CASE IssueRead(s)
  <2> DEFINE r == [x EXCEPT !.pc = "block"]
  <2>1. SetSub(s, r) /\ UNCHANGED group /\ LoopStep(s)
    BY <1>4 DEF IssueRead, LoopStep
  <2>2. /\ r.owner = x.owner /\ r.pc # "handle" /\ r.seen = x.seen /\ r.cursor = x.cursor
        /\ r.pending = x.pending
    BY <1>0 DEF Subscription
  <2> HIDE DEF r
  <2>3. QED BY <1>back, <2>1, <2>2, SameOrder
<1>5. CASE ReadLost(s)
  <2> DEFINE r == [x EXCEPT !.pc = "check"]
  <2>1. SetSub(s, r) /\ LoopStep(s) /\ x.pc # "none"
    BY <1>5 DEF ReadLost, LoopStep
  <2>2. PendingRead' /\ Forward
    BY <1>5, <2>1, ReadOrder DEF ReadLost
  <2>3. /\ r.owner = x.owner /\ r.pc # "handle" /\ r.seen = x.seen /\ r.cursor = x.cursor
        /\ r.pending = x.pending
    BY <1>0 DEF Subscription
  <2> HIDE DEF r
  <2>4. QED BY <1>back, <2>1, <2>2, <2>3
<1>6. CASE ReadNothing(s)
  <2> DEFINE r == [x EXCEPT !.pc = "check"]
             q == [x EXCEPT !.pc = "check", !.pending = FALSE]
  <2>1. (SetSub(s, r) \/ SetSub(s, q)) /\ UNCHANGED group /\ LoopStep(s)
    BY <1>6 DEF ReadNothing, LoopStep
  <2>2. /\ r.owner = x.owner /\ r.pc # "handle" /\ r.seen = x.seen /\ r.cursor = x.cursor
        /\ r.pending = x.pending
        /\ q.owner = x.owner /\ q.pc # "handle" /\ q.seen = x.seen /\ q.cursor = x.cursor
        /\ q.pending = FALSE
    BY <1>0 DEF Subscription
  <2> HIDE DEF r, q
  <2>3. QED BY <1>back, <2>1, <2>2, SameOrder
<1>7. CASE HandleInvalid(s)
  <2> DEFINE r == [x EXCEPT !.pc = "check", !.msg = 0]
  <2>1. SetSub(s, r) /\ LoopStep(s)
    BY <1>7 DEF HandleInvalid, LoopStep
  <2>2. PendingRead' /\ Forward
    BY <1>7, SameOrder, AckOrder DEF HandleInvalid
  <2>3. /\ r.owner = x.owner /\ r.pc # "handle" /\ r.seen = x.seen /\ r.cursor = x.cursor
        /\ r.pending = x.pending
    BY <1>0 DEF Subscription
  <2> HIDE DEF r
  <2>4. QED BY <1>back, <2>1, <2>2, <2>3
<1>8. CASE HandleExceeded(s)
  <2> DEFINE r == [x EXCEPT !.pc = "check", !.msg = 0,
                            !.exitLoop = TRUE, !.complete = TRUE]
  <2>1. SetSub(s, r) /\ UNCHANGED group /\ LoopStep(s)
    BY <1>8 DEF HandleExceeded, LoopStep
  <2>2. /\ r.owner = x.owner /\ r.pc # "handle" /\ r.seen = x.seen /\ r.cursor = x.cursor
        /\ r.pending = x.pending
    BY <1>0 DEF Subscription
  <2> HIDE DEF r
  <2>3. QED BY <1>back, <2>1, <2>2, SameOrder
<1>9. CASE HandleDispatch(s)
  <2> DEFINE r == [x EXCEPT !.pc = "check", !.msg = 0,
                            !.exitLoop = ExitLoopAfterCheck(s),
                            !.cursor = CursorAfter(s),
                            !.running = @ \cup {x.msg}, !.seen = @ \cup {x.msg}]
  <2>1. SetSub(s, r) /\ UNCHANGED group /\ LoopStep(s) /\ x.pc = "handle"
    BY <1>9 DEF HandleDispatch, LoopStep
  <2>2. /\ r.owner = x.owner /\ r.pc = "check" /\ r.seen = x.seen \cup {x.msg}
        /\ r.cursor = CursorAfter(s) /\ r.pending = x.pending
    BY <1>0 DEF Subscription
  <2> HIDE DEF r
  <2>3. InOrder(x, last) /\ last \in Nat /\ group'[x.owner].last = last
    BY <1>live, <2>1
  <2>4. InOrder(r, last)
    BY <1>0, <2>1, <2>2, <2>3 DEF InOrder, CursorAfter
  <2>5. QED BY <1>1, <2>1, <2>2, <2>3, <2>4, SameOrder
<1>10. CASE ReadOne(s)
  <2>1. PICK m \in ToRead(s) :
          /\ XReadGroup(s, m)
          /\ SetSub(s, [x EXCEPT !.pc = "handle", !.msg = m,
                                 !.valid = m \notin bad /\ m > trimmed])
    BY <1>10 DEF ReadOne
  <2> DEFINE v == m \notin bad /\ m > trimmed
             r == [x EXCEPT !.pc = "handle", !.msg = m, !.valid = v]
  <2>2. SetSub(s, r) /\ LoopStep(s) /\ x.pc # "none"
    BY <1>10, <2>1 DEF ReadOne, LoopStep
  <2> HIDE DEF v
  <2>3. /\ r.owner = x.owner /\ r.msg = m /\ r.seen = x.seen /\ r.cursor = x.cursor
        /\ r.pending = x.pending
    BY <1>0 DEF Subscription
  <2> HIDE DEF r
  <2>4. /\ PendingRead' /\ Forward /\ m <= group'[x.owner].last
        /\ x.pending => m > x.cursor
        /\ ~x.pending => m > last
    BY <2>1, <2>2, ReadOrder
  <2>5. /\ x.owner \in Names /\ InOrder(x, last) /\ last \in Nat
        /\ group'[x.owner].last \in Nat /\ last <= group'[x.owner].last /\ m \in Nat
    <3>1. x.owner \in Names /\ InOrder(x, last) /\ last \in Nat
      BY <1>live, <2>2
    <3>2. m \in Nat
      BY ToReadType, Bounds
    <3>3. QED BY <2>2, <2>4, <3>1, <3>2 DEF TypeOK, Group, Backed, Forward
  <2>6. \A e \in x.seen : e < m
    BY <1>0, <2>4, <2>5 DEF InOrder
  <2>7. InOrder(r, group'[x.owner].last)
    BY <1>0, <2>3, <2>4, <2>5, <2>6 DEF InOrder
  <2>8. QED BY <1>1, <2>2, <2>3, <2>4, <2>7
<1>11. QED
  BY <1>2, <1>3, <1>4, <1>5, <1>6, <1>7, <1>8, <1>9, <1>10 DEF LoopStep

\* A step that changes nothing of this in a subscription leaves it in order.
LEMMA KeptOrder ==
    ASSUME TypeOK, TypeOK', Backed, LoopsOrdered, Forward, NEW s \in Subs,
           \A t \in Subs : t # s => sub'[t] = sub[t],
           sub'[s].owner = sub[s].owner, sub'[s].pc = sub[s].pc,
           sub'[s].pending = sub[s].pending, sub'[s].cursor = sub[s].cursor,
           sub'[s].msg = sub[s].msg, sub'[s].seen = sub[s].seen
    PROVE  LoopsOrdered'
<1>1. ASSUME sub'[s].pc # "none"
      PROVE  InOrder(sub'[s], group'[sub'[s].owner].last)
  <2>1. sub[s].owner \in Names /\ InOrder(sub[s], group[sub[s].owner].last)
    BY <1>1, SubFields DEF LoopsOrdered, Coherent
  <2>2. /\ group[sub[s].owner].last \in Nat /\ group'[sub[s].owner].last \in Nat
        /\ group[sub[s].owner].last <= group'[sub[s].owner].last
    BY <1>1, <2>1 DEF TypeOK, Backed, Group, Forward
  <2>3. sub[s].seen \in SUBSET Nat /\ sub[s].msg \in Nat
    BY OrderNumbers
  <2>4. QED BY <2>1, <2>2, <2>3 DEF InOrder
<1>2. QED BY <1>1, OrderedFrame

LEMMA DispatchOrder ==
    ASSUME TypeOK, TypeOK', Backed, PendingRead, LoopsOrdered,
           NEW s \in Subs, NEW m \in Ids, DispatchStep(s, m)
    PROVE  PendingRead' /\ LoopsOrdered'
<1> DEFINE r == [sub[s] EXCEPT !.running = @ \ {m}, !.returned = @ \cup {m}]
           q == [sub[s] EXCEPT !.returned = @ \ {m}]
<1>1. (SetSub(s, r) \/ SetSub(s, q)) /\ (UNCHANGED group \/ XAck(sub[s].owner, m))
  BY DEF DispatchStep, DispatchReturn, Ack, AckLost
<1>2. /\ r.owner = sub[s].owner /\ r.pc = sub[s].pc /\ r.pending = sub[s].pending
      /\ r.cursor = sub[s].cursor /\ r.msg = sub[s].msg /\ r.seen = sub[s].seen
      /\ q.owner = sub[s].owner /\ q.pc = sub[s].pc /\ q.pending = sub[s].pending
      /\ q.cursor = sub[s].cursor /\ q.msg = sub[s].msg /\ q.seen = sub[s].seen
  BY SubFields DEF Subscription
<1> HIDE DEF r, q
<1>3. /\ \A t \in Subs : t # s => sub'[t] = sub[t]
      /\ sub'[s] = r \/ sub'[s] = q
  BY <1>1, SetSubValue
<1>4. PendingRead' /\ Forward
  BY <1>1, SameOrder, AckOrder
<1>5. QED BY <1>2, <1>3, <1>4, KeptOrder

LEMMA CancelOrder ==
    ASSUME TypeOK, TypeOK', Backed, PendingRead, LoopsOrdered,
           NEW n \in Names, subs[n] \in Subs, CancelAndWait(n)
    PROVE  PendingRead' /\ LoopsOrdered'
<1>1. PICK s \in Subs : s = subs[n]
  OBVIOUS
<1>2. sub[s] \in Subscription /\ sub' = [sub EXCEPT ![s].cancelled = TRUE]
      /\ sub \in [Subs -> Subscription]
  BY <1>1 DEF CancelAndWait, TypeOK
<1>3. /\ \A t \in Subs : t # s => sub'[t] = sub[t]
      /\ sub'[s].owner = sub[s].owner /\ sub'[s].pc = sub[s].pc
      /\ sub'[s].pending = sub[s].pending /\ sub'[s].cursor = sub[s].cursor
      /\ sub'[s].msg = sub[s].msg /\ sub'[s].seen = sub[s].seen
  BY <1>2 DEF Subscription
<1>4. PendingRead' /\ Forward
  BY SameOrder DEF CancelAndWait
<1>5. QED BY <1>3, <1>4, KeptOrder

LEMMA SubscribeOrder ==
    ASSUME TypeOK, TypeOK', Backed, PendingRead, LoopsOrdered,
           NEW n \in Names, NEW b \in BoundChoices, Subscribe(n, b)
    PROVE  PendingRead' /\ LoopsOrdered'
<1>1. PICK s \in Subs : sub' = [sub EXCEPT ![s] = NewSub(n, b)]
  BY DEF Subscribe
<1>2. sub'[s] = NewSub(n, b) /\ \A t \in Subs : t # s => sub'[t] = sub[t]
  BY <1>1 DEF TypeOK
<1>3. NewSub(n, b).seen = {} /\ NewSub(n, b).pc = "check"
  BY DEF NewSub, NoSub
<1>4. PendingRead' /\ Forward
  BY CreateOrder DEF Subscribe
<1>5. InOrder(sub'[s], group'[sub'[s].owner].last)
  BY <1>2, <1>3 DEF InOrder
<1>6. QED BY <1>2, <1>4, <1>5, OrderedFrame

-----------------------------------------------------------------------------
LEMMA InitSInv == Init => SInv
<1> SUFFICES ASSUME Init PROVE SInv
  OBVIOUS
<1>1. \A n \in Names : group[n].pel = {} /\ group[n].start = 0 /\ group[n].last = 0
  BY DEF Init, NoGroup
<1>2. \A s \in Subs : sub[s].pc = "none"
  BY DEF Init, NoSub
<1>3. QED BY <1>1, <1>2, InitCInv DEF SInv, PendingRead, LoopsOrdered

LEMMA NextSInv == SInv /\ [Next]_vars => SInv'
<1> SUFFICES ASSUME SInv, [Next]_vars PROVE PendingRead' /\ LoopsOrdered'
  BY NextCInv DEF SInv
<1>t. TypeOK /\ TypeOK' /\ Backed /\ PendingRead /\ LoopsOrdered
  BY NextCInv DEF SInv, CInv, IInv
<1>1. ASSUME UNCHANGED <<group, sub>>
      PROVE  PendingRead' /\ LoopsOrdered'
  BY <1>t, <1>1 DEF PendingRead, LoopsOrdered
<1>2. CASE Produce \/ ForeignAdd
  BY <1>1, <1>2 DEF Produce, ForeignAdd
<1>3. ASSUME NEW n \in Names, ManagerStep(n)
      PROVE  PendingRead' /\ LoopsOrdered'
  <2>1. ASSUME NEW b \in BoundChoices, Subscribe(n, b)
        PROVE  PendingRead' /\ LoopsOrdered'
    BY <1>t, <2>1, SubscribeOrder
  <2>2. ASSUME NEW b \in BoundChoices, SubscribeReplyLost(n, b)
        PROVE  PendingRead' /\ LoopsOrdered'
    <3>1. UNCHANGED sub /\ XGroupCreate(n, b)
      BY <2>2 DEF SubscribeReplyLost
    <3>2. PendingRead' /\ Forward
      BY <1>t, <3>1, CreateOrder
    <3>3. \A s \in Subs : sub[s].pc # "none" => sub[s].owner \in Names
      BY <1>t DEF TypeOK, Coherent
    <3>4. \A k \in Names : group[k].exists => group'[k] = group[k]
      BY <1>t, <3>1 DEF XGroupCreate, TypeOK
    <3>5. LoopsOrdered'
      BY <1>t, <3>1, <3>3, <3>4 DEF LoopsOrdered, Backed
    <3>6. QED BY <3>2, <3>5
  <2>3. CASE Unsubscribe(n)
    <3>1. CancelAndWait(n) /\ subs[n] \in Subs
      BY <1>t, <2>3 DEF Unsubscribe, Subscribed, TypeOK
    <3>2. QED BY <1>t, <3>1, CancelOrder
  <2>4. QED BY <1>3, <2>1, <2>2, <2>3 DEF ManagerStep
<1>4. CASE UnsubscribeStopped \/ UnsubscribeTimeout
  <2>1. CASE UnsubscribeStopped
    BY <1>1, <2>1 DEF UnsubscribeStopped
  <2>2. CASE UnsubscribeTimeout
    <3>1. PICK s \in Subs : s = waitFor
      BY <1>t, <2>2 DEF UnsubscribeTimeout, TypeOK
    <3>2. sub' = [sub EXCEPT ![s].abandoned = TRUE] /\ sub[s] \in Subscription
          /\ sub \in [Subs -> Subscription] /\ UNCHANGED group
      BY <1>t, <2>2, <3>1 DEF UnsubscribeTimeout, TypeOK
    <3>3. /\ \A t \in Subs : t # s => sub'[t] = sub[t]
          /\ sub'[s].owner = sub[s].owner /\ sub'[s].pc = sub[s].pc
          /\ sub'[s].pending = sub[s].pending /\ sub'[s].cursor = sub[s].cursor
          /\ sub'[s].msg = sub[s].msg /\ sub'[s].seen = sub[s].seen
      BY <3>2 DEF Subscription
    <3>4. PendingRead' /\ Forward
      BY <1>t, <3>2, SameOrder
    <3>5. QED BY <1>t, <3>3, <3>4, KeptOrder
  <2>3. QED BY <1>4, <2>1, <2>2
<1>5. CASE StartSteps \/ Disconnect
  <2>1. ASSUME NEW n \in Names, Drain(n)
        PROVE  PendingRead' /\ LoopsOrdered'
    <3>1. CancelAndWait(n) /\ subs[n] \in Subs
      BY <1>t, <2>1 DEF Drain, Subscribed, TypeOK
    <3>2. QED BY <1>t, <3>1, CancelOrder
  <2>2. CASE SetContext \/ Disconnect \/ LockForDrain \/ CloseClient
    BY <1>1, <2>2 DEF SetContext, Disconnect, LockForDrain, CloseClient, StartStep
  <2>3. QED BY <1>5, <2>1, <2>2 DEF StartSteps
<1>6. ASSUME NEW s \in Subs, WatchDone(s) \/ LoopStep(s)
      PROVE  PendingRead' /\ LoopsOrdered'
  BY <1>t, <1>6, LoopOrder
<1>7. ASSUME NEW s \in Subs, NEW m \in Ids, DispatchStep(s, m)
      PROVE  PendingRead' /\ LoopsOrdered'
  BY <1>t, <1>7, DispatchOrder
<1>8. CASE Crash
  BY <1>t, <1>8 DEF Crash, ProcessEnds, PendingRead, LoopsOrdered, NoSub
<1>9. CASE Restart
  BY <1>1, <1>9 DEF Restart
<1>10. CASE UNCHANGED vars
  BY <1>1, <1>10 DEF vars
<1>11. QED
  BY <1>2, <1>3, <1>4, <1>5, <1>6, <1>7, <1>8, <1>9, <1>10 DEF Next

-----------------------------------------------------------------------------
(* What a step dispatches *)

NewRunning(s) == (sub'[s].running \ sub[s].running) \cap sub[s].seen

LEMMA LoopNew ==
    ASSUME TypeOK, LoopsOrdered, NEW s \in Subs, LoopStep(s) \/ WatchDone(s)
    PROVE  \A t \in Subs : NewRunning(t) = {}
<1> DEFINE x == sub[s]
<1>0. x \in Subscription /\ x.seen \in SUBSET Nat /\ x.msg \in Nat
  BY SubFields, OrderNumbers
<1>1. ASSUME NEW r, SetSub(s, r), r.running \cap x.seen \subseteq x.running
      PROVE  \A t \in Subs : NewRunning(t) = {}
  BY <1>1, SetSubValue DEF NewRunning
<1>2. CASE WatchDone(s)
  BY <1>0, <1>1, <1>2 DEF WatchDone, Subscription
<1>3. CASE LoopExit(s) \/ IssueRead(s)
  <2> DEFINE r == [x EXCEPT !.pc = "stopped", !.pending = FALSE,
                            !.cursor = 0, !.seen = {}]
             q == [x EXCEPT !.pc = "block"]
  <2>1. r.running = x.running /\ q.running = x.running
    BY <1>0 DEF Subscription
  <2>2. SetSub(s, r) \/ SetSub(s, q)
    BY <1>3 DEF LoopExit, IssueRead
  <2> HIDE DEF r, q
  <2>3. QED BY <1>1, <2>1, <2>2
<1>4. CASE ReadOne(s)
  <2>1. PICK m \in ToRead(s) :
          SetSub(s, [x EXCEPT !.pc = "handle", !.msg = m,
                              !.valid = m \notin bad /\ m > trimmed])
    BY <1>4 DEF ReadOne
  <2> DEFINE v == m \notin bad /\ m > trimmed
             r == [x EXCEPT !.pc = "handle", !.msg = m, !.valid = v]
  <2>2. SetSub(s, r)
    BY <2>1
  <2> HIDE DEF v
  <2>3. r.running = x.running
    BY <1>0 DEF Subscription
  <2> HIDE DEF r
  <2>4. QED BY <1>1, <2>2, <2>3
<1>5. CASE ReadLost(s) \/ ReadNothing(s)
  <2> DEFINE r == [x EXCEPT !.pc = "check"]
             q == [x EXCEPT !.pc = "check", !.pending = FALSE]
  <2>1. r.running = x.running /\ q.running = x.running
    BY <1>0 DEF Subscription
  <2>2. SetSub(s, r) \/ SetSub(s, q)
    BY <1>5 DEF ReadLost, ReadNothing
  <2> HIDE DEF r, q
  <2>3. QED BY <1>1, <2>1, <2>2
<1>6. CASE HandleInvalid(s) \/ HandleExceeded(s)
  <2> DEFINE r == [x EXCEPT !.pc = "check", !.msg = 0]
             q == [x EXCEPT !.pc = "check", !.msg = 0,
                            !.exitLoop = TRUE, !.complete = TRUE]
  <2>1. r.running = x.running /\ q.running = x.running
    BY <1>0 DEF Subscription
  <2>2. SetSub(s, r) \/ SetSub(s, q)
    BY <1>6 DEF HandleInvalid, HandleExceeded
  <2> HIDE DEF r, q
  <2>3. QED BY <1>1, <2>1, <2>2
\* The message in hand comes after all that was dispatched.
<1>7. CASE HandleDispatch(s)
  <2> DEFINE r == [x EXCEPT !.pc = "check", !.msg = 0,
                            !.exitLoop = ExitLoopAfterCheck(s),
                            !.cursor = CursorAfter(s),
                            !.running = @ \cup {x.msg}, !.seen = @ \cup {x.msg}]
  <2>1. SetSub(s, r) /\ x.pc = "handle"
    BY <1>7 DEF HandleDispatch
  <2>2. \A e \in x.seen : e < x.msg
    BY <2>1 DEF LoopsOrdered, InOrder
  <2>3. x.msg \notin x.seen
    BY <1>0, <2>2
  <2>4. r.running = x.running \cup {x.msg}
    BY <1>0 DEF Subscription
  <2> HIDE DEF r
  <2>5. QED BY <1>1, <2>1, <2>3, <2>4
<1>8. QED BY <1>2, <1>3, <1>4, <1>5, <1>6, <1>7 DEF LoopStep

LEMMA StepNew == SInv /\ [Next]_vars => \A s \in Subs : NewRunning(s) = {}
<1> SUFFICES ASSUME SInv, [Next]_vars PROVE \A s \in Subs : NewRunning(s) = {}
  OBVIOUS
<1>t. TypeOK /\ LoopsOrdered /\ sub \in [Subs -> Subscription]
  BY DEF SInv, CInv, IInv, TypeOK
<1>1. ASSUME \A s \in Subs : sub'[s].running \subseteq sub[s].running
      PROVE  \A s \in Subs : NewRunning(s) = {}
  BY <1>1 DEF NewRunning
<1>2. ASSUME UNCHANGED sub
      PROVE  \A s \in Subs : NewRunning(s) = {}
  BY <1>1, <1>2
<1>3. ASSUME NEW n \in Names, subs[n] \in Subs, CancelAndWait(n)
      PROVE  \A s \in Subs : NewRunning(s) = {}
  <2>1. sub' = [sub EXCEPT ![subs[n]].cancelled = TRUE] /\ sub[subs[n]] \in Subscription
    BY <1>t, <1>3 DEF CancelAndWait
  <2>2. \A s \in Subs : sub'[s].running = sub[s].running
    BY <1>t, <1>3, <2>1 DEF Subscription
  <2>3. QED BY <1>1, <2>2
<1>4. ASSUME NEW n \in Names, ManagerStep(n)
      PROVE  \A s \in Subs : NewRunning(s) = {}
  <2>1. ASSUME NEW b \in BoundChoices, Subscribe(n, b)
        PROVE  \A s \in Subs : NewRunning(s) = {}
    <3>1. PICK s \in Subs : sub' = [sub EXCEPT ![s] = NewSub(n, b)]
      BY <2>1 DEF Subscribe
    <3>2. NewSub(n, b).running = {}
      BY DEF NewSub, NoSub
    <3>3. \A t \in Subs : sub'[t] = sub[t] \/ sub'[t].running = {}
      BY <1>t, <3>1, <3>2
    <3>4. QED BY <1>1, <3>3
  <2>2. ASSUME NEW b \in BoundChoices, SubscribeReplyLost(n, b)
        PROVE  \A s \in Subs : NewRunning(s) = {}
    BY <1>2, <2>2 DEF SubscribeReplyLost
  <2>3. CASE Unsubscribe(n)
    <3>1. CancelAndWait(n) /\ subs[n] \in Subs
      BY <1>t, <2>3 DEF Unsubscribe, Subscribed, TypeOK
    <3>2. QED BY <1>3, <3>1
  <2>4. QED BY <1>4, <2>1, <2>2, <2>3 DEF ManagerStep
<1>5. CASE UnsubscribeTimeout
  <2>1. waitFor \in Subs /\ sub' = [sub EXCEPT ![waitFor].abandoned = TRUE]
    BY <1>t, <1>5 DEF UnsubscribeTimeout, TypeOK
  <2>2. \A s \in Subs : sub'[s].running = sub[s].running
    BY <1>t, <2>1 DEF Subscription
  <2>3. QED BY <1>1, <2>2
<1>6. CASE StartSteps \/ Disconnect
  <2>1. ASSUME NEW n \in Names, Drain(n)
        PROVE  \A s \in Subs : NewRunning(s) = {}
    <3>1. CancelAndWait(n) /\ subs[n] \in Subs
      BY <1>t, <2>1 DEF Drain, Subscribed, TypeOK
    <3>2. QED BY <1>3, <3>1
  <2>2. CASE SetContext \/ Disconnect \/ LockForDrain \/ CloseClient
    BY <1>2, <2>2 DEF SetContext, Disconnect, LockForDrain, CloseClient, StartStep
  <2>3. QED BY <1>6, <2>1, <2>2 DEF StartSteps
<1>7. ASSUME NEW s \in Subs, WatchDone(s) \/ LoopStep(s)
      PROVE  \A t \in Subs : NewRunning(t) = {}
  BY <1>t, <1>7, LoopNew
<1>8. ASSUME NEW s \in Subs, NEW m \in Ids, DispatchStep(s, m)
      PROVE  \A t \in Subs : NewRunning(t) = {}
  <2> DEFINE r == [sub[s] EXCEPT !.running = @ \ {m}, !.returned = @ \cup {m}]
             q == [sub[s] EXCEPT !.returned = @ \ {m}]
  <2>1. SetSub(s, r) \/ SetSub(s, q)
    BY <1>8 DEF DispatchStep, DispatchReturn, Ack, AckLost
  <2>2. r.running \subseteq sub[s].running /\ q.running = sub[s].running
    BY <1>t DEF Subscription
  <2> HIDE DEF r, q
  <2>3. \A t \in Subs : sub'[t].running \subseteq sub[t].running
    BY <1>t, <2>1, <2>2, SetSubValue
  <2>4. QED BY <1>1, <2>3
<1>9. CASE Crash
  BY <1>1, <1>9 DEF Crash, ProcessEnds, NoSub
<1>10. CASE Produce \/ ForeignAdd \/ UnsubscribeStopped \/ Restart \/ UNCHANGED vars
  BY <1>2, <1>10 DEF Produce, ForeignAdd, UnsubscribeStopped, Restart, vars
<1>11. QED
  BY <1>4, <1>5, <1>6, <1>7, <1>8, <1>9, <1>10 DEF Next

\* A reading loop never dispatches an entry twice, although the pending entries
\* it starts with are acknowledged only when their dispatch returns: they are
\* read in order, after the cursor, and the new ones come after them
\* (subscription.go:99-120, :170-187).
THEOREM NoDuplicate == Spec => NoDuplicateInSession
<1>1. SInv /\ [Next]_vars =>
        [\A s \in Subs : (sub'[s].running \ sub[s].running) \cap sub[s].seen = {}]_vars
  BY StepNew DEF NewRunning
<1>2. QED BY <1>1, InitSInv, NextSInv, PTL DEF Spec, NoDuplicateInSession
-----------------------------------------------------------------------------
(* The end bound *)

\* The comparison of the texts goes wrong only where the IDs differ in their
\* number of digits.
LEMMA TextOrder ==
    ASSUME NEW m \in Nat, NEW end \in Nat
    PROVE  /\ ~Exceeds(m, end) => m < end \/ Wider(SeqBase + m, SeqBase + end)
           /\ Exceeds(m, end) => m >= end \/ Wider(SeqBase + end, SeqBase + m)
<1> DEFINE p == SeqBase + m
           q == SeqBase + end
<1>1. p \in Nat /\ q \in Nat /\ (p >= q <=> m >= end)
  BY BoundsAssumption
<1>2. Wider(p, q) => p > q
  BY <1>1 DEF Wider
<1>3. Wider(q, p) => q > p
  BY <1>1 DEF Wider
<1> HIDE DEF p, q
<1>4. ~TextGE(p, q) => p < q \/ Wider(p, q)
  BY <1>1, <1>3 DEF TextGE, SameWidth
<1>5. TextGE(p, q) => p >= q \/ Wider(q, p)
  BY <1>1, <1>2 DEF TextGE
<1>6. QED BY <1>1, <1>4, <1>5 DEF Exceeds, p, q

\* A subscription has dispatched nothing at or after its end, unless its ID is
\* longer.
Within(r) ==
    r.end # NoEnd => \A m \in r.seen : m < r.end \/ Wider(SeqBase + m, SeqBase + r.end)

AllWithin == \A s \in Subs : Within(sub[s])

LEMMA NoSubWithin == Within(NoSub)
BY DEF Within, NoSub

LEMMA WithinKept ==
    ASSUME NEW r, NEW q, Within(r), q.end = r.end, q.seen \subseteq r.seen
    PROVE  Within(q)
BY DEF Within

LEMMA DispatchWithin ==
    ASSUME TypeOK, NEW s \in Subs, Within(sub[s]), HandleDispatch(s)
    PROVE  Within(sub'[s])
<1> DEFINE x == sub[s]
           r == [x EXCEPT !.pc = "check", !.msg = 0,
                          !.exitLoop = ExitLoopAfterCheck(s),
                          !.cursor = CursorAfter(s),
                          !.running = @ \cup {x.msg}, !.seen = @ \cup {x.msg}]
<1>0. x \in Subscription /\ x.msg \in Ids
  BY SubFields DEF HandleDispatch, Coherent
<1>1. sub'[s] = r
  BY SetSubValue DEF HandleDispatch
<1>2. r.end = x.end /\ r.seen = x.seen \cup {x.msg} /\ x.end \in Nat /\ x.msg \in Nat
      /\ x.msg <= MaxId
  BY <1>0, Bounds DEF Subscription, Ids
<1>3. ASSUME x.end # NoEnd
      PROVE  x.msg < x.end \/ Wider(SeqBase + x.msg, SeqBase + x.end)
  <2>1. ~Exceeds(x.msg, x.end)
    BY <1>3 DEF HandleDispatch, PastEnd
  <2>2. QED BY <1>2, <2>1, TextOrder
<1> HIDE DEF r
<1>4. QED BY <1>1, <1>2, <1>3 DEF Within

LEMMA LoopWithin ==
    ASSUME TypeOK, NEW s \in Subs, Within(sub[s]),
           WatchDone(s) \/ LoopStep(s) \/ \E m \in Ids : DispatchStep(s, m)
    PROVE  Within(sub'[s])
<1> DEFINE x == sub[s]
<1>0. x \in Subscription
  BY SubFields
<1>1. ASSUME NEW r, SetSub(s, r), r.end = x.end, r.seen \subseteq x.seen
      PROVE  Within(sub'[s])
  BY <1>1, SetSubValue, WithinKept
<1>2. CASE WatchDone(s) \/ IssueRead(s)
  <2> DEFINE r == [x EXCEPT !.watching = FALSE, !.exitLoop = TRUE]
             q == [x EXCEPT !.pc = "block"]
  <2>1. r.end = x.end /\ r.seen = x.seen /\ q.end = x.end /\ q.seen = x.seen
    BY <1>0 DEF Subscription
  <2>2. SetSub(s, r) \/ SetSub(s, q)
    BY <1>2 DEF WatchDone, IssueRead
  <2> HIDE DEF r, q
  <2>3. QED BY <1>1, <2>1, <2>2
<1>3. CASE LoopExit(s)
  <2> DEFINE r == [x EXCEPT !.pc = "stopped", !.pending = FALSE,
                            !.cursor = 0, !.seen = {}]
  <2>1. r.end = x.end /\ r.seen = {}
    BY <1>0 DEF Subscription
  <2>2. SetSub(s, r)
    BY <1>3 DEF LoopExit
  <2> HIDE DEF r
  <2>3. QED BY <1>1, <2>1, <2>2
<1>4. CASE ReadOne(s)
  <2>1. PICK m \in ToRead(s) :
          SetSub(s, [x EXCEPT !.pc = "handle", !.msg = m,
                              !.valid = m \notin bad /\ m > trimmed])
    BY <1>4 DEF ReadOne
  <2> DEFINE v == m \notin bad /\ m > trimmed
             r == [x EXCEPT !.pc = "handle", !.msg = m, !.valid = v]
  <2>2. SetSub(s, r)
    BY <2>1
  <2> HIDE DEF v
  <2>3. r.end = x.end /\ r.seen = x.seen
    BY <1>0 DEF Subscription
  <2> HIDE DEF r
  <2>4. QED BY <1>1, <2>2, <2>3
<1>5. CASE ReadLost(s) \/ ReadNothing(s)
  <2> DEFINE r == [x EXCEPT !.pc = "check"]
             q == [x EXCEPT !.pc = "check", !.pending = FALSE]
  <2>1. r.end = x.end /\ r.seen = x.seen /\ q.end = x.end /\ q.seen = x.seen
    BY <1>0 DEF Subscription
  <2>2. SetSub(s, r) \/ SetSub(s, q)
    BY <1>5 DEF ReadLost, ReadNothing
  <2> HIDE DEF r, q
  <2>3. QED BY <1>1, <2>1, <2>2
<1>6. CASE HandleInvalid(s) \/ HandleExceeded(s)
  <2> DEFINE r == [x EXCEPT !.pc = "check", !.msg = 0]
             q == [x EXCEPT !.pc = "check", !.msg = 0,
                            !.exitLoop = TRUE, !.complete = TRUE]
  <2>1. r.end = x.end /\ r.seen = x.seen /\ q.end = x.end /\ q.seen = x.seen
    BY <1>0 DEF Subscription
  <2>2. SetSub(s, r) \/ SetSub(s, q)
    BY <1>6 DEF HandleInvalid, HandleExceeded
  <2> HIDE DEF r, q
  <2>3. QED BY <1>1, <2>1, <2>2
<1>7. CASE HandleDispatch(s)
  BY <1>7, DispatchWithin
<1>8. ASSUME NEW m \in Ids, DispatchStep(s, m)
      PROVE  Within(sub'[s])
  <2> DEFINE r == [x EXCEPT !.running = @ \ {m}, !.returned = @ \cup {m}]
             q == [x EXCEPT !.returned = @ \ {m}]
  <2>1. r.end = x.end /\ r.seen = x.seen /\ q.end = x.end /\ q.seen = x.seen
    BY <1>0 DEF Subscription
  <2>2. SetSub(s, r) \/ SetSub(s, q)
    BY <1>8 DEF DispatchStep, DispatchReturn, Ack, AckLost
  <2> HIDE DEF r, q
  <2>3. QED BY <1>1, <2>1, <2>2
<1>9. QED BY <1>2, <1>3, <1>4, <1>5, <1>6, <1>7, <1>8 DEF LoopStep

LEMMA StepWithin ==
    ASSUME TypeOK, AllWithin, [Next]_vars
    PROVE  AllWithin'
<1>t. sub \in [Subs -> Subscription]
  BY DEF TypeOK
<1>1. ASSUME UNCHANGED sub
      PROVE  AllWithin'
  BY <1>1 DEF AllWithin, Within
\* One subscription changes.
<1>2. ASSUME NEW s \in Subs, Within(sub'[s]), \A t \in Subs : t # s => sub'[t] = sub[t]
      PROVE  AllWithin'
  <2>1. ASSUME NEW t \in Subs
        PROVE  Within(sub'[t])
    BY <1>2 DEF AllWithin
  <2>2. QED BY <2>1 DEF AllWithin, Within
<1>3. ASSUME NEW s \in Subs, WatchDone(s) \/ LoopStep(s) \/ \E m \in Ids : DispatchStep(s, m)
      PROVE  AllWithin'
  <2>1. Within(sub'[s])
    BY <1>3, LoopWithin DEF AllWithin
  <2>2. Moved(s)
    BY <1>3, LoopMoves, DispatchMovesOn
  <2>3. QED BY <1>2, <2>1, <2>2 DEF Moved
<1>4. ASSUME NEW n \in Names, subs[n] \in Subs, CancelAndWait(n)
      PROVE  AllWithin'
  <2>1. sub' = [sub EXCEPT ![subs[n]].cancelled = TRUE] /\ sub[subs[n]] \in Subscription
    BY <1>t, <1>4 DEF CancelAndWait
  <2>2. /\ sub'[subs[n]].end = sub[subs[n]].end /\ sub'[subs[n]].seen = sub[subs[n]].seen
        /\ \A t \in Subs : t # subs[n] => sub'[t] = sub[t]
    BY <1>t, <1>4, <2>1 DEF Subscription
  <2>3. Within(sub'[subs[n]])
    BY <1>4, <2>2, WithinKept DEF AllWithin
  <2>4. QED BY <1>2, <1>4, <2>2, <2>3
<1>5. ASSUME NEW n \in Names, ManagerStep(n)
      PROVE  AllWithin'
  <2>1. ASSUME NEW b \in BoundChoices, Subscribe(n, b)
        PROVE  AllWithin'
    <3>1. PICK s \in Subs : sub' = [sub EXCEPT ![s] = NewSub(n, b)]
      BY <2>1 DEF Subscribe
    <3>2. NewSub(n, b).seen = {} /\ NewSub(n, b).end = b.end
      BY DEF NewSub, NoSub
    <3>3. Within(NewSub(n, b))
      BY <3>2 DEF Within
    <3>4. QED BY <1>t, <1>2, <3>1, <3>3
  <2>2. ASSUME NEW b \in BoundChoices, SubscribeReplyLost(n, b)
        PROVE  AllWithin'
    BY <1>1, <2>2 DEF SubscribeReplyLost
  <2>3. CASE Unsubscribe(n)
    <3>1. CancelAndWait(n) /\ subs[n] \in Subs
      BY <2>3 DEF Unsubscribe, Subscribed, TypeOK
    <3>2. QED BY <1>4, <3>1
  <2>4. QED BY <1>5, <2>1, <2>2, <2>3 DEF ManagerStep
<1>6. CASE UnsubscribeTimeout
  <2>1. waitFor \in Subs /\ sub' = [sub EXCEPT ![waitFor].abandoned = TRUE]
    BY <1>6 DEF UnsubscribeTimeout, TypeOK
  <2>2. /\ sub'[waitFor].end = sub[waitFor].end /\ sub'[waitFor].seen = sub[waitFor].seen
        /\ \A t \in Subs : t # waitFor => sub'[t] = sub[t]
    BY <1>t, <2>1 DEF Subscription
  <2>3. Within(sub'[waitFor])
    BY <2>1, <2>2, WithinKept DEF AllWithin
  <2>4. QED BY <1>2, <2>1, <2>2, <2>3
<1>7. CASE StartSteps \/ Disconnect
  <2>1. ASSUME NEW n \in Names, Drain(n)
        PROVE  AllWithin'
    <3>1. CancelAndWait(n) /\ subs[n] \in Subs
      BY <2>1 DEF Drain, Subscribed, TypeOK
    <3>2. QED BY <1>4, <3>1
  <2>2. CASE SetContext \/ Disconnect \/ LockForDrain \/ CloseClient
    BY <1>1, <2>2 DEF SetContext, Disconnect, LockForDrain, CloseClient, StartStep
  <2>3. QED BY <1>7, <2>1, <2>2 DEF StartSteps
<1>8. CASE Crash
  <2>1. \A s \in Subs : sub'[s] = NoSub
    BY <1>8 DEF Crash, ProcessEnds
  <2>2. QED BY <2>1, NoSubWithin DEF AllWithin, Within
<1>9. CASE Produce \/ ForeignAdd \/ UnsubscribeStopped \/ Restart \/ UNCHANGED vars
  BY <1>1, <1>9 DEF Produce, ForeignAdd, UnsubscribeStopped, Restart, vars
<1>10. QED
  BY <1>3, <1>5, <1>6, <1>7, <1>8, <1>9 DEF Next

\* A replay dispatches nothing at or after its end, however its loop stops and
\* whatever it reads, but entries whose ID is written with more digits than the
\* end: the IDs are compared as texts (newExceedBounds, subscription.go:33).
THEOREM EndRespected == Spec => []EndBoundRespected
<1> DEFINE J == TypeOK /\ AllWithin
<1>1. Init => J
  <2>1. Init => TypeOK
    BY InitType
  <2>2. Init => AllWithin
    BY NoSubWithin DEF Init, AllWithin
  <2>3. QED BY <2>1, <2>2
<1>2. J /\ [Next]_vars => J'
  BY NextType, StepWithin
<1>3. J => EndBoundRespected
  BY DEF AllWithin, Within, EndBoundRespected
<1> HIDE DEF J
<1>4. QED BY <1>1, <1>2, <1>3, PTL DEF Spec

-----------------------------------------------------------------------------
(* A completed replay *)

\* A set of entries that is not empty has a first one.
LEMMA Least ==
    ASSUME NEW S \in SUBSET Nat, S # {}
    PROVE  \E m \in S : \A k \in S : m <= k
<1> DEFINE R == OpToRel(<, Nat)
<1>1. IsWellFoundedOn(R, Nat)
  BY NatLessThanWellFounded
<1>2. \A x \in S, y \in S : y < x => <<y, x>> \in R
  BY DEF OpToRel
<1> HIDE DEF R
<1>3. PICK x \in S : \A y \in S : ~(<<y, x>> \in R)
  BY <1>1, WFMin
<1>4. ASSUME NEW y \in S
      PROVE  x <= y
  <2>1. ~(y < x)
    BY <1>2, <1>3
  <2>2. QED BY <2>1
<1>5. QED BY <1>4

\* Entry m is no business of loop s.
Beyond(s, m) == BeyondEnd(group[sub[s].owner].start, m, sub[s].end)

LEMMA BeyondStays ==
    ASSUME NEW start \in Nat, NEW m \in Nat, NEW end \in Nat, NEW k \in Nat, m <= k,
           BeyondEnd(start, m, end)
    PROVE  BeyondEnd(start, k, end)
BY DEF BeyondEnd

\* An entry that makes a loop complete.
LEMMA ExceedsBeyond ==
    ASSUME NEW start \in Nat, NEW m \in Nat, NEW end \in Nat, start < m, Exceeds(m, end)
    PROVE  BeyondEnd(start, m, end)
BY TextOrder DEF BeyondEnd

\* Entry m is in the hands of loop t, seen from loop s: t dispatches it, or
\* will, when t is s itself or a loop that overlaps with s.
InHand(s, t, m) ==
    \/ m \in sub[t].running
    \/ sub[t].pc = "handle" /\ m = sub[t].msg /\ (t = s \/ Overlap(s, t))

\* ... or it was left by an overlapping loop beyond that loop's end.
Left(s, t, m) == Overlap(s, t) /\ sub[t].complete /\ Beyond(t, m)

HeldElsewhere(n, m) == \E i \in Instances \ {inst} : <<i, m>> \in group[n].pel

HeldBy(s, m) ==
    \E t \in Subs : sub[t].owner = sub[s].owner /\ (InHand(s, t, m) \/ Left(s, t, m))

Held(s, m) ==
    m \in Settled(sub[s].owner) \/ HeldElsewhere(sub[s].owner, m) \/ HeldBy(s, m)

\* The entries loop s is past: up to its end when it has completed, all that
\* its group was given once it reads new entries, and up to its cursor while
\* it reads the pending ones.
Reached(s, m) ==
    IF sub[s].complete THEN ~Beyond(s, m)
    ELSE /\ Live(s)
         /\ \/ ~sub[s].pending
            \/ sub[s].pc = "handle" /\ m < sub[s].msg
            \/ sub[s].pc # "handle" /\ m <= sub[s].cursor

\* No entry behind a loop is forgotten.
Window ==
    faults = 0 =>
        \A s \in Subs : sub[s].pc # "none" =>
            \A m \in Given(sub[s].owner) : Reached(s, m) => Held(s, m)

\* A subscription in use is not beyond what its group was given, and what it
\* handles comes after its cursor and after the group's start.
TidyOf(x, g) ==
    /\ x.pc # "none" /\ x.cursor <= g.last
    /\ x.complete => BeyondEnd(g.start, g.last, x.end)
    /\ x.pc = "handle" => g.start < x.msg /\ (x.pending => x.cursor < x.msg)

\* A subscription object that was never used is blank, and without a process
\* there is no other.
Tidy ==
    /\ \A s \in Subs :
          \/ sub[s].pc = "none" /\ sub[s] = NoSub
          \/ TidyOf(sub[s], group[sub[s].owner])
    /\ startPc = "down" => \A s \in Subs : sub[s].pc = "none"

\* A group that moves forward keeps its subscriptions tidy.
LEMMA TidyGrows ==
    ASSUME TypeOK, TypeOK', Forward, NEW n \in Names, group[n].exists,
           NEW x \in Subscription, TidyOf(x, group[n])
    PROVE  TidyOf(x, group'[n])
<1>1. /\ group[n].last \in Nat /\ group'[n].last \in Nat /\ group[n].last <= group'[n].last
      /\ group[n].start \in Nat /\ group'[n].start = group[n].start
  BY DEF TypeOK, Group, Forward
<1>2. x.cursor \in Nat /\ x.end \in Nat
  BY Bounds, BoundsAssumption DEF Subscription
<1>3. x.complete => BeyondEnd(group[n].start, group'[n].last, x.end)
  BY <1>1, <1>2, BeyondStays DEF TidyOf
<1>4. QED BY <1>1, <1>2, <1>3 DEF TidyOf

\* What is no business of a loop stays none of it.
LEMMA BeyondKept ==
    ASSUME TypeOK, Backed, Forward, NEW s \in Subs, sub[s].pc # "none",
           sub'[s].owner = sub[s].owner, sub'[s].end = sub[s].end, NEW m
    PROVE  Beyond(s, m)' <=> Beyond(s, m)
<1>1. sub[s].owner \in Names /\ group[sub[s].owner].exists
  BY SubFields DEF Coherent, Backed
<1>2. group'[sub'[s].owner].start = group[sub[s].owner].start
  BY <1>1 DEF Forward
<1>3. BeyondEnd(group'[sub'[s].owner].start, m, sub'[s].end)
         <=> BeyondEnd(group[sub[s].owner].start, m, sub[s].end)
  BY <1>2
<1>4. QED BY <1>3 DEF Beyond

CoverInv == SInv /\ Tracking /\ Tidy /\ Window

LEMMA WindowSuffices == CoverInv => CompleteCoversWindow
<1> SUFFICES ASSUME CoverInv, NEW s \in Subs, sub[s].complete, faults = 0,
                    NEW m \in Given(sub[s].owner), ~Beyond(s, m)
             PROVE  \/ m \in Settled(sub[s].owner)
                    \/ \E i \in Instances \ {inst} : <<i, m>> \in group[sub[s].owner].pel
                    \/ \E t \in Subs :
                          /\ sub[t].owner = sub[s].owner
                          /\ \/ m \in sub[t].running \cup {sub[t].msg}
                             \/ Overlap(s, t) /\ sub[t].complete /\ Beyond(t, m)
  BY DEF CompleteCoversWindow, Beyond
<1>t. TypeOK /\ Tidy /\ Window
  BY DEF CoverInv, SInv, CInv, IInv
<1>1. sub[s].pc # "none"
  BY <1>t DEF Tidy, TidyOf, NoSub
<1>2. Reached(s, m)
  BY DEF Reached
<1>3. Held(s, m)
  BY <1>t, <1>1, <1>2 DEF Window
<1>4. QED BY <1>3 DEF Held, HeldElsewhere, HeldBy, InHand, Left

-----------------------------------------------------------------------------
(* What the steps keep *)

\* What loop t has in hand it keeps, settles or leaves beyond its end.
Handover(t) ==
    /\ sub'[t].owner = sub[t].owner /\ sub'[t].end = sub[t].end
    /\ sub[t].abandoned => sub'[t].abandoned
    /\ sub[t].complete => sub'[t].complete
    /\ \A m \in sub[t].running : m \in sub'[t].running \/ m \in Settled(sub[t].owner)'
    /\ sub[t].pc = "handle" =>
          \/ sub'[t].pc = "handle" /\ sub'[t].msg = sub[t].msg
          \/ sub[t].msg \in sub'[t].running
          \/ sub[t].msg \in Settled(sub[t].owner)'
          \/ sub'[t].complete /\ Beyond(t, sub[t].msg)

\* Entries stay settled, and the pending ones of other instances stay pending
\* or are settled.
Keeping ==
    /\ inst' = inst
    /\ \A n \in Names :
          /\ Settled(n) \subseteq Settled(n)'
          /\ \A p \in group[n].pel : p \in group'[n].pel \/ p[2] \in Settled(n)'

\* Entries held when a step begins are held when it ends, unless it completes
\* the loop before them.
LEMMA HeldKept ==
    ASSUME TypeOK, Backed, Tidy, Keeping, Forward,
           \A t \in Subs : sub[t].pc # "none" => Handover(t),
           NEW s \in Subs, sub[s].pc # "none", NEW m \in Ids, Held(s, m), Reached(s, m)'
    PROVE  Held(s, m)'
<1>1. /\ sub[s].owner \in Names /\ sub'[s].owner = sub[s].owner
      /\ Settled(sub[s].owner) \subseteq Settled(sub[s].owner)'
  BY SubFields DEF Coherent, Handover, Keeping
<1>2. CASE m \in Settled(sub[s].owner)
  BY <1>1, <1>2 DEF Held
<1>3. CASE HeldElsewhere(sub[s].owner, m)
  <2>1. PICK i \in Instances \ {inst} : <<i, m>> \in group[sub[s].owner].pel
    BY <1>3 DEF HeldElsewhere
  <2>2. <<i, m>>[2] = m
    OBVIOUS
  <2>3. <<i, m>> \in group'[sub[s].owner].pel \/ m \in Settled(sub[s].owner)'
    BY <1>1, <2>1, <2>2 DEF Keeping
  <2>4. QED BY <1>1, <2>1, <2>3 DEF Held, HeldElsewhere, Keeping
<1>4. CASE HeldBy(s, m)
  <2>1. PICK t \in Subs : sub[t].owner = sub[s].owner /\ (InHand(s, t, m) \/ Left(s, t, m))
    BY <1>4 DEF HeldBy
  <2>2. sub[t].pc # "none" /\ Handover(t) /\ Handover(s)
    BY <1>1, <2>1, NamesAssumption DEF Tidy, TidyOf, NoSub
  <2>3. Overlap(s, t) => Overlap(s, t)'
    BY <2>2 DEF Overlap, Handover
  <2>b. Beyond(t, m)' <=> Beyond(t, m)
    BY <2>2, BeyondKept DEF Handover
  <2>4. CASE m \in sub'[t].running \/ Left(s, t, m)'
    BY <1>1, <2>1, <2>2, <2>4 DEF Held, HeldBy, InHand, Handover
  <2>5. CASE Left(s, t, m)
    BY <2>2, <2>3, <2>b, <2>4, <2>5 DEF Left, Handover
  <2>6. CASE m \in sub[t].running
    BY <1>1, <2>1, <2>2, <2>4, <2>6 DEF Held, Handover
  <2>7. CASE sub[t].pc = "handle" /\ m = sub[t].msg /\ (t = s \/ Overlap(s, t))
    <3>1. CASE sub'[t].pc = "handle" /\ sub'[t].msg = m
      BY <1>1, <2>1, <2>2, <2>3, <2>7, <3>1 DEF Held, HeldBy, InHand, Handover
    <3>2. CASE m \in Settled(sub[t].owner)'
      BY <1>1, <2>1, <2>2, <3>2 DEF Held, Handover
    <3>3. CASE sub'[t].complete /\ Beyond(t, m)
      <4>1. CASE t = s
        BY <2>b, <3>3, <4>1 DEF Reached
      <4>2. CASE Overlap(s, t)
        BY <2>3, <2>b, <2>4, <3>3, <4>2 DEF Left
      <4>3. QED BY <2>7, <4>1, <4>2
    <3>4. QED BY <2>2, <2>4, <2>7, <3>1, <3>2, <3>3 DEF Handover
  <2>8. QED BY <2>1, <2>5, <2>6, <2>7 DEF InHand
<1>5. QED BY <1>2, <1>3, <1>4 DEF Held

\* The entries behind a loop after a step were behind it before, or are held.
Advance(s) ==
    \A m \in Given(sub[s].owner)' :
        Reached(s, m)' =>
            \/ Held(s, m)'
            \/ sub[s].pc # "none" /\ m \in Given(sub[s].owner) /\ Reached(s, m)

LEMMA WindowFrame ==
    ASSUME TypeOK, Backed, Tidy, Window, Keeping, Forward,
           \A t \in Subs : sub[t].pc # "none" => Handover(t),
           faults' = 0 => faults = 0,
           \A s \in Subs : sub'[s].pc # "none" => Advance(s)
    PROVE  Window'
<1> SUFFICES ASSUME faults' = 0, NEW s \in Subs, sub'[s].pc # "none",
                    NEW m \in Given(sub[s].owner)', Reached(s, m)'
             PROVE  Held(s, m)'
  BY DEF Window
<1>1. CASE Held(s, m)'
  BY <1>1
<1>2. CASE sub[s].pc # "none" /\ m \in Given(sub[s].owner) /\ Reached(s, m)
  <2>1. Held(s, m) /\ m \in Ids
    BY <1>2 DEF Window, Given
  <2>2. QED BY <1>2, <2>1, HeldKept
<1>3. QED BY <1>1, <1>2 DEF Advance
-----------------------------------------------------------------------------
(* One subscription moves on *)

LEMMA WindowOne ==
    ASSUME TypeOK, Backed, Tidy, Window, Keeping, Forward, NEW s \in Subs, sub[s].pc # "none",
           \A t \in Subs : t # s => sub'[t] = sub[t],
           Handover(s), faults' = 0 => faults = 0,
           \A n \in Names : Given(n)' = Given(n),
           \A m \in Given(sub[s].owner) : Reached(s, m)' => Reached(s, m) \/ Held(s, m)'
    PROVE  Window'
<1>1. ASSUME NEW t \in Subs, sub[t].pc # "none"
      PROVE  Handover(t)
  BY <1>1 DEF Handover
<1>2. ASSUME NEW t \in Subs, sub'[t].pc # "none"
      PROVE  Advance(t)
  <2>1. sub'[t].owner = sub[t].owner /\ sub[t].pc # "none"
    BY <1>2 DEF Handover
  <2>2. Given(sub[t].owner)' = Given(sub[t].owner)
    <3>1. sub[t].owner \in Names
      BY <2>1, SubFields DEF Coherent
    <3>2. QED BY <2>1, <3>1 DEF Given
  <2>3. CASE t = s
    BY <2>1, <2>2, <2>3 DEF Advance
  <2>4. CASE t # s
    <3>0. \A m : Beyond(t, m)' <=> Beyond(t, m)
      BY <2>1, <2>4, BeyondKept
    <3>1. \A m : Reached(t, m)' => Reached(t, m)
      BY <2>4, <3>0 DEF Reached, Live
    <3>2. QED BY <2>1, <2>2, <3>1 DEF Advance
  <2>5. QED BY <2>3, <2>4
<1>3. QED BY <1>1, <1>2, WindowFrame

LEMMA TidyOne ==
    ASSUME TypeOK, TypeOK', Backed, Tidy, Forward, NEW s \in Subs, sub[s].pc # "none",
           \A t \in Subs : t # s => sub'[t] = sub[t],
           sub'[s].owner = sub[s].owner, startPc' = "down" => startPc = "down",
           TidyOf(sub'[s], group'[sub[s].owner])
    PROVE  Tidy'
<1>1. startPc' # "down"
  BY DEF Tidy
<1>2. ASSUME NEW t \in Subs, t # s
      PROVE  /\ sub'[t].pc = "none" => sub'[t] = NoSub
             /\ sub'[t].pc # "none" => TidyOf(sub'[t], group'[sub'[t].owner])
  <2>1. sub'[t] = sub[t]
    BY <1>2
  <2>2. CASE sub[t].pc = "none"
    BY <2>1, <2>2 DEF Tidy, TidyOf
  <2>3. CASE sub[t].pc # "none"
    <3>1. sub[t].owner \in Names /\ group[sub[t].owner].exists
      BY <2>3, SubFields DEF Coherent, Backed
    <3>2. TidyOf(sub[t], group[sub[t].owner])
      BY <2>3 DEF Tidy, TidyOf
    <3>3. TidyOf(sub[t], group'[sub[t].owner])
      BY <3>1, <3>2, SubFields, TidyGrows
    <3>4. QED BY <2>1, <2>3, <3>3
  <2>4. QED BY <2>2, <2>3
<1>3. QED BY <1>1, <1>2 DEF Tidy, TidyOf

\* What the commands keep.
LEMMA KeepSame ==
    ASSUME TypeOK, TypeOK', UNCHANGED <<inst, group>>, bad \subseteq bad', trimmed <= trimmed',
           \A n \in Names : processed[n] \subseteq processed'[n]
    PROVE  Keeping /\ \A n \in Names : Given(n)' = Given(n)
<1>1. \A n \in Names : Settled(n) \subseteq Settled(n)'
  BY SettledGrows
<1>2. QED BY <1>1 DEF Keeping, Given

LEMMA KeepAck ==
    ASSUME TypeOK, UNCHANGED <<inst, processed, bad, trimmed>>,
           NEW n \in Names, NEW m \in Settled(n), XAck(n, m)
    PROVE  Keeping /\ \A k \in Names : Given(k)' = Given(k)
<1>1. \A k \in Names : Settled(k)' = Settled(k)
  BY DEF Settled
<1>2. /\ \A k \in Names : group'[k].last = group[k].last /\ group'[k].start = group[k].start
                          /\ group'[k].exists = group[k].exists
      /\ \A k \in Names : k # n => group'[k] = group[k]
      /\ group'[n].pel = {p \in group[n].pel : p[2] # m}
  BY DEF XAck, TypeOK, Group
<1>3. \A k \in Names : Given(k)' = Given(k)
  BY <1>2 DEF Given
<1>4. \A k \in Names : \A p \in group[k].pel : p \in group'[k].pel \/ p[2] \in Settled(k)'
  BY <1>1, <1>2
<1>5. QED BY <1>1, <1>3, <1>4 DEF Keeping

\* An entry given to a group and not pending for this process is settled, or
\* pending for another instance.
LEMMA NotPending ==
    ASSUME TypeOK, NoEventLost, NEW n \in Names, NEW m \in Given(n), <<inst, m>> \notin group[n].pel
    PROVE  m \in Settled(n) \/ HeldElsewhere(n, m)
<1>1. CASE m \in Settled(n)
  BY <1>1
<1>2. CASE m \in PendingIds(n)
  <2>1. PICK p \in group[n].pel : p[2] = m
    BY <1>2 DEF PendingIds
  <2>2. p \in Instances \X Ids
    BY DEF TypeOK, Group
  <2>3. p = <<p[1], m>> /\ p[1] \in Instances
    BY <2>1, <2>2
  <2>4. QED BY <2>1, <2>3 DEF HeldElsewhere
<1>3. QED BY <1>1, <1>2 DEF NoEventLost

\* Reading pending entries in order passes over none that this process owes.
LEMMA PassedOver ==
    ASSUME TypeOK, NoEventLost, NEW n \in Names, NEW cursor, NEW m \in Given(n),
           m > cursor, m \notin Pending(n, cursor)
    PROVE  m \in Settled(n) \/ HeldElsewhere(n, m)
BY NotPending DEF Pending, Given

LEMMA NothingPending ==
    ASSUME NEW n \in Names, NEW cursor, LeastOf(Pending(n, cursor)) = {}
    PROVE  Pending(n, cursor) = {}
<1>1. Pending(n, cursor) \in SUBSET Nat
  BY Bounds DEF Pending
<1>2. QED BY <1>1, Least DEF LeastOf
-----------------------------------------------------------------------------
(* The steps of a loop *)

\* Before a step.
Before == SInv /\ Tracking /\ Tidy /\ Window /\ TypeOK'

LEMMA BeforeParts ==
    Before => /\ TypeOK /\ TypeOK' /\ Backed /\ Knowledge /\ NoEventLost /\ PendingRead
              /\ LoopsOrdered /\ LoopsTracked /\ Tidy /\ Window
BY DEF Before, SInv, CInv, IInv, Tracking

\* What a step of a loop may change of its subscription.
Fixed(r, x) ==
    r.owner = x.owner /\ r.end = x.end /\ r.abandoned = x.abandoned

\* A step that takes nothing in hand, passes nothing, and dispatches at most what
\* it has in hand.
LEMMA StillCovers ==
    ASSUME Before, Keeping, Forward, NEW s \in Subs, sub[s].pc # "none", NEW r, SetSub(s, r),
           Fixed(r, sub[s]), r.complete = sub[s].complete,
           \A m \in sub[s].running : m \in r.running \/ m \in Settled(sub[s].owner)',
           r.pending = sub[s].pending, r.cursor = sub[s].cursor, r.msg = sub[s].msg,
           r.pc = sub[s].pc \/ {r.pc, sub[s].pc} \subseteq {"check", "block"},
           faults' = 0 => faults = 0, \A n \in Names : Given(n)' = Given(n)
    PROVE  Window' /\ Tidy'
<1> DEFINE x == sub[s]
<1>t. /\ TypeOK /\ TypeOK' /\ Backed /\ Tidy /\ Window
  BY BeforeParts
<1>1. /\ sub'[s] = r /\ \A t \in Subs : t # s => sub'[t] = sub[t]
  BY <1>t, SetSubValue
<1>2. Handover(s)
  BY <1>1, <1>t DEF Handover, Fixed
<1>b. \A m : Beyond(s, m)' <=> Beyond(s, m)
  BY <1>t, <1>1, BeyondKept DEF Fixed
<1>3. \A m \in Given(x.owner) : Reached(s, m)' => Reached(s, m)
  BY <1>1, <1>b DEF Reached, Live
<1>4. Window'
  BY <1>t, <1>1, <1>2, <1>3, WindowOne
<1>5. TidyOf(x, group[x.owner])
  BY <1>t DEF Tidy, TidyOf
<1>6. TidyOf(x, group'[x.owner])
  <2>1. x.owner \in Names /\ group[x.owner].exists
    BY <1>t, SubFields DEF Coherent, Backed
  <2>2. QED BY <1>t, <1>5, <2>1, SubFields, TidyGrows
<1>7. TidyOf(r, group'[x.owner])
  BY <1>6 DEF TidyOf, Fixed
<1>8. UNCHANGED object
  BY DEF SetSub
<1>9. QED BY <1>t, <1>1, <1>4, <1>7, <1>8, TidyOne DEF Fixed, object

\* The watcher, a loop that exits or sends its read, and the dispatch goroutines.
LEMMA QuietCovers ==
    ASSUME Before, NEW s \in Subs, sub[s].pc # "none",
           WatchDone(s) \/ IssueRead(s) \/ \E m \in Ids : DispatchStep(s, m)
    PROVE  Window' /\ Tidy'
<1> DEFINE x == sub[s]
<1>t. /\ TypeOK /\ TypeOK' /\ Backed /\ Tidy /\ Window /\ Knowledge /\ PendingRead
      /\ x \in Subscription /\ x.owner \in Names
      /\ trimmed <= trimmed /\ faults \in Nat
  BY BeforeParts, SubFields, BoundsAssumption DEF Coherent, TypeOK
<1>1. CASE WatchDone(s) \/ IssueRead(s)
  <2> DEFINE r == [x EXCEPT !.watching = FALSE, !.exitLoop = TRUE]
             q == [x EXCEPT !.pc = "block"]
  <2>0. q.pc = "block" /\ r.pc = x.pc
    BY <1>t DEF Subscription
  <2>1. /\ SetSub(s, r) \/ (SetSub(s, q) /\ x.pc = "check")
        /\ UNCHANGED <<server, group, processed, faults>>
    BY <1>1 DEF WatchDone, IssueRead, history
  <2>2. /\ Fixed(r, x) /\ r.complete = x.complete /\ r.running = x.running
        /\ r.pending = x.pending /\ r.cursor = x.cursor /\ r.msg = x.msg
        /\ Fixed(q, x) /\ q.complete = x.complete /\ q.running = x.running
        /\ q.pending = x.pending /\ q.cursor = x.cursor /\ q.msg = x.msg
    BY <1>t DEF Subscription, Fixed
  <2> HIDE DEF r, q
  <2>3. UNCHANGED <<inst, bad, trimmed>>
    BY <2>1 DEF SetSub, object, server
  <2>4. Keeping /\ Forward /\ \A n \in Names : Given(n)' = Given(n)
    BY <1>t, <2>1, <2>3, KeepSame, SameOrder
  <2>5. QED BY <2>0, <2>1, <2>2, <2>4, StillCovers
<1>2. ASSUME NEW m \in Ids, DispatchReturn(s, m)
      PROVE  Window' /\ Tidy'
  <2> DEFINE r == [x EXCEPT !.running = @ \ {m}, !.returned = @ \cup {m}]
  <2>1. /\ SetSub(s, r) /\ UNCHANGED <<server, group, faults>>
        /\ processed' = [processed EXCEPT ![x.owner] = @ \cup {m}]
    BY <1>2 DEF DispatchReturn, history
  <2>2. /\ Fixed(r, x) /\ r.complete = x.complete /\ r.running = x.running \ {m}
        /\ r.pending = x.pending /\ r.cursor = x.cursor /\ r.msg = x.msg /\ r.pc = x.pc
    BY <1>t DEF Subscription, Fixed
  <2> HIDE DEF r
  <2>3. /\ UNCHANGED <<inst, bad, trimmed>>
        /\ \A n \in Names : processed[n] \subseteq processed'[n]
        /\ m \in processed'[x.owner]
    BY <1>t, <2>1 DEF SetSub, object, server, TypeOK
  <2>4. Keeping /\ Forward /\ \A n \in Names : Given(n)' = Given(n)
    BY <1>t, <2>1, <2>3, KeepSame, SameOrder
  <2>5. sub'[s].owner = x.owner
    BY <1>t, <2>1, <2>2, SetSubValue DEF Fixed
  <2>6. m \in Settled(sub[s].owner)'
    BY <2>3, <2>5 DEF Settled
  <2>7. \A k \in x.running : k \in r.running \/ k \in Settled(sub[s].owner)'
    BY <2>2, <2>6
  <2>8. QED BY <2>1, <2>2, <2>4, <2>7, StillCovers
<1>3. ASSUME NEW m \in Ids, Ack(s, m) \/ AckLost(s, m)
      PROVE  Window' /\ Tidy'
  <2> DEFINE r == [x EXCEPT !.returned = @ \ {m}]
  <2>1. /\ SetSub(s, r) /\ UNCHANGED <<server, processed>>
        /\ UNCHANGED group \/ XAck(x.owner, m)
        /\ m \in x.returned
        /\ faults' \in {faults, faults + 1}
    BY <1>3 DEF Ack, AckLost, history
  <2>2. /\ Fixed(r, x) /\ r.complete = x.complete /\ r.running = x.running
        /\ r.pending = x.pending /\ r.cursor = x.cursor /\ r.msg = x.msg /\ r.pc = x.pc
    BY <1>t DEF Subscription, Fixed
  <2> HIDE DEF r
  <2>3. UNCHANGED <<inst, bad, trimmed>>
    BY <2>1 DEF SetSub, object, server
  <2>4. m \in Settled(x.owner)
    BY <1>t, <2>1 DEF Knowledge, Settled
  <2>5. Keeping /\ Forward /\ \A n \in Names : Given(n)' = Given(n)
    BY <1>t, <2>1, <2>3, <2>4, KeepSame, SameOrder, KeepAck, AckOrder
  <2>6. faults' = 0 => faults = 0
    BY <1>t, <2>1
  <2>7. QED BY <2>1, <2>2, <2>5, <2>6, StillCovers
<1>4. QED BY <1>1, <1>2, <1>3 DEF DispatchStep

\* The last message in hand is gone from the loop only when it is settled,
\* dispatched, or beyond the end.
LEMMA MovesCovers ==
    ASSUME Before, Keeping, Forward, NEW s \in Subs, sub[s].pc # "none", NEW r, SetSub(s, r),
           Fixed(r, sub[s]), sub[s].complete => r.complete,
           \A m \in sub[s].running : m \in r.running,
           sub[s].pc = "handle" =>
               \/ sub[s].msg \in r.running
               \/ sub[s].msg \in Settled(sub[s].owner)'
               \/ r.complete /\ Beyond(s, sub[s].msg),
           faults' = 0 => faults = 0, \A n \in Names : Given(n)' = Given(n),
           \A m \in Given(sub[s].owner) : Reached(s, m)' => Reached(s, m) \/ Held(s, m)',
           TidyOf(r, group'[sub[s].owner])
    PROVE  Window' /\ Tidy'
<1>t. /\ TypeOK /\ TypeOK' /\ Backed /\ Tidy /\ Window
  BY BeforeParts
<1>1. /\ sub'[s] = r /\ \A t \in Subs : t # s => sub'[t] = sub[t]
  BY <1>t, SetSubValue
<1>2. Handover(s)
  BY <1>1, <1>t DEF Handover, Fixed
<1>3. Window'
  BY <1>t, <1>1, <1>2, WindowOne
<1>4. UNCHANGED object
  BY DEF SetSub
<1>5. QED BY <1>t, <1>1, <1>3, <1>4, TidyOne DEF Fixed, object
LEMMA ExitCovers ==
    ASSUME Before, NEW s \in Subs, LoopExit(s)
    PROVE  Window' /\ Tidy'
<1> DEFINE x == sub[s]
           r == [x EXCEPT !.pc = "stopped", !.pending = FALSE, !.cursor = 0, !.seen = {}]
<1>t. /\ TypeOK /\ TypeOK' /\ Backed /\ Tidy /\ PendingRead
      /\ x \in Subscription /\ trimmed <= trimmed
  BY BeforeParts, SubFields, BoundsAssumption DEF TypeOK
<1>1. /\ SetSub(s, r) /\ x.pc = "check" /\ UNCHANGED <<server, group, processed, faults>>
  BY DEF LoopExit, history
<1>2. /\ Fixed(r, x) /\ r.complete = x.complete /\ r.running = x.running
      /\ r.pc = "stopped" /\ r.cursor = 0
  BY <1>t DEF Subscription, Fixed
<1> HIDE DEF r
<1>3. UNCHANGED <<inst, bad, trimmed>>
  BY <1>1 DEF SetSub, object, server
<1>4. Keeping /\ Forward /\ \A n \in Names : Given(n)' = Given(n)
  BY <1>t, <1>1, <1>3, KeepSame, SameOrder
<1>5. sub'[s] = r /\ x.owner \in Names
  BY <1>t, <1>1, SetSubValue, SubFields DEF Coherent
<1>b. \A m : Beyond(s, m)' <=> Beyond(s, m)
  BY <1>t, <1>1, <1>2, <1>4, <1>5, BeyondKept DEF Fixed
<1>6. \A m : Reached(s, m)' => Reached(s, m)
  BY <1>2, <1>5, <1>b DEF Reached, Live
<1>7. TidyOf(r, group'[x.owner])
  <2>1. group'[x.owner] = group[x.owner] /\ group[x.owner].last \in Nat
    BY <1>1, <1>5, <1>t DEF TypeOK, Group
  <2>2. x.complete => BeyondEnd(group[x.owner].start, group[x.owner].last, x.end)
    BY <1>1, <1>t DEF Tidy, TidyOf
  <2>3. QED BY <1>2, <2>1, <2>2 DEF TidyOf, Fixed
<1>8. QED BY <1>1, <1>2, <1>4, <1>6, <1>7, MovesCovers

\* The end of the pending entries: those after the cursor are settled, or
\* another instance's.
LEMMA NothingCovers ==
    ASSUME Before, NEW s \in Subs, ReadNothing(s)
    PROVE  Window' /\ Tidy'
<1> DEFINE x == sub[s]
           n == x.owner
           q == [x EXCEPT !.pc = "check"]
           r == [x EXCEPT !.pc = "check", !.pending = FALSE]
<1>t. /\ TypeOK /\ TypeOK' /\ Backed /\ Tidy /\ PendingRead /\ NoEventLost
      /\ x \in Subscription /\ trimmed <= trimmed
  BY BeforeParts, SubFields, BoundsAssumption DEF TypeOK
<1>1. /\ x.pc = "block" /\ UNCHANGED <<server, group, processed, faults>>
      /\ SetSub(s, q) \/ (SetSub(s, r) /\ ToRead(s) = {})
  BY DEF ReadNothing, history
<1>2. /\ Fixed(q, x) /\ q.complete = x.complete /\ q.running = x.running
      /\ q.pending = x.pending /\ q.cursor = x.cursor /\ q.msg = x.msg /\ q.pc = "check"
      /\ Fixed(r, x) /\ r.complete = x.complete /\ r.running = x.running
      /\ r.pending = FALSE /\ r.cursor = x.cursor /\ r.pc = "check"
  BY <1>t DEF Subscription, Fixed
<1> HIDE DEF q, r
<1>3. UNCHANGED <<inst, bad, trimmed>>
  BY <1>1 DEF SetSub, object, server
<1>4. Keeping /\ Forward /\ \A k \in Names : Given(k)' = Given(k)
  BY <1>t, <1>1, <1>3, KeepSame, SameOrder
<1>5. CASE SetSub(s, q)
  BY <1>1, <1>2, <1>4, <1>5, StillCovers
<1>6. CASE SetSub(s, r) /\ ToRead(s) = {}
  <2>1. sub'[s] = r /\ n \in Names
    BY <1>t, <1>1, <1>6, SetSubValue, SubFields DEF Coherent
  <2>b. \A m : Beyond(s, m)' <=> Beyond(s, m)
    BY <1>t, <1>1, <1>2, <1>4, <2>1, BeyondKept DEF Fixed
  <2>2. ASSUME NEW m \in Given(n), Reached(s, m)'
        PROVE  Reached(s, m) \/ Held(s, m)'
    <3>1. CASE x.complete \/ ~x.pending
      BY <1>1, <1>2, <2>1, <2>b, <2>2, <3>1 DEF Reached, Live
    <3>2. CASE ~x.complete /\ x.pending /\ m <= x.cursor
      BY <1>1, <3>2 DEF Reached, Live
    <3>3. CASE ~x.complete /\ x.pending /\ ~(m <= x.cursor)
      <4>1. Pending(n, x.cursor) = {}
        BY <1>6, <2>1, <3>3, NothingPending DEF ToRead
      <4>2. m > x.cursor
        BY <1>t, <3>3, OrderNumbers, Bounds DEF Given
      <4>3. m \in Settled(n) \/ HeldElsewhere(n, m)
        BY <1>t, <2>1, <4>1, <4>2, PassedOver
      <4>4. sub'[s].owner = n
        BY <1>2, <2>1 DEF Fixed
      <4>5. QED BY <1>1, <1>3, <4>3, <4>4 DEF Held, HeldElsewhere, Settled
    <3>4. QED BY <3>1, <3>2, <3>3
  <2>3. TidyOf(r, group'[n])
    <3>1. TidyOf(x, group[n])
      BY <1>1, <1>t DEF Tidy, TidyOf
    <3>2. QED BY <1>1, <1>2, <3>1 DEF TidyOf, Fixed
  <2>4. QED BY <1>1, <1>2, <1>4, <1>6, <2>2, <2>3, MovesCovers
<1>7. QED BY <1>1, <1>5, <1>6

\* A lost reply leaves entries pending for the next process.
LEMMA LostCovers ==
    ASSUME Before, NEW s \in Subs, ReadLost(s)
    PROVE  Window' /\ Tidy'
<1> DEFINE x == sub[s]
           q == [x EXCEPT !.pc = "check"]
<1>t. /\ TypeOK /\ TypeOK' /\ Backed /\ Tidy /\ PendingRead /\ x \in Subscription
  BY BeforeParts, SubFields
<1>1. /\ SetSub(s, q) /\ x.pc = "block" /\ faults' = faults + 1
      /\ \E m \in ToRead(s) : XReadGroup(s, m)
  BY DEF ReadLost
<1>2. /\ Fixed(q, x) /\ q.complete = x.complete
      /\ q.pending = x.pending /\ q.cursor = x.cursor /\ q.pc = "check"
  BY <1>t DEF Subscription, Fixed
<1> HIDE DEF q
<1>3. Forward
  BY <1>t, <1>1, ReadOrder
<1>4. faults' # 0
  BY <1>1, <1>t DEF TypeOK
<1>5. x.owner \in Names /\ group[x.owner].exists
  BY <1>t, <1>1, SubFields DEF Coherent, Backed
<1>6. TidyOf(x, group[x.owner])
  BY <1>t, <1>1 DEF Tidy, TidyOf
<1>7. TidyOf(q, group'[x.owner])
  <2>1. TidyOf(x, group'[x.owner])
    BY <1>t, <1>3, <1>5, <1>6, TidyGrows
  <2>2. QED BY <1>2, <2>1 DEF TidyOf, Fixed
<1>8. sub'[s] = q /\ \A t \in Subs : t # s => sub'[t] = sub[t]
  BY <1>t, <1>1, SetSubValue
<1>9. Tidy'
  BY <1>t, <1>1, <1>2, <1>3, <1>7, <1>8, TidyOne DEF Fixed, SetSub, object
<1>10. QED BY <1>4, <1>9 DEF Window

\* An entry found to hold no CloudEvent is settled.
LEMMA InvalidCovers ==
    ASSUME Before, NEW s \in Subs, HandleInvalid(s)
    PROVE  Window' /\ Tidy'
<1> DEFINE x == sub[s]
           r == [x EXCEPT !.pc = "check", !.msg = 0]
<1>t. /\ TypeOK /\ TypeOK' /\ Backed /\ Tidy /\ PendingRead /\ Knowledge
      /\ x \in Subscription /\ trimmed <= trimmed /\ faults \in Nat
  BY BeforeParts, SubFields, BoundsAssumption DEF TypeOK
<1>1. /\ SetSub(s, r) /\ x.pc = "handle" /\ ~x.valid /\ UNCHANGED <<server, processed>>
      /\ UNCHANGED group \/ XAck(x.owner, x.msg)
      /\ faults' \in {faults, faults + 1}
  BY DEF HandleInvalid
<1>2. /\ Fixed(r, x) /\ r.complete = x.complete /\ r.running = x.running
      /\ r.pending = x.pending /\ r.cursor = x.cursor /\ r.pc = "check"
  BY <1>t DEF Subscription, Fixed
<1> HIDE DEF r
<1>3. UNCHANGED <<inst, bad, trimmed>>
  BY <1>1 DEF SetSub, object, server
<1>4. sub'[s] = r /\ x.owner \in Names
  BY <1>t, <1>1, SetSubValue, SubFields DEF Coherent
<1>5. x.msg \in Settled(x.owner)
  BY <1>t, <1>1 DEF Knowledge, Settled
<1>6. Keeping /\ Forward /\ \A n \in Names : Given(n)' = Given(n)
  BY <1>t, <1>1, <1>3, <1>4, <1>5, KeepSame, SameOrder, KeepAck, AckOrder
<1>7. x.msg \in Settled(sub[s].owner)'
  BY <1>2, <1>4, <1>5, <1>6 DEF Keeping, Fixed
<1>8. TidyOf(x, group[x.owner])
  BY <1>t, <1>1 DEF Tidy, TidyOf
<1>b. \A m : Beyond(s, m)' <=> Beyond(s, m)
  BY <1>t, <1>1, <1>2, <1>4, <1>6, BeyondKept DEF Fixed
<1>9. ASSUME NEW m \in Given(x.owner), Reached(s, m)'
      PROVE  Reached(s, m)
  <2>1. x.pending => x.cursor < x.msg
    BY <1>1, <1>8 DEF TidyOf
  <2>2. m \in Nat /\ x.cursor \in Nat /\ x.msg \in Nat
    BY <1>t, OrderNumbers, Bounds DEF Given
  <2>3. QED BY <1>1, <1>2, <1>4, <1>b, <1>9, <2>1, <2>2 DEF Reached, Live
<1>10. TidyOf(r, group'[x.owner])
  <2>1. /\ group'[x.owner].last = group[x.owner].last
        /\ group'[x.owner].start = group[x.owner].start
    BY <1>t, <1>1, <1>4 DEF XAck, TypeOK, Group
  <2>2. QED BY <1>2, <1>8, <2>1 DEF TidyOf, Fixed
<1>11. faults' = 0 => faults = 0
  BY <1>t, <1>1
<1>12. QED BY <1>1, <1>2, <1>6, <1>7, <1>9, <1>10, <1>11, MovesCovers

\* The loop completes at an entry that is no business of it.
LEMMA ExceededCovers ==
    ASSUME Before, NEW s \in Subs, HandleExceeded(s)
    PROVE  Window' /\ Tidy'
<1> DEFINE x == sub[s]
           last == group[x.owner].last
           r == [x EXCEPT !.pc = "check", !.msg = 0, !.exitLoop = TRUE, !.complete = TRUE]
<1>t. /\ TypeOK /\ TypeOK' /\ Backed /\ Tidy /\ PendingRead /\ LoopsOrdered
      /\ x \in Subscription /\ trimmed <= trimmed
  BY BeforeParts, SubFields, BoundsAssumption DEF TypeOK
<1>1. /\ SetSub(s, r) /\ x.pc = "handle" /\ PastEnd(s)
      /\ UNCHANGED <<server, group, processed, faults>>
  BY DEF HandleExceeded, history
<1>2. /\ Fixed(r, x) /\ r.complete = TRUE /\ r.running = x.running
      /\ r.pending = x.pending /\ r.cursor = x.cursor /\ r.pc = "check"
  BY <1>t DEF Subscription, Fixed
<1> HIDE DEF r
<1>3. UNCHANGED <<inst, bad, trimmed>>
  BY <1>1 DEF SetSub, object, server
<1>4. Keeping /\ Forward /\ \A n \in Names : Given(n)' = Given(n)
  BY <1>t, <1>1, <1>3, KeepSame, SameOrder
<1>5. sub'[s] = r /\ x.owner \in Names
  BY <1>t, <1>1, SetSubValue, SubFields DEF Coherent
<1>n. /\ x.end \in Nat /\ x.msg \in Nat /\ last \in Nat /\ group[x.owner].start \in Nat
      /\ x.msg <= last
  BY <1>1, <1>t, <1>5, Bounds, SubFields DEF Subscription, TypeOK, Group, LoopsOrdered, InOrder
<1>6. Beyond(s, x.msg)
  <2>1. Exceeds(x.msg, x.end) /\ group[x.owner].start < x.msg
    BY <1>1, <1>t DEF PastEnd, Tidy, TidyOf
  <2>2. QED BY <1>n, <2>1, ExceedsBeyond DEF Beyond
<1>b. \A m : Beyond(s, m)' <=> Beyond(s, m)
  BY <1>t, <1>1, <1>2, <1>4, <1>5, BeyondKept DEF Fixed
<1>7. ASSUME NEW m \in Given(x.owner), Reached(s, m)'
      PROVE  Reached(s, m)
  <2>1. ~Beyond(s, m) /\ m \in Nat
    BY <1>2, <1>5, <1>b, <1>7, Bounds DEF Reached, Given
  <2>2. m < x.msg
    BY <1>n, <1>6, <2>1, BeyondStays DEF Beyond
  <2>3. QED BY <1>1, <2>1, <2>2 DEF Reached, Live
<1>8. TidyOf(r, group'[x.owner])
  <2>1. TidyOf(x, group[x.owner])
    BY <1>t, <1>1 DEF Tidy, TidyOf
  <2>2. BeyondEnd(group[x.owner].start, last, x.end)
    BY <1>n, <1>6, BeyondStays DEF Beyond
  <2>3. QED BY <1>1, <1>2, <2>1, <2>2 DEF TidyOf, Fixed
<1>9. QED BY <1>1, <1>2, <1>4, <1>6, <1>7, <1>8, MovesCovers

\* The entry in hand is dispatched, and the cursor follows it.
LEMMA DispatchCovers ==
    ASSUME Before, NEW s \in Subs, HandleDispatch(s)
    PROVE  Window' /\ Tidy'
<1> DEFINE x == sub[s]
           last == group[x.owner].last
           r == [x EXCEPT !.pc = "check", !.msg = 0,
                          !.exitLoop = ExitLoopAfterCheck(s),
                          !.cursor = CursorAfter(s),
                          !.running = @ \cup {x.msg}, !.seen = @ \cup {x.msg}]
<1>t. /\ TypeOK /\ TypeOK' /\ Backed /\ Tidy /\ PendingRead /\ LoopsOrdered
      /\ x \in Subscription /\ trimmed <= trimmed
  BY BeforeParts, SubFields, BoundsAssumption DEF TypeOK
<1>1. /\ SetSub(s, r) /\ x.pc = "handle"
      /\ UNCHANGED <<server, group, processed, faults>>
  BY DEF HandleDispatch, history
<1>2. /\ Fixed(r, x) /\ r.complete = x.complete /\ r.running = x.running \cup {x.msg}
      /\ r.pending = x.pending /\ r.cursor = CursorAfter(s) /\ r.pc = "check"
  BY <1>t DEF Subscription, Fixed
<1> HIDE DEF r
<1>3. UNCHANGED <<inst, bad, trimmed>>
  BY <1>1 DEF SetSub, object, server
<1>4. Keeping /\ Forward /\ \A n \in Names : Given(n)' = Given(n)
  BY <1>t, <1>1, <1>3, KeepSame, SameOrder
<1>5. sub'[s] = r /\ x.owner \in Names
  BY <1>t, <1>1, SetSubValue, SubFields DEF Coherent
<1>b. \A m : Beyond(s, m)' <=> Beyond(s, m)
  BY <1>t, <1>1, <1>2, <1>4, <1>5, BeyondKept DEF Fixed
<1>6. ASSUME NEW m \in Given(x.owner), Reached(s, m)'
      PROVE  Reached(s, m) \/ Held(s, m)'
  <2>1. CASE m = x.msg
    BY <1>2, <1>5, <2>1 DEF Held, HeldBy, InHand
  <2>2. CASE m # x.msg
    <3>1. m \in Nat /\ x.msg \in Nat /\ x.cursor \in Nat
      BY <1>t, OrderNumbers, Bounds DEF Given
    <3>2. QED
      BY <1>1, <1>2, <1>5, <1>b, <1>6, <2>2, <3>1 DEF Reached, Live, CursorAfter
  <2>3. QED BY <2>1, <2>2
<1>7. TidyOf(r, group'[x.owner])
  <2>1. TidyOf(x, group[x.owner]) /\ x.msg <= last
    BY <1>t, <1>1 DEF Tidy, TidyOf, LoopsOrdered, InOrder
  <2>2. QED BY <1>1, <1>2, <2>1 DEF TidyOf, Fixed, CursorAfter
<1>8. QED BY <1>1, <1>2, <1>4, <1>6, <1>7, MovesCovers
\* The next pending entry: those before it are settled, or another instance's.
LEMMA PendingCovers ==
    ASSUME Before, NEW s \in Subs, ReadOne(s), sub[s].pending
    PROVE  Window' /\ Tidy'
<1> DEFINE x == sub[s]
           n == x.owner
<1>t. /\ TypeOK /\ TypeOK' /\ Backed /\ Tidy /\ PendingRead /\ NoEventLost
      /\ x \in Subscription /\ trimmed <= trimmed
  BY BeforeParts, SubFields, BoundsAssumption DEF TypeOK
<1>1. PICK m \in ToRead(s) :
        /\ XReadGroup(s, m)
        /\ SetSub(s, [x EXCEPT !.pc = "handle", !.msg = m,
                               !.valid = m \notin bad /\ m > trimmed])
  BY DEF ReadOne
<1>2. x.pc = "block" /\ UNCHANGED <<server, processed, faults, group>>
  BY <1>1 DEF ReadOne, history, XReadGroup
<1> DEFINE v == m \notin bad /\ m > trimmed
           r == [x EXCEPT !.pc = "handle", !.msg = m, !.valid = v]
<1>3. SetSub(s, r)
  BY <1>1
<1> HIDE DEF v
<1>4. /\ Fixed(r, x) /\ r.complete = x.complete /\ r.running = x.running
      /\ r.pending = x.pending /\ r.cursor = x.cursor /\ r.pc = "handle" /\ r.msg = m
  BY <1>t DEF Subscription, Fixed
<1> HIDE DEF r
<1>5. UNCHANGED <<inst, bad, trimmed>>
  BY <1>2, <1>3 DEF SetSub, object, server
<1>6. Keeping /\ Forward /\ \A k \in Names : Given(k)' = Given(k)
  BY <1>t, <1>2, <1>5, KeepSame, SameOrder
<1>7. sub'[s] = r /\ n \in Names
  BY <1>t, <1>2, <1>3, SetSubValue, SubFields DEF Coherent
<1>8. m > x.cursor /\ \A k \in Pending(n, x.cursor) : m <= k
  BY DEF ToRead, LeastOf, Pending
<1>b. \A k : Beyond(s, k)' <=> Beyond(s, k)
  BY <1>t, <1>2, <1>4, <1>6, <1>7, BeyondKept DEF Fixed
<1>c. group[n].start < m
  BY <1>t, <1>1, <1>2, ReadOrder
<1>9. ASSUME NEW k \in Given(n), Reached(s, k)'
      PROVE  Reached(s, k) \/ Held(s, k)'
  <2>1. CASE x.complete \/ k <= x.cursor
    BY <1>2, <1>4, <1>7, <1>b, <1>9, <2>1 DEF Reached, Live
  <2>2. CASE ~x.complete /\ ~(k <= x.cursor)
    <3>1. k \in Nat /\ m \in Nat /\ x.cursor \in Nat
      BY <1>t, OrderNumbers, Bounds, ToReadType DEF Given
    <3>2. k < m
      BY <1>4, <1>7, <1>9, <2>2 DEF Reached
    <3>3. k > x.cursor /\ k \notin Pending(n, x.cursor)
      BY <1>8, <2>2, <3>1, <3>2
    <3>4. k \in Settled(n) \/ HeldElsewhere(n, k)
      BY <1>t, <1>7, <3>3, PassedOver
    <3>5. sub'[s].owner = n
      BY <1>4, <1>7 DEF Fixed
    <3>6. QED BY <1>2, <1>5, <3>4, <3>5 DEF Held, HeldElsewhere, Settled
  <2>3. QED BY <2>1, <2>2
<1>10. TidyOf(r, group'[n])
  <2>1. TidyOf(x, group[n])
    BY <1>2, <1>t DEF Tidy, TidyOf
  <2>2. QED BY <1>2, <1>4, <1>8, <1>c, <2>1 DEF TidyOf, Fixed
<1>11. QED BY <1>2, <1>3, <1>4, <1>6, <1>9, <1>10, MovesCovers

\* A new entry: it is in the hands of the loop, what lies between it and the
\* last one was trimmed, and other loops of the trigger overlap with this one.
LEMMA NewCovers ==
    ASSUME Before, NEW s \in Subs, ReadOne(s), ~sub[s].pending
    PROVE  Window' /\ Tidy'
<1> DEFINE x == sub[s]
<1>t. /\ TypeOK /\ TypeOK' /\ Backed /\ Tidy /\ PendingRead /\ LoopsTracked /\ Window
      /\ LoopsOrdered /\ x \in Subscription
  BY BeforeParts, SubFields
<1>1. PICK m \in ToRead(s) :
        /\ XReadGroup(s, m)
        /\ SetSub(s, [x EXCEPT !.pc = "handle", !.msg = m,
                               !.valid = m \notin bad /\ m > trimmed])
  BY DEF ReadOne
<1>2. x.pc = "block" /\ UNCHANGED <<server, processed, faults>>
  BY DEF ReadOne, history
<1> DEFINE v == m \notin bad /\ m > trimmed
           r == [x EXCEPT !.pc = "handle", !.msg = m, !.valid = v]
<1>3. SetSub(s, r)
  BY <1>1
<1> HIDE DEF v
<1>4. /\ Fixed(r, x) /\ r.complete = x.complete /\ r.running = x.running
      /\ r.pending = FALSE /\ r.cursor = x.cursor /\ r.pc = "handle" /\ r.msg = m
  BY <1>t DEF Subscription, Fixed
<1> HIDE DEF r
<1>5. UNCHANGED <<inst, bad, trimmed>>
  BY <1>2, <1>3 DEF SetSub, object, server
<1>6. /\ sub'[s] = r /\ \A t \in Subs : t # s => sub'[t] = sub[t]
  BY <1>t, <1>3, SetSubValue
<1>7. PICK n \in Names : n = x.owner
  BY <1>t, <1>2, SubFields DEF Coherent
<1>8. /\ group[n] \in Group /\ group[n].last \in Nat /\ group[n].start \in Nat
      /\ m \in Ids /\ m \in Nat
  BY <1>t, ToReadType, Bounds DEF TypeOK, Group
<1>9. /\ group'[n].last = m /\ group'[n].pel = group[n].pel \cup {<<inst, m>>}
      /\ group'[n].start = group[n].start /\ group'[n].exists = group[n].exists
      /\ \A k \in Names : k # n => group'[k] = group[k]
  BY <1>t, <1>1, <1>7, <1>8 DEF XReadGroup, PelAfterRead, TypeOK, Group
<1>10. \A k \in Names : Settled(k)' = Settled(k)
  BY <1>2, <1>5 DEF Settled
<1>11. Keeping
  BY <1>5, <1>9, <1>10 DEF Keeping
<1>12. Forward /\ m > group[n].last /\ group[n].start < m
  BY <1>t, <1>1, <1>2, <1>7, ReadOrder
<1>13. ASSUME NEW k \in Given(n)', k \notin Given(n)
       PROVE  k > group[n].last /\ (k = m \/ k \in Settled(n))
  <2>1. k \in Ids /\ k \in Nat /\ k <= m /\ k > group[n].last
    BY <1>8, <1>9, <1>13, Bounds DEF Given
  <2>2. CASE k # m
    <3>1. m \in LeastOf(Unread(n))
      BY <1>7 DEF ToRead
    <3>2. k \notin Unread(n) /\ m <= produced
      BY <1>8, <2>1, <2>2, <3>1 DEF LeastOf, Unread
    <3>3. trimmed \in Nat /\ produced \in Nat /\ 1 <= k
      BY <1>t, <2>1, BoundsAssumption DEF TypeOK, Ids
    <3>4. k \in 1..trimmed
      BY <1>8, <2>1, <3>2, <3>3 DEF Unread
    <3>5. QED BY <2>1, <3>4 DEF Settled
  <2>3. QED BY <2>1, <2>2
<1>14. ASSUME NEW t \in Subs, sub[t].pc # "none"
       PROVE  Handover(t)
  <2>1. CASE t = s
    BY <1>2, <1>4, <1>6, <2>1 DEF Handover, Fixed
  <2>2. CASE t # s
    BY <1>6, <2>2 DEF Handover
  <2>3. QED BY <2>1, <2>2
<1>15. ASSUME NEW t \in Subs, sub'[t].pc # "none"
       PROVE  Advance(t)
  <2>1. /\ sub'[t].owner = sub[t].owner /\ sub[t].pc # "none" /\ sub[t].owner \in Names
    <3>1. sub'[t].owner = sub[t].owner /\ sub[t].pc # "none"
      BY <1>2, <1>4, <1>6, <1>15 DEF Fixed
    <3>2. QED BY <1>t, <3>1, SubFields DEF Coherent
  <2>b. \A k : Beyond(t, k)' <=> Beyond(t, k)
    BY <1>t, <1>4, <1>6, <1>12, <2>1, BeyondKept DEF Fixed
  <2> SUFFICES ASSUME NEW k \in Given(sub[t].owner)', Reached(t, k)'
               PROVE  Held(t, k)' \/ (k \in Given(sub[t].owner) /\ Reached(t, k))
    BY <2>1 DEF Advance
  <2>2. CASE k \in Given(sub[t].owner)
    <3>1. CASE t # s
      BY <1>6, <2>b, <2>2, <3>1 DEF Reached, Live
    <3>2. CASE t = s
      BY <1>2, <1>4, <1>6, <2>b, <2>2, <3>2 DEF Reached, Live
    <3>3. QED BY <3>1, <3>2
  <2>3. CASE k \notin Given(sub[t].owner)
    <3>1. sub[t].owner = n
      BY <1>9, <2>1, <2>3 DEF Given
    <3>2. k > group[n].last /\ (k = m \/ k \in Settled(n)) /\ k \in Nat
      BY <1>13, <2>1, <2>3, <3>1, Bounds DEF Given
    <3>3. CASE k \in Settled(n)
      BY <1>10, <2>1, <3>1, <3>3 DEF Held
    <3>4. CASE k = m
      <4>1. TidyOf(sub[t], group[n])
        BY <1>t, <2>1, <3>1 DEF Tidy, TidyOf
      <4>2. sub[t].cursor \in Nat /\ sub[t].msg \in Nat /\ sub[t].end \in Nat
        BY <1>t, OrderNumbers DEF TypeOK, Subscription
      <4>3. t = s \/ Overlap(t, s)'
        <5>1. CASE t # s
          <6>1. sub'[t] = sub[t] /\ ~sub[t].complete /\ Live(t) /\ ~sub[t].pending
            <7>1. sub'[t] = sub[t]
              BY <1>6, <5>1
            <7>2. ~sub[t].complete
              <8>1. sub[t].complete => Beyond(t, k)
                BY <1>8, <3>1, <3>2, <4>1, <4>2, BeyondStays DEF TidyOf, Beyond
              <8>2. QED BY <2>b, <7>1, <8>1 DEF Reached
            <7>3. Live(t)
              BY <7>1, <7>2 DEF Reached, Live
            <7>4. sub[t].pc = "handle" => sub[t].msg <= group[n].last
              BY <1>t, <2>1, <3>1 DEF LoopsOrdered, InOrder
            <7>5. ~sub[t].pending
              BY <1>8, <3>2, <4>1, <4>2, <7>1, <7>2, <7>4 DEF Reached, TidyOf
            <7>6. QED BY <7>1, <7>2, <7>3, <7>5
          <6>2. sub[t].abandoned \/ sub[s].abandoned
            <7>1. Live(s)
              BY <1>2 DEF Live
            <7>2. sub[t].abandoned \/ subs[n] = t
              BY <1>t, <3>1, <6>1 DEF LoopsTracked
            <7>3. sub[s].abandoned \/ subs[n] = s
              BY <1>t, <1>7, <7>1 DEF LoopsTracked
            <7>4. QED BY <5>1, <7>2, <7>3
          <6>3. QED BY <1>4, <1>6, <5>1, <6>1, <6>2 DEF Overlap, Fixed
        <5>2. QED BY <5>1
      <4>4. InHand(t, s, k)'
        BY <1>4, <1>6, <3>4, <4>3 DEF InHand
      <4>5. sub'[s].owner = sub'[t].owner
        BY <1>4, <1>6, <1>7, <2>1, <3>1 DEF Fixed
      <4>6. QED BY <4>4, <4>5 DEF Held, HeldBy
    <3>5. QED BY <3>2, <3>3, <3>4
  <2>4. QED BY <2>2, <2>3
<1>16. Window'
  BY <1>t, <1>2, <1>11, <1>12, <1>14, <1>15, WindowFrame
<1>17. TidyOf(r, group'[x.owner])
  <2>1. TidyOf(x, group'[n])
    <3>1. TidyOf(x, group[n]) /\ group[n].exists
      BY <1>2, <1>7, <1>t DEF Tidy, TidyOf, Backed
    <3>2. QED BY <1>t, <1>12, <3>1, TidyGrows
  <2>2. group'[n].start < m
    BY <1>9, <1>12
  <2>3. QED BY <1>4, <1>7, <2>1, <2>2 DEF TidyOf, Fixed
<1>18. UNCHANGED startPc
  BY <1>3 DEF SetSub, object
<1>19. QED BY <1>t, <1>2, <1>4, <1>6, <1>12, <1>16, <1>17, <1>18, TidyOne DEF Fixed

-----------------------------------------------------------------------------
(* The other steps *)

LEMMA LoopCovers ==
    ASSUME Before, NEW s \in Subs,
           LoopStep(s) \/ WatchDone(s) \/ \E m \in Ids : DispatchStep(s, m)
    PROVE  Window' /\ Tidy'
<1>1. CASE LoopStep(s)
  <2>1. CASE IssueRead(s)
    <3>1. sub[s].pc # "none"
      BY <2>1 DEF IssueRead
    <3>2. QED BY <2>1, <3>1, QuietCovers
  <2>2. QED
    BY <1>1, <2>1, ExitCovers, PendingCovers, NewCovers, LostCovers, NothingCovers,
       InvalidCovers, ExceededCovers, DispatchCovers DEF LoopStep
<1>2. CASE WatchDone(s) \/ \E m \in Ids : DispatchStep(s, m)
  <2>1. sub[s].watching \/ sub[s].running # {} \/ sub[s].returned # {}
    BY <1>2 DEF WatchDone, DispatchStep, DispatchReturn, Ack, AckLost
  <2>2. sub[s].pc # "none"
    BY <2>1, BeforeParts DEF Tidy, TidyOf, NoSub
  <2>3. QED BY <1>2, <2>2, QuietCovers
<1>3. QED BY <1>1, <1>2

\* Marking a subscription as cancelled or abandoned.
Marked(s) ==
    /\ \A t \in Subs : t # s => sub'[t] = sub[t]
    /\ sub'[s].owner = sub[s].owner /\ sub'[s].end = sub[s].end
    /\ sub[s].abandoned => sub'[s].abandoned
    /\ sub'[s].complete = sub[s].complete /\ sub'[s].running = sub[s].running
    /\ sub'[s].pending = sub[s].pending /\ sub'[s].cursor = sub[s].cursor
    /\ sub'[s].pc = sub[s].pc /\ sub'[s].msg = sub[s].msg

LEMMA MarkMarks ==
    ASSUME TypeOK, NEW s \in Subs,
           \/ sub' = [sub EXCEPT ![s].cancelled = TRUE]
           \/ sub' = [sub EXCEPT ![s].abandoned = TRUE]
    PROVE  Marked(s)
<1>1. sub \in [Subs -> Subscription] /\ sub[s] \in Subscription
  BY DEF TypeOK
<1>2. QED BY <1>1 DEF Marked, Subscription

LEMMA MarkCovers ==
    ASSUME Before, NEW s \in Subs, sub[s].pc # "none", Marked(s),
           UNCHANGED <<server, group, inst, processed, faults, startPc>>
    PROVE  Window' /\ Tidy'
<1> DEFINE x == sub[s]
<1>t. /\ TypeOK /\ TypeOK' /\ Backed /\ Tidy /\ Window /\ PendingRead
      /\ x \in Subscription /\ trimmed <= trimmed
  BY BeforeParts, SubFields, BoundsAssumption DEF TypeOK
<1>1. UNCHANGED <<bad, trimmed>>
  BY DEF server
<1>2. Keeping /\ Forward /\ \A n \in Names : Given(n)' = Given(n)
  BY <1>t, <1>1, KeepSame, SameOrder
<1>3. Handover(s)
  BY DEF Handover, Marked
<1>b. \A m : Beyond(s, m)' <=> Beyond(s, m)
  BY <1>t, <1>2, BeyondKept DEF Marked
<1>4. \A m : Reached(s, m)' => Reached(s, m)
  BY <1>b DEF Reached, Live, Marked
<1>5. Window'
  BY <1>t, <1>2, <1>3, <1>4, WindowOne DEF Marked
<1>6. TidyOf(sub'[s], group'[x.owner])
  <2>1. TidyOf(x, group[x.owner])
    BY <1>t DEF Tidy, TidyOf
  <2>2. QED BY <2>1 DEF TidyOf, Marked
<1>7. QED BY <1>t, <1>2, <1>5, <1>6, TidyOne DEF Marked

\* A new subscription is past nothing, and its group stays if there was one.
LEMMA SubscribeCovers ==
    ASSUME Before, NEW n \in Names, NEW b \in BoundChoices, Subscribe(n, b)
    PROVE  Window' /\ Tidy'
<1>t. /\ TypeOK /\ TypeOK' /\ Backed /\ Tidy /\ Window /\ PendingRead
  BY BeforeParts
<1>1. PICK s \in Subs : sub[s].pc = "none" /\ sub' = [sub EXCEPT ![s] = NewSub(n, b)]
  BY DEF Subscribe
<1>2. sub'[s] = NewSub(n, b) /\ \A t \in Subs : t # s => sub'[t] = sub[t]
  BY <1>1, <1>t DEF TypeOK
<1>3. /\ NewSub(n, b).owner = n /\ NewSub(n, b).pc = "check" /\ NewSub(n, b).cursor = 0
      /\ NewSub(n, b).pending = TRUE /\ NewSub(n, b).complete = FALSE
  BY DEF NewSub, NoSub, ReadsPendingFirst
<1>4. /\ XGroupCreate(n, b) /\ UNCHANGED <<inst, bad, trimmed, processed, faults>>
      /\ startPc' = startPc /\ startPc = "serving"
  BY DEF Subscribe, MaySubscribe, server, history
<1>5. /\ \A k \in Names : group[k].exists => group'[k] = group[k]
      /\ \A k \in Names : group'[k].pel = group[k].pel
  BY <1>t, <1>4 DEF XGroupCreate, TypeOK, Backed
<1>6. Keeping /\ Forward
  <2>1. \A k \in Names : Settled(k)' = Settled(k)
    BY <1>4 DEF Settled
  <2>2. QED BY <1>t, <1>4, <1>5, <2>1, CreateOrder DEF Keeping
<1>7. ASSUME NEW t \in Subs, sub[t].pc # "none"
      PROVE  Handover(t)
  BY <1>1, <1>2, <1>7 DEF Handover
<1>8. ASSUME NEW t \in Subs, sub'[t].pc # "none"
      PROVE  Advance(t)
  <2>1. CASE t = s
    <3>1. \A m \in Ids : ~Reached(t, m)'
      BY <1>2, <1>3, <2>1, Bounds DEF Reached, Ids
    <3>2. QED BY <3>1 DEF Advance, Given
  <2>2. CASE t # s
    <3>1. sub'[t] = sub[t] /\ sub[t].owner \in Names /\ group[sub[t].owner].exists
      BY <1>t, <1>2, <1>8, <2>2, SubFields DEF Coherent, Backed
    <3>b. \A m : Beyond(t, m)' <=> Beyond(t, m)
      BY <1>t, <1>6, <1>8, <3>1, BeyondKept
    <3>2. \A m : Reached(t, m)' => Reached(t, m)
      BY <3>1, <3>b DEF Reached, Live
    <3>3. Given(sub[t].owner)' = Given(sub[t].owner)
      BY <1>5, <3>1 DEF Given
    <3>4. QED BY <1>8, <3>1, <3>2, <3>3 DEF Advance
  <2>3. QED BY <2>1, <2>2
<1>9. Window'
  BY <1>t, <1>4, <1>6, <1>7, <1>8, WindowFrame
<1>10. Tidy'
  <2>1. ASSUME NEW t \in Subs, t # s
        PROVE  /\ sub'[t].pc = "none" => sub'[t] = NoSub
               /\ sub'[t].pc # "none" => TidyOf(sub'[t], group'[sub'[t].owner])
    <3>1. sub'[t] = sub[t]
      BY <1>2, <2>1
    <3>2. CASE sub[t].pc = "none"
      BY <1>t, <3>1, <3>2 DEF Tidy, TidyOf
    <3>3. CASE sub[t].pc # "none"
      <4>1. group'[sub[t].owner] = group[sub[t].owner]
        BY <1>t, <1>5, <3>3, SubFields DEF Coherent, Backed
      <4>2. QED BY <1>t, <3>1, <3>3, <4>1 DEF Tidy, TidyOf
    <3>4. QED BY <3>2, <3>3
  <2>2. group'[n].last \in Nat
    BY <1>t DEF TypeOK, Group
  <2>3. TidyOf(sub'[s], group'[n])
    BY <1>2, <1>3, <2>2 DEF TidyOf
  <2>4. QED BY <1>2, <1>3, <1>4, <2>1, <2>3 DEF Tidy, TidyOf
<1>11. QED BY <1>9, <1>10

\* A step that leaves the subscription objects and the groups alone.
LEMMA ElseCovers ==
    ASSUME Before, UNCHANGED <<group, inst, processed, faults, sub>>,
           bad \subseteq bad', trimmed <= trimmed',
           startPc' = "down" => startPc = "down"
    PROVE  Window' /\ Tidy'
<1>t. /\ TypeOK /\ TypeOK' /\ Backed /\ Tidy /\ Window /\ PendingRead
  BY BeforeParts
<1>1. \A n \in Names : processed[n] \subseteq processed'[n]
  OBVIOUS
<1>2. Keeping /\ Forward /\ \A n \in Names : Given(n)' = Given(n)
  BY <1>t, <1>1, KeepSame, SameOrder
<1>3. \A t \in Subs : sub[t].pc # "none" => Handover(t)
  BY DEF Handover
<1>4. ASSUME NEW t \in Subs, sub'[t].pc # "none"
      PROVE  Advance(t)
  <2>1. sub[t].owner \in Names /\ sub[t].pc # "none"
    BY <1>t, <1>4, SubFields DEF Coherent
  <2>b. \A m : Beyond(t, m)' <=> Beyond(t, m)
    BY <1>t, <1>2, <2>1, BeyondKept
  <2>2. \A m : Reached(t, m)' => Reached(t, m)
    BY <2>b DEF Reached, Live
  <2>3. Given(sub[t].owner)' = Given(sub[t].owner)
    BY DEF Given
  <2>4. QED BY <2>1, <2>2, <2>3 DEF Advance
<1>5. Window'
  BY <1>t, <1>2, <1>3, <1>4, WindowFrame
<1>6. Tidy'
  BY <1>t DEF Tidy
<1>7. QED BY <1>5, <1>6

-----------------------------------------------------------------------------
LEMMA InitCoverInv == Init => CoverInv
<1> SUFFICES ASSUME Init PROVE CoverInv
  OBVIOUS
<1>1. SInv /\ Tracking
  BY InitSInv, InitMInv DEF MInv
<1>2. /\ \A s \in Subs : sub[s] = NoSub
      /\ startPc = "init"
  BY DEF Init
<1>3. NoSub.pc = "none"
  BY DEF NoSub
<1>4. Tidy /\ Window
  BY <1>2, <1>3 DEF Tidy, Window
<1>5. QED BY <1>1, <1>4 DEF CoverInv

LEMMA NextCoverInv == CoverInv /\ [Next]_vars => CoverInv'
<1> SUFFICES ASSUME CoverInv, [Next]_vars PROVE CoverInv'
  OBVIOUS
<1>t. TypeOK /\ SInv' /\ Tracking' /\ TypeOK'
  <2>1. TypeOK /\ MInv
    BY DEF CoverInv, SInv, CInv, IInv, MInv
  <2>2. SInv' /\ MInv'
    BY <2>1, NextSInv, NextMInv DEF CoverInv
  <2>3. QED BY <2>1, <2>2 DEF MInv
<1>b. Before
  BY <1>t DEF Before, CoverInv
<1>n. trimmed <= trimmed /\ Tracking
  BY <1>t, BoundsAssumption DEF TypeOK, CoverInv
<1> SUFFICES Window' /\ Tidy'
  BY <1>t DEF CoverInv
\* A subscription of the map exists.
<1>m. ASSUME NEW n \in Names, subs[n] \in Subs
      PROVE  sub[subs[n]].pc # "none"
  BY <1>n, <1>m, NamesAssumption DEF Tracking, MapsOwner
<1>1. CASE Produce \/ ForeignAdd
  <2>1. /\ UNCHANGED <<group, inst, processed, faults, sub, startPc>>
        /\ bad \subseteq bad' /\ trimmed <= trimmed'
    BY <1>t, <1>1, XAddType DEF Produce, ForeignAdd, object, history
  <2>2. QED BY <1>b, <2>1, ElseCovers
<1>2. ASSUME NEW n \in Names, subs[n] \in Subs, CancelAndWait(n)
      PROVE  Window' /\ Tidy'
  <2>1. PICK s \in Subs : s = subs[n]
    BY <1>2
  <2>2. /\ sub' = [sub EXCEPT ![s].cancelled = TRUE]
        /\ UNCHANGED <<server, group, inst, processed, faults, startPc>>
    BY <1>2, <2>1 DEF CancelAndWait, history
  <2>3. Marked(s)
    BY <1>t, <2>2, MarkMarks
  <2>4. QED BY <1>b, <1>m, <1>2, <2>1, <2>2, <2>3, MarkCovers
<1>3. ASSUME NEW n \in Names, ManagerStep(n)
      PROVE  Window' /\ Tidy'
  <2>1. ASSUME NEW b \in BoundChoices, SubscribeReplyLost(n, b)
        PROVE  Window' /\ Tidy'
    <3>1. UNCHANGED sub /\ XGroupCreate(n, b) /\ faults' = faults + 1 /\ UNCHANGED startPc
      BY <2>1 DEF SubscribeReplyLost, object
    <3>2. Window'
      BY <1>t, <3>1 DEF Window, TypeOK
    <3>3. Backed /\ Tidy
      BY <1>b, BeforeParts
    <3>4. \A s \in Subs : sub[s].pc # "none" => group'[sub[s].owner] = group[sub[s].owner]
      <4>1. \A k \in Names : group[k].exists => group'[k] = group[k]
        BY <1>t, <3>1 DEF XGroupCreate, TypeOK
      <4>2. QED BY <1>t, <3>3, <4>1, SubFields DEF Backed, Coherent
    <3>5. Tidy'
      BY <3>1, <3>3, <3>4 DEF Tidy, TidyOf
    <3>6. QED BY <3>2, <3>5
  <2>2. CASE Unsubscribe(n)
    <3>1. CancelAndWait(n) /\ subs[n] \in Subs
      BY <1>t, <2>2 DEF Unsubscribe, Subscribed, TypeOK
    <3>2. QED BY <1>2, <3>1
  <2>3. QED BY <1>b, <1>3, <2>1, <2>2, SubscribeCovers DEF ManagerStep
<1>4. CASE UnsubscribeTimeout
  <2>1. PICK s \in Subs : s = waitFor
    BY <1>t, <1>4 DEF UnsubscribeTimeout, TypeOK
  <2>2. /\ sub' = [sub EXCEPT ![s].abandoned = TRUE]
        /\ UNCHANGED <<server, group, inst, processed, faults, startPc>>
    BY <1>4, <2>1 DEF UnsubscribeTimeout, history
  <2>3. Marked(s)
    BY <1>t, <2>2, MarkMarks
  <2>4. PICK n \in Names : subs[n] = s
    BY <1>n, <2>1, NamesAssumption DEF Tracking, WaitsHeld
  <2>5. QED BY <1>b, <1>m, <2>2, <2>3, <2>4, MarkCovers
<1>5. CASE StartSteps \/ Disconnect \/ UnsubscribeStopped
  <2>1. ASSUME NEW n \in Names, Drain(n)
        PROVE  Window' /\ Tidy'
    <3>1. CancelAndWait(n) /\ subs[n] \in Subs
      BY <1>t, <2>1 DEF Drain, Subscribed, TypeOK
    <3>2. QED BY <1>2, <3>1
  <2>2. CASE SetContext \/ Disconnect \/ LockForDrain \/ CloseClient \/ UnsubscribeStopped
    <3>1. /\ UNCHANGED <<group, inst, processed, faults, sub, server>>
          /\ startPc' = "down" => startPc = "down"
      BY <2>2 DEF SetContext, Disconnect, LockForDrain, CloseClient, StartStep,
         UnsubscribeStopped, history
    <3>2. QED BY <1>b, <1>n, <3>1, ElseCovers DEF server
  <2>3. QED BY <1>5, <2>1, <2>2 DEF StartSteps
<1>6. ASSUME NEW s \in Subs,
             LoopStep(s) \/ WatchDone(s) \/ \E m \in Ids : DispatchStep(s, m)
      PROVE  Window' /\ Tidy'
  BY <1>b, <1>6, LoopCovers
\* Without a process nobody is past anything.
<1>7. CASE Crash \/ Restart
  <2>1. \A s \in Subs : sub'[s].pc = "none" /\ sub'[s] = NoSub
    <3>1. CASE Crash
      BY <3>1 DEF Crash, ProcessEnds, NoSub
    <3>2. CASE Restart
      BY <1>b, <3>2, BeforeParts DEF Restart, Tidy, TidyOf
    <3>3. QED BY <1>7, <3>1, <3>2
  <2>2. QED BY <2>1 DEF Window, Tidy, NoSub
<1>8. CASE UNCHANGED vars
  <2>1. UNCHANGED <<group, inst, processed, faults, sub, server, startPc>>
    BY <1>8 DEF vars, object, history
  <2>2. QED BY <1>b, <1>n, <2>1, ElseCovers DEF server
<1>9. QED BY <1>1, <1>3, <1>4, <1>5, <1>6, <1>7, <1>8 DEF Next

\* A replay reports Complete only when every entry its group was given before
\* the end is settled or accounted for, however often its trigger is removed and
\* added, the process restarts or another loop of the trigger lingers, and for
\* all IDs; those it leaves come with or after an entry that the comparison of
\* texts puts past the end (subscription.go:33, :112, :149-159, :170-187).
THEOREM CompleteCovers == Spec => []CompleteCoversWindow
<1>1. QED BY InitCoverInv, NextCoverInv, WindowSuffices, PTL DEF Spec
=============================================================================
