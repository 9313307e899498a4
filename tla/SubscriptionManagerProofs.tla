---------------------- MODULE SubscriptionManagerProofs ----------------------
(***************************************************************************)
(* What SubscriptionManager guarantees for every number of triggers,       *)
(* configurations, updates and dispatches.                                 *)
(***************************************************************************)
EXTENDS SubscriptionManager, FiniteSetTheorems, TLAPS

\* Subscriber objects are created once for a name and an update.
Counted ==
    /\ \A n \in Names : object[n] <= updates
    /\ pc \in {"delete", "unsubscribe", "forget"} => \A n \in Names : object[n] < updates
    /\ pc \in {"create", "locking"} => \A n \in todo : object[n] < updates
    /\ pc = "ready" => \A n \in todo \ {name} : object[n] < updates

\* The second loop of an update visits configured triggers.
Planned ==
    /\ pc \in {"create", "ready", "locking"} => \A n \in todo : config[n] # None
    /\ pc = "locking" => config[name] \in Triggers \ Unparsable

\* A dispatch has read the trigger of its object, as it is now, or nothing: a
\* dispatch that has not got the read lock has read nothing.
UnderLock ==
    \A d \in Dispatches :
        LET r == dispatch[d]
        IN  /\ r.pc # "none" => /\ r.name \in Names /\ r.object <= object[r.name]
                                /\ trigger[r.name][r.object] \in Triggers
            /\ r.pc \in {"none", "spawned"} => r.saw = {}
            /\ r.saw \subseteq {trigger[r.name][r.object]}

\* The backend has a subscription for each subscriber, and the one being made.
Served ==
    /\ pc # "ready" => subscribed = subscribers
    /\ pc = "ready" => name \notin subscribers /\ subscribed = subscribers \cup {name}
    /\ pc = "forget" => name \notin subscribers
    /\ pc = "locking" => name \in subscribers

\* A backend that waits in Unsubscribe leaves no dispatch behind.
Quiet ==
    waits => \A d \in Dispatches : dispatch[d].pc # "none" => dispatch[d].name \in subscribed

Follows(n) ==
    IF n \in subscribers THEN config[n] # None /\ Current(n) = config[n]
    ELSE config[n] # None => status[n] # None

\* An update first removes what is not configured, then each trigger it has
\* visited is as configured.
Progress ==
    /\ pc \in {"delete", "unsubscribe", "forget"} =>
          \A n \in subscribers : config[n] = None => n \in todo
    /\ pc \in {"create", "ready", "locking"} =>
          /\ \A n \in subscribers : config[n] # None
          /\ \A n \in Names \ todo : Follows(n)
    /\ pc = "ready" => config[name] # None /\ Current(name) = config[name]
    /\ pc = "idle" /\ ~aborted => \A n \in Names : Follows(n)

\* Subscribers have a status.  Of a trigger without one, if no dispatch is left
\* behind, only a failure stays, once the update has removed its status.
Reported ==
    /\ \A n \in subscribers : status[n] # None
    /\ waits => \A n \in Names \ subscribed :
                   \/ status[n] = None \/ status[n].status = "Failed"
                   \/ pc = "forget" /\ n = name

Applied == Served /\ Quiet /\ Progress /\ Reported

IInv == TypeOK /\ Counted /\ Planned /\ UnderLock /\ Applied

Stamps == 0..MaxEvents
Statuses == [Names -> SubscriptionStatus(Stamps) \cup {None}]

-----------------------------------------------------------------------------
(* The cached status *)

LEMMA ReportTypes ==
    /\ ReadyStatus \in SubscriptionStatus(Stamps)
    /\ FailedStatus \in SubscriptionStatus(Stamps)
    /\ CompleteStatus \in SubscriptionStatus(Stamps)
    /\ \A t \in Stamps : RunningStatus(t) \in SubscriptionStatus(Stamps)
<1>1. 0 \in Stamps
  BY SubscriptionAssumption DEF Stamps
<1>2. QED
  BY <1>1 DEF SubscriptionStatus, ReadyStatus, FailedStatus, CompleteStatus, RunningStatus

LEMMA InformedType ==
    ASSUME NEW m \in Statuses, NEW n \in Names, NEW ss \in SubscriptionStatus(Stamps)
    PROVE  /\ Informed(m, n, ss) \in SubscriptionStatus(Stamps)
           /\ Informed(m, n, ss).status = ss.status
           /\ m[n] # None /\ m[n].stamp # 0 => Informed(m, n, ss).stamp # 0
<1>1. CASE m[n] = None
  BY <1>1 DEF Informed
<1>2. CASE m[n] # None
  <2> DEFINE stamp == IF ss.stamp = 0 THEN m[n].stamp ELSE ss.stamp
             message == IF ss.message = "" /\ ss.status = m[n].status
                        THEN m[n].message ELSE ss.message
  <2>1. m[n] \in SubscriptionStatus(Stamps)
    BY <1>2 DEF Statuses
  <2>2. /\ stamp \in Stamps /\ message \in {"", "failed"}
        /\ m[n].stamp # 0 => stamp # 0
    BY <2>1 DEF SubscriptionStatus
  <2>3. Merge(ss, m[n]) = [ss EXCEPT !.stamp = stamp, !.message = message]
    BY DEF Merge, SubscriptionStatus
  <2> HIDE DEF stamp, message
  <2>4. /\ Merge(ss, m[n]) \in SubscriptionStatus(Stamps)
        /\ Merge(ss, m[n]).status = ss.status /\ Merge(ss, m[n]).stamp = stamp
    BY <2>2, <2>3 DEF SubscriptionStatus
  <2>5. QED BY <1>2, <2>2, <2>4 DEF Informed
<1>3. QED BY <1>1, <1>2

LEMMA EnsuredType ==
    ASSUME NEW m \in Statuses, NEW n \in Names, NEW ss \in SubscriptionStatus(Stamps)
    PROVE  Ensured(m, n, ss) \in Statuses
BY InformedType DEF Ensured, Statuses

LEMMA EnsuredEntry ==
    ASSUME NEW m \in Statuses, NEW n \in Names, NEW ss \in SubscriptionStatus(Stamps)
    PROVE  /\ Ensured(m, n, ss)[n] # None
           /\ Ensured(m, n, ss)[n].status = ss.status
           /\ m[n] # None /\ m[n].stamp # 0 => Ensured(m, n, ss)[n].stamp # 0
           /\ \A k \in Names : k # n => Ensured(m, n, ss)[k] = m[k]
<1> DEFINE e == Ensured(m, n, ss)
<1>1. None \notin SubscriptionStatus(Stamps)
  <2>1. Stamps \subseteq Nat
    BY SubscriptionAssumption DEF Stamps
  <2>2. SubscriptionStatus(Stamps) \subseteq SubscriptionStatus(Nat)
    BY <2>1 DEF SubscriptionStatus
  <2>3. QED BY <2>2, StatusAssumption
<1>2. e[n] # None
  <2>1. (e[n] = m[n] /\ m[n] # None) \/ e[n] = Informed(m, n, ss)
    BY DEF Ensured, Statuses
  <2>2. Informed(m, n, ss) # None
    BY <1>1, InformedType
  <2>3. QED BY <2>1, <2>2
<1>3. e[n].status = ss.status
  <2>1. Informed(m, n, ss).status = ss.status
    BY InformedType
  <2>2. e[n] = Informed(m, n, ss) \/ EqualStatus(e[n], Informed(m, n, ss))
    BY DEF Ensured, Statuses
  <2>3. QED BY <2>1, <2>2 DEF EqualStatus, EqualSoftStatus
<1>4. ASSUME m[n] # None, m[n].stamp # 0
      PROVE  e[n].stamp # 0
  <2>1. Informed(m, n, ss).stamp # 0
    BY <1>4, InformedType
  <2>2. e[n] = Informed(m, n, ss) \/ e[n] = m[n]
    BY DEF Ensured, Statuses
  <2>3. QED BY <1>4, <2>1, <2>2
<1>5. \A k \in Names : k # n => e[k] = m[k]
  BY DEF Ensured, Statuses
<1>6. QED BY <1>2, <1>3, <1>4, <1>5

LEMMA RemovedType ==
    ASSUME NEW m \in Statuses, NEW n \in Names
    PROVE  Removed(m, n) \in Statuses
BY DEF Removed, Statuses

-----------------------------------------------------------------------------
(* Updates *)

\* What an update's step leaves to the invariant when it changes neither the
\* subscriber objects nor the dispatches.
LEMMA LockFrame ==
    ASSUME UnderLock, UNCHANGED <<objects, dispatch>>
    PROVE  UnderLock'
BY DEF UnderLock, objects

LEMMA InitIInv == Init => IInv
<1> SUFFICES ASSUME Init PROVE IInv
  OBVIOUS
<1>1. 0 \in Objects /\ 0 \in 0..MaxEvents /\ 0 \in 0..MaxUpdates /\ 0 \in 0..MaxFaults
  BY SubscriptionAssumption DEF Objects
<1>2. NoDispatch \in Dispatch
  BY <1>1 DEF NoDispatch, Dispatch
<1>3. TypeOK
  BY <1>1, <1>2 DEF Init, TypeOK, Configs, NoSubscriptions
<1>4. Counted /\ Planned
  BY DEF Init, Counted, Planned
<1>5. UnderLock
  BY DEF Init, UnderLock, NoDispatch
<1>6. Applied
  BY DEF Init, Applied, Served, Quiet, NoDispatch, Progress, Follows, Reported, NoSubscriptions
<1>7. QED BY <1>3, <1>4, <1>5, <1>6 DEF IInv

-----------------------------------------------------------------------------
(* Updates keep the types *)

LEMMA DeletingType ==
    ASSUME IInv,
           \/ \E c \in Configs : UpdateFromConfig(c)
           \/ \E n \in Names : CallUnsubscribe(n)
           \/ UnsubscribeReturns \/ Forget \/ DeleteDone
    PROVE  TypeOK'
<1>t. TypeOK /\ status \in Statuses
  BY DEF IInv, TypeOK, Statuses, Stamps
<1>1. ASSUME NEW c \in Configs, UpdateFromConfig(c)
      PROVE  TypeOK'
  <2>1. updates' \in 0..MaxUpdates
    BY <1>t, <1>1, SubscriptionAssumption DEF UpdateFromConfig, TypeOK
  <2>2. QED BY <1>t, <1>1, <2>1 DEF UpdateFromConfig, TypeOK, objects, Current
<1>2. ASSUME NEW n \in Names, CallUnsubscribe(n)
      PROVE  TypeOK'
  BY <1>t, <1>2 DEF CallUnsubscribe, Moves, TypeOK, objects, Current
<1>3. CASE UnsubscribeReturns
  BY <1>t, <1>3 DEF UnsubscribeReturns, Moves, TypeOK, objects, Current
<1>4. CASE Forget
  <2>1. name \in Names
    BY <1>t, <1>4 DEF Forget, Moves, TypeOK
  <2>2. status' \in Statuses
    BY <1>t, <1>4, <2>1, RemovedType DEF Forget, StatusAfterDelete
  <2>3. QED BY <1>t, <1>4, <2>2 DEF Forget, Moves, TypeOK, objects, Current, Statuses, Stamps
<1>5. CASE DeleteDone
  BY <1>t, <1>5 DEF DeleteDone, Moves, TypeOK, objects, Current
<1>6. QED BY <1>1, <1>2, <1>3, <1>4, <1>5

LEMMA CreatingType ==
    ASSUME IInv, NEW n \in Names,
           \/ CreateFails(n) \/ CreateSubscriber(n) \/ SkipEqual(n)
           \/ UpdateAborts(n) \/ CallUpdateTrigger(n)
    PROVE  TypeOK'
<1>t. TypeOK /\ status \in Statuses
  BY DEF IInv, TypeOK, Statuses, Stamps
<1>1. CASE CreateFails(n)
  <2>1. status' \in Statuses
    BY <1>t, <1>1, EnsuredType, ReportTypes DEF CreateFails
  <2>2. faults' \in 0..MaxFaults
    BY <1>t, <1>1, SubscriptionAssumption DEF CreateFails, TypeOK
  <2>3. QED
    BY <1>t, <1>1, <2>1, <2>2
    DEF CreateFails, Moves, Done, TypeOK, objects, Current, Statuses, Stamps
<1>2. CASE CreateSubscriber(n)
  <2>1. config[n] \in Triggers \ Unparsable
    BY <1>t, <1>2 DEF IInv, Planned, CreateSubscriber, Moves, TypeOK, Configs, Parses
  <2>2. object[n] + 1 \in Objects /\ object[n] \in Nat
    BY <1>t, <1>2, SubscriptionAssumption
    DEF IInv, Counted, CreateSubscriber, Moves, TypeOK, Objects
  <2>3. object' \in [Names -> Objects] /\ object'[n] = object[n] + 1
        /\ \A k \in Names : k # n => object'[k] = object[k]
    BY <1>t, <1>2, <2>2 DEF CreateSubscriber, TypeOK
  <2>4. trigger' \in [Names -> [Objects -> Triggers \cup {None}]]
        /\ trigger'[n][object[n] + 1] = config[n]
        /\ \A k \in Names : k # n => trigger'[k] = trigger[k]
    BY <1>t, <1>2, <2>1, <2>2 DEF CreateSubscriber, TypeOK
  <2>5. \A k \in subscribed' : Current(k)' \in Triggers \ Unparsable
    BY <1>t, <1>2, <2>1, <2>3, <2>4 DEF CreateSubscriber, TypeOK, Current
  <2>6. QED
    BY <1>t, <1>2, <2>3, <2>4, <2>5 DEF CreateSubscriber, Moves, TypeOK
<1>3. CASE SkipEqual(n)
  BY <1>t, <1>3 DEF SkipEqual, Moves, Done, TypeOK, objects, Current
<1>4. CASE UpdateAborts(n)
  BY <1>t, <1>4 DEF UpdateAborts, Moves, TypeOK, objects, Current
<1>5. CASE CallUpdateTrigger(n)
  BY <1>t, <1>5 DEF CallUpdateTrigger, Moves, TypeOK, objects, Current
<1>6. QED BY <1>1, <1>2, <1>3, <1>4, <1>5

LEMMA FinishingType ==
    ASSUME IInv, SubscriberReady \/ UpdateTrigger \/ UpdateReturns
    PROVE  TypeOK'
<1>t. TypeOK /\ status \in Statuses
  BY DEF IInv, TypeOK, Statuses, Stamps
<1>1. CASE SubscriberReady
  <2>1. name \in Names
    BY <1>t, <1>1 DEF SubscriberReady, Moves, TypeOK
  <2>2. status' \in Statuses
    BY <1>t, <1>1, <2>1, EnsuredType, ReportTypes DEF SubscriberReady
  <2>3. QED
    BY <1>t, <1>1, <2>1, <2>2
    DEF SubscriberReady, Moves, Done, TypeOK, objects, Current, Statuses, Stamps
<1>2. CASE UpdateTrigger
  <2>1. name \in Names /\ config[name] \in Triggers \ Unparsable
        /\ object[name] \in Objects
    BY <1>t, <1>2 DEF IInv, Planned, UpdateTrigger, Moves, TypeOK
  <2>2. /\ trigger' \in [Names -> [Objects -> Triggers \cup {None}]]
        /\ trigger'[name][object[name]] = config[name]
        /\ \A k \in Names : k # name => trigger'[k] = trigger[k]
    BY <1>t, <1>2, <2>1 DEF UpdateTrigger, TypeOK
  <2>3. \A k \in subscribed' : Current(k)' \in Triggers \ Unparsable
    BY <1>t, <1>2, <2>1, <2>2 DEF UpdateTrigger, TypeOK, Current
  <2>4. QED BY <1>t, <1>2, <2>2, <2>3 DEF UpdateTrigger, Moves, Done, TypeOK
<1>3. CASE UpdateReturns
  BY <1>t, <1>3 DEF UpdateReturns, Moves, TypeOK, objects, Current
<1>4. QED BY <1>1, <1>2, <1>3

LEMMA DispatchType ==
    ASSUME IInv, NEW d \in Dispatches,
           DispatchStep(d) \/ \E n \in Names : Spawn(d, n)
    PROVE  TypeOK'
<1> DEFINE r == dispatch[d]
<1>t. TypeOK /\ status \in Statuses /\ r \in Dispatch
  BY DEF IInv, TypeOK, Statuses, Stamps
<1>0. events \in 0..MaxEvents /\ MaxEvents \in Nat
  BY <1>t, SubscriptionAssumption DEF TypeOK
<1>1. ASSUME NEW q \in Dispatch, DispatchMoves(d, q), status' \in Statuses,
             events' \in 0..MaxEvents
      PROVE  TypeOK'
  BY <1>t, <1>1
  DEF DispatchMoves, TypeOK, manager, objects, Current, Statuses, Stamps
<1>2. ASSUME NEW n \in Names, Spawn(d, n)
      PROVE  TypeOK'
  <2> DEFINE q == [NoDispatch EXCEPT !.pc = "spawned", !.name = n, !.object = object[n]]
  <2>1. q \in Dispatch
    <3>1. NoDispatch \in Dispatch
      BY <1>0, SubscriptionAssumption DEF NoDispatch, Dispatch, Objects
    <3>2. object[n] \in Objects
      BY <1>t DEF TypeOK
    <3>3. QED BY <3>1, <3>2 DEF Dispatch
  <2>2. DispatchMoves(d, q) /\ status' = status
    BY <1>2 DEF Spawn
  <2>3. events' \in 0..MaxEvents
    <3>1. events' = events + 1 /\ events < MaxEvents
      BY <1>2 DEF Spawn
    <3>2. QED BY <1>0, <3>1
  <2> HIDE DEF q
  <2>4. QED BY <1>t, <1>1, <2>1, <2>2, <2>3
<1>3. CASE ReadLock(d)
  <2>1. [r EXCEPT !.pc = "filter"] \in Dispatch
    BY <1>t DEF Dispatch
  <2>2. QED BY <1>t, <1>0, <1>1, <1>3, <2>1 DEF ReadLock
<1>4. ASSUME NEW from, NEW choices, choices \subseteq {"target", "report", "deadletter"},
             Reads(d, from, choices), r.pc # "none"
      PROVE  TypeOK'
  <2>1. PICK to \in choices :
          DispatchMoves(d, [r EXCEPT !.pc = to, !.saw = @ \cup {trigger[r.name][r.object]}])
    BY <1>4 DEF Reads
  <2>2. trigger[r.name][r.object] \in Triggers
    BY <1>4 DEF IInv, UnderLock
  <2>3. [r EXCEPT !.pc = to, !.saw = @ \cup {trigger[r.name][r.object]}] \in Dispatch
    <3>1. r.saw \cup {trigger[r.name][r.object]} \in SUBSET Triggers
      BY <1>t, <2>2 DEF Dispatch
    <3>2. QED BY <1>t, <1>4, <3>1 DEF Dispatch
  <2>4. QED BY <1>t, <1>0, <1>1, <1>4, <2>1, <2>3 DEF Reads
<1>5. CASE Filter(d) \/ Target(d) \/ DeadLetter(d)
  <2>1. r.pc # "none"
    BY <1>5 DEF Filter, Target, DeadLetter, Reads
  <2>2. QED BY <1>4, <1>5, <2>1 DEF Filter, Target, DeadLetter
<1>6. CASE TakeTime(d)
  <2>1. [r EXCEPT !.pc = "unlock", !.time = events] \in Dispatch
    BY <1>t, <1>0 DEF Dispatch
  <2>2. QED BY <1>t, <1>0, <1>1, <1>6, <2>1 DEF TakeTime
<1>7. CASE ReportRunning(d)
  <2>1. r.time \in Stamps /\ r.name \in Names
    BY <1>t, <1>7 DEF ReportRunning, Dispatch, Stamps, IInv, UnderLock
  <2>2. status' \in Statuses
    BY <1>t, <1>7, <2>1, ReportTypes, EnsuredType DEF ReportRunning
  <2>3. NoDispatch \in Dispatch
    BY <1>0, SubscriptionAssumption DEF NoDispatch, Dispatch, Objects
  <2>4. QED BY <1>0, <1>1, <1>7, <2>2, <2>3 DEF ReportRunning, AfterReport
<1>8. QED BY <1>2, <1>3, <1>5, <1>6, <1>7 DEF DispatchStep

LEMMA CompleteType ==
    ASSUME IInv, NEW n \in Names, Complete(n)
    PROVE  TypeOK'
<1>t. TypeOK /\ status \in Statuses
  BY DEF IInv, TypeOK, Statuses, Stamps
<1>1. status' \in Statuses
  BY <1>t, EnsuredType, ReportTypes DEF Complete
<1>2. events' \in 0..MaxEvents
  BY <1>t, SubscriptionAssumption DEF Complete, TypeOK
<1>3. QED
  BY <1>t, <1>1, <1>2 DEF Complete, TypeOK, manager, objects, Current, Statuses, Stamps

LEMMA NextType == IInv /\ [Next]_vars => TypeOK'
<1> SUFFICES ASSUME IInv, [Next]_vars PROVE TypeOK'
  OBVIOUS
<1>1. CASE UNCHANGED vars
  BY <1>1 DEF IInv, TypeOK, vars, manager, objects, Current
<1>2. CASE UpdateStep
  BY <1>2, DeletingType, CreatingType, FinishingType DEF UpdateStep
<1>3. QED
  BY <1>1, <1>2, DeletingType, DispatchType, CompleteType DEF Next

-----------------------------------------------------------------------------
(* Subscriber objects *)

\* Steps of an update that leave the subscriber objects and the dispatches.
LEMMA UpdateCounted ==
    ASSUME IInv, (\E c \in Configs : UpdateFromConfig(c)) \/ UpdateStep
    PROVE  Counted' /\ Planned'
<1>t. TypeOK /\ Counted /\ Planned
  BY DEF IInv
<1>0. /\ object \in [Names -> Objects] /\ updates \in Nat
      /\ \A n \in Names : object[n] \in Nat
  BY <1>t, SubscriptionAssumption DEF TypeOK, Objects
<1>1. ASSUME NEW c \in Configs, UpdateFromConfig(c)
      PROVE  Counted' /\ Planned'
  BY <1>t, <1>0, <1>1 DEF UpdateFromConfig, Counted, Planned, objects
<1>2. ASSUME NEW n \in Names, CallUnsubscribe(n)
      PROVE  Counted' /\ Planned'
  BY <1>t, <1>2 DEF CallUnsubscribe, Moves, Counted, Planned, objects
<1>3. CASE UnsubscribeReturns \/ Forget
  BY <1>t, <1>3 DEF UnsubscribeReturns, Forget, Moves, Counted, Planned, objects
<1>4. CASE DeleteDone
  BY <1>t, <1>4 DEF DeleteDone, Moves, Counted, Planned, objects
<1>5. ASSUME NEW n \in Names, CreateFails(n) \/ SkipEqual(n)
      PROVE  Counted' /\ Planned'
  BY <1>t, <1>5 DEF CreateFails, SkipEqual, Moves, Done, Counted, Planned, objects
<1>6. ASSUME NEW n \in Names, CreateSubscriber(n)
      PROVE  Counted' /\ Planned'
  <2>1. /\ object'[n] = object[n] + 1 /\ object[n] < updates
        /\ \A k \in Names : k # n => object'[k] = object[k]
    BY <1>t, <1>0, <1>6 DEF CreateSubscriber, Moves, Counted
  <2>2. QED BY <1>t, <1>0, <1>6, <2>1 DEF CreateSubscriber, Moves, Counted, Planned, TypeOK
<1>7. ASSUME NEW n \in Names, UpdateAborts(n)
      PROVE  Counted' /\ Planned'
  BY <1>t, <1>7 DEF UpdateAborts, Moves, Counted, Planned, objects
<1>8. ASSUME NEW n \in Names, CallUpdateTrigger(n)
      PROVE  Counted' /\ Planned'
  <2>1. config[n] \in Triggers \ Unparsable
    BY <1>t, <1>8 DEF CallUpdateTrigger, Moves, Planned, TypeOK, Configs, Parses
  <2>2. QED BY <1>t, <1>8, <2>1 DEF CallUpdateTrigger, Moves, Counted, Planned, objects
<1>9. CASE SubscriberReady
  BY <1>t, <1>9 DEF SubscriberReady, Moves, Done, Counted, Planned, objects
<1>10. CASE UpdateTrigger
  BY <1>t, <1>10 DEF UpdateTrigger, Moves, Done, Counted, Planned
<1>11. CASE UpdateReturns
  BY <1>t, <1>11 DEF UpdateReturns, Moves, Counted, Planned, objects
<1>12. QED
  BY <1>1, <1>2, <1>3, <1>4, <1>5, <1>6, <1>7, <1>8, <1>9, <1>10, <1>11 DEF UpdateStep

LEMMA UpdateUnderLock ==
    ASSUME IInv, (\E c \in Configs : UpdateFromConfig(c)) \/ UpdateStep
    PROVE  UnderLock'
<1>t. TypeOK /\ Counted /\ Planned /\ UnderLock
  BY DEF IInv
<1>0. /\ object \in [Names -> Objects] /\ \A n \in Names : object[n] \in Nat
      /\ trigger \in [Names -> [Objects -> Triggers \cup {None}]]
      /\ dispatch \in [Dispatches -> Dispatch]
  BY <1>t, SubscriptionAssumption DEF TypeOK, Objects
<1>1. CASE UNCHANGED <<objects, dispatch>>
  BY <1>t, <1>1, LockFrame
\* A new object is not the object of any dispatch yet.
<1>2. ASSUME NEW n \in Names, CreateSubscriber(n)
      PROVE  UnderLock'
  <2>1. /\ object'[n] = object[n] + 1 /\ object[n] + 1 \in Objects
        /\ \A k \in Names : k # n => object'[k] = object[k]
        /\ dispatch' = dispatch
    BY <1>t, <1>0, <1>2, SubscriptionAssumption
    DEF CreateSubscriber, Moves, Counted, Objects, TypeOK
  <2>2. \A k \in Names, o \in Objects :
          o <= object[k] => trigger'[k][o] = trigger[k][o]
    BY <1>0, <1>2, <2>1 DEF CreateSubscriber, Objects
  <2>3. ASSUME NEW d \in Dispatches, dispatch[d].pc # "none"
        PROVE  LET r == dispatch[d]
               IN  /\ r.name \in Names /\ r.object <= object'[r.name]
                   /\ trigger'[r.name][r.object] = trigger[r.name][r.object]
    <3>1. /\ dispatch[d].name \in Names /\ dispatch[d].object \in Objects
          /\ dispatch[d].object <= object[dispatch[d].name]
      BY <1>t, <1>0, <2>3 DEF UnderLock, Dispatch
    <3>2. dispatch[d].object \in Nat
      BY <3>1 DEF Objects
    <3>3. QED BY <1>0, <2>1, <2>2, <3>1, <3>2
  <2>4. QED BY <1>t, <2>1, <2>3 DEF UnderLock
\* The write lock keeps out the dispatches that have read the old trigger.
<1>3. CASE UpdateTrigger
  <2>1. /\ name \in Names /\ config[name] \in Triggers
        /\ dispatch' = dispatch /\ object' = object
        /\ trigger' = [trigger EXCEPT ![name][object[name]] = config[name]]
    BY <1>t, <1>3 DEF UpdateTrigger, Moves, TypeOK, Planned
  <2>2. \A k \in Names, o \in Objects :
          trigger'[k][o] = IF k = name /\ o = object[name] THEN config[name]
                           ELSE trigger[k][o]
    BY <1>0, <2>1
  <2>3. ASSUME NEW d \in Dispatches, dispatch[d].pc # "none"
        PROVE  LET r == dispatch[d]
               IN  /\ trigger'[r.name][r.object] \in Triggers
                   /\ \/ r.saw = {}
                      \/ trigger'[r.name][r.object] = trigger[r.name][r.object]
    <3>1. /\ dispatch[d].name \in Names /\ dispatch[d].object \in Objects
          /\ trigger[dispatch[d].name][dispatch[d].object] \in Triggers
          /\ dispatch[d].pc = "spawned" => dispatch[d].saw = {}
      BY <1>t, <1>0, <2>3 DEF UnderLock, Dispatch
    <3>2. dispatch[d].name = name /\ dispatch[d].object = object[name]
            => dispatch[d].pc = "spawned"
      BY <1>3 DEF UpdateTrigger, WriteLocked, Locked, Running
    <3>3. QED BY <2>1, <2>2, <3>1, <3>2
  <2>4. QED BY <1>t, <2>1, <2>3 DEF UnderLock
<1>4. QED
  BY <1>1, <1>2, <1>3
  DEF UpdateStep, UpdateFromConfig, CallUnsubscribe, UnsubscribeReturns, Forget, DeleteDone,
      CreateFails, SkipEqual, UpdateAborts, CallUpdateTrigger, SubscriberReady,
      UpdateReturns, Moves

LEMMA DispatchCounted ==
    ASSUME IInv, NEW d \in Dispatches,
           DispatchStep(d) \/ \E n \in Names : Spawn(d, n)
    PROVE  Counted' /\ Planned' /\ UnderLock'
<1> DEFINE r == dispatch[d]
<1>t. /\ TypeOK /\ Counted /\ Planned /\ UnderLock /\ r \in Dispatch
      /\ dispatch \in [Dispatches -> Dispatch]
  BY DEF IInv, TypeOK
<1>1. ASSUME NEW q, DispatchMoves(d, q),
             q.pc # "none" => /\ q.name \in Names /\ q.object <= object[q.name]
                              /\ trigger[q.name][q.object] \in Triggers,
             q.pc \in {"none", "spawned"} => q.saw = {},
             q.saw \subseteq {trigger[q.name][q.object]}
      PROVE  Counted' /\ Planned' /\ UnderLock'
  <2>1. UNCHANGED <<pc, name, todo, config, object, trigger, updates>>
    BY <1>1 DEF DispatchMoves, manager, objects
  <2>2. dispatch'[d] = q /\ \A e \in Dispatches : e # d => dispatch'[e] = dispatch[e]
    BY <1>t, <1>1 DEF DispatchMoves
  <2>3. Counted' /\ Planned'
    BY <1>t, <2>1 DEF Counted, Planned
  <2>4. UnderLock'
    BY <1>t, <1>1, <2>1, <2>2 DEF UnderLock
  <2>5. QED BY <2>3, <2>4
<1>2. ASSUME NEW n \in Names, Spawn(d, n)
      PROVE  Counted' /\ Planned' /\ UnderLock'
  <2> DEFINE q == [NoDispatch EXCEPT !.pc = "spawned", !.name = n, !.object = object[n]]
  <2>1. DispatchMoves(d, q) /\ n \in subscribed
    BY <1>2 DEF Spawn
  <2>2. q.pc = "spawned" /\ q.name = n /\ q.object = object[n] /\ q.saw = {}
    BY DEF NoDispatch
  <2>3. object[n] <= object[n] /\ trigger[n][object[n]] \in Triggers
    BY <1>t, <2>1, SubscriptionAssumption DEF TypeOK, Current, Objects
  <2> HIDE DEF q
  <2>4. QED BY <1>1, <2>1, <2>2, <2>3
<1>3. ASSUME r.pc # "none"
      PROVE  /\ r.name \in Names /\ r.object <= object[r.name]
             /\ trigger[r.name][r.object] \in Triggers
             /\ r.saw \subseteq {trigger[r.name][r.object]}
  BY <1>t, <1>3 DEF UnderLock
<1>4. CASE ReadLock(d)
  <2> DEFINE q == [r EXCEPT !.pc = "filter"]
  <2>1. DispatchMoves(d, q) /\ r.pc # "none"
    BY <1>4 DEF ReadLock
  <2>2. q.pc = "filter" /\ q.name = r.name /\ q.object = r.object /\ q.saw = r.saw
    BY <1>t DEF Dispatch
  <2> HIDE DEF q
  <2>3. QED BY <1>1, <1>3, <2>1, <2>2
<1>5. ASSUME NEW from, NEW choices, choices \subseteq {"target", "report", "deadletter"},
             Reads(d, from, choices), r.pc # "none"
      PROVE  Counted' /\ Planned' /\ UnderLock'
  <2>1. PICK to \in choices :
          DispatchMoves(d, [r EXCEPT !.pc = to, !.saw = @ \cup {trigger[r.name][r.object]}])
    BY <1>5 DEF Reads
  <2> DEFINE q == [r EXCEPT !.pc = to, !.saw = @ \cup {trigger[r.name][r.object]}]
  <2>2. /\ q.pc = to /\ q.name = r.name /\ q.object = r.object
        /\ q.saw = r.saw \cup {trigger[r.name][r.object]}
    BY <1>t DEF Dispatch
  <2>3. DispatchMoves(d, q) /\ to \notin {"none", "spawned"}
    BY <1>5, <2>1
  <2> HIDE DEF q
  <2>4. QED BY <1>1, <1>3, <1>5, <2>2, <2>3
<1>6. CASE Filter(d) \/ Target(d) \/ DeadLetter(d)
  <2>1. r.pc # "none"
    BY <1>6 DEF Filter, Target, DeadLetter, Reads
  <2>2. QED BY <1>5, <1>6, <2>1 DEF Filter, Target, DeadLetter
<1>7. CASE TakeTime(d)
  <2> DEFINE q == [r EXCEPT !.pc = "unlock", !.time = events]
  <2>1. DispatchMoves(d, q) /\ r.pc # "none"
    BY <1>7 DEF TakeTime
  <2>2. q.pc = "unlock" /\ q.name = r.name /\ q.object = r.object /\ q.saw = r.saw
    BY <1>t DEF Dispatch
  <2> HIDE DEF q
  <2>3. QED BY <1>1, <1>3, <2>1, <2>2
<1>8. CASE ReportRunning(d)
  <2>1. DispatchMoves(d, NoDispatch)
    BY <1>8 DEF ReportRunning, AfterReport
  <2>2. NoDispatch.pc = "none" /\ NoDispatch.saw = {}
    BY DEF NoDispatch
  <2>3. QED BY <1>1, <2>1, <2>2
<1>9. QED BY <1>2, <1>4, <1>6, <1>7, <1>8 DEF DispatchStep

-----------------------------------------------------------------------------
(* What has been applied *)

\* The steps that leave the dispatches alone and take no subscription away.
LEMMA QuietFrame ==
    ASSUME Quiet, UNCHANGED <<waits, dispatch>>, subscribed \subseteq subscribed'
    PROVE  Quiet'
BY DEF Quiet

LEMMA DeletingApplied ==
    ASSUME IInv,
           \/ \E c \in Configs : UpdateFromConfig(c)
           \/ \E n \in Names : CallUnsubscribe(n)
           \/ UnsubscribeReturns \/ Forget \/ DeleteDone
    PROVE  Applied'
<1>t. TypeOK /\ Applied /\ Served /\ Quiet /\ Progress /\ Reported
  BY DEF IInv, Applied
<1>1. ASSUME NEW c \in Configs, UpdateFromConfig(c)
      PROVE  Applied'
  BY <1>t, <1>1 DEF UpdateFromConfig, Applied, Served, Quiet, Progress, Reported, objects
<1>2. ASSUME NEW n \in Names, CallUnsubscribe(n)
      PROVE  Applied'
  BY <1>t, <1>2 DEF CallUnsubscribe, Moves, Applied, Served, Quiet, Progress, Reported, objects
<1>3. CASE UnsubscribeReturns
  <2>1. /\ name \in Names /\ pc = "unsubscribe" /\ pc' = "forget" /\ subscribed = subscribers
        /\ subscribed' = subscribed \ {name} /\ subscribers' = subscribers \ {name}
        /\ UNCHANGED <<waits, config, dispatch, name, todo, object, trigger, status>>
        /\ waits => Running(name) = {}
    BY <1>t, <1>3 DEF UnsubscribeReturns, Moves, TypeOK, Served, objects
  <2>2. Served'
    BY <2>1 DEF Served
  <2>3. Quiet'
    <3>1. ASSUME waits, NEW d \in Dispatches, dispatch[d].pc # "none"
          PROVE  dispatch[d].name \in subscribed \ {name}
      BY <1>t, <2>1, <3>1 DEF Quiet, Running
    <3>2. QED BY <2>1, <3>1 DEF Quiet
  <2>4. Progress'
    BY <1>t, <2>1 DEF Progress
  <2>5. Reported'
    BY <1>t, <2>1 DEF Reported
  <2>6. QED BY <2>2, <2>3, <2>4, <2>5 DEF Applied
<1>4. CASE Forget
  <2>1. /\ pc = "forget" /\ pc' = "delete" /\ name \in Names /\ name \notin subscribers
        /\ subscribed = subscribers /\ todo' = todo \ {name}
        /\ status \in Statuses /\ status' = Removed(status, name)
        /\ UNCHANGED <<waits, config, dispatch, subscribers, subscribed>>
    BY <1>t, <1>4
    DEF Forget, StatusAfterDelete, Moves, TypeOK, Served, Statuses, Stamps
  <2>2. status'[name] = None /\ \A k \in Names : k # name => status'[k] = status[k]
    BY <2>1 DEF Removed, Statuses
  <2>3. Served' /\ Quiet'
    BY <1>t, <2>1, QuietFrame DEF Served
  <2>4. Progress'
    BY <1>t, <2>1 DEF Progress
  <2>5. Reported'
    BY <1>t, <2>1, <2>2 DEF Reported, TypeOK
  <2>6. QED BY <2>3, <2>4, <2>5 DEF Applied
<1>5. CASE DeleteDone
  <2>1. /\ pc = "delete" /\ pc' = "create" /\ todo = {}
        /\ todo' = {n \in Names : config[n] # None}
        /\ UNCHANGED <<waits, config, dispatch, name, subscribers, subscribed, object,
                       trigger, status>>
    BY <1>5 DEF DeleteDone, Moves, objects
  <2>2. Served' /\ Quiet'
    BY <1>t, <2>1, QuietFrame DEF Served
  <2>3. \A n \in subscribers : config[n] # None
    BY <1>t, <2>1 DEF Progress
  <2>4. Progress'
    BY <1>t, <2>1, <2>3 DEF Progress, Follows, Current
  <2>5. Reported'
    BY <1>t, <2>1 DEF Reported
  <2>6. QED BY <2>2, <2>4, <2>5 DEF Applied
<1>6. QED BY <1>1, <1>2, <1>3, <1>4, <1>5

LEMMA CreatingApplied ==
    ASSUME IInv, NEW n \in Names,
           \/ CreateFails(n) \/ CreateSubscriber(n) \/ SkipEqual(n)
           \/ UpdateAborts(n) \/ CallUpdateTrigger(n)
    PROVE  Applied'
<1>t. /\ TypeOK /\ Applied /\ Served /\ Quiet /\ Progress /\ Reported
      /\ pc = "create" /\ n \in todo /\ subscribed = subscribers /\ status \in Statuses
      /\ \A k \in subscribers : config[k] # None
      /\ \A k \in Names \ todo : Follows(k)
      /\ UNCHANGED <<waits, config, dispatch>>
  BY DEF IInv, Applied, Served, Progress, CreateFails, CreateSubscriber, SkipEqual,
     UpdateAborts, CallUpdateTrigger, Moves, TypeOK, Statuses, Stamps
<1>1. CASE CreateFails(n)
  <2>1. /\ pc' = "create" /\ n \notin subscribers /\ todo' = todo \ {n}
        /\ status' = Ensured(status, n, FailedStatus)
        /\ UNCHANGED <<subscribers, subscribed, object, trigger>>
    BY <1>1 DEF CreateFails, Moves, Done, objects
  <2>2. /\ status'[n] # None /\ status'[n].status = "Failed"
        /\ \A k \in Names : k # n => status'[k] = status[k]
    BY <1>t, <2>1, EnsuredEntry, ReportTypes DEF FailedStatus
  <2>3. Served' /\ Quiet'
    BY <1>t, <2>1, QuietFrame DEF Served
  <2>4. Progress'
    BY <1>t, <2>1, <2>2 DEF Progress, Follows, Current
  <2>5. Reported'
    BY <1>t, <2>1, <2>2 DEF Reported, TypeOK
  <2>6. QED BY <2>3, <2>4, <2>5 DEF Applied
<1>2. CASE CreateSubscriber(n)
  <2>1. /\ pc' = "ready" /\ name' = n /\ n \notin subscribers
        /\ subscribed' = subscribed \cup {n}
        /\ object' = [object EXCEPT ![n] = @ + 1]
        /\ trigger' = [trigger EXCEPT ![n][object[n] + 1] = config[n]]
        /\ UNCHANGED <<todo, subscribers, status>>
    BY <1>2 DEF CreateSubscriber, Moves
  <2>2. object[n] + 1 \in Objects
    BY <1>t, SubscriptionAssumption DEF IInv, Counted, TypeOK, Objects
  <2>3. Current(n)' = config[n] /\ \A k \in Names : k # n => Current(k)' = Current(k)
    BY <1>t, <2>1, <2>2 DEF TypeOK, Current
  <2>4. config[n] # None
    BY <1>t DEF IInv, Planned
  <2>5. Served' /\ Quiet'
    BY <1>t, <2>1, QuietFrame DEF Served
  <2>6. Progress'
    BY <1>t, <2>1, <2>3, <2>4 DEF Progress, Follows
  <2>7. Reported'
    BY <1>t, <2>1 DEF Reported
  <2>8. QED BY <2>5, <2>6, <2>7 DEF Applied
<1>3. CASE SkipEqual(n)
  <2>1. /\ pc' = "create" /\ n \in subscribers /\ todo' = todo \ {n}
        /\ Current(n) = config[n]
        /\ UNCHANGED <<subscribers, subscribed, object, trigger, status>>
    BY <1>3 DEF SkipEqual, Unchanged, Moves, Done, objects
  <2>2. Served' /\ Quiet' /\ Reported'
    BY <1>t, <2>1, QuietFrame DEF Served, Reported
  <2>3. Progress'
    BY <1>t, <2>1 DEF Progress, Follows, Current
  <2>4. QED BY <2>2, <2>3 DEF Applied
<1>4. CASE UpdateAborts(n)
  <2>1. /\ pc' = "idle" /\ aborted'
        /\ UNCHANGED <<subscribers, subscribed, status>>
    BY <1>4 DEF UpdateAborts, Moves
  <2>2. Served' /\ Quiet' /\ Reported'
    BY <1>t, <2>1, QuietFrame DEF Served, Reported
  <2>3. Progress'
    BY <2>1 DEF Progress
  <2>4. QED BY <2>2, <2>3 DEF Applied
<1>5. CASE CallUpdateTrigger(n)
  <2>1. /\ pc' = "locking"
        /\ name' = n /\ n \in subscribers
        /\ UNCHANGED <<subscribers, subscribed, todo, object, trigger, status>>
    BY <1>5 DEF CallUpdateTrigger, Moves, objects
  <2>2. Served' /\ Quiet' /\ Reported'
    BY <1>t, <2>1, QuietFrame DEF Served, Reported
  <2>3. Progress'
    BY <1>t, <2>1 DEF Progress, Follows, Current
  <2>4. QED BY <2>2, <2>3 DEF Applied
<1>6. QED BY <1>1, <1>2, <1>3, <1>4, <1>5

LEMMA FinishingApplied ==
    ASSUME IInv, SubscriberReady \/ UpdateTrigger \/ UpdateReturns
    PROVE  Applied'
<1>t. /\ TypeOK /\ Applied /\ Served /\ Quiet /\ Progress /\ Reported
      /\ status \in Statuses /\ pc \in {"ready", "locking", "create"}
      /\ \A k \in subscribers : config[k] # None
      /\ \A k \in Names \ todo : Follows(k)
      /\ UNCHANGED <<waits, config, dispatch>>
  BY DEF IInv, Applied, Progress, SubscriberReady, UpdateTrigger, UpdateReturns,
     Moves, TypeOK, Statuses, Stamps
<1>1. CASE SubscriberReady
  <2>1. /\ pc = "ready" /\ pc' = "create" /\ name \in Names /\ todo' = todo \ {name}
        /\ status' = Ensured(status, name, ReadyStatus)
        /\ subscribers' = subscribers \cup {name}
        /\ subscribed = subscribers \cup {name}
        /\ config[name] # None /\ Current(name) = config[name]
        /\ UNCHANGED <<subscribed, object, trigger>>
    BY <1>t, <1>1 DEF SubscriberReady, Moves, Done, objects, TypeOK, Served, Progress
  <2>2. /\ status'[name] # None
        /\ \A k \in Names : k # name => status'[k] = status[k]
    BY <1>t, <2>1, EnsuredEntry, ReportTypes
  <2>3. Served' /\ Quiet'
    BY <1>t, <2>1, QuietFrame DEF Served
  <2>4. Progress'
    BY <1>t, <2>1, <2>2 DEF Progress, Follows, Current
  <2>5. Reported'
    BY <1>t, <2>1, <2>2 DEF Reported, TypeOK
  <2>6. QED BY <2>3, <2>4, <2>5 DEF Applied
<1>2. CASE UpdateTrigger
  <2>0. PICK n \in Names : n = name
    BY <1>t, <1>2 DEF UpdateTrigger, Moves, TypeOK
  <2>1. /\ pc = "locking" /\ pc' = "create" /\ todo' = todo \ {n}
        /\ trigger' = [trigger EXCEPT ![n][object[n]] = config[n]]
        /\ config[n] \in Triggers
        /\ UNCHANGED <<subscribers, subscribed, object, status>>
    BY <1>t, <1>2, <2>0 DEF UpdateTrigger, Moves, Done, TypeOK, IInv, Planned
  <2>2. Current(n)' = config[n] /\ \A k \in Names : k # n => Current(k)' = Current(k)
    BY <1>t, <2>1 DEF TypeOK, Current
  <2>3. config[n] # None /\ n \in subscribers
    BY <1>t, <2>0, <2>1, SubscriptionAssumption DEF Served
  <2>4. Served' /\ Quiet' /\ Reported'
    BY <1>t, <2>1, QuietFrame DEF Served, Reported
  <2>5. Progress'
    BY <1>t, <2>1, <2>2, <2>3 DEF Progress, Follows
  <2>6. QED BY <2>4, <2>5 DEF Applied
<1>3. CASE UpdateReturns
  <2>1. /\ pc = "create" /\ pc' = "idle" /\ todo = {}
        /\ UNCHANGED <<subscribers, subscribed, object, trigger, status>>
    BY <1>3 DEF UpdateReturns, Moves, objects
  <2>2. Served' /\ Quiet' /\ Reported'
    BY <1>t, <2>1, QuietFrame DEF Served, Reported
  <2>3. Progress'
    BY <1>t, <2>1 DEF Progress, Follows, Current
  <2>4. QED BY <2>2, <2>3 DEF Applied
<1>4. QED BY <1>1, <1>2, <1>3

\* Dispatches and reports of the backend.
LEMMA ReportApplied ==
    ASSUME IInv, NEW n \in Names, NEW ss \in SubscriptionStatus(Stamps),
           n \in subscribed \/ ~waits, status' = Ensured(status, n, ss),
           UNCHANGED <<waits, config, pc, name, todo, subscribers, object, trigger,
                       subscribed, aborted>>
    PROVE  Served' /\ Progress' /\ Reported'
<1>t. TypeOK /\ Served /\ Progress /\ Reported /\ status \in Statuses
  BY DEF IInv, Applied, TypeOK, Statuses, Stamps
<1>1. status'[n] # None /\ \A k \in Names : k # n => status'[k] = status[k]
  BY <1>t, EnsuredEntry
<1>2. Served'
  BY <1>t DEF Served
<1>3. \A k \in Names : Follows(k) => Follows(k)'
  BY <1>1 DEF Follows, Current
<1>4. Progress'
  BY <1>t, <1>3 DEF Progress, Current
<1>5. Reported'
  BY <1>t, <1>1 DEF Reported, TypeOK
<1>6. QED BY <1>2, <1>4, <1>5

LEMMA DispatchApplied ==
    ASSUME IInv, NEW d \in Dispatches,
           DispatchStep(d) \/ \E n \in Names : Spawn(d, n)
    PROVE  Applied'
<1> DEFINE r == dispatch[d]
<1>t. /\ TypeOK /\ Served /\ Quiet /\ Progress /\ Reported /\ r \in Dispatch
      /\ dispatch \in [Dispatches -> Dispatch]
  BY DEF IInv, Applied, TypeOK
<1>1. ASSUME NEW q, DispatchMoves(d, q), UNCHANGED status,
             waits /\ q.pc # "none" => q.name \in subscribed
      PROVE  Applied'
  <2>1. UNCHANGED <<waits, config, pc, name, todo, subscribers, object, trigger,
                    subscribed, aborted, status>>
    BY <1>1 DEF DispatchMoves, manager, objects
  <2>2. dispatch'[d] = q /\ \A e \in Dispatches : e # d => dispatch'[e] = dispatch[e]
    BY <1>t, <1>1 DEF DispatchMoves
  <2>3. Quiet'
    BY <1>t, <1>1, <2>1, <2>2 DEF Quiet
  <2>4. Served' /\ Progress' /\ Reported'
    BY <1>t, <2>1 DEF Served, Progress, Reported, Follows, Current
  <2>5. QED BY <2>3, <2>4 DEF Applied
<1>2. ASSUME NEW n \in Names, Spawn(d, n)
      PROVE  Applied'
  <2> DEFINE q == [NoDispatch EXCEPT !.pc = "spawned", !.name = n, !.object = object[n]]
  <2>1. DispatchMoves(d, q) /\ n \in subscribed /\ UNCHANGED status
    BY <1>2 DEF Spawn
  <2>2. q.name = n
    BY DEF NoDispatch
  <2> HIDE DEF q
  <2>3. QED BY <1>1, <2>1, <2>2
<1>3. ASSUME NEW q, DispatchMoves(d, q), UNCHANGED status,
             r.pc # "none", q.name = r.name
      PROVE  Applied'
  BY <1>t, <1>1, <1>3 DEF Quiet
<1>4. CASE ReadLock(d)
  <2> DEFINE q == [r EXCEPT !.pc = "filter"]
  <2>1. DispatchMoves(d, q) /\ r.pc # "none" /\ UNCHANGED status
    BY <1>4 DEF ReadLock
  <2>2. q.name = r.name
    BY <1>t DEF Dispatch
  <2> HIDE DEF q
  <2>3. QED BY <1>3, <2>1, <2>2
<1>5. ASSUME NEW from, NEW choices, Reads(d, from, choices), r.pc # "none"
      PROVE  Applied'
  <2>1. PICK to \in choices :
          DispatchMoves(d, [r EXCEPT !.pc = to, !.saw = @ \cup {trigger[r.name][r.object]}])
    BY <1>5 DEF Reads
  <2> DEFINE q == [r EXCEPT !.pc = to, !.saw = @ \cup {trigger[r.name][r.object]}]
  <2>2. q.name = r.name
    BY <1>t DEF Dispatch
  <2>3. DispatchMoves(d, q) /\ UNCHANGED status
    BY <1>5, <2>1 DEF Reads
  <2> HIDE DEF q
  <2>4. QED BY <1>3, <1>5, <2>2, <2>3
<1>6. CASE Filter(d) \/ Target(d) \/ DeadLetter(d)
  <2>1. r.pc # "none"
    BY <1>6 DEF Filter, Target, DeadLetter, Reads
  <2>2. QED BY <1>5, <1>6, <2>1 DEF Filter, Target, DeadLetter
<1>7. CASE TakeTime(d)
  <2> DEFINE q == [r EXCEPT !.pc = "unlock", !.time = events]
  <2>1. DispatchMoves(d, q) /\ r.pc # "none" /\ UNCHANGED status
    BY <1>7 DEF TakeTime
  <2>2. q.name = r.name
    BY <1>t DEF Dispatch
  <2> HIDE DEF q
  <2>3. QED BY <1>3, <2>1, <2>2
<1>8. CASE ReportRunning(d)
  <2>1. /\ r.pc = "unlock" /\ DispatchMoves(d, NoDispatch)
        /\ status' = Ensured(status, r.name, RunningStatus(r.time))
    BY <1>8 DEF ReportRunning, AfterReport
  <2>2. /\ r.name \in Names /\ RunningStatus(r.time) \in SubscriptionStatus(Stamps)
        /\ r.name \in subscribed \/ ~waits
    BY <1>t, <2>1, ReportTypes DEF IInv, UnderLock, Dispatch, Stamps, Quiet
  <2>3. UNCHANGED <<waits, config, pc, name, todo, subscribers, object, trigger,
                    subscribed, aborted>>
    BY <2>1 DEF DispatchMoves, manager, objects
  <2>4. Served' /\ Progress' /\ Reported'
    BY <2>1, <2>2, <2>3, ReportApplied
  <2>5. dispatch'[d].pc = "none" /\ \A e \in Dispatches : e # d => dispatch'[e] = dispatch[e]
    BY <1>t, <2>1 DEF DispatchMoves, NoDispatch
  <2>6. Quiet'
    BY <1>t, <2>3, <2>5 DEF Quiet
  <2>7. QED BY <2>4, <2>6 DEF Applied
<1>9. QED BY <1>2, <1>4, <1>6, <1>7, <1>8 DEF DispatchStep

LEMMA CompleteApplied ==
    ASSUME IInv, NEW n \in Names, Complete(n)
    PROVE  Applied' /\ Counted' /\ Planned' /\ UnderLock'
<1>1. /\ n \in subscribed /\ status' = Ensured(status, n, CompleteStatus)
      /\ UNCHANGED <<waits, config, pc, name, todo, subscribers, object, trigger,
                     subscribed, aborted, dispatch, updates>>
  BY DEF Complete, manager, objects
<1>2. Served' /\ Progress' /\ Reported'
  BY <1>1, ReportApplied, ReportTypes
<1>3. Quiet'
  BY <1>1, QuietFrame DEF IInv, Applied
<1>4. Counted' /\ Planned' /\ UnderLock'
  BY <1>1 DEF IInv, Counted, Planned, UnderLock
<1>5. QED BY <1>2, <1>3, <1>4 DEF Applied

-----------------------------------------------------------------------------
LEMMA NextIInv == IInv /\ [Next]_vars => IInv'
<1> SUFFICES ASSUME IInv, [Next]_vars PROVE IInv'
  OBVIOUS
<1>1. TypeOK'
  BY NextType
<1>2. CASE UNCHANGED vars
  BY <1>1, <1>2
  DEF IInv, Counted, Planned, UnderLock, Applied, Served, Quiet, Progress, Reported,
      Follows, Current, vars, manager, objects
<1>3. CASE (\E c \in Configs : UpdateFromConfig(c)) \/ UpdateStep
  <2>1. Counted' /\ Planned' /\ UnderLock'
    BY <1>3, UpdateCounted, UpdateUnderLock
  <2>2. Applied'
    BY <1>3, DeletingApplied, CreatingApplied, FinishingApplied DEF UpdateStep
  <2>3. QED BY <1>1, <2>1, <2>2 DEF IInv
<1>4. ASSUME NEW d \in Dispatches, DispatchStep(d) \/ \E n \in Names : Spawn(d, n)
      PROVE  IInv'
  BY <1>1, <1>4, DispatchCounted, DispatchApplied DEF IInv
<1>5. ASSUME NEW n \in Names, Complete(n)
      PROVE  IInv'
  BY <1>1, <1>5, CompleteApplied DEF IInv
<1>6. QED BY <1>2, <1>3, <1>4, <1>5 DEF Next

LEMMA Invariance == Spec => []IInv
BY InitIInv, NextIInv, PTL DEF Spec

\* The variables keep their types, and what the backend is subscribed to can be
\* dispatched (manager.go:54-113, subscriber.go).
THEOREM TypeCorrect == Spec => []TypeOK
BY Invariance, PTL DEF IInv

\* The read lock a dispatch holds and the write lock of updateTrigger keep the
\* filter, the target and the dead letter sink of one dispatch together, for
\* every number of dispatches and updates (subscriber.go:49-182).
THEOREM OneTrigger == Spec => []DispatchSeesOneTrigger
<1>1. IInv => DispatchSeesOneTrigger
  <2> SUFFICES ASSUME IInv, NEW d \in Dispatches
               PROVE  Cardinality(dispatch[d].saw) <= 1
    BY DEF DispatchSeesOneTrigger
  <2>1. PICK t : dispatch[d].saw \subseteq {t}
    BY DEF IInv, UnderLock
  <2>2. CASE dispatch[d].saw = {}
    BY <2>2, FS_EmptySet
  <2>3. CASE dispatch[d].saw = {t}
    BY <2>3, FS_Singleton
  <2>4. QED BY <2>1, <2>2, <2>3
<1>2. QED BY <1>1, Invariance, PTL

\* Between updates the subscribers are as configured, in every order of updates,
\* dispatches and failures (manager.go:54-113).
THEOREM Configured == Spec => []ConfigApplied
<1>1. IInv => ConfigApplied
  <2> SUFFICES ASSUME IInv, pc = "idle", ~aborted, NEW n \in Names
               PROVE  IF n \in subscribers
                      THEN n \in subscribed /\ Current(n) = config[n]
                      ELSE /\ n \notin subscribed
                           /\ config[n] # None =>
                                status[n] # None /\ (waits => status[n].status = "Failed")
    BY DEF ConfigApplied
  <2>1. subscribed = subscribers /\ Follows(n)
    BY DEF IInv, Applied, Served, Progress
  <2>2. waits /\ n \notin subscribed => status[n] = None \/ status[n].status = "Failed"
    BY DEF IInv, Applied, Reported
  <2>3. QED BY <2>1, <2>2 DEF Follows
<1>2. QED BY <1>1, Invariance, PTL

\* With a backend that waits in Unsubscribe no report outlives its subscriber
\* (manager.go:54-113, subscriber.go:95-182).
THEOREM StatusOfSubscribers == Spec => []StatusFollowsSubscribers
<1>1. IInv => StatusFollowsSubscribers
  BY DEF IInv, Applied, Served, Reported, StatusFollowsSubscribers
<1>2. QED BY <1>1, Invariance, PTL

\* No report takes away the time of the last processed event, whoever makes it
\* (types.go, Merge, called by EnsureSubscription of status.go).
THEOREM TimeKept == Spec => LastProcessedKept
<1>1. IInv /\ [Next]_vars =>
        [\A n \in Names : status[n] # None /\ status'[n] # None /\ status[n].stamp # 0
                            => status'[n].stamp # 0]_vars
  <2> SUFFICES ASSUME IInv, Next, NEW n \in Names,
                      status[n] # None, status'[n] # None, status[n].stamp # 0
               PROVE  status'[n].stamp # 0
    OBVIOUS
  <2>t. TypeOK /\ status \in Statuses
    BY DEF IInv, TypeOK, Statuses, Stamps
  <2>1. CASE status' = status
    BY <2>1
  <2>2. ASSUME NEW k \in Names, NEW ss \in SubscriptionStatus(Stamps),
               status' = Ensured(status, k, ss)
        PROVE  status'[n].stamp # 0
    BY <2>t, <2>2, EnsuredEntry
  <2>3. CASE Forget
    <3>1. name \in Names /\ status' = Removed(status, name)
      BY <2>t, <2>3 DEF Forget, StatusAfterDelete, Moves, TypeOK
    <3>2. status'[n] = status[n] \/ status'[n] = None
      BY <2>t, <3>1 DEF Removed, Statuses
    <3>3. QED BY <3>2
  <2>4. ASSUME NEW k \in Names, CreateFails(k)
        PROVE  status'[n].stamp # 0
    BY <2>2, <2>4, ReportTypes DEF CreateFails
  <2>5. CASE SubscriberReady
    <3>1. name \in Names
      BY <2>t, <2>5 DEF SubscriberReady, Moves, TypeOK
    <3>2. QED BY <2>2, <2>5, <3>1, ReportTypes DEF SubscriberReady
  <2>6. ASSUME NEW d \in Dispatches, ReportRunning(d)
        PROVE  status'[n].stamp # 0
    <3>1. dispatch[d].name \in Names /\ dispatch[d].time \in Stamps
      BY <2>t, <2>6 DEF IInv, UnderLock, ReportRunning, TypeOK, Dispatch, Stamps
    <3>2. QED BY <2>2, <2>6, <3>1, ReportTypes DEF ReportRunning
  <2>7. ASSUME NEW k \in Names, Complete(k)
        PROVE  status'[n].stamp # 0
    BY <2>2, <2>7, ReportTypes DEF Complete
  <2>8. ASSUME NEW d \in Dispatches, DispatchStep(d) \/ \E k \in Names : Spawn(d, k),
               ~ReportRunning(d)
        PROVE  status' = status
    BY <2>8 DEF DispatchStep, Spawn, ReadLock, Filter, Target, DeadLetter, Reads, TakeTime
  <2>9. ASSUME UpdateStep, ~Forget, ~SubscriberReady, \A k \in Names : ~CreateFails(k)
        PROVE  status' = status
    BY <2>9
    DEF UpdateStep, CallUnsubscribe, UnsubscribeReturns, DeleteDone, CreateSubscriber,
        SkipEqual, UpdateAborts, CallUpdateTrigger, UpdateTrigger, UpdateReturns
  <2>10. CASE \E c \in Configs : UpdateFromConfig(c)
    BY <2>10 DEF UpdateFromConfig
  <2>11. QED
    BY <2>1, <2>3, <2>4, <2>5, <2>6, <2>7, <2>8, <2>9, <2>10 DEF Next
<1>2. QED BY <1>1, Invariance, PTL DEF Spec, LastProcessedKept
=============================================================================
