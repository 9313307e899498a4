------------------------ MODULE StatusManagerProofs ------------------------
(***************************************************************************)
(* What StatusManager guarantees for every number of triggers, changes,    *)
(* failed calls, writes of others and restarts.                            *)
(***************************************************************************)
EXTENDS StatusManager, TLAPS

MapsOf(stamps) == [Names -> SubscriptionStatus(stamps) \cup {None}]

Maps == MapsOf(Nat)

\* The mutex is held while the ConfigMap is updated: what is about to be
\* written is the cached status, and the other instance's entry as it was
\* read, unless somebody updated the ConfigMap since.
Held ==
    loop = "write" =>
        /\ body.mine = cached
        /\ ~updated => body.other = other \/ (otherOld /\ body.other = 0)

IInv == cached.subs \in Maps /\ Held /\ ChangesFlagged

-----------------------------------------------------------------------------
(* The status structures *)

LEMMA ReportTypes ==
    ASSUME NEW S, 0 \in S, NEW t \in S
    PROVE  /\ ReadyStatus \in SubscriptionStatus(S)
           /\ FailedStatus \in SubscriptionStatus(S)
           /\ CompleteStatus \in SubscriptionStatus(S)
           /\ RunningStatus(t) \in SubscriptionStatus(S)
           /\ [status |-> "Ready", stamp |-> 0] \in IngestStatus(S)
           /\ [status |-> "Running", stamp |-> t] \in IngestStatus(S)
           /\ [status |-> "Closed", stamp |-> 0] \in IngestStatus(S)
BY DEF SubscriptionStatus, ReadyStatus, FailedStatus, CompleteStatus, RunningStatus, IngestStatus

LEMMA InformedType ==
    ASSUME NEW S \in SUBSET Nat, NEW m \in MapsOf(S), NEW n \in Names,
           NEW ss \in SubscriptionStatus(S)
    PROVE  Informed(m, n, ss) \in SubscriptionStatus(S)
<1>1. CASE m[n] = None
  BY <1>1 DEF Informed
<1>2. CASE m[n] # None
  <2> DEFINE stamp == IF ss.stamp = 0 THEN m[n].stamp ELSE ss.stamp
             message == IF ss.message = "" /\ ss.status = m[n].status
                        THEN m[n].message ELSE ss.message
  <2>1. m[n] \in SubscriptionStatus(S)
    BY <1>2 DEF MapsOf
  <2>2. stamp \in S /\ message \in {"", "failed"}
    BY <2>1 DEF SubscriptionStatus
  <2>3. Merge(ss, m[n]) = [ss EXCEPT !.stamp = stamp, !.message = message]
    BY DEF Merge, SubscriptionStatus
  <2> HIDE DEF stamp, message
  <2>4. Merge(ss, m[n]) \in SubscriptionStatus(S)
    BY <2>2, <2>3 DEF SubscriptionStatus
  <2>5. QED BY <1>2, <2>4 DEF Informed
<1>3. QED BY <1>1, <1>2

\* What the two calls leave in the map.
LEMMA EnsuredType ==
    ASSUME NEW S \in SUBSET Nat, NEW m \in MapsOf(S), NEW n \in Names
    PROVE  /\ \A ss \in SubscriptionStatus(S) : Ensured(m, n, ss) \in MapsOf(S)
           /\ Removed(m, n) \in MapsOf(S)
<1>1. ASSUME NEW ss \in SubscriptionStatus(S)
      PROVE  Ensured(m, n, ss) \in MapsOf(S)
  <2>1. Informed(m, n, ss) \in SubscriptionStatus(S)
    BY InformedType
  <2>2. Ensured(m, n, ss) = m \/ Ensured(m, n, ss) = [m EXCEPT ![n] = Informed(m, n, ss)]
    BY DEF Ensured
  <2>3. QED BY <2>1, <2>2 DEF MapsOf
<1>2. Removed(m, n) \in MapsOf(S)
  BY DEF Removed, MapsOf
<1>3. QED BY <1>1, <1>2

\* A report that does not raise the flag changes timestamps only.
LEMMA EnsuredSoft ==
    ASSUME NEW m \in Maps, NEW n \in Names, NEW ss \in SubscriptionStatus(Nat)
    PROVE  /\ Ensured(m, n, ss) \in Maps
           /\ ~EnsuredFlags(m, n, ss) => EqualSoftSubscriptions(Ensured(m, n, ss), m)
<1> DEFINE new == Informed(m, n, ss)
<1>1. new \in SubscriptionStatus(Nat) /\ new # None
  BY InformedType, StatusAssumption DEF Maps
<1>2. Ensured(m, n, ss) = m \/ Ensured(m, n, ss) = [m EXCEPT ![n] = new]
  BY DEF Ensured
<1>3. Ensured(m, n, ss) \in Maps
  BY <1>1, <1>2 DEF Maps, MapsOf
<1>4. ASSUME ~EnsuredFlags(m, n, ss), NEW k \in Names
      PROVE  \/ Ensured(m, n, ss)[k] = None /\ m[k] = None
             \/ /\ Ensured(m, n, ss)[k] # None /\ m[k] # None
                /\ EqualSoftStatus(Ensured(m, n, ss)[k], m[k])
  <2>1. m[n] # None /\ EqualSoftStatus(m[n], new)
    BY <1>4 DEF EnsuredFlags
  <2>2. EqualSoftStatus(new, m[n])
    BY <2>1 DEF EqualSoftStatus
  <2>3. Ensured(m, n, ss)[k] = m[k] \/ (k = n /\ Ensured(m, n, ss)[k] = new)
    BY <1>2 DEF Maps, MapsOf
  <2>4. EqualSoftStatus(m[k], m[k])
    BY DEF EqualSoftStatus
  <2>5. QED BY <1>1, <2>1, <2>2, <2>3, <2>4
<1>5. QED BY <1>3, <1>4 DEF EqualSoftSubscriptions

LEMMA SoftTransitive ==
    ASSUME NEW a, NEW b, NEW c,
           EqualSoftSubscriptions(a, b), EqualSoftSubscriptions(b, c)
    PROVE  EqualSoftSubscriptions(a, c)
BY DEF EqualSoftSubscriptions, EqualSoftStatus

LEMMA SoftReflexive == \A a : EqualSoftSubscriptions(a, a)
BY DEF EqualSoftSubscriptions, EqualSoftStatus

-----------------------------------------------------------------------------
(* Types and timestamps *)

\* A status that carries no later time than c.
StatusAt(c) == [ingest : IngestStatus(0..c), subs : MapsOf(0..c)]

\* What carries no later time than c carries no later time than c + 1.
LEMMA Later ==
    ASSUME NEW c \in Nat
    PROVE  /\ 0..c \in SUBSET Nat
           /\ NewStatus \in StatusAt(c)
           /\ StatusAt(c) \subseteq StatusAt(c + 1)
<1>1. 0..c \in SUBSET Nat /\ 0 \in 0..c /\ 0..c \subseteq 0..(c + 1)
  OBVIOUS
<1> DEFINE A == 0..c
           B == 0..(c + 1)
<1>2. IngestStatus(A) \subseteq IngestStatus(B)
  BY <1>1 DEF IngestStatus
<1>3. SubscriptionStatus(A) \subseteq SubscriptionStatus(B)
  BY <1>1 DEF SubscriptionStatus
<1>4. MapsOf(A) \subseteq MapsOf(B)
  BY <1>3 DEF MapsOf
<1>5. StatusAt(c) \subseteq StatusAt(c + 1)
  BY <1>2, <1>4 DEF StatusAt
<1>6. NewStatus \in StatusAt(c)
  BY <1>1 DEF NewStatus, NoSubscriptions, StatusAt, IngestStatus, MapsOf
<1>7. QED BY <1>1, <1>5, <1>6

LEMMA StatusIs == Status = StatusAt(changes)
BY DEF Status, StatusAt, MapsOf

LEMMA StatusWas == Status' = StatusAt(changes')
BY DEF Status, StatusAt, MapsOf

\* A call stamps what it stores with its own number, or with a time stored
\* before.
LEMMA ChangeTypes ==
    ASSUME TypeOK, Change, cached' \in StatusAt(changes + 1), writeAsap' \in BOOLEAN,
           UNCHANGED loop \/ loop' = "woken"
    PROVE  TypeOK'
<1>1. /\ changes \in Nat /\ changes' = changes + 1 /\ changes' \in 0..MaxChanges
      /\ loop' \in {"select", "woken", "update", "write", "returned"} /\ loop # "write"
      /\ UNCHANGED <<fresh, body, mine, mineOld, other, otherOld, updated, outcome,
                     faults, others, restarts>>
  BY StatusManagerAssumption DEF TypeOK, Change, Unlocked, configMap
<1>2. Status \subseteq Status'
  BY <1>1, Later, StatusIs, StatusWas
<1>3. cached' \in Status'
  BY <1>1, StatusWas
<1>4. mine' \in (Status \cup {None})' /\ body' \in [mine : Status, other : Nat]'
  BY <1>1, <1>2 DEF TypeOK
<1>5. QED BY <1>1, <1>3, <1>4 DEF TypeOK

LEMMA CallsTypes ==
    ASSUME TypeOK,
           \/ \E is \in IngestReports : UpdateIngestStatus(is)
           \/ \E n \in Names :
                 \/ \E ss \in SubscriptionReports : EnsureSubscription(n, ss)
                 \/ EnsureNoSubscription(n)
    PROVE  TypeOK'
<1> DEFINE c == changes + 1
<1>1. changes \in Nat /\ c \in Nat /\ c \in 0..c /\ 0 \in 0..c /\ 0..c \in SUBSET Nat
  BY StatusManagerAssumption DEF TypeOK
<1>2. cached \in StatusAt(c) /\ cached.subs \in MapsOf(0..c)
  BY <1>1, Later, StatusIs DEF TypeOK, StatusAt
<1> DEFINE S == 0..c
<1>s. S \in SUBSET Nat /\ c \in S /\ 0 \in S
  BY <1>1
<1> HIDE DEF S
<1>3. \A is \in IngestReports : is \in IngestStatus(S)
  BY <1>s, ReportTypes DEF IngestReports
<1>4. \A ss \in SubscriptionReports : ss \in SubscriptionStatus(S)
  BY <1>s, ReportTypes DEF SubscriptionReports
<1> HIDE DEF c
<1>5. ASSUME NEW is \in IngestReports, UpdateIngestStatus(is)
      PROVE  TypeOK'
  <2>1. cached' \in StatusAt(c)
    BY <1>2, <1>3, <1>5 DEF UpdateIngestStatus, StatusAt, S
  <2>2. /\ Change /\ (UNCHANGED loop \/ loop' = "woken")
        /\ writeAsap' \in BOOLEAN
    BY <1>5 DEF UpdateIngestStatus, MaybeEnqueueReconcile, IngestFlags
  <2>3. QED BY <2>1, <2>2, ChangeTypes DEF c
<1>6. ASSUME NEW n \in Names, NEW ss \in SubscriptionReports, EnsureSubscription(n, ss)
      PROVE  TypeOK'
  <2>1. Ensured(cached.subs, n, ss) \in MapsOf(0..c)
    BY <1>s, <1>2, <1>4, EnsuredType DEF S
  <2>2. cached' \in StatusAt(c)
    BY <1>2, <1>6, <2>1 DEF EnsureSubscription, StatusAt
  <2>3. /\ Change /\ (UNCHANGED loop \/ loop' = "woken")
        /\ writeAsap' \in BOOLEAN
    BY <1>6 DEF EnsureSubscription, MaybeEnqueueReconcile
  <2>4. QED BY <2>2, <2>3, ChangeTypes DEF c
<1>7. ASSUME NEW n \in Names, EnsureNoSubscription(n)
      PROVE  TypeOK'
  <2>1. Removed(cached.subs, n) \in MapsOf(0..c)
    BY <1>1, <1>2, EnsuredType
  <2>2. cached' \in StatusAt(c)
    BY <1>2, <1>7, <2>1 DEF EnsureNoSubscription, StatusAt
  <2>3. /\ Change /\ (UNCHANGED loop \/ loop' = "woken")
        /\ writeAsap' \in BOOLEAN
    BY <1>7 DEF EnsureNoSubscription, MaybeEnqueueReconcile
  <2>4. QED BY <2>2, <2>3, ChangeTypes DEF c
<1>8. QED BY <1>5, <1>6, <1>7

LEMMA InitTypes == Init => TypeOK
<1> SUFFICES ASSUME Init PROVE TypeOK
  OBVIOUS
<1>1. changes = 0 /\ changes \in Nat
  BY DEF Init
<1>2. NewStatus \in Status
  BY <1>1, Later, StatusIs
<1>o. otherOld = FALSE \/ otherOld = (other = 1)
  BY DEF Init
<1>b. otherOld \in BOOLEAN
  BY <1>o
<1>3. /\ other \in Nat
      /\ changes \in 0..MaxChanges /\ faults \in 0..MaxFaults
      /\ others \in 0..MaxOthers /\ restarts \in 0..MaxRestarts
  BY StatusManagerAssumption DEF Init
<1>4. body \in [mine : Status, other : Nat]
  BY <1>2 DEF Init, NoBody
<1>5. QED BY <1>2, <1>b, <1>3, <1>4 DEF Init, TypeOK

LEMMA NextTypes == TypeOK /\ [Next]_vars => TypeOK'
<1> SUFFICES ASSUME TypeOK, [Next]_vars PROVE TypeOK'
  OBVIOUS
<1>1. CASE \/ \E is \in IngestReports : UpdateIngestStatus(is)
           \/ \E n \in Names :
                 \/ \E ss \in SubscriptionReports : EnsureSubscription(n, ss)
                 \/ EnsureNoSubscription(n)
  BY <1>1, CallsTypes
\* No other step changes the number of changes, and so the timestamps.
<1>2. CASE /\ LoopStep \/ Stop \/ CacheExpires \/ OtherWrites \/ Edited \/ EntryExpires
              \/ Restart \/ UNCHANGED vars
  <2>1. UNCHANGED changes
    BY <1>2 DEF LoopStep, Tick, Check, ReadStatus, WriteStatus, WriteRefused, CallFails,
       EndUpdate, LoopMoves, Stop, CacheExpires, OtherWrites, Edited, Others, EntryExpires,
       Restart, vars, counters
  <2>2. Status' = Status
    BY <2>1, StatusIs, StatusWas
  <2>3. NewStatus \in Status /\ NoBody \in [mine : Status, other : Nat]
    BY Later, StatusIs, StatusManagerAssumption DEF TypeOK, NoBody
  <2> DEFINE S == Status
             OthersTyped == mineOld' \in BOOLEAN /\ other' \in Nat /\ otherOld' \in BOOLEAN
             Bounds == /\ faults' \in 0..MaxFaults /\ others' \in 0..MaxOthers
                       /\ restarts' \in 0..MaxRestarts
  \* What is left to show of a step.
  <2>4. ASSUME cached' \in S, mine' \in S \cup {None}, body' \in [mine : S, other : Nat],
               loop' # "write" => body' = NoBody /\ ~updated',
               loop' \in {"select", "woken", "update", "write", "returned"},
               writeAsap' \in BOOLEAN, fresh' \in BOOLEAN, updated' \in BOOLEAN,
               outcome' \in {"none", "ok", "failed"}, OthersTyped, Bounds
        PROVE  TypeOK'
    BY <2>1, <2>2, <2>4 DEF TypeOK
  <2>t. /\ cached \in S /\ mine \in S \cup {None} /\ body \in [mine : S, other : Nat]
        /\ body.mine \in S /\ body.other \in Nat
        /\ NewStatus \in S /\ NoBody \in [mine : S, other : Nat]
    BY <2>3 DEF TypeOK
  <2>v. /\ loop # "write" => body = NoBody /\ ~updated
        /\ loop \in {"select", "woken", "update", "write", "returned"}
        /\ writeAsap \in BOOLEAN /\ fresh \in BOOLEAN /\ updated \in BOOLEAN
        /\ outcome \in {"none", "ok", "failed"}
        /\ mineOld \in BOOLEAN /\ other \in Nat /\ otherOld \in BOOLEAN
        /\ faults \in 0..MaxFaults /\ others \in 0..MaxOthers /\ restarts \in 0..MaxRestarts
        /\ MaxFaults \in Nat /\ MaxOthers \in Nat /\ MaxRestarts \in Nat
    BY StatusManagerAssumption DEF TypeOK
  <2> HIDE DEF S
  <2>5. CASE Tick \/ Stop \/ Check
    BY <2>4, <2>t, <2>v, <2>5 DEF Tick, Stop, Check, LoopMoves, configMap
  <2>6. CASE ReadStatus
    BY <2>4, <2>t, <2>v, <2>6 DEF ReadStatus, LoopMoves, KeptOther
  <2>7. CASE WriteStatus
    BY <2>4, <2>t, <2>v, <2>7 DEF WriteStatus, EndUpdate, LoopMoves, FailedAfter
  <2>8. CASE WriteRefused \/ CallFails("update") \/ CallFails("write")
    <3>1. faults' = faults \/ (faults < MaxFaults /\ faults' = faults + 1)
      BY <2>8 DEF WriteRefused, CallFails
    <3>2. faults' \in 0..MaxFaults
      BY <2>v, <3>1
    <3>3. /\ loop' = "select" /\ body' = NoBody /\ updated' = FALSE
          /\ writeAsap' = TRUE \/ writeAsap' = FALSE
          /\ fresh' = TRUE \/ fresh' = FALSE
          /\ outcome' = "failed"
          /\ UNCHANGED <<cached, mine, mineOld, other, otherOld, others, restarts>>
      BY <2>8 DEF WriteRefused, CallFails, EndUpdate, LoopMoves, FailedAfter
    <3>4. QED BY <2>4, <2>t, <2>v, <3>2, <3>3
  <2>9. CASE CacheExpires \/ UNCHANGED vars
    <3>1. /\ UNCHANGED <<cached, writeAsap, loop, body, mine, mineOld, other, otherOld,
                         updated, outcome, faults, others, restarts>>
          /\ UNCHANGED fresh \/ fresh' = FALSE
      BY <2>9 DEF CacheExpires, vars, manager, configMap, counters
    <3>2. QED BY <2>4, <2>t, <2>v, <3>1
  <2>10. CASE OtherWrites \/ Edited
    <3>1. /\ others' \in 0..MaxOthers
          /\ updated' = (loop = "write")
          /\ UNCHANGED <<cached, writeAsap, fresh, loop, body, outcome, faults, restarts>>
      BY <2>v, <2>10 DEF OtherWrites, Edited, Others, manager
    <3>2. /\ other' \in Nat /\ otherOld' = FALSE /\ mineOld' = FALSE
          /\ mine' = mine \/ mine' = None
      BY <2>10, <3>1 DEF OtherWrites, Edited
    <3>3. QED BY <2>4, <2>t, <2>v, <3>1, <3>2
  <2>11. CASE EntryExpires
    BY <2>4, <2>t, <2>v, <2>11 DEF EntryExpires, manager, counters
  <2>12. CASE Restart
    <3>1. restarts' \in 0..MaxRestarts
      BY <2>v, <2>12 DEF Restart
    <3>2. QED BY <2>4, <2>t, <2>v, <2>12, <3>1 DEF Restart
  <2>13. QED
    BY <1>2, <2>5, <2>6, <2>7, <2>8, <2>9, <2>10, <2>11, <2>12 DEF LoopStep
<1>3. QED BY <1>1, <1>2 DEF Next

\* Type correctness, and with it: no status, cached, being written or in the
\* ConfigMap, carries a time later than the last change, whatever was merged
\* from an older one (EnsureSubscription, pkg/status/status.go:184, and
\* SubscriptionStatus.Merge, pkg/status/types.go:134).
THEOREM StatusTypeCorrect == Spec => []TypeOK
BY InitTypes, NextTypes, PTL DEF Spec

-----------------------------------------------------------------------------
(* Invariance *)

\* A call that changes the cached status and raises the flag when it must.
LEMMA ChangeIInv ==
    ASSUME IInv, Change, cached'.subs \in Maps, writeAsap' \/ ~writeAsap,
           writeAsap' \/ EqualSoftSubscriptions(cached'.subs, cached.subs),
           UNCHANGED loop \/ loop' = "woken"
    PROVE  IInv'
<1>1. loop' # "write" /\ UNCHANGED <<mine, outcome>>
  BY DEF Change, Unlocked, configMap
<1>2. Held'
  BY <1>1 DEF Held
<1>3. ChangesFlagged'
  BY <1>1, SoftTransitive DEF IInv, ChangesFlagged
<1>4. QED BY <1>2, <1>3 DEF IInv

LEMMA CallsIInv ==
    ASSUME IInv, changes \in Nat,
           \/ \E is \in IngestReports : UpdateIngestStatus(is)
           \/ \E n \in Names :
                 \/ \E ss \in SubscriptionReports : EnsureSubscription(n, ss)
                 \/ EnsureNoSubscription(n)
    PROVE  IInv'
<1>t. cached.subs \in Maps
  BY DEF IInv
<1>n. 0 \in Nat /\ changes + 1 \in Nat
  OBVIOUS
<1>1. ASSUME NEW is \in IngestReports, UpdateIngestStatus(is)
      PROVE  IInv'
  <2>1. cached'.subs = cached.subs
    BY <1>1 DEF UpdateIngestStatus
  <2>2. Change /\ (writeAsap' \/ ~writeAsap) /\ (UNCHANGED loop \/ loop' = "woken")
    BY <1>1 DEF UpdateIngestStatus, MaybeEnqueueReconcile
  <2>3. QED BY <1>t, <2>1, <2>2, SoftReflexive, ChangeIInv
<1>2. ASSUME NEW n \in Names, NEW ss \in SubscriptionReports, EnsureSubscription(n, ss)
      PROVE  IInv'
  <2>1. ss \in SubscriptionStatus(Nat)
    BY <1>2, <1>n, ReportTypes DEF SubscriptionReports
  <2>2. cached'.subs = Ensured(cached.subs, n, ss)
    BY <1>2 DEF EnsureSubscription
  <2>3. /\ Change /\ (UNCHANGED loop \/ loop' = "woken")
        /\ writeAsap' = (writeAsap \/ EnsuredFlags(cached.subs, n, ss))
    BY <1>2 DEF EnsureSubscription, MaybeEnqueueReconcile
  <2>4. QED BY <1>t, <2>1, <2>2, <2>3, EnsuredSoft, ChangeIInv
<1>3. ASSUME NEW n \in Names, EnsureNoSubscription(n)
      PROVE  IInv'
  <2>1. cached'.subs = [cached.subs EXCEPT ![n] = None]
    BY <1>3 DEF EnsureNoSubscription, Removed
  <2>2. /\ Change /\ (UNCHANGED loop \/ loop' = "woken")
        /\ writeAsap' = (writeAsap \/ cached.subs[n] # None)
    BY <1>3 DEF EnsureNoSubscription, MaybeEnqueueReconcile, RemovedFlags
  <2>3. cached'.subs \in Maps
    BY <1>t, <2>1 DEF Maps, MapsOf
  <2>4. cached.subs[n] = None => cached'.subs = cached.subs
    BY <1>t, <2>1 DEF Maps, MapsOf
  <2>5. QED BY <2>2, <2>3, <2>4, SoftReflexive, ChangeIInv
<1>4. QED BY <1>1, <1>2, <1>3

LEMMA NewMaps == NewStatus.subs \in Maps
BY DEF NewStatus, NoSubscriptions, Maps, MapsOf

LEMMA InitIInv == Init => IInv /\ changes \in Nat
<1> SUFFICES ASSUME Init PROVE IInv /\ changes \in Nat
  OBVIOUS
<1>1. cached = NewStatus /\ loop = "select" /\ writeAsap = TRUE /\ changes = 0
  BY DEF Init
<1>2. Held /\ ChangesFlagged
  BY <1>1 DEF Held, ChangesFlagged
<1>3. QED BY <1>1, <1>2, NewMaps DEF IInv

LEMMA NextIInv == IInv /\ changes \in Nat /\ [Next]_vars => IInv' /\ changes' \in Nat
<1> SUFFICES ASSUME IInv, changes \in Nat, [Next]_vars PROVE IInv' /\ changes' \in Nat
  OBVIOUS
<1>c. changes' = changes \/ changes' = changes + 1
  BY DEF Next, vars, counters, UpdateIngestStatus, EnsureSubscription, EnsureNoSubscription,
     Change, LoopStep, Tick, Check, ReadStatus, WriteStatus, WriteRefused, CallFails, EndUpdate,
     LoopMoves, Stop, CacheExpires, OtherWrites, Edited, Others, EntryExpires, Restart
<1>i. IInv'
  <2>t. cached.subs \in Maps /\ Held /\ ChangesFlagged
    BY DEF IInv
  <2>1. CASE \/ \E is \in IngestReports : UpdateIngestStatus(is)
             \/ \E n \in Names :
                   \/ \E ss \in SubscriptionReports : EnsureSubscription(n, ss)
                   \/ EnsureNoSubscription(n)
    BY <2>1, CallsIInv
  \* Steps that leave the cached status, the flag and what was written alone.
  <2>2. ASSUME UNCHANGED <<cached, writeAsap, outcome>>, mine' = mine \/ mine' = None, Held'
        PROVE  IInv'
    BY <2>t, <2>2 DEF IInv, ChangesFlagged
  <2>3. CASE Tick \/ Stop \/ Check
    <3>1. loop' # "write" /\ UNCHANGED <<cached, writeAsap, outcome, mine>>
      BY <2>3 DEF Tick, Stop, Check, LoopMoves, configMap
    <3>2. QED BY <2>2, <3>1 DEF Held
  <2>4. CASE ReadStatus
    <3>1. /\ UNCHANGED <<cached, writeAsap, outcome, mine, other, otherOld>>
          /\ body' = [mine |-> cached, other |-> KeptOther]
      BY <2>4 DEF ReadStatus, LoopMoves
    <3>2. Held'
      BY <3>1 DEF Held, KeptOther
    <3>3. QED BY <2>2, <3>1, <3>2
  <2>5. CASE WriteStatus
    <3>1. /\ loop = "write" /\ loop' = "select" /\ mine' = body.mine /\ UNCHANGED cached
      BY <2>5 DEF WriteStatus, EndUpdate, LoopMoves
    <3>2. mine' = cached'
      BY <2>t, <3>1 DEF Held
    <3>3. ChangesFlagged'
      BY <3>2, SoftReflexive DEF ChangesFlagged
    <3>4. QED BY <2>t, <3>1, <3>3 DEF IInv, Held
  <2>6. CASE WriteRefused \/ CallFails("update") \/ CallFails("write")
    <3>1. outcome' = "failed" /\ loop' = "select" /\ UNCHANGED cached
      BY <2>6 DEF WriteRefused, CallFails, EndUpdate, LoopMoves
    <3>2. QED BY <2>t, <3>1 DEF IInv, Held, ChangesFlagged
  <2>7. CASE CacheExpires \/ UNCHANGED vars
    <3>1. UNCHANGED <<cached, writeAsap, outcome, mine, loop, body, other, otherOld, updated>>
      BY <2>7 DEF CacheExpires, vars, manager, configMap
    <3>2. QED BY <2>t, <2>2, <3>1 DEF Held
  <2>8. CASE OtherWrites \/ Edited
    <3>1. /\ UNCHANGED <<cached, writeAsap, outcome, loop, body>>
          /\ mine' = mine \/ mine' = None
          /\ updated' = (loop = "write")
      BY <2>8 DEF OtherWrites, Edited, Others, manager
    <3>2. Held'
      BY <2>t, <3>1 DEF Held
    <3>3. QED BY <2>2, <3>1, <3>2
  <2>9. CASE EntryExpires
    <3>1. /\ UNCHANGED <<cached, writeAsap, outcome, mine, loop, body, other, updated>>
          /\ otherOld' = TRUE \/ UNCHANGED otherOld
      BY <2>9 DEF EntryExpires, manager
    <3>2. Held'
      BY <2>t, <3>1 DEF Held
    <3>3. QED BY <2>2, <3>1, <3>2
  <2>10. CASE Restart
    <3>1. cached' = NewStatus /\ writeAsap' = TRUE /\ loop' = "select"
      BY <2>10 DEF Restart
    <3>2. QED BY <3>1, NewMaps DEF IInv, Held, ChangesFlagged
  <2>11. QED
    BY <2>1, <2>3, <2>4, <2>5, <2>6, <2>7, <2>8, <2>9, <2>10 DEF Next, LoopStep
<1>2. QED BY <1>c, <1>i

LEMMA Invariance == Spec => [](IInv /\ changes \in Nat)
<1> DEFINE J == IInv /\ changes \in Nat
<1>1. Init => J
  BY InitIInv
<1>2. J /\ [Next]_vars => J'
  BY NextIInv
<1> HIDE DEF J
<1>3. Spec => []J
  BY <1>1, <1>2, PTL DEF Spec
<1>4. QED BY <1>3 DEF J

\* No change of a subscription's status is forgotten: what the ConfigMap does
\* not show is flagged, in every interleaving of the changes with the loop that
\* clears the flag, unless a write failed or others removed the entry
\* (Start and updateStatus, pkg/status/status.go:96-146).
THEOREM NothingForgotten == Spec => []ChangesFlagged
BY Invariance, PTL DEF IInv

\* An update of the ConfigMap that succeeds keeps what the other instance
\* wrote meanwhile, and removes its entry only if that expired.
THEOREM OtherInstanceKept == Spec => OthersKept
<1> DEFINE A == outcome' = "ok" /\ loop = "write" /\ loop' = "select" =>
                    other' = other \/ (otherOld /\ other' = 0)
<1>1. ASSUME IInv, [Next]_vars
      PROVE  A
  <2> SUFFICES ASSUME outcome' = "ok", loop = "write", loop' = "select"
               PROVE  other' = other \/ (otherOld /\ other' = 0)
    OBVIOUS
  <2>1. CASE WriteStatus
    BY <1>1, <2>1 DEF IInv, Held, WriteStatus, Conflict
  <2>2. CASE ~WriteStatus
    BY <1>1, <2>2 DEF Next, vars, manager, configMap, UpdateIngestStatus, EnsureSubscription,
       EnsureNoSubscription, Change, Unlocked, LoopStep, Tick, Check, ReadStatus, WriteRefused,
       CallFails, EndUpdate, LoopMoves, Stop, CacheExpires, OtherWrites, Edited, Others,
       EntryExpires, Restart
  <2>3. QED BY <2>1, <2>2
<1>2. QED BY <1>1, Invariance, PTL DEF Spec, OthersKept
=============================================================================
