------------------------- MODULE SubscriptionManager -------------------------
(***************************************************************************)
(* The subscription manager: pkg/subscriptions.                            *)
(*                                                                         *)
(* UpdateFromConfig makes the backend's subscriptions follow the           *)
(* configured triggers, while the backend calls dispatchCloudEvent of the  *)
(* subscribers and both report to the status manager.  A subscriber is an  *)
(* object: one removed and created again leaves the dispatches of the old  *)
(* object running, unless the backend's Unsubscribe waits for them.        *)
(*                                                                         *)
(* The backend is modelled from how this package uses it: memory waits in  *)
(* Unsubscribe for the dispatches that run and calls them one at a time,   *)
(* Redis and Kafka do neither.  Operators with an underscore are plausible *)
(* slips in the definition that follows them.                              *)
(***************************************************************************)
EXTENDS StatusTypes, FiniteSets

CONSTANTS
    Triggers,      \* trigger configurations
    Unparsable,    \* those whose backoff delay cannot be parsed
    Dispatches,    \* dispatches that may run at a time
    MaxUpdates,    \* bound: calls of UpdateFromConfig
    MaxEvents,     \* bound: dispatches and Complete reports
    MaxFaults      \* bound: failed calls of the backend's Subscribe

ASSUME SubscriptionAssumption ==
    /\ None \notin Triggers /\ Unparsable \subseteq Triggers
    /\ MaxUpdates \in Nat /\ MaxEvents \in Nat /\ MaxFaults \in Nat

VARIABLES
    waits,        \* the backend's Unsubscribe waits for running dispatches
    config,       \* the configuration of the last UpdateFromConfig
    pc,           \* where it is
    name,         \* the trigger in its hands
    todo,         \* the triggers its loop has still to visit
    subscribers,  \* the keys of Manager.subscribers
    object,       \* for each name, the number of its latest subscriber object
    trigger,      \* for each object, subscriber.trigger and the context made of it
    subscribed,   \* the keys of the backend's subscriptions
    dispatch,     \* the dispatches
    status,       \* the subscriptions of the cached status
    \* history, for the properties and the bounds only
    aborted,      \* the last update returned early
    updates, events, faults

manager == <<config, pc, name, todo, subscribers>>
objects == <<object, trigger>>
vars == <<waits, manager, objects, subscribed, dispatch, status, aborted,
          updates, events, faults>>

Objects == 0..MaxUpdates

NoDispatch == [pc |-> "none", name |-> None, object |-> 0, saw |-> {}, time |-> 0]

Dispatch == [pc : {"none", "spawned", "filter", "target", "deadletter", "report", "unlock"},
             name : Names \cup {None}, object : Objects, saw : SUBSET Triggers, time : 0..MaxEvents]

Configs == [Names -> Triggers \cup {None}]

\* The trigger of a name's current subscriber.
Current(n) == trigger[n][object[n]]

\* What updateTrigger can make a context of.
Parses_Always(t) == TRUE
Parses(t) == t \notin Unparsable

\* The deep comparison of the subscriber's trigger with the configured one.
Unchanged_Known(n) == TRUE
Unchanged(n) == Current(n) = config[n]

\* Dispatches of a name, and those that hold the read lock of one object.
Running(n) == {d \in Dispatches : dispatch[d].name = n}
Locked(n, o) == {d \in Running(n) : dispatch[d].object = o /\ dispatch[d].pc # "spawned"}

Init ==
    /\ waits \in BOOLEAN
    /\ config = [n \in Names |-> None]
    /\ pc = "idle" /\ name = None /\ todo = {}
    /\ subscribers = {} /\ subscribed = {}
    /\ object = [n \in Names |-> 0]
    /\ trigger = [n \in Names |-> [o \in Objects |-> None]]
    /\ dispatch = [d \in Dispatches |-> NoDispatch]
    /\ status = NoSubscriptions
    /\ aborted = FALSE /\ updates = 0 /\ events = 0 /\ faults = 0

-----------------------------------------------------------------------------
(* UpdateFromConfig holds the manager's mutex: one at a time. *)

Moves(from, to) ==
    /\ pc = from /\ pc' = to
    /\ UNCHANGED <<waits, config, dispatch, events>>

UpdateFromConfig(c) ==
    /\ pc = "idle" /\ updates < MaxUpdates
    /\ updates' = updates + 1
    /\ config' = c /\ pc' = "delete" /\ aborted' = FALSE
    /\ todo' = {n \in subscribers : c[n] = None}
    /\ UNCHANGED <<waits, name, subscribers, objects, subscribed, dispatch, status,
                   events, faults>>

CallUnsubscribe(n) ==
    /\ Moves("delete", "unsubscribe") /\ n \in todo
    /\ name' = n
    /\ UNCHANGED <<todo, subscribers, objects, subscribed, status, aborted, updates, faults>>

UnsubscribeReturns ==
    /\ Moves("unsubscribe", "forget")
    /\ waits => Running(name) = {}
    /\ subscribed' = subscribed \ {name} /\ subscribers' = subscribers \ {name}
    /\ UNCHANGED <<name, todo, objects, status, aborted, updates, faults>>

\* EnsureNoSubscription comes last, after the backend has let go of the name.
StatusAfterDelete_Kept == status
StatusAfterDelete == Removed(status, name)

Forget ==
    /\ Moves("forget", "delete")
    /\ status' = StatusAfterDelete
    /\ todo' = todo \ {name} /\ name' = None
    /\ UNCHANGED <<subscribers, objects, subscribed, aborted, updates, faults>>

DeleteDone ==
    /\ Moves("delete", "create") /\ todo = {}
    /\ todo' = {n \in Names : config[n] # None}
    /\ UNCHANGED <<name, subscribers, objects, subscribed, status, aborted, updates, faults>>

Done(n) == todo' = todo \ {n} /\ name' = None

\* updateTrigger or the backend's Subscribe fails: the loop goes on.
CreateFails(n) ==
    /\ Moves("create", "create") /\ n \in todo /\ n \notin subscribers
    /\ \/ ~Parses(config[n]) /\ UNCHANGED faults
       \/ faults < MaxFaults /\ faults' = faults + 1
    /\ status' = Ensured(status, n, FailedStatus)
    /\ Done(n)
    /\ UNCHANGED <<subscribers, objects, subscribed, aborted, updates>>

\* From here on the backend may dispatch to the new object.
CreateSubscriber(n) ==
    /\ Moves("create", "ready") /\ n \in todo /\ n \notin subscribers
    /\ Parses(config[n])
    /\ name' = n
    /\ object' = [object EXCEPT ![n] = @ + 1]
    /\ trigger' = [trigger EXCEPT ![n][object[n] + 1] = config[n]]
    /\ subscribed' = subscribed \cup {n}
    /\ UNCHANGED <<todo, subscribers, status, aborted, updates, faults>>

SubscriberReady ==
    /\ Moves("ready", "create")
    /\ status' = Ensured(status, name, ReadyStatus)
    /\ subscribers' = subscribers \cup {name}
    /\ Done(name)
    /\ UNCHANGED <<objects, subscribed, aborted, updates, faults>>

SkipEqual(n) ==
    /\ Moves("create", "create") /\ n \in todo /\ n \in subscribers
    /\ Unchanged(n)
    /\ Done(n)
    /\ UNCHANGED <<subscribers, objects, subscribed, status, aborted, updates, faults>>

\* updateTrigger fails: UpdateFromConfig returns, whatever is left to do.
UpdateAborts(n) ==
    /\ Moves("create", "idle") /\ n \in todo /\ n \in subscribers
    /\ ~Unchanged(n) /\ ~Parses(config[n])
    /\ aborted' = TRUE /\ todo' = {}
    /\ UNCHANGED <<name, subscribers, objects, subscribed, status, updates, faults>>

\* updateTrigger waits for the subscriber's write lock.
CallUpdateTrigger(n) ==
    /\ Moves("create", "locking") /\ n \in todo /\ n \in subscribers
    /\ ~Unchanged(n) /\ Parses(config[n])
    /\ name' = n
    /\ UNCHANGED <<todo, subscribers, objects, subscribed, status, aborted, updates, faults>>

WriteLocked_AtOnce(n) == TRUE
WriteLocked(n) == Locked(n, object[n]) = {}

UpdateTrigger ==
    /\ Moves("locking", "create") /\ WriteLocked(name)
    /\ trigger' = [trigger EXCEPT ![name][object[name]] = config[name]]
    /\ Done(name)
    /\ UNCHANGED <<subscribers, object, subscribed, status, aborted, updates, faults>>

UpdateReturns ==
    /\ Moves("create", "idle") /\ todo = {}
    /\ UNCHANGED <<name, todo, subscribers, objects, subscribed, status, aborted, updates, faults>>

UpdateStep ==
    \/ \E n \in Names : CallUnsubscribe(n)
    \/ UnsubscribeReturns \/ Forget \/ DeleteDone
    \/ \E n \in Names :
          CreateFails(n) \/ CreateSubscriber(n) \/ SkipEqual(n)
          \/ UpdateAborts(n) \/ CallUpdateTrigger(n)
    \/ SubscriberReady \/ UpdateTrigger \/ UpdateReturns

-----------------------------------------------------------------------------
(* dispatchCloudEvent *)

DispatchMoves(d, r) ==
    /\ dispatch' = [dispatch EXCEPT ![d] = r]
    /\ UNCHANGED <<waits, manager, objects, subscribed, aborted, updates, faults>>

Spawn(d, n) ==
    /\ dispatch[d].pc = "none" /\ n \in subscribed /\ events < MaxEvents
    /\ waits => \A e \in Dispatches : dispatch[e].pc = "none"
    /\ events' = events + 1
    /\ DispatchMoves(d, [NoDispatch EXCEPT !.pc = "spawned", !.name = n, !.object = object[n]])
    /\ UNCHANGED status

\* A writer that waits keeps new readers out.
ReadLock(d) ==
    LET r == dispatch[d]
    IN  /\ r.pc = "spawned"
        /\ ~(pc = "locking" /\ name = r.name /\ object[name] = r.object)
        /\ DispatchMoves(d, [r EXCEPT !.pc = "filter"])
        /\ UNCHANGED <<status, events>>

\* The subscriber's fields are read anew for the filter, the target and the
\* dead letter sink.
Reads(d, from, choices) ==
    LET r == dispatch[d]
    IN  /\ r.pc = from
        /\ \E to \in choices :
              DispatchMoves(d, [r EXCEPT !.pc = to, !.saw = @ \cup {trigger[r.name][r.object]}])
        /\ UNCHANGED <<status, events>>

Filter(d) == Reads(d, "filter", {"target", "report"})
Target(d) == Reads(d, "target", {"deadletter", "report"})
DeadLetter(d) == Reads(d, "deadletter", {"report"})

\* The deferred status change takes its timestamp ...
TakeTime(d) ==
    /\ dispatch[d].pc = "report"
    /\ DispatchMoves(d, [dispatch[d] EXCEPT !.pc = "unlock", !.time = events])
    /\ UNCHANGED <<status, events>>

\* ... and is made before the deferred RUnlock.
AfterReport_Locked(d) == [dispatch[d] EXCEPT !.pc = "locked"]
AfterReport(d) == NoDispatch

ReportRunning(d) ==
    /\ dispatch[d].pc = "unlock"
    /\ status' = Ensured(status, dispatch[d].name, RunningStatus(dispatch[d].time))
    /\ DispatchMoves(d, AfterReport(d))
    /\ UNCHANGED events

DispatchStep(d) ==
    ReadLock(d) \/ Filter(d) \/ Target(d) \/ DeadLetter(d) \/ TakeTime(d) \/ ReportRunning(d)

\* The backend reports that a replay is over.
Complete(n) ==
    /\ n \in subscribed /\ events < MaxEvents
    /\ events' = events + 1
    /\ status' = Ensured(status, n, CompleteStatus)
    /\ UNCHANGED <<waits, manager, objects, subscribed, dispatch, aborted, updates, faults>>

Next ==
    \/ \E c \in Configs : UpdateFromConfig(c)
    \/ UpdateStep
    \/ \E d \in Dispatches : DispatchStep(d) \/ \E n \in Names : Spawn(d, n)
    \/ \E n \in Names : Complete(n)

Spec == Init /\ [][Next]_vars

\* Updates and dispatches that have begun go on: targets answer or time out.
FairSpec ==
    Spec /\ WF_vars(UpdateStep) /\ \A d \in Dispatches : WF_vars(DispatchStep(d))

-----------------------------------------------------------------------------
(* Properties *)

\* Every variable keeps its type, and what is in a caller's hands exists.
TypeOK ==
    /\ waits \in BOOLEAN /\ config \in Configs
    /\ pc \in {"idle", "delete", "unsubscribe", "forget", "create", "ready", "locking"}
    /\ name \in Names \cup {None} /\ todo \subseteq Names
    /\ pc \in {"unsubscribe", "forget", "ready", "locking"} => name \in Names
    /\ subscribers \subseteq Names /\ subscribed \subseteq Names
    /\ object \in [Names -> Objects]
    /\ trigger \in [Names -> [Objects -> Triggers \cup {None}]]
    /\ \A n \in subscribed : Current(n) \in Triggers \ Unparsable
    /\ dispatch \in [Dispatches -> Dispatch]
    /\ status \in [Names -> SubscriptionStatus(0..MaxEvents) \cup {None}]
    /\ aborted \in BOOLEAN
    /\ updates \in 0..MaxUpdates /\ events \in 0..MaxEvents /\ faults \in 0..MaxFaults

\* A dispatch filters, sends and dead-letters by one trigger configuration,
\* although updates come while it runs.
DispatchSeesOneTrigger == \A d \in Dispatches : Cardinality(dispatch[d].saw) <= 1

\* Between updates every configured trigger has a subscriber that serves it as
\* configured, or is reported as Failed, and no other trigger has a
\* subscriber.  The exceptions are an update that gave up, and a report that
\* a late dispatch of a removed subscriber overwrites.
ConfigApplied ==
    pc = "idle" /\ ~aborted =>
        \A n \in Names :
            IF n \in subscribers
            THEN n \in subscribed /\ Current(n) = config[n]
            ELSE /\ n \notin subscribed
                 /\ config[n] # None =>
                       status[n] # None /\ (waits => status[n].status = "Failed")

\* Between updates the status shows the subscribers and, of other triggers,
\* only failures: no report of a dispatch or of a replay survives the removal
\* of its subscriber.  It needs a backend that waits in Unsubscribe.
StatusFollowsSubscribers ==
    pc = "idle" =>
        /\ \A n \in subscribers : status[n] # None
        /\ waits => \A n \in Names \ subscribers :
                       status[n] # None => status[n].status = "Failed"

\* The time of the last processed event stays in a trigger's status as long as
\* the trigger has one, whatever is reported next.
LastProcessedKept ==
    [][\A n \in Names :
          status[n] # None /\ status'[n] # None /\ status[n].stamp # 0
             => status'[n].stamp # 0]_vars

\* UpdateFromConfig returns, and with it the callback of the watcher, although
\* it waits for dispatches and they for each other's locks.
UpdateEnds == pc # "idle" ~> pc = "idle"
=============================================================================
