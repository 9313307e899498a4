---------------------------- MODULE StatusManager ----------------------------
(***************************************************************************)
(* The status manager, pkg/status, with its Kubernetes writer,             *)
(* pkg/common/kubernetes/status.                                           *)
(*                                                                         *)
(* The ingest server and the subscription manager change a cached status   *)
(* under a mutex; a loop copies it to this instance's entry of a ConfigMap *)
(* that all instances of the broker read, modify and update.  The update   *)
(* is refused when somebody else updated the ConfigMap in between.         *)
(*                                                                         *)
(* The changes made to the cached status are numbered: the number is the   *)
(* time stamped on the change.  Operators with an underscore are plausible *)
(* slips in the definition that follows them.                              *)
(***************************************************************************)
EXTENDS StatusTypes

CONSTANTS
    MaxChanges,   \* bound: calls that change the cached status
    MaxFaults,    \* bound: failed calls to the Kubernetes API
    MaxOthers,    \* bound: changes of the ConfigMap by others
    MaxRestarts   \* bound: times the process ends and starts again

ASSUME StatusManagerAssumption ==
    MaxChanges \in Nat /\ MaxFaults \in Nat /\ MaxOthers \in Nat /\ MaxRestarts \in Nat

VARIABLES
    \* the manager
    cached,      \* manager.cached: ingest and subscriptions
    writeAsap,   \* manager.writeAsap
    fresh,       \* lastStatusWrite + cacheExpiration is in the future
    loop,        \* where Start is
    body,        \* the ConfigMap content UpdateStatus is about to write
    \* the ConfigMap
    mine,        \* this instance's entry, None when there is none
    mineOld,     \* it was written longer than instanceExpire ago
    other,       \* number of the other instance's entry, 0 when there is none
    otherOld,    \* it was written longer than instanceExpire ago
    updated,     \* the ConfigMap was updated since UpdateStatus read it
    \* history, for the properties and the bounds only
    outcome,     \* of this process' last write: "none", "ok" or "failed"
    changes, faults, others, restarts

manager   == <<cached, writeAsap, fresh, loop, body>>
configMap == <<mine, mineOld, other, otherOld, updated>>
counters  == <<changes, faults, others, restarts>>
vars == <<manager, configMap, outcome, counters>>

NewStatus == [ingest |-> [status |-> "", stamp |-> 0], subs |-> NoSubscriptions]

NoBody == [mine |-> NewStatus, other |-> 0]

\* No status carries a time that has not come yet.
Status ==
    LET Stamps == 0..changes
    IN  [ingest : IngestStatus(Stamps),
         subs : [Names -> SubscriptionStatus(Stamps) \cup {None}]]

Init ==
    /\ cached = NewStatus /\ writeAsap = TRUE /\ fresh = FALSE
    /\ loop = "select" /\ body = NoBody
    /\ mine = None /\ mineOld = FALSE /\ updated = FALSE
    /\ other \in {0, 1} /\ otherOld \in {FALSE, other = 1}
    /\ outcome = "none"
    /\ changes = 0 /\ faults = 0 /\ others = 0 /\ restarts = 0

-----------------------------------------------------------------------------
(* Changes of the cached status *)

\* updateStatus holds the mutex during the calls to the Kubernetes API.
Unlocked_Always == TRUE
Unlocked == loop # "write"

Change ==
    /\ Unlocked /\ changes < MaxChanges
    /\ changes' = changes + 1
    /\ UNCHANGED <<fresh, body, configMap, outcome, faults, others, restarts>>

\* The non-blocking send on chReconcile: received only if the loop is already
\* waiting in its select.
MaybeEnqueueReconcile(needed) ==
    \/ UNCHANGED loop
    \/ needed = TRUE /\ loop = "select" /\ loop' = "woken"

\* The cached ingest is overwritten before the comparison that decides on the
\* flag: it is compared with itself.
IngestFlags(is) == ~EqualIngest(cached.ingest, is) /\ ~EqualSoftIngest(is, is)

UpdateIngestStatus(is) ==
    /\ Change
    /\ cached' = [cached EXCEPT !.ingest = is]
    /\ writeAsap' = (writeAsap \/ IngestFlags(is))
    /\ MaybeEnqueueReconcile(IngestFlags(is))

EnsureSubscription(n, ss) ==
    /\ Change
    /\ cached' = [cached EXCEPT !.subs = Ensured(@, n, ss)]
    /\ writeAsap' = (writeAsap \/ EnsuredFlags(cached.subs, n, ss))
    /\ MaybeEnqueueReconcile(EnsuredFlags(cached.subs, n, ss))

EnsureNoSubscription(n) ==
    /\ Change
    /\ cached' = [cached EXCEPT !.subs = Removed(@, n)]
    /\ writeAsap' = (writeAsap \/ RemovedFlags(cached.subs, n))
    /\ MaybeEnqueueReconcile(RemovedFlags(cached.subs, n))

\* The ingest server reports Ready when it starts, Running with the time of
\* every event, and Closed when it ends.
IngestReports ==
    {[status |-> "Ready", stamp |-> 0], [status |-> "Running", stamp |-> changes + 1],
     [status |-> "Closed", stamp |-> 0]}

SubscriptionReports == {ReadyStatus, FailedStatus, CompleteStatus, RunningStatus(changes + 1)}

-----------------------------------------------------------------------------
(* The loop of Start *)

LoopMoves(from, to) ==
    /\ loop = from /\ loop' = to
    /\ UNCHANGED <<cached, others, restarts, changes>>

Tick ==
    /\ LoopMoves("select", "woken")
    /\ UNCHANGED <<writeAsap, fresh, body, configMap, outcome, faults>>

\* The context is done.
Stop ==
    /\ LoopMoves("select", "returned")
    /\ UNCHANGED <<writeAsap, fresh, body, configMap, outcome, faults>>

\* Skip if there are no pending writes and the cache is not stale; the mutex
\* is not held.
MaySkip_Either == ~writeAsap \/ fresh
MaySkip == ~writeAsap /\ fresh

Check ==
    /\ LoopMoves("woken", IF MaySkip THEN "select" ELSE "update")
    /\ UNCHANGED <<writeAsap, fresh, body, configMap, outcome, faults>>

CacheExpires ==
    /\ fresh /\ fresh' = FALSE
    /\ UNCHANGED <<cached, writeAsap, loop, body, configMap, outcome, counters>>

\* updateStatus locks the mutex and UpdateStatus reads the ConfigMap: the
\* other instance's entry is kept unless it expired.
KeptOther == IF otherOld THEN 0 ELSE other

ReadStatus ==
    /\ LoopMoves("update", "write")
    /\ body' = [mine |-> cached, other |-> KeptOther]
    /\ updated' = FALSE
    /\ UNCHANGED <<writeAsap, fresh, mine, mineOld, other, otherOld, outcome, faults>>

\* The flag is only raised when it is raised already.
FailedAfter(failed, err) == IF err /\ failed THEN TRUE ELSE failed

\* What updateStatus does when its one status backend has answered.
EndUpdate(from, err) ==
    /\ LoopMoves(from, "select")
    /\ writeAsap' = FailedAfter(FALSE, err)
    /\ fresh' = (FailedAfter(FALSE, err) => fresh)
    /\ outcome' = IF err THEN "failed" ELSE "ok"
    /\ body' = NoBody /\ updated' = FALSE

Conflict_Ignored == FALSE
Conflict == updated

WriteStatus ==
    /\ EndUpdate("write", FALSE) /\ ~Conflict
    /\ mine' = body.mine /\ mineOld' = FALSE
    /\ other' = body.other /\ otherOld' = (otherOld /\ body.other # 0)
    /\ UNCHANGED faults

\* The update is refused, since the ConfigMap has another resource version.
WriteRefused ==
    /\ EndUpdate("write", TRUE) /\ Conflict
    /\ UNCHANGED <<mine, mineOld, other, otherOld, faults>>

\* Reading or writing the ConfigMap fails.
CallFails(from) ==
    /\ EndUpdate(from, TRUE)
    /\ faults < MaxFaults /\ faults' = faults + 1
    /\ UNCHANGED <<mine, mineOld, other, otherOld>>

LoopStep ==
    \/ Tick \/ Check \/ ReadStatus
    \/ WriteStatus \/ WriteRefused \/ CallFails("update") \/ CallFails("write")

-----------------------------------------------------------------------------
(* The other instance, time, and the process *)

Others ==
    /\ others < MaxOthers /\ others' = others + 1
    /\ updated' = (loop = "write")
    /\ UNCHANGED <<manager, outcome, changes, faults, restarts>>

\* The other instance runs the same UpdateStatus: it writes its entry and
\* removes ours if that expired.
OtherWrites ==
    /\ Others
    /\ other' = others' + 1 /\ otherOld' = FALSE
    /\ mine' = IF mineOld THEN None ELSE mine
    /\ mineOld' = FALSE

\* Somebody edits the ConfigMap: the key is removed, or holds no status.
Edited ==
    /\ Others
    /\ other' = 0 /\ otherOld' = FALSE /\ mine' = None /\ mineOld' = FALSE

EntryExpires ==
    /\ \/ mine # None /\ mineOld' = TRUE /\ UNCHANGED otherOld
       \/ other # 0 /\ otherOld' = TRUE /\ UNCHANGED mineOld
    /\ UNCHANGED <<manager, mine, other, updated, outcome, counters>>

\* The process ends and starts again; what it wrote stays.
Restart ==
    /\ restarts < MaxRestarts /\ restarts' = restarts + 1
    /\ cached' = NewStatus /\ writeAsap' = TRUE /\ fresh' = FALSE
    /\ loop' = "select" /\ body' = NoBody /\ outcome' = "none" /\ updated' = FALSE
    /\ UNCHANGED <<mine, mineOld, other, otherOld, changes, faults, others>>

Next ==
    \/ \E is \in IngestReports : UpdateIngestStatus(is)
    \/ \E n \in Names :
          \/ \E ss \in SubscriptionReports : EnsureSubscription(n, ss)
          \/ EnsureNoSubscription(n)
    \/ LoopStep \/ Stop
    \/ CacheExpires
    \/ OtherWrites \/ Edited \/ EntryExpires
    \/ Restart

Spec == Init /\ [][Next]_vars

\* The loop is scheduled, its ticker fires, the API answers, and time passes.
\* Nothing is assumed of the callers, of others, or of the end of the process.
FairSpec == Spec /\ WF_vars(LoopStep) /\ WF_vars(CacheExpires)

-----------------------------------------------------------------------------
(* Properties *)

\* Every variable keeps its type, and no timestamp is later than the last change.
TypeOK ==
    /\ cached \in Status /\ writeAsap \in BOOLEAN /\ fresh \in BOOLEAN
    /\ loop \in {"select", "woken", "update", "write", "returned"}
    /\ body \in [mine : Status, other : Nat]
    /\ loop # "write" => body = NoBody /\ ~updated
    /\ mine \in Status \cup {None} /\ mineOld \in BOOLEAN
    /\ other \in Nat /\ otherOld \in BOOLEAN /\ updated \in BOOLEAN
    /\ outcome \in {"none", "ok", "failed"}
    /\ changes \in 0..MaxChanges /\ faults \in 0..MaxFaults
    /\ others \in 0..MaxOthers /\ restarts \in 0..MaxRestarts

\* No subscription change is forgotten: when the ConfigMap does not show the
\* subscriptions of the cached status, writeAsap is raised, although changes
\* come while the loop decides, waits for the mutex or writes.  The
\* exceptions are a write that failed, and an entry that others removed.
ChangesFlagged ==
    \/ writeAsap \/ outcome = "failed" \/ mine = None
    \/ EqualSoftSubscriptions(cached.subs, mine.subs)

\* A write of this instance never undoes one that the other instance made
\* since the ConfigMap was read, and removes its entry only when it expired.
OthersKept ==
    [][outcome' = "ok" /\ loop = "write" /\ loop' = "select" =>
          other' = other \/ (otherOld /\ other' = 0)]_vars

\* Once changes and faults end, the ConfigMap comes to show the cached status,
\* timestamps included, unless Start has returned.
StatusReported == <>[](loop = "returned" \/ mine = cached)

\* pkg/status/status.go:141: "If the status update failed, raise the flag to
\* force write at the next cycle."
FailedWriteRetried == outcome = "failed" /\ loop = "select" => writeAsap
=============================================================================
