---------------------------- MODULE KafkaBackend ----------------------------
(***************************************************************************)
(* The Kafka backend of the broker: pkg/backend/impl/kafka.                *)
(*                                                                         *)
(* One topic with one partition, one consumer group for each trigger, one  *)
(* broker process that may end and start again.  In it, the backend object *)
(* with its producing client, and for each subscription a client of its    *)
(* own, a watcher and a loop goroutine, and one goroutine for each         *)
(* dispatched record.                                                      *)
(*                                                                         *)
(* Records are numbered from 0.  Their timestamps are those the producers  *)
(* set, and may go back from one record to the next.                       *)
(* The library (franz-go) is modelled from how the code uses it.           *)
(* Operators with an underscore are plausible slips in the definition that *)
(* follows them.                                                           *)
(***************************************************************************)
EXTENDS Integers, FiniteSets

CONSTANTS
    Names,        \* trigger names
    Subs,         \* subscription objects a process may create
    None,         \* no subscription
    MaxRecords,   \* bound: records added to the topic
    MaxDate,      \* bound: the latest date
    MaxFaults,    \* bound: fetch errors and failed commits
    MaxRestarts,  \* bound: times the process ends and starts again
    BoundChoices  \* the bounds triggers may be configured with

NoOffset == -1    \* nothing committed, no position, no bound
Offsets == 0..MaxRecords
Records == 0..(MaxRecords - 1)
Dates == 0..MaxDate

ASSUME KafkaAssumption ==
    /\ None \notin Subs /\ None \notin Names
    /\ MaxRecords \in Nat \ {0} /\ MaxDate \in Nat
    /\ MaxFaults \in Nat /\ MaxRestarts \in Nat
    /\ BoundChoices \subseteq [start : Offsets \cup {NoOffset}, since : Dates \cup {NoOffset},
                               endId : Offsets, endDate : Dates \cup {NoOffset}]

VARIABLES
    \* the Kafka cluster
    end,        \* records in the topic
    bad,        \* records whose value is not a valid CloudEvent
    stamp,      \* the timestamps of the records
    committed,  \* for each name, the committed offset of its group
    \* the broker process
    startPc,    \* where Start is, "down" when there is no process
    producing,  \* the producing client is open
    mutex,      \* who holds kafka.mutex while waiting
    waitFor,    \* the subscription unsubscribe() waits for
    subs,       \* kafka.subs
    wg,         \* kafka.wgSubs
    sub,        \* the subscription objects with their goroutines
    \* history, for the properties and the bounds only
    handled,    \* for each name, records a loop has handled
    processed,  \* for each name, records whose dispatch has returned
    dropped,    \* for each name, fetched records a process end took away
    origin,     \* for each name, where a loop began with nothing committed
    faults, restarts

cluster == <<end, bad, stamp>>
object  == <<startPc, producing, mutex, waitFor, subs, wg>>
history == <<handled, processed, dropped, origin>>
counts  == <<faults, restarts>>
vars == <<cluster, committed, object, sub, history, counts>>

-----------------------------------------------------------------------------
(* State *)

Subscription ==
    [owner : Names \cup {None}, pc : {"none", "check", "poll", "batch", "commit", "stopped"},
     cancelled : BOOLEAN, watching : BOOLEAN, exitLoop : BOOLEAN,
     start : Offsets \cup {NoOffset}, since : Dates,
     next : Offsets, head : Offsets \cup {NoOffset},
     endId : Offsets, endDate : Dates \cup {NoOffset},
     complete : BOOLEAN, running : SUBSET Records, returned : SUBSET Records]

NoSub ==
    [owner |-> None, pc |-> "none",
     cancelled |-> FALSE, watching |-> FALSE, exitLoop |-> FALSE,
     start |-> NoOffset, since |-> 0, next |-> 0, head |-> NoOffset,
     endId |-> 0, endDate |-> NoOffset,
     complete |-> FALSE, running |-> {}, returned |-> {}]

Up == startPc # "down"
Live(s) == sub[s].pc \in {"check", "poll", "batch", "commit"}
Subscribed == {n \in Names : subs[n] # None}

\* Records a loop has fetched and not handled yet.
InHands(s) == {m \in Records : Live(s) /\ sub[s].next <= m /\ m < sub[s].head}

Init ==
    /\ end = 0 /\ bad = {} /\ stamp = [m \in Records |-> 0]
    /\ committed = [n \in Names |-> NoOffset]
    /\ startPc = "init" /\ producing = TRUE
    /\ mutex = "free" /\ waitFor = None
    /\ subs = [n \in Names |-> None] /\ wg = 0
    /\ sub = [s \in Subs |-> NoSub]
    /\ handled = [n \in Names |-> {}] /\ processed = [n \in Names |-> {}]
    /\ dropped = [n \in Names |-> {}]
    /\ origin = [n \in Names |-> 0]
    /\ faults = 0 /\ restarts = 0

-----------------------------------------------------------------------------
(* Produce, and other writers of the topic *)

Append ==
    /\ end < MaxRecords /\ end' = end + 1
    /\ \E date \in Dates : stamp' = [stamp EXCEPT ![end] = date]
    /\ UNCHANGED <<committed, object, sub, history, counts>>

\* ProduceSync fails once the producing client is closed.
Produce == Up /\ producing /\ Append /\ UNCHANGED bad

ForeignAdd == Append /\ bad' = bad \cup {end}

-----------------------------------------------------------------------------
(* boundsResolver and newExceedBounds *)

\* An end ID alone fails: the empty end date is parsed all the same.
Resolvable(b) == b.endId # 0 => b.endDate # NoOffset

\* A start date goes before a start ID; without a start, the date is now.
StartId(b) == IF b.since = NoOffset THEN b.start ELSE NoOffset

StartDates(b) ==
    IF b.since # NoOffset THEN {b.since}
    ELSE IF b.start # NoOffset THEN {0} ELSE Dates

Exceeds_AtEnd(m, r) ==
    r.endDate # NoOffset /\ ((r.endId # 0 /\ m = r.endId) \/ stamp[m] = r.endDate)
Exceeds(m, r) ==
    r.endDate # NoOffset /\ ((r.endId # 0 /\ m >= r.endId) \/ stamp[m] > r.endDate)

-----------------------------------------------------------------------------
(* Subscribe and Unsubscribe, called by the subscription manager *)

\* disconnecting is set before Start takes the mutex.
MaySubscribe(n) == mutex = "free" /\ startPc \in {"init", "serving"} /\ subs[n] = None

Subscribe(n, b) ==
    /\ MaySubscribe(n) /\ Resolvable(b)
    /\ \E s \in Subs : \E since \in StartDates(b) :
          /\ sub[s].pc = "none"
          /\ subs' = [subs EXCEPT ![n] = s]
          /\ sub' = [sub EXCEPT ![s] =
                       [NoSub EXCEPT !.owner = n, !.pc = "check", !.watching = TRUE,
                          !.start = StartId(b), !.since = since,
                          !.endId = b.endId, !.endDate = b.endDate]]
    /\ wg' = wg + 1
    /\ UNCHANGED <<cluster, committed, startPc, producing, mutex, waitFor, history, counts>>

CancelAndWait(n) ==
    /\ waitFor' = subs[n]
    /\ sub' = [sub EXCEPT ![subs[n]].cancelled = TRUE]
    /\ UNCHANGED <<cluster, committed, startPc, producing, subs, wg, history, counts>>

Unsubscribe(n) ==
    /\ Up /\ mutex = "free" /\ n \in Subscribed
    /\ CancelAndWait(n)
    /\ mutex' = "manager"

MutexAfterWait == IF mutex = "manager" THEN "free" ELSE mutex

\* unsubscribe closes the producing client, not the subscription's.
Forget ==
    /\ producing' = FALSE
    /\ subs' = [n \in Names |-> IF subs[n] = waitFor THEN None ELSE subs[n]]
    /\ wg' = wg - 1
    /\ waitFor' = None /\ mutex' = MutexAfterWait
    /\ UNCHANGED <<cluster, committed, startPc, sub, history, counts>>

UnsubscribeStopped ==
    /\ waitFor # None /\ sub[waitFor].pc = "stopped"
    /\ Forget

UnsubscribeTimeout ==
    /\ waitFor # None /\ sub[waitFor].pc # "stopped"
    /\ Forget

-----------------------------------------------------------------------------
(* Start *)

StartStep(from, to) ==
    /\ startPc = from /\ startPc' = to
    /\ UNCHANGED <<cluster, committed, waitFor, subs, wg, sub, history, counts>>

Serve == StartStep("init", "serving") /\ UNCHANGED <<mutex, producing>>

Disconnect == StartStep("serving", "disconnecting") /\ UNCHANGED <<mutex, producing>>

LockForDrain ==
    /\ mutex = "free" /\ mutex' = "start"
    /\ StartStep("disconnecting", "draining") /\ UNCHANGED producing

Drain(n) ==
    /\ startPc = "draining" /\ waitFor = None /\ n \in Subscribed
    /\ CancelAndWait(n)
    /\ UNCHANGED mutex

CloseClient ==
    /\ waitFor = None /\ Subscribed = {}
    /\ mutex' = "free" /\ producing' = FALSE
    /\ StartStep("draining", "closed")

-----------------------------------------------------------------------------
(* The goroutines of a subscription *)

SetSub(s, r) ==
    /\ sub' = [sub EXCEPT ![s] = r]
    /\ UNCHANGED <<cluster, object, restarts, dropped>>

Keep == UNCHANGED <<committed, handled, processed, origin, faults>>

WatchDone(s) ==
    /\ sub[s].watching /\ sub[s].cancelled
    /\ SetSub(s, [sub[s] EXCEPT !.watching = FALSE, !.exitLoop = TRUE])
    /\ Keep

LoopExit(s) ==
    /\ sub[s].pc = "check" /\ sub[s].exitLoop
    /\ SetSub(s, [sub[s] EXCEPT !.pc = "stopped", !.head = NoOffset, !.next = 0,
                                !.start = NoOffset, !.since = 0,
                                !.endId = 0, !.endDate = NoOffset])
    /\ Keep

\* The first poll finds the group's committed offset, or the start: the
\* offset, when the topic has it, or the first record of the date or later.
\* The client goes on from there: the start is forgotten.
Nearest(offset) == IF offset <= end THEN offset ELSE end

FirstSince(date) ==
    {o \in 0..end : /\ o = end \/ stamp[o] >= date
                    /\ \A m \in 0..(o - 1) : stamp[m] < date}

PollFrom(s) ==
    IF sub[s].head # NoOffset THEN {sub[s].head}
    ELSE IF committed[sub[s].owner] # NoOffset THEN {committed[sub[s].owner]}
    ELSE IF sub[s].start # NoOffset THEN {Nearest(sub[s].start)}
    ELSE FirstSince(sub[s].since)

Begins(s) ==
    sub[s].head = NoOffset /\ committed[sub[s].owner] = NoOffset /\ ~sub[s].cancelled

IssuePoll(s) ==
    /\ sub[s].pc = "check" /\ ~sub[s].exitLoop
    /\ \E p \in PollFrom(s) :
          /\ SetSub(s, [sub[s] EXCEPT !.pc = "poll", !.head = p, !.next = p,
                                      !.start = NoOffset, !.since = 0])
          /\ origin' = IF Begins(s) THEN [origin EXCEPT ![sub[s].owner] = p] ELSE origin
    /\ UNCHANGED <<committed, handled, processed, faults>>

\* Any error of a fetch ends the loop.
ExitAfterError_Ignored(s) == sub[s].exitLoop
ExitAfterError(s) == TRUE

\* A fetch has the records up to h, if any, and perhaps an error.
Fetched(s, h, failed) ==
    /\ sub[s].pc = "poll"
    /\ SetSub(s, [sub[s] EXCEPT !.pc = IF sub[s].head < h THEN "batch" ELSE "check",
                                !.head = h,
                                !.exitLoop = IF failed THEN ExitAfterError(s) ELSE @])
    /\ UNCHANGED <<committed, handled, processed, origin>>

\* PollFetches returns what the client has buffered, even if the context is
\* done.
Poll(s) ==
    /\ \E h \in Offsets : sub[s].head < h /\ h <= end /\ Fetched(s, h, FALSE)
    /\ UNCHANGED faults

\* Else, with the context done, the fetch holds its error.
PollCancelled(s) ==
    sub[s].cancelled /\ Fetched(s, sub[s].head, TRUE) /\ UNCHANGED faults

PollFails(s) ==
    /\ faults < MaxFaults /\ faults' = faults + 1
    /\ \E h \in Offsets : sub[s].head <= h /\ h <= end /\ Fetched(s, h, TRUE)

\* A record of the batch: dropped, past the end bound, or dispatched.
HandleRecord(s) ==
    LET m == sub[s].next
        past == Exceeds(m, sub[s])
        bounded == sub[s].endDate # NoOffset
        after == [sub[s] EXCEPT !.pc = "commit", !.next = m + 1]
    IN  /\ sub[s].pc = "batch"
        /\ \/ /\ m \in bad
              /\ SetSub(s, after)
           \/ /\ m \notin bad /\ past
              /\ SetSub(s, [after EXCEPT !.exitLoop = TRUE, !.complete = TRUE])
           \/ /\ m \notin bad /\ ~past
              /\ SetSub(s, [after EXCEPT !.exitLoop = IF bounded THEN FALSE ELSE @,
                                         !.running = @ \cup {m}])
        /\ handled' = [handled EXCEPT ![sub[s].owner] = @ \cup {m}]
        /\ UNCHANGED <<committed, processed, faults, origin>>

\* A commit reaches the group unless the context is done, or it fails.
Commit(s, offset) ==
    \/ /\ ~sub[s].cancelled /\ UNCHANGED faults
       /\ committed' = [committed EXCEPT ![sub[s].owner] = offset]
    \/ sub[s].cancelled /\ UNCHANGED <<committed, faults>>
    \/ /\ ~sub[s].cancelled /\ faults < MaxFaults /\ faults' = faults + 1
       /\ UNCHANGED committed

\* The deferred CommitUncommittedOffsets commits all that was polled, not
\* only the record it is deferred for; the loop goes on with the next one.
Uncommitted_Topic(s) == end
Uncommitted(s) == sub[s].head

CommitUncommittedOffsets(s) ==
    /\ sub[s].pc = "commit"
    /\ Commit(s, Uncommitted(s))
    /\ SetSub(s, [sub[s] EXCEPT !.pc = IF sub[s].next < sub[s].head THEN "batch" ELSE "check"])
    /\ UNCHANGED <<handled, processed, origin>>

\* The dispatch goroutine.
DispatchReturn(s, m) ==
    /\ m \in sub[s].running
    /\ SetSub(s, [sub[s] EXCEPT !.running = @ \ {m}, !.returned = @ \cup {m}])
    /\ processed' = [processed EXCEPT ![sub[s].owner] = @ \cup {m}]
    /\ UNCHANGED <<committed, handled, faults, origin>>

\* CommitRecords commits the offset after the record; it may move the group's
\* offset back.
AfterRecord(m) == m + 1

CommitRecord(s, m) ==
    /\ m \in sub[s].returned
    /\ Commit(s, AfterRecord(m))
    /\ SetSub(s, [sub[s] EXCEPT !.returned = @ \ {m}])
    /\ UNCHANGED <<handled, processed, origin>>

-----------------------------------------------------------------------------
(* The process *)

Crash ==
    /\ Up /\ restarts < MaxRestarts /\ restarts' = restarts + 1
    /\ startPc' = "down" /\ producing' = FALSE /\ mutex' = "free" /\ waitFor' = None
    /\ subs' = [n \in Names |-> None] /\ wg' = 0
    /\ sub' = [s \in Subs |-> NoSub]
    /\ dropped' = [n \in Names |-> dropped[n] \cup
                     UNION {InHands(s) : s \in {t \in Subs : sub[t].owner = n}}]
    /\ UNCHANGED <<cluster, committed, handled, processed, faults, origin>>

\* Init creates the producing client.
Restart ==
    /\ startPc = "down" /\ startPc' = "init" /\ producing' = TRUE
    /\ UNCHANGED <<cluster, committed, mutex, waitFor, subs, wg, sub, history, counts>>

-----------------------------------------------------------------------------
LoopStep(s) ==
    \/ LoopExit(s) \/ IssuePoll(s) \/ Poll(s) \/ PollCancelled(s) \/ PollFails(s)
    \/ HandleRecord(s) \/ CommitUncommittedOffsets(s)

DispatchStep(s, m) == DispatchReturn(s, m) \/ CommitRecord(s, m)

StartSteps == Serve \/ LockForDrain \/ (\E n \in Names : Drain(n)) \/ CloseClient

Next ==
    \/ Produce \/ ForeignAdd
    \/ \E n \in Names :
          \/ \E b \in BoundChoices : Subscribe(n, b)
          \/ Unsubscribe(n)
    \/ UnsubscribeStopped \/ UnsubscribeTimeout
    \/ StartSteps \/ Disconnect
    \/ \E s \in Subs :
          \/ WatchDone(s) \/ LoopStep(s)
          \/ \E m \in Records : DispatchStep(s, m)
    \/ Crash \/ Restart

Spec == Init /\ [][Next]_vars

\* The watcher and the loop of a subscription are scheduled, and their calls
\* to the cluster end.  Nothing is assumed of dispatches, of Start, of the
\* subscription manager, of producers, of faults and of the end of the process.
FairSpec ==
    /\ Spec
    /\ \A s \in Subs : WF_vars(WatchDone(s)) /\ WF_vars(LoopStep(s))

-----------------------------------------------------------------------------
(* Properties *)

\* Every variable keeps its type; a loop handles records it has fetched.
TypeOK ==
    /\ end \in Offsets /\ bad \subseteq 0..(end - 1) /\ stamp \in [Records -> Dates]
    /\ committed \in [Names -> Offsets \cup {NoOffset}]
    /\ startPc \in {"down", "init", "serving", "disconnecting", "draining", "closed"}
    /\ producing \in BOOLEAN /\ mutex \in {"free", "manager", "start"}
    /\ waitFor \in Subs \cup {None}
    /\ subs \in [Names -> Subs \cup {None}] /\ wg \in Int
    /\ sub \in [Subs -> Subscription]
    /\ \A s \in Subs :
          /\ sub[s].pc = "none" \/ sub[s].owner \in Names
          /\ sub[s].pc = "batch" => sub[s].next < sub[s].head
          /\ sub[s].head <= end
    /\ handled \in [Names -> SUBSET Records] /\ processed \in [Names -> SUBSET Records]
    /\ origin \in [Names -> Offsets]
    /\ dropped \in [Names -> SUBSET Records]
    /\ faults \in 0..MaxFaults /\ restarts \in 0..MaxRestarts

\* Nothing is skipped: a record the group has moved past was handled by one
\* of the trigger's loops, or is in the hands of one that will handle it.
\* Only the end of the process takes records away, and only a group with
\* nothing committed begins elsewhere, at the start its trigger asks for.
NothingSkipped ==
    \A n \in Names : \A m \in Records :
        m < committed[n] =>
            \/ m \in handled[n] \cup dropped[n]
            \/ \E s \in Subs : sub[s].owner = n /\ m \in InHands(s)
            \/ m < origin[n]

\* Replay: a loop that has reported Complete dispatches nothing more, but
\* a record whose timestamp is before that of an earlier one.
CompleteIsFinal ==
    [][\A s \in Subs : sub[s].complete =>
           \A m \in sub'[s].running \ sub[s].running :
               \E k \in Records : k < m /\ stamp[k] > stamp[m]]_vars

InOrder == \A k, m \in 0..(end - 1) : k < m => stamp[k] <= stamp[m]

\* A loop that was cancelled stops, although the check of the end bound
\* overwrites exitLoop.  One that has completed its replay does, unless the
\* timestamps of the topic go back.
LoopStops ==
    \A s \in Subs :
        /\ sub[s].cancelled ~> sub[s].pc \in {"stopped", "none"}
        /\ sub[s].complete ~> sub[s].pc \in {"stopped", "none"} \/ ~InOrder

\* pkg/backend/interface.go:38: "When the consumer dispatcher returns, the
\* message is marked as processed and won't be delivered anymore."
C == INSTANCE BackendContract WITH
        Ids <- Records,
        owed <- [n \in Names |-> {m \in handled[n] : m >= committed[n]}],
        done <- [n \in Names |-> processed[n] \cup bad]

MarkedWhenDispatched == C!Spec
=============================================================================
