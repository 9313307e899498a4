---------------------------- MODULE RedisBackend ----------------------------
(***************************************************************************)
(* The Redis backend of the broker: pkg/backend/impl/redis.                *)
(*                                                                         *)
(* One Redis stream, one consumer group for each trigger, and one broker   *)
(* process.  The process may end at any point and start again, with the    *)
(* same instance name (the consumer of the groups) or another.  Inside it, *)
(* the backend object, one reading loop with its watcher goroutine for     *)
(* each subscription, and one goroutine for each dispatched message.       *)
(*                                                                         *)
(* Stream entries are numbered 1..produced in the order of their XADD.     *)
(* The subscription objects are tokens of Subs: every Subscribe takes one  *)
(* that was never used by this process.                                    *)
(*                                                                         *)
(* An operator with an underscore, such as PelAfterRead_NoAck, is a        *)
(* plausible slip in the definition that follows it: the runs use it to    *)
(* see that a property notices.  The specification never does.             *)
(***************************************************************************)
EXTENDS Integers, FiniteSets, Sequences

CONSTANTS
    Names,        \* trigger names, the keys of the subscription map
    Subs,         \* subscription objects a process may create
    Instances,    \* instance names the process may be started with
    None,         \* no subscription
    MaxId,        \* bound: entries added to the stream
    MaxFaults,    \* bound: lost replies and failed acknowledgements
    MaxRestarts,  \* bound: times the process ends and starts again
    StreamMaxLen, \* the stream-max-len argument, 0 for no trimming
    SeqBase,      \* sequence part of the stream ID of entry 0
    MaxDigits,    \* bound: digits after the first one of a sequence part
    BoundChoices  \* the bounds triggers may be configured with

Latest == -1      \* "$", the default starting point of a group
NoEnd  == 0       \* bounds without an end ID

Ids == 1..MaxId

ASSUME NamesAssumption ==
    None \notin Subs /\ None \notin Names /\ IsFiniteSet(Names)
ASSUME BoundsAssumption ==
    /\ MaxId \in Nat /\ MaxFaults \in Nat /\ MaxRestarts \in Nat
    /\ StreamMaxLen \in Nat /\ SeqBase \in Nat /\ MaxDigits \in Nat
    /\ BoundChoices \subseteq [start : Nat \cup {Latest}, end : Nat]

VARIABLES
    \* the Redis server
    produced,  \* entries added so far
    trimmed,   \* entries up to this one were removed by MAXLEN
    bad,       \* entries whose value is not a valid CloudEvent
    group,     \* for each name, its consumer group
    \* the broker process
    startPc,   \* where Start is, "down" when there is no process
    inst,      \* the instance name of the process
    mutex,     \* who holds redis.mutex while waiting
    waitFor,   \* the subscription unsubscribe() waits for
    subs,      \* redis.subs
    wg,        \* redis.wgSubs
    sub,       \* the subscription objects with their goroutines
    \* history, for the properties and the bounds only
    processed, \* for each name, entries whose dispatch has returned
    faults, restarts

server  == <<produced, trimmed, bad>>
object  == <<startPc, inst, mutex, waitFor, subs, wg>>
history == <<faults, restarts>>
vars == <<server, group, object, sub, processed, history>>

-----------------------------------------------------------------------------
(* State *)

Group == [exists : BOOLEAN, start : Nat, last : Nat, pel : SUBSET (Instances \X Ids)]

NoGroup == [exists |-> FALSE, start |-> 0, last |-> 0, pel |-> {}]

Pcs == {"none", "check", "block", "handle", "stopped"}

Subscription ==
    [owner : Names \cup {None}, pc : Pcs,
     cancelled : BOOLEAN, watching : BOOLEAN, exitLoop : BOOLEAN,
     pending : BOOLEAN, cursor : 0..MaxId, msg : 0..MaxId, valid : BOOLEAN,
     end : Nat, complete : BOOLEAN, abandoned : BOOLEAN,
     running : SUBSET Ids, returned : SUBSET Ids, seen : SUBSET Ids]

NoSub ==
    [owner |-> None, pc |-> "none",
     cancelled |-> FALSE, watching |-> FALSE, exitLoop |-> FALSE,
     pending |-> FALSE, cursor |-> 0, msg |-> 0, valid |-> FALSE,
     end |-> NoEnd, complete |-> FALSE, abandoned |-> FALSE,
     running |-> {}, returned |-> {}, seen |-> {}]

\* The loop reads the consumer's own pending entries first: id := "0".
ReadsPendingFirst_Skipped == FALSE
ReadsPendingFirst == TRUE

NewSub(n, b) ==
    [NoSub EXCEPT !.owner = n, !.pc = "check", !.watching = TRUE,
                  !.pending = ReadsPendingFirst, !.end = b.end]

Up == startPc # "down"
ClientOpen == startPc \notin {"down", "closed"}
Live(s) == sub[s].pc \in {"check", "block", "handle"}
Subscribed == {n \in Names : subs[n] # None}

-----------------------------------------------------------------------------
(* Redis commands *)

\* XADD with MAXLEN ~: trimming is approximate, it removes whole nodes of the
\* stream and may leave more entries than asked for.
TrimChoices_Exact(p) == IF StreamMaxLen = 0 THEN {trimmed} ELSE {p - StreamMaxLen}
TrimChoices(p) ==
    IF StreamMaxLen = 0 THEN {trimmed}
    ELSE {t \in trimmed..p : t = trimmed \/ t + StreamMaxLen <= p}

XAdd ==
    /\ produced < MaxId
    /\ produced' = produced + 1
    /\ trimmed' \in TrimChoices(produced')

\* XGROUP CREATE .. MKSTREAM: a group that exists answers BUSYGROUP and stays
\* as it is.
StartId(b) == IF b.start = Latest THEN produced ELSE b.start

XGroupCreate(n, b) ==
    group' = IF group[n].exists THEN group
             ELSE [group EXCEPT ![n] = [exists |-> TRUE, start |-> StartId(b),
                                        last |-> StartId(b), pel |-> {}]]

\* The next entry XREADGROUP returns, reading new entries (">") or the
\* consumer's own pending ones after the cursor.
Unread(n) == {m \in Ids : m <= produced /\ m > trimmed /\ m > group[n].last}
Pending(n, cursor) == {m \in Ids : m > cursor /\ <<inst, m>> \in group[n].pel}

LeastOf(S) == {m \in S : \A k \in S : m <= k}

ToRead(s) ==
    LET n == sub[s].owner
    IN  LeastOf(IF sub[s].pending THEN Pending(n, sub[s].cursor) ELSE Unread(n))

\* NoAck is false: what is read becomes pending for the consumer.
PelAfterRead_NoAck(n, m) == group[n].pel
PelAfterRead(n, m) == group[n].pel \cup {<<inst, m>>}

XReadGroup(s, m) ==
    LET n == sub[s].owner
    IN  group' = IF sub[s].pending THEN group
                 ELSE [group EXCEPT ![n].last = m, ![n].pel = PelAfterRead(n, m)]

\* XACK removes the entry whoever its consumer is.
XAck_UpTo(n, m) == group' = [group EXCEPT ![n].pel = {p \in @ : p[2] > m}]
XAck(n, m) == group' = [group EXCEPT ![n].pel = {p \in @ : p[2] # m}]

\* Commands fail in the client once the context is done or the client closed.
MayCall(s) == ~sub[s].cancelled /\ ClientOpen

\* How IDs that differ in the sequence part only compare as texts.  A number
\* has more digits than another when a power of ten lies between them.
PowersOfTen == {10^w : w \in 1..MaxDigits}
Wider(a, b) == (b + 1)..a \cap PowersOfTen # {}
SameWidth(a, b) == ~Wider(a, b) /\ ~Wider(b, a)

\* The numbers whose digits a begins with.
Prefixes(a) == {a \div t : t \in PowersOfTen} \ {0}

\* Go's >= of the two texts: digit by digit, and a text follows its prefixes.
TextGE(a, b) ==
    \/ SameWidth(a, b) /\ a >= b
    \/ Wider(a, b) /\ \E p \in Prefixes(a) : SameWidth(p, b) /\ p >= b
    \/ Wider(b, a) /\ \E p \in Prefixes(b) : SameWidth(a, p) /\ a > p

\* newExceedBounds
Exceeds_Inclusive(m, end) == m > end
Exceeds_Early(m, end) == m + 1 >= end
Exceeds(m, end) == TextGE(SeqBase + m, SeqBase + end)

-----------------------------------------------------------------------------
Init ==
    /\ produced = 0 /\ trimmed = 0 /\ bad = {}
    /\ group = [n \in Names |-> NoGroup]
    /\ startPc = "init" /\ inst \in Instances
    /\ mutex = "free" /\ waitFor = None
    /\ subs = [n \in Names |-> None]
    /\ wg = 0
    /\ sub = [s \in Subs |-> NoSub]
    /\ processed = [n \in Names |-> {}]
    /\ faults = 0 /\ restarts = 0

-----------------------------------------------------------------------------
(* Produce, and other writers of the stream *)

Produce ==
    /\ ClientOpen
    /\ XAdd
    /\ UNCHANGED <<bad, group, object, sub, processed, history>>

\* Another program adds an entry that holds no CloudEvent.
ForeignAdd ==
    /\ XAdd
    /\ bad' = bad \cup {produced'}
    /\ UNCHANGED <<group, object, sub, processed, history>>

-----------------------------------------------------------------------------
(* Subscribe and Unsubscribe, called by the subscription manager *)

\* The early returns of Subscribe.
MaySubscribe_Twice(n) == mutex = "free" /\ startPc = "serving"
MaySubscribe_WhileClosing(n) ==
    mutex = "free" /\ subs[n] = None /\ startPc \in {"serving", "disconnecting", "closed"}
MaySubscribe(n) == mutex = "free" /\ subs[n] = None /\ startPc = "serving"

Subscribe(n, b) ==
    /\ MaySubscribe(n)
    /\ XGroupCreate(n, b)
    /\ \E s \in Subs :
          /\ sub[s].pc = "none"
          /\ subs' = [subs EXCEPT ![n] = s]
          /\ sub' = [sub EXCEPT ![s] = NewSub(n, b)]
    /\ wg' = wg + 1
    /\ UNCHANGED <<server, startPc, inst, mutex, waitFor, processed, history>>

\* The group is created but the reply does not arrive: Subscribe fails.
SubscribeReplyLost(n, b) ==
    /\ MaySubscribe(n) /\ ~group[n].exists
    /\ faults < MaxFaults
    /\ XGroupCreate(n, b)
    /\ faults' = faults + 1
    /\ UNCHANGED <<server, object, sub, processed, restarts>>

\* sub.cancel() and the wait that follows, holding the mutex.
CancelAndWait(n) ==
    /\ waitFor' = subs[n]
    /\ sub' = [sub EXCEPT ![subs[n]].cancelled = TRUE]
    /\ UNCHANGED <<server, group, startPc, inst, subs, wg, processed, history>>

Unsubscribe(n) ==
    /\ Up /\ mutex = "free" /\ n \in Subscribed
    /\ CancelAndWait(n)
    /\ mutex' = "manager"

\* The deferred Unlock of Unsubscribe; Start keeps the mutex to the end.
MutexAfterWait_Kept == mutex
MutexAfterWait == IF mutex = "manager" THEN "free" ELSE mutex

Forget ==
    /\ subs' = [n \in Names |-> IF subs[n] = waitFor THEN None ELSE subs[n]]
    /\ wg' = wg - 1
    /\ waitFor' = None
    /\ mutex' = MutexAfterWait

UnsubscribeStopped ==
    /\ waitFor # None /\ sub[waitFor].pc = "stopped"
    /\ Forget
    /\ UNCHANGED <<server, group, startPc, inst, sub, processed, history>>

\* unsubscribeTimeout passes before the loop has stopped.
UnsubscribeTimeout ==
    /\ waitFor # None /\ sub[waitFor].pc # "stopped"
    /\ Forget
    /\ sub' = [sub EXCEPT ![waitFor].abandoned = TRUE]
    /\ UNCHANGED <<server, group, startPc, inst, processed, history>>

-----------------------------------------------------------------------------
(* Start *)

StartStep(from, to) ==
    /\ startPc = from /\ startPc' = to
    /\ UNCHANGED <<server, group, inst, waitFor, subs, wg, sub, processed, history>>

SetContext == StartStep("init", "serving") /\ UNCHANGED mutex

\* The context is done: no more subscriptions.
Disconnect == StartStep("serving", "disconnecting") /\ UNCHANGED mutex

LockForDrain ==
    /\ mutex = "free" /\ mutex' = "start"
    /\ StartStep("disconnecting", "draining")

Drain(n) ==
    /\ startPc = "draining" /\ waitFor = None /\ n \in Subscribed
    /\ CancelAndWait(n)
    /\ UNCHANGED mutex

\* wgSubs.Wait() has returned, or disconnectTimeout has passed.
CloseClient ==
    /\ waitFor = None /\ Subscribed = {}
    /\ mutex' = "free"
    /\ StartStep("draining", "closed")

-----------------------------------------------------------------------------
(* The goroutines of a subscription *)

SetSub(s, r) ==
    /\ sub' = [sub EXCEPT ![s] = r]
    /\ UNCHANGED object

\* The watcher goroutine.
WatchDone(s) ==
    /\ sub[s].watching /\ sub[s].cancelled
    /\ SetSub(s, [sub[s] EXCEPT !.watching = FALSE, !.exitLoop = TRUE])
    /\ UNCHANGED <<server, group, processed, history>>

LoopExit(s) ==
    /\ sub[s].pc = "check" /\ sub[s].exitLoop
    /\ SetSub(s, [sub[s] EXCEPT !.pc = "stopped", !.pending = FALSE,
                                !.cursor = 0, !.seen = {}])
    /\ UNCHANGED <<server, group, processed, history>>

\* XReadGroup is sent.  It fails at once when the context is done or the
\* client closed, and the loop comes round again: no step.
IssueRead(s) ==
    /\ sub[s].pc = "check" /\ ~sub[s].exitLoop /\ MayCall(s)
    /\ SetSub(s, [sub[s] EXCEPT !.pc = "block"])
    /\ UNCHANGED <<server, group, processed, history>>

\* A read that was sent is answered even if the context is done meanwhile.
\* The value of a pending entry that was trimmed is gone.
ReadOne(s) ==
    /\ sub[s].pc = "block" /\ ClientOpen
    /\ \E m \in ToRead(s) :
          /\ XReadGroup(s, m)
          /\ SetSub(s, [sub[s] EXCEPT !.pc = "handle", !.msg = m,
                                      !.valid = m \notin bad /\ m > trimmed])
    /\ UNCHANGED <<server, processed, history>>

\* The server answers the read and the reply is lost.
ReadLost(s) ==
    /\ sub[s].pc = "block" /\ ClientOpen
    /\ faults < MaxFaults
    /\ \E m \in ToRead(s) : XReadGroup(s, m)
    /\ SetSub(s, [sub[s] EXCEPT !.pc = "check"])
    /\ faults' = faults + 1
    /\ UNCHANGED <<server, processed, restarts>>

\* Nothing to read: the end of the pending entries, or the blocking period
\* has passed.
ReadNothing(s) ==
    /\ sub[s].pc = "block"
    /\ \/ ClientOpen /\ ToRead(s) = {}
          /\ SetSub(s, [sub[s] EXCEPT !.pc = "check", !.pending = FALSE])
       \/ ~ClientOpen
          /\ SetSub(s, [sub[s] EXCEPT !.pc = "check"])
    /\ UNCHANGED <<server, group, processed, history>>

\* The entry holds no CloudEvent: it is acknowledged, and only logged when
\* that fails.
HandleInvalid(s) ==
    /\ sub[s].pc = "handle" /\ ~sub[s].valid
    /\ \/ MayCall(s) /\ XAck(sub[s].owner, sub[s].msg) /\ UNCHANGED faults
       \/ ~MayCall(s) /\ UNCHANGED <<group, faults>>
       \/ MayCall(s) /\ faults < MaxFaults /\ faults' = faults + 1 /\ UNCHANGED group
    /\ SetSub(s, [sub[s] EXCEPT !.pc = "check", !.msg = 0])
    /\ UNCHANGED <<server, processed, restarts>>

PastEnd(s) == sub[s].end # NoEnd /\ Exceeds(sub[s].msg, sub[s].end)

\* The end bound is reached: the entry stays pending and the loop will exit.
HandleExceeded(s) ==
    /\ sub[s].pc = "handle" /\ sub[s].valid /\ PastEnd(s)
    /\ SetSub(s, [sub[s] EXCEPT !.pc = "check", !.msg = 0,
                                !.exitLoop = TRUE, !.complete = TRUE])
    /\ UNCHANGED <<server, group, processed, history>>

\* exitLoop after a message within bounds: with an end bound the result of
\* the check is assigned to it.
ExitLoopAfterCheck_Always(s) == FALSE
ExitLoopAfterCheck(s) == IF sub[s].end # NoEnd THEN FALSE ELSE sub[s].exitLoop

\* While reading pending entries the cursor follows, since their
\* acknowledgement takes a while.
CursorAfter_Stays(s) == sub[s].cursor
CursorAfter(s) == IF sub[s].pending THEN sub[s].msg ELSE sub[s].cursor

HandleDispatch(s) ==
    /\ sub[s].pc = "handle" /\ sub[s].valid /\ ~PastEnd(s)
    /\ SetSub(s, [sub[s] EXCEPT !.pc = "check", !.msg = 0,
                                !.exitLoop = ExitLoopAfterCheck(s),
                                !.cursor = CursorAfter(s),
                                !.running = @ \cup {sub[s].msg},
                                !.seen = @ \cup {sub[s].msg}])
    /\ UNCHANGED <<server, group, processed, history>>

\* The dispatch goroutine: the callback returns, whatever became of the event.
DispatchReturn(s, m) ==
    /\ m \in sub[s].running
    /\ SetSub(s, [sub[s] EXCEPT !.running = @ \ {m}, !.returned = @ \cup {m}])
    /\ processed' = [processed EXCEPT ![sub[s].owner] = @ \cup {m}]
    /\ UNCHANGED <<server, group, history>>

\* ... and the message is acknowledged, or the failure logged.
Ack(s, m) ==
    /\ m \in sub[s].returned
    /\ IF MayCall(s) THEN XAck(sub[s].owner, m) ELSE UNCHANGED group
    /\ SetSub(s, [sub[s] EXCEPT !.returned = @ \ {m}])
    /\ UNCHANGED <<server, processed, history>>

AckLost(s, m) ==
    /\ m \in sub[s].returned /\ MayCall(s)
    /\ faults < MaxFaults
    /\ faults' = faults + 1
    /\ SetSub(s, [sub[s] EXCEPT !.returned = @ \ {m}])
    /\ UNCHANGED <<server, group, processed, restarts>>

-----------------------------------------------------------------------------
(* The process *)

ProcessEnds ==
    /\ restarts < MaxRestarts
    /\ restarts' = restarts + 1
    /\ startPc' = "down" /\ mutex' = "free" /\ waitFor' = None
    /\ subs' = [n \in Names |-> None] /\ wg' = 0
    /\ sub' = [s \in Subs |-> NoSub]
    /\ UNCHANGED <<server, group, inst, processed, faults>>

\* Killed, or finished, or a Subscribe before Start has set the context: the
\* Redis client dereferences it.
Crash == Up /\ ProcessEnds

\* The process starts, and Init has probed the server.
Restart ==
    /\ startPc = "down" /\ startPc' = "init"
    /\ inst' \in Instances
    /\ UNCHANGED <<server, group, mutex, waitFor, subs, wg, sub, processed, history>>

-----------------------------------------------------------------------------
LoopStep(s) ==
    \/ LoopExit(s) \/ IssueRead(s)
    \/ ReadOne(s) \/ ReadLost(s) \/ ReadNothing(s)
    \/ HandleInvalid(s) \/ HandleExceeded(s) \/ HandleDispatch(s)

DispatchStep(s, m) == DispatchReturn(s, m) \/ Ack(s, m) \/ AckLost(s, m)

StartSteps == SetContext \/ LockForDrain \/ (\E n \in Names : Drain(n)) \/ CloseClient

ManagerStep(n) ==
    \/ \E b \in BoundChoices : Subscribe(n, b) \/ SubscribeReplyLost(n, b)
    \/ Unsubscribe(n)

Next ==
    \/ Produce \/ ForeignAdd
    \/ \E n \in Names : ManagerStep(n)
    \/ UnsubscribeStopped \/ UnsubscribeTimeout
    \/ StartSteps \/ Disconnect
    \/ \E s \in Subs :
          \/ WatchDone(s) \/ LoopStep(s)
          \/ \E m \in Ids : DispatchStep(s, m)
    \/ Crash \/ Restart

Spec == Init /\ [][Next]_vars

\* Goroutines that can run are scheduled, the server answers, dispatches
\* return (targets answer or time out), timers fire, and a process that ended
\* is started again.  Nothing is assumed of producers, of the subscription
\* manager or of faults.
Fairness ==
    /\ WF_vars(UnsubscribeStopped) /\ WF_vars(UnsubscribeTimeout)
    /\ WF_vars(StartSteps) /\ WF_vars(Restart)
    /\ \A s \in Subs :
          /\ WF_vars(WatchDone(s)) /\ WF_vars(LoopStep(s))
          /\ \A m \in Ids : WF_vars(DispatchStep(s, m))

FairSpec == Spec /\ Fairness
=============================================================================
