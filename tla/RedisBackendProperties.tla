----------------------- MODULE RedisBackendProperties -----------------------
(***************************************************************************)
(* What the Redis backend promises its callers, stated over RedisBackend.  *)
(***************************************************************************)
EXTENDS RedisBackend

\* A subscription that exists has an owner, one that handles an entry has it.
Coherent(r) ==
    /\ r.pc = "none" \/ r.owner \in Names
    /\ r.pc = "handle" => r.msg \in Ids

\* Every variable keeps its type, and each subscription is coherent.
TypeOK ==
    /\ produced \in 0..MaxId /\ trimmed \in 0..produced /\ bad \subseteq 1..produced
    /\ group \in [Names -> Group]
    /\ startPc \in {"down", "init", "serving", "disconnecting", "draining", "closed"}
    /\ inst \in Instances
    /\ mutex \in {"free", "manager", "start"}
    /\ waitFor \in Subs \cup {None}
    /\ subs \in [Names -> Subs \cup {None}]
    /\ wg \in Int
    /\ sub \in [Subs -> Subscription]
    /\ \A s \in Subs : Coherent(sub[s])
    /\ processed \in [Names -> SUBSET Ids]
    /\ faults \in 0..MaxFaults /\ restarts \in 0..MaxRestarts

-----------------------------------------------------------------------------
(* Safety *)

\* The entries a group has been given, and those of them that are settled.
Given(n) == {m \in Ids : group[n].exists /\ m > group[n].start /\ m <= group[n].last}
PendingIds(n) == {p[2] : p \in group[n].pel}
Settled(n) == processed[n] \cup bad \cup 1..trimmed

\* At least once: an entry the server has given to a trigger's group is
\* pending there until its dispatch has returned, whatever is lost, whoever
\* dies and however often the trigger is removed and added.  Only trimming
\* and values that hold no CloudEvent take an entry away.
NoEventLost == \A n \in Names : Given(n) \subseteq PendingIds(n) \cup Settled(n)

\* pkg/backend/interface.go:38: "When the consumer dispatcher returns, the
\* message is marked as processed and won't be delivered anymore."  An entry
\* leaves the pending ones only when it is settled, step by step.
Contract == INSTANCE BackendContract WITH
                owed <- [n \in Names |-> PendingIds(n)],
                done <- [n \in Names |-> Settled(n)]

KeepsContract == Contract!Spec

\* One reader per trigger: a loop that runs belongs to the subscription map,
\* unless unsubscribe() gave up waiting for it.
LoopsTracked ==
    \A s \in Subs : Live(s) =>
        \/ sub[s].abandoned
        \/ sub[s].owner \in Names /\ subs[sub[s].owner] = s

\* Start closes the client only when no loop it knows of is running and
\* nothing is left to wait for in wgSubs.
ClosesClean ==
    startPc = "closed" =>
        /\ wg = 0
        /\ \A s \in Subs : Live(s) => sub[s].abandoned

\* The wait group counts the subscription map, so that Start's Wait() cannot
\* block and Done() cannot be called once too often.
WaitGroupCounts == wg = Cardinality(Subscribed)

\* Replay: nothing at or after the end bound is dispatched, but entries whose
\* ID is written with more digits than the bound: compared as texts they may
\* come before it ("10" before "9").
EndBoundRespected ==
    \A s \in Subs : sub[s].end # NoEnd =>
        \A m \in sub[s].seen : m < sub[s].end \/ Wider(SeqBase + m, SeqBase + sub[s].end)

\* Entry m is no business of a replay to this end, in a group with this start:
\* it is not before the end, or comes with or after an entry of the group whose
\* ID is written with fewer digits than the end and, as a text, does not come
\* before it ("9" and an end of "10").
BeyondEnd(start, m, end) ==
    \/ m >= end
    \/ \E k \in (start + 1)..m : Wider(SeqBase + end, SeqBase + k) /\ Exceeds(k, end)

\* Two loops that may run at once for a trigger: unsubscribe() gave up waiting
\* for one of them.
Overlap(s, t) == s # t /\ (sub[s].abandoned \/ sub[t].abandoned)

\* When a replay reports Complete every entry its group was given before the
\* end is settled, or being dispatched, or in the hands of a loop that will
\* dispatch it (an earlier one that unsubscribe() gave up waiting for).
\* Exceptions are the entries behind one that only the comparison of texts puts
\* past the end, those whose reply was lost, which wait for the next process,
\* those a process with another instance name was given, and those an
\* overlapping loop read beyond an earlier end of its own: it left them pending
\* after this loop had read its pending entries (subscription.go:170-187).
CompleteCoversWindow ==
    \A s \in Subs : sub[s].complete /\ faults = 0 =>
        \A m \in Given(sub[s].owner) :
            \/ BeyondEnd(group[sub[s].owner].start, m, sub[s].end)
            \/ m \in Settled(sub[s].owner)
            \/ \E i \in Instances \ {inst} : <<i, m>> \in group[sub[s].owner].pel
            \/ \E t \in Subs :
                  /\ sub[t].owner = sub[s].owner
                  /\ \/ m \in sub[t].running \cup {sub[t].msg}
                     \/ /\ Overlap(s, t) /\ sub[t].complete
                        /\ BeyondEnd(group[sub[t].owner].start, m, sub[t].end)

\* A loop never dispatches an entry twice, although the entries it reads
\* first stay pending while their dispatch runs.
NoDuplicateInSession ==
    [][\A s \in Subs : (sub'[s].running \ sub[s].running) \cap sub[s].seen = {}]_vars

-----------------------------------------------------------------------------
(* Liveness *)

\* A cancelled loop stops: the watcher's exitLoop reaches it (holds for
\* triggers without end bound).
LoopStops ==
    \A s \in Subs : sub[s].cancelled ~> sub[s].pc \in {"stopped", "none"}

\* Start returns after its context is done, whatever the manager is doing.
ShutdownCompletes == startPc = "disconnecting" ~> startPc \in {"closed", "down"}

Owed(n, m) == group[n].exists /\ m > group[n].start /\ m <= produced

\* An entry added after the group's start is dispatched and its dispatch
\* returns, across process ends, provided the trigger stays configured.
EventuallyProcessed ==
    \A n \in Names : <>[](subs[n] # None) =>
        \A m \in Ids : Owed(n, m) ~> m \in Settled(n)

=============================================================================
