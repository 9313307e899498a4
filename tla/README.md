# TLA+ models of the TriggerMesh brokers

This directory holds a verification project for the brokers of this
repository: TLA+ modules translated from the Go code under `src/`, TLC
configurations that check them on small instances, and TLAPS proofs of what
matters most for every value of the constants.  Line numbers are those of the
files under `src/`; file names without a directory are unique there or belong
to the package of their section.

## 1. The system

A broker is one process.  Producers POST CloudEvents to its *ingest* server,
which hands them to a *backend* (memory, Redis or Kafka).  A configuration
names *triggers*; the *subscription manager* keeps one backend subscription for
each of them, and the backend calls the subscriber's dispatch function for each
event.  The dispatch filters the event, sends it to the target with retries,
falls back to the dead letter sink, and produces the target's response to the
backend again.  A *status manager* caches what the ingest and the subscriptions
report and writes it to a Kubernetes ConfigMap.

```
 producers --> ingest --Produce--> backend --dispatch--> subscriber --> target
                 |                  ^   ^                  |  |
                 |        Subscribe |   +---- response ----+  |
                 v      Unsubscribe |                         v
           status manager <--- subscription manager      status manager
                 |                  ^
             ConfigMap      file watcher / poller / Secret / inline argument
```

### Inventory

| Component | State | Operations | What makes it correct | Modules |
|---|---|---|---|---|
| Backend interface (`pkg/backend/interface.go`) | none | what every backend promises | an event is marked as processed only when its dispatch has returned | `BackendContract` |
| Redis backend (`pkg/backend/impl/redis`) | subscription map, wait group, `disconnecting`, mutex; per subscription: context, `exitLoop`, read cursor, `stoppedCh`; in Redis: stream, groups, pending lists | Init, Start, Produce, Subscribe, Unsubscribe, loop, dispatch, ack | no event lost, one reader per group, bounds, loops stop, shutdown ends | `RedisBackend`, `RedisBackendProperties` |
| Memory backend (`pkg/backend/impl/memory`) | buffer channel, callback map, `closing` | same | FIFO, nothing accepted is lost, no send on a closed channel from Start, no self-blocking | `MemoryBackend` |
| Kafka backend (`pkg/backend/impl/kafka`) | as Redis, a client for each subscription, committed offsets | same | nothing is skipped, a complete replay is over, loops stop | `KafkaBackend` |
| Status manager (`pkg/status`), ConfigMap writer (`pkg/common/kubernetes/status`) | cached status, `writeAsap`, last write, reconcile channel; one ConfigMap shared by instances | EnsureSubscription, EnsureNoSubscription, UpdateIngestStatus, the loop, UpdateStatus | every change is written in the end, instances do not undo each other | `StatusTypes`, `StatusManager` |
| Subscription manager (`pkg/subscriptions`) | subscriber map, trigger and context of each | UpdateFromConfig, dispatchCloudEvent, status changes | subscribers and status follow the configuration, one dispatch uses one trigger | `SubscriptionManager` |
| File watchers and poller (`pkg/common/fs`), configuration watchers (`pkg/config`), Secret and ConfigMap controllers (`pkg/common/kubernetes/controller`) | watch list, last content, last configuration | Add, Start, update, Reconcile | the valid configuration that stays is the one applied, never an older one | `ConfigWatch` |
| Global arguments (`pkg/broker/cmd`) | none | Validate, Initialize | exactly one complete source of configuration is followed | `BrokerArgs` |
| Broker instance (`pkg/broker`), ingest server (`pkg/ingest`) | instance status, error group, server, handler | NewInstance, Start, requests | order of starting, all parts stop together | `BrokerLifecycle` |

`PROJECT.json` lists every component with its sources and what of it is
modelled, the definitions with the lines they translate, and the hazards of the
code at the line where each bites.

### What is hard here

* Redis: a loop, its watcher and its dispatch goroutines share `exitLoop`, a
  context and the client without synchronisation; Unsubscribe and Start wait
  with timeouts; the process may end anywhere; pending entries belong to a
  consumer name.
* Memory: Produce checks `closing` and then sends, while Start closes the
  channel; the fan-out runs dispatches that produce into the same buffer.
* Kafka: offsets are committed by the loop for a whole batch and by every
  dispatch for its own record, in any order.
* Status: a write and a change race; a failed write must be repeated; late
  dispatches report for triggers that are gone; instances share a ConfigMap.
* Subscriptions: dispatches run through an update of the trigger they serve.
* Configuration: files are replaced by rename while being watched, and read
  later than the event that told of them.
* Lifecycle: any part may fail while the others start.

## 2. Composition

Each module models one component with its environment reduced to what the
component can tell: the backends meet an arbitrary manager that subscribes and
unsubscribes; `SubscriptionManager` meets a backend that waits in Unsubscribe
(memory) or does not (Redis, Kafka), and uses the operators of `StatusTypes`
for the status it reports; `StatusManager` meets arbitrary reports over the
same operators; `BrokerLifecycle` extends `BrokerArgs` and has the parts' starts
and ends.  `RedisBackend` refines `BackendContract` (`KeepsContract`, by TLC and
by proof); `KafkaBackend` does not (`kafka_contract`).

`MC<module>` adds what a run needs, choices of bounds and symmetry sets, to
`<module>`.  An operator whose name has an underscore is a plausible slip in
the definition that follows it; it is there to see that a property notices, and
no specification uses it.

### Runs

| Run | Instance | Checks |
|---|---|---|
| `redis_faults` | 1 trigger, 1 subscription per process, 2 instance names, 3 entries with the sequence parts 9, 10, 11, 2 end bounds or none, 1 fault, 2 restarts, trimming at 2 | `TypeOK`, `NoEventLost`, `EndBoundRespected`, `KeepsContract`, `NoDuplicateInSession` |
| `redis_subs` | 2 triggers, 2 subscriptions, 2 entries with the sequence parts 10, 11, 3 end bounds or none | `LoopsTracked`, `CompleteCoversWindow`, `ClosesClean`, `WaitGroupCounts` |
| `redis_live` | 1 trigger, 1 subscription, 2 entries, 2 restarts, no end bound, no fault | `LoopStops`, `ShutdownCompletes`, `EventuallyProcessed` |
| `redis_boundedstop` | 1 trigger with an end bound, 2 entries | `LoopStops`: violated |
| `memory` | 2 triggers, 2 producers, buffer of 1, 3 events, 2 updates | `TypeOK`, `QueueKept`, `NothingLeft`, `DispatchNeverPanics`, `CalledAreSubscribed`, `AcceptedIsTaken`, `ShutdownCompletes` |
| `kafka` | 1 trigger, 1 subscription per process, 2 records with any of 2 timestamps, 1 fault, 1 restart | `NothingSkipped`, `CompleteIsFinal`, `LoopStops` |
| `kafka_contract` | 1 trigger, 1 record | `MarkedWhenDispatched`: violated |
| `status` | 2 triggers, 2 changes, 1 failed call, 1 change by others, 1 restart | `ChangesFlagged`, `OthersKept`, `StatusReported` |
| `status_failedwrite` | 1 trigger, 1 change, 1 failed call | `FailedWriteRetried`: violated |
| `subscriptions` | 2 triggers with 2 configurations and one that cannot be applied, 1 dispatch, 3 updates, 2 events, 1 failed Subscribe | `TypeOK`, `DispatchSeesOneTrigger`, `ConfigApplied`, `StatusFollowsSubscribers`, `LastProcessedKept`, `UpdateEnds` |
| `config` | watcher, poller, Secret, ConfigMap, each alone; 4 changes, 1 failed fetch | `QuietIsCurrent`, `StaysWatched`, `NeverGoesBack`, `Converges` |
| `lifecycle` | memory and Redis, all combinations of arguments with at most one source of observability | `FollowsItsSource`, `ReadyBeforeServing`, `AllPartsReturn`, `ClosedIsFinal`, `ShutdownCompletes` |

Deadlock is not checked in any run because every one of these systems may stop:
the broker shuts down, the sources stop changing, the bounds are used up.
Symmetry is used only where no liveness property is checked.

### Statements the code does not keep

The three `violation` runs check one statement each of the repository;
`PROJECT.json` quotes it.

| Run | Statement | Why it fails |
|---|---|---|
| `redis_boundedstop` | redis/subscription.go:70: the watcher's flag exits the loop | with an end bound, `exitLoop = checkBoundsExceeded(..)` (subscription.go:158) overwrites it; the loop spins on a done context |
| `status_failedwrite` | status.go:141: a failed update raises the flag | `failed` is set only when it already is (status.go:134), so a failed write lowers the flag |
| `kafka_contract` | interface.go:38: a message is marked as processed when its dispatch returns | the loop commits everything it has polled while the dispatches run (kafka/subscription.go:132) |

## 3. RedisBackend

**Correspondence.**  The stream is the counter `produced` (entries are numbered
in XADD order), with `trimmed` and `bad` for entries MAXLEN removed and entries
that hold no CloudEvent.  `group[n]` is a consumer group: starting ID, last
delivered ID and pending entries list (consumer, entry).  `startPc` follows
`(*redis).Start` (redis.go:131): before it, `s.ctx` assigned, context done,
mutex taken, client closed; `down` when there is no process.  `subs` and `wg`
are the fields of those names, `mutex`/`waitFor` say who waits for which
`stoppedCh` in `unsubscribe`.  `sub[s]` holds a `subscription` and the local
variables of its goroutines: `pc` (top of the loop, blocked in XReadGroup,
handling a message, stopped), `cancelled`, `watching` (the watcher goroutine is
still there), `exitLoop`, `pending`/`cursor` (the variable `id`: "0", the last
ID, or ">"), the message in hand, `running` and `returned` (dispatch goroutines
before and after their callback returned).  `processed`, `seen`, `complete`,
`abandoned`, `faults` and `restarts` are history.

**Actions.**  Subscribe, Unsubscribe (cancel, then a stopped or a timed out
wait), the steps of Start, and for each loop: `IssueRead`, `ReadOne`,
`ReadLost`, `ReadNothing`, `HandleInvalid`, `HandleExceeded`, `HandleDispatch`,
`LoopExit`; `WatchDone`; `DispatchReturn`, `Ack`, `AckLost`; `Produce`,
`ForeignAdd` (another program writes the stream); `Crash`, `Restart`.  A read
or an acknowledgement whose context is done fails in the client at once; a read
that was sent is still answered, as the comment at subscription.go:100 says.
Subscribe holds the mutex from end to end and is one step; what may happen
meanwhile (produce, loops, the `disconnecting` flag that Start sets without the
mutex) commutes with it.

**External parts**, modelled from how the code uses them: stream, groups and
their commands, the client's behaviour on a done context, other writers.

**Left out.**  TLS and connection options, Probe, logging, the tracking
attribute, retries inside go-redis (a lost reply stands for all of them), the
dates of bounds (a date becomes an ID), several broker processes at once on one
stream.

**IDs.**  Entry m has the stream ID *ms-(SeqBase + m)*, all in one
millisecond.  The code compares IDs as texts (subscription.go:33): `TextGE` is
that comparison, on numbers.  It agrees with the order of the numbers where both
have the same number of digits; where one is `Wider` it need not, as "10" comes
before "9".  So a replay to 9 dispatches entry 10, and a replay to 100 is
complete at 11, early.  `EndBoundRespected` and `CompleteCoversWindow` name
exactly these cases, and the runs have them: the entries are 9, 10 and 11 in
`redis_faults` (ends 9 and 11), 10 and 11 in `redis_subs` (ends 10, 11 and
100).

**Properties.** `NoEventLost` is about entries the server has *given* to a
group; that those not given yet are given in the end is `EventuallyProcessed`.
That one assumes no lost replies: an entry whose read reply was lost stays
pending until the subscription or the process starts again, because a running
loop never goes back to its pending entries.  It also assumes one instance
name, as pending entries of another one are read by nobody.  `KeepsContract` is
the refinement of `BackendContract`: `owed` is the pending entries, `done` the
settled ones; each step of the backend is a step of the contract or a stutter.
`CompleteCoversWindow` says of a replay what its Complete status claims, and
names the four exceptions the code has: an entry whose text, or that of one
before it in the group, is past the end though its number is not (`BeyondEnd`);
a lost reply; an instance name that changed; and a loop of the same trigger
that `unsubscribe` gave up waiting for.  This last one may read an entry beyond
an earlier end of its own and leave it pending when the new loop is already
past its own pending entries; the new replay then completes without it.  It was
found by the attempt to prove the property without it.

**Bounds.**  Three entries are enough for one that is pending, one trimmed and
one at the end bound; two restarts for an entry that is read by a second
process and settled by a third; two subscriptions for an abandoned loop next to
its successor, and two triggers for the drain of one while the other is
removed.  Several ends (`ReplayEnds`) let a loop with an earlier end overlap with
one that has a later end.  `MaxDigits = 2` is enough for IDs up to 999; the
proofs hold for any value.  Subscription tokens are used once per process, so
`Subs` bounds how often a trigger is added again.

**Fairness.**  `FairSpec` asks weak fairness of goroutines that can run (loop,
watcher, dispatch), of the timer and the channel in `unsubscribe`, of the steps
of Start, and of the orchestrator starting an ended process.  A dispatch
returns because the HTTP client and its retries end; reads end because of their
3 s block.  Nothing is assumed of producers, of the manager's calls or of
faults.

### Proofs

For all constants that satisfy `NamesAssumption` (finitely many triggers: the
wait group counts them) and `BoundsAssumption`:

* `RedisBackendProofs`: `TypeCorrect` (`[]TypeOK`; with the coherence of each
  subscription it is inductive) and `AtLeastOnce` (`[]NoEventLost`).
  `NoEventLost` alone is not inductive: an acknowledgement could remove an entry
  nobody has settled.  `IInv` adds `Knowledge`, what the goroutines know of the
  entries they hold: an entry found invalid holds no CloudEvent or was trimmed,
  and one whose dispatch returned is processed.  The interesting steps are
  `NoLossAck` (only settled entries are acknowledged), `NoLossRead` (a read
  makes pending what it moves past, except what was trimmed) and
  `NoLossCreate` (BUSYGROUP leaves a group alone, a new one was given nothing).
  `OneTrackedReader`, `WaitGroupExact` and `ShutdownClean` follow from `MInv`:
  `TypeOK` with `Tracking`, which says that the map names each subscription
  under its owner, whoever waits in `unsubscribe` holds the mutex, Start drains
  under it and leaves the map empty, and `wg` is the cardinality of the map.  The
  argument is that the mutex covers every change of the map, the timed out wait
  included.
* `RedisDeliveryProofs`: `Implements` (`Spec => KeepsContract`).  `CInv` adds
  to `IInv` that reads and acknowledgements never meet a missing group
  (`Backed`), so that each step gives, marks or settles.

  `NoDuplicate` and `EndRespected`.  `SInv` adds to `CInv` that what is
  pending was read (`PendingRead`), and that what a loop has dispatched is not
  after the group's position, nor after its cursor while it reads pending
  entries (`LoopsOrdered`).  `EndRespected` rests on `TextOrder`, that texts and
  numbers compare alike but where one of the IDs has more digits: `Within`, what
  a loop has dispatched is below its end or wider, is kept by each dispatch.

  `CompleteCovers`.  `CoverInv` joins the invariants above with `Tidy` (a
  subscription is not beyond what its group was given) and `Window`: every
  entry a loop has *reached* is *held*.  Reached is what lies behind the loop:
  up to its cursor while it reads pending entries, everything the group was
  given once it reads new ones, and what is not `BeyondEnd` when it has
  completed.  Held is settled, pending for another instance, being dispatched,
  in the hands of this loop or of one that overlaps with it, or left by such a
  loop beyond its end.  The proof has one lemma for each step of a loop;
  `WindowFrame` says what all steps keep.  The steps that carry it are
  `PendingCovers` (pending entries are read in order and those passed over are
  settled or another instance's, by `NoEventLost`), `NothingCovers` (the same
  at their end, with `Least`: a set of entries that is not empty has a first
  one), `NewCovers` (what lies between two new entries was trimmed, and another
  loop that runs overlaps, by `LoopsTracked`) and `ExceededCovers` (what ends a
  replay is beyond its end, `ExceedsBeyond`, and so is all behind it,
  `BeyondStays`).

Model-checked only: liveness.

## 4. MemoryBackend

**Correspondence.**  `buffer` and `open` are the channel `s.buffer`, `closing`
the field of that name, `ccbs` the keys of the callback map, `writer` the one
Subscribe or Unsubscribe that waits for the write lock (the manager calls them
under a mutex of its own).  `startPc` is where Start's goroutine is: at its
select or range, with an event received but not the read lock, between two
callbacks, in a dispatch, producing a response, returned.  `event`, `todo`,
`target`, `sink` and `response` are what it holds there.  `prod[p]` is a request
of the ingest between Produce's check of `closing` (memory.go:51) and its send
(memory.go:58).  `accepted` and `taken` are history.

**Actions.**  `ProduceCheck`, then `ProduceSend`, `ProduceTimeout` or
`ProducePanic`; `UpdateCall` and `UpdateLocked` for Subscribe and Unsubscribe;
`Closer`, the goroutine that only sets `closing`; `Receive`, `Close` and
`Return` for Start; `FanOut`, `Dispatch`, `DispatchReturn`, `FanOutEnds` for the
fan-out.  A dispatch (subscriber.go:95) asks the target and, when that fails,
the dead letter sink (`TargetFails`); either may answer with an event
(`Respond`), which is produced from Start's own goroutine (`RespondSend`,
`RespondTimeout`).  A waiting writer keeps new readers out, as `sync.RWMutex`
does.  `closing` is read without synchronisation; a stale read of it has the
outcome of a check made earlier, which the interleavings already include.

**Left out.**  The bounds error of Subscribe, `Info`, `Probe`, and a buffer of
size zero: an unbuffered channel hands the event over instead of storing it.
Whether a trigger has a dead letter sink is left open: a dispatch may end after
either request.

**Bounds.**  Two producers so that one waits for room while another is between
its check and its send; a buffer of one so that it is full while a dispatch
responds; three events so that a response meets a full buffer with more to
come; two updates to add a trigger and remove it, or add both.  The safety
properties also hold with a buffer of two and four events.

**Fairness.**  `FairSpec` asks weak fairness of Start's goroutine, of the
goroutine that sets `closing`, of the lock, and of each request: goroutines that
can run are scheduled, dispatches end because the HTTP client and its retries
do, and the produce timeout fires.  Nothing is assumed of new requests, targets,
configuration updates or the signal.  The timeout of the produce is what makes
`AcceptedIsTaken` and `ShutdownCompletes` true: without it a response produced
into a full buffer waits for ever for its own goroutine.

### Proofs

`MemoryBackendProofs` proves, under `MemoryAssumption`: `MemoryTypeCorrect`
(`TypeOK` is inductive by itself); `AcceptedInOrder` (`QueueKept` is inductive
with it: a send appends to both sides, a receive moves the head);
`StartNeverPanics`, `OnlySubscribedCalled` and `ShutdownDrains`.  The last three
rest on `StartInv`: a closed channel implies `closing`, a dispatch produces only
while the channel is open, subscriptions change only while the fan-out holds
none, and once Start has returned the closed channel is empty and stays so.
Liveness is model-checked only.

## 5. KafkaBackend

**Correspondence.** The topic has one partition: `end` records, numbered from
0; `stamp[m]` is the timestamp its producer set, any date, so that timestamps
may go back from one record to the next.  `committed[n]` is the offset of a
trigger's group. `startPc`, `subs`, `wg`, `mutex`, `waitFor` are as in Redis
(kafka.go:131); `producing` is the backend's own client, which `unsubscribe`
closes (kafka.go:288).  `sub[s]` is a subscription with its loop: between
polls, in the batch from `next` to `head`, stopped; `exitLoop`, `cancelled` and
the dispatch goroutines as in Redis.  The bounds of a trigger are a start by
offset or by date (`since`), which the first poll of a group with nothing
committed resolves, and the ends by offset and by date that
`checkBoundsExceeded` compares.  `handled`, `processed`, `dropped` (fetched,
then the process ended) and `origin` (where a loop began with nothing
committed) are history.

**Actions.**  Subscribe, Unsubscribe, the steps of Start; for a loop its poll,
which returns records, an error or both, each record of the batch (invalid,
beyond the end, dispatched) with the deferred commit of everything polled
(subscription.go:132), and its exit; a dispatch's return with the commit of its
own record (subscription.go:170), which may fail; producers, process end and
restart.

**Properties.**  Committing early is what the code does, so the question is what
a commit may skip: `NothingSkipped` says only records a loop has handled, holds
or lost with a process.  Commits of dispatches move the offset back as well as
forth and still keep it.  `MarkedWhenDispatched` is the refinement of
`BackendContract`, with `owed` the handled records that are not committed: the
loop's commit violates it.  A cancelled loop stops with an end bound here
(`LoopStops`), unlike in Redis, because a poll on a done context reports an
error that sets `exitLoop` again.  What ends a replay does not hold as the
comments say: where timestamps go back, a record behind the one past the end
date is within the bound, so the check clears `exitLoop` (subscription.go:153),
the record is dispatched after Complete was reported, and the loop polls on.
`CompleteIsFinal` says that only a record with a timestamp before that of an
earlier one is dispatched then, and `LoopStops` that the loop ends unless the
topic has such a record.

**Bounds.**  Two records: one in a dispatch and one in the batch behind it, or
one before the end bound and one past it, in either order of their timestamps
(`MaxDate = 1` has an end date, and a date past it).  **Fairness** is that of
the watcher and of the loop only: goroutines are scheduled and calls to the
cluster end.

**Proofs.** `KafkaBackendProofs`, under `KafkaAssumption`: `TypeCorrect`,
`NoneSkipped` and `CompleteEnds`.  `IInv` adds to `TypeOK` where loops stand
(`Positions`: nothing is ahead of the topic, and a loop that completed its
replay has met a record past its end, `PastEnd`) and that one loop at a time
reads for a trigger (`OneReader`: a loop is cancelled before it leaves the
map).  `CInv` adds `CommitsCovered`: every record below a commit that a loop or
a dispatch may still make is accounted for.  Without `CommitsCovered` a commit
could skip a record; with it each commit, in whatever order, moves to an offset
below which nothing is missing.  `CompleteEnds` (`CompleteIsFinal`) follows
from `PastEnd`: what the loop dispatches afterwards is behind that record and
within the bound, so its timestamp is earlier.

## 6. StatusTypes and StatusManager

**Correspondence.**  `StatusTypes` has the comparisons and the merge of
`pkg/status/types.go`, and EnsureSubscription and EnsureNoSubscription as
functions of the map.  A timestamp is the number of the change that made it.
In `StatusManager`, `cached` and `writeAsap` are the fields; `fresh` says that
the cache has not expired; `loop` is where Start is: in its select, woken,
about to update, between the read and the write of the
ConfigMap, returned.  `mine` and `other` are the ConfigMap's entries of this
instance and of another one, `mineOld` and `otherOld` that they are past
`instanceExpire`, `updated` that somebody has updated the ConfigMap since it was
read.  The send on `chReconcile` is dropped unless the loop is in its select
(status.go:227): so is the wake-up here.

**Actions.**  `UpdateIngestStatus`, `EnsureSubscription`,
`EnsureNoSubscription`; `Tick`, `Check` (reads the flag without the mutex),
`ReadStatus`, `WriteStatus`, `WriteRefused` (a conflict), `CallFails`, `Stop`;
`OtherWrites`, `Edited` (the entry or the ConfigMap is replaced by others),
`EntryExpires`, `CacheExpires`, `Restart`.

**Properties.**  `ChangesFlagged` names the two exceptions it has: a write that
failed (`status_failedwrite`), and an entry that others removed, which comes
back when the cache expires.  `StatusReported` covers both: the expiration of
the cache repairs what the flag forgot.

**Bounds.**  Two changes: one before and one after the decision or the read;
two triggers, so that a change of one meets the report of the other.
**Fairness**: the loop is scheduled, its ticker fires, the API answers and time
passes (`CacheExpires`); nothing is assumed of the callers or of others.

**Proofs.**  `StatusManagerProofs`, for any number of triggers, changes, faults,
others and restarts: `StatusTypeCorrect`, `NothingForgotten` and
`OtherInstanceKept`.  The type invariant says of every stored status that it
carries no time later than the last change, whatever was merged.  `IInv` adds
`Held`: between the read and the write the mutex is held, so what is written is
the cached status, and the other instance's entry is as read unless somebody
updated the ConfigMap, in which case the write is refused.  The data lemma is
`EnsuredSoft`: a report that does not raise the flag changes timestamps only.

## 7. SubscriptionManager

**Correspondence.**  `subscribers` are the keys of the manager's map,
`object[n]` and `trigger[n]` the subscriber objects of a name and the trigger
each has; one removed and created again is a new object, whose lock the
dispatches of the old one do not hold.  `pc`, `name` and `todo` follow
UpdateFromConfig (manager.go:54) under its mutex: visit what must go,
unsubscribe, forget, then create or update each trigger, `locking` while it
waits for a subscriber's write lock.  `dispatch[d]` is a dispatchCloudEvent
(subscriber.go:95) with its steps and what it `saw` of the trigger.  `waits` is
the kind of backend.  `subscribed` is external: the backend's subscriptions.

**Properties.**  `ConfigApplied` and `StatusFollowsSubscribers` relate the
configuration, the subscribers, the backend and the status after every update;
the part that needs a waiting backend says so: with Redis or Kafka a late
dispatch reports for a trigger that is gone, and its entry stays in the status.
An update that gave up (manager.go:110) leaves `aborted` set: the code then has
applied only part of the configuration.

**Bounds.**  Two names and two configurations, so that one trigger stays while
another changes; one that cannot be parsed; three updates to create, remove and
create again; one dispatch at a time is enough for a race with an update, as
dispatches only share the read lock.  **Fairness**: an update and a dispatch
that have begun go on.

**Proofs.**  `SubscriptionManagerProofs`, for finitely many names and any
number of triggers, dispatches and updates: `TypeCorrect`, `OneTrigger`,
`Configured`, `StatusOfSubscribers`, `TimeKept`.  `IInv` is `TypeOK` with
`Counted` (an update makes at most one object of a name), `Planned` (which
triggers its second loop visits), `UnderLock` (a dispatch has seen the trigger
its object has now, or nothing) and `Applied` (subscribers, subscriptions and
status for what an update in the middle has visited).

## 8. ConfigWatch

**Correspondence.**  One source is followed by one `method`.  `source` is its
content (a number for the valid configuration of the n-th change, or empty,
missing, bad); `watched`, `events` are fsnotify's; `dirty` the controller's work
queue.  `main` is Start of the configuration watcher or poller (add, cache, get,
first update), `loop` the loop of `pkg/common/fs` or the worker of a controller,
`held` and `got` what each has read; `cached` is the last content, `applied`
what the callbacks saw last.  `shared` is true for the observability file, whose
Start finds the loop of the broker's file running.

**Properties** are about what is applied against what the source is.  The
variable `missed` names the one flaw they step around: a change made while a
file's watch is off (filewatcher.go:93) is applied by no callback.  `shared`
names the other: the first call in Start may overwrite a newer one of the loop.
Both are history variables; dropping them from the properties gives a
counterexample.

**Bounds.**  Four changes: a file replaced, written, removed and written again.
**Fairness**: the two goroutines are scheduled; nobody has to change the source.

**Proofs.** `ConfigWatchProofs`, for any number of changes, events and failures
and each method: `ConfigTypeCorrect`, `QuietMeansCurrent`, `FileStaysWatched`
and `OnlyForward`.  `WInv` joins to `TypeOK` what makes the three inductive.
`Separate`: what a method does not use stays as it was, and a watch is on a
file.  `Aged`: a valid source is the last change and nothing read is from after
it.  `InTurn`: as long as one goroutine at a time applies what it read, that is
what is cached, and never older than what is applied; this is the part `shared`
breaks, and why `QuietIsCurrent` and `NeverGoesBack` name it.  `Noticed`: a
valid source that is not what was read or applied has left a notice, an event
in the queue or a dirty key.  `WatchKept`: a file that was never missing is
watched, or its removal is still to be handled by the loop, which adds the
watch again.  The lemmas about `Queued` say what taking the first event and
appending others leave in the queue. `Converges`, a liveness property, is
model-checked only.

## 9. BrokerArgs and BrokerLifecycle

**Correspondence.** `BrokerArgs` is Globals.Validate (globals.go:119) over
which arguments are given, and what NewInstance creates for them; `Sources` is
the reference definition of a complete source of configuration.
`BrokerLifecycle` has the main goroutine (`main`), the parts of the errgroup
(status manager, backend, controllers' manager, ingest), the goroutine that
waits for the context (`watch`), a request in the ingest handler, and the ends
of the process: an error, a panic, the return of Start, a signal before Start
listens for it.  Start starts what follows the configuration in order; each may
call the backend at once.

**Properties.**  `FollowsItsSource` compares what was started with the
reference; `ReadyBeforeServing`, `AllPartsReturn`, `ClosedIsFinal` and
`ShutdownCompletes` are about the order of starting and ending in every
combination of arguments, errors, panics and signals.

**Bounds.** All arguments; at most one source of observability, since they are
started independently of each other; memory and Redis, a backend whose
Subscribe needs nothing of Start's goroutine, as Kafka's, and one whose does.
**Fairness**: goroutines are scheduled and requests end; strong fairness for
the return of the HTTP server, which requests that keep coming would otherwise
disable for ever: it accepts no more once the context is done.

**Proofs.**  `BrokerLifecycleProofs`, for all arguments and kinds of backend:
`LifecycleTypeCorrect`, `OneSource` (`FollowsItsSource`), `ServesWhenReady`
(`ReadyBeforeServing`), `WaitsForAll` (`AllPartsReturn`) and `LastStatus`
(`ClosedIsFinal`).  `LInv` joins to `TypeOK` and `AllPartsReturn`: `Ended`, the
main goroutine is at its end when the process is; `Chosen`, past Validate the
arguments are accepted and the method is theirs; `Followed`, the instance has
the followers of its method and Start has started those behind its place;
`BackendUp`, the backend is made before its Start is launched and before
anything that calls it; `IngestUp`, the server starts with its handler, has
requests only while it runs and reports its end once.  The data lemma is
`AcceptedSource`: by the cases of Validate, accepted arguments have exactly one
source by the reference `Sources`, and the followers created for the method read
that one.  `ShutdownCompletes`, a liveness property, is model-checked only.

## 10. What is proved and what is not

Eight modules hold theorems: `MemoryBackendProofs`, `RedisBackendProofs`,
`RedisDeliveryProofs`, `KafkaBackendProofs`, `SubscriptionManagerProofs`,
`StatusManagerProofs`, `ConfigWatchProofs` and `BrokerLifecycleProofs`;
`PROJECT.json` lists the ones a reader should know.  They hold for every value
of the constants under the assumptions named with the constants; no theorem has
a hypothesis of its own.

Every safety invariant and action property that a passing run checks is a
theorem, and so is the type invariant of every module with state.  What stays
with TLC is liveness under fairness and anything about ENABLED, which are
beyond the prover; and the three runs that refute what a comment says, which
are counterexamples.

## 11. Not modelled

* Metrics and logging (`pkg/common/metrics`, the reporters of subscriptions and
  ingest): they measure and keep no state another part reads.
* Command line programs (`cmd/`): wiring; BrokerLifecycle takes the order
  Validate, Initialize, NewInstance, Start from them.
* HTTP itself, the ingest's probe, `Info` and `Probe` of the backends, TLS and
  SASL set-up, argument parsing of the backends: no state, or that of a library.
* Kafka topics with several partitions and groups with several members: offsets
  would be per partition and move between clients by rebalancing, inside the
  library.  The code addresses no partition.
* The set-up of the controllers' manager, informers and work queue: library;
  modelled from how the controllers use them.
* Filters, event contents, back-off between retries: data, pure functions of
  libraries, or waiting.

### Seen while modelling, without a run

The model has these behaviours or leaves them out as noted; no property claims
otherwise.

* Redis: an event whose dispatch returned after Unsubscribe is delivered again,
  as its acknowledgement uses the cancelled context (against interface.go:22).
  A loop that was abandoned before its end can leave an entry pending that a
  newer loop over the same events completes without.
  Unsubscribe waits for no dispatch (interface.go:42).  An existing group keeps
  its position when its trigger is added again with other bounds.  Pending
  entries of another instance name are never claimed (broker.go:276 speaks of
  it).
  IDs are compared as texts (redis/subscription.go:33): where the sequence part
  gains a digit a replay dispatches entries past its end or completes early.
* Memory: a request that checked `closing` before it was set, or waits for
  room, panics on the closed channel (memory.go:94 says new events are
  rejected).
* Kafka: Unsubscribe closes the client that produces, and the subscription's
  own stays open.  Any fetch error ends a trigger's loop, but one that came with
  records of a bounded replay, which clear the flag again.  The comments at
  kafka/subscription.go:103 and :147 say that the loop exits past the end date:
  it does not if a record with an earlier timestamp follows in the batch
  (section 5).
* Status: the change of an ingest status alone never raises `writeAsap`; the
  Failed status of a trigger whose creation failed stays after its removal from
  the configuration.
* Subscriptions: a change of bounds alone is not applied; a delivery option
  with retries and no `backoffDelay` is dereferenced as nil (subscriber.go:66).
* Configuration: adding a path twice to the poller would wait for its own
  mutex; no caller does.
* Lifecycle: with Redis a trigger set up before the goroutine of the backend's
  Start has run makes the process panic (`SubscribePanics`, redis.go:222 uses the
  context that Start sets), and so does one set up from the loop of a file
  watcher, poller or controller (`CallbackPanics`); a polling period or a check
  period of the status manager that is not positive panics in its ticker
  (`TickerPanics`, `StatusPanics`), while the sign of the force period has no
  such effect; a second observability source is accepted.
