----------------------------- MODULE ConfigWatch -----------------------------
(***************************************************************************)
(* How a configuration reaches the broker: pkg/common/fs, the watchers and *)
(* pollers of pkg/config/broker and pkg/config/observability, and the      *)
(* controllers of pkg/common/kubernetes/controller.                        *)
(*                                                                         *)
(* One source of configuration is followed: a file by the watcher or the   *)
(* poller, a Secret or a ConfigMap by a controller.  The loop of the       *)
(* watcher or poller is shared by the broker's and the observability file, *)
(* so for the second one to start it already runs.                         *)
(*                                                                         *)
(* Content n > 0 is the valid configuration written by the n-th change.    *)
(* fsnotify, the informers and whoever changes the source are external.    *)
(* Operators with an underscore are plausible slips in the definition that *)
(* follows them.                                                           *)
(***************************************************************************)
EXTENDS Integers, Sequences

CONSTANTS
    Methods,     \* the ways of configuration to check
    MaxChanges,  \* bound: changes of the source
    MaxFaults    \* bound: failed fetches from the Kubernetes API

Files == {"watcher", "poller"}
Objects == {"secret", "configmap"}

ASSUME ConfigAssumption ==
    Methods \subseteq Files \cup Objects /\ MaxChanges \in Nat /\ MaxFaults \in Nat

Empty == 0     \* empty, and nil: what is applied before any configuration
Missing == -1  \* no file or object; in cached, no key
Bad == -2      \* cannot be parsed, or is not valid
Contents == {Bad, Missing, Empty} \cup 1..MaxChanges

VARIABLES
    method,   \* how the source is followed
    shared,   \* the loop runs before this source is started
    source,   \* the content of the file or object
    watched,  \* fsnotify watches the file that the path names now
    events,   \* events of fsnotify that the loop has not received
    dirty,    \* the controller's queue holds the object
    main,     \* where Start is
    held,     \* the content Start has read
    loop,     \* where the loop, or the controller's worker, is
    got,      \* the content it has read
    cached,   \* cachedFileWatcher.watchedFiles, pollFile.cachedContents
    applied,  \* the configuration of the last callbacks
    \* history, for the properties and the bounds only
    missed,   \* the file has changed while it was not watched
    removed,  \* the path has named no file
    changes, faults

outside == <<source, watched, events, dirty, missed, removed, changes>>
vars == <<method, shared, outside, main, held, loop, got, cached, applied, faults>>

-----------------------------------------------------------------------------
(* The source changes. *)

\* What an event of the file leaves in fsnotify's channel, if it is watched.
Notified(es) == IF watched THEN events \o es ELSE events

\* A watch was added, or is lost.
Missable == method = "watcher" /\ main \notin {"add", "failed"}

\* The source becomes c.  es are the events for a watched file; a change that
\* puts another file at the path leaves the watch on the old one.
Change(c, es, keepsWatch) ==
    /\ source' = c
    /\ changes' = changes + 1
    /\ removed' = (removed \/ c = Missing)
    /\ IF method \in Files
       THEN /\ events' = IF method = "watcher" THEN Notified(es) ELSE events
            /\ watched' = (watched /\ keepsWatch)
            /\ missed' = (missed \/ (Missable /\ ~watched))
            /\ dirty' = dirty
       ELSE dirty' = TRUE /\ UNCHANGED <<watched, events, missed>>
    /\ UNCHANGED <<method, shared, main, held, loop, got, cached, applied, faults>>

\* Writers that open with O_TRUNC empty the file first.
WriteInPlace ==
    /\ changes < MaxChanges /\ source # Missing
    /\ \E c \in {Empty, Bad, changes + 1} : Change(c, <<"content">>, TRUE)

\* Rename over: the old file loses its last link and is deleted.
Replace ==
    /\ changes < MaxChanges /\ source # Missing /\ method \in Files
    /\ \E c \in {Bad, changes + 1} : Change(c, <<"content", "remove">>, FALSE)

\* Removed, or moved away.
Remove ==
    /\ changes < MaxChanges /\ source # Missing
    /\ \E es \in {<<"content", "remove">>, <<"content">>} : Change(Missing, es, FALSE)

Create ==
    /\ changes < MaxChanges /\ source = Missing
    /\ Change(changes + 1, <<>>, FALSE)

SourceStep == WriteInPlace \/ Replace \/ Remove \/ Create

-----------------------------------------------------------------------------
(* update() of the watchers and pollers, and the end of Reconcile. *)

ReadFile == IF source = Missing THEN Empty ELSE source

\* ParseFromMap makes the default configuration of an empty ConfigMap.
Discarded(c) == c \in {Missing, Empty} /\ ~(method = "configmap" /\ c = Empty)

Parses(c) == c # Bad

\* update(c).
AfterUpdate(c) == IF Discarded(c) \/ ~Parses(c) THEN applied ELSE c

-----------------------------------------------------------------------------
(* Start of the watchers and pollers. *)

\* The poller and the controllers register without reading.
AddRegisters ==
    /\ main = "add"
    /\ method # "watcher"
    /\ main' = IF method = "poller" THEN "get" ELSE "run"
    /\ UNCHANGED <<method, shared, outside, held, loop, got, cached, applied, faults>>

\* fileWatcher.Add: fsnotify refuses a file that does not exist, and the
\* broker does not start.
AddWatch ==
    /\ main = "add" /\ method = "watcher"
    /\ IF source = Missing
       THEN main' = "failed" /\ watched' = watched
       ELSE main' = "cache" /\ watched' = TRUE
    /\ UNCHANGED <<method, shared, source, events, dirty, held, loop, got, cached,
                   applied, missed, removed, changes, faults>>

\* cachedFileWatcher.Add, unless a callback has read the file already.  The
\* mutex is held by a callback until it returns.
AddCache ==
    /\ main = "cache" /\ loop # "update"
    /\ cached' = IF cached = Missing THEN ReadFile ELSE cached
    /\ main' = "get"
    /\ UNCHANGED <<method, shared, outside, held, loop, got, applied, faults>>

MayGetContent == method = "poller" \/ loop # "update"

GetContent ==
    /\ main = "get" /\ MayGetContent
    /\ held' = cached
    /\ main' = "update"
    /\ UNCHANGED <<method, shared, outside, loop, got, cached, applied, faults>>

\* The first call to the callbacks, in the caller's goroutine, then the loop.
AfterFirst_NoCall == applied
AfterFirst == AfterUpdate(held)

FirstUpdate ==
    /\ main = "update"
    /\ applied' = AfterFirst
    /\ main' = "run"
    /\ UNCHANGED <<method, shared, outside, held, loop, got, cached, faults>>

StartStep == AddRegisters \/ AddWatch \/ AddCache \/ GetContent \/ FirstUpdate

-----------------------------------------------------------------------------
(* The loop of the file watcher. *)

LoopRuns_Early == main # "add" \/ shared
LoopRuns == main = "run" \/ shared

AfterRemove_Gone == watched
AfterRemove == source # Missing

\* A removed file is watched again if there is one, without a callback.
EventRemove ==
    /\ loop = "idle" /\ LoopRuns
    /\ events # <<>> /\ Head(events) = "remove"
    /\ events' = Tail(events)
    /\ watched' = AfterRemove
    /\ UNCHANGED <<method, shared, source, dirty, missed, removed, changes, main, held, loop,
                   got, cached, applied, faults>>

\* Any other event: the callback reads the file.  If it cannot, what is
\* cached goes to the callback again.
Recached_Stale == IF source = Missing \/ cached # Missing THEN cached ELSE source
Recached == IF source = Missing THEN cached ELSE source

EventContent ==
    /\ loop = "idle" /\ LoopRuns
    /\ events # <<>> /\ Head(events) = "content"
    /\ events' = Tail(events)
    /\ cached' = Recached /\ got' = Recached
    /\ loop' = "update"
    /\ UNCHANGED <<method, shared, source, watched, dirty, missed, removed, changes, main, held,
                   applied, faults>>

-----------------------------------------------------------------------------
(* The loop of the poller. *)

\* A file that cannot be read is as an empty one.
Poll ==
    /\ loop = "idle" /\ LoopRuns /\ method = "poller"
    /\ main # "add"
    /\ cached # ReadFile
    /\ cached' = ReadFile /\ got' = ReadFile
    /\ loop' = "update"
    /\ UNCHANGED <<method, shared, outside, main, held, applied, faults>>

-----------------------------------------------------------------------------
(* The worker of a controller. *)

FetchFails ==
    /\ loop = "idle" /\ LoopRuns /\ dirty
    /\ faults < MaxFaults
    /\ faults' = faults + 1
    /\ UNCHANGED <<method, shared, outside, main, held, loop, got, cached, applied>>

\* Reconcile returns without an error and without a callback.
ReconcileNothing ==
    /\ loop = "idle" /\ LoopRuns /\ dirty
    /\ Discarded(source)
    /\ dirty' = FALSE
    /\ UNCHANGED <<method, shared, source, watched, events, missed, removed, changes, main,
                   held, loop, got, cached, applied, faults>>

\* A change while Reconcile runs puts the object back into the queue.
ReconcileFetch ==
    /\ loop = "idle" /\ LoopRuns /\ dirty
    /\ ~Discarded(source)
    /\ dirty' = FALSE
    /\ got' = source
    /\ loop' = "update"
    /\ UNCHANGED <<method, shared, source, watched, events, missed, removed, changes, main,
                   held, cached, applied, faults>>

-----------------------------------------------------------------------------
\* The callbacks with what was read.  A controller tries content that does
\* not parse again.
Requeues == method \in Objects /\ ~Parses(got)

Update ==
    /\ loop = "update"
    /\ applied' = AfterUpdate(got)
    /\ loop' = "idle"
    /\ dirty' = (dirty \/ Requeues)
    /\ UNCHANGED <<method, shared, source, watched, events, missed, removed, changes, main,
                   held, got, cached, faults>>

LoopStep ==
    \/ EventRemove \/ EventContent \/ Poll
    \/ FetchFails \/ ReconcileNothing \/ ReconcileFetch
    \/ Update

\* The controllers list the object when they start.  Their loop is never
\* shared: each source has a controller of its own.
Init ==
    /\ method \in Methods
    /\ shared \in IF method \in Files THEN BOOLEAN ELSE {FALSE}
    /\ source \in {Missing, Empty, Bad}
    /\ watched = FALSE /\ events = <<>>
    /\ dirty = (method \in Objects)
    /\ main = "add" /\ loop = "idle"
    /\ held = Empty /\ got = Empty
    /\ cached = IF method = "watcher" THEN Missing ELSE Empty
    /\ applied = Empty
    /\ missed = FALSE /\ removed = FALSE /\ changes = 0 /\ faults = 0

Next == SourceStep \/ StartStep \/ LoopStep

Spec == Init /\ [][Next]_vars

\* The goroutines are scheduled; nobody has to change the source.
FairSpec == Spec /\ WF_vars(StartStep) /\ WF_vars(LoopStep)

-----------------------------------------------------------------------------
(* Properties *)

\* Every variable keeps its type; what is applied was valid.
TypeOK ==
    /\ method \in Files \cup Objects /\ shared \in BOOLEAN
    /\ source \in Contents /\ watched \in BOOLEAN
    /\ events \in Seq({"content", "remove"})
    /\ dirty \in BOOLEAN
    /\ main \in {"add", "cache", "get", "update", "run", "failed"}
    /\ loop \in {"idle", "update"}
    /\ held \in Contents /\ got \in Contents /\ cached \in Contents
    /\ applied \in Contents \ {Bad, Missing}
    /\ missed \in BOOLEAN /\ removed \in BOOLEAN
    /\ changes \in 0..MaxChanges /\ faults \in 0..MaxFaults

\* A configuration is never replaced by an older one, nor by the nothing of
\* an empty, missing or invalid source, while one goroutine at a time applies
\* it.  The exception is an emptied ConfigMap, whose defaults are applied.
NeverGoesBack ==
    [][~shared => \/ applied' >= applied
                  \/ (method = "configmap" /\ applied' = Empty)]_vars

\* Nothing is left to do for the source as it is.
Quiet ==
    /\ main = "run" /\ loop = "idle"
    /\ events = <<>> /\ ~dirty
    /\ method = "poller" => cached = ReadFile

\* With nothing left to do a valid source is what is applied.  The changes a
\* watcher misses are those made after its file was removed or replaced and
\* before, if ever, it is watched again.
QuietIsCurrent ==
    Quiet /\ ~shared /\ ~missed /\ source > Empty => applied = source

\* A file that is written and replaced, and never missing, stays watched.
StaysWatched ==
    Quiet /\ method = "watcher" /\ ~removed => watched

\* A valid source that does not change any more is applied in the end.
Converges ==
    \A c \in 1..MaxChanges :
        <>[](source = c /\ ~shared /\ ~missed /\ main # "failed") => <>[](applied = c)
=============================================================================
