-------------------------- MODULE ConfigWatchProofs --------------------------
(***************************************************************************)
(* Proofs about ConfigWatch, for every method, number of changes and       *)
(* number of failed fetches: what is applied does not go back, nothing is  *)
(* left undone for a source that was not missed, and a file that is        *)
(* replaced stays watched.                                                 *)
(***************************************************************************)
EXTENDS ConfigWatch, SequenceTheorems, TLAPS

(* The inductive invariant *)

\* The queue q of events holds e.
Queued(e, q) == \E i \in 1..Len(q) : q[i] = e

\* What a method does not use stays as it was, and a watch is on a file.
Separate ==
    /\ method # "watcher" => events = <<>>
    /\ method \in Files => ~dirty
    /\ main = "cache" => method = "watcher"
    /\ main \in {"get", "update"} => method \in Files
    /\ method = "watcher" /\ source = Missing => ~watched

\* A valid source is the last change, and nothing read is from after it.
Aged ==
    /\ source > 0 => source = changes
    /\ held <= changes /\ got <= changes /\ cached <= changes /\ applied <= changes

\* While one goroutine at a time applies what it read, that is what is
\* cached, and never older than what is applied.
InTurn ==
    ~shared =>
        /\ main # "run" => loop = "idle" /\ applied = Empty
        /\ method = "watcher" /\ main \in {"add", "cache"} => cached = Missing
        /\ main = "update" => held = cached
        /\ method \in Files /\ loop = "update" => got = cached
        /\ method \in Files /\ cached > 0 =>
              /\ applied <= cached
              /\ main = "run" /\ loop = "idle" => applied = cached
        /\ loop = "update" /\ got > 0 => applied <= got

\* A valid source that is not what is read or applied has left a notice.
Noticed ==
    ~shared /\ source > 0 =>
        /\ method \in Objects /\ ~dirty =>
              IF loop = "update" THEN got = source ELSE applied = source
        /\ method = "watcher" /\ ~missed /\ main \in {"get", "update", "run"} =>
              cached = source \/ Queued("content", events)

\* A file that was never missing is watched, or its removal is to be handled.
WatchKept ==
    method = "watcher" /\ ~removed /\ main \notin {"add", "failed"} =>
        source # Missing /\ (watched \/ Queued("remove", events))

WInv == TypeOK /\ Separate /\ Aged /\ InTurn /\ Noticed /\ WatchKept

-----------------------------------------------------------------------------
(* Lemmas about the operators of the model *)

Kinds == {"content", "remove"}

LEMMA Numbers ==
    /\ MaxChanges \in Nat /\ MaxFaults \in Nat
    /\ Contents \subseteq Int /\ Missing \in Contents /\ Bad \in Contents /\ Empty \in Contents
    /\ \A c \in Contents : c <= MaxChanges /\ (c > 0 => c \in 1..MaxChanges)
    /\ \A c \in 1..MaxChanges : c \in Contents
BY ConfigAssumption DEF Contents, Missing, Bad, Empty

\* What is queued stays so behind the head and before what is appended.
LEMMA QueuedTail ==
    ASSUME NEW q \in Seq(Kinds), q # <<>>, NEW e
    PROVE  /\ Tail(q) \in Seq(Kinds)
           /\ Queued(e, q) /\ Head(q) # e => Queued(e, Tail(q))
<1>1. /\ Len(q) \in Nat /\ Len(q) > 0 /\ Head(q) = q[1]
      /\ Tail(q) \in Seq(Kinds) /\ Len(Tail(q)) = Len(q) - 1
      /\ \A i \in 1..(Len(q) - 1) : Tail(q)[i] = q[i + 1]
  BY HeadTailProperties
<1>2. ASSUME NEW i \in 1..Len(q), q[i] = e, Head(q) # e
      PROVE  Queued(e, Tail(q))
  <2>1. i # 1 /\ i - 1 \in 1..(Len(q) - 1)
    BY <1>1, <1>2
  <2>2. Tail(q)[i - 1] = e
    BY <1>1, <1>2, <2>1
  <2>3. QED BY <1>1, <2>1, <2>2 DEF Queued
<1>3. QED BY <1>1, <1>2 DEF Queued

LEMMA QueuedConcat ==
    ASSUME NEW q \in Seq(Kinds), NEW r \in Seq(Kinds), NEW e
    PROVE  /\ q \o r \in Seq(Kinds)
           /\ Queued(e, q) \/ Queued(e, r) => Queued(e, q \o r)
<1>1. /\ q \o r \in Seq(Kinds) /\ Len(q \o r) = Len(q) + Len(r)
      /\ Len(q) \in Nat /\ Len(r) \in Nat
      /\ \A i \in 1..(Len(q) + Len(r)) :
            (q \o r)[i] = IF i <= Len(q) THEN q[i] ELSE r[i - Len(q)]
  BY ConcatProperties
<1>2. ASSUME NEW i \in 1..Len(q), q[i] = e
      PROVE  Queued(e, q \o r)
  <2>1. i \in 1..Len(q \o r) /\ (q \o r)[i] = e
    BY <1>1, <1>2
  <2>2. QED BY <2>1 DEF Queued
<1>3. ASSUME NEW i \in 1..Len(r), r[i] = e
      PROVE  Queued(e, q \o r)
  <2>1. Len(q) + i \in 1..Len(q \o r) /\ (q \o r)[Len(q) + i] = e
    BY <1>1, <1>3
  <2>2. QED BY <2>1 DEF Queued
<1>4. QED BY <1>1, <1>2, <1>3 DEF Queued

\* The events of the changes.
LEMMA Literals ==
    /\ <<>> \in Seq(Kinds) /\ <<"content">> \in Seq(Kinds) /\ <<"content", "remove">> \in Seq(Kinds)
    /\ Queued("content", <<"content">>)
    /\ Queued("content", <<"content", "remove">>) /\ Queued("remove", <<"content", "remove">>)
    /\ \A e : ~Queued(e, <<>>)
<1>1. /\ <<>> \in Seq(Kinds) /\ <<"content">> \in Seq(Kinds)
      /\ <<"content", "remove">> \in Seq(Kinds)
  BY DEF Kinds
<1>2. Queued("content", <<"content">>)
  BY DEF Queued
<1>3. Queued("content", <<"content", "remove">>)
  BY DEF Queued
<1>4. Queued("remove", <<"content", "remove">>)
  <2> DEFINE q == <<"content", "remove">>
  <2>1. 2 \in 1..Len(q) /\ q[2] = "remove"
    OBVIOUS
  <2>2. QED BY <2>1 DEF Queued
<1>5. \A e : ~Queued(e, <<>>)
  BY DEF Queued
<1>6. QED BY <1>1, <1>2, <1>3, <1>4, <1>5

\* What the callbacks apply is valid: the content, or what was applied before.
LEMMA Applies ==
    ASSUME TypeOK, NEW c \in Contents
    PROVE  /\ AfterUpdate(c) \in Contents \ {Bad, Missing}
           /\ AfterUpdate(c) \in {applied, c}
           /\ c > 0 => AfterUpdate(c) = c
           /\ c = Empty /\ AfterUpdate(c) = c => applied = c \/ method = "configmap"
BY Numbers DEF AfterUpdate, Discarded, Parses, TypeOK, Missing, Bad, Empty

LEMMA ReadType ==
    ASSUME TypeOK
    PROVE  /\ ReadFile \in Contents /\ Recached \in Contents
           /\ source > 0 => ReadFile = source /\ Recached = source
           /\ ReadFile > 0 => source = ReadFile
           /\ ReadFile \in {source, Empty} /\ Recached \in {source, cached}
BY Numbers DEF ReadFile, Recached, TypeOK, Missing, Empty

-----------------------------------------------------------------------------
(* The steps *)

(* Start *)

LEMMA AddRegistersInv == WInv /\ AddRegisters => WInv'
<1> SUFFICES ASSUME WInv, AddRegisters PROVE WInv'
  OBVIOUS
<1> USE DEF AddRegisters, outside, Missing, Empty, Bad
<1> TypeOK /\ Separate /\ Aged /\ InTurn /\ Noticed /\ WatchKept
  BY DEF WInv
<1>1. TypeOK'
  BY Numbers DEF TypeOK
<1>2. Separate'
  BY Numbers DEF TypeOK, Separate, Files, Objects
<1>3. Aged'
  BY Numbers DEF TypeOK, Aged
<1>4. InTurn'
  BY Numbers DEF TypeOK, Separate, Aged, InTurn, Files, Objects
<1>5. Noticed'
  BY Numbers DEF TypeOK, Separate, Aged, InTurn, Noticed, Files, Objects
<1>6. WatchKept'
  BY Numbers DEF TypeOK, Separate, WatchKept, Files, Objects
<1>7. QED BY <1>1, <1>2, <1>3, <1>4, <1>5, <1>6 DEF WInv

LEMMA AddWatchInv == WInv /\ AddWatch => WInv'
<1> SUFFICES ASSUME WInv, AddWatch PROVE WInv'
  OBVIOUS
<1> USE DEF AddWatch, outside, Missing, Empty, Bad
<1> TypeOK /\ Separate /\ Aged /\ InTurn /\ Noticed /\ WatchKept
  BY DEF WInv
<1>1. TypeOK'
  BY Numbers DEF TypeOK
<1>2. Separate'
  BY Numbers DEF TypeOK, Separate, Files, Objects
<1>3. Aged'
  BY Numbers DEF TypeOK, Aged
<1>4. InTurn'
  BY Numbers DEF TypeOK, Separate, Aged, InTurn, Files, Objects
<1>5. Noticed'
  BY Numbers DEF TypeOK, Separate, Aged, InTurn, Noticed, Files, Objects
<1>6. WatchKept'
  BY Numbers DEF TypeOK, Separate, WatchKept, Files, Objects
<1>7. QED BY <1>1, <1>2, <1>3, <1>4, <1>5, <1>6 DEF WInv

LEMMA AddCacheInv == WInv /\ AddCache => WInv'
<1> SUFFICES ASSUME WInv, AddCache PROVE WInv'
  OBVIOUS
<1> USE DEF AddCache, outside, Missing, Empty, Bad
<1> TypeOK /\ Separate /\ Aged /\ InTurn /\ Noticed /\ WatchKept
  BY DEF WInv
<1>1. TypeOK'
  BY Numbers, ReadType DEF TypeOK
<1>2. Separate'
  BY Numbers, ReadType DEF TypeOK, Separate, Files, Objects
<1>3. Aged'
  BY Numbers, ReadType DEF TypeOK, Aged
<1>4. InTurn'
  BY Numbers, ReadType DEF TypeOK, Separate, Aged, InTurn, Files, Objects
<1>5. Noticed'
  BY Numbers, ReadType DEF TypeOK, Separate, Aged, InTurn, Noticed, Files, Objects
<1>6. WatchKept'
  BY Numbers, ReadType DEF TypeOK, Separate, WatchKept, Files, Objects
<1>7. QED BY <1>1, <1>2, <1>3, <1>4, <1>5, <1>6 DEF WInv

LEMMA GetContentInv == WInv /\ GetContent => WInv'
<1> SUFFICES ASSUME WInv, GetContent PROVE WInv'
  OBVIOUS
<1> USE DEF GetContent, MayGetContent, outside, Missing, Empty, Bad
<1> TypeOK /\ Separate /\ Aged /\ InTurn /\ Noticed /\ WatchKept
  BY DEF WInv
<1>1. TypeOK'
  BY Numbers DEF TypeOK
<1>2. Separate'
  BY Numbers DEF TypeOK, Separate, Files, Objects
<1>3. Aged'
  BY Numbers DEF TypeOK, Aged
<1>4. InTurn'
  BY Numbers DEF TypeOK, Separate, Aged, InTurn, Files, Objects
<1>5. Noticed'
  BY Numbers DEF TypeOK, Separate, Aged, InTurn, Noticed, Files, Objects
<1>6. WatchKept'
  BY Numbers DEF TypeOK, Separate, WatchKept, Files, Objects
<1>7. QED BY <1>1, <1>2, <1>3, <1>4, <1>5, <1>6 DEF WInv

LEMMA FirstUpdateInv == WInv /\ FirstUpdate => WInv'
<1> SUFFICES ASSUME WInv, FirstUpdate PROVE WInv'
  OBVIOUS
<1> USE DEF FirstUpdate, AfterFirst, outside, Missing, Empty, Bad
<1> TypeOK /\ Separate /\ Aged /\ InTurn /\ Noticed /\ WatchKept
  BY DEF WInv
<1>1. TypeOK'
  BY Numbers, Applies DEF TypeOK
<1>2. Separate'
  BY Numbers, Applies DEF TypeOK, Separate, Files, Objects
<1>3. Aged'
  BY Numbers, Applies DEF TypeOK, Aged
<1>4. InTurn'
  BY Numbers, Applies DEF TypeOK, Separate, Aged, InTurn, Files, Objects
<1>5. Noticed'
  BY Numbers, Applies DEF TypeOK, Separate, Aged, InTurn, Noticed, Files, Objects
<1>6. WatchKept'
  BY Numbers, Applies DEF TypeOK, Separate, WatchKept, Files, Objects
<1>7. QED BY <1>1, <1>2, <1>3, <1>4, <1>5, <1>6 DEF WInv

(* The loop of the file watcher, the poller and the controllers *)

LEMMA EventRemoveInv == WInv /\ EventRemove => WInv'
<1> SUFFICES ASSUME WInv, EventRemove PROVE WInv'
  OBVIOUS
<1> USE DEF EventRemove, LoopRuns, AfterRemove, Kinds, outside, Missing, Empty, Bad
<1> TypeOK /\ Separate /\ Aged /\ InTurn /\ Noticed /\ WatchKept
  BY DEF WInv
<1>1. TypeOK'
  BY Numbers, QueuedTail DEF TypeOK
<1>2. Separate'
  BY Numbers DEF TypeOK, Separate, Files, Objects
<1>3. Aged'
  BY Numbers DEF TypeOK, Aged
<1>4. InTurn'
  BY Numbers, QueuedTail DEF TypeOK, Separate, Aged, InTurn, Files, Objects
<1>5. Noticed'
  BY Numbers, QueuedTail DEF TypeOK, Separate, Aged, InTurn, Noticed, Files, Objects
<1>6. WatchKept'
  BY Numbers, QueuedTail DEF TypeOK, Separate, WatchKept, Files, Objects
<1>7. QED BY <1>1, <1>2, <1>3, <1>4, <1>5, <1>6 DEF WInv

LEMMA EventContentInv == WInv /\ EventContent => WInv'
<1> SUFFICES ASSUME WInv, EventContent PROVE WInv'
  OBVIOUS
<1> USE DEF EventContent, LoopRuns, Kinds, outside, Missing, Empty, Bad
<1> TypeOK /\ Separate /\ Aged /\ InTurn /\ Noticed /\ WatchKept
  BY DEF WInv
<1>1. TypeOK'
  BY Numbers, QueuedTail, ReadType DEF TypeOK
<1>2. Separate'
  BY Numbers, ReadType DEF TypeOK, Separate, Files, Objects
<1>3. Aged'
  BY Numbers, ReadType DEF TypeOK, Aged
<1>4. InTurn'
  BY Numbers, QueuedTail, ReadType DEF TypeOK, Separate, Aged, InTurn, Files, Objects
<1>5. Noticed'
  BY Numbers, QueuedTail, ReadType DEF TypeOK, Separate, Aged, InTurn, Noticed, Files, Objects
<1>6. WatchKept'
  BY Numbers, QueuedTail, ReadType DEF TypeOK, Separate, WatchKept, Files, Objects
<1>7. QED BY <1>1, <1>2, <1>3, <1>4, <1>5, <1>6 DEF WInv

LEMMA PollInv == WInv /\ Poll => WInv'
<1> SUFFICES ASSUME WInv, Poll PROVE WInv'
  OBVIOUS
<1> USE DEF Poll, LoopRuns, outside, Missing, Empty, Bad
<1> TypeOK /\ Separate /\ Aged /\ InTurn /\ Noticed /\ WatchKept
  BY DEF WInv
<1>1. TypeOK'
  BY Numbers, ReadType DEF TypeOK
<1>2. Separate'
  BY Numbers, ReadType DEF TypeOK, Separate, Files, Objects
<1>3. Aged'
  BY Numbers, ReadType DEF TypeOK, Aged
<1>4. InTurn'
  BY Numbers, ReadType DEF TypeOK, Separate, Aged, InTurn, Files, Objects
<1>5. Noticed'
  BY Numbers, ReadType DEF TypeOK, Separate, Aged, InTurn, Noticed, Files, Objects
<1>6. WatchKept'
  BY Numbers, ReadType DEF TypeOK, Separate, WatchKept, Files, Objects
<1>7. QED BY <1>1, <1>2, <1>3, <1>4, <1>5, <1>6 DEF WInv

LEMMA FetchFailsInv == WInv /\ FetchFails => WInv'
<1> SUFFICES ASSUME WInv, FetchFails PROVE WInv'
  OBVIOUS
<1>1. TypeOK'
  BY Numbers DEF WInv, TypeOK, FetchFails, outside
<1>2. QED BY <1>1 DEF WInv, FetchFails, outside, Separate, Aged, InTurn, Noticed, WatchKept

LEMMA ReconcileNothingInv == WInv /\ ReconcileNothing => WInv'
<1> SUFFICES ASSUME WInv, ReconcileNothing PROVE WInv'
  OBVIOUS
<1> USE DEF ReconcileNothing, LoopRuns, Discarded, outside, Missing, Empty, Bad
<1> TypeOK /\ Separate /\ Aged /\ InTurn /\ Noticed /\ WatchKept
  BY DEF WInv
<1>1. TypeOK'
  BY Numbers DEF TypeOK
<1>2. Separate'
  BY Numbers DEF TypeOK, Separate, Files, Objects
<1>3. Aged'
  BY Numbers DEF TypeOK, Aged
<1>4. InTurn'
  BY Numbers DEF TypeOK, Separate, Aged, InTurn, Files, Objects
<1>5. Noticed'
  BY Numbers DEF TypeOK, Separate, Aged, InTurn, Noticed, Files, Objects
<1>6. WatchKept'
  BY Numbers DEF TypeOK, Separate, WatchKept, Files, Objects
<1>7. QED BY <1>1, <1>2, <1>3, <1>4, <1>5, <1>6 DEF WInv

LEMMA ReconcileFetchInv == WInv /\ ReconcileFetch => WInv'
<1> SUFFICES ASSUME WInv, ReconcileFetch PROVE WInv'
  OBVIOUS
<1> USE DEF ReconcileFetch, LoopRuns, Discarded, outside, Missing, Empty, Bad
<1> TypeOK /\ Separate /\ Aged /\ InTurn /\ Noticed /\ WatchKept
  BY DEF WInv
<1>1. TypeOK'
  BY Numbers DEF TypeOK
<1>2. Separate'
  BY Numbers DEF TypeOK, Separate, Files, Objects
<1>3. Aged'
  BY Numbers DEF TypeOK, Aged
<1>4. InTurn'
  BY Numbers DEF TypeOK, Separate, Aged, InTurn, Files, Objects
<1>5. Noticed'
  BY Numbers DEF TypeOK, Separate, Aged, InTurn, Noticed, Files, Objects
<1>6. WatchKept'
  BY Numbers DEF TypeOK, Separate, WatchKept, Files, Objects
<1>7. QED BY <1>1, <1>2, <1>3, <1>4, <1>5, <1>6 DEF WInv

LEMMA UpdateInv == WInv /\ Update => WInv'
<1> SUFFICES ASSUME WInv, Update PROVE WInv'
  OBVIOUS
<1> USE DEF Update, Requeues, Parses, outside, Missing, Empty, Bad
<1> TypeOK /\ Separate /\ Aged /\ InTurn /\ Noticed /\ WatchKept
  BY DEF WInv
<1>1. TypeOK'
  BY Numbers, Applies DEF TypeOK
<1>2. Separate'
  BY Numbers, Applies DEF TypeOK, Separate, Files, Objects
<1>3. Aged'
  BY Numbers, Applies DEF TypeOK, Aged
<1>4. InTurn'
  BY Numbers, Applies DEF TypeOK, Separate, Aged, InTurn, Files, Objects
<1>5. Noticed'
  BY Numbers, Applies DEF TypeOK, Separate, Aged, InTurn, Noticed, Files, Objects
<1>6. WatchKept'
  BY Numbers, Applies DEF TypeOK, Separate, WatchKept, Files, Objects
<1>7. QED BY <1>1, <1>2, <1>3, <1>4, <1>5, <1>6 DEF WInv

(* The source changes *)

\* Every change of a watched file is an event, and so is the loss of the watch.
LEMMA ChangeInv ==
    ASSUME WInv, NEW c \in {Missing, Empty, Bad, changes + 1}, NEW es \in Seq(Kinds),
           NEW keepsWatch \in BOOLEAN, Change(c, es, keepsWatch), changes < MaxChanges,
           c = Missing => ~keepsWatch,
           method = "watcher" /\ watched => Queued("content", es),
           keepsWatch \/ c = Missing \/ source = Missing \/ Queued("remove", es)
    PROVE  WInv'
<1> USE DEF Change, Missing, Empty, Bad
<1> TypeOK /\ Separate /\ Aged /\ InTurn /\ Noticed /\ WatchKept
  BY DEF WInv
<1>0. /\ events \in Seq(Kinds) /\ events \o es \in Seq(Kinds)
      /\ \A e \in Kinds : Queued(e, events) \/ Queued(e, es) => Queued(e, events \o es)
  BY QueuedConcat DEF TypeOK, Kinds
<1>1. TypeOK'
  <2>1. source' \in Contents /\ changes' \in 0..MaxChanges
    BY Numbers DEF TypeOK
  <2>2. events' \in Seq(Kinds)
    BY <1>0 DEF Notified
  <2>3. watched' \in BOOLEAN /\ missed' \in BOOLEAN /\ removed' \in BOOLEAN /\ dirty' \in BOOLEAN
    BY DEF TypeOK
  <2>4. QED BY <2>1, <2>2, <2>3 DEF TypeOK, Kinds
<1>2. Separate'
  BY Numbers DEF TypeOK, Separate, Files, Objects
<1>3. Aged'
  BY Numbers DEF TypeOK, Aged
<1>4. InTurn'
  BY DEF InTurn
<1>5. Noticed'
  BY <1>0, Numbers DEF TypeOK, Separate, Aged, Noticed, Notified, Missable, Files, Objects, Kinds
<1>6. WatchKept'
  BY <1>0 DEF TypeOK, WatchKept, Notified, Files, Kinds
<1>7. QED BY <1>1, <1>2, <1>3, <1>4, <1>5, <1>6 DEF WInv

LEMMA SourceStepInv == WInv /\ SourceStep => WInv'
<1> SUFFICES ASSUME WInv, SourceStep PROVE WInv'
  OBVIOUS
<1>1. CASE WriteInPlace
  <2>1. PICK c \in {Empty, Bad, changes + 1} : Change(c, <<"content">>, TRUE)
    BY <1>1 DEF WriteInPlace
  <2>2. c \in {Missing, Empty, Bad, changes + 1} /\ c # Missing /\ changes < MaxChanges
    BY <1>1, <2>1 DEF WriteInPlace, WInv, TypeOK, Missing, Empty, Bad
  <2>3. QED BY <2>1, <2>2, Literals, ChangeInv
<1>2. CASE Replace
  BY <1>2, Literals, ChangeInv DEF Replace
<1>3. CASE Remove
  BY <1>3, Literals, ChangeInv DEF Remove
<1>4. CASE Create
  <2>1. ~(method = "watcher" /\ watched)
    BY <1>4 DEF Create, WInv, Separate
  <2>2. QED BY <1>4, <2>1, Literals, ChangeInv DEF Create
<1>5. QED BY <1>1, <1>2, <1>3, <1>4 DEF SourceStep

-----------------------------------------------------------------------------
(* The invariant *)

LEMMA InitWInv == Init => WInv
<1> SUFFICES ASSUME Init PROVE WInv
  OBVIOUS
<1>1. /\ shared \in BOOLEAN /\ dirty \in BOOLEAN
      /\ dirty <=> method \in Objects
  <2>1. shared \in BOOLEAN
    BY DEF Init
  <2>2. dirty = (method \in Objects)
    BY DEF Init
  <2>3. (method \in Objects) \in BOOLEAN
    OBVIOUS
  <2>4. QED BY <2>1, <2>2, <2>3
<1> USE DEF Init, Missing, Empty, Bad
<1>2. TypeOK
  <2>1. method \in Files \cup Objects
    BY ConfigAssumption
  <2>2. source \in Contents /\ held \in Contents /\ got \in Contents /\ cached \in Contents
    BY Numbers
  <2>3. applied \in Contents \ {Bad, Missing} /\ changes \in 0..MaxChanges /\ faults \in 0..MaxFaults
    BY Numbers
  <2>4. events \in Seq({"content", "remove"})
    BY Literals DEF Kinds
  <2>5. QED BY <1>1, <2>1, <2>2, <2>3, <2>4 DEF TypeOK
<1>3. Separate
  BY <1>1 DEF Separate, Files, Objects
<1>4. InTurn /\ Noticed /\ WatchKept
  BY <1>1 DEF InTurn, Noticed, WatchKept, Files
<1>5. Aged
  BY DEF Aged
<1>6. QED BY <1>2, <1>3, <1>4, <1>5 DEF WInv

LEMMA StutterWInv == WInv /\ UNCHANGED vars => WInv'
BY DEF WInv, TypeOK, Separate, Aged, InTurn, Noticed, WatchKept, vars, outside

LEMMA NextWInv == WInv /\ [Next]_vars => WInv'
<1> SUFFICES ASSUME WInv, [Next]_vars PROVE WInv'
  OBVIOUS
<1>1. CASE SourceStep
  BY <1>1, SourceStepInv
<1>2. CASE StartStep
  BY <1>2, AddRegistersInv, AddWatchInv, AddCacheInv, GetContentInv, FirstUpdateInv
     DEF StartStep
<1>3. CASE LoopStep
  BY <1>3, EventRemoveInv, EventContentInv, PollInv, FetchFailsInv, ReconcileNothingInv,
     ReconcileFetchInv, UpdateInv DEF LoopStep
<1>4. CASE UNCHANGED vars
  BY <1>4, StutterWInv
<1>5. QED BY <1>1, <1>2, <1>3, <1>4 DEF Next

LEMMA Invariance == Spec => []WInv
<1>1. Init => WInv
  BY InitWInv
<1>2. WInv /\ [Next]_vars => WInv'
  BY NextWInv
<1>3. QED BY <1>1, <1>2, PTL DEF Spec

(* The theorems *)

\* Type correctness; what is applied was valid.
THEOREM ConfigTypeCorrect == Spec => []TypeOK
<1>1. WInv => TypeOK
  BY DEF WInv
<1>2. QED BY <1>1, Invariance, PTL

\* With nothing left to do, a valid source whose changes were not missed is
\* what is applied: each change leaves an event, a dirty object, or a
\* difference from what the poller has cached, until it is read.
THEOREM QuietMeansCurrent == Spec => []QuietIsCurrent
<1>1. WInv => QuietIsCurrent
  <2> SUFFICES ASSUME WInv, Quiet, ~shared, ~missed, source > Empty PROVE applied = source
    BY DEF QuietIsCurrent
  <2>1. main = "run" /\ loop = "idle" /\ events = <<>> /\ ~dirty /\ source > 0
    BY DEF Quiet, Empty
  <2>2. CASE method \in Objects
    BY <2>1, <2>2 DEF WInv, Noticed
  <2>3. CASE method \in Files
    <3>1. cached = source
      BY <2>1, <2>3, Literals, ReadType
         DEF WInv, Noticed, Quiet, Files
    <3>2. QED BY <2>1, <2>3, <3>1 DEF WInv, InTurn
  <2>4. QED BY <2>2, <2>3 DEF WInv, TypeOK
<1>2. QED BY <1>1, Invariance, PTL

\* A file that is written and replaced, and never missing, stays watched:
\* a lost watch has left the event that watches the path again.
THEOREM FileStaysWatched == Spec => []StaysWatched
<1>1. WInv => StaysWatched
  BY Literals DEF WInv, WatchKept, StaysWatched, Quiet
<1>2. QED BY <1>1, Invariance, PTL

\* One goroutine at a time applies contents in the order they were written:
\* what it has read is not older than what is applied.
THEOREM OnlyForward == Spec => NeverGoesBack
<1> DEFINE Forward == \/ applied' >= applied
                      \/ method = "configmap" /\ applied' = Empty
<1>1. WInv /\ [Next]_vars => (~shared => Forward)
  <2> SUFFICES ASSUME WInv, [Next]_vars, ~shared PROVE Forward
    OBVIOUS
  <2>0. /\ TypeOK /\ applied \in Int /\ applied >= 0
        /\ held \in Contents /\ got \in Contents /\ Contents \subseteq Int
    BY Numbers DEF WInv, TypeOK, Contents, Missing, Bad, Empty
  <2>1. CASE FirstUpdate
    <3>1. applied = 0 /\ applied' \in Contents \ {Bad, Missing}
      BY <2>0, <2>1, Applies DEF FirstUpdate, AfterFirst, WInv, InTurn, Empty
    <3>2. QED BY <3>1, Numbers DEF Contents, Missing, Bad, Empty
  <2>2. CASE Update
    <3>1. /\ applied' \in {applied, got} /\ applied' \in Contents \ {Bad, Missing}
          /\ got = Empty /\ applied' = got => applied = got \/ method = "configmap"
      BY <2>0, <2>2, Applies DEF Update
    <3>2. CASE applied' = applied
      BY <2>0, <3>2
    <3>3. CASE applied' = got /\ got > 0
      BY <2>0, <2>2, <3>3 DEF Update, WInv, InTurn
    <3>4. CASE applied' = got /\ got = Empty
      BY <2>0, <3>1, <3>4
    <3>5. QED BY <2>0, <3>1, <3>2, <3>3, <3>4, Numbers DEF Contents, Missing, Bad, Empty
  <2>3. CASE ~FirstUpdate /\ ~Update
    <3>1. applied' = applied
      BY <2>3 DEF Next, SourceStep, WriteInPlace, Replace, Remove, Create, Change, StartStep,
         AddRegisters, AddWatch, AddCache, GetContent, LoopStep, EventRemove, EventContent,
         Poll, FetchFails, ReconcileNothing, ReconcileFetch, vars
    <3>2. QED BY <2>0, <3>1
  <2>4. QED BY <2>1, <2>2, <2>3
<1>2. QED BY <1>1, Invariance, PTL DEF Spec, NeverGoesBack
=============================================================================
