------------------------- MODULE KafkaBackendProofs -------------------------
(***************************************************************************)
(* What KafkaBackend guarantees for every number of triggers,              *)
(* subscriptions, records, faults and restarts.                            *)
(***************************************************************************)
EXTENDS KafkaBackend, TLAPS

LivePcs == {"check", "poll", "batch", "commit"}

\* A loop's position: all of a batch is handled before the next poll.
Ordered(r) ==
    /\ r.pc = "none" \/ r.owner \in Names
    /\ r.pc = "batch" => r.next < r.head
    /\ r.pc = "check" => r.next = r.head \/ (r.next = 0 /\ r.head = NoOffset)
    /\ r.pc = "poll" => r.next = r.head
    /\ r.pc = "commit" => r.next <= r.head
    /\ r.pc \in {"poll", "batch", "commit"} => r.head # NoOffset
    /\ r.pc = "none" => r.running = {} /\ r.returned = {}
    /\ r.pc = "check" /\ r.head = NoOffset => r.running = {} /\ r.returned = {}

\* A loop that has completed its replay has met a record past the end bound.
PastEnd(r) ==
    r.complete /\ r.pc \in LivePcs => \E k \in Records : k < r.next /\ Exceeds(k, r)

Placed(r) == Ordered(r) /\ PastEnd(r)

\* Loops are in their places, and nothing is ahead of the topic.
Positions ==
    /\ \A s \in Subs :
          /\ Placed(sub[s])
          /\ \A m \in sub[s].running \cup sub[s].returned : m < end
    /\ \A n \in Names : committed[n] <= end

\* A trigger has one loop that was not cancelled, the one the map holds.
OneReader ==
    /\ \A s \in Subs : sub[s].pc # "none" /\ ~sub[s].cancelled => subs[sub[s].owner] = s
    /\ waitFor # None => sub[waitFor].cancelled /\ mutex # "free"
    /\ startPc = "draining" => mutex = "start"

IInv == TypeOK /\ Positions /\ OneReader

-----------------------------------------------------------------------------
(* Types *)

LEMMA Bounds ==
    /\ MaxRecords \in Nat /\ MaxRecords > 0 /\ MaxFaults \in Nat /\ MaxRestarts \in Nat
    /\ Offsets \subseteq Nat /\ Records \subseteq Offsets /\ 0 \in Offsets /\ 0 \in Records
    /\ NoOffset \in Int /\ NoOffset < 0 /\ Dates \subseteq Nat /\ 0 \in Dates
    /\ \A o \in Offsets \cup {NoOffset} : o \in Int
BY KafkaAssumption DEF Offsets, Records, NoOffset, Dates

LEMMA Steps ==
    /\ \A o \in Offsets \cup {NoOffset} : \A e \in Offsets : o <= e => o <= e + 1
    /\ \A o \in Offsets : \A e \in Offsets \cup {NoOffset} :
          o < e => o \in Records /\ o + 1 \in Offsets
BY KafkaAssumption DEF Offsets, Records, NoOffset

LEMMA SubFields ==
    ASSUME TypeOK, NEW s \in Subs
    PROVE  /\ sub[s] \in Subscription
           /\ sub[s].running \in SUBSET Records /\ sub[s].returned \in SUBSET Records
           /\ sub[s].next \in Offsets
           /\ sub[s].start \in Offsets \cup {NoOffset} /\ sub[s].since \in Dates
           /\ sub[s].head \in Offsets \cup {NoOffset} /\ sub[s].head <= end
           /\ sub[s].pc # "none" => sub[s].owner \in Names
<1>1. sub[s] \in Subscription /\ sub[s].head <= end /\ (sub[s].pc = "none" \/ sub[s].owner \in Names)
  BY DEF TypeOK
<1>2. QED BY <1>1 DEF Subscription

LEMMA NoSubType == NoSub \in Subscription /\ Placed(NoSub)
<1>1. NoSub \in Subscription
  BY Bounds, Zenon DEF NoSub, Subscription
<1>2. Placed(NoSub)
  BY DEF NoSub, Placed, Ordered, PastEnd, LivePcs
<1>3. QED BY <1>1, <1>2

\* A loop that goes on keeps the record it has met.
LEMMA PastStays ==
    ASSUME NEW r, NEW q, r.next \in Nat, q.next \in Nat, r.next <= q.next,
           q.endId = r.endId, q.endDate = r.endDate, q.complete = r.complete,
           PastEnd(r), r.pc \in LivePcs
    PROVE  PastEnd(q)
<1> SUFFICES ASSUME q.complete
             PROVE  \E k \in Records : k < q.next /\ Exceeds(k, q)
  BY DEF PastEnd
<1>1. PICK k \in Records : k < r.next /\ Exceeds(k, r)
  BY DEF PastEnd
<1>2. k < q.next
  <2>1. k \in Nat
    BY Bounds
  <2>2. QED BY <1>1, <2>1
<1>3. Exceeds(k, q)
  BY <1>1 DEF Exceeds
<1>4. QED BY <1>2, <1>3

\* The timestamps of the records that loops have met do not change.
LEMMA PlacedKept ==
    ASSUME NEW r, Placed(r), \A k \in Records : k < r.next => stamp'[k] = stamp[k]
    PROVE  Placed(r)'
<1>1. PastEnd(r)'
  BY DEF Placed, PastEnd, Exceeds
<1>2. QED BY <1>1 DEF Placed, Ordered

LEMMA AllPlaced ==
    ASSUME UNCHANGED stamp, \A s \in Subs : Placed(sub'[s])
    PROVE  \A s \in Subs : Placed(sub[s])'
<1> SUFFICES ASSUME NEW s \in Subs PROVE Placed(sub[s])'
  OBVIOUS
<1>1. PICK r : r = sub'[s]
  OBVIOUS
<1>2. Placed(r)'
  BY <1>1, PlacedKept
<1>3. QED BY <1>1, <1>2 DEF Placed, Ordered, PastEnd, Exceeds

LEMMA SetSubValue ==
    ASSUME TypeOK, NEW s \in Subs, NEW r, SetSub(s, r)
    PROVE  sub'[s] = r /\ \A t \in Subs : t # s => sub'[t] = sub[t]
BY DEF SetSub, TypeOK

\* The structure survives a step of one subscription's goroutines.
LEMMA LoopFrame ==
    ASSUME IInv, NEW s \in Subs, NEW r \in Subscription, SetSub(s, r),
           Placed(r), r.head <= end, \A m \in r.running \cup r.returned : m < end,
           r.owner = sub[s].owner, sub[s].pc = "none" <=> r.pc = "none",
           r.cancelled = sub[s].cancelled,
           committed' \in [Names -> Offsets \cup {NoOffset}],
           \A n \in Names : committed'[n] <= end,
           handled' \in [Names -> SUBSET Records], processed' \in [Names -> SUBSET Records],
           origin' \in [Names -> Offsets], faults' \in 0..MaxFaults
    PROVE  IInv'
<1>t. TypeOK /\ Positions /\ OneReader
  BY DEF IInv
<1>1. sub'[s] = r /\ \A t \in Subs : t # s => sub'[t] = sub[t]
  BY <1>t, SetSubValue
<1>2. UNCHANGED <<end, bad, stamp, startPc, producing, mutex, waitFor, subs, wg, restarts, dropped>>
  BY DEF SetSub, cluster, object
<1>3. sub' \in [Subs -> Subscription]
  BY <1>t DEF SetSub, TypeOK
<1>4. TypeOK'
  <2>1. \A t \in Subs : /\ sub'[t].pc = "none" \/ sub'[t].owner \in Names
                        /\ sub'[t].pc = "batch" => sub'[t].next < sub'[t].head
                        /\ sub'[t].head <= end
    BY <1>t, <1>1 DEF TypeOK, Placed, Ordered
  <2>2. QED BY <1>t, <1>2, <1>3, <2>1 DEF TypeOK
<1>5. Positions'
  <2>1. \A t \in Subs : \A m \in sub'[t].running \cup sub'[t].returned : m < end
    BY <1>t, <1>1 DEF Positions
  <2>2. \A t \in Subs : Placed(sub'[t])
    BY <1>t, <1>1 DEF Positions
  <2>3. QED BY <1>2, <2>1, <2>2, AllPlaced DEF Positions
<1>6. OneReader'
  <2>1. waitFor # None => waitFor \in Subs
    BY <1>t DEF TypeOK
  <2>2. QED BY <1>t, <1>1, <1>2, <2>1 DEF OneReader
<1>7. QED BY <1>4, <1>5, <1>6 DEF IInv

LEMMA InitIInv == Init => IInv
<1> SUFFICES ASSUME Init PROVE IInv
  OBVIOUS
<1>1. TypeOK
  <2>1. sub \in [Subs -> Subscription] /\ \A s \in Subs : sub[s] = NoSub
    BY NoSubType DEF Init
  <2>2. NoSub.pc = "none" /\ NoSub.head = NoOffset
    BY DEF NoSub
  <2>3. end \in Offsets /\ bad = {} /\ stamp \in [Records -> Dates]
        /\ 0 \in 0..MaxFaults /\ 0 \in 0..MaxRestarts
    BY Bounds DEF Init
  <2>4. committed \in [Names -> Offsets \cup {NoOffset}] /\ origin \in [Names -> Offsets]
    BY Bounds DEF Init
  <2>5. \A s \in Subs : /\ sub[s].pc = "none" \/ sub[s].owner \in Names
                        /\ sub[s].pc = "batch" => sub[s].next < sub[s].head
                        /\ sub[s].head <= end
    BY <2>1, <2>2, Bounds DEF Init
  <2>6. QED BY <2>1, <2>3, <2>4, <2>5 DEF Init, TypeOK
<1>2. Positions
  <2>1. \A s \in Subs : sub[s] = NoSub
    BY DEF Init
  <2>2. NoSub.running = {} /\ NoSub.returned = {}
    BY DEF NoSub
  <2>3. \A n \in Names : committed[n] <= end
    BY Bounds DEF Init
  <2>4. QED BY <2>1, <2>2, <2>3, NoSubType DEF Positions
<1>3. OneReader
  BY DEF Init, OneReader, NoSub
<1>4. QED BY <1>1, <1>2, <1>3 DEF IInv

-----------------------------------------------------------------------------
(* The goroutines of a subscription *)

\* A commit of an offset the topic has.
LEMMA CommitType ==
    ASSUME IInv, NEW s \in Subs, NEW o \in Offsets, o <= end, Commit(s, o)
    PROVE  /\ committed' \in [Names -> Offsets \cup {NoOffset}]
           /\ \A n \in Names : committed'[n] <= end
           /\ faults' \in 0..MaxFaults
<1>1. TypeOK /\ \A n \in Names : committed[n] <= end
  BY DEF IInv, Positions
<1>2. faults' \in 0..MaxFaults
  BY <1>1, Bounds DEF Commit, TypeOK
<1>3. committed' = committed \/ committed' = [committed EXCEPT ![sub[s].owner] = o]
  BY DEF Commit
<1>4. QED BY <1>1, <1>2, <1>3 DEF TypeOK

LEMMA PositionType ==
    ASSUME IInv, NEW s \in Subs, sub[s].pc = "check", NEW p \in PollFrom(s)
    PROVE  p \in Offsets /\ p <= end /\ sub[s].next <= p
<1>1. /\ sub[s].owner \in Names /\ sub[s].start \in Offsets \cup {NoOffset}
      /\ sub[s].head \in Offsets \cup {NoOffset} /\ sub[s].head <= end
      /\ Ordered(sub[s])
  BY SubFields DEF IInv, Positions, Placed
<1>2. /\ committed[sub[s].owner] \in Offsets \cup {NoOffset} /\ end \in Offsets
      /\ committed[sub[s].owner] <= end
  BY <1>1 DEF IInv, TypeOK, Positions
<1>3. ASSUME sub[s].start # NoOffset
      PROVE  Nearest(sub[s].start) \in Offsets /\ Nearest(sub[s].start) <= end
  BY <1>1, <1>2, <1>3, Bounds DEF Nearest
<1>4. \A o \in FirstSince(sub[s].since) : o \in Offsets /\ o <= end
  <2>1. end \in Nat /\ end <= MaxRecords
    BY <1>2, Bounds DEF Offsets
  <2>2. QED BY <2>1, Bounds DEF FirstSince, Offsets
<1>5. p \in Offsets /\ p <= end
  BY <1>1, <1>2, <1>3, <1>4 DEF PollFrom
<1>6. sub[s].next <= p
  <2>1. CASE sub[s].head # NoOffset
    BY <1>1, <1>5, <2>1, Bounds DEF PollFrom, Ordered
  <2>2. CASE sub[s].head = NoOffset
    BY <1>1, <1>5, <2>2, Bounds DEF Ordered
  <2>3. QED BY <2>1, <2>2
<1>7. QED BY <1>5, <1>6

LEMMA LoopIInv ==
    ASSUME IInv, NEW s \in Subs, LoopStep(s) \/ WatchDone(s)
    PROVE  IInv'
<1> DEFINE x == sub[s]
<1>t. /\ TypeOK /\ x \in Subscription /\ Placed(x) /\ Ordered(x) /\ PastEnd(x)
      /\ x.running \in SUBSET Records /\ x.returned \in SUBSET Records
      /\ x.next \in Offsets /\ x.head \in Offsets \cup {NoOffset} /\ x.head <= end
      /\ \A m \in x.running \cup x.returned : m < end
      /\ end \in Offsets
  BY SubFields DEF IInv, Positions, TypeOK, Placed
<1>n. x.next \in Nat /\ x.head \in Int /\ end \in Nat
  BY <1>t, Bounds
<1>0. /\ committed \in [Names -> Offsets \cup {NoOffset}]
      /\ \A n \in Names : committed[n] <= end
      /\ handled \in [Names -> SUBSET Records] /\ processed \in [Names -> SUBSET Records]
      /\ origin \in [Names -> Offsets] /\ faults \in 0..MaxFaults
  BY DEF IInv, TypeOK, Positions
\* Steps that move no offset but the loop's own.
<1>1. ASSUME NEW r \in Subscription, SetSub(s, r), Placed(r), r.head <= end,
             r.running = x.running, r.returned = x.returned,
             r.owner = x.owner, r.cancelled = x.cancelled, x.pc # "none", r.pc # "none",
             UNCHANGED <<committed, handled, processed, origin>>, faults' \in 0..MaxFaults
      PROVE  IInv'
  BY <1>t, <1>0, <1>1, LoopFrame
<1>2. CASE WatchDone(s)
  <2> DEFINE r == [x EXCEPT !.watching = FALSE, !.exitLoop = TRUE]
  <2>1. /\ r \in Subscription /\ r.pc = x.pc /\ r.owner = x.owner /\ r.head = x.head
        /\ r.next = x.next /\ r.running = x.running /\ r.returned = x.returned
        /\ r.complete = x.complete /\ r.exitLoop /\ r.cancelled = x.cancelled
        /\ r.endId = x.endId /\ r.endDate = x.endDate
    BY <1>t DEF Subscription
  <2>2. SetSub(s, r) /\ UNCHANGED <<committed, handled, processed, origin, faults>>
    BY <1>2 DEF WatchDone, Keep
  <2> HIDE DEF r
  <2>3. Placed(r)
    <3>1. Ordered(r)
      BY <1>t, <2>1 DEF Ordered
    <3>2. PastEnd(r)
      <4>1. CASE x.pc \in LivePcs
        BY <1>n, <1>t, <2>1, <4>1, PastStays
      <4>2. CASE x.pc \notin LivePcs
        BY <2>1, <4>2 DEF PastEnd
      <4>3. QED BY <4>1, <4>2
    <3>3. QED BY <3>1, <3>2 DEF Placed
  <2>4. QED BY <1>t, <1>0, <2>1, <2>2, <2>3, LoopFrame
<1>3. CASE LoopExit(s)
  <2> DEFINE r == [x EXCEPT !.pc = "stopped", !.head = NoOffset, !.next = 0,
                            !.start = NoOffset, !.since = 0,
                            !.endId = 0, !.endDate = NoOffset]
  <2>1. /\ r \in Subscription /\ r.pc = "stopped" /\ r.owner = x.owner /\ r.head = NoOffset
        /\ r.running = x.running /\ r.returned = x.returned /\ r.cancelled = x.cancelled
    BY <1>t, Bounds DEF Subscription
  <2>2. SetSub(s, r) /\ UNCHANGED <<committed, handled, processed, origin, faults>>
        /\ x.pc = "check"
    BY <1>3 DEF LoopExit, Keep
  <2> HIDE DEF r
  <2>3. x.owner \in Names /\ r.head <= end
    BY <1>t, <2>1, <2>2, Bounds, SubFields
  <2>4. Placed(r)
    BY <2>1, <2>3 DEF Placed, Ordered, PastEnd, LivePcs
  <2>5. QED BY <1>0, <1>1, <2>1, <2>2, <2>3, <2>4
<1>4. CASE IssuePoll(s)
  <2>1. PICK p \in PollFrom(s) :
          /\ SetSub(s, [x EXCEPT !.pc = "poll", !.head = p, !.next = p,
                                 !.start = NoOffset, !.since = 0])
          /\ origin' = IF Begins(s) THEN [origin EXCEPT ![x.owner] = p] ELSE origin
    BY <1>4 DEF IssuePoll
  <2> DEFINE r == [x EXCEPT !.pc = "poll", !.head = p, !.next = p,
                            !.start = NoOffset, !.since = 0]
  <2>2. x.pc = "check" /\ UNCHANGED <<committed, handled, processed, faults>>
    BY <1>4 DEF IssuePoll
  <2>3. p \in Offsets /\ p <= end /\ x.next <= p
    BY <2>2, PositionType
  <2>4. /\ r \in Subscription /\ r.pc = "poll" /\ r.owner = x.owner /\ r.head = p /\ r.next = p
        /\ r.running = x.running /\ r.returned = x.returned /\ r.cancelled = x.cancelled
        /\ r.complete = x.complete /\ r.endId = x.endId /\ r.endDate = x.endDate
    BY <1>t, <2>3, Bounds DEF Subscription
  <2> HIDE DEF r
  <2>5. x.owner \in Names /\ p \in Nat
    BY <1>t, <2>2, <2>3, SubFields, Bounds
  <2>6. Placed(r)
    <3>1. Ordered(r)
      BY <2>4, <2>5 DEF Ordered, NoOffset
    <3>2. PastEnd(r)
      BY <1>n, <1>t, <2>2, <2>3, <2>4, <2>5, PastStays DEF LivePcs
    <3>3. QED BY <3>1, <3>2 DEF Placed
  <2>7. origin' \in [Names -> Offsets]
    BY <1>0, <2>1, <2>3
  <2>8. SetSub(s, r)
    BY <2>1 DEF r
  <2>9. QED BY <1>t, <1>0, <2>2, <2>3, <2>4, <2>6, <2>7, <2>8, LoopFrame
<1>5. ASSUME NEW h \in Offsets, x.head <= h, h <= end,
             NEW failed \in BOOLEAN, Fetched(s, h, failed), faults' \in 0..MaxFaults
      PROVE  IInv'
  <2> DEFINE to == IF x.head < h THEN "batch" ELSE "check"
             exit == IF failed THEN TRUE ELSE x.exitLoop
             r == [x EXCEPT !.pc = to, !.head = h, !.exitLoop = exit]
  <2>1. to \in {"batch", "check"} /\ exit \in BOOLEAN
    BY <1>t DEF Subscription
  <2>2. /\ r \in Subscription /\ r.pc = to /\ r.owner = x.owner /\ r.head = h
        /\ r.next = x.next /\ r.complete = x.complete
        /\ r.running = x.running /\ r.returned = x.returned /\ r.cancelled = x.cancelled
        /\ r.endId = x.endId /\ r.endDate = x.endDate
    BY <1>t, <2>1 DEF Subscription
  <2>3. /\ SetSub(s, r) /\ UNCHANGED <<committed, handled, processed, origin>>
        /\ x.pc = "poll"
    BY <1>5 DEF Fetched, ExitAfterError
  <2> HIDE DEF r
  <2>4. x.owner \in Names /\ x.next = x.head /\ h \in Nat /\ x.head # NoOffset
    BY <1>t, <2>3, SubFields, Bounds DEF Ordered
  <2>5. Placed(r)
    <3>1. to = "batch" => x.next < h
      BY <2>4
    <3>2. to = "check" => x.next = h
      BY <1>n, <1>5, <2>4
    <3> HIDE DEF to
    <3>3. Ordered(r)
      BY <1>n, <2>1, <2>2, <2>4, <3>1, <3>2 DEF Ordered, NoOffset
    <3>4. PastEnd(r)
      BY <1>n, <1>t, <2>2, <2>3, PastStays DEF LivePcs
    <3>5. QED BY <3>3, <3>4 DEF Placed
  <2>6. x.pc # "none" /\ r.pc # "none"
    BY <2>1, <2>2, <2>3
  <2>7. QED BY <1>t, <1>1, <1>5, <2>2, <2>3, <2>5, <2>6
<1>6. CASE Poll(s) \/ PollCancelled(s) \/ PollFails(s)
  <2>1. CASE Poll(s)
    <3>1. PICK h \in Offsets : x.head < h /\ h <= end /\ Fetched(s, h, FALSE)
      BY <2>1 DEF Poll
    <3>2. x.head <= h /\ faults' \in 0..MaxFaults
      BY <1>n, <1>0, <2>1, <3>1, Bounds DEF Poll
    <3>3. QED BY <1>5, <3>1, <3>2
  <2>2. CASE PollCancelled(s)
    <3>1. Fetched(s, x.head, TRUE) /\ faults' \in 0..MaxFaults
      BY <1>0, <2>2 DEF PollCancelled
    <3>2. PICK h \in Offsets : h = x.head
      BY <1>t, <3>1 DEF Fetched, Ordered
    <3>3. Fetched(s, h, TRUE)
      BY <3>1, <3>2, Zenon
    <3>4. x.head <= h /\ h <= end
      BY <1>n, <1>t, <3>2
    <3>5. QED BY <1>5, <3>1, <3>3, <3>4
  <2>3. CASE PollFails(s)
    <3>1. PICK h \in Offsets : x.head <= h /\ h <= end /\ Fetched(s, h, TRUE)
      BY <2>3 DEF PollFails
    <3>2. faults' \in 0..MaxFaults
      BY <1>0, <2>3, Bounds DEF PollFails
    <3>3. QED BY <1>5, <3>1, <3>2
  <2>4. QED BY <1>6, <2>1, <2>2, <2>3
<1>7. CASE CommitUncommittedOffsets(s)
  <2> DEFINE to == IF x.next < x.head THEN "batch" ELSE "check"
             r == [x EXCEPT !.pc = to]
  <2>1. to \in {"batch", "check"}
    OBVIOUS
  <2>2. /\ r \in Subscription /\ r.pc = to /\ r.owner = x.owner /\ r.head = x.head
        /\ r.next = x.next /\ r.complete = x.complete /\ r.exitLoop = x.exitLoop
        /\ r.running = x.running /\ r.returned = x.returned /\ r.cancelled = x.cancelled
        /\ r.endId = x.endId /\ r.endDate = x.endDate
    BY <1>t, <2>1 DEF Subscription
  <2>3. /\ SetSub(s, r) /\ UNCHANGED <<handled, processed, origin>>
        /\ x.pc = "commit" /\ Commit(s, x.head)
    BY <1>7 DEF CommitUncommittedOffsets, Uncommitted
  <2> HIDE DEF r
  <2>4. x.owner \in Names /\ x.head \in Offsets
    BY <1>t, <2>3, SubFields DEF Ordered
  <2>5. Placed(r)
    <3>1. to = "batch" => x.next < x.head
      OBVIOUS
    <3>2. to = "check" => x.next = x.head
      BY <1>n, <1>t, <2>3 DEF Ordered
    <3> HIDE DEF to
    <3>3. Ordered(r)
      BY <1>n, <2>1, <2>2, <2>4, <3>1, <3>2, Bounds DEF Ordered
    <3>4. PastEnd(r)
      BY <1>n, <1>t, <2>2, <2>3, PastStays DEF LivePcs
    <3>5. QED BY <3>3, <3>4 DEF Placed
  <2>6. /\ committed' \in [Names -> Offsets \cup {NoOffset}]
        /\ \A n \in Names : committed'[n] <= end
        /\ faults' \in 0..MaxFaults
    BY <1>t, <2>3, <2>4, CommitType
  <2>7. x.pc # "none" /\ r.pc # "none" /\ r.head <= end
    BY <1>t, <2>1, <2>2, <2>3
  <2>8. QED BY <1>t, <1>0, <2>2, <2>3, <2>5, <2>6, <2>7, LoopFrame
<1>8. CASE HandleRecord(s)
  <2> DEFINE m == x.next
             past == Exceeds(m, x)
             bounded == x.endDate # NoOffset
             exit == IF bounded THEN FALSE ELSE x.exitLoop
             q == [x EXCEPT !.pc = "commit", !.next = m + 1]
             c == [q EXCEPT !.exitLoop = TRUE, !.complete = TRUE]
             d == [q EXCEPT !.exitLoop = exit, !.running = @ \cup {m}]
  <2>1. /\ x.pc = "batch" /\ m < x.head /\ x.owner \in Names
        /\ m \in Records /\ m < end /\ m + 1 \in Offsets /\ x.head # NoOffset
        /\ m + 1 <= x.head /\ m + 1 \in Nat /\ m <= m + 1
    <3>1. x.pc = "batch"
      BY <1>8 DEF HandleRecord
    <3>2. m < x.head /\ x.owner \in Names /\ x.head # NoOffset
      BY <1>t, <3>1, SubFields DEF Ordered
    <3>3. QED BY <1>n, <1>t, <3>1, <3>2, Bounds DEF Offsets, Records
  <2>2. /\ q \in Subscription /\ q.pc = "commit" /\ q.owner = x.owner /\ q.head = x.head
        /\ q.next = m + 1 /\ q.complete = x.complete /\ q.exitLoop = x.exitLoop
        /\ q.running = x.running /\ q.returned = x.returned /\ q.cancelled = x.cancelled
        /\ q.endId = x.endId /\ q.endDate = x.endDate
    BY <1>t, <2>1 DEF Subscription
  <2>3. \/ SetSub(s, q)
        \/ past /\ SetSub(s, c)
        \/ ~past /\ SetSub(s, d)
    BY <1>8 DEF HandleRecord
  <2>4. /\ handled' = [handled EXCEPT ![x.owner] = @ \cup {m}]
        /\ UNCHANGED <<committed, processed, faults, origin>>
    BY <1>8 DEF HandleRecord
  <2>5. exit \in BOOLEAN
    BY <1>t DEF Subscription
  <2> HIDE DEF q, exit
  <2>6. /\ c \in Subscription /\ c.pc = "commit" /\ c.owner = x.owner /\ c.head = x.head
        /\ c.next = m + 1 /\ c.complete /\ c.exitLoop
        /\ c.running = x.running /\ c.returned = x.returned /\ c.cancelled = x.cancelled
        /\ c.endId = x.endId /\ c.endDate = x.endDate
    BY <2>2 DEF Subscription
  <2>7. /\ d \in Subscription /\ d.pc = "commit" /\ d.owner = x.owner /\ d.head = x.head
        /\ d.next = m + 1 /\ d.complete = x.complete
        /\ d.running = x.running \cup {m} /\ d.returned = x.returned
        /\ d.cancelled = x.cancelled
        /\ d.endId = x.endId /\ d.endDate = x.endDate
    <3>1. q.running \cup {m} \in SUBSET Records
      BY <1>t, <2>1, <2>2
    <3>2. QED BY <2>2, <2>5, <3>1 DEF Subscription
  <2> HIDE DEF c, d
  <2>8. Placed(q)
    <3>1. Ordered(q)
      BY <2>1, <2>2 DEF Ordered
    <3>2. PastEnd(q)
      BY <1>n, <1>t, <2>1, <2>2, PastStays DEF LivePcs
    <3>3. QED BY <3>1, <3>2 DEF Placed
  <2>9. ASSUME past
        PROVE  Placed(c)
    <3>1. m < c.next /\ Exceeds(m, c)
      BY <1>n, <2>6, <2>9 DEF Exceeds
    <3>2. PastEnd(c)
      BY <2>1, <3>1 DEF PastEnd
    <3>3. Ordered(c)
      BY <2>1, <2>6 DEF Ordered
    <3>4. QED BY <3>2, <3>3 DEF Placed
  <2>10. Placed(d)
    <3>1. PastEnd(d)
      BY <1>n, <1>t, <2>1, <2>7, PastStays DEF LivePcs
    <3>2. Ordered(d)
      BY <2>1, <2>7 DEF Ordered
    <3>3. QED BY <3>1, <3>2 DEF Placed
  <2>11. handled' \in [Names -> SUBSET Records]
    BY <1>0, <2>1, <2>4
  <2>12. \A e \in d.running \cup d.returned : e < end
    BY <1>t, <2>1, <2>7
  <2>13. /\ \A n \in Names : committed'[n] <= end
         /\ committed' \in [Names -> Offsets \cup {NoOffset}]
         /\ processed' \in [Names -> SUBSET Records]
         /\ origin' \in [Names -> Offsets] /\ faults' \in 0..MaxFaults
    BY <1>0, <2>4
  <2>14. CASE SetSub(s, q)
    BY <1>t, <2>1, <2>2, <2>8, <2>11, <2>13, <2>14, LoopFrame
  <2>15. CASE past /\ SetSub(s, c)
    BY <1>t, <2>1, <2>6, <2>9, <2>11, <2>13, <2>15, LoopFrame
  <2>16. CASE ~past /\ SetSub(s, d)
    BY <1>t, <2>1, <2>7, <2>10, <2>11, <2>12, <2>13, <2>16, LoopFrame
  <2>17. QED BY <2>3, <2>14, <2>15, <2>16
<1>9. QED BY <1>2, <1>3, <1>4, <1>6, <1>7, <1>8 DEF LoopStep
LEMMA DispatchIInv ==
    ASSUME IInv, NEW s \in Subs, NEW m \in Records, DispatchStep(s, m)
    PROVE  IInv'
<1> DEFINE x == sub[s]
           r == [x EXCEPT !.running = @ \ {m}, !.returned = @ \cup {m}]
           q == [x EXCEPT !.returned = @ \ {m}]
<1>t. /\ TypeOK /\ x \in Subscription /\ Placed(x) /\ x.head <= end
      /\ x.running \in SUBSET Records /\ x.returned \in SUBSET Records
      /\ \A k \in x.running \cup x.returned : k < end
  BY SubFields DEF IInv, Positions
<1>0. /\ committed \in [Names -> Offsets \cup {NoOffset}]
      /\ \A n \in Names : committed[n] <= end
      /\ handled \in [Names -> SUBSET Records] /\ processed \in [Names -> SUBSET Records]
      /\ origin \in [Names -> Offsets] /\ faults \in 0..MaxFaults
  BY DEF IInv, TypeOK, Positions
<1>1. CASE DispatchReturn(s, m)
  <2>1. /\ r \in Subscription /\ r.pc = x.pc /\ r.owner = x.owner /\ r.head = x.head
        /\ r.next = x.next /\ r.complete = x.complete /\ r.exitLoop = x.exitLoop
        /\ r.running = x.running \ {m} /\ r.returned = x.returned \cup {m}
        /\ r.cancelled = x.cancelled /\ r.endId = x.endId /\ r.endDate = x.endDate
    <3>1. x.running \ {m} \in SUBSET Records /\ x.returned \cup {m} \in SUBSET Records
      BY <1>t
    <3>2. QED BY <1>t, <3>1 DEF Subscription
  <2>2. /\ m \in x.running /\ SetSub(s, r)
        /\ processed' = [processed EXCEPT ![x.owner] = @ \cup {m}]
        /\ UNCHANGED <<committed, handled, faults, origin>>
    BY <1>1 DEF DispatchReturn
  <2> HIDE DEF r
  <2>3. Placed(r)
    BY <1>t, <2>1, <2>2, Zenon DEF Placed, Ordered, PastEnd, Exceeds
  <2>4. processed' \in [Names -> SUBSET Records]
    BY <1>0, <2>2
  <2>5. \A k \in r.running \cup r.returned : k < end
    BY <1>t, <2>1, <2>2
  <2>6. QED BY <1>t, <1>0, <2>1, <2>2, <2>3, <2>4, <2>5, LoopFrame
<1>2. CASE CommitRecord(s, m)
  <2>1. /\ q \in Subscription /\ q.pc = x.pc /\ q.owner = x.owner /\ q.head = x.head
        /\ q.next = x.next /\ q.complete = x.complete /\ q.exitLoop = x.exitLoop
        /\ q.running = x.running /\ q.returned = x.returned \ {m}
        /\ q.cancelled = x.cancelled /\ q.endId = x.endId /\ q.endDate = x.endDate
    <3>1. x.returned \ {m} \in SUBSET Records
      BY <1>t
    <3>2. QED BY <1>t, <3>1 DEF Subscription
  <2>2. /\ m \in x.returned /\ SetSub(s, q) /\ Commit(s, m + 1)
        /\ UNCHANGED <<handled, processed, origin>>
    BY <1>2 DEF CommitRecord, AfterRecord
  <2> HIDE DEF q
  <2>3. Placed(q)
    BY <1>t, <2>1, <2>2, Zenon DEF Placed, Ordered, PastEnd, Exceeds
  <2>4. m + 1 \in Offsets /\ m + 1 <= end
    <3>1. m < end /\ m \in Nat /\ end \in Nat
      BY <1>t, <2>2, Bounds DEF TypeOK
    <3>2. QED BY <3>1, Bounds DEF Records, Offsets
  <2>5. /\ committed' \in [Names -> Offsets \cup {NoOffset}]
        /\ \A n \in Names : committed'[n] <= end
        /\ faults' \in 0..MaxFaults
    BY <2>2, <2>4, CommitType
  <2>6. \A k \in q.running \cup q.returned : k < end
    BY <1>t, <2>1
  <2>7. QED BY <1>t, <1>0, <2>1, <2>2, <2>3, <2>5, <2>6, LoopFrame
<1>3. QED BY <1>1, <1>2 DEF DispatchStep
-----------------------------------------------------------------------------
(* The other steps *)

\* A change of flags the places of the loop do not read.
LEMMA FlagsIInv ==
    ASSUME IInv, NEW s \in Subs, NEW r \in Subscription, sub' = [sub EXCEPT ![s] = r],
           r.pc = sub[s].pc, r.owner = sub[s].owner, r.head = sub[s].head,
           r.next = sub[s].next, r.exitLoop = sub[s].exitLoop, r.complete = sub[s].complete,
           r.running = sub[s].running, r.returned = sub[s].returned,
           r.endId = sub[s].endId, r.endDate = sub[s].endDate,
           UNCHANGED <<end, committed, stamp>>
    PROVE  /\ Positions' /\ sub' \in [Subs -> Subscription]
           /\ \A t \in Subs : /\ sub'[t].pc = "none" \/ sub'[t].owner \in Names
                              /\ sub'[t].pc = "batch" => sub'[t].next < sub'[t].head
                              /\ sub'[t].head <= end'
<1>1. sub'[s] = r /\ \A t \in Subs : t # s => sub'[t] = sub[t]
  BY DEF IInv, TypeOK
<1>2. sub' \in [Subs -> Subscription]
  BY DEF IInv, TypeOK
<1>3. Placed(r)
  <2>1. Placed(sub[s])
    BY DEF IInv, Positions
  <2>2. QED BY <2>1, Zenon DEF Placed, Ordered, PastEnd, Exceeds
<1>4. \A t \in Subs : Placed(sub'[t]) /\ \A m \in sub'[t].running \cup sub'[t].returned : m < end'
  BY <1>1, <1>3 DEF IInv, Positions
<1>5. \A t \in Subs : sub'[t].head <= end'
  BY <1>1 DEF IInv, TypeOK
<1>6. Positions'
  BY <1>4, AllPlaced DEF IInv, Positions
<1>7. QED BY <1>2, <1>4, <1>5, <1>6 DEF Placed, Ordered

LEMMA AppendIInv ==
    ASSUME IInv, Produce \/ ForeignAdd
    PROVE  IInv'
<1>t. TypeOK /\ Positions /\ OneReader
  BY DEF IInv
<1>1. /\ end < MaxRecords /\ end' = end + 1 /\ (bad' = bad \/ bad' = bad \cup {end})
      /\ \E date \in Dates : stamp' = [stamp EXCEPT ![end] = date]
      /\ UNCHANGED <<committed, startPc, producing, mutex, waitFor, subs, wg, sub, handled,
                     processed, dropped, origin, faults, restarts>>
  BY DEF Produce, ForeignAdd, Append, object, history, counts
<1>2. end \in Nat /\ end' \in Offsets /\ bad' \subseteq 0..(end' - 1)
  <2>1. end \in Nat /\ end \in Offsets /\ bad \subseteq 0..(end - 1)
    <3>1. end \in Offsets /\ bad \subseteq 0..(end - 1)
      BY <1>t DEF TypeOK
    <3>2. QED BY <3>1, Bounds
  <2>2. end' \in Offsets
    BY <1>1, <2>1, Bounds DEF Offsets
  <2>3. bad \subseteq 0..end /\ end \in 0..end
    BY <2>1
  <2>4. 0..end = 0..(end' - 1)
    BY <1>1, <2>1
  <2>5. QED BY <1>1, <2>1, <2>2, <2>3, <2>4
<1>3. \A s \in Subs : sub[s].head <= end'
  <2>1. \A s \in Subs : sub[s].head \in Offsets \cup {NoOffset} /\ sub[s].head <= end
    BY <1>t, SubFields
  <2>2. end \in Offsets
    BY <1>t DEF TypeOK
  <2>3. QED BY <1>1, <2>1, <2>2, Steps
<1>4. TypeOK'
  <2>1. stamp' \in [Records -> Dates]
    BY <1>t, <1>1 DEF TypeOK
  <2>2. QED BY <1>t, <1>1, <1>2, <1>3, <2>1 DEF TypeOK
<1>5. Positions'
  <2>1. \A s \in Subs : \A m \in sub[s].running \cup sub[s].returned : m < end'
    <3>1. \A s \in Subs : \A m \in sub[s].running \cup sub[s].returned : m \in Nat /\ m < end
      BY <1>t, SubFields, Bounds DEF Positions
    <3>2. QED BY <1>1, <1>2, <3>1
  <2>2. \A n \in Names : committed[n] <= end'
    <3>1. \A n \in Names : committed[n] \in Offsets \cup {NoOffset} /\ committed[n] <= end
      BY <1>t DEF Positions, TypeOK
    <3>2. end \in Offsets
      BY <1>t DEF TypeOK
    <3>3. QED BY <1>1, <3>1, <3>2, Steps
  <2>3. ASSUME NEW s \in Subs
        PROVE  Placed(sub[s])'
    <3>1. PICK r : r = sub[s]
      OBVIOUS
    <3>2. r.pc \in LivePcs => \A k \in Records : k < r.next => stamp'[k] = stamp[k]
      <4> SUFFICES ASSUME r.pc \in LivePcs, NEW k \in Records, k < r.next
                   PROVE  stamp'[k] = stamp[k]
        OBVIOUS
      <4>1. /\ Ordered(r) /\ r.next \in Nat /\ r.head \in Int /\ r.head <= end /\ k \in Nat
        BY <1>t, <3>1, SubFields, Bounds DEF Positions, Placed
      <4>2. r.next <= end
        BY <1>2, <4>1 DEF Ordered, LivePcs
      <4>3. k # end
        BY <1>2, <4>1, <4>2
      <4>4. QED BY <1>t, <1>1, <4>3 DEF TypeOK
    <3>3. Placed(r)'
      <4>1. CASE r.pc \in LivePcs
        BY <1>t, <3>1, <3>2, <4>1, PlacedKept DEF Positions
      <4>2. CASE r.pc \notin LivePcs
        BY <1>t, <3>1, <4>2 DEF Positions, Placed, Ordered, PastEnd
      <4>3. QED BY <4>1, <4>2
    <3>4. QED BY <1>1, <3>1, <3>3 DEF Placed, Ordered, PastEnd, Exceeds
  <2>4. QED BY <1>t, <1>1, <2>1, <2>2, <2>3 DEF Positions
<1>6. OneReader'
  BY <1>t, <1>1 DEF OneReader
<1>7. QED BY <1>4, <1>5, <1>6 DEF IInv

LEMMA SubscribeIInv ==
    ASSUME IInv, NEW n \in Names, NEW b \in BoundChoices, Subscribe(n, b)
    PROVE  IInv'
<1>t. TypeOK /\ Positions /\ OneReader
  BY DEF IInv
<1>1. PICK s \in Subs, since \in StartDates(b) :
          /\ sub[s].pc = "none" /\ subs' = [subs EXCEPT ![n] = s]
          /\ sub' = [sub EXCEPT ![s] =
                       [NoSub EXCEPT !.owner = n, !.pc = "check", !.watching = TRUE,
                          !.start = StartId(b), !.since = since,
                          !.endId = b.endId, !.endDate = b.endDate]]
  BY DEF Subscribe
<1>2. /\ subs[n] = None /\ wg' = wg + 1
      /\ UNCHANGED <<end, bad, stamp, committed, startPc, producing, mutex, waitFor, handled, processed,
                     dropped, origin, faults, restarts>>
  BY DEF Subscribe, MaySubscribe, cluster, history, counts
<1> DEFINE r == [NoSub EXCEPT !.owner = n, !.pc = "check", !.watching = TRUE,
                          !.start = StartId(b), !.since = since,
                          !.endId = b.endId, !.endDate = b.endDate]
<1>3. /\ StartId(b) \in Offsets \cup {NoOffset} /\ since \in Dates
      /\ b.endId \in Offsets /\ b.endDate \in Dates \cup {NoOffset}
  <2>1. b \in [start : Offsets \cup {NoOffset}, since : Dates \cup {NoOffset},
               endId : Offsets, endDate : Dates \cup {NoOffset}]
    BY KafkaAssumption
  <2>2. QED BY <1>1, <2>1, Bounds DEF StartId, StartDates
<1>4. /\ r \in Subscription /\ r.owner = n /\ r.pc = "check" /\ r.head = NoOffset
      /\ r.next = 0 /\ r.running = {} /\ r.returned = {} /\ ~r.complete /\ ~r.cancelled
  BY <1>3, NoSubType DEF NoSub, Subscription
<1> HIDE DEF r
<1>5. sub'[s] = r /\ \A t \in Subs : t # s => sub'[t] = sub[t]
  BY <1>t, <1>1 DEF TypeOK, r
<1>6. sub' \in [Subs -> Subscription] /\ subs' \in [Names -> Subs \cup {None}]
  BY <1>t, <1>1, <1>4 DEF TypeOK, r
<1>7. end \in Nat /\ NoOffset <= end /\ NoOffset <= 0
  BY <1>t, Bounds DEF TypeOK
<1>8. Placed(r)
  BY <1>4, <1>7 DEF Placed, Ordered, PastEnd
<1>9. TypeOK'
  <2>1. \A t \in Subs : /\ sub'[t].pc = "none" \/ sub'[t].owner \in Names
                        /\ sub'[t].pc = "batch" => sub'[t].next < sub'[t].head
                        /\ sub'[t].head <= end
    BY <1>t, <1>4, <1>5, <1>7 DEF TypeOK
  <2>2. wg' \in Int
    BY <1>t, <1>2 DEF TypeOK
  <2>3. QED BY <1>t, <1>2, <1>6, <2>1, <2>2 DEF TypeOK
<1>10. Positions'
  <2>1. \A t \in Subs : Placed(sub'[t])
    BY <1>t, <1>5, <1>8 DEF Positions
  <2>2. QED BY <1>t, <1>2, <1>4, <1>5, <2>1, AllPlaced DEF Positions
<1>11. OneReader'
  <2>1. waitFor = None
    BY <1>t DEF Subscribe, MaySubscribe, OneReader
  <2>2. ASSUME NEW t \in Subs, t # s, sub[t].pc # "none", ~sub[t].cancelled
        PROVE  subs'[sub[t].owner] = t
    <3>1. subs[sub[t].owner] = t /\ sub[t].owner \in Names
      BY <1>t, <2>2, SubFields DEF OneReader
    <3>2. sub[t].owner # n
      BY <1>2, <3>1, KafkaAssumption
    <3>3. QED BY <1>t, <1>1, <3>1, <3>2 DEF TypeOK
  <2>3. subs'[n] = s
    BY <1>t, <1>1 DEF TypeOK
  <2>4. QED BY <1>t, <1>2, <1>4, <1>5, <2>1, <2>2, <2>3 DEF OneReader
<1>12. QED BY <1>9, <1>10, <1>11 DEF IInv

\* One caller at a time cancels the subscription of a trigger.
LEMMA CancelIInv ==
    ASSUME IInv, NEW n \in Subscribed, CancelAndWait(n),
           \/ mutex' = "manager" /\ mutex = "free" /\ UNCHANGED startPc
           \/ UNCHANGED <<mutex, startPc>> /\ startPc = "draining"
    PROVE  IInv'
<1>t. TypeOK /\ Positions /\ OneReader
  BY DEF IInv
<1> DEFINE s == subs[n]
           r == [sub[s] EXCEPT !.cancelled = TRUE]
<1>1. s \in Subs /\ n \in Names
  BY <1>t DEF Subscribed, TypeOK
<1>2. /\ waitFor' = s /\ sub' = [sub EXCEPT ![s] = r]
      /\ UNCHANGED <<end, bad, stamp, committed, producing, subs, wg, handled, processed,
                     dropped, origin, faults, restarts>>
  BY <1>1 DEF CancelAndWait, cluster, history, counts
<1>3. sub[s] \in Subscription
  BY <1>t, <1>1 DEF TypeOK
<1>4. /\ r \in Subscription /\ r.pc = sub[s].pc /\ r.owner = sub[s].owner
      /\ r.head = sub[s].head /\ r.next = sub[s].next /\ r.exitLoop = sub[s].exitLoop
      /\ r.complete = sub[s].complete /\ r.running = sub[s].running
      /\ r.returned = sub[s].returned /\ r.endId = sub[s].endId
      /\ r.endDate = sub[s].endDate /\ r.cancelled
  BY <1>3 DEF Subscription
<1> HIDE DEF s, r
<1>5. sub'[s] = r /\ \A t \in Subs : t # s => sub'[t] = sub[t]
  BY <1>t, <1>1, <1>2 DEF TypeOK
<1>6. /\ Positions' /\ sub' \in [Subs -> Subscription]
      /\ \A t \in Subs : /\ sub'[t].pc = "none" \/ sub'[t].owner \in Names
                         /\ sub'[t].pc = "batch" => sub'[t].next < sub'[t].head
                         /\ sub'[t].head <= end'
  BY <1>1, <1>2, <1>4, FlagsIInv
<1>7. mutex' \in {"free", "manager", "start"} /\ UNCHANGED startPc
  BY <1>t DEF TypeOK
<1>8. TypeOK'
  BY <1>t, <1>1, <1>2, <1>6, <1>7 DEF TypeOK
<1>9. OneReader'
  BY <1>t, <1>1, <1>2, <1>4, <1>5 DEF OneReader
<1>10. QED BY <1>6, <1>8, <1>9 DEF IInv

LEMMA ForgetIInv ==
    ASSUME IInv, UnsubscribeStopped \/ UnsubscribeTimeout
    PROVE  IInv'
<1>t. TypeOK /\ Positions /\ OneReader
  BY DEF IInv
<1>1. /\ waitFor # None /\ waitFor \in Subs
      /\ producing' = FALSE /\ wg' = wg - 1 /\ waitFor' = None /\ mutex' = MutexAfterWait
      /\ subs' = [n \in Names |-> IF subs[n] = waitFor THEN None ELSE subs[n]]
      /\ UNCHANGED <<end, bad, stamp, committed, startPc, sub, handled, processed, dropped,
                     origin, faults, restarts>>
  BY <1>t DEF UnsubscribeStopped, UnsubscribeTimeout, Forget, TypeOK, cluster, history, counts
<1>2. TypeOK'
  <2>1. /\ mutex' \in {"free", "manager", "start"} /\ wg' \in Int
        /\ subs' \in [Names -> Subs \cup {None}]
    BY <1>t, <1>1 DEF TypeOK, MutexAfterWait
  <2>2. QED BY <1>t, <1>1, <2>1 DEF TypeOK
<1>3. Positions'
  <2>1. \A s \in Subs : Placed(sub'[s])
    BY <1>t, <1>1 DEF Positions
  <2>2. QED BY <1>t, <1>1, <2>1, AllPlaced DEF Positions
<1>4. OneReader'
  <2>1. ASSUME NEW t \in Subs, sub'[t].pc # "none", ~sub'[t].cancelled
        PROVE  subs'[sub'[t].owner] = t
    <3>1. sub[t].pc # "none" /\ ~sub[t].cancelled /\ sub[t].owner \in Names
      BY <1>t, <1>1, <2>1, SubFields
    <3>2. subs[sub[t].owner] = t /\ t # waitFor
      BY <1>t, <1>1, <3>1 DEF OneReader
    <3>3. QED BY <1>1, <3>1, <3>2
  <2>2. startPc' = "draining" => mutex' = "start"
    BY <1>t, <1>1 DEF OneReader, MutexAfterWait
  <2>3. QED BY <1>1, <2>1, <2>2 DEF OneReader
<1>5. QED BY <1>2, <1>3, <1>4 DEF IInv

LEMMA ProcessIInv ==
    ASSUME IInv, Serve \/ Disconnect \/ LockForDrain \/ CloseClient \/ Crash \/ Restart
    PROVE  IInv'
<1>t. TypeOK /\ Positions /\ OneReader
  BY DEF IInv
<1>1. CASE Serve \/ Disconnect \/ LockForDrain \/ CloseClient \/ Restart
  <2>1. UNCHANGED <<end, bad, stamp, committed, waitFor, subs, wg, sub, handled, processed, dropped,
                    origin, faults, restarts>>
    BY <1>1 DEF Serve, Disconnect, LockForDrain, CloseClient, Restart, StartStep, cluster,
                history, counts
  <2>2. /\ startPc' \in {"init", "serving", "disconnecting", "draining", "closed"}
        /\ producing' \in BOOLEAN /\ mutex' \in {"free", "manager", "start"}
        /\ startPc' = "draining" => mutex' = "start"
        /\ mutex' = mutex \/ mutex' = "start" \/ waitFor = None
    BY <1>t, <1>1 DEF Serve, Disconnect, LockForDrain, CloseClient, Restart, StartStep, TypeOK
  <2>3. TypeOK'
    BY <1>t, <2>1, <2>2 DEF TypeOK
  <2>4. Positions' /\ OneReader'
    <3>1. \A s \in Subs : Placed(sub'[s])
      BY <1>t, <2>1 DEF Positions
    <3>2. QED BY <1>t, <2>1, <2>2, <3>1, AllPlaced DEF Positions, OneReader
  <2>5. QED BY <2>3, <2>4 DEF IInv
<1>2. CASE Crash
  <2>1. /\ startPc' = "down" /\ producing' = FALSE /\ mutex' = "free" /\ waitFor' = None
        /\ subs' = [n \in Names |-> None] /\ wg' = 0 /\ sub' = [s \in Subs |-> NoSub]
        /\ restarts < MaxRestarts /\ restarts' = restarts + 1
        /\ UNCHANGED <<end, bad, stamp, committed, handled, processed, faults, origin>>
    BY <1>2 DEF Crash, cluster
  <2>2. dropped' \in [Names -> SUBSET Records]
    <3>1. \A s \in Subs : InHands(s) \subseteq Records
      BY DEF InHands
    <3>2. \A n \in Names :
             UNION {InHands(s) : s \in {t \in Subs : sub[t].owner = n}} \subseteq Records
      BY <3>1
    <3>3. QED BY <1>t, <1>2, <3>2 DEF Crash, TypeOK
  <2>3. \A s \in Subs : sub'[s] = NoSub
    BY <2>1
  <2>4. /\ NoSub.pc = "none" /\ NoSub.running = {} /\ NoSub.returned = {} /\ NoSub.head <= end
        /\ ~NoSub.cancelled
    <3>1. end \in Nat
      BY <1>t, Bounds DEF TypeOK
    <3>2. QED BY <3>1, Bounds DEF NoSub
  <2>5. sub' \in [Subs -> Subscription] /\ restarts' \in 0..MaxRestarts
    BY <1>t, <2>1, NoSubType, Bounds DEF TypeOK
  <2>6. TypeOK'
    <3>1. \A s \in Subs : /\ sub'[s].pc = "none" \/ sub'[s].owner \in Names
                          /\ sub'[s].pc = "batch" => sub'[s].next < sub'[s].head
                          /\ sub'[s].head <= end'
      BY <2>1, <2>3, <2>4
    <3>2. subs' \in [Names -> Subs \cup {None}] /\ wg' \in Int /\ waitFor' \in Subs \cup {None}
      BY <2>1
    <3>3. /\ end' \in Offsets /\ bad' \subseteq 0..(end' - 1) /\ stamp' \in [Records -> Dates]
          /\ committed' \in [Names -> Offsets \cup {NoOffset}]
          /\ handled' \in [Names -> SUBSET Records] /\ processed' \in [Names -> SUBSET Records]
          /\ origin' \in [Names -> Offsets] /\ faults' \in 0..MaxFaults
      BY <1>t, <2>1 DEF TypeOK
    <3>4. QED BY <2>1, <2>2, <2>5, <3>1, <3>2, <3>3 DEF TypeOK
  <2>7. Positions'
    <3>1. \A s \in Subs : Placed(sub'[s])
      BY <2>3, NoSubType
    <3>2. QED BY <1>t, <2>1, <2>3, <2>4, <3>1, AllPlaced DEF Positions
  <2>8. OneReader'
    BY <2>1, <2>3, <2>4 DEF OneReader
  <2>9. QED BY <2>6, <2>7, <2>8 DEF IInv
<1>3. QED BY <1>1, <1>2

LEMMA NextIInv == IInv /\ [Next]_vars => IInv'
<1> SUFFICES ASSUME IInv, [Next]_vars PROVE IInv'
  OBVIOUS
<1>1. CASE Produce \/ ForeignAdd
  BY <1>1, AppendIInv
<1>2. CASE \E n \in Names : \E b \in BoundChoices : Subscribe(n, b)
  BY <1>2, SubscribeIInv
<1>3. CASE \E n \in Names : Unsubscribe(n)
  <2>1. PICK n \in Names : Unsubscribe(n)
    BY <1>3
  <2>2. /\ n \in Subscribed /\ CancelAndWait(n) /\ mutex' = "manager" /\ mutex = "free"
        /\ UNCHANGED startPc
    BY <2>1 DEF Unsubscribe, CancelAndWait
  <2>3. QED BY <2>2, CancelIInv
<1>4. CASE UnsubscribeStopped \/ UnsubscribeTimeout
  BY <1>4, ForgetIInv
<1>5. CASE \E n \in Names : Drain(n)
  <2>1. PICK n \in Names : Drain(n)
    BY <1>5
  <2>2. /\ n \in Subscribed /\ CancelAndWait(n) /\ startPc = "draining"
        /\ UNCHANGED <<mutex, startPc>>
    BY <2>1 DEF Drain, CancelAndWait
  <2>3. QED BY <2>2, CancelIInv
<1>6. CASE Serve \/ LockForDrain \/ CloseClient \/ Disconnect \/ Crash \/ Restart
  BY <1>6, ProcessIInv
<1>7. CASE \E s \in Subs : WatchDone(s) \/ LoopStep(s)
  BY <1>7, LoopIInv
<1>8. CASE \E s \in Subs : \E m \in Records : DispatchStep(s, m)
  BY <1>8, DispatchIInv
<1>9. CASE UNCHANGED vars
  BY <1>9 DEF vars, cluster, object, history, counts, IInv, TypeOK, Positions, OneReader,
     Placed, Ordered, PastEnd, Exceeds
<1>10. QED
  BY <1>1, <1>2, <1>3, <1>4, <1>5, <1>6, <1>7, <1>8, <1>9 DEF Next, StartSteps

\* Every variable keeps its type, and a loop handles only records of its batch.
THEOREM TypeCorrect == Spec => []TypeOK
<1>1. IInv => TypeOK
  BY DEF IInv
<1>2. QED BY <1>1, InitIInv, NextIInv, PTL DEF Spec

\* Replay: a loop that has reported Complete dispatches nothing more, but a
\* record whose timestamp is before that of an earlier one, although each
\* record it dispatches clears the flag that ends it.
THEOREM CompleteEnds == Spec => CompleteIsFinal
<1> DEFINE Late(s) == \A m \in sub'[s].running \ sub[s].running :
                          \E k \in Records : k < m /\ stamp[k] > stamp[m]
           A == \A s \in Subs : sub[s].complete => Late(s)
<1>1. ASSUME IInv, [Next]_vars
      PROVE  A
  <2> SUFFICES ASSUME NEW s \in Subs, sub[s].complete
               PROVE  Late(s)
    OBVIOUS
  <2>t. TypeOK /\ sub[s] \in Subscription /\ PastEnd(sub[s])
    BY <1>1 DEF IInv, TypeOK, Positions, Placed
  <2>n. /\ \A m \in Records : m \in Nat /\ stamp[m] \in Nat
        /\ sub[s].endId \in Nat /\ sub[s].endDate \in Int
    <3>1. sub[s].endId \in Offsets /\ sub[s].endDate \in Dates \cup {NoOffset}
      BY <2>t DEF Subscription
    <3>2. stamp \in [Records -> Dates]
      BY <2>t DEF TypeOK
    <3>3. \A m \in Records : m \in Nat /\ stamp[m] \in Nat
      BY <3>2, Bounds
    <3>4. sub[s].endId \in Nat /\ sub[s].endDate \in Int
      <4>1. Offsets \subseteq Nat /\ Dates \subseteq Nat /\ NoOffset \in Int
        BY Bounds
      <4>2. sub[s].endDate \in Nat \/ sub[s].endDate = NoOffset
        BY <3>1, <4>1
      <4>3. sub[s].endDate \in Int
        BY <4>2 DEF NoOffset
      <4>4. QED BY <3>1, <4>1, <4>3
    <3>5. QED BY <3>3, <3>4
  <2>0. sub'[s].running \subseteq sub[s].running => Late(s)
    OBVIOUS
  <2>1. ASSUME NEW t \in Subs, LoopStep(t) \/ WatchDone(t)
        PROVE  Late(s)
    <3>1. CASE HandleRecord(t) /\ t = s
      <4> DEFINE m == sub[s].next
                 exit == IF sub[s].endDate # NoOffset THEN FALSE ELSE sub[s].exitLoop
                 after == [sub[s] EXCEPT !.pc = "commit", !.next = m + 1]
                 ended == [after EXCEPT !.exitLoop = TRUE, !.complete = TRUE]
                 given == [after EXCEPT !.exitLoop = exit, !.running = @ \cup {m}]
      <4>1. sub[s].pc = "batch" /\ m < sub[s].head
        BY <2>t, <3>1 DEF HandleRecord, TypeOK
      <4>2. m \in Records
        <5>1. m \in Offsets /\ sub[s].head \in Offsets \cup {NoOffset}
          BY <2>t, SubFields
        <5>2. QED BY <4>1, <5>1, Steps
      <4>3. SetSub(s, after) \/ SetSub(s, ended) \/ (~Exceeds(m, sub[s]) /\ SetSub(s, given))
        BY <3>1 DEF HandleRecord
      <4>4. /\ after.running = sub[s].running /\ ended.running = sub[s].running
            /\ given.running = sub[s].running \cup {m}
        BY <2>t DEF Subscription
      <4> HIDE DEF after, ended, given
      <4>5. CASE SetSub(s, after) \/ SetSub(s, ended)
        BY <2>0, <2>t, <4>4, <4>5, SetSubValue
      <4>6. CASE ~Exceeds(m, sub[s]) /\ SetSub(s, given)
        <5>1. PICK k \in Records : k < m /\ Exceeds(k, sub[s])
          BY <2>t, <4>1 DEF PastEnd, LivePcs
        <5>2. k < m /\ stamp[k] > stamp[m]
          BY <2>n, <4>2, <4>6, <5>1 DEF Exceeds
        <5>3. sub'[s].running = sub[s].running \cup {m}
          BY <2>t, <4>4, <4>6, SetSubValue
        <5>4. QED BY <5>2, <5>3
      <4>7. QED BY <4>3, <4>5, <4>6
    <3>2. CASE HandleRecord(t) /\ t # s
      BY <2>0, <2>t, <3>2 DEF HandleRecord, SetSub, TypeOK
    <3>3. CASE ~HandleRecord(t)
      <4>0. sub[t] \in Subscription
        BY <2>t DEF TypeOK
      <4>1. CASE WatchDone(t)
        BY <2>0, <2>t, <4>0, <4>1 DEF WatchDone, SetSub, TypeOK, Subscription
      <4>2. CASE LoopExit(t)
        BY <2>0, <2>t, <4>0, <4>2 DEF LoopExit, SetSub, TypeOK, Subscription
      <4>3. CASE IssuePoll(t)
        BY <2>0, <2>t, <4>0, <4>3 DEF IssuePoll, SetSub, TypeOK, Subscription
      <4>4. ASSUME NEW h, NEW failed, Fetched(t, h, failed)
            PROVE  Late(s)
        BY <2>0, <2>t, <4>0, <4>4 DEF Fetched, SetSub, TypeOK, Subscription
      <4>5. CASE Poll(t) \/ PollCancelled(t) \/ PollFails(t)
        BY <4>4, <4>5 DEF Poll, PollCancelled, PollFails
      <4>6. CASE CommitUncommittedOffsets(t)
        BY <2>0, <2>t, <4>0, <4>6 DEF CommitUncommittedOffsets, SetSub, TypeOK, Subscription
      <4>7. QED
        BY <2>1, <3>3, <4>1, <4>2, <4>3, <4>5, <4>6 DEF LoopStep
    <3>4. QED BY <3>1, <3>2, <3>3
  <2>2. ASSUME NEW t \in Subs, NEW m \in Records, DispatchStep(t, m)
        PROVE  Late(s)
    <3>0. sub[t] \in Subscription
      BY <2>t DEF TypeOK
    <3>1. CASE DispatchReturn(t, m)
      BY <2>0, <2>t, <3>0, <3>1 DEF DispatchReturn, SetSub, TypeOK, Subscription
    <3>2. CASE CommitRecord(t, m)
      BY <2>0, <2>t, <3>0, <3>2 DEF CommitRecord, SetSub, TypeOK, Subscription
    <3>3. QED BY <2>2, <3>1, <3>2 DEF DispatchStep
  <2>3. ASSUME NEW n \in Names, NEW b \in BoundChoices, Subscribe(n, b)
        PROVE  Late(s)
    BY <2>0, <2>t, <2>3 DEF Subscribe, TypeOK, NoSub
  <2>4. ASSUME NEW n \in Subscribed, CancelAndWait(n)
        PROVE  Late(s)
    BY <2>0, <2>t, <2>4 DEF CancelAndWait, TypeOK, Subscription, Subscribed
  <2>5. CASE Crash
    BY <2>0, <2>5 DEF Crash, NoSub
  <2>6. CASE \/ UnsubscribeStopped \/ UnsubscribeTimeout
             \/ Produce \/ ForeignAdd \/ Serve \/ LockForDrain \/ CloseClient \/ Disconnect
             \/ Restart \/ UNCHANGED vars
    BY <2>0, <2>6 DEF UnsubscribeStopped, UnsubscribeTimeout, Forget, Produce, ForeignAdd, Append,
       Serve, LockForDrain, CloseClient, Disconnect, StartStep, Restart, vars
  <2> HIDE DEF Late
  <2>7. QED
    BY <1>1, <2>1, <2>2, <2>3, <2>4, <2>5, <2>6
    DEF Next, StartSteps, Unsubscribe, Drain
<1>2. QED BY <1>1, InitIInv, NextIInv, PTL DEF Spec, CompleteIsFinal
-----------------------------------------------------------------------------
(* Nothing is skipped *)

\* Records a trigger's loops have handled or hold, lost with a process, or
\* that come before the start of the trigger.
Accounted(n, m) ==
    \/ m \in handled[n] \cup dropped[n] \/ m < origin[n]
    \/ \E s \in Subs : sub[s].owner = n /\ m \in InHands(s)

CoveredTo(n, o) == \A m \in Records : m < o => Accounted(n, m)

\* What a loop that was not cancelled may still commit is covered.
MayCommit(s) ==
    sub[s].pc # "none" /\ ~sub[s].cancelled =>
        /\ CoveredTo(sub[s].owner, sub[s].head)
        /\ \A m \in sub[s].running \cup sub[s].returned : CoveredTo(sub[s].owner, m + 1)

CommitsCovered ==
    /\ \A n \in Names : CoveredTo(n, committed[n])
    /\ \A s \in Subs : MayCommit(s)

CInv == IInv /\ CommitsCovered

\* A step that moves no origin and keeps track of the records in hand.
LEMMA AccountedFrame ==
    ASSUME NEW n \in Names, NEW m \in Records, Accounted(n, m),
           handled[n] \subseteq handled'[n], dropped[n] \subseteq dropped'[n],
           origin'[n] = origin[n],
           \A s \in Subs : sub[s].owner = n /\ m \in InHands(s) =>
               \/ sub'[s].owner = n /\ m \in InHands(s)'
               \/ m \in handled'[n] \cup dropped'[n]
    PROVE  Accounted(n, m)'
BY DEF Accounted

\* What a step of one subscription's goroutines must show.
LEMMA CoverFrame ==
    ASSUME CInv, NEW s \in Subs, NEW r \in Subscription, SetSub(s, r),
           NEW n \in Names, n = sub[s].owner, sub[s].pc # "none",
           r.owner = n, r.cancelled = sub[s].cancelled,
           \A k \in Names : k # n => origin'[k] = origin[k] /\ handled'[k] = handled[k],
           \A k \in Names : k # n => committed'[k] = committed[k],
           \A o \in Offsets \cup {NoOffset} : CoveredTo(n, o) => CoveredTo(n, o)',
           CoveredTo(n, committed[n])',
           sub[s].cancelled \/ r.head = sub[s].head \/ CoveredTo(n, r.head)',
           r.running \cup r.returned \subseteq sub[s].running \cup sub[s].returned
               \/ sub[s].cancelled
               \/ \A m \in r.running \cup r.returned : CoveredTo(n, m + 1)'
    PROVE  CommitsCovered'
<1>t. TypeOK /\ CommitsCovered
  BY DEF CInv, IInv
<1>1. sub'[s] = r /\ \A t \in Subs : t # s => sub'[t] = sub[t]
  BY <1>t, SetSubValue
<1>2. UNCHANGED dropped
  BY DEF SetSub
<1>3. \A t \in Subs : sub'[t].owner = sub[t].owner
  BY <1>1
<1>4. ASSUME NEW k \in Names, NEW o \in Offsets \cup {NoOffset}, CoveredTo(k, o)
      PROVE  CoveredTo(k, o)'
  <2>1. CASE k = n
    BY <1>4, <2>1
  <2>2. CASE k # n
    <3>1. ASSUME NEW m \in Records, m < o
          PROVE  Accounted(k, m)'
      <4>1. Accounted(k, m)
        BY <1>4, <3>1 DEF CoveredTo
      <4>2. ASSUME NEW t \in Subs, sub[t].owner = k, m \in InHands(t)
            PROVE  sub'[t].owner = k /\ m \in InHands(t)'
        BY <1>1, <2>2, <4>2 DEF InHands, Live
      <4>3. QED BY <1>2, <2>2, <4>1, <4>2, AccountedFrame
    <3>2. QED BY <3>1 DEF CoveredTo
  <2>3. QED BY <2>1, <2>2
<1>5. ASSUME NEW k \in Names
      PROVE  CoveredTo(k, committed[k])'
  <2>1. CASE k = n
    BY <2>1
  <2>2. CASE k # n
    <3>1. PICK o \in Offsets \cup {NoOffset} : o = committed[k]
      BY <1>t DEF TypeOK
    <3>2. CoveredTo(k, o)
      BY <1>t, <3>1 DEF CommitsCovered
    <3>3. CoveredTo(k, o)' /\ o = committed'[k]
      BY <1>4, <2>2, <3>1, <3>2
    <3>4. QED BY <3>3 DEF CoveredTo
  <2>3. QED BY <2>1, <2>2
<1>6. ASSUME NEW t \in Subs, sub'[t].pc # "none", ~sub'[t].cancelled
      PROVE  /\ CoveredTo(sub[t].owner, sub[t].head)'
             /\ \A m \in sub'[t].running \cup sub'[t].returned : CoveredTo(sub[t].owner, m + 1)'
  <2>1. PICK k \in Names : k = sub[t].owner
    BY <1>1, <1>6, <1>t, SubFields
  <2>2. sub[t].pc # "none" /\ ~sub[t].cancelled /\ k = sub'[t].owner
    BY <1>1, <1>3, <1>6, <2>1
  <2>3. /\ CoveredTo(k, sub[t].head)
        /\ \A m \in sub[t].running \cup sub[t].returned : CoveredTo(k, m + 1)
    BY <1>t, <2>1, <2>2 DEF CommitsCovered, MayCommit
  <2>4. PICK h \in Offsets \cup {NoOffset} : h = sub[t].head
    BY <1>t, SubFields
  <2>5. CoveredTo(k, h)'
    BY <1>4, <2>3, <2>4
  <2>6. ASSUME NEW m \in sub[t].running \cup sub[t].returned
        PROVE  CoveredTo(k, m + 1)'
    <3>1. m \in Records
      BY <1>t, SubFields
    <3>2. m + 1 \in Offsets
      BY <3>1, Bounds DEF Records, Offsets
    <3>3. QED BY <1>4, <2>3, <3>2
  <2>7. CASE t # s
    <3>1. sub'[t] = sub[t]
      BY <1>1, <2>7
    <3>2. QED BY <2>2, <2>4, <2>5, <2>6, <3>1 DEF CoveredTo
  <2>8. CASE t = s
    <3>1. sub'[t] = r /\ k = n
      BY <1>1, <2>1, <2>8
    <3>2. CoveredTo(n, r.head)'
      BY <2>2, <2>4, <2>5, <2>8, <3>1
    <3>3. \A m \in r.running \cup r.returned : CoveredTo(n, m + 1)'
      BY <2>2, <2>6, <2>8, <3>1
    <3>4. QED BY <3>1, <3>2, <3>3 DEF CoveredTo
  <2>9. QED BY <2>7, <2>8
<1>7. QED BY <1>5, <1>6 DEF CommitsCovered, MayCommit
\* A step that keeps track of what the loop holds loses nothing.
LEMMA CoverGrows ==
    ASSUME CInv, NEW s \in Subs, NEW r \in Subscription, SetSub(s, r),
           NEW n \in Names, n = sub[s].owner, r.owner = n,
           origin'[n] = origin[n], handled[n] \subseteq handled'[n],
           \A m \in InHands(s) : \/ r.pc \in LivePcs /\ r.next <= m /\ m < r.head
                                 \/ m \in handled'[n]
    PROVE  \A o \in Offsets \cup {NoOffset} : CoveredTo(n, o) => CoveredTo(n, o)'
<1>t. TypeOK
  BY DEF CInv, IInv
<1>1. sub'[s] = r /\ \A t \in Subs : t # s => sub'[t] = sub[t]
  BY <1>t, SetSubValue
<1>2. dropped' = dropped
  BY DEF SetSub
<1>3. ASSUME NEW m \in Records, Accounted(n, m)
      PROVE  Accounted(n, m)'
  <2>1. ASSUME NEW t \in Subs, sub[t].owner = n, m \in InHands(t)
        PROVE  \/ sub'[t].owner = n /\ m \in InHands(t)'
               \/ m \in handled'[n] \cup dropped'[n]
    <3>1. CASE t # s
      BY <1>1, <2>1, <3>1 DEF InHands, Live
    <3>2. CASE t = s /\ m \in handled'[n]
      BY <3>2
    <3>3. CASE t = s /\ r.pc \in LivePcs /\ r.next <= m /\ m < r.head
      BY <1>1, <3>3 DEF InHands, Live, LivePcs
    <3>4. QED BY <2>1, <3>1, <3>2, <3>3
  <2>2. QED BY <1>2, <1>3, <2>1, AccountedFrame
<1>4. QED BY <1>3 DEF CoveredTo

\* What the group has committed stays covered until the next commit.
LEMMA CommittedStays ==
    ASSUME CInv, NEW n \in Names, committed'[n] = committed[n],
           \A o \in Offsets \cup {NoOffset} : CoveredTo(n, o) => CoveredTo(n, o)'
    PROVE  CoveredTo(n, committed[n])'
<1>1. PICK o \in Offsets \cup {NoOffset} : o = committed[n]
  BY DEF CInv, IInv, TypeOK
<1>2. CoveredTo(n, o)
  BY <1>1 DEF CInv, CommitsCovered
<1>3. QED BY <1>1, <1>2 DEF CoveredTo

LEMMA NothingBelow == \A n : CoveredTo(n, NoOffset)
<1>1. \A m \in Records : ~(m < NoOffset)
  BY Bounds DEF Records, NoOffset
<1>2. QED BY <1>1 DEF CoveredTo

\* Steps of a subscription's goroutines that handle and commit nothing.
LEMMA QuietCovered ==
    ASSUME CInv, NEW s \in Subs, NEW r \in Subscription, SetSub(s, r),
           NEW n \in Names, n = sub[s].owner, sub[s].pc # "none",
           r.owner = n, r.cancelled = sub[s].cancelled,
           UNCHANGED <<committed, handled, origin>>,
           \A m \in InHands(s) : r.pc \in LivePcs /\ r.next <= m /\ m < r.head,
           r.head = sub[s].head \/ sub[s].cancelled \/ CoveredTo(n, r.head)',
           r.running \cup r.returned \subseteq sub[s].running \cup sub[s].returned
    PROVE  CommitsCovered'
<1>1. \A o \in Offsets \cup {NoOffset} : CoveredTo(n, o) => CoveredTo(n, o)'
  BY CoverGrows
<1>2. CoveredTo(n, committed[n])'
  BY <1>1, CommittedStays
<1>3. QED BY <1>1, <1>2, CoverFrame

\* Steps that change no loop, but to cancel it, to begin it or to lose it.
LEMMA OtherCovered ==
    ASSUME CInv, UNCHANGED <<committed, handled, origin>>,
           \A n \in Names : dropped[n] \subseteq dropped'[n],
           \A s \in Subs : \A m \in InHands(s) :
               \/ m \in InHands(s)' /\ sub'[s].owner = sub[s].owner
               \/ sub[s].owner \in Names => m \in dropped'[sub[s].owner],
           \A s \in Subs : sub'[s].pc # "none" /\ ~sub'[s].cancelled =>
               \/ /\ sub[s].pc # "none" /\ ~sub[s].cancelled
                  /\ sub'[s].owner = sub[s].owner /\ sub'[s].head = sub[s].head
                  /\ sub'[s].running = sub[s].running /\ sub'[s].returned = sub[s].returned
               \/ sub'[s].head = NoOffset /\ sub'[s].running = {} /\ sub'[s].returned = {}
    PROVE  CommitsCovered'
<1>t. TypeOK /\ CommitsCovered
  BY DEF CInv, IInv
<1>1. ASSUME NEW n \in Names, NEW o, CoveredTo(n, o)
      PROVE  CoveredTo(n, o)'
  <2>1. ASSUME NEW m \in Records, m < o
        PROVE  Accounted(n, m)'
    <3>1. Accounted(n, m)
      BY <1>1, <2>1 DEF CoveredTo
    <3>2. ASSUME NEW t \in Subs, sub[t].owner = n, m \in InHands(t)
          PROVE  \/ sub'[t].owner = n /\ m \in InHands(t)'
               \/ m \in handled'[n] \cup dropped'[n]
      BY <3>2
    <3>3. QED BY <3>1, <3>2, AccountedFrame
  <2>2. QED BY <2>1 DEF CoveredTo
<1>2. ASSUME NEW n \in Names
      PROVE  CoveredTo(n, committed[n])'
  BY <1>1, CommittedStays
<1>3. ASSUME NEW t \in Subs, sub'[t].pc # "none", ~sub'[t].cancelled
      PROVE  /\ CoveredTo(sub[t].owner, sub[t].head)'
             /\ \A m \in sub'[t].running \cup sub'[t].returned : CoveredTo(sub[t].owner, m + 1)'
  <2>1. CASE sub'[t].head = NoOffset /\ sub'[t].running = {} /\ sub'[t].returned = {}
    <3>1. \A m \in Records : ~(m < NoOffset)
      BY Bounds DEF Records, NoOffset
    <3>2. QED BY <2>1, <3>1 DEF CoveredTo
  <2>2. CASE /\ sub[t].pc # "none" /\ ~sub[t].cancelled
             /\ sub'[t].owner = sub[t].owner /\ sub'[t].head = sub[t].head
             /\ sub'[t].running = sub[t].running /\ sub'[t].returned = sub[t].returned
    <3>1. PICK k \in Names : k = sub[t].owner
      BY <1>t, <2>2, SubFields
    <3>2. PICK h : h = sub[t].head
      OBVIOUS
    <3>3. /\ CoveredTo(k, h)
          /\ \A m \in sub[t].running \cup sub[t].returned : CoveredTo(k, m + 1)
      BY <1>t, <2>2, <3>1, <3>2 DEF CommitsCovered, MayCommit
    <3>4. CoveredTo(k, h)'
      BY <1>1, <3>3
    <3>5. \A m \in sub[t].running \cup sub[t].returned : CoveredTo(k, m + 1)'
      BY <1>1, <3>3
    <3>6. QED BY <2>2, <3>1, <3>2, <3>4, <3>5 DEF CoveredTo
  <2>3. QED BY <1>3, <2>1, <2>2
<1>4. QED BY <1>2, <1>3 DEF CommitsCovered, MayCommit
\* What commits of a loop reach the group: offsets that are covered.
LEMMA CommitCovered ==
    ASSUME CInv, NEW s \in Subs, NEW o \in Offsets, Commit(s, o),
           NEW n \in Names, n = sub[s].owner, ~sub[s].cancelled => CoveredTo(n, o)',
           \A p \in Offsets \cup {NoOffset} : CoveredTo(n, p) => CoveredTo(n, p)'
    PROVE  /\ CoveredTo(n, committed[n])'
           /\ \A k \in Names : k # n => committed'[k] = committed[k]
<1>t. committed \in [Names -> Offsets \cup {NoOffset}]
  BY DEF CInv, IInv, TypeOK
<1>1. CASE ~sub[s].cancelled /\ committed' = [committed EXCEPT ![n] = o]
  <2>1. committed'[n] = o /\ \A k \in Names : k # n => committed'[k] = committed[k]
    BY <1>t, <1>1
  <2>2. QED BY <1>1, <2>1 DEF CoveredTo
<1>2. CASE committed' = committed
  BY <1>2, CommittedStays
<1>3. QED BY <1>1, <1>2 DEF Commit

LEMMA LoopCovered ==
    ASSUME CInv, NEW s \in Subs, LoopStep(s)
    PROVE  CommitsCovered'
<1> DEFINE x == sub[s]
<1>t. /\ TypeOK /\ x \in Subscription /\ Ordered(x) /\ CommitsCovered
      /\ x.next \in Offsets /\ x.head \in Offsets \cup {NoOffset} /\ x.head <= end
      /\ end \in Offsets
  BY SubFields DEF CInv, IInv, Positions, TypeOK, Placed
<1>n. x.pc # "none"
  BY DEF LoopStep, LoopExit, IssuePoll, Poll, PollCancelled, PollFails, Fetched,
         HandleRecord, CommitUncommittedOffsets
<1>0. PICK n \in Names : n = x.owner
  BY <1>t, <1>n, SubFields
<1>i. x.next \in Nat /\ x.head \in Int /\ \A m \in Records : m \in Nat
  BY <1>t, Bounds
\* Between two polls the loop holds nothing.
<1>e. x.pc \in {"check", "poll"} => InHands(s) = {}
  <2>1. x.pc \in {"check", "poll"} => x.head <= x.next
    BY <1>i, <1>t DEF Ordered, NoOffset
  <2>2. \A m \in Records : x.head <= x.next => ~(x.next <= m /\ m < x.head)
    BY <1>i
  <2>3. QED BY <2>1, <2>2 DEF InHands
<1>1. CASE LoopExit(s)
  <2>1. PICK r : r = [x EXCEPT !.pc = "stopped", !.head = NoOffset, !.next = 0,
                               !.start = NoOffset, !.since = 0,
                               !.endId = 0, !.endDate = NoOffset]
    OBVIOUS
  <2>2. /\ r \in Subscription /\ r.pc = "stopped" /\ r.owner = x.owner /\ r.head = NoOffset
        /\ r.running = x.running /\ r.returned = x.returned /\ r.cancelled = x.cancelled
    BY <1>t, <2>1, Bounds DEF Subscription
  <2>3. SetSub(s, r) /\ UNCHANGED <<committed, handled, processed, origin, faults>>
        /\ x.pc = "check"
    BY <1>1, <2>1 DEF LoopExit, Keep
  <2>4. CoveredTo(n, r.head)'
    <3>1. \A m \in Records : ~(m < NoOffset)
      BY Bounds DEF Records, NoOffset
    <3>2. QED BY <2>2, <3>1 DEF CoveredTo
  <2>5. QED BY <1>0, <1>e, <1>n, <2>2, <2>3, <2>4, QuietCovered
<1>2. CASE IssuePoll(s) /\ ~Begins(s)
  <2>1. PICK p \in PollFrom(s) :
          SetSub(s, [x EXCEPT !.pc = "poll", !.head = p, !.next = p,
                              !.start = NoOffset, !.since = 0])
    BY <1>2 DEF IssuePoll
  <2>2. PICK r : r = [x EXCEPT !.pc = "poll", !.head = p, !.next = p,
                              !.start = NoOffset, !.since = 0]
    OBVIOUS
  <2>p. p \in Offsets
    BY <1>2, PositionType DEF IssuePoll, CInv
  <2>3. /\ r \in Subscription /\ r.pc = "poll" /\ r.owner = x.owner /\ r.head = p
        /\ r.running = x.running /\ r.returned = x.returned /\ r.cancelled = x.cancelled
    BY <1>t, <2>2, <2>p, Bounds DEF Subscription
  <2>4. /\ SetSub(s, r) /\ UNCHANGED <<committed, handled, origin>> /\ x.pc = "check"
    BY <1>2, <2>1, <2>2 DEF IssuePoll
  <2>5. p = x.head \/ x.cancelled \/ p = committed[n]
    BY <1>0, <1>2, <2>1 DEF Begins, PollFrom
  <2>6. p = committed[n] => CoveredTo(n, p)
    BY <1>t DEF CommitsCovered
  <2>7. p = committed[n] => CoveredTo(n, p)'
    BY <1>0, <1>e, <2>p, <2>3, <2>4, <2>6, CoverGrows
  <2>8. r.head = x.head \/ x.cancelled \/ CoveredTo(n, r.head)'
    BY <2>3, <2>5, <2>7
  <2>9. QED BY <1>0, <1>e, <1>n, <2>3, <2>4, <2>8, QuietCovered
\* The group has committed nothing, and the loop holds nothing to commit.
<1>3. CASE IssuePoll(s) /\ Begins(s)
  <2>1. PICK p \in PollFrom(s) :
          /\ SetSub(s, [x EXCEPT !.pc = "poll", !.head = p, !.next = p,
                                 !.start = NoOffset, !.since = 0])
          /\ origin' = [origin EXCEPT ![x.owner] = p]
    BY <1>3 DEF IssuePoll
  <2>2. PICK r : r = [x EXCEPT !.pc = "poll", !.head = p, !.next = p,
                              !.start = NoOffset, !.since = 0]
    OBVIOUS
  <2>3. /\ r.pc = "poll" /\ r.owner = x.owner /\ r.head = p
        /\ r.running = x.running /\ r.returned = x.returned /\ r.cancelled = x.cancelled
    BY <1>t, <2>2 DEF Subscription
  <2>4. /\ SetSub(s, r) /\ UNCHANGED <<committed, handled>> /\ x.pc = "check"
        /\ x.head = NoOffset /\ committed[n] = NoOffset /\ ~x.cancelled
        /\ origin' = [origin EXCEPT ![n] = p]
    BY <1>0, <1>3, <2>1, <2>2 DEF IssuePoll, Begins
  <2>5. x.running = {} /\ x.returned = {}
    BY <1>t, <2>4 DEF Ordered
  <2>6. sub'[s] = r /\ \A t \in Subs : t # s => sub'[t] = sub[t]
    BY <1>t, <2>4, SetSubValue
  <2>7. origin'[n] = p /\ \A k \in Names : k # n => origin'[k] = origin[k]
    BY <1>t, <2>4 DEF TypeOK
  <2>8. ASSUME NEW k \in Names, k # n, NEW o, CoveredTo(k, o)
        PROVE  CoveredTo(k, o)'
    <3>1. ASSUME NEW m \in Records, m < o
          PROVE  Accounted(k, m)'
      <4>1. Accounted(k, m)
        BY <2>8, <3>1 DEF CoveredTo
      <4>2. ASSUME NEW t \in Subs, sub[t].owner = k, m \in InHands(t)
            PROVE  sub'[t].owner = k /\ m \in InHands(t)'
        BY <1>0, <2>6, <2>8, <4>2 DEF InHands, Live
      <4>3. dropped' = dropped
        BY <2>4 DEF SetSub
      <4>4. QED BY <2>4, <2>7, <2>8, <4>1, <4>2, <4>3, AccountedFrame
    <3>2. QED BY <3>1 DEF CoveredTo
  <2>9. ASSUME NEW k \in Names
        PROVE  CoveredTo(k, committed[k])'
    <3>1. CASE k = n
      <4>1. committed'[k] = NoOffset
        BY <2>4, <3>1
      <4>2. \A m \in Records : ~(m < NoOffset)
        BY Bounds DEF Records, NoOffset
      <4>3. QED BY <4>1, <4>2 DEF CoveredTo
    <3>2. CASE k # n
      <4>1. PICK o : o = committed[k]
        OBVIOUS
      <4>2. CoveredTo(k, o)'
        BY <1>t, <2>8, <3>2, <4>1 DEF CommitsCovered
      <4>3. QED BY <2>4, <4>1, <4>2 DEF CoveredTo
    <3>3. QED BY <3>1, <3>2
  <2>10. ASSUME NEW t \in Subs, sub'[t].pc # "none", ~sub'[t].cancelled
         PROVE  /\ CoveredTo(sub[t].owner, sub[t].head)'
                /\ \A m \in sub'[t].running \cup sub'[t].returned :
                      CoveredTo(sub[t].owner, m + 1)'
    <3>1. CASE t = s
      <4>1. \A m \in Records : m < p => Accounted(n, m)'
        BY <2>7 DEF Accounted
      <4>2. QED BY <1>0, <2>3, <2>5, <2>6, <3>1, <4>1 DEF CoveredTo
    <3>2. CASE t # s
      <4>1. PICK k \in Names : k = sub[t].owner
        BY <1>t, <2>6, <2>10, <3>2, SubFields
      <4>2. sub'[t] = sub[t] /\ sub[t].pc # "none" /\ ~sub[t].cancelled
        BY <2>6, <2>10, <3>2
      <4>3. k # n
        BY <1>0, <1>n, <2>4, <3>2, <4>1, <4>2 DEF CInv, IInv, OneReader
      <4>4. PICK h : h = sub[t].head
        OBVIOUS
      <4>5. /\ CoveredTo(k, h)
            /\ \A m \in sub[t].running \cup sub[t].returned : CoveredTo(k, m + 1)
        BY <1>t, <4>1, <4>2, <4>4 DEF CommitsCovered, MayCommit
      <4>6. CoveredTo(k, h)' /\ \A m \in sub[t].running \cup sub[t].returned : CoveredTo(k, m + 1)'
        BY <2>8, <4>3, <4>5
      <4>7. QED BY <4>1, <4>2, <4>4, <4>6 DEF CoveredTo
    <3>3. QED BY <3>1, <3>2
  <2>11. QED BY <2>9, <2>10 DEF CommitsCovered, MayCommit
\* What a fetch adds to the loop's position it adds to what the loop holds.
<1>4. ASSUME NEW h \in Offsets, x.head <= h, h <= end, NEW failed \in BOOLEAN,
             Fetched(s, h, failed)
      PROVE  CommitsCovered'
  <2> DEFINE to == IF x.head < h THEN "batch" ELSE "check"
             exit == IF failed THEN TRUE ELSE x.exitLoop
  <2>1. PICK r : r = [x EXCEPT !.pc = to, !.head = h, !.exitLoop = exit]
    OBVIOUS
  <2>2. to \in {"batch", "check"} /\ exit \in BOOLEAN
    BY <1>t DEF Subscription
  <2>3. /\ r \in Subscription /\ r.pc = to /\ r.owner = n /\ r.head = h
        /\ r.next = x.next
        /\ r.running = x.running /\ r.returned = x.returned /\ r.cancelled = x.cancelled
    BY <1>0, <1>t, <2>1, <2>2 DEF Subscription
  <2>4. /\ SetSub(s, r) /\ UNCHANGED <<committed, handled, processed, origin>>
        /\ x.pc = "poll" /\ x.next = x.head
    BY <1>4, <1>t, <2>1 DEF Fetched, ExitAfterError, Ordered
  <2> HIDE DEF to
  <2>5. x.cancelled \/ CoveredTo(n, r.head)'
    <3> SUFFICES ASSUME ~x.cancelled, NEW m \in Records, m < h
                 PROVE  Accounted(n, m)'
      BY <2>3 DEF CoveredTo
    <3>1. CASE m < x.head
      <4>1. PICK o \in Offsets \cup {NoOffset} : o = x.head
        BY <1>t
      <4>2. CoveredTo(n, o)
        BY <1>0, <1>n, <1>t, <4>1 DEF CommitsCovered, MayCommit
      <4>3. CoveredTo(n, o)'
        BY <1>0, <1>e, <2>3, <2>4, <4>2, CoverGrows
      <4>4. QED BY <3>1, <4>1, <4>3 DEF CoveredTo
    <3>2. CASE ~(m < x.head)
      <4>1. sub'[s] = r
        BY <1>t, <2>4, SetSubValue
      <4>2. x.next <= m
        BY <1>i, <2>4, <3>2
      <4>3. m \in InHands(s)'
        BY <2>2, <2>3, <4>1, <4>2 DEF InHands, Live
      <4>4. QED BY <2>3, <4>1, <4>3 DEF Accounted
    <3>3. QED BY <3>1, <3>2
  <2>6. QED BY <1>0, <1>e, <1>n, <2>3, <2>4, <2>5, QuietCovered
<1>5. CASE Poll(s) \/ PollCancelled(s) \/ PollFails(s)
  <2>1. CASE Poll(s)
    <3>1. PICK h \in Offsets : x.head < h /\ h <= end /\ Fetched(s, h, FALSE)
      BY <2>1 DEF Poll
    <3>2. x.head <= h
      BY <1>i, <3>1, Bounds
    <3>3. QED BY <1>4, <3>1, <3>2
  <2>2. CASE PollCancelled(s)
    <3>1. Fetched(s, x.head, TRUE)
      BY <2>2 DEF PollCancelled
    <3>2. PICK h \in Offsets : h = x.head
      BY <1>t, <3>1 DEF Fetched, Ordered
    <3>3. Fetched(s, h, TRUE)
      BY <3>1, <3>2, Zenon
    <3>4. x.head <= h /\ h <= end
      BY <1>i, <1>t, <3>2
    <3>5. QED BY <1>4, <3>3, <3>4
  <2>3. CASE PollFails(s)
    BY <1>4, <2>3 DEF PollFails
  <2>4. QED BY <1>5, <2>1, <2>2, <2>3
<1>6. CASE CommitUncommittedOffsets(s)
  <2>1. PICK r : r = [x EXCEPT !.pc = IF x.next < x.head THEN "batch" ELSE "check"]
    OBVIOUS
  <2>2. /\ r \in Subscription /\ r.pc \in LivePcs /\ r.owner = n /\ r.head = x.head
        /\ r.next = x.next
        /\ r.running = x.running /\ r.returned = x.returned /\ r.cancelled = x.cancelled
    BY <1>0, <1>t, <2>1 DEF Subscription, LivePcs
  <2>3. /\ SetSub(s, r) /\ UNCHANGED <<handled, processed, origin>>
        /\ x.pc = "commit" /\ Commit(s, x.head)
    BY <1>6, <2>1 DEF CommitUncommittedOffsets, Uncommitted
  <2>4. PICK o \in Offsets : o = x.head
    BY <1>t, <2>3 DEF Ordered
  <2>5. \A p \in Offsets \cup {NoOffset} : CoveredTo(n, p) => CoveredTo(n, p)'
    <3>1. \A m \in InHands(s) : r.pc \in LivePcs /\ r.next <= m /\ m < r.head
      BY <2>2 DEF InHands
    <3>2. QED BY <1>0, <2>2, <2>3, <3>1, CoverGrows
  <2>6. ~x.cancelled => CoveredTo(n, o)'
    BY <1>0, <1>n, <1>t, <2>4, <2>5 DEF CommitsCovered, MayCommit
  <2>7. /\ CoveredTo(n, committed[n])'
        /\ \A k \in Names : k # n => committed'[k] = committed[k]
    BY <1>0, <2>3, <2>4, <2>5, <2>6, CommitCovered
  <2>8. QED BY <1>0, <1>n, <2>2, <2>3, <2>5, <2>7, CoverFrame
<1>7. CASE HandleRecord(s)
  <2>1. PICK m : m = x.next
    OBVIOUS
  <2>2. PICK r : /\ SetSub(s, r) /\ r \in Subscription /\ r.pc = "commit" /\ r.owner = n
                 /\ r.head = x.head /\ r.next = m + 1 /\ r.cancelled = x.cancelled
                 /\ r.running \subseteq x.running \cup {m} /\ r.returned = x.returned
    <3> DEFINE exit == IF x.endDate # NoOffset THEN FALSE ELSE x.exitLoop
               q == [x EXCEPT !.pc = "commit", !.next = m + 1]
               c == [q EXCEPT !.exitLoop = TRUE, !.complete = TRUE]
               d == [q EXCEPT !.exitLoop = exit, !.running = @ \cup {m}]
    <3>1. SetSub(s, q) \/ SetSub(s, c) \/ SetSub(s, d)
      BY <1>7, <2>1 DEF HandleRecord
    <3>2. m \in Records /\ m + 1 \in Offsets
      <4>1. m < x.head
        BY <1>7, <1>t, <2>1 DEF HandleRecord, Ordered
      <4>2. QED BY <1>t, <2>1, <4>1, Steps
    <3>3. /\ q \in Subscription /\ q.pc = "commit" /\ q.owner = n
          /\ q.head = x.head /\ q.next = m + 1 /\ q.cancelled = x.cancelled
          /\ q.running = x.running /\ q.returned = x.returned
      BY <1>0, <1>t, <3>2 DEF Subscription
    <3>4. exit \in BOOLEAN /\ x.running \in SUBSET Records
      BY <1>t DEF Subscription
    <3> HIDE DEF q, exit
    <3>5. /\ c \in Subscription /\ c.pc = "commit" /\ c.owner = n
          /\ c.head = x.head /\ c.next = m + 1 /\ c.cancelled = x.cancelled
          /\ c.running = x.running /\ c.returned = x.returned
      BY <3>3 DEF Subscription
    <3>6. /\ d \in Subscription /\ d.pc = "commit" /\ d.owner = n
          /\ d.head = x.head /\ d.next = m + 1 /\ d.cancelled = x.cancelled
          /\ d.running = x.running \cup {m} /\ d.returned = x.returned
      <4>1. q.running \cup {m} \in SUBSET Records
        BY <3>2, <3>3, <3>4
      <4>2. QED BY <3>3, <3>4, <4>1 DEF Subscription
    <3> HIDE DEF c, d
    <3>7. QED BY <3>1, <3>3, <3>5, <3>6
  <2>3. /\ handled' = [handled EXCEPT ![n] = @ \cup {m}]
        /\ UNCHANGED <<committed, processed, faults, origin>> /\ x.pc = "batch"
    BY <1>0, <1>7, <2>1 DEF HandleRecord
  <2>4. m < x.head /\ m \in Records
    <3>1. m < x.head
      BY <1>t, <2>1, <2>3 DEF Ordered
    <3>2. QED BY <1>t, <2>1, <3>1, Steps
  <2>5. m \in handled'[n] /\ \A k \in Names : k # n => handled'[k] = handled[k]
    BY <1>t, <2>3 DEF TypeOK
  <2>6. handled[n] \subseteq handled'[n]
    BY <1>t, <2>3 DEF TypeOK
  <2>7. \A p \in Offsets \cup {NoOffset} : CoveredTo(n, p) => CoveredTo(n, p)'
    <3>1. ASSUME NEW k \in InHands(s), k # m
          PROVE  r.pc \in LivePcs /\ r.next <= k /\ k < r.head
      <4>1. k \in Records /\ x.next <= k /\ k < x.head
        BY <3>1 DEF InHands
      <4>2. m \in Nat /\ k \in Nat
        BY <2>4, <4>1, Bounds
      <4>3. m + 1 <= k
        BY <2>1, <3>1, <4>1, <4>2
      <4>4. QED BY <2>2, <4>1, <4>3 DEF LivePcs
    <3>2. QED BY <1>0, <2>2, <2>3, <2>5, <2>6, <3>1, CoverGrows
  <2>8. CoveredTo(n, committed[n])'
    BY <2>3, <2>7, CommittedStays
  <2>9. \/ x.cancelled
        \/ \A k \in r.running \cup r.returned : CoveredTo(n, k + 1)'
    <3> SUFFICES ASSUME ~x.cancelled, NEW k \in r.running \cup r.returned
                 PROVE  CoveredTo(n, k + 1)'
      OBVIOUS
    <3>1. CASE k # m
      <4>1. k \in x.running \cup x.returned /\ k \in Records
        BY <1>t, <2>2, <3>1, SubFields
      <4>2. CoveredTo(n, k + 1)
        BY <1>0, <1>n, <1>t, <4>1 DEF CommitsCovered, MayCommit
      <4>3. k + 1 \in Offsets
        BY <4>1, Bounds DEF Records, Offsets
      <4>4. QED BY <2>7, <4>2, <4>3
    <3>2. CASE k = m
      <4>1. PICK o \in Offsets \cup {NoOffset} : o = x.head
        BY <1>t
      <4>2. CoveredTo(n, o)
        BY <1>0, <1>n, <1>t, <4>1 DEF CommitsCovered, MayCommit
      <4>3. CoveredTo(n, o)'
        BY <2>7, <4>2
      <4>4. \A i \in Records : i < m + 1 => i < o
        BY <2>4, <4>1, Bounds
      <4>5. QED BY <3>2, <4>3, <4>4 DEF CoveredTo
    <3>3. QED BY <3>1, <3>2
  <2>10. QED BY <1>0, <1>n, <2>2, <2>3, <2>5, <2>7, <2>8, <2>9, CoverFrame
<1>8. QED BY <1>1, <1>2, <1>3, <1>5, <1>6, <1>7 DEF LoopStep
LEMMA DispatchCovered ==
    ASSUME CInv, NEW s \in Subs, NEW m \in Records, DispatchStep(s, m)
    PROVE  CommitsCovered'
<1> DEFINE x == sub[s]
<1>t. TypeOK /\ x \in Subscription /\ Ordered(x) /\ CommitsCovered /\ x.returned \in SUBSET Records
      /\ x.running \in SUBSET Records
  BY SubFields DEF CInv, IInv, Positions, TypeOK, Placed
<1>n. x.pc # "none"
  BY <1>t DEF DispatchStep, DispatchReturn, CommitRecord, Ordered
<1>0. PICK n \in Names : n = x.owner
  BY <1>t, <1>n, SubFields
<1>1. CASE DispatchReturn(s, m)
  <2>1. PICK r : r = [x EXCEPT !.running = @ \ {m}, !.returned = @ \cup {m}]
    OBVIOUS
  <2>2. /\ r \in Subscription /\ r.pc = x.pc /\ r.owner = n /\ r.head = x.head
        /\ r.next = x.next /\ r.cancelled = x.cancelled
        /\ r.running = x.running \ {m} /\ r.returned = x.returned \cup {m}
    <3>1. x.running \ {m} \in SUBSET Records /\ x.returned \cup {m} \in SUBSET Records
      BY <1>t
    <3>2. QED BY <1>0, <1>t, <2>1, <3>1 DEF Subscription
  <2>3. /\ SetSub(s, r) /\ UNCHANGED <<committed, handled, origin>> /\ m \in x.running
    BY <1>1, <2>1 DEF DispatchReturn
  <2>4. \A k \in InHands(s) : r.pc \in LivePcs /\ r.next <= k /\ k < r.head
    BY <2>2 DEF InHands, Live, LivePcs
  <2>5. r.running \cup r.returned \subseteq x.running \cup x.returned
    BY <2>2, <2>3
  <2>6. QED BY <1>0, <1>n, <2>2, <2>3, <2>4, <2>5, QuietCovered
<1>2. CASE CommitRecord(s, m)
  <2>1. PICK r : r = [x EXCEPT !.returned = @ \ {m}]
    OBVIOUS
  <2>2. /\ r \in Subscription /\ r.pc = x.pc /\ r.owner = n /\ r.head = x.head
        /\ r.next = x.next /\ r.cancelled = x.cancelled
        /\ r.running = x.running /\ r.returned = x.returned \ {m}
    <3>1. x.returned \ {m} \in SUBSET Records
      BY <1>t
    <3>2. QED BY <1>0, <1>t, <2>1, <3>1 DEF Subscription
  <2>3. /\ SetSub(s, r) /\ UNCHANGED <<handled, origin>> /\ m \in x.returned
        /\ Commit(s, m + 1)
    BY <1>2, <2>1 DEF CommitRecord, AfterRecord
  <2>4. \A k \in InHands(s) : r.pc \in LivePcs /\ r.next <= k /\ k < r.head
    BY <2>2 DEF InHands, Live, LivePcs
  <2>5. \A p \in Offsets \cup {NoOffset} : CoveredTo(n, p) => CoveredTo(n, p)'
    BY <1>0, <2>2, <2>3, <2>4, CoverGrows
  <2>6. m + 1 \in Offsets
    BY Bounds DEF Records, Offsets
  <2>7. ~x.cancelled => CoveredTo(n, m + 1)'
    BY <1>0, <1>n, <1>t, <2>3, <2>5, <2>6 DEF CommitsCovered, MayCommit
  <2>8. /\ CoveredTo(n, committed[n])'
        /\ \A k \in Names : k # n => committed'[k] = committed[k]
    <3>1. PICK o \in Offsets : o = m + 1
      BY <2>6
    <3>2. Commit(s, o) /\ (~x.cancelled => CoveredTo(n, o)')
      BY <2>3, <2>7, <3>1
    <3>3. QED BY <1>0, <2>5, <3>2, CommitCovered
  <2>9. r.running \cup r.returned \subseteq x.running \cup x.returned
    BY <2>2
  <2>10. QED BY <1>0, <1>n, <2>2, <2>3, <2>5, <2>8, <2>9, CoverFrame
<1>3. QED BY <1>1, <1>2 DEF DispatchStep

LEMMA OthersCovered ==
    ASSUME CInv,
           \/ \E n \in Names : \E b \in BoundChoices : Subscribe(n, b)
           \/ \E n \in Subscribed : CancelAndWait(n)
           \/ UnsubscribeStopped \/ UnsubscribeTimeout \/ Crash
           \/ \E s \in Subs : WatchDone(s)
           \/ Produce \/ ForeignAdd \/ Serve \/ LockForDrain \/ CloseClient \/ Disconnect
           \/ Restart \/ UNCHANGED vars
    PROVE  CommitsCovered'
<1>t. TypeOK
  BY DEF CInv, IInv
<1>0. \A s \in Subs : sub[s] \in Subscription
  BY <1>t DEF TypeOK
\* Steps that change no more of the objects than flags.
<1>1. ASSUME UNCHANGED <<committed, handled, dropped, origin>>,
             \A s \in Subs :
                 /\ sub'[s].pc = sub[s].pc /\ sub'[s].owner = sub[s].owner
                 /\ sub'[s].next = sub[s].next /\ sub'[s].head = sub[s].head
                 /\ sub'[s].running = sub[s].running /\ sub'[s].returned = sub[s].returned
                 /\ sub[s].cancelled => sub'[s].cancelled
      PROVE  CommitsCovered'
  <2>1. \A s \in Subs : \A m \in InHands(s) :
           m \in InHands(s)' /\ sub'[s].owner = sub[s].owner
    BY <1>1 DEF InHands, Live
  <2>2. QED BY <1>1, <2>1, OtherCovered
<1>2. CASE \E n \in Names : \E b \in BoundChoices : Subscribe(n, b)
  <2>1. PICK n \in Names, b \in BoundChoices : Subscribe(n, b)
    BY <1>2
  <2>2. PICK s \in Subs, since \in StartDates(b) :
          /\ sub[s].pc = "none"
          /\ sub' = [sub EXCEPT ![s] =
                       [NoSub EXCEPT !.owner = n, !.pc = "check", !.watching = TRUE,
                          !.start = StartId(b), !.since = since,
                          !.endId = b.endId, !.endDate = b.endDate]]
    BY <2>1 DEF Subscribe
  <2>3. UNCHANGED <<committed, handled, dropped, origin>>
    BY <2>1 DEF Subscribe, history
  <2>4. /\ sub'[s].head = NoOffset /\ sub'[s].running = {} /\ sub'[s].returned = {}
        /\ \A t \in Subs : t # s => sub'[t] = sub[t]
    BY <1>t, <2>2 DEF TypeOK, NoSub
  <2>5. \A t \in Subs : \A m \in InHands(t) :
           m \in InHands(t)' /\ sub'[t].owner = sub[t].owner
    BY <2>2, <2>4 DEF InHands, Live
  <2>6. QED BY <2>3, <2>4, <2>5, OtherCovered
<1>3. CASE \E n \in Subscribed : CancelAndWait(n)
  <2>1. PICK s \in Subs : /\ sub' = [sub EXCEPT ![s].cancelled = TRUE]
                          /\ UNCHANGED <<committed, handled, dropped, origin>>
    BY <1>t, <1>3 DEF CancelAndWait, Subscribed, TypeOK, history
  <2>2. \A t \in Subs : t # s => sub'[t] = sub[t]
    BY <1>t, <2>1 DEF TypeOK
  <2>3. /\ sub'[s].pc = sub[s].pc /\ sub'[s].owner = sub[s].owner
        /\ sub'[s].next = sub[s].next /\ sub'[s].head = sub[s].head
        /\ sub'[s].running = sub[s].running /\ sub'[s].returned = sub[s].returned
        /\ sub'[s].cancelled
    BY <1>0, <1>t, <2>1 DEF TypeOK, Subscription
  <2>4. QED BY <1>1, <2>1, <2>2, <2>3
<1>4. CASE UnsubscribeStopped \/ UnsubscribeTimeout
  BY <1>1, <1>4 DEF UnsubscribeStopped, UnsubscribeTimeout, Forget, history
<1>5. CASE Crash
  <2>1. UNCHANGED <<committed, handled, origin>>
    BY <1>5 DEF Crash
  <2>2. \A n \in Names : dropped'[n] = dropped[n] \cup
                     UNION {InHands(s) : s \in {t \in Subs : sub[t].owner = n}}
    BY <1>5 DEF Crash
  <2>3. \A s \in Subs : \A m \in InHands(s) :
           sub[s].owner \in Names => m \in dropped'[sub[s].owner]
    BY <2>2
  <2>4. \A s \in Subs : sub'[s].pc = "none"
    BY <1>5 DEF Crash, NoSub
  <2>5. QED BY <2>1, <2>2, <2>3, <2>4, OtherCovered
<1>6. CASE \E s \in Subs : WatchDone(s)
  <2>1. PICK s \in Subs : /\ sub' = [sub EXCEPT ![s] =
                                 [sub[s] EXCEPT !.watching = FALSE, !.exitLoop = TRUE]]
                          /\ UNCHANGED <<committed, handled, dropped, origin>>
    BY <1>6 DEF WatchDone, SetSub, Keep
  <2>2. \A t \in Subs : t # s => sub'[t] = sub[t]
    BY <1>t, <2>1 DEF TypeOK
  <2>3. /\ sub'[s].pc = sub[s].pc /\ sub'[s].owner = sub[s].owner
        /\ sub'[s].next = sub[s].next /\ sub'[s].head = sub[s].head
        /\ sub'[s].running = sub[s].running /\ sub'[s].returned = sub[s].returned
        /\ sub'[s].cancelled = sub[s].cancelled
    BY <1>0, <1>t, <2>1 DEF TypeOK, Subscription
  <2>4. QED BY <1>1, <2>1, <2>2, <2>3
<1>7. CASE \/ Produce \/ ForeignAdd \/ Serve \/ LockForDrain \/ CloseClient \/ Disconnect
           \/ Restart \/ UNCHANGED vars
  <2>1. UNCHANGED <<committed, handled, dropped, origin, sub>>
    BY <1>7 DEF Produce, ForeignAdd, Append, Serve, LockForDrain, CloseClient, Disconnect,
       StartStep, Restart, vars, history
  <2>2. QED BY <1>1, <2>1
<1>8. QED BY <1>2, <1>3, <1>4, <1>5, <1>6, <1>7

LEMMA InitCInv == Init => CInv
<1> SUFFICES ASSUME Init PROVE CInv
  OBVIOUS
<1>1. \A n \in Names : CoveredTo(n, committed[n])
  BY NothingBelow DEF Init
<1>2. \A s \in Subs : MayCommit(s)
  BY DEF Init, MayCommit, NoSub
<1>3. QED BY <1>1, <1>2, InitIInv DEF CInv, CommitsCovered

LEMMA NextCInv == CInv /\ [Next]_vars => CInv'
<1> SUFFICES ASSUME CInv, [Next]_vars PROVE CInv'
  OBVIOUS
<1>1. IInv'
  BY NextIInv DEF CInv
<1>2. CommitsCovered'
  <2>1. CASE \E s \in Subs : LoopStep(s)
    BY <2>1, LoopCovered
  <2>2. CASE \E s \in Subs : \E m \in Records : DispatchStep(s, m)
    BY <2>2, DispatchCovered
  <2>3. CASE \E n \in Names : Unsubscribe(n) \/ Drain(n)
    BY <2>3, OthersCovered DEF Unsubscribe, Drain
  <2>4. CASE ~\/ \E s \in Subs : LoopStep(s)
              \/ \E s \in Subs : \E m \in Records : DispatchStep(s, m)
              \/ \E n \in Names : Unsubscribe(n) \/ Drain(n)
    BY <2>4, OthersCovered DEF Next, StartSteps
  <2>5. QED BY <2>1, <2>2, <2>3, <2>4
<1>3. QED BY <1>1, <1>2 DEF CInv

\* A record its group has moved past was handled, is held by a loop that will
\* handle it, was lost with a process, or lies before the trigger's start:
\* although commits come in any order, move the offset back and fail.
THEOREM NoneSkipped == Spec => []NothingSkipped
<1>1. CInv => NothingSkipped
  BY DEF CInv, CommitsCovered, CoveredTo, Accounted, NothingSkipped
<1>2. QED BY <1>1, InitCInv, NextCInv, PTL DEF Spec
=============================================================================
