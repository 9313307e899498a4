--------------------------- MODULE MCRedisBackend ---------------------------
(* RedisBackend on small instances. *)
EXTENDS RedisBackendProperties, TLC

\* Bounds a trigger may be configured with.
NoBounds == [start |-> Latest, end |-> NoEnd]
FromFirst == {[start |-> 0, end |-> NoEnd]}
ReplayTo(e) == [start |-> 0, end |-> e]
ReplayToLast == {ReplayTo(MaxId)}

\* With SeqBase = 8 the entries are 9, 10 and 11: an end with fewer digits than
\* what follows it, one with more than what comes before it.
ReplayOrNot == {NoBounds, ReplayTo(1), ReplayTo(3)}

\* With SeqBase = 9 the entries are 10 and 11: replays of one trigger to
\* different ends, one after the other, the last of them the ID 100.
ReplayEnds == {NoBounds, ReplayTo(1), ReplayTo(2), ReplayTo(91)}

InstanceSymmetry == Permutations(Instances)
NameSymmetry == Permutations(Names) \cup Permutations(Subs)
=============================================================================
