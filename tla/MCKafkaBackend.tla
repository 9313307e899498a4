--------------------------- MODULE MCKafkaBackend ---------------------------
(* KafkaBackend on small instances. *)
EXTENDS KafkaBackend, TLC

\* Bounds a trigger may be configured with.
NoBounds == [start |-> NoOffset, since |-> NoOffset, endId |-> 0, endDate |-> NoOffset]
FromFirst == [NoBounds EXCEPT !.start = 0]
EndIdOnly == [NoBounds EXCEPT !.start = 0, !.endId = 1]
EndedBefore == [NoBounds EXCEPT !.start = 1, !.since = 0, !.endDate = 0]
FirstOnly == [NoBounds EXCEPT !.start = 0, !.endId = 1, !.endDate = MaxDate]

ReplayOrNot == {NoBounds, EndIdOnly, EndedBefore, FirstOnly}
FromFirstOnly == {FromFirst}
=============================================================================
