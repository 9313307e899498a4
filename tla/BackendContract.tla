--------------------------- MODULE BackendContract ---------------------------
(***************************************************************************)
(* What pkg/backend/interface.go promises of a subscription: an event that *)
(* was given to a trigger is marked as processed, and so never delivered   *)
(* again, only when the consumer dispatcher has returned, or there is      *)
(* nothing to dispatch in it.                                              *)
(*                                                                         *)
(* Between the two the event is owed to the trigger, however often the     *)
(* trigger is removed and added and the process ends and starts again.     *)
(***************************************************************************)
CONSTANTS
    Names,  \* triggers
    Ids     \* events

VARIABLES
    owed,   \* for each trigger, events it was given and that are not marked
    done    \* for each trigger, events with nothing left to dispatch

vars == <<owed, done>>

Init ==
    /\ owed = [n \in Names |-> {}]
    /\ done = [n \in Names |-> {}]

\* Dispatchers return, or events turn out to be undeliverable.
Settle ==
    /\ done' \in [Names -> SUBSET Ids]
    /\ \A n \in Names : done[n] \subseteq done'[n]
    /\ UNCHANGED owed

\* A trigger is given events.
Give(n) ==
    /\ \E S \in SUBSET Ids : owed' = [owed EXCEPT ![n] = @ \cup S]
    /\ UNCHANGED done

\* Events are marked as processed.
Mark(n) ==
    /\ \E S \in SUBSET done[n] : owed' = [owed EXCEPT ![n] = @ \ S]
    /\ UNCHANGED done

Next == Settle \/ \E n \in Names : Give(n) \/ Mark(n)

Spec == Init /\ [][Next]_vars
=============================================================================
