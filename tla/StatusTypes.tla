----------------------------- MODULE StatusTypes -----------------------------
(***************************************************************************)
(* The status structures of pkg/status and what the status manager does    *)
(* with them: comparing, merging, and keeping one for each trigger.        *)
(*                                                                         *)
(* A timestamp is a natural number, 0 for nil.  A message is "" for nil.   *)
(* The callers always fill the Status field.                               *)
(***************************************************************************)
EXTENDS Naturals

CONSTANTS
    Names,  \* trigger names
    None    \* a trigger with no entry in the structure

SubscriptionStatus(stamps) ==
    [status : {"Ready", "Running", "Failed", "Complete"},
     message : {"", "failed"}, stamp : stamps]

ASSUME StatusAssumption == None \notin Names /\ None \notin SubscriptionStatus(Nat)

\* The statuses the subscription manager, its dispatches and the backends
\* report.
ReadyStatus == [status |-> "Ready", message |-> "", stamp |-> 0]
FailedStatus == [status |-> "Failed", message |-> "failed", stamp |-> 0]
CompleteStatus == [status |-> "Complete", message |-> "", stamp |-> 0]
RunningStatus(t) == [status |-> "Running", message |-> "", stamp |-> t]

IngestStatus(stamps) == [status : {"", "Ready", "Running", "Closed"}, stamp : stamps]

EqualSoftStatus(a, b) == a.message = b.message /\ a.status = b.status

EqualStatus(a, b) == EqualSoftStatus(a, b) /\ a.stamp = b.stamp

EqualSoftIngest(a, b) == a.status = b.status

EqualIngest(a, b) == EqualSoftIngest(a, b) /\ a.stamp = b.stamp

\* Fields that are not informed are taken from the known status; the message
\* only if the status stays the same.
Merge_NoTime(ss, known) ==
    [ss EXCEPT !.message = IF @ = "" /\ ss.status = known.status
                           THEN known.message ELSE @]
Merge(ss, known) ==
    [ss EXCEPT !.stamp = IF @ = 0 THEN known.stamp ELSE @,
               !.message = IF @ = "" /\ ss.status = known.status
                           THEN known.message ELSE @]

\* The subscriptions of two status structures are the same but for their
\* timestamps.
EqualSoftSubscriptions(a, b) ==
    \A n \in Names :
        \/ a[n] = None /\ b[n] = None
        \/ a[n] # None /\ b[n] # None /\ EqualSoftStatus(a[n], b[n])

NoSubscriptions == [n \in Names |-> None]

-----------------------------------------------------------------------------
(* EnsureSubscription(n, ss) and EnsureNoSubscription(n): the map after the  *)
(* call, and whether it must be written as soon as possible.                 *)

Informed(subs, n, ss) == IF subs[n] = None THEN ss ELSE Merge(ss, subs[n])

Ensured(subs, n, ss) ==
    LET new == Informed(subs, n, ss)
    IN  IF subs[n] # None /\ EqualStatus(subs[n], new) THEN subs
        ELSE [subs EXCEPT ![n] = new]

EnsuredFlags(subs, n, ss) ==
    subs[n] # None => ~EqualSoftStatus(subs[n], Informed(subs, n, ss))

Removed(subs, n) == [subs EXCEPT ![n] = None]

RemovedFlags(subs, n) == subs[n] # None
=============================================================================
