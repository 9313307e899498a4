------------------------ MODULE MCSubscriptionManager ------------------------
(* SubscriptionManager on small instances. *)
EXTENDS SubscriptionManager, TLC
=============================================================================
