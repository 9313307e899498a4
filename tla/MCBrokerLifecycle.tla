-------------------------- MODULE MCBrokerLifecycle --------------------------
(* BrokerLifecycle with every combination of arguments. *)
EXTENDS BrokerLifecycle, TLC
=============================================================================
