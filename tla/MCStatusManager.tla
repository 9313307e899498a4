--------------------------- MODULE MCStatusManager ---------------------------
(* StatusManager on small instances. *)
EXTENDS StatusManager, TLC
=============================================================================
