---------------------------- MODULE MCConfigWatch ----------------------------
(* ConfigWatch on small instances. *)
EXTENDS ConfigWatch
=============================================================================
