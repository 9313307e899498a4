-------------------------- MODULE MCMemoryBackend --------------------------
(* MemoryBackend on small instances. *)
EXTENDS MemoryBackend
=============================================================================
