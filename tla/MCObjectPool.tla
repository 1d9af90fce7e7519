---------------------------- MODULE MCObjectPool ----------------------------
(* Two blocks of two objects, any pointer written to an object held. *)
EXTENDS ObjectPool
=============================================================================
