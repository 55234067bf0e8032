----------------------------- MODULE MCObserve -----------------------------
(* A small instance of Observe: see the .cfg file. *)
EXTENDS Observe
=============================================================================
