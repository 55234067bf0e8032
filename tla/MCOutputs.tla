----------------------------- MODULE MCOutputs ------------------------------
(* A small instance of Outputs: see the .cfg file. *)
EXTENDS Outputs

Pair == {RELAYS}
=============================================================================
