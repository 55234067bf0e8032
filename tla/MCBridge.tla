------------------------------ MODULE MCBridge ------------------------------
(* A small instance of Bridge: see the .cfg file. *)
EXTENDS Bridge

Script == <<"prompt", "set">>
=============================================================================
