------------------------------ MODULE MCUpdate ------------------------------
(* A small instance of Update: see the .cfg files. *)
EXTENDS Update
=============================================================================
