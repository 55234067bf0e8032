----------------------------- MODULE MCConsole ------------------------------
(* A small instance of Console: see the .cfg file. *)
EXTENDS Console

Word == <<"S">>
=============================================================================
