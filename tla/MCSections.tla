----------------------------- MODULE MCSections -----------------------------
(* A small instance of Sections: see the .cfg file. *)
EXTENDS Sections
=============================================================================
