------------------------------ MODULE CfgStore ------------------------------
(***************************************************************************)
(* What the non-volatile store promises the rest of the firmware: a map    *)
(* from record type to the newest value of that type.                      *)
(*                                                                         *)
(*   view     what cfg_get_* returns now                                   *)
(*   durable  what cfg_get_* would return after a reset at this instant    *)
(*                                                                         *)
(* The two differ only after a write that reported an error although the   *)
(* flash took the record; compaction settles them, a reset adopts durable. *)
(***************************************************************************)
CONSTANTS TYPES,   \* record types
          VALUES,  \* values a record can hold
          NONE     \* no record of this type

VARIABLES durable, view

storeVars == <<durable, view>>

Stores == [TYPES -> VALUES \cup {NONE}]

Init == /\ durable = [t \in TYPES |-> NONE]
        /\ view = durable

\* A write that is acknowledged is visible and survives a reset; one that is
\* rejected may nevertheless have reached the flash; one cut short by a reset is
\* applied entirely or not at all.
Write(t, v) ==
  /\ durable' = [durable EXCEPT ![t] = v]
  /\ \/ view' = [view EXCEPT ![t] = v]
     \/ UNCHANGED view
     \/ view' = durable'

\* Compaction keeps what the readers see.
Settle == durable' = view /\ UNCHANGED view

Restart == view' = durable /\ UNCHANGED durable

Next == \/ \E t \in TYPES, v \in VALUES : Write(t, v)
        \/ Settle
        \/ Restart

Spec == Init /\ [][Next]_storeVars
=============================================================================
