---------------------------- MODULE MCSuperloop -----------------------------
(* Small instances of Superloop: see the .cfg files. *)
EXTENDS Superloop

Word == <<"S">>
AllBytes == {"S", "C", "NL"}
FeedTcp == [tcp |-> AllBytes, console |-> {}]
FeedBoth == [tcp |-> {"S", "NL"}, console |-> {"C", "NL"}]
PendingTcp == [tcp |-> 3, console |-> 0]
PendingBoth == [tcp |-> 2, console |-> 1]
FeedCommands == [tcp |-> {"C", "NL"}, console |-> {"NL"}]
PendingOne == [tcp |-> 1, console |-> 1]
=============================================================================
