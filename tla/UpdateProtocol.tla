--------------------------- MODULE UpdateProtocol ---------------------------
(***************************************************************************)
(* What the update of the firmware promises: the board runs an accepted    *)
(* image, or gives a new one a single trial that ends with its acceptance  *)
(* or with the return to the accepted one.                                 *)
(***************************************************************************)
EXTENDS Naturals

VARIABLES bank,   \* bank the next reset starts
          phase,  \* "settled": its image is accepted; "trial": it is not yet
          starts  \* times the image on trial has entered service

protocolVars == <<bank, phase, starts>>

OtherBank(b) == 3 - b

Init == bank \in {1, 2} /\ phase = "settled" /\ starts = 0

Install == /\ phase = "settled"
           /\ bank' = OtherBank(bank) /\ phase' = "trial" /\ starts' = 0

Start == /\ phase = "trial" /\ starts = 0
         /\ starts' = 1 /\ UNCHANGED <<bank, phase>>

Accept == /\ phase = "trial" /\ starts = 1
          /\ phase' = "settled" /\ starts' = 0 /\ UNCHANGED bank

Return == /\ phase = "trial"
          /\ bank' = OtherBank(bank) /\ phase' = "settled" /\ starts' = 0

Next == Install \/ Start \/ Accept \/ Return

Spec == Init /\ [][Next]_protocolVars
=============================================================================
