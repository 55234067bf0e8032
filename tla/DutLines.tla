------------------------------ MODULE DutLines ------------------------------
(***************************************************************************)
(* The lines C1..C20 to the device under test, core/dut.c.  A line that is *)
(* not driven is an input: what raises it is a hand on the device, and is  *)
(* noticed once the input has been at its level for a while.  Times are    *)
(* ages, counted up to the limit they are compared with.                   *)
(***************************************************************************)
EXTENDS Naturals, FiniteSetsExt

CONSTANTS LINES, DUT_POLL_MS, DUT_DEBOUNCE_MS

ASSUME DutAssumption ==
  IsFiniteSet(LINES) /\ DUT_POLL_MS \in Nat /\ DUT_DEBOUNCE_MS \in Nat

dut_init == [dut_lines |-> {}, manual |-> {}, candidate |-> {}, intervention |-> FALSE,
             since |-> [l \in LINES |-> 0], last_poll |-> 0]

IsDut(d) ==
  d \in [dut_lines : SUBSET LINES, manual : SUBSET LINES, candidate : SUBSET LINES,
         intervention : BOOLEAN, since : [LINES -> 0 .. DUT_DEBOUNCE_MS],
         last_poll : 0 .. DUT_POLL_MS]

Flipped(S, T) == (S \ T) \cup (T \ S)
Since(d, restarted) == [l \in LINES |-> IF l \in restarted THEN 0 ELSE d.since[l]]

set_lines(d, mask, on) ==
  LET next == IF on THEN d.dut_lines \cup mask ELSE d.dut_lines \ mask
      changed == Flipped(next, d.dut_lines)
  IN [d EXCEPT !.dut_lines = next, !.manual = @ \ changed, !.candidate = @ \ changed,
               !.since = Since(d, changed)]

\* dut_poll, when the inputs of `high` are high.
dut_poll_PressesOnly(d, high) ==
  LET watched == LINES \ d.dut_lines
      moved == {l \in watched : (l \in high) # (l \in d.candidate)}
      since == Since(d, moved)
      settled == {l \in watched : /\ (l \in high) # (l \in d.manual)
                                  /\ since[l] >= DUT_DEBOUNCE_MS}
  IN IF d.last_poll < DUT_POLL_MS THEN d
     ELSE [d EXCEPT !.last_poll = 0, !.since = since, !.candidate = Flipped(@, moved),
                    !.manual = Flipped(@, settled),
                    !.intervention = @ \/ settled \cap high # {}]
dut_poll(d, high) ==
  LET watched == LINES \ d.dut_lines
      moved == {l \in watched : (l \in high) # (l \in d.candidate)}
      since == Since(d, moved)
      settled == {l \in watched : /\ (l \in high) # (l \in d.manual)
                                  /\ since[l] >= DUT_DEBOUNCE_MS}
  IN IF d.last_poll < DUT_POLL_MS THEN d
     ELSE [d EXCEPT !.last_poll = 0, !.since = since, !.candidate = Flipped(@, moved),
                    !.manual = Flipped(@, settled),
                    !.intervention = @ \/ settled # {}]

\* Either logs one event for each line whose manual state it changed.
DutEvents(d, e) == Cardinality(Flipped(d.manual, e.manual))

DutAges(d) ==
  [d EXCEPT !.last_poll = Min({@ + 1, DUT_POLL_MS}),
            !.since = [l \in LINES |-> Min({@[l] + 1, DUT_DEBOUNCE_MS})]]
=============================================================================
