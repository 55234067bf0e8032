----------------------------- MODULE NetAddress -----------------------------
(***************************************************************************)
(* How the board gets its address: core/netcfg.c and the interface part of *)
(* hal/target/net/net.c.  The DHCP client is LwIP's: it asks while it      *)
(* runs, has a lease or not, and asks again for it when the line comes up. *)
(* Times are ages, counted up to the limit they are compared with.         *)
(***************************************************************************)
EXTENDS Naturals, FiniteSetsExt

CONSTANTS DHCP_TIMEOUT_MS, BUTTON_RESET_HOLD_MS

ASSUME NetAssumption == DHCP_TIMEOUT_MS \in Nat /\ BUTTON_RESET_HOLD_MS \in Nat

IsNet(n) ==
  n \in [dhcp : BOOLEAN, running : BOOLEAN, supplied : BOOLEAN, link : BOOLEAN,
         addr : {"none", "own", "default", "lease"}, announced : BOOLEAN,
         dhcp_fallback_done : BOOLEAN, start : 0 .. DHCP_TIMEOUT_MS]

\* netcfg_start with the settings of CFG or the defaults, and hal_net_init.
netcfg_start(dhcp, addr) ==
  [dhcp |-> dhcp, running |-> dhcp, supplied |-> FALSE, link |-> FALSE,
   addr |-> IF dhcp THEN "none" ELSE addr, announced |-> FALSE,
   dhcp_fallback_done |-> FALSE, start |-> 0]

hal_net_dhcp_bound(n) == n.running /\ n.supplied

\* hal_net_poll, when it looks at the line.
hal_net_poll_Silent(n, up) ==
  [n EXCEPT !.link = up, !.supplied = @ /\ (up => n.link), !.announced = @ /\ up]
hal_net_poll(n, up) ==
  LET m == [n EXCEPT !.link = up, !.supplied = @ /\ (up => n.link), !.announced = @ /\ up]
  IN IF up /\ ~n.link /\ m.addr # "none" /\ ~hal_net_dhcp_bound(m)
     THEN [m EXCEPT !.announced = TRUE] ELSE m

\* LwIP: a lease arrives, or is refused or runs out.
Leased(n) == [n EXCEPT !.supplied = TRUE, !.addr = "lease", !.announced = FALSE]
Unleased(n) == [n EXCEPT !.supplied = FALSE, !.addr = "none", !.announced = FALSE]

hal_net_set_static(n) ==
  [n EXCEPT !.running = FALSE, !.supplied = FALSE, !.addr = "default", !.announced = n.link]

\* The first half of netcfg_poll.
FallsBack(n) ==
  /\ n.dhcp /\ ~n.dhcp_fallback_done /\ ~hal_net_dhcp_bound(n)
  /\ n.start >= DHCP_TIMEOUT_MS
Fallback(n) == IF FallsBack(n)
               THEN [hal_net_set_static(n) EXCEPT !.dhcp_fallback_done = TRUE] ELSE n

\* The second half: the USER button, as it was seen by the polls.
Released == [was_down |-> FALSE, attempted |-> FALSE, down_since |-> 0]
IsButton(b) ==
  b \in [was_down : BOOLEAN, attempted : BOOLEAN, down_since : 0 .. BUTTON_RESET_HOLD_MS]
Seen(b, down) == IF down /\ ~b.was_down
                 THEN [was_down |-> TRUE, attempted |-> FALSE, down_since |-> 0]
                 ELSE [b EXCEPT !.was_down = down]
Held(b) == b.was_down /\ ~b.attempted /\ b.down_since >= BUTTON_RESET_HOLD_MS
Attempted_OnSuccess(b) == b
Attempted(b) == IF Held(b) THEN [b EXCEPT !.attempted = TRUE] ELSE b

NetAges(n) == [n EXCEPT !.start = Min({@ + 1, DHCP_TIMEOUT_MS})]
ButtonAges(b) == [b EXCEPT !.down_since = Min({@ + 1, BUTTON_RESET_HOLD_MS})]
=============================================================================
