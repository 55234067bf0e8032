---------------------------- MODULE ObserveProofs ----------------------------
(* Theorems about Observe, for every value of its constants. *)
EXTENDS Observe, FiniteSetTheorems, WellFoundedInduction, TLAPS

-----------------------------------------------------------------------------
(* The inductive invariant: the types, as far as the steps rely on them,   *)
(* and each property with what makes it inductive.  The rings do not       *)
(* matter to it.                                                           *)

\* A reply has the fields of a reply.
IsReply(r) == r = [f \in DOMAIN NoReply |-> r[f]]

Types ==
  /\ IsDut(dut) /\ IsNet(net) /\ IsButton(button) /\ IsReply(reply)
  /\ hands \subseteq LINES /\ cable \in BOOLEAN /\ user \in BOOLEAN

\* A board that holds an address which is not a lease runs no DHCP client.
Holds(n) ==
  /\ n.link /\ n.addr \in {"own", "default"} => n.announced
  /\ n.dhcp_fallback_done => n.addr = "default" /\ ~n.running
  /\ n.addr \in {"own", "default"} => ~n.running

\* Behind the one write of the settings is a press that was attempted and still lasts.
Tried(b, t) == t \in {0, 1} /\ (t = 1 => b.was_down /\ b.attempted)

\* Without an intervention the lines are as the last reply showed them, or as the one
\* under way shows them.
Quiet(d, r, t) ==
  /\ r.kind = "stat" /\ ~r.flag => r.pressed = t
  /\ ~d.intervention => d.manual = IF r.kind = "stat" THEN r.pressed ELSE t

Inv == Types /\ Holds(net) /\ Tried(button, tries) /\ Quiet(dut, reply, told)

-----------------------------------------------------------------------------
(* The operators of DutLines and NetAddress.                               *)

\* An age stays within the limit it is compared with.
LEMMA AgeTypes ==
  ASSUME NEW limit \in Nat, NEW age \in 0 .. limit
  PROVE  Min({age + 1, limit}) \in 0 .. limit
<1>1. PICK m \in {age + 1, limit} : \A y \in {age + 1, limit} : m <= y
  OBVIOUS
<1>2. /\ Min({age + 1, limit}) \in {age + 1, limit}
      /\ \A y \in {age + 1, limit} : Min({age + 1, limit}) <= y
  BY <1>1 DEF Min
<1> QED BY <1>2

\* A poll of the lines that leaves INTERVENTION off has found them as they were.
LEMMA DutPolls ==
  ASSUME NEW d, IsDut(d), NEW high \in SUBSET LINES
  PROVE  /\ IsDut(dut_poll(d, high))
         /\ ~dut_poll(d, high).intervention =>
              ~d.intervention /\ dut_poll(d, high).manual = d.manual
<1>1. CASE d.last_poll < DUT_POLL_MS
  BY <1>1 DEF dut_poll
<1>2. CASE ~(d.last_poll < DUT_POLL_MS)
  <2> DEFINE watched == LINES \ d.dut_lines
             moved == {l \in watched : (l \in high) # (l \in d.candidate)}
             since == Since(d, moved)
             settled == {l \in watched : /\ (l \in high) # (l \in d.manual)
                                         /\ since[l] >= DUT_DEBOUNCE_MS}
             noticed == d.intervention \/ settled # {}
  <2>1. dut_poll(d, high) =
          [d EXCEPT !.last_poll = 0, !.since = since,
                    !.candidate = Flipped(d.candidate, moved),
                    !.manual = Flipped(d.manual, settled),
                    !.intervention = noticed]
    BY <1>2 DEF dut_poll
  <2>2. /\ since \in [LINES -> 0 .. DUT_DEBOUNCE_MS]
        /\ moved \subseteq LINES /\ settled \subseteq LINES
    BY DutAssumption DEF Since, IsDut
  <2> HIDE DEF settled, moved, since
  <2>3. /\ Flipped(d.candidate, moved) \subseteq LINES
        /\ Flipped(d.manual, settled) \subseteq LINES
        /\ settled = {} => Flipped(d.manual, settled) = d.manual
    BY <2>2 DEF Flipped, IsDut
  <2>4. noticed \in BOOLEAN /\ (~noticed => ~d.intervention /\ settled = {})
    OBVIOUS
  <2> HIDE DEF noticed
  <2>5. 0 \in 0 .. DUT_POLL_MS
    BY DutAssumption
  <2>6. /\ dut_poll(d, high).manual = Flipped(d.manual, settled)
        /\ dut_poll(d, high).intervention = noticed
    BY <2>1 DEF IsDut
  <2>7. IsDut(dut_poll(d, high))
    BY <2>1, <2>2, <2>3, <2>4, <2>5 DEF IsDut
  <2> QED BY <2>3, <2>4, <2>6, <2>7
<1> QED BY <1>1, <1>2

\* A command changes what is known of the lines it switches, and of no other.
LEMMA DutSets ==
  ASSUME NEW d, IsDut(d), NEW mask \in SUBSET LINES, NEW on \in BOOLEAN
  PROVE  LET e == set_lines(d, mask, on) IN
         /\ IsDut(e) /\ e.intervention = d.intervention
         /\ e.manual = d.manual \ Flipped(d.dut_lines, e.dut_lines)
<1> DEFINE next == IF on THEN d.dut_lines \cup mask ELSE d.dut_lines \ mask
           changed == Flipped(next, d.dut_lines)
<1>1. set_lines(d, mask, on) =
        [d EXCEPT !.dut_lines = next, !.manual = d.manual \ changed,
                  !.candidate = d.candidate \ changed, !.since = Since(d, changed)]
  BY DEF set_lines
<1>2. next \subseteq LINES /\ changed = Flipped(d.dut_lines, next)
  BY DEF IsDut, Flipped
<1>3. Since(d, changed) \in [LINES -> 0 .. DUT_DEBOUNCE_MS]
  BY DutAssumption DEF Since, IsDut
<1> DEFINE e == set_lines(d, mask, on)
<1>4. d.manual \ changed \subseteq LINES /\ d.candidate \ changed \subseteq LINES
  BY DEF IsDut
<1> HIDE DEF next, changed
<1>5. /\ e.dut_lines = next /\ e.manual = d.manual \ changed
      /\ e.intervention = d.intervention
  BY <1>1 DEF IsDut
<1>6. IsDut(e)
  BY <1>1, <1>2, <1>3, <1>4 DEF IsDut
<1> QED BY <1>2, <1>5, <1>6

\* What the driver of the network and the client do to the address.
LEMMA NetSteps ==
  ASSUME NEW n, IsNet(n), Holds(n)
  PROVE  /\ \A up \in BOOLEAN : IsNet(hal_net_poll(n, up)) /\ Holds(hal_net_poll(n, up))
         /\ IsNet(Fallback(n)) /\ Holds(Fallback(n))
         /\ n.running => /\ IsNet(Leased(n)) /\ Holds(Leased(n))
                         /\ IsNet(Unleased(n)) /\ Holds(Unleased(n))
<1>1. ASSUME NEW up \in BOOLEAN
      PROVE  IsNet(hal_net_poll(n, up)) /\ Holds(hal_net_poll(n, up))
  <2> DEFINE supplied == n.supplied /\ (up => n.link)
             m == [n EXCEPT !.link = up, !.supplied = supplied,
                            !.announced = n.announced /\ up]
  <2>1. supplied \in BOOLEAN /\ (n.announced /\ up) \in BOOLEAN
    OBVIOUS
  <2>2. /\ IsNet(m) /\ m.link = up /\ m.announced = (n.announced /\ up)
        /\ m.addr = n.addr /\ m.running = n.running
        /\ m.dhcp_fallback_done = n.dhcp_fallback_done
    BY <2>1 DEF IsNet
  <2>3. hal_net_poll(n, up) =
          IF up /\ ~n.link /\ m.addr # "none" /\ ~hal_net_dhcp_bound(m)
          THEN [m EXCEPT !.announced = TRUE] ELSE m
    BY DEF hal_net_poll
  <2> HIDE DEF m
  <2>4. CASE up /\ ~n.link /\ m.addr # "none" /\ ~hal_net_dhcp_bound(m)
    BY <2>2, <2>3, <2>4 DEF IsNet, Holds
  <2>5. CASE ~(up /\ ~n.link /\ m.addr # "none" /\ ~hal_net_dhcp_bound(m))
    <3>1. hal_net_poll(n, up) = m
      BY <2>3, <2>5
    <3>2. up /\ n.addr \in {"own", "default"} => n.link /\ n.announced
      BY <2>2, <2>5 DEF Holds, IsNet, hal_net_dhcp_bound
    <3> QED BY <2>2, <3>1, <3>2 DEF Holds, IsNet
  <2> QED BY <2>4, <2>5
<1>2. IsNet(Fallback(n)) /\ Holds(Fallback(n))
  <2>1. CASE FallsBack(n)
    <3>1. IsNet(hal_net_set_static(n))
      BY DEF hal_net_set_static, IsNet
    <3>2. Fallback(n) = [hal_net_set_static(n) EXCEPT !.dhcp_fallback_done = TRUE]
      BY <2>1 DEF Fallback
    <3>3. IsNet(Fallback(n))
      BY <3>1, <3>2 DEF IsNet
    <3>4. /\ Fallback(n).addr = "default" /\ Fallback(n).running = FALSE
          /\ Fallback(n).announced = n.link /\ Fallback(n).link = n.link
      BY <3>1, <3>2 DEF IsNet, hal_net_set_static
    <3> QED BY <3>3, <3>4 DEF Holds
  <2>2. CASE ~FallsBack(n)
    BY <2>2 DEF Fallback
  <2> QED BY <2>1, <2>2
<1>3. ASSUME n.running
      PROVE  /\ IsNet(Leased(n)) /\ Holds(Leased(n))
             /\ IsNet(Unleased(n)) /\ Holds(Unleased(n))
  <2>1. /\ IsNet(Leased(n)) /\ Leased(n).addr = "lease"
        /\ Leased(n).dhcp_fallback_done = n.dhcp_fallback_done
    BY DEF Leased, IsNet
  <2>2. /\ IsNet(Unleased(n)) /\ Unleased(n).addr = "none"
        /\ Unleased(n).dhcp_fallback_done = n.dhcp_fallback_done
    BY DEF Unleased, IsNet
  <2>3. ~n.dhcp_fallback_done
    BY <1>3 DEF Holds
  <2> QED BY <2>1, <2>2, <2>3 DEF Holds
<1> QED BY <1>1, <1>2, <1>3

LEMMA NetStarts ==
  ASSUME NEW dhcp \in BOOLEAN, NEW addr \in {"own", "default"}
  PROVE  IsNet(netcfg_start(dhcp, addr)) /\ Holds(netcfg_start(dhcp, addr))
BY NetAssumption DEF netcfg_start, IsNet, Holds

\* Time passes over the lines, the address and the button.
LEMMA DutAgesKeep ==
  ASSUME NEW d, IsDut(d)
  PROVE  /\ IsDut(DutAges(d))
         /\ DutAges(d).intervention = d.intervention /\ DutAges(d).manual = d.manual
<1>1. Min({d.last_poll + 1, DUT_POLL_MS}) \in 0 .. DUT_POLL_MS
  BY AgeTypes, DutAssumption DEF IsDut
<1>2. \A l \in LINES : Min({d.since[l] + 1, DUT_DEBOUNCE_MS}) \in 0 .. DUT_DEBOUNCE_MS
  BY AgeTypes, DutAssumption DEF IsDut
<1> QED BY <1>1, <1>2 DEF DutAges, IsDut

LEMMA NetAgesKeep ==
  ASSUME NEW n, IsNet(n), Holds(n)
  PROVE  IsNet(NetAges(n)) /\ Holds(NetAges(n))
<1>1. Min({n.start + 1, DHCP_TIMEOUT_MS}) \in 0 .. DHCP_TIMEOUT_MS
  BY AgeTypes, NetAssumption DEF IsNet
<1> QED BY <1>1 DEF NetAges, IsNet, Holds

LEMMA ButtonAgesKeep ==
  ASSUME NEW b, IsButton(b), NEW t, Tried(b, t)
  PROVE  IsButton(ButtonAges(b)) /\ Tried(ButtonAges(b), t)
<1>1. Min({b.down_since + 1, BUTTON_RESET_HOLD_MS}) \in 0 .. BUTTON_RESET_HOLD_MS
  BY AgeTypes, NetAssumption DEF IsButton
<1> QED BY <1>1 DEF ButtonAges, IsButton, Tried

\* A poll writes the settings at most once more, and only in a press without a write.
LEMMA ButtonPolls ==
  ASSUME NEW b, NEW t, NEW down \in BOOLEAN, IsButton(b), Tried(b, t)
  PROVE  /\ IsButton(Attempted(Seen(b, down)))
         /\ Tried(Attempted(Seen(b, down)),
                  (IF down THEN t ELSE 0) + Bit(Held(Seen(b, down))))
<1> DEFINE s == Seen(b, down)
<1>1. IsButton(s) /\ s.was_down = down /\ (down /\ t = 1 => s.attempted)
  <2>1. CASE down /\ ~b.was_down
    BY <2>1, NetAssumption DEF Seen, IsButton, Tried
  <2>2. CASE ~(down /\ ~b.was_down)
    <3>1. s = [b EXCEPT !.was_down = down]
      BY <2>2 DEF Seen
    <3> QED BY <2>2, <3>1 DEF IsButton, Tried
  <2> QED BY <2>1, <2>2
<1> HIDE DEF s
<1>2. CASE Held(s)
  <2>1. Attempted(s) = [s EXCEPT !.attempted = TRUE]
    BY <1>2 DEF Attempted
  <2>2. /\ IsButton(Attempted(s)) /\ Attempted(s).attempted
        /\ Attempted(s).was_down = s.was_down
    BY <1>1, <2>1 DEF IsButton
  <2>3. s.was_down /\ ~s.attempted
    BY <1>2 DEF Held
  <2>4. down /\ t = 0 /\ Bit(Held(s)) = 1
    BY <1>1, <1>2, <2>3 DEF Tried, Bit
  <2>5. (IF down THEN t ELSE 0) + Bit(Held(s)) = 1
    BY <2>4
  <2>6. Tried(Attempted(s), 1)
    BY <1>1, <2>2, <2>3 DEF Tried
  <2> QED BY <2>2, <2>5, <2>6 DEF s
<1>3. CASE ~Held(s)
  <2>1. Attempted(s) = s /\ Bit(Held(s)) = 0
    BY <1>3 DEF Attempted, Bit
  <2>2. (IF down THEN t ELSE 0) + 0 = IF down THEN t ELSE 0
    BY DEF Tried
  <2>3. Tried(s, IF down THEN t ELSE 0)
    BY <1>1 DEF Tried
  <2> QED BY <1>1, <2>1, <2>2, <2>3 DEF s
<1> QED BY <1>2, <1>3

\* A step of a reply sets one field after another, none of those a later reply is about.
Alike(r, s) == IsReply(s) /\ s.kind = r.kind /\ s.pressed = r.pressed /\ s.flag = r.flag

LEMMA ReplyFields ==
  ASSUME NEW r, NEW s, IsReply(r), Alike(r, s),
         NEW f \in DOMAIN NoReply \ {"kind", "pressed", "flag"}, NEW v
  PROVE  Alike(r, [s EXCEPT ![f] = v])
BY DEF IsReply, Alike, NoReply

LEMMA ReplyIs ==
  ASSUME NEW r, IsReply(r)
  PROVE  Alike(r, r) /\ IsReply(NoReply) /\ NoReply.kind = "none"
BY DEF Alike, IsReply, NoReply

-----------------------------------------------------------------------------
(* The steps.                                                              *)

LEMMA InitInv == Init => Inv
<1> SUFFICES ASSUME Init PROVE Inv
  OBVIOUS
<1>1. IsNet(net) /\ Holds(net)
  BY NetStarts DEF Init
<1>2. IsDut(dut) /\ dut.manual = {}
  BY DutAssumption DEF Init, dut_init, IsDut
<1>3. IsButton(button) /\ Tried(button, tries)
  BY NetAssumption DEF Init, Released, IsButton, Tried
<1>4. IsReply(reply) /\ reply.kind = "none" /\ told = {}
  BY DEF Init, IsReply, NoReply
<1>5. hands \subseteq LINES /\ cable \in BOOLEAN /\ user \in BOOLEAN
  BY DEF Init
<1> QED BY <1>1, <1>2, <1>3, <1>4, <1>5 DEF Inv, Types, Quiet

LEMMA PollInv == Inv /\ svc_poll => Inv'
<1> SUFFICES ASSUME Inv, svc_poll PROVE Inv'
  OBVIOUS
<1>1. PICK up \in {net.link, cable}, saved \in BOOLEAN, alarm \in BOOLEAN :
        LET d == dut_poll(dut, hands)
            n == hal_net_poll(net, up)
            b == Seen(button, user)
            events == DutEvents(dut, d) + Bit(alarm) + Bit(FallsBack(n)) + Bit(Held(b))
        IN IF Held(b) /\ saved THEN hal_reset
           ELSE /\ ~saved
                /\ dut' = d /\ net' = Fallback(n) /\ button' = Attempted(b)
                /\ log_events(events) /\ err_pushes(Bit(alarm) + Bit(Held(b)))
                /\ reply' = [reply EXCEPT !.polled = reply.kind = "none",
                              !.burst = IF reply.in_hand THEN @ + events ELSE 0]
                /\ tries' = (IF user THEN tries ELSE 0) + Bit(Held(b))
                /\ UNCHANGED <<told, reported>>
  BY DEF svc_poll
<1>2. up \in BOOLEAN
  BY DEF Inv, Types, IsNet
<1>3. hands' = hands /\ cable' = cable /\ user' = user
  BY DEF svc_poll, outside
<1>4. CASE Held(Seen(button, user)) /\ saved
  <2>1. hal_reset
    BY <1>1, <1>4
  <2>2. IsNet(net') /\ Holds(net')
    BY <2>1, NetStarts DEF hal_reset
  <2>3. IsDut(dut') /\ dut'.manual = {}
    BY <2>1, DutAssumption DEF hal_reset, dut_init, IsDut
  <2>4. IsButton(button') /\ Tried(button', tries')
    BY <2>1, NetAssumption DEF hal_reset, Released, IsButton, Tried
  <2>5. IsReply(reply') /\ reply'.kind = "none" /\ told' = {}
    BY <2>1 DEF hal_reset, IsReply, NoReply
  <2> QED BY <1>3, <2>2, <2>3, <2>4, <2>5 DEF Inv, Types, Quiet
<1>5. CASE ~(Held(Seen(button, user)) /\ saved)
  <2>1. /\ dut' = dut_poll(dut, hands) /\ net' = Fallback(hal_net_poll(net, up))
        /\ button' = Attempted(Seen(button, user))
        /\ tries' = (IF user THEN tries ELSE 0) + Bit(Held(Seen(button, user)))
        /\ told' = told
    BY <1>1, <1>5
  <2>2. PICK burst : reply' = [reply EXCEPT !.polled = reply.kind = "none", !.burst = burst]
    BY <1>1, <1>5
  <2>3. IsNet(net') /\ Holds(net')
    BY <1>2, <2>1, NetSteps DEF Inv, Types
  <2>4. /\ IsDut(dut')
        /\ ~dut'.intervention => ~dut.intervention /\ dut'.manual = dut.manual
    BY <2>1, DutPolls DEF Inv, Types
  <2>5. IsButton(button') /\ Tried(button', tries')
    BY <2>1, ButtonPolls DEF Inv, Types
  <2>6. Alike(reply, reply')
    <3> DEFINE idle == reply.kind = "none"
               first == [reply EXCEPT !.polled = idle]
    <3>1. Alike(reply, first)
      BY ReplyIs, ReplyFields DEF Inv, Types, NoReply
    <3>2. reply' = [first EXCEPT !.burst = burst]
      BY <2>2
    <3> HIDE DEF first
    <3> QED BY <3>1, <3>2, ReplyFields DEF Inv, Types, NoReply
  <2> QED BY <1>3, <2>1, <2>3, <2>4, <2>5, <2>6 DEF Inv, Types, Quiet, Alike
<1> QED BY <1>4, <1>5

LEMMA CommandInv == Inv /\ Commands => Inv'
<1> SUFFICES ASSUME Inv, Commands PROVE Inv'
  OBVIOUS
<1>1. ASSUME NEW mask \in SUBSET LINES \ {{}}, NEW on \in BOOLEAN, cmd_dut_set(mask, on)
      PROVE  Inv'
  <2>1. /\ dut' = set_lines(dut, mask, on) /\ reply' = NoReply
        /\ told' = told \ Flipped(dut.dut_lines, dut'.dut_lines)
        /\ UNCHANGED <<net, button, hands, cable, user, tries>> /\ reply.kind = "none"
    BY <1>1 DEF cmd_dut_set, outside, Idle
  <2>2. /\ IsDut(dut') /\ dut'.intervention = dut.intervention
        /\ dut'.manual = dut.manual \ Flipped(dut.dut_lines, dut'.dut_lines)
    BY <2>1, DutSets DEF Inv, Types
  <2>3. IsReply(reply') /\ reply'.kind = "none"
    BY <2>1, ReplyIs DEF Inv, Types
  <2> QED BY <2>1, <2>2, <2>3 DEF Inv, Types, Quiet
<1>2. CASE Refused
  BY <1>2, ReplyIs DEF Refused, Idle, outside, history, Inv, Types, Quiet
<1>3. CASE cmd_dut_stat
  <2>1. /\ reply' = [NoReply EXCEPT !.kind = "stat", !.on = dut.dut_lines,
                                    !.pressed = dut.manual, !.flag = dut.intervention]
        /\ dut' = [dut EXCEPT !.intervention = FALSE]
        /\ UNCHANGED <<net, button, hands, cable, user, told, tries>> /\ reply.kind = "none"
    BY <1>3 DEF cmd_dut_stat, outside, history, Idle
  <2>2. /\ IsReply(reply') /\ reply'.kind = "stat" /\ reply'.pressed = dut.manual
        /\ reply'.flag = dut.intervention
    BY <2>1 DEF IsReply, NoReply
  <2>3. IsDut(dut') /\ dut'.manual = dut.manual
    BY <2>1 DEF Inv, Types, IsDut
  <2> QED BY <2>1, <2>2, <2>3 DEF Inv, Types, Quiet
<1>4. CASE h_syst_log
  <2>1. /\ reply' = [NoReply EXCEPT !.kind = "log", !.n = logs.count]
        /\ UNCHANGED <<dut, net, button, hands, cable, user, told, tries>>
        /\ reply.kind = "none"
    BY <1>4 DEF h_syst_log, outside, history, Idle
  <2>2. IsReply(reply') /\ reply'.kind = "log"
    BY <2>1 DEF IsReply, NoReply
  <2> QED BY <2>1, <2>2 DEF Inv, Types, Quiet
<1>5. CASE h_syst_err
  <2>1. /\ reply' = [NoReply EXCEPT !.kind = "err"]
        /\ UNCHANGED <<dut, net, button, hands, cable, user, told, tries>>
        /\ reply.kind = "none"
    BY <1>5 DEF h_syst_err, outside, history, Idle
  <2>2. IsReply(reply') /\ reply'.kind = "err"
    BY <2>1 DEF IsReply, NoReply
  <2> QED BY <2>1, <2>2 DEF Inv, Types, Quiet
<1> QED BY <1>1, <1>2, <1>3, <1>4, <1>5 DEF Commands

\* What leaves everything but the inside of the reply and the rings alone.
LEMMA AlikeInv ==
  ASSUME Inv, Alike(reply, reply'),
         UNCHANGED <<dut, net, button, hands, cable, user, told, tries>>
  PROVE  Inv'
BY DEF Inv, Types, Quiet, Alike

LEMMA StreamInv == Inv /\ (Streams \/ WriteFails) => Inv'
<1> SUFFICES ASSUME Inv, Streams \/ WriteFails PROVE Inv'
  OBVIOUS
<1> DEFINE fields == DOMAIN NoReply \ {"kind", "pressed", "flag"}
<1>1. {"closed", "e", "in_hand", "burst", "out", "i", "overrun"} \subseteq fields
  BY DEF NoReply
<1>2. IsReply(reply) /\ Alike(reply, reply)
  BY ReplyIs DEF Inv, Types
<1>3. \A s, v : \A f \in fields : Alike(reply, s) => Alike(reply, [s EXCEPT ![f] = v])
  BY <1>2, ReplyFields
<1> HIDE DEF fields
<1>4. CASE WriteFails
  <2>1. Alike(reply, reply')
    BY <1>1, <1>2, <1>3, <1>4 DEF WriteFails
  <2> QED BY <1>4, <2>1, AlikeInv DEF WriteFails, outside, history
<1>5. CASE LogTakes
  <2>1. Alike(reply, reply')
    <3> DEFINE e == Place(logs, LOG_DEPTH, reply.i)
               r1 == [reply EXCEPT !.e = e]
               r2 == [r1 EXCEPT !.in_hand = TRUE]
    <3>1. Alike(reply, r2)
      BY <1>1, <1>2, <1>3
    <3>2. reply' = [r2 EXCEPT !.burst = 0]
      BY <1>5 DEF LogTakes
    <3> HIDE DEF r2
    <3> QED BY <1>1, <1>3, <3>1, <3>2
  <2> QED BY <1>5, <2>1, AlikeInv DEF LogTakes, outside, history
<1>6. CASE LogPuts
  <2>1. Alike(reply, reply')
    <3>1. PICK out, i, over :
            reply' = [reply EXCEPT !.out = out, !.i = i, !.in_hand = FALSE, !.burst = 0,
                                   !.overrun = over]
      BY <1>6 DEF LogPuts
    <3> DEFINE r1 == [reply EXCEPT !.out = out]
               r2 == [r1 EXCEPT !.i = i]
               r3 == [r2 EXCEPT !.in_hand = FALSE]
               r4 == [r3 EXCEPT !.burst = 0]
    <3>2. Alike(reply, r2)
      BY <1>1, <1>2, <1>3
    <3>3. reply' = [r4 EXCEPT !.overrun = over]
      BY <3>1
    <3> HIDE DEF r2
    <3>4. Alike(reply, r4)
      BY <1>1, <1>3, <3>2
    <3> HIDE DEF r4
    <3> QED BY <1>1, <1>3, <3>3, <3>4
  <2> QED BY <1>6, <2>1, AlikeInv DEF LogPuts, outside, history
<1>7. CASE ErrPuts
  <2>1. Alike(reply, reply')
    BY <1>1, <1>2, <1>3, <1>7 DEF ErrPuts
  <2> QED BY <1>7, <2>1, AlikeInv DEF ErrPuts, outside, history
<1>8. CASE resp_end
  <2>1. /\ reply' = NoReply
        /\ told' = IF reply.kind = "stat" THEN reply.pressed ELSE told
        /\ UNCHANGED <<dut, net, button, hands, cable, user, tries>>
    BY <1>8 DEF resp_end, outside
  <2>2. IsReply(reply') /\ reply'.kind = "none"
    BY <1>2, <2>1, ReplyIs
  <2> QED BY <2>1, <2>2 DEF Inv, Types, Quiet
<1> QED BY <1>4, <1>5, <1>6, <1>7, <1>8 DEF Streams

LEMMA OutsideInv == Inv /\ (Outside \/ ServerAnswers \/ Tick) => Inv'
<1> SUFFICES ASSUME Inv, Outside \/ ServerAnswers \/ Tick PROVE Inv'
  OBVIOUS
<1>1. CASE Outside
  <2>1. UNCHANGED <<dut, button, reply, told, tries>>
    BY <1>1 DEF Outside, history
  <2>2. IsNet(net') /\ Holds(net')
    BY <1>1, NetSteps DEF Outside, Inv, Types
  <2>3. hands' \subseteq LINES /\ cable' \in BOOLEAN /\ user' \in BOOLEAN
    BY <1>1 DEF Outside, outside, Inv, Types, Flipped
  <2> QED BY <2>1, <2>2, <2>3 DEF Inv, Types, Quiet
<1>2. CASE ServerAnswers
  <2>1. IsNet(net') /\ Holds(net')
    BY <1>2, NetSteps DEF ServerAnswers, Inv, Types
  <2> QED BY <1>2, <2>1 DEF ServerAnswers, outside, history, Inv, Types, Quiet
<1>3. CASE Tick
  <2>1. /\ IsDut(dut') /\ dut'.intervention = dut.intervention /\ dut'.manual = dut.manual
    BY <1>3, DutAgesKeep DEF Tick, Inv, Types
  <2>2. IsNet(net') /\ Holds(net')
    BY <1>3, NetAgesKeep DEF Tick, Inv, Types
  <2>3. IsButton(button') /\ Tried(button', tries)
    BY <1>3, ButtonAgesKeep DEF Tick, Inv, Types
  <2> QED BY <1>3, <2>1, <2>2, <2>3 DEF Tick, outside, history, Inv, Types, Quiet
<1> QED BY <1>1, <1>2, <1>3

LEMMA StutterInv == Inv /\ UNCHANGED vars => Inv'
BY DEF Inv, Types, Quiet, vars, outside, history

\* The invariant, whatever is polled, pressed, plugged, commanded and streamed.
THEOREM ObserveInv == Spec => []Inv
<1>1. Inv /\ [Next]_vars => Inv'
  BY PollInv, CommandInv, StreamInv, OutsideInv, StutterInv DEF Next
<1> QED BY <1>1, InitInv, PTL DEF Spec

\* A DUT:STAT? reply without the INTERVENTION flag may be trusted (cmd_dut_stat, dut_poll).
THEOREM QuietReplies == Spec => []QuietMeansUnchanged
<1>1. Inv => QuietMeansUnchanged
  BY DEF Inv, Quiet, QuietMeansUnchanged
<1> QED BY <1>1, ObserveInv, PTL

\* A board without a lease has announced the address it holds, and keeps it once it fell
\* back (apply_static, hal_net_poll, netcfg_poll).
THEOREM AddressesHold == Spec => []AddressHolds
<1>1. Inv => AddressHolds
  BY DEF Inv, Holds, AddressHolds
<1> QED BY <1>1, ObserveInv, PTL

\* One write of the settings for a press of USER, however the flash fails (netcfg_poll).
THEOREM OneTry == Spec => []OneTryPerPress
<1>1. Inv => OneTryPerPress
  BY DEF Inv, Tried, OneTryPerPress
<1> QED BY <1>1, ObserveInv, PTL

-----------------------------------------------------------------------------
(* The rings: the entries of the log and of the error stack are numbered as *)
(* they come, and a ring holds the newest of them in their order.          *)

\* Entries numbered first, first + 1, ... from the place head on.
Holding(items, head, count, depth, first) ==
  \A k \in 0 .. count - 1 : items[(head + k) % depth] = first + k

\* A ring that was given so many entries, in the order of their numbers, holds the newest.
Ring(r, depth, total) ==
  /\ r = [items |-> r.items, head |-> r.head, count |-> r.count]
  /\ r.items = [p \in 0 .. depth - 1 |-> r.items[p]]
  /\ r.head \in 0 .. depth - 1 /\ r.count \in 0 .. depth /\ r.count <= total
  /\ Holding(r.items, r.head, r.count, depth, total - r.count + 1)

\* How many entries it has lost.
Dropped(r, total) == total - r.count

\* The places of a ring, counted from the oldest entry on.
LEMMA PlaceIs ==
  ASSUME NEW depth \in Nat \ {0}, NEW head \in 0 .. depth - 1, NEW k \in 0 .. depth
  PROVE  (head + k) % depth = IF head + k < depth THEN head + k ELSE head + k - depth
OBVIOUS

LEMMA Places ==
  ASSUME NEW depth \in Nat \ {0}, NEW head \in 0 .. depth - 1
  PROVE  /\ \A k \in 0 .. depth : (head + k) % depth \in 0 .. depth - 1
         /\ \A j \in 0 .. depth - 1, k \in 0 .. depth - 1 : (head + j) % depth = (head + k) % depth => j = k
         /\ (head + depth) % depth = head
         /\ \A k \in 0 .. depth - 1 : (((head + 1) % depth) + k) % depth = (head + (k + 1)) % depth
<1>1. ASSUME NEW k \in 0 .. depth PROVE (head + k) % depth \in 0 .. depth - 1
  <2>1. (head + k) % depth = IF head + k < depth THEN head + k ELSE head + k - depth
    BY PlaceIs, Zenon
  <2> QED BY <2>1
<1>2. ASSUME NEW j \in 0 .. depth - 1, NEW k \in 0 .. depth - 1, (head + j) % depth = (head + k) % depth
      PROVE  j = k
  <2> j \in 0 .. depth /\ k \in 0 .. depth
    OBVIOUS
  <2>1. (head + k) % depth = IF head + k < depth THEN head + k ELSE head + k - depth
    BY PlaceIs, Zenon
  <2>2. (head + j) % depth = IF head + j < depth THEN head + j ELSE head + j - depth
    BY PlaceIs, Zenon
  <2> QED BY <1>2, <2>1, <2>2
<1>3. (head + depth) % depth = head
  <2> depth \in 0 .. depth
    OBVIOUS
  <2>1. (head + depth) % depth = IF head + depth < depth THEN head + depth ELSE head + depth - depth
    BY PlaceIs, Zenon
  <2> QED BY <2>1
<1>4. ASSUME NEW k \in 0 .. depth - 1
      PROVE  (((head + 1) % depth) + k) % depth = (head + (k + 1)) % depth
  <2> 1 \in 0 .. depth /\ k \in 0 .. depth /\ k + 1 \in 0 .. depth
    OBVIOUS
  <2>1. (head + 1) % depth = IF head + 1 < depth THEN head + 1 ELSE head + 1 - depth
    BY PlaceIs, Zenon
  <2>2. PICK h \in 0 .. depth - 1 : h = (head + 1) % depth
    BY <2>1
  <2>3. (h + k) % depth = IF h + k < depth THEN h + k ELSE h + k - depth
    BY PlaceIs, Zenon
  <2>4. (head + (k + 1)) % depth = IF head + (k + 1) < depth THEN head + (k + 1) ELSE head + (k + 1) - depth
    BY PlaceIs, Zenon
  <2>5. (h + k) % depth = (head + (k + 1)) % depth
    BY <2>1, <2>2, <2>3, <2>4
  <2> QED BY <2>2, <2>5
<1> QED BY <1>1, <1>2, <1>3, <1>4

\* One more entry, behind the others or in the place of the oldest.
LEMMA HoldingMore ==
  ASSUME NEW depth \in Nat \ {0}, NEW head \in 0 .. depth - 1, NEW count \in 0 .. depth - 1,
         NEW items, items = [p \in 0 .. depth - 1 |-> items[p]], NEW first \in Nat,
         Holding(items, head, count, depth, first), NEW entry, entry = first + count
  PROVE  Holding([items EXCEPT ![(head + count) % depth] = entry], head, count + 1, depth, first)
<1> DEFINE last == (head + count) % depth
<1>1. count \in 0 .. depth
  OBVIOUS
<1>2. last \in 0 .. depth - 1
  BY <1>1, Places, Zenon
<1>3. ASSUME NEW k \in 0 .. (count + 1) - 1
      PROVE  [items EXCEPT ![last] = entry][(head + k) % depth] = first + k
  <2>0. k \in 0 .. depth
    OBVIOUS
  <2>1. PICK p \in 0 .. depth - 1 : p = (head + k) % depth
    BY <2>0, Places, Zenon
  <2>2. CASE k = count
    <3>1. p = last
      BY <2>1, <2>2
    <3>2. [items EXCEPT ![last] = entry][p] = entry
      BY <2>1, <3>1
    <3> QED BY <2>1, <2>2, <3>2
  <2>3. CASE k # count
    <3>1. k \in 0 .. count - 1 /\ k \in 0 .. depth - 1
      BY <2>3
    <3>2. p # last
      BY <2>1, <2>3, <3>1, Places
    <3>3. items[p] = first + k
      BY <2>1, <3>1 DEF Holding
    <3> HIDE DEF last
    <3>4. [items EXCEPT ![last] = entry][p] = items[p]
      BY <2>1, <3>2
    <3> QED BY <2>1, <3>3, <3>4
  <2> QED BY <2>2, <2>3
<1> QED BY <1>3 DEF Holding

\* Without the oldest entry.
LEMMA HoldingLess ==
  ASSUME NEW depth \in Nat \ {0}, NEW head \in 0 .. depth - 1, NEW count \in 1 .. depth,
         NEW items, NEW first \in Nat, Holding(items, head, count, depth, first)
  PROVE  /\ Holding(items, (head + 1) % depth, count - 1, depth, first + 1)
         /\ items[head] = first
<1>1. ASSUME NEW k \in 0 .. (count - 1) - 1
      PROVE  items[(((head + 1) % depth) + k) % depth] = (first + 1) + k
  <2>1. k \in 0 .. depth - 1 /\ k + 1 \in 0 .. count - 1
    OBVIOUS
  <2>2. (((head + 1) % depth) + k) % depth = (head + (k + 1)) % depth
    BY <2>1, Places
  <2>3. items[(head + (k + 1)) % depth] = first + (k + 1)
    BY <2>1 DEF Holding
  <2> QED BY <2>1, <2>2, <2>3
<1>2. items[head] = first
  <2>1. 0 \in 0 .. count - 1 /\ 0 \in 0 .. depth
    OBVIOUS
  <2>2. (head + 0) % depth = head
    <3>1. (head + 0) % depth = IF head + 0 < depth THEN head + 0 ELSE head + 0 - depth
      BY <2>1, PlaceIs
    <3> QED BY <3>1
  <2>3. items[(head + 0) % depth] = first + 0
    BY <2>1 DEF Holding
  <2> QED BY <2>2, <2>3
<1> QED BY <1>1, <1>2 DEF Holding

LEMMA UnusedRing ==
  ASSUME NEW depth \in Nat \ {0}
  PROVE  Ring(Unused(depth), depth, 0)
<1>1. 0 \in 0 .. depth - 1 /\ 0 \in 0 .. depth /\ 0 .. 0 - 1 = {}
  OBVIOUS
<1> QED BY <1>1 DEF Ring, Unused, Holding

LEMMA RingIs ==
  ASSUME NEW depth, NEW total, NEW items, NEW head \in 0 .. depth - 1, NEW count \in 0 .. depth,
         count <= total, items = [p \in 0 .. depth - 1 |-> items[p]],
         Holding(items, head, count, depth, total - count + 1)
  PROVE  Ring([items |-> items, head |-> head, count |-> count], depth, total)
BY DEF Ring

\* p is r after at most k more entries: it dropped at most as many, and what is left of
\* the others stands where it stood.
Follows(p, r, depth, total, k) ==
  /\ Ring(p, depth, total + k) /\ p.count >= r.count
  /\ \E lost \in 0 .. k :
       /\ Dropped(p, total + k) = Dropped(r, total) + lost
       /\ \A i \in lost .. r.count - 1 : Place(p, depth, i - lost) = Place(r, depth, i)

LEMMA PushedRing ==
  ASSUME NEW depth \in Nat \ {0}, NEW total \in Nat, NEW r, Ring(r, depth, total)
  PROVE  Follows(Pushed(r, depth, total + 1), r, depth, total, 1)
<1>0. PICK items : r.items = items
  OBVIOUS
<1>1. PICK head \in 0 .. depth - 1, count \in 0 .. depth :
        r.head = head /\ r.count = count
  BY DEF Ring
<1>2. /\ items = [p \in 0 .. depth - 1 |-> items[p]] /\ count <= total
      /\ Holding(items, head, count, depth, total - count + 1)
  BY <1>0, <1>1 DEF Ring
<1>3. PICK first \in Nat : first = total - count + 1
  BY <1>2
<1>4. PICK p : p = Pushed(r, depth, total + 1)
  OBVIOUS
<1>5. ASSUME count = depth PROVE Follows(p, r, depth, total, 1)
  <2>1. PICK h \in 0 .. depth - 1 : h = (head + 1) % depth
    <3>1. 1 \in 0 .. depth
      OBVIOUS
    <3> QED BY <3>1, Places, Zenon
  <2>2. Holding(items, h, depth - 1, depth, first + 1)
    <3>1. depth \in 1 .. depth
      OBVIOUS
    <3> QED BY <1>2, <1>3, <1>5, <2>1, <3>1, HoldingLess, Zenon
  <2>3. PICK q : q = (h + (depth - 1)) % depth
    OBVIOUS
  <2>4. Holding([items EXCEPT ![q] = total + 1], h, depth - 1 + 1, depth, first + 1)
    <3>1. depth - 1 \in 0 .. depth - 1 /\ first + 1 \in Nat /\ total + 1 = first + 1 + (depth - 1)
      BY <1>2, <1>3, <1>5, SMTT(20)
    <3> QED BY <1>2, <2>2, <2>3, <3>1, HoldingMore, Zenon
  <2>5. h + depth - 1 = h + (depth - 1) /\ depth - 1 + 1 = depth /\ first + 1 = (total + 1) - depth + 1
    BY <1>2, <1>3, <1>5
  <2>6. p = [items |-> [items EXCEPT ![q] = total + 1], head |-> h, count |-> depth]
    BY <1>0, <1>1, <1>4, <1>5, <2>1, <2>3, <2>5 DEF Pushed
  <2>7. Ring(p, depth, total + 1)
    <3>1. Holding([items EXCEPT ![q] = total + 1], h, depth, depth, (total + 1) - depth + 1)
      BY <2>4, <2>5
    <3>2. depth <= total + 1 /\ depth \in 0 .. depth
      BY <1>2, <1>5
    <3>3. PICK after : after = [items EXCEPT ![q] = total + 1] /\ after = [x \in 0 .. depth - 1 |-> after[x]]
      BY <1>2
    <3> QED BY <2>1, <2>6, <3>1, <3>2, <3>3, RingIs, Zenon
  <2>8. p.count = depth /\ p.head = h
    BY <2>6
  <2>9. \A i \in 1 .. count - 1 : Place(p, depth, i - 1) = Place(r, depth, i)
    <3>1. \A k \in 0 .. depth - 1 : (h + k) % depth = (head + (k + 1)) % depth
      <4>1. \A k \in 0 .. depth - 1 : (((head + 1) % depth) + k) % depth = (head + (k + 1)) % depth
        BY Places
      <4> QED BY <2>1, <4>1
    <3>2. SUFFICES ASSUME NEW i \in 1 .. count - 1 PROVE (h + (i - 1)) % depth = (head + i) % depth
      BY <1>0, <1>1, <2>8 DEF Place
    <3>3. PICK k \in 0 .. depth - 1 : k = i - 1 /\ k + 1 = i
      BY <1>5
    <3> QED BY <3>1, <3>3, Zenon
  <2>10. Dropped(p, total + 1) = Dropped(r, total) + 1 /\ p.count >= r.count /\ 1 \in 0 .. 1
    BY <1>0, <1>1, <1>2, <1>5, <2>8 DEF Dropped
  <2>11. \E lost \in 0 .. 1 :
           /\ Dropped(p, total + 1) = Dropped(r, total) + lost
           /\ \A i \in lost .. r.count - 1 : Place(p, depth, i - lost) = Place(r, depth, i)
    BY <1>0, <1>1, <2>9, <2>10, Zenon
  <2> QED BY <2>7, <2>10, <2>11 DEF Follows
<1>6. ASSUME count # depth PROVE Follows(p, r, depth, total, 1)
  <2>1. PICK q : q = (head + count) % depth
    OBVIOUS
  <2>2. Holding([items EXCEPT ![q] = total + 1], head, count + 1, depth, first)
    <3>1. count \in 0 .. depth - 1 /\ total + 1 = first + count
      BY <1>2, <1>3, <1>6
    <3> QED BY <1>2, <1>3, <2>1, <3>1, HoldingMore, Zenon
  <2>3. head + (count + 1) - 1 = head + count /\ first = (total + 1) - (count + 1) + 1
    BY <1>2, <1>3
  <2>4. p = [items |-> [items EXCEPT ![q] = total + 1], head |-> head, count |-> count + 1]
    BY <1>0, <1>1, <1>4, <1>6, <2>1, <2>3 DEF Pushed
  <2>5. Ring(p, depth, total + 1)
    <3>1. Holding([items EXCEPT ![q] = total + 1], head, count + 1, depth, (total + 1) - (count + 1) + 1)
      BY <2>2, <2>3
    <3>2. count + 1 <= total + 1 /\ count + 1 \in 0 .. depth
      BY <1>2, <1>6
    <3>3. PICK after : after = [items EXCEPT ![q] = total + 1] /\ after = [x \in 0 .. depth - 1 |-> after[x]]
      BY <1>2
    <3> QED BY <2>4, <3>1, <3>2, <3>3, RingIs, Zenon
  <2>6. p.count = count + 1 /\ p.head = head
    BY <2>4
  <2>7. \A i \in 0 .. count - 1 : Place(p, depth, i - 0) = Place(r, depth, i)
    BY <1>0, <1>1, <2>6 DEF Place
  <2>8. Dropped(p, total + 1) = Dropped(r, total) + 0 /\ p.count >= r.count /\ 0 \in 0 .. 1
    BY <1>0, <1>1, <1>2, <2>6 DEF Dropped
  <2>9. \E lost \in 0 .. 1 :
          /\ Dropped(p, total + 1) = Dropped(r, total) + lost
          /\ \A i \in lost .. r.count - 1 : Place(p, depth, i - lost) = Place(r, depth, i)
    BY <1>0, <1>1, <2>7, <2>8, Zenon
  <2> QED BY <2>5, <2>8, <2>9 DEF Follows
<1> QED BY <1>4, <1>5, <1>6

LEMMA FollowsNone ==
  ASSUME NEW depth \in Nat \ {0}, NEW total \in Nat, NEW r, Ring(r, depth, total)
  PROVE  Follows(r, r, depth, total, 0)
<1>1. r.count \in Nat /\ total + 0 = total /\ 0 \in 0 .. 0 /\ Dropped(r, total) = Dropped(r, total) + 0
  BY DEF Ring, Dropped
<1>2. \A i \in 0 .. r.count - 1 : i - 0 = i
  OBVIOUS
<1>3. r.count >= r.count
  BY <1>1
<1> QED BY <1>1, <1>2, <1>3 DEF Follows

LEMMA FollowsMore ==
  ASSUME NEW depth \in Nat \ {0}, NEW total \in Nat, NEW k \in Nat, NEW r, NEW p, NEW q,
         Ring(r, depth, total), Follows(p, r, depth, total, k),
         Follows(q, p, depth, total + k, 1)
  PROVE  Follows(q, r, depth, total, k + 1)
<1>1. PICK a \in 0 .. k :
        /\ Dropped(p, total + k) = Dropped(r, total) + a
        /\ \A i \in a .. r.count - 1 : Place(p, depth, i - a) = Place(r, depth, i)
  BY DEF Follows
<1>2. PICK b \in 0 .. 1 :
        /\ Dropped(q, total + k + 1) = Dropped(p, total + k) + b
        /\ \A i \in b .. p.count - 1 : Place(q, depth, i - b) = Place(p, depth, i)
  BY DEF Follows
<1>3. PICK rc \in Nat, pc \in Nat, qc \in Nat :
        /\ rc = r.count /\ pc = p.count /\ qc = q.count
        /\ rc <= pc /\ pc <= qc /\ rc <= total /\ pc <= total + k
  BY DEF Follows, Ring
<1>4. total + k + 1 = total + (k + 1)
  OBVIOUS
<1>5. Dropped(q, total + (k + 1)) = Dropped(r, total) + (a + b)
  BY <1>1, <1>2, <1>3, <1>4 DEF Dropped
<1>6. ASSUME NEW i \in a + b .. r.count - 1
      PROVE  Place(q, depth, i - (a + b)) = Place(r, depth, i)
  <2>1. i \in a .. r.count - 1 /\ i - a \in b .. p.count - 1 /\ (i - a) - b = i - (a + b)
    BY <1>3
  <2>2. Place(p, depth, i - a) = Place(r, depth, i)
    BY <1>1, <2>1
  <2>3. Place(q, depth, (i - a) - b) = Place(p, depth, i - a)
    BY <1>2, <2>1
  <2> QED BY <2>1, <2>2, <2>3
<1>7. Ring(q, depth, total + (k + 1)) /\ q.count >= r.count /\ a + b \in 0 .. k + 1
  BY <1>3, <1>4 DEF Follows
<1> QED BY <1>5, <1>6, <1>7 DEF Follows

\* Several entries, one after another: what log_events and err_pushes do to a ring.
LEMMA PushedAllFollows ==
  ASSUME NEW depth \in Nat \ {0}, NEW total \in Nat, NEW n \in Nat, NEW r, Ring(r, depth, total)
  PROVE  Follows(PushedAll(r, depth, total, n), r, depth, total, n)
<1> DEFINE Run(f, m) == f = [k \in 0 .. m |-> IF k = 0 THEN r ELSE Pushed(f[k - 1], depth, total + k)]
           Good(m) == \E f : Run(f, m)
           Bad == {m \in Nat : ~Good(m)}
<1>1. Good(0)
  <2>1. Run([k \in 0 .. 0 |-> r], 0)
    OBVIOUS
  <2> QED BY <2>1
<1>2. ASSUME NEW m \in Nat, Good(m) PROVE Good(m + 1)
  <2>1. PICK f : Run(f, m)
    BY <1>2
  <2> DEFINE g == [k \in 0 .. m + 1 |-> IF k = m + 1 THEN Pushed(f[m], depth, total + (m + 1)) ELSE f[k]]
  <2>2. ASSUME NEW k \in 0 .. m + 1
        PROVE  g[k] = IF k = 0 THEN r ELSE Pushed(g[k - 1], depth, total + k)
    <3>1. CASE k = m + 1
      <4>1. m \in 0 .. m + 1 /\ k - 1 = m /\ m # m + 1 /\ k # 0
        BY <3>1
      <4>2. g[m] = f[m] /\ g[k] = Pushed(f[m], depth, total + (m + 1))
        BY <3>1, <4>1
      <4> HIDE DEF g
      <4> QED BY <3>1, <4>1, <4>2
    <3>2. CASE k # m + 1
      <4>1. k \in 0 .. m /\ (k # 0 => k - 1 \in 0 .. m + 1 /\ k - 1 # m + 1)
        BY <3>2
      <4>2. g[k] = f[k] /\ (k # 0 => g[k - 1] = f[k - 1])
        BY <3>2, <4>1
      <4>3. f[k] = IF k = 0 THEN r ELSE Pushed(f[k - 1], depth, total + k)
        BY <2>1, <4>1
      <4> HIDE DEF g
      <4> QED BY <4>2, <4>3
    <3> QED BY <3>1, <3>2
  <2>3. Run(g, m + 1)
    <3>1. g = [k \in 0 .. m + 1 |-> g[k]]
      OBVIOUS
    <3> HIDE DEF g
    <3> QED BY <2>2, <3>1
  <2> HIDE DEF g
  <2> QED BY <2>3
<1> HIDE DEF Good
<1>3. Good(n)
  <2> SUFFICES ASSUME Bad # {} PROVE FALSE
    OBVIOUS
  <2>1. PICK m \in Bad : \A y \in Bad : ~(y < m)
    <3>1. Bad \in SUBSET Nat
      OBVIOUS
    <3> HIDE DEF Bad
    <3>2. \E m \in Bad : \A y \in Bad : ~(<<y, m>> \in OpToRel(<, Nat))
      BY <3>1, NatLessThanWellFounded, WFMin
    <3> QED BY <3>1, <3>2 DEF OpToRel
  <2>2. m # 0 /\ m \in Nat
    BY <1>1
  <2>3. m - 1 \in Nat /\ m - 1 \notin Bad /\ m - 1 + 1 = m
    BY <2>1, <2>2
  <2>4. Good(m - 1 + 1)
    BY <1>2, <2>3
  <2> QED BY <2>3, <2>4
<1>4. PICK f : Run(f, n) /\ PushedAll(r, depth, total, n) = f[n]
  <2> DEFINE f == CHOOSE g : Run(g, n)
  <2>1. Run(f, n)
    BY <1>3 DEF Good
  <2>2. PushedAll(r, depth, total, n) = f[n]
    BY DEF PushedAll
  <2> HIDE DEF f
  <2> QED BY <2>1, <2>2
<1> DEFINE Wrong == {m \in 0 .. n : ~Follows(f[m], r, depth, total, m)}
<1>5. Wrong = {}
  <2> SUFFICES ASSUME Wrong # {} PROVE FALSE
    OBVIOUS
  <2>1. PICK m \in Wrong : \A y \in Wrong : ~(y < m)
    <3>1. Wrong \in SUBSET Nat
      OBVIOUS
    <3> HIDE DEF Wrong
    <3>2. \E m \in Wrong : \A y \in Wrong : ~(<<y, m>> \in OpToRel(<, Nat))
      BY <3>1, NatLessThanWellFounded, WFMin
    <3> QED BY <3>1, <3>2 DEF OpToRel
  <2>2. m \in 0 .. n /\ f[m] = IF m = 0 THEN r ELSE Pushed(f[m - 1], depth, total + m)
    BY <1>4
  <2>3. m # 0
    BY <2>1, <2>2, FollowsNone
  <2>4. m - 1 \in 0 .. n /\ m - 1 \in Nat /\ m - 1 \notin Wrong /\ m - 1 + 1 = m
    BY <2>1, <2>2, <2>3
  <2>5. Follows(f[m - 1], r, depth, total, m - 1)
    BY <2>4
  <2>6. PICK j \in Nat, p \in {f[m - 1]} : j = m - 1 /\ p = f[m - 1] /\ m = j + 1
    BY <2>4
  <2>7. Ring(p, depth, total + j) /\ total + j \in Nat /\ total + m = total + j + 1
    BY <2>5, <2>6 DEF Follows
  <2>8. Follows(f[m], p, depth, total + j, 1)
    BY <2>2, <2>3, <2>6, <2>7, PushedRing
  <2>9. Follows(f[m], r, depth, total, m)
    <3>1. Follows(p, r, depth, total, j)
      BY <2>5, <2>6
    <3>2. Follows(f[m], r, depth, total, j + 1)
      BY <2>8, <3>1, FollowsMore
    <3> QED BY <2>6, <3>2
  <2> QED BY <2>9
<1>6. n \in 0 .. n /\ n \notin Wrong
  BY <1>5
<1> QED BY <1>4, <1>6

LEMMA PoppedIs ==
  ASSUME NEW depth, NEW r, NEW p, p = err_pop(r, depth),
         r = [items |-> r.items, head |-> r.head, count |-> r.count]
  PROVE  /\ p.items = r.items /\ p.head = (r.head + 1) % depth /\ p.count = r.count - 1
         /\ p = [items |-> p.items, head |-> p.head, count |-> p.count]
<1>1. p.items = r.items /\ p.head = (r.head + 1) % depth /\ p.count = r.count - 1
  BY DEF err_pop
<1>2. p = [items |-> p.items, head |-> p.head, count |-> p.count]
  BY DEF err_pop
<1> QED BY <1>1, <1>2

\* An entry popped off.
LEMMA PoppedRing ==
  ASSUME NEW depth \in Nat \ {0}, NEW total \in Nat, NEW r, Ring(r, depth, total), r.count > 0
  PROVE  /\ Ring(err_pop(r, depth), depth, total)
         /\ Dropped(err_pop(r, depth), total) = Dropped(r, total) + 1
         /\ r.items[Place(r, depth, 0)] = Dropped(r, total) + 1
<1>0. PICK items : r.items = items
  OBVIOUS
<1>1. PICK head \in 0 .. depth - 1, count \in 1 .. depth :
        r.head = head /\ r.count = count
  BY DEF Ring
<1>2. /\ items = [p \in 0 .. depth - 1 |-> items[p]] /\ count <= total
      /\ Holding(items, head, count, depth, total - count + 1)
      /\ r = [items |-> items, head |-> head, count |-> count]
  BY <1>0, <1>1 DEF Ring
<1>3. PICK first \in Nat : first = total - count + 1
  BY <1>2
<1>4. PICK h \in 0 .. depth - 1 : h = (head + 1) % depth
  <2>1. 1 \in 0 .. depth
    OBVIOUS
  <2> QED BY <2>1, Places, Zenon
<1>5. Holding(items, h, count - 1, depth, first + 1) /\ items[head] = first
  <2>1. Holding(items, head, count, depth, first)
    BY <1>2, <1>3
  <2>2. Holding(items, (head + 1) % depth, count - 1, depth, first + 1) /\ items[head] = first
    BY <2>1, HoldingLess, Zenon
  <2> QED BY <1>4, <2>2
<1>6. PICK less \in 0 .. depth : less = count - 1 /\ less <= total
  BY <1>2
<1>7. first + 1 = total - less + 1
  BY <1>2, <1>3, <1>6
<1>8. PICK p : p = [items |-> items, head |-> h, count |-> less] /\ p = err_pop(r, depth)
  <2>1. PICK p : p = err_pop(r, depth)
    OBVIOUS
  <2>2. /\ p.items = items /\ p.head = h /\ p.count = less
        /\ p = [items |-> p.items, head |-> p.head, count |-> p.count]
    <3>1. r = [items |-> r.items, head |-> r.head, count |-> r.count]
      BY <1>0, <1>1, <1>2
    <3>2. /\ p.items = r.items /\ p.head = (r.head + 1) % depth /\ p.count = r.count - 1
          /\ p = [items |-> p.items, head |-> p.head, count |-> p.count]
      BY <2>1, <3>1, PoppedIs
    <3>3. p.items = items /\ p.head = h /\ p.count = less
      BY <1>0, <1>1, <1>4, <1>6, <3>2
    <3> QED BY <3>2, <3>3
  <2> QED BY <2>1, <2>2
<1>9. Ring(p, depth, total)
  <2>1. Holding(items, h, less, depth, total - less + 1)
    BY <1>5, <1>6, <1>7
  <2>2. items = [x \in 0 .. depth - 1 |-> items[x]] /\ less <= total /\ less \in 0 .. depth
    BY <1>2, <1>6
  <2>3. Ring([items |-> items, head |-> h, count |-> less], depth, total)
    BY <2>1, <2>2, RingIs, Zenon
  <2> QED BY <1>8, <2>3
<1>10. Dropped(p, total) = Dropped(r, total) + 1
  BY <1>0, <1>1, <1>2, <1>6, <1>8 DEF Dropped
<1>11. r.items[Place(r, depth, 0)] = Dropped(r, total) + 1
  <2>1. 0 \in 0 .. depth
    OBVIOUS
  <2>2. (head + 0) % depth = head
    <3>1. (head + 0) % depth = IF head + 0 < depth THEN head + 0 ELSE head + 0 - depth
      BY <2>1, PlaceIs
    <3> QED BY <3>1
  <2>3. Place(r, depth, 0) = head
    BY <1>0, <1>1, <2>2 DEF Place
  <2> QED BY <1>0, <1>1, <1>2, <1>3, <1>5, <2>3 DEF Dropped
<1> QED BY <1>8, <1>9, <1>10, <1>11

\* The entry at a place of the ring.
LEMMA RingEntry ==
  ASSUME NEW depth \in Nat \ {0}, NEW total \in Nat, NEW r, Ring(r, depth, total),
         NEW k \in Nat, k < r.count
  PROVE  r.items[Place(r, depth, k)] = Dropped(r, total) + 1 + k
<1>1. PICK count \in 0 .. depth : count = r.count /\ count <= total /\ k \in 0 .. count - 1
  BY DEF Ring
<1>2. r.items[(r.head + k) % depth] = total - count + 1 + k
  BY <1>1 DEF Ring, Holding
<1> QED BY <1>1, <1>2 DEF Place, Dropped

LEMMA DroppedType ==
  ASSUME NEW depth \in Nat \ {0}, NEW total \in Nat, NEW r, Ring(r, depth, total)
  PROVE  /\ Dropped(r, total) \in Nat /\ r.count \in 0 .. depth /\ r.head \in 0 .. depth - 1
         /\ r.count \in Nat
BY DEF Ring, Dropped

-----------------------------------------------------------------------------
(* The replies that are made of rings which turn under them.               *)

\* The last entry of a reply, or the one before the reply.
Newest(s, before) == IF s = <<>> THEN before ELSE s[Len(s)]

LEMMA NewestType ==
  ASSUME NEW s \in Seq(Nat), NEW before \in Nat
  PROVE  Newest(s, before) \in Nat
BY DEF Newest

LEMMA RisingMore ==
  ASSUME NEW s \in Seq(Nat), NEW x \in Nat, Rising(s), s # <<>> => s[Len(s)] < x
  PROVE  Rising(Append(s, x))
<1>1. ASSUME NEW i \in 2 .. Len(s) + 1 PROVE Append(s, x)[i - 1] < Append(s, x)[i]
  <2>1. CASE i = Len(s) + 1
    <3>1. Append(s, x)[i] = x /\ Append(s, x)[i - 1] = s[Len(s)] /\ s # <<>>
      BY <2>1
    <3> QED BY <3>1
  <2>2. CASE i # Len(s) + 1
    <3>1. i \in 2 .. Len(s)
      BY <2>2
    <3>2. Append(s, x)[i] = s[i] /\ Append(s, x)[i - 1] = s[i - 1]
      BY <3>1
    <3> QED BY <3>1, <3>2 DEF Rising
  <2> QED BY <2>1, <2>2
<1>2. Len(Append(s, x)) = Len(s) + 1
  OBVIOUS
<1> QED BY <1>1, <1>2 DEF Rising

LEMMA NewestMore ==
  ASSUME NEW s \in Seq(Nat), NEW x \in Nat, NEW before
  PROVE  Append(s, x) \in Seq(Nat) /\ Newest(Append(s, x), before) = x /\ Len(Append(s, x)) = Len(s) + 1
BY DEF Newest

\* The same behind an entry that was there before.
LEMMA RisingBehind ==
  ASSUME NEW s \in Seq(Nat), NEW x \in Nat, NEW before \in Nat,
         Rising(<<before>> \o s), Newest(s, before) < x
  PROVE  Rising(<<before>> \o Append(s, x))
<1>1. PICK t \in Seq(Nat) : t = <<before>> \o s /\ Len(t) = Len(s) + 1
  <2>1. <<before>> \in Seq(Nat) /\ Len(<<before>>) = 1
    OBVIOUS
  <2>2. <<before>> \o s \in Seq(Nat) /\ Len(<<before>> \o s) = 1 + Len(s)
    BY <2>1
  <2>3. Len(<<before>> \o s) = Len(s) + 1
    BY <2>2
  <2> QED BY <2>2, <2>3, Zenon
<1>2. t # <<>> /\ t[Len(t)] = Newest(s, before)
  <2>1. CASE s = <<>>
    BY <1>1, <2>1 DEF Newest
  <2>2. CASE s # <<>>
    <3>1. Len(s) \in 1 .. Len(s)
      BY <2>2
    <3> QED BY <1>1, <2>2, <3>1 DEF Newest
  <2> QED BY <2>1, <2>2
<1>3. Rising(Append(t, x))
  BY <1>1, <1>2, RisingMore
<1>4. Append(t, x) = <<before>> \o Append(s, x)
  BY <1>1
<1> QED BY <1>3, <1>4

LEMMA RisingOne ==
  ASSUME NEW before \in Nat
  PROVE  Rising(<<>>) /\ Rising(<<before>> \o <<>>)
<1>1. Len(<<before>> \o <<>>) = 1 /\ Len(<<>>) = 0
  OBVIOUS
<1> QED BY <1>1 DEF Rising

\* The fields a reply about the rings consists of.
ReplyOK(s) ==
  /\ IsReply(s) /\ s.kind \in {"none", "log", "err", "stat"}
  /\ s.n \in Nat /\ s.i \in 0 .. s.n /\ s.burst \in Nat
  /\ s.in_hand \in BOOLEAN /\ s.overrun \in BOOLEAN

\* The entry in hand is still in the ring, no newer than what was to be shown next.
InHand(r, total, s) ==
  s.in_hand /\ s.burst <= s.i =>
    \E k \in 0 .. s.i :
      /\ k < r.count /\ s.i - k <= s.burst /\ s.e = Place(r, LOG_DEPTH, k)
      /\ Newest(s.out, 0) <= Dropped(r, total) + k

\* What SYST:LOG? has shown is older than what it has still to show.
Shown(r, total, s) ==
  s.kind = "log" =>
    /\ s.n <= r.count /\ (s.in_hand => s.i < s.n)
    /\ ~s.overrun => /\ s.out \in Seq(Nat) /\ Rising(s.out)
                     /\ Newest(s.out, 0) <= Dropped(r, total) + s.i
                     /\ InHand(r, total, s)

\* What SYST:ERR? has shown is older than what is left in the stack.
Told(r, total, s, last) ==
  /\ last <= Dropped(r, total)
  /\ s.kind = "err" => /\ s.out \in Seq(Nat) /\ Rising(<<last>> \o s.out)
                       /\ Newest(s.out, last) <= Dropped(r, total)

OrderInv ==
  /\ Ring(logs, LOG_DEPTH, logged) /\ Ring(errs, ERR_STACK_DEPTH, pushed)
  /\ logged \in Nat /\ pushed \in Nat /\ reported \in Nat /\ changes \in Nat
  /\ ReplyOK(reply) /\ Shown(logs, logged, reply) /\ Told(errs, pushed, reply, reported)

LEMMA FieldSet ==
  ASSUME NEW s, IsReply(s), NEW f \in DOMAIN NoReply, NEW v
  PROVE  LET t == [s EXCEPT ![f] = v] IN
         IsReply(t) /\ t[f] = v /\ \A g \in DOMAIN NoReply \ {f} : t[g] = s[g]
BY DEF IsReply, NoReply

LEMMA NoReplyOK ==
  /\ ReplyOK(NoReply) /\ NoReply.kind = "none" /\ NoReply.n = 0 /\ NoReply.i = 0
  /\ NoReply.burst = 0 /\ NoReply.in_hand = FALSE /\ NoReply.overrun = FALSE
  /\ NoReply.out = <<>>
BY DEF ReplyOK, IsReply, NoReply

\* The log is given k more entries under way.
LEMMA ShownFollows ==
  ASSUME NEW depth, depth = LOG_DEPTH, NEW total \in Nat, NEW k \in Nat, NEW r, NEW p, NEW s, NEW t,
         Ring(r, depth, total), Follows(p, r, depth, total, k),
         ReplyOK(s), Shown(r, total, s),
         t.kind = s.kind, t.n = s.n, t.i = s.i, t.e = s.e, t.in_hand = s.in_hand,
         t.overrun = s.overrun, t.out = s.out, t.burst = IF s.in_hand THEN s.burst + k ELSE 0
  PROVE  Shown(p, total + k, t)
<1> SUFFICES ASSUME s.kind = "log"
             PROVE  /\ t.n <= p.count /\ (t.in_hand => t.i < t.n)
                    /\ ~t.overrun => /\ t.out \in Seq(Nat) /\ Rising(t.out)
                                     /\ Newest(t.out, 0) <= Dropped(p, total + k) + t.i
                                     /\ InHand(p, total + k, t)
  BY DEF Shown
<1> LOG_DEPTH \in Nat \ {0}
  BY ObserveAssumption
<1>1. PICK rc \in Nat, pc \in Nat, lost \in 0 .. k, a \in Nat, b \in Nat :
        /\ rc = r.count /\ pc = p.count /\ rc <= pc
        /\ a = Dropped(r, total) /\ b = Dropped(p, total + k) /\ b = a + lost
        /\ \A i \in lost .. rc - 1 : Place(p, depth, i - lost) = Place(r, depth, i)
  <2>1. r.count \in Nat /\ p.count \in Nat /\ r.count <= p.count
    BY DroppedType DEF Follows
  <2>2. Dropped(r, total) \in Nat /\ Dropped(p, total + k) \in Nat
    BY DroppedType DEF Follows
  <2>3. \E lost \in 0 .. k :
          /\ Dropped(p, total + k) = Dropped(r, total) + lost
          /\ \A i \in lost .. r.count - 1 : Place(p, depth, i - lost) = Place(r, depth, i)
    BY DEF Follows
  <2> QED BY <2>1, <2>2, <2>3, SMTT(20)
<1>2. PICK n \in Nat, i \in Nat, burst \in Nat :
        n = s.n /\ i = s.i /\ i <= n /\ burst = s.burst
  BY DEF ReplyOK
<1>3. n <= rc /\ (s.in_hand => i < n)
  BY <1>1, <1>2 DEF Shown
<1>4. t.n <= p.count /\ (t.in_hand => t.i < t.n)
  BY <1>1, <1>2, <1>3
<1>5. ASSUME ~s.overrun
      PROVE  /\ s.out \in Seq(Nat) /\ Rising(s.out) /\ Newest(s.out, 0) <= b + i
             /\ InHand(p, total + k, t)
  <2>1. PICK newest \in Nat : newest = Newest(s.out, 0) /\ newest <= a + i
    BY <1>1, <1>2, <1>5, NewestType DEF Shown
  <2>2. s.out \in Seq(Nat) /\ Rising(s.out) /\ InHand(r, total, s)
    BY <1>5 DEF Shown
  <2>3. ASSUME s.in_hand, burst + k <= i
        PROVE  \E j \in 0 .. i : /\ j < pc /\ i - j <= burst + k
                                 /\ s.e = Place(p, depth, j) /\ newest <= b + j
    <3>1. burst <= i
      BY <2>3
    <3>2. PICK h \in 0 .. i : /\ h < rc /\ i - h <= burst
                              /\ s.e = Place(r, depth, h) /\ newest <= a + h
      BY <1>1, <1>2, <2>1, <2>2, <2>3, <3>1 DEF InHand
    <3>3. PICK j \in 0 .. i : j = h - lost /\ j < pc /\ i - j <= burst + k /\ newest <= b + j
      BY <1>1, <2>3, <3>2
    <3>4. h \in lost .. rc - 1
      BY <3>2, <3>3
    <3>5. Place(p, depth, j) = Place(r, depth, h)
      BY <1>1, <3>3, <3>4
    <3> QED BY <3>2, <3>3, <3>5
  <2>4. InHand(p, total + k, t)
    <3>1. t.in_hand /\ t.burst <= t.i => s.in_hand /\ burst + k <= i
      BY <1>2
    <3> QED BY <1>1, <1>2, <2>1, <2>3, <3>1 DEF InHand
  <2>5. newest <= b + i
    BY <1>1, <2>1
  <2> QED BY <2>1, <2>2, <2>4, <2>5
<1> QED BY <1>1, <1>2, <1>4, <1>5

\* The entry is taken.
LEMMA ShownTaken ==
  ASSUME NEW total \in Nat, NEW r, NEW s, NEW t,
         Ring(r, LOG_DEPTH, total), ReplyOK(s), Shown(r, total, s), s.kind = "log", ~s.in_hand, s.i < s.n,
         t.kind = s.kind, t.n = s.n, t.i = s.i, t.overrun = s.overrun, t.out = s.out,
         t.e = Place(r, LOG_DEPTH, s.i), t.in_hand = TRUE, t.burst = 0
  PROVE  Shown(r, total, t)
<1>1. PICK n \in Nat, i \in Nat, rc \in Nat :
        n = s.n /\ i = s.i /\ i <= n /\ rc = r.count /\ i < n /\ n <= rc
  BY ObserveAssumption, DroppedType DEF ReplyOK, Shown
<1>2. ASSUME ~s.overrun PROVE InHand(r, total, t)
  <2>1. Newest(s.out, 0) <= Dropped(r, total) + i
    BY <1>1, <1>2 DEF Shown
  <2>2. i \in 0 .. i /\ i < rc /\ i - i <= 0
    BY <1>1
  <2> QED BY <1>1, <2>1, <2>2 DEF InHand
<1> QED BY <1>1, <1>2 DEF Shown

\* The entry in hand is put.
LEMMA ShownPut ==
  ASSUME NEW total \in Nat, NEW r, NEW s, NEW t,
         Ring(r, LOG_DEPTH, total), ReplyOK(s), Shown(r, total, s), s.kind = "log", s.in_hand,
         t.kind = s.kind, t.n = s.n, t.i = s.i + 1, t.in_hand = FALSE,
         t.out = Append(s.out, r.items[s.e]), ~t.overrun => ~s.overrun /\ ~(s.burst > s.i)
  PROVE  Shown(r, total, t)
<1>1. PICK n \in Nat, i \in Nat, burst \in Nat, rc \in Nat, a \in Nat :
        /\ n = s.n /\ i = s.i /\ burst = s.burst /\ rc = r.count /\ i < n /\ n <= rc
        /\ a = Dropped(r, total)
  <2>1. r.count \in Nat /\ Dropped(r, total) \in Nat
    BY ObserveAssumption, DroppedType
  <2>2. s.n \in Nat /\ s.i \in Nat /\ s.burst \in Nat /\ s.i < s.n /\ s.n <= r.count
    BY DEF ReplyOK, Shown
  <2> QED BY <2>1, <2>2
<1>2. ASSUME ~t.overrun
      PROVE  /\ t.out \in Seq(Nat) /\ Rising(t.out)
             /\ Newest(t.out, 0) <= a + (i + 1)
  <2>1. /\ s.out \in Seq(Nat) /\ Rising(s.out) /\ InHand(r, total, s) /\ burst <= i
    BY <1>1, <1>2 DEF Shown
  <2>2. PICK k \in 0 .. i : k < rc /\ s.e = Place(r, LOG_DEPTH, k) /\ Newest(s.out, 0) <= a + k
    BY <1>1, <2>1 DEF InHand
  <2>3. PICK x \in Nat : x = r.items[s.e] /\ x = a + 1 + k
    <3>1. LOG_DEPTH \in Nat \ {0} /\ k \in Nat /\ k < r.count
      BY <1>1, <2>2, ObserveAssumption
    <3>2. r.items[Place(r, LOG_DEPTH, k)] = Dropped(r, total) + 1 + k
      BY <3>1, RingEntry
    <3>3. r.items[s.e] = a + 1 + k
      BY <1>1, <2>2, <3>2
    <3> QED BY <3>3
  <2>4. Newest(s.out, 0) < x
    <3>1. Newest(s.out, 0) \in Nat /\ k \in Nat
      BY <2>1, NewestType
    <3> QED BY <2>2, <2>3, <3>1
  <2>5. s.out # <<>> => s.out[Len(s.out)] < x
    BY <2>4 DEF Newest
  <2>6. t.out = Append(s.out, x)
    BY <2>3
  <2>7. Rising(t.out) /\ t.out \in Seq(Nat) /\ Newest(t.out, 0) = x
    BY <2>1, <2>5, <2>6, RisingMore, NewestMore
  <2>8. x <= a + (i + 1)
    BY <2>2, <2>3
  <2> QED BY <2>7, <2>8
<1>3. t.n <= r.count
  BY <1>1
<1> QED BY <1>1, <1>2, <1>3 DEF Shown, InHand

\* The stack is given k more errors.
LEMMA ToldFollows ==
  ASSUME NEW depth \in Nat \ {0}, NEW total \in Nat, NEW k \in Nat, NEW r, NEW p, NEW s, NEW t, NEW last \in Nat,
         Ring(r, depth, total), Follows(p, r, depth, total, k), Told(r, total, s, last),
         t.kind = s.kind, t.out = s.out
  PROVE  Told(p, total + k, t, last)
<1>1. PICK a \in Nat, b \in Nat : a = Dropped(r, total) /\ b = Dropped(p, total + k) /\ a <= b
  <2>1. Dropped(r, total) \in Nat /\ Dropped(p, total + k) \in Nat
    BY DroppedType DEF Follows
  <2>2. \E lost \in 0 .. k : Dropped(p, total + k) = Dropped(r, total) + lost
    BY DEF Follows
  <2> QED BY <2>1, <2>2
<1>2. last <= b
  BY <1>1 DEF Told
<1>3. ASSUME s.kind = "err" PROVE Newest(s.out, last) <= b
  <2>1. Newest(s.out, last) <= a /\ Newest(s.out, last) \in Nat
    BY <1>1, <1>3, NewestType DEF Told
  <2> QED BY <1>1, <2>1
<1> QED BY <1>1, <1>2, <1>3 DEF Told

\* The oldest error is popped and shown.
LEMMA ToldPut ==
  ASSUME NEW depth \in Nat \ {0}, NEW total \in Nat, NEW r, NEW s, NEW t, NEW last \in Nat,
         Ring(r, depth, total), r.count > 0, Told(r, total, s, last), s.kind = "err",
         t.out = Append(s.out, r.items[Place(r, depth, 0)])
  PROVE  Told(err_pop(r, depth), total, t, last)
<1>1. PICK a \in Nat : a = Dropped(r, total)
  BY DroppedType
<1>2. Dropped(err_pop(r, depth), total) = a + 1 /\ r.items[Place(r, depth, 0)] = a + 1
  BY <1>1, PoppedRing
<1>3. PICK x \in Nat : x = a + 1 /\ t.out = Append(s.out, x)
  BY <1>2
<1>4. s.out \in Seq(Nat) /\ Rising(<<last>> \o s.out) /\ Newest(s.out, last) < x
  BY <1>1, <1>3, NewestType, SMTT(20) DEF Told
<1>5. /\ Rising(<<last>> \o t.out) /\ t.out \in Seq(Nat) /\ Newest(t.out, last) = x
  <2>1. Rising(<<last>> \o Append(s.out, x))
    BY <1>4, RisingBehind
  <2>2. Append(s.out, x) \in Seq(Nat) /\ Newest(Append(s.out, x), last) = x
    BY <1>4, NewestMore
  <2> QED BY <1>3, <2>1, <2>2
<1>6. last <= a + 1 /\ x <= a + 1
  BY <1>1, <1>3 DEF Told
<1> QED BY <1>2, <1>5, <1>6 DEF Told

-----------------------------------------------------------------------------
(* The steps, for the rings and the replies.                               *)

LEMMA EventsType ==
  ASSUME NEW d, NEW e, IsDut(d), IsDut(e)
  PROVE  DutEvents(d, e) \in Nat
<1>1. Flipped(d.manual, e.manual) \subseteq LINES
  BY DEF Flipped, IsDut
<1>2. IsFiniteSet(Flipped(d.manual, e.manual))
  BY <1>1, DutAssumption, FS_Subset
<1> QED BY <1>2, FS_CardinalityType DEF DutEvents

LEMMA BitType == ASSUME NEW b PROVE Bit(b) \in Nat
BY DEF Bit

\* What log_events and err_pushes do.
LEMMA Logged ==
  ASSUME OrderInv, NEW n \in Nat, log_events(n)
  PROVE  /\ Follows(logs', logs, LOG_DEPTH, logged, n) /\ Ring(logs', LOG_DEPTH, logged')
         /\ logged' = logged + n /\ logged' \in Nat
<1>1. Follows(logs', logs, LOG_DEPTH, logged, n)
  BY ObserveAssumption, PushedAllFollows DEF OrderInv, log_events
<1>2. logged' = logged + n /\ logged' \in Nat
  BY DEF OrderInv, log_events
<1> QED BY <1>1, <1>2 DEF Follows

LEMMA PushedErrs ==
  ASSUME OrderInv, NEW n \in Nat, err_pushes(n)
  PROVE  /\ Follows(errs', errs, ERR_STACK_DEPTH, pushed, n) /\ Ring(errs', ERR_STACK_DEPTH, pushed')
         /\ pushed' = pushed + n /\ pushed' \in Nat
<1>1. Follows(errs', errs, ERR_STACK_DEPTH, pushed, n)
  BY ObserveAssumption, PushedAllFollows DEF OrderInv, err_pushes
<1>2. pushed' = pushed + n /\ pushed' \in Nat
  BY DEF OrderInv, err_pushes
<1> QED BY <1>1, <1>2 DEF Follows

\* No reply under way: nothing is said of it.
LEMMA NoneShown ==
  ASSUME NEW r, NEW total, NEW last, NEW s, s = NoReply \/ s.kind \in {"none", "stat"},
         last <= Dropped(r, total)
  PROVE  Told(r, total, s, last) /\ \A q, all : Shown(q, all, s)
<1>1. s.kind \in {"none", "stat"}
  BY NoReplyOK
<1> QED BY <1>1 DEF Told, Shown

\* The rings of a board that starts.
LEMMA Starts ==
  /\ Ring(Pushed(Unused(LOG_DEPTH), LOG_DEPTH, 1), LOG_DEPTH, 1)
  /\ Ring(Unused(ERR_STACK_DEPTH), ERR_STACK_DEPTH, 0) /\ 0 <= Dropped(Unused(ERR_STACK_DEPTH), 0)
<1>1. Ring(Unused(LOG_DEPTH), LOG_DEPTH, 0) /\ Ring(Unused(ERR_STACK_DEPTH), ERR_STACK_DEPTH, 0)
  BY ObserveAssumption, UnusedRing
<1>2. Follows(Pushed(Unused(LOG_DEPTH), LOG_DEPTH, 0 + 1), Unused(LOG_DEPTH), LOG_DEPTH, 0, 1)
  BY <1>1, ObserveAssumption, PushedRing
<1>3. Dropped(Unused(ERR_STACK_DEPTH), 0) \in Nat
  BY <1>1, ObserveAssumption, DroppedType
<1>4. Ring(Pushed(Unused(LOG_DEPTH), LOG_DEPTH, 1), LOG_DEPTH, 1)
  <2>1. 0 + 1 = 1
    OBVIOUS
  <2> QED BY <1>2, <2>1 DEF Follows
<1> QED BY <1>1, <1>3, <1>4

LEMMA InitOrder == Init => OrderInv
<1> SUFFICES ASSUME Init PROVE OrderInv
  OBVIOUS
<1>1. /\ logs = Pushed(Unused(LOG_DEPTH), LOG_DEPTH, 1) /\ logged = 1
      /\ errs = Unused(ERR_STACK_DEPTH) /\ pushed = 0
      /\ reply = NoReply /\ reported = 0 /\ changes = 0
  BY DEF Init
<1>2. Shown(logs, logged, reply) /\ Told(errs, pushed, reply, reported)
  BY <1>1, Starts, NoneShown
<1> QED BY <1>1, <1>2, Starts, NoReplyOK DEF OrderInv

LEMMA PollOrder == Types /\ Types' /\ OrderInv /\ svc_poll => OrderInv'
<1> SUFFICES ASSUME Types, Types', OrderInv, svc_poll PROVE OrderInv'
  OBVIOUS
<1>1. PICK up \in {net.link, cable}, saved \in BOOLEAN, alarm \in BOOLEAN :
        /\ changes' = changes + Bit(alarm)
        /\ LET d == dut_poll(dut, hands)
               n == hal_net_poll(net, up)
               b == Seen(button, user)
               events == DutEvents(dut, d) + Bit(alarm) + Bit(FallsBack(n)) + Bit(Held(b))
           IN IF Held(b) /\ saved THEN hal_reset
              ELSE /\ ~saved
                   /\ dut' = d /\ net' = Fallback(n) /\ button' = Attempted(b)
                   /\ log_events(events) /\ err_pushes(Bit(alarm) + Bit(Held(b)))
                   /\ reply' = [reply EXCEPT !.polled = reply.kind = "none",
                                 !.burst = IF reply.in_hand THEN @ + events ELSE 0]
                   /\ tries' = (IF user THEN tries ELSE 0) + Bit(Held(b))
                   /\ UNCHANGED <<told, reported>>
  BY ZenonT(30) DEF svc_poll
<1>2. changes' \in Nat
  BY <1>1, BitType DEF OrderInv
<1>3. CASE Held(Seen(button, user)) /\ saved
  <2>1. /\ logs' = Pushed(Unused(LOG_DEPTH), LOG_DEPTH, 1) /\ logged' = 1
        /\ errs' = Unused(ERR_STACK_DEPTH) /\ pushed' = 0
        /\ reply' = NoReply /\ reported' = 0
    BY <1>1, <1>3 DEF hal_reset
  <2>2. Shown(logs', logged', reply') /\ Told(errs', pushed', reply', reported')
    BY <2>1, Starts, NoneShown
  <2> QED BY <1>2, <2>1, <2>2, Starts, NoReplyOK DEF OrderInv
<1>4. CASE ~(Held(Seen(button, user)) /\ saved)
  <2>1. PICK events \in Nat, pushes \in Nat :
          /\ log_events(events) /\ err_pushes(pushes)
          /\ reply' = [reply EXCEPT !.polled = reply.kind = "none",
                        !.burst = IF reply.in_hand THEN reply.burst + events ELSE 0]
          /\ reported' = reported
    <3> DEFINE d == dut_poll(dut, hands)
               n == hal_net_poll(net, up)
               b == Seen(button, user)
               events == DutEvents(dut, d) + Bit(alarm) + Bit(FallsBack(n)) + Bit(Held(b))
               pushes == Bit(alarm) + Bit(Held(b))
    <3>1. /\ dut' = d /\ log_events(events) /\ err_pushes(pushes)
          /\ reply' = [reply EXCEPT !.polled = reply.kind = "none",
                        !.burst = IF reply.in_hand THEN reply.burst + events ELSE 0]
          /\ reported' = reported
      BY <1>1, <1>4
    <3>2. IsDut(dut) /\ IsDut(dut')
      BY DEF Types
    <3>3. DutEvents(dut, d) \in Nat
      BY <3>1, <3>2, EventsType
    <3>4. events \in Nat /\ pushes \in Nat
      BY <3>3, BitType
    <3> HIDE DEF events, pushes
    <3> QED BY <3>1, <3>4
  <2>2. PICK burst \in Nat : burst = IF reply.in_hand THEN reply.burst + events ELSE 0
    BY DEF OrderInv, ReplyOK
  <2>3. PICK first : first = [reply EXCEPT !.polled = reply.kind = "none"]
    OBVIOUS
  <2>4. reply' = [first EXCEPT !.burst = burst]
    BY <2>1, <2>2, <2>3
  <2>5. IsReply(first) /\ \A g \in DOMAIN NoReply \ {"polled"} : first[g] = reply[g]
    <3>1. "polled" \in DOMAIN NoReply /\ IsReply(reply)
      BY DEF NoReply, OrderInv, ReplyOK
    <3> QED BY <2>3, <3>1, FieldSet
  <2>6. IsReply(reply') /\ reply'["burst"] = burst /\ \A g \in DOMAIN NoReply \ {"burst"} : reply'[g] = first[g]
    <3>1. "burst" \in DOMAIN NoReply
      BY DEF NoReply
    <3> QED BY <2>4, <2>5, <3>1, FieldSet
  <2>7. /\ IsReply(reply') /\ reply'.burst = burst /\ reply'.kind = reply.kind /\ reply'.n = reply.n
        /\ reply'.i = reply.i /\ reply'.e = reply.e /\ reply'.in_hand = reply.in_hand
        /\ reply'.overrun = reply.overrun /\ reply'.out = reply.out
    <3>1. {"kind", "n", "i", "e", "in_hand", "overrun", "out"} \subseteq DOMAIN NoReply \ {"polled", "burst"}
      BY DEF NoReply
    <3> QED BY <2>5, <2>6, <3>1
  <2>8. ReplyOK(reply')
    BY <2>7 DEF OrderInv, ReplyOK
  <2>9. /\ Follows(logs', logs, LOG_DEPTH, logged, events) /\ Ring(logs', LOG_DEPTH, logged')
        /\ logged' = logged + events /\ logged' \in Nat
    BY <2>1, Logged
  <2>10. /\ Follows(errs', errs, ERR_STACK_DEPTH, pushed, pushes) /\ Ring(errs', ERR_STACK_DEPTH, pushed')
         /\ pushed' = pushed + pushes /\ pushed' \in Nat
    BY <2>1, PushedErrs
  <2>11. Shown(logs', logged + events, reply')
    BY <2>2, <2>7, <2>9, ShownFollows DEF OrderInv
  <2>12. Told(errs', pushed + pushes, reply', reported)
    BY <2>7, <2>10, ObserveAssumption, ToldFollows DEF OrderInv
  <2> QED BY <1>2, <2>1, <2>8, <2>9, <2>10, <2>11, <2>12 DEF OrderInv
<1> QED BY <1>3, <1>4

\* Entries are added, and no reply is under way.
LEMMA QuietOrder ==
  ASSUME OrderInv, reply' = NoReply, reported' = reported, changes' \in Nat,
         NEW n \in Nat, log_events(n), (\E k \in Nat : err_pushes(k)) \/ UNCHANGED <<errs, pushed>>
  PROVE  OrderInv'
<1>1. Ring(logs', LOG_DEPTH, logged') /\ logged' \in Nat
  BY Logged
<1>2. /\ Ring(errs', ERR_STACK_DEPTH, pushed') /\ pushed' \in Nat /\ reported' \in Nat
      /\ Told(errs', pushed', reply, reported')
  <2>1. ASSUME NEW k \in Nat, err_pushes(k)
        PROVE  /\ Ring(errs', ERR_STACK_DEPTH, pushed') /\ pushed' \in Nat
               /\ Told(errs', pushed', reply, reported)
    <3>1. /\ Follows(errs', errs, ERR_STACK_DEPTH, pushed, k) /\ Ring(errs', ERR_STACK_DEPTH, pushed')
          /\ pushed' = pushed + k /\ pushed' \in Nat
      BY <2>1, PushedErrs
    <3>2. Told(errs', pushed + k, reply, reported)
      BY <3>1, ObserveAssumption, ToldFollows DEF OrderInv
    <3> QED BY <3>1, <3>2
  <2>2. CASE UNCHANGED <<errs, pushed>>
    BY <2>2 DEF OrderInv
  <2> QED BY <2>1, <2>2 DEF OrderInv
<1>3. reported' <= Dropped(errs', pushed')
  BY <1>2 DEF Told
<1>4. Shown(logs', logged', reply') /\ Told(errs', pushed', reply', reported')
  BY <1>3, NoneShown
<1> QED BY <1>1, <1>2, <1>4, NoReplyOK DEF OrderInv

\* A reply begins: nothing else moves.
LEMMA BeginsOrder ==
  ASSUME OrderInv, UNCHANGED <<logs, logged, errs, pushed, reported, changes>>,
         ReplyOK(reply'), reply'.i = 0, reply'.in_hand = FALSE, reply'.out = <<>>,
         reply'.kind = "log" => reply'.n = logs.count
  PROVE  OrderInv'
<1>1. PICK a \in Nat, b \in Nat, c \in Nat :
        a = Dropped(logs, logged) /\ b = Dropped(errs, pushed) /\ c = logs.count
  BY ObserveAssumption, DroppedType DEF OrderInv
<1>2. <<>> \in Seq(Nat) /\ Rising(<<>>) /\ Rising(<<reported>> \o <<>>)
  BY RisingOne DEF OrderInv
<1>3. Newest(<<>>, 0) = 0 /\ Newest(<<>>, reported) = reported
  BY DEF Newest
<1>4. reported <= b
  BY <1>1 DEF OrderInv, Told
<1>5. Shown(logs, logged, reply')
  <2>1. 0 <= a + 0 /\ c <= c
    BY <1>1
  <2> QED BY <1>1, <1>2, <1>3, <2>1 DEF Shown, InHand
<1>6. Told(errs, pushed, reply', reported)
  BY <1>1, <1>2, <1>3, <1>4 DEF Told
<1> QED BY <1>5, <1>6 DEF OrderInv

LEMMA CommandOrder == Types /\ Types' /\ OrderInv /\ Commands => OrderInv'
<1> SUFFICES ASSUME Types, Types', OrderInv, Commands PROVE OrderInv'
  OBVIOUS
<1>0. ASSUME Change PROVE changes' \in Nat
  BY <1>0 DEF Change, OrderInv
<1>1. ASSUME NEW mask \in SUBSET LINES \ {{}}, NEW on \in BOOLEAN, cmd_dut_set(mask, on)
      PROVE  OrderInv'
  <2>1. PICK n \in Nat : log_events(n)
    <3>1. dut' = set_lines(dut, mask, on) /\ log_events(1 + DutEvents(dut, set_lines(dut, mask, on)))
      BY <1>1 DEF cmd_dut_set
    <3>2. DutEvents(dut, set_lines(dut, mask, on)) \in Nat
      <4>1. IsDut(dut) /\ IsDut(dut')
        BY DEF Types
      <4> QED BY <3>1, <4>1, EventsType
    <3>3. 1 + DutEvents(dut, set_lines(dut, mask, on)) \in Nat
      BY <3>2
    <3> QED BY <3>1, <3>3
  <2>2. /\ reply' = NoReply /\ reported' = reported /\ changes' \in Nat
        /\ UNCHANGED <<errs, pushed>>
    BY <1>0, <1>1 DEF cmd_dut_set
  <2> QED BY <2>1, <2>2, QuietOrder
<1>2. CASE Refused
  <2>1. /\ log_events(1) /\ err_pushes(1) /\ 1 \in Nat
        /\ reply' = NoReply /\ reported' = reported /\ changes' \in Nat
    BY <1>0, <1>2 DEF Refused, history
  <2> QED BY <2>1, QuietOrder
<1>3. CASE cmd_dut_stat
  <2>1. UNCHANGED <<logs, logged, errs, pushed, reported, changes>>
    BY <1>3 DEF cmd_dut_stat, rings, history
  <2>2. /\ ReplyOK(reply') /\ reply'.kind = "stat" /\ reply'.i = 0 /\ reply'.in_hand = FALSE
        /\ reply'.out = <<>>
    <3>1. /\ IsReply(reply') /\ reply'.kind = "stat" /\ reply'.i = 0 /\ reply'.in_hand = FALSE
          /\ reply'.out = <<>> /\ reply'.n = 0 /\ reply'.burst = 0 /\ reply'.overrun = FALSE
      BY <1>3 DEF cmd_dut_stat, NoReply, IsReply
    <3>2. reply'.in_hand \in BOOLEAN /\ reply'.overrun \in BOOLEAN
      BY <3>1, Zenon
    <3> QED BY <3>1, <3>2 DEF ReplyOK
  <2> QED BY <2>1, <2>2, BeginsOrder
<1>4. CASE h_syst_log
  <2>1. UNCHANGED <<logs, logged, errs, pushed, reported, changes>>
    BY <1>4 DEF h_syst_log, rings, history
  <2>2. PICK n \in Nat : n = logs.count
    BY ObserveAssumption, DroppedType DEF OrderInv
  <2>3. reply' = [NoReply EXCEPT !.kind = "log", !.n = n]
    BY <1>4, <2>2 DEF h_syst_log
  <2>4. /\ ReplyOK(reply') /\ reply'.kind = "log" /\ reply'.i = 0 /\ reply'.in_hand = FALSE
        /\ reply'.out = <<>> /\ reply'.n = n
    <3>1. /\ IsReply(reply') /\ reply'.kind = "log" /\ reply'.i = 0 /\ reply'.in_hand = FALSE
          /\ reply'.out = <<>> /\ reply'.n = n /\ reply'.burst = 0 /\ reply'.overrun = FALSE
      BY <2>3 DEF NoReply, IsReply
    <3>2. reply'.in_hand \in BOOLEAN /\ reply'.overrun \in BOOLEAN
      BY <3>1, Zenon
    <3> QED BY <3>1, <3>2 DEF ReplyOK
  <2> QED BY <2>1, <2>2, <2>4, BeginsOrder
<1>5. CASE h_syst_err
  <2>1. UNCHANGED <<logs, logged, errs, pushed, reported, changes>>
    BY <1>5 DEF h_syst_err, rings, history
  <2>2. /\ ReplyOK(reply') /\ reply'.kind = "err" /\ reply'.i = 0 /\ reply'.in_hand = FALSE
        /\ reply'.out = <<>>
    BY <1>5 DEF h_syst_err, NoReply, ReplyOK, IsReply
  <2> QED BY <2>1, <2>2, BeginsOrder
<1> QED BY <1>1, <1>2, <1>3, <1>4, <1>5 DEF Commands

LEMMA StreamOrder == OrderInv /\ (Streams \/ WriteFails) => OrderInv'
<1> SUFFICES ASSUME OrderInv, Streams \/ WriteFails PROVE OrderInv'
  OBVIOUS
<1>1. {"kind", "n", "i", "e", "in_hand", "burst", "overrun", "out", "closed"} \subseteq DOMAIN NoReply
  BY DEF NoReply
<1>2. IsReply(reply)
  BY DEF OrderInv, ReplyOK
<1>3. ReplyOK(reply) /\ LOG_DEPTH \in Nat \ {0} /\ ERR_STACK_DEPTH \in Nat \ {0}
  BY ObserveAssumption DEF OrderInv
<1>4. CASE WriteFails
  <2>1. /\ reply' = [reply EXCEPT !.closed = TRUE]
        /\ UNCHANGED <<logs, logged, errs, pushed, reported, changes>>
    BY <1>4 DEF WriteFails, rings, history
  <2>2. IsReply(reply') /\ \A g \in DOMAIN NoReply \ {"closed"} : reply'[g] = reply[g]
    BY <1>1, <1>2, <2>1, FieldSet
  <2>3. /\ reply'.kind = reply.kind /\ reply'.n = reply.n /\ reply'.i = reply.i /\ reply'.e = reply.e
        /\ reply'.in_hand = reply.in_hand /\ reply'.burst = reply.burst
        /\ reply'.overrun = reply.overrun /\ reply'.out = reply.out
    BY <1>1, <2>2
  <2> QED BY <2>1, <2>2, <2>3 DEF OrderInv, ReplyOK, Shown, InHand, Told
<1>5. CASE LogTakes
  <2>1. /\ reply.kind = "log" /\ ~reply.in_hand /\ reply.i < reply.n
        /\ reply' = [reply EXCEPT !.e = Place(logs, LOG_DEPTH, reply.i), !.in_hand = TRUE, !.burst = 0]
        /\ UNCHANGED <<logs, logged, errs, pushed, reported, changes>>
    BY <1>5 DEF LogTakes, rings, history
  <2>2. PICK e : e = Place(logs, LOG_DEPTH, reply.i)
    OBVIOUS
  <2>3. PICK r1 : r1 = [reply EXCEPT !.e = e]
    OBVIOUS
  <2>4. PICK r2 : r2 = [r1 EXCEPT !.in_hand = TRUE]
    OBVIOUS
  <2>5. reply' = [r2 EXCEPT !.burst = 0]
    BY <2>1, <2>2, <2>3, <2>4
  <2>6. IsReply(r1) /\ r1["e"] = e /\ \A g \in DOMAIN NoReply \ {"e"} : r1[g] = reply[g]
    BY <1>1, <1>2, <2>3, FieldSet
  <2>7. IsReply(r2) /\ r2["in_hand"] = TRUE /\ \A g \in DOMAIN NoReply \ {"in_hand"} : r2[g] = r1[g]
    BY <1>1, <1>2, <2>4, <2>6, FieldSet, SMTT(20)
  <2>8. IsReply(reply') /\ reply'["burst"] = 0 /\ \A g \in DOMAIN NoReply \ {"burst"} : reply'[g] = r2[g]
    BY <1>1, <1>2, <2>5, <2>7, FieldSet
  <2>9. /\ reply'.kind = reply.kind /\ reply'.n = reply.n /\ reply'.i = reply.i /\ reply'.e = e
        /\ reply'.in_hand = TRUE /\ reply'.burst = 0
        /\ reply'.overrun = reply.overrun /\ reply'.out = reply.out
    BY <1>1, <2>6, <2>7, <2>8
  <2>10. ReplyOK(reply')
    <3>1. /\ reply.kind \in {"none", "log", "err", "stat"} /\ reply.n \in Nat
          /\ reply.i \in 0 .. reply.n /\ reply.overrun \in BOOLEAN
      BY <1>3 DEF ReplyOK
    <3>2. reply'.in_hand \in BOOLEAN /\ reply'.overrun \in BOOLEAN
      BY <2>9, <3>1, Zenon
    <3> QED BY <2>8, <2>9, <3>1, <3>2 DEF ReplyOK
  <2>11. Shown(logs, logged, reply')
    BY <2>1, <2>2, <2>9, ShownTaken DEF OrderInv
  <2>12. Told(errs, pushed, reply', reported)
    BY <2>9 DEF Told, OrderInv
  <2> QED BY <2>1, <2>10, <2>11, <2>12 DEF OrderInv
<1>6. CASE LogPuts
  <2>1. /\ reply.kind = "log" /\ reply.in_hand
        /\ UNCHANGED <<logs, logged, errs, pushed, reported, changes>>
    BY <1>6 DEF LogPuts, rings, history
  <2>2. PICK out, i, overrun :
          /\ out = Append(reply.out, logs.items[reply.e]) /\ i = reply.i + 1
          /\ overrun = (reply.overrun \/ reply.burst > reply.i)
    OBVIOUS
  <2>3. reply' = [reply EXCEPT !.out = out, !.i = i, !.in_hand = FALSE, !.burst = 0, !.overrun = overrun]
    BY <1>6, <2>2 DEF LogPuts
  <2>4. PICK r1 : r1 = [reply EXCEPT !.out = out]
    OBVIOUS
  <2>5. PICK r2 : r2 = [r1 EXCEPT !.i = i]
    OBVIOUS
  <2>6. PICK r3 : r3 = [r2 EXCEPT !.in_hand = FALSE]
    OBVIOUS
  <2>7. PICK r4 : r4 = [r3 EXCEPT !.burst = 0]
    OBVIOUS
  <2>8. reply' = [r4 EXCEPT !.overrun = overrun]
    BY <2>3, <2>4, <2>5, <2>6, <2>7
  <2>9. IsReply(r1) /\ r1["out"] = out /\ \A g \in DOMAIN NoReply \ {"out"} : r1[g] = reply[g]
    BY <1>1, <1>2, <2>4, FieldSet
  <2>10. IsReply(r2) /\ r2["i"] = i /\ \A g \in DOMAIN NoReply \ {"i"} : r2[g] = r1[g]
    BY <1>1, <1>2, <2>5, <2>9, FieldSet
  <2>11. IsReply(r3) /\ r3["in_hand"] = FALSE /\ \A g \in DOMAIN NoReply \ {"in_hand"} : r3[g] = r2[g]
    BY <1>1, <1>2, <2>6, <2>10, FieldSet, SMTT(20)
  <2>12. IsReply(r4) /\ r4["burst"] = 0 /\ \A g \in DOMAIN NoReply \ {"burst"} : r4[g] = r3[g]
    BY <1>1, <1>2, <2>7, <2>11, FieldSet
  <2>13. IsReply(reply') /\ reply'["overrun"] = overrun /\ \A g \in DOMAIN NoReply \ {"overrun"} : reply'[g] = r4[g]
    BY <1>1, <1>2, <2>8, <2>12, FieldSet
  <2>14. /\ reply'.kind = reply.kind /\ reply'.n = reply.n /\ reply'.i = i
         /\ reply'.in_hand = FALSE /\ reply'.burst = 0
         /\ reply'.overrun = overrun /\ reply'.out = out
    BY <1>1, <2>9, <2>10, <2>11, <2>12, <2>13
  <2>15. overrun \in BOOLEAN /\ (~overrun => ~reply.overrun /\ ~(reply.burst > reply.i))
    BY <2>2
  <2>16. reply.i < reply.n
    BY <2>1 DEF OrderInv, Shown
  <2>17. i \in 0 .. reply.n
    BY <1>3, <2>2, <2>16 DEF ReplyOK
  <2>18. ReplyOK(reply')
    <3>1. reply.kind \in {"none", "log", "err", "stat"} /\ reply.n \in Nat
      BY <1>3 DEF ReplyOK
    <3>2. reply'.in_hand \in BOOLEAN /\ reply'.overrun \in BOOLEAN
      BY <2>14, <2>15, Zenon
    <3> QED BY <2>13, <2>14, <2>17, <3>1, <3>2 DEF ReplyOK
  <2>19. Shown(logs, logged, reply')
    BY <2>1, <2>2, <2>14, <2>15, ShownPut DEF OrderInv
  <2>20. Told(errs, pushed, reply', reported)
    BY <2>1, <2>14 DEF Told, OrderInv
  <2> QED BY <2>1, <2>18, <2>19, <2>20 DEF OrderInv
<1>7. CASE ErrPuts
  <2>1. /\ reply.kind = "err" /\ errs.count > 0 /\ errs' = err_pop(errs, ERR_STACK_DEPTH)
        /\ UNCHANGED <<logs, logged, pushed, reported, changes>>
    BY <1>7 DEF ErrPuts, history
  <2>2. PICK out : out = Append(reply.out, errs.items[Place(errs, ERR_STACK_DEPTH, 0)])
    OBVIOUS
  <2>3. reply' = [reply EXCEPT !.out = out]
    BY <1>7, <2>2 DEF ErrPuts
  <2>4. IsReply(reply') /\ reply'["out"] = out /\ \A g \in DOMAIN NoReply \ {"out"} : reply'[g] = reply[g]
    BY <1>1, <1>2, <2>3, FieldSet
  <2>5. /\ reply'.kind = reply.kind /\ reply'.n = reply.n /\ reply'.i = reply.i /\ reply'.e = reply.e
        /\ reply'.in_hand = reply.in_hand /\ reply'.burst = reply.burst
        /\ reply'.overrun = reply.overrun /\ reply'.out = out
    BY <1>1, <2>4
  <2>6. ReplyOK(reply')
    BY <1>3, <2>4, <2>5 DEF ReplyOK
  <2>7. Shown(logs, logged, reply')
    BY <2>1, <2>5 DEF Shown
  <2>8. Told(errs', pushed, reply', reported)
    BY <1>3, <2>1, <2>2, <2>5, ToldPut DEF OrderInv
  <2>9. Ring(errs', ERR_STACK_DEPTH, pushed)
    BY <1>3, <2>1, PoppedRing DEF OrderInv
  <2> QED BY <2>1, <2>6, <2>7, <2>8, <2>9 DEF OrderInv
<1>8. CASE resp_end
  <2>1. /\ reply' = NoReply /\ UNCHANGED <<logs, logged, errs, pushed, changes>>
        /\ reported' = IF reply.kind = "err" /\ ~reply.closed /\ reply.out # <<>>
                       THEN reply.out[Len(reply.out)] ELSE reported
    BY <1>8 DEF resp_end, rings
  <2>2. reported' \in Nat /\ reported' <= Dropped(errs, pushed)
    <3>1. CASE reply.kind = "err" /\ ~reply.closed /\ reply.out # <<>>
      <4>1. /\ reply.out \in Seq(Nat) /\ Newest(reply.out, reported) <= Dropped(errs, pushed)
        BY <3>1 DEF OrderInv, Told
      <4>2. reported' = Newest(reply.out, reported)
        BY <2>1, <3>1 DEF Newest
      <4> QED BY <4>1, <4>2, NewestType DEF OrderInv
    <3>2. CASE ~(reply.kind = "err" /\ ~reply.closed /\ reply.out # <<>>)
      BY <2>1, <3>2 DEF OrderInv, Told
    <3> QED BY <3>1, <3>2
  <2>3. Shown(logs, logged, reply') /\ Told(errs, pushed, reply', reported')
    BY <2>1, <2>2, NoneShown
  <2> QED BY <2>1, <2>2, <2>3, NoReplyOK DEF OrderInv
<1> QED BY <1>4, <1>5, <1>6, <1>7, <1>8 DEF Streams

LEMMA RestOrder == OrderInv /\ (Outside \/ ServerAnswers \/ Tick \/ UNCHANGED vars) => OrderInv'
<1> SUFFICES ASSUME OrderInv, Outside \/ ServerAnswers \/ Tick \/ UNCHANGED vars PROVE OrderInv'
  OBVIOUS
<1>1. UNCHANGED <<logs, logged, errs, pushed, reply, reported>>
  BY DEF Outside, ServerAnswers, Tick, vars, rings, history
<1>2. changes' \in Nat
  BY DEF Outside, ServerAnswers, Tick, vars, Change, OrderInv
<1> QED BY <1>1, <1>2 DEF OrderInv

\* SYST:LOG? shows the log from the oldest to the newest entry although the ring turns while
\* it is streamed, and SYST:ERR? an error once and in order (h_syst_log, log_at, err_pop,
\* resp_put), whatever the depths of the rings.
THEOREM OrderTheorem == Spec => []ReportsInOrder
<1>1. Inv /\ Inv' /\ OrderInv /\ [Next]_vars => OrderInv'
  BY PollOrder, CommandOrder, StreamOrder, RestOrder DEF Next, Inv
<1>2. Inv /\ OrderInv => ReportsInOrder
  <2> SUFFICES ASSUME Inv, OrderInv PROVE ReportsInOrder
    OBVIOUS
  <2>1. TypeOK
    BY ObserveAssumption, DroppedType DEF Inv, Types, OrderInv, ReplyOK, TypeOK
  <2>2. /\ reply.kind = "log" /\ ~reply.overrun => Rising(reply.out)
        /\ reply.kind = "err" => Rising(<<reported>> \o reply.out)
    BY DEF OrderInv, Shown, Told
  <2> QED BY <2>1, <2>2 DEF ReportsInOrder
<1> QED BY <1>1, <1>2, InitOrder, ObserveInv, PTL DEF Spec
=============================================================================
