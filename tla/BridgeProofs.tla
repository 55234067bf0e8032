---------------------------- MODULE BridgeProofs ----------------------------
(* Theorems about Bridge, for every value of its constants. *)
EXTENDS Bridge, Integers, SequenceTheorems, TLAPS

-----------------------------------------------------------------------------
(* The inductive invariant.                                                *)

Jobs == {"script", "update"}
Infos == {"none", "EOF", "IDLE", "RECEIVING", "TRIAL", "CONFIRMED", "old", "new", "rolled_back",
          "unsafe"}
Replies == [cmd : Commands, ok : BOOLEAN, info : Infos]
Sent == [cmd : Commands, by : Epochs \cup {NONE}, at : Epochs]
Devices == [by : Epochs \cup {NONE}, safe_at : Epochs,
            upd : {"IDLE", "RECEIVING", "TRIAL", "CONFIRMED"}, rolled : BOOLEAN]
Workers == [pc : Places, op : Operations, active : Epochs \cup {NONE}, meant : Epochs \cup {NONE},
            cmd : Commands, plan : Seq({"set", "query", "wait", "prompt", "SAFE", "BEGIN", "DATA", "COMMIT"}),
            safe_sent : BOOLEAN, reply : Replies, about : Replies,
            raised : {"none", "failed", "cancelled"}]

\* A counter that is bounded counts what its bound is about.
TypesInv ==
  /\ epoch \in Epochs /\ served \in Epochs
  /\ {pressing, urgent, cancel, answer, connected, safe_acknowledged, confirm_update}
       \subseteq BOOLEAN
  /\ tasks \in Seq([op : Operations, epoch : Epochs])
  /\ job \in [kind : {"none"} \cup Jobs, status : Statuses]
  /\ used \in [tasks : 0 .. MAX_TASKS, answers : 0 .. MAX_ANSWERS, sessions : Nat]
  /\ Len(tasks) <= used.tasks /\ answering \in 0 .. used.answers
  /\ session \in {"none", "up", "dead"}
  /\ wire \in Seq(Sent) /\ lines \in Seq(Replies) /\ dev \in Devices

\* What a worker may be doing: each operation has its commands and its plan.
Able(v) ==
  /\ v.op \in {"none", "urgent", "poll", "disconnect"} => v.cmd \in {"none", "SAFE", "query"}
  /\ v.op \in {"connect", "refresh"} => /\ v.cmd \in {"none", "SAFE", "query"}
                                        /\ v.plan \in Seq({"query"})
                                        /\ v.cmd = "SAFE" => v.plan # <<>>
  /\ v.op = "set" => v.cmd \in {"none", "set"}
  /\ v.op = "query" => v.cmd \in {"none", "query"}
  /\ v.op = "script" => /\ v.cmd \in {"none", "set", "query"}
                        /\ v.plan \in Seq({"set", "query", "wait", "prompt"})
  /\ v.op = "update" =>
       /\ v.cmd # "set"
       /\ v.plan \in {<<>>, <<"COMMIT">>, <<"DATA", "COMMIT">>, <<"BEGIN", "DATA", "COMMIT">>,
                      <<"SAFE", "BEGIN", "DATA", "COMMIT">>}
       /\ v.cmd \in {"COMMIT", "STAT", "IDN", "ERR", "CONFIRM", "query"} => v.plan = <<>>
  /\ v.op \notin {"none", "urgent", "poll"} => v.active = v.meant /\ v.active \in Epochs

\* A SAFE goes after a command only once, and never after a SAFE.
Exchanging(v) ==
  /\ v.pc \in {"send", "urgent"} => ~v.safe_sent
  /\ v.pc \in {"urgent", "safeReply"} \/ (v.pc = "await" /\ v.safe_sent) => v.cmd # "SAFE"
  /\ v.pc = "safeReply" => v.reply.cmd = v.cmd
  /\ v.cmd = "ABORT" => v.raised # "none"
  /\ v.pc \in {"send", "await", "urgent", "safeReply"} => v.cmd # "none"
  /\ v.pc = "watch" => v.op = "update" /\ v.plan = <<>>
  /\ v.pc \in {"loop", "get"} => v.op = "none"
  /\ v.pc \in {"loop", "get", "got"} => v.cmd = "none" /\ v.plan = <<>>

WorkerInv == w \in Workers /\ Able(w) /\ Exchanging(w)

\* The replies ls and commands ws under way are those awaited, as far as the link goes.
Synced(s, ls, ws, awaited) ==
  /\ s = "up" =>
       /\ Len(ls) + Len(ws) = Len(awaited)
       /\ \A i \in 1 .. Len(ls) : ls[i].cmd = awaited[i]
       /\ \A i \in 1 .. Len(ws) : ws[i].cmd = awaited[Len(ls) + i]
  /\ s = "dead" =>
       /\ Len(ls) \in 1 .. Len(awaited) + 1 /\ ls[Len(ls)] = EOF
       /\ \A i \in 1 .. Len(ls) - 1 : ls[i].cmd = awaited[i]
  /\ s = "none" => ls = <<>>
  /\ s # "up" => ws = <<>>

StepInv == Synced(session, lines, wire, Awaited)

\* No command that waits to be executed is older than the last SAFE.
EpochInv ==
  /\ NoOldIntention /\ dev.safe_at <= epoch
  /\ session # "up" => dev.by = NONE
  /\ \A i \in 1 .. Len(wire) : /\ wire[i].at <= epoch
                               /\ wire[i].cmd = "set" => wire[i].by # NONE /\ wire[i].by >= dev.safe_at

\* What is not safe any more, or again, is told by a reply that is not read yet.
Telling(r) == r.cmd \notin Queries /\ (r.ok \/ r.info = "unsafe")
AckInv ==
  /\ \A i \in 1 .. Len(lines) : lines[i].cmd = "SAFE" /\ lines[i].ok => dev.by = NONE
  /\ safe_acknowledged /\ dev.by # NONE =>
       \/ lines # <<>> /\ Telling(lines[1])
       \/ \E i \in 1 .. Len(Awaited) : Awaited[i] = "SAFE"

\* One job at a time, and it is active until its operation ends.
JobInv ==
  /\ w.op \in Jobs => job.kind = w.op /\ JobActive /\ tasks = <<>>
  /\ \A i \in 1 .. Len(tasks) : tasks[i].op \in Jobs =>
       job.kind = tasks[i].op /\ JobActive /\ Len(tasks) = 1

\* What a reply says of the update still holds, and so does what led to a command.
Holds(r, upd) ==
  /\ r.cmd = "STAT" => /\ r.info \in {"IDLE", "RECEIVING", "TRIAL", "CONFIRMED"}
                       /\ r.info \in {"IDLE", "CONFIRMED"} => upd = r.info
  /\ r.cmd = "IDN" => r.info \in {"old", "new"}
  /\ r.cmd = "CONFIRM" => r.info = "none" /\ (r.ok => upd = "CONFIRMED")
RepliesInv == \A i \in 1 .. Len(lines) : Holds(lines[i], dev.upd)
Founded(v, upd) ==
  /\ v.pc = "safeReply" => Holds(v.reply, upd)
  /\ v.op = "update" =>
       /\ v.cmd = "IDN" /\ v.about.info # "TRIAL" => upd = "CONFIRMED"
       /\ v.cmd = "ERR" => upd = "IDLE"
       /\ v.cmd = "query" =>
            \/ v.about.cmd = "CONFIRM" /\ v.about.info = "none" /\ upd = "CONFIRMED"
            \/ v.about.cmd = "ERR" /\ upd = "IDLE"
VerdictInv == VerdictIsTrue /\ Founded(w, dev.upd)

Inv == TypesInv /\ WorkerInv /\ StepInv /\ EpochInv /\ AckInv /\ JobInv
       /\ RepliesInv /\ VerdictInv

-----------------------------------------------------------------------------
(* The records of the worker.                                              *)

\* What no step of an operation changes, and what an exchange keeps besides.
SameOperation(v, u) == v.op = u.op /\ v.active = u.active /\ v.meant = u.meant
SameRest(v, u) == v.reply = u.reply /\ v.raised = u.raised

LEMMA IdleFields ==
  /\ Idle \in Workers /\ Able(Idle) /\ Exchanging(Idle) /\ (\A upd : Founded(Idle, upd))
  /\ Idle.pc = "loop" /\ Idle.op = "none" /\ Idle.cmd = "none"
<1>1. <<>> \in Seq({"set", "query", "wait", "prompt", "SAFE", "BEGIN", "DATA", "COMMIT"})
  OBVIOUS
<1>2. Idle \in Workers
  BY <1>1 DEF Idle, Nothing, Workers, Places, Operations, Commands, Replies, Infos
<1>3. Able(Idle) /\ Exchanging(Idle) /\ \A upd : Founded(Idle, upd)
  BY DEF Idle, Able, Exchanging, Founded
<1> QED
  BY <1>2, <1>3 DEF Idle

LEMMA AtFields ==
  ASSUME w \in Workers, NEW pc \in Places
  PROVE  /\ At(pc) \in Workers /\ At(pc).pc = pc
         /\ SameOperation(At(pc), w) /\ SameRest(At(pc), w)
         /\ At(pc).cmd = w.cmd /\ At(pc).plan = w.plan /\ At(pc).about = w.about
         /\ At(pc).safe_sent = w.safe_sent
BY DEF At, Workers, SameOperation, SameRest

LEMMA ExchangeFields ==
  ASSUME w \in Workers, NEW cmd \in Commands
  PROVE  /\ Exchange(cmd) \in Workers /\ Exchange(cmd).pc = "send" /\ Exchange(cmd).cmd = cmd
         /\ ~Exchange(cmd).safe_sent
         /\ SameOperation(Exchange(cmd), w) /\ SameRest(Exchange(cmd), w)
         /\ Exchange(cmd).plan = w.plan /\ Exchange(cmd).about = w.about
BY DEF Exchange, Workers, Places, SameOperation, SameRest

\* One field more.
LEMMA MoreFields ==
  ASSUME NEW v \in Workers
  PROVE  /\ \A r \in Replies :
              LET x == [v EXCEPT !.about = r]
              IN /\ x \in Workers /\ x.about = r /\ SameOperation(x, v) /\ SameRest(x, v)
                 /\ x.pc = v.pc /\ x.cmd = v.cmd /\ x.plan = v.plan /\ x.safe_sent = v.safe_sent
         /\ \A r \in Replies :
              LET x == [v EXCEPT !.reply = r]
              IN /\ x \in Workers /\ x.reply = r /\ SameOperation(x, v) /\ x.about = v.about
                 /\ x.raised = v.raised
                 /\ x.pc = v.pc /\ x.cmd = v.cmd /\ x.plan = v.plan /\ x.safe_sent = v.safe_sent
         /\ \A status \in {"failed", "cancelled"} :
              LET x == [v EXCEPT !.raised = status]
              IN /\ x \in Workers /\ x.raised = status /\ SameOperation(x, v) /\ x.about = v.about
                 /\ x.pc = v.pc /\ x.cmd = v.cmd /\ x.plan = v.plan /\ x.safe_sent = v.safe_sent
         /\ \A cmd \in Commands :
              LET x == [v EXCEPT !.cmd = cmd]
              IN /\ x \in Workers /\ x.cmd = cmd /\ SameOperation(x, v) /\ SameRest(x, v)
                 /\ x.pc = v.pc /\ x.plan = v.plan /\ x.safe_sent = v.safe_sent /\ x.about = v.about
         /\ LET x == [v EXCEPT !.safe_sent = TRUE]
            IN /\ x \in Workers /\ x.safe_sent /\ SameOperation(x, v) /\ SameRest(x, v)
               /\ x.pc = v.pc /\ x.plan = v.plan /\ x.cmd = v.cmd /\ x.about = v.about
         /\ \A plan \in Seq({"set", "query", "wait", "prompt", "SAFE", "BEGIN", "DATA", "COMMIT"}) :
              LET x == [v EXCEPT !.plan = plan]
              IN /\ x \in Workers /\ x.plan = plan /\ SameOperation(x, v) /\ SameRest(x, v)
                 /\ x.pc = v.pc /\ x.cmd = v.cmd /\ x.safe_sent = v.safe_sent /\ x.about = v.about
BY DEF Workers, SameOperation, SameRest

-----------------------------------------------------------------------------
(* What is awaited, and what is under way.                                 *)

AwaitedBy(v) == CASE v.pc = "await" -> <<v.cmd>> \o IF v.safe_sent THEN <<"SAFE">> ELSE <<>>
                  [] v.pc = "urgent" -> <<v.cmd>>
                  [] v.pc = "safeReply" -> <<"SAFE">>
                  [] OTHER -> <<>>

LEMMA OneInAll == \A m, n \in Nat : m + n = 1 /\ n > 0 => m = 0 /\ n = 1
OBVIOUS
LEMMA TwoInAll == \A m, n \in Nat : m + n = 2 /\ n > 0 => (m = 0 /\ n = 2) \/ (m = 1 /\ n = 1)
OBVIOUS

LEMMA Pairs ==
  ASSUME NEW S, NEW a \in S, NEW b \in S
  PROVE  Append(<<a>>, b) = <<a, b>>
<1>1. <<a>> \in Seq(S) /\ <<a, b>> \in Seq(S) /\ Append(<<a>>, b) \in Seq(S)
  OBVIOUS
<1>2. Len(Append(<<a>>, b)) = 2 /\ Len(<<a, b>>) = 2
  OBVIOUS
<1>3. \A i \in 1 .. 2 : Append(<<a>>, b)[i] = <<a, b>>[i]
  OBVIOUS
<1> QED
  BY <1>1, <1>2, <1>3, SeqEqual

LEMMA AwaitedIsBy == Awaited = AwaitedBy(w) /\ Awaited' = AwaitedBy(w')
BY DEF Awaited, AwaitedBy

LEMMA AwaitedCases ==
  ASSUME NEW v \in Workers
  PROVE  /\ v.pc = "await" /\ ~v.safe_sent => AwaitedBy(v) = <<v.cmd>>
         /\ v.pc = "await" /\ v.safe_sent => AwaitedBy(v) = <<v.cmd, "SAFE">>
         /\ v.pc = "urgent" => AwaitedBy(v) = <<v.cmd>>
         /\ v.pc = "safeReply" => AwaitedBy(v) = <<"SAFE">>
         /\ v.pc \notin {"await", "urgent", "safeReply"} => AwaitedBy(v) = <<>>
         /\ AwaitedBy(v) \in Seq(Commands) /\ Len(AwaitedBy(v)) \in 0 .. 2
<1>1. v.cmd \in Commands /\ "SAFE" \in Commands
  BY DEF Workers, Commands
<1>2. ASSUME NEW c \in Commands PROVE <<c>> \o <<>> = <<c>> /\ <<c>> \o <<"SAFE">> = <<c, "SAFE">>
  <2>1. <<c>> \in Seq(Commands)
    OBVIOUS
  <2>2. <<c>> \o <<>> = <<c>>
    BY <2>1, ConcatEmptySeq
  <2>3. Append(<<c>>, "SAFE") = <<c>> \o <<"SAFE">>
    BY <1>1, <2>1, AppendIsConcat
  <2>4. Append(<<c>>, "SAFE") = <<c, "SAFE">>
    BY <1>1, Pairs
  <2> QED
    BY <2>2, <2>3, <2>4, Zenon
<1>3. CASE v.pc = "await"
  <2>1. CASE v.safe_sent
    BY <1>1, <1>2, <1>3, <2>1 DEF AwaitedBy
  <2>2. CASE ~v.safe_sent
    BY <1>1, <1>2, <1>3, <2>2 DEF AwaitedBy
  <2> QED
    BY <2>1, <2>2
<1>4. CASE v.pc # "await"
  BY <1>1, <1>4 DEF AwaitedBy
<1> QED
  BY <1>3, <1>4

LEMMA SyncedNone == \A awaited : Synced("none", <<>>, <<>>, awaited)
BY DEF Synced

LEMMA SyncedOpen == Synced("up", <<>>, <<>>, <<>>)
BY DEF Synced

LEMMA SyncedQuiet ==
  ASSUME NEW ls \in Seq(Replies), NEW ws \in Seq(Sent), Synced("up", ls, ws, <<>>)
  PROVE  ls = <<>> /\ ws = <<>>
<1>1. Len(ls) + Len(ws) = 0 /\ Len(ls) \in Nat /\ Len(ws) \in Nat
  BY DEF Synced
<1> QED
  BY <1>1, EmptySeq

\* A command is sent where nothing is awaited, and SAFE behind a command.
LEMMA SyncedSend ==
  ASSUME NEW ls \in Seq(Replies), NEW ws \in Seq(Sent), NEW x \in Sent
  PROVE  /\ Synced("up", ls, ws, <<>>) => Synced("up", ls, Append(ws, x), <<x.cmd>>)
         /\ \A c \in Commands : Synced("up", ls, ws, <<c>>) /\ x.cmd = "SAFE"
              => Synced("up", ls, Append(ws, x), <<c, "SAFE">>)
         /\ \A c \in Commands : Synced("dead", ls, ws, <<>>) => Synced("dead", ls, ws, <<c>>)
         /\ \A c \in Commands : Synced("dead", ls, ws, <<c>>) => Synced("dead", ls, ws, <<c, "SAFE">>)
<1>1. Len(Append(ws, x)) = Len(ws) + 1 /\ Len(ls) \in Nat /\ Len(ws) \in Nat
  OBVIOUS
<1>2. \A i \in 1 .. Len(ws) + 1 : Append(ws, x)[i] = IF i <= Len(ws) THEN ws[i] ELSE x
  OBVIOUS
<1>3. Synced("up", ls, ws, <<>>) => Synced("up", ls, Append(ws, x), <<x.cmd>>)
  <2> SUFFICES ASSUME Synced("up", ls, ws, <<>>) PROVE Synced("up", ls, Append(ws, x), <<x.cmd>>)
    OBVIOUS
  <2>1. Len(ls) = 0 /\ Len(ws) = 0
    BY <1>1 DEF Synced
  <2> QED
    BY <1>1, <1>2, <2>1 DEF Synced
<1>4. ASSUME NEW c \in Commands, Synced("up", ls, ws, <<c>>), x.cmd = "SAFE"
      PROVE  Synced("up", ls, Append(ws, x), <<c, "SAFE">>)
  <2>1. Len(ls) + Len(ws) = 1
    BY <1>4 DEF Synced
  <2>2. (Len(ls) = 1 /\ Len(ws) = 0) \/ (Len(ls) = 0 /\ Len(ws) = 1)
    <3>1. Len(ls) \in Nat /\ Len(ws) \in Nat
      OBVIOUS
    <3>2. \A m, n \in Nat : m + n = 1 => (m = 1 /\ n = 0) \/ (m = 0 /\ n = 1)
      OBVIOUS
    <3> QED
      BY <2>1, <3>1, <3>2, Zenon
  <2> QED
    BY <1>1, <1>2, <1>4, <2>2 DEF Synced
<1>5. ASSUME NEW c \in Commands
      PROVE  /\ Synced("dead", ls, ws, <<>>) => Synced("dead", ls, ws, <<c>>)
             /\ Synced("dead", ls, ws, <<c>>) => Synced("dead", ls, ws, <<c, "SAFE">>)
  BY <1>1 DEF Synced
<1> QED
  BY <1>3, <1>4, <1>5

\* A reply that is read is the one that is awaited first.
LEMMA SyncedRead ==
  ASSUME NEW s \in {"up", "dead"}, NEW ls \in Seq(Replies), NEW ws \in Seq(Sent),
         NEW awaited \in Seq(Commands), Synced(s, ls, ws, awaited), ls # <<>>, ls[1] # EOF
  PROVE  /\ Len(awaited) > 0 /\ ls[1].cmd = awaited[1]
         /\ Synced(s, Tail(ls), ws, Tail(awaited))
<1>1. /\ Len(ls) \in Nat /\ Len(ls) > 0 /\ Len(Tail(ls)) = Len(ls) - 1
      /\ \A i \in 1 .. Len(ls) - 1 : Tail(ls)[i] = ls[i + 1]
  BY EmptySeq
<1>2. Len(awaited) > 0 /\ ls[1].cmd = awaited[1]
  BY <1>1 DEF Synced
<1>3. /\ Len(awaited) \in Nat /\ Len(Tail(awaited)) = Len(awaited) - 1
      /\ \A i \in 1 .. Len(awaited) - 1 : Tail(awaited)[i] = awaited[i + 1]
  BY <1>2, EmptySeq
<1>4. CASE s = "up"
  <2>1. /\ Len(ls) + Len(ws) = Len(awaited) /\ Len(ws) \in Nat
        /\ \A i \in 1 .. Len(ls) : ls[i].cmd = awaited[i]
        /\ \A i \in 1 .. Len(ws) : ws[i].cmd = awaited[Len(ls) + i]
    BY <1>4 DEF Synced
  <2>2. Len(Tail(ls)) + Len(ws) = Len(Tail(awaited))
    <3>1. Len(Tail(ls)) = Len(ls) - 1 /\ Len(Tail(awaited)) = Len(awaited) - 1
      BY <1>1, <1>3, Zenon
    <3>2. (Len(ls) - 1) + Len(ws) = Len(awaited) - 1
      BY <1>1, <1>3, <2>1
    <3> QED
      BY <3>1, <3>2, Zenon
  <2>3. ASSUME NEW i \in 1 .. Len(Tail(ls)) PROVE Tail(ls)[i].cmd = Tail(awaited)[i]
    BY <1>1, <1>3, <2>1
  <2>4. ASSUME NEW i \in 1 .. Len(ws) PROVE ws[i].cmd = Tail(awaited)[Len(Tail(ls)) + i]
    <3>1. /\ Len(Tail(ls)) + i \in 1 .. Len(awaited) - 1 /\ Len(Tail(ls)) + i + 1 = Len(ls) + i
      BY <1>1, <1>3, <2>1
    <3> QED
      BY <1>3, <2>1, <3>1
  <2> QED
    BY <1>4, <2>2, <2>3, <2>4 DEF Synced
<1>5. CASE s = "dead"
  <2>1. Len(ls) > 1
    BY <1>1, <1>5 DEF Synced
  <2> QED
    BY <1>1, <1>2, <1>3, <1>5, <2>1 DEF Synced
<1> QED
  BY <1>2, <1>4, <1>5

\* A command that is executed turns into its reply.
LEMMA SyncedReply ==
  ASSUME NEW ls \in Seq(Replies), NEW ws \in Seq(Sent), NEW awaited \in Seq(Commands),
         NEW r \in Replies, Synced("up", ls, ws, awaited), ws # <<>>, r.cmd = ws[1].cmd
  PROVE  Synced("up", Append(ls, r), Tail(ws), awaited)
<1>1. /\ Len(ws) \in Nat /\ Len(ws) > 0 /\ Len(Tail(ws)) = Len(ws) - 1
      /\ \A i \in 1 .. Len(ws) - 1 : Tail(ws)[i] = ws[i + 1]
  BY EmptySeq
<1>2. /\ Len(ls) \in Nat /\ Len(Append(ls, r)) = Len(ls) + 1
      /\ \A i \in 1 .. Len(ls) + 1 : Append(ls, r)[i] = IF i <= Len(ls) THEN ls[i] ELSE r
  OBVIOUS
<1>3. ASSUME NEW i \in 1 .. Len(Append(ls, r)) PROVE Append(ls, r)[i].cmd = awaited[i]
  BY <1>1, <1>2 DEF Synced
<1>4. ASSUME NEW i \in 1 .. Len(Tail(ws))
      PROVE  Tail(ws)[i].cmd = awaited[Len(Append(ls, r)) + i]
  <2>1. i + 1 \in 1 .. Len(ws) /\ Len(Append(ls, r)) + i = Len(ls) + (i + 1)
    BY <1>1, <1>2
  <2> QED
    BY <1>1, <2>1 DEF Synced
<1> QED
  BY <1>1, <1>2, <1>3, <1>4 DEF Synced

\* What is not answered when the link breaks is lost.
LEMMA SyncedBreak ==
  ASSUME NEW ls \in Seq(Replies), NEW ws \in Seq(Sent), NEW awaited \in Seq(Commands),
         Synced("up", ls, ws, awaited)
  PROVE  Synced("dead", Append(ls, EOF), <<>>, awaited)
<1>1. /\ Len(ls) \in Nat /\ Len(ws) \in Nat /\ Len(Append(ls, EOF)) = Len(ls) + 1
      /\ \A i \in 1 .. Len(ls) + 1 : Append(ls, EOF)[i] = IF i <= Len(ls) THEN ls[i] ELSE EOF
  OBVIOUS
<1> QED
  BY <1>1 DEF Synced

-----------------------------------------------------------------------------
(* The device and the link.                                                *)

\* A command that waits is the one the worker is in, or the SAFE after it.
LEMMA HeadOfWire ==
  ASSUME TypesInv, WorkerInv, StepInv, wire # <<>>
  PROVE  /\ session = "up" /\ wire[1] \in Sent /\ Head(wire) = wire[1] /\ Len(wire) \in Nat /\ Len(wire) > 0
         /\ \/ wire[1].cmd = "SAFE" /\ Len(wire) = 1
            \/ /\ lines = <<>> /\ w.pc \in {"await", "urgent"} /\ wire[1].cmd = w.cmd
               /\ w.cmd # "SAFE"
               /\ \A i \in 2 .. Len(wire) : wire[i].cmd = "SAFE"
<1>1. session = "up"
  BY DEF TypesInv, StepInv, Synced
<1>2. /\ Len(wire) \in Nat /\ Len(wire) > 0 /\ wire[1] \in Sent /\ Head(wire) = wire[1]
      /\ Len(lines) \in Nat
  <2>1. Len(wire) \in Nat /\ Len(wire) > 0 /\ Len(lines) \in Nat
    BY EmptySeq DEF TypesInv
  <2> QED
    BY <2>1, ElementOfSeq DEF TypesInv
<1>3. /\ Len(lines) + Len(wire) = Len(Awaited)
      /\ \A i \in 1 .. Len(wire) : wire[i].cmd = Awaited[Len(lines) + i]
  BY <1>1 DEF StepInv, Synced
<1>4. CASE Awaited = <<w.cmd, "SAFE">> /\ w.pc = "await" /\ w.safe_sent
  <2>1. w.cmd # "SAFE"
    BY <1>4 DEF WorkerInv, Exchanging
  <2>2. Len(lines) + Len(wire) = 2
    BY <1>3, <1>4
  <2>3. (Len(lines) = 0 /\ Len(wire) = 2) \/ (Len(lines) = 1 /\ Len(wire) = 1)
    BY <1>2, <2>2, TwoInAll, Zenon
  <2>4. CASE Len(lines) = 0
    <3>1. lines = <<>>
      BY <2>4, EmptySeq DEF TypesInv
    <3>2. wire[1].cmd = w.cmd /\ \A i \in 2 .. Len(wire) : wire[i].cmd = "SAFE"
      <4>1. \A i \in 1 .. Len(wire) : wire[i].cmd = Awaited[i]
        BY <1>3, <2>4
      <4>2. 1 \in 1 .. Len(wire) /\ Len(wire) = 2 /\ \A i \in 2 .. 2 : i = 2 /\ i \in 1 .. 2
        BY <1>2, <2>3, <2>4
      <4> QED
        BY <1>4, <4>1, <4>2
    <3> QED
      BY <1>1, <1>2, <1>4, <2>1, <3>1, <3>2
  <2>5. CASE Len(lines) = 1 /\ Len(wire) = 1
    BY <1>1, <1>2, <1>3, <1>4, <2>5
  <2> QED
    BY <2>3, <2>4, <2>5
<1>5. CASE Len(Awaited) = 1 /\ Awaited[1] = w.cmd /\ w.pc \in {"await", "urgent"}
  <2>1. Len(lines) = 0 /\ Len(wire) = 1
    BY <1>2, <1>3, <1>5, OneInAll, Zenon
  <2>2. lines = <<>> /\ wire[1].cmd = w.cmd
    BY <1>3, <1>5, <2>1, EmptySeq DEF TypesInv
  <2> QED
    BY <1>1, <1>2, <1>5, <2>1, <2>2
<1>6. CASE Len(Awaited) = 1 /\ Awaited[1] = "SAFE"
  <2>1. Len(lines) = 0 /\ Len(wire) = 1
    BY <1>2, <1>3, <1>6, OneInAll, Zenon
  <2> QED
    BY <1>1, <1>2, <1>3, <1>6, <2>1
<1>7. CASE Awaited = <<>>
  BY <1>2, <1>3, <1>7
<1>8. \/ Awaited = <<w.cmd, "SAFE">> /\ w.pc = "await" /\ w.safe_sent
      \/ Awaited = <<w.cmd>> /\ w.pc \in {"await", "urgent"}
      \/ Awaited = <<"SAFE">>
      \/ Awaited = <<>>
  BY AwaitedIsBy, AwaitedCases DEF WorkerInv
<1> QED
  BY <1>4, <1>5, <1>6, <1>7, <1>8

\* The state of an update changes by a command for it, or with the end of a trial.
UpdateMoves ==
  \/ dev'.upd = dev.upd
  \/ dev.upd = "TRIAL" /\ dev'.upd = "IDLE"
  \/ /\ w.cmd \in {"BEGIN", "DATA", "COMMIT", "ABORT", "CONFIRM"} /\ lines = <<>>
     /\ w.pc \in {"await", "urgent"}

LEMMA UpdateMoved ==
  ASSUME WorkerInv, JobInv, RepliesInv, VerdictInv, UpdateMoves, UNCHANGED <<w, job>>
  PROVE  /\ VerdictInv'
         /\ \A i \in 1 .. Len(lines) : Holds(lines[i], dev'.upd)
<1>1. CASE dev'.upd = dev.upd
  <2>1. \A r : Holds(r, dev.upd) => Holds(r, dev'.upd)
    BY <1>1 DEF Holds
  <2>2. VerdictIsTrue'
    BY <1>1 DEF VerdictInv, VerdictIsTrue
  <2>3. Founded(w, dev'.upd)
    BY <1>1, <2>1 DEF VerdictInv, Founded
  <2> QED
    BY <2>1, <2>2, <2>3 DEF VerdictInv, RepliesInv
<1>2. CASE dev.upd = "TRIAL" /\ dev'.upd = "IDLE"
  <2>1. \A r : Holds(r, dev.upd) => Holds(r, dev'.upd)
    BY <1>2 DEF Holds
  <2>2. VerdictIsTrue'
    BY <1>2 DEF VerdictInv, VerdictIsTrue
  <2>3. Founded(w, dev'.upd)
    BY <1>2, <2>1 DEF VerdictInv, Founded
  <2> QED
    BY <2>1, <2>2, <2>3 DEF VerdictInv, RepliesInv
<1>3. CASE /\ w.cmd \in {"BEGIN", "DATA", "COMMIT", "ABORT", "CONFIRM"} /\ lines = <<>>
           /\ w.pc \in {"await", "urgent"}
  <2>1. w.op = "update"
    BY <1>3 DEF WorkerInv, Workers, Operations, Able
  <2>2. VerdictIsTrue'
    BY <2>1 DEF JobInv, Jobs, JobActive, VerdictIsTrue
  <2>3. Founded(w, dev'.upd)
    BY <1>3 DEF Founded
  <2> QED
    BY <1>3, <2>2, <2>3 DEF VerdictInv
<1> QED
  BY <1>1, <1>2, <1>3 DEF UpdateMoves

\* What the device may make of command c: the reply and the device after it.
Effect(c, ok, info, d) ==
  /\ ok \in BOOLEAN /\ info \in Infos /\ d \in Devices
  /\ c.cmd = "SAFE" => /\ d.safe_at = c.at /\ d.by \in {NONE, c.at} /\ d.upd = dev.upd
                       /\ ok \/ dev.by = NONE => d.by = NONE
  /\ c.cmd # "SAFE" => /\ d.safe_at = dev.safe_at
                       /\ \/ d.by = dev.by
                          \/ /\ c.cmd = "set" /\ d.by = c.by
                             /\ \/ ok \/ info = "unsafe"
                                \/ \E i \in 2 .. Len(wire) : wire[i].cmd = "SAFE"
  /\ d.upd = dev.upd \/ c.cmd \in {"BEGIN", "DATA", "COMMIT", "ABORT", "CONFIRM"}
  /\ c.cmd = "STAT" => info = dev.upd
  /\ c.cmd = "IDN" => info \in {"old", "new"}
  /\ c.cmd = "CONFIRM" => info = "none" /\ (ok => d.upd = "CONFIRMED")

\* An execution that is answered has such an effect; one that is not is the restart of COMMIT.
Answered(c) == \E ok \in BOOLEAN, info \in Infos, d \in Devices :
                 Effect(c, ok, info, d) /\ Replied(c, ok, info, d)
Restarts(c) == \E d \in Devices, reply \in {<<>>, <<[cmd |-> "COMMIT", ok |-> TRUE, info |-> "none"]>>} :
                 c.cmd = "COMMIT" /\ d.safe_at = dev.safe_at /\ Broken(reply, d)

LEMMA Executed ==
  ASSUME dev \in Devices, NEW c \in Sent, c = Head(wire), DeviceExecutes
  PROVE  Answered(c) \/ Restarts(c)
<1>1. c.by \in Epochs \cup {NONE} /\ c.at \in Epochs
  BY DEF Sent
<1>2. {"none", "old", "new", "rolled_back", "unsafe"} \subseteq Infos /\ dev.upd \in Infos
  BY DEF Infos, Devices
<1>3. \/ c.cmd = "set" /\ Sets(c)
      \/ c.cmd = "SAFE" /\ Safes(c)
      \/ Updates(c)
      \/ Asks(c)
  BY DEF DeviceExecutes
<1>4. ASSUME NEW ok \in BOOLEAN, NEW info \in Infos, NEW d \in Devices,
             Effect(c, ok, info, d), Replied(c, ok, info, d)
      PROVE  Answered(c)
  BY <1>4 DEF Answered
<1>5. CASE c.cmd = "set" /\ Sets(c)
  <2>1. PICK d \in Devices : /\ d = [dev EXCEPT !.by = c.by] /\ d.by = c.by
                             /\ d.safe_at = dev.safe_at /\ d.upd = dev.upd
    <3>1. [dev EXCEPT !.by = c.by] \in Devices
      BY <1>1 DEF Devices
    <3>2. /\ [dev EXCEPT !.by = c.by].by = c.by
          /\ [dev EXCEPT !.by = c.by].safe_at = dev.safe_at
          /\ [dev EXCEPT !.by = c.by].upd = dev.upd
      BY <1>1 DEF Devices
    <3> QED
      BY <3>1, <3>2, Zenon
  <2>2. CASE Replied(c, TRUE, "none", [dev EXCEPT !.by = c.by])
    <3>1. Effect(c, TRUE, "none", d)
      BY <1>2, <1>5, <2>1 DEF Effect
    <3> QED
      BY <1>2, <1>4, <2>1, <2>2, <3>1
  <2>3. CASE \E info \in {"none", "unsafe"} : Replied(c, FALSE, info, dev)
    <3>1. PICK info \in {"none", "unsafe"} : Replied(c, FALSE, info, dev)
      BY <2>3
    <3>2. Effect(c, FALSE, info, dev)
      BY <1>2, <1>5 DEF Effect
    <3> QED
      BY <1>2, <1>4, <3>1, <3>2
  <2>4. CASE Replied(c, FALSE, "unsafe", [dev EXCEPT !.by = c.by])
    <3>1. Effect(c, FALSE, "unsafe", d)
      BY <1>2, <1>5, <2>1 DEF Effect
    <3> QED
      BY <1>2, <1>4, <2>1, <2>4, <3>1
  <2>5. CASE /\ \E i \in 2 .. Len(wire) : wire[i].cmd = "SAFE"
             /\ Replied(c, FALSE, "none", [dev EXCEPT !.by = c.by])
    <3>1. Effect(c, FALSE, "none", d)
      BY <1>2, <1>5, <2>1, <2>5 DEF Effect
    <3> QED
      BY <1>2, <1>4, <2>1, <2>5, <3>1
  <2> QED
    BY <1>5, <2>2, <2>3, <2>4, <2>5 DEF Sets
<1>6. CASE c.cmd = "SAFE" /\ Safes(c)
  <2>1. PICK ok \in BOOLEAN :
          Replied(c, ok, "none", [dev EXCEPT !.safe_at = c.at,
                                             !.by = IF ok \/ @ = NONE THEN NONE ELSE c.at])
    BY <1>6 DEF Safes
  <2>2. PICK by \in Epochs \cup {NONE} :
          /\ by = IF ok \/ dev.by = NONE THEN NONE ELSE c.at
          /\ by \in {NONE, c.at} /\ (ok \/ dev.by = NONE => by = NONE)
    BY <1>1
  <2>3. PICK d \in Devices : /\ d = [dev EXCEPT !.safe_at = c.at, !.by = by] /\ d.by = by
                             /\ d.safe_at = c.at /\ d.upd = dev.upd
    <3>1. [dev EXCEPT !.safe_at = c.at, !.by = by] \in Devices
      BY <1>1 DEF Devices
    <3>2. /\ [dev EXCEPT !.safe_at = c.at, !.by = by].by = by
          /\ [dev EXCEPT !.safe_at = c.at, !.by = by].safe_at = c.at
          /\ [dev EXCEPT !.safe_at = c.at, !.by = by].upd = dev.upd
      BY <1>1 DEF Devices
    <3> QED
      BY <3>1, <3>2, Zenon
  <2>4. d = [dev EXCEPT !.safe_at = c.at, !.by = IF ok \/ @ = NONE THEN NONE ELSE c.at]
    BY <2>2, <2>3
  <2>5. Effect(c, ok, "none", d)
    BY <1>2, <1>6, <2>2, <2>3 DEF Effect
  <2> QED
    BY <1>2, <1>4, <2>1, <2>4, <2>5
<1>7. CASE Updates(c)
  <2>1. ASSUME c.cmd \in {"BEGIN", "DATA", "COMMIT", "ABORT", "CONFIRM"}, NEW ok \in BOOLEAN,
               NEW upd \in {"IDLE", "RECEIVING", "TRIAL", "CONFIRMED"},
               c.cmd = "CONFIRM" /\ ok => upd = "CONFIRMED",
               Replied(c, ok, "none", [dev EXCEPT !.upd = upd])
        PROVE  Answered(c)
    <3>1. PICK d \in Devices : /\ d = [dev EXCEPT !.upd = upd] /\ d.by = dev.by
                               /\ d.safe_at = dev.safe_at /\ d.upd = upd
      <4>1. [dev EXCEPT !.upd = upd] \in Devices
        BY <1>1 DEF Devices
      <4>2. /\ [dev EXCEPT !.upd = upd].by = dev.by
            /\ [dev EXCEPT !.upd = upd].safe_at = dev.safe_at
            /\ [dev EXCEPT !.upd = upd].upd = upd
        BY <1>1 DEF Devices
      <4> QED
        BY <4>1, <4>2, Zenon
    <3>2. Effect(c, ok, "none", d)
      BY <1>2, <2>1, <3>1 DEF Effect
    <3> QED
      BY <1>2, <1>4, <2>1, <3>1, <3>2
  <2>2. CASE \/ c.cmd = "BEGIN" /\ Replied(c, FALSE, "unsafe", dev)
             \/ c.cmd = "DATA" /\ Replied(c, TRUE, "none", dev)
             \/ c.cmd = "CONFIRM" /\ Replied(c, FALSE, "none", dev)
    <3>1. /\ c.cmd = "BEGIN" => Effect(c, FALSE, "unsafe", dev)
          /\ c.cmd = "DATA" => Effect(c, TRUE, "none", dev)
          /\ c.cmd = "CONFIRM" => Effect(c, FALSE, "none", dev)
      BY <1>2 DEF Effect
    <3> QED
      BY <1>2, <1>4, <2>2, <3>1
  <2>3. CASE c.cmd = "BEGIN" /\ Replied(c, TRUE, "none", [dev EXCEPT !.upd = "RECEIVING"])
    BY <2>1, <2>3
  <2>4. CASE /\ c.cmd \in {"BEGIN", "DATA", "COMMIT"}
             /\ \E u \in {dev.upd, Dropped(dev.upd)} :
                  Replied(c, FALSE, "none", [dev EXCEPT !.upd = u])
    <3>1. PICK u \in {dev.upd, Dropped(dev.upd)} :
            Replied(c, FALSE, "none", [dev EXCEPT !.upd = u])
      BY <2>4
    <3>2. u \in {"IDLE", "RECEIVING", "TRIAL", "CONFIRMED"}
      BY DEF Devices, Dropped
    <3> QED
      BY <2>1, <2>4, <3>1, <3>2
  <2>5. CASE /\ c.cmd = "COMMIT"
             /\ \E reply \in {<<>>, <<[cmd |-> "COMMIT", ok |-> TRUE, info |-> "none"]>>} :
                  Broken(reply, [dev EXCEPT !.upd = "TRIAL", !.rolled = FALSE])
    <3>1. PICK d \in Devices : /\ d = [dev EXCEPT !.upd = "TRIAL", !.rolled = FALSE]
                               /\ d.safe_at = dev.safe_at
      <4>1. [dev EXCEPT !.upd = "TRIAL", !.rolled = FALSE] \in Devices
        BY <1>1 DEF Devices
      <4>2. [dev EXCEPT !.upd = "TRIAL", !.rolled = FALSE].safe_at = dev.safe_at
        BY <1>1 DEF Devices
      <4> QED
        BY <4>1, <4>2, Zenon
    <3> QED
      BY <2>5, <3>1, Zenon DEF Restarts
  <2>6. CASE c.cmd = "ABORT" /\ Replied(c, TRUE, "none", [dev EXCEPT !.upd = Dropped(@)])
    <3>1. PICK upd \in {"IDLE", "RECEIVING", "TRIAL", "CONFIRMED"} : upd = Dropped(dev.upd)
      BY DEF Devices, Dropped
    <3>2. [dev EXCEPT !.upd = Dropped(@)] = [dev EXCEPT !.upd = upd]
      BY <3>1
    <3>3. Replied(c, TRUE, "none", [dev EXCEPT !.upd = upd])
      BY <2>6, <3>2, Zenon
    <3> QED
      BY <2>1, <2>6, <3>3
  <2>7. CASE c.cmd = "CONFIRM" /\ Replied(c, TRUE, "none", [dev EXCEPT !.upd = "CONFIRMED"])
    BY <2>1, <2>7
  <2> QED
    BY <1>7, <2>2, <2>3, <2>4, <2>5, <2>6, <2>7 DEF Updates
<1>8. CASE Asks(c)
  <2>1. ASSUME c.cmd \in {"query", "IDN", "ERR"}, NEW ok \in BOOLEAN, NEW info \in Infos,
               NEW d \in Devices, d.by = dev.by, d.safe_at = dev.safe_at, d.upd = dev.upd,
               c.cmd = "IDN" => info \in {"old", "new"},
               Replied(c, ok, info, d)
        PROVE  Answered(c)
    <3>1. Effect(c, ok, info, d)
      BY <2>1 DEF Effect
    <3> QED
      BY <1>4, <2>1, <3>1
  <2>2. CASE /\ c.cmd = "query"
             /\ \/ \E info \in {"none", "unsafe"} : Replied(c, TRUE, info, dev)
                \/ Replied(c, FALSE, "none", dev)
    BY <1>2, <2>1, <2>2
  <2>3. CASE c.cmd = "STAT" /\ Replied(c, TRUE, dev.upd, dev)
    <3>1. Effect(c, TRUE, dev.upd, dev)
      BY <1>2, <2>3 DEF Effect
    <3> QED
      BY <1>2, <1>4, <2>3, <3>1
  <2>4. CASE /\ c.cmd = "IDN"
             /\ Replied(c, TRUE, IF dev.upd \in {"TRIAL", "CONFIRMED"} THEN "new" ELSE "old", dev)
    <3>1. PICK info \in Infos : info = IF dev.upd \in {"TRIAL", "CONFIRMED"} THEN "new" ELSE "old"
      BY <1>2
    <3> QED
      BY <2>1, <2>4, <3>1
  <2>5. CASE /\ c.cmd = "ERR"
             /\ Replied(c, TRUE, IF dev.rolled THEN "rolled_back" ELSE "none",
                        [dev EXCEPT !.rolled = FALSE])
    <3>1. PICK info \in Infos : info = IF dev.rolled THEN "rolled_back" ELSE "none"
      BY <1>2
    <3>2. PICK d \in Devices : /\ d = [dev EXCEPT !.rolled = FALSE] /\ d.by = dev.by
                               /\ d.safe_at = dev.safe_at /\ d.upd = dev.upd
      <4>1. [dev EXCEPT !.rolled = FALSE] \in Devices
        BY <1>1 DEF Devices
      <4>2. /\ [dev EXCEPT !.rolled = FALSE].by = dev.by
            /\ [dev EXCEPT !.rolled = FALSE].safe_at = dev.safe_at
            /\ [dev EXCEPT !.rolled = FALSE].upd = dev.upd
        BY <1>1 DEF Devices
      <4> QED
        BY <4>1, <4>2, Zenon
    <3> QED
      BY <2>1, <2>5, <3>1, <3>2
  <2> QED
    BY <1>8, <2>2, <2>3, <2>4, <2>5 DEF Asks
<1> QED
  BY <1>3, <1>5, <1>6, <1>7, <1>8

Still == UNCHANGED <<epoch, http, events, tasks, shown, w, served, used>>

LEMMA ReplyStep ==
  ASSUME Inv, Still, wire # <<>>, NEW c \in Sent, c = wire[1],
         NEW ok \in BOOLEAN, NEW info \in Infos, NEW d \in Devices,
         Effect(c, ok, info, d), Replied(c, ok, info, d)
  PROVE  Inv'
<1>1. /\ session = "up" /\ Len(wire) \in Nat /\ Len(wire) > 0
      /\ \/ c.cmd = "SAFE" /\ Len(wire) = 1
         \/ /\ lines = <<>> /\ w.pc \in {"await", "urgent"} /\ c.cmd = w.cmd /\ w.cmd # "SAFE"
            /\ \A i \in 2 .. Len(wire) : wire[i].cmd = "SAFE"
  BY HeadOfWire DEF Inv
<1>2. PICK r \in Replies : /\ r = [cmd |-> c.cmd, ok |-> ok, info |-> info]
                           /\ r.cmd = c.cmd /\ r.ok = ok /\ r.info = info
  <2>1. [cmd |-> c.cmd, ok |-> ok, info |-> info] \in Replies
    BY DEF Replies, Sent
  <2> QED
    BY <2>1
<1>3. lines' = Append(lines, r) /\ wire' = Tail(wire) /\ dev' = d /\ session' = session
  BY <1>2 DEF Replied
<1>4. /\ lines \in Seq(Replies) /\ wire \in Seq(Sent) /\ dev \in Devices
      /\ Len(lines) \in Nat /\ Len(Append(lines, r)) = Len(lines) + 1
      /\ \A i \in 1 .. Len(lines) + 1 : Append(lines, r)[i] = IF i <= Len(lines) THEN lines[i] ELSE r
  BY DEF Inv, TypesInv
<1>5. /\ Tail(wire) \in Seq(Sent) /\ Len(Tail(wire)) = Len(wire) - 1
      /\ \A i \in 1 .. Len(wire) - 1 : Tail(wire)[i] = wire[i + 1] /\ i + 1 \in 1 .. Len(wire)
  BY <1>1, <1>4
<1>6. TypesInv'
  <2>1. lines' \in Seq(Replies) /\ wire' \in Seq(Sent) /\ dev' \in Devices
    BY <1>3, <1>4, <1>5
  <2> QED
    BY <1>3, <2>1 DEF Inv, TypesInv, Still, http, events, shown, JobActive
<1>7. WorkerInv' /\ JobInv'
  BY DEF Inv, WorkerInv, JobInv, JobActive, Still, shown
<1>8. Awaited' = Awaited /\ Awaited \in Seq(Commands)
  BY AwaitedIsBy, AwaitedCases DEF Inv, WorkerInv, Still, Awaited
<1>9. StepInv'
  <2>1. Synced("up", lines, wire, Awaited)
    BY <1>1 DEF Inv, StepInv
  <2>2. Synced("up", Append(lines, r), Tail(wire), Awaited)
    BY <1>2, <1>4, <1>8, <2>1, SyncedReply
  <2> QED
    BY <1>1, <1>3, <1>8, <2>2, Zenon DEF StepInv
<1>10. /\ \A i \in 1 .. Len(wire) : /\ wire[i].at <= epoch
                                    /\ wire[i].cmd = "set" => wire[i].by # NONE /\ wire[i].by >= dev.safe_at
       /\ dev.by # NONE => dev.by >= dev.safe_at
       /\ dev.safe_at <= epoch
  BY DEF Inv, EpochInv, NoOldIntention
<1>11. EpochInv'
  <2>1. d.safe_at \in Nat /\ epoch' = epoch /\ session' = "up"
    BY <1>1, <1>3, BridgeAssumption DEF Devices, Epochs, Still
  <2>2. c.at <= epoch /\ (c.cmd = "set" => c.by >= dev.safe_at)
    BY <1>1, <1>10
  <2>3. CASE c.cmd = "SAFE" /\ Len(wire) = 1
    <3>1. d.safe_at = c.at /\ d.by \in {NONE, c.at}
      BY <2>3 DEF Effect
    <3>2. d.by # NONE => d.by >= d.safe_at
      BY <2>1, <3>1
    <3>3. Len(wire') = 0
      BY <1>3, <1>5, <2>3
    <3>4. \A i \in 1 .. Len(wire') : FALSE
      BY <3>3
    <3>5. d.safe_at <= epoch
      BY <2>2, <3>1
    <3> QED
      BY <1>3, <2>1, <3>2, <3>4, <3>5 DEF EpochInv, NoOldIntention
  <2>4. CASE c.cmd # "SAFE"
    <3>1. d.safe_at = dev.safe_at /\ (d.by = dev.by \/ (c.cmd = "set" /\ d.by = c.by))
      BY <2>4 DEF Effect
    <3>2. d.by # NONE => d.by >= d.safe_at
      BY <1>10, <2>2, <3>1
    <3>3. ASSUME NEW i \in 1 .. Len(wire')
          PROVE  /\ wire'[i].at <= epoch
                 /\ wire'[i].cmd = "set" => wire'[i].by # NONE /\ wire'[i].by >= d.safe_at
      <4>1. i + 1 \in 1 .. Len(wire) /\ wire'[i] = wire[i + 1]
        BY <1>3, <1>5
      <4> QED
        BY <1>10, <3>1, <4>1
    <3> QED
      BY <1>3, <1>10, <2>1, <3>1, <3>2, <3>3 DEF EpochInv, NoOldIntention
  <2> QED
    BY <1>1, <2>3, <2>4
<1>12. AckInv'
  <2>1. /\ \A i \in 1 .. Len(lines) : lines[i].cmd = "SAFE" /\ lines[i].ok => dev.by = NONE
        /\ safe_acknowledged /\ dev.by # NONE =>
             \/ lines # <<>> /\ Telling(lines[1])
             \/ \E i \in 1 .. Len(Awaited) : Awaited[i] = "SAFE"
    BY DEF Inv, AckInv
  <2>2. safe_acknowledged' = safe_acknowledged
    BY DEF Still, shown
  <2>3. lines' # <<>> /\ lines'[1] = IF lines = <<>> THEN r ELSE lines[1]
    <3>1. lines = <<>> => Len(lines) = 0
      OBVIOUS
    <3>2. lines # <<>> => Len(lines) > 0
      BY <1>4, EmptySeq
    <3>3. lines' # <<>>
      BY <1>3, <1>4
    <3>4. lines = <<>> => lines'[1] = r
      BY <1>3, <1>4, <3>1
    <3>5. lines # <<>> => lines'[1] = lines[1]
      BY <1>3, <1>4, <3>2
    <3> QED
      BY <3>3, <3>4, <3>5, Zenon
  <2>4. CASE c.cmd = "SAFE"
    <3>1. ok \/ dev.by = NONE => d.by = NONE
      BY <2>4 DEF Effect
    <3>2. ASSUME NEW i \in 1 .. Len(lines'), lines'[i].cmd = "SAFE", lines'[i].ok
          PROVE  d.by = NONE
      <4>1. CASE i <= Len(lines)
        BY <1>3, <1>4, <2>1, <3>1, <3>2, <4>1
      <4>2. CASE ~(i <= Len(lines))
        BY <1>2, <1>3, <1>4, <3>1, <3>2, <4>2
      <4> QED
        BY <4>1, <4>2
    <3>3. safe_acknowledged' /\ d.by # NONE =>
            \/ lines' # <<>> /\ Telling(lines'[1])
            \/ \E i \in 1 .. Len(Awaited) : Awaited[i] = "SAFE"
      BY <2>1, <2>2, <2>3, <3>1
    <3> QED
      BY <1>3, <1>8, <3>2, <3>3, Zenon DEF AckInv, Telling, Queries
  <2>5. CASE c.cmd # "SAFE"
    <3>1. lines = <<>> /\ \A i \in 2 .. Len(wire) : wire[i].cmd = "SAFE"
      BY <1>1, <2>5
    <3>2. Len(lines') = 1 /\ lines'[1] = r
      BY <1>3, <1>4, <3>1
    <3>3. \A i \in 1 .. Len(lines') : lines'[i].cmd # "SAFE"
      BY <1>2, <2>5, <3>2
    <3>4. CASE d.by = dev.by
      <4>1. safe_acknowledged' /\ d.by # NONE => \E i \in 1 .. Len(Awaited) : Awaited[i] = "SAFE"
        BY <2>1, <2>2, <3>1, <3>4
      <4> QED
        BY <1>3, <1>8, <3>3, <4>1, Zenon DEF AckInv, Telling, Queries
    <3>5. CASE c.cmd = "set" /\ (ok \/ info = "unsafe")
      <4>1. Telling(lines'[1])
        BY <1>2, <3>2, <3>5 DEF Telling, Queries
      <4> QED
        BY <2>3, <3>3, <4>1, Zenon DEF AckInv, Telling, Queries
    <3>6. CASE \E i \in 2 .. Len(wire) : wire[i].cmd = "SAFE"
      <4>1. PICK i \in 2 .. Len(wire) : wire[i].cmd = "SAFE"
        BY <3>6
      <4>2. /\ Len(lines) + Len(wire) = Len(Awaited) /\ Len(lines) = 0
            /\ \A k \in 1 .. Len(wire) : wire[k].cmd = Awaited[Len(lines) + k]
        BY <1>1, <3>1 DEF Inv, StepInv, Synced
      <4>3. i \in 1 .. Len(Awaited) /\ Awaited[i] = "SAFE"
        BY <1>1, <4>1, <4>2
      <4> QED
        BY <1>3, <1>8, <3>3, <4>3, Zenon DEF AckInv, Telling, Queries
    <3> QED
      BY <2>5, <3>4, <3>5, <3>6 DEF Effect
  <2> QED
    BY <2>4, <2>5
<1>13. RepliesInv' /\ VerdictInv'
  <2>1. UpdateMoves
    BY <1>1, <1>3 DEF Effect, UpdateMoves
  <2>2. VerdictInv' /\ \A i \in 1 .. Len(lines) : Holds(lines[i], dev'.upd)
    BY <2>1, UpdateMoved DEF Inv, Still, shown
  <2>3. Holds(r, d.upd)
    BY <1>2, <1>4 DEF Effect, Holds, Devices
  <2> QED
    BY <1>3, <1>4, <2>2, <2>3 DEF RepliesInv
<1> QED
  BY <1>6, <1>7, <1>9, <1>11, <1>12, <1>13 DEF Inv

LEMMA EndOfLink ==
  /\ EOF \in Replies /\ EOF.cmd = "none" /\ EOF.info = "EOF"
  /\ \A ls \in Seq(Replies) : ls \o <<>> \o <<EOF>> = Append(ls, EOF)
  /\ \A ls \in Seq(Replies), r \in Replies : ls \o <<r>> \o <<EOF>> = Append(Append(ls, r), EOF)
<1>1. EOF \in Replies /\ EOF.cmd = "none" /\ EOF.info = "EOF"
  BY DEF EOF, Replies, Commands, Infos
<1>2. ASSUME NEW ls \in Seq(Replies) PROVE ls \o <<>> \o <<EOF>> = Append(ls, EOF)
  <2>1. ls \o <<>> = ls
    BY ConcatEmptySeq
  <2>2. Append(ls, EOF) = ls \o <<EOF>>
    BY <1>1, AppendIsConcat
  <2> QED
    BY <2>1, <2>2, Zenon
<1>3. ASSUME NEW ls \in Seq(Replies), NEW r \in Replies
      PROVE  ls \o <<r>> \o <<EOF>> = Append(Append(ls, r), EOF)
  <2>1. Append(ls, r) = ls \o <<r>> /\ Append(ls, r) \in Seq(Replies)
    BY AppendIsConcat
  <2>2. Append(Append(ls, r), EOF) = Append(ls, r) \o <<EOF>>
    BY <1>1, <2>1, AppendIsConcat
  <2> QED
    BY <2>1, <2>2, Zenon
<1> QED
  BY <1>1, <1>2, <1>3

LEMMA BreakStep ==
  ASSUME Inv, Still, session = "up", UpdateMoves, NEW d \in Devices, NEW reply, Broken(reply, d),
         d.safe_at = dev.safe_at,
         \/ reply = <<>>
         \/ wire # <<>> /\ \E r \in Replies : /\ reply = <<r>> /\ r.cmd = wire[1].cmd
                                              /\ r.cmd = "COMMIT"
  PROVE  Inv'
<1>1. /\ lines \in Seq(Replies) /\ wire \in Seq(Sent) /\ Awaited \in Seq(Commands)
      /\ Synced("up", lines, wire, Awaited)
  BY AwaitedIsBy, AwaitedCases DEF Inv, TypesInv, WorkerInv, StepInv
<1>2. /\ lines' = lines \o reply \o <<EOF>> /\ wire' = <<>> /\ session' = "dead"
      /\ dev' = [d EXCEPT !.by = NONE]
  BY DEF Broken
<1>3. dev' \in Devices /\ dev'.by = NONE /\ dev'.safe_at = dev.safe_at
  BY <1>2 DEF Devices
<1>4. Awaited' = Awaited
  BY DEF Still, Awaited
<1>5. ASSUME NEW ls \in Seq(Replies), lines' = Append(ls, EOF),
             \A i \in 1 .. Len(ls) : Holds(ls[i], dev'.upd)
      PROVE  lines' \in Seq(Replies) /\ RepliesInv'
  <2>1. /\ Len(Append(ls, EOF)) = Len(ls) + 1 /\ Append(ls, EOF) \in Seq(Replies) /\ Len(ls) \in Nat
        /\ \A i \in 1 .. Len(ls) + 1 : Append(ls, EOF)[i] = IF i <= Len(ls) THEN ls[i] ELSE EOF
    BY EndOfLink
  <2>2. Holds(EOF, dev'.upd)
    BY EndOfLink DEF Holds
  <2> QED
    BY <1>5, <2>1, <2>2 DEF RepliesInv
<1>6. VerdictInv' /\ \A i \in 1 .. Len(lines) : Holds(lines[i], dev'.upd)
  BY UpdateMoved DEF Inv, Still, shown
<1>7. lines' \in Seq(Replies) /\ RepliesInv' /\ StepInv'
  <2>1. CASE reply = <<>>
    <3>1. lines' = Append(lines, EOF)
      BY <1>1, <1>2, <2>1, EndOfLink, Zenon
    <3>2. Synced("dead", Append(lines, EOF), <<>>, Awaited)
      BY <1>1, SyncedBreak
    <3>3. StepInv'
      BY <1>2, <1>4, <3>1, <3>2, Zenon DEF StepInv
    <3> QED
      BY <1>1, <1>5, <1>6, <3>1, <3>3
  <2>2. ASSUME NEW r \in Replies, reply = <<r>>, wire # <<>>, r.cmd = wire[1].cmd, r.cmd = "COMMIT"
        PROVE  lines' \in Seq(Replies) /\ RepliesInv' /\ StepInv'
    <3>1. Append(lines, r) \in Seq(Replies) /\ lines' = Append(Append(lines, r), EOF)
      BY <1>1, <1>2, <2>2, EndOfLink
    <3>2. Synced("up", Append(lines, r), Tail(wire), Awaited) /\ Tail(wire) \in Seq(Sent)
      <4>1. Tail(wire) \in Seq(Sent)
        BY <1>1, <2>2
      <4>2. Synced("up", Append(lines, r), Tail(wire), Awaited)
        BY <1>1, <2>2, SyncedReply
      <4> QED
        BY <4>1, <4>2
    <3>3. Synced("dead", Append(Append(lines, r), EOF), <<>>, Awaited)
      BY <1>1, <3>1, <3>2, SyncedBreak
    <3>4. StepInv'
      BY <1>2, <1>4, <3>1, <3>3, Zenon DEF StepInv
    <3>5. Holds(r, dev'.upd)
      BY <2>2 DEF Holds
    <3>6. \A i \in 1 .. Len(Append(lines, r)) : Holds(Append(lines, r)[i], dev'.upd)
      <4>1. /\ Len(Append(lines, r)) = Len(lines) + 1 /\ Len(lines) \in Nat
            /\ \A i \in 1 .. Len(lines) + 1 : Append(lines, r)[i] = IF i <= Len(lines) THEN lines[i] ELSE r
        BY <1>1
      <4> QED
        BY <1>6, <3>5, <4>1
    <3> QED
      BY <1>5, <3>1, <3>4, <3>6
  <2> QED
    BY <2>1, <2>2
<1>8. TypesInv'
  BY <1>2, <1>3, <1>7 DEF Inv, TypesInv, Still, http, events, shown
<1>9. WorkerInv' /\ JobInv'
  BY DEF Inv, WorkerInv, JobInv, JobActive, Still, shown
<1>10. EpochInv'
  BY <1>2, <1>3 DEF Inv, EpochInv, NoOldIntention, Still
<1>11. AckInv'
  BY <1>3 DEF AckInv
<1> QED
  BY <1>6, <1>7, <1>8, <1>9, <1>10, <1>11 DEF Inv

LEMMA DeviceStep ==
  ASSUME Inv, DeviceExecutes \/ LinkBreaks \/ TrialRunsOut
  PROVE  Inv'
<1>1. dev \in Devices
  BY DEF Inv, TypesInv
<1>2. CASE DeviceExecutes
  <2>1. Still /\ wire # <<>>
    BY <1>2 DEF DeviceExecutes, Still
  <2>2. /\ session = "up" /\ wire[1] \in Sent /\ Head(wire) = wire[1]
        /\ wire[1].cmd = "COMMIT" => lines = <<>> /\ w.pc \in {"await", "urgent"} /\ wire[1].cmd = w.cmd
    BY <2>1, HeadOfWire DEF Inv
  <2>3. Answered(wire[1]) \/ Restarts(wire[1])
    BY <1>1, <1>2, <2>2, Executed
  <2>4. CASE Answered(wire[1])
    BY <2>1, <2>2, <2>4, ReplyStep DEF Answered
  <2>5. CASE Restarts(wire[1])
    <3>1. PICK d \in Devices, reply \in {<<>>, <<[cmd |-> "COMMIT", ok |-> TRUE, info |-> "none"]>>} :
            wire[1].cmd = "COMMIT" /\ d.safe_at = dev.safe_at /\ Broken(reply, d)
      BY <2>5 DEF Restarts
    <3>2. PICK r \in Replies : r = [cmd |-> "COMMIT", ok |-> TRUE, info |-> "none"] /\ r.cmd = "COMMIT"
      <4>1. [cmd |-> "COMMIT", ok |-> TRUE, info |-> "none"] \in Replies
        BY DEF Replies, Commands, Infos
      <4> QED
        BY <4>1
    <3>3. UpdateMoves
      BY <2>2, <3>1 DEF UpdateMoves
    <3>4. reply = <<>> \/ reply = <<r>>
      BY <3>1, <3>2
    <3> QED
      BY <2>1, <2>2, <3>1, <3>2, <3>3, <3>4, BreakStep
  <2> QED
    BY <2>3, <2>4, <2>5
<1>3. CASE LinkBreaks
  <2>1. Still /\ session = "up" /\ Broken(<<>>, dev)
    BY <1>3 DEF LinkBreaks, Still
  <2>2. dev'.upd = dev.upd
    BY <1>1, <2>1 DEF Broken, Devices
  <2> QED
    BY <1>1, <2>1, <2>2, BreakStep DEF UpdateMoves
<1>4. CASE TrialRunsOut
  <2>1. PICK old \in Devices : /\ old = [dev EXCEPT !.upd = "IDLE", !.rolled = TRUE]
                               /\ old.upd = "IDLE" /\ old.safe_at = dev.safe_at /\ old.by = dev.by
    <3>1. [dev EXCEPT !.upd = "IDLE", !.rolled = TRUE] \in Devices
      BY <1>1 DEF Devices
    <3>2. /\ [dev EXCEPT !.upd = "IDLE", !.rolled = TRUE].upd = "IDLE"
          /\ [dev EXCEPT !.upd = "IDLE", !.rolled = TRUE].safe_at = dev.safe_at
          /\ [dev EXCEPT !.upd = "IDLE", !.rolled = TRUE].by = dev.by
      BY <1>1 DEF Devices
    <3> QED
      BY <3>1, <3>2, Zenon
  <2>2. Still /\ dev.upd = "TRIAL"
    BY <1>4 DEF TrialRunsOut, Still
  <2>3. CASE session = "up"
    <3>1. Broken(<<>>, old)
      BY <1>4, <2>1, <2>3, Zenon DEF TrialRunsOut
    <3>2. dev'.upd = "IDLE"
      BY <2>1, <3>1 DEF Broken, Devices
    <3> QED
      BY <2>1, <2>2, <2>3, <3>1, <3>2, BreakStep DEF UpdateMoves
  <2>4. CASE session # "up"
    <3>1. dev' = old /\ UNCHANGED <<session, wire, lines>>
      BY <1>4, <2>1, <2>4, Zenon DEF TrialRunsOut
    <3>2. UpdateMoves
      BY <2>1, <2>2, <3>1 DEF UpdateMoves
    <3>3. VerdictInv' /\ \A i \in 1 .. Len(lines) : Holds(lines[i], dev'.upd)
      BY <2>2, <3>2, UpdateMoved DEF Inv, Still, shown
    <3>4. RepliesInv'
      BY <3>1, <3>3 DEF RepliesInv
    <3>5. TypesInv'
      BY <2>2, <3>1 DEF Inv, TypesInv, Still, http, events, shown
    <3>6. WorkerInv' /\ JobInv'
      BY <2>2 DEF Inv, WorkerInv, JobInv, JobActive, Still, shown
    <3>7. Awaited' = Awaited
      BY <2>2 DEF Still, Awaited
    <3>8. StepInv'
      BY <3>1, <3>7, Zenon DEF Inv, StepInv
    <3>9. EpochInv' /\ AckInv'
      BY <2>1, <2>2, <2>4, <3>1 DEF Inv, EpochInv, NoOldIntention, AckInv, Still
    <3> QED
      BY <3>3, <3>4, <3>5, <3>6, <3>8, <3>9 DEF Inv
  <2> QED
    BY <2>3, <2>4
<1> QED
  BY <1>2, <1>3, <1>4

-----------------------------------------------------------------------------
(* The parts of the state that a step leaves alone together.               *)

HttpTypes ==
  /\ epoch \in Epochs
  /\ {pressing, urgent, cancel, answer, confirm_update} \subseteq BOOLEAN
  /\ tasks \in Seq([op : Operations, epoch : Epochs])
  /\ used \in [tasks : 0 .. MAX_TASKS, answers : 0 .. MAX_ANSWERS, sessions : Nat]
  /\ Len(tasks) <= used.tasks /\ answering \in 0 .. used.answers
JobType == job \in [kind : {"none"} \cup Jobs, status : Statuses]
LinkTypes ==
  /\ {connected, safe_acknowledged} \subseteq BOOLEAN /\ served \in Epochs
  /\ session \in {"none", "up", "dead"}
  /\ wire \in Seq(Sent) /\ lines \in Seq(Replies) /\ dev \in Devices

LEMMA TypeParts ==
  /\ TypesInv => HttpTypes /\ JobType /\ LinkTypes
  /\ HttpTypes' /\ JobType' /\ LinkTypes' => TypesInv'
BY DEF TypesInv, HttpTypes, JobType, LinkTypes

\* What a step of the worker has to keep of the worker and the job, and of the link.
Works == JobType' /\ WorkerInv' /\ JobInv' /\ VerdictInv'
Links == LinkTypes' /\ StepInv' /\ EpochInv' /\ AckInv' /\ RepliesInv'

LEMMA WholeStep == HttpTypes' /\ Works /\ Links => Inv'
BY TypeParts DEF Works, Links, Inv

LEMMA HttpStep ==
  ASSUME Inv, Http
  PROVE  Inv'
<1>1. /\ UNCHANGED <<w, session, wire, lines, dev, served, connected, safe_acknowledged>>
      /\ Awaited' = Awaited
  BY DEF Http, submit, safe, SafeSet, cancel_job, answer_prompt, AnswerSet, set_confirm, start_job,
         link, shown, Awaited
<1>2. HttpTypes /\ JobType /\ LinkTypes
  BY TypeParts DEF Inv
<1>3. /\ {MAX_SAFES, MAX_TASKS, MAX_ANSWERS} \subseteq Nat
      /\ used.tasks \in 0 .. MAX_TASKS /\ used.answers \in 0 .. MAX_ANSWERS /\ used.sessions \in Nat
      /\ Len(tasks) \in Nat /\ epoch \in Nat
  BY <1>2, BridgeAssumption DEF HttpTypes, Epochs
<1>4. \A what \in {"tasks", "answers"} : Count(what) =>
        /\ used' \in [tasks : Nat, answers : Nat, sessions : Nat]
        /\ used'.tasks = IF what = "tasks" THEN used.tasks + 1 ELSE used.tasks
        /\ used'.answers = IF what = "answers" THEN used.answers + 1 ELSE used.answers
  BY <1>2, <1>3 DEF HttpTypes, Count
<1>5. ASSUME NEW op \in {"connect", "disconnect", "set", "query", "refresh"}, submit(op)
      PROVE  HttpTypes' /\ JobType' /\ JobInv' /\ VerdictIsTrue'
  <2>1. /\ tasks' = Append(tasks, [op |-> op, epoch |-> epoch]) /\ ~JobActive /\ Count("tasks")
        /\ used.tasks < MAX_TASKS
        /\ UNCHANGED <<epoch, pressing, urgent, cancel, answer, answering, confirm_update, job>>
    BY <1>5 DEF submit, http, events, shown
  <2>2. [op |-> op, epoch |-> epoch] \in [op : Operations, epoch : Epochs]
    BY <1>2 DEF HttpTypes, Operations
  <2>3. tasks' \in Seq([op : Operations, epoch : Epochs]) /\ Len(tasks') = Len(tasks) + 1
    BY <1>2, <2>1, <2>2 DEF HttpTypes
  <2>4. /\ used'.tasks = used.tasks + 1
        /\ used' \in [tasks : 0 .. MAX_TASKS, answers : 0 .. MAX_ANSWERS, sessions : Nat]
        /\ used'.answers = used.answers
    <3>1. /\ used' \in [tasks : Nat, answers : Nat, sessions : Nat]
          /\ used'.tasks = used.tasks + 1 /\ used'.answers = used.answers
      BY <1>4, <2>1
    <3>2. used'.tasks \in 0 .. MAX_TASKS /\ used'.answers \in 0 .. MAX_ANSWERS
      BY <1>3, <2>1, <3>1
    <3> QED
      BY <3>1, <3>2
  <2>5. HttpTypes'
    BY <1>2, <1>3, <2>1, <2>3, <2>4 DEF HttpTypes
  <2>6. \A i \in 1 .. Len(tasks') : tasks'[i].op \notin Jobs
    <3>1. \A i \in 1 .. Len(tasks) : tasks[i].op \notin Jobs
      BY <2>1 DEF Inv, JobInv
    <3>2. \A i \in 1 .. Len(tasks) + 1 : tasks'[i] = IF i <= Len(tasks) THEN tasks[i] ELSE [op |-> op, epoch |-> epoch]
      BY <1>2, <2>1, <2>2 DEF HttpTypes
    <3> QED
      BY <1>3, <2>3, <3>1, <3>2 DEF Jobs
  <2>7. JobInv'
    BY <1>1, <2>1, <2>6 DEF Inv, JobInv
  <2> QED
    BY <1>1, <1>2, <2>1, <2>5, <2>7 DEF Inv, VerdictInv, VerdictIsTrue, JobType
<1>6. ASSUME NEW kind \in JOBS, start_job(kind)
      PROVE  HttpTypes' /\ JobType' /\ JobInv' /\ VerdictIsTrue'
  <2>1. /\ tasks' = <<[op |-> kind, epoch |-> epoch]>> /\ ~JobActive /\ Count("tasks")
        /\ used.tasks < MAX_TASKS /\ job' = [kind |-> kind, status |-> "running"]
        /\ cancel' = FALSE /\ answer' = FALSE /\ confirm_update' \in BOOLEAN
        /\ UNCHANGED <<epoch, pressing, urgent, answering>>
    BY <1>2, <1>6 DEF start_job, HttpTypes
  <2>2. kind \in Jobs
    BY BridgeAssumption DEF Jobs
  <2>3. [op |-> kind, epoch |-> epoch] \in [op : Operations, epoch : Epochs]
    BY <1>2, <2>2 DEF HttpTypes, Operations, Jobs
  <2>4. tasks' \in Seq([op : Operations, epoch : Epochs]) /\ Len(tasks') = 1 /\ tasks'[1].op = kind
    BY <2>1, <2>3
  <2>5. /\ used'.tasks = used.tasks + 1
        /\ used' \in [tasks : 0 .. MAX_TASKS, answers : 0 .. MAX_ANSWERS, sessions : Nat]
        /\ used'.answers = used.answers
    <3>1. /\ used' \in [tasks : Nat, answers : Nat, sessions : Nat]
          /\ used'.tasks = used.tasks + 1 /\ used'.answers = used.answers
      BY <1>4, <2>1
    <3>2. used'.tasks \in 0 .. MAX_TASKS /\ used'.answers \in 0 .. MAX_ANSWERS
      BY <1>3, <2>1, <3>1
    <3> QED
      BY <3>1, <3>2
  <2>6. HttpTypes'
    <3>1. Len(tasks') <= used'.tasks
      BY <1>3, <2>4, <2>5
    <3>2. {pressing, urgent, cancel, answer, confirm_update}' \subseteq BOOLEAN
      BY <1>2, <1>6, <2>1 DEF HttpTypes, start_job
    <3>3. epoch' \in Epochs /\ answering' \in 0 .. used'.answers
      BY <1>2, <2>1, <2>5 DEF HttpTypes
    <3> QED
      BY <2>4, <2>5, <3>1, <3>2, <3>3 DEF HttpTypes
  <2>7. JobType' /\ VerdictIsTrue'
    BY <2>1, <2>2 DEF JobType, Statuses, VerdictIsTrue
  <2>8. w.op \notin Jobs
    BY <2>1 DEF Inv, JobInv
  <2>9. JobInv'
    BY <1>1, <2>1, <2>4, <2>8 DEF JobInv, JobActive
  <2> QED
    BY <2>6, <2>7, <2>9
<1>7. ASSUME UNCHANGED <<tasks, job>>,
             \/ safe \/ SafeSet \/ cancel_job \/ AnswerSet
             \/ \E b \in BOOLEAN : answer_prompt(b) \/ set_confirm(b)
      PROVE  HttpTypes' /\ JobType' /\ JobInv' /\ VerdictIsTrue'
  <2>1. JobType' /\ JobInv' /\ VerdictIsTrue'
    BY <1>1, <1>2, <1>7 DEF Inv, JobInv, JobType, JobActive, VerdictInv, VerdictIsTrue
  <2>2. CASE safe
    BY <1>2, <1>3, <2>1, <2>2 DEF safe, SafeCounts, HttpTypes, Epochs
  <2>3. CASE SafeSet
    BY <1>2, <2>1, <2>3 DEF SafeSet, HttpTypes
  <2>4. CASE cancel_job
    BY <1>2, <1>3, <1>4, <2>1, <2>4 DEF cancel_job, HttpTypes, http
  <2>5. CASE AnswerSet
    BY <1>2, <1>3, <2>1, <2>5 DEF AnswerSet, HttpTypes, http
  <2>6. ASSUME NEW b \in BOOLEAN, answer_prompt(b) PROVE HttpTypes'
    BY <1>2, <1>3, <1>4, <2>6 DEF answer_prompt, HttpTypes, http
  <2>7. ASSUME NEW b \in BOOLEAN, set_confirm(b) PROVE HttpTypes'
    BY <1>2, <1>3, <1>4, <2>7 DEF set_confirm, HttpTypes, events
  <2> QED
    BY <1>7, <2>1, <2>2, <2>3, <2>4, <2>5, <2>6, <2>7
<1>8. HttpTypes' /\ JobType' /\ JobInv' /\ VerdictIsTrue'
  <2>1. /\ safe \/ SafeSet \/ cancel_job \/ AnswerSet => UNCHANGED <<tasks, job>>
        /\ \A b \in BOOLEAN : answer_prompt(b) \/ set_confirm(b) => UNCHANGED <<tasks, job>>
    BY DEF safe, SafeSet, cancel_job, AnswerSet, answer_prompt, set_confirm, shown
  <2> QED
    BY <1>5, <1>6, <1>7, <2>1 DEF Http
<1>9. LinkTypes' /\ WorkerInv' /\ Founded(w', dev'.upd)
  BY <1>1, <1>2 DEF Inv, LinkTypes, WorkerInv, VerdictInv
<1>10. StepInv' /\ AckInv' /\ RepliesInv'
  BY <1>1 DEF Inv, StepInv, AckInv, RepliesInv
<1>11. epoch' \in Nat /\ epoch <= epoch'
  BY <1>3 DEF Http, submit, safe, SafeCounts, SafeSet, cancel_job, answer_prompt, AnswerSet, set_confirm, start_job
<1>12. EpochInv'
  <2>1. \A i \in 1 .. Len(wire) : wire[i].at \in Nat
    <3>1. \A i \in 1 .. Len(wire) : wire[i] \in Sent
      BY <1>2, ElementOfSeq DEF LinkTypes
    <3> QED
      BY <3>1 DEF Sent, Epochs
  <2>2. dev.safe_at \in Nat
    BY <1>2 DEF LinkTypes, Devices, Epochs
  <2> QED
    BY <1>1, <1>3, <1>11, <2>1, <2>2, SMTT(20) DEF Inv, EpochInv, NoOldIntention
<1> QED
  BY <1>8, <1>9, <1>10, <1>12, WholeStep DEF Works, Links, VerdictInv

-----------------------------------------------------------------------------
(* How an operation goes on and ends.                                      *)

\* What a finished update may be said to be.
Final(status) ==
  /\ status \in {"done", "cancelled", "failed", "rolled_back"}
  /\ w.op = "update" => /\ status = "done" => dev.upd = "CONFIRMED"
                        /\ status = "rolled_back" => dev.upd = "IDLE"

LEMMA Rested ==
  ASSUME Inv, w' = Idle, w.op \notin Jobs, UNCHANGED <<tasks, job>>, dev'.upd = dev.upd
  PROVE  Works
<1>1. JobType' /\ WorkerInv' /\ Founded(w', dev'.upd)
  BY IdleFields, TypeParts DEF Inv, JobType, WorkerInv
<1>2. VerdictIsTrue'
  BY DEF Inv, VerdictInv, VerdictIsTrue
<1>3. JobInv'
  BY IdleFields DEF Inv, JobInv, JobActive, Jobs
<1> QED
  BY <1>1, <1>2, <1>3 DEF Works, VerdictInv

LEMMA Ended ==
  ASSUME Inv, NEW status, Final(status), Ends(status), UNCHANGED tasks, dev'.upd = dev.upd
  PROVE  Works /\ w' = Idle
<1>1. w' = Idle
  BY DEF Ends
<1>2. CASE w.op \notin Jobs
  BY <1>1, <1>2, Rested DEF Ends, Jobs
<1>3. CASE w.op \in Jobs
  <2>1. job.kind = w.op /\ tasks = <<>> /\ job \in [kind : {"none"} \cup Jobs, status : Statuses]
    BY <1>3, TypeParts DEF Inv, JobInv, JobType
  <2>2. job' = [job EXCEPT !.status = status]
    BY <1>3 DEF Ends, Jobs, JobIs
  <2>3. job' \in [kind : {"none"} \cup Jobs, status : Statuses] /\ job'.kind = w.op /\ job'.status = status
    BY <2>1, <2>2 DEF Final, Statuses
  <2>4. VerdictIsTrue'
    BY <2>3 DEF VerdictIsTrue, Final
  <2>5. WorkerInv' /\ Founded(w', dev'.upd)
    BY <1>1, IdleFields DEF WorkerInv
  <2>6. JobInv'
    BY <1>1, <2>1, IdleFields DEF JobInv, Jobs
  <2> QED
    BY <1>1, <2>3, <2>4, <2>5, <2>6 DEF Works, VerdictInv, JobType
<1> QED
  BY <1>1, <1>2, <1>3

\* The worker goes on with its operation; a job that is shown stays active.
LEMMA Goes ==
  ASSUME Inv, w' \in Workers, Able(w'), Exchanging(w'), Founded(w', dev.upd), dev'.upd = dev.upd,
         UNCHANGED tasks, w'.op = w.op,
         UNCHANGED job \/ \E status \in {"running", "waiting", "reconnecting", "trial"} : JobIs(status)
  PROVE  Works
<1>1. job \in [kind : {"none"} \cup Jobs, status : Statuses]
  BY TypeParts DEF Inv, JobType
<1>2. CASE UNCHANGED job
  <2>1. JobType' /\ VerdictIsTrue' /\ JobInv'
    BY <1>1, <1>2 DEF Inv, JobType, VerdictInv, VerdictIsTrue, JobInv, JobActive
  <2> QED
    BY <2>1 DEF Works, WorkerInv, VerdictInv
<1>3. ASSUME NEW status \in {"running", "waiting", "reconnecting", "trial"}, JobIs(status)
      PROVE  Works
  <2>1. /\ job' \in [kind : {"none"} \cup Jobs, status : Statuses]
        /\ job'.kind = job.kind /\ job'.status = status
    BY <1>1, <1>3 DEF JobIs, Statuses
  <2>2. JobType' /\ VerdictIsTrue' /\ JobInv'
    BY <2>1 DEF Inv, JobType, VerdictIsTrue, JobInv, JobActive
  <2> QED
    BY <2>2 DEF Works, WorkerInv, VerdictInv
<1> QED
  BY <1>2, <1>3

Unawaited(v) == v.pc \notin {"await", "urgent", "safeReply"}

LEMMA Raised ==
  ASSUME Inv, NEW status \in {"failed", "cancelled"}, NEW linked, Raises(status, linked),
         UNCHANGED tasks, dev'.upd = dev.upd
  PROVE  Works /\ Unawaited(w')
<1>1. CASE Ends(status)
  BY <1>1, Ended, IdleFields DEF Final, Unawaited
<1>2. CASE /\ Loading /\ w' = [Exchange("ABORT") EXCEPT !.raised = status] /\ UNCHANGED job
  <2>1. PICK x \in Workers :
          /\ x = Exchange("ABORT") /\ x.pc = "send" /\ x.cmd = "ABORT" /\ ~x.safe_sent
          /\ SameOperation(x, w) /\ SameRest(x, w) /\ x.plan = w.plan /\ x.about = w.about
    BY ExchangeFields DEF Inv, WorkerInv, Commands
  <2>2. w' = [x EXCEPT !.raised = status]
    BY <1>2, <2>1
  <2>3. /\ w' \in Workers /\ w'.raised = status /\ w'.pc = "send" /\ w'.cmd = "ABORT"
        /\ ~w'.safe_sent /\ w'.op = w.op /\ w'.active = w.active /\ w'.meant = w.meant
        /\ w'.plan = w.plan
    BY <2>1, <2>2 DEF Workers, SameOperation
  <2>4. w.op = "update"
    BY <1>2 DEF Loading
  <2>5. Able(w')
    BY <2>3, <2>4 DEF Inv, WorkerInv, Able
  <2>6. Exchanging(w') /\ Founded(w', dev.upd)
    BY <2>3 DEF Exchanging, Founded
  <2> QED
    BY <1>2, <2>3, <2>5, <2>6, Goes DEF Unawaited
<1> QED
  BY <1>1, <1>2 DEF Raises

-----------------------------------------------------------------------------
(* What a step of the worker does to the link.                             *)

LEMMA LinkKept ==
  ASSUME Inv, UNCHANGED <<epoch, session, wire, lines, dev, served, connected, safe_acknowledged>>,
         Awaited' = Awaited
  PROVE  Links
<1>1. LinkTypes'
  BY TypeParts DEF Inv, LinkTypes
<1>2. StepInv' /\ AckInv' /\ RepliesInv' /\ EpochInv'
  BY DEF Inv, StepInv, AckInv, RepliesInv, EpochInv, NoOldIntention
<1> QED
  BY <1>1, <1>2 DEF Links

LEMMA Unwaiting ==
  /\ w \in Workers /\ Unawaited(w) => Awaited = <<>>
  /\ w' \in Workers /\ Unawaited(w') => Awaited' = <<>>
BY AwaitedIsBy, AwaitedCases DEF Unawaited

LEMMA Closed ==
  ASSUME Inv, Close, UNCHANGED epoch
  PROVE  Links /\ dev'.upd = dev.upd
<1>1. LinkTypes /\ dev \in Devices /\ epoch \in Epochs
  BY TypeParts DEF Inv, LinkTypes, HttpTypes
<1>2. /\ session' = "none" /\ wire' = <<>> /\ lines' = <<>> /\ served' = epoch
      /\ connected' = FALSE /\ safe_acknowledged' = FALSE
  BY DEF Close
<1>3. dev' \in Devices /\ dev'.by = NONE /\ dev'.upd = dev.upd /\ dev'.safe_at = dev.safe_at
  <2>1. CASE session = "up"
    <3>1. dev' = [dev EXCEPT !.by = NONE]
      BY <2>1 DEF Close
    <3> QED
      BY <1>1, <3>1 DEF Devices
  <2>2. CASE session # "up"
    BY <1>1, <2>2 DEF Close, Inv, EpochInv
  <2> QED
    BY <2>1, <2>2
<1>4. LinkTypes'
  <2>1. connected' \in BOOLEAN /\ safe_acknowledged' \in BOOLEAN
    BY <1>2
  <2>2. served' \in Epochs /\ session' \in {"none", "up", "dead"}
    BY <1>1, <1>2
  <2>3. wire' \in Seq(Sent) /\ lines' \in Seq(Replies)
    BY <1>2
  <2> QED
    BY <1>3, <2>1, <2>2, <2>3 DEF LinkTypes
<1>5. StepInv'
  BY <1>2 DEF StepInv, Synced
<1>6. EpochInv'
  BY <1>2, <1>3 DEF Inv, EpochInv, NoOldIntention
<1>7. AckInv' /\ RepliesInv'
  BY <1>2, <1>3 DEF AckInv, RepliesInv
<1> QED
  BY <1>3, <1>4, <1>5, <1>6, <1>7 DEF Links

LEMMA Opened ==
  ASSUME Inv, Open, UNCHANGED epoch, Awaited' = <<>>
  PROVE  Links /\ dev'.upd = dev.upd
<1>1. LinkTypes /\ dev \in Devices /\ epoch \in Epochs
  BY TypeParts DEF Inv, LinkTypes, HttpTypes
<1>2. /\ session' = "up" /\ wire' = <<>> /\ lines' = <<>> /\ served' = epoch
      /\ connected' = TRUE /\ safe_acknowledged' = FALSE /\ dev' = [dev EXCEPT !.by = NONE]
  BY DEF Open
<1>3. dev' \in Devices /\ dev'.by = NONE /\ dev'.upd = dev.upd /\ dev'.safe_at = dev.safe_at
  BY <1>1, <1>2 DEF Devices
<1>4. LinkTypes'
  <2>1. connected' \in BOOLEAN /\ safe_acknowledged' \in BOOLEAN
    BY <1>2
  <2>2. served' \in Epochs /\ session' \in {"none", "up", "dead"}
    BY <1>1, <1>2
  <2>3. wire' \in Seq(Sent) /\ lines' \in Seq(Replies)
    BY <1>2
  <2> QED
    BY <1>3, <2>1, <2>2, <2>3 DEF LinkTypes
<1>5. StepInv'
  BY <1>2 DEF StepInv, Synced
<1>6. EpochInv'
  BY <1>2, <1>3 DEF Inv, EpochInv, NoOldIntention
<1>7. AckInv' /\ RepliesInv'
  BY <1>2, <1>3 DEF AckInv, RepliesInv
<1> QED
  BY <1>3, <1>4, <1>5, <1>6, <1>7 DEF Links

LEMMA LinkFailed ==
  ASSUME Inv, LinkFails, UNCHANGED <<epoch, tasks>>
  PROVE  Works /\ Links
<1>1. Links /\ dev'.upd = dev.upd
  BY Closed DEF LinkFails
<1>2. CASE ~Watching
  <2>1. Raises("failed", FALSE)
    BY <1>2 DEF LinkFails
  <2> QED
    BY <1>1, <2>1, Raised
<1>3. CASE Watching
  <2>1. PICK x \in Workers :
          /\ x = At("watch") /\ x.pc = "watch" /\ x.plan = w.plan
          /\ SameOperation(x, w) /\ SameRest(x, w)
    BY AtFields DEF Inv, WorkerInv, Places
  <2>2. w' = [x EXCEPT !.cmd = "STAT"]
    BY <1>3, <2>1 DEF LinkFails
  <2>3. /\ w' \in Workers /\ w'.pc = "watch" /\ w'.cmd = "STAT" /\ w'.op = w.op
        /\ w'.active = w.active /\ w'.meant = w.meant /\ w'.plan = w.plan
    BY <2>1, <2>2 DEF Workers, SameOperation, SameRest, Commands
  <2>4. w.op = "update" /\ w.plan = <<>>
    BY <1>3 DEF Watching
  <2>5. Able(w')
    BY <2>3, <2>4 DEF Inv, WorkerInv, Able
  <2>6. Exchanging(w') /\ Founded(w', dev.upd)
    BY <2>3, <2>4 DEF Exchanging, Founded
  <2>7. UNCHANGED job \/ JobIs("reconnecting")
    BY <1>3 DEF LinkFails
  <2> QED
    BY <1>1, <2>3, <2>5, <2>6, <2>7, Goes
<1> QED
  BY <1>2, <1>3

\* A step of the worker takes operations from the queue and takes back events, no more.
LEMMA WorkerHttp ==
  ASSUME Inv, Worker
  PROVE  HttpTypes' /\ UNCHANGED epoch
<1>1. HttpTypes
  BY TypeParts DEF Inv
<1>2. UNCHANGED <<epoch, pressing, cancel, confirm_update, answering>>
  BY DEF Worker, LoopTop, Get, Dispatch, Outdated, Step, PlanDone, Ask, PromptEnds, ExchangeSends,
         TakeUrgent, SafeDuring, ReadReply, ReplyTimeout, Watch, http, events
<1>3. urgent' \in {urgent, FALSE} /\ answer' \in {answer, FALSE}
  <2>1. LoopTop \/ TakeUrgent => urgent' \in {urgent, FALSE} /\ answer' = answer
    BY DEF LoopTop, TakeUrgent
  <2>2. Step => urgent' \in {urgent, FALSE} /\ answer' = answer
    BY DEF Step, Refresh, ScriptStep, UpdateStep
  <2>3. Ask => urgent' = urgent /\ answer' = FALSE
    BY DEF Ask
  <2>4. Get \/ Dispatch \/ Outdated \/ PlanDone \/ PromptEnds \/ ExchangeSends \/ SafeDuring
          \/ ReadReply \/ ReplyTimeout \/ Watch => urgent' = urgent /\ answer' = answer
    BY DEF Get, Dispatch, Outdated, PlanDone, PromptEnds, ExchangeSends, SafeDuring, ReadReply,
           ReplyTimeout, Watch, events
  <2> QED
    BY <2>1, <2>2, <2>3, <2>4 DEF Worker
<1>4. UNCHANGED tasks \/ (tasks # <<>> /\ tasks' = Tail(tasks))
  BY DEF Worker, LoopTop, Get, Dispatch, Outdated, Step, PlanDone, Ask, PromptEnds, ExchangeSends,
         TakeUrgent, SafeDuring, ReadReply, ReplyTimeout, Watch
<1>5. UNCHANGED used \/ Count("sessions")
  BY DEF Worker, LoopTop, Get, Dispatch, Outdated, Step, PlanDone, Ask, PromptEnds, ExchangeSends,
         TakeUrgent, SafeDuring, ReadReply, ReplyTimeout, Watch, Open
<1>6. /\ used' \in [tasks : 0 .. MAX_TASKS, answers : 0 .. MAX_ANSWERS, sessions : Nat]
      /\ used'.tasks = used.tasks /\ used'.answers = used.answers
  <2>1. CASE Count("sessions")
    <3>1. used' = [used EXCEPT !.sessions = used.sessions + 1]
      BY <2>1 DEF Count
    <3>2. used.sessions + 1 \in Nat
      BY <1>1 DEF HttpTypes
    <3> QED
      BY <1>1, <3>1, <3>2 DEF HttpTypes
  <2> QED
    BY <1>1, <1>5, <2>1 DEF HttpTypes
<1>7. tasks' \in Seq([op : Operations, epoch : Epochs]) /\ Len(tasks') <= used'.tasks
  <2>1. Len(tasks) \in Nat /\ used.tasks \in Nat
    BY <1>1, BridgeAssumption DEF HttpTypes
  <2>2. CASE tasks # <<>> /\ tasks' = Tail(tasks)
    <3>1. tasks' \in Seq([op : Operations, epoch : Epochs]) /\ Len(tasks') = Len(tasks) - 1
      BY <1>1, <2>2, EmptySeq DEF HttpTypes
    <3> QED
      BY <1>1, <1>6, <2>1, <3>1 DEF HttpTypes
  <2> QED
    BY <1>1, <1>4, <1>6, <2>2 DEF HttpTypes
<1> QED
  BY <1>1, <1>2, <1>3, <1>6, <1>7 DEF HttpTypes

\* A command that is sent is meant now, or is a SAFE.
LEMMA LinkSend ==
  ASSUME Inv, NEW c \in Commands, Send(c), UNCHANGED <<epoch, connected, safe_acknowledged>>,
         c = "set" => w.meant = epoch,
         \/ Awaited = <<>> /\ Awaited' = <<c>>
         \/ c = "SAFE" /\ \E d \in Commands : Awaited = <<d>> /\ Awaited' = <<d, "SAFE">>
  PROVE  Links /\ UNCHANGED dev
<1>1. /\ LinkTypes /\ epoch \in Epochs /\ Epochs \subseteq Nat /\ NONE \notin Nat
      /\ w.meant \in Epochs \cup {NONE}
  BY TypeParts, BridgeAssumption DEF Inv, HttpTypes, Epochs, WorkerInv, Workers
<1>2. PICK x \in Sent : /\ x = [cmd |-> c, by |-> w.meant, at |-> epoch]
                        /\ x.cmd = c /\ x.by = w.meant /\ x.at = epoch
  <2>1. [cmd |-> c, by |-> w.meant, at |-> epoch] \in Sent
    BY <1>1 DEF Sent
  <2> QED
    BY <2>1
<1>3. /\ lines' = lines /\ dev' = dev /\ session' = session
      /\ session = "up" => wire' = Append(wire, x) /\ served' \in {epoch, served}
      /\ session # "up" => wire' = wire /\ served' = served
  BY <1>2 DEF Send, link
<1>4. /\ wire \in Seq(Sent) /\ lines \in Seq(Replies)
      /\ Len(wire) \in Nat /\ Append(wire, x) \in Seq(Sent) /\ Len(Append(wire, x)) = Len(wire) + 1
      /\ \A i \in 1 .. Len(wire) + 1 : Append(wire, x)[i] = IF i <= Len(wire) THEN wire[i] ELSE x
  BY <1>1 DEF LinkTypes
<1>5. LinkTypes'
  <2>1. wire' \in Seq(Sent) /\ served' \in Epochs
    BY <1>1, <1>3, <1>4 DEF LinkTypes
  <2> QED
    BY <1>1, <1>3, <2>1 DEF LinkTypes
<1>6. StepInv'
  <2>1. Synced(session, lines, wire, Awaited)
    BY DEF Inv, StepInv
  <2>2. CASE session = "none"
    BY <1>3, <2>1, <2>2 DEF StepInv, Synced
  <2>3. CASE session = "up"
    <3>1. Synced("up", lines, Append(wire, x), Awaited')
      BY <1>2, <1>4, <2>1, <2>3, SyncedSend
    <3> QED
      BY <1>3, <2>3, <3>1, Zenon DEF StepInv
  <2>4. CASE session = "dead"
    <3>1. Synced("dead", lines, wire, Awaited')
      BY <1>4, <2>1, <2>4, SyncedSend
    <3> QED
      BY <1>3, <2>4, <3>1, Zenon DEF StepInv
  <2> QED
    BY <1>1, <2>2, <2>3, <2>4 DEF LinkTypes
<1>7. EpochInv'
  <2>1. x.at <= epoch /\ (x.cmd = "set" => x.by # NONE /\ x.by >= dev.safe_at)
    BY <1>1, <1>2 DEF Inv, EpochInv
  <2>2. \A i \in 1 .. Len(wire') : /\ wire'[i].at <= epoch
                                   /\ wire'[i].cmd = "set" => wire'[i].by # NONE /\ wire'[i].by >= dev.safe_at
    BY <1>3, <1>4, <2>1 DEF Inv, EpochInv
  <2> QED
    BY <1>3, <2>2 DEF Inv, EpochInv, NoOldIntention
<1>8. AckInv'
  <2>1. Awaited = <<>> => ~ \E i \in 1 .. Len(Awaited) : Awaited[i] = "SAFE"
    OBVIOUS
  <2>2. c = "SAFE" /\ Awaited # <<>> => \E i \in 1 .. Len(Awaited') : Awaited'[i] = "SAFE"
    <3>1. ASSUME NEW d \in Commands, Awaited' = <<d, "SAFE">>
          PROVE  2 \in 1 .. Len(Awaited') /\ Awaited'[2] = "SAFE"
      BY <3>1
    <3> QED
      BY <3>1, Zenon
  <2> QED
    BY <1>3, <2>1, <2>2 DEF Inv, AckInv
<1>9. RepliesInv'
  BY <1>3 DEF Inv, RepliesInv
<1> QED
  BY <1>3, <1>5, <1>6, <1>7, <1>8, <1>9 DEF Links

\* A reply that is read is told, and not awaited any more.
LEMMA LinkRead ==
  ASSUME Inv, lines # <<>>, lines[1] # EOF, lines' = Tail(lines),
         UNCHANGED <<epoch, session, wire, dev, served>>, Awaited' = Tail(Awaited),
         Observe(Awaited[1], lines[1])
  PROVE  Links /\ lines[1].cmd = Awaited[1] /\ Awaited # <<>>
<1>1. LinkTypes /\ Awaited \in Seq(Commands) /\ Synced(session, lines, wire, Awaited)
  BY TypeParts, AwaitedIsBy, AwaitedCases DEF Inv, StepInv, WorkerInv
<1>2. session \in {"up", "dead"}
  BY <1>1 DEF LinkTypes, Synced
<1>3. /\ Len(Awaited) > 0 /\ lines[1].cmd = Awaited[1]
      /\ Synced(session, Tail(lines), wire, Tail(Awaited))
  BY <1>1, <1>2, SyncedRead DEF LinkTypes
<1>4. /\ Len(lines) \in Nat /\ Len(lines) > 0 /\ Len(Tail(lines)) = Len(lines) - 1
      /\ Tail(lines) \in Seq(Replies) /\ lines[1] \in Replies
      /\ \A i \in 1 .. Len(lines) - 1 : Tail(lines)[i] = lines[i + 1] /\ i + 1 \in 1 .. Len(lines)
  <2>1. Len(lines) \in Nat /\ Len(lines) > 0
    BY <1>1, EmptySeq DEF LinkTypes
  <2> QED
    BY <1>1, <2>1, ElementOfSeq DEF LinkTypes
<1>5. /\ Len(Awaited) \in Nat /\ Len(Tail(Awaited)) = Len(Awaited) - 1
      /\ \A i \in 1 .. Len(Awaited) - 1 : Tail(Awaited)[i] = Awaited[i + 1]
  BY <1>1, <1>3, EmptySeq
<1>6. safe_acknowledged' = Acknowledged(Awaited[1], lines[1]) /\ connected' = connected
  BY DEF Observe
<1>7. LinkTypes'
  <2>1. safe_acknowledged' \in BOOLEAN
    BY <1>1, <1>4, <1>6 DEF Acknowledged, LinkTypes, Replies
  <2> QED
    BY <1>1, <1>4, <1>6, <2>1 DEF LinkTypes
<1>8. StepInv'
  BY <1>3, Zenon DEF StepInv
<1>9. EpochInv' /\ RepliesInv'
  BY <1>4 DEF Inv, EpochInv, NoOldIntention, RepliesInv
<1>10. AckInv'
  <2>1. \A i \in 1 .. Len(lines') : lines'[i].cmd = "SAFE" /\ lines'[i].ok => dev.by = NONE
    BY <1>4 DEF Inv, AckInv
  <2>2. ASSUME safe_acknowledged', dev.by # NONE
        PROVE  \E i \in 1 .. Len(Tail(Awaited)) : Tail(Awaited)[i] = "SAFE"
    <3>1. Awaited[1] # "SAFE"
      <4> SUFFICES ASSUME Awaited[1] = "SAFE" PROVE FALSE
        OBVIOUS
      <4>1. lines[1].cmd = "SAFE" /\ lines[1].ok
        BY <1>3, <1>6, <2>2 DEF Acknowledged
      <4>2. 1 \in 1 .. Len(lines)
        BY <1>4
      <4> QED
        BY <2>2, <4>1, <4>2 DEF Inv, AckInv
    <3>2. safe_acknowledged /\ ~Telling(lines[1])
      BY <1>3, <1>6, <2>2, <3>1 DEF Acknowledged, Telling
    <3>3. PICK i \in 1 .. Len(Awaited) : Awaited[i] = "SAFE"
      BY <2>2, <3>2 DEF Inv, AckInv
    <3>4. i - 1 \in 1 .. Len(Awaited) - 1 /\ (i - 1) + 1 = i
      BY <1>5, <3>1, <3>3
    <3> QED
      BY <1>5, <3>3, <3>4
  <2> QED
    BY <2>1, <2>2 DEF AckInv
<1> QED
  BY <1>1, <1>3, <1>5, <1>7, <1>8, <1>9, <1>10 DEF Links

-----------------------------------------------------------------------------
(* The worker.                                                             *)

JobGoes == UNCHANGED job \/ \E status \in {"running", "waiting", "reconnecting", "trial"} : JobIs(status)

\* The operation waits, or takes its next step.
LEMMA Placed ==
  ASSUME Inv, NEW pc \in {"step", "ask", "prompt", "wait", "watch"}, w' = At(pc),
         pc = "watch" => w.op = "update" /\ w.plan = <<>>, UNCHANGED tasks, dev'.upd = dev.upd, JobGoes
  PROVE  Works /\ Unawaited(w')
<1>1. /\ w' \in Workers /\ w'.pc = pc /\ SameOperation(w', w) /\ SameRest(w', w)
      /\ w'.cmd = w.cmd /\ w'.plan = w.plan /\ w'.about = w.about /\ w'.safe_sent = w.safe_sent
  BY AtFields DEF Inv, WorkerInv, Places
<1>2. Able(w')
  BY <1>1 DEF Inv, WorkerInv, Able, SameOperation, SameRest
<1>3. Exchanging(w')
  BY <1>1 DEF Inv, WorkerInv, Exchanging, SameOperation, SameRest
<1>4. Founded(w', dev.upd)
  BY <1>1 DEF Inv, VerdictInv, Founded, SameOperation
<1> QED
  BY <1>1, <1>2, <1>3, <1>4, Goes DEF Unawaited, JobGoes, SameOperation

\* A watched update asks again, about the reply it has.
LEMMA AsksAgain ==
  ASSUME Inv, w.op = "update", w.plan = <<>>, NEW cmd \in {"STAT", "IDN", "CONFIRM", "ERR", "query"},
         \/ w' = Exchange(cmd) /\ cmd \notin {"IDN", "query"}
         \/ \E r \in Replies :
              /\ w' = [Exchange(cmd) EXCEPT !.about = r]
              /\ cmd = "IDN" /\ r.info # "TRIAL" => dev.upd = "CONFIRMED"
              /\ cmd = "query" => \/ r.cmd = "CONFIRM" /\ r.info = "none" /\ dev.upd = "CONFIRMED"
                                  \/ r.cmd = "ERR" /\ dev.upd = "IDLE",
         cmd = "ERR" => dev.upd = "IDLE",
         UNCHANGED tasks, dev'.upd = dev.upd, JobGoes
  PROVE  Works /\ Unawaited(w')
<1>1. PICK x \in Workers :
        /\ x = Exchange(cmd) /\ x.pc = "send" /\ x.cmd = cmd /\ ~x.safe_sent
        /\ SameOperation(x, w) /\ SameRest(x, w) /\ x.plan = w.plan /\ x.about = w.about
  BY ExchangeFields DEF Inv, WorkerInv, Commands
<1>2. /\ w' \in Workers /\ w'.pc = "send" /\ w'.cmd = cmd /\ ~w'.safe_sent
      /\ SameOperation(w', w) /\ SameRest(w', w) /\ w'.plan = w.plan
      /\ cmd = "IDN" /\ w'.about.info # "TRIAL" => dev.upd = "CONFIRMED"
      /\ cmd = "query" =>
           \/ w'.about.cmd = "CONFIRM" /\ w'.about.info = "none" /\ dev.upd = "CONFIRMED"
           \/ w'.about.cmd = "ERR" /\ dev.upd = "IDLE"
  <2>1. CASE w' = Exchange(cmd) /\ cmd \notin {"IDN", "query"}
    BY <1>1, <2>1
  <2>2. ASSUME NEW r \in Replies, w' = [x EXCEPT !.about = r]
        PROVE  /\ w' \in Workers /\ w'.about = r /\ w'.pc = x.pc /\ w'.cmd = x.cmd
               /\ w'.safe_sent = x.safe_sent /\ w'.plan = x.plan
               /\ SameOperation(w', w) /\ SameRest(w', w)
    BY <1>1, <2>2 DEF Workers, SameOperation, SameRest
  <2> QED
    BY <1>1, <2>1, <2>2
<1>3. Able(w')
  BY <1>2 DEF Inv, WorkerInv, Able, SameOperation, SameRest
<1>4. Exchanging(w')
  BY <1>2 DEF Exchanging
<1>5. Founded(w', dev.upd)
  BY <1>2 DEF Founded
<1> QED
  BY <1>2, <1>3, <1>4, <1>5, Goes DEF Unawaited, JobGoes, SameOperation

\* The verdict on a watched update follows from what the device said last.
LEMMA Judged ==
  ASSUME Inv, NEW r \in Replies, r.cmd = w.cmd, Holds(r, dev.upd), w.pc \in {"await", "safeReply"},
         Watching, w.cmd # "COMMIT", Verdict(r), UNCHANGED tasks, dev'.upd = dev.upd
  PROVE  Works /\ Unawaited(w')
<1>1. /\ w.op = "update" /\ w.plan = <<>> /\ w.cmd \in {"STAT", "IDN", "CONFIRM", "ERR", "query"}
      /\ Founded(w, dev.upd)
  BY DEF Watching, Inv, WorkerInv, Workers, Commands, Able, Exchanging, VerdictInv
<1>2. ASSUME NEW status, Ends(status), status \in {"done", "cancelled", "failed", "rolled_back"},
             status = "done" => dev.upd = "CONFIRMED", status = "rolled_back" => dev.upd = "IDLE"
      PROVE  Works /\ Unawaited(w')
  <2>1. Final(status)
    BY <1>2 DEF Final
  <2>2. Works /\ w' = Idle
    BY <1>2, <2>1, Ended
  <2> QED
    BY <2>2, IdleFields DEF Unawaited
<1>3. CASE r.cmd = "STAT"
  <2>1. CASE r.info = "TRIAL"
    <3>1. /\ JobIs("trial")
          /\ w' = IF confirm_update THEN [Exchange("IDN") EXCEPT !.about = r] ELSE At("watch")
      BY <1>3, <2>1 DEF Verdict
    <3>2. JobGoes
      BY <3>1 DEF JobGoes
    <3>3. CASE w' = At("watch")
      BY <1>1, <3>2, <3>3, Placed
    <3>4. CASE w' = [Exchange("IDN") EXCEPT !.about = r]
      BY <1>1, <2>1, <3>2, <3>4, AsksAgain
    <3> QED
      BY <3>1, <3>3, <3>4
  <2>2. CASE r.info = "CONFIRMED"
    <3>1. w' = [Exchange("IDN") EXCEPT !.about = r] /\ JobGoes
      BY <1>3, <2>2 DEF Verdict, JobGoes
    <3>2. dev.upd = "CONFIRMED"
      BY <1>3, <2>2 DEF Holds
    <3> QED
      BY <1>1, <3>1, <3>2, AsksAgain
  <2>3. CASE r.info = "IDLE"
    <3>1. w' = Exchange("ERR") /\ JobGoes
      BY <1>3, <2>3 DEF Verdict, JobGoes
    <3>2. dev.upd = "IDLE"
      BY <1>3, <2>3 DEF Holds
    <3> QED
      BY <1>1, <3>1, <3>2, AsksAgain
  <2>4. CASE r.info = "RECEIVING"
    BY <1>2, <1>3, <2>4 DEF Verdict
  <2> QED
    BY <1>3, <2>1, <2>2, <2>3, <2>4 DEF Holds
<1>4. CASE r.cmd = "IDN"
  <2>1. CASE r.info = "old"
    BY <1>2, <1>4, <2>1 DEF Verdict
  <2>2. CASE r.info = "new" /\ w.about.info = "TRIAL"
    <3>1. IF cancel THEN Ends("cancelled") ELSE w' = Exchange("CONFIRM") /\ UNCHANGED job
      BY <1>4, <2>2 DEF Verdict
    <3>2. CASE cancel
      BY <1>2, <3>1, <3>2
    <3>3. CASE ~cancel
      BY <1>1, <3>1, <3>3, AsksAgain DEF JobGoes
    <3> QED
      BY <3>2, <3>3
  <2>3. CASE r.info = "new" /\ w.about.info # "TRIAL"
    <3>1. Ends("done")
      BY <1>4, <2>3 DEF Verdict
    <3>2. dev.upd = "CONFIRMED"
      BY <1>1, <1>4, <2>3 DEF Founded
    <3> QED
      BY <1>2, <3>1, <3>2
  <2> QED
    BY <1>4, <2>1, <2>2, <2>3 DEF Holds
<1>5. CASE r.cmd = "CONFIRM"
  <2>1. CASE r.ok
    <3>1. w' = [Exchange("query") EXCEPT !.about = r] /\ JobGoes
      BY <1>5, <2>1 DEF Verdict, Accepted, JobGoes
    <3>2. dev.upd = "CONFIRMED" /\ r.info = "none"
      BY <1>5, <2>1 DEF Holds
    <3> QED
      BY <1>1, <1>5, <3>1, <3>2, AsksAgain
  <2>2. CASE ~r.ok
    BY <1>2, <1>5, <2>2 DEF Verdict, Accepted
  <2> QED
    BY <2>1, <2>2
<1>6. CASE r.cmd = "ERR"
  <2>1. w' = [Exchange("query") EXCEPT !.about = r] /\ JobGoes
    BY <1>6 DEF Verdict, JobGoes
  <2>2. dev.upd = "IDLE"
    BY <1>1, <1>6 DEF Founded
  <2> QED
    BY <1>1, <1>6, <2>1, <2>2, AsksAgain
<1>7. CASE r.cmd = "query"
  <2>1. Ends(CASE w.about.cmd = "CONFIRM" -> "done"
               [] w.about.info = "rolled_back" -> "rolled_back"
               [] OTHER -> "failed")
    BY <1>7 DEF Verdict
  <2>2. \/ w.about.cmd = "CONFIRM" /\ w.about.info = "none" /\ dev.upd = "CONFIRMED"
        \/ w.about.cmd = "ERR" /\ dev.upd = "IDLE"
    BY <1>1, <1>7 DEF Founded
  <2>3. CASE w.about.cmd = "CONFIRM"
    <3>1. w.about.info # "rolled_back"
      BY <2>2, <2>3
    <3>2. Ends("done")
      BY <2>1, <2>3, <3>1, Zenon
    <3> QED
      BY <1>2, <2>2, <2>3, <3>2
  <2>4. CASE w.about.cmd # "CONFIRM" /\ w.about.info = "rolled_back"
    <3>1. Ends("rolled_back")
      BY <2>1, <2>4, Zenon
    <3> QED
      BY <1>2, <2>2, <2>4, <3>1
  <2>5. CASE w.about.cmd # "CONFIRM" /\ w.about.info # "rolled_back"
    <3>1. Ends("failed")
      BY <2>1, <2>5, Zenon
    <3> QED
      BY <1>2, <3>1
  <2> QED
    BY <2>3, <2>4, <2>5
<1> QED
  BY <1>1, <1>3, <1>4, <1>5, <1>6, <1>7

LEMMA PlanTails ==
  /\ Head(<<"COMMIT">>) = "COMMIT" /\ Tail(<<"COMMIT">>) = <<>>
  /\ Head(<<"DATA", "COMMIT">>) = "DATA" /\ Tail(<<"DATA", "COMMIT">>) = <<"COMMIT">>
  /\ Head(<<"BEGIN", "DATA", "COMMIT">>) = "BEGIN"
  /\ Tail(<<"BEGIN", "DATA", "COMMIT">>) = <<"DATA", "COMMIT">>
  /\ Head(<<"SAFE", "BEGIN", "DATA", "COMMIT">>) = "SAFE"
  /\ Tail(<<"SAFE", "BEGIN", "DATA", "COMMIT">>) = <<"BEGIN", "DATA", "COMMIT">>
<1> DEFINE S == {"SAFE", "BEGIN", "DATA", "COMMIT"}
<1>1. ASSUME NEW p \in Seq(S), NEW q \in Seq(S), Len(p) = Len(q) + 1,
             \A i \in 1 .. Len(q) : p[i + 1] = q[i]
      PROVE  Tail(p) = q /\ Head(p) = p[1]
  <2>1. /\ Tail(p) \in Seq(S) /\ Len(Tail(p)) = Len(q)
        /\ \A i \in 1 .. Len(q) : Tail(p)[i] = p[i + 1]
    BY <1>1
  <2> QED
    BY <1>1, <2>1, SeqEqual
<1>2. /\ <<>> \in Seq(S) /\ <<"COMMIT">> \in Seq(S) /\ <<"DATA", "COMMIT">> \in Seq(S)
      /\ <<"BEGIN", "DATA", "COMMIT">> \in Seq(S) /\ <<"SAFE", "BEGIN", "DATA", "COMMIT">> \in Seq(S)
  OBVIOUS
<1>3. Head(<<"COMMIT">>) = "COMMIT" /\ Tail(<<"COMMIT">>) = <<>>
  BY <1>1, <1>2
<1>4. Head(<<"DATA", "COMMIT">>) = "DATA" /\ Tail(<<"DATA", "COMMIT">>) = <<"COMMIT">>
  BY <1>1, <1>2
<1>5. /\ Head(<<"BEGIN", "DATA", "COMMIT">>) = "BEGIN"
      /\ Tail(<<"BEGIN", "DATA", "COMMIT">>) = <<"DATA", "COMMIT">>
  BY <1>1, <1>2
<1>6. /\ Head(<<"SAFE", "BEGIN", "DATA", "COMMIT">>) = "SAFE"
      /\ Tail(<<"SAFE", "BEGIN", "DATA", "COMMIT">>) = <<"BEGIN", "DATA", "COMMIT">>
  BY <1>1, <1>2
<1> QED
  BY <1>3, <1>4, <1>5, <1>6

\* The next command of a plan.
LEMMA NextOfPlan ==
  ASSUME Inv, w.plan # <<>>, w.op \in {"connect", "refresh", "script", "update"},
         Head(w.plan) \in Commands \ {"none", "ABORT"},
         w' = [Exchange(Head(w.plan)) EXCEPT !.plan = Tail(@)],
         UNCHANGED tasks, dev'.upd = dev.upd, JobGoes
  PROVE  Works /\ Unawaited(w')
<1> DEFINE cmd == Head(w.plan)
<1>1. PICK x \in Workers :
        /\ x = Exchange(cmd) /\ x.pc = "send" /\ x.cmd = cmd /\ ~x.safe_sent
        /\ SameOperation(x, w) /\ SameRest(x, w) /\ x.plan = w.plan /\ x.about = w.about
  BY ExchangeFields DEF Inv, WorkerInv
<1>2. PICK t \in Seq({"set", "query", "wait", "prompt", "SAFE", "BEGIN", "DATA", "COMMIT"}) : t = Tail(w.plan)
  <2>1. w.plan \in Seq({"set", "query", "wait", "prompt", "SAFE", "BEGIN", "DATA", "COMMIT"})
    BY DEF Inv, WorkerInv, Workers
  <2>2. Tail(w.plan) \in Seq({"set", "query", "wait", "prompt", "SAFE", "BEGIN", "DATA", "COMMIT"})
    BY <2>1
  <2> QED
    BY <2>2
<1>3. /\ w' \in Workers /\ w'.pc = "send" /\ w'.cmd = cmd /\ ~w'.safe_sent /\ w'.plan = t
      /\ SameOperation(w', w) /\ w'.raised = w.raised
  <2>1. w' = [x EXCEPT !.plan = t]
    BY <1>1, <1>2
  <2> HIDE DEF cmd
  <2>2. w' \in Workers /\ w'.plan = t
    BY <2>1 DEF Workers
  <2>3. /\ w'.pc = x.pc /\ w'.cmd = x.cmd /\ w'.safe_sent = x.safe_sent
        /\ SameOperation(w', x) /\ w'.raised = x.raised
    BY <2>1, ZenonT(30) DEF Workers, SameOperation
  <2> QED
    BY <1>1, <2>2, <2>3 DEF SameOperation, SameRest
<1>4. Able(w')
  <2>1. Able(w)
    BY DEF Inv, WorkerInv
  <2>2. CASE w.op \in {"connect", "refresh"}
    <3>1. w.plan \in Seq({"query"})
      BY <2>1, <2>2 DEF Able
    <3>2. cmd = "query" /\ t \in Seq({"query"})
      BY <1>2, <3>1
    <3> QED
      BY <1>3, <2>1, <2>2, <3>2 DEF Able, SameOperation
  <2>3. CASE w.op = "script"
    <3>1. w.plan \in Seq({"set", "query", "wait", "prompt"})
      BY <2>1, <2>3 DEF Able
    <3>2. cmd \in {"set", "query"} /\ t \in Seq({"set", "query", "wait", "prompt"})
      BY <1>2, <3>1 DEF Commands
    <3> QED
      BY <1>3, <2>1, <2>3, <3>2 DEF Able, SameOperation
  <2>4. CASE w.op = "update"
    <3>1. w.plan \in {<<"COMMIT">>, <<"DATA", "COMMIT">>, <<"BEGIN", "DATA", "COMMIT">>,
                     <<"SAFE", "BEGIN", "DATA", "COMMIT">>}
      BY <2>1, <2>4 DEF Able
    <3>2. \/ cmd = "COMMIT" /\ t = <<>>
          \/ cmd = "DATA" /\ t = <<"COMMIT">>
          \/ cmd = "BEGIN" /\ t = <<"DATA", "COMMIT">>
          \/ cmd = "SAFE" /\ t = <<"BEGIN", "DATA", "COMMIT">>
      BY <1>2, <3>1, PlanTails
    <3> QED
      BY <1>3, <2>1, <2>4, <3>2 DEF Able, SameOperation
  <2> QED
    BY <2>2, <2>3, <2>4
<1>5. Exchanging(w')
  BY <1>3 DEF Exchanging
<1>6. Founded(w', dev.upd)
  <2>1. CASE w.op = "update"
    <3>1. w.plan \in {<<"COMMIT">>, <<"DATA", "COMMIT">>, <<"BEGIN", "DATA", "COMMIT">>,
                     <<"SAFE", "BEGIN", "DATA", "COMMIT">>}
      BY <2>1 DEF Inv, WorkerInv, Able
    <3>2. cmd \in {"COMMIT", "DATA", "BEGIN", "SAFE"}
      BY <3>1, PlanTails
    <3> QED
      BY <1>3, <3>2 DEF Founded
  <2> QED
    BY <1>3, <2>1 DEF Founded, SameOperation
<1> QED
  BY <1>3, <1>4, <1>5, <1>6, Goes DEF Unawaited, JobGoes, SameOperation

\* The exchange is over: the operation ends, or goes on by what was answered.
LEMMA Returned ==
  ASSUME Inv, NEW r \in Replies, r.cmd = w.cmd, Holds(r, dev.upd), w.pc \in {"await", "safeReply"},
         Returns(r), UNCHANGED tasks, dev'.upd = dev.upd
  PROVE  Works /\ Unawaited(w')
<1>1. Able(w) /\ Exchanging(w) /\ w \in Workers
  BY DEF Inv, WorkerInv
<1>2. CASE w.op \in {"urgent", "poll", "set", "query"}
  <2>1. Ends("done") /\ Final("done")
    BY <1>2 DEF Returns, Final
  <2> QED
    BY <2>1, Ended, IdleFields DEF Unawaited
<1>3. CASE w.op \in {"connect", "refresh"}
  <2>1. /\ w' = IF r.cmd = "SAFE" THEN [Exchange(Head(w.plan)) EXCEPT !.plan = Tail(@)]
                ELSE At("step")
        /\ JobGoes
    BY <1>3 DEF Returns, JobGoes
  <2>2. CASE r.cmd = "SAFE"
    <3>1. w.plan \in Seq({"query"}) /\ w.plan # <<>>
      BY <1>1, <1>3, <2>2 DEF Able
    <3>2. Head(w.plan) = "query"
      BY <3>1
    <3>3. "query" \in Commands \ {"none", "ABORT"}
      BY <1>1 DEF Commands, Workers
    <3> QED
      BY <1>3, <2>1, <2>2, <3>1, <3>2, <3>3, NextOfPlan
  <2>3. CASE r.cmd # "SAFE"
    BY <2>1, <2>3, Placed
  <2> QED
    BY <2>2, <2>3
<1>4. CASE w.op = "update" /\ r.cmd = "ABORT"
  <2>1. Ends(w.raised)
    BY <1>4 DEF Returns, Watching
  <2>2. w.raised \in {"failed", "cancelled"}
    BY <1>1, <1>4 DEF Exchanging, Workers
  <2>3. Final(w.raised)
    BY <2>2 DEF Final
  <2> QED
    BY <2>1, <2>3, Ended, IdleFields DEF Unawaited
<1>5. CASE w.op = "update" /\ Watching /\ r.cmd # "COMMIT"
  <2>1. Verdict(r)
    BY <1>5 DEF Returns, Watching
  <2> QED
    BY <1>5, <2>1, Judged
<1>6. CASE /\ w.op \notin {"urgent", "poll", "set", "query", "connect", "refresh"}
           /\ ~(w.op = "update" /\ r.cmd = "ABORT")
           /\ ~(w.op = "update" /\ Watching /\ r.cmd # "COMMIT")
  <2>1. IF Accepted(r) THEN w' = At("step") /\ UNCHANGED job ELSE Raises("failed", TRUE)
    BY <1>6 DEF Returns
  <2>2. CASE w' = At("step") /\ UNCHANGED job
    BY <2>2, Placed DEF JobGoes
  <2>3. CASE Raises("failed", TRUE)
    BY <2>3, Raised
  <2> QED
    BY <2>1, <2>2, <2>3
<1> QED
  BY <1>2, <1>3, <1>4, <1>5, <1>6

\* The worker takes up, or sends a command for, something that is not a job.
LEMMA Turns ==
  ASSUME Inv, w' \in Workers, Able(w'), Exchanging(w'), Founded(w', dev.upd), dev'.upd = dev.upd,
         UNCHANGED <<tasks, job>>, w'.op \notin Jobs
  PROVE  Works
<1>1. JobType' /\ VerdictIsTrue' /\ JobInv'
  BY TypeParts DEF Inv, JobType, VerdictInv, VerdictIsTrue, JobInv, JobActive
<1> QED
  BY <1>1 DEF Works, WorkerInv, VerdictInv

\* No step of this kind touches the link.
LEMMA OffLink ==
  ASSUME Inv, Unawaited(w), Works, Unawaited(w'), UNCHANGED <<epoch, connected, safe_acknowledged, link>>
  PROVE  Links
<1>1. Awaited = <<>> /\ Awaited' = <<>>
  BY Unwaiting DEF Inv, Works, WorkerInv
<1> QED
  BY <1>1, LinkKept DEF link

LEMMA LoopTopStep ==
  ASSUME Inv, LoopTop
  PROVE  Works /\ Links
<1>1. /\ w \in Workers /\ w.pc = "loop" /\ w.op = "none" /\ w.cmd = "none" /\ w.plan = <<>>
      /\ w.raised \in {"none", "failed", "cancelled"}
  BY DEF LoopTop, Inv, WorkerInv, Exchanging, Able, Workers
<1>2. UNCHANGED <<epoch, tasks, shown, link>> /\ UNCHANGED <<job, connected, safe_acknowledged>>
      /\ dev'.upd = dev.upd
  BY DEF LoopTop, shown, link
<1>3. CASE w' = At("get")
  <2>1. /\ w' \in Workers /\ w'.pc = "get" /\ w'.op = "none" /\ w'.cmd = "none" /\ w'.plan = <<>>
    BY <1>1, <1>3, AtFields DEF Places, SameOperation, SameRest
  <2>2. Able(w') /\ Exchanging(w') /\ Founded(w', dev.upd)
    BY <1>1, <2>1 DEF Able, Exchanging, Founded
  <2>3. Works
    BY <1>2, <2>1, <2>2, Turns DEF Jobs
  <2> QED
    BY <1>1, <1>2, <2>1, <2>3, OffLink DEF Unawaited
<1>4. CASE w' = [Exchange("SAFE") EXCEPT !.op = "urgent"]
  <2>1. PICK x \in Workers :
          /\ x = Exchange("SAFE") /\ x.pc = "send" /\ x.cmd = "SAFE" /\ ~x.safe_sent
          /\ SameRest(x, w)
    BY <1>1, ExchangeFields DEF Commands
  <2>2. /\ w' \in Workers /\ w'.pc = "send" /\ w'.op = "urgent" /\ w'.cmd = "SAFE" /\ ~w'.safe_sent
    BY <1>4, <2>1 DEF Workers, Operations, SameRest
  <2>3. Able(w') /\ Exchanging(w') /\ Founded(w', dev.upd)
    BY <1>1, <2>2 DEF Able, Exchanging, Founded
  <2>4. Works
    BY <1>2, <2>2, <2>3, Turns DEF Jobs
  <2> QED
    BY <1>1, <1>2, <2>2, <2>4, OffLink DEF Unawaited
<1> QED
  BY <1>3, <1>4 DEF LoopTop

LEMMA GetStep ==
  ASSUME Inv, Get
  PROVE  Works /\ Links
<1>1. /\ w \in Workers /\ w.pc = "get" /\ w.op = "none" /\ w.cmd = "none" /\ w.plan = <<>>
  BY DEF Get, Inv, WorkerInv, Exchanging, Able
<1>2. UNCHANGED <<epoch, job, connected, safe_acknowledged, link>> /\ dev'.upd = dev.upd
  BY DEF Get, shown, link
<1>3. tasks \in Seq([op : Operations, epoch : Epochs])
  BY DEF Inv, TypesInv
<1>4. CASE /\ tasks # <<>> /\ tasks' = Tail(tasks)
           /\ w' = [At("got") EXCEPT !.op = Head(tasks).op, !.active = Taken(Head(tasks)),
                                     !.meant = Head(tasks).epoch]
  <2>1. PICK op \in Operations, e \in Epochs : tasks[1].op = op /\ tasks[1].epoch = e /\ Head(tasks) = tasks[1]
    <3>1. Len(tasks) \in Nat /\ Len(tasks) > 0
      BY <1>3, <1>4, EmptySeq
    <3>2. 1 \in 1 .. Len(tasks)
      BY <3>1
    <3>3. tasks[1] \in [op : Operations, epoch : Epochs]
      BY <1>3, <3>2, ElementOfSeq, Zenon
    <3>4. Head(tasks) = tasks[1]
      BY <1>3, <1>4
    <3> QED
      BY <3>3, <3>4
  <2>2. PICK x \in Workers : /\ x = At("got") /\ x.pc = "got" /\ SameRest(x, w)
                             /\ x.cmd = "none" /\ x.plan = <<>>
    BY <1>1, AtFields DEF Places
  <2>3. w' = [x EXCEPT !.op = op, !.active = e, !.meant = e]
    BY <1>4, <2>1, <2>2 DEF Taken
  <2>4. /\ w' \in Workers /\ w'.pc = "got" /\ w'.op = op /\ w'.active = e /\ w'.meant = e
        /\ w'.cmd = "none" /\ w'.plan = <<>>
    BY <2>2, <2>3 DEF Workers, SameRest
  <2>5. <<>> \in Seq({"query"}) /\ <<>> \in Seq({"set", "query", "wait", "prompt"})
    OBVIOUS
  <2>6. Able(w') /\ Exchanging(w') /\ Founded(w', dev.upd)
    BY <1>1, <2>4, <2>5 DEF Able, Exchanging, Founded
  <2>7. /\ Len(tasks) \in Nat /\ Len(tasks) > 0 /\ Len(tasks') = Len(tasks) - 1
        /\ \A i \in 1 .. Len(tasks) - 1 : tasks'[i] = tasks[i + 1] /\ i + 1 \in 1 .. Len(tasks)
    BY <1>3, <1>4, EmptySeq
  <2>8. ASSUME op \in Jobs PROVE job.kind = op /\ JobActive /\ tasks' = <<>>
    <3>1. job.kind = op /\ JobActive /\ Len(tasks) = 1
      BY <2>1, <2>7, <2>8 DEF Inv, JobInv
    <3>2. tasks' \in Seq([op : Operations, epoch : Epochs]) /\ Len(tasks') = 0
      BY <1>3, <1>4, <2>7, <3>1
    <3> QED
      BY <3>1, <3>2, EmptySeq
  <2>9. \A i \in 1 .. Len(tasks') : tasks'[i].op \notin Jobs
    <3> SUFFICES ASSUME NEW i \in 1 .. Len(tasks'), tasks'[i].op \in Jobs PROVE FALSE
      OBVIOUS
    <3>1. i + 1 \in 1 .. Len(tasks) /\ tasks[i + 1].op \in Jobs
      BY <2>7
    <3>2. Len(tasks) = 1
      BY <3>1 DEF Inv, JobInv
    <3> QED
      BY <2>7, <3>1, <3>2
  <2>10. JobInv'
    BY <1>2, <2>4, <2>8, <2>9 DEF JobInv, JobActive
  <2>11. JobType' /\ VerdictIsTrue'
    BY <1>2, TypeParts DEF Inv, JobType, VerdictInv, VerdictIsTrue
  <2>12. Works
    BY <1>2, <2>4, <2>6, <2>10, <2>11 DEF Works, WorkerInv, VerdictInv
  <2> QED
    BY <1>1, <1>2, <2>4, <2>12, OffLink DEF Unawaited
<1>5. CASE UNCHANGED tasks /\ w' = Idle
  <2>1. Works
    BY <1>1, <1>2, <1>5, Rested DEF Jobs
  <2> QED
    BY <1>1, <1>2, <1>5, <2>1, OffLink, IdleFields DEF Unawaited
<1>6. CASE UNCHANGED tasks /\ w' = [Exchange("query") EXCEPT !.op = "poll"]
  <2>1. PICK x \in Workers :
          /\ x = Exchange("query") /\ x.pc = "send" /\ x.cmd = "query" /\ ~x.safe_sent
          /\ SameRest(x, w)
    BY <1>1, ExchangeFields DEF Commands
  <2>2. /\ w' \in Workers /\ w'.pc = "send" /\ w'.op = "poll" /\ w'.cmd = "query" /\ ~w'.safe_sent
    BY <1>6, <2>1 DEF Workers, Operations, SameRest
  <2>3. Able(w') /\ Exchanging(w') /\ Founded(w', dev.upd)
    BY <1>1, <2>2 DEF Able, Exchanging, Founded
  <2>4. Works
    BY <1>2, <1>6, <2>2, <2>3, Turns DEF Jobs
  <2> QED
    BY <1>1, <1>2, <2>2, <2>4, OffLink DEF Unawaited
<1>7. \/ /\ tasks # <<>> /\ tasks' = Tail(tasks)
         /\ w' = [At("got") EXCEPT !.op = Head(tasks).op, !.active = Taken(Head(tasks)),
                                   !.meant = Head(tasks).epoch]
      \/ UNCHANGED tasks /\ w' \in {Idle} \cup IF session = "none" THEN {}
                             ELSE {[Exchange("query") EXCEPT !.op = "poll"]}
  BY DEF Get
<1> QED
  BY <1>4, <1>5, <1>6, <1>7

LEMMA PlansAre ==
  /\ <<"query", "query">> \in Seq({"query"})
  /\ SCRIPT \in Seq({"set", "query", "wait", "prompt"})
  /\ \A op \in Operations :
       Plan(op) \in Seq({"set", "query", "wait", "prompt", "SAFE", "BEGIN", "DATA", "COMMIT"})
<1>1. SCRIPT \in Seq({"set", "query", "wait", "prompt"})
  BY BridgeAssumption
<1>2. SCRIPT \in Seq({"set", "query", "wait", "prompt", "SAFE", "BEGIN", "DATA", "COMMIT"})
  <2> DEFINE S == {"set", "query", "wait", "prompt"}
             T == {"set", "query", "wait", "prompt", "SAFE", "BEGIN", "DATA", "COMMIT"}
  <2>1. Len(SCRIPT) \in Nat /\ DOMAIN SCRIPT = 1 .. Len(SCRIPT) /\ SCRIPT \in [1 .. Len(SCRIPT) -> S]
    BY <1>1
  <2>2. SCRIPT \in [1 .. Len(SCRIPT) -> T]
    BY <2>1
  <2> QED
    BY <2>1, <2>2
<1>3. /\ <<"query", "query">> \in Seq({"set", "query", "wait", "prompt", "SAFE", "BEGIN", "DATA", "COMMIT"})
      /\ <<"SAFE", "BEGIN", "DATA", "COMMIT">> \in Seq({"set", "query", "wait", "prompt", "SAFE", "BEGIN", "DATA", "COMMIT"})
      /\ <<"query", "query">> \in Seq({"query"})
  OBVIOUS
<1> QED
  BY <1>1, <1>2, <1>3 DEF Plan

\* An operation with a plan begins.
LEMMA Begins ==
  ASSUME Inv, w.pc = "got", w' = [At("step") EXCEPT !.plan = Plan(w.op)],
         UNCHANGED <<tasks, job>>, dev'.upd = dev.upd
  PROVE  Works /\ Unawaited(w')
<1>1. /\ w \in Workers /\ w.op \in Operations /\ w.cmd = "none" /\ Able(w) /\ Exchanging(w)
  BY DEF Inv, WorkerInv, Exchanging, Workers
<1>2. PICK x \in Workers :
        /\ x = At("step") /\ x.pc = "step" /\ SameOperation(x, w) /\ SameRest(x, w) /\ x.cmd = "none"
  BY <1>1, AtFields DEF Places
<1>3. PICK plan \in Seq({"set", "query", "wait", "prompt", "SAFE", "BEGIN", "DATA", "COMMIT"}) :
        plan = Plan(w.op)
  BY <1>1, PlansAre
<1>4. /\ w' \in Workers /\ w'.pc = "step" /\ w'.plan = Plan(w.op) /\ SameOperation(w', w)
      /\ SameRest(w', w) /\ w'.cmd = "none"
  <2>1. w' = [x EXCEPT !.plan = plan]
    BY <1>2, <1>3
  <2>2. w' \in Workers /\ w'.plan = plan
    BY <2>1 DEF Workers
  <2>3. w'.pc = x.pc /\ w'.cmd = x.cmd /\ SameOperation(w', x) /\ SameRest(w', x)
    BY <2>1 DEF Workers, SameOperation, SameRest
  <2> QED
    BY <1>2, <1>3, <2>2, <2>3 DEF SameOperation, SameRest
<1>5. Able(w')
  <2>1. /\ w.op \in {"connect", "refresh"} => Plan(w.op) \in Seq({"query"})
        /\ w.op = "script" => Plan(w.op) \in Seq({"set", "query", "wait", "prompt"})
        /\ w.op = "update" => Plan(w.op) = <<"SAFE", "BEGIN", "DATA", "COMMIT">>
    BY PlansAre DEF Plan
  <2> QED
    BY <1>1, <1>4, <2>1 DEF Able, SameOperation, SameRest
<1>6. Exchanging(w') /\ Founded(w', dev.upd)
  BY <1>4 DEF Exchanging, Founded
<1> QED
  BY <1>4, <1>5, <1>6, Goes DEF Unawaited, SameOperation

LEMMA DispatchStep ==
  ASSUME Inv, Dispatch
  PROVE  Works /\ Links
<1>1. /\ w \in Workers /\ w.pc = "got" /\ w.op \in Operations /\ w.cmd = "none" /\ w.plan = <<>>
      /\ Able(w) /\ UNCHANGED <<epoch, tasks>>
  BY DEF Dispatch, Inv, WorkerInv, Exchanging, Workers
<1>2. CASE w.op = "disconnect"
  <2>1. Close /\ Ends("done")
    BY <1>2 DEF Dispatch
  <2>2. Links /\ dev'.upd = dev.upd
    BY <1>1, <2>1, Closed
  <2> QED
    BY <1>1, <1>2, <2>1, <2>2, Ended DEF Final
<1>3. CASE w.op = "connect"
  <2>1. \/ Open /\ w' = [At("step") EXCEPT !.plan = Plan("connect")] /\ UNCHANGED job
        \/ Close /\ Ends("failed") /\ UNCHANGED used
    BY <1>3 DEF Dispatch
  <2>2. CASE Close /\ Ends("failed")
    <3>1. Links /\ dev'.upd = dev.upd
      BY <1>1, <2>2, Closed
    <3> QED
      BY <1>1, <1>3, <2>2, <3>1, Ended DEF Final
  <2>3. CASE Open /\ w' = [At("step") EXCEPT !.plan = Plan("connect")] /\ UNCHANGED job
    <3>1. dev'.upd = dev.upd
      BY <2>3 DEF Open, Inv, TypesInv, Devices
    <3>2. Works /\ Unawaited(w')
      BY <1>1, <1>3, <2>3, <3>1, Begins
    <3>3. Awaited' = <<>>
      BY <3>2, Unwaiting DEF Works, WorkerInv
    <3> QED
      BY <1>1, <2>3, <3>2, <3>3, Opened
  <2> QED
    BY <2>1, <2>2, <2>3
<1>4. CASE w.op \in {"set", "query"}
  <2>1. w' = Exchange(w.op) /\ UNCHANGED <<shown, link>>
    BY <1>4 DEF Dispatch
  <2>2. w.op \in Commands
    BY <1>4 DEF Commands
  <2>3. /\ w' \in Workers /\ w'.pc = "send" /\ w'.cmd = w.op /\ ~w'.safe_sent
        /\ SameOperation(w', w) /\ SameRest(w', w)
    BY <1>1, <2>1, <2>2, ExchangeFields
  <2>4. Able(w') /\ Exchanging(w') /\ Founded(w', dev.upd)
    BY <1>1, <1>4, <2>3 DEF Able, Exchanging, Founded, SameOperation, SameRest
  <2>5. UNCHANGED <<job, connected, safe_acknowledged, link>> /\ dev'.upd = dev.upd
    BY <2>1 DEF shown, link
  <2>6. Works
    BY <1>1, <1>4, <2>3, <2>4, <2>5, Turns DEF Jobs, SameOperation
  <2> QED
    BY <1>1, <2>3, <2>5, <2>6, OffLink DEF Unawaited
<1>5. CASE w.op \notin {"disconnect", "connect", "set", "query"}
  <2>1. w' = [At("step") EXCEPT !.plan = Plan(w.op)] /\ UNCHANGED <<shown, link>>
    BY <1>5 DEF Dispatch
  <2>2. UNCHANGED <<job, connected, safe_acknowledged, link>> /\ dev'.upd = dev.upd
    BY <2>1 DEF shown, link
  <2>3. Works /\ Unawaited(w')
    BY <1>1, <2>1, <2>2, Begins
  <2> QED
    BY <1>1, <2>2, <2>3, OffLink DEF Unawaited
<1> QED
  BY <1>2, <1>3, <1>4, <1>5

LEMMA OutdatedStep ==
  ASSUME Inv, Outdated
  PROVE  Works /\ Links
<1>1. /\ Unawaited(w) /\ Ends("cancelled")
      /\ UNCHANGED <<epoch, tasks, connected, safe_acknowledged, link>> /\ dev'.upd = dev.upd
  BY DEF Outdated, Unawaited, link
<1>2. Works /\ Unawaited(w')
  BY <1>1, Ended, IdleFields DEF Final, Unawaited
<1> QED
  BY <1>1, <1>2, OffLink

\* An operation sends a command that is not of its plan.
LEMMA Interjects ==
  ASSUME Inv, w.op \in {"connect", "refresh"}, w.plan # <<>>, w' = Exchange("SAFE"),
         UNCHANGED <<tasks, job>>, dev'.upd = dev.upd
  PROVE  Works /\ Unawaited(w')
<1>1. /\ w' \in Workers /\ w'.pc = "send" /\ w'.cmd = "SAFE" /\ ~w'.safe_sent
      /\ SameOperation(w', w) /\ SameRest(w', w) /\ w'.plan = w.plan
  BY ExchangeFields DEF Inv, WorkerInv, Commands
<1>2. Able(w') /\ Exchanging(w') /\ Founded(w', dev.upd)
  BY <1>1 DEF Inv, WorkerInv, Able, Exchanging, Founded, SameOperation, SameRest
<1> QED
  BY <1>1, <1>2, Goes DEF Unawaited, SameOperation

LEMMA StepStep ==
  ASSUME Inv, Step
  PROVE  Works /\ Links
<1>1. /\ w \in Workers /\ Able(w) /\ Unawaited(w)
      /\ UNCHANGED <<epoch, tasks, connected, safe_acknowledged, link>> /\ dev'.upd = dev.upd
  BY DEF Step, Inv, WorkerInv, Unawaited, link
<1>2. CASE Refresh
  <2>1. w.op \in {"connect", "refresh"} /\ UNCHANGED job
    BY <1>2 DEF Refresh
  <2>2. CASE w.plan = <<>>
    <3>1. w' = Idle
      BY <1>2, <2>2 DEF Refresh
    <3> QED
      BY <1>1, <2>1, <3>1, Rested, OffLink, IdleFields DEF Jobs, Unawaited
  <2>3. CASE w.plan # <<>> /\ urgent
    <3>1. w' = Exchange("SAFE")
      BY <1>2, <2>3 DEF Refresh
    <3> QED
      BY <1>1, <2>1, <2>3, <3>1, Interjects, OffLink
  <2>4. CASE w.plan # <<>> /\ ~urgent
    <3>1. w' = [Exchange(Head(w.plan)) EXCEPT !.plan = Tail(@)]
      BY <1>2, <2>4 DEF Refresh
    <3>2. Head(w.plan) = "query"
      <4>1. w.plan \in Seq({"query"})
        BY <1>1, <2>1 DEF Able
      <4> QED
        BY <2>4, <4>1
    <3>3. Head(w.plan) \in Commands \ {"none", "ABORT"}
      BY <1>1, <3>2 DEF Commands, Workers
    <3>4. Works /\ Unawaited(w')
      BY <1>1, <2>1, <2>4, <3>1, <3>3, NextOfPlan DEF JobGoes
    <3> QED
      BY <1>1, <3>4, OffLink
  <2> QED
    BY <2>2, <2>3, <2>4
<1>3. CASE ScriptStep
  <2>1. /\ w.op = "script" /\ w.plan # <<>>
        /\ IF cancel THEN Ends("cancelled")
           ELSE /\ JobIs("running")
                /\ w' = [(CASE Head(w.plan) = "wait" -> At("wait")
                            [] Head(w.plan) = "prompt" -> At("ask")
                            [] OTHER -> Exchange(Head(w.plan))) EXCEPT !.plan = Tail(@)]
    BY <1>3 DEF ScriptStep
  <2>2. /\ w.plan \in Seq({"set", "query", "wait", "prompt"})
        /\ Head(w.plan) \in {"set", "query", "wait", "prompt"}
        /\ Tail(w.plan) \in Seq({"set", "query", "wait", "prompt"})
    <3>1. w.plan \in Seq({"set", "query", "wait", "prompt"})
      BY <1>1, <2>1 DEF Able
    <3> QED
      BY <2>1, <3>1
  <2>3. CASE cancel
    <3>1. Works /\ Unawaited(w')
      BY <1>1, <2>1, <2>3, Ended, IdleFields DEF Final, Unawaited
    <3> QED
      BY <1>1, <3>1, OffLink
  <2>4. CASE ~cancel /\ Head(w.plan) \in {"set", "query"}
    <3>1. w' = [Exchange(Head(w.plan)) EXCEPT !.plan = Tail(@)] /\ JobIs("running")
      BY <2>1, <2>4
    <3>2. Head(w.plan) \in Commands \ {"none", "ABORT"}
      BY <1>1, <2>4 DEF Commands, Workers
    <3>3. Works /\ Unawaited(w')
      BY <1>1, <2>1, <3>1, <3>2, NextOfPlan DEF JobGoes
    <3> QED
      BY <1>1, <3>3, OffLink
  <2>5. ASSUME NEW pc \in {"wait", "ask"}, w' = [At(pc) EXCEPT !.plan = Tail(@)], JobIs("running")
        PROVE  Works /\ Unawaited(w')
    <3>1. PICK x \in Workers :
            /\ x = At(pc) /\ x.pc = pc /\ SameOperation(x, w) /\ SameRest(x, w) /\ x.plan = w.plan
            /\ x.cmd = w.cmd
      BY <1>1, AtFields DEF Places
    <3>2. PICK t \in Seq({"set", "query", "wait", "prompt", "SAFE", "BEGIN", "DATA", "COMMIT"}) : t = Tail(w.plan)
      <4>1. w.plan \in Seq({"set", "query", "wait", "prompt", "SAFE", "BEGIN", "DATA", "COMMIT"})
        BY <1>1 DEF Workers
      <4>2. Tail(w.plan) \in Seq({"set", "query", "wait", "prompt", "SAFE", "BEGIN", "DATA", "COMMIT"})
        BY <2>1, <4>1
      <4> QED
        BY <4>2
    <3>3. w' = [x EXCEPT !.plan = t]
      BY <2>5, <3>1, <3>2
    <3>4. /\ w' \in Workers /\ w'.pc = pc /\ SameOperation(w', w) /\ SameRest(w', w) /\ w'.plan = t
          /\ w'.cmd = w.cmd
      BY <3>1, <3>3 DEF Workers, SameOperation, SameRest
    <3>5. Able(w')
      BY <1>1, <2>1, <2>2, <3>2, <3>4 DEF Able, SameOperation, SameRest
    <3>6. Exchanging(w') /\ Founded(w', dev.upd)
      BY <2>1, <3>4 DEF Inv, WorkerInv, Exchanging, Founded, SameOperation, SameRest
    <3> QED
      BY <1>1, <2>5, <3>4, <3>5, <3>6, Goes DEF Unawaited, SameOperation
  <2>6. CASE ~cancel /\ Head(w.plan) = "wait"
    <3>1. w' = [At("wait") EXCEPT !.plan = Tail(@)] /\ JobIs("running")
      BY <2>1, <2>6
    <3> QED
      BY <1>1, <2>5, <3>1, OffLink
  <2>7. CASE ~cancel /\ Head(w.plan) = "prompt"
    <3>1. w' = [At("ask") EXCEPT !.plan = Tail(@)] /\ JobIs("running")
      BY <2>1, <2>7
    <3> QED
      BY <1>1, <2>5, <3>1, OffLink
  <2> QED
    BY <2>2, <2>3, <2>4, <2>6, <2>7
<1>4. CASE UpdateStep
  <2>1. /\ w.op = "update" /\ w.plan # <<>>
        /\ IF cancel THEN Raises("cancelled", session # "none")
           ELSE w' = [Exchange(Head(w.plan)) EXCEPT !.plan = Tail(@)] /\ UNCHANGED job
    BY <1>4 DEF UpdateStep
  <2>2. CASE cancel
    BY <1>1, <2>1, <2>2, Raised, OffLink
  <2>3. CASE ~cancel
    <3>1. w.plan \in {<<"COMMIT">>, <<"DATA", "COMMIT">>, <<"BEGIN", "DATA", "COMMIT">>,
                     <<"SAFE", "BEGIN", "DATA", "COMMIT">>}
      BY <1>1, <2>1 DEF Able
    <3>2. Head(w.plan) \in {"COMMIT", "DATA", "BEGIN", "SAFE"}
      BY <3>1, PlanTails
    <3>3. Head(w.plan) \in Commands \ {"none", "ABORT"}
      BY <3>2 DEF Commands
    <3>4. Works /\ Unawaited(w')
      BY <1>1, <2>1, <2>3, <3>3, NextOfPlan DEF JobGoes
    <3> QED
      BY <1>1, <3>4, OffLink
  <2> QED
    BY <2>2, <2>3
<1> QED
  BY <1>2, <1>3, <1>4 DEF Step

LEMMA PlanDoneStep ==
  ASSUME Inv, PlanDone
  PROVE  Works /\ Links
<1>1. Unawaited(w) /\ UNCHANGED <<epoch, tasks>> /\ w.plan = <<>>
  BY DEF PlanDone, Unawaited
<1>2. CASE w.op = "script"
  <2>1. Ends("done") /\ UNCHANGED <<connected, safe_acknowledged, link>> /\ dev'.upd = dev.upd
    BY <1>2 DEF PlanDone, link
  <2>2. Works /\ Unawaited(w')
    BY <1>1, <1>2, <2>1, Ended, IdleFields DEF Final, Unawaited
  <2> QED
    BY <1>1, <2>1, <2>2, OffLink
<1>3. CASE w.op = "update"
  <2>1. Close /\ JobIs("reconnecting") /\ w' = At("watch")
    BY <1>3 DEF PlanDone
  <2>2. Links /\ dev'.upd = dev.upd
    BY <1>1, <2>1, Closed
  <2> QED
    BY <1>1, <1>3, <2>1, <2>2, Placed DEF JobGoes
<1> QED
  BY <1>2, <1>3 DEF PlanDone

LEMMA PromptStep ==
  ASSUME Inv, Ask \/ PromptEnds
  PROVE  Works /\ Links
<1>1. /\ Unawaited(w) /\ dev'.upd = dev.upd
      /\ UNCHANGED <<epoch, tasks, connected, safe_acknowledged, link>>
  BY DEF Ask, PromptEnds, Unawaited, link
<1>2. CASE Ask
  <2>1. Works /\ Unawaited(w')
    BY <1>1, <1>2, Placed DEF Ask, JobGoes
  <2> QED
    BY <1>1, <2>1, OffLink
<1>3. CASE PromptEnds
  <2>1. Works /\ Unawaited(w')
    <3>1. CASE cancel
      BY <1>1, <1>3, <3>1, Ended, IdleFields DEF PromptEnds, Final, Unawaited
    <3>2. CASE ~cancel
      BY <1>1, <1>3, <3>2, Placed DEF PromptEnds, JobGoes
    <3> QED
      BY <3>1, <3>2
  <2> QED
    BY <1>1, <2>1, OffLink
<1> QED
  BY <1>2, <1>3

LEMMA SendsStep ==
  ASSUME Inv, ExchangeSends
  PROVE  Works /\ Links
<1>1. /\ w \in Workers /\ Able(w) /\ Exchanging(w) /\ w.pc = "send" /\ Unawaited(w) /\ ~w.safe_sent
      /\ UNCHANGED <<epoch, tasks>> /\ Founded(w, dev.upd)
  BY DEF ExchangeSends, Inv, WorkerInv, VerdictInv, Exchanging, Unawaited
<1>2. ASSUME NEW status \in {"failed", "cancelled"}, NEW linked, Raises(status, linked),
             UNCHANGED <<connected, safe_acknowledged, link>>
      PROVE  Works /\ Links
  <2>1. dev'.upd = dev.upd
    BY <1>2 DEF link
  <2>2. Works /\ Unawaited(w')
    BY <1>1, <1>2, <2>1, Raised
  <2> QED
    BY <1>1, <1>2, <2>2, OffLink
<1>3. CASE ~Stale /\ Send(w.cmd) /\ w' = At("await") /\ UNCHANGED shown
  <2>1. /\ w' \in Workers /\ w'.pc = "await" /\ SameOperation(w', w) /\ SameRest(w', w)
        /\ w'.cmd = w.cmd /\ w'.plan = w.plan /\ w'.about = w.about /\ ~w'.safe_sent
    BY <1>1, <1>3, AtFields DEF Places
  <2>2. Awaited = <<>> /\ Awaited' = <<w.cmd>>
    BY <1>1, <2>1, Unwaiting, AwaitedIsBy, AwaitedCases
  <2>3. w.cmd = "set" => w.meant = epoch
    <3>1. w.cmd = "set" => w.op \notin {"none", "urgent", "poll"}
      BY <1>1 DEF Able
    <3>2. w.cmd = "set" => w.active = w.meant /\ w.active \in Epochs
      BY <1>1, <3>1 DEF Able
    <3>3. w.active \in Epochs => w.active # NONE
      BY BridgeAssumption DEF Epochs
    <3> QED
      BY <1>3, <3>2, <3>3 DEF Stale
  <2>4. w.cmd \in Commands /\ UNCHANGED <<job, connected, safe_acknowledged>>
    BY <1>1, <1>3 DEF Workers, shown
  <2>5. Links /\ UNCHANGED dev
    BY <1>1, <1>3, <2>2, <2>3, <2>4, LinkSend
  <2>6. Able(w')
    BY <1>1, <2>1 DEF Able, SameOperation, SameRest
  <2>7. Exchanging(w')
    BY <1>1, <2>1 DEF Exchanging, SameRest
  <2>8. Founded(w', dev.upd)
    BY <1>1, <2>1 DEF Founded, SameOperation
  <2> QED
    BY <1>1, <2>1, <2>4, <2>5, <2>6, <2>7, <2>8, Goes DEF SameOperation
<1>4. CASE LinkFails
  BY <1>1, <1>4, LinkFailed
<1> QED
  BY <1>2, <1>3, <1>4 DEF ExchangeSends

LEMMA TakeUrgentStep ==
  ASSUME Inv, TakeUrgent
  PROVE  Works /\ Links
<1>1. /\ w \in Workers /\ Able(w) /\ Exchanging(w) /\ w.pc = "await" /\ ~w.safe_sent /\ w.cmd # "SAFE"
      /\ UNCHANGED <<epoch, tasks, job, connected, safe_acknowledged, link>> /\ Founded(w, dev.upd)
      /\ w' = At("urgent") /\ dev'.upd = dev.upd
  BY DEF TakeUrgent, Inv, WorkerInv, VerdictInv, shown, link
<1>2. /\ w' \in Workers /\ w'.pc = "urgent" /\ SameOperation(w', w) /\ SameRest(w', w)
      /\ w'.cmd = w.cmd /\ w'.plan = w.plan /\ w'.about = w.about /\ ~w'.safe_sent
  BY <1>1, AtFields DEF Places
<1>3. Awaited = <<w.cmd>> /\ Awaited' = <<w.cmd>>
  BY <1>1, <1>2, AwaitedIsBy, AwaitedCases
<1>4. Able(w')
  BY <1>1, <1>2 DEF Able, SameOperation, SameRest
<1>5. Exchanging(w')
  BY <1>1, <1>2 DEF Exchanging, SameRest
<1>6. Founded(w', dev.upd)
  BY <1>1, <1>2 DEF Founded, SameOperation
<1>7. Works
  BY <1>1, <1>2, <1>4, <1>5, <1>6, Goes DEF SameOperation
<1> QED
  BY <1>1, <1>3, <1>7, LinkKept DEF link

LEMMA SafeDuringStep ==
  ASSUME Inv, SafeDuring
  PROVE  Works /\ Links
<1>1. /\ w \in Workers /\ Able(w) /\ Exchanging(w) /\ w.pc = "urgent" /\ w.cmd # "SAFE"
      /\ UNCHANGED <<epoch, tasks>> /\ Founded(w, dev.upd)
  BY DEF SafeDuring, Inv, WorkerInv, VerdictInv, Exchanging
<1>2. CASE Send("SAFE") /\ w' = [At("await") EXCEPT !.safe_sent = TRUE] /\ UNCHANGED shown
  <2>1. PICK x \in Workers :
          /\ x = At("await") /\ x.pc = "await" /\ SameOperation(x, w) /\ SameRest(x, w)
          /\ x.cmd = w.cmd /\ x.plan = w.plan /\ x.about = w.about
    BY <1>1, AtFields DEF Places
  <2>2. /\ w' \in Workers /\ w'.pc = "await" /\ w'.safe_sent /\ SameOperation(w', w)
        /\ SameRest(w', w) /\ w'.cmd = w.cmd /\ w'.plan = w.plan /\ w'.about = w.about
    BY <1>2, <2>1 DEF Workers, SameOperation, SameRest
  <2>3. Awaited = <<w.cmd>> /\ Awaited' = <<w.cmd, "SAFE">>
    BY <1>1, <2>2, AwaitedIsBy, AwaitedCases
  <2>4. w.cmd \in Commands /\ "SAFE" \in Commands /\ UNCHANGED <<job, connected, safe_acknowledged>>
    BY <1>1, <1>2 DEF Workers, Commands, shown
  <2>5. Links /\ UNCHANGED dev
    BY <1>1, <1>2, <2>3, <2>4, LinkSend
  <2>6. Able(w')
    BY <1>1, <2>2 DEF Able, SameOperation, SameRest
  <2>7. Exchanging(w')
    BY <1>1, <2>2 DEF Exchanging, SameRest
  <2>8. Founded(w', dev.upd)
    BY <1>1, <2>2 DEF Founded, SameOperation
  <2> QED
    BY <1>1, <2>2, <2>4, <2>5, <2>6, <2>7, <2>8, Goes DEF SameOperation
<1>3. CASE LinkFails
  BY <1>1, <1>3, LinkFailed
<1> QED
  BY <1>2, <1>3 DEF SafeDuring

LEMMA TailsAre ==
  \A c \in Commands : Tail(<<c>>) = <<>> /\ Tail(<<c, "SAFE">>) = <<"SAFE">>
<1> SUFFICES ASSUME NEW c \in Commands PROVE Tail(<<c>>) = <<>> /\ Tail(<<c, "SAFE">>) = <<"SAFE">>
  OBVIOUS
<1>1. "SAFE" \in Commands
  BY DEF Commands
<1>2. <<c>> \in Seq(Commands) /\ <<c, "SAFE">> \in Seq(Commands) /\ <<"SAFE">> \in Seq(Commands)
  BY <1>1
<1>3. Tail(<<c>>) \in Seq(Commands) /\ Len(Tail(<<c>>)) = 0
  BY <1>2
<1>4. /\ Tail(<<c, "SAFE">>) \in Seq(Commands) /\ Len(Tail(<<c, "SAFE">>)) = 1
      /\ Tail(<<c, "SAFE">>)[1] = "SAFE"
  BY <1>2
<1>5. Tail(<<c, "SAFE">>) = <<"SAFE">>
  BY <1>2, <1>4, SeqEqual
<1> QED
  BY <1>3, <1>5, EmptySeq

LEMMA ReadStep ==
  ASSUME Inv, ReadReply
  PROVE  Works /\ Links
<1>1. /\ w \in Workers /\ Able(w) /\ Exchanging(w) /\ w.pc \in {"await", "safeReply"}
      /\ w.cmd \in Commands /\ w.reply \in Replies /\ lines # <<>> /\ Founded(w, dev.upd)
      /\ UNCHANGED <<epoch, tasks>>
  BY DEF ReadReply, Inv, WorkerInv, VerdictInv, Workers
<1>2. /\ Head(lines) = lines[1] /\ lines[1] \in Replies /\ Holds(lines[1], dev.upd)
  <2>1. lines \in Seq(Replies) /\ Len(lines) \in Nat /\ Len(lines) > 0
    BY <1>1, EmptySeq DEF Inv, TypesInv
  <2>2. 1 \in 1 .. Len(lines)
    BY <2>1
  <2>3. lines[1] \in Replies
    BY <2>1, <2>2, ElementOfSeq, Zenon
  <2>4. Head(lines) = lines[1]
    BY <1>1, <2>1
  <2> QED
    BY <2>2, <2>3, <2>4 DEF Inv, RepliesInv
<1>3. CASE lines[1] = EOF
  <2>1. LinkFails
    BY <1>2, <1>3 DEF ReadReply
  <2> QED
    BY <1>1, <2>1, LinkFailed
<1>4. CASE lines[1] # EOF
  <2> DEFINE r == lines[1]
  <2>1. /\ lines' = Tail(lines) /\ UNCHANGED <<session, wire, dev, served>>
        /\ Observe(IF w.pc = "await" THEN w.cmd ELSE "SAFE", r)
        /\ IF w.pc = "await" /\ w.safe_sent
           THEN w' = [At("safeReply") EXCEPT !.reply = r] /\ UNCHANGED job
           ELSE Returns(IF w.pc = "await" THEN r ELSE w.reply)
    BY <1>2, <1>4 DEF ReadReply
  <2>2. /\ Awaited[1] = IF w.pc = "await" THEN w.cmd ELSE "SAFE"
        /\ w.pc = "await" /\ w.safe_sent => Awaited = <<w.cmd, "SAFE">>
        /\ w.pc = "await" /\ ~w.safe_sent => Awaited = <<w.cmd>>
        /\ w.pc = "safeReply" => Awaited = <<"SAFE">>
    BY <1>1, AwaitedIsBy, AwaitedCases DEF Workers
  <2>3. Observe(Awaited[1], r) /\ dev'.upd = dev.upd
    BY <2>1, <2>2
  <2>4. Synced(session, lines, wire, Awaited) /\ Awaited \in Seq(Commands)
    BY <1>1, AwaitedIsBy, AwaitedCases DEF Inv, StepInv
  <2>5. r.cmd = Awaited[1]
    <3>1. session \in {"up", "dead"} /\ lines \in Seq(Replies) /\ wire \in Seq(Sent)
      BY <1>1, <2>4 DEF Inv, TypesInv, Synced
    <3> QED
      BY <1>1, <1>4, <2>4, <3>1, SyncedRead
  <2>6. Works /\ Awaited' = Tail(Awaited)
    <3>1. CASE w.pc = "await" /\ w.safe_sent
      <4>1. PICK x \in Workers :
              /\ x = At("safeReply") /\ x.pc = "safeReply" /\ SameOperation(x, w) /\ SameRest(x, w)
              /\ x.cmd = w.cmd /\ x.plan = w.plan /\ x.about = w.about
        BY <1>1, AtFields DEF Places
      <4>2. w' = [x EXCEPT !.reply = r] /\ UNCHANGED job
        BY <2>1, <3>1, <4>1
      <4>3. /\ w' \in Workers /\ w'.pc = "safeReply" /\ w'.reply = r /\ SameOperation(w', w)
            /\ w'.raised = w.raised
            /\ w'.cmd = w.cmd /\ w'.plan = w.plan /\ w'.about = w.about
        BY <1>2, <4>1, <4>2 DEF Workers, SameOperation, SameRest
      <4>4. Able(w')
        BY <1>1, <4>3 DEF Able, SameOperation
      <4>5. Exchanging(w')
        BY <1>1, <2>2, <2>5, <3>1, <4>3 DEF Exchanging
      <4>6. Founded(w', dev.upd)
        BY <1>1, <1>2, <4>3 DEF Founded, SameOperation
      <4>7. Works
        BY <1>1, <2>3, <4>2, <4>3, <4>4, <4>5, <4>6, Goes DEF SameOperation
      <4>8. Awaited' = <<"SAFE">>
        BY <4>3, AwaitedIsBy, AwaitedCases
      <4> QED
        BY <1>1, <2>2, <3>1, <4>7, <4>8, TailsAre
    <3>2. CASE ~(w.pc = "await" /\ w.safe_sent)
      <4>1. PICK rr \in Replies : /\ rr = (IF w.pc = "await" THEN r ELSE w.reply)
                                  /\ rr.cmd = w.cmd /\ Holds(rr, dev.upd)
        <5>1. CASE w.pc = "await"
          BY <1>2, <2>2, <2>5, <5>1
        <5>2. CASE w.pc = "safeReply"
          BY <1>1, <5>2 DEF Exchanging, Founded
        <5> QED
          BY <1>1, <5>1, <5>2
      <4>2. Returns(rr)
        BY <2>1, <3>2, <4>1
      <4>3. Works /\ Unawaited(w')
        BY <1>1, <2>3, <4>1, <4>2, Returned
      <4>4. Awaited' = <<>>
        BY <4>3, Unwaiting DEF Works, WorkerInv
      <4>5. Tail(Awaited) = <<>>
        <5>1. "SAFE" \in Commands
          BY DEF Commands
        <5> QED
          BY <1>1, <2>2, <3>2, <5>1, TailsAre
      <4> QED
        BY <4>3, <4>4, <4>5
    <3> QED
      BY <3>1, <3>2
  <2>7. Links
    BY <1>1, <1>4, <2>1, <2>3, <2>6, LinkRead
  <2> QED
    BY <2>6, <2>7
<1> QED
  BY <1>3, <1>4

LEMMA WatchStep ==
  ASSUME Inv, Watch
  PROVE  Works /\ Links
<1>1. /\ w \in Workers /\ w.op = "update" /\ w.plan = <<>> /\ Unawaited(w) /\ UNCHANGED <<epoch, tasks>>
  BY DEF Watch, Inv, WorkerInv, Exchanging, Unawaited
<1>2. CASE /\ Ends(IF cancel THEN "cancelled" ELSE "failed")
           /\ UNCHANGED <<connected, safe_acknowledged, link>>
  <2>1. PICK status \in {"cancelled", "failed"} : Ends(status)
    BY <1>2
  <2>2. dev'.upd = dev.upd
    BY <1>2 DEF link
  <2>3. Works /\ Unawaited(w')
    BY <1>1, <2>1, <2>2, Ended, IdleFields DEF Final, Unawaited
  <2> QED
    BY <1>1, <1>2, <2>3, OffLink
<1>3. CASE Open /\ w' = Exchange("STAT") /\ UNCHANGED job
  <2>1. dev'.upd = dev.upd
    BY <1>3 DEF Open, Inv, TypesInv, Devices
  <2>2. Works /\ Unawaited(w')
    BY <1>1, <1>3, <2>1, AsksAgain DEF JobGoes
  <2>3. Awaited' = <<>>
    BY <2>2, Unwaiting DEF Works, WorkerInv
  <2> QED
    BY <1>1, <1>3, <2>2, <2>3, Opened
<1>4. CASE w' = Exchange("STAT") /\ UNCHANGED <<shown, link>>
  <2>1. UNCHANGED <<job, connected, safe_acknowledged, link>> /\ dev'.upd = dev.upd
    BY <1>4 DEF shown, link
  <2>2. Works /\ Unawaited(w')
    BY <1>1, <1>4, <2>1, AsksAgain DEF JobGoes
  <2> QED
    BY <1>1, <2>1, <2>2, OffLink
<1> QED
  BY <1>2, <1>3, <1>4 DEF Watch

LEMMA WorkerStep ==
  ASSUME Inv, Worker
  PROVE  Inv'
<1>1. ASSUME ReplyTimeout PROVE Works /\ Links
  BY <1>1, LinkFailed DEF ReplyTimeout
<1>2. Works /\ Links
  BY <1>1, LoopTopStep, GetStep, DispatchStep, OutdatedStep, StepStep, PlanDoneStep, PromptStep,
     SendsStep, TakeUrgentStep, SafeDuringStep, ReadStep, WatchStep DEF Worker
<1> QED
  BY <1>2, WorkerHttp, WholeStep

-----------------------------------------------------------------------------
(* The invariant.                                                          *)

LEMMA InvInit == Init => Inv
<1> SUFFICES ASSUME Init PROVE Inv
  OBVIOUS
<1>1. TypesInv
  <2>1. {0} \subseteq Epochs /\ used \in [tasks : 0 .. MAX_TASKS, answers : 0 .. MAX_ANSWERS, sessions : Nat]
        /\ Len(tasks) <= used.tasks /\ answering \in 0 .. used.answers
    BY BridgeAssumption DEF Init, Epochs
  <2>2. dev \in Devices
    BY <2>1 DEF Init, Devices
  <2>3. tasks \in Seq([op : Operations, epoch : Epochs]) /\ wire \in Seq(Sent) /\ lines \in Seq(Replies)
    BY DEF Init
  <2>4. job \in [kind : {"none"} \cup Jobs, status : Statuses]
    BY DEF Init, Statuses
  <2> QED
    BY <2>1, <2>2, <2>3, <2>4 DEF Init, TypesInv
<1>2. WorkerInv /\ Founded(w, dev.upd) /\ w.op = "none"
  BY IdleFields DEF Init, WorkerInv
<1>3. StepInv
  BY DEF Init, StepInv, Synced
<1>4. EpochInv /\ AckInv /\ RepliesInv
  BY DEF Init, EpochInv, NoOldIntention, AckInv, RepliesInv
<1>5. JobInv /\ VerdictIsTrue
  BY <1>2 DEF Init, JobInv, Jobs, VerdictIsTrue
<1> QED
  BY <1>1, <1>2, <1>3, <1>4, <1>5 DEF Inv, VerdictInv

LEMMA InvNext == Inv /\ [Next]_vars => Inv'
<1> SUFFICES ASSUME Inv, [Next]_vars PROVE Inv'
  OBVIOUS
<1>1. CASE UNCHANGED vars
  <2>1. UNCHANGED <<epoch, pressing, confirm_update, urgent, cancel, answer, answering, tasks, connected,
                    safe_acknowledged, job, w, session, wire, lines, dev, served, used>>
    BY <1>1 DEF vars, http, events, shown, link
  <2>2. TypesInv' /\ JobInv' /\ EpochInv' /\ WorkerInv' /\ RepliesInv' /\ VerdictInv'
    BY <2>1 DEF Inv, TypesInv, JobInv, JobActive, EpochInv, NoOldIntention, WorkerInv, RepliesInv,
                VerdictInv, VerdictIsTrue
  <2>3. Awaited' = Awaited
    BY <2>1 DEF Awaited
  <2>4. StepInv' /\ AckInv'
    BY <2>1, <2>3 DEF Inv, StepInv, AckInv
  <2> QED
    BY <2>2, <2>4 DEF Inv
<1> QED
  BY <1>1, HttpStep, WorkerStep, DeviceStep DEF Next

\* Everything the proofs of the properties rest on: the types, what the worker may be doing, the
\* replies under way, the epochs of the commands, what is told of SAFE, the one job at a time
\* and what is known of the update (bridge.py as a whole).
THEOREM BridgeInvariant == Spec => []Inv
<1>1. Init => Inv
  BY InvInit
<1>2. Inv /\ [Next]_vars => Inv'
  BY InvNext
<1> QED
  BY <1>1, <1>2, PTL DEF Spec

\* The replies that wait and the commands behind them, as one sequence.
LEMMA UnderWay ==
  ASSUME TypesInv, WorkerInv, Synced("up", lines, wire, Awaited)
  PROVE  Outstanding = Awaited
<1> DEFINE a == [i \in DOMAIN lines |-> lines[i].cmd]
           b == [i \in DOMAIN wire |-> wire[i].cmd]
<1>1. /\ lines \in Seq(Replies) /\ wire \in Seq(Sent) /\ Awaited \in Seq(Commands)
      /\ DOMAIN lines = 1 .. Len(lines) /\ DOMAIN wire = 1 .. Len(wire)
      /\ Len(lines) \in Nat /\ Len(wire) \in Nat
  BY AwaitedIsBy, AwaitedCases DEF TypesInv, WorkerInv
<1>2. /\ a \in Seq(Commands) /\ Len(a) = Len(lines) /\ \A i \in 1 .. Len(lines) : a[i] = lines[i].cmd
  <2>1. \A i \in 1 .. Len(lines) : lines[i].cmd \in Commands
    <3>1. \A i \in 1 .. Len(lines) : lines[i] \in Replies
      BY <1>1, ElementOfSeq
    <3> QED
      BY <3>1 DEF Replies
  <2>2. a \in [1 .. Len(lines) -> Commands]
    BY <1>1, <2>1
  <2> QED
    BY <1>1, <2>2
<1>3. /\ b \in Seq(Commands) /\ Len(b) = Len(wire) /\ \A i \in 1 .. Len(wire) : b[i] = wire[i].cmd
  <2>1. \A i \in 1 .. Len(wire) : wire[i].cmd \in Commands
    <3>1. \A i \in 1 .. Len(wire) : wire[i] \in Sent
      BY <1>1, ElementOfSeq
    <3> QED
      BY <3>1 DEF Sent
  <2>2. b \in [1 .. Len(wire) -> Commands]
    BY <1>1, <2>1
  <2> QED
    BY <1>1, <2>2
<1>4. /\ a \o b \in Seq(Commands) /\ Len(a \o b) = Len(lines) + Len(wire)
      /\ \A i \in 1 .. Len(lines) + Len(wire) :
           (a \o b)[i] = IF i <= Len(lines) THEN a[i] ELSE b[i - Len(lines)]
  <2> HIDE DEF a, b
  <2>1. /\ a \o b \in Seq(Commands) /\ Len(a \o b) = Len(a) + Len(b)
        /\ \A i \in 1 .. Len(a) + Len(b) : (a \o b)[i] = IF i <= Len(a) THEN a[i] ELSE b[i - Len(a)]
    <3>1. a \in Seq(Commands) /\ b \in Seq(Commands)
      BY <1>2, <1>3
    <3> QED
      BY <3>1, ConcatProperties, Zenon
  <2>2. Len(a) = Len(lines) /\ Len(b) = Len(wire)
    BY <1>2, <1>3
  <2> QED
    BY <2>1, <2>2, Zenon
<1>5. /\ Len(lines) + Len(wire) = Len(Awaited)
      /\ \A i \in 1 .. Len(lines) : lines[i].cmd = Awaited[i]
      /\ \A i \in 1 .. Len(wire) : wire[i].cmd = Awaited[Len(lines) + i]
  BY DEF Synced
<1>6. ASSUME NEW i \in 1 .. Len(a \o b) PROVE (a \o b)[i] = Awaited[i]
  <2> HIDE DEF a, b
  <2>1. CASE i <= Len(lines)
    BY <1>1, <1>2, <1>4, <1>5, <1>6, <2>1
  <2>2. CASE ~(i <= Len(lines))
    <3>1. i - Len(lines) \in 1 .. Len(wire) /\ Len(lines) + (i - Len(lines)) = i
      BY <1>1, <1>4, <1>6, <2>2
    <3>2. (a \o b)[i] = b[i - Len(lines)]
      BY <1>4, <1>6, <2>2
    <3> QED
      BY <1>3, <1>5, <3>1, <3>2
  <2> QED
    BY <2>1, <2>2
<1>7. a \o b = Awaited
  <2> HIDE DEF a, b
  <2> QED
    BY <1>1, <1>4, <1>5, <1>6, SeqEqual
<1> QED
  BY <1>7 DEF Outstanding

\* The state is well typed and no reply is taken for the reply of another command, whatever was
\* cancelled, interrupted by SAFE or timed out in between (_exchange and _read_reply).
THEOREM InStepTheorem == Spec => []InStep
<1>1. Inv => InStep
  <2> SUFFICES ASSUME Inv PROVE InStep
    OBVIOUS
  <2>1. TypeOK
    <3>1. /\ used.tasks \in 0 .. MAX_TASKS /\ used.answers \in 0 .. MAX_ANSWERS /\ Len(tasks) \in Nat
          /\ Len(tasks) <= used.tasks /\ answering \in 0 .. used.answers
      BY DEF Inv, TypesInv
    <3>2. Len(tasks) <= MAX_TASKS /\ answering \in 0 .. MAX_ANSWERS
      BY <3>1, BridgeAssumption
    <3>3. /\ w.pc \in Places /\ w.op \in Operations /\ w.cmd \in Commands
          /\ w.active \in Epochs \cup {NONE}
      BY DEF Inv, WorkerInv, Workers
    <3>4. dev.by \in Epochs \cup {NONE} /\ dev.upd \in {"IDLE", "RECEIVING", "TRIAL", "CONFIRMED"}
      BY DEF Inv, TypesInv, Devices
    <3> QED
      BY <3>2, <3>3, <3>4 DEF Inv, TypesInv, TypeOK
  <2>2. session = "up" => Outstanding = Awaited
    BY UnderWay DEF Inv, StepInv
  <2> QED
    BY <2>1, <2>2 DEF InStep
<1> QED
  BY <1>1, BridgeInvariant, PTL

\* Once the device has executed a SAFE, nothing that was meant before its press takes it out of
\* the safe state: not an operation still in the queue, not the rest of a script, not a
\* command that was about to be sent (epoch and active_epoch).
THEOREM NoOldIntentionTheorem == Spec => []NoOldIntention
<1>1. Inv => NoOldIntention
  BY DEF Inv, EpochInv
<1> QED
  BY <1>1, BridgeInvariant, PTL

\* SAFE is shown as acknowledged only while the device is safe, but for the time in which a
\* reply that will change it is not read yet (_observe).
THEOREM AckIsTrueTheorem == Spec => []AckIsTrue
<1>1. Inv => AckIsTrue
  <2> SUFFICES ASSUME Inv, safe_acknowledged, \A i \in DOMAIN Awaited : Awaited[i] \in Queries,
                      dev.by # NONE
               PROVE  FALSE
    BY DEF AckIsTrue
  <2>1. /\ Awaited \in Seq(Commands) /\ DOMAIN Awaited = 1 .. Len(Awaited)
        /\ Synced(session, lines, wire, Awaited) /\ lines \in Seq(Replies)
    BY AwaitedIsBy, AwaitedCases DEF Inv, WorkerInv, StepInv, TypesInv
  <2>2. \A i \in 1 .. Len(Awaited) : Awaited[i] # "SAFE"
    BY <2>1 DEF Queries
  <2>3. lines # <<>> /\ Telling(lines[1])
    BY <2>2 DEF Inv, AckInv
  <2>4. session \in {"up", "dead"} /\ wire \in Seq(Sent)
    BY <2>1, <2>3 DEF Inv, TypesInv, Synced
  <2>5. lines[1] # EOF
    BY <2>3 DEF EOF, Telling
  <2>6. Len(Awaited) > 0 /\ lines[1].cmd = Awaited[1]
    BY <2>1, <2>3, <2>4, <2>5, SyncedRead
  <2>7. 1 \in 1 .. Len(Awaited)
    BY <2>1, <2>6
  <2> QED
    BY <2>1, <2>3, <2>6, <2>7 DEF Telling
<1> QED
  BY <1>1, BridgeInvariant, PTL

\* An update is shown as done or as rolled back only when the device is so, whatever breaks,
\* restarts and cancelled exchanges were between the COMMIT and the verdict (_run_update).
THEOREM VerdictIsTrueTheorem == Spec => []VerdictIsTrue
<1>1. Inv => VerdictIsTrue
  BY DEF Inv, VerdictInv
<1> QED
  BY <1>1, BridgeInvariant, PTL

=============================================================================
