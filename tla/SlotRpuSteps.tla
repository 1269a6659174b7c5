---------------------------- MODULE SlotRpuSteps ----------------------------
(***************************************************************************)
(* The inductive invariant behind the slot loop's theorems; the steps of   *)
(* the cores and of their interconnects keep it.                           *)
(*                                                                         *)
(* Inv says of every core that it has not started, that its initialisation *)
(* message is on its way, or that each of its slots is in one place; and   *)
(* that the interconnect's own records of the slots it has agree with      *)
(* that.  A step moves the first item of a queue to another place (Shift), *)
(* or makes one slot leap from its place to another (Leap, Hop), and no    *)
(* other slot moves.                                                       *)
(***************************************************************************)
EXTENDS SlotLoop, TLAPS

-----------------------------------------------------------------------------
(* Where slots are, one predicate for each kind of place.  Slot s of core  *)
(* c is in the place (x, r, d, i) when At(x, r, d, i, c, s).               *)

\* A message, an order for core d, an answer to a core has the slot in role r.
HasMsg(m, r, s) == (r = "done" /\ HasDone(m, s)) \/ (r = "own" /\ HasAsk(m, s))
HasOrder(m, r, d, c, s) == (r = "own" /\ d = c /\ m.slot = s) \/ (r = "new" /\ HasNew(m, c, s))
HasAnswer(m, r, c, s) == (r = "own" /\ HasOwn(m, c, s)) \/ (r = "new" /\ HasNew(m, c, s))

AtFree(r, d, i, c, s)      == r = "own" /\ d = c /\ i = s /\ s \in free[c]
AtHeld(r, d, i, c, s)      == r = "own" /\ d = c /\ i = s /\ s \in held[c]
AtReserved(r, d, i, c, s)  == r = "own" /\ d = c /\ i = s /\ [core |-> c, slot |-> s] \in reserved
AtNet(r, d, i, c, s)       == r = "own" /\ d = c /\ i = s /\ [core |-> c, slot |-> s] \in in_net
AtRecvd(r, d, i, c, s)     == /\ r = "own" /\ d = c
                              /\ i \in DOMAIN recvd_data_fifo[c] /\ recvd_data_fifo[c][i] = s
AtInDesc(r, d, i, c, s)    == r = "own" /\ d = c /\ i \in DOMAIN in_desc_r[c] /\ in_desc_r[c][i] = s
AtSent(r, d, i, c, s)      == /\ r = "own" /\ d = c
                              /\ i \in DOMAIN pkt_sent_fifo[c] /\ pkt_sent_fifo[c][i] = s
AtSendData(r, d, i, c, s)  == /\ r = "own" /\ d = c
                              /\ i \in DOMAIN send_data_fifo[c] /\ send_data_fifo[c][i].slot = s
AtSendCtrl(r, d, i, c, s)  == /\ r = "own" /\ d = c
                              /\ i \in DOMAIN send_ctrl_fifo[c] /\ HasAsk(send_ctrl_fifo[c][i], s)
AtCtrlM(r, d, i, c, s)     == d = c /\ i \in DOMAIN ctrl_m_r[c] /\ HasMsg(ctrl_m_r[c][i], r, s)
AtToLb(r, d, i, c, s)      == /\ d = 0 /\ i \in DOMAIN to_lb
                              /\ to_lb[i].src = c /\ HasMsg(to_lb[i].msg, r, s)
AtPktDone(r, d, i, c, s)   == r = "own" /\ d = 0 /\ i \in DOMAIN pkt_done_fifo /\ HasReq(pkt_done_fifo[i], c, s)
AtToCore(r, d, i, c, s)    == /\ r = "own" /\ d \in Cores /\ i \in DOMAIN pkt_to_core_fifo[d]
                              /\ HasReq(pkt_to_core_fifo[d][i], c, s)
AtArbIn(r, d, i, c, s)     == d \in Cores /\ i \in DOMAIN arb_in[d] /\ HasAnswer(arb_in[d][i], r, c, s)
AtArbOut(r, d, i, c, s)    == d = 0 /\ i \in DOMAIN arb_out /\ HasAnswer(arb_out[i], r, c, s)
AtCtrlOut(r, d, i, c, s)   == d = 0 /\ i \in DOMAIN ctrl_out_r /\ HasAnswer(ctrl_out_r[i], r, c, s)
AtCtrlS(r, d, i, c, s)     == d \in Cores /\ i \in DOMAIN ctrl_s_r[d] /\ HasOrder(ctrl_s_r[d][i], r, d, c, s)
AtRecvdCtrl(r, d, i, c, s) == /\ d \in Cores /\ i \in DOMAIN recvd_ctrl_fifo[d]
                              /\ HasOrder(recvd_ctrl_fifo[d][i], r, d, c, s)
AtSending(r, d, i, c, s)   == d \in Cores /\ i \in DOMAIN sending[d] /\ HasOrder(sending[d][i], r, d, c, s)

At(x, r, d, i, c, s) ==
  \/ x = "free" /\ AtFree(r, d, i, c, s)
  \/ x = "held" /\ AtHeld(r, d, i, c, s)
  \/ x = "reserved" /\ AtReserved(r, d, i, c, s)
  \/ x = "in_net" /\ AtNet(r, d, i, c, s)
  \/ x = "recvd_data" /\ AtRecvd(r, d, i, c, s)
  \/ x = "in_desc" /\ AtInDesc(r, d, i, c, s)
  \/ x = "pkt_sent" /\ AtSent(r, d, i, c, s)
  \/ x = "send_data" /\ AtSendData(r, d, i, c, s)
  \/ x = "send_ctrl" /\ AtSendCtrl(r, d, i, c, s)
  \/ x = "ctrl_m" /\ AtCtrlM(r, d, i, c, s)
  \/ x = "to_lb" /\ AtToLb(r, d, i, c, s)
  \/ x = "pkt_done" /\ AtPktDone(r, d, i, c, s)
  \/ x = "to_core" /\ AtToCore(r, d, i, c, s)
  \/ x = "arb_in" /\ AtArbIn(r, d, i, c, s)
  \/ x = "arb_out" /\ AtArbOut(r, d, i, c, s)
  \/ x = "ctrl_out" /\ AtCtrlOut(r, d, i, c, s)
  \/ x = "ctrl_s" /\ AtCtrlS(r, d, i, c, s)
  \/ x = "recvd_ctrl" /\ AtRecvdCtrl(r, d, i, c, s)
  \/ x = "sending" /\ AtSending(r, d, i, c, s)
(* At, one place at a time.                                                *)
LEMMA IsFree ==
  \A r, d, i, c, s : /\ At("free", r, d, i, c, s) <=> AtFree(r, d, i, c, s)
                     /\ At("free", r, d, i, c, s)' <=> AtFree(r, d, i, c, s)'
BY DEF At

LEMMA IsHeld ==
  \A r, d, i, c, s : /\ At("held", r, d, i, c, s) <=> AtHeld(r, d, i, c, s)
                     /\ At("held", r, d, i, c, s)' <=> AtHeld(r, d, i, c, s)'
BY DEF At

LEMMA IsReserved ==
  \A r, d, i, c, s : /\ At("reserved", r, d, i, c, s) <=> AtReserved(r, d, i, c, s)
                     /\ At("reserved", r, d, i, c, s)' <=> AtReserved(r, d, i, c, s)'
BY DEF At

LEMMA IsNet ==
  \A r, d, i, c, s : /\ At("in_net", r, d, i, c, s) <=> AtNet(r, d, i, c, s)
                     /\ At("in_net", r, d, i, c, s)' <=> AtNet(r, d, i, c, s)'
BY DEF At

LEMMA IsRecvd ==
  \A r, d, i, c, s : /\ At("recvd_data", r, d, i, c, s) <=> AtRecvd(r, d, i, c, s)
                     /\ At("recvd_data", r, d, i, c, s)' <=> AtRecvd(r, d, i, c, s)'
BY DEF At

LEMMA IsInDesc ==
  \A r, d, i, c, s : /\ At("in_desc", r, d, i, c, s) <=> AtInDesc(r, d, i, c, s)
                     /\ At("in_desc", r, d, i, c, s)' <=> AtInDesc(r, d, i, c, s)'
BY DEF At

LEMMA IsSent ==
  \A r, d, i, c, s : /\ At("pkt_sent", r, d, i, c, s) <=> AtSent(r, d, i, c, s)
                     /\ At("pkt_sent", r, d, i, c, s)' <=> AtSent(r, d, i, c, s)'
BY DEF At

LEMMA IsSendData ==
  \A r, d, i, c, s : /\ At("send_data", r, d, i, c, s) <=> AtSendData(r, d, i, c, s)
                     /\ At("send_data", r, d, i, c, s)' <=> AtSendData(r, d, i, c, s)'
BY DEF At

LEMMA IsSendCtrl ==
  \A r, d, i, c, s : /\ At("send_ctrl", r, d, i, c, s) <=> AtSendCtrl(r, d, i, c, s)
                     /\ At("send_ctrl", r, d, i, c, s)' <=> AtSendCtrl(r, d, i, c, s)'
BY DEF At

LEMMA IsCtrlM ==
  \A r, d, i, c, s : /\ At("ctrl_m", r, d, i, c, s) <=> AtCtrlM(r, d, i, c, s)
                     /\ At("ctrl_m", r, d, i, c, s)' <=> AtCtrlM(r, d, i, c, s)'
BY DEF At

LEMMA IsToLb ==
  \A r, d, i, c, s : /\ At("to_lb", r, d, i, c, s) <=> AtToLb(r, d, i, c, s)
                     /\ At("to_lb", r, d, i, c, s)' <=> AtToLb(r, d, i, c, s)'
BY DEF At

LEMMA IsPktDone ==
  \A r, d, i, c, s : /\ At("pkt_done", r, d, i, c, s) <=> AtPktDone(r, d, i, c, s)
                     /\ At("pkt_done", r, d, i, c, s)' <=> AtPktDone(r, d, i, c, s)'
BY DEF At

LEMMA IsToCore ==
  \A r, d, i, c, s : /\ At("to_core", r, d, i, c, s) <=> AtToCore(r, d, i, c, s)
                     /\ At("to_core", r, d, i, c, s)' <=> AtToCore(r, d, i, c, s)'
BY DEF At

LEMMA IsArbIn ==
  \A r, d, i, c, s : /\ At("arb_in", r, d, i, c, s) <=> AtArbIn(r, d, i, c, s)
                     /\ At("arb_in", r, d, i, c, s)' <=> AtArbIn(r, d, i, c, s)'
BY DEF At

LEMMA IsArbOut ==
  \A r, d, i, c, s : /\ At("arb_out", r, d, i, c, s) <=> AtArbOut(r, d, i, c, s)
                     /\ At("arb_out", r, d, i, c, s)' <=> AtArbOut(r, d, i, c, s)'
BY DEF At

LEMMA IsCtrlOut ==
  \A r, d, i, c, s : /\ At("ctrl_out", r, d, i, c, s) <=> AtCtrlOut(r, d, i, c, s)
                     /\ At("ctrl_out", r, d, i, c, s)' <=> AtCtrlOut(r, d, i, c, s)'
BY DEF At

LEMMA IsCtrlS ==
  \A r, d, i, c, s : /\ At("ctrl_s", r, d, i, c, s) <=> AtCtrlS(r, d, i, c, s)
                     /\ At("ctrl_s", r, d, i, c, s)' <=> AtCtrlS(r, d, i, c, s)'
BY DEF At

LEMMA IsRecvdCtrl ==
  \A r, d, i, c, s : /\ At("recvd_ctrl", r, d, i, c, s) <=> AtRecvdCtrl(r, d, i, c, s)
                     /\ At("recvd_ctrl", r, d, i, c, s)' <=> AtRecvdCtrl(r, d, i, c, s)'
BY DEF At

LEMMA IsSending ==
  \A r, d, i, c, s : /\ At("sending", r, d, i, c, s) <=> AtSending(r, d, i, c, s)
                     /\ At("sending", r, d, i, c, s)' <=> AtSending(r, d, i, c, s)'
BY DEF At

-----------------------------------------------------------------------------
(* A slot is nowhere, or in one place.                                     *)
Nowhere(c, s) == \A x, r, d, i : ~At(x, r, d, i, c, s)
Once(c, s) ==
  \E x, r, d, i :
    /\ At(x, r, d, i, c, s)
    /\ \A y, q, e, j : At(y, q, e, j, c, s) => y = x /\ q = r /\ e = d /\ j = i

\* The places of a slot whose packet leaves.
After == {"send_data", "send_ctrl", "ctrl_m", "to_lb", "pkt_done", "to_core", "arb_in", "arb_out",
          "ctrl_out", "ctrl_s", "recvd_ctrl", "sending", "pkt_sent"}

ToSend(c, s) ==
  s \in slots_to_send[c] => \A x, r, d, i : At(x, r, d, i, c, s) => r = "own" /\ x \in After
InProg(c, s) ==
  s \in slots_in_prog[c] <=> \E x, r, d, i : At(x, r, d, i, c, s) /\ x \in {"in_desc", "held"}

Kept(c, s) ==
  /\ Nowhere(c, s) => Nowhere(c, s)' /\ (s \in slots_to_send'[c] => s \in slots_to_send[c])
  /\ Once(c, s) => Once(c, s)'
  /\ ToSend(c, s) => ToSend(c, s)'
  /\ InProg(c, s) => InProg(c, s)'

SameSets(c, s) == /\ s \in slots_to_send'[c] <=> s \in slots_to_send[c]
                  /\ s \in slots_in_prog'[c] <=> s \in slots_in_prog[c]

Stays(c, s) == \A x, r, d, i : At(x, r, d, i, c, s)' <=> At(x, r, d, i, c, s)

(* The first item of the queue (x, d) goes to the place (y, e, n).         *)
Moves(x, d, y, e, n, c, s) ==
  \A z, r, f, i :
    At(z, r, f, i, c, s)' <=> \/ z = y /\ f = e /\ i = n /\ At(x, r, d, 1, c, s)
                              \/ z = x /\ f = d /\ i \in Nat \ {0} /\ At(x, r, d, i + 1, c, s)
                              \/ ~(z = x /\ f = d) /\ At(z, r, f, i, c, s)

(* The slot goes to the place (y, q, e, n).                                *)
Jumps(y, q, e, n, c, s) ==
  \A z, r, f, i : At(z, r, f, i, c, s)' <=> z = y /\ r = q /\ f = e /\ i = n

LEMMA StayKeeps ==
  ASSUME NEW c, NEW s, Stays(c, s), SameSets(c, s)
  PROVE  Kept(c, s)
<1>1. Nowhere(c, s) => Nowhere(c, s)'
  BY Zenon DEF Stays, Nowhere
<1>2. Once(c, s) => Once(c, s)'
  BY DEF Stays, Once
<1>3. ToSend(c, s) => ToSend(c, s)'
  BY Zenon DEF Stays, ToSend, SameSets
<1>4. InProg(c, s) => InProg(c, s)'
  BY Zenon DEF Stays, InProg, SameSets
<1>. QED  BY <1>1, <1>2, <1>3, <1>4, Zenon DEF Kept, SameSets

LEMMA MoveOnce ==
  ASSUME NEW c, NEW s, NEW x, NEW d, NEW y, NEW e, NEW n, Moves(x, d, y, e, n, c, s),
         ~(y = x /\ e = d), \A r, i : At(x, r, d, i, c, s) => i \in Nat \ {0}
  PROVE  (Nowhere(c, s) => Nowhere(c, s)') /\ (Once(c, s) => Once(c, s)')
<1>1. Nowhere(c, s) => Nowhere(c, s)'
  BY DEF Moves, Nowhere
<1>2. ASSUME Once(c, s)
      PROVE  Once(c, s)'
  <2>1. PICK z, r, f, i :
          /\ At(z, r, f, i, c, s)
          /\ \A w, q, g, j : At(w, q, g, j, c, s) => w = z /\ q = r /\ g = f /\ j = i
    BY <1>2, Zenon DEF Once
  <2>2. \A j \in Nat \ {0} : j + 1 \in Nat \ {0, 1} /\ \A k \in Nat \ {0} : j + 1 = k + 1 => j = k
    OBVIOUS
  <2>3. CASE z = x /\ f = d /\ i = 1
    <3>1. At(y, r, e, n, c, s)'
      BY <2>1, <2>3, Zenon DEF Moves
    <3>2. ASSUME NEW w, NEW q, NEW g, NEW j, At(w, q, g, j, c, s)'
          PROVE  w = y /\ q = r /\ g = e /\ j = n
      <4>1. \/ w = y /\ g = e /\ j = n /\ At(x, q, d, 1, c, s)
            \/ w = x /\ g = d /\ j \in Nat \ {0} /\ At(x, q, d, j + 1, c, s)
            \/ ~(w = x /\ g = d) /\ At(w, q, g, j, c, s)
        BY <3>2, Zenon DEF Moves
      <4>2. ~(j \in Nat \ {0} /\ At(x, q, d, j + 1, c, s))
        BY <2>1, <2>2, <2>3, Zenon
      <4>. QED  BY <2>1, <2>3, <4>1, <4>2, Zenon
    <3>. QED  BY <3>1, <3>2 DEF Once
  <2>4. CASE z = x /\ f = d /\ i # 1
    <3>1. PICK k \in Nat \ {0} : k + 1 = i
      <4>1. i \in Nat \ {0}
        BY <2>1, <2>4, Zenon
      <4>2. i - 1 \in Nat \ {0} /\ (i - 1) + 1 = i
        BY <2>4, <4>1
      <4>. QED  BY <4>2, Zenon
    <3>2. At(x, r, d, k, c, s)'
      BY <2>1, <2>4, <3>1, Zenon DEF Moves
    <3>3. ASSUME NEW w, NEW q, NEW g, NEW j, At(w, q, g, j, c, s)'
          PROVE  w = x /\ q = r /\ g = d /\ j = k
      <4>1. \/ w = y /\ g = e /\ j = n /\ At(x, q, d, 1, c, s)
            \/ w = x /\ g = d /\ j \in Nat \ {0} /\ At(x, q, d, j + 1, c, s)
            \/ ~(w = x /\ g = d) /\ At(w, q, g, j, c, s)
        BY <3>3, Zenon DEF Moves
      <4>2. ~At(x, q, d, 1, c, s)
        BY <2>1, <2>4
      <4>3. j \in Nat \ {0} /\ At(x, q, d, j + 1, c, s) => q = r /\ j = k
        <5> HAVE j \in Nat \ {0} /\ At(x, q, d, j + 1, c, s)
        <5>1. q = r /\ j + 1 = i
          BY <2>1
        <5>. QED  BY <3>1, <5>1
      <4>. QED  BY <2>1, <2>4, <4>1, <4>2, <4>3, Zenon
    <3>. QED  BY <3>2, <3>3 DEF Once
  <2>5. CASE ~(z = x /\ f = d)
    <3>1. At(z, r, f, i, c, s)'
      BY <2>1, <2>5, Zenon DEF Moves
    <3>2. ASSUME NEW w, NEW q, NEW g, NEW j, At(w, q, g, j, c, s)'
          PROVE  w = z /\ q = r /\ g = f /\ j = i
      <4>1. \/ w = y /\ g = e /\ j = n /\ At(x, q, d, 1, c, s)
            \/ w = x /\ g = d /\ j \in Nat \ {0} /\ At(x, q, d, j + 1, c, s)
            \/ ~(w = x /\ g = d) /\ At(w, q, g, j, c, s)
        BY <3>2, Zenon DEF Moves
      <4>. QED  BY <2>1, <2>5, <4>1
    <3>. QED  BY <3>1, <3>2 DEF Once
  <2>. QED  BY <2>3, <2>4, <2>5, Zenon
<1>. QED  BY <1>1, <1>2, Zenon

LEMMA MoveKeeps ==
  ASSUME NEW c, NEW s, NEW x, NEW d, NEW y, NEW e, NEW n, Moves(x, d, y, e, n, c, s),
         ~(y = x /\ e = d), \A r, i : At(x, r, d, i, c, s) => i \in Nat \ {0},
         SameSets(c, s), x \notin {"in_desc", "held"},
         \A r : At(x, r, d, 1, c, s) => /\ x \in After => y \in After
                                        /\ y \notin {"in_desc", "held"}
  PROVE  Kept(c, s)
<1>1. (Nowhere(c, s) => Nowhere(c, s)') /\ (Once(c, s) => Once(c, s)')
  BY MoveOnce, Zenon
<1>2. \A z, r, f, i : At(z, r, f, i, c, s)' => \E w, g, j : /\ At(w, r, g, j, c, s)
                                                            /\ w \in After => z \in After
  BY Zenon DEF Moves
<1>3. ToSend(c, s) => ToSend(c, s)'
  BY <1>2, Zenon DEF ToSend, SameSets
<1>4. \A z, r, f, i : z \in {"in_desc", "held"} => (At(z, r, f, i, c, s)' <=> At(z, r, f, i, c, s))
  BY Zenon DEF Moves
<1>5. InProg(c, s) => InProg(c, s)'
  BY <1>4 DEF InProg, SameSets
<1>. QED  BY <1>1, <1>3, <1>5, Zenon DEF Kept, SameSets

LEMMA MoveJumps ==
  ASSUME NEW c, NEW s, NEW x, NEW d, NEW y, NEW e, NEW n, Moves(x, d, y, e, n, c, s),
         ~(y = x /\ e = d), NEW r, At(x, r, d, 1, c, s),
         \A z, q, f, i : At(z, q, f, i, c, s) => z = x /\ q = r /\ f = d /\ i = 1
  PROVE  Jumps(y, r, e, n, c, s)
<1>1. \A i \in Nat \ {0} : i + 1 # 1
  OBVIOUS
<1>2. \A q, i : i \in Nat \ {0} => ~At(x, q, d, i + 1, c, s)
  BY <1>1
<1>. QED  BY <1>2 DEF Moves, Jumps

LEMMA JumpKeeps ==
  ASSUME NEW c, NEW s, NEW y, NEW q, NEW e, NEW n, Jumps(y, q, e, n, c, s),
         NEW x, NEW r, NEW d, NEW i, At(x, r, d, i, c, s),
         s \in slots_to_send'[c] => q = "own" /\ y \in After,
         s \in slots_in_prog'[c] <=> y \in {"in_desc", "held"}
  PROVE  Kept(c, s)
<1>1. ~Nowhere(c, s)
  BY Zenon DEF Nowhere
<1>2. Once(c, s)'
  BY DEF Once, Jumps
<1>3. ToSend(c, s)'
  BY Zenon DEF ToSend, Jumps
<1>4. InProg(c, s)'
  BY Zenon DEF InProg, Jumps
<1>. QED  BY <1>1, <1>2, <1>3, <1>4, Zenon DEF Kept

-----------------------------------------------------------------------------
(* The inductive invariant.                                                *)

Msgs(c) ==
  {m \in [type : 0 .. 3, slot : Slots, dest : Cores] :
     /\ m.type = 2 => 2 \in Paths[c] /\ m.dest \in Targets[c]
     /\ m.type = 3 => m.slot = SLOT_COUNT}
SendMsgs(c) == {m \in Msgs(c) : m.type # 0}
LbMsgs == [src : Cores, msg : UNION {Msgs(c) : c \in Cores}]
Reqs == [src : Cores, slot : Slots]
AnyDescs == [core : Cores, slot : 0 .. SLOT_COUNT]
Orders ==
  {m \in [cmd : {"send", "loopback"}, slot : Slots, desc : AnyDescs] :
     m.cmd = "loopback" => m.desc \in Descs}
SendOrders == {m \in Orders : m.cmd = "send"}
Answers ==
  {m \in [core : Cores, cmd : {"send", "loopback"}, slot : Slots, desc : AnyDescs] :
     m.cmd = "loopback" => m.desc \in Descs}

LbType ==
  /\ enabled_cores \subseteq Cores /\ income_cores \subseteq enabled_cores
  /\ free \in [Cores -> SUBSET Slots]
  /\ pkt_done_fifo \in Seq(Reqs) /\ Len(pkt_done_fifo) <= PKT_DONE_DEPTH
  /\ DOMAIN pkt_to_core_fifo = Cores
  /\ \A d \in Cores : pkt_to_core_fifo[d] \in Seq(Requests(d))
  /\ \A d \in Cores : Len(pkt_to_core_fifo[d]) <= PKT_TO_CORE_DEPTH
  /\ arb_in \in [Cores -> Seq(Answers)] /\ \A d \in Cores : Len(arb_in[d]) <= 1
  /\ arb_out \in Seq(Answers) /\ Len(arb_out) <= ARB_OUT_DEPTH
  /\ last_selected \in {0, 1}
  /\ ctrl_out_r \in Seq(Answers) /\ Len(ctrl_out_r) <= 1

NetType ==
  /\ reserved \subseteq Descs /\ in_net \subseteq Descs
  /\ to_lb \in Seq(LbMsgs) /\ Len(to_lb) <= CTRL_NET_DEPTH
  /\ \A k \in DOMAIN to_lb : to_lb[k].msg \in Msgs(to_lb[k].src)

RecvType ==
  /\ booted \subseteq Cores /\ held \in [Cores -> SUBSET Slots]
  /\ recvd_data_fifo \in [Cores -> Seq(Slots)] /\ in_desc_r \in [Cores -> Seq(Slots)]
  /\ \A c \in Cores : Len(recvd_data_fifo[c]) <= RECV_DESC_DEPTH /\ Len(in_desc_r[c]) <= 1
  /\ slots_in_prog \in [Cores -> SUBSET Slots] /\ slots_to_send \in [Cores -> SUBSET Slots]
  /\ slot_errs = [c \in Cores |-> {}]

SendType ==
  /\ send_data_fifo \in [Cores -> Seq(SendOrders)]
  /\ ctrl_s_r \in [Cores -> Seq(Orders)] /\ recvd_ctrl_fifo \in [Cores -> Seq(Orders)]
  /\ sending \in [Cores -> Seq(Orders)] /\ pkt_sent_fifo \in [Cores -> Seq(Slots)]
  /\ DOMAIN send_ctrl_fifo = Cores /\ DOMAIN ctrl_m_r = Cores
  /\ \A c \in Cores :
       /\ send_ctrl_fifo[c] \in Seq(SendMsgs(c)) /\ ctrl_m_r[c] \in Seq(Msgs(c))
       /\ Len(send_data_fifo[c]) <= SEND_DESC_DEPTH /\ Len(send_ctrl_fifo[c]) <= SEND_DESC_DEPTH
       /\ Len(ctrl_s_r[c]) <= 1 /\ Len(recvd_ctrl_fifo[c]) <= RECV_DESC_DEPTH
       /\ Len(sending[c]) <= 1 /\ Len(ctrl_m_r[c]) <= 1
       /\ Len(pkt_sent_fifo[c]) <= SEND_DESC_DEPTH
       /\ sending[c] # <<>> => Len(pkt_sent_fifo[c]) < SEND_DESC_DEPTH

TypeInv == LbType /\ NetType /\ RecvType /\ SendType

(* A core that has not started has no slots and no message, one that has   *)
(* started has its initialisation message or all of its slots somewhere.   *)
Unused(c) == \A s \in Slots : Nowhere(c, s) /\ s \notin slots_to_send[c]
Off(c) == c \notin booted /\ Nowhere(c, 0) /\ Unused(c)
Starting(c) == c \in booted /\ Once(c, 0) /\ Unused(c)
Running(c) == c \in booted /\ Nowhere(c, 0) /\ \A s \in Slots : Once(c, s)

Inv ==
  /\ TypeInv
  /\ \A c \in Cores : Off(c) \/ Starting(c) \/ Running(c)
  /\ \A c \in Cores, s \in Slots : ToSend(c, s) /\ InProg(c, s)

-----------------------------------------------------------------------------
(* Queues.                                                                 *)
LEMMA TailQ ==
  ASSUME NEW S, NEW q \in Seq(S), q # <<>>
  PROVE  /\ Tail(q) \in Seq(S) /\ Len(Tail(q)) = Len(q) - 1 /\ Len(q) \in Nat
         /\ Head(q) = q[1] /\ Head(q) \in S /\ 1 \in DOMAIN q
         /\ \A i : i \in DOMAIN Tail(q) <=> i \in Nat \ {0} /\ i + 1 \in DOMAIN q
         /\ \A i \in DOMAIN Tail(q) : Tail(q)[i] = q[i + 1]
         /\ \A i \in DOMAIN q : i \in Nat \ {0}
<1>1. /\ Len(q) \in Nat \ {0} /\ DOMAIN q = 1 .. Len(q) /\ Len(Tail(q)) = Len(q) - 1
      /\ DOMAIN Tail(q) = 1 .. Len(Tail(q)) /\ Tail(q) \in Seq(S) /\ Head(q) = q[1] /\ Head(q) \in S
  OBVIOUS
<1>2. \A i \in 1 .. Len(q) - 1 : Tail(q)[i] = q[i + 1]
  OBVIOUS
<1>. QED  BY <1>1, <1>2

LEMMA AppendQ ==
  ASSUME NEW S, NEW q \in Seq(S), NEW e \in S
  PROVE  /\ Append(q, e) \in Seq(S) /\ Len(Append(q, e)) = Len(q) + 1 /\ Len(q) \in Nat
         /\ \A i : i \in DOMAIN Append(q, e) <=> i \in DOMAIN q \/ i = Len(q) + 1
         /\ Len(q) + 1 \notin DOMAIN q
         /\ \A i \in DOMAIN q : Append(q, e)[i] = q[i]
         /\ Append(q, e)[Len(q) + 1] = e
<1>1. /\ Len(q) \in Nat /\ DOMAIN q = 1 .. Len(q) /\ Len(Append(q, e)) = Len(q) + 1
      /\ DOMAIN Append(q, e) = 1 .. Len(q) + 1 /\ Append(q, e) \in Seq(S)
  OBVIOUS
<1>2. /\ \A i \in 1 .. Len(q) : Append(q, e)[i] = q[i]
      /\ Append(q, e)[Len(q) + 1] = e
  OBVIOUS
<1>. QED  BY <1>1, <1>2

LEMMA OneQ ==
  ASSUME NEW S, NEW e \in S
  PROVE  /\ <<e>> \in Seq(S) /\ Len(<<e>>) = 1 /\ <<e>>[1] = e /\ <<e>> # <<>>
         /\ \A i : i \in DOMAIN <<e>> <=> i = 1
<1>1. <<e>> \in Seq(S) /\ Len(<<e>>) = 1 /\ <<e>>[1] = e /\ DOMAIN <<e>> = 1 .. 1 /\ <<e>> # <<>>
  OBVIOUS
<1>. QED  BY <1>1

LEMMA NoneQ ==
  ASSUME NEW S
  PROVE  <<>> \in Seq(S) /\ Len(<<>>) = 0 /\ \A i : i \notin DOMAIN <<>>
<1>1. <<>> \in Seq(S) /\ Len(<<>>) = 0 /\ DOMAIN <<>> = 1 .. 0
  OBVIOUS
<1>. QED  BY <1>1

LEMMA RegQ ==
  ASSUME NEW S, NEW q \in Seq(S), q # <<>>, Len(q) <= 1
  PROVE  /\ Head(q) = q[1] /\ Head(q) \in S /\ Len(q) = 1
         /\ \A i : i \in DOMAIN q <=> i = 1
<1>1. Len(q) \in Nat \ {0} /\ DOMAIN q = 1 .. Len(q) /\ Head(q) = q[1] /\ Head(q) \in S
  OBVIOUS
<1>. QED  BY <1>1

LEMMA ConcatQ ==
  ASSUME NEW S, NEW q \in Seq(S), NEW p \in Seq(S), p # <<>>, Len(p) <= 1
  PROVE  q \o p = Append(q, Head(p))
<1>1. p = <<Head(p)>>
  <2>1. /\ Len(p) = 1 /\ p[1] = Head(p) /\ <<Head(p)>> \in Seq(S) /\ Len(<<Head(p)>>) = 1
        /\ <<Head(p)>>[1] = Head(p)
    BY RegQ, OneQ, Zenon
  <2>. QED  BY <2>1
<1>2. \A e \in S : q \o <<e>> = Append(q, e)
  OBVIOUS
<1>3. Head(p) \in S
  OBVIOUS
<1>. QED  BY <1>1, <1>2, <1>3, Zenon

(* The inductive invariant follows slot by slot.                           *)
LEMMA InvFromKept ==
  ASSUME Inv, TypeInv', booted' = booted,
         \A c \in Cores, s \in 0 .. SLOT_COUNT : Kept(c, s)
  PROVE  Inv'
<1>1. Slots \subseteq 0 .. SLOT_COUNT /\ 0 \in 0 .. SLOT_COUNT
  BY CountsAssumption DEF Slots
<1>2. ASSUME NEW c \in Cores
      PROVE  Off(c)' \/ Starting(c)' \/ Running(c)'
  <2>1. Off(c) \/ Starting(c) \/ Running(c)
    BY Zenon DEF Inv
  <2>2. \A s \in 0 .. SLOT_COUNT :
          /\ Nowhere(c, s) => Nowhere(c, s)' /\ (s \in slots_to_send'[c] => s \in slots_to_send[c])
          /\ Once(c, s) => Once(c, s)'
    BY Zenon DEF Kept
  <2>. QED  BY <1>1, <2>1, <2>2, Zenon DEF Off, Starting, Running, Unused
<1>3. ASSUME NEW c \in Cores, NEW s \in Slots
      PROVE  ToSend(c, s)' /\ InProg(c, s)'
  <2>1. Kept(c, s) /\ ToSend(c, s) /\ InProg(c, s)
    BY <1>1, ZenonT(30) DEF Inv
  <2>. QED  BY <2>1, Zenon DEF Kept
<1>. QED  BY <1>2, <1>3, Zenon DEF Inv

(* What does not change.                                                   *)
LEMMA Unmoved ==
  ASSUME NEW c, NEW s
  PROVE  \A r, d, i :
      /\ free' = free => (AtFree(r, d, i, c, s)' <=> AtFree(r, d, i, c, s))
      /\ held' = held => (AtHeld(r, d, i, c, s)' <=> AtHeld(r, d, i, c, s))
      /\ reserved' = reserved => (AtReserved(r, d, i, c, s)' <=> AtReserved(r, d, i, c, s))
      /\ in_net' = in_net => (AtNet(r, d, i, c, s)' <=> AtNet(r, d, i, c, s))
      /\ recvd_data_fifo' = recvd_data_fifo => (AtRecvd(r, d, i, c, s)' <=> AtRecvd(r, d, i, c, s))
      /\ in_desc_r' = in_desc_r => (AtInDesc(r, d, i, c, s)' <=> AtInDesc(r, d, i, c, s))
      /\ pkt_sent_fifo' = pkt_sent_fifo => (AtSent(r, d, i, c, s)' <=> AtSent(r, d, i, c, s))
      /\ send_data_fifo' = send_data_fifo => (AtSendData(r, d, i, c, s)' <=> AtSendData(r, d, i, c, s))
      /\ send_ctrl_fifo' = send_ctrl_fifo => (AtSendCtrl(r, d, i, c, s)' <=> AtSendCtrl(r, d, i, c, s))
      /\ ctrl_m_r' = ctrl_m_r => (AtCtrlM(r, d, i, c, s)' <=> AtCtrlM(r, d, i, c, s))
      /\ to_lb' = to_lb => (AtToLb(r, d, i, c, s)' <=> AtToLb(r, d, i, c, s))
      /\ pkt_done_fifo' = pkt_done_fifo => (AtPktDone(r, d, i, c, s)' <=> AtPktDone(r, d, i, c, s))
      /\ pkt_to_core_fifo' = pkt_to_core_fifo => (AtToCore(r, d, i, c, s)' <=> AtToCore(r, d, i, c, s))
      /\ arb_in' = arb_in => (AtArbIn(r, d, i, c, s)' <=> AtArbIn(r, d, i, c, s))
      /\ arb_out' = arb_out => (AtArbOut(r, d, i, c, s)' <=> AtArbOut(r, d, i, c, s))
      /\ ctrl_out_r' = ctrl_out_r => (AtCtrlOut(r, d, i, c, s)' <=> AtCtrlOut(r, d, i, c, s))
      /\ ctrl_s_r' = ctrl_s_r => (AtCtrlS(r, d, i, c, s)' <=> AtCtrlS(r, d, i, c, s))
      /\ recvd_ctrl_fifo' = recvd_ctrl_fifo => (AtRecvdCtrl(r, d, i, c, s)' <=> AtRecvdCtrl(r, d, i, c, s))
      /\ sending' = sending => (AtSending(r, d, i, c, s)' <=> AtSending(r, d, i, c, s))
  BY
     DEF AtFree, AtHeld, AtReserved, AtNet, AtRecvd, AtInDesc, AtSent, AtSendData, AtSendCtrl, AtCtrlM,
     AtToLb, AtPktDone, AtToCore, AtArbIn, AtArbOut, AtCtrlOut, AtCtrlS, AtRecvdCtrl, AtSending

(* The variable behind place z does not change.                            *)
Still(z) ==
  /\ z = "free" => free' = free
  /\ z = "held" => held' = held
  /\ z = "reserved" => reserved' = reserved
  /\ z = "in_net" => in_net' = in_net
  /\ z = "recvd_data" => recvd_data_fifo' = recvd_data_fifo
  /\ z = "in_desc" => in_desc_r' = in_desc_r
  /\ z = "pkt_sent" => pkt_sent_fifo' = pkt_sent_fifo
  /\ z = "send_data" => send_data_fifo' = send_data_fifo
  /\ z = "send_ctrl" => send_ctrl_fifo' = send_ctrl_fifo
  /\ z = "ctrl_m" => ctrl_m_r' = ctrl_m_r
  /\ z = "to_lb" => to_lb' = to_lb
  /\ z = "pkt_done" => pkt_done_fifo' = pkt_done_fifo
  /\ z = "to_core" => pkt_to_core_fifo' = pkt_to_core_fifo
  /\ z = "arb_in" => arb_in' = arb_in
  /\ z = "arb_out" => arb_out' = arb_out
  /\ z = "ctrl_out" => ctrl_out_r' = ctrl_out_r
  /\ z = "ctrl_s" => ctrl_s_r' = ctrl_s_r
  /\ z = "recvd_ctrl" => recvd_ctrl_fifo' = recvd_ctrl_fifo
  /\ z = "sending" => sending' = sending

LEMMA StillAt ==
  ASSUME NEW c, NEW s, NEW z, Still(z)
  PROVE  \A r, d, i : At(z, r, d, i, c, s)' <=> At(z, r, d, i, c, s)
BY Unmoved DEF Still, At

(* The first item of the queue (x, d) moves to the place (y, e, n), and    *)
(* nothing else moves.                                                     *)
Shift(x, d, y, e, n) ==
  /\ \A z : z \notin {x, y} => Still(z)
  /\ \A c \in Cores, s \in 0 .. SLOT_COUNT : \A r, k, i :
       /\ At(x, r, d, i, c, s) => i \in Nat \ {0}
       /\ At(x, r, k, i, c, s)' <=> \/ k = d /\ i \in Nat \ {0} /\ At(x, r, d, i + 1, c, s)
                                    \/ k # d /\ At(x, r, k, i, c, s)
       /\ At(y, r, k, i, c, s)' <=> \/ k = e /\ i = n /\ At(x, r, d, 1, c, s)
                                    \/ At(y, r, k, i, c, s)

LEMMA ShiftStep ==
  ASSUME Inv, TypeInv', UNCHANGED <<booted, slots_to_send, slots_in_prog>>,
         NEW x, NEW d, NEW y, NEW e, NEW n, x # y, x \notin {"in_desc", "held"}, y \in After,
         Shift(x, d, y, e, n)
  PROVE  Inv'
<1>1. ASSUME NEW c \in Cores, NEW s \in 0 .. SLOT_COUNT
      PROVE  Kept(c, s)
  <2>1. \A z, r, k, i : z \notin {x, y} => (At(z, r, k, i, c, s)' <=> At(z, r, k, i, c, s))
    BY StillAt, ZenonT(30) DEF Shift
  <2>2. Moves(x, d, y, e, n, c, s)
    BY <2>1 DEF Moves, Shift
  <2>3. SameSets(c, s)
    BY Zenon DEF SameSets
  <2>4. y \notin {"in_desc", "held"} /\ \A r, i : At(x, r, d, i, c, s) => i \in Nat \ {0}
    BY Zenon DEF After, Shift
  <2>. QED  BY <2>2, <2>3, <2>4, MoveKeeps, Zenon
<1>. QED  BY <1>1, InvFromKept, Zenon

LEMMA LbSame ==
  ASSUME LbType, UNCHANGED lbVars
  PROVE  LbType'
<1>1. /\ enabled_cores' = enabled_cores /\ income_cores' = income_cores /\ free' = free
      /\ pkt_done_fifo' = pkt_done_fifo /\ pkt_to_core_fifo' = pkt_to_core_fifo
      /\ arb_in' = arb_in /\ arb_out' = arb_out /\ last_selected' = last_selected /\ ctrl_out_r' = ctrl_out_r
  BY Zenon DEF lbVars
<1>. QED  BY <1>1, Zenon DEF LbType

LEMMA NetSame ==
  ASSUME NetType, UNCHANGED netVars
  PROVE  NetType'
<1>1. reserved' = reserved /\ in_net' = in_net /\ to_lb' = to_lb
  BY Zenon DEF netVars
<1>. QED  BY <1>1, Zenon DEF NetType

LEMMA RecvSame ==
  ASSUME RecvType,
         UNCHANGED <<booted, held, recvd_data_fifo, in_desc_r, slots_in_prog, slots_to_send, slot_errs>>
  PROVE  RecvType'
BY Zenon DEF RecvType

LEMMA SendSame ==
  ASSUME SendType,
         UNCHANGED <<send_data_fifo, send_ctrl_fifo, ctrl_s_r, recvd_ctrl_fifo, sending,
                     pkt_sent_fifo, ctrl_m_r>>
  PROVE  SendType'
BY Zenon DEF SendType

LEMMA TypeStep ==
  ASSUME TypeInv, LbType' \/ UNCHANGED lbVars, NetType' \/ UNCHANGED netVars,
         \/ RecvType'
         \/ UNCHANGED <<booted, held, recvd_data_fifo, in_desc_r, slots_in_prog, slots_to_send, slot_errs>>,
         \/ SendType'
         \/ UNCHANGED <<send_data_fifo, send_ctrl_fifo, ctrl_s_r, recvd_ctrl_fifo, sending,
                        pkt_sent_fifo, ctrl_m_r>>
  PROVE  TypeInv'
BY LbSame, NetSame, RecvSame, SendSame, Zenon DEF TypeInv

(* A slot that is in one place is not in another.                          *)
LEMMA Elsewhere ==
  ASSUME Inv, NEW c \in Cores, NEW s \in 0 .. SLOT_COUNT, NEW x, NEW r, NEW d, NEW i, At(x, r, d, i, c, s)
  PROVE  /\ \A y, q, e, j : At(y, q, e, j, c, s) => y = x /\ q = r /\ e = d /\ j = i
         /\ c \in booted /\ (s # 0 => Running(c)) /\ (s = 0 => Starting(c))
<1>1. Off(c) \/ Starting(c) \/ Running(c)
  BY Zenon DEF Inv
<1>2. ~Nowhere(c, s)
  BY Zenon DEF Nowhere
<1>3. s \in Slots \/ s = 0
  BY CountsAssumption DEF Slots
<1>4. Once(c, s) /\ (Running(c) \/ Starting(c)) /\ (s # 0 => Running(c)) /\ (s = 0 => Starting(c))
  BY <1>1, <1>2, <1>3, CountsAssumption, Zenon DEF Off, Starting, Running, Unused, Slots
<1>5. \A y, q, e, j : At(y, q, e, j, c, s) => y = x /\ q = r /\ e = d /\ j = i
  BY <1>4 DEF Once
<1>. QED  BY <1>4, <1>5, Zenon DEF Running, Starting

(* What the registers say of a slot in the place x.                        *)
LEMMA SetsOf ==
  ASSUME Inv, NEW c \in Cores, NEW s \in Slots, NEW x, NEW r, NEW d, NEW i, At(x, r, d, i, c, s)
  PROVE  /\ s \in slots_to_send[c] => r = "own" /\ x \in After
         /\ s \in slots_in_prog[c] <=> x \in {"in_desc", "held"}
<1>1. ToSend(c, s) /\ InProg(c, s)
  BY Zenon DEF Inv
<1>2. s \in 0 .. SLOT_COUNT
  BY CountsAssumption DEF Slots
<1>3. \A y, q, e, j : At(y, q, e, j, c, s) => y = x /\ q = r /\ e = d /\ j = i
  BY <1>2, Elsewhere
<1>. QED  BY <1>1, <1>3, Zenon DEF ToSend, InProg

(* Slot t of core b leaps from place x to place (y, q, e, n), and nothing  *)
(* else moves.                                                             *)
Leap(x, y, q, e, n, b, t) ==
  /\ \E r, d, i : At(x, r, d, i, b, t)
  /\ \A z : z \notin {x, y} => Still(z)
  /\ \A p, k, j : /\ ~At(x, p, k, j, b, t)'
                  /\ At(y, p, k, j, b, t)' <=> p = q /\ k = e /\ j = n
  /\ \A c \in Cores, s \in 0 .. SLOT_COUNT : ~(c = b /\ s = t) =>
       /\ SameSets(c, s)
       /\ \A p, k, j : /\ At(x, p, k, j, c, s)' <=> At(x, p, k, j, c, s)
                       /\ At(y, p, k, j, c, s)' <=> At(y, p, k, j, c, s)
  /\ t \in slots_to_send'[b] => q = "own" /\ y \in After
  /\ t \in slots_in_prog'[b] <=> y \in {"in_desc", "held"}

LEMMA LeapStep ==
  ASSUME Inv, TypeInv', booted' = booted, NEW b \in Cores, NEW t \in 0 .. SLOT_COUNT,
         NEW x, NEW y, NEW q, NEW e, NEW n, x # y, Leap(x, y, q, e, n, b, t)
  PROVE  Inv'
<1>1. PICK r, d, i : At(x, r, d, i, b, t)
  BY Zenon DEF Leap
<1>2. ASSUME NEW c \in Cores, NEW s \in 0 .. SLOT_COUNT
      PROVE  Kept(c, s)
  <2>1. \A z, p, k, j : z \notin {x, y} => (At(z, p, k, j, c, s)' <=> At(z, p, k, j, c, s))
    BY StillAt, Zenon DEF Leap
  <2>2. CASE c = b /\ s = t
    <3>1. \A z, p, k, j : At(z, p, k, j, c, s) => z = x
      BY <1>1, <2>2, Elsewhere, Zenon
    <3>2. Jumps(y, q, e, n, c, s)
      BY <2>1, <2>2, <3>1 DEF Jumps, Leap
    <3>3. /\ s \in slots_to_send'[c] => q = "own" /\ y \in After
          /\ s \in slots_in_prog'[c] <=> y \in {"in_desc", "held"}
      BY <2>2, Zenon DEF Leap
    <3>. QED  BY <1>1, <2>2, <3>2, <3>3, JumpKeeps, Zenon
  <2>3. CASE ~(c = b /\ s = t)
    <3>1. SameSets(c, s) /\ Stays(c, s)
      BY <2>1, <2>3, Zenon DEF Stays, Leap
    <3>. QED  BY <3>1, StayKeeps, Zenon
  <2>. QED  BY <2>2, <2>3, Zenon
<1>. QED  BY <1>2, InvFromKept, Zenon

(* Slot t of core b is the only one of the first item of the queue (x, d), *)
(* and leaps to place (y, q, e, n).                                        *)
Hop(x, d, y, q, e, n, b, t) ==
  /\ \E r : At(x, r, d, 1, b, t)
  /\ \A z : z \notin {x, y} => Still(z)
  /\ \A p, k, j : /\ ~At(x, p, k, j, b, t)'
                  /\ At(y, p, k, j, b, t)' <=> p = q /\ k = e /\ j = n
  /\ \A c \in Cores, s \in 0 .. SLOT_COUNT : ~(c = b /\ s = t) =>
       /\ SameSets(c, s)
       /\ \A p, k, j :
            /\ At(x, p, d, j, c, s) => j \in Nat \ {0} /\ j # 1
            /\ At(x, p, k, j, c, s)' <=> \/ k = d /\ j \in Nat \ {0} /\ At(x, p, d, j + 1, c, s)
                                         \/ k # d /\ At(x, p, k, j, c, s)
            /\ At(y, p, k, j, c, s)' <=> At(y, p, k, j, c, s)
  /\ t \in slots_to_send'[b] => q = "own" /\ y \in After
  /\ t \in slots_in_prog'[b] <=> y \in {"in_desc", "held"}

LEMMA HopStep ==
  ASSUME Inv, TypeInv', booted' = booted, NEW b \in Cores, NEW t \in 0 .. SLOT_COUNT,
         NEW x, NEW d, NEW y, NEW q, NEW e, NEW n, x # y, x \notin {"in_desc", "held"},
         Hop(x, d, y, q, e, n, b, t)
  PROVE  Inv'
<1>1. PICK r : At(x, r, d, 1, b, t)
  BY Zenon DEF Hop
<1>2. ASSUME NEW c \in Cores, NEW s \in 0 .. SLOT_COUNT
      PROVE  Kept(c, s)
  <2>1. \A z, p, k, j : z \notin {x, y} => (At(z, p, k, j, c, s)' <=> At(z, p, k, j, c, s))
    BY StillAt, Zenon DEF Hop
  <2>2. CASE c = b /\ s = t
    <3>1. \A z, p, k, j : At(z, p, k, j, c, s) => z = x
      BY <1>1, <2>2, Elsewhere, Zenon
    <3>2. Jumps(y, q, e, n, c, s)
      BY <2>1, <2>2, <3>1 DEF Jumps, Hop
    <3>3. /\ s \in slots_to_send'[c] => q = "own" /\ y \in After
          /\ s \in slots_in_prog'[c] <=> y \in {"in_desc", "held"}
      BY <2>2, Zenon DEF Hop
    <3>. QED  BY <1>1, <2>2, <3>2, <3>3, JumpKeeps, Zenon
  <2>3. CASE ~(c = b /\ s = t)
    <3>1. \A p : ~At(x, p, d, 1, c, s)
      BY <2>3, Zenon DEF Hop
    <3>2. SameSets(c, s) /\ Moves(x, d, y, e, n, c, s)
      BY <2>1, <2>3, <3>1 DEF Moves, Hop
    <3>3. \A p, j : At(x, p, d, j, c, s) => j \in Nat \ {0}
      BY <2>3, Zenon DEF Hop
    <3>. QED  BY <3>1, <3>2, <3>3, MoveKeeps, Zenon
  <2>. QED  BY <2>2, <2>3, Zenon
<1>. QED  BY <1>2, InvFromKept, Zenon


-----------------------------------------------------------------------------
(* The steps of the cores and of their interconnects.                      *)
LEMMA InDescStep ==
  ASSUME Inv, NEW b \in Cores, InDesc(b), UNCHANGED <<lbVars, netVars>>
  PROVE  Inv'
<1> DEFINE f == recvd_data_fifo[b]
           h == Head(recvd_data_fifo[b])
<1>1. /\ f \in Seq(Slots) /\ f # <<>> /\ in_desc_r[b] = <<>>
      /\ recvd_data_fifo \in [Cores -> Seq(Slots)] /\ in_desc_r \in [Cores -> Seq(Slots)]
  BY Zenon DEF Inv, TypeInv, RecvType, InDesc
<1>2. /\ Tail(f) \in Seq(Slots) /\ Len(Tail(f)) = Len(f) - 1 /\ Len(f) \in Nat
      /\ h = f[1] /\ h \in Slots /\ 1 \in DOMAIN f
      /\ \A i : i \in DOMAIN Tail(f) <=> i \in Nat \ {0} /\ i + 1 \in DOMAIN f
      /\ \A i \in DOMAIN Tail(f) : Tail(f)[i] = f[i + 1]
      /\ \A i \in DOMAIN f : i \in Nat \ {0}
  BY <1>1, TailQ, Zenon
<1>3. h \in 0 .. SLOT_COUNT /\ AtRecvd("own", b, 1, b, h)
  BY <1>2, CountsAssumption DEF Slots, AtRecvd
<1>4. At("recvd_data", "own", b, 1, b, h)
  BY <1>3, IsRecvd, Zenon
<1>5. h \notin slots_to_send[b] /\ h \notin slots_in_prog[b]
  <2>1. ToSend(b, h) /\ InProg(b, h)
    BY <1>2, Zenon DEF Inv
  <2>2. \A y, q, e, j : At(y, q, e, j, b, h) => y = "recvd_data"
    BY <1>3, <1>4, Elsewhere, Zenon
  <2>. QED  BY <1>4, <2>1, <2>2, Zenon DEF ToSend, InProg, After
<1>6. /\ recvd_data_fifo' = [recvd_data_fifo EXCEPT ![b] = Tail(@)]
      /\ in_desc_r' = [in_desc_r EXCEPT ![b] = <<h>>]
      /\ slots_in_prog' = [slots_in_prog EXCEPT ![b] = @ \cup {h}]
      /\ slot_errs' = slot_errs
      /\ UNCHANGED <<booted, held, send_data_fifo, send_ctrl_fifo, ctrl_s_r,
                     recvd_ctrl_fifo, sending, pkt_sent_fifo, ctrl_m_r, slots_to_send>>
  BY <1>5, Zenon DEF InDesc
<1>7. /\ enabled_cores' = enabled_cores /\ income_cores' = income_cores /\ free' = free
      /\ pkt_done_fifo' = pkt_done_fifo /\ pkt_to_core_fifo' = pkt_to_core_fifo
      /\ arb_in' = arb_in /\ arb_out' = arb_out /\ last_selected' = last_selected /\ ctrl_out_r' = ctrl_out_r
      /\ reserved' = reserved /\ in_net' = in_net /\ to_lb' = to_lb
  BY Zenon DEF lbVars, netVars
<1>8. <<h>> \in Seq(Slots) /\ Len(<<h>>) = 1 /\ <<h>>[1] = h /\ <<h>> # <<>>
      /\ \A i : i \in DOMAIN <<h>> <=> i = 1
  BY <1>2, OneQ, Zenon
<1>9. TypeInv'
  <2>1. RecvType'
    <3> HIDE DEF f, h
    <3>. QED  BY <1>1, <1>2, <1>6, <1>8, DepthAssumption DEF Inv, TypeInv, RecvType, f, h
  <2>. QED  BY <1>6, <2>1, TypeStep, ZenonT(30) DEF Inv
<1>10. ASSUME NEW c \in Cores, NEW s \in 0 .. SLOT_COUNT
       PROVE  Kept(c, s)
  <2>1. /\ \A r, d, i : AtRecvd(r, d, i, c, s)' <=> \/ d = b /\ i \in Nat \ {0} /\ AtRecvd(r, b, i + 1, c, s)
                                                    \/ d # b /\ AtRecvd(r, d, i, c, s)
        /\ \A r, d, i : AtInDesc(r, d, i, c, s)' <=> \/ d = b /\ i = 1 /\ AtRecvd(r, b, 1, c, s)
                                                     \/ AtInDesc(r, d, i, c, s)
    BY <1>1, <1>2, <1>6, <1>8 DEF AtRecvd, AtInDesc
  <2>2. Moves("recvd_data", b, "in_desc", b, 1, c, s)
    <3>1. \A z : z \notin {"recvd_data", "in_desc"} => Still(z)
      BY <1>6, <1>7, Zenon DEF Still
    <3>2. \A z, r, d, i : z \notin {"recvd_data", "in_desc"} => (At(z, r, d, i, c, s)' <=> At(z, r, d, i, c, s))
      BY <3>1, StillAt, Zenon
    <3>3. \A r, d, i : /\ At("recvd_data", r, d, i, c, s) <=> AtRecvd(r, d, i, c, s)
                       /\ At("recvd_data", r, d, i, c, s)' <=> AtRecvd(r, d, i, c, s)'
                       /\ At("in_desc", r, d, i, c, s) <=> AtInDesc(r, d, i, c, s)
                       /\ At("in_desc", r, d, i, c, s)' <=> AtInDesc(r, d, i, c, s)'
      BY IsRecvd, IsInDesc, ZenonT(30)
    <3>. QED  BY <2>1, <3>2, <3>3 DEF Moves
  <2>3. \A r, i : /\ At("recvd_data", r, b, i, c, s) => i \in Nat \ {0}
                  /\ At("recvd_data", r, b, 1, c, s) => c = b /\ s = h
    BY <1>2, IsRecvd DEF AtRecvd
  <2>4. CASE c = b /\ s = h
    <3>1. \A y, q, e, j : At(y, q, e, j, c, s) => y = "recvd_data" /\ q = "own" /\ e = b /\ j = 1
      BY <1>4, <2>4, Elsewhere
    <3>2. Jumps("in_desc", "own", b, 1, c, s)
      BY <1>4, <2>2, <2>4, <3>1, MoveJumps, Zenon
    <3>3. s \notin slots_to_send'[c] /\ s \in slots_in_prog'[c]
      BY <1>5, <1>6, <2>4, Zenon DEF Inv, TypeInv, RecvType
    <3>. QED  BY <1>4, <2>4, <3>2, <3>3, JumpKeeps, Zenon
  <2>5. CASE ~(c = b /\ s = h)
    <3>1. SameSets(c, s)
      BY <1>6, <2>5, Zenon DEF SameSets, Inv, TypeInv, RecvType
    <3>. QED  BY <2>2, <2>3, <2>5, <3>1, MoveKeeps
  <2>. QED  BY <2>4, <2>5, Zenon
<1>. QED  BY <1>6, <1>9, <1>10, InvFromKept, Zenon

LEMMA ParseCtrlStep ==
  ASSUME Inv, NEW b \in Cores, ParseCtrl(b), UNCHANGED <<lbVars, netVars>>
  PROVE  Inv'
<1> DEFINE f == ctrl_s_r[b]
           h == Head(ctrl_s_r[b])
           g == recvd_ctrl_fifo[b]
           n == Len(recvd_ctrl_fifo[b]) + 1
<1>1. /\ f \in Seq(Orders) /\ f # <<>> /\ Len(f) <= 1 /\ g \in Seq(Orders)
      /\ ctrl_s_r \in [Cores -> Seq(Orders)] /\ recvd_ctrl_fifo \in [Cores -> Seq(Orders)] /\ Len(g) < RECV_DESC_DEPTH
  BY Zenon DEF Inv, TypeInv, SendType, ParseCtrl
<1>2. /\ Head(f) = f[1] /\ Head(f) \in Orders /\ Len(f) = 1
      /\ \A i : i \in DOMAIN f <=> i = 1
  BY <1>1, RegQ, Zenon
<1>3. h \in Orders /\ h = Head(f)
  BY <1>2, Zenon
<1>4. /\ ctrl_s_r' = [ctrl_s_r EXCEPT ![b] = <<>>]
      /\ recvd_ctrl_fifo' = [recvd_ctrl_fifo EXCEPT ![b] = Append(g, h)]
      /\ UNCHANGED <<enabled_cores, income_cores, free, pkt_done_fifo, pkt_to_core_fifo,
                      arb_in, arb_out, last_selected, ctrl_out_r, reserved, in_net, to_lb,
                      booted, held, recvd_data_fifo, in_desc_r, slots_in_prog, slots_to_send,
                      slot_errs, send_data_fifo, send_ctrl_fifo, sending, pkt_sent_fifo,
                      ctrl_m_r>>
  BY <1>1, <1>2, ConcatQ, Zenon DEF ParseCtrl, lbVars, netVars
<1> HIDE DEF h
<1>5. /\ Append(g, h) \in Seq(Orders) /\ Len(Append(g, h)) = Len(g) + 1 /\ Len(g) \in Nat
      /\ \A i : i \in DOMAIN Append(g, h) <=> i \in DOMAIN g \/ i = Len(g) + 1
      /\ Len(g) + 1 \notin DOMAIN g
      /\ \A i \in DOMAIN g : Append(g, h)[i] = g[i]
      /\ Append(g, h)[Len(g) + 1] = h
  <2> HIDE DEF f, g
  <2>. QED  BY <1>1, <1>3, AppendQ, ZenonT(30)
<1>6. TypeInv'
  <2>1. SendType'
    <3> HIDE DEF f, g
    <3>. QED  BY <1>1, <1>2, <1>3, <1>4, <1>5, NoneQ, DepthAssumption, NetAssumption
                 DEF Inv, TypeInv, SendType, f, g
  <2>. QED  BY <1>4, <2>1, TypeStep, Zenon DEF Inv, lbVars, netVars
<1>7. ASSUME NEW c \in Cores, NEW s \in 0 .. SLOT_COUNT, NEW r, NEW k, NEW i
      PROVE  /\ At("ctrl_s", r, b, i, c, s) => i \in Nat \ {0}
             /\ At("ctrl_s", r, k, i, c, s)' <=>
                  \/ k = b /\ i \in Nat \ {0} /\ At("ctrl_s", r, b, i + 1, c, s)
                  \/ k # b /\ At("ctrl_s", r, k, i, c, s)
             /\ At("recvd_ctrl", r, k, i, c, s)' <=>
                  \/ k = b /\ i = n /\ At("ctrl_s", r, b, 1, c, s)
                  \/ At("recvd_ctrl", r, k, i, c, s)
  <2>1. \A j, l : /\ At("ctrl_s", r, j, l, c, s) <=> AtCtrlS(r, j, l, c, s)
                  /\ At("ctrl_s", r, j, l, c, s)' <=> AtCtrlS(r, j, l, c, s)'
                  /\ At("recvd_ctrl", r, j, l, c, s) <=> AtRecvdCtrl(r, j, l, c, s)
                  /\ At("recvd_ctrl", r, j, l, c, s)' <=> AtRecvdCtrl(r, j, l, c, s)'
    BY IsCtrlS, IsRecvdCtrl, ZenonT(30)
  <2>2. /\ AtCtrlS(r, b, i, c, s) => i \in Nat \ {0}
        /\ AtCtrlS(r, k, i, c, s)' <=>
             \/ k = b /\ i \in Nat \ {0} /\ AtCtrlS(r, b, i + 1, c, s)
             \/ k # b /\ AtCtrlS(r, k, i, c, s)
        /\ AtRecvdCtrl(r, k, i, c, s)' <=>
             \/ k = b /\ i = n /\ AtCtrlS(r, b, 1, c, s)
             \/ AtRecvdCtrl(r, k, i, c, s)
    BY <1>1, <1>2, <1>3, <1>4, <1>5, NoneQ DEF AtCtrlS, AtRecvdCtrl
  <2>. QED  BY <2>1, <2>2, Zenon
<1>8. /\ \A z : z \notin {"ctrl_s", "recvd_ctrl"} => Still(z)
      /\ "recvd_ctrl" \in After /\ "ctrl_s" \notin {"in_desc", "held"} /\ "ctrl_s" # "recvd_ctrl"
  BY <1>4, Zenon DEF Still, After
<1> HIDE DEF f, g, n
<1>9. Shift("ctrl_s", b, "recvd_ctrl", b, n)
  BY <1>7, <1>8, Zenon DEF Shift
<1>. QED  BY <1>4, <1>6, <1>8, <1>9, ShiftStep, Zenon

LEMMA SendFromLbStep ==
  ASSUME Inv, NEW b \in Cores, SendFromLb(b), UNCHANGED <<lbVars, netVars>>
  PROVE  Inv'
<1> DEFINE f == recvd_ctrl_fifo[b]
           h == Head(recvd_ctrl_fifo[b])
<1>1. /\ f \in Seq(Orders) /\ f # <<>>
      /\ recvd_ctrl_fifo \in [Cores -> Seq(Orders)] /\ sending \in [Cores -> Seq(Orders)] /\ sending[b] = <<>> /\ Len(pkt_sent_fifo[b]) < SEND_DESC_DEPTH
  BY Zenon DEF Inv, TypeInv, SendType, SendFromLb, SendReady
<1>2. /\ Tail(f) \in Seq(Orders) /\ Len(Tail(f)) = Len(f) - 1 /\ Len(f) \in Nat
      /\ Head(f) = f[1] /\ Head(f) \in Orders /\ 1 \in DOMAIN f
      /\ \A i : i \in DOMAIN Tail(f) <=> i \in Nat \ {0} /\ i + 1 \in DOMAIN f
      /\ \A i \in DOMAIN Tail(f) : Tail(f)[i] = f[i + 1]
      /\ \A i \in DOMAIN f : i \in Nat \ {0}
  BY <1>1, TailQ, Zenon
<1>3. h \in Orders /\ h = Head(f)
  BY <1>2, Zenon
<1>4. /\ recvd_ctrl_fifo' = [recvd_ctrl_fifo EXCEPT ![b] = Tail(f)]
      /\ sending' = [sending EXCEPT ![b] = <<h>>]
      /\ UNCHANGED <<enabled_cores, income_cores, free, pkt_done_fifo, pkt_to_core_fifo,
                      arb_in, arb_out, last_selected, ctrl_out_r, reserved, in_net, to_lb,
                      booted, held, recvd_data_fifo, in_desc_r, slots_in_prog, slots_to_send,
                      slot_errs, send_data_fifo, send_ctrl_fifo, ctrl_s_r, pkt_sent_fifo,
                      ctrl_m_r>>
  BY <1>1, <1>2, Zenon DEF SendFromLb, lbVars, netVars
<1> HIDE DEF h
<1>5. /\ <<h>> \in Seq(Orders) /\ Len(<<h>>) = 1 /\ <<h>>[1] = h /\ <<h>> # <<>>
      /\ \A i : i \in DOMAIN <<h>> <=> i = 1
  BY <1>3, OneQ, Zenon
<1>6. TypeInv'
  <2>1. SendType'
    <3> HIDE DEF f
    <3>. QED  BY <1>1, <1>2, <1>3, <1>4, <1>5, NoneQ, DepthAssumption, NetAssumption
                 DEF Inv, TypeInv, SendType, f
  <2>. QED  BY <1>4, <2>1, TypeStep, ZenonT(30) DEF Inv, lbVars, netVars
<1>7. ASSUME NEW c \in Cores, NEW s \in 0 .. SLOT_COUNT, NEW r, NEW k, NEW i
      PROVE  /\ At("recvd_ctrl", r, b, i, c, s) => i \in Nat \ {0}
             /\ At("recvd_ctrl", r, k, i, c, s)' <=>
                  \/ k = b /\ i \in Nat \ {0} /\ At("recvd_ctrl", r, b, i + 1, c, s)
                  \/ k # b /\ At("recvd_ctrl", r, k, i, c, s)
             /\ At("sending", r, k, i, c, s)' <=>
                  \/ k = b /\ i = 1 /\ At("recvd_ctrl", r, b, 1, c, s)
                  \/ At("sending", r, k, i, c, s)
  <2>1. \A j, l : /\ At("recvd_ctrl", r, j, l, c, s) <=> AtRecvdCtrl(r, j, l, c, s)
                  /\ At("recvd_ctrl", r, j, l, c, s)' <=> AtRecvdCtrl(r, j, l, c, s)'
                  /\ At("sending", r, j, l, c, s) <=> AtSending(r, j, l, c, s)
                  /\ At("sending", r, j, l, c, s)' <=> AtSending(r, j, l, c, s)'
    BY IsRecvdCtrl, IsSending, Zenon
  <2>2. /\ AtRecvdCtrl(r, b, i, c, s) => i \in Nat \ {0}
        /\ AtRecvdCtrl(r, k, i, c, s)' <=>
             \/ k = b /\ i \in Nat \ {0} /\ AtRecvdCtrl(r, b, i + 1, c, s)
             \/ k # b /\ AtRecvdCtrl(r, k, i, c, s)
        /\ AtSending(r, k, i, c, s)' <=>
             \/ k = b /\ i = 1 /\ AtRecvdCtrl(r, b, 1, c, s)
             \/ AtSending(r, k, i, c, s)
    BY <1>1, <1>2, <1>3, <1>4, <1>5, NoneQ, ZenonT(30) DEF AtRecvdCtrl, AtSending
  <2>. QED  BY <2>1, <2>2, Zenon
<1>8. /\ \A z : z \notin {"recvd_ctrl", "sending"} => Still(z)
      /\ "sending" \in After /\ "recvd_ctrl" \notin {"in_desc", "held"} /\ "recvd_ctrl" # "sending"
  BY <1>4, Zenon DEF Still, After
<1> HIDE DEF f
<1>9. Shift("recvd_ctrl", b, "sending", b, 1)
  BY <1>7, <1>8, Zenon DEF Shift
<1>. QED  BY <1>4, <1>6, <1>8, <1>9, ShiftStep, Zenon

LEMMA SendFromCoreStep ==
  ASSUME Inv, NEW b \in Cores, SendFromCore(b), UNCHANGED <<lbVars, netVars>>
  PROVE  Inv'
<1> DEFINE f == send_data_fifo[b]
           h == Head(send_data_fifo[b])
<1>1. /\ f \in Seq(SendOrders) /\ f # <<>>
      /\ send_data_fifo \in [Cores -> Seq(SendOrders)] /\ sending \in [Cores -> Seq(Orders)] /\ sending[b] = <<>> /\ Len(pkt_sent_fifo[b]) < SEND_DESC_DEPTH
  BY Zenon DEF Inv, TypeInv, SendType, SendFromCore, SendReady
<1>2. /\ Tail(f) \in Seq(SendOrders) /\ Len(Tail(f)) = Len(f) - 1 /\ Len(f) \in Nat
      /\ Head(f) = f[1] /\ Head(f) \in SendOrders /\ 1 \in DOMAIN f
      /\ \A i : i \in DOMAIN Tail(f) <=> i \in Nat \ {0} /\ i + 1 \in DOMAIN f
      /\ \A i \in DOMAIN Tail(f) : Tail(f)[i] = f[i + 1]
      /\ \A i \in DOMAIN f : i \in Nat \ {0}
  BY <1>1, TailQ, Zenon
<1>3. h \in Orders /\ h = Head(f) /\ h.cmd = "send"
  BY <1>2, Zenon DEF SendOrders
<1>4. /\ send_data_fifo' = [send_data_fifo EXCEPT ![b] = Tail(f)]
      /\ sending' = [sending EXCEPT ![b] = <<h>>]
      /\ UNCHANGED <<enabled_cores, income_cores, free, pkt_done_fifo, pkt_to_core_fifo,
                      arb_in, arb_out, last_selected, ctrl_out_r, reserved, in_net, to_lb,
                      booted, held, recvd_data_fifo, in_desc_r, slots_in_prog, slots_to_send,
                      slot_errs, send_ctrl_fifo, ctrl_s_r, recvd_ctrl_fifo, pkt_sent_fifo,
                      ctrl_m_r>>
  BY <1>1, <1>2, Zenon DEF SendFromCore, lbVars, netVars
<1> HIDE DEF h
<1>5. /\ <<h>> \in Seq(Orders) /\ Len(<<h>>) = 1 /\ <<h>>[1] = h /\ <<h>> # <<>>
      /\ \A i : i \in DOMAIN <<h>> <=> i = 1
  BY <1>3, OneQ, Zenon
<1>6. TypeInv'
  <2>1. SendType'
    <3> HIDE DEF f
    <3>. QED  BY <1>1, <1>2, <1>3, <1>4, <1>5, NoneQ, DepthAssumption, NetAssumption
                 DEF Inv, TypeInv, SendType, f
  <2>. QED  BY <1>4, <2>1, TypeStep, ZenonT(30) DEF Inv, lbVars, netVars
<1>7. ASSUME NEW c \in Cores, NEW s \in 0 .. SLOT_COUNT, NEW r, NEW k, NEW i
      PROVE  /\ At("send_data", r, b, i, c, s) => i \in Nat \ {0}
             /\ At("send_data", r, k, i, c, s)' <=>
                  \/ k = b /\ i \in Nat \ {0} /\ At("send_data", r, b, i + 1, c, s)
                  \/ k # b /\ At("send_data", r, k, i, c, s)
             /\ At("sending", r, k, i, c, s)' <=>
                  \/ k = b /\ i = 1 /\ At("send_data", r, b, 1, c, s)
                  \/ At("sending", r, k, i, c, s)
  <2>1. \A j, l : /\ At("send_data", r, j, l, c, s) <=> AtSendData(r, j, l, c, s)
                  /\ At("send_data", r, j, l, c, s)' <=> AtSendData(r, j, l, c, s)'
                  /\ At("sending", r, j, l, c, s) <=> AtSending(r, j, l, c, s)
                  /\ At("sending", r, j, l, c, s)' <=> AtSending(r, j, l, c, s)'
    BY IsSendData, IsSending, Zenon
  <2>2. /\ AtSendData(r, b, i, c, s) => i \in Nat \ {0}
        /\ AtSendData(r, k, i, c, s)' <=>
             \/ k = b /\ i \in Nat \ {0} /\ AtSendData(r, b, i + 1, c, s)
             \/ k # b /\ AtSendData(r, k, i, c, s)
        /\ AtSending(r, k, i, c, s)' <=>
             \/ k = b /\ i = 1 /\ AtSendData(r, b, 1, c, s)
             \/ AtSending(r, k, i, c, s)
    BY <1>1, <1>2, <1>3, <1>4, <1>5, NoneQ, ZenonT(30)
       DEF AtSendData, AtSending, HasOrder, HasNew
  <2>. QED  BY <2>1, <2>2, Zenon
<1>8. /\ \A z : z \notin {"send_data", "sending"} => Still(z)
      /\ "sending" \in After /\ "send_data" \notin {"in_desc", "held"} /\ "send_data" # "sending"
  BY <1>4, Zenon DEF Still, After
<1> HIDE DEF f
<1>9. Shift("send_data", b, "sending", b, 1)
  BY <1>7, <1>8, Zenon DEF Shift
<1>. QED  BY <1>4, <1>6, <1>8, <1>9, ShiftStep, Zenon

LEMMA RequestSendStep ==
  ASSUME Inv, NEW b \in Cores, RequestSend(b), UNCHANGED <<lbVars, netVars>>
  PROVE  Inv'
<1> DEFINE f == send_ctrl_fifo[b]
           h == Head(send_ctrl_fifo[b])
<1>1. /\ f \in Seq(SendMsgs(b)) /\ f # <<>>
      /\ DOMAIN send_ctrl_fifo = Cores /\ DOMAIN ctrl_m_r = Cores /\ ctrl_m_r[b] = <<>>
  BY Zenon DEF Inv, TypeInv, SendType, RequestSend
<1>2. /\ Tail(f) \in Seq(SendMsgs(b)) /\ Len(Tail(f)) = Len(f) - 1 /\ Len(f) \in Nat
      /\ Head(f) = f[1] /\ Head(f) \in SendMsgs(b) /\ 1 \in DOMAIN f
      /\ \A i : i \in DOMAIN Tail(f) <=> i \in Nat \ {0} /\ i + 1 \in DOMAIN f
      /\ \A i \in DOMAIN Tail(f) : Tail(f)[i] = f[i + 1]
      /\ \A i \in DOMAIN f : i \in Nat \ {0}
  BY <1>1, TailQ, Zenon
<1>3. h \in Msgs(b) /\ h = Head(f) /\ h.type # 0
  BY <1>2, Zenon DEF SendMsgs
<1>4. /\ send_ctrl_fifo' = [send_ctrl_fifo EXCEPT ![b] = Tail(f)]
      /\ ctrl_m_r' = [ctrl_m_r EXCEPT ![b] = <<h>>]
      /\ UNCHANGED <<enabled_cores, income_cores, free, pkt_done_fifo, pkt_to_core_fifo,
                      arb_in, arb_out, last_selected, ctrl_out_r, reserved, in_net, to_lb,
                      booted, held, recvd_data_fifo, in_desc_r, slots_in_prog, slots_to_send,
                      slot_errs, send_data_fifo, ctrl_s_r, recvd_ctrl_fifo, sending,
                      pkt_sent_fifo>>
  BY <1>1, <1>2, Zenon DEF RequestSend, lbVars, netVars
<1> HIDE DEF h
<1>5. /\ <<h>> \in Seq(Msgs(b)) /\ Len(<<h>>) = 1 /\ <<h>>[1] = h /\ <<h>> # <<>>
      /\ \A i : i \in DOMAIN <<h>> <=> i = 1
  BY <1>3, OneQ, Zenon
<1>6. TypeInv'
  <2>1. SendType'
    <3> HIDE DEF f
    <3>. QED  BY <1>1, <1>2, <1>3, <1>4, <1>5, NoneQ, DepthAssumption, NetAssumption
                 DEF Inv, TypeInv, SendType, f
  <2>. QED  BY <1>4, <2>1, TypeStep, ZenonT(30) DEF Inv, lbVars, netVars
<1>7. ASSUME NEW c \in Cores, NEW s \in 0 .. SLOT_COUNT, NEW r, NEW k, NEW i
      PROVE  /\ At("send_ctrl", r, b, i, c, s) => i \in Nat \ {0}
             /\ At("send_ctrl", r, k, i, c, s)' <=>
                  \/ k = b /\ i \in Nat \ {0} /\ At("send_ctrl", r, b, i + 1, c, s)
                  \/ k # b /\ At("send_ctrl", r, k, i, c, s)
             /\ At("ctrl_m", r, k, i, c, s)' <=>
                  \/ k = b /\ i = 1 /\ At("send_ctrl", r, b, 1, c, s)
                  \/ At("ctrl_m", r, k, i, c, s)
  <2>1. \A j, l : /\ At("send_ctrl", r, j, l, c, s) <=> AtSendCtrl(r, j, l, c, s)
                  /\ At("send_ctrl", r, j, l, c, s)' <=> AtSendCtrl(r, j, l, c, s)'
                  /\ At("ctrl_m", r, j, l, c, s) <=> AtCtrlM(r, j, l, c, s)
                  /\ At("ctrl_m", r, j, l, c, s)' <=> AtCtrlM(r, j, l, c, s)'
    BY IsSendCtrl, IsCtrlM, Zenon
  <2>2. /\ AtSendCtrl(r, b, i, c, s) => i \in Nat \ {0}
        /\ AtSendCtrl(r, k, i, c, s)' <=>
             \/ k = b /\ i \in Nat \ {0} /\ AtSendCtrl(r, b, i + 1, c, s)
             \/ k # b /\ AtSendCtrl(r, k, i, c, s)
        /\ AtCtrlM(r, k, i, c, s)' <=>
             \/ k = b /\ i = 1 /\ AtSendCtrl(r, b, 1, c, s)
             \/ AtCtrlM(r, k, i, c, s)
    BY <1>1, <1>2, <1>3, <1>4, <1>5, NoneQ, Zenon DEF AtSendCtrl, AtCtrlM, HasMsg, HasDone
  <2>. QED  BY <2>1, <2>2, Zenon
<1>8. /\ \A z : z \notin {"send_ctrl", "ctrl_m"} => Still(z)
      /\ "ctrl_m" \in After /\ "send_ctrl" \notin {"in_desc", "held"} /\ "send_ctrl" # "ctrl_m"
  BY <1>4, Zenon DEF Still, After
<1> HIDE DEF f
<1>9. Shift("send_ctrl", b, "ctrl_m", b, 1)
  BY <1>7, <1>8, Zenon DEF Shift
<1>. QED  BY <1>4, <1>6, <1>8, <1>9, ShiftStep, Zenon

LEMMA ReadInPktStep ==
  ASSUME Inv, NEW b \in Cores, read_in_pkt(b), UNCHANGED <<lbVars, netVars>>
  PROVE  Inv'
<1> DEFINE f == in_desc_r[b]
<1>0. PICK t \in Slots : t = Head(f) /\ t = f[1] /\ \A j : j \in DOMAIN f <=> j = 1
  <2>1. f \in Seq(Slots) /\ f # <<>> /\ Len(f) <= 1
    BY Zenon DEF Inv, TypeInv, RecvType, read_in_pkt
  <2>2. Head(f) = f[1] /\ Head(f) \in Slots /\ \A j : j \in DOMAIN f <=> j = 1
    BY <2>1, RegQ, Zenon
  <2>. QED  BY <2>2, Zenon
<1>1. /\ t \in Slots /\ t \in 0 .. SLOT_COUNT /\ held \in [Cores -> SUBSET Slots]
      /\ in_desc_r \in [Cores -> Seq(Slots)] /\ t = Head(f) /\ t = f[1] /\ \A j : j \in DOMAIN f <=> j = 1
  BY <1>0, CountsAssumption DEF Slots, Inv, TypeInv, RecvType
<1>2. At("in_desc", "own", b, 1, b, t)
  BY <1>1, IsInDesc DEF AtInDesc
<1>3. /\ t \in slots_to_send[b] => "in_desc" \in After
      /\ t \in slots_in_prog[b] <=> "in_desc" \in {"in_desc", "held"}
  BY <1>1, <1>2, SetsOf, Zenon
<1>4. /\ in_desc_r' = [in_desc_r EXCEPT ![b] = <<>>] /\ held' = [held EXCEPT ![b] = @ \cup {t}]
      /\ UNCHANGED <<enabled_cores, income_cores, free, pkt_done_fifo, pkt_to_core_fifo,
                      arb_in, arb_out, last_selected, ctrl_out_r, reserved, in_net, to_lb,
                      booted, recvd_data_fifo, slots_in_prog, slots_to_send, slot_errs,
                      send_data_fifo, send_ctrl_fifo, ctrl_s_r, recvd_ctrl_fifo, sending,
                      pkt_sent_fifo, ctrl_m_r>>
  BY <1>1, Zenon DEF read_in_pkt, lbVars, netVars
<1>5. TypeInv'
  <2>1. RecvType'
    BY <1>1, <1>4, NoneQ DEF Inv, TypeInv, RecvType
  <2>. QED  BY <1>4, <2>1, TypeStep, Zenon DEF Inv, lbVars, netVars
<1>6. ASSUME NEW p, NEW k, NEW j
      PROVE  /\ ~At("in_desc", p, k, j, b, t)'
             /\ At("held", p, k, j, b, t)' <=> p = "own" /\ k = b /\ j = t
  <2>1. ~At("held", p, k, j, b, t)
    BY <1>1, <1>2, Elsewhere, Zenon
  <2>2. /\ At("in_desc", p, k, j, b, t)' <=> AtInDesc(p, k, j, b, t)'
        /\ At("held", p, k, j, b, t) <=> AtHeld(p, k, j, b, t)
        /\ At("held", p, k, j, b, t)' <=> AtHeld(p, k, j, b, t)'
    BY IsInDesc, IsHeld, Zenon
  <2>3. /\ ~AtInDesc(p, k, j, b, t)'
        /\ AtHeld(p, k, j, b, t)' <=> AtHeld(p, k, j, b, t) \/ (p = "own" /\ k = b /\ j = t)
    BY <1>1, <1>4, NoneQ, Zenon DEF AtInDesc, AtHeld
  <2>. QED  BY <2>1, <2>2, <2>3, Zenon
<1>7. ASSUME NEW c \in Cores, NEW s \in 0 .. SLOT_COUNT, ~(c = b /\ s = t)
      PROVE  /\ SameSets(c, s)
             /\ \A p, k, j : /\ At("in_desc", p, k, j, c, s)' <=> At("in_desc", p, k, j, c, s)
                             /\ At("held", p, k, j, c, s)' <=> At("held", p, k, j, c, s)
  <2>1. \A p, k, j : /\ At("in_desc", p, k, j, c, s) <=> AtInDesc(p, k, j, c, s)
                     /\ At("in_desc", p, k, j, c, s)' <=> AtInDesc(p, k, j, c, s)'
                     /\ At("held", p, k, j, c, s) <=> AtHeld(p, k, j, c, s)
                     /\ At("held", p, k, j, c, s)' <=> AtHeld(p, k, j, c, s)'
    BY IsInDesc, IsHeld, Zenon
  <2>2. /\ \A p, k, j : AtInDesc(p, k, j, c, s)' <=> AtInDesc(p, k, j, c, s)
        /\ \A p, k, j : AtHeld(p, k, j, c, s)' <=> AtHeld(p, k, j, c, s)
    BY <1>1, <1>4, <1>7, NoneQ, Zenon DEF AtInDesc, AtHeld
  <2>3. SameSets(c, s)
    BY <1>1, <1>4, <1>7, Zenon DEF SameSets, Inv, TypeInv, RecvType
  <2>. QED  BY <2>1, <2>2, <2>3, Zenon
<1>8. /\ t \in slots_to_send'[b] => "held" \in After
      /\ t \in slots_in_prog'[b] <=> "held" \in {"in_desc", "held"}
  BY <1>1, <1>3, <1>4, Zenon DEF After, Inv, TypeInv, RecvType
<1>9. (\A z : z \notin {"in_desc", "held"} => Still(z)) /\ "in_desc" # "held"
  BY <1>4, Zenon DEF Still
<1> HIDE DEF f
<1>10. Leap("in_desc", "held", "own", b, t, b, t)
  BY <1>2, <1>6, <1>7, <1>8, <1>9, Zenon DEF Leap
<1>. QED  BY <1>1, <1>4, <1>5, <1>9, <1>10, LeapStep, Zenon

LEMMA PktSendStep ==
  ASSUME Inv, NEW b \in Cores, NEW t \in Slots, pkt_send(b, t), UNCHANGED <<lbVars, netVars>>
  PROVE  Inv'
<1> DEFINE g == send_data_fifo[b]
           n == Len(send_data_fifo[b]) + 1
           h == [cmd |-> "send", slot |-> t, desc |-> NoDesc]
<1>1. /\ t \in 0 .. SLOT_COUNT /\ h.slot = t /\ held \in [Cores -> SUBSET Slots]
      /\ send_data_fifo \in [Cores -> Seq(SendOrders)]
      /\ Append(g, h) \in Seq(SendOrders) /\ Len(Append(g, h)) = Len(g) + 1 /\ Len(g) \in Nat
      /\ \A j : j \in DOMAIN Append(g, h) <=> j \in DOMAIN g \/ j = Len(g) + 1
      /\ Len(g) + 1 \notin DOMAIN g
      /\ \A j \in DOMAIN g : Append(g, h)[j] = g[j]
      /\ Append(g, h)[Len(g) + 1] = h
  <2>1. /\ h \in SendOrders /\ t \in 0 .. SLOT_COUNT /\ h.slot = t
    BY CountsAssumption DEF SendOrders, Orders, AnyDescs, NoDesc, Cores, Slots
  <2>2. g \in Seq(SendOrders) /\ send_data_fifo \in [Cores -> Seq(SendOrders)] /\ held \in [Cores -> SUBSET Slots]
    BY Zenon DEF Inv, TypeInv, SendType, RecvType
  <2> HIDE DEF g, h
  <2>. QED  BY <2>1, <2>2, AppendQ, Zenon
<1>2. At("held", "own", b, t, b, t)
  BY <1>1, IsHeld, Zenon DEF pkt_send, AtHeld
<1>3. /\ t \in slots_to_send[b] => "held" \in After
      /\ t \in slots_in_prog[b] <=> "held" \in {"in_desc", "held"}
  BY <1>1, <1>2, SetsOf, Zenon
<1>4. /\ held' = [held EXCEPT ![b] = @ \ {t}]
      /\ send_data_fifo' = [send_data_fifo EXCEPT ![b] = Append(g, h)]
      /\ slots_in_prog' = [slots_in_prog EXCEPT ![b] = @ \ {t}]
      /\ slots_to_send' = [slots_to_send EXCEPT ![b] = @ \cup {t}] /\ slot_errs' = slot_errs
      /\ UNCHANGED <<enabled_cores, income_cores, free, pkt_done_fifo, pkt_to_core_fifo,
                      arb_in, arb_out, last_selected, ctrl_out_r, reserved, in_net, to_lb,
                      booted, recvd_data_fifo, in_desc_r, slot_errs, send_ctrl_fifo,
                      ctrl_s_r, recvd_ctrl_fifo, sending, pkt_sent_fifo, ctrl_m_r>>
  <2>1. t \in slots_in_prog[b] /\ t \notin slots_to_send[b]
    BY <1>3, Zenon DEF After
  <2>2. slot_errs' = [slot_errs EXCEPT ![b] = @ \cup {} \cup {}]
    BY <2>1, Zenon DEF pkt_send, DoneWithSlot
  <2>3. slot_errs' = slot_errs
    BY <2>2, Zenon DEF Inv, TypeInv, RecvType
  <2>. QED  BY <2>3, Zenon DEF pkt_send, DoneWithSlot, lbVars, netVars
<1>5. TypeInv'
  <2>1. RecvType'
    BY <1>4, ZenonT(30) DEF Inv, TypeInv, RecvType
  <2>2. SendType'
    <3>1. Len(g) < SEND_DESC_DEPTH
      BY Zenon DEF pkt_send
    <3> HIDE DEF h
    <3>. QED  BY <1>1, <1>4, <3>1, DepthAssumption DEF Inv, TypeInv, SendType, g
  <2>. QED  BY <1>4, <2>1, <2>2, TypeStep, Zenon DEF Inv, lbVars, netVars
<1>6. ASSUME NEW p, NEW k, NEW j
      PROVE  /\ ~At("held", p, k, j, b, t)'
             /\ At("send_data", p, k, j, b, t)' <=> p = "own" /\ k = b /\ j = n
  <2>1. ~At("send_data", p, k, j, b, t)
    BY <1>1, <1>2, Elsewhere, Zenon
  <2>2. /\ At("held", p, k, j, b, t)' <=> AtHeld(p, k, j, b, t)'
        /\ At("send_data", p, k, j, b, t) <=> AtSendData(p, k, j, b, t)
        /\ At("send_data", p, k, j, b, t)' <=> AtSendData(p, k, j, b, t)'
    BY IsHeld, IsSendData, Zenon
  <2>3. /\ ~AtHeld(p, k, j, b, t)'
        /\ AtSendData(p, k, j, b, t)' <=> AtSendData(p, k, j, b, t) \/ (p = "own" /\ k = b /\ j = n)
    BY <1>1, <1>4, Zenon DEF AtHeld, AtSendData
  <2>. QED  BY <2>1, <2>2, <2>3, Zenon
<1>7. ASSUME NEW c \in Cores, NEW s \in 0 .. SLOT_COUNT, ~(c = b /\ s = t)
      PROVE  /\ SameSets(c, s)
             /\ \A p, k, j : /\ At("held", p, k, j, c, s)' <=> At("held", p, k, j, c, s)
                             /\ At("send_data", p, k, j, c, s)' <=> At("send_data", p, k, j, c, s)
  <2>1. \A p, k, j : /\ At("held", p, k, j, c, s) <=> AtHeld(p, k, j, c, s)
                     /\ At("held", p, k, j, c, s)' <=> AtHeld(p, k, j, c, s)'
                     /\ At("send_data", p, k, j, c, s) <=> AtSendData(p, k, j, c, s)
                     /\ At("send_data", p, k, j, c, s)' <=> AtSendData(p, k, j, c, s)'
    BY IsHeld, IsSendData, Zenon
  <2>2. /\ \A p, k, j : AtHeld(p, k, j, c, s)' <=> AtHeld(p, k, j, c, s)
        /\ \A p, k, j : AtSendData(p, k, j, c, s)' <=> AtSendData(p, k, j, c, s)
    BY <1>1, <1>4, <1>7, Zenon DEF AtHeld, AtSendData
  <2>3. SameSets(c, s)
    BY <1>1, <1>4, <1>7, Zenon DEF SameSets, Inv, TypeInv, RecvType
  <2>. QED  BY <2>1, <2>2, <2>3, Zenon
<1>8. /\ t \in slots_to_send'[b] => "send_data" \in After
      /\ t \in slots_in_prog'[b] <=> "send_data" \in {"in_desc", "held"}
  BY <1>1, <1>3, <1>4, Zenon DEF After, Inv, TypeInv, RecvType
<1>9. (\A z : z \notin {"held", "send_data"} => Still(z)) /\ "held" # "send_data"
  BY <1>4, Zenon DEF Still
<1> HIDE DEF g, n, h
<1>10. Leap("held", "send_data", "own", b, n, b, t)
  BY <1>2, <1>6, <1>7, <1>8, <1>9, Zenon DEF Leap
<1>. QED  BY <1>1, <1>4, <1>5, <1>9, <1>10, LeapStep, Zenon

LEMMA SendCtrlStep ==
  ASSUME Inv, NEW b \in Cores, NEW m \in SendMsgs(b), m.type # 3, SendCtrl(b, m), UNCHANGED <<lbVars, netVars>>
  PROVE  Inv'
<1> DEFINE t == m.slot
           h == m
           g == send_ctrl_fifo[b]
           n == Len(send_ctrl_fifo[b]) + 1
<1>1. /\ t \in Slots /\ t \in 0 .. SLOT_COUNT /\ held \in [Cores -> SUBSET Slots] /\ DOMAIN send_ctrl_fifo = Cores
      /\ HasAsk(h, t) /\ (\A s : HasAsk(h, s) => s = t)
      /\ Append(g, h) \in Seq(SendMsgs(b)) /\ Len(Append(g, h)) = Len(g) + 1 /\ Len(g) \in Nat
      /\ \A j : j \in DOMAIN Append(g, h) <=> j \in DOMAIN g \/ j = Len(g) + 1
      /\ Len(g) + 1 \notin DOMAIN g
      /\ \A j \in DOMAIN g : Append(g, h)[j] = g[j]
      /\ Append(g, h)[Len(g) + 1] = h
  <2>1. t \in Slots /\ t \in 0 .. SLOT_COUNT /\ HasAsk(h, t) /\ (\A s : HasAsk(h, s) => s = t)
    BY CountsAssumption DEF SendMsgs, Msgs, HasAsk, Slots
  <2>2. g \in Seq(SendMsgs(b)) /\ DOMAIN send_ctrl_fifo = Cores /\ held \in [Cores -> SUBSET Slots]
    BY Zenon DEF Inv, TypeInv, SendType, RecvType
  <2> HIDE DEF g, t
  <2>. QED  BY <2>1, <2>2, AppendQ
<1>2. At("held", "own", b, t, b, t)
  BY <1>1, IsHeld, Zenon DEF SendCtrl, AtHeld
<1>3. /\ t \in slots_to_send[b] => "held" \in After
      /\ t \in slots_in_prog[b] <=> "held" \in {"in_desc", "held"}
  BY <1>1, <1>2, SetsOf, Zenon
<1>4. /\ held' = [held EXCEPT ![b] = @ \ {t}]
      /\ send_ctrl_fifo' = [send_ctrl_fifo EXCEPT ![b] = Append(g, h)]
      /\ slots_in_prog' = [slots_in_prog EXCEPT ![b] = @ \ {t}]
      /\ slots_to_send' = [slots_to_send EXCEPT ![b] = @ \cup {t}] /\ slot_errs' = slot_errs
      /\ UNCHANGED <<enabled_cores, income_cores, free, pkt_done_fifo, pkt_to_core_fifo,
                      arb_in, arb_out, last_selected, ctrl_out_r, reserved, in_net, to_lb,
                      booted, recvd_data_fifo, in_desc_r, slot_errs, send_data_fifo,
                      ctrl_s_r, recvd_ctrl_fifo, sending, pkt_sent_fifo, ctrl_m_r>>
  <2>1. t \in slots_in_prog[b] /\ t \notin slots_to_send[b]
    BY <1>3, Zenon DEF After
  <2>2. slot_errs' = [slot_errs EXCEPT ![b] = @ \cup {} \cup {}]
    BY <2>1, Zenon DEF SendCtrl, DoneWithSlot
  <2>3. slot_errs' = slot_errs
    BY <2>2, Zenon DEF Inv, TypeInv, RecvType
  <2>. QED  BY <2>3, Zenon DEF SendCtrl, DoneWithSlot, lbVars, netVars
<1> HIDE DEF t
<1>5. TypeInv'
  <2>1. RecvType'
    BY <1>1, <1>4, Zenon DEF Inv, TypeInv, RecvType
  <2>2. SendType'
    <3>1. Len(g) < SEND_DESC_DEPTH /\ g = send_ctrl_fifo[b]
      BY Zenon DEF SendCtrl
    <3>2. ASSUME NEW c \in Cores
          PROVE  send_ctrl_fifo'[c] \in Seq(SendMsgs(c)) /\ Len(send_ctrl_fifo'[c]) <= SEND_DESC_DEPTH
      <4> HIDE DEF h, g
      <4>1. CASE c = b
        BY <1>1, <1>4, <3>1, <4>1, DepthAssumption
      <4>2. CASE c # b
        BY <1>1, <1>4, <4>2, Zenon DEF Inv, TypeInv, SendType
      <4>. QED  BY <4>1, <4>2, ZenonT(30)
    <3>3. DOMAIN send_ctrl_fifo' = Cores
      BY <1>1, <1>4, Zenon
    <3> HIDE DEF h, g
    <3>. QED  BY <1>4, <3>2, <3>3, Zenon DEF Inv, TypeInv, SendType
  <2>. QED  BY <1>4, <2>1, <2>2, TypeStep, Zenon DEF Inv, lbVars, netVars
<1>6. ASSUME NEW p, NEW k, NEW j
      PROVE  /\ ~At("held", p, k, j, b, t)'
             /\ At("send_ctrl", p, k, j, b, t)' <=> p = "own" /\ k = b /\ j = n
  <2>1. ~At("send_ctrl", p, k, j, b, t)
    BY <1>1, <1>2, Elsewhere, Zenon
  <2>2. /\ At("held", p, k, j, b, t)' <=> AtHeld(p, k, j, b, t)'
        /\ At("send_ctrl", p, k, j, b, t) <=> AtSendCtrl(p, k, j, b, t)
        /\ At("send_ctrl", p, k, j, b, t)' <=> AtSendCtrl(p, k, j, b, t)'
    BY IsHeld, IsSendCtrl, Zenon
  <2>3. /\ ~AtHeld(p, k, j, b, t)'
        /\ AtSendCtrl(p, k, j, b, t)' <=> AtSendCtrl(p, k, j, b, t) \/ (p = "own" /\ k = b /\ j = n)
    BY <1>1, <1>4, Zenon DEF AtHeld, AtSendCtrl
  <2>. QED  BY <2>1, <2>2, <2>3, Zenon
<1>7. ASSUME NEW c \in Cores, NEW s \in 0 .. SLOT_COUNT, ~(c = b /\ s = t)
      PROVE  /\ SameSets(c, s)
             /\ \A p, k, j : /\ At("held", p, k, j, c, s)' <=> At("held", p, k, j, c, s)
                             /\ At("send_ctrl", p, k, j, c, s)' <=> At("send_ctrl", p, k, j, c, s)
  <2>1. \A p, k, j : /\ At("held", p, k, j, c, s) <=> AtHeld(p, k, j, c, s)
                     /\ At("held", p, k, j, c, s)' <=> AtHeld(p, k, j, c, s)'
                     /\ At("send_ctrl", p, k, j, c, s) <=> AtSendCtrl(p, k, j, c, s)
                     /\ At("send_ctrl", p, k, j, c, s)' <=> AtSendCtrl(p, k, j, c, s)'
    BY IsHeld, IsSendCtrl, Zenon
  <2>2. /\ \A p, k, j : AtHeld(p, k, j, c, s)' <=> AtHeld(p, k, j, c, s)
        /\ \A p, k, j : AtSendCtrl(p, k, j, c, s)' <=> AtSendCtrl(p, k, j, c, s)
    BY <1>1, <1>4, <1>7, ZenonT(30) DEF AtHeld, AtSendCtrl
  <2>3. SameSets(c, s)
    BY <1>1, <1>4, <1>7, Zenon DEF SameSets, Inv, TypeInv, RecvType
  <2>. QED  BY <2>1, <2>2, <2>3, Zenon
<1>8. /\ t \in slots_to_send'[b] => "send_ctrl" \in After
      /\ t \in slots_in_prog'[b] <=> "send_ctrl" \in {"in_desc", "held"}
  BY <1>1, <1>3, <1>4, Zenon DEF After, Inv, TypeInv, RecvType
<1>9. (\A z : z \notin {"held", "send_ctrl"} => Still(z)) /\ "held" # "send_ctrl"
  BY <1>4, Zenon DEF Still
<1> HIDE DEF t, h, g, n
<1>10. Leap("held", "send_ctrl", "own", b, n, b, t)
  BY <1>2, <1>6, <1>7, <1>8, <1>9, ZenonT(30) DEF Leap
<1>. QED  BY <1>1, <1>4, <1>5, <1>9, <1>10, LeapStep, ZenonT(30)

LEMMA ReportSentStep ==
  ASSUME Inv, NEW b \in Cores, ReportSent(b), UNCHANGED <<lbVars, netVars>>
  PROVE  Inv'
<1> DEFINE f == pkt_sent_fifo[b]
<1>a. PICK t \in Slots : t = Head(f)
  BY DEF ReportSent, Inv, TypeInv, SendType
<1> DEFINE h == [type |-> 0, slot |-> t, dest |-> 0]
<1>1. /\ t \in Slots /\ t \in 0 .. SLOT_COUNT /\ ctrl_m_r[b] = <<>> /\ DOMAIN ctrl_m_r = Cores
      /\ pkt_sent_fifo \in [Cores -> Seq(Slots)] /\ slots_to_send \in [Cores -> SUBSET Slots]
      /\ h \in Msgs(b) /\ (\A p, s : HasMsg(h, p, s) <=> p = "done" /\ s = t)
      /\ <<h>> \in Seq(Msgs(b)) /\ Len(<<h>>) = 1 /\ <<h>>[1] = h /\ <<h>> # <<>>
      /\ (\A i : i \in DOMAIN <<h>> <=> i = 1) /\ (\A i : i \notin DOMAIN <<>>) /\ t = Head(f)
      /\ Tail(f) \in Seq(Slots) /\ Len(Tail(f)) = Len(f) - 1 /\ Len(f) \in Nat
      /\ Head(f) = f[1] /\ Head(f) \in Slots /\ 1 \in DOMAIN f
      /\ \A i : i \in DOMAIN Tail(f) <=> i \in Nat \ {0} /\ i + 1 \in DOMAIN f
      /\ \A i \in DOMAIN Tail(f) : Tail(f)[i] = f[i + 1]
      /\ \A i \in DOMAIN f : i \in Nat \ {0}
  <2>1. /\ f \in Seq(Slots) /\ f # <<>> /\ ctrl_m_r[b] = <<>> /\ DOMAIN ctrl_m_r = Cores
        /\ pkt_sent_fifo \in [Cores -> Seq(Slots)] /\ slots_to_send \in [Cores -> SUBSET Slots]
    BY Zenon DEF ReportSent, Inv, TypeInv, SendType, RecvType
  <2>2. h \in Msgs(b) /\ h.type = 0 /\ h.slot = t /\ t \in 0 .. SLOT_COUNT
    BY CountsAssumption DEF Msgs, Cores, Slots
  <2>3. \A p, s : HasMsg(h, p, s) <=> p = "done" /\ s = t
    BY <2>2, Zenon DEF HasMsg, HasDone, HasAsk
  <2> HIDE DEF h, f
  <2>4. <<h>> \in Seq(Msgs(b)) /\ Len(<<h>>) = 1 /\ <<h>>[1] = h /\ <<h>> # <<>>
        /\ \A i : i \in DOMAIN <<h>> <=> i = 1
    BY <2>2, OneQ, Zenon
  <2>5. \A i : i \notin DOMAIN <<>>
    BY NoneQ, Zenon
  <2>6. /\ Tail(f) \in Seq(Slots) /\ Len(Tail(f)) = Len(f) - 1 /\ Len(f) \in Nat
        /\ Head(f) = f[1] /\ Head(f) \in Slots /\ 1 \in DOMAIN f
        /\ \A i : i \in DOMAIN Tail(f) <=> i \in Nat \ {0} /\ i + 1 \in DOMAIN f
        /\ \A i \in DOMAIN Tail(f) : Tail(f)[i] = f[i + 1]
        /\ \A i \in DOMAIN f : i \in Nat \ {0}
    BY <2>1, TailQ, ZenonT(30)
  <2>. QED  BY <1>a, <2>1, <2>2, <2>3, <2>4, <2>5, <2>6, Zenon
<1>2. At("pkt_sent", "own", b, 1, b, t)
  BY <1>1, IsSent DEF AtSent
<1>3. /\ t \in slots_to_send[b] => "own" = "own" /\ "pkt_sent" \in After
      /\ t \in slots_in_prog[b] <=> "pkt_sent" \in {"in_desc", "held"}
  BY <1>1, <1>2, SetsOf, Zenon
<1>4. /\ pkt_sent_fifo' = [pkt_sent_fifo EXCEPT ![b] = Tail(f)] /\ ctrl_m_r' = [ctrl_m_r EXCEPT ![b] = <<h>>]
      /\ slots_to_send' = [slots_to_send EXCEPT ![b] = @ \ {t}]
      /\ UNCHANGED <<enabled_cores, income_cores, free, pkt_done_fifo, pkt_to_core_fifo,
                      arb_in, arb_out, last_selected, ctrl_out_r, reserved, in_net, to_lb,
                      booted, held, recvd_data_fifo, in_desc_r, slots_in_prog, slot_errs,
                      send_data_fifo, send_ctrl_fifo, ctrl_s_r, recvd_ctrl_fifo, sending>>
  BY <1>1, Zenon DEF ReportSent, lbVars, netVars
<1> HIDE DEF h
<1>5. TypeInv'
  <2>1. RecvType'
    BY <1>1, <1>4, Zenon DEF Inv, TypeInv, RecvType
  <2>2. SendType'
    <3>1. ASSUME NEW c \in Cores
          PROVE  /\ ctrl_m_r'[c] \in Seq(Msgs(c)) /\ Len(ctrl_m_r'[c]) <= 1
                 /\ Len(pkt_sent_fifo'[c]) <= Len(pkt_sent_fifo[c]) /\ Len(pkt_sent_fifo'[c]) \in Nat
                 /\ Len(pkt_sent_fifo[c]) \in Nat
      <4>1. /\ ctrl_m_r'[c] \in Seq(Msgs(c)) /\ Len(ctrl_m_r'[c]) <= 1
            /\ pkt_sent_fifo'[c] = IF c = b THEN Tail(f) ELSE pkt_sent_fifo[c]
            /\ pkt_sent_fifo[c] \in Seq(Slots)
        <5>1. CASE c = b
          <6>1. ctrl_m_r'[c] = <<h>> /\ pkt_sent_fifo'[c] = Tail(f)
            BY <1>1, <1>4, <5>1, Zenon
          <6>2. 1 <= 1
            OBVIOUS
          <6>. QED  BY <1>1, <5>1, <6>1, <6>2, Zenon
        <5>2. CASE c # b
          <6>1. ctrl_m_r'[c] = ctrl_m_r[c] /\ pkt_sent_fifo'[c] = pkt_sent_fifo[c]
            BY <1>1, <1>4, <5>2, Zenon
          <6>. QED  BY <5>2, <6>1, Zenon DEF Inv, TypeInv, SendType
        <5>. QED  BY <5>1, <5>2, Zenon
      <4>2. Len(Tail(f)) = Len(f) - 1 /\ Len(f) \in Nat /\ Tail(f) \in Seq(Slots)
        BY <1>1, Zenon
      <4>. QED  BY <4>1, <4>2
    <3>2. pkt_sent_fifo' \in [Cores -> Seq(Slots)] /\ DOMAIN ctrl_m_r' = Cores
      BY <1>1, <1>4, ZenonT(30)
    <3>3. ASSUME NEW c \in Cores
          PROVE  /\ Len(pkt_sent_fifo'[c]) <= SEND_DESC_DEPTH
                 /\ sending[c] # <<>> => Len(pkt_sent_fifo'[c]) < SEND_DESC_DEPTH
      <4>1. /\ Len(pkt_sent_fifo[c]) <= SEND_DESC_DEPTH
            /\ sending[c] # <<>> => Len(pkt_sent_fifo[c]) < SEND_DESC_DEPTH
        BY ZenonT(30) DEF Inv, TypeInv, SendType
      <4>. QED  BY <3>1, <4>1, DepthAssumption
    <3>. QED  BY <1>4, <3>1, <3>2, <3>3, ZenonT(30) DEF Inv, TypeInv, SendType
  <2>. QED  BY <1>4, <2>1, <2>2, TypeStep, Zenon DEF Inv, lbVars, netVars
<1>6. ASSUME NEW p, NEW k, NEW j
      PROVE  /\ ~At("pkt_sent", p, k, j, b, t)'
             /\ At("ctrl_m", p, k, j, b, t)' <=> p = "done" /\ k = b /\ j = 1
  <2>1. \A z, o, l, a : At(z, o, l, a, b, t) => z = "pkt_sent" /\ l = b /\ a = 1
    <3>1. t \in 0 .. SLOT_COUNT
      BY <1>1, Zenon
    <3>. QED  BY <1>2, <3>1, Elsewhere
  <2>2. \A a : /\ At("pkt_sent", p, b, a, b, t) <=> AtSent(p, b, a, b, t)
               /\ At("pkt_sent", p, k, j, b, t) <=> AtSent(p, k, j, b, t)
               /\ At("pkt_sent", p, k, j, b, t)' <=> AtSent(p, k, j, b, t)'
               /\ At("ctrl_m", p, k, j, b, t) <=> AtCtrlM(p, k, j, b, t)
               /\ At("ctrl_m", p, k, j, b, t)' <=> AtCtrlM(p, k, j, b, t)'
    BY IsSent, IsCtrlM, Zenon
  <2>3. AtSent(p, k, j, b, t)' => \/ k = b /\ j \in Nat \ {0} /\ AtSent(p, b, j + 1, b, t)
                                  \/ k # b /\ AtSent(p, k, j, b, t)
    BY <1>1, <1>4, Zenon DEF AtSent
  <2>4. j \in Nat \ {0} => j + 1 # 1
    OBVIOUS
  <2>5. AtCtrlM(p, k, j, b, t)' <=> AtCtrlM(p, k, j, b, t) \/ (p = "done" /\ k = b /\ j = 1)
    BY <1>1, <1>4, Zenon DEF AtCtrlM
  <2>. QED  BY <2>1, <2>2, <2>3, <2>4, <2>5
<1>7. ASSUME NEW c \in Cores, NEW s \in 0 .. SLOT_COUNT, ~(c = b /\ s = t)
      PROVE  /\ SameSets(c, s)
             /\ \A p, k, j :
                  /\ At("pkt_sent", p, b, j, c, s) => j \in Nat \ {0} /\ j # 1
                  /\ At("pkt_sent", p, k, j, c, s)' <=>
                       \/ k = b /\ j \in Nat \ {0} /\ At("pkt_sent", p, b, j + 1, c, s)
                       \/ k # b /\ At("pkt_sent", p, k, j, c, s)
                  /\ At("ctrl_m", p, k, j, c, s)' <=> At("ctrl_m", p, k, j, c, s)
  <2>1. \A p, k, j : /\ At("pkt_sent", p, k, j, c, s) <=> AtSent(p, k, j, c, s)
                     /\ At("pkt_sent", p, k, j, c, s)' <=> AtSent(p, k, j, c, s)'
                     /\ At("ctrl_m", p, k, j, c, s) <=> AtCtrlM(p, k, j, c, s)
                     /\ At("ctrl_m", p, k, j, c, s)' <=> AtCtrlM(p, k, j, c, s)'
    BY IsSent, IsCtrlM, Zenon
  <2>2. \A p, j : AtSent(p, b, j, c, s) => j \in Nat \ {0} /\ j # 1
    BY <1>1, <1>7, ZenonT(30) DEF AtSent
  <2>3. /\ \A p, k, j : AtSent(p, k, j, c, s)' <=>
             \/ k = b /\ j \in Nat \ {0} /\ AtSent(p, b, j + 1, c, s)
             \/ k # b /\ AtSent(p, k, j, c, s)
        /\ \A p, k, j : AtCtrlM(p, k, j, c, s)' <=> AtCtrlM(p, k, j, c, s)
    BY <1>1, <1>4, <1>7 DEF AtSent, AtCtrlM
  <2>4. SameSets(c, s)
    BY <1>1, <1>4, <1>7, Zenon DEF SameSets, Inv, TypeInv, RecvType
  <2>. QED  BY <2>1, <2>2, <2>3, <2>4, ZenonT(30)
<1>8. /\ t \in slots_to_send'[b] => "done" = "own" /\ "ctrl_m" \in After
      /\ t \in slots_in_prog'[b] <=> "ctrl_m" \in {"in_desc", "held"}
  BY <1>1, <1>3, <1>4, Zenon DEF After, Inv, TypeInv, RecvType
<1>9. /\ \A z : z \notin {"pkt_sent", "ctrl_m"} => Still(z)
      /\ "pkt_sent" # "ctrl_m" /\ "pkt_sent" \notin {"in_desc", "held"}
  BY <1>4, Zenon DEF Still
<1> HIDE DEF f
<1>10. Hop("pkt_sent", b, "ctrl_m", "done", b, 1, b, t)
  BY <1>2, <1>6, <1>7, <1>8, <1>9, ZenonT(30) DEF Hop
<1>. QED  BY <1>1, <1>4, <1>5, <1>9, <1>10, HopStep, ZenonT(30)

(* The initialisation message of a core.                                   *)
LEMMA InitSlotsStep ==
  ASSUME Inv, NEW b \in Cores, InitSlots(b), UNCHANGED <<lbVars, netVars>>
  PROVE  Inv'
<1> DEFINE g == send_ctrl_fifo[b]
           h == [type |-> 3, slot |-> SLOT_COUNT, dest |-> 0]
           n == Len(send_ctrl_fifo[b]) + 1
<1>1. /\ g \in Seq(SendMsgs(b)) /\ Len(g) < SEND_DESC_DEPTH /\ DOMAIN send_ctrl_fifo = Cores /\ b \notin booted
  BY ZenonT(30) DEF Inv, TypeInv, SendType, InitSlots
<1>2. h \in SendMsgs(b) /\ \A s : HasAsk(h, s) <=> s = 0
  BY CountsAssumption DEF SendMsgs, Msgs, HasAsk, Slots, Cores
<1>3. /\ send_ctrl_fifo' = [send_ctrl_fifo EXCEPT ![b] = Append(g, h)] /\ booted' = booted \cup {b}
      /\ UNCHANGED <<enabled_cores, income_cores, free, pkt_done_fifo, pkt_to_core_fifo,
                      arb_in, arb_out, last_selected, ctrl_out_r, reserved, in_net, to_lb,
                      held, recvd_data_fifo, in_desc_r, slots_in_prog, slots_to_send,
                      slot_errs, send_data_fifo, ctrl_s_r, recvd_ctrl_fifo, sending,
                      pkt_sent_fifo, ctrl_m_r>>
  BY Zenon DEF InitSlots, lbVars, netVars
<1> HIDE DEF h
<1>4. /\ Append(g, h) \in Seq(SendMsgs(b)) /\ Len(Append(g, h)) = Len(g) + 1 /\ Len(g) \in Nat
      /\ \A i : i \in DOMAIN Append(g, h) <=> i \in DOMAIN g \/ i = Len(g) + 1
      /\ Len(g) + 1 \notin DOMAIN g
      /\ \A i \in DOMAIN g : Append(g, h)[i] = g[i]
      /\ Append(g, h)[Len(g) + 1] = h
  <2> HIDE DEF g
  <2>. QED  BY <1>1, <1>2, AppendQ, Zenon
<1>5. TypeInv'
  <2>1. RecvType'
    BY <1>3, Zenon DEF Inv, TypeInv, RecvType
  <2>2. SendType'
    <3>1. ASSUME NEW c \in Cores
          PROVE  send_ctrl_fifo'[c] \in Seq(SendMsgs(c)) /\ Len(send_ctrl_fifo'[c]) <= SEND_DESC_DEPTH
      <4>1. CASE c = b
        BY <1>1, <1>3, <1>4, <4>1, DepthAssumption
      <4>2. CASE c # b
        BY <1>1, <1>3, <4>2, Zenon DEF Inv, TypeInv, SendType
      <4>. QED  BY <4>1, <4>2, ZenonT(30)
    <3>2. DOMAIN send_ctrl_fifo' = Cores
      BY <1>1, <1>3, Zenon
    <3>. QED  BY <1>3, <3>1, <3>2, Zenon DEF Inv, TypeInv, SendType
  <2>. QED  BY <1>3, <2>1, <2>2, TypeStep, ZenonT(30) DEF Inv, lbVars, netVars
<1>6. ASSUME NEW c \in Cores, NEW s, NEW z, NEW r, NEW k, NEW i
      PROVE  At(z, r, k, i, c, s)' <=>
               \/ At(z, r, k, i, c, s)
               \/ c = b /\ s = 0 /\ z = "send_ctrl" /\ r = "own" /\ k = b /\ i = n
  <2>1. z # "send_ctrl" => (At(z, r, k, i, c, s)' <=> At(z, r, k, i, c, s))
    BY <1>3, StillAt, Zenon DEF Still
  <2>2. AtSendCtrl(r, k, i, c, s)' <=> \/ AtSendCtrl(r, k, i, c, s)
                                       \/ c = b /\ s = 0 /\ r = "own" /\ k = b /\ i = n
    BY <1>1, <1>2, <1>3, <1>4, Zenon DEF AtSendCtrl
  <2>3. /\ At("send_ctrl", r, k, i, c, s) <=> AtSendCtrl(r, k, i, c, s)
        /\ At("send_ctrl", r, k, i, c, s)' <=> AtSendCtrl(r, k, i, c, s)'
    BY IsSendCtrl, Zenon
  <2>. QED  BY <2>1, <2>2, <2>3, Zenon
<1> HIDE DEF g, n
<1>7. Starting(b)'
  <2>1. Off(b)
    BY <1>1, Zenon DEF Inv, Starting, Running
  <2>2. Once(b, 0)'
    BY <1>6, <2>1 DEF Once, Nowhere, Off
  <2>3. 0 \notin Slots
    BY CountsAssumption DEF Slots
  <2>4. Unused(b)'
    BY <1>3, <1>6, <2>1, <2>3, ZenonT(30) DEF Unused, Nowhere, Off
  <2>. QED  BY <1>3, <2>2, <2>4, Zenon DEF Starting
<1>8. ASSUME NEW c \in Cores, NEW s, ~(c = b /\ s = 0)
      PROVE  Kept(c, s)
  <2>1. Stays(c, s)
    BY <1>6, <1>8, Zenon DEF Stays
  <2>2. SameSets(c, s)
    BY <1>3, Zenon DEF SameSets
  <2>. QED  BY <2>1, <2>2, StayKeeps, Zenon
<1>9. ASSUME NEW c \in Cores, c # b
      PROVE  Off(c)' \/ Starting(c)' \/ Running(c)'
  <2>1. Off(c) \/ Starting(c) \/ Running(c)
    BY Zenon DEF Inv
  <2>2. \A s : /\ Nowhere(c, s) => Nowhere(c, s)' /\ (s \in slots_to_send'[c] => s \in slots_to_send[c])
               /\ Once(c, s) => Once(c, s)'
    BY <1>8, <1>9, Zenon DEF Kept
  <2>3. c \in booted' <=> c \in booted
    BY <1>3, <1>9, Zenon
  <2>. QED  BY <2>1, <2>2, <2>3, Zenon DEF Off, Starting, Running, Unused
<1>10. ASSUME NEW c \in Cores, NEW s \in Slots
       PROVE  ToSend(c, s)' /\ InProg(c, s)'
  <2>1. s # 0
    BY CountsAssumption DEF Slots
  <2>2. Kept(c, s) /\ ToSend(c, s) /\ InProg(c, s)
    BY <1>8, <2>1 DEF Inv
  <2>. QED  BY <2>2, Zenon DEF Kept
<1>. QED  BY <1>5, <1>7, <1>9, <1>10, Zenon DEF Inv
=============================================================================
