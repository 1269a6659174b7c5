---------------------------- MODULE SlotLbSteps -----------------------------
(***************************************************************************)
(* The steps of the load balancer, of the network and of the host keep the *)
(* slot loop's invariant.                                                  *)
(***************************************************************************)
EXTENDS SlotRpuSteps

LEMMA SelectToCoreStep ==
  ASSUME Inv, SelectToCore, UNCHANGED <<rpuVars, netVars>>
  PROVE  Inv'
<1> DEFINE f == arb_out
           h == Head(arb_out)
           lb == 0
<1>1. /\ f \in Seq(Answers) /\ f # <<>>
      /\ ctrl_out_r = <<>>
  BY Zenon DEF Inv, TypeInv, LbType, SelectToCore
<1>2. /\ Tail(f) \in Seq(Answers) /\ Len(Tail(f)) = Len(f) - 1 /\ Len(f) \in Nat
      /\ Head(f) = f[1] /\ Head(f) \in Answers /\ 1 \in DOMAIN f
      /\ \A i : i \in DOMAIN Tail(f) <=> i \in Nat \ {0} /\ i + 1 \in DOMAIN f
      /\ \A i \in DOMAIN Tail(f) : Tail(f)[i] = f[i + 1]
      /\ \A i \in DOMAIN f : i \in Nat \ {0}
  BY <1>1, TailQ, Zenon
<1>3. h \in Answers /\ h = Head(f)
  BY <1>2, Zenon
<1>4. /\ arb_out' = Tail(f) /\ ctrl_out_r' = <<h>> /\ last_selected' = 1
      /\ UNCHANGED <<enabled_cores, income_cores, free, pkt_done_fifo, pkt_to_core_fifo,
                      arb_in, reserved, in_net, to_lb, booted, held, recvd_data_fifo,
                      in_desc_r, slots_in_prog, slots_to_send, slot_errs, send_data_fifo,
                      send_ctrl_fifo, ctrl_s_r, recvd_ctrl_fifo, sending, pkt_sent_fifo,
                      ctrl_m_r>>
  BY <1>1, <1>2, Zenon DEF SelectToCore, rpuVars, netVars
<1> HIDE DEF h
<1>5. /\ <<h>> \in Seq(Answers) /\ Len(<<h>>) = 1 /\ <<h>>[1] = h /\ <<h>> # <<>>
      /\ \A i : i \in DOMAIN <<h>> <=> i = 1
  BY <1>3, OneQ, Zenon
<1>6. TypeInv'
  <2>1. LbType'
    <3> HIDE DEF f
    <3>. QED  BY <1>1, <1>2, <1>3, <1>4, <1>5, DepthAssumption DEF Inv, TypeInv, LbType, f
  <2>. QED  BY <1>4, <2>1, TypeStep, Zenon DEF Inv, lbVars, netVars
<1>7. ASSUME NEW c \in Cores, NEW s \in 0 .. SLOT_COUNT, NEW r, NEW k, NEW i
      PROVE  /\ At("arb_out", r, lb, i, c, s) => i \in Nat \ {0}
             /\ At("arb_out", r, k, i, c, s)' <=>
                  \/ k = lb /\ i \in Nat \ {0} /\ At("arb_out", r, lb, i + 1, c, s)
                  \/ k # lb /\ At("arb_out", r, k, i, c, s)
             /\ At("ctrl_out", r, k, i, c, s)' <=>
                  \/ k = lb /\ i = 1 /\ At("arb_out", r, lb, 1, c, s)
                  \/ At("ctrl_out", r, k, i, c, s)
  <2>1. \A j, l : /\ At("arb_out", r, j, l, c, s) <=> AtArbOut(r, j, l, c, s)
                  /\ At("arb_out", r, j, l, c, s)' <=> AtArbOut(r, j, l, c, s)'
                  /\ At("ctrl_out", r, j, l, c, s) <=> AtCtrlOut(r, j, l, c, s)
                  /\ At("ctrl_out", r, j, l, c, s)' <=> AtCtrlOut(r, j, l, c, s)'
    BY IsArbOut, IsCtrlOut, Zenon
  <2>2. /\ AtArbOut(r, lb, i, c, s) => i \in Nat \ {0}
        /\ AtArbOut(r, k, i, c, s)' <=>
             \/ k = lb /\ i \in Nat \ {0} /\ AtArbOut(r, lb, i + 1, c, s)
             \/ k # lb /\ AtArbOut(r, k, i, c, s)
        /\ AtCtrlOut(r, k, i, c, s)' <=>
             \/ k = lb /\ i = 1 /\ AtArbOut(r, lb, 1, c, s)
             \/ AtCtrlOut(r, k, i, c, s)
    BY <1>1, <1>2, <1>3, <1>4, <1>5, NoneQ, Zenon DEF AtArbOut, AtCtrlOut
  <2>. QED  BY <2>1, <2>2, Zenon
<1>8. /\ \A z : z \notin {"arb_out", "ctrl_out"} => Still(z)
      /\ "ctrl_out" \in After /\ "arb_out" \notin {"in_desc", "held"} /\ "arb_out" # "ctrl_out"
  BY <1>4, Zenon DEF Still, After
<1> HIDE DEF f, lb
<1>9. Shift("arb_out", lb, "ctrl_out", lb, 1)
  BY <1>7, <1>8, Zenon DEF Shift
<1>. QED  BY <1>4, <1>6, <1>8, <1>9, ShiftStep, Zenon

LEMMA ArbGrantStep ==
  ASSUME Inv, NEW b \in Cores, ArbGrant(b), UNCHANGED <<rpuVars, netVars>>
  PROVE  Inv'
<1> DEFINE f == arb_in[b]
           h == Head(arb_in[b])
           g == arb_out
           n == Len(arb_out) + 1
           lb == 0
<1>1. /\ f \in Seq(Answers) /\ f # <<>> /\ Len(f) <= 1 /\ g \in Seq(Answers)
      /\ arb_in \in [Cores -> Seq(Answers)] /\ Len(g) < ARB_OUT_DEPTH
  BY Zenon DEF Inv, TypeInv, LbType, ArbGrant
<1>2. /\ Head(f) = f[1] /\ Head(f) \in Answers /\ Len(f) = 1
      /\ \A i : i \in DOMAIN f <=> i = 1
  BY <1>1, RegQ, Zenon
<1>3. h \in Answers /\ h = Head(f)
  BY <1>2, Zenon
<1>4. /\ arb_in' = [arb_in EXCEPT ![b] = <<>>] /\ arb_out' = Append(g, h)
      /\ UNCHANGED <<enabled_cores, income_cores, free, pkt_done_fifo, pkt_to_core_fifo,
                      last_selected, ctrl_out_r, reserved, in_net, to_lb, booted, held,
                      recvd_data_fifo, in_desc_r, slots_in_prog, slots_to_send, slot_errs,
                      send_data_fifo, send_ctrl_fifo, ctrl_s_r, recvd_ctrl_fifo, sending,
                      pkt_sent_fifo, ctrl_m_r>>
  BY <1>1, <1>2, ConcatQ, Zenon DEF ArbGrant, rpuVars, netVars
<1> HIDE DEF h
<1>5. /\ Append(g, h) \in Seq(Answers) /\ Len(Append(g, h)) = Len(g) + 1 /\ Len(g) \in Nat
      /\ \A i : i \in DOMAIN Append(g, h) <=> i \in DOMAIN g \/ i = Len(g) + 1
      /\ Len(g) + 1 \notin DOMAIN g
      /\ \A i \in DOMAIN g : Append(g, h)[i] = g[i]
      /\ Append(g, h)[Len(g) + 1] = h
  <2> HIDE DEF f, g
  <2>. QED  BY <1>1, <1>3, AppendQ, ZenonT(30)
<1>6. TypeInv'
  <2>1. LbType'
    <3> HIDE DEF f, g
    <3>. QED  BY <1>1, <1>2, <1>3, <1>4, <1>5, DepthAssumption
                 DEF Inv, TypeInv, LbType, f, g
  <2>. QED  BY <1>4, <2>1, TypeStep, Zenon DEF Inv, lbVars, netVars
<1>7. ASSUME NEW c \in Cores, NEW s \in 0 .. SLOT_COUNT, NEW r, NEW k, NEW i
      PROVE  /\ At("arb_in", r, b, i, c, s) => i \in Nat \ {0}
             /\ At("arb_in", r, k, i, c, s)' <=>
                  \/ k = b /\ i \in Nat \ {0} /\ At("arb_in", r, b, i + 1, c, s)
                  \/ k # b /\ At("arb_in", r, k, i, c, s)
             /\ At("arb_out", r, k, i, c, s)' <=>
                  \/ k = lb /\ i = n /\ At("arb_in", r, b, 1, c, s)
                  \/ At("arb_out", r, k, i, c, s)
  <2>1. \A j, l : /\ At("arb_in", r, j, l, c, s) <=> AtArbIn(r, j, l, c, s)
                  /\ At("arb_in", r, j, l, c, s)' <=> AtArbIn(r, j, l, c, s)'
                  /\ At("arb_out", r, j, l, c, s) <=> AtArbOut(r, j, l, c, s)
                  /\ At("arb_out", r, j, l, c, s)' <=> AtArbOut(r, j, l, c, s)'
    BY IsArbIn, IsArbOut, Zenon
  <2>2. /\ AtArbIn(r, b, i, c, s) => i \in Nat \ {0}
        /\ AtArbIn(r, k, i, c, s)' <=>
             \/ k = b /\ i \in Nat \ {0} /\ AtArbIn(r, b, i + 1, c, s)
             \/ k # b /\ AtArbIn(r, k, i, c, s)
        /\ AtArbOut(r, k, i, c, s)' <=>
             \/ k = lb /\ i = n /\ AtArbIn(r, b, 1, c, s)
             \/ AtArbOut(r, k, i, c, s)
    BY <1>1, <1>2, <1>3, <1>4, <1>5, NoneQ DEF AtArbIn, AtArbOut
  <2>. QED  BY <2>1, <2>2, Zenon
<1>8. /\ \A z : z \notin {"arb_in", "arb_out"} => Still(z)
      /\ "arb_out" \in After /\ "arb_in" \notin {"in_desc", "held"} /\ "arb_in" # "arb_out"
  BY <1>4, Zenon DEF Still, After
<1> HIDE DEF f, g, n, lb
<1>9. Shift("arb_in", b, "arb_out", lb, n)
  BY <1>7, <1>8, Zenon DEF Shift
<1>. QED  BY <1>4, <1>6, <1>8, <1>9, ShiftStep, Zenon

LEMMA SelectPktDoneStep ==
  ASSUME Inv, SelectPktDone, UNCHANGED <<rpuVars, netVars>>
  PROVE  Inv'
<1> DEFINE f == pkt_done_fifo
           h == [core |-> Head(pkt_done_fifo).src, cmd |-> "send", slot |-> Head(pkt_done_fifo).slot, desc |-> NoDesc]
           lb == 0
<1>1. /\ f \in Seq(Reqs) /\ f # <<>>
      /\ ctrl_out_r = <<>>
  BY Zenon DEF Inv, TypeInv, LbType, SelectPktDone
<1>2. /\ Tail(f) \in Seq(Reqs) /\ Len(Tail(f)) = Len(f) - 1 /\ Len(f) \in Nat
      /\ Head(f) = f[1] /\ Head(f) \in Reqs /\ 1 \in DOMAIN f
      /\ \A i : i \in DOMAIN Tail(f) <=> i \in Nat \ {0} /\ i + 1 \in DOMAIN f
      /\ \A i \in DOMAIN Tail(f) : Tail(f)[i] = f[i + 1]
      /\ \A i \in DOMAIN f : i \in Nat \ {0}
  BY <1>1, TailQ, Zenon
<1>3. h \in Answers /\ h.core = Head(f).src /\ h.slot = Head(f).slot /\ h.cmd = "send"
  BY <1>2, CountsAssumption DEF Reqs, Answers, AnyDescs, NoDesc, Cores
<1>4. /\ pkt_done_fifo' = Tail(f) /\ ctrl_out_r' = <<h>> /\ last_selected' = 0
      /\ UNCHANGED <<enabled_cores, income_cores, free, pkt_to_core_fifo, arb_in, arb_out,
                      reserved, in_net, to_lb, booted, held, recvd_data_fifo, in_desc_r,
                      slots_in_prog, slots_to_send, slot_errs, send_data_fifo,
                      send_ctrl_fifo, ctrl_s_r, recvd_ctrl_fifo, sending, pkt_sent_fifo,
                      ctrl_m_r>>
  BY <1>1, <1>2, Zenon DEF SelectPktDone, rpuVars, netVars
<1> HIDE DEF h
<1>5. /\ <<h>> \in Seq(Answers) /\ Len(<<h>>) = 1 /\ <<h>>[1] = h /\ <<h>> # <<>>
      /\ \A i : i \in DOMAIN <<h>> <=> i = 1
  BY <1>3, OneQ, Zenon
<1>6. TypeInv'
  <2>1. LbType'
    <3> HIDE DEF f
    <3>. QED  BY <1>1, <1>2, <1>3, <1>4, <1>5, NoneQ, DepthAssumption, NetAssumption
                 DEF Inv, TypeInv, LbType, f
  <2>. QED  BY <1>4, <2>1, TypeStep, Zenon DEF Inv, lbVars, netVars
<1>7. ASSUME NEW c \in Cores, NEW s \in 0 .. SLOT_COUNT, NEW r, NEW k, NEW i
      PROVE  /\ At("pkt_done", r, lb, i, c, s) => i \in Nat \ {0}
             /\ At("pkt_done", r, k, i, c, s)' <=>
                  \/ k = lb /\ i \in Nat \ {0} /\ At("pkt_done", r, lb, i + 1, c, s)
                  \/ k # lb /\ At("pkt_done", r, k, i, c, s)
             /\ At("ctrl_out", r, k, i, c, s)' <=>
                  \/ k = lb /\ i = 1 /\ At("pkt_done", r, lb, 1, c, s)
                  \/ At("ctrl_out", r, k, i, c, s)
  <2>1. \A j, l : /\ At("pkt_done", r, j, l, c, s) <=> AtPktDone(r, j, l, c, s)
                  /\ At("pkt_done", r, j, l, c, s)' <=> AtPktDone(r, j, l, c, s)'
                  /\ At("ctrl_out", r, j, l, c, s) <=> AtCtrlOut(r, j, l, c, s)
                  /\ At("ctrl_out", r, j, l, c, s)' <=> AtCtrlOut(r, j, l, c, s)'
    BY IsPktDone, IsCtrlOut, Zenon
  <2>2. /\ AtPktDone(r, lb, i, c, s) => i \in Nat \ {0}
        /\ AtPktDone(r, k, i, c, s)' <=>
             \/ k = lb /\ i \in Nat \ {0} /\ AtPktDone(r, lb, i + 1, c, s)
             \/ k # lb /\ AtPktDone(r, k, i, c, s)
        /\ AtCtrlOut(r, k, i, c, s)' <=>
             \/ k = lb /\ i = 1 /\ AtPktDone(r, lb, 1, c, s)
             \/ AtCtrlOut(r, k, i, c, s)
    BY <1>1, <1>2, <1>3, <1>4, <1>5, NoneQ, Zenon
       DEF AtPktDone, HasReq, AtCtrlOut, HasAnswer, HasOwn, HasNew
  <2>. QED  BY <2>1, <2>2, Zenon
<1>8. /\ \A z : z \notin {"pkt_done", "ctrl_out"} => Still(z)
      /\ "ctrl_out" \in After /\ "pkt_done" \notin {"in_desc", "held"} /\ "pkt_done" # "ctrl_out"
  BY <1>4, Zenon DEF Still, After
<1> HIDE DEF f, lb
<1>9. Shift("pkt_done", lb, "ctrl_out", lb, 1)
  BY <1>7, <1>8, Zenon DEF Shift
<1>. QED  BY <1>4, <1>6, <1>8, <1>9, ShiftStep, Zenon

LEMMA CtrlSwitchStep ==
  ASSUME Inv, NEW b \in Cores, CtrlSwitch(b)
  PROVE  Inv'
<1> DEFINE f == ctrl_m_r[b]
           h == [src |-> b, msg |-> Head(ctrl_m_r[b])]
           g == to_lb
           n == Len(to_lb) + 1
           lb == 0
<1>1. /\ f \in Seq(Msgs(b)) /\ f # <<>> /\ Len(f) <= 1 /\ g \in Seq(LbMsgs)
      /\ DOMAIN ctrl_m_r = Cores /\ Len(g) < CTRL_NET_DEPTH
  BY Zenon DEF Inv, TypeInv, SendType, NetType, CtrlSwitch
<1>2. /\ Head(f) = f[1] /\ Head(f) \in Msgs(b) /\ Len(f) = 1
      /\ \A i : i \in DOMAIN f <=> i = 1
  BY <1>1, RegQ, Zenon
<1>3. h \in LbMsgs /\ h.src = b /\ h.msg = Head(f)
  BY <1>2, Zenon DEF LbMsgs
<1>4. /\ ctrl_m_r' = [ctrl_m_r EXCEPT ![b] = <<>>]
      /\ to_lb' = Append(g, h)
      /\ UNCHANGED <<enabled_cores, income_cores, free, pkt_done_fifo, pkt_to_core_fifo,
                      arb_in, arb_out, last_selected, ctrl_out_r, reserved, in_net, booted,
                      held, recvd_data_fifo, in_desc_r, slots_in_prog, slots_to_send,
                      slot_errs, send_data_fifo, send_ctrl_fifo, ctrl_s_r, recvd_ctrl_fifo,
                      sending, pkt_sent_fifo>>
  BY <1>1, <1>2, Zenon DEF CtrlSwitch, CtrlSent, lbVars
<1> HIDE DEF h
<1>5. /\ Append(g, h) \in Seq(LbMsgs) /\ Len(Append(g, h)) = Len(g) + 1 /\ Len(g) \in Nat
      /\ \A i : i \in DOMAIN Append(g, h) <=> i \in DOMAIN g \/ i = Len(g) + 1
      /\ Len(g) + 1 \notin DOMAIN g
      /\ \A i \in DOMAIN g : Append(g, h)[i] = g[i]
      /\ Append(g, h)[Len(g) + 1] = h
  <2> HIDE DEF f, g
  <2>. QED  BY <1>1, <1>3, AppendQ, Zenon
<1>6. TypeInv'
  <2>1. NetType'
    <3> HIDE DEF f, g
    <3>. QED  BY <1>1, <1>2, <1>3, <1>4, <1>5, NoneQ, DepthAssumption, NetAssumption
                 DEF Inv, TypeInv, NetType, f, g
  <2>2. SendType'
    BY <1>1, <1>4, NoneQ DEF Inv, TypeInv, SendType
  <2>. QED  BY <1>4, <2>1, <2>2, TypeStep, Zenon DEF Inv, lbVars, netVars
<1>7. ASSUME NEW c \in Cores, NEW s \in 0 .. SLOT_COUNT, NEW r, NEW k, NEW i
      PROVE  /\ At("ctrl_m", r, b, i, c, s) => i \in Nat \ {0}
             /\ At("ctrl_m", r, k, i, c, s)' <=>
                  \/ k = b /\ i \in Nat \ {0} /\ At("ctrl_m", r, b, i + 1, c, s)
                  \/ k # b /\ At("ctrl_m", r, k, i, c, s)
             /\ At("to_lb", r, k, i, c, s)' <=>
                  \/ k = lb /\ i = n /\ At("ctrl_m", r, b, 1, c, s)
                  \/ At("to_lb", r, k, i, c, s)
  <2>1. \A j, l : /\ At("ctrl_m", r, j, l, c, s) <=> AtCtrlM(r, j, l, c, s)
                  /\ At("ctrl_m", r, j, l, c, s)' <=> AtCtrlM(r, j, l, c, s)'
                  /\ At("to_lb", r, j, l, c, s) <=> AtToLb(r, j, l, c, s)
                  /\ At("to_lb", r, j, l, c, s)' <=> AtToLb(r, j, l, c, s)'
    BY IsCtrlM, IsToLb, Zenon
  <2>2. /\ AtCtrlM(r, b, i, c, s) => i \in Nat \ {0}
        /\ AtCtrlM(r, k, i, c, s)' <=>
             \/ k = b /\ i \in Nat \ {0} /\ AtCtrlM(r, b, i + 1, c, s)
             \/ k # b /\ AtCtrlM(r, k, i, c, s)
        /\ AtToLb(r, k, i, c, s)' <=>
             \/ k = lb /\ i = n /\ AtCtrlM(r, b, 1, c, s)
             \/ AtToLb(r, k, i, c, s)
    BY <1>1, <1>2, <1>3, <1>4, <1>5, NoneQ DEF AtCtrlM, AtToLb
  <2>. QED  BY <2>1, <2>2, Zenon
<1>8. /\ \A z : z \notin {"ctrl_m", "to_lb"} => Still(z)
      /\ "to_lb" \in After /\ "ctrl_m" \notin {"in_desc", "held"} /\ "ctrl_m" # "to_lb"
  BY <1>4, Zenon DEF Still, After
<1> HIDE DEF f, g, n, lb
<1>9. Shift("ctrl_m", b, "to_lb", lb, n)
  BY <1>7, <1>8, Zenon DEF Shift
<1>. QED  BY <1>4, <1>6, <1>8, <1>9, ShiftStep, Zenon

LEMMA CtrlToCoreStep ==
  ASSUME Inv, NEW b \in Cores, CtrlToCore(b)
  PROVE  Inv'
<1> DEFINE f == ctrl_out_r
           h == [cmd |-> Head(ctrl_out_r).cmd, slot |-> Head(ctrl_out_r).slot, desc |-> Head(ctrl_out_r).desc]
           lb == 0
<1>1. /\ f \in Seq(Answers) /\ f # <<>> /\ Len(f) <= 1
      /\ ctrl_s_r \in [Cores -> Seq(Orders)] /\ ctrl_s_r[b] = <<>> /\ Head(f).core = b
  BY Zenon DEF Inv, TypeInv, SendType, LbType, CtrlToCore, CtrlIn
<1>2. /\ Head(f) = f[1] /\ Head(f) \in Answers /\ Len(f) = 1
      /\ \A i : i \in DOMAIN f <=> i = 1
  BY <1>1, RegQ, Zenon
<1>3. h \in Orders /\ h.cmd = Head(f).cmd /\ h.slot = Head(f).slot /\ h.desc = Head(f).desc
  BY <1>2, Zenon DEF Answers, Orders
<1>4. /\ ctrl_out_r' = <<>> /\ ctrl_s_r' = [ctrl_s_r EXCEPT ![b] = <<h>>]
      /\ UNCHANGED <<enabled_cores, income_cores, free, pkt_done_fifo, pkt_to_core_fifo,
                      arb_in, arb_out, last_selected, reserved, in_net, to_lb, booted, held,
                      recvd_data_fifo, in_desc_r, slots_in_prog, slots_to_send, slot_errs,
                      send_data_fifo, send_ctrl_fifo, recvd_ctrl_fifo, sending,
                      pkt_sent_fifo, ctrl_m_r>>
  BY <1>1, <1>2, Zenon DEF CtrlToCore, CtrlIn, CtrlTaken, netVars
<1> HIDE DEF h
<1>5. /\ <<h>> \in Seq(Orders) /\ Len(<<h>>) = 1 /\ <<h>>[1] = h /\ <<h>> # <<>>
      /\ \A i : i \in DOMAIN <<h>> <=> i = 1
  BY <1>3, OneQ, Zenon
<1>6. TypeInv'
  <2>1. LbType'
    <3> HIDE DEF f
    <3>. QED  BY <1>1, <1>2, <1>3, <1>4, <1>5, NoneQ, DepthAssumption, NetAssumption
                 DEF Inv, TypeInv, LbType, f
  <2>2. SendType'
    <3> HIDE DEF f
    <3>. QED  BY <1>1, <1>2, <1>3, <1>4, <1>5, NoneQ, DepthAssumption, NetAssumption, ZenonT(30)
                 DEF Inv, TypeInv, SendType, f
  <2>. QED  BY <1>4, <2>1, <2>2, TypeStep, ZenonT(30) DEF Inv, lbVars, netVars
<1>7. ASSUME NEW c \in Cores, NEW s \in 0 .. SLOT_COUNT, NEW r, NEW k, NEW i
      PROVE  /\ At("ctrl_out", r, lb, i, c, s) => i \in Nat \ {0}
             /\ At("ctrl_out", r, k, i, c, s)' <=>
                  \/ k = lb /\ i \in Nat \ {0} /\ At("ctrl_out", r, lb, i + 1, c, s)
                  \/ k # lb /\ At("ctrl_out", r, k, i, c, s)
             /\ At("ctrl_s", r, k, i, c, s)' <=>
                  \/ k = b /\ i = 1 /\ At("ctrl_out", r, lb, 1, c, s)
                  \/ At("ctrl_s", r, k, i, c, s)
  <2>1. \A j, l : /\ At("ctrl_out", r, j, l, c, s) <=> AtCtrlOut(r, j, l, c, s)
                  /\ At("ctrl_out", r, j, l, c, s)' <=> AtCtrlOut(r, j, l, c, s)'
                  /\ At("ctrl_s", r, j, l, c, s) <=> AtCtrlS(r, j, l, c, s)
                  /\ At("ctrl_s", r, j, l, c, s)' <=> AtCtrlS(r, j, l, c, s)'
    BY IsCtrlOut, IsCtrlS, Zenon
  <2>2. /\ AtCtrlOut(r, lb, i, c, s) => i \in Nat \ {0}
        /\ AtCtrlOut(r, k, i, c, s)' <=>
             \/ k = lb /\ i \in Nat \ {0} /\ AtCtrlOut(r, lb, i + 1, c, s)
             \/ k # lb /\ AtCtrlOut(r, k, i, c, s)
    <3>1. \A j \in Nat \ {0} : j + 1 # 1
      OBVIOUS
    <3>2. 1 \in Nat \ {0} /\ \A j : j \notin DOMAIN <<>>
      BY NoneQ
    <3>. QED  BY <1>2, <1>4, <3>1, <3>2, Zenon DEF AtCtrlOut
  <2>3. AtCtrlS(r, k, i, c, s)' <=> \/ k = b /\ i = 1 /\ AtCtrlOut(r, lb, 1, c, s)
                                    \/ AtCtrlS(r, k, i, c, s)
    <3>1. HasOrder(h, r, b, c, s) <=> HasAnswer(f[1], r, c, s)
      BY <1>1, <1>2, <1>3, Zenon DEF HasAnswer, HasOrder, HasOwn, HasNew
    <3>2. \A j : j \notin DOMAIN <<>>
      BY NoneQ, Zenon
    <3>. QED  BY <1>1, <1>2, <1>4, <1>5, <3>1, <3>2 DEF AtCtrlOut, AtCtrlS
  <2>. QED  BY <2>1, <2>2, <2>3, Zenon
<1>8. /\ \A z : z \notin {"ctrl_out", "ctrl_s"} => Still(z)
      /\ "ctrl_s" \in After /\ "ctrl_out" \notin {"in_desc", "held"} /\ "ctrl_out" # "ctrl_s"
  BY <1>4, Zenon DEF Still, After
<1> HIDE DEF f, lb
<1>9. Shift("ctrl_out", lb, "ctrl_s", b, 1)
  BY <1>7, <1>8, Zenon DEF Shift
<1>. QED  BY <1>4, <1>6, <1>8, <1>9, ShiftStep, Zenon

LEMMA PortReserveStep ==
  ASSUME Inv, NEW desc \in Descs, PortReserve(desc), desc.slot \in free[desc.core]
  PROVE  Inv'
<1> DEFINE b == desc.core
           t == desc.slot
<1>1. /\ b \in Cores /\ t \in Slots /\ t \in 0 .. SLOT_COUNT /\ desc = [core |-> b, slot |-> t]
      /\ free \in [Cores -> SUBSET Slots]
  BY CountsAssumption DEF Descs, Slots, Inv, TypeInv, LbType
<1>2. At("free", "own", b, t, b, t)
  BY <1>1, IsFree, Zenon DEF AtFree
<1>3. /\ t \in slots_to_send[b] => "free" \in After
      /\ t \in slots_in_prog[b] <=> "free" \in {"in_desc", "held"}
  BY <1>1, <1>2, SetsOf, Zenon
<1>4. /\ free' = [free EXCEPT ![b] = @ \ {t}] /\ reserved' = reserved \cup {desc}
      /\ UNCHANGED <<enabled_cores, income_cores, pkt_done_fifo, pkt_to_core_fifo, arb_in,
                      arb_out, last_selected, ctrl_out_r, in_net, to_lb, booted, held,
                      recvd_data_fifo, in_desc_r, slots_in_prog, slots_to_send, slot_errs,
                      send_data_fifo, send_ctrl_fifo, ctrl_s_r, recvd_ctrl_fifo, sending,
                      pkt_sent_fifo, ctrl_m_r>>
  BY Zenon DEF PortReserve, PopDesc, rpuVars
<1> HIDE DEF t
<1>5. TypeInv'
  <2>1. LbType'
    BY <1>1, <1>4, Zenon DEF Inv, TypeInv, LbType
  <2>2. NetType'
    BY <1>4, Zenon DEF Inv, TypeInv, NetType
  <2>. QED  BY <1>4, <2>1, <2>2, TypeStep, Zenon DEF Inv, lbVars, netVars
<1>6. ASSUME NEW p, NEW k, NEW j
      PROVE  /\ ~At("free", p, k, j, b, t)'
             /\ At("reserved", p, k, j, b, t)' <=> p = "own" /\ k = b /\ j = t
  <2>1. ~At("reserved", p, k, j, b, t)
    BY <1>1, <1>2, Elsewhere, Zenon
  <2>2. /\ At("free", p, k, j, b, t)' <=> AtFree(p, k, j, b, t)'
        /\ At("reserved", p, k, j, b, t) <=> AtReserved(p, k, j, b, t)
        /\ At("reserved", p, k, j, b, t)' <=> AtReserved(p, k, j, b, t)'
    BY IsFree, IsReserved, Zenon
  <2>3. /\ ~AtFree(p, k, j, b, t)'
        /\ AtReserved(p, k, j, b, t)' <=> AtReserved(p, k, j, b, t) \/ (p = "own" /\ k = b /\ j = t)
    BY <1>1, <1>4, Zenon DEF AtFree, AtReserved
  <2>. QED  BY <2>1, <2>2, <2>3, Zenon
<1>7. ASSUME NEW c \in Cores, NEW s \in 0 .. SLOT_COUNT, ~(c = b /\ s = t)
      PROVE  /\ SameSets(c, s)
             /\ \A p, k, j : /\ At("free", p, k, j, c, s)' <=> At("free", p, k, j, c, s)
                             /\ At("reserved", p, k, j, c, s)' <=> At("reserved", p, k, j, c, s)
  <2>1. \A p, k, j : /\ At("free", p, k, j, c, s) <=> AtFree(p, k, j, c, s)
                     /\ At("free", p, k, j, c, s)' <=> AtFree(p, k, j, c, s)'
                     /\ At("reserved", p, k, j, c, s) <=> AtReserved(p, k, j, c, s)
                     /\ At("reserved", p, k, j, c, s)' <=> AtReserved(p, k, j, c, s)'
    BY IsFree, IsReserved, Zenon
  <2>2. /\ \A p, k, j : AtFree(p, k, j, c, s)' <=> AtFree(p, k, j, c, s)
        /\ \A p, k, j : AtReserved(p, k, j, c, s)' <=> AtReserved(p, k, j, c, s)
    BY <1>1, <1>4, <1>7 DEF AtFree, AtReserved
  <2>3. SameSets(c, s)
    BY <1>1, <1>4, <1>7, Zenon DEF SameSets, Inv, TypeInv, RecvType
  <2>. QED  BY <2>1, <2>2, <2>3, Zenon
<1>8. /\ t \in slots_to_send'[b] => "reserved" \in After
      /\ t \in slots_in_prog'[b] <=> "reserved" \in {"in_desc", "held"}
  BY <1>1, <1>3, <1>4, Zenon DEF After, Inv, TypeInv, RecvType
<1>9. (\A z : z \notin {"free", "reserved"} => Still(z)) /\ "free" # "reserved"
  BY <1>4, Zenon DEF Still
<1> HIDE DEF b, t
<1>10. Leap("free", "reserved", "own", b, t, b, t)
  BY <1>2, <1>6, <1>7, <1>8, <1>9, ZenonT(30) DEF Leap
<1>. QED  BY <1>1, <1>4, <1>5, <1>9, <1>10, LeapStep, ZenonT(30)

LEMMA PortSendStep ==
  ASSUME Inv, NEW desc \in Descs, PortSend(desc)
  PROVE  Inv'
<1> DEFINE b == desc.core
           t == desc.slot
<1>1. /\ b \in Cores /\ t \in Slots /\ t \in 0 .. SLOT_COUNT /\ desc = [core |-> b, slot |-> t]
  BY CountsAssumption DEF Descs, Slots
<1>2. At("reserved", "own", b, t, b, t)
  BY <1>1, IsReserved DEF PortSend, AtReserved
<1>3. /\ t \in slots_to_send[b] => "reserved" \in After
      /\ t \in slots_in_prog[b] <=> "reserved" \in {"in_desc", "held"}
  BY <1>1, <1>2, SetsOf, Zenon
<1>4. /\ reserved' = reserved \ {desc} /\ in_net' = in_net \cup {desc}
      /\ UNCHANGED <<enabled_cores, income_cores, free, pkt_done_fifo, pkt_to_core_fifo,
                      arb_in, arb_out, last_selected, ctrl_out_r, to_lb, booted, held,
                      recvd_data_fifo, in_desc_r, slots_in_prog, slots_to_send, slot_errs,
                      send_data_fifo, send_ctrl_fifo, ctrl_s_r, recvd_ctrl_fifo, sending,
                      pkt_sent_fifo, ctrl_m_r>>
  BY Zenon DEF PortSend, lbVars, rpuVars
<1> HIDE DEF t
<1>5. TypeInv'
  <2>1. NetType'
    BY <1>4, Zenon DEF Inv, TypeInv, NetType
  <2>. QED  BY <1>4, <2>1, TypeStep, Zenon DEF Inv, lbVars, netVars
<1>6. ASSUME NEW p, NEW k, NEW j
      PROVE  /\ ~At("reserved", p, k, j, b, t)'
             /\ At("in_net", p, k, j, b, t)' <=> p = "own" /\ k = b /\ j = t
  <2>1. ~At("in_net", p, k, j, b, t)
    BY <1>1, <1>2, Elsewhere, Zenon
  <2>2. /\ At("reserved", p, k, j, b, t)' <=> AtReserved(p, k, j, b, t)'
        /\ At("in_net", p, k, j, b, t) <=> AtNet(p, k, j, b, t)
        /\ At("in_net", p, k, j, b, t)' <=> AtNet(p, k, j, b, t)'
    BY IsReserved, IsNet, Zenon
  <2>3. /\ ~AtReserved(p, k, j, b, t)'
        /\ AtNet(p, k, j, b, t)' <=> AtNet(p, k, j, b, t) \/ (p = "own" /\ k = b /\ j = t)
    BY <1>1, <1>4, Zenon DEF AtReserved, AtNet
  <2>. QED  BY <2>1, <2>2, <2>3, Zenon
<1>7. ASSUME NEW c \in Cores, NEW s \in 0 .. SLOT_COUNT, ~(c = b /\ s = t)
      PROVE  /\ SameSets(c, s)
             /\ \A p, k, j : /\ At("reserved", p, k, j, c, s)' <=> At("reserved", p, k, j, c, s)
                             /\ At("in_net", p, k, j, c, s)' <=> At("in_net", p, k, j, c, s)
  <2>1. \A p, k, j : /\ At("reserved", p, k, j, c, s) <=> AtReserved(p, k, j, c, s)
                     /\ At("reserved", p, k, j, c, s)' <=> AtReserved(p, k, j, c, s)'
                     /\ At("in_net", p, k, j, c, s) <=> AtNet(p, k, j, c, s)
                     /\ At("in_net", p, k, j, c, s)' <=> AtNet(p, k, j, c, s)'
    BY IsReserved, IsNet, Zenon
  <2>2. /\ \A p, k, j : AtReserved(p, k, j, c, s)' <=> AtReserved(p, k, j, c, s)
        /\ \A p, k, j : AtNet(p, k, j, c, s)' <=> AtNet(p, k, j, c, s)
    BY <1>1, <1>4, <1>7 DEF AtReserved, AtNet
  <2>3. SameSets(c, s)
    BY <1>1, <1>4, <1>7, Zenon DEF SameSets, Inv, TypeInv, RecvType
  <2>. QED  BY <2>1, <2>2, <2>3, Zenon
<1>8. /\ t \in slots_to_send'[b] => "in_net" \in After
      /\ t \in slots_in_prog'[b] <=> "in_net" \in {"in_desc", "held"}
  BY <1>1, <1>3, <1>4, Zenon DEF After, Inv, TypeInv, RecvType
<1>9. (\A z : z \notin {"reserved", "in_net"} => Still(z)) /\ "reserved" # "in_net"
  BY <1>4, Zenon DEF Still
<1> HIDE DEF b, t
<1>10. Leap("reserved", "in_net", "own", b, t, b, t)
  BY <1>2, <1>6, <1>7, <1>8, <1>9, Zenon DEF Leap
<1>. QED  BY <1>1, <1>4, <1>5, <1>9, <1>10, LeapStep, ZenonT(30)

LEMMA DeliverStep ==
  ASSUME Inv, NEW desc \in Descs, Deliver(desc)
  PROVE  Inv'
<1> DEFINE b == desc.core
           t == desc.slot
           g == recvd_data_fifo[b]
           n == Len(recvd_data_fifo[b]) + 1
<1>1. /\ b \in Cores /\ t \in Slots /\ t \in 0 .. SLOT_COUNT /\ desc = [core |-> b, slot |-> t]
      /\ g \in Seq(Slots) /\ recvd_data_fifo \in [Cores -> Seq(Slots)]
      /\ Append(g, t) \in Seq(Slots) /\ Len(Append(g, t)) = Len(g) + 1 /\ Len(g) \in Nat
      /\ \A j : j \in DOMAIN Append(g, t) <=> j \in DOMAIN g \/ j = Len(g) + 1
      /\ Len(g) + 1 \notin DOMAIN g
      /\ \A j \in DOMAIN g : Append(g, t)[j] = g[j]
      /\ Append(g, t)[Len(g) + 1] = t
  <2>1. /\ b \in Cores /\ t \in Slots /\ t \in 0 .. SLOT_COUNT /\ desc = [core |-> b, slot |-> t]
        /\ recvd_data_fifo \in [Cores -> Seq(Slots)]
    BY CountsAssumption DEF Descs, Slots, Inv, TypeInv, RecvType
  <2>2. g \in Seq(Slots)
    BY <2>1, Zenon
  <2> HIDE DEF g, t
  <2>. QED  BY <2>1, <2>2, AppendQ, Zenon
<1>2. At("in_net", "own", b, t, b, t)
  BY <1>1, IsNet DEF Deliver, AtNet
<1>3. /\ t \in slots_to_send[b] => "in_net" \in After
      /\ t \in slots_in_prog[b] <=> "in_net" \in {"in_desc", "held"}
  BY <1>1, <1>2, SetsOf, Zenon
<1>4. /\ in_net' = in_net \ {desc} /\ recvd_data_fifo' = [recvd_data_fifo EXCEPT ![b] = Append(g, t)]
      /\ UNCHANGED <<enabled_cores, income_cores, free, pkt_done_fifo, pkt_to_core_fifo,
                      arb_in, arb_out, last_selected, ctrl_out_r, reserved, to_lb, booted,
                      held, in_desc_r, slots_in_prog, slots_to_send, slot_errs,
                      send_data_fifo, send_ctrl_fifo, ctrl_s_r, recvd_ctrl_fifo, sending,
                      pkt_sent_fifo, ctrl_m_r>>
  BY Zenon DEF Deliver, RecvPacket, lbVars
<1> HIDE DEF t
<1>5. TypeInv'
  <2>1. NetType'
    BY <1>4, Zenon DEF Inv, TypeInv, NetType
  <2>2. RecvType'
    <3>1. Len(g) < RECV_DESC_DEPTH
      BY Zenon DEF Deliver, RecvPacket
    <3> HIDE DEF b, t
    <3>. QED  BY <1>1, <1>4, <3>1, DepthAssumption DEF Inv, TypeInv, RecvType, g
  <2>. QED  BY <1>4, <2>1, <2>2, TypeStep, Zenon DEF Inv, lbVars, netVars
<1>6. ASSUME NEW p, NEW k, NEW j
      PROVE  /\ ~At("in_net", p, k, j, b, t)'
             /\ At("recvd_data", p, k, j, b, t)' <=> p = "own" /\ k = b /\ j = n
  <2>1. ~At("recvd_data", p, k, j, b, t)
    BY <1>1, <1>2, Elsewhere, Zenon
  <2>2. /\ At("in_net", p, k, j, b, t)' <=> AtNet(p, k, j, b, t)'
        /\ At("recvd_data", p, k, j, b, t) <=> AtRecvd(p, k, j, b, t)
        /\ At("recvd_data", p, k, j, b, t)' <=> AtRecvd(p, k, j, b, t)'
    BY IsNet, IsRecvd, Zenon
  <2>3. /\ ~AtNet(p, k, j, b, t)'
        /\ AtRecvd(p, k, j, b, t)' <=> AtRecvd(p, k, j, b, t) \/ (p = "own" /\ k = b /\ j = n)
    BY <1>1, <1>4, Zenon DEF AtNet, AtRecvd
  <2>. QED  BY <2>1, <2>2, <2>3, Zenon
<1>7. ASSUME NEW c \in Cores, NEW s \in 0 .. SLOT_COUNT, ~(c = b /\ s = t)
      PROVE  /\ SameSets(c, s)
             /\ \A p, k, j : /\ At("in_net", p, k, j, c, s)' <=> At("in_net", p, k, j, c, s)
                             /\ At("recvd_data", p, k, j, c, s)' <=> At("recvd_data", p, k, j, c, s)
  <2>1. \A p, k, j : /\ At("in_net", p, k, j, c, s) <=> AtNet(p, k, j, c, s)
                     /\ At("in_net", p, k, j, c, s)' <=> AtNet(p, k, j, c, s)'
                     /\ At("recvd_data", p, k, j, c, s) <=> AtRecvd(p, k, j, c, s)
                     /\ At("recvd_data", p, k, j, c, s)' <=> AtRecvd(p, k, j, c, s)'
    BY IsNet, IsRecvd, ZenonT(30)
  <2>2. /\ \A p, k, j : AtNet(p, k, j, c, s)' <=> AtNet(p, k, j, c, s)
        /\ \A p, k, j : AtRecvd(p, k, j, c, s)' <=> AtRecvd(p, k, j, c, s)
    BY <1>1, <1>4, <1>7 DEF AtNet, AtRecvd
  <2>3. SameSets(c, s)
    BY <1>1, <1>4, <1>7, ZenonT(30) DEF SameSets, Inv, TypeInv, RecvType
  <2>. QED  BY <2>1, <2>2, <2>3, Zenon
<1>8. /\ t \in slots_to_send'[b] => "recvd_data" \in After
      /\ t \in slots_in_prog'[b] <=> "recvd_data" \in {"in_desc", "held"}
  BY <1>1, <1>3, <1>4, ZenonT(30) DEF After, Inv, TypeInv, RecvType
<1>9. (\A z : z \notin {"in_net", "recvd_data"} => Still(z)) /\ "in_net" # "recvd_data"
  BY <1>4, Zenon DEF Still
<1> HIDE DEF b, t, g, n
<1>10. Leap("in_net", "recvd_data", "own", b, n, b, t)
  BY <1>2, <1>6, <1>7, <1>8, <1>9, ZenonT(30) DEF Leap
<1>. QED  BY <1>1, <1>4, <1>5, <1>9, <1>10, LeapStep, ZenonT(30)

LEMMA RecvReleaseStep ==
  ASSUME Inv, CtrlToLb, RecvRelease(Head(to_lb).src, Head(to_lb).msg)
  PROVE  Inv'
<1> DEFINE f == to_lb
           lb == 0
<1>a. PICK b \in Cores, t \in Slots : b = Head(f).src /\ t = Head(f).msg.slot
  <2>1. f \in Seq(LbMsgs) /\ f # <<>>
    BY Zenon DEF CtrlToLb, Inv, TypeInv, NetType
  <2>2. Head(f) \in LbMsgs
    BY <2>1
  <2>. QED  BY <2>2, Zenon DEF LbMsgs, Msgs
<1>1. /\ t \in Slots /\ t \in 0 .. SLOT_COUNT /\ free \in [Cores -> SUBSET Slots]
      /\ (\A p, s : HasMsg(f[1].msg, p, s) <=> p = "done" /\ s = t) /\ f[1].src = b
      /\ Tail(f) \in Seq(LbMsgs) /\ Len(Tail(f)) = Len(f) - 1 /\ Len(f) \in Nat
      /\ Head(f) = f[1] /\ Head(f) \in LbMsgs /\ 1 \in DOMAIN f
      /\ \A i : i \in DOMAIN Tail(f) <=> i \in Nat \ {0} /\ i + 1 \in DOMAIN f
      /\ \A i \in DOMAIN Tail(f) : Tail(f)[i] = f[i + 1]
      /\ \A i \in DOMAIN f : i \in Nat \ {0}
  <2>1. /\ f \in Seq(LbMsgs) /\ f # <<>> /\ t \in 0 .. SLOT_COUNT
    BY CountsAssumption DEF CtrlToLb, Inv, TypeInv, NetType, LbType, Slots
  <2>2. Head(f).msg.type = 0 /\ Head(f).msg.slot = t /\ Head(f).src = b
    BY <1>a, Zenon DEF RecvRelease
  <2>3. \A p, s : HasMsg(Head(f).msg, p, s) <=> p = "done" /\ s = t
    BY <2>2, Zenon DEF HasMsg, HasDone, HasAsk
  <2> HIDE DEF f
  <2>4. /\ Tail(f) \in Seq(LbMsgs) /\ Len(Tail(f)) = Len(f) - 1 /\ Len(f) \in Nat
        /\ Head(f) = f[1] /\ Head(f) \in LbMsgs /\ 1 \in DOMAIN f
        /\ \A i : i \in DOMAIN Tail(f) <=> i \in Nat \ {0} /\ i + 1 \in DOMAIN f
        /\ \A i \in DOMAIN Tail(f) : Tail(f)[i] = f[i + 1]
        /\ \A i \in DOMAIN f : i \in Nat \ {0}
    BY <2>1, TailQ, ZenonT(30)
  <2>. QED  BY <2>1, <2>2, <2>3, <2>4, ZenonT(30) DEF Inv, TypeInv, LbType
<1>2. At("to_lb", "done", lb, 1, b, t)
  BY <1>1, IsToLb DEF AtToLb
<1>3. /\ t \in slots_to_send[b] => "done" = "own" /\ "to_lb" \in After
      /\ t \in slots_in_prog[b] <=> "to_lb" \in {"in_desc", "held"}
  BY <1>1, <1>2, SetsOf, Zenon
<1>4. /\ to_lb' = Tail(f) /\ free' = [free EXCEPT ![b] = @ \cup {t}]
      /\ UNCHANGED <<enabled_cores, income_cores, pkt_done_fifo, pkt_to_core_fifo, arb_in,
                      arb_out, last_selected, ctrl_out_r, reserved, in_net, booted, held,
                      recvd_data_fifo, in_desc_r, slots_in_prog, slots_to_send, slot_errs,
                      send_data_fifo, send_ctrl_fifo, ctrl_s_r, recvd_ctrl_fifo, sending,
                      pkt_sent_fifo, ctrl_m_r>>
  <2>1. {t} \cap Slots = {t}
    BY <1>1, Zenon
  <2>. QED  BY <1>a, <2>1, Zenon DEF CtrlToLb, RecvRelease, rpuVars
<1>5. TypeInv'
  <2>1. LbType'
    BY <1>1, <1>4, ZenonT(30) DEF Inv, TypeInv, LbType
  <2>2. NetType'
    BY <1>1, <1>4, NetAssumption DEF Inv, TypeInv, NetType
  <2>. QED  BY <1>4, <2>1, <2>2, TypeStep, ZenonT(30) DEF Inv, lbVars, netVars
<1>6. ASSUME NEW p, NEW k, NEW j
      PROVE  /\ ~At("to_lb", p, k, j, b, t)'
             /\ At("free", p, k, j, b, t)' <=> p = "own" /\ k = b /\ j = t
  <2>1. \A z, o, l, a : At(z, o, l, a, b, t) => z = "to_lb" /\ l = lb /\ a = 1
    BY <1>1, <1>2, Elsewhere
  <2>2. \A a : /\ At("to_lb", p, lb, a, b, t) <=> AtToLb(p, lb, a, b, t)
               /\ At("to_lb", p, k, j, b, t) <=> AtToLb(p, k, j, b, t)
               /\ At("to_lb", p, k, j, b, t)' <=> AtToLb(p, k, j, b, t)'
               /\ At("free", p, k, j, b, t) <=> AtFree(p, k, j, b, t)
               /\ At("free", p, k, j, b, t)' <=> AtFree(p, k, j, b, t)'
    BY IsToLb, IsFree, Zenon
  <2>3. AtToLb(p, k, j, b, t)' => \/ k = lb /\ j \in Nat \ {0} /\ AtToLb(p, lb, j + 1, b, t)
                                  \/ k # lb /\ AtToLb(p, k, j, b, t)
    BY <1>1, <1>4, Zenon DEF AtToLb
  <2>4. j \in Nat \ {0} => j + 1 # 1
    OBVIOUS
  <2>5. AtFree(p, k, j, b, t)' <=> AtFree(p, k, j, b, t) \/ (p = "own" /\ k = b /\ j = t)
    BY <1>1, <1>4, Zenon DEF AtFree
  <2>. QED  BY <2>1, <2>2, <2>3, <2>4, <2>5
<1>7. ASSUME NEW c \in Cores, NEW s \in 0 .. SLOT_COUNT, ~(c = b /\ s = t)
      PROVE  /\ SameSets(c, s)
             /\ \A p, k, j :
                  /\ At("to_lb", p, lb, j, c, s) => j \in Nat \ {0} /\ j # 1
                  /\ At("to_lb", p, k, j, c, s)' <=>
                       \/ k = lb /\ j \in Nat \ {0} /\ At("to_lb", p, lb, j + 1, c, s)
                       \/ k # lb /\ At("to_lb", p, k, j, c, s)
                  /\ At("free", p, k, j, c, s)' <=> At("free", p, k, j, c, s)
  <2>1. \A p, k, j : /\ At("to_lb", p, k, j, c, s) <=> AtToLb(p, k, j, c, s)
                     /\ At("to_lb", p, k, j, c, s)' <=> AtToLb(p, k, j, c, s)'
                     /\ At("free", p, k, j, c, s) <=> AtFree(p, k, j, c, s)
                     /\ At("free", p, k, j, c, s)' <=> AtFree(p, k, j, c, s)'
    BY IsToLb, IsFree, Zenon
  <2>2. \A p, j : AtToLb(p, lb, j, c, s) => j \in Nat \ {0} /\ j # 1
    BY <1>1, <1>7 DEF AtToLb
  <2>3. /\ \A p, k, j : AtToLb(p, k, j, c, s)' <=>
             \/ k = lb /\ j \in Nat \ {0} /\ AtToLb(p, lb, j + 1, c, s)
             \/ k # lb /\ AtToLb(p, k, j, c, s)
        /\ \A p, k, j : AtFree(p, k, j, c, s)' <=> AtFree(p, k, j, c, s)
    BY <1>1, <1>4, <1>7, Zenon DEF AtToLb, AtFree
  <2>4. SameSets(c, s)
    BY <1>1, <1>4, <1>7, Zenon DEF SameSets, Inv, TypeInv, RecvType
  <2>. QED  BY <2>1, <2>2, <2>3, <2>4, ZenonT(30)
<1>8. /\ t \in slots_to_send'[b] => "own" = "own" /\ "free" \in After
      /\ t \in slots_in_prog'[b] <=> "free" \in {"in_desc", "held"}
  BY <1>1, <1>3, <1>4, Zenon DEF After, Inv, TypeInv, RecvType
<1>9. /\ \A z : z \notin {"to_lb", "free"} => Still(z)
      /\ "to_lb" # "free" /\ "to_lb" \notin {"in_desc", "held"}
  BY <1>4, Zenon DEF Still
<1> HIDE DEF f, lb
<1>10. Hop("to_lb", lb, "free", "own", b, t, b, t)
  BY <1>2, <1>6, <1>7, <1>8, <1>9, ZenonT(30) DEF Hop
<1>. QED  BY <1>1, <1>4, <1>5, <1>9, <1>10, HopStep, ZenonT(30)

LEMMA RecvPktDoneStep ==
  ASSUME Inv, CtrlToLb, RecvPktDone(Head(to_lb).src, Head(to_lb).msg)
  PROVE  Inv'
<1> DEFINE f == to_lb
           h == [src |-> Head(to_lb).src, slot |-> Head(to_lb).msg.slot]
           g == pkt_done_fifo
           n == Len(pkt_done_fifo) + 1
           lb == 0
<1>1. /\ f \in Seq(LbMsgs) /\ f # <<>> /\ g \in Seq(Reqs)
      /\ Head(f).msg.type = 1 /\ Len(g) < PKT_DONE_DEPTH
  BY Zenon DEF Inv, TypeInv, NetType, LbType, CtrlToLb, RecvPktDone
<1>2. /\ Tail(f) \in Seq(LbMsgs) /\ Len(Tail(f)) = Len(f) - 1 /\ Len(f) \in Nat
      /\ Head(f) = f[1] /\ Head(f) \in LbMsgs /\ 1 \in DOMAIN f
      /\ \A i : i \in DOMAIN Tail(f) <=> i \in Nat \ {0} /\ i + 1 \in DOMAIN f
      /\ \A i \in DOMAIN Tail(f) : Tail(f)[i] = f[i + 1]
      /\ \A i \in DOMAIN f : i \in Nat \ {0}
  BY <1>1, TailQ, ZenonT(30)
<1>3. /\ h \in Reqs /\ h.src = Head(f).src /\ h.slot = Head(f).msg.slot
      /\ \A r, c, s : (r = "own" /\ HasReq(h, c, s)) <=> (Head(f).src = c /\ HasMsg(Head(f).msg, r, s))
  <2>1. h \in Reqs /\ h.src = Head(f).src /\ h.slot = Head(f).msg.slot
    BY <1>2, Zenon DEF LbMsgs, Msgs, Reqs
  <2>. QED  BY <1>1, <2>1 DEF HasReq, HasMsg, HasDone, HasAsk
<1>4. /\ to_lb' = Tail(f) /\ pkt_done_fifo' = Append(g, h)
      /\ UNCHANGED <<enabled_cores, income_cores, free, pkt_to_core_fifo, arb_in, arb_out,
                      last_selected, ctrl_out_r, reserved, in_net, booted, held,
                      recvd_data_fifo, in_desc_r, slots_in_prog, slots_to_send, slot_errs,
                      send_data_fifo, send_ctrl_fifo, ctrl_s_r, recvd_ctrl_fifo, sending,
                      pkt_sent_fifo, ctrl_m_r>>
  BY <1>1, <1>2, Zenon DEF CtrlToLb, RecvPktDone, rpuVars
<1> HIDE DEF h
<1>5. /\ Append(g, h) \in Seq(Reqs) /\ Len(Append(g, h)) = Len(g) + 1 /\ Len(g) \in Nat
      /\ \A i : i \in DOMAIN Append(g, h) <=> i \in DOMAIN g \/ i = Len(g) + 1
      /\ Len(g) + 1 \notin DOMAIN g
      /\ \A i \in DOMAIN g : Append(g, h)[i] = g[i]
      /\ Append(g, h)[Len(g) + 1] = h
  <2> HIDE DEF f, g
  <2>. QED  BY <1>1, <1>3, AppendQ, ZenonT(30)
<1>6. TypeInv'
  <2>1. LbType'
    <3> HIDE DEF f, g
    <3>. QED  BY <1>1, <1>2, <1>3, <1>4, <1>5, DepthAssumption, NetAssumption
                 DEF Inv, TypeInv, LbType, f, g
  <2>2. NetType'
    <3> HIDE DEF g
    <3>. QED  BY <1>1, <1>2, <1>4, NetAssumption DEF Inv, TypeInv, NetType
  <2>. QED  BY <1>4, <2>1, <2>2, TypeStep, Zenon DEF Inv, lbVars, netVars
<1>7. ASSUME NEW c \in Cores, NEW s \in 0 .. SLOT_COUNT, NEW r, NEW k, NEW i
      PROVE  /\ At("to_lb", r, lb, i, c, s) => i \in Nat \ {0}
             /\ At("to_lb", r, k, i, c, s)' <=>
                  \/ k = lb /\ i \in Nat \ {0} /\ At("to_lb", r, lb, i + 1, c, s)
                  \/ k # lb /\ At("to_lb", r, k, i, c, s)
             /\ At("pkt_done", r, k, i, c, s)' <=>
                  \/ k = lb /\ i = n /\ At("to_lb", r, lb, 1, c, s)
                  \/ At("pkt_done", r, k, i, c, s)
  <2>1. \A j, l : /\ At("to_lb", r, j, l, c, s) <=> AtToLb(r, j, l, c, s)
                  /\ At("to_lb", r, j, l, c, s)' <=> AtToLb(r, j, l, c, s)'
                  /\ At("pkt_done", r, j, l, c, s) <=> AtPktDone(r, j, l, c, s)
                  /\ At("pkt_done", r, j, l, c, s)' <=> AtPktDone(r, j, l, c, s)'
    BY IsToLb, IsPktDone, Zenon
  <2>2. /\ AtToLb(r, lb, i, c, s) => i \in Nat \ {0}
        /\ AtToLb(r, k, i, c, s)' <=>
             \/ k = lb /\ i \in Nat \ {0} /\ AtToLb(r, lb, i + 1, c, s)
             \/ k # lb /\ AtToLb(r, k, i, c, s)
    BY <1>2, <1>4, ZenonT(30) DEF AtToLb
  <2>3. AtPktDone(r, k, i, c, s)' <=> \/ k = lb /\ i = n /\ AtToLb(r, lb, 1, c, s)
                                      \/ AtPktDone(r, k, i, c, s)
    <3>1. AtToLb(r, lb, 1, c, s) <=> r = "own" /\ HasReq(h, c, s)
      BY <1>2, <1>3, Zenon DEF AtToLb
    <3>. QED  BY <1>1, <1>4, <1>5, <3>1 DEF AtPktDone
  <2>. QED  BY <2>1, <2>2, <2>3, Zenon
<1>8. /\ \A z : z \notin {"to_lb", "pkt_done"} => Still(z)
      /\ "pkt_done" \in After /\ "to_lb" \notin {"in_desc", "held"} /\ "to_lb" # "pkt_done"
  BY <1>4, Zenon DEF Still, After
<1> HIDE DEF f, g, n, lb
<1>9. Shift("to_lb", lb, "pkt_done", lb, n)
  BY <1>7, <1>8, Zenon DEF Shift
<1>. QED  BY <1>4, <1>6, <1>8, <1>9, ShiftStep, ZenonT(30)

LEMMA RecvToCoreStep ==
  ASSUME Inv, CtrlToLb, RecvToCore(Head(to_lb).src, Head(to_lb).msg),
         NEW dest \in Cores, dest = Head(to_lb).msg.dest, dest \in to_core_room,
         [src |-> Head(to_lb).src, slot |-> Head(to_lb).msg.slot] \in Requests(dest)
  PROVE  Inv'
<1> DEFINE f == to_lb
           h == [src |-> Head(to_lb).src, slot |-> Head(to_lb).msg.slot]
           g == pkt_to_core_fifo[dest]
           n == Len(pkt_to_core_fifo[dest]) + 1
           lb == 0
<1>1. /\ f \in Seq(LbMsgs) /\ f # <<>> /\ g \in Seq(Requests(dest))
      /\ Head(f).msg.type = 2 /\ DOMAIN pkt_to_core_fifo = Cores
  BY Zenon DEF Inv, TypeInv, NetType, LbType, CtrlToLb, RecvToCore
<1>2. /\ Tail(f) \in Seq(LbMsgs) /\ Len(Tail(f)) = Len(f) - 1 /\ Len(f) \in Nat
      /\ Head(f) = f[1] /\ Head(f) \in LbMsgs /\ 1 \in DOMAIN f
      /\ \A i : i \in DOMAIN Tail(f) <=> i \in Nat \ {0} /\ i + 1 \in DOMAIN f
      /\ \A i \in DOMAIN Tail(f) : Tail(f)[i] = f[i + 1]
      /\ \A i \in DOMAIN f : i \in Nat \ {0}
  BY <1>1, TailQ, Zenon
<1>3. h \in Requests(dest) /\ h.src = Head(f).src /\ h.slot = Head(f).msg.slot
      /\ dest \in to_core_room /\ Len(g) < PKT_TO_CORE_DEPTH
      /\ \A r, c, s : (r = "own" /\ HasReq(h, c, s)) <=> (Head(f).src = c /\ HasMsg(Head(f).msg, r, s))
  BY <1>1 DEF to_core_room, HasReq, HasMsg, HasDone, HasAsk
<1>4. /\ to_lb' = Tail(f) /\ pkt_to_core_fifo' = [pkt_to_core_fifo EXCEPT ![dest] = Append(g, h)]
      /\ UNCHANGED <<enabled_cores, income_cores, free, pkt_done_fifo, arb_in, arb_out,
                      last_selected, ctrl_out_r, reserved, in_net, booted, held,
                      recvd_data_fifo, in_desc_r, slots_in_prog, slots_to_send, slot_errs,
                      send_data_fifo, send_ctrl_fifo, ctrl_s_r, recvd_ctrl_fifo, sending,
                      pkt_sent_fifo, ctrl_m_r>>
  BY <1>1, <1>2, <1>3, Zenon DEF CtrlToLb, RecvToCore, rpuVars
<1> HIDE DEF h
<1>5. /\ Append(g, h) \in Seq(Requests(dest)) /\ Len(Append(g, h)) = Len(g) + 1 /\ Len(g) \in Nat
      /\ \A i : i \in DOMAIN Append(g, h) <=> i \in DOMAIN g \/ i = Len(g) + 1
      /\ Len(g) + 1 \notin DOMAIN g
      /\ \A i \in DOMAIN g : Append(g, h)[i] = g[i]
      /\ Append(g, h)[Len(g) + 1] = h
  <2> HIDE DEF f, g
  <2>. QED  BY <1>1, <1>3, AppendQ, ZenonT(30)
<1>6. TypeInv'
  <2>1. LbType'
    <3>1. g = pkt_to_core_fifo[dest]
      BY Zenon
    <3>2. ASSUME NEW c \in Cores
          PROVE  pkt_to_core_fifo'[c] \in Seq(Requests(c)) /\ Len(pkt_to_core_fifo'[c]) <= PKT_TO_CORE_DEPTH
      <4> HIDE DEF g
      <4>1. CASE c = dest
        <5>1. pkt_to_core_fifo'[c] = Append(g, h)
          BY <1>1, <1>4, <4>1, Zenon
        <5>2. Append(g, h) \in Seq(Requests(dest)) /\ Len(Append(g, h)) <= PKT_TO_CORE_DEPTH
          BY <1>3, <1>5, DepthAssumption
        <5>. QED  BY <4>1, <5>1, <5>2, Zenon
      <4>2. CASE c # dest
        BY <1>1, <1>4, <4>2, Zenon DEF Inv, TypeInv, LbType
      <4>. QED  BY <4>1, <4>2, Zenon
    <3>3. DOMAIN pkt_to_core_fifo' = Cores
      BY <1>1, <1>4, Zenon
    <3> HIDE DEF g
    <3>. QED  BY <1>4, <3>2, <3>3, Zenon DEF Inv, TypeInv, LbType
  <2>2. NetType'
    <3> HIDE DEF g
    <3>. QED  BY <1>1, <1>2, <1>4, NetAssumption DEF Inv, TypeInv, NetType
  <2>. QED  BY <1>4, <2>1, <2>2, TypeStep, Zenon DEF Inv, lbVars, netVars
<1>7. ASSUME NEW c \in Cores, NEW s \in 0 .. SLOT_COUNT, NEW r, NEW k, NEW i
      PROVE  /\ At("to_lb", r, lb, i, c, s) => i \in Nat \ {0}
             /\ At("to_lb", r, k, i, c, s)' <=>
                  \/ k = lb /\ i \in Nat \ {0} /\ At("to_lb", r, lb, i + 1, c, s)
                  \/ k # lb /\ At("to_lb", r, k, i, c, s)
             /\ At("to_core", r, k, i, c, s)' <=>
                  \/ k = dest /\ i = n /\ At("to_lb", r, lb, 1, c, s)
                  \/ At("to_core", r, k, i, c, s)
  <2>1. \A j, l : /\ At("to_lb", r, j, l, c, s) <=> AtToLb(r, j, l, c, s)
                  /\ At("to_lb", r, j, l, c, s)' <=> AtToLb(r, j, l, c, s)'
                  /\ At("to_core", r, j, l, c, s) <=> AtToCore(r, j, l, c, s)
                  /\ At("to_core", r, j, l, c, s)' <=> AtToCore(r, j, l, c, s)'
    BY IsToLb, IsToCore, Zenon
  <2>2. /\ AtToLb(r, lb, i, c, s) => i \in Nat \ {0}
        /\ AtToLb(r, k, i, c, s)' <=>
             \/ k = lb /\ i \in Nat \ {0} /\ AtToLb(r, lb, i + 1, c, s)
             \/ k # lb /\ AtToLb(r, k, i, c, s)
    BY <1>2, <1>4, ZenonT(30) DEF AtToLb
  <2>3. AtToCore(r, k, i, c, s)' <=> \/ k = dest /\ i = n /\ AtToLb(r, lb, 1, c, s)
                                     \/ AtToCore(r, k, i, c, s)
    <3>1. AtToLb(r, lb, 1, c, s) <=> r = "own" /\ HasReq(h, c, s)
      BY <1>2, <1>3, Zenon DEF AtToLb
    <3>. QED  BY <1>1, <1>4, <1>5, <3>1, ZenonT(30) DEF AtToCore
  <2>. QED  BY <2>1, <2>2, <2>3, Zenon
<1>8. /\ \A z : z \notin {"to_lb", "to_core"} => Still(z)
      /\ "to_core" \in After /\ "to_lb" \notin {"in_desc", "held"} /\ "to_lb" # "to_core"
  BY <1>4, Zenon DEF Still, After
<1> HIDE DEF f, g, n, lb
<1>9. Shift("to_lb", lb, "to_core", dest, n)
  BY <1>7, <1>8, Zenon DEF Shift
<1>. QED  BY <1>4, <1>6, <1>8, <1>9, ShiftStep, Zenon

(* The host writes registers of the policy module.                         *)
LEMMA HostStep ==
  ASSUME Inv, HostEnable(Cores) \/ HostReceive(Cores) \/ UNCHANGED vars
  PROVE  Inv'
<1>1. /\ UNCHANGED <<free, pkt_done_fifo, pkt_to_core_fifo, arb_in, arb_out, last_selected,
                      ctrl_out_r, reserved, in_net, to_lb, booted, held, recvd_data_fifo,
                      in_desc_r, slots_in_prog, slots_to_send, slot_errs, send_data_fifo,
                      send_ctrl_fifo, ctrl_s_r, recvd_ctrl_fifo, sending, pkt_sent_fifo,
                      ctrl_m_r>>
      /\ enabled_cores' \subseteq Cores /\ income_cores' \subseteq enabled_cores'
  BY Zenon DEF HostEnable, HostReceive, Inv, TypeInv, LbType, lbVars, rpuVars, netVars, vars
<1>2. TypeInv'
  <2>1. LbType'
    BY <1>1, Zenon DEF Inv, TypeInv, LbType
  <2>. QED  BY <1>1, <2>1, TypeStep, Zenon DEF Inv, lbVars, netVars
<1>3. ASSUME NEW c \in Cores, NEW s \in 0 .. SLOT_COUNT
      PROVE  Kept(c, s)
  <2>1. \A z : Still(z)
    BY <1>1, Zenon DEF Still
  <2>2. Stays(c, s)
    BY <2>1, StillAt, Zenon DEF Stays
  <2>3. SameSets(c, s)
    BY <1>1, Zenon DEF SameSets
  <2>. QED  BY <2>2, <2>3, StayKeeps, Zenon
<1>. QED  BY <1>1, <1>2, <1>3, InvFromKept, Zenon

(* The initialisation message arrives.                                     *)
LEMMA RecvInitStep ==
  ASSUME Inv, CtrlToLb, RecvInit(Head(to_lb).src, Head(to_lb).msg)
  PROVE  Inv'
<1> DEFINE f == to_lb
           lb == 0
<1>1. f \in Seq(LbMsgs) /\ f # <<>> /\ Head(f).msg.type = 3 /\ free \in [Cores -> SUBSET Slots]
  BY Zenon DEF CtrlToLb, RecvInit, Inv, TypeInv, NetType, LbType
<1>2. /\ Tail(f) \in Seq(LbMsgs) /\ Len(Tail(f)) = Len(f) - 1 /\ Len(f) \in Nat
      /\ Head(f) = f[1] /\ Head(f) \in LbMsgs /\ 1 \in DOMAIN f
      /\ \A i : i \in DOMAIN Tail(f) <=> i \in Nat \ {0} /\ i + 1 \in DOMAIN f
      /\ \A i \in DOMAIN Tail(f) : Tail(f)[i] = f[i + 1]
      /\ \A i \in DOMAIN f : i \in Nat \ {0}
  BY <1>1, TailQ, Zenon
<1>3. PICK b \in Cores : b = f[1].src
  BY <1>2, Zenon DEF LbMsgs
<1>4. f[1].msg.slot = SLOT_COUNT /\ \A r, s : HasMsg(f[1].msg, r, s) <=> r = "own" /\ s = 0
  <2>1. f[1].msg \in Msgs(f[1].src) /\ f[1].msg.type = 3
    BY <1>1, <1>2, Zenon DEF Inv, TypeInv, NetType
  <2>. QED  BY <2>1 DEF Msgs, HasMsg, HasDone, HasAsk
<1>5. /\ to_lb' = Tail(f) /\ free' = [free EXCEPT ![b] = Slots]
      /\ UNCHANGED <<enabled_cores, income_cores, pkt_done_fifo, pkt_to_core_fifo, arb_in,
                      arb_out, last_selected, ctrl_out_r, reserved, in_net, booted, held,
                      recvd_data_fifo, in_desc_r, slots_in_prog, slots_to_send, slot_errs,
                      send_data_fifo, send_ctrl_fifo, ctrl_s_r, recvd_ctrl_fifo, sending,
                      pkt_sent_fifo, ctrl_m_r>>
  BY <1>2, <1>3, <1>4, Zenon DEF CtrlToLb, RecvInit, rpuVars, Slots
<1>6. TypeInv'
  <2>1. LbType'
    BY <1>1, <1>5, ZenonT(30) DEF Inv, TypeInv, LbType
  <2>2. NetType'
    BY <1>2, <1>5, NetAssumption DEF Inv, TypeInv, NetType
  <2>. QED  BY <1>5, <2>1, <2>2, TypeStep, Zenon DEF Inv, lbVars, netVars
<1>7. ASSUME NEW c \in Cores, NEW s, NEW r, NEW k, NEW i
      PROVE  /\ At("to_lb", r, lb, i, c, s) => i \in Nat \ {0}
             /\ At("to_lb", r, lb, 1, c, s) <=> r = "own" /\ c = b /\ s = 0
             /\ At("to_lb", r, k, i, c, s)' <=>
                  \/ k = lb /\ i \in Nat \ {0} /\ At("to_lb", r, lb, i + 1, c, s)
                  \/ k # lb /\ At("to_lb", r, k, i, c, s)
             /\ At("free", r, k, i, c, s)' <=>
                  \/ c = b /\ s \in Slots /\ r = "own" /\ k = b /\ i = s
                  \/ c # b /\ At("free", r, k, i, c, s)
  <2>1. \A j, l : /\ At("to_lb", r, j, l, c, s) <=> AtToLb(r, j, l, c, s)
                  /\ At("to_lb", r, j, l, c, s)' <=> AtToLb(r, j, l, c, s)'
                  /\ At("free", r, j, l, c, s) <=> AtFree(r, j, l, c, s)
                  /\ At("free", r, j, l, c, s)' <=> AtFree(r, j, l, c, s)'
    BY IsToLb, IsFree, Zenon
  <2>2. /\ AtToLb(r, lb, i, c, s) => i \in Nat \ {0}
        /\ AtToLb(r, lb, 1, c, s) <=> r = "own" /\ c = b /\ s = 0
    BY <1>2, <1>3, <1>4, Zenon DEF AtToLb
  <2>3. AtToLb(r, k, i, c, s)' <=> \/ k = lb /\ i \in Nat \ {0} /\ AtToLb(r, lb, i + 1, c, s)
                                   \/ k # lb /\ AtToLb(r, k, i, c, s)
    BY <1>2, <1>5, Zenon DEF AtToLb
  <2>4. AtFree(r, k, i, c, s)' <=> \/ c = b /\ s \in Slots /\ r = "own" /\ k = b /\ i = s
                                   \/ c # b /\ AtFree(r, k, i, c, s)
    BY <1>1, <1>5, Zenon DEF AtFree
  <2>. QED  BY <2>1, <2>2, <2>3, <2>4, Zenon
<1>8. \A c, s, z, r, k, i : z \notin {"to_lb", "free"} => (At(z, r, k, i, c, s)' <=> At(z, r, k, i, c, s))
  BY <1>5, StillAt, Zenon DEF Still
<1> HIDE DEF f, lb
<1>9. 0 \in 0 .. SLOT_COUNT /\ 0 \notin Slots /\ Slots \subseteq 0 .. SLOT_COUNT
  BY CountsAssumption DEF Slots
<1>10. At("to_lb", "own", lb, 1, b, 0) /\ \A z, r, k, i : At(z, r, k, i, b, 0) => z = "to_lb" /\ k = lb /\ i = 1
  <2>1. At("to_lb", "own", lb, 1, b, 0)
    BY <1>7, Zenon
  <2>. QED  BY <1>9, <2>1, Elsewhere
<1>11. Starting(b)
  BY <1>9, <1>10, Elsewhere, Zenon
<1>12. \A i \in Nat \ {0} : i + 1 # 1
  OBVIOUS
<1>13. Nowhere(b, 0)'
  BY <1>7, <1>8, <1>9, <1>10, <1>12 DEF Nowhere
<1>14. ASSUME NEW s \in Slots
       PROVE  /\ \A z, r, k, i : At(z, r, k, i, b, s)' <=> z = "free" /\ r = "own" /\ k = b /\ i = s
              /\ Once(b, s)' /\ ToSend(b, s)' /\ InProg(b, s)'
  <2>1. Nowhere(b, s) /\ s \notin slots_to_send[b] /\ InProg(b, s)
    BY <1>11, Zenon DEF Starting, Unused, Inv
  <2>2. \A z, r, k, i : At(z, r, k, i, b, s)' <=> z = "free" /\ r = "own" /\ k = b /\ i = s
    BY <1>7, <1>8, <2>1 DEF Nowhere
  <2>3. Once(b, s)'
    BY <2>2 DEF Once
  <2>4. ToSend(b, s)'
    BY <1>5, <2>1, Zenon DEF ToSend
  <2>5. InProg(b, s)'
    BY <1>5, <2>1, <2>2, Zenon DEF InProg, Nowhere
  <2>. QED  BY <2>2, <2>3, <2>4, <2>5, Zenon
<1>15. ASSUME NEW c \in Cores, NEW s \in 0 .. SLOT_COUNT, c # b
       PROVE  Kept(c, s)
  <2>1. \A r : ~At("to_lb", r, lb, 1, c, s)
    BY <1>7, <1>15, Zenon
  <2>2. Moves("to_lb", lb, "free", b, 1, c, s)
    BY <1>7, <1>8, <1>15, <2>1 DEF Moves
  <2>3. SameSets(c, s) /\ \A r, i : At("to_lb", r, lb, i, c, s) => i \in Nat \ {0}
    BY <1>5, <1>7, Zenon DEF SameSets
  <2>4. "to_lb" # "free" /\ "to_lb" \notin {"in_desc", "held"}
    BY Zenon
  <2>. QED  BY <2>1, <2>2, <2>3, <2>4, MoveKeeps, Zenon
<1>16. ASSUME NEW c \in Cores
       PROVE  Off(c)' \/ Starting(c)' \/ Running(c)'
  <2>1. CASE c = b
    BY <1>5, <1>11, <1>13, <1>14, <2>1, Zenon DEF Running, Starting
  <2>2. CASE c # b
    <3>1. Off(c) \/ Starting(c) \/ Running(c)
      BY Zenon DEF Inv
    <3>2. \A s \in 0 .. SLOT_COUNT :
            /\ Nowhere(c, s) => Nowhere(c, s)' /\ (s \in slots_to_send'[c] => s \in slots_to_send[c])
            /\ Once(c, s) => Once(c, s)'
      BY <1>15, <2>2, Zenon DEF Kept
    <3>. QED  BY <1>5, <1>9, <3>1, <3>2, Zenon DEF Off, Starting, Running, Unused
  <2>. QED  BY <2>1, <2>2, Zenon
<1>17. ASSUME NEW c \in Cores, NEW s \in Slots
       PROVE  ToSend(c, s)' /\ InProg(c, s)'
  <2>1. CASE c = b
    BY <1>14, <2>1, Zenon
  <2>2. CASE c # b
    <3>1. Kept(c, s) /\ ToSend(c, s) /\ InProg(c, s)
      BY <1>9, <1>15, <2>2, Zenon DEF Inv
    <3>. QED  BY <3>1, Zenon DEF Kept
  <2>. QED  BY <2>1, <2>2, Zenon
<1>. QED  BY <1>6, <1>16, <1>17, Zenon DEF Inv

(* A request meets a free slot of its destination.                         *)
LEMMA PopForCoreStep ==
  ASSUME Inv, NEW b \in Cores, PopForCore(b), Least(free[b]) \in free[b], UNCHANGED <<rpuVars, netVars>>
  PROVE  Inv'
<1> DEFINE f == pkt_to_core_fifo[b]
<1>1. /\ f \in Seq(Requests(b)) /\ f # <<>> /\ arb_in[b] = <<>> /\ arb_in \in [Cores -> Seq(Answers)]
      /\ DOMAIN pkt_to_core_fifo = Cores /\ free \in [Cores -> SUBSET Slots] /\ free[b] # {}
  BY Zenon DEF Inv, TypeInv, LbType, PopForCore, slot_busys
<1>2. /\ Tail(f) \in Seq(Requests(b)) /\ Len(Tail(f)) = Len(f) - 1 /\ Len(f) \in Nat
      /\ Head(f) = f[1] /\ Head(f) \in Requests(b) /\ 1 \in DOMAIN f
      /\ \A i : i \in DOMAIN Tail(f) <=> i \in Nat \ {0} /\ i + 1 \in DOMAIN f
      /\ \A i \in DOMAIN Tail(f) : Tail(f)[i] = f[i + 1]
      /\ \A i \in DOMAIN f : i \in Nat \ {0}
  BY <1>1, TailQ, ZenonT(30)
<1>3. PICK c1 \in Cores, t1 \in Slots : Head(f) = [src |-> c1, slot |-> t1]
  BY <1>2, Zenon DEF Requests
<1>4. PICK t2 \in Slots : t2 \in free[b] /\ t2 = Least(free[b])
  BY <1>1, Zenon
<1> DEFINE h == [core |-> c1, cmd |-> "loopback", slot |-> t1, desc |-> [core |-> b, slot |-> t2]]
<1>5. h \in Answers /\ \A r, c, s : HasAnswer(h, r, c, s) <=> \/ r = "own" /\ c = c1 /\ s = t1
                                                              \/ r = "new" /\ c = b /\ s = t2
  BY CountsAssumption DEF Answers, AnyDescs, Descs, Slots, HasAnswer, HasOwn, HasNew
<1>6. /\ pkt_to_core_fifo' = [pkt_to_core_fifo EXCEPT ![b] = Tail(f)]
      /\ arb_in' = [arb_in EXCEPT ![b] = <<h>>] /\ free' = [free EXCEPT ![b] = @ \ {t2}]
      /\ UNCHANGED <<enabled_cores, income_cores, pkt_done_fifo, arb_out, last_selected,
                      ctrl_out_r, reserved, in_net, to_lb, booted, held, recvd_data_fifo,
                      in_desc_r, slots_in_prog, slots_to_send, slot_errs, send_data_fifo,
                      send_ctrl_fifo, ctrl_s_r, recvd_ctrl_fifo, sending, pkt_sent_fifo,
                      ctrl_m_r>>
  <2>1. pkt_to_core_fifo' = [pkt_to_core_fifo EXCEPT ![b] = Tail(f)]
    BY Zenon DEF PopForCore
  <2>2. arb_in' = [arb_in EXCEPT ![b] = <<h>>]
    <3>1. Head(f).src = c1 /\ Head(f).slot = t1
      BY <1>3
    <3>. QED  BY <1>4, <3>1, Zenon DEF PopForCore
  <2>3. free' = [free EXCEPT ![b] = @ \ {t2}]
    BY <1>4, Zenon DEF PopForCore
  <2>. QED  BY <2>1, <2>2, <2>3, Zenon DEF PopForCore, rpuVars, netVars
<1> HIDE DEF h
<1>7. /\ <<h>> \in Seq(Answers) /\ Len(<<h>>) = 1 /\ <<h>>[1] = h /\ <<h>> # <<>>
      /\ \A i : i \in DOMAIN <<h>> <=> i = 1
  BY <1>5, OneQ, Zenon
<1>8. TypeInv'
  <2>1. LbType'
    <3>1. ASSUME NEW c \in Cores
          PROVE  pkt_to_core_fifo'[c] \in Seq(Requests(c)) /\ Len(pkt_to_core_fifo'[c]) <= PKT_TO_CORE_DEPTH
      <4>1. CASE c = b
        <5>1. Len(f) <= PKT_TO_CORE_DEPTH
          BY Zenon DEF Inv, TypeInv, LbType
        <5>. QED  BY <1>1, <1>2, <1>6, <4>1, <5>1, DepthAssumption
      <4>2. CASE c # b
        BY <1>1, <1>6, <4>2, Zenon DEF Inv, TypeInv, LbType
      <4>. QED  BY <4>1, <4>2, ZenonT(30)
    <3>2. DOMAIN pkt_to_core_fifo' = Cores /\ free' \in [Cores -> SUBSET Slots]
      BY <1>1, <1>6, ZenonT(30)
    <3>3. arb_in' \in [Cores -> Seq(Answers)] /\ \A d \in Cores : Len(arb_in'[d]) <= 1
      BY <1>1, <1>6, <1>7 DEF Inv, TypeInv, LbType
    <3> HIDE DEF f
    <3>. QED  BY <1>6, <3>1, <3>2, <3>3, Zenon DEF Inv, TypeInv, LbType
  <2>. QED  BY <1>6, <2>1, TypeStep, Zenon DEF Inv, lbVars, netVars
<1>9. ASSUME NEW c \in Cores, NEW s, NEW r, NEW k, NEW i
      PROVE  /\ At("to_core", r, b, i, c, s) => i \in Nat \ {0}
             /\ At("to_core", r, b, 1, c, s) <=> r = "own" /\ c = c1 /\ s = t1
             /\ At("to_core", r, k, i, c, s)' <=>
                  \/ k = b /\ i \in Nat \ {0} /\ At("to_core", r, b, i + 1, c, s)
                  \/ k # b /\ At("to_core", r, k, i, c, s)
             /\ At("arb_in", r, k, i, c, s)' <=>
                  \/ At("arb_in", r, k, i, c, s)
                  \/ k = b /\ i = 1 /\ r = "own" /\ c = c1 /\ s = t1
                  \/ k = b /\ i = 1 /\ r = "new" /\ c = b /\ s = t2
             /\ At("free", r, k, i, c, s)' <=> At("free", r, k, i, c, s) /\ ~(c = b /\ s = t2)
  <2>1. \A j, l : /\ At("to_core", r, j, l, c, s) <=> AtToCore(r, j, l, c, s)
                  /\ At("to_core", r, j, l, c, s)' <=> AtToCore(r, j, l, c, s)'
                  /\ At("arb_in", r, j, l, c, s) <=> AtArbIn(r, j, l, c, s)
                  /\ At("arb_in", r, j, l, c, s)' <=> AtArbIn(r, j, l, c, s)'
                  /\ At("free", r, j, l, c, s) <=> AtFree(r, j, l, c, s)
                  /\ At("free", r, j, l, c, s)' <=> AtFree(r, j, l, c, s)'
    BY IsToCore, IsArbIn, IsFree, Zenon
  <2>2. /\ AtToCore(r, b, i, c, s) => i \in Nat \ {0}
        /\ AtToCore(r, b, 1, c, s) <=> r = "own" /\ c = c1 /\ s = t1
    <3>1. HasReq(f[1], c, s) <=> c = c1 /\ s = t1
      <4>1. f[1] = [src |-> c1, slot |-> t1]
        BY <1>2, <1>3, Zenon
      <4>. QED  BY <4>1 DEF HasReq
    <3>2. AtToCore(r, b, 1, c, s) <=> r = "own" /\ HasReq(f[1], c, s)
      BY <1>2, Zenon DEF AtToCore
    <3>3. AtToCore(r, b, i, c, s) => i \in Nat \ {0}
      BY <1>2, Zenon DEF AtToCore
    <3>. QED  BY <3>1, <3>2, <3>3, ZenonT(30)
  <2>3. AtToCore(r, k, i, c, s)' <=> \/ k = b /\ i \in Nat \ {0} /\ AtToCore(r, b, i + 1, c, s)
                                     \/ k # b /\ AtToCore(r, k, i, c, s)
    BY <1>1, <1>2, <1>6, ZenonT(30) DEF AtToCore
  <2>4. AtArbIn(r, k, i, c, s)' <=> \/ AtArbIn(r, k, i, c, s)
                                    \/ k = b /\ i = 1 /\ r = "own" /\ c = c1 /\ s = t1
                                    \/ k = b /\ i = 1 /\ r = "new" /\ c = b /\ s = t2
    <3>1. \A j : j \notin DOMAIN <<>>
      BY NoneQ, Zenon
    <3>. QED  BY <1>1, <1>5, <1>6, <1>7, <3>1 DEF AtArbIn
  <2>5. AtFree(r, k, i, c, s)' <=> AtFree(r, k, i, c, s) /\ ~(c = b /\ s = t2)
    BY <1>1, <1>6, Zenon DEF AtFree
  <2>. QED  BY <2>1, <2>2, <2>3, <2>4, <2>5, ZenonT(30)
<1>10. \A c, s, z, r, k, i :
         z \notin {"to_core", "arb_in", "free"} => (At(z, r, k, i, c, s)' <=> At(z, r, k, i, c, s))
  BY <1>6, StillAt, ZenonT(30) DEF Still
<1>11. At("free", "own", b, t2, b, t2) /\ t2 \in 0 .. SLOT_COUNT
  BY <1>4, CountsAssumption, IsFree DEF AtFree, Slots
<1> HIDE DEF f
<1>12. ASSUME NEW c \in Cores, NEW s \in 0 .. SLOT_COUNT
       PROVE  Kept(c, s)
  <2>1. SameSets(c, s)
    BY <1>6, Zenon DEF SameSets
  <2>2. CASE c = b /\ s = t2
    <3>1. \A z, r, k, i : At(z, r, k, i, c, s) => z = "free"
      BY <1>11, <2>2, Elsewhere, ZenonT(30)
    <3>2. \A z, r, k, i : At(z, r, k, i, c, s)' <=> z = "arb_in" /\ r = "new" /\ k = b /\ i = 1
      BY <1>9, <1>10, <2>2, <3>1
    <3>3. Jumps("arb_in", "new", b, 1, c, s)
      BY <3>2, Zenon DEF Jumps
    <3>4. /\ s \in slots_to_send'[c] => "new" = "own" /\ "arb_in" \in After
          /\ s \in slots_in_prog'[c] <=> "arb_in" \in {"in_desc", "held"}
      <4>1. /\ t2 \in slots_to_send[b] => "own" = "own" /\ "free" \in After
            /\ t2 \in slots_in_prog[b] <=> "free" \in {"in_desc", "held"}
        BY <1>4, <1>11, SetsOf, Zenon
      <4>. QED  BY <2>1, <2>2, <4>1, Zenon DEF SameSets, After
    <3>. QED  BY <1>11, <2>2, <3>3, <3>4, JumpKeeps, ZenonT(30)
  <2>3. CASE ~(c = b /\ s = t2)
    <3>1. Moves("to_core", b, "arb_in", b, 1, c, s)
      BY <1>9, <1>10, <2>3 DEF Moves
    <3>2. \A r, i : At("to_core", r, b, i, c, s) => i \in Nat \ {0}
      BY <1>9, Zenon
    <3>3. "arb_in" \in After /\ "arb_in" \notin {"in_desc", "held"} /\ "to_core" \notin {"in_desc", "held"}
          /\ "to_core" # "arb_in"
      BY Zenon DEF After
    <3>. QED  BY <2>1, <3>1, <3>2, <3>3, MoveKeeps, ZenonT(30)
  <2>. QED  BY <2>2, <2>3, Zenon
<1>. QED  BY <1>6, <1>8, <1>12, InvFromKept, Zenon

(* A packet has left.                                                      *)
LEMMA TransmitStep ==
  ASSUME Inv, NEW b \in Cores, Transmit(b)
  PROVE  Inv'
<1> DEFINE f == sending[b]
           g == pkt_sent_fifo[b]
           n == Len(pkt_sent_fifo[b]) + 1
<1>1. /\ f \in Seq(Orders) /\ f # <<>> /\ Len(f) <= 1 /\ g \in Seq(Slots) /\ Len(g) < SEND_DESC_DEPTH
      /\ sending \in [Cores -> Seq(Orders)] /\ pkt_sent_fifo \in [Cores -> Seq(Slots)] /\ in_net \subseteq Descs
  BY Zenon DEF Inv, TypeInv, SendType, NetType, Transmit, SendDone
<1>2. /\ Head(f) = f[1] /\ Head(f) \in Orders /\ Len(f) = 1
      /\ \A i : i \in DOMAIN f <=> i = 1
  BY <1>1, RegQ, Zenon
<1>3. PICK m \in Orders : m = f[1]
  BY <1>2, Zenon
<1>4. PICK t \in Slots : t = m.slot
  BY Zenon DEF Orders
<1> DEFINE new(c, s) == m.cmd = "loopback" /\ m.desc = [core |-> c, slot |-> s]
<1>5. /\ sending' = [sending EXCEPT ![b] = <<>>] /\ pkt_sent_fifo' = [pkt_sent_fifo EXCEPT ![b] = Append(g, t)]
      /\ in_net' = IF m.cmd = "loopback" THEN in_net \cup {m.desc} ELSE in_net
      /\ UNCHANGED <<enabled_cores, income_cores, free, pkt_done_fifo, pkt_to_core_fifo,
                      arb_in, arb_out, last_selected, ctrl_out_r, reserved, to_lb, booted,
                      held, recvd_data_fifo, in_desc_r, slots_in_prog, slots_to_send,
                      slot_errs, send_data_fifo, send_ctrl_fifo, ctrl_s_r, recvd_ctrl_fifo,
                      ctrl_m_r>>
  <2>1. Head(f) = m
    BY <1>2, <1>3, Zenon
  <2>2. sending' = [sending EXCEPT ![b] = <<>>]
    BY Zenon DEF Transmit, SendDone
  <2>3. pkt_sent_fifo' = [pkt_sent_fifo EXCEPT ![b] = Append(g, t)]
    BY <1>1, <1>4, <2>1, Zenon DEF Transmit, SendDone
  <2>4. in_net' = IF m.cmd = "loopback" THEN in_net \cup {m.desc} ELSE in_net
    BY <2>1, Zenon DEF Transmit
  <2>. QED  BY <2>2, <2>3, <2>4, Zenon DEF Transmit, SendDone, lbVars
<1>6. /\ Append(g, t) \in Seq(Slots) /\ Len(Append(g, t)) = Len(g) + 1 /\ Len(g) \in Nat
      /\ \A i : i \in DOMAIN Append(g, t) <=> i \in DOMAIN g \/ i = Len(g) + 1
      /\ Len(g) + 1 \notin DOMAIN g
      /\ \A i \in DOMAIN g : Append(g, t)[i] = g[i]
      /\ Append(g, t)[Len(g) + 1] = t
  <2>1. g \in Seq(Slots) /\ t \in Slots
    BY <1>1, <1>4, Zenon
  <2> HIDE DEF g
  <2>. QED  BY <2>1, AppendQ, Zenon
<1>7. TypeInv'
  <2>1. NetType'
    BY <1>5, Zenon DEF Inv, TypeInv, NetType, Orders
  <2>2. SendType'
    <3>1. ASSUME NEW c \in Cores
          PROVE  /\ Len(pkt_sent_fifo'[c]) <= SEND_DESC_DEPTH
                 /\ sending'[c] # <<>> => Len(pkt_sent_fifo'[c]) < SEND_DESC_DEPTH
                 /\ Len(sending'[c]) <= 1
      <4>1. CASE c = b
        BY <1>1, <1>5, <1>6, <4>1, NoneQ, DepthAssumption
      <4>2. CASE c # b
        BY <1>1, <1>5, <4>2, Zenon DEF Inv, TypeInv, SendType
      <4>. QED  BY <4>1, <4>2, ZenonT(30)
    <3>2. sending' \in [Cores -> Seq(Orders)] /\ pkt_sent_fifo' \in [Cores -> Seq(Slots)]
      BY <1>1, <1>5, <1>6, NoneQ, Zenon
    <3>. QED  BY <1>5, <3>1, <3>2, ZenonT(30) DEF Inv, TypeInv, SendType
  <2>. QED  BY <1>5, <2>1, <2>2, TypeStep, ZenonT(30) DEF Inv, lbVars, netVars
<1>8. ASSUME NEW c \in Cores, NEW s, NEW r, NEW k, NEW i
      PROVE  /\ At("sending", r, k, i, c, s) <=>
                  \/ k # b /\ At("sending", r, k, i, c, s)
                  \/ k = b /\ i = 1 /\ r = "own" /\ c = b /\ s = t
                  \/ k = b /\ i = 1 /\ r = "new" /\ new(c, s)
             /\ At("sending", r, k, i, c, s)' <=> k # b /\ At("sending", r, k, i, c, s)
             /\ At("pkt_sent", r, k, i, c, s)' <=>
                  \/ At("pkt_sent", r, k, i, c, s)
                  \/ r = "own" /\ k = b /\ i = n /\ c = b /\ s = t
             /\ At("in_net", r, k, i, c, s)' <=>
                  \/ At("in_net", r, k, i, c, s)
                  \/ r = "own" /\ k = c /\ i = s /\ new(c, s)
  <2>1. /\ At("sending", r, k, i, c, s) <=> AtSending(r, k, i, c, s)
        /\ At("sending", r, k, i, c, s)' <=> AtSending(r, k, i, c, s)'
        /\ At("pkt_sent", r, k, i, c, s) <=> AtSent(r, k, i, c, s)
        /\ At("pkt_sent", r, k, i, c, s)' <=> AtSent(r, k, i, c, s)'
        /\ At("in_net", r, k, i, c, s) <=> AtNet(r, k, i, c, s)
        /\ At("in_net", r, k, i, c, s)' <=> AtNet(r, k, i, c, s)'
    BY IsSending, IsSent, IsNet, Zenon
  <2>2. AtSending(r, k, i, c, s) <=> \/ k # b /\ AtSending(r, k, i, c, s)
                                     \/ k = b /\ i = 1 /\ r = "own" /\ c = b /\ s = t
                                     \/ k = b /\ i = 1 /\ r = "new" /\ new(c, s)
    BY <1>2, <1>3, <1>4, Zenon DEF AtSending, HasOrder, HasNew
  <2>3. AtSending(r, k, i, c, s)' <=> k # b /\ AtSending(r, k, i, c, s)
    BY <1>1, <1>5, NoneQ, Zenon DEF AtSending
  <2>4. /\ AtSent(r, k, i, c, s)' <=> AtSent(r, k, i, c, s) \/ (r = "own" /\ k = b /\ i = n /\ c = b /\ s = t)
        /\ AtNet(r, k, i, c, s)' <=> AtNet(r, k, i, c, s) \/ (r = "own" /\ k = c /\ i = s /\ new(c, s))
    BY <1>1, <1>5, <1>6, Zenon DEF AtSent, AtNet
  <2>. QED  BY <2>1, <2>2, <2>3, <2>4, Zenon
<1>9. \A c, s, z, r, k, i :
         z \notin {"sending", "pkt_sent", "in_net"} => (At(z, r, k, i, c, s)' <=> At(z, r, k, i, c, s))
  BY <1>5, StillAt, Zenon DEF Still
<1>10. /\ At("sending", "own", b, 1, b, t) /\ Slots \subseteq 0 .. SLOT_COUNT
       /\ \A c, s : new(c, s) => At("sending", "new", b, 1, c, s) /\ c \in Cores /\ s \in Slots
  <2>1. \A c, s : new(c, s) => c \in Cores /\ s \in Slots
    BY DEF Orders, Descs
  <2>2. /\ AtSending("own", b, 1, b, t)
        /\ \A c, s : new(c, s) => AtSending("new", b, 1, c, s)
    BY <1>2, <1>3, <1>4, Zenon DEF AtSending, HasOrder, HasNew
  <2>3. \A r, c, s : At("sending", r, b, 1, c, s) <=> AtSending(r, b, 1, c, s)
    BY IsSending, Zenon
  <2>4. Slots \subseteq 0 .. SLOT_COUNT
    BY CountsAssumption DEF Slots
  <2> HIDE DEF new
  <2>. QED  BY <2>1, <2>2, <2>3, <2>4, ZenonT(30)
<1> HIDE DEF f, g, n, new
<1>11. ASSUME NEW c \in Cores, NEW s \in 0 .. SLOT_COUNT
       PROVE  Kept(c, s)
  <2>1. SameSets(c, s)
    BY <1>5, Zenon DEF SameSets
  <2>2. CASE c = b /\ s = t
    <3>1. \A z, r, k, i : At(z, r, k, i, c, s) => z = "sending" /\ r = "own" /\ k = b /\ i = 1
      BY <1>10, <2>2, Elsewhere
    <3>2. ~new(c, s)
      BY <1>10, <3>1
    <3>3. \A z, r, k, i : At(z, r, k, i, c, s)' <=> z = "pkt_sent" /\ r = "own" /\ k = b /\ i = n
      BY <1>8, <1>9, <2>2, <3>1, <3>2
    <3>4. Jumps("pkt_sent", "own", b, n, c, s)
      BY <3>3, Zenon DEF Jumps
    <3>5. /\ s \in slots_to_send'[c] => "own" = "own" /\ "pkt_sent" \in After
          /\ s \in slots_in_prog'[c] <=> "pkt_sent" \in {"in_desc", "held"}
      <4>1. t \in slots_in_prog[b] <=> "sending" \in {"in_desc", "held"}
        BY <1>10, SetsOf, Zenon
      <4>. QED  BY <2>1, <2>2, <4>1, Zenon DEF SameSets, After
    <3>. QED  BY <1>10, <2>2, <3>4, <3>5, JumpKeeps, ZenonT(30)
  <2>3. CASE new(c, s) /\ ~(c = b /\ s = t)
    <3>1. At("sending", "new", b, 1, c, s) /\ s \in Slots
      BY <1>10, <2>3, Zenon
    <3>2. \A z, r, k, i : At(z, r, k, i, c, s) => z = "sending" /\ r = "new" /\ k = b /\ i = 1
      BY <3>1, Elsewhere
    <3>3. \A z, r, k, i : At(z, r, k, i, c, s)' <=> z = "in_net" /\ r = "own" /\ k = c /\ i = s
      BY <1>8, <1>9, <2>3, <3>2
    <3>4. Jumps("in_net", "own", c, s, c, s)
      BY <3>3, Zenon DEF Jumps
    <3>5. /\ s \in slots_to_send'[c] => "own" = "own" /\ "in_net" \in After
          /\ s \in slots_in_prog'[c] <=> "in_net" \in {"in_desc", "held"}
      <4>1. /\ s \in slots_to_send[c] => "new" = "own" /\ "sending" \in After
            /\ s \in slots_in_prog[c] <=> "sending" \in {"in_desc", "held"}
        BY <3>1, SetsOf, Zenon
      <4>. QED  BY <2>1, <4>1, Zenon DEF SameSets
    <3>. QED  BY <3>1, <3>4, <3>5, JumpKeeps, ZenonT(30)
  <2>4. CASE ~new(c, s) /\ ~(c = b /\ s = t)
    <3>1. Stays(c, s)
      BY <1>8, <1>9, <2>4 DEF Stays
    <3>. QED  BY <2>1, <3>1, StayKeeps, ZenonT(30)
  <2>. QED  BY <2>2, <2>3, <2>4, Zenon
<1>. QED  BY <1>5, <1>7, <1>11, InvFromKept, ZenonT(30)
=============================================================================
