--------------------------- MODULE SlotLoopProofs ---------------------------
(***************************************************************************)
(* Proofs about the path of the slots through the system: the invariant of *)
(* SlotRpuSteps holds, each slot has one place, and whoever has something  *)
(* for a FIFO finds room.                                                  *)
(***************************************************************************)
EXTENDS SlotLbSteps, FiniteSetTheorems, WellFoundedInduction

-----------------------------------------------------------------------------
(* The least element of a set of slots.                                    *)
LEMMA LeastElement ==
  ASSUME NEW S, S \subseteq Nat, S # {}
  PROVE  Least(S) \in S
<1>1. PICK x \in S : \A y \in S : ~(<<y, x>> \in OpToRel(<, Nat))
  BY NatLessThanWellFounded, WFMin, Zenon
<1>2. \A y \in S : y < x => <<y, x>> \in OpToRel(<, Nat)
  BY Zenon DEF OpToRel
<1>3. \A y \in S : ~(y < x)
  BY <1>1, <1>2, Zenon
<1>4. \A y \in S : x <= y
  BY <1>3
<1>. QED  BY <1>4, Zenon DEF Least

LEMMA LeastFree ==
  ASSUME Inv, NEW c \in Cores, free[c] # {}
  PROVE  Least(free[c]) \in free[c]
<1>1. free[c] \subseteq Nat
  BY CountsAssumption DEF Inv, TypeInv, LbType, Slots
<1>. QED  BY <1>1, LeastElement, Zenon

-----------------------------------------------------------------------------
(* Distinct items of a finite set, with one more elsewhere, leave room.    *)
Distinct(F, n, S, e) ==
  /\ F \in [1 .. n -> S] /\ e \in S
  /\ \A i, j \in 1 .. n : F[i] = F[j] => i = j
  /\ \A i \in 1 .. n : F[i] # e

LEMMA QueueBound ==
  ASSUME NEW S, IsFiniteSet(S), NEW n \in Nat, NEW F, NEW e, Distinct(F, n, S, e)
  PROVE  n < Cardinality(S)
<1>1. IsFiniteSet(S \ {e}) /\ Cardinality(S \ {e}) = Cardinality(S) - 1 /\ Cardinality(S) \in Nat
  BY FS_RemoveElement, FS_CardinalityType, Zenon DEF Distinct
<1>2. IsFiniteSet(1 .. n) /\ Cardinality(1 .. n) = n
  BY FS_Interval
<1>3. F \in [1 .. n -> S \ {e}]
  BY Zenon DEF Distinct
<1>4. ~(Cardinality(S \ {e}) < Cardinality(1 .. n))
  <2>1. SUFFICES ASSUME Cardinality(S \ {e}) < Cardinality(1 .. n)
                 PROVE  FALSE
    BY Zenon
  <2> DEFINE T == S \ {e}
             D == 1 .. n
  <2> HIDE DEF T, D
  <2>2. IsFiniteSet(T) /\ IsFiniteSet(D) /\ Cardinality(T) < Cardinality(D) /\ F \in [D -> T]
    BY <1>1, <1>2, <1>3, <2>1, ZenonT(30) DEF T, D
  <2>3. \E x, y \in D : x # y /\ F[x] = F[y]
    BY <2>2, FS_PigeonHole, Zenon
  <2>. QED  BY <2>3, Zenon DEF D, Distinct
<1>. QED  BY <1>1, <1>2, <1>4

LEMMA FiniteSlots == IsFiniteSet(Slots) /\ Cardinality(Slots) = SLOT_COUNT
<1>1. SLOT_COUNT \in Nat \ {0}
  BY CountsAssumption, Zenon
<1>. QED  BY <1>1, FS_Interval DEF Slots

LEMMA FiniteRequests == \A d : IsFiniteSet(Requests(d))
<1> SUFFICES ASSUME NEW d
             PROVE  IsFiniteSet(Requests(d))
  BY Zenon
<1>1. IsFiniteSet(Cores \X Slots)
  <2>1. IsFiniteSet(Cores)
    BY CountsAssumption, FS_Interval DEF Cores
  <2>. QED  BY <2>1, FiniteSlots, FS_Product, Zenon
<1>2. [r \in Requests(d) |-> <<r.src, r.slot>>] \in Injection(Requests(d), Cores \X Slots)
  BY DEF Requests, Injection, IsInjective
<1>. QED  BY <1>1, <1>2, FS_Injection, Zenon

(* A request that arrives finds room in the FIFO of its destination.       *)
LEMMA RoomForRequest ==
  ASSUME Inv, to_lb # <<>>, Head(to_lb).msg.type = 2, NEW dest \in Cores, dest = Head(to_lb).msg.dest
  PROVE  /\ dest \in to_core_room
         /\ [src |-> Head(to_lb).src, slot |-> Head(to_lb).msg.slot] \in Requests(dest)
<1> DEFINE g == pkt_to_core_fifo[dest]
           e == [src |-> Head(to_lb).src, slot |-> Head(to_lb).msg.slot]
<1>1. /\ to_lb \in Seq(LbMsgs) /\ Head(to_lb) = to_lb[1] /\ 1 \in DOMAIN to_lb
      /\ g \in Seq(Requests(dest)) /\ Len(g) \in Nat /\ DOMAIN g = 1 .. Len(g)
  BY DEF Inv, TypeInv, LbType, NetType
<1>2. Head(to_lb) \in LbMsgs /\ Head(to_lb).msg \in Msgs(Head(to_lb).src)
  BY <1>1 DEF Inv, TypeInv, NetType
<1>3. PICK b \in Cores, t \in Slots : b = Head(to_lb).src /\ t = Head(to_lb).msg.slot
  BY <1>2, Zenon DEF LbMsgs, Msgs
<1>4. e \in Requests(dest) /\ e = [src |-> b, slot |-> t]
  BY <1>2, <1>3, ZenonT(30) DEF Requests, Msgs
<1>5. At("to_lb", "own", 0, 1, b, t) /\ t \in 0 .. SLOT_COUNT
  BY <1>1, <1>3, CountsAssumption DEF At, AtToLb, HasMsg, HasAsk, Slots
<1>6. ASSUME NEW i \in 1 .. Len(g), NEW c \in Cores, NEW s \in Slots, g[i] = [src |-> c, slot |-> s]
      PROVE  At("to_core", "own", dest, i, c, s) /\ s \in 0 .. SLOT_COUNT
  BY <1>1, <1>6, CountsAssumption DEF At, AtToCore, HasReq, Slots
<1>7. ASSUME NEW i \in 1 .. Len(g)
      PROVE  \E c \in Cores, s \in Slots : g[i] = [src |-> c, slot |-> s]
  <2>1. g[i] \in Requests(dest)
    BY <1>1
  <2>. QED  BY <2>1, Zenon DEF Requests
<1>8. ASSUME NEW i \in 1 .. Len(g), NEW j \in 1 .. Len(g), g[i] = g[j]
      PROVE  i = j
  <2>1. PICK c \in Cores, s \in Slots : g[i] = [src |-> c, slot |-> s]
    BY <1>7, Zenon
  <2>2. /\ At("to_core", "own", dest, i, c, s) /\ At("to_core", "own", dest, j, c, s)
        /\ s \in 0 .. SLOT_COUNT
    BY <1>6, <1>8, <2>1, Zenon
  <2>. QED  BY <2>2, Elsewhere
<1>9. ASSUME NEW i \in 1 .. Len(g)
      PROVE  g[i] # e
  <2>1. ASSUME g[i] = e
        PROVE  FALSE
    <3>1. At("to_core", "own", dest, i, b, t)
      BY <1>4, <1>6, <2>1, ZenonT(30)
    <3>2. "to_core" # "to_lb"
      BY Zenon
    <3>. QED  BY <1>5, <3>1, <3>2, Elsewhere
  <2>. QED  BY <2>1, Zenon
<1>10. g \in [1 .. Len(g) -> Requests(dest)]
  BY <1>1
<1>11. Len(g) < Cardinality(Requests(dest))
  <2> HIDE DEF g, e
  <2>1. \A i, j \in 1 .. Len(g) : g[i] = g[j] => i = j
    BY <1>8, Zenon
  <2>2. \A i \in 1 .. Len(g) : g[i] # e
    BY <1>9, Zenon
  <2>3. Distinct(g, Len(g), Requests(dest), e)
    BY <1>4, <1>10, <2>1, <2>2, ZenonT(30) DEF Distinct
  <2>. QED  BY <1>1, <2>3, FiniteRequests, QueueBound, ZenonT(30)
<1>12. Cardinality(Requests(dest)) \in Nat /\ Cardinality(Requests(dest)) <= PKT_TO_CORE_DEPTH
  BY FiniteRequests, FS_CardinalityType, DepthAssumption, Zenon
<1>. QED  BY <1>1, <1>4, <1>11, <1>12, DepthAssumption DEF to_core_room

-----------------------------------------------------------------------------
(* The invariant holds, step by step.                                      *)
LEMMA InvInit ==
  ASSUME Init
  PROVE  Inv
<1>1. /\ enabled_cores = {} /\ income_cores = {} /\ free = [c \in Cores |-> {}] /\ pkt_done_fifo = <<>>
      /\ pkt_to_core_fifo = [c \in Cores |-> <<>>] /\ arb_in = [c \in Cores |-> <<>>] /\ arb_out = <<>>
      /\ last_selected = 0 /\ ctrl_out_r = <<>>
  BY Zenon DEF Init, LbInit
<1>2. /\ booted = {} /\ recvd_data_fifo = [c \in Cores |-> <<>>] /\ in_desc_r = [c \in Cores |-> <<>>]
      /\ held = [c \in Cores |-> {}] /\ send_data_fifo = [c \in Cores |-> <<>>]
      /\ send_ctrl_fifo = [c \in Cores |-> <<>>] /\ ctrl_s_r = [c \in Cores |-> <<>>]
      /\ recvd_ctrl_fifo = [c \in Cores |-> <<>>] /\ sending = [c \in Cores |-> <<>>]
      /\ pkt_sent_fifo = [c \in Cores |-> <<>>] /\ ctrl_m_r = [c \in Cores |-> <<>>]
      /\ slots_in_prog = [c \in Cores |-> {}] /\ slots_to_send = [c \in Cores |-> {}]
      /\ slot_errs = [c \in Cores |-> {}]
  BY Zenon DEF Init, RpuInit
<1>3. reserved = {} /\ in_net = {} /\ to_lb = <<>>
  BY Zenon DEF Init
<1>4. TypeInv
  <2>1. LbType
    BY <1>1, NoneQ, DepthAssumption DEF LbType
  <2>2. NetType
    BY <1>3, NoneQ, NetAssumption DEF NetType
  <2>3. RecvType
    BY <1>2, NoneQ, DepthAssumption DEF RecvType
  <2>4. SendType
    BY <1>2, NoneQ, DepthAssumption DEF SendType
  <2>. QED  BY <2>1, <2>2, <2>3, <2>4, ZenonT(30) DEF TypeInv
<1>5. ASSUME NEW c \in Cores, NEW s
      PROVE  Nowhere(c, s)
  <2>1. \A i : i \notin DOMAIN <<>>
    BY NoneQ, Zenon
  <2>2. ASSUME NEW r, NEW d, NEW i
        PROVE  /\ ~AtFree(r, d, i, c, s) /\ ~AtPktDone(r, d, i, c, s) /\ ~AtToCore(r, d, i, c, s)
               /\ ~AtArbIn(r, d, i, c, s) /\ ~AtArbOut(r, d, i, c, s) /\ ~AtCtrlOut(r, d, i, c, s)
    BY <1>1, <2>1, Zenon DEF AtFree, AtPktDone, AtToCore, AtArbIn, AtArbOut, AtCtrlOut
  <2>3. ASSUME NEW r, NEW d, NEW i
        PROVE  /\ ~AtHeld(r, d, i, c, s) /\ ~AtRecvd(r, d, i, c, s) /\ ~AtInDesc(r, d, i, c, s)
               /\ ~AtSent(r, d, i, c, s) /\ ~AtSendData(r, d, i, c, s) /\ ~AtSendCtrl(r, d, i, c, s)
               /\ ~AtCtrlM(r, d, i, c, s)
    BY <1>2, <2>1, Zenon
       DEF AtHeld, AtRecvd, AtInDesc, AtSent, AtSendData, AtSendCtrl, AtCtrlM
  <2>4. ASSUME NEW r, NEW d, NEW i
        PROVE  ~AtCtrlS(r, d, i, c, s) /\ ~AtRecvdCtrl(r, d, i, c, s) /\ ~AtSending(r, d, i, c, s)
    BY <1>2, <2>1, Zenon DEF AtCtrlS, AtRecvdCtrl, AtSending
  <2>5. ASSUME NEW r, NEW d, NEW i
        PROVE  ~AtReserved(r, d, i, c, s) /\ ~AtNet(r, d, i, c, s) /\ ~AtToLb(r, d, i, c, s)
    BY <1>3, <2>1, Zenon DEF AtReserved, AtNet, AtToLb
  <2>. QED  BY <2>2, <2>3, <2>4, <2>5 DEF Nowhere, At
<1>6. ASSUME NEW c \in Cores
      PROVE  Off(c) /\ \A s \in Slots : ToSend(c, s) /\ InProg(c, s)
  <2>1. \A s : s \notin slots_to_send[c] /\ s \notin slots_in_prog[c]
    BY <1>2, Zenon
  <2>2. c \notin booted
    BY <1>2, Zenon
  <2>. QED  BY <1>5, <2>1, <2>2, ZenonT(30) DEF Off, Unused, ToSend, InProg, Nowhere
<1>. QED  BY <1>4, <1>6, Zenon DEF Inv

LEMMA CtrlToLbStep ==
  ASSUME Inv, CtrlToLb
  PROVE  Inv'
<1>1. to_lb # <<>> /\ RecvCtrl(Head(to_lb).src, Head(to_lb).msg)
  BY Zenon DEF CtrlToLb
<1>2. PICK dest \in Cores : dest = Head(to_lb).msg.dest
  <2>1. Head(to_lb) \in LbMsgs
    BY <1>1 DEF Inv, TypeInv, NetType
  <2>. QED  BY <2>1 DEF LbMsgs, Msgs
<1>3. CASE RecvRelease(Head(to_lb).src, Head(to_lb).msg)
  BY <1>3, RecvReleaseStep, Zenon
<1>4. CASE RecvInit(Head(to_lb).src, Head(to_lb).msg)
  BY <1>4, RecvInitStep, ZenonT(30)
<1>5. CASE RecvPktDone(Head(to_lb).src, Head(to_lb).msg)
  BY <1>5, RecvPktDoneStep, Zenon
<1>6. CASE RecvToCore(Head(to_lb).src, Head(to_lb).msg)
  <2>1. Head(to_lb).msg.type = 2
    BY <1>6, Zenon DEF RecvToCore
  <2>2. /\ dest \in to_core_room
        /\ [src |-> Head(to_lb).src, slot |-> Head(to_lb).msg.slot] \in Requests(dest)
    BY <1>1, <1>2, <2>1, RoomForRequest, ZenonT(30)
  <2>. QED  BY <1>2, <1>6, <2>2, RecvToCoreStep, Zenon
<1>. QED  BY <1>1, <1>3, <1>4, <1>5, <1>6, ZenonT(30) DEF RecvCtrl

LEMMA FirmwareStep ==
  ASSUME Inv, NEW c \in Cores, Firmware(c)
  PROVE  Inv'
<1>1. UNCHANGED <<lbVars, netVars>>
  BY Zenon DEF Firmware
<1>2. CASE InitSlots(c)
  BY <1>1, <1>2, InitSlotsStep, Zenon
<1>3. CASE read_in_pkt(c)
  BY <1>1, <1>3, ReadInPktStep, Zenon
<1>4. ASSUME NEW s \in Slots, pkt_send(c, s)
      PROVE  Inv'
  BY <1>1, <1>4, PktSendStep, ZenonT(30)
<1>5. ASSUME NEW s \in Slots, pkt_done_msg(c, s)
      PROVE  Inv'
  <2> DEFINE m == [type |-> 1, slot |-> s, dest |-> 0]
  <2>1. m \in SendMsgs(c) /\ m.type # 3
    BY CountsAssumption DEF SendMsgs, Msgs, Cores
  <2>2. SendCtrl(c, m)
    BY <1>5, Zenon DEF pkt_done_msg
  <2> HIDE DEF m
  <2>. QED  BY <1>1, <2>1, <2>2, SendCtrlStep, ZenonT(30)
<1>6. ASSUME NEW s \in Slots, NEW d \in Cores, send_to_core(c, s, d)
      PROVE  Inv'
  <2> DEFINE m == [type |-> 2, slot |-> s, dest |-> d]
  <2>1. SendCtrl(c, m) /\ d \in Targets[c]
    BY <1>6, Zenon DEF send_to_core
  <2>2. 2 \in Paths[c]
    BY <2>1, Zenon DEF SendCtrl
  <2>3. m \in SendMsgs(c) /\ m.type # 3
    BY <2>1, <2>2 DEF SendMsgs, Msgs
  <2> HIDE DEF m
  <2>. QED  BY <1>1, <2>1, <2>3, SendCtrlStep, ZenonT(30)
<1>. QED  BY <1>2, <1>3, <1>4, <1>5, <1>6, ZenonT(30) DEF Firmware

LEMMA InvStep ==
  ASSUME Inv, [Next]_vars
  PROVE  Inv'
<1>1. CASE HostEnable(Cores) \/ HostReceive(Cores) \/ UNCHANGED vars
  BY <1>1, HostStep, Zenon
<1>2. ASSUME NEW desc \in Descs, PortReserve(desc) \/ PortSend(desc) \/ Deliver(desc)
      PROVE  Inv'
  <2>1. CASE PortReserve(desc)
    <3>1. desc.core \in Cores
      BY Zenon DEF Descs
    <3>2. desc.slot = Least(free[desc.core]) /\ free[desc.core] # {}
      BY <2>1, Zenon DEF PortReserve, PopDesc
    <3>3. desc.slot \in free[desc.core]
      BY <3>1, <3>2, LeastFree, Zenon
    <3>. QED  BY <2>1, <3>3, PortReserveStep, Zenon
  <2>. QED  BY <1>2, <2>1, PortSendStep, DeliverStep, Zenon
<1>3. CASE LbStep
  BY <1>3, SelectToCoreStep, SelectPktDoneStep, ZenonT(30) DEF LbStep
<1>4. CASE CtrlToLb
  BY <1>4, CtrlToLbStep, Zenon
<1>5. ASSUME NEW c \in Cores, CtrlSwitch(c) \/ CtrlToCore(c) \/ Transmit(c)
      PROVE  Inv'
  BY <1>5, CtrlSwitchStep, CtrlToCoreStep, TransmitStep, ZenonT(30)
<1>6. ASSUME NEW c \in Cores, LbCoreStep(c)
      PROVE  Inv'
  <2>1. UNCHANGED <<rpuVars, netVars>>
    BY <1>6, Zenon DEF LbCoreStep
  <2>2. CASE PopForCore(c)
    <3>1. free[c] # {}
      BY <2>2, Zenon DEF PopForCore
    <3>2. Least(free[c]) \in free[c]
      BY <3>1, LeastFree, Zenon
    <3>. QED  BY <2>1, <2>2, <3>2, PopForCoreStep, ZenonT(30)
  <2>. QED  BY <1>6, <2>1, <2>2, ArbGrantStep, Zenon DEF LbCoreStep
<1>7. ASSUME NEW c \in Cores, RpuStep(c)
      PROVE  Inv'
  <2>1. UNCHANGED <<lbVars, netVars>>
    BY <1>7, Zenon DEF RpuStep
  <2>2. \/ InDesc(c) \/ ParseCtrl(c) \/ SendFromLb(c)
        \/ SendFromCore(c) \/ ReportSent(c) \/ RequestSend(c)
    BY <1>7, Zenon DEF RpuStep
  <2>3. CASE InDesc(c) \/ ParseCtrl(c) \/ SendFromLb(c)
    BY <2>1, <2>3, InDescStep, ParseCtrlStep, SendFromLbStep, ZenonT(30)
  <2>4. CASE SendFromCore(c) \/ ReportSent(c) \/ RequestSend(c)
    BY <2>1, <2>4, SendFromCoreStep, ReportSentStep, RequestSendStep, ZenonT(30)
  <2>. QED  BY <2>2, <2>3, <2>4, ZenonT(30)
<1>8. ASSUME NEW c \in Cores, Firmware(c)
      PROVE  Inv'
  BY <1>8, FirmwareStep, Zenon
<1>. QED  BY <1>1, <1>2, <1>3, <1>4, <1>5, <1>6, <1>7, <1>8, ZenonT(30) DEF Next

(* The ports hold no more descriptors than they can.                       *)
FewReserved == IsFiniteSet(reserved) /\ Cardinality(reserved) <= MAX_RESERVED

LEMMA ReservedStep ==
  ASSUME FewReserved, [Next]_vars
  PROVE  FewReserved'
<1>1. Cardinality(reserved) \in Nat
  BY FS_CardinalityType, Zenon DEF FewReserved
<1>2. ASSUME NEW desc \in Descs, PortReserve(desc)
      PROVE  FewReserved'
  <2>1. reserved' = reserved \cup {desc} /\ Cardinality(reserved) < MAX_RESERVED
    BY <1>2, Zenon DEF PortReserve
  <2>2. /\ IsFiniteSet(reserved \cup {desc})
        /\ \/ Cardinality(reserved \cup {desc}) = Cardinality(reserved)
           \/ Cardinality(reserved \cup {desc}) = Cardinality(reserved) + 1
    BY FS_AddElement, Zenon DEF FewReserved
  <2>. QED  BY <1>1, <2>1, <2>2, NetAssumption DEF FewReserved
<1>3. ASSUME NEW desc \in Descs, PortSend(desc)
      PROVE  FewReserved'
  <2>1. reserved' = reserved \ {desc} /\ desc \in reserved
    BY <1>3, Zenon DEF PortSend
  <2>2. IsFiniteSet(reserved \ {desc}) /\ Cardinality(reserved \ {desc}) = Cardinality(reserved) - 1
    BY <2>1, FS_RemoveElement, Zenon DEF FewReserved
  <2>. QED  BY <1>1, <2>1, <2>2, NetAssumption DEF FewReserved
<1>4. \/ \E desc \in Descs : PortReserve(desc)
      \/ \E desc \in Descs : PortSend(desc)
      \/ reserved' = reserved
  BY Zenon
     DEF Next, vars, netVars, HostEnable, HostReceive, Deliver, LbStep, CtrlToLb, CtrlSwitch, CtrlToCore,
         Transmit, LbCoreStep, RpuStep, Firmware
<1>. QED  BY <1>2, <1>3, <1>4, Zenon DEF FewReserved

LEMMA Invariance == Spec => [](Inv /\ FewReserved)
<1>1. Init => Inv /\ FewReserved
  <2>1. Init => FewReserved
    BY FS_EmptySet, NetAssumption DEF Init, FewReserved
  <2>. QED  BY <2>1, InvInit, Zenon
<1>2. Inv /\ FewReserved /\ [Next]_vars => (Inv /\ FewReserved)'
  BY InvStep, ReservedStep, Zenon
<1>. QED  BY <1>1, <1>2, PTL DEF Spec

-----------------------------------------------------------------------------
(* Places, of the slot loop, and At agree.                                 *)
LEMMA PlacesAre ==
  ASSUME NEW c \in Cores, NEW s, NEW p
  PROVE  p \in Places(c, s) <=> \E x, r, d, i : p = <<x, r, d, i>> /\ At(x, r, d, i, c, s)
<1> DEFINE Is(x, r, d, i) == p = <<x, r, d, i>>
           InFree == \E r, d, i : Is("free", r, d, i) /\ AtFree(r, d, i, c, s)
           InHeld == \E r, d, i : Is("held", r, d, i) /\ AtHeld(r, d, i, c, s)
           InReserved == \E r, d, i : Is("reserved", r, d, i) /\ AtReserved(r, d, i, c, s)
           InNet == \E r, d, i : Is("in_net", r, d, i) /\ AtNet(r, d, i, c, s)
           InRecvd == \E r, d, i : Is("recvd_data", r, d, i) /\ AtRecvd(r, d, i, c, s)
           InInDesc == \E r, d, i : Is("in_desc", r, d, i) /\ AtInDesc(r, d, i, c, s)
           InSendData == \E r, d, i : Is("send_data", r, d, i) /\ AtSendData(r, d, i, c, s)
           InSendCtrl == \E r, d, i : Is("send_ctrl", r, d, i) /\ AtSendCtrl(r, d, i, c, s)
           InCtrlM == \E r, d, i : Is("ctrl_m", r, d, i) /\ AtCtrlM(r, d, i, c, s)
           InCtrlS == \E r, d, i : Is("ctrl_s", r, d, i) /\ AtCtrlS(r, d, i, c, s)
           InRecvdCtrl == \E r, d, i : Is("recvd_ctrl", r, d, i) /\ AtRecvdCtrl(r, d, i, c, s)
           InSending == \E r, d, i : Is("sending", r, d, i) /\ AtSending(r, d, i, c, s)
           InSent == \E r, d, i : Is("pkt_sent", r, d, i) /\ AtSent(r, d, i, c, s)
           InToLb == \E r, d, i : Is("to_lb", r, d, i) /\ AtToLb(r, d, i, c, s)
           InPktDone == \E r, d, i : Is("pkt_done", r, d, i) /\ AtPktDone(r, d, i, c, s)
           InArbOut == \E r, d, i : Is("arb_out", r, d, i) /\ AtArbOut(r, d, i, c, s)
           InCtrlOut == \E r, d, i : Is("ctrl_out", r, d, i) /\ AtCtrlOut(r, d, i, c, s)
           InToCore == \E r, d, i : Is("to_core", r, d, i) /\ AtToCore(r, d, i, c, s)
           InArbIn == \E r, d, i : Is("arb_in", r, d, i) /\ AtArbIn(r, d, i, c, s)
<1>1. InFree <=> \/ p \in Items("free", "own", c, {s} \cap free[c])
  BY Zenon DEF Items, AtFree
<1>2. InHeld <=> \/ p \in Items("held", "own", c, {s} \cap held[c])
  BY Zenon DEF Items, AtHeld
<1>3. InReserved <=> \/ p \in Items("reserved", "own", c, {i \in {s} : [core |-> c, slot |-> i] \in reserved})
  BY Zenon DEF Items, AtReserved
<1>4. InNet <=> \/ p \in Items("in_net", "own", c, {i \in {s} : [core |-> c, slot |-> i] \in in_net})
  BY Zenon DEF Items, AtNet
<1>5. InRecvd <=> \/ p \in Items("recvd_data", "own", c, {i \in DOMAIN recvd_data_fifo[c] : recvd_data_fifo[c][i] = s})
  BY Zenon DEF Items, AtRecvd
<1>6. InInDesc <=> \/ p \in Items("in_desc", "own", c, {i \in DOMAIN in_desc_r[c] : in_desc_r[c][i] = s})
  BY Zenon DEF Items, AtInDesc
<1>7. InSendData <=> \/ p \in Items("send_data", "own", c, {i \in DOMAIN send_data_fifo[c] : send_data_fifo[c][i].slot = s})
  BY Zenon DEF Items, AtSendData
<1>8. InSendCtrl <=> \/ p \in Items("send_ctrl", "own", c, {i \in DOMAIN send_ctrl_fifo[c] : HasAsk(send_ctrl_fifo[c][i], s)})
  BY Zenon DEF Items, AtSendCtrl
<1>9. InCtrlM <=> \/ p \in Items("ctrl_m", "own", c, {i \in DOMAIN ctrl_m_r[c] : HasAsk(ctrl_m_r[c][i], s)})
                  \/ p \in Items("ctrl_m", "done", c, {i \in DOMAIN ctrl_m_r[c] : HasDone(ctrl_m_r[c][i], s)})
  BY Zenon DEF Items, AtCtrlM, HasMsg
<1>10. InCtrlS <=> \/ p \in Items("ctrl_s", "own", c, {i \in DOMAIN ctrl_s_r[c] : ctrl_s_r[c][i].slot = s})
                   \/ (\E d \in Cores : p \in Items("ctrl_s", "new", d, {i \in DOMAIN ctrl_s_r[d] : HasNew(ctrl_s_r[d][i], c, s)}))
  BY Zenon DEF Items, AtCtrlS, HasOrder
<1>11. InRecvdCtrl <=> \/ p \in Items("recvd_ctrl", "own", c, {i \in DOMAIN recvd_ctrl_fifo[c] : recvd_ctrl_fifo[c][i].slot = s})
                       \/ (\E d \in Cores : p \in Items("recvd_ctrl", "new", d, {i \in DOMAIN recvd_ctrl_fifo[d] : HasNew(recvd_ctrl_fifo[d][i], c, s)}))
  BY Zenon DEF Items, AtRecvdCtrl, HasOrder
<1>12. InSending <=> \/ p \in Items("sending", "own", c, {i \in DOMAIN sending[c] : sending[c][i].slot = s})
                     \/ (\E d \in Cores : p \in Items("sending", "new", d, {i \in DOMAIN sending[d] : HasNew(sending[d][i], c, s)}))
  BY Zenon DEF Items, AtSending, HasOrder
<1>13. InSent <=> \/ p \in Items("pkt_sent", "own", c, {i \in DOMAIN pkt_sent_fifo[c] : pkt_sent_fifo[c][i] = s})
  BY Zenon DEF Items, AtSent
<1>14. InToLb <=> \/ p \in Items("to_lb", "own", 0, {i \in DOMAIN to_lb : to_lb[i].src = c /\ HasAsk(to_lb[i].msg, s)})
                  \/ p \in Items("to_lb", "done", 0, {i \in DOMAIN to_lb : to_lb[i].src = c /\ HasDone(to_lb[i].msg, s)})
  BY Zenon DEF Items, AtToLb, HasMsg
<1>15. InPktDone <=> \/ p \in Items("pkt_done", "own", 0, {i \in DOMAIN pkt_done_fifo : HasReq(pkt_done_fifo[i], c, s)})
  BY Zenon DEF Items, AtPktDone
<1>16. InArbOut <=> \/ p \in Items("arb_out", "own", 0, {i \in DOMAIN arb_out : HasOwn(arb_out[i], c, s)})
                    \/ p \in Items("arb_out", "new", 0, {i \in DOMAIN arb_out : HasNew(arb_out[i], c, s)})
  BY Zenon DEF Items, AtArbOut, HasAnswer
<1>17. InCtrlOut <=> \/ p \in Items("ctrl_out", "own", 0, {i \in DOMAIN ctrl_out_r : HasOwn(ctrl_out_r[i], c, s)})
                     \/ p \in Items("ctrl_out", "new", 0, {i \in DOMAIN ctrl_out_r : HasNew(ctrl_out_r[i], c, s)})
  BY Zenon DEF Items, AtCtrlOut, HasAnswer
<1>18. InToCore <=> \/ (\E d \in Cores : p \in Items("to_core", "own", d, {i \in DOMAIN pkt_to_core_fifo[d] : HasReq(pkt_to_core_fifo[d][i], c, s)}))
  BY Zenon DEF Items, AtToCore
<1>19. InArbIn <=> \/ (\E d \in Cores : p \in Items("arb_in", "own", d, {i \in DOMAIN arb_in[d] : HasOwn(arb_in[d][i], c, s)}))
                   \/ (\E d \in Cores : p \in Items("arb_in", "new", d, {i \in DOMAIN arb_in[d] : HasNew(arb_in[d][i], c, s)}))
  BY Zenon DEF Items, AtArbIn, HasAnswer
<1> HIDE DEF Is
<1>20. p \in Places(c, s) <=> \/ InFree \/ InHeld \/ InReserved \/ InNet \/ InRecvd \/ InInDesc \/ InSendData
                              \/ InSendCtrl \/ InCtrlM \/ InCtrlS \/ InRecvdCtrl \/ InSending \/ InSent
                              \/ InToLb \/ InPktDone \/ InArbOut \/ InCtrlOut \/ InToCore \/ InArbIn
  <2> HIDE DEF InFree, InHeld, InReserved, InNet, InRecvd, InInDesc, InSendData, InSendCtrl, InCtrlM, InCtrlS, InRecvdCtrl, InSending, InSent, InToLb, InPktDone, InArbOut, InCtrlOut, InToCore, InArbIn
  <2>1. p \in SetPlaces(c, s) <=> InFree \/ InHeld \/ InReserved \/ InNet
    BY <1>1, <1>2, <1>3, <1>4, ZenonT(30) DEF SetPlaces
  <2>2. p \in RpuPlaces(c, s) \/ (\E d \in Cores : p \in PlacesOf(d, c, s))
          <=> \/ InRecvd \/ InInDesc \/ InSendData \/ InSendCtrl \/ InCtrlM \/ InCtrlS
              \/ InRecvdCtrl \/ InSending \/ InSent \/ InToCore \/ InArbIn
    BY <1>5, <1>6, <1>7, <1>8, <1>9, <1>10, <1>11, <1>12, <1>13, <1>18, <1>19, ZenonT(30)
       DEF RpuPlaces, PlacesOf
  <2>3. p \in LbPlaces(c, s) <=> InToLb \/ InPktDone \/ InArbOut \/ InCtrlOut
    BY <1>14, <1>15, <1>16, <1>17, ZenonT(30) DEF LbPlaces
  <2>4. p \in Places(c, s) <=> \/ p \in SetPlaces(c, s) \/ p \in LbPlaces(c, s)
                               \/ p \in RpuPlaces(c, s) \/ (\E d \in Cores : p \in PlacesOf(d, c, s))
    BY Zenon DEF Places
  <2>. QED  BY <2>1, <2>2, <2>3, <2>4, ZenonT(30)
<1>21. ASSUME NEW x, NEW r, NEW d, NEW i, Is(x, r, d, i), At(x, r, d, i, c, s)
      PROVE  \/ InFree \/ InHeld \/ InReserved \/ InNet \/ InRecvd \/ InInDesc \/ InSendData
             \/ InSendCtrl \/ InCtrlM \/ InCtrlS \/ InRecvdCtrl \/ InSending \/ InSent
             \/ InToLb \/ InPktDone \/ InArbOut \/ InCtrlOut \/ InToCore \/ InArbIn
  BY <1>21, ZenonT(30) DEF At
<1>22. ASSUME \/ InFree \/ InHeld \/ InReserved \/ InNet \/ InRecvd \/ InInDesc \/ InSendData
              \/ InSendCtrl \/ InCtrlM \/ InCtrlS \/ InRecvdCtrl \/ InSending \/ InSent
              \/ InToLb \/ InPktDone \/ InArbOut \/ InCtrlOut \/ InToCore \/ InArbIn
      PROVE  \E x, r, d, i : Is(x, r, d, i) /\ At(x, r, d, i, c, s)
  BY <1>22, ZenonT(30) DEF At
<1>. QED  BY <1>20, <1>21, <1>22, ZenonT(30) DEF Is

LEMMA PlacesCounted ==
  ASSUME NEW c \in Cores, NEW s
  PROVE  /\ Nowhere(c, s) => Places(c, s) = {} /\ Cardinality(Places(c, s)) = 0
         /\ Once(c, s) => Places(c, s) # {} /\ Cardinality(Places(c, s)) = 1
<1>1. ASSUME Nowhere(c, s)
      PROVE  Places(c, s) = {}
  BY <1>1, PlacesAre, Zenon DEF Nowhere
<1>2. ASSUME Once(c, s)
      PROVE  \E p : Places(c, s) = {p}
  <2>1. PICK x, r, d, i :
         /\ At(x, r, d, i, c, s)
         /\ \A y, q, e, j : At(y, q, e, j, c, s) => y = x /\ q = r /\ e = d /\ j = i
    BY <1>2, Zenon DEF Once
  <2>2. <<x, r, d, i>> \in Places(c, s)
    BY <2>1, PlacesAre, ZenonT(30)
  <2>3. ASSUME NEW p \in Places(c, s)
        PROVE  p = <<x, r, d, i>>
    <3>1. PICK y, q, e, j : p = <<y, q, e, j>> /\ At(y, q, e, j, c, s)
      BY PlacesAre, Zenon
    <3>. QED  BY <2>1, <3>1
  <2>. QED  BY <2>2, <2>3, Zenon
<1>3. \A p : Cardinality({p}) = 1 /\ {p} # {}
  BY FS_Singleton, Zenon
<1>. QED  BY <1>1, <1>2, <1>3, FS_EmptySet, ZenonT(30)

LEMMA OnePlace ==
  ASSUME Inv
  PROVE  SlotInOnePlace
<1> SUFFICES ASSUME NEW c \in Cores, NEW s \in Slots
             PROVE  Cardinality(Places(c, s)) = IF Initialised(c) THEN 1 ELSE 0
  BY Zenon DEF SlotInOnePlace
<1>1. CASE Off(c)
  <2>1. Nowhere(c, s) /\ c \notin booted
    BY <1>1, Zenon DEF Off, Unused
  <2>. QED  BY <2>1, PlacesCounted, Zenon DEF Initialised
<1>2. CASE Starting(c)
  <2>1. Nowhere(c, s) /\ Once(c, 0)
    BY <1>2, Zenon DEF Starting, Unused
  <2>. QED  BY <2>1, PlacesCounted, Zenon DEF Initialised
<1>3. CASE Running(c)
  <2>1. Once(c, s) /\ Nowhere(c, 0) /\ c \in booted
    BY <1>3, Zenon DEF Running
  <2>. QED  BY <2>1, PlacesCounted, Zenon DEF Initialised
<1>4. Off(c) \/ Starting(c) \/ Running(c)
  BY Zenon DEF Inv
<1>. QED  BY <1>1, <1>2, <1>3, <1>4, ZenonT(30)

(* A slot is never lost and never has two users: once its core's           *)
(* initialisation message has reached the load balancer, every slot is in  *)
(* exactly one of the queues, registers and sets of the loop, and before   *)
(* that in none, for any number of cores and slots, any mix of the paths   *)
(* of firmware and any interleaving.                                       *)
THEOREM SlotsHaveOnePlace == Spec => []SlotInOnePlace
<1>1. Inv => SlotInOnePlace
  BY OnePlace, Zenon
<1>. QED  BY <1>1, Invariance, PTL

-----------------------------------------------------------------------------
\* F lists the own slots of core c in the queue x.
Listed(x, c, F, n) == \A i \in 1 .. n : F[i] \in Slots /\ At(x, "own", c, i, c, F[i])

\* Some slot of core c is in the place y.
Waits(y, c) == \E s \in Slots : \E r, d, i : At(y, r, d, i, c, s)

(* A queue of slots has room for a slot that waits for it.                 *)
LEMMA RoomForSlot ==
  ASSUME Inv, NEW c \in Cores, NEW x, NEW y, x # y, NEW n \in Nat, NEW S, NEW F \in [1 .. n -> S],
         Listed(x, c, F, n), Waits(y, c)
  PROVE  n < SLOT_COUNT
<1>1. PICK t \in Slots : \E r, d, i : At(y, r, d, i, c, t)
  BY Zenon DEF Waits
<1>2. Slots \subseteq 0 .. SLOT_COUNT
  BY CountsAssumption DEF Slots
<1>3. F \in [1 .. n -> Slots]
  BY Zenon DEF Listed
<1>4. ASSUME NEW j \in 1 .. n, NEW k \in 1 .. n, F[j] = F[k]
      PROVE  j = k
  <2>1. PICK s \in Slots : s = F[j] /\ At(x, "own", c, j, c, s) /\ At(x, "own", c, k, c, s)
    BY <1>4, Zenon DEF Listed
  <2>. QED  BY <1>2, <2>1, Elsewhere, ZenonT(30)
<1>5. ASSUME NEW j \in 1 .. n, F[j] = t
      PROVE  FALSE
  <2>1. At(x, "own", c, j, c, t)
    BY <1>5, Zenon DEF Listed
  <2>. QED  BY <1>1, <1>2, <2>1, Elsewhere, ZenonT(30)
<1>6. Distinct(F, n, Slots, t)
  BY <1>3, <1>4, <1>5, Zenon DEF Distinct
<1>. QED  BY <1>6, FiniteSlots, QueueBound, Zenon

(* The places that slots wait in.                                          *)
LEMMA Waiting ==
  ASSUME Inv, NEW c \in Cores
  PROVE  /\ (\E desc \in in_net : desc.core = c) => Waits("in_net", c)
         /\ held[c] # {} => Waits("held", c)
         /\ ctrl_s_r[c] # <<>> => Waits("ctrl_s", c)
         /\ ctrl_out_r # <<>> /\ Head(ctrl_out_r).core = c => Waits("ctrl_out", c)
         /\ recvd_ctrl_fifo[c] # <<>> => Waits("recvd_ctrl", c)
         /\ send_data_fifo[c] # <<>> => Waits("send_data", c)
<1>1. ASSUME NEW desc \in in_net, desc.core = c
      PROVE  Waits("in_net", c)
  <2>1. PICK t \in Slots : desc = [core |-> c, slot |-> t]
    BY <1>1, Zenon DEF Inv, TypeInv, NetType, Descs
  <2>2. AtNet("own", c, t, c, t)
    BY <2>1, Zenon DEF AtNet
  <2>3. At("in_net", "own", c, t, c, t)
    BY <2>2, Zenon DEF At
  <2>. QED  BY <2>3, Zenon DEF Waits
<1>2. ASSUME NEW t \in held[c]
      PROVE  Waits("held", c)
  <2>1. t \in Slots /\ AtHeld("own", c, t, c, t)
    BY Zenon DEF Inv, TypeInv, RecvType, AtHeld
  <2>2. At("held", "own", c, t, c, t)
    BY <2>1, Zenon DEF At
  <2>. QED  BY <2>1, <2>2, Zenon DEF Waits
<1>3. ASSUME ctrl_s_r[c] # <<>>
      PROVE  Waits("ctrl_s", c)
  <2>1. ctrl_s_r[c] \in Seq(Orders)
    BY Zenon DEF Inv, TypeInv, SendType
  <2>2. 1 \in DOMAIN ctrl_s_r[c] /\ ctrl_s_r[c][1] \in Orders
    BY <1>3, <2>1
  <2>3. PICK t \in Slots : t = ctrl_s_r[c][1].slot
    BY <2>2, Zenon DEF Orders
  <2>4. AtCtrlS("own", c, 1, c, t)
    BY <2>2, <2>3, ZenonT(30) DEF AtCtrlS, HasOrder
  <2>5. At("ctrl_s", "own", c, 1, c, t)
    BY <2>4, Zenon DEF At
  <2>. QED  BY <2>5, Zenon DEF Waits
<1>4. ASSUME ctrl_out_r # <<>>, Head(ctrl_out_r).core = c
      PROVE  Waits("ctrl_out", c)
  <2>1. ctrl_out_r \in Seq(Answers)
    BY Zenon DEF Inv, TypeInv, LbType
  <2>2. 1 \in DOMAIN ctrl_out_r /\ ctrl_out_r[1] \in Answers /\ ctrl_out_r[1].core = c
    BY <1>4, <2>1
  <2>3. PICK t \in Slots : t = ctrl_out_r[1].slot
    BY <2>2, Zenon DEF Answers
  <2>4. AtCtrlOut("own", 0, 1, c, t)
    BY <2>2, <2>3, Zenon DEF AtCtrlOut, HasAnswer, HasOwn
  <2>5. At("ctrl_out", "own", 0, 1, c, t)
    BY <2>4, Zenon DEF At
  <2>. QED  BY <2>5, Zenon DEF Waits
<1>5. ASSUME recvd_ctrl_fifo[c] # <<>>
      PROVE  Waits("recvd_ctrl", c)
  <2>1. recvd_ctrl_fifo[c] \in Seq(Orders)
    BY ZenonT(30) DEF Inv, TypeInv, SendType
  <2>2. 1 \in DOMAIN recvd_ctrl_fifo[c] /\ recvd_ctrl_fifo[c][1] \in Orders
    BY <1>5, <2>1
  <2>3. PICK t \in Slots : t = recvd_ctrl_fifo[c][1].slot
    BY <2>2, Zenon DEF Orders
  <2>4. AtRecvdCtrl("own", c, 1, c, t)
    BY <2>2, <2>3, Zenon DEF AtRecvdCtrl, HasOrder
  <2>5. At("recvd_ctrl", "own", c, 1, c, t)
    BY <2>4, Zenon DEF At
  <2>. QED  BY <2>5, Zenon DEF Waits
<1>6. ASSUME send_data_fifo[c] # <<>>
      PROVE  Waits("send_data", c)
  <2>1. send_data_fifo[c] \in Seq(SendOrders)
    BY Zenon DEF Inv, TypeInv, SendType
  <2>2. 1 \in DOMAIN send_data_fifo[c] /\ send_data_fifo[c][1] \in SendOrders
    BY <1>6, <2>1
  <2>3. PICK t \in Slots : t = send_data_fifo[c][1].slot
    BY <2>2, Zenon DEF SendOrders, Orders
  <2>4. AtSendData("own", c, 1, c, t)
    BY <2>2, <2>3, Zenon DEF AtSendData
  <2>5. At("send_data", "own", c, 1, c, t)
    BY <2>4, Zenon DEF At
  <2>. QED  BY <2>5, Zenon DEF Waits
<1>. QED  BY <1>1, <1>2, <1>3, <1>4, <1>5, <1>6, ZenonT(30)

(* The slots that the queues list.                                         *)
LEMMA RoomForRecvd ==
  ASSUME Inv, NEW c \in Cores, NEW y, y # "recvd_data", Waits(y, c)
  PROVE  Len(recvd_data_fifo[c]) < SLOT_COUNT
<1> DEFINE F == recvd_data_fifo[c]
           n == Len(recvd_data_fifo[c])
<1>1. n \in Nat /\ F \in [1 .. n -> Slots] /\ DOMAIN F = 1 .. n
  BY DEF Inv, TypeInv, RecvType
<1>2. ASSUME NEW i \in 1 .. n
      PROVE  F[i] \in Slots /\ At("recvd_data", "own", c, i, c, F[i])
  BY <1>1, Zenon DEF At, AtRecvd
<1> HIDE DEF F, n
<1>3. Listed("recvd_data", c, F, n)
  BY <1>2, Zenon DEF Listed
<1>4. n < SLOT_COUNT
  BY <1>1, <1>3, RoomForSlot, ZenonT(30)
<1>. QED  BY <1>4, Zenon DEF n

LEMMA RoomForSent ==
  ASSUME Inv, NEW c \in Cores, NEW y, y # "pkt_sent", Waits(y, c)
  PROVE  Len(pkt_sent_fifo[c]) < SLOT_COUNT
<1> DEFINE F == pkt_sent_fifo[c]
           n == Len(pkt_sent_fifo[c])
<1>1. n \in Nat /\ F \in [1 .. n -> Slots] /\ DOMAIN F = 1 .. n
  BY DEF Inv, TypeInv, SendType
<1>2. ASSUME NEW i \in 1 .. n
      PROVE  F[i] \in Slots /\ At("pkt_sent", "own", c, i, c, F[i])
  BY <1>1, Zenon DEF At, AtSent
<1> HIDE DEF F, n
<1>3. Listed("pkt_sent", c, F, n)
  BY <1>2, Zenon DEF Listed
<1>4. n < SLOT_COUNT
  BY <1>1, <1>3, RoomForSlot, Zenon
<1>. QED  BY <1>4, Zenon DEF n

LEMMA RoomForOrder ==
  ASSUME Inv, NEW c \in Cores, NEW y, y # "recvd_ctrl", Waits(y, c)
  PROVE  Len(recvd_ctrl_fifo[c]) < SLOT_COUNT
<1> DEFINE n == Len(recvd_ctrl_fifo[c])
           F == [i \in 1 .. n |-> recvd_ctrl_fifo[c][i].slot]
<1>1. n \in Nat /\ recvd_ctrl_fifo[c] \in [1 .. n -> Orders] /\ DOMAIN recvd_ctrl_fifo[c] = 1 .. n
  BY DEF Inv, TypeInv, SendType
<1>2. F \in [1 .. n -> Slots]
  BY <1>1, Zenon DEF Orders
<1>3. ASSUME NEW i \in 1 .. n
      PROVE  F[i] \in Slots /\ At("recvd_ctrl", "own", c, i, c, F[i])
  <2>1. F[i] \in Slots
    BY <1>2, Zenon
  <2>2. AtRecvdCtrl("own", c, i, c, F[i])
    BY <1>1, Zenon DEF AtRecvdCtrl, HasOrder
  <2>. QED  BY <2>1, <2>2, Zenon DEF At
<1> HIDE DEF F, n
<1>4. Listed("recvd_ctrl", c, F, n)
  BY <1>3, Zenon DEF Listed
<1>5. n < SLOT_COUNT
  BY <1>1, <1>2, <1>4, RoomForSlot, ZenonT(30)
<1>. QED  BY <1>5, Zenon DEF n

LEMMA RoomToSend ==
  ASSUME Inv, NEW c \in Cores, NEW y, y # "send_data", Waits(y, c)
  PROVE  Len(send_data_fifo[c]) < SLOT_COUNT
<1> DEFINE n == Len(send_data_fifo[c])
           F == [i \in 1 .. n |-> send_data_fifo[c][i].slot]
<1>1. n \in Nat /\ send_data_fifo[c] \in [1 .. n -> SendOrders] /\ DOMAIN send_data_fifo[c] = 1 .. n
  BY DEF Inv, TypeInv, SendType
<1>2. F \in [1 .. n -> Slots]
  BY <1>1, Zenon DEF SendOrders, Orders
<1>3. ASSUME NEW i \in 1 .. n
      PROVE  F[i] \in Slots /\ At("send_data", "own", c, i, c, F[i])
  <2>1. F[i] \in Slots
    BY <1>2, Zenon
  <2>2. AtSendData("own", c, i, c, F[i])
    BY <1>1, Zenon DEF AtSendData
  <2>. QED  BY <2>1, <2>2, Zenon DEF At
<1> HIDE DEF F, n
<1>4. Listed("send_data", c, F, n)
  BY <1>3, Zenon DEF Listed
<1>5. n < SLOT_COUNT
  BY <1>1, <1>2, <1>4, RoomForSlot, ZenonT(30)
<1>. QED  BY <1>5, Zenon DEF n

(* A core with a slot in use has no initialisation message on its way.     *)
LEMMA RoomToAsk ==
  ASSUME Inv, NEW c \in Cores, NEW y, y # "send_ctrl", Waits(y, c)
  PROVE  Len(send_ctrl_fifo[c]) < SLOT_COUNT
<1> DEFINE n == Len(send_ctrl_fifo[c])
           F == [i \in 1 .. n |-> send_ctrl_fifo[c][i].slot]
<1>1. n \in Nat /\ send_ctrl_fifo[c] \in [1 .. n -> SendMsgs(c)] /\ DOMAIN send_ctrl_fifo[c] = 1 .. n
  <2>1. send_ctrl_fifo[c] \in Seq(SendMsgs(c))
    BY Zenon DEF Inv, TypeInv, SendType
  <2>. QED  BY <2>1
<1>2. F \in [1 .. n -> Slots]
  BY <1>1, Zenon DEF SendMsgs, Msgs
<1>3. Nowhere(c, 0)
  <2>1. PICK s \in Slots : \E r, d, i : At(y, r, d, i, c, s)
    BY Zenon DEF Waits
  <2>2. s \in 0 .. SLOT_COUNT /\ s # 0
    BY CountsAssumption DEF Slots
  <2>3. Running(c)
    BY <2>1, <2>2, Elsewhere, ZenonT(30)
  <2>. QED  BY <2>3, Zenon DEF Running
<1>4. ASSUME NEW i \in 1 .. n
      PROVE  F[i] \in Slots /\ At("send_ctrl", "own", c, i, c, F[i])
  <2>1. F[i] \in Slots /\ F[i] = send_ctrl_fifo[c][i].slot
    BY <1>2, Zenon
  <2>2. send_ctrl_fifo[c][i].type # 0
    BY <1>1, Zenon DEF SendMsgs
  <2>3. ~AtSendCtrl("own", c, i, c, 0)
    BY <1>3, Zenon DEF Nowhere, At
  <2>4. send_ctrl_fifo[c][i].type # 3
    BY <1>1, <2>2, <2>3, Zenon DEF AtSendCtrl, HasAsk
  <2>5. AtSendCtrl("own", c, i, c, F[i])
    BY <1>1, <2>1, <2>2, <2>4, ZenonT(30) DEF AtSendCtrl, HasAsk
  <2>. QED  BY <2>1, <2>5, ZenonT(30) DEF At
<1> HIDE DEF F, n
<1>5. Listed("send_ctrl", c, F, n)
  BY <1>4, Zenon DEF Listed
<1>6. n < SLOT_COUNT
  BY <1>1, <1>2, <1>5, RoomForSlot, ZenonT(30)
<1>. QED  BY <1>6, Zenon DEF n

LEMMA RoomEverywhere ==
  ASSUME Inv
  PROVE  AlwaysRoom
<1>0. /\ {RECV_DESC_DEPTH, SEND_DESC_DEPTH, SLOT_COUNT} \subseteq Nat
      /\ SLOT_COUNT <= RECV_DESC_DEPTH /\ SLOT_COUNT <= SEND_DESC_DEPTH
  BY DepthAssumption, CountsAssumption, Zenon
<1> SUFFICES ASSUME NEW c \in Cores
             PROVE  /\ (\E desc \in in_net : desc.core = c)
                         => Len(recvd_data_fifo[c]) < RECV_DESC_DEPTH
                    /\ held[c] # {} => /\ Len(send_data_fifo[c]) < SEND_DESC_DEPTH
                                       /\ Len(send_ctrl_fifo[c]) < SEND_DESC_DEPTH
                    /\ (ctrl_s_r[c] # <<>> \/ (ctrl_out_r # <<>> /\ Head(ctrl_out_r).core = c))
                         => Len(recvd_ctrl_fifo[c]) < RECV_DESC_DEPTH
                    /\ (sending[c] # <<>> \/ send_pkt_valid(c))
                         => Len(pkt_sent_fifo[c]) < SEND_DESC_DEPTH
                    /\ (to_lb # <<>> /\ Head(to_lb).msg.type = 2 /\ Head(to_lb).msg.dest = c)
                         => c \in to_core_room
  BY Zenon DEF AlwaysRoom
<1>1. /\ Len(recvd_data_fifo[c]) \in Nat /\ Len(send_data_fifo[c]) \in Nat
      /\ Len(recvd_ctrl_fifo[c]) \in Nat /\ Len(pkt_sent_fifo[c]) \in Nat
  BY DEF Inv, TypeInv, RecvType, SendType
<1>2. Len(send_ctrl_fifo[c]) \in Nat
  <2>1. send_ctrl_fifo[c] \in Seq(SendMsgs(c))
    BY Zenon DEF Inv, TypeInv, SendType
  <2>. QED  BY <2>1
<1>3. ASSUME \E desc \in in_net : desc.core = c
      PROVE  Len(recvd_data_fifo[c]) < RECV_DESC_DEPTH
  <2>1. Waits("in_net", c) /\ "in_net" # "recvd_data"
    BY <1>3, Waiting, Zenon
  <2>2. Len(recvd_data_fifo[c]) < SLOT_COUNT
    BY <2>1, RoomForRecvd, Zenon
  <2>. QED  BY <1>0, <1>1, <2>2
<1>4. ASSUME held[c] # {}
      PROVE  Len(send_data_fifo[c]) < SEND_DESC_DEPTH /\ Len(send_ctrl_fifo[c]) < SEND_DESC_DEPTH
  <2>1. Waits("held", c) /\ "held" # "send_data" /\ "held" # "send_ctrl"
    BY <1>4, Waiting, Zenon
  <2>2. Len(send_data_fifo[c]) < SLOT_COUNT
    BY <2>1, RoomToSend, Zenon
  <2>3. Len(send_ctrl_fifo[c]) < SLOT_COUNT
    BY <2>1, RoomToAsk, Zenon
  <2>. QED  BY <1>0, <1>1, <1>2, <2>2, <2>3
<1>5. ASSUME ctrl_s_r[c] # <<>> \/ (ctrl_out_r # <<>> /\ Head(ctrl_out_r).core = c)
      PROVE  Len(recvd_ctrl_fifo[c]) < RECV_DESC_DEPTH
  <2>1. PICK y \in {"ctrl_s", "ctrl_out"} : Waits(y, c)
    BY <1>5, Waiting, Zenon
  <2>2. y # "recvd_ctrl"
    BY Zenon
  <2>3. Len(recvd_ctrl_fifo[c]) < SLOT_COUNT
    BY <2>1, <2>2, RoomForOrder, Zenon
  <2>. QED  BY <1>0, <1>1, <2>3
<1>6. ASSUME send_pkt_valid(c)
      PROVE  Len(pkt_sent_fifo[c]) < SEND_DESC_DEPTH
  <2>1. PICK y \in {"recvd_ctrl", "send_data"} : Waits(y, c)
    BY <1>6, Waiting, Zenon DEF send_pkt_valid
  <2>2. y # "pkt_sent"
    BY Zenon
  <2>3. Len(pkt_sent_fifo[c]) < SLOT_COUNT
    BY <2>1, <2>2, RoomForSent, ZenonT(30)
  <2>. QED  BY <1>0, <1>1, <2>3
<1>7. sending[c] # <<>> => Len(pkt_sent_fifo[c]) < SEND_DESC_DEPTH
  BY Zenon DEF Inv, TypeInv, SendType
<1>8. (to_lb # <<>> /\ Head(to_lb).msg.type = 2 /\ Head(to_lb).msg.dest = c) => c \in to_core_room
  BY RoomForRequest, Zenon
<1>. QED  BY <1>3, <1>4, <1>5, <1>6, <1>7, <1>8, ZenonT(30)

LEMMA Typed ==
  ASSUME Inv, FewReserved
  PROVE  TypeOK /\ NoSlotError
<1>1. NoSlotError
  BY Zenon DEF NoSlotError, Inv, TypeInv, RecvType
<1>2. /\ enabled_cores \subseteq Cores /\ income_cores \subseteq enabled_cores
      /\ free \in [Cores -> SUBSET Slots] /\ Len(pkt_done_fifo) <= PKT_DONE_DEPTH
      /\ Len(arb_out) <= ARB_OUT_DEPTH /\ Len(ctrl_out_r) <= 1 /\ last_selected \in {0, 1}
      /\ \A c \in Cores : Len(pkt_to_core_fifo[c]) <= PKT_TO_CORE_DEPTH /\ Len(arb_in[c]) <= 1
  BY Zenon DEF Inv, TypeInv, LbType
<1>3. /\ reserved \subseteq Descs /\ Cardinality(reserved) <= MAX_RESERVED /\ in_net \subseteq Descs
      /\ Len(to_lb) <= CTRL_NET_DEPTH
  BY Zenon DEF Inv, TypeInv, NetType, FewReserved
<1>4. /\ booted \subseteq Cores /\ held \in [Cores -> SUBSET Slots]
      /\ \A c \in Cores :
           /\ recvd_data_fifo[c] \in Seq(Slots) /\ in_desc_r[c] \in Seq(Slots)
           /\ Len(recvd_data_fifo[c]) <= RECV_DESC_DEPTH /\ Len(in_desc_r[c]) <= 1
           /\ slots_in_prog[c] \subseteq Slots /\ slots_to_send[c] \subseteq Slots
           /\ slot_errs[c] \subseteq {"override_in", "override_out", "invalid_out"}
  BY Zenon DEF Inv, TypeInv, RecvType
<1>5. \A c \in Cores :
        /\ pkt_sent_fifo[c] \in Seq(Slots)
        /\ Len(send_data_fifo[c]) <= SEND_DESC_DEPTH /\ Len(send_ctrl_fifo[c]) <= SEND_DESC_DEPTH
        /\ Len(ctrl_s_r[c]) <= 1 /\ Len(recvd_ctrl_fifo[c]) <= RECV_DESC_DEPTH
        /\ Len(sending[c]) <= 1 /\ Len(pkt_sent_fifo[c]) <= SEND_DESC_DEPTH
        /\ Len(ctrl_m_r[c]) <= 1
  BY Zenon DEF Inv, TypeInv, SendType
<1>6. TypeOK
  BY <1>2, <1>3, <1>4, <1>5, ZenonT(30) DEF TypeOK
<1>. QED  BY <1>1, <1>6, Zenon

(* Whoever has a slot, a descriptor or a request for one of the FIFOs of   *)
(* rpu_intercon.v and lb_controller.v finds room in it, and the slot error *)
(* registers stay clear, as long as the FIFOs have the depths that the     *)
(* code gives them.  In particular pkt_sent_fifo and the FIFOs of          *)
(* requests, which would drop what they cannot take, never do.             *)
THEOREM SlotsMeetRoom == Spec => []NoOverflow
<1>1. Inv /\ FewReserved => NoOverflow
  BY RoomEverywhere, Typed, Zenon DEF NoOverflow
<1>. QED  BY <1>1, Invariance, PTL
=============================================================================
