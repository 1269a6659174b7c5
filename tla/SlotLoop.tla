------------------------------ MODULE SlotLoop ------------------------------
(***************************************************************************)
(* The path of a slot through the system: LbController and the RpuIntercon *)
(* of every core, composed over the data and the control network.          *)
(*                                                                         *)
(* The policy module is left open: any port may hold the slot of any       *)
(* incoming core, and sends a packet to it at any time.  The data network  *)
(* (switches, loopback_msg_fifo) delivers packets in any order.  The       *)
(* control network to the load balancer grants the cores in any order and  *)
(* stores to_lb, whose head blocks what is behind it; towards the cores    *)
(* the output register of the load balancer does.                          *)
(***************************************************************************)
EXTENDS LbController, RpuIntercon

CONSTANTS
  MAX_RESERVED,      \* descriptors that the ports can hold together
  CTRL_NET_DEPTH     \* messages that the control network can store

ASSUME NetAssumption == MAX_RESERVED \in Nat /\ CTRL_NET_DEPTH \in Nat \ {0}

\* The requests that core d can get: one for each slot of the cores that send to it.
Requests(d) == {r \in [src : Cores, slot : Slots] : 2 \in Paths[r.src] /\ d \in Targets[r.src]}

(* The FIFOs for descriptors have SLOT_COUNT entries; those for requests   *)
(* too, which is enough when few cores send to the same one.               *)
ASSUME DepthAssumption ==
  /\ {PKT_DONE_DEPTH, PKT_TO_CORE_DEPTH, ARB_OUT_DEPTH, RECV_DESC_DEPTH, SEND_DESC_DEPTH}
       \subseteq Nat \ {0}
  /\ SLOT_COUNT <= RECV_DESC_DEPTH /\ SLOT_COUNT <= SEND_DESC_DEPTH
  /\ \A d \in Cores : Cardinality(Requests(d)) <= PKT_TO_CORE_DEPTH

(* Who sends to whom in the instances for TLC.  As inter_core.c, the first *)
(* half of the cores sends to the second half; either every core may use   *)
(* every path, or a core asks the load balancer for all of its packets or  *)
(* for none.                                                               *)
HalfToHalf == [c \in Cores |-> IF c < CORE_COUNT \div 2
                               THEN {c + CORE_COUNT \div 2} ELSE {}]
AllPaths   == [c \in Cores |-> {0, 1, 2}]
OnePath    == [c \in Cores |-> IF c < CORE_COUNT \div 2 THEN {1, 2} ELSE {0}]

VARIABLES
  reserved,   \* descriptors held by the ports
  in_net,     \* descriptors of packets on their way to a core
  to_lb       \* messages of the cores on their way to the load balancer

netVars == <<reserved, in_net, to_lb>>
vars    == <<lbVars, rpuVars, netVars>>

-----------------------------------------------------------------------------
HostEnable(S) ==
  /\ enabled_cores' = S
  /\ income_cores' = income_cores \cap S
  /\ UNCHANGED <<free, pkt_done_fifo, pkt_to_core_fifo, arb_in, arb_out,
                 last_selected, ctrl_out_r, rpuVars, netVars>>

HostReceive(S) ==
  /\ income_cores' = S \cap enabled_cores
  /\ UNCHANGED <<enabled_cores, free, pkt_done_fifo, pkt_to_core_fifo, arb_in,
                 arb_out, last_selected, ctrl_out_r, rpuVars, netVars>>

PortReserve(desc) ==
  /\ Cardinality(reserved) < MAX_RESERVED
  /\ PopDesc(desc)
  /\ reserved' = reserved \cup {desc}
  /\ UNCHANGED <<in_net, to_lb, rpuVars>>

PortSend(desc) ==
  /\ desc \in reserved
  /\ reserved' = reserved \ {desc}
  /\ in_net' = in_net \cup {desc}
  /\ UNCHANGED <<lbVars, rpuVars, to_lb>>

Deliver(desc) ==
  /\ desc \in in_net
  /\ RecvPacket(desc.core, desc.slot)
  /\ in_net' = in_net \ {desc}
  /\ UNCHANGED <<lbVars, reserved, to_lb>>

CtrlSwitch(c) ==
  /\ ctrl_m_r[c] # <<>> /\ Len(to_lb) < CTRL_NET_DEPTH
  /\ to_lb' = Append(to_lb, [src |-> c, msg |-> Head(ctrl_m_r[c])])
  /\ CtrlSent(c)
  /\ UNCHANGED <<lbVars, reserved, in_net>>

CtrlToLb ==
  /\ to_lb # <<>>
  /\ RecvCtrl(Head(to_lb).src, Head(to_lb).msg)
  /\ to_lb' = Tail(to_lb)
  /\ UNCHANGED <<rpuVars, reserved, in_net>>

CtrlToCore(c) ==
  /\ ctrl_out_r # <<>> /\ Head(ctrl_out_r).core = c
  /\ CtrlIn(c, Head(ctrl_out_r))
  /\ CtrlTaken
  /\ UNCHANGED netVars

(* A looped back packet goes to its new core.                              *)
Transmit(c) ==
  /\ SendDone(c)
  /\ in_net' = IF Head(sending[c]).cmd = "loopback"
               THEN in_net \cup {Head(sending[c]).desc} ELSE in_net
  /\ UNCHANGED <<lbVars, reserved, to_lb>>

LbStep == /\ SelectToCore \/ SelectPktDone
          /\ UNCHANGED <<rpuVars, netVars>>

LbCoreStep(d) == /\ PopForCore(d) \/ ArbGrant(d)
                 /\ UNCHANGED <<rpuVars, netVars>>

RpuStep(c) == /\ \/ InDesc(c) \/ ParseCtrl(c) \/ SendFromLb(c) \/ SendFromCore(c)
                 \/ ReportSent(c) \/ RequestSend(c)
              /\ UNCHANGED <<lbVars, netVars>>

Firmware(c) ==
  /\ \/ InitSlots(c)
     \/ read_in_pkt(c)
     \/ \E s \in Slots : pkt_send(c, s) \/ pkt_done_msg(c, s)
     \/ \E s \in Slots, d \in Cores : send_to_core(c, s, d)
  /\ UNCHANGED <<lbVars, netVars>>

Init == LbInit /\ RpuInit /\ reserved = {} /\ in_net = {} /\ to_lb = <<>>

(* The host enables the cores once, at any time after reset.               *)
Next ==
  \/ enabled_cores = {} /\ HostEnable(Cores)
  \/ income_cores = {} /\ enabled_cores # {} /\ HostReceive(Cores)
  \/ \E desc \in Descs : \/ PortReserve(desc) \/ PortSend(desc)
                         \/ Deliver(desc)
  \/ LbStep \/ CtrlToLb
  \/ \E c \in Cores : \/ CtrlSwitch(c) \/ CtrlToCore(c) \/ Transmit(c)
                      \/ LbCoreStep(c) \/ RpuStep(c) \/ Firmware(c)

Spec == Init /\ [][Next]_vars

-----------------------------------------------------------------------------
(* Fairness.  The hardware is clocked: a handshake both sides of which     *)
(* stay ready happens.  The control network grants the cores in turn, so a *)
(* message that it could take again and again is taken.  The firmware      *)
(* initialises its slots, polls for packets and gives every slot back.     *)
(* Nothing is assumed of the host, nor of the arrival of packets.          *)

GiveBack(c, s) ==
  /\ pkt_send(c, s) \/ pkt_done_msg(c, s) \/ \E d \in Cores : send_to_core(c, s, d)
  /\ UNCHANGED <<lbVars, netVars>>

Fairness ==
  /\ \A desc \in Descs : WF_vars(Deliver(desc))
  /\ WF_vars(LbStep) /\ WF_vars(CtrlToLb)
  /\ \A c \in Cores :
       /\ SF_vars(CtrlSwitch(c)) /\ WF_vars(LbCoreStep(c))
       /\ WF_vars(CtrlToCore(c)) /\ WF_vars(Transmit(c))
       /\ WF_vars(InDesc(c) /\ UNCHANGED <<lbVars, netVars>>)
       /\ WF_vars(ParseCtrl(c) /\ UNCHANGED <<lbVars, netVars>>)
       /\ WF_vars(SendFromLb(c) /\ UNCHANGED <<lbVars, netVars>>)
       /\ WF_vars(SendFromCore(c) /\ UNCHANGED <<lbVars, netVars>>)
       /\ WF_vars(ReportSent(c) /\ UNCHANGED <<lbVars, netVars>>)
       /\ WF_vars(RequestSend(c) /\ UNCHANGED <<lbVars, netVars>>)
       /\ WF_vars(InitSlots(c) /\ UNCHANGED <<lbVars, netVars>>)
       /\ WF_vars(read_in_pkt(c) /\ UNCHANGED <<lbVars, netVars>>)
       /\ \A s \in Slots : WF_vars(GiveBack(c, s))

FairSpec == Spec /\ Fairness

-----------------------------------------------------------------------------
(* Where slot s of core c is.  A message or descriptor has a slot of its   *)
(* own, which a release gives back ("done"), and it may bring a new one,   *)
(* of the core that the packet goes to.  Slot 0 stands for the             *)
(* initialisation message.  In a queue of core d, Items are the indexes of *)
(* the items that have the slot.                                           *)
Items(name, role, d, indexes) == {<<name, role, d, i>> : i \in indexes}

HasDone(m, s)     == m.type = 0 /\ m.slot = s
HasAsk(m, s)      == m.type # 0 /\ s = (IF m.type = 3 THEN 0 ELSE m.slot)
HasNew(m, c, s)   == m.cmd = "loopback" /\ m.desc = [core |-> c, slot |-> s]
HasReq(r, c, s)   == r.src = c /\ r.slot = s
HasOwn(m, c, s)   == m.core = c /\ m.slot = s

SetPlaces(c, s) ==
        Items("free", "own", c, {s} \cap free[c])
   \cup Items("held", "own", c, {s} \cap held[c])
   \cup Items("reserved", "own", c, {i \in {s} : [core |-> c, slot |-> i] \in reserved})
   \cup Items("in_net", "own", c, {i \in {s} : [core |-> c, slot |-> i] \in in_net})

RpuPlaces(c, s) ==
        Items("recvd_data", "own", c, {i \in DOMAIN recvd_data_fifo[c] : recvd_data_fifo[c][i] = s})
   \cup Items("in_desc", "own", c, {i \in DOMAIN in_desc_r[c] : in_desc_r[c][i] = s})
   \cup Items("send_data", "own", c, {i \in DOMAIN send_data_fifo[c] : send_data_fifo[c][i].slot = s})
   \cup Items("send_ctrl", "own", c, {i \in DOMAIN send_ctrl_fifo[c] : HasAsk(send_ctrl_fifo[c][i], s)})
   \cup Items("ctrl_m", "own", c, {i \in DOMAIN ctrl_m_r[c] : HasAsk(ctrl_m_r[c][i], s)})
   \cup Items("ctrl_m", "done", c, {i \in DOMAIN ctrl_m_r[c] : HasDone(ctrl_m_r[c][i], s)})
   \cup Items("ctrl_s", "own", c, {i \in DOMAIN ctrl_s_r[c] : ctrl_s_r[c][i].slot = s})
   \cup Items("recvd_ctrl", "own", c, {i \in DOMAIN recvd_ctrl_fifo[c] : recvd_ctrl_fifo[c][i].slot = s})
   \cup Items("sending", "own", c, {i \in DOMAIN sending[c] : sending[c][i].slot = s})
   \cup Items("pkt_sent", "own", c, {i \in DOMAIN pkt_sent_fifo[c] : pkt_sent_fifo[c][i] = s})

LbPlaces(c, s) ==
        Items("to_lb", "own", 0, {i \in DOMAIN to_lb : to_lb[i].src = c /\ HasAsk(to_lb[i].msg, s)})
   \cup Items("to_lb", "done", 0, {i \in DOMAIN to_lb : to_lb[i].src = c /\ HasDone(to_lb[i].msg, s)})
   \cup Items("pkt_done", "own", 0, {i \in DOMAIN pkt_done_fifo : HasReq(pkt_done_fifo[i], c, s)})
   \cup Items("arb_out", "own", 0, {i \in DOMAIN arb_out : HasOwn(arb_out[i], c, s)})
   \cup Items("arb_out", "new", 0, {i \in DOMAIN arb_out : HasNew(arb_out[i], c, s)})
   \cup Items("ctrl_out", "own", 0, {i \in DOMAIN ctrl_out_r : HasOwn(ctrl_out_r[i], c, s)})
   \cup Items("ctrl_out", "new", 0, {i \in DOMAIN ctrl_out_r : HasNew(ctrl_out_r[i], c, s)})

\* In the queues for, and of, core d.
PlacesOf(d, c, s) ==
        Items("to_core", "own", d, {i \in DOMAIN pkt_to_core_fifo[d] : HasReq(pkt_to_core_fifo[d][i], c, s)})
   \cup Items("arb_in", "own", d, {i \in DOMAIN arb_in[d] : HasOwn(arb_in[d][i], c, s)})
   \cup Items("arb_in", "new", d, {i \in DOMAIN arb_in[d] : HasNew(arb_in[d][i], c, s)})
   \cup Items("ctrl_s", "new", d, {i \in DOMAIN ctrl_s_r[d] : HasNew(ctrl_s_r[d][i], c, s)})
   \cup Items("recvd_ctrl", "new", d, {i \in DOMAIN recvd_ctrl_fifo[d] : HasNew(recvd_ctrl_fifo[d][i], c, s)})
   \cup Items("sending", "new", d, {i \in DOMAIN sending[d] : HasNew(sending[d][i], c, s)})

Places(c, s) ==
  SetPlaces(c, s) \cup RpuPlaces(c, s) \cup LbPlaces(c, s)
    \cup (UNION {PlacesOf(d, c, s) : d \in Cores})

\* The initialisation message of core c has reached the load balancer.
Initialised(c) == c \in booted /\ Places(c, 0) = {}

(* No slot is lost and no slot has two users: from the moment its core     *)
(* hands it to the load balancer, a slot is in exactly one place of the    *)
(* loop, whatever path its packet takes.                                   *)
SlotInOnePlace ==
  \A c \in Cores, s \in Slots :
    Cardinality(Places(c, s)) = IF Initialised(c) THEN 1 ELSE 0

(* The FIFOs are as deep as a core has slots, and for that reason whoever  *)
(* has something for one of them finds room: a packet that arrives, a      *)
(* descriptor of the firmware, an answer or a request of the load          *)
(* balancer, a slot whose data has left.                                   *)
AlwaysRoom ==
  \A c \in Cores :
    /\ (\E desc \in in_net : desc.core = c)
         => Len(recvd_data_fifo[c]) < RECV_DESC_DEPTH
    /\ held[c] # {} => /\ Len(send_data_fifo[c]) < SEND_DESC_DEPTH
                       /\ Len(send_ctrl_fifo[c]) < SEND_DESC_DEPTH
    /\ (ctrl_s_r[c] # <<>> \/ (ctrl_out_r # <<>> /\ Head(ctrl_out_r).core = c))
         => Len(recvd_ctrl_fifo[c]) < RECV_DESC_DEPTH
    /\ (sending[c] # <<>> \/ send_pkt_valid(c))
         => Len(pkt_sent_fifo[c]) < SEND_DESC_DEPTH
    /\ (to_lb # <<>> /\ Head(to_lb).msg.type = 2 /\ Head(to_lb).msg.dest = c)
         => c \in to_core_room

(* The interconnect never sees a slot it still has arrive again, nor an    *)
(* output descriptor for a slot it does not have or already sends.         *)
NoSlotError == \A c \in Cores : slot_errs[c] = {}

(* A packet that enters the system, or that is handed to another core,     *)
(* gives its slot back: no mix of paths, full FIFOs and arbitration holds  *)
(* one up for ever.  Only a slot a port has reserved may wait, for a       *)
(* packet to arrive.                                                       *)
SlotReturns ==
  \A desc \in Descs :
    (Initialised(desc.core) /\ desc \notin reserved)
      ~> (desc.slot \in free[desc.core])

TypeOK ==
  /\ enabled_cores \subseteq Cores /\ income_cores \subseteq enabled_cores
  /\ free \in [Cores -> SUBSET Slots] /\ held \in [Cores -> SUBSET Slots]
  /\ reserved \subseteq Descs /\ Cardinality(reserved) <= MAX_RESERVED
  /\ in_net \subseteq Descs
  /\ Len(to_lb) <= CTRL_NET_DEPTH /\ Len(pkt_done_fifo) <= PKT_DONE_DEPTH
  /\ Len(arb_out) <= ARB_OUT_DEPTH /\ Len(ctrl_out_r) <= 1
  /\ last_selected \in {0, 1}
  /\ booted \subseteq Cores
  /\ \A c \in Cores :
       /\ Len(pkt_to_core_fifo[c]) <= PKT_TO_CORE_DEPTH /\ Len(arb_in[c]) <= 1
       /\ recvd_data_fifo[c] \in Seq(Slots) /\ in_desc_r[c] \in Seq(Slots)
       /\ pkt_sent_fifo[c] \in Seq(Slots)
       /\ Len(recvd_data_fifo[c]) <= RECV_DESC_DEPTH /\ Len(in_desc_r[c]) <= 1
       /\ Len(send_data_fifo[c]) <= SEND_DESC_DEPTH
       /\ Len(send_ctrl_fifo[c]) <= SEND_DESC_DEPTH
       /\ Len(ctrl_s_r[c]) <= 1 /\ Len(recvd_ctrl_fifo[c]) <= RECV_DESC_DEPTH
       /\ Len(sending[c]) <= 1 /\ Len(pkt_sent_fifo[c]) <= SEND_DESC_DEPTH
       /\ Len(ctrl_m_r[c]) <= 1
       /\ slots_in_prog[c] \subseteq Slots /\ slots_to_send[c] \subseteq Slots
       /\ slot_errs[c] \subseteq {"override_in", "override_out", "invalid_out"}

(* Slots meet room and no error wherever they go.                          *)
NoOverflow == TypeOK /\ AlwaysRoom /\ NoSlotError
=============================================================================
