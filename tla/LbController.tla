---------------------------- MODULE LbController ----------------------------
(***************************************************************************)
(* lb_controller.v: the slots of every core that the load balancer may     *)
(* hand out, and the control messages between the cores and the load       *)
(* balancer.  One step is one valid/ready handshake.  The FIFOs are        *)
(* bounded queues (BasicFifo implements BoundedFifo) and a slot_keeper is  *)
(* the set of its free slots (SlotKeeper, NoDoubleGrant).                  *)
(*                                                                         *)
(* A message from core c is [type, slot, dest]: type 0 returns a slot,     *)
(* 1 asks to send a slot's packet out, 2 asks to send it to core dest, and *)
(* 3 (re)initialises the slots 1 .. slot.  A message to a core is          *)
(* [core, cmd, slot, desc]: send the packet in slot, or loop it back to    *)
(* the descriptor desc of another core.                                    *)
(***************************************************************************)
EXTENDS Descriptors

CONSTANTS
  PKT_DONE_DEPTH,
  PKT_TO_CORE_DEPTH,
  ARB_OUT_DEPTH       \* entries in the output of pkt_to_core_arbiter

VARIABLES
  enabled_cores, income_cores,   \* host registers of the policy module
  free,                \* free slots of each core, in its slot_keeper
  pkt_done_fifo,       \* type 1 requests
  pkt_to_core_fifo,    \* type 2 requests, by destination core
  arb_in, arb_out,     \* registers of pkt_to_core_arbiter
  last_selected,       \* 1 when the last message out was a type 2 request
  ctrl_out_r           \* output register, at most one message

lbVars == <<enabled_cores, income_cores, free, pkt_done_fifo,
            pkt_to_core_fifo, arb_in, arb_out, last_selected, ctrl_out_r>>

-----------------------------------------------------------------------------
Least(S) == CHOOSE x \in S : \A y \in S : x <= y

(* A slot comes back.  Slot 0 is no slot.                                  *)
RecvRelease(c, m) ==
  /\ m.type = 0
  /\ free' = [free EXCEPT ![c] = @ \cup ({m.slot} \cap Slots)]
  /\ UNCHANGED <<enabled_cores, income_cores, pkt_done_fifo, pkt_to_core_fifo,
                 arb_in, arb_out, last_selected, ctrl_out_r>>

RecvInit(c, m) ==
  /\ m.type = 3
  /\ free' = [free EXCEPT ![c] = 1 .. m.slot]
  /\ UNCHANGED <<enabled_cores, income_cores, pkt_done_fifo, pkt_to_core_fifo,
                 arb_in, arb_out, last_selected, ctrl_out_r>>

RecvPktDone(c, m) ==
  /\ m.type = 1
  /\ Len(pkt_done_fifo) < PKT_DONE_DEPTH
  /\ pkt_done_fifo' = Append(pkt_done_fifo, [src |-> c, slot |-> m.slot])
  /\ UNCHANGED <<enabled_cores, income_cores, free, pkt_to_core_fifo, arb_in,
                 arb_out, last_selected, ctrl_out_r>>

\* Bug: the FIFOs are one entry too short.
to_core_roomShort ==
  {d \in Cores : Len(pkt_to_core_fifo[d]) + 1 < PKT_TO_CORE_DEPTH}

to_core_room == {d \in Cores : Len(pkt_to_core_fifo[d]) < PKT_TO_CORE_DEPTH}

(* The message is acknowledged when the FIFO of any core has room, and is  *)
(* stored when the FIFO of its destination has.                            *)
RecvToCore(c, m) ==
  /\ m.type = 2
  /\ to_core_room # {}
  /\ pkt_to_core_fifo' =
       IF m.dest \in to_core_room
       THEN [pkt_to_core_fifo EXCEPT
               ![m.dest] = Append(@, [src |-> c, slot |-> m.slot])]
       ELSE pkt_to_core_fifo
  /\ UNCHANGED <<enabled_cores, income_cores, free, pkt_done_fifo, arb_in,
                 arb_out, last_selected, ctrl_out_r>>

RecvCtrl(c, m) == \/ RecvRelease(c, m) \/ RecvInit(c, m)
                  \/ RecvPktDone(c, m) \/ RecvToCore(c, m)

-----------------------------------------------------------------------------
(* Two takers of a core's slots: the policy for an incoming packet, and    *)
(* the oldest request to send a packet to the core, which comes first.     *)

slot_busys == {d \in Cores : pkt_to_core_fifo[d] # <<>> /\ arb_in[d] = <<>>}

\* Bug: the policy competes with requests to send to the core.
PopDescWhileBusy(desc) ==
  /\ desc.core \in income_cores
  /\ free[desc.core] # {}
  /\ desc.slot = Least(free[desc.core])
  /\ free' = [free EXCEPT ![desc.core] = @ \ {desc.slot}]
  /\ UNCHANGED <<enabled_cores, income_cores, pkt_done_fifo, pkt_to_core_fifo,
                 arb_in, arb_out, last_selected, ctrl_out_r>>

\* The policy module takes desc.
PopDesc(desc) ==
  /\ desc.core \in income_cores \ slot_busys
  /\ free[desc.core] # {}
  /\ desc.slot = Least(free[desc.core])
  /\ free' = [free EXCEPT ![desc.core] = @ \ {desc.slot}]
  /\ UNCHANGED <<enabled_cores, income_cores, pkt_done_fifo, pkt_to_core_fifo,
                 arb_in, arb_out, last_selected, ctrl_out_r>>

\* Bug: the slot is looked up, not taken.
PopForCoreKeepsSlot(d) ==
  /\ d \in slot_busys \cap enabled_cores
  /\ free[d] # {}
  /\ LET req == Head(pkt_to_core_fifo[d])
     IN arb_in' = [arb_in EXCEPT ![d] =
          <<[core |-> req.src, cmd |-> "loopback", slot |-> req.slot,
             desc |-> [core |-> d, slot |-> Least(free[d])]]>>]
  /\ pkt_to_core_fifo' = [pkt_to_core_fifo EXCEPT ![d] = Tail(@)]
  /\ UNCHANGED <<enabled_cores, income_cores, free, pkt_done_fifo, arb_out,
                 last_selected, ctrl_out_r>>

PopForCore(d) ==
  /\ d \in slot_busys \cap enabled_cores
  /\ free[d] # {}
  /\ LET req == Head(pkt_to_core_fifo[d])
     IN arb_in' = [arb_in EXCEPT ![d] =
          <<[core |-> req.src, cmd |-> "loopback", slot |-> req.slot,
             desc |-> [core |-> d, slot |-> Least(free[d])]]>>]
  /\ pkt_to_core_fifo' = [pkt_to_core_fifo EXCEPT ![d] = Tail(@)]
  /\ free' = [free EXCEPT ![d] = @ \ {Least(@)}]
  /\ UNCHANGED <<enabled_cores, income_cores, pkt_done_fifo, arb_out,
                 last_selected, ctrl_out_r>>

ArbGrant(d) ==
  /\ arb_in[d] # <<>>
  /\ Len(arb_out) < ARB_OUT_DEPTH
  /\ arb_out' = arb_out \o arb_in[d]
  /\ arb_in' = [arb_in EXCEPT ![d] = <<>>]
  /\ UNCHANGED <<enabled_cores, income_cores, free, pkt_done_fifo,
                 pkt_to_core_fifo, last_selected, ctrl_out_r>>

(* The output register takes the two kinds of request in turn when both    *)
(* wait.                                                                   *)
SelectToCore ==
  /\ ctrl_out_r = <<>> /\ arb_out # <<>>
  /\ pkt_done_fifo # <<>> => last_selected = 0
  /\ ctrl_out_r' = <<Head(arb_out)>>
  /\ arb_out' = Tail(arb_out)
  /\ last_selected' = 1
  /\ UNCHANGED <<enabled_cores, income_cores, free, pkt_done_fifo,
                 pkt_to_core_fifo, arb_in>>

SelectPktDone ==
  /\ ctrl_out_r = <<>> /\ pkt_done_fifo # <<>>
  /\ arb_out # <<>> => last_selected = 1
  /\ LET req == Head(pkt_done_fifo)
     IN ctrl_out_r' = <<[core |-> req.src, cmd |-> "send", slot |-> req.slot,
                         desc |-> NoDesc]>>
  /\ pkt_done_fifo' = Tail(pkt_done_fifo)
  /\ last_selected' = 0
  /\ UNCHANGED <<enabled_cores, income_cores, free, pkt_to_core_fifo, arb_in,
                 arb_out>>

\* The network takes the message in the output register.
CtrlTaken ==
  /\ ctrl_out_r' = <<>>
  /\ UNCHANGED <<enabled_cores, income_cores, free, pkt_done_fifo,
                 pkt_to_core_fifo, arb_in, arb_out, last_selected>>

LbInit ==
  /\ enabled_cores = {} /\ income_cores = {}
  /\ free = [c \in Cores |-> {}]
  /\ pkt_done_fifo = <<>>
  /\ pkt_to_core_fifo = [c \in Cores |-> <<>>]
  /\ arb_in = [c \in Cores |-> <<>>] /\ arb_out = <<>>
  /\ last_selected = 0
  /\ ctrl_out_r = <<>>
=============================================================================
