---------------------------- MODULE RpuIntercon ----------------------------
(***************************************************************************)
(* rpu_intercon.v: the descriptors between the network, the load balancer  *)
(* and the core of every RPU, with the firmware's use of core.h.  One step *)
(* is one valid/ready handshake; the FIFOs are bounded queues.             *)
(*                                                                         *)
(* Packets are not modelled, their slots are: a received slot goes through *)
(* recvd_data_fifo and the in_desc register to the firmware, which gives   *)
(* it back with an output descriptor.  Type 0 asks the interconnect to     *)
(* send (or, with length 0, drop) the packet, types 1 and 2 ask the load   *)
(* balancer first and wait for its answer.  When the data has left, the    *)
(* slot is reported to the load balancer.                                  *)
(***************************************************************************)
EXTENDS Descriptors

CONSTANTS
  RECV_DESC_DEPTH,
  SEND_DESC_DEPTH,
  Paths,     \* Paths[c]: the types of output descriptors core c's firmware uses
  Targets    \* Targets[c]: the cores that core c's firmware sends packets to

ASSUME FirmwareAssumption ==
  /\ Paths \in [Cores -> SUBSET {0, 1, 2}]
  /\ Targets \in [Cores -> SUBSET Cores]

VARIABLES
  booted,          \* cores whose firmware has initialised its slots
  recvd_data_fifo, \* slots received
  in_desc_r,       \* pipeline register in front of the core, at most one
  held,            \* slots the firmware has read and not given back
  send_data_fifo,  \* type 0 output descriptors
  send_ctrl_fifo,  \* type 1, 2 and 3 output descriptors
  ctrl_s_r,        \* register for a message of the load balancer
  recvd_ctrl_fifo, \* messages of the load balancer to act on
  sending,         \* the descriptor the DMA engine works on, at most one
  pkt_sent_fifo,   \* slots whose data has left
  ctrl_m_r,        \* register for a message to the load balancer
  slots_in_prog, slots_to_send,
  slot_errs        \* error registers that are set

rpuVars == <<booted, recvd_data_fifo, in_desc_r, held, send_data_fifo,
             send_ctrl_fifo, ctrl_s_r, recvd_ctrl_fifo, sending,
             pkt_sent_fifo, ctrl_m_r, slots_in_prog, slots_to_send, slot_errs>>

-----------------------------------------------------------------------------
(* Receiving.                                                              *)

RecvPacket(c, s) ==
  /\ Len(recvd_data_fifo[c]) < RECV_DESC_DEPTH
  /\ recvd_data_fifo' = [recvd_data_fifo EXCEPT ![c] = Append(@, s)]
  /\ UNCHANGED <<booted, in_desc_r, held, send_data_fifo, send_ctrl_fifo,
                 ctrl_s_r, recvd_ctrl_fifo, sending, pkt_sent_fifo, ctrl_m_r,
                 slots_in_prog, slots_to_send, slot_errs>>

(* A descriptor whose slot the interconnect still has is dropped.          *)
InDesc(c) ==
  /\ recvd_data_fifo[c] # <<>> /\ in_desc_r[c] = <<>>
  /\ LET s    == Head(recvd_data_fifo[c])
         dupl == s \in slots_to_send[c] \cup slots_in_prog[c]
     IN /\ slots_in_prog' = [slots_in_prog EXCEPT ![c] = @ \cup {s}]
        /\ in_desc_r' = [in_desc_r EXCEPT ![c] = IF dupl THEN <<>> ELSE <<s>>]
        /\ slot_errs' = IF dupl
                        THEN [slot_errs EXCEPT ![c] = @ \cup {"override_in"}]
                        ELSE slot_errs
  /\ recvd_data_fifo' = [recvd_data_fifo EXCEPT ![c] = Tail(@)]
  /\ UNCHANGED <<booted, held, send_data_fifo, send_ctrl_fifo, ctrl_s_r,
                 recvd_ctrl_fifo, sending, pkt_sent_fifo, ctrl_m_r,
                 slots_to_send>>

-----------------------------------------------------------------------------
(* The firmware.                                                           *)

InitSlots(c) ==
  /\ c \notin booted
  /\ Len(send_ctrl_fifo[c]) < SEND_DESC_DEPTH
  /\ booted' = booted \cup {c}
  /\ send_ctrl_fifo' = [send_ctrl_fifo EXCEPT
       ![c] = Append(@, [type |-> 3, slot |-> SLOT_COUNT, dest |-> 0])]
  /\ UNCHANGED <<recvd_data_fifo, in_desc_r, held, send_data_fifo, ctrl_s_r,
                 recvd_ctrl_fifo, sending, pkt_sent_fifo, ctrl_m_r,
                 slots_in_prog, slots_to_send, slot_errs>>

read_in_pkt(c) ==
  /\ c \in booted /\ in_desc_r[c] # <<>>
  /\ held' = [held EXCEPT ![c] = @ \cup {Head(in_desc_r[c])}]
  /\ in_desc_r' = [in_desc_r EXCEPT ![c] = <<>>]
  /\ UNCHANGED <<booted, recvd_data_fifo, send_data_fifo, send_ctrl_fifo,
                 ctrl_s_r, recvd_ctrl_fifo, sending, pkt_sent_fifo, ctrl_m_r,
                 slots_in_prog, slots_to_send, slot_errs>>

(* Book-keeping when the output descriptor of slot s is accepted.          *)
DoneWithSlot(c, s) ==
  /\ slots_in_prog' = [slots_in_prog EXCEPT ![c] = @ \ {s}]
  /\ slots_to_send' = [slots_to_send EXCEPT ![c] = @ \cup {s}]
  /\ slot_errs' = [slot_errs EXCEPT ![c] =
       @ \cup (IF s \in slots_in_prog[c] THEN {} ELSE {"invalid_out"})
         \cup (IF s \in slots_to_send[c] THEN {"override_out"} ELSE {})]

pkt_send(c, s) ==
  /\ 0 \in Paths[c] /\ s \in held[c]
  /\ Len(send_data_fifo[c]) < SEND_DESC_DEPTH
  /\ send_data_fifo' = [send_data_fifo EXCEPT ![c] =
       Append(@, [cmd |-> "send", slot |-> s, desc |-> NoDesc])]
  /\ held' = [held EXCEPT ![c] = @ \ {s}]
  /\ DoneWithSlot(c, s)
  /\ UNCHANGED <<booted, recvd_data_fifo, in_desc_r, send_ctrl_fifo, ctrl_s_r,
                 recvd_ctrl_fifo, sending, pkt_sent_fifo, ctrl_m_r>>

(* pkt_done_msg (type 1) and send_to_core (type 2).                        *)
SendCtrl(c, m) ==
  /\ m.type \in Paths[c] /\ m.slot \in held[c]
  /\ Len(send_ctrl_fifo[c]) < SEND_DESC_DEPTH
  /\ send_ctrl_fifo' = [send_ctrl_fifo EXCEPT ![c] = Append(@, m)]
  /\ held' = [held EXCEPT ![c] = @ \ {m.slot}]
  /\ DoneWithSlot(c, m.slot)
  /\ UNCHANGED <<booted, recvd_data_fifo, in_desc_r, send_data_fifo, ctrl_s_r,
                 recvd_ctrl_fifo, sending, pkt_sent_fifo, ctrl_m_r>>

pkt_done_msg(c, s) == SendCtrl(c, [type |-> 1, slot |-> s, dest |-> 0])

send_to_core(c, s, d) ==
  /\ d \in Targets[c]
  /\ SendCtrl(c, [type |-> 2, slot |-> s, dest |-> d])

-----------------------------------------------------------------------------
(* Messages of the load balancer.  The register takes one only while the   *)
(* FIFO behind it has room.                                                *)

CtrlIn(c, m) ==
  /\ ctrl_s_r[c] = <<>> /\ Len(recvd_ctrl_fifo[c]) < RECV_DESC_DEPTH
  /\ ctrl_s_r' = [ctrl_s_r EXCEPT ![c] =
       <<[cmd |-> m.cmd, slot |-> m.slot, desc |-> m.desc]>>]
  /\ UNCHANGED <<booted, recvd_data_fifo, in_desc_r, held, send_data_fifo,
                 send_ctrl_fifo, recvd_ctrl_fifo, sending, pkt_sent_fifo,
                 ctrl_m_r, slots_in_prog, slots_to_send, slot_errs>>

ParseCtrl(c) ==
  /\ ctrl_s_r[c] # <<>> /\ Len(recvd_ctrl_fifo[c]) < RECV_DESC_DEPTH
  /\ recvd_ctrl_fifo' = [recvd_ctrl_fifo EXCEPT ![c] = @ \o ctrl_s_r[c]]
  /\ ctrl_s_r' = [ctrl_s_r EXCEPT ![c] = <<>>]
  /\ UNCHANGED <<booted, recvd_data_fifo, in_desc_r, held, send_data_fifo,
                 send_ctrl_fifo, sending, pkt_sent_fifo, ctrl_m_r,
                 slots_in_prog, slots_to_send, slot_errs>>

-----------------------------------------------------------------------------
(* Sending.  Descriptors the load balancer answered go before those of the *)
(* core, and none goes while pkt_sent_fifo is full.                        *)

send_pkt_valid(c) == recvd_ctrl_fifo[c] # <<>> \/ send_data_fifo[c] # <<>>

SendReady(c) == sending[c] = <<>> /\ Len(pkt_sent_fifo[c]) < SEND_DESC_DEPTH

SendFromLb(c) ==
  /\ SendReady(c) /\ recvd_ctrl_fifo[c] # <<>>
  /\ sending' = [sending EXCEPT ![c] = <<Head(recvd_ctrl_fifo[c])>>]
  /\ recvd_ctrl_fifo' = [recvd_ctrl_fifo EXCEPT ![c] = Tail(@)]
  /\ UNCHANGED <<booted, recvd_data_fifo, in_desc_r, held, send_data_fifo,
                 send_ctrl_fifo, ctrl_s_r, pkt_sent_fifo, ctrl_m_r,
                 slots_in_prog, slots_to_send, slot_errs>>

SendFromCore(c) ==
  /\ SendReady(c) /\ recvd_ctrl_fifo[c] = <<>> /\ send_data_fifo[c] # <<>>
  /\ sending' = [sending EXCEPT ![c] = <<Head(send_data_fifo[c])>>]
  /\ send_data_fifo' = [send_data_fifo EXCEPT ![c] = Tail(@)]
  /\ UNCHANGED <<booted, recvd_data_fifo, in_desc_r, held, send_ctrl_fifo,
                 ctrl_s_r, recvd_ctrl_fifo, pkt_sent_fifo, ctrl_m_r,
                 slots_in_prog, slots_to_send, slot_errs>>

(* The last word has left.  A full pkt_sent_fifo would lose the slot.      *)
SendDone(c) ==
  /\ sending[c] # <<>>
  /\ sending' = [sending EXCEPT ![c] = <<>>]
  /\ pkt_sent_fifo' = IF Len(pkt_sent_fifo[c]) < SEND_DESC_DEPTH
                      THEN [pkt_sent_fifo EXCEPT
                              ![c] = Append(@, Head(sending[c]).slot)]
                      ELSE pkt_sent_fifo
  /\ UNCHANGED <<booted, recvd_data_fifo, in_desc_r, held, send_data_fifo,
                 send_ctrl_fifo, ctrl_s_r, recvd_ctrl_fifo, ctrl_m_r,
                 slots_in_prog, slots_to_send, slot_errs>>

(* Slots to report go before requests of the core.                         *)
ReportSent(c) ==
  /\ ctrl_m_r[c] = <<>> /\ pkt_sent_fifo[c] # <<>>
  /\ LET s == Head(pkt_sent_fifo[c])
     IN /\ ctrl_m_r' = [ctrl_m_r EXCEPT ![c] =
                            <<[type |-> 0, slot |-> s, dest |-> 0]>>]
        /\ slots_to_send' = [slots_to_send EXCEPT ![c] = @ \ {s}]
  /\ pkt_sent_fifo' = [pkt_sent_fifo EXCEPT ![c] = Tail(@)]
  /\ UNCHANGED <<booted, recvd_data_fifo, in_desc_r, held, send_data_fifo,
                 send_ctrl_fifo, ctrl_s_r, recvd_ctrl_fifo, sending,
                 slots_in_prog, slot_errs>>

RequestSend(c) ==
  /\ ctrl_m_r[c] = <<>> /\ pkt_sent_fifo[c] = <<>> /\ send_ctrl_fifo[c] # <<>>
  /\ ctrl_m_r' = [ctrl_m_r EXCEPT ![c] = <<Head(send_ctrl_fifo[c])>>]
  /\ send_ctrl_fifo' = [send_ctrl_fifo EXCEPT ![c] = Tail(@)]
  /\ UNCHANGED <<booted, recvd_data_fifo, in_desc_r, held, send_data_fifo,
                 ctrl_s_r, recvd_ctrl_fifo, sending, pkt_sent_fifo,
                 slots_in_prog, slots_to_send, slot_errs>>

\* The network takes the message in the register.
CtrlSent(c) ==
  /\ ctrl_m_r' = [ctrl_m_r EXCEPT ![c] = <<>>]
  /\ UNCHANGED <<booted, recvd_data_fifo, in_desc_r, held, send_data_fifo,
                 send_ctrl_fifo, ctrl_s_r, recvd_ctrl_fifo, sending,
                 pkt_sent_fifo, slots_in_prog, slots_to_send, slot_errs>>

RpuInit ==
  /\ booted = {}
  /\ recvd_data_fifo = [c \in Cores |-> <<>>]
  /\ in_desc_r = [c \in Cores |-> <<>>]
  /\ held = [c \in Cores |-> {}]
  /\ send_data_fifo = [c \in Cores |-> <<>>]
  /\ send_ctrl_fifo = [c \in Cores |-> <<>>]
  /\ ctrl_s_r = [c \in Cores |-> <<>>]
  /\ recvd_ctrl_fifo = [c \in Cores |-> <<>>]
  /\ sending = [c \in Cores |-> <<>>]
  /\ pkt_sent_fifo = [c \in Cores |-> <<>>]
  /\ ctrl_m_r = [c \in Cores |-> <<>>]
  /\ slots_in_prog = [c \in Cores |-> {}]
  /\ slots_to_send = [c \in Cores |-> {}]
  /\ slot_errs = [c \in Cores |-> {}]
=============================================================================
