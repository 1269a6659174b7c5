------------------------------ MODULE MCLeaves ------------------------------
(***************************************************************************)
(* The units of the RTL that stand on their own, for TLC: slot_keeper.v,   *)
(* basic_fifo.v, max_finder_tree.v and the units of Streams.  They have    *)
(* nothing in common: unit says which one runs while the others rest.  The *)
(* tree has no state: each of its inputs is an initial state of its own.   *)
(***************************************************************************)
EXTENDS SlotKeeper, BasicFifo, MaxFinderTree, HeaderStream

CONSTANTS
  MAX_PKT_HDR_SIZE, SLOT_SIZE, PKT_COUNT, Lengths, Offsets,   \* of Streams
  DESC_COUNT, MEM_DEPTH, H_BLOCKING, HDR_READY

ASSUME StreamsAssumption ==
  /\ MAX_PKT_HDR_SIZE % W = 0 /\ SLOT_SIZE % MAX_PKT_HDR_SIZE = 0
  /\ Lengths \subseteq Nat \ {0} /\ Offsets \subseteq Nat
  /\ {DESC_COUNT, MEM_DEPTH} \subseteq Nat \ {0} /\ H_BLOCKING \in 1 .. W - 1

VARIABLES
  unit,
  pkts, wr_pos, tvalid, wr_state_r, wr_start_addr, wr_offset, wr_tdest, hdr_en_r,
  wr_strb_left, wr_1, wr_2, wr_last, extra_cycle_r, wr_data_en, wr_first_pkt,
  next_wr_addr, wr_pkt_len, desc_late_write, recv_desc_v_r, recv_desc_r, written, recvd,
  rd_state_r, send_base_addr, send_len, to_drop, aligned_rd_addr, rd_req_word_count,
  rd_recv_word_count, data_left, read_reg_1, read_reg_2, read_reg_1_v, read_reg_2_v,
  rd_mem, mem_rd_data_v, left, sent, done,
  state, rest, tdest_r, pkt, pos, header_valid, header_r, cur, out, out_header

Streams == INSTANCE Streams

streamVars ==
  <<pkts, wr_pos, tvalid, wr_state_r, wr_start_addr, wr_offset, wr_tdest, hdr_en_r,
    wr_strb_left, wr_1, wr_2, wr_last, extra_cycle_r, wr_data_en, wr_first_pkt,
    next_wr_addr, wr_pkt_len, desc_late_write, recv_desc_v_r, recv_desc_r, written, recvd,
    rd_state_r, send_base_addr, send_len, to_drop, aligned_rd_addr, rd_req_word_count,
    rd_recv_word_count, data_left, read_reg_1, read_reg_2, read_reg_1_v, read_reg_2_v,
    rd_mem, mem_rd_data_v, left, sent, done,
    state, rest, tdest_r, pkt, pos, header_valid, header_r, cur, out, out_header>>

FirstItem == CHOOSE d \in Data : TRUE

LeavesInit ==
  /\ \/ unit \in {"keeper", "fifo", "tree"} /\ Streams!Idle
     \/ Streams!Init
  /\ Init /\ FifoInit
  /\ unit # "fifo" => mem = [p \in Pointers |-> FirstItem]
  /\ TreeInputs
  /\ unit # "tree" => values = [i \in Inports |-> 0] /\ valids = {}

LeavesNext ==
  /\ UNCHANGED <<unit, tree>>
  /\ \/ unit = "keeper" /\ Next /\ UNCHANGED <<fifoVars, streamVars>>
     \/ unit = "fifo" /\ FifoNext /\ UNCHANGED <<vars, streamVars>>
     \/ unit = "tree" /\ UNCHANGED <<vars, fifoVars, streamVars>>
     \/ Streams!Next /\ UNCHANGED <<vars, fifoVars>>

LeavesSpec == /\ LeavesInit /\ [][LeavesNext]_<<unit, vars, fifoVars, tree, streamVars>>
              /\ Streams!Fairness

-----------------------------------------------------------------------------
(* Every byte of a packet to its place in memory and out of it again       *)
(* (axis_dma.v), headers put on and taken off without harm (header.v), and *)
(* every packet and descriptor in the end.                                 *)
DmaExact     == Streams!DmaExact
HeadersExact == Streams!HeadersExact
DmaCompletes == Streams!DmaCompletes

(* "Otherwise it would be not used and valid is asserted next cycle": the  *)
(* bytes behind a header are part of the packet that comes out.            *)
RemoverExact == Streams!RemoverExact
=============================================================================
