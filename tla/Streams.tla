------------------------------- MODULE Streams ------------------------------
(***************************************************************************)
(* The units that reshape streams side by side: the write and read side of *)
(* axis_dma.v, the two header adders and the header remover of header.v.   *)
(* They share no register, so each runs on its own while the others keep   *)
(* their initial state; unit says which one.  The header units use the     *)
(* same variables.                                                         *)
(***************************************************************************)
EXTENDS HeaderStream

CONSTANTS
  MAX_PKT_HDR_SIZE, SLOT_SIZE, PKT_COUNT, Lengths, Offsets,   \* write side
  DESC_COUNT, MEM_DEPTH,                                      \* read side
  H_BLOCKING,                         \* header bytes of header_adder_blocking
  HDR_READY                           \* of HeaderRemover

VARIABLES
  unit,
  pkts, wr_pos, tvalid, wr_state_r, wr_start_addr, wr_offset, wr_tdest, hdr_en_r,
  wr_strb_left, wr_1, wr_2, wr_last, extra_cycle_r, wr_data_en, wr_first_pkt,
  next_wr_addr, wr_pkt_len, desc_late_write, recv_desc_v_r, recv_desc_r, written, recvd,
  rd_state_r, send_base_addr, send_len, to_drop, aligned_rd_addr, rd_req_word_count,
  rd_recv_word_count, data_left, read_reg_1, read_reg_2, read_reg_1_v, read_reg_2_v,
  rd_mem, mem_rd_data_v, left, sent, done,
  state, rest, tdest_r, pkt, pos, header_valid, header_r, cur, out, out_header

Write    == INSTANCE AxisDmaWrite WITH STRB_WIDTH <- W, pos <- wr_pos, DescReady <- {TRUE}
Read     == INSTANCE AxisDmaRead WITH STRB_WIDTH <- W, Addresses <- 0 .. W - 1,
                                      Lengths <- 0 .. 3 * W + 1, mem <- rd_mem
Adder    == INSTANCE HeaderAdder WITH BLOCKING <- FALSE
Blocking == INSTANCE HeaderAdder WITH BLOCKING <- TRUE, H <- H_BLOCKING
Remover  == INSTANCE HeaderRemover

writeVars ==
  <<pkts, wr_pos, tvalid, wr_state_r, wr_start_addr, wr_offset, wr_tdest, hdr_en_r,
    wr_strb_left, wr_1, wr_2, wr_last, extra_cycle_r, wr_data_en, wr_first_pkt,
    next_wr_addr, wr_pkt_len, desc_late_write, recv_desc_v_r, recv_desc_r, written, recvd>>
readVars ==
  <<rd_state_r, send_base_addr, send_len, to_drop, aligned_rd_addr, rd_req_word_count,
    rd_recv_word_count, data_left, read_reg_1, read_reg_2, read_reg_1_v, read_reg_2_v,
    rd_mem, mem_rd_data_v, left, sent, done>>
removerVars == <<header_r, out_header>>
headerVars  == <<state, rest, tdest_r, pkt, pos, header_valid, cur, out, removerVars>>
vars        == <<unit, writeVars, readVars, headerVars>>

WriteIdle  == /\ Write!Init /\ tvalid = FALSE
              /\ pkts = [i \in 1 .. PKT_COUNT |-> [offset |-> 0, len |-> 1]]
HeaderIdle == /\ Adder!Init /\ header_r = <<>> /\ out_header = <<>>
              /\ pkt = [id |-> 0, len |-> 1, hdr |-> FALSE, drop |-> FALSE]

(* All of them at rest.                                                    *)
Idle == WriteIdle /\ Read!Init /\ HeaderIdle

Init ==
  \/ unit = "write" /\ Write!Init /\ Read!Init /\ HeaderIdle
  \/ unit = "read" /\ WriteIdle /\ Read!Init /\ HeaderIdle
  \/ /\ unit = "adder" /\ WriteIdle /\ Read!Init
     /\ Adder!Init /\ header_r = <<>> /\ out_header = <<>>
  \/ /\ unit = "blocking" /\ WriteIdle /\ Read!Init
     /\ Blocking!Init /\ header_r = <<>> /\ out_header = <<>>
  \/ /\ unit = "remover" /\ WriteIdle /\ Read!Init
     /\ Remover!Init /\ header_valid = FALSE

Next ==
  /\ UNCHANGED unit
  /\ \/ unit = "write" /\ Write!Next /\ UNCHANGED <<readVars, headerVars>>
     \/ unit = "read" /\ Read!Next /\ UNCHANGED <<writeVars, headerVars>>
     \/ /\ \/ unit = "adder" /\ Adder!Next /\ UNCHANGED removerVars
           \/ unit = "blocking" /\ Blocking!Next /\ UNCHANGED removerVars
           \/ unit = "remover" /\ Remover!Next /\ UNCHANGED header_valid
        /\ UNCHANGED <<writeVars, readVars>>

(* The clock goes on while the other side of a stream is ready.            *)
Fairness == /\ WF_writeVars(unit = "write" /\ Write!Progress)
            /\ WF_readVars(unit = "read" /\ Read!Progress)

-----------------------------------------------------------------------------
(* The two sides of axis_dma.v, whatever the offsets and lengths: every    *)
(* byte of a packet is written to its place and a descriptor comes only    *)
(* when its packet is in memory; a descriptor is sent as exactly the bytes *)
(* that it asks for, and nothing is left in the pipe between two of them.  *)
DmaExact ==
  /\ unit = "write" => Write!TypeOK /\ Write!BytesInPlace /\ Write!DescsAfterData
  /\ unit = "read" => Read!TypeOK /\ Read!StreamExact /\ Read!CleanBetween

(* The header units of header.v: header and packet come out whole and in   *)
(* order, all words to the destination of the packet, and a packet whose   *)
(* header is taken off comes out whole, along with its own header.         *)
HeadersExact ==
  /\ unit = "adder" => Adder!TypeOK /\ Adder!AdderExact
  /\ unit = "blocking" => Blocking!TypeOK /\ Blocking!AdderExact
  /\ unit \in {"adder", "blocking"} => Adder!OneDestination
  /\ unit = "remover" => Remover!TypeOK /\ Remover!RemoverExact /\ Remover!HeaderWithOutput

(* "Otherwise it would be not used and valid is asserted next cycle": the  *)
(* bytes behind a header are part of the packet that comes out.            *)
RemoverExact == unit = "remover" => Remover!RemoverExact

(* No packet is left behind on the write side of axis_dma.v, and every     *)
(* descriptor of the read side is sent.                                    *)
DmaCompletes == /\ unit = "write" => Write!AllReceived
                /\ unit = "read" => Read!AllSent
=============================================================================
