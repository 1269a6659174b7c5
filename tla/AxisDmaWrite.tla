---------------------------- MODULE AxisDmaWrite ----------------------------
(***************************************************************************)
(* axis_dma.v, write side: stores a stream of packets in memory, each at   *)
(* its own base address, which need not be aligned to the words of the     *)
(* memory, and hands over a descriptor for every packet.  One step is one  *)
(* clock edge.                                                             *)
(*                                                                         *)
(* A byte is <<packet, index>>; a word is a function on 0 .. STRB_WIDTH-1, *)
(* in which a byte whose strobe is low is NoByte.  Packet i goes to slot i *)
(* at base address Base(i).  The source may pause between any two words,   *)
(* the memory may stall any cycle, and the receiver of descriptors is      *)
(* ready when DescReady says it may be.                                    *)
(***************************************************************************)
EXTENDS Naturals, Sequences, FiniteSets

CONSTANTS
  STRB_WIDTH,        \* bytes in a word
  MAX_PKT_HDR_SIZE,  \* bytes of a block copied to the header memory
  SLOT_SIZE,
  PKT_COUNT,
  Lengths,           \* lengths of packets
  Offsets,           \* offsets of the packets in their slots
  DescReady          \* values that recv_desc_ready takes

VARIABLES
  pkts,              \* the packets: [offset, len]
  pos, tvalid,       \* next word of the source, and whether it is offered
  wr_state_r, wr_start_addr, wr_offset, wr_tdest, hdr_en_r, wr_strb_left,
  wr_1, wr_2, wr_last, extra_cycle_r, wr_data_en, wr_first_pkt,
  next_wr_addr, wr_pkt_len, desc_late_write, recv_desc_v_r, recv_desc_r,
  written,           \* what was written: address, byte, and if to the header memory
  recvd              \* descriptors handed over

source == <<pkts, pos, tvalid>>
latched == <<wr_state_r, wr_start_addr, wr_offset, wr_tdest, hdr_en_r, wr_strb_left>>
pipe == <<wr_1, wr_2, wr_last, extra_cycle_r, wr_data_en, wr_first_pkt,
          next_wr_addr, wr_pkt_len>>
desc == <<desc_late_write, recv_desc_v_r, recv_desc_r>>
vars == <<source, latched, pipe, desc, written, recvd>>

-----------------------------------------------------------------------------
NoByte  == <<0, 0>>
Lanes   == 0 .. STRB_WIDTH - 1
NoWord  == [k \in Lanes |-> NoByte]
Strobes(w) == {k \in Lanes : w[k] # NoByte}

Base(i) == i * SLOT_SIZE + pkts[i].offset

\* The word that the source offers.
s_axis_tdata == [k \in Lanes |-> IF pos.byte + k < pkts[pos.pkt].len
                                 THEN <<pos.pkt, pos.byte + k>> ELSE NoByte]
s_axis_tlast == pos.byte + STRB_WIDTH >= pkts[pos.pkt].len

extra_cycle == wr_last /\ wr_strb_left
wr_last_pkt == wr_data_en /\ ((wr_last /\ ~extra_cycle) \/ extra_cycle_r)

desc_block(desc_ready) == recv_desc_v_r /\ ~desc_ready

\* A word is accepted.  wr_ready is mem_wr_ready.
Accept(wr_ready, desc_ready) ==
  /\ tvalid /\ wr_ready /\ ~extra_cycle
  /\ ~(s_axis_tlast /\ desc_block(desc_ready))

latch_info(wr_ready, desc_ready) ==
  /\ wr_state_r = "idle" \/ (wr_last_pkt /\ wr_ready)
  /\ Accept(wr_ready, desc_ready)

Aligned(addr) == addr - (addr % STRB_WIDTH)

wr_addr == IF wr_first_pkt THEN Aligned(wr_start_addr) ELSE next_wr_addr

\* Bytes of word w that are left for the next word at offset o.
StrobeLeft(w, o) == \E k \in Strobes(w) : k >= o

Offset(addr) == STRB_WIDTH - (addr % STRB_WIDTH)

LatchStep(wr_ready, desc_ready) ==
  LET accept == Accept(wr_ready, desc_ready)
      latch  == latch_info(wr_ready, desc_ready)
      base   == Base(pos.pkt)
  IN /\ wr_state_r' = IF wr_state_r = "idle"
                      THEN IF accept THEN "proc" ELSE "idle"
                      ELSE IF wr_last_pkt /\ wr_ready /\ ~accept
                           THEN "idle" ELSE "proc"
     /\ wr_start_addr' = IF latch THEN base ELSE wr_start_addr
     /\ wr_offset'     = IF latch THEN Offset(base) ELSE wr_offset
     /\ wr_tdest'      = IF latch THEN pos.pkt ELSE wr_tdest
     /\ hdr_en_r' =
          (latch \/ (hdr_en_r /\ ~(/\ wr_data_en /\ wr_ready
                                   /\ (wr_addr + STRB_WIDTH) % MAX_PKT_HDR_SIZE = 0)))
     /\ wr_strb_left' =
          IF extra_cycle /\ wr_data_en /\ wr_ready THEN FALSE
          ELSE IF latch  THEN StrobeLeft(s_axis_tdata, Offset(base))
          ELSE IF accept THEN StrobeLeft(s_axis_tdata, wr_offset)
          ELSE wr_strb_left

-----------------------------------------------------------------------------
(* The word for the memory: the bytes of the two stages from wr_offset on. *)
mem_wr_data == [k \in Lanes |-> IF k + wr_offset < STRB_WIDTH
                                THEN wr_2[k + wr_offset]
                                ELSE wr_1[k + wr_offset - STRB_WIDTH]]

one_count == Cardinality(Strobes(mem_wr_data))

next_wr_pkt_len == IF wr_first_pkt THEN one_count ELSE wr_pkt_len + one_count

\* Bug: the second stage keeps the end of the last packet.
PipeStepKeepsStage2(wr_ready, desc_ready) ==
  LET accept == Accept(wr_ready, desc_ready)
      write  == wr_data_en /\ wr_ready
  IN /\ wr_1' = IF extra_cycle /\ write THEN NoWord
               ELSE IF accept THEN s_axis_tdata ELSE wr_1
     /\ wr_last' = IF extra_cycle /\ write THEN FALSE
                  ELSE IF accept THEN s_axis_tlast ELSE wr_last
     /\ wr_2' = IF write THEN wr_1 ELSE wr_2
     /\ extra_cycle_r' = IF write THEN extra_cycle ELSE extra_cycle_r
     /\ wr_data_en' = (accept \/ (write /\ extra_cycle) \/ (wr_data_en /\ ~wr_ready))
     /\ wr_first_pkt' = (latch_info(wr_ready, desc_ready) \/ (wr_first_pkt /\ ~wr_ready))
     /\ next_wr_addr' = IF write THEN wr_addr + STRB_WIDTH ELSE next_wr_addr
     /\ wr_pkt_len' = IF write THEN next_wr_pkt_len ELSE wr_pkt_len

PipeStep(wr_ready, desc_ready) ==
  LET accept == Accept(wr_ready, desc_ready)
      write  == wr_data_en /\ wr_ready
  IN /\ wr_1' = IF extra_cycle /\ write THEN NoWord
               ELSE IF accept THEN s_axis_tdata ELSE wr_1
     /\ wr_last' = IF extra_cycle /\ write THEN FALSE
                  ELSE IF accept THEN s_axis_tlast ELSE wr_last
     /\ wr_2' = IF wr_last_pkt /\ wr_ready THEN NoWord
               ELSE IF write THEN wr_1 ELSE wr_2
     /\ extra_cycle_r' = IF write THEN extra_cycle ELSE extra_cycle_r
     /\ wr_data_en' = (accept \/ (write /\ extra_cycle) \/ (wr_data_en /\ ~wr_ready))
     /\ wr_first_pkt' = (latch_info(wr_ready, desc_ready) \/ (wr_first_pkt /\ ~wr_ready))
     /\ next_wr_addr' = IF write THEN wr_addr + STRB_WIDTH ELSE next_wr_addr
     /\ wr_pkt_len' = IF write THEN next_wr_pkt_len ELSE wr_pkt_len

\* A descriptor that cannot be handed over yet waits in desc_late_write.
DescStep(wr_ready, desc_ready) ==
  LET done  == wr_last_pkt /\ wr_ready
      block == desc_block(desc_ready)
      load  == (done /\ ~block) \/ (desc_late_write /\ desc_ready)
  IN /\ desc_late_write' = ((done /\ block) \/ (desc_late_write /\ ~desc_ready))
     /\ recv_desc_r' = IF load THEN [slot |-> wr_tdest, addr |-> wr_start_addr,
                                     len |-> next_wr_pkt_len]
                       ELSE recv_desc_r
     /\ recv_desc_v_r' = (load \/ (recv_desc_v_r /\ ~desc_ready))

\* The other side of the three interfaces.
Store(wr_ready) ==
  written' = IF wr_data_en /\ wr_ready
             THEN written \cup {[addr |-> wr_addr + k, byte |-> mem_wr_data[k],
                                hdr |-> hdr_en_r] : k \in Strobes(mem_wr_data)}
             ELSE written

HandOver(desc_ready) ==
  recvd' = IF recv_desc_v_r /\ desc_ready THEN Append(recvd, recv_desc_r) ELSE recvd

Source(accept) ==
  /\ pos' = IF ~accept THEN pos
            ELSE IF s_axis_tlast THEN [pkt |-> pos.pkt + 1, byte |-> 0]
            ELSE [pos EXCEPT !.byte = @ + STRB_WIDTH]
  /\ tvalid' \in IF tvalid /\ ~accept THEN {TRUE}
               ELSE IF pos'.pkt > PKT_COUNT THEN {FALSE} ELSE BOOLEAN
  /\ UNCHANGED pkts

Clock(wr_ready, desc_ready) ==
  /\ Source(Accept(wr_ready, desc_ready))
  /\ LatchStep(wr_ready, desc_ready)
  /\ PipeStep(wr_ready, desc_ready)
  /\ DescStep(wr_ready, desc_ready)
  /\ Store(wr_ready)
  /\ HandOver(desc_ready)

Init ==
  /\ pkts \in [1 .. PKT_COUNT -> [offset : Offsets, len : Lengths]]
  /\ pos = [pkt |-> 1, byte |-> 0] /\ tvalid \in BOOLEAN
  /\ wr_state_r = "idle" /\ wr_start_addr = 0 /\ wr_offset = STRB_WIDTH
  /\ wr_tdest = 0 /\ hdr_en_r = FALSE /\ wr_strb_left = FALSE
  /\ wr_1 = NoWord /\ wr_2 = NoWord /\ wr_last = FALSE
  /\ extra_cycle_r = FALSE /\ wr_data_en = FALSE /\ wr_first_pkt = FALSE
  /\ next_wr_addr = 0 /\ wr_pkt_len = 0
  /\ desc_late_write = FALSE /\ recv_desc_v_r = FALSE
  /\ recv_desc_r = [slot |-> 0, addr |-> 0, len |-> 0]
  /\ written = {} /\ recvd = <<>>

Next == \E wr_ready \in BOOLEAN, desc_ready \in DescReady : Clock(wr_ready, desc_ready)

Spec == Init /\ [][Next]_vars

(* The source goes on, the memory is ready again and again.                *)
Progress == \E desc_ready \in DescReady :
              Clock(TRUE, desc_ready) /\ (tvalid' \/ pos'.pkt > PKT_COUNT)

-----------------------------------------------------------------------------
(* What packet i leaves in memory: its bytes in a row from its base        *)
(* address, those of the first block also in the header memory.            *)
Stored(i) ==
  {[addr |-> Base(i) + k, byte |-> <<i, k>>,
    hdr |-> (Base(i) + k) \div MAX_PKT_HDR_SIZE = Base(i) \div MAX_PKT_HDR_SIZE]
     : k \in 0 .. pkts[i].len - 1}

DescOf(i) == [slot |-> i, addr |-> Base(i), len |-> pkts[i].len]

(* Every byte goes to its own place: no alignment, pause or stall makes    *)
(* the engine write a byte elsewhere or write outside of a packet.         *)
BytesInPlace == written \subseteq UNION {Stored(i) : i \in 1 .. PKT_COUNT}

(* The descriptors come one per packet, in order and with the right slot,  *)
(* address and length, and none before its packet is in memory.            *)
DescsAfterData ==
  LET shown == IF recv_desc_v_r THEN Append(recvd, recv_desc_r) ELSE recvd
  IN /\ Len(shown) <= PKT_COUNT
     /\ \A i \in DOMAIN shown : shown[i] = DescOf(i) /\ Stored(i) \subseteq written

(* Every packet is received: pauses and stalls never lock the pipe up.      *)
AllReceived == <>(Len(recvd) = PKT_COUNT)

TypeOK ==
  /\ pos.pkt \in 1 .. PKT_COUNT + 1 /\ tvalid \in BOOLEAN
  /\ wr_state_r \in {"idle", "proc"} /\ wr_offset \in 1 .. STRB_WIDTH
  /\ {hdr_en_r, wr_strb_left, wr_last, extra_cycle_r, wr_data_en, wr_first_pkt,
      desc_late_write, recv_desc_v_r} \subseteq BOOLEAN
  /\ wr_tdest \in 0 .. PKT_COUNT /\ wr_pkt_len \in Nat
  /\ wr_1 \in [Lanes -> Nat \X Nat] /\ wr_2 \in [Lanes -> Nat \X Nat]
=============================================================================
