---------------------------- MODULE AxisDmaRead ----------------------------
(***************************************************************************)
(* axis_dma.v, read side: sends the bytes of a descriptor, from any        *)
(* address and of any length, as a stream of words.  A descriptor of       *)
(* length 0 drops its packet.  One step is one clock edge.                 *)
(*                                                                         *)
(* The byte at address a of the memory is a itself, and a word is the      *)
(* sequence of the STRB_WIDTH addresses from an aligned one.  The memory   *)
(* answers requests in order, after any delay, and the sink stalls at will.*)
(***************************************************************************)
EXTENDS Naturals, Sequences

CONSTANTS
  STRB_WIDTH,     \* bytes in a word
  Addresses,      \* addresses and lengths of the descriptors
  Lengths,
  DESC_COUNT,     \* descriptors sent
  MEM_DEPTH       \* requests that the memory can hold

VARIABLES
  rd_state_r, send_base_addr, send_len, to_drop,
  aligned_rd_addr, rd_req_word_count, rd_recv_word_count, data_left,
  read_reg_1, read_reg_2, read_reg_1_v, read_reg_2_v,
  mem,            \* addresses of the words that the memory has been asked for
  mem_rd_data_v,  \* the memory shows the oldest of them
  left,           \* descriptors that are still to come
  sent,           \* bytes of the current descriptor sent so far
  done            \* descriptors completed

control == <<rd_state_r, send_base_addr, send_len, to_drop>>
counts  == <<aligned_rd_addr, rd_req_word_count, rd_recv_word_count, data_left>>
regs    == <<read_reg_1, read_reg_2, read_reg_1_v, read_reg_2_v>>
outside == <<mem, mem_rd_data_v, left, sent, done>>
vars    == <<control, counts, regs, outside>>

-----------------------------------------------------------------------------
Low(n)  == n % STRB_WIDTH
High(n) == n \div STRB_WIDTH
Word(a) == [k \in 1 .. STRB_WIDTH |-> a + k - 1]

(* The offset in the words of the memory and its sum with the length       *)
(* modulo the word: they decide how many words are read, and how many of   *)
(* the last two words hold data when the last one has come.  The code      *)
(* keeps what follows from them in registers while it sends.               *)
rd_offset       == Low(send_base_addr)
remainder_bytes == Low(send_base_addr) + Low(send_len)

extra_words == IF remainder_bytes = 0 \/ to_drop THEN 0
               ELSE IF remainder_bytes >= STRB_WIDTH THEN 2 ELSE 1

LastWords == IF rd_offset = 0 THEN 2
             ELSE IF Low(send_len) = 0 \/ remainder_bytes >= STRB_WIDTH THEN 1
             ELSE 2

m_axis_tvalid == read_reg_2_v
m_axis_tlast  == data_left = 1
rd_final_tkeep == IF Low(send_len) = 0 THEN STRB_WIDTH ELSE Low(send_len)

\* The bytes of the word on the output.
m_axis_tdata ==
  LET keep == IF m_axis_tlast THEN rd_final_tkeep ELSE STRB_WIDTH
  IN SubSeq(read_reg_2 \o read_reg_1, rd_offset + 1, rd_offset + keep)

\* Bug: the last word is never asked for.
mem_rd_enOneLess == rd_req_word_count > 1

mem_rd_en == rd_req_word_count > 0

Stalled(m_axis_tready)           == m_axis_tvalid /\ ~m_axis_tready
mem_rd_data_ready(m_axis_tready) == ~Stalled(m_axis_tready)
Received(m_axis_tready) == mem_rd_data_v /\ mem_rd_data_ready(m_axis_tready)

pkt_sent(m_axis_tready) ==
  \/ to_drop /\ rd_state_r = "init"
  \/ m_axis_tvalid /\ m_axis_tready /\ m_axis_tlast

-----------------------------------------------------------------------------
StateStep(send_desc_valid, m_axis_tready) ==
  rd_state_r' =
    CASE rd_state_r = "idle" -> IF send_desc_valid THEN "init" ELSE "idle"
      [] rd_state_r = "init" -> IF to_drop THEN "idle" ELSE "proc"
      [] rd_state_r = "proc" -> IF pkt_sent(m_axis_tready) THEN "idle" ELSE "proc"

LatchStep(send_desc_valid, addr, len) ==
  IF rd_state_r = "idle" /\ send_desc_valid
  THEN send_base_addr' = addr /\ send_len' = len /\ to_drop' = (len = 0)
  ELSE UNCHANGED <<send_base_addr, send_len, to_drop>>

CountStep(mem_rd_ready, m_axis_tready) ==
  CASE rd_state_r = "idle" ->
         /\ rd_req_word_count' = 0 /\ rd_recv_word_count' = 0
         /\ UNCHANGED aligned_rd_addr
    [] rd_state_r = "init" ->
         /\ rd_req_word_count' = High(send_len) + extra_words
         /\ rd_recv_word_count' = High(send_len) + extra_words
         /\ aligned_rd_addr' = send_base_addr - Low(send_base_addr)
    [] rd_state_r = "proc" ->
         LET req == IF mem_rd_en /\ mem_rd_ready THEN 1 ELSE 0
         IN /\ rd_req_word_count' = rd_req_word_count - req
            /\ aligned_rd_addr' = aligned_rd_addr + req * STRB_WIDTH
            /\ rd_recv_word_count' =
                 rd_recv_word_count - (IF Received(m_axis_tready) THEN 1 ELSE 0)

LeftStep(m_axis_tready) ==
  data_left' = IF rd_state_r # "proc" THEN 0
               ELSE IF rd_recv_word_count = 1 /\ Received(m_axis_tready)
                    THEN LastWords
               ELSE IF data_left > 0 /\ ~Stalled(m_axis_tready)
                    THEN data_left - 1 ELSE data_left

(* A word comes in, or the last words go out, or a word has gone out and   *)
(* the next has not come yet.                                              *)
RegStep(m_axis_tready) ==
  \/ /\ Received(m_axis_tready)
     /\ read_reg_1' = Word(Head(mem)) /\ read_reg_1_v' = TRUE
     /\ read_reg_2' = read_reg_1 /\ read_reg_2_v' = read_reg_1_v
  \/ /\ ~Received(m_axis_tready)
     /\ data_left # 0 /\ ~Stalled(m_axis_tready)
     /\ read_reg_1_v' = FALSE /\ read_reg_2_v' = (data_left = 2)
     /\ read_reg_2' = read_reg_1 /\ UNCHANGED read_reg_1
  \/ /\ ~Received(m_axis_tready)
     /\ data_left = 0 \/ Stalled(m_axis_tready)
     /\ read_reg_2_v' = (read_reg_2_v /\ ~m_axis_tready)
     /\ UNCHANGED <<read_reg_1, read_reg_2, read_reg_1_v>>

-----------------------------------------------------------------------------
(* The memory takes requests only while its answers are taken.             *)
MemStep(mem_rd_ready, m_axis_tready) ==
  /\ mem_rd_ready => mem_rd_data_ready(m_axis_tready) /\ Len(mem) < MEM_DEPTH
  /\ mem' = (IF Received(m_axis_tready) THEN Tail(mem) ELSE mem)
              \o (IF mem_rd_en /\ mem_rd_ready THEN <<aligned_rd_addr>> ELSE <<>>)
  /\ mem_rd_data_v' \in IF mem_rd_data_v /\ ~Received(m_axis_tready) THEN {TRUE}
                       ELSE IF mem' = <<>> THEN {FALSE} ELSE BOOLEAN

Observe(send_desc_valid, m_axis_tready) ==
  /\ left' = IF rd_state_r = "idle" /\ send_desc_valid THEN left - 1 ELSE left
  /\ sent' = IF m_axis_tvalid /\ m_axis_tready
             THEN IF m_axis_tlast THEN 0 ELSE sent + Len(m_axis_tdata)
             ELSE sent
  /\ done' = IF pkt_sent(m_axis_tready) THEN done + 1 ELSE done

Clock(send_desc_valid, addr, len, mem_rd_ready, m_axis_tready) ==
  /\ StateStep(send_desc_valid, m_axis_tready)
  /\ LatchStep(send_desc_valid, addr, len)
  /\ CountStep(mem_rd_ready, m_axis_tready)
  /\ LeftStep(m_axis_tready)
  /\ RegStep(m_axis_tready)
  /\ MemStep(mem_rd_ready, m_axis_tready)
  /\ Observe(send_desc_valid, m_axis_tready)

Init ==
  /\ rd_state_r = "idle" /\ send_base_addr = 0 /\ send_len = 0 /\ to_drop = FALSE
  /\ aligned_rd_addr = 0 /\ rd_req_word_count = 0 /\ rd_recv_word_count = 0
  /\ data_left = 0
  /\ read_reg_1 = Word(0) /\ read_reg_2 = Word(0)
  /\ read_reg_1_v = FALSE /\ read_reg_2_v = FALSE
  /\ mem = <<>> /\ mem_rd_data_v = FALSE
  /\ left = DESC_COUNT /\ sent = 0 /\ done = 0

Next ==
  \E mem_rd_ready, m_axis_tready \in BOOLEAN :
    \/ Clock(FALSE, 0, 0, mem_rd_ready, m_axis_tready)
    \/ /\ rd_state_r = "idle" /\ left > 0
       /\ \E addr \in Addresses, len \in Lengths :
            Clock(TRUE, addr, len, mem_rd_ready, m_axis_tready)

Spec == Init /\ [][Next]_vars

(* Descriptors come, the memory answers and takes requests, and the sink   *)
(* takes words, again and again.                                           *)
Progress ==
  /\ \/ \E addr \in Addresses, len \in Lengths, rdy \in BOOLEAN :
         left > 0 /\ rd_state_r = "idle" /\ Clock(TRUE, addr, len, rdy, TRUE)
     \/ /\ left = 0 \/ rd_state_r # "idle"
        /\ Clock(FALSE, 0, 0, Len(mem) < MEM_DEPTH, TRUE)
  /\ mem' # <<>> => mem_rd_data_v'

-----------------------------------------------------------------------------
(* The stream has exactly the bytes of the descriptor, in order, and ends  *)
(* with the last of them, for every alignment, length and pattern of       *)
(* stalls.                                                                 *)
StreamExact ==
  m_axis_tvalid =>
    /\ rd_state_r = "proc"
    /\ m_axis_tdata = [k \in 1 .. Len(m_axis_tdata) |-> send_base_addr + sent + k - 1]
    /\ m_axis_tlast <=> (sent + Len(m_axis_tdata) = send_len)

(* Between descriptors the pipe is empty, so that no byte of one packet    *)
(* ends up in the next, and every descriptor is reported exactly once.     *)
CleanBetween ==
  /\ rd_state_r # "proc" => /\ mem = <<>> /\ ~read_reg_1_v /\ ~read_reg_2_v
                            /\ rd_req_word_count = 0 /\ sent = 0
  /\ done + left + (IF rd_state_r = "idle" THEN 0 ELSE 1) = DESC_COUNT

(* Every descriptor is sent or dropped to the end.                         *)
AllSent == <>(done = DESC_COUNT)

TypeOK ==
  /\ rd_state_r \in {"idle", "init", "proc"} /\ data_left \in 0 .. 2
  /\ {to_drop, read_reg_1_v, read_reg_2_v, mem_rd_data_v} \subseteq BOOLEAN
  /\ {rd_req_word_count, rd_recv_word_count, sent, left, done} \subseteq Nat
  /\ Len(mem) <= MEM_DEPTH
=============================================================================
