----------------------------- MODULE HeaderAdder -----------------------------
(***************************************************************************)
(* header_adder and header_adder_blocking of header.v.  One step is one    *)
(* clock edge; the source and the sink of the stream may stall in every    *)
(* cycle.  header_adder takes a header with the first word of a packet if  *)
(* there is one then; header_adder_blocking (BLOCKING) makes the packet    *)
(* wait for its header, which may also tell to drop the packet.            *)
(***************************************************************************)
EXTENDS HeaderStream

CONSTANT BLOCKING

VARIABLES
  state,          \* HDR, MID, LST, and FWD or DRP
  rest,           \* rest_tdata_r and rest_tkeep_r
  tdest_r,        \* s_axis_tdest_r and s_axis_tuser_r
  pkt, pos,       \* packet at the input, and words of it taken
  header_valid,
  cur,            \* packet taken in last, if it is not dropped
  out             \* what came out of it

vars == <<state, rest, tdest_r, pkt, pos, header_valid, cur, out>>

s_axis_tdata == Word(Payload(pkt), pos)
s_axis_tlast == IsLast(Payload(pkt), pos)
\* The destination is at the head of the FIFO that the header comes from.
s_axis_tdest == IF BLOCKING /\ pos > 0 THEN 1 - pkt.id ELSE pkt.id
strb_left    == Len(s_axis_tdata) > W - H

\* The packet has a header, at its first word.
HasHeader == IF BLOCKING THEN header_valid ELSE pkt.hdr
drop      == BLOCKING /\ pkt.drop

\* Bug: the end of the packet is told although bytes are left.
m_axis_tlastEarly ==
  IF state = "LST" THEN TRUE ELSE s_axis_tlast

m_axis_tlast ==
  CASE state = "LST" -> TRUE
    [] state = "MID" \/ (state = "HDR" /\ HasHeader) -> s_axis_tlast /\ ~strb_left
    [] OTHER -> s_axis_tlast

m_axis_tdata ==
  CASE state = "LST" -> rest
    [] state = "MID" -> rest \o First(s_axis_tdata, W - H)
    [] state = "HDR" /\ HasHeader -> Header(pkt.id) \o First(s_axis_tdata, W - H)
    [] OTHER -> s_axis_tdata

m_axis_tvalid(s_axis_tvalid) ==
  CASE state = "LST" -> TRUE
    [] state = "DRP" -> FALSE
    [] state = "HDR" /\ BLOCKING -> s_axis_tvalid /\ header_valid /\ ~drop
    [] OTHER -> s_axis_tvalid

s_axis_tready(m_axis_tready) ==
  CASE state = "LST" -> FALSE
    [] state = "DRP" -> TRUE
    [] state = "HDR" /\ BLOCKING -> header_valid /\ (m_axis_tready \/ drop)
    [] OTHER -> m_axis_tready

m_axis_tdest == IF state = "HDR" THEN s_axis_tdest ELSE tdest_r

StateStep(s_axis_tvalid, m_axis_tready) ==
  LET taken == s_axis_tvalid /\ s_axis_tready(m_axis_tready)
      end   == IF strb_left THEN "LST" ELSE "HDR"
  IN state' =
       CASE state = "HDR" /\ taken /\ drop ->
              IF s_axis_tlast THEN "HDR" ELSE "DRP"
         [] state = "HDR" /\ taken /\ HasHeader /\ ~drop ->
              IF s_axis_tlast THEN end ELSE "MID"
         [] state = "HDR" /\ taken /\ ~HasHeader ->
              IF s_axis_tlast THEN "HDR" ELSE "FWD"
         [] state = "MID" /\ taken /\ s_axis_tlast -> end
         [] state = "LST" /\ m_axis_tready -> "HDR"
         [] state \in {"FWD", "DRP"} /\ taken /\ s_axis_tlast -> "HDR"
         [] OTHER -> state

RestStep(s_axis_tvalid, m_axis_tready) ==
  rest' = IF s_axis_tvalid /\ s_axis_tready(m_axis_tready)
          THEN After(s_axis_tdata, W - H) ELSE rest

DestStep == tdest_r' = IF state = "HDR" THEN s_axis_tdest ELSE tdest_r

(* The source goes on to the next word or packet.                          *)
SourceStep(s_axis_tvalid, m_axis_tready, next, hdr_v) ==
  LET taken == s_axis_tvalid /\ s_axis_tready(m_axis_tready)
  IN /\ IF taken /\ s_axis_tlast
        THEN next.id # pkt.id /\ pkt' = next /\ pos' = 0
        ELSE next = pkt /\ pkt' = pkt /\ pos' = IF taken THEN pos + 1 ELSE pos
     /\ cur' = IF taken /\ state = "HDR" /\ ~drop THEN pkt ELSE cur
     /\ header_valid' = IF header_valid /\ ~(taken /\ state = "HDR")
                        THEN TRUE ELSE BLOCKING /\ hdr_v

SinkStep(s_axis_tvalid, m_axis_tready) ==
  out' = IF m_axis_tvalid(s_axis_tvalid) /\ m_axis_tready
         THEN Append1(out, m_axis_tdata, m_axis_tlast, m_axis_tdest) ELSE out

Clock(s_axis_tvalid, m_axis_tready, next, hdr_v) ==
  /\ StateStep(s_axis_tvalid, m_axis_tready)
  /\ RestStep(s_axis_tvalid, m_axis_tready) /\ DestStep
  /\ SourceStep(s_axis_tvalid, m_axis_tready, next, hdr_v)
  /\ SinkStep(s_axis_tvalid, m_axis_tready)

(* With BLOCKING every packet has a header, without it none is dropped.    *)
Inputs == {p \in Packets : IF BLOCKING THEN p.hdr ELSE ~p.drop}

Init == /\ state = "HDR" /\ rest = <<>> /\ tdest_r = 0
        /\ pkt \in Inputs /\ pkt.id = 0 /\ pos = 0 /\ header_valid = FALSE
        /\ cur = pkt /\ out = NoOutput

Next == \E s_axis_tvalid, m_axis_tready, hdr_v \in BOOLEAN, next \in Inputs :
          Clock(s_axis_tvalid, m_axis_tready, next, hdr_v)

Spec == Init /\ [][Next]_vars

-----------------------------------------------------------------------------
TypeOK == /\ state \in {"HDR", "MID", "LST"} \cup (IF BLOCKING THEN {"DRP"} ELSE {"FWD"})
          /\ Len(rest) <= H /\ tdest_r \in Ids
          /\ pkt \in Inputs /\ pos \in 0 .. MAX_LEN /\ header_valid \in BOOLEAN

(* Whatever the stalls, the words that come out are those of the packet    *)
(* taken in last, with its own header in front of it, no byte missing,     *)
(* doubled or out of place, and the end of the packet after its last byte. *)
AdderExact ==
  /\ IsPrefix(out.bytes, Whole(cur))
  /\ out.ended => out.bytes = Whole(cur)

(* All words of a packet go to the destination of this packet, also the    *)
(* last one, which leaves when the next packet is at the input.            *)
OneDestination == out.same /\ (out.bytes # <<>> => out.dest = out.bytes[1][1])
=============================================================================
