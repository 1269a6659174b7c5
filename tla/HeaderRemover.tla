---------------------------- MODULE HeaderRemover ----------------------------
(***************************************************************************)
(* header_remover of header.v, for headers shorter than a word.  One step  *)
(* is one clock edge; the source may stall in every cycle, the sink too    *)
(* unless HDR_READY says that it is ready whenever a header comes.         *)
(***************************************************************************)
EXTENDS HeaderStream

CONSTANT HDR_READY

VARIABLES
  state,          \* HDR, MID, LST or FWD
  rest,           \* rest_tdata_r and rest_tkeep_r
  header_r, tdest_r,
  pkt, pos,       \* packet at the input, and words of it taken
  cur,            \* packet taken in last
  out,            \* what came out of it
  out_header      \* header shown with the last word that came out

vars == <<state, rest, header_r, tdest_r, pkt, pos, cur, out, out_header>>

NoHeader == <<>>

s_axis_tdata == Word(Whole(pkt), pos)
s_axis_tlast == IsLast(Whole(pkt), pos)
strb_left    == Len(s_axis_tdata) > H

\* header, when header_valid is set.
header ==
  CASE state = "HDR" -> IF pkt.hdr THEN First(s_axis_tdata, H) ELSE NoHeader
    [] state \in {"MID", "LST"} -> header_r
    [] OTHER -> NoHeader

m_axis_tdata ==
  CASE state = "HDR" /\ pkt.hdr -> After(s_axis_tdata, H)
    [] state = "MID" -> rest \o First(s_axis_tdata, H)
    [] state = "LST" -> rest
    [] OTHER -> s_axis_tdata

m_axis_tlast ==
  CASE state = "LST" -> TRUE
    [] state = "MID" -> s_axis_tlast /\ ~strb_left
    [] OTHER -> s_axis_tlast

m_axis_tvalid(s_axis_tvalid) ==
  CASE state = "LST" -> TRUE
    [] state = "HDR" /\ pkt.hdr -> s_axis_tvalid /\ s_axis_tlast
    [] OTHER -> s_axis_tvalid

m_axis_tdest == IF state = "HDR" THEN pkt.id ELSE tdest_r

(* The first word of a packet with a header is taken whether or not the    *)
(* sink is ready.                                                          *)
s_axis_tready(m_axis_tready) ==
  (state = "HDR" /\ pkt.hdr) \/ (m_axis_tready /\ state # "LST")

StateStep(s_axis_tvalid, m_axis_tready) ==
  LET go == s_axis_tvalid /\ m_axis_tready
  IN state' =
       CASE state = "HDR" /\ go /\ ~s_axis_tlast -> IF pkt.hdr THEN "MID" ELSE "FWD"
         [] state = "MID" /\ go /\ s_axis_tlast -> IF strb_left THEN "LST" ELSE "HDR"
         [] state = "LST" /\ m_axis_tready -> "HDR"
         [] state = "FWD" /\ go /\ s_axis_tlast -> "HDR"
         [] OTHER -> state

LatchStep(s_axis_tvalid, m_axis_tready) ==
  /\ rest' = IF s_axis_tvalid /\ s_axis_tready(m_axis_tready)
             THEN After(s_axis_tdata, H) ELSE rest
  /\ header_r' = IF state = "HDR" THEN First(s_axis_tdata, H) ELSE header_r
  /\ tdest_r'  = IF state = "HDR" THEN pkt.id ELSE tdest_r

(* The source goes on to the next word or packet.                          *)
SourceStep(s_axis_tvalid, m_axis_tready, next) ==
  LET taken == s_axis_tvalid /\ s_axis_tready(m_axis_tready)
  IN /\ IF taken /\ s_axis_tlast
        THEN next.id # pkt.id /\ pkt' = next /\ pos' = 0
        ELSE next = pkt /\ pkt' = pkt /\ pos' = IF taken THEN pos + 1 ELSE pos
     /\ cur' = IF taken /\ pos = 0 THEN pkt ELSE cur

SinkStep(s_axis_tvalid, m_axis_tready) ==
  LET first == s_axis_tvalid /\ s_axis_tready(m_axis_tready) /\ pos = 0
      old   == IF first THEN NoOutput ELSE out
  IN IF m_axis_tvalid(s_axis_tvalid) /\ m_axis_tready
     THEN /\ out' = Append1(old, m_axis_tdata, m_axis_tlast, m_axis_tdest)
          /\ out_header' = header
     ELSE out' = old /\ UNCHANGED out_header

Clock(s_axis_tvalid, m_axis_tready, next) ==
  /\ HDR_READY /\ state = "HDR" /\ s_axis_tvalid /\ pkt.hdr => m_axis_tready
  /\ StateStep(s_axis_tvalid, m_axis_tready)
  /\ LatchStep(s_axis_tvalid, m_axis_tready)
  /\ SourceStep(s_axis_tvalid, m_axis_tready, next)
  /\ SinkStep(s_axis_tvalid, m_axis_tready)

Inputs == {p \in Packets : ~p.drop}

Init == /\ state = "HDR" /\ rest = <<>> /\ header_r = <<>> /\ tdest_r = 0
        /\ pkt \in Inputs /\ pkt.id = 0 /\ pos = 0
        /\ cur = pkt /\ out = NoOutput /\ out_header = NoHeader

Next == \E s_axis_tvalid, m_axis_tready \in BOOLEAN, next \in Inputs :
          Clock(s_axis_tvalid, m_axis_tready, next)

Spec == Init /\ [][Next]_vars
-----------------------------------------------------------------------------
TypeOK == /\ state \in {"HDR", "MID", "LST", "FWD"}
          /\ Len(rest) <= W - H /\ Len(header_r) <= H /\ tdest_r \in Ids
          /\ pkt \in Inputs /\ pos \in 0 .. MAX_LEN

(* What comes out is the payload of the packet taken in last: all of its   *)
(* bytes in their order, and the end of the packet after its last byte.    *)
(* When the remover waits for the next packet, this one has come out.      *)
RemoverExact ==
  /\ IsPrefix(out.bytes, Payload(cur))
  /\ out.ended => out.bytes = Payload(cur)
  /\ state = "HDR" /\ pkt # cur => out.ended

(* As long as the output is valid, the header shown with it is that of its *)
(* own packet, and so is the destination.                                  *)
HeaderWithOutput ==
  out.bytes # <<>> =>
    /\ out_header = IF cur.hdr THEN Header(cur.id) ELSE NoHeader
    /\ out.same /\ out.dest = cur.id
=============================================================================
