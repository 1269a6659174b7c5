------------------------------- MODULE UsStream -------------------------------
(***************************************************************************)
(* The four AXI stream channels of the UltraScale PCIe hard block model    *)
(* (pcie_us.py): completer request (cq), completer completion (cc),        *)
(* requester request (rq) and requester completion (rc).  The sender packs *)
(* a TLP into a frame (a descriptor, the payload, byte enables, parity),   *)
(* a source plays the frame on the bus beat by beat with its side band     *)
(* signals in tuser, a sink collects the beats into a frame again and the  *)
(* receiver unpacks it.  EndpointPair connects a source and a sink.        *)
(*                                                                         *)
(* A word, a field and tuser are each the set of their one bits.           *)
(* S(f, lo, w, pos) is a slice: bits lo .. lo+w-1 of field f stand at      *)
(* pos .. pos+w-1 of the word.                                             *)
(***************************************************************************)
EXTENDS Integers, Sequences, FiniteSets, SequencesExt, FiniteSetsExt

VARIABLE unit   \* the channel: ch, dword lanes, and whether tuser has 62 bits

S(f, lo, w, pos) == [f |-> f, lo |-> lo, w |-> w, pos |-> pos]
At(bits, k) == {b + k : b \in bits}
Slice(bits, lo, w) == {b - lo : b \in bits \cap (lo .. lo + w - 1)}
Num(bits) == MapThenSumSet(LAMBDA b : 2 ^ b, bits)
Ones == 0 .. 3

-----------------------------------------------------------------------------
(* TLP_us: a record of fields (bit sets), type, payload and discontinue.   *)
Put(tlp, slices) == UNION {At(Slice(tlp[s.f], s.lo, s.w), s.pos) : s \in slices}

REQ == [MEM_READ |-> {}, MEM_READ_64 |-> {}, MEM_WRITE |-> {0}, MEM_WRITE_64 |-> {0},
        IO_READ |-> {1}, IO_WRITE |-> {0, 1}, CFG_READ_0 |-> {3}, CFG_READ_1 |-> {0, 3},
        CFG_WRITE_0 |-> {1, 3}, CFG_WRITE_1 |-> {0, 1, 3}]
(* A request type read from a descriptor becomes the 64 bit type when the  *)
(* address needs it.                                                       *)
FmtType(req, address) ==
  CASE req = {} -> IF Slice(address, 32, 32) # {} THEN "MEM_READ_64" ELSE "MEM_READ"
    [] req = {0} -> IF Slice(address, 32, 32) # {} THEN "MEM_WRITE_64" ELSE "MEM_WRITE"
    [] OTHER -> CHOOSE t \in DOMAIN REQ : REQ[t] = req

(* Per byte odd parity of a word.                                          *)
dword_parity(word) == {b \in Ones : Cardinality(word \cap (8 * b .. 8 * b + 7)) % 2 = 0}
update_parity(data) == [i \in 1 .. Len(data) |-> dword_parity(data[i])]

Middle(n) == IF n > 2 THEN [i \in 1 .. n - 2 |-> Ones] ELSE << >>
ByteEnables(header, n, first, last) ==
  [i \in 1 .. header |-> {}] \o (IF n >= 1 THEN <<first>> ELSE << >>) \o Middle(n)
  \o (IF n > 1 THEN <<last>> ELSE << >>)

Frame(tlp, header, byte_en) ==
  LET data == header \o tlp.data
  IN [data |-> data, byte_en |-> byte_en, parity |-> update_parity(data), first_be |-> tlp.first_be,
      last_be |-> tlp.last_be, discontinue |-> tlp.discontinue, seq_num |-> tlp.seq_num]

pack_us_cq(tlp) ==
  LET t == [tlp EXCEPT !.req = REQ[tlp.fmt_type]]
  IN Frame(tlp, <<Put(t, {S("at", 0, 2, 0), S("address", 2, 30, 2)}),
                  Put(t, {S("address", 32, 32, 0)}),
                  Put(t, {S("length", 0, 11, 0), S("req", 0, 4, 11), S("requester_id", 0, 16, 16)}),
                  Put(t, {S("tag", 0, 8, 0), S("completer_id", 0, 3, 8), S("bar_id", 0, 3, 16),
                          S("bar_aperture", 0, 6, 19), S("tc", 0, 3, 25), S("attr", 0, 3, 28)})>>,
           ByteEnables(4, Len(tlp.data), tlp.first_be, tlp.last_be))
unpack_us_cq(pkt) ==
  LET d == pkt.data
      address == At(d[2], 32) \cup (d[1] \ {0, 1})
      data == SubSeq(d, 5, Len(d))
  IN [fmt_type |-> FmtType(Slice(d[3], 11, 4), address), length |-> Slice(d[3], 0, 11),
      requester_id |-> Slice(d[3], 16, 16), tag |-> Slice(d[4], 0, 8), tc |-> Slice(d[4], 25, 3),
      attr |-> Slice(d[4], 28, 3), at |-> Slice(d[1], 0, 2), address |-> address,
      completer_id |-> Slice(d[4], 8, 8), bar_id |-> Slice(d[4], 16, 3),
      bar_aperture |-> Slice(d[4], 19, 6), first_be |-> pkt.first_be, last_be |-> pkt.last_be,
      discontinue |-> pkt.discontinue, data |-> data,
      ok |-> /\ pkt.byte_en = ByteEnables(4, Len(data), pkt.first_be, pkt.last_be)
             /\ pkt.parity = update_parity(d)]

Locked(tlp) == IF tlp.fmt_type \in {"CPL_LOCKED", "CPL_LOCKED_DATA"} THEN {29} ELSE {}
CplType(word, length) ==
  (IF 29 \in word THEN "CPL_LOCKED" ELSE "CPL") \o (IF length # {} THEN "_DATA" ELSE "")
PcieId_from_int(bits) == bits \cap (0 .. 15)

pack_us_cc(tlp) ==
  Frame(tlp, <<Locked(tlp) \cup Put(tlp, {S("lower_address", 0, 7, 0), S("at", 0, 2, 8), S("byte_count", 0, 13, 16)}),
               Put(tlp, {S("length", 0, 11, 0), S("status", 0, 3, 11), S("requester_id", 0, 16, 16)}),
               Put(tlp, {S("tag", 0, 8, 0), S("completer_id", 0, 16, 8), S("completer_id_enable", 0, 1, 24),
                         S("tc", 0, 3, 25), S("attr", 0, 3, 28)})>>, << >>)
unpack_us_cc(pkt) ==
  LET d == pkt.data
      length == Slice(d[2], 0, 11)
  IN [fmt_type |-> CplType(d[1], length), lower_address |-> Slice(d[1], 0, 7), at |-> Slice(d[1], 8, 2),
      byte_count |-> Slice(d[1], 16, 13), length |-> length, status |-> Slice(d[2], 11, 3),
      requester_id |-> PcieId_from_int(Slice(d[2], 16, 16)), completer_id |-> PcieId_from_int(Slice(d[3], 8, 24)),
      completer_id_enable |-> Slice(d[3], 24, 1), tag |-> Slice(d[3], 0, 8), tc |-> Slice(d[3], 25, 3),
      attr |-> Slice(d[3], 28, 3), discontinue |-> pkt.discontinue,
      data |-> SubSeq(d, 4, Min({3 + Num(length), Len(d)})), ok |-> pkt.parity = update_parity(d)]

IsCfg(tlp) == tlp.fmt_type \in {"CFG_READ_0", "CFG_READ_1", "CFG_WRITE_0", "CFG_WRITE_1"}
pack_us_rq(tlp) ==
  LET t == [tlp EXCEPT !.req = REQ[tlp.fmt_type]]
      where == IF IsCfg(tlp) THEN <<Put(t, {S("register_number", 0, 10, 2)}), {}>>
               ELSE <<Put(t, {S("at", 0, 2, 0), S("address", 2, 30, 2)}), Put(t, {S("address", 32, 32, 0)})>>
  IN Frame(tlp, where \o
                <<Put(t, {S("length", 0, 11, 0), S("req", 0, 4, 11), S("requester_id", 0, 16, 16)}),
                  Put(t, {S("tag", 0, 8, 0), S("completer_id", 0, 16, 8), S("requester_id_enable", 0, 1, 24),
                          S("tc", 0, 3, 25), S("attr", 0, 3, 28)})>>, << >>)
unpack_us_rq(pkt) ==
  LET d == pkt.data
      req == Slice(d[3], 11, 4)
      cfg == 3 \in req
      address == IF cfg THEN {} ELSE At(d[2], 32) \cup (d[1] \ {0, 1})
  IN [fmt_type |-> FmtType(req, address), length |-> Slice(d[3], 0, 11),
      requester_id |-> PcieId_from_int(Slice(d[3], 16, 16)), tag |-> Slice(d[4], 0, 8), tc |-> Slice(d[4], 25, 3),
      attr |-> Slice(d[4], 28, 3), at |-> IF cfg THEN {} ELSE Slice(d[1], 0, 2), address |-> address,
      register_number |-> IF cfg THEN Slice(d[1], 2, 10) ELSE {},
      completer_id |-> PcieId_from_int(Slice(d[4], 8, 24)), requester_id_enable |-> Slice(d[4], 24, 1),
      first_be |-> pkt.first_be, last_be |-> pkt.last_be, discontinue |-> pkt.discontinue,
      seq_num |-> pkt.seq_num, data |-> SubSeq(d, 5, Len(d)), ok |-> pkt.parity = update_parity(d)]

(* Byte enables of a completion, from its first byte and its byte count.   *)
CplEnables(lower_address, byte_count, length, n) ==
  LET la == Num(lower_address)
      bc == Num(byte_count)
      first == (la % 4) .. 3
      last == IF bc + (la % 4) > 4 * Num(length) THEN Ones ELSE 0 .. (3 - ((4 - bc - la) % 4))
  IN IF n = 1 THEN ByteEnables(3, n, first \cap last, {}) ELSE ByteEnables(3, n, first, last)

pack_us_rc(tlp) ==
  Frame(tlp, <<Locked(tlp) \cup Put(tlp, {S("lower_address", 0, 12, 0), S("error_code", 0, 4, 12), S("byte_count", 0, 13, 16)}),
               Put(tlp, {S("length", 0, 11, 0), S("status", 0, 3, 11), S("requester_id", 0, 16, 16)}),
               Put(tlp, {S("tag", 0, 8, 0), S("completer_id", 0, 16, 8), S("tc", 0, 3, 25), S("attr", 0, 3, 28)})>>,
        CplEnables(tlp.lower_address, tlp.byte_count, tlp.length, Len(tlp.data)))
unpack_us_rc(pkt) ==
  LET d == pkt.data
      length == Slice(d[2], 0, 11)
      lower_address == Slice(d[1], 0, 12)
      byte_count == Slice(d[1], 16, 13)
      data == SubSeq(d, 4, Min({3 + Num(length), Len(d)}))
  IN [fmt_type |-> CplType(d[1], length), lower_address |-> lower_address, error_code |-> Slice(d[1], 12, 4),
      byte_count |-> byte_count, length |-> length, status |-> Slice(d[2], 11, 3),
      requester_id |-> PcieId_from_int(Slice(d[2], 16, 16)), completer_id |-> PcieId_from_int(Slice(d[3], 8, 24)),
      tag |-> Slice(d[3], 0, 8), tc |-> Slice(d[3], 25, 3), attr |-> Slice(d[3], 28, 3),
      discontinue |-> pkt.discontinue, data |-> data,
      ok |-> /\ pkt.byte_en = CplEnables(lower_address, byte_count, length, Len(data))
             /\ pkt.parity = update_parity(d)]

-----------------------------------------------------------------------------
(* Side band signals: tuser of a beat with the lanes from .. to of frame,  *)
(* and what a sink takes from tuser.                                       *)
wide == unit.lanes = 16
Pick(a, b) == IF wide THEN a ELSE b
Flag(on, bit) == IF on THEN {bit} ELSE {}
LaneBits(seq, from, to, base) == UNION {At(seq[i], 4 * (i - from) + base) : i \in from .. to}
Parity(frame, from, to, base) ==
  LaneBits(frame.parity, from, to, base)
  \cup UNION {At(Ones, 4 * i + base) : i \in to - from + 1 .. unit.lanes - 1}
LaneTake(tuser, n, base) == [i \in 1 .. n |-> Slice(tuser, 4 * (i - 1) + base, 4)]
BitsOf(n) == {b \in 0 .. 3 : (n \div 2 ^ b) % 2 = 1}
Eop(frame, from, to, bit, ptr) ==
  IF to = Len(frame.data) THEN {bit} \cup At(BitsOf(to - from), ptr) ELSE {}

CQSource_tuser(frame, first, from, to) ==
  (IF first THEN frame.first_be \cup At(frame.last_be, Pick(8, 4)) \cup {Pick(80, 40)} ELSE {})
  \cup Flag(frame.discontinue, Pick(96, 41)) \cup LaneBits(frame.byte_en, from, to, Pick(16, 8))
  \cup Parity(frame, from, to, Pick(119, 53)) \cup (IF wide THEN Eop(frame, from, to, 86, 88) ELSE {})
CQSink_tuser(u, frame, first, n) ==
  [frame EXCEPT !.first_be = IF first THEN Slice(u, 0, 4) ELSE @,
                !.last_be = IF first THEN Slice(u, Pick(8, 4), 4) ELSE @,
                !.discontinue = @ \/ Pick(96, 41) \in u,
                !.byte_en = @ \o LaneTake(u, n, Pick(16, 8)),
                !.parity = @ \o LaneTake(u, n, Pick(119, 53))]

CCSource_tuser(frame, first, from, to) ==
  Flag(wide /\ first, 0) \cup Flag(frame.discontinue, Pick(16, 0))
  \cup Parity(frame, from, to, Pick(17, 1)) \cup (IF wide THEN Eop(frame, from, to, 6, 8) ELSE {})
CCSink_tuser(u, frame, first, n) ==
  [frame EXCEPT !.discontinue = @ \/ Pick(16, 0) \in u, !.parity = @ \o LaneTake(u, n, Pick(17, 1))]

RQSource_tuser(frame, first, from, to) ==
  (IF first THEN frame.first_be \cup At(frame.last_be, Pick(8, 4)) \cup Flag(wide, 20) ELSE {})
  \cup Flag(frame.discontinue, Pick(36, 11))
  \cup (IF wide THEN At(Slice(frame.seq_num, 0, 6), 61)
        ELSE At(Slice(frame.seq_num, 0, 4), 24) \cup (IF unit.long THEN At(Slice(frame.seq_num, 4, 2), 60) ELSE {}))
  \cup Parity(frame, from, to, Pick(73, 28)) \cup (IF wide THEN Eop(frame, from, to, 26, 28) ELSE {})
RQSink_tuser(u, frame, first, n) ==
  [frame EXCEPT !.first_be = IF first THEN Slice(u, 0, 4) ELSE @,
                !.last_be = IF first THEN Slice(u, Pick(8, 4), 4) ELSE @,
                !.discontinue = @ \/ Pick(36, 11) \in u,
                !.seq_num = IF wide THEN Slice(u, 61, 6)
                            ELSE Slice(u, 24, 4) \cup (IF unit.long THEN At(Slice(u, 60, 2), 4) ELSE {}),
                !.parity = @ \o LaneTake(u, n, Pick(73, 28))]

RCSource_tuser(frame, first, from, to) ==
  Flag(first, Pick(64, 32)) \cup Flag(frame.discontinue, Pick(96, 42))
  \cup LaneBits(frame.byte_en, from, to, 0) \cup Parity(frame, from, to, Pick(97, 43))
  \cup Eop(frame, from, to, Pick(76, 34), Pick(80, 35))
RCSink_tuser(u, frame, first, n) ==
  [frame EXCEPT !.discontinue = @ \/ Pick(96, 42) \in u, !.byte_en = @ \o LaneTake(u, n, 0),
                !.parity = @ \o LaneTake(u, n, Pick(97, 43))]

-----------------------------------------------------------------------------
(* One clock cycle of a source: an accepted beat leaves the bus, a new     *)
(* frame is taken when the last one is played out, and the next beat goes  *)
(* onto a free bus.                                                        *)
NoFrame == [data |-> << >>, byte_en |-> << >>, parity |-> << >>, first_be |-> {}, last_be |-> {},
            discontinue |-> FALSE, seq_num |-> {}]
Idle == [queue |-> << >>, frame |-> NoFrame, next |-> 1, active |-> FALSE, first |-> TRUE]
NoBeat == [tvalid |-> FALSE, tdata |-> << >>, tuser |-> {}, tlast |-> FALSE]

SourceReset(s) == [s EXCEPT !.frame = NoFrame, !.next = 1, !.active = FALSE, !.first = TRUE]
SourceCycle(s, b, tready, pause, stream) ==
  LET taken == tready /\ b.tvalid
      active == s.active /\ ~taken
      tvalid == s.active /\ ~taken /\ (b.tvalid \/ ~pause)
      pop == s.next > Len(s.frame.data) /\ s.queue # << >>
      frame == IF pop THEN Head(s.queue) ELSE s.frame
      from == IF pop THEN 1 ELSE s.next
      first == pop \/ s.first
      to == Min({from + unit.lanes - 1, Len(frame.data)})
      queue == IF pop THEN Tail(s.queue) ELSE s.queue
      tuser == CASE stream = "CQ" -> CQSource_tuser(frame, first, from, to)
                 [] stream = "CC" -> CCSource_tuser(frame, first, from, to)
                 [] stream = "RQ" -> RQSource_tuser(frame, first, from, to)
                 [] stream = "RC" -> RCSource_tuser(frame, first, from, to)
  IN IF from <= Len(frame.data) /\ ~active
     THEN [src |-> [queue |-> queue, frame |-> frame, next |-> to + 1, active |-> TRUE, first |-> FALSE],
           bus |-> [tvalid |-> ~pause, tdata |-> SubSeq(frame.data, from, to),
                    tuser |-> tuser, tlast |-> to = Len(frame.data)]]
     ELSE [src |-> [queue |-> queue, frame |-> frame, next |-> from, active |-> active, first |-> first],
           bus |-> [b EXCEPT !.tvalid = tvalid]]

CQSource(s, b, tready, pause) == SourceCycle(s, b, tready, pause, "CQ")
CCSource(s, b, tready, pause) == SourceCycle(s, b, tready, pause, "CC")
RQSource(s, b, tready, pause) == SourceCycle(s, b, tready, pause, "RQ")
RCSource(s, b, tready, pause) == SourceCycle(s, b, tready, pause, "RC")

(* One clock cycle of a sink.  It takes a beat whenever it does not pause; *)
(* tready also needs the cycle after a reset.  The lanes of a beat are     *)
(* contiguous from lane 0 here, so that of the assertions on tkeep the one *)
(* on a beat that is not the last remains.                                 *)
Fresh == [ready |-> FALSE, frame |-> NoFrame, first |-> TRUE, queue |-> << >>]
SinkReset(k) == [k EXCEPT !.ready = FALSE, !.frame = NoFrame, !.first = TRUE]
SinkCycle(k, b, pause, stream) ==
  LET n == Len(b.tdata)
      sideband == CASE stream = "CQ" -> CQSink_tuser(b.tuser, k.frame, k.first, n)
                    [] stream = "CC" -> CCSink_tuser(b.tuser, k.frame, k.first, n)
                    [] stream = "RQ" -> RQSink_tuser(b.tuser, k.frame, k.first, n)
                    [] stream = "RC" -> RCSink_tuser(b.tuser, k.frame, k.first, n)
      frame == [sideband EXCEPT !.data = @ \o b.tdata]
  IN IF ~(b.tvalid /\ ~pause) THEN [k EXCEPT !.ready = TRUE]
     ELSE IF b.tlast THEN [ready |-> TRUE, frame |-> NoFrame, first |-> TRUE, queue |-> Append(k.queue, frame)]
     ELSE [k EXCEPT !.ready = TRUE, !.frame = frame, !.first = FALSE]
UsTkeepHolds(b, pause) == b.tvalid /\ ~pause => b.tdata # << >> /\ (b.tlast \/ Len(b.tdata) = unit.lanes)

CQSink(k, b, pause) == SinkCycle(k, b, pause, "CQ")
CCSink(k, b, pause) == SinkCycle(k, b, pause, "CC")
RQSink(k, b, pause) == SinkCycle(k, b, pause, "RQ")
RCSink(k, b, pause) == SinkCycle(k, b, pause, "RC")
=============================================================================
