----------------------------- MODULE PacketStream -----------------------------
(***************************************************************************)
(* The other packet endpoints of the test benches: the AXI stream source   *)
(* and sink of lib/Rosebud (tvalid registered with the pause) and of       *)
(* lib/pcie (pause gates the handshake combinationally), the LocalLink     *)
(* pair, and the segmented TLP interface of pcie_if.py, whose source and   *)
(* sink are each a clocked coroutine and a packer coroutine.               *)
(*                                                                         *)
(* An AXI stream frame has bytes (any values), id, dest, user and the user *)
(* value of its last cycle.  A beat's lanes are contiguous from lane 0:    *)
(* its data is the sequence of the bytes kept.                             *)
(***************************************************************************)
EXTENDS Integers, Sequences, FiniteSets, SequencesExt, FiniteSetsExt

None == [op |-> "none"]
Quiet == [tvalid |-> FALSE, tdata |-> << >>, tlast |-> FALSE]

(* AXIStreamFrame.build: beats of M bytes.                                 *)
build(f, M) ==
  LET n == (Len(f.data) + M - 1) \div M
  IN [i \in 1 .. n |-> [tdata |-> SubSeq(f.data, (i - 1) * M + 1, Min({i * M, Len(f.data)})),
                        tid |-> f.id, tdest |-> f.dest,
                        tuser |-> IF i = n /\ f.last_cycle_user # 0 THEN f.last_cycle_user ELSE f.user]]
(* AXIStreamFrame.parse: id, dest and user have one entry per cycle.       *)
parse(beats) ==
  [data |-> FlattenSeq([i \in 1 .. Len(beats) |-> beats[i].tdata]), id |-> [i \in 1 .. Len(beats) |-> beats[i].tid],
   dest |-> [i \in 1 .. Len(beats) |-> beats[i].tdest], user |-> [i \in 1 .. Len(beats) |-> beats[i].tuser],
   last_cycle_user |-> beats[Len(beats)].tuser]

(* AXIStreamFrame.__eq__ of a frame sent (one id, dest, user) and a frame  *)
(* received (a list of each).                                              *)
frame_eq(f, g) ==
  /\ f.data = g.data
  /\ \A i \in 1 .. Len(g.id) : g.id[i] = f.id /\ g.dest[i] = f.dest
  /\ g.last_cycle_user = IF f.last_cycle_user # 0 THEN f.last_cycle_user ELSE f.user
  /\ \A i \in 1 .. Len(g.user) - 1 : g.user[i] = f.user

Beat(beats, valid) ==
  [tvalid |-> valid, tdata |-> beats[1].tdata, tid |-> beats[1].tid, tdest |-> beats[1].tdest,
   tuser |-> beats[1].tuser, tlast |-> Len(beats) = 1]

-----------------------------------------------------------------------------
(* lib/Rosebud: rest holds the beats still to be played.                   *)
AxisIdle == [queue |-> << >>, rest |-> << >>, active |-> FALSE]
AXIStreamSource_reset(s) == [s EXCEPT !.rest = << >>, !.active = FALSE]
AXIStreamSource(s, b, tready, pause, M) ==
  LET taken == tready /\ b.tvalid
      more == taken /\ s.rest # << >>
      active == s.active /\ (taken => more)
      pop == ~active /\ s.queue # << >>
      beats == IF pop THEN build(Head(s.queue), M) ELSE s.rest
  IN IF pop THEN [src |-> [queue |-> Tail(s.queue), rest |-> Tail(beats), active |-> TRUE],
                  bus |-> Beat(beats, ~pause)]
     ELSE IF more THEN [src |-> [s EXCEPT !.rest = Tail(@)], bus |-> Beat(beats, ~pause)]
     ELSE [src |-> [s EXCEPT !.active = active],
           bus |-> IF taken THEN Quiet ELSE [b EXCEPT !.tvalid = s.active /\ (@ \/ ~pause)]]

AxisFresh == [ready |-> FALSE, beats |-> << >>, queue |-> << >>]
AXIStreamSink_reset(k) == [k EXCEPT !.ready = FALSE, !.beats = << >>]
\* Mutant: a beat is taken in a cycle in which the sink pauses.
AXIStreamSinkPaused(k, b, pause) ==
  LET beats == Append(k.beats, b)
  IN IF ~b.tvalid THEN [k EXCEPT !.ready = TRUE]
     ELSE IF b.tlast THEN [ready |-> TRUE, beats |-> << >>, queue |-> Append(k.queue, parse(beats))]
     ELSE [k EXCEPT !.ready = TRUE, !.beats = beats]
AXIStreamSink(k, b, pause) ==
  LET beats == Append(k.beats, b)
  IN IF ~b.tvalid \/ pause THEN [k EXCEPT !.ready = TRUE]
     ELSE IF b.tlast THEN [ready |-> TRUE, beats |-> << >>, queue |-> Append(k.queue, parse(beats))]
     ELSE [k EXCEPT !.ready = TRUE, !.beats = beats]
TkeepHolds(b, pause, M) == b.tvalid /\ ~pause => b.tdata # << >> /\ (b.tlast \/ Len(b.tdata) = M)

(* lib/pcie: b.tvalid is tvalid_int.  A reset leaves the remaining beats,  *)
(* which the next frame overwrites.                                        *)
PcieAXIStreamSource(s, b, tready, pause, M) ==
  LET taken == tready /\ ~pause /\ b.tvalid
      more == taken /\ s.rest # << >>
      pop == ((b.tlast /\ taken) \/ ~b.tvalid) /\ s.queue # << >>
      beats == IF pop THEN build(Head(s.queue), M) ELSE s.rest
  IN IF pop THEN [src |-> [s EXCEPT !.queue = Tail(@), !.rest = Tail(beats)], bus |-> Beat(beats, TRUE)]
     ELSE IF more THEN [src |-> [s EXCEPT !.rest = Tail(@)], bus |-> Beat(beats, TRUE)]
     ELSE [src |-> s, bus |-> IF taken THEN Quiet ELSE b]
PcieAXIStreamSink(k, b, pause) == AXIStreamSink(k, b, pause)

(* LocalLink: one byte per cycle, the first and the last marked.           *)
Octet(data, sof) == [tvalid |-> TRUE, tdata |-> data[1], sof |-> sof, tlast |-> Len(data) = 1]
LocalLinkSource(s, b, tready, pause) ==
  LET taken == tready /\ ~pause /\ b.tvalid
      more == taken /\ s.rest # << >>
      pop == ((b.tlast /\ taken) \/ ~b.tvalid) /\ s.queue # << >>
      data == IF pop THEN Head(s.queue) ELSE s.rest
  IN IF pop THEN [src |-> [s EXCEPT !.queue = Tail(@), !.rest = Tail(data)], bus |-> Octet(data, TRUE)]
     ELSE IF more THEN [src |-> [s EXCEPT !.rest = Tail(@)], bus |-> Octet(data, FALSE)]
     ELSE [src |-> s, bus |-> IF taken THEN Quiet ELSE b]
LocalLinkSink(k, b, pause) ==
  LET beats == Append(IF b.sof THEN << >> ELSE k.beats, b.tdata)
  IN IF ~b.tvalid \/ pause THEN [k EXCEPT !.ready = TRUE]
     ELSE IF b.tlast THEN [ready |-> TRUE, beats |-> << >>, queue |-> Append(k.queue, beats)]
     ELSE [k EXCEPT !.ready = TRUE, !.beats = beats]

-----------------------------------------------------------------------------
(* PcieIfFrame: the header's operation, whether it has four dwords, its    *)
(* address and length; the payload; the side band values.                  *)
from_tlp(tlp, force_64bit_addr) ==
  [tlp EXCEPT !.four_dw = @ \/ (force_64bit_addr /\ tlp.op \in {"mem_read", "mem_write", "io_read", "io_write"})]
to_tlp(frame) == IF frame.op \in {"io_read", "io_write"} THEN [frame EXCEPT !.four_dw = FALSE] ELSE frame

(* PcieIfSource._run puts frames into transactions of SEGS segments; the   *)
(* next frame may begin in the next segment of the same transaction.       *)
NoSeg == [valid |-> FALSE, sop |-> FALSE, eop |-> FALSE, frame |-> None, data |-> << >>]
Segment(st, LANES) ==
  LET start == st.frame = None
      frame == IF start THEN Head(st.queue) ELSE st.frame
      from == IF start THEN 1 ELSE st.next
      to == Min({from + LANES - 1, Len(frame.data)})
      eop == to >= Len(frame.data)
      seg == [valid |-> from = 1 \/ frame.data # << >>, sop |-> from = 1, eop |-> eop,
              frame |-> [frame EXCEPT !.data = << >>], data |-> SubSeq(frame.data, from, to)]
  IN IF start /\ st.queue = << >> THEN [st EXCEPT !.segs = Append(@, NoSeg)]
     ELSE [queue |-> IF start THEN Tail(st.queue) ELSE st.queue, next |-> to + 1,
           frame |-> IF eop THEN None ELSE frame, segs |-> Append(st.segs, seg)]

(* A transaction waits in _drive until drive_obj is free: _run is at most  *)
(* one transaction ahead.                                                  *)
PcieIfIdle == [queue |-> << >>, frame |-> None, next |-> 1, waiting |-> << >>, drive |-> << >>]
Settle(s, SEGS, LANES) ==
  LET Hand(x) == IF x.drive = << >> THEN [x EXCEPT !.drive = x.waiting, !.waiting = << >>] ELSE x
      Pack(x) == LET st == FoldLeft(LAMBDA acc, i : Segment(acc, LANES),
                                    [queue |-> x.queue, frame |-> x.frame, next |-> x.next, segs |-> << >>],
                                    [i \in 1 .. SEGS |-> i])
                 IN IF x.waiting # << >> \/ (x.frame = None /\ x.queue = << >>) THEN x
                    ELSE [x EXCEPT !.queue = st.queue, !.frame = st.frame, !.next = st.next, !.waiting = st.segs]
  IN Pack(Hand(Pack(Hand(s))))

PcieIfSource(s, b, ready, pause, SEGS, LANES) ==
  IF ~(ready \/ ~b.tvalid) THEN [src |-> s, bus |-> b]
  ELSE IF s.drive # << >> /\ ~pause
  THEN [src |-> Settle([s EXCEPT !.drive = << >>], SEGS, LANES), bus |-> [tvalid |-> TRUE, tdata |-> s.drive]]
  ELSE [src |-> s, bus |-> [b EXCEPT !.tvalid = FALSE]]

(* PcieIfSink._run_sink samples a transaction, _run takes it apart.        *)
PcieIfFresh == [ready |-> FALSE, frame |-> None, dword_count |-> 0, queue |-> << >>, framing |-> TRUE]
TakeSegment(k, seg, LANES) ==
  LET opened == IF seg.sop THEN [k EXCEPT !.frame = seg.frame, !.dword_count = seg.frame.length,
                                          !.framing = @ /\ k.frame = None] ELSE k
      n == Min({LANES, opened.dword_count})
      filled == [opened EXCEPT !.frame.data = @ \o SubSeq(seg.data, 1, n), !.dword_count = @ - n,
                               !.framing = @ /\ Len(seg.data) = n]
  IN CASE ~seg.valid -> k
       [] seg.valid /\ opened.frame = None -> [opened EXCEPT !.framing = FALSE]
       [] seg.valid /\ opened.frame # None /\ ~seg.eop -> filled
       [] seg.valid /\ opened.frame # None /\ seg.eop ->
            [filled EXCEPT !.queue = Append(@, filled.frame), !.frame = None,
                           !.framing = @ /\ filled.dword_count = 0]
PcieIfSink(k, b, pause, LANES) ==
  LET taken == IF k.ready /\ b.tvalid
               THEN FoldLeft(LAMBDA acc, seg : TakeSegment(acc, seg, LANES), k, b.tdata) ELSE k
  IN [taken EXCEPT !.ready = ~pause]
=============================================================================
