----------------------------- MODULE EndpointPair -----------------------------
(***************************************************************************)
(* A source and a sink of one kind, connected by their bus: the channels   *)
(* of the PCIe hard block model (UsStream) and the packet endpoints of     *)
(* PacketStream.  Packets are handed to the source at any time, either end *)
(* may pause in any cycle, and a reset of both may come in any cycle.      *)
(***************************************************************************)
EXTENDS UsStream, PacketStream

CONSTANTS
  Units,        \* kinds of pairs with their widths
  Packets(_),   \* the packets to send on a pair
  NPKT,         \* how many
  MAXRESET      \* bound on the resets

VARIABLES
  tosend,       \* packets the sender will still give to the source
  src, bus, snk,
  sent, got,    \* packets given to the source and taken from the sink
  failed,       \* an assertion of sink or unpack has failed
  resets

vars == <<unit, tosend, src, bus, snk, sent, got, failed, resets>>

Us == unit.ch \in {"cq", "cc", "rq", "rc"}
Axis == unit.ch \in {"axis", "pcie_axis"}
(* Pause gates the handshake itself, between the registers of both ends.   *)
Gated == unit.ch \in {"pcie_axis", "ll"}

Source(s, b, tready, pause) ==
  CASE unit.ch = "cq" -> CQSource(s, b, tready, pause)
    [] unit.ch = "cc" -> CCSource(s, b, tready, pause)
    [] unit.ch = "rq" -> RQSource(s, b, tready, pause)
    [] unit.ch = "rc" -> RCSource(s, b, tready, pause)
    [] unit.ch = "axis" -> AXIStreamSource(s, b, tready, pause, unit.lanes)
    [] unit.ch = "pcie_axis" -> PcieAXIStreamSource(s, b, tready, pause, unit.lanes)
    [] unit.ch = "ll" -> LocalLinkSource(s, b, tready, pause)
    [] unit.ch = "pcie_if" -> PcieIfSource(s, b, tready, pause, unit.segs, unit.lanes)
Sink(k, b, pause) ==
  CASE unit.ch = "cq" -> CQSink(k, b, pause)
    [] unit.ch = "cc" -> CCSink(k, b, pause)
    [] unit.ch = "rq" -> RQSink(k, b, pause)
    [] unit.ch = "rc" -> RCSink(k, b, pause)
    [] unit.ch = "axis" -> AXIStreamSink(k, b, pause)
    [] unit.ch = "pcie_axis" -> PcieAXIStreamSink(k, b, pause)
    [] unit.ch = "ll" -> LocalLinkSink(k, b, pause)
    [] unit.ch = "pcie_if" -> PcieIfSink(k, b, pause, unit.lanes)

pack(p) ==
  CASE unit.ch = "cq" -> pack_us_cq(p)
    [] unit.ch = "cc" -> pack_us_cc(p)
    [] unit.ch = "rq" -> pack_us_rq(p)
    [] unit.ch = "rc" -> pack_us_rc(p)
    [] unit.ch = "pcie_if" -> from_tlp(p, unit.force)
    [] OTHER -> p
unpack(pkt) ==
  CASE unit.ch = "cq" -> unpack_us_cq(pkt)
    [] unit.ch = "cc" -> unpack_us_cc(pkt)
    [] unit.ch = "rq" -> unpack_us_rq(pkt)
    [] unit.ch = "rc" -> unpack_us_rc(pkt)
    [] unit.ch = "pcie_if" -> to_tlp(pkt)
    [] OTHER -> pkt

(* The assertions a sink makes on the beat it takes.                       *)
BeatHolds(b, pause) ==
  CASE Us -> UsTkeepHolds(b, pause)
    [] Axis -> TkeepHolds(b, pause, unit.lanes)
    [] OTHER -> TRUE

Init ==
  /\ unit \in Units
  /\ tosend \in [1 .. NPKT -> Packets(unit)]
  /\ src = (CASE Us -> Idle [] unit.ch = "pcie_if" -> PcieIfIdle [] OTHER -> AxisIdle)
  /\ bus = IF Us THEN NoBeat ELSE Quiet
  /\ snk = (CASE Us -> Fresh [] unit.ch = "pcie_if" -> PcieIfFresh [] OTHER -> AxisFresh)
  /\ sent = << >> /\ got = << >> /\ failed = FALSE /\ resets = 0

send ==
  /\ tosend # << >>
  /\ tosend' = Tail(tosend)
  /\ sent' = Append(sent, Head(tosend))
  /\ LET after == [src EXCEPT !.queue = Append(@, pack(Head(tosend)))]
     IN src' = IF unit.ch = "pcie_if" THEN Settle(after, unit.segs, unit.lanes) ELSE after
  /\ UNCHANGED <<unit, bus, snk, got, failed, resets>>

(* Frames the source holds besides its queue: one being played, and one    *)
(* whose last beat waits on the bus.                                       *)
Playing ==
  CASE Us -> src.next <= Len(src.frame.data)
    [] unit.ch = "pcie_if" -> src.waiting # << >> \/ src.drive # << >>
    [] unit.ch = "axis" -> src.rest # << >>
    [] OTHER -> bus.tvalid /\ src.rest # << >>
OnBus ==
  CASE Us -> src.active /\ bus.tlast
    [] unit.ch = "axis" -> src.active /\ bus.tlast
    [] OTHER -> bus.tvalid
Busy == src.queue # << >> \/ Playing \/ OnBus \/ ~snk.ready
        \/ (Us /\ src.active) \/ (unit.ch = "axis" /\ src.active)

(* A clock edge: both ends sample the bus as it was before the edge.  The  *)
(* pcie_if sink registers its pause, the others gate tready with it.       *)
Cycle(psrc, psnk) ==
  /\ Busy
  /\ LET tready == snk.ready /\ (unit.ch = "pcie_if" \/ ~psnk)
         seen == [bus EXCEPT !.tvalid = @ /\ (Gated => ~psrc)]
         after == Source(src, bus, tready, psrc)
     IN /\ src' = after.src /\ bus' = after.bus
        /\ snk' = Sink(snk, seen, psnk)
        /\ failed' = (failed \/ ~BeatHolds(seen, psnk))
  /\ UNCHANGED <<unit, tosend, sent, got, resets>>

(* Reset of both ends.  The pcie_if coroutines that pack and unpack do not *)
(* see it: only the bus is cleared.                                        *)
reset ==
  /\ resets < MAXRESET
  /\ unit.reset
  /\ resets' = resets + 1
  /\ src' = (CASE Us -> SourceReset(src) [] unit.ch = "axis" -> AXIStreamSource_reset(src) [] OTHER -> src)
  /\ bus' = IF Us THEN NoBeat ELSE Quiet
  /\ snk' = (CASE Us -> SinkReset(snk) [] unit.ch = "pcie_if" -> [snk EXCEPT !.ready = FALSE]
               [] OTHER -> AXIStreamSink_reset(snk))
  /\ UNCHANGED <<unit, tosend, sent, got, failed>>

(* The receiver takes a packet from the sink.                              *)
recv ==
  /\ snk.queue # << >>
  /\ LET p == unpack(Head(snk.queue))
     IN got' = Append(got, p) /\ failed' = (failed \/ (Us /\ ~p.ok))
  /\ snk' = [snk EXCEPT !.queue = Tail(@)]
  /\ UNCHANGED <<unit, tosend, src, bus, sent, resets>>

Rest == tosend = << >> /\ ~Busy /\ snk.queue = << >> /\ UNCHANGED vars
Next == send \/ recv \/ reset \/ Rest \/ \E psrc, psnk \in BOOLEAN : Cycle(psrc, psnk)

(* Neither end pauses for ever: again and again there is a cycle without a *)
(* pause on either side.  The receiver polls its sink.                     *)
Clear == Cycle(FALSE, FALSE)
Fairness ==
  /\ []<>(tosend = << >>) \/ []<><<send>>_vars
  /\ []<>(snk.queue = << >>) \/ []<><<recv>>_vars
  /\ []<>~Busy \/ []<><<Clear>>_vars
Spec == Init /\ [][Next]_vars /\ Fairness

-----------------------------------------------------------------------------
(* What a channel carries of a field: a completer request only the         *)
(* function of the completer, a short tuser four bits of the sequence      *)
(* number.                                                                 *)
Carried(p, f) ==
  CASE f = "completer_id" /\ unit.ch = "cq" -> Slice(p[f], 0, 3)
    [] f = "seq_num" /\ ~wide /\ ~unit.long -> Slice(p[f], 0, 4)
    [] OTHER -> p[f]
(* A forced four dword header stays with memory requests.                  *)
Same(p, g) ==
  CASE Us -> \A f \in DOMAIN g \ {"ok"} : g[f] = Carried(p, f)
    [] Axis -> frame_eq(p, g)
    [] unit.ch = "pcie_if" ->
         g = [p EXCEPT !.four_dw = @ \/ (unit.force /\ p.op \in {"mem_read", "mem_write"})]
    [] OTHER -> p = g

InSource == Cardinality({x \in {"playing"} : Playing}) + Cardinality({x \in {"on bus"} : OnBus})
Lost == Len(sent) - (Len(got) + Len(snk.queue) + Len(src.queue))

(* The receiver gets the packets of the sender, in their order and equal   *)
(* to them in every field the interface carries, whatever the pauses; no   *)
(* assertion on lanes, byte enables, parity or framing fails; and a reset  *)
(* drops at most the packet being played and the one whose last beat waits *)
(* on the bus (sources, sinks, build, parse and the pack methods).         *)
PacketsExact ==
  /\ ~failed /\ (unit.ch = "pcie_if" => snk.framing)
  /\ 0 <= Lost /\ (unit.ch # "pcie_if" => Lost <= 2 * resets + InSource)
  /\ \E at \in [1 .. Len(got) -> 1 .. Len(sent)] :
       /\ \A i, j \in 1 .. Len(got) : i < j => at[i] < at[j]
       /\ \A i \in 1 .. Len(got) : Same(sent[at[i]], got[i])

Delivered == /\ Len(sent) = NPKT /\ ~Busy /\ snk.queue = << >>
             /\ (resets = 0 => Len(got) = NPKT)

(* Every packet handed over leaves the source and reaches the receiver or  *)
(* is dropped by a reset, however the two ends pause, as long as neither   *)
(* pauses for ever; without a reset none is missing (tvalid.next and       *)
(* tready in the create_logic methods, _run_source and _run_sink).         *)
AllDelivered == <>Delivered
=============================================================================
