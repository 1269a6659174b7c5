----------------------------- MODULE MCBusModels -----------------------------
(***************************************************************************)
(* The bus models that the testbenches put around a design, for TLC: the   *)
(* AXI master and RAM (AxiMem), the sources and sinks of packets           *)
(* (EndpointPair) and the RAM behind the DMA engines (DmaRam).  part says  *)
(* which one runs while the others rest.                                   *)
(***************************************************************************)
EXTENDS AxiMem

CONSTANTS
  Units, Packets(_), NPKT, MAXRESET,               \* of EndpointPair
  SEGS, LANES, RAM_SIZE, Kinds, Scripts            \* of DmaRam

VARIABLES
  part,
  unit, tosend, src, bus, snk, sent, got, failed, resets,
  kind, ram, wr, rd, wv, rv, cmd_ready, wr_ready, wr_done, owed, rd_ready, pipeline, resp,
  written, want, returned, ram_resets

Pair == INSTANCE EndpointPair
Memory == INSTANCE DmaRam WITH SIZE <- RAM_SIZE

pairVars == <<unit, tosend, src, bus, snk, sent, got, failed, resets>>
ramVars  == <<kind, ram, wr, rd, wv, rv, cmd_ready, wr_ready, wr_done, owed, rd_ready, pipeline,
              resp, written, want, returned, ram_resets>>
busVars  == <<part, vars, pairVars, ramVars>>

-----------------------------------------------------------------------------
(* AXI and AXI-Lite on two byte words, 8 byte pages, bursts of at most two *)
(* beats and two ids.                                                      *)
Bytes(n, v) == [i \in 1 .. n |-> v + i]
W(addr, length, v, nb, burst) ==
  [op |-> "write", addr |-> addr, length |-> length, data |-> Bytes(length, v), num_bytes |-> nb, burst |-> burst]
R(addr, length, nb, burst) == [op |-> "read", addr |-> addr, length |-> length, num_bytes |-> nb, burst |-> burst]
Wait == [op |-> "wait"]

(* Writes of every alignment and size read back after a wait, reads racing *)
(* writes, and the wrapping and fixed bursts.                              *)
Pairs == {<<W(a, n, 10, nb, "INCR"), Wait, R(a, n, nb2, "INCR")>> :
            a \in {0, 3, 5, 6}, n \in {1, 2, 3, 6}, nb \in {1, 2}, nb2 \in {1, 2}}
Racing == {<<W(3, 2, 10, nb, "INCR"), W(6, 4, 20, 2, "INCR"), R(4, 5, 2, "INCR")>> : nb \in {1, 2}}
Around == {<<W(0, 8, 10, 2, "INCR"), Wait, W(2, 4, 30, 2, b), Wait, R(2, 4, 2, b), R(0, 4, 2, "INCR")>> : b \in {"WRAP", "FIXED"}}
LitePairs == {<<W(a, n, 10, 2, "INCR"), W(a + 1, 3, 20, 2, "INCR"), R(a, n, 2, "INCR")>> : a \in {0, 3}, n \in {1, 4}}
TestSet == [lite : {FALSE}, steps : Pairs \cup Racing \cup Around] \cup [lite : {TRUE}, steps : LitePairs]

-----------------------------------------------------------------------------
(* Pairs of each kind and three packets for each.                          *)
UsUnits == {[ch |-> c, lanes |-> n, long |-> TRUE, reset |-> TRUE] : c \in {"cq", "cc", "rq", "rc"}, n \in {2, 16}}
           \cup {[ch |-> "rq", lanes |-> 2, long |-> FALSE, reset |-> TRUE]}

OtherUnits == {[ch |-> "axis", lanes |-> n, reset |-> TRUE] : n \in {1, 4}}
              \cup {[ch |-> "pcie_axis", lanes |-> 2, reset |-> TRUE], [ch |-> "ll", lanes |-> 1, reset |-> TRUE]}
              \cup {[ch |-> "pcie_if", lanes |-> 2, segs |-> n, force |-> n = 2, reset |-> FALSE] : n \in {1, 2}}
McUnits == UsUnits \cup OtherUnits

Bits(pattern, w) == {b \in 0 .. w - 1 : b \in pattern}
Binary(n) == {b \in 0 .. 3 : (n \div 2 ^ b) % 2 = 1}
Odd == {b \in 0 .. 63 : b % 2 = 1}
Mixed == {b \in 0 .. 63 : b % 3 = 0} \cup {62, 63}
T(type, p, n, first, last) ==
  [fmt_type |-> type, req |-> {}, at |-> Bits(p, 2), address |-> {}, length |-> Binary(n),
   requester_id |-> Bits(p, 16), completer_id |-> Bits(p, 16), tag |-> Bits(p, 8), tc |-> Bits(p, 3),
   attr |-> Bits(p, 3), bar_id |-> Bits(p, 3), bar_aperture |-> Bits(p, 6), first_be |-> first, last_be |-> last,
   requester_id_enable |-> Bits(p, 1), completer_id_enable |-> Bits(p, 1), register_number |-> {},
   lower_address |-> {}, byte_count |-> {}, status |-> Bits(p, 3), error_code |-> Bits(p, 4),
   seq_num |-> Bits(p, 6), discontinue |-> 1 \in p, data |-> [i \in 1 .. n |-> {i, 31} \cup Bits(p, 20)]]
Request(type, p, n, first, last) ==
  [T(type, p, n, first, last) EXCEPT !.address = (p \ {0, 1}) \cap (0 .. (IF type \in {"MEM_READ_64", "MEM_WRITE_64"} THEN 63 ELSE 31))]
Cfg(type, p, n) ==
  [T(type, p, n, 0 .. 3, {}) EXCEPT !.at = {}, !.register_number = Bits(p, 10)]
Cpl(type, p, n, la, bc) ==
  [T(type, p, n, {}, {}) EXCEPT !.lower_address = la, !.byte_count = bc]

If(op, four_dw, addr, data) ==
  [op |-> op, four_dw |-> four_dw, addr |-> addr, length |-> Len(data), data |-> data, bar_id |-> addr % 6, seq |-> addr % 16]

McPackets(u) ==
  CASE u.ch = "cq" -> {Request("MEM_READ", Odd, 0, {1, 2}, {}), Request("IO_WRITE", Mixed, 1, {0}, {}),
                     Request("MEM_WRITE_64", Mixed, 13, {2, 3}, {0})}
    [] u.ch = "rq" -> {Request("MEM_READ_64", Mixed, 0, {0, 3}, {1}), Cfg("CFG_WRITE_1", Odd, 1),
                     Request("MEM_WRITE", Odd, 14, {3}, {0, 1, 2})}
    [] u.ch = "cc" -> {Cpl("CPL", Odd, 0, {1}, {2}), Cpl("CPL_LOCKED_DATA", Mixed, 1, {0}, {1}),
                     Cpl("CPL_DATA", Odd, 15, {0, 6}, {0, 3, 5})}
    [] u.ch = "rc" -> {Cpl("CPL", Mixed, 0, {0, 1}, {12}), Cpl("CPL_LOCKED_DATA", Odd, 1, {0, 11}, {1}),
                     Cpl("CPL_DATA", Mixed, 14, {1}, {0, 2, 4, 5})}
    [] u.ch \in {"axis", "pcie_axis"} ->
         {[data |-> <<1, 2, 3, 4, 5>>, id |-> 1, dest |-> 2, user |-> 0, last_cycle_user |-> 1],
          [data |-> <<6>>, id |-> 2, dest |-> 0, user |-> 3, last_cycle_user |-> 0]}
    [] u.ch = "ll" -> {<<1, 2, 3>>, <<4>>}
    [] u.ch = "pcie_if" ->
         {If("io_read", FALSE, 7, << >>), If("mem_write", TRUE, 70000, <<1, 2, 3, 4, 5>>), If("io_write", FALSE, 1, <<9>>)}

-----------------------------------------------------------------------------
(* RAMs with and without reset; writes and reads of one and two segments.  *)
McKinds == {[reset |-> TRUE, latency |-> 1], [reset |-> FALSE, latency |-> 1], [reset |-> FALSE, latency |-> 2]}
RamWrite(a, be, id) == [addr |-> a, be |-> be, id |-> id]
McScripts ==
  {<<[wr |-> <<RamWrite(0, {0}, 1), RamWrite(2, {0, 1}, 2)>>, rd |-> <<0, 1, 2>>], [wr |-> << >>, rd |-> << >>]>>,
   <<[wr |-> <<RamWrite(1, {1}, 1)>>, rd |-> <<1>>], [wr |-> <<RamWrite(1, {0}, 2)>>, rd |-> <<3>>]>>}
ScriptSet == {[s \in 0 .. SEGS - 1 |-> p[s + 1]] : p \in McScripts}

-----------------------------------------------------------------------------
(* A part at rest has nothing in its variables.                            *)
AxiIdle ==
  /\ lite = << >> /\ steps = << >> /\ m = << >> /\ ch = << >> /\ r = << >>
  /\ mem = << >> /\ writes = << >> /\ asked = << >> /\ answered = << >>
  /\ results = << >> /\ broken = << >>
PairIdle ==
  /\ unit = << >> /\ tosend = << >> /\ src = << >> /\ bus = << >>
  /\ snk = << >> /\ sent = << >> /\ got = << >> /\ failed = << >>
  /\ resets = << >>
RamIdle ==
  /\ kind = << >> /\ ram = << >> /\ wr = << >> /\ rd = << >> /\ wv = << >>
  /\ rv = << >> /\ wr_ready = << >> /\ rd_ready = << >> /\ pipeline = << >>
  /\ resp = << >> /\ written = << >> /\ want = << >> /\ returned = << >>
  /\ ram_resets = << >> /\ cmd_ready = << >> /\ wr_done = << >> /\ owed = << >>

BusInit ==
  \/ part = "axi" /\ Init /\ PairIdle /\ RamIdle
  \/ part = "pair" /\ AxiIdle /\ Pair!Init /\ RamIdle
  \/ part = "ram" /\ AxiIdle /\ PairIdle /\ Memory!RamInit

BusNext ==
  /\ UNCHANGED part
  /\ \/ part = "axi" /\ Next /\ UNCHANGED <<pairVars, ramVars>>
     \/ part = "pair" /\ Pair!Next /\ UNCHANGED <<vars, ramVars>>
     \/ part = "ram" /\ Memory!RamNext /\ UNCHANGED <<vars, pairVars>>

(* The fairness of the three modules, for the part that runs.              *)
Given == \/ part = "axi" /\ Ready
         \/ part = "pair" /\ tosend # << >>
         \/ part = "ram" /\ Memory!CanIssue
Give  == \/ part = "axi" /\ Step
         \/ part = "pair" /\ Pair!send
         \/ part = "ram" /\ Memory!Issue
Moving == (part = "pair" /\ Pair!Busy) \/ (part = "ram" /\ Memory!Working)
Move   == (part = "pair" /\ Pair!Clear) \/ (part = "ram" /\ Memory!ClearEdge)
BusFairness ==
  /\ []<>~Given \/ []<><<Give>>_busVars
  /\ []<>~Moving \/ []<><<Move>>_busVars
  /\ []<>~(part = "pair" /\ snk.queue # << >>) \/ []<><<Pair!recv>>_busVars
BusSpec == BusInit /\ [][BusNext]_busVars /\ BusFairness

-----------------------------------------------------------------------------
(* What the sink gives out is what the source was given, in order and in   *)
(* every field the interface carries (sources, sinks, pack and unpack).    *)
PacketsExact == part = "pair" => Pair!PacketsExact

(* Reads of the AXI RAM return what was written, and a write is answered   *)
(* only when its bytes are in memory (axi.py).                             *)
AxiExact == part = "axi" => ReadsExact /\ WritesExact

(* The DMA RAM answers every read it takes once, in order and with the     *)
(* right bytes (dma_ram.py, dma_psdp_ram.py).                              *)
RamExact == part = "ram" => Memory!RamExact

(* Every packet arrives, however the two ends pause, and every command to  *)
(* the memories is answered (create_logic methods, logic, _run).           *)
BusFinishes ==
  <>(/\ part = "pair" => Pair!Delivered
     /\ part = "axi" => Answered
     /\ part = "ram" => Memory!RamDone)
=============================================================================
