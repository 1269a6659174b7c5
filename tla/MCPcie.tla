------------------------------- MODULE MCPcie -------------------------------
(***************************************************************************)
(* The PCIe model of lib/pcie/tb for TLC: requests and completions         *)
(* (PcieMem), enumeration and routing (PcieBus), config registers          *)
(* (PcieConfig) and the hard block models (HardBlock).  They are examined  *)
(* one at a time: part says which one runs while the others rest.          *)
(***************************************************************************)
EXTENDS PcieMem

CONSTANTS
  Topologies, NDEV, NFN, LAST_BUS, IO_WIN, MEM_WIN, IO_BASE, MEM_BASE, PREF_BASE,
  ENUMS, RegionSizes, RC_MPS,                        \* of PcieBus
  Functions, Patterns, ByteEnables, MAXWRITES,       \* of PcieConfig
  Loads, NP_MAX, GRANTS, MAXRESET                    \* of HardBlock

VARIABLES
  part,
  topo, bus_num, br, bar, lim, stack, tree, msi, msi_msg_limit, msi_signals, dev_ctrl,
  regions, msi_addr, passes,
  fn, val, last, writes,
  load, todo, link, enable, master, cq_queue, cq_np_queue, cq_np_req_count, rc_queue,
  rq_seq_num, cq, rc, cc, rq, up, sys_reset, mgmt, intr, seen, seqs, granted, resets

Bus    == INSTANCE PcieBus
Config == INSTANCE PcieConfig WITH Lanes <- ByteEnables
Hard   == INSTANCE HardBlock

busVars ==
  <<topo, bus_num, br, bar, lim, stack, tree, msi, msi_msg_limit, msi_signals, dev_ctrl,
    regions, msi_addr, passes>>
configVars == <<fn, val, last, writes>>
hardVars ==
  <<load, todo, link, enable, master, cq_queue, cq_np_queue, cq_np_req_count, rc_queue,
    rq_seq_num, cq, rc, cc, rq, up, sys_reset, mgmt, intr, seen, seqs, granted, resets>>
pcieVars == <<part, vars, busVars, configVars, hardVars>>

-----------------------------------------------------------------------------
(* Operations on memory, I/O and config space.                             *)
O(kind, dev, addr, len) == [kind |-> kind, dev |-> dev, addr |-> addr, len |-> len, size |-> "bytes", cap |-> "none"]
W(kind, dev, addr, len, ws) == [O(kind, dev, addr, len) EXCEPT !.size = ws]
C(kind, dev, addr, len, ws, c) == [W(kind, dev, addr, len, ws) EXCEPT !.cap = c]
McCapOffset(d, c) == IF c = "msi" THEN 8 ELSE 0

RcEndpoint  == [req |-> "rc", cpl |-> "endpoint", timeouts |-> FALSE, tags |-> 8, bus_master_enable |-> TRUE]
RcLate      == [req |-> "rc", cpl |-> "endpoint", timeouts |-> TRUE, tags |-> 8, bus_master_enable |-> TRUE]
RcTestDev   == [req |-> "rc", cpl |-> "testdev", timeouts |-> FALSE, tags |-> 4, bus_master_enable |-> TRUE]
FunctionRc  == [req |-> "function", cpl |-> "rc", timeouts |-> FALSE, tags |-> 4, bus_master_enable |-> TRUE]
TestDevRc   == [req |-> "testdev", cpl |-> "rc", timeouts |-> FALSE, tags |-> 2, bus_master_enable |-> TRUE]
NoMaster    == [FunctionRc EXCEPT !.bus_master_enable = FALSE]
AllUnits    == {RcEndpoint, RcLate, RcTestDev, FunctionRc, NoMaster, TestDevRc}

(* Write a range, read around it; a second process uses another device.    *)
WriteRead(d, e, addr, len) ==
  << <<O("mem_write", d, addr, len), O("mem_read", d, addr, len)>>,
     <<O("mem_read", e, 2, 40)>> >>
IoPair(d, e, addr, len) ==
  << <<O("io_write", d, addr, len), O("io_read", d, addr, len)>>,
     <<O("mem_write", e, 13, 6)>> >>

(* Words, and config space with and without a function and a capability.   *)
WordPair(d, e, addr, ws) ==
  << <<W("mem_write", d, addr, 16, ws), W("mem_read", d, addr, 16, ws)>>, <<O("mem_read", e, 2, 5)>> >>
ConfigPair(addr, len, ws) ==
  << <<W("cfg_write", DEVS + 1, addr, len, ws), W("cfg_read", DEVS + 1, addr, len, ws)>>,
     <<C("cfg_write", DEVS + 2, 1, 4, "word", "msi"), C("cfg_read", DEVS + 2, 0, 8, "dword", "msi")>> >>
LateConfig == << <<O("cfg_write", DEVS + 1, 2, 2), O("cfg_read", DEVS + 1, 2, 4)>>, <<O("mem_read", 2, 2, 5)>> >>
NoFunction ==
  << <<O("cfg_write", Absent, 2, 5), O("cfg_read", Absent, 2, 5)>>, <<C("cfg_read", DEVS + 1, 0, 4, "dword", "pm")>> >>

(* A single byte, to a device, to config space and to a capability.        *)
OneByte(d) == W("mem_write", d, 5, 1, "list")
BytePairs ==
  { << <<OneByte(1)>>, <<O("mem_write", 1, 4, 3), O("mem_read", 1, 4, 3)>> >>,
    << <<W("cfg_write", DEVS + 1, 5, 1, "list")>>, <<C("cfg_write", DEVS + 2, 1, 1, "list", "msi")>> >> }

Addrs == {0, 3, 6, 59}
RcPrograms ==
  {WriteRead(1, 2, a, l) : a \in Addrs, l \in {1, 5, 39}}
  \cup {IoPair(1, 2, a, l) : a \in {1, 4}, l \in {1, 6}}
  \cup {WordPair(1, 2, a, w) : a \in {3}, w \in {"byte", "word", "dword", "qword"}}
  \cup {ConfigPair(a, 8, w) : a \in {3}, w \in {"bytes", "qword"}} \cup {NoFunction} \cup BytePairs
  \cup { << <<O(k, 1, SIZE, 8)>>, <<O("mem_write", 0, 2, 9), O("mem_read", 0, 1, 9)>> >> :
          k \in {"mem_read", "io_read", "io_write", "mem_write"}}
(* Reads a device makes with Function.mem_read fit one request.            *)
FunctionPrograms ==
  { << <<O("mem_write", 0, a, l), O("mem_read", 0, a, Min({l, MRRS - (a % 4), PAGE - (a % PAGE)}))>>,
       <<O("mem_read", 0, a, 3)>> >> : a \in Addrs, l \in {1, 2, 5, 39}}
  \cup {IoPair(0, 0, a, l) : a \in {1, 4}, l \in {1, 6}}
  \cup {WordPair(0, 0, a, w) : a \in {3}, w \in {"word", "qword"}}
  \cup { << <<O("mem_read", 0, SIZE, 8)>> >>, << <<OneByte(0)>>, <<O("mem_read", 0, 4, 3)>> >> }
TestDevPrograms ==
  { << <<O("mem_write", 0, 5, 9), O("mem_read", 0, a, 50)>>, <<O("mem_read", 0, 3, 5)>> >> :
      a \in {0, 3, 6, 58}}
  \cup {IoPair(0, 0, a, l) : a \in {1, 4}, l \in {1, 6}}
  \cup { << <<O("mem_read", 0, 6, 0)>>, <<O("io_read", 0, 6, 0)>> >>,
         << <<O("mem_read", 0, SIZE, 8)>> >> }

McPrograms(u) ==
  IF u.req = "function" THEN FunctionPrograms
  ELSE IF u.req = "testdev" THEN TestDevPrograms
  ELSE IF u.cpl = "testdev" THEN {WriteRead(1, 2, a, l) : a \in {3, 59}, l \in {2, 39}}
         \cup {IoPair(1, 2, 1, 6), NoFunction}
         \cup { << <<O(k, 1, SIZE, 8)>> >> : k \in {"mem_read", "io_read", "io_write", "mem_write"}}
  ELSE IF u.timeouts THEN {WriteRead(1, 2, 3, 39), IoPair(1, 2, 1, 6), LateConfig}
  ELSE RcPrograms

-----------------------------------------------------------------------------
(* Trees of bridges, switches and functions.                               *)
N(kind, parent, dev, f, bars, class) ==
  [kind |-> kind, parent |-> parent, dev |-> dev, fn |-> f, bars |-> bars, class |-> class,
   mmcap |-> IF class = "us" THEN 5 ELSE 0, payload |-> IF class = "us" THEN 1 ELSE 3,
   ext_tag |-> class # "plain"]
Io(size)    == [io |-> TRUE, ext |-> FALSE, prefetch |-> FALSE, size |-> size]
Mem(size)   == [io |-> FALSE, ext |-> FALSE, prefetch |-> TRUE, size |-> size]
Mem64(size) == [io |-> FALSE, ext |-> TRUE, prefetch |-> FALSE, size |-> size]
Pref(size)  == [io |-> FALSE, ext |-> TRUE, prefetch |-> TRUE, size |-> size]

Root    == N("root", 0, 0, 0, << >>, "plain")
P(parent, dev) == N("port", parent, dev, 0, << >>, "plain")
Sw(parent)     == N("switch", parent, 0, 0, << >>, "plain")
Fn(parent, f, bars, class) == N("fn", parent, 0, f, bars, class)

Tree(nodes) == [n \in 0 .. Len(nodes) - 1 |-> nodes[n + 1]]

BarSets == {<< >>, <<Io(4), Mem(16), Pref(128)>>, <<Pref(16), Mem64(128), Mem(16), Io(16)>>}

(* Two devices, one with two functions.                                    *)
Flat == {Tree(<<Root, P(0, 1), P(0, 2), Fn(1, 0, a, "us"), Fn(2, 0, b, "usp"), Fn(2, 1, c, "msi")>>) :
           a \in BarSets, b \in BarSets, c \in BarSets}
(* A switch with two devices between two devices.                          *)
Deep == {Tree(<<Root, P(0, 1), P(0, 2), P(0, 3), Fn(1, 0, a, "usp"), Sw(2), P(5, 1), P(5, 2),
                Fn(6, 0, b, "us"), Fn(7, 0, a, "us"), Fn(3, 0, b, "plain")>>) :
           a \in BarSets, b \in BarSets}
(* A switch below a switch.                                                *)
Chain == {Tree(<<Root, P(0, 1), Sw(1), P(2, 1), P(2, 2), Sw(3), P(5, 1), Fn(6, 0, a, "us"),
                 Fn(4, 0, b, "usp")>>) : a \in BarSets, b \in BarSets}

McSizes == <<16, 2, 8>>
McTopologies == Flat \cup Deep \cup Chain

-----------------------------------------------------------------------------
(* Functions with each variant of the MSI capability, and a bridge.        *)
F(bridge, msi64, masking) ==
  [bridge |-> bridge, msi64 |-> msi64, masking |-> masking, bar_low |-> <<20, 0, 12, 32, 4, 8>>]
McFunctions   == {F(FALSE, TRUE, TRUE), F(FALSE, FALSE, TRUE), F(TRUE, FALSE, FALSE)}
McPatterns    == {0 .. 31, {0, 3, 4, 9, 12, 16, 20, 24, 27, 31}}
McByteEnables == {0 .. 3, {1, 2}}

-----------------------------------------------------------------------------
(* Traffic of the hard blocks: orders of posted and non-posted requests,   *)
(* requests no BAR takes, config requests, requests of the user.           *)
H(kinds, match) == [i \in DOMAIN kinds |-> [k |-> kinds[i], match |-> match[i], n |-> i]]
Hits(kinds) == H(kinds, [i \in DOMAIN kinds |-> TRUE])
R(ch, seq, stop) == [k |-> "req", n |-> 0, status |-> "none", ch |-> ch, seq |-> seq, discontinue |-> stop]
L(dev, n, h, r, m, i) == [kind |-> dev, ports |-> n, host |-> h, rq |-> r, mgmt |-> m, msi |-> i]

Orders == {Hits(ks) : ks \in [1 .. 3 -> {"mem_write", "mem_read"}]}
Misses == {H(<<"cfg", k, "cpl">>, <<a, b, c>>) : k \in {"io_read", "mem_read", "mem_write"}, a, b, c \in BOOLEAN}
Blocks == {<<"us", 1>>, <<"usp", 2>>}
Requests == {<<R("rq", 1, FALSE), R("rq", 2, FALSE), R("rq", 1, FALSE), R("rq", 3, FALSE)>>,
             <<R("rq", 4, FALSE), R("rq", 5, TRUE), R("rq", 6, FALSE)>>}
Mixed == <<R("rd", 1, FALSE), R("wr", 2, FALSE), R("msi", 0, FALSE), R("rd", 3, FALSE), R("wr", 2, FALSE), R("rd", 4, FALSE)>>

McLoads ==
  {L(b[1], b[2], h, << >>, << >>, << >>) : b \in Blocks, h \in Orders \cup Misses}
  \cup {L("if", 1, h, << >>, << >>, << >>) : h \in Misses \cup {Hits(<<"mem_write", "mem_read", "mem_write">>)}}
  \cup {L(b[1], b[2], Hits(<<"cfg">>), r, << >>, << >>) : b \in Blocks, r \in Requests}
  \cup {L("if", n, << >>, Mixed, << >>, << >>) : n \in 0 .. 2}
  \cup {L("us", 1, Hits(<<"io_write">>), << >>, <<"config", "internal">>, <<"msi", "many", "msix">>),
        L("usp", 2, Hits(<<"io_write">>), << >>, <<"config", "config">>, <<"msix", "msi">>)}

-----------------------------------------------------------------------------
(* A part at rest has nothing in its variables.                            *)
MemIdle ==
  /\ unit = << >> /\ prog = << >> /\ proc = << >> /\ mem = << >>
  /\ tx = << >> /\ rx = << >> /\ rx_cpl_queues = << >> /\ woken = << >>
  /\ current_tag = << >> /\ tag_active = << >>
BusIdle ==
  /\ topo = << >> /\ bus_num = << >> /\ br = << >> /\ bar = << >>
  /\ lim = << >> /\ stack = << >> /\ tree = << >> /\ msi = << >>
  /\ msi_msg_limit = << >> /\ msi_signals = << >> /\ dev_ctrl = << >>
  /\ regions = << >> /\ msi_addr = << >> /\ passes = << >>
ConfigIdle ==
  /\ fn = << >> /\ val = << >> /\ last = << >> /\ writes = << >>
HardIdle ==
  /\ load = << >> /\ todo = << >> /\ link = << >> /\ enable = << >>
  /\ master = << >> /\ cq_queue = << >> /\ cq_np_queue = << >>
  /\ cq_np_req_count = << >> /\ rc_queue = << >> /\ rq_seq_num = << >>
  /\ cq = << >> /\ rc = << >> /\ cc = << >> /\ rq = << >> /\ up = << >>
  /\ sys_reset = << >> /\ mgmt = << >> /\ intr = << >> /\ seen = << >>
  /\ seqs = << >> /\ granted = << >> /\ resets = << >>

PcieInit ==
  \/ part = "mem" /\ Init /\ BusIdle /\ ConfigIdle /\ HardIdle
  \/ part = "bus" /\ MemIdle /\ Bus!Init /\ ConfigIdle /\ HardIdle
  \/ part = "config" /\ MemIdle /\ BusIdle /\ Config!CInit /\ HardIdle
  \/ part = "hard" /\ MemIdle /\ BusIdle /\ ConfigIdle /\ Hard!Init

PcieNext ==
  /\ UNCHANGED part
  /\ \/ part = "mem" /\ Next /\ UNCHANGED <<busVars, configVars, hardVars>>
     \/ part = "bus" /\ Bus!Next /\ UNCHANGED <<vars, configVars, hardVars>>
     \/ /\ part = "config" /\ (Config!CNext \/ (writes = MAXWRITES /\ UNCHANGED configVars))
        /\ UNCHANGED <<vars, busVars, hardVars>>
     \/ part = "hard" /\ Hard!Next /\ UNCHANGED <<vars, busVars, configVars>>

(* The fairness of PcieMem and HardBlock, for the part that runs.          *)
Ready == (part = "mem" /\ Runnable) \/ (part = "hard" /\ ~Hard!Idle)
Serve == (part = "mem" /\ Progress) \/ (part = "hard" /\ Hard!Serve)
PcieFairness ==
  /\ []<>~Ready \/ []<><<Serve>>_pcieVars
  /\ []<>~(part = "hard" /\ sys_reset /\ Hard!Pending) \/ []<><<Hard!Device>>_pcieVars
  /\ []<>~(part = "hard" /\ Hard!Waits) \/ []<><<Hard!Cycle(TRUE)>>_pcieVars
  /\ []<>(part = "hard" => sys_reset)

PcieSpec == PcieInit /\ [][PcieNext]_pcieVars /\ PcieFairness

-----------------------------------------------------------------------------
(* Reads return and writes change exactly the bytes asked for, however a   *)
(* transfer is cut into requests and completions (ReadExact, WriteExact).  *)
TransfersExact == part = "mem" => ReadExact /\ WriteExact

(* A completion is taken by the request it answers, adds up to it, and     *)
(* every TLP passes its check (AssertionsHold, OwnCompletion).             *)
CompletionsMatch == part = "mem" => AssertionsHold /\ OwnCompletion

(* Config requests reach their function at every moment of enumeration;    *)
(* after it every BAR, host region and completion is routed to its owner   *)
(* (enumerate_segment and the routing of bridges and switches).            *)
RoutesExact == part = "bus" => Bus!ConfigReaches /\ Bus!RoutesExact /\ Bus!HostMemoryReached

(* Every capability is found where it is, and every MSI vector belongs to  *)
(* one function (PcieCapList.register, configure_msi).                     *)
CapabilitiesFound == part = "bus" => Bus!CapabilitiesFound /\ Bus!MsiReachesOwner

(* A config write sets exactly the writable bits of its enabled bytes      *)
(* (the read_ and write_ register methods, byte_mask_update).              *)
WriteReadsBack == part = "config" => Config!WriteReadsBack

(* Posted requests may pass non-posted ones and nothing else overtakes, as *)
(* the credits allow; every request of the host has one answer, and every  *)
(* request, interrupt and config access of the user is done and reported   *)
(* once (completer queues of logic, upstream_recv).                        *)
HardBlockExact == part = "hard" => Hard!RequestOrder /\ Hard!UpstreamExact

(* Every operation ends, since no completion is lost and no tag kept       *)
(* (recv_cpl, alloc_tag); and unless a reset intervenes, the hard block    *)
(* serves host and user.                                                   *)
PcieFinishes == <>((part = "mem" => AllFinished) /\ (part = "hard" => Hard!Served))
=============================================================================
