------------------------------- MODULE PcieBus -------------------------------
(***************************************************************************)
(* Bus enumeration and TLP routing of the PCIe simulation model (pcie.py): *)
(* RootComplex.enumerate walks a tree of bridges and devices with config   *)
(* requests, assigns bus numbers, base addresses, bridge windows and MSI   *)
(* vectors; Bridge, SwitchUpstreamPort and Device route TLPs by what was   *)
(* assigned.                                                               *)
(*                                                                         *)
(* topo is the tree.  Node 0 is the host bridge; kind "port" is a root     *)
(* port or switch downstream port (one link below it), "switch" a switch   *)
(* upstream port (a bus of ports below it), "fn" a function of a device.   *)
(* A TLP is a record: type, id (destination of a config request, requester *)
(* of a completion) and addr.  Routing yields the node that handles the    *)
(* TLP, RC, UR (answered with unsupported request) or Lost.                *)
(*                                                                         *)
(* IO_WIN and MEM_WIN stand for the granules 0x1000 and 0x100000 of bridge *)
(* windows, NDEV for 32 and NFN for 8.  Between two steps of the walk no   *)
(* other traffic runs: a step is all config requests for one function.     *)
(***************************************************************************)
EXTENDS Integers, Sequences, FiniteSets, SequencesExt, FiniteSetsExt

CONSTANTS
  Topologies,               \* the trees to examine
  NDEV, NFN, LAST_BUS,      \* device and function numbers tried; 255
  IO_WIN, MEM_WIN,          \* granules of bridge windows
  IO_BASE, MEM_BASE, PREF_BASE,
  ENUMS,                    \* how often the host enumerates
  RegionSizes,              \* sizes of host regions, allocated in this order
  RC_MPS                    \* max_payload_size of the root complex

-----------------------------------------------------------------------------
(* Capability lists of a function's config space (PcieCapList).  A         *)
(* capability is a record: id, length in registers, off (register offset,  *)
(* NoOffset while it has none) and next, the byte offset of the next       *)
(* capability.                                                             *)

NoOffset == 0
CapStart == 16        \* PcieCapList.start

PcieCap(id, length) == [id |-> id, length |-> length, off |-> NoOffset, next |-> 0]

PM_CAP   == PcieCap("PM", 2)
PCIE_CAP == PcieCap("PCIE", 15)
MSI_CAP  == PcieCap("MSI", 6)
MSIX_CAP == PcieCap("MSIX", 3)

find_by_id(list, id)   == {k \in DOMAIN list : list[k].id = id}
find_by_reg(list, reg) == {k \in DOMAIN list :
                             list[k].off <= reg /\ reg < list[k].off + list[k].length}

Overlaps(cap, new) == /\ cap.off <= new.off + new.length - 1
                      /\ new.off <= cap.off + cap.length - 1

(* The search for room: one pass over the list, moving past capabilities   *)
(* that are in the way.                                                    *)
FindRoom(list, new) ==
  FoldLeft(LAMBDA off, cap :
             IF cap.off < off + new.length - 1 /\ off <= cap.off + cap.length - 1
             THEN cap.off + cap.length ELSE off,
           CapStart, list)

\* Mutant: the pointers count registers, not bytes.
LinkUpRegs(list) ==
  IF Len(list) < 2 THEN list
  ELSE [k \in DOMAIN list |->
          [list[k] EXCEPT !.next = IF k < Len(list) THEN list[k + 1].off ELSE 0]]

(* Next pointers are written when the list has at least two entries.       *)
LinkUp(list) ==
  IF Len(list) < 2 THEN list
  ELSE [k \in DOMAIN list |->
          [list[k] EXCEPT !.next = IF k < Len(list) THEN 4 * list[k + 1].off ELSE 0]]

(* Insert new.  A capability with a fixed offset bumps those in its way,   *)
(* which are then inserted again wherever there is room.                   *)
RECURSIVE register(_, _)
register(list, new) ==
  LET fixed  == new.off # NoOffset
      bump   == IF fixed THEN SelectSeq(list, LAMBDA c : Overlaps(c, new)) ELSE << >>
      keep   == IF fixed THEN SelectSeq(list, LAMBDA c : ~Overlaps(c, new)) ELSE list
      placed == [new EXCEPT !.off = IF fixed THEN @ ELSE FindRoom(keep, new)]
      sorted == SortSeq(Append(keep, placed), LAMBDA a, b : a.off < b.off)
  IN FoldLeft(LAMBDA l, c : register(l, [c EXCEPT !.off = NoOffset]), LinkUp(sorted), bump)

(* Registering an id that is in the list moves it.                         *)
register_capability(list, cap, off) ==
  LET old == find_by_id(list, cap.id)
      new == IF old = {} THEN [cap EXCEPT !.off = off]
             ELSE LET c == list[CHOOSE k \in old : TRUE]
                  IN IF off # NoOffset THEN [c EXCEPT !.off = off] ELSE c
  IN register(SelectSeq(list, LAMBDA c : c.id # cap.id), new)

RegisterAll(list, regs) ==
  FoldLeft(LAMBDA l, r : register_capability(l, r[1], r[2]), list, regs)

(* Bridges and plain functions: the constructors of the capability mixins. *)
FunctionCaps == RegisterAll(<< >>, <<<<PCIE_CAP, NoOffset>>, <<PM_CAP, NoOffset>>>>)
(* With the MSI mixins, which register first.                              *)
MsiFunctionCaps ==
  RegisterAll(<< >>, <<<<MSIX_CAP, NoOffset>>, <<MSI_CAP, NoOffset>>,
                       <<PCIE_CAP, NoOffset>>, <<PM_CAP, NoOffset>>>>)
UltrascalePCIeFunction ==
  RegisterAll(MsiFunctionCaps, <<<<PM_CAP, 32>>, <<MSI_CAP, 36>>,
                                 <<MSIX_CAP, 44>>, <<PCIE_CAP, 48>>>>)
UltrascalePlusPCIeFunction ==
  RegisterAll(MsiFunctionCaps, <<<<PM_CAP, 16>>, <<MSI_CAP, 18>>,
                                 <<MSIX_CAP, 24>>, <<PCIE_CAP, 28>>>>)

(* The walk of enumerate_segment: from the capability pointer along the    *)
(* next fields.  A set of <<id, byte offset>>; stops at the first pointer  *)
(* met twice.                                                              *)
RECURSIVE WalkFrom(_, _, _)
WalkFrom(list, ptr, seen) ==
  LET at == {k \in find_by_reg(list, ptr \div 4) : 4 * list[k].off = ptr}
  IN IF ptr = 0 \/ at = {} THEN seen
     ELSE LET c == list[CHOOSE k \in at : TRUE]
          IN IF <<c.id, ptr>> \in seen THEN seen \cup {<<"loop", ptr>>}
             ELSE WalkFrom(list, c.next, seen \cup {<<c.id, ptr>>})
WalkCapabilities(list) ==
  IF list = << >> THEN {} ELSE WalkFrom(list, 4 * list[1].off, {})

-----------------------------------------------------------------------------
MSI_VECTORS == 32
RC   == 0 - 1
UR   == 0 - 2
Lost == 0 - 3

VARIABLES
  topo,
  bus_num,      \* bus number each node has captured
  br,           \* registers of each bridge
  bar,          \* bar[n]: base addresses of node n's BARs
  lim,          \* io_limit, mem_limit, prefetchable_mem_limit of the host
  stack,        \* activations of enumerate_segment, the innermost last
  tree,         \* found functions: their TreeItem
  msi,          \* msi_data of nodes with MSI enabled
  msi_msg_limit, msi_signals,
  dev_ctrl,     \* device control of each function
  regions,      \* memory regions of the host: <<address, size>>
  msi_addr,     \* address of the region that takes MSI messages, or None
  passes        \* enumerations begun

host == <<regions, msi_addr>>
vars == <<topo, bus_num, br, bar, lim, stack, tree, msi, msi_msg_limit, msi_signals,
          dev_ctrl, regions, msi_addr, passes>>

Nodes   == DOMAIN topo
Bridges == {n \in Nodes : topo[n].kind # "fn"}
Fns     == {n \in Nodes : topo[n].kind = "fn"}
Kids(n) == {k \in Nodes : k # 0 /\ topo[k].parent = n}
get_id(n) == <<bus_num[n], topo[n].dev, topo[n].fn>>
Capabilities(n) == CASE topo[n].class = "us"  -> UltrascalePCIeFunction
                     [] topo[n].class = "usp" -> UltrascalePlusPCIeFunction
                     [] topo[n].class = "msi" -> MsiFunctionCaps
                     [] OTHER                 -> FunctionCaps
None == 0 - 1

align(val, size) == ((val + size - 1) \div size) * size
Down(val, size)  == (val \div size) * size

Unset == [pri |-> 0, sec |-> 0, sub |-> 0,
          io   |-> <<0, IO_WIN - 1>>, mem |-> <<0, MEM_WIN - 1>>, pref |-> <<0, MEM_WIN - 1>>]

Init ==
  /\ topo \in Topologies
  /\ bus_num = [n \in Nodes |-> 0]
  /\ br = [n \in Bridges |-> IF n = 0 THEN [Unset EXCEPT !.sub = LAST_BUS,
                                  !.io = <<IO_BASE, IO_BASE>>, !.mem = <<MEM_BASE, MEM_BASE>>,
                                  !.pref = <<PREF_BASE, PREF_BASE>>]
                             ELSE Unset]
  /\ bar = [n \in Nodes |-> [i \in DOMAIN topo[n].bars |-> 0]]
  /\ lim = [io |-> IO_BASE, mem |-> MEM_BASE, pref |-> PREF_BASE]
  /\ stack = << >>
  /\ tree = [n \in {} |-> {}]
  /\ msi = [n \in {} |-> 0]
  /\ msi_msg_limit = 0
  /\ msi_signals = [k \in {} |-> 0]
  /\ dev_ctrl = [n \in Nodes |-> [payload |-> 0, ext_tag |-> FALSE, bus_master |-> FALSE]]
  /\ regions = << >>
  /\ msi_addr = None
  /\ passes = 0

-----------------------------------------------------------------------------
(* Routing.                                                                *)

Within(x, range) == range[1] <= x /\ x <= range[2]

(* Where a BAR is allocated: only a 64 bit prefetchable one goes to        *)
(* prefetchable space.                                                     *)
Space(b) == IF b.io THEN "io" ELSE IF b.ext /\ b.prefetch THEN "pref" ELSE "mem"
BelowBus(n, b) == br[n].sec <= b /\ b <= br[n].sub

(* BARs of n that t's address matches.                                     *)
match_bar(n, t) ==
  {i \in DOMAIN topo[n].bars :
     LET b == topo[n].bars[i]
     IN b.io = (t.type = "io") /\ Within(t.addr, <<bar[n][i], bar[n][i] + b.size - 1>>)}

InWindow(n, t) == IF t.type = "io" THEN Within(t.addr, br[n].io)
                  ELSE Within(t.addr, br[n].mem) \/ Within(t.addr, br[n].pref)

(* Function.handle_config_0_tlp answers only its own device and function.  *)
handle_config_0_tlp(n, t) ==
  IF t.id[2] = topo[n].dev /\ t.id[3] = topo[n].fn THEN n ELSE Lost

RECURSIVE Bridge_upstream_recv(_, _)
RECURSIVE route_downstream_tlp(_, _)
RECURSIVE Bridge_downstream_recv(_, _)

(* A device dispatches to its functions.                                   *)
Device_upstream_recv(port, t) ==
  LET hit == CASE t.type = "cfg0" -> {f \in Kids(port) : t.id[2] = topo[f].dev /\ t.id[3] = topo[f].fn}
               [] t.type = "cpl"  -> {f \in Kids(port) : t.id = get_id(f)}
               [] t.type \in {"io", "mem"} -> {f \in Kids(port) : match_bar(f, t) # {}}
               [] OTHER -> {}
  IN IF hit # {} THEN Min(hit) ELSE IF t.type = "cpl" THEN Lost ELSE UR

(* The other end of a port's link.                                         *)
CrossLink(port, t) ==
  LET k == Min(Kids(port))
  IN IF topo[k].kind = "fn" THEN Device_upstream_recv(port, t)
     ELSE Bridge_upstream_recv(k, t)

(* The ports of a switch or of the root complex that take t.               *)
SwitchUpstreamPort_takes(p, t) ==
  CASE t.type = "cfg0" -> t.id[2] = topo[p].dev /\ t.id[3] = topo[p].fn
    [] t.type = "cfg1" -> BelowBus(p, t.id[1])
    [] t.type = "cpl"  -> t.id = get_id(p) \/ BelowBus(p, t.id[1])
    [] OTHER           -> match_bar(p, t) # {} \/ InWindow(p, t)

route_downstream_tlp(n, t) ==
  IF topo[n].kind = "port" THEN CrossLink(n, t)
  ELSE LET ok == {p \in Kids(n) : SwitchUpstreamPort_takes(p, t)}
       IN IF ok = {} THEN UR ELSE Bridge_upstream_recv(Min(ok), t)

Bridge_upstream_recv(n, t) ==
  CASE t.type = "cfg0" -> handle_config_0_tlp(n, t)
    [] t.type = "cfg1" ->
         IF ~BelowBus(n, t.id[1]) THEN Lost
         ELSE route_downstream_tlp(n, IF t.id[1] = br[n].sec THEN [t EXCEPT !.type = "cfg0"] ELSE t)
    [] t.type = "cpl" ->
         IF n # 0 /\ t.id = get_id(n) THEN n
         ELSE IF BelowBus(n, t.id[1]) THEN route_downstream_tlp(n, t) ELSE Lost
    [] OTHER ->
         IF match_bar(n, t) # {} THEN n
         ELSE IF InWindow(n, t) THEN route_downstream_tlp(n, t) ELSE Lost

(* Towards the root: what is below the bridge turns around.                *)
upstream_send(n, t) == IF n = 0 THEN RC ELSE Bridge_downstream_recv(topo[n].parent, t)

Bridge_downstream_recv(n, t) ==
  CASE t.type = "cpl" ->
         IF n # 0 /\ t.id = get_id(n) THEN n
         ELSE IF BelowBus(n, t.id[1])
              THEN IF n = 0 /\ t.id[1] = 0 /\ t.id[2] = 0 THEN upstream_send(n, t)
                   ELSE route_downstream_tlp(n, t)
              ELSE upstream_send(n, t)
    [] OTHER ->
         IF match_bar(n, t) # {} THEN n
         ELSE IF InWindow(n, t) THEN route_downstream_tlp(n, t) ELSE upstream_send(n, t)

FromHost(t)     == Bridge_upstream_recv(0, t)
Config(id)  == [type |-> "cfg1", id |-> id, addr |-> 0]
Access(space, a) == [type |-> IF space = "io" THEN "io" ELSE "mem", id |-> <<0, 0, 0>>, addr |-> a]
Cpl(id)     == [type |-> "cpl", id |-> id, addr |-> 0]

-----------------------------------------------------------------------------
(* Enumeration.                                                            *)

Granule(space) == IF space = "io" THEN IO_WIN ELSE MEM_WIN
AlignAll(l) == [s \in DOMAIN l |-> align(l[s], Granule(s))]
Top == stack[Len(stack)]

(* An activation of enumerate_segment for bus b below bridge n.            *)
Segment(n, b, l) == [n |-> n, bus |-> b, d |-> IF b = 0 THEN 1 ELSE 0, f |-> 0, fc |-> 1,
                     sec |-> b + 1, sub |-> b, base |-> l]

(* RootComplex.enumerate starts over, with the registers as they are.      *)
enumerate ==
  /\ stack = << >> /\ passes < ENUMS
  /\ passes' = passes + 1
  /\ LET l == [io |-> IO_BASE, mem |-> MEM_BASE, pref |-> PREF_BASE]
     IN lim' = AlignAll(l) /\ stack' = <<Segment(0, 0, AlignAll(l))>>
  /\ tree' = [n \in {} |-> {}]
  /\ UNCHANGED <<topo, bus_num, br, bar, msi, msi_msg_limit, msi_signals, dev_ctrl, host>>

(* The next function, or device, to try.                                   *)
Advance(s, fc) == IF s.f + 1 < fc THEN [s EXCEPT !.f = @ + 1, !.fc = fc]
                  ELSE [s EXCEPT !.d = @ + 1, !.f = 0, !.fc = 1]

Here == FromHost(Config(<<Top.bus, Top.d, Top.f>>))

(* No answer, or an unsupported request, reads as all ones.                *)
NotFound ==
  /\ stack # << >> /\ Top.d < NDEV /\ Here \notin Nodes
  /\ stack' = [stack EXCEPT ![Len(stack)] = Advance(@, @.fc)]
  /\ UNCHANGED <<topo, bus_num, br, bar, lim, tree, msi, msi_msg_limit, msi_signals, dev_ctrl, host, passes>>

(* Base addresses of n's BARs in order, each aligned to its size.          *)
AllocateBars(n) ==
  FoldLeft(LAMBDA a, b :
             LET base == align(a.lim[Space(b)], b.size)
             IN [lim |-> [a.lim EXCEPT ![Space(b)] = base + b.size], at |-> Append(a.at, base)],
           [lim |-> lim, at |-> << >>], topo[n].bars)

(* Round up to a power of two, from the smallest.                          *)
Pow2(size) == 2^Min({k \in 0 .. size : 2^k >= size})

(* Address of a new host region.  region_limit is the last byte of the     *)
(* previous one.                                                           *)
alloc_region(rs, size) ==
  LET region_limit == IF rs = << >> THEN 0 ELSE Last(rs)[1] + Last(rs)[2] - 1
  IN align(region_limit, Pow2(size))
find_region(a) == SelectInSeq(regions, LAMBDA r : r[1] <= a /\ a < r[1] + r[2])

(* The testbench allocates memory before a walk or after it.               *)
Allocated == Len(regions) - (IF msi_addr = None THEN 0 ELSE 1)
AllocRegion ==
  /\ stack = << >> /\ Allocated < Len(RegionSizes)
  /\ LET size == RegionSizes[Allocated + 1]
     IN regions' = Append(regions, <<alloc_region(regions, size), size>>)
  /\ UNCHANGED <<topo, bus_num, br, bar, lim, stack, tree, msi, msi_msg_limit, msi_signals,
                 dev_ctrl, msi_addr, passes>>

(* configure_msi: the region is allocated on the first call; a function    *)
(* with the capability gets a block of MSI_VECTORS vectors.                *)
configure_msi(n, caps) ==
  /\ IF msi_addr = None
     THEN /\ msi_addr' = alloc_region(regions, 4)
          /\ regions' = Append(regions, <<msi_addr', 4>>)
     ELSE UNCHANGED host
  /\ IF \E c \in caps : c[1] = "MSI"
     THEN /\ msi' = [k \in DOMAIN msi \cup {n} |-> IF k = n THEN msi_msg_limit ELSE msi[k]]
          /\ msi_signals' = [k \in 0 .. msi_msg_limit + MSI_VECTORS - 1 |->
                               IF k < msi_msg_limit THEN msi_signals[k] ELSE n]
          /\ msi_msg_limit' = msi_msg_limit + MSI_VECTORS
     ELSE UNCHANGED <<msi, msi_signals, msi_msg_limit>>

(* The body of the loop for a function that answers.                       *)
FoundFunction ==
  /\ stack # << >> /\ Top.d < NDEV /\ Here \in Nodes
  /\ LET n    == Here
         fc   == IF Top.f > 0 THEN Top.fc
                 ELSE IF Cardinality(Kids(topo[n].parent)) > 1 /\ topo[n].kind = "fn" THEN NFN ELSE 1
         a    == AllocateBars(n)
         caps == WalkCapabilities(Capabilities(n))
         seg  == [stack EXCEPT ![Len(stack)] = [@ EXCEPT !.fc = fc]]
     IN /\ bus_num' = [m \in Nodes |-> IF m = n \/ (topo[n].kind = "fn" /\ m # 0 /\ topo[m].parent = topo[n].parent)
                                       THEN Top.bus ELSE bus_num[m]]
        /\ bar' = [bar EXCEPT ![n] = a.at]
        /\ tree' = [m \in DOMAIN tree \cup {n} |->
                      IF m = n THEN [id |-> <<Top.bus, Top.d, Top.f>>, caps |-> caps, win |-> a.lim]
                      ELSE tree[m]]
        /\ dev_ctrl' = [dev_ctrl EXCEPT ![n] =
                          [payload |-> Min({5, RC_MPS, topo[n].payload}), ext_tag |-> topo[n].ext_tag,
                           bus_master |-> TRUE]]
        /\ configure_msi(n, caps)
        /\ IF topo[n].kind = "fn"
           THEN /\ lim' = a.lim
                /\ stack' = [seg EXCEPT ![Len(seg)] = Advance(@, fc)]
                /\ UNCHANGED br
           ELSE /\ br' = [br EXCEPT ![n].pri = Top.bus, ![n].sec = Top.sec, ![n].sub = LAST_BUS]
                /\ lim' = AlignAll(a.lim)
                /\ stack' = Append(seg, Segment(n, Top.sec, AlignAll(a.lim)))
  /\ UNCHANGED <<topo, passes>>

\* Mutant: the limit is taken for the last address.
WindowRegsLong(base, l, s) ==
  <<Down(base[s], Granule(s)), Down(l[s], Granule(s)) + Granule(s) - 1>>
(* Window registers hold whole granules.                                   *)
WindowRegs(base, l, s) ==
  <<Down(base[s], Granule(s)), Down(l[s] - 1, Granule(s)) + Granule(s) - 1>>

(* The end of enumerate_segment, and of the caller's loop body.            *)
EndSegment ==
  /\ stack # << >> /\ Top.d >= NDEV
  /\ LET l  == AlignAll(lim)
         up == Len(stack) - 1
     IN /\ lim' = l
        /\ IF up = 0
           THEN /\ stack' = << >>
                /\ br' = [br EXCEPT ![0].io = <<IO_BASE, l.io>>, ![0].mem = <<MEM_BASE, l.mem>>,
                                    ![0].pref = <<PREF_BASE, l.pref>>]
           ELSE /\ br' = [br EXCEPT ![Top.n] = [@ EXCEPT !.sub = Top.sub,
                             !.io   = WindowRegs(Top.base, l, "io"),
                             !.mem  = WindowRegs(Top.base, l, "mem"),
                             !.pref = WindowRegs(Top.base, l, "pref")]]
                /\ stack' = [SubSeq(stack, 1, up) EXCEPT
                               ![up] = Advance([@ EXCEPT !.sub = Top.sub, !.sec = Top.sub + 1], @.fc)]
  /\ UNCHANGED <<topo, bus_num, bar, tree, msi, msi_msg_limit, msi_signals, dev_ctrl, host, passes>>

(* The data of MSI number k of function n: the low bits are replaced.      *)
issue_msi_interrupt(n, k) == Down(msi[n], 2^topo[n].mmcap) + k

Done == stack = << >> /\ passes = ENUMS
Rest == Done /\ UNCHANGED vars

Step == AllocRegion \/ enumerate \/ NotFound \/ FoundFunction \/ EndSegment
Next == Step \/ Rest

Spec == Init /\ [][Next]_vars

-----------------------------------------------------------------------------
(* A config request for a function already found reaches that function and *)
(* no other, and its completion the root complex, at every moment of the   *)
(* walk: while a bridge claims every bus up to 255, and while the          *)
(* registers of a previous walk are still in place (Bridge.upstream_recv,  *)
(* SwitchUpstreamPort.route_downstream_tlp, Bridge.downstream_recv).       *)
ConfigReaches ==
  \A n \in DOMAIN tree : /\ FromHost(Config(tree[n].id)) = n
                         /\ upstream_send(n, Cpl(<<0, 0, 0>>)) = RC

Ends(n, i) == {bar[n][i], bar[n][i] + topo[n].bars[i].size - 1}
Settled == stack = << >> /\ passes > 0

(* After enumeration every function has been found and may master the bus, *)
(* and every address of every BAR is routed to the function that owns it,  *)
(* from the host and from every device; a completion for a function gets   *)
(* back to it from wherever it was sent (enumerate_segment, the bridge     *)
(* window registers, match_bar).                                           *)
RoutesExact ==
  Settled =>
    /\ DOMAIN tree = Nodes \ {0}
    /\ \A n \in Nodes : \A i \in DOMAIN topo[n].bars : \A a \in Ends(n, i) :
         LET t == Access(Space(topo[n].bars[i]), a)
         IN FromHost(t) = n /\ \A m \in Fns : upstream_send(m, t) = n
    /\ \A n \in Fns : /\ dev_ctrl[n].bus_master
                      /\ FromHost(Cpl(tree[n].id)) = n
                      /\ \A m \in Fns \ {n} : upstream_send(m, Cpl(tree[n].id)) = n

(* Host memory regions never share an address, the region for MSI messages *)
(* included, and after enumeration every device reaches every byte of them *)
(* (alloc_region, find_region; sizes are powers of two above one).         *)
HostMemoryReached ==
  \A i \in DOMAIN regions : \A a \in {regions[i][1], regions[i][1] + regions[i][2] - 1} :
    /\ find_region(a) = i
    /\ Settled => \A m \in Fns : upstream_send(m, Access("mem", a)) = RC

(* The capabilities found by the walk are those of the function, each      *)
(* where the config space really has it: no two share a register           *)
(* (PcieCapList.register, capability_read).                                *)
CapabilitiesFound ==
  \A n \in DOMAIN tree :
    LET list == Capabilities(n)
    IN /\ tree[n].caps = {<<list[k].id, 4 * list[k].off>> : k \in DOMAIN list}
       /\ \A k \in DOMAIN list : \A r \in 0 .. list[k].length - 1 :
            find_by_reg(list, list[k].off + r) = {k}

(* Message number k of a function with MSI signals that function and no    *)
(* other, also after the host has enumerated again (configure_msi,         *)
(* issue_msi_interrupt, msi_region_write, msi_get_signal).                 *)
MsiReachesOwner ==
  Settled => \A n \in DOMAIN msi : \A k \in 0 .. 2^topo[n].mmcap - 1 :
    LET data == issue_msi_interrupt(n, k)
    IN /\ data \in DOMAIN msi_signals /\ msi_signals[data] = n
       /\ data = msi[n] + k
=============================================================================
