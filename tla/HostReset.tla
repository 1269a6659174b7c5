------------------------------ MODULE HostReset ------------------------------
(***************************************************************************)
(* The host takes a core out of service and brings it back while packets   *)
(* go on arriving: reset_single_core and reset_all_cores of rpu.c with the *)
(* reload that follows in pr_reload.c and rvfw.c, the load balancer's      *)
(* slots of this core, and the evict interrupt handler of the core.        *)
(*                                                                         *)
(* Only the core that is reset is modelled.  With PREFETCH (the round      *)
(* robin policy) a port reserves a slot before it has a packet; the hash   *)
(* policies take a slot for a packet that is there.  The host waits a      *)
(* fixed time for packets and messages under way to arrive and for the     *)
(* firmware to answer the packets it has; the ghost variable late says     *)
(* that such a wait was too short: that reset is the last one, and it is   *)
(* followed until the core is back, without new packets.                   *)
(***************************************************************************)
EXTENDS Naturals, Sequences, FiniteSets

CONSTANTS PREFETCH, IF_COUNT, SLOTS

Ports == 1 .. IF_COUNT
Slots == 1 .. SLOTS

VARIABLES
  incoming,        \* the core is enabled and receives packets
  rx_en,           \* interfaces that are enabled
  free_slots,      \* slots that the load balancer has
  port,            \* slots of each port: of its packet, and the reserved one
  net,             \* slots of packets on their way to the core
  recvd,           \* received packets that the core has not read
  active,          \* packets that the firmware works on
  sent,            \* packets sent or dropped, in the RPU's FIFOs
  ctrl,            \* messages on their way to the load balancer
  mode,            \* of the core: "run", "evict", "reset" or "boot"
  evict_int, evict_ready,   \* ready_to_evict, as the host sees it
  pc, proc, i,     \* step of the host, its procedure, and loop variable
  slots, descs_released,
  late             \* ghost: the host did not wait long enough

lbVars   == <<incoming, rx_en, free_slots, port, net>>
coreVars == <<recvd, active, sent, ctrl, mode, evict_int, evict_ready>>
hostVars == <<pc, proc, i, slots, descs_released, late>>
vars == <<lbVars, coreVars, hostVars>>

Other == SLOTS + 1   \* a slot of another core

PortStates == [cur : 0 .. Other, next : 0 .. Other]
Idle == [cur |-> 0, next |-> 0]

FIRST(p)   == port[p].cur = 0 /\ port[p].next # 0
Sending(p) == port[p].cur \in Slots

Least(S) == CHOOSE x \in S : \A y \in S : x <= y

-----------------------------------------------------------------------------
(* The ports of the load balancer.  A port in state STALL or WAIT gets a   *)
(* slot for its next packet.                                               *)
TakeSlot(p) ==
  /\ incoming /\ ~late /\ free_slots # {} /\ free_slots' = free_slots \ {Least(free_slots)}
  /\ IF PREFETCH
     THEN port[p].next = 0 /\ port' = [port EXCEPT ![p].next = Least(free_slots)]
     ELSE port[p].cur = 0 /\ port' = [port EXCEPT ![p].cur = Least(free_slots)]
  /\ UNCHANGED <<incoming, rx_en, net, coreVars, hostVars>>

TakeOther(p) ==
  /\ PREFETCH /\ port[p].next = 0 /\ port' = [port EXCEPT ![p].next = Other]
  /\ UNCHANGED <<incoming, rx_en, free_slots, net, coreVars, hostVars>>

StartPacket(p) ==
  /\ FIRST(p) /\ p \in rx_en
  /\ port' = [port EXCEPT ![p] = [cur |-> port[p].next, next |-> 0]]
  /\ UNCHANGED <<incoming, rx_en, free_slots, net, coreVars, hostVars>>

EndPacket(p) ==
  /\ port[p].cur # 0 /\ port' = [port EXCEPT ![p].cur = 0]
  /\ net' = net \cup ({port[p].cur} \cap Slots)
  /\ UNCHANGED <<incoming, rx_en, free_slots, coreVars, hostVars>>

Return ==
  /\ ctrl # <<>> /\ ctrl' = Tail(ctrl)
  /\ free_slots' = IF Head(ctrl).init THEN Slots ELSE free_slots \cup {Head(ctrl).slot}
  /\ UNCHANGED <<incoming, rx_en, port, net, recvd, active, sent, mode,
                 evict_int, evict_ready, hostVars>>

-----------------------------------------------------------------------------
(* The RPU.                                                                *)
Deliver ==
  \E s \in net :
    /\ net' = net \ {s} /\ recvd' = recvd \cup {s}
    /\ UNCHANGED <<incoming, rx_en, free_slots, port, active, sent, ctrl, mode,
                   evict_int, evict_ready, hostVars>>

read_in_pkt ==
  /\ mode = "run"
  /\ \E s \in recvd : recvd' = recvd \ {s} /\ active' = active \cup {s}
  /\ UNCHANGED <<lbVars, sent, ctrl, mode, evict_int, evict_ready, hostVars>>

pkt_send ==
  /\ mode = "run"
  /\ \E s \in active : active' = active \ {s} /\ sent' = sent \cup {s}
  /\ UNCHANGED <<lbVars, recvd, ctrl, mode, evict_int, evict_ready, hostVars>>

pkt_sent ==
  /\ \E s \in sent : /\ sent' = sent \ {s}
                     /\ ctrl' = Append(ctrl, [init |-> FALSE, slot |-> s])
  /\ UNCHANGED <<lbVars, recvd, active, mode, evict_int, evict_ready, hostVars>>

\* The core boots and its firmware calls init_slots.
init_slots ==
  /\ mode = "boot" /\ mode' = "run"
  /\ ctrl' = Append(ctrl, [init |-> TRUE, slot |-> 0])
  /\ UNCHANGED <<lbVars, recvd, active, sent, evict_int, evict_ready, hostVars>>

\* Bug: a core without packets takes the evict request for done.
int_handlerIdle ==
  /\ mode = "run" /\ evict_int
  /\ mode' = (IF active # {} THEN "evict" ELSE "run") /\ evict_int' = FALSE
  /\ UNCHANGED <<lbVars, recvd, active, sent, ctrl, evict_ready, hostVars>>

int_handler ==
  /\ mode = "run" /\ evict_int
  /\ mode' = "evict" /\ evict_int' = FALSE
  /\ UNCHANGED <<lbVars, recvd, active, sent, ctrl, evict_ready, hostVars>>

\* Bug: a packet that is dropped remains active.
EvictActiveKept ==
  /\ mode = "evict" /\ ~evict_ready
  /\ \E s \in active : sent' = sent \cup {s}
  /\ UNCHANGED <<lbVars, recvd, active, ctrl, mode, evict_int, evict_ready, hostVars>>

EvictRecvd ==
  /\ mode = "evict"
  /\ \E s \in recvd : recvd' = recvd \ {s} /\ sent' = sent \cup {s}
  /\ UNCHANGED <<lbVars, active, ctrl, mode, evict_int, evict_ready, hostVars>>

EvictActive ==
  /\ mode = "evict" /\ ~evict_ready
  /\ \E s \in active : active' = active \ {s} /\ sent' = sent \cup {s}
  /\ UNCHANGED <<lbVars, recvd, ctrl, mode, evict_int, evict_ready, hostVars>>

EvictReady ==
  /\ mode = "evict" /\ active = {} /\ ~evict_ready
  /\ evict_ready' = TRUE
  /\ UNCHANGED <<lbVars, recvd, active, sent, ctrl, mode, evict_int, hostVars>>

-----------------------------------------------------------------------------
(* The host.  Its registers for the two load balancer commands, and the    *)
(* register at which the round robin policy takes release_desc.            *)
LB_INT_DROP_DESC == 1
release_desc_reg == 2

slots_in_prog == recvd \cup active

\* The state that the host waits for.
Settled == /\ net = {} /\ sent = {} /\ ctrl = <<>> /\ slots_in_prog = {}
           /\ \A p \in Ports : ~Sending(p)

Goto(from, to) == pc = from /\ pc' = to

Disable ==
  /\ Goto("start", "check") /\ ~late /\ proc' \in {"single", "all"}
  /\ incoming' = FALSE
  /\ UNCHANGED <<rx_en, free_slots, port, net, coreVars, i, slots, descs_released, late>>

CheckActive ==
  /\ Goto("check", IF slots_in_prog # {} THEN "evict" ELSE "sleep")
  /\ UNCHANGED <<lbVars, coreVars, proc, i, slots, descs_released, late>>

evict_core ==
  /\ Goto("evict", "await") /\ evict_int' = TRUE
  /\ UNCHANGED <<lbVars, recvd, active, sent, ctrl, mode, evict_ready,
                 proc, i, slots, descs_released, late>>

AwaitReady ==
  /\ Goto("await", IF evict_ready THEN "sleep" ELSE "await")
  /\ UNCHANGED <<lbVars, coreVars, proc, i, slots, descs_released, late>>

\* The wait of reset_single_core or reset_all_cores is over.
Sleep ==
  /\ late' = ~Settled
  /\ slots' = Cardinality(free_slots) /\ i' = 1 /\ descs_released' = 0
  /\ Goto("sleep", CASE proc = "all" -> "release_all"
                     [] proc = "single" /\ slots' = SLOTS -> "reset"
                     [] proc = "single" /\ slots' # SLOTS /\ PREFETCH -> "scan"
                     [] OTHER -> "recount")
  /\ UNCHANGED <<lbVars, coreVars, proc>>

\* An interface that waits for a packet with a slot of this core is stopped.
Scan ==
  /\ IF i > IF_COUNT THEN Goto("scan", "recount") /\ UNCHANGED i
     ELSE IF FIRST(i) /\ port[i].next \in Slots THEN Goto("scan", "stop") /\ UNCHANGED i
     ELSE Goto("scan", "scan") /\ i' = i + 1
  /\ UNCHANGED <<lbVars, coreVars, proc, slots, descs_released, late>>

StopInterface ==
  /\ Goto("stop", "recheck") /\ rx_en' = rx_en \ {i}
  /\ UNCHANGED <<incoming, free_slots, port, net, coreVars, proc, i, slots, descs_released, late>>

\* What release_interface_desc does to the ports.
Released(ports) ==
  [p \in Ports |-> IF p \in ports /\ LB_INT_DROP_DESC = release_desc_reg
                   THEN [port[p] EXCEPT !.next = 0] ELSE port[p]]

Recheck ==
  /\ Goto("recheck", "restart")
  /\ IF FIRST(i) /\ port[i].next \in Slots
     THEN port' = Released({i}) /\ descs_released' = descs_released + 1
     ELSE UNCHANGED <<port, descs_released>>
  /\ UNCHANGED <<incoming, rx_en, free_slots, net, coreVars, proc, i, slots, late>>

RestartInterface ==
  /\ Goto("restart", "scan") /\ rx_en' = rx_en \cup {i} /\ i' = i + 1
  /\ UNCHANGED <<incoming, free_slots, port, net, coreVars, proc, slots, descs_released, late>>

\* A warning is printed if slots are still missing, by a wait that was too
\* short or for good; the core is reset anyway.
Recount ==
  /\ Goto("recount", "reset") /\ slots' = Cardinality(free_slots)
  /\ UNCHANGED <<lbVars, coreVars, proc, i, descs_released, late>>

ReleaseAll ==
  /\ Goto("release_all", "flush") /\ port' = Released(Ports)
  /\ UNCHANGED <<incoming, rx_en, free_slots, net, coreVars, proc, i, slots, descs_released, late>>

\* The reset clears what the RPU has, except its received packets.
Reset ==
  /\ Goto("reset", IF proc = "single" THEN "flush" ELSE "reload")
  /\ mode' = "reset" /\ active' = {} /\ sent' = {}
  /\ evict_int' = FALSE /\ evict_ready' = FALSE
  /\ UNCHANGED <<lbVars, recvd, ctrl, proc, i, slots, descs_released, late>>

Flush ==
  /\ Goto("flush", IF proc = "single" THEN "reload" ELSE "reset") /\ free_slots' = {}
  /\ UNCHANGED <<incoming, rx_en, port, net, coreVars, proc, i, slots, descs_released, late>>

\* The memories are loaded and the core is taken out of reset.
Reload ==
  /\ Goto("reload", "booting") /\ ctrl = <<>> /\ mode' = "boot"
  /\ UNCHANGED <<lbVars, recvd, active, sent, ctrl, evict_int, evict_ready,
                 proc, i, slots, descs_released, late>>

Enable ==
  /\ Goto("booting", "start") /\ mode = "run" /\ ctrl = <<>> /\ incoming' = TRUE
  /\ UNCHANGED <<rx_en, free_slots, port, net, coreVars, proc, i, slots, descs_released, late>>

-----------------------------------------------------------------------------
Init ==
  /\ incoming = TRUE /\ rx_en = Ports /\ free_slots = Slots
  /\ port = [p \in Ports |-> Idle] /\ net = {}
  /\ recvd = {} /\ active = {} /\ sent = {} /\ ctrl = <<>>
  /\ mode = "run" /\ evict_int = FALSE /\ evict_ready = FALSE
  /\ pc = "start" /\ proc = "single" /\ i = 1 /\ slots = 0 /\ descs_released = 0 /\ late = FALSE

PortNext == \E p \in Ports : \/ TakeSlot(p) \/ TakeOther(p)
                             \/ StartPacket(p) \/ EndPacket(p)
RpuNext  == \/ Deliver \/ pkt_sent \/ init_slots \/ int_handler
            \/ EvictRecvd \/ EvictActive \/ EvictReady
FirmwareNext == read_in_pkt \/ pkt_send
HostGoesOn == \/ CheckActive \/ evict_core \/ AwaitReady \/ Sleep \/ Scan \/ StopInterface
              \/ Recheck \/ RestartInterface \/ Recount \/ ReleaseAll
              \/ Reset \/ Flush \/ Reload \/ Enable

\* The run ends after a reset that came too early.
Rest == late /\ pc = "start" /\ UNCHANGED vars

Next == PortNext \/ Return \/ RpuNext \/ FirmwareNext \/ Disable \/ HostGoesOn \/ Rest

Spec == Init /\ [][Next]_vars

-----------------------------------------------------------------------------
TypeOK ==
  /\ incoming \in BOOLEAN /\ rx_en \subseteq Ports
  /\ free_slots \subseteq Slots /\ port \in [Ports -> PortStates]
  /\ \A S \in {net, recvd, active, sent} : S \subseteq Slots
  /\ mode \in {"run", "evict", "reset", "boot"} /\ {evict_int, evict_ready} \subseteq BOOLEAN
  /\ i \in 1 .. IF_COUNT + 1 /\ slots \in 0 .. SLOTS /\ descs_released \in 0 .. IF_COUNT

Places(s) ==
  {<<"cur", p>> : p \in {q \in Ports : port[q].cur = s}}
  \cup {<<"next", p>> : p \in {q \in Ports : port[q].next = s}}
  \cup {<<"ctrl", n>> : n \in {m \in DOMAIN ctrl : ~ctrl[m].init /\ ctrl[m].slot = s}}
  \cup {<<"set", n>> : n \in {m \in 1 .. 5 : s \in <<free_slots, net, recvd, active, sent>>[m]}}

(* A slot never has two owners, also not after a reset and reload in the   *)
(* middle of traffic, and none is missing when the core is back, unless    *)
(* the host waited too short a time for what was under way.                *)
SlotOwnedOnce ==
  ~late => \A s \in Slots : /\ Cardinality(Places(s)) <= 1
                            /\ pc = "start" => Cardinality(Places(s)) = 1

(* A core that the host takes out of service is in service again at last,  *)
(* whether the waits were long enough or not.                              *)
ResetEnds == pc = "check" ~> pc = "start" /\ incoming

(* "check if still it's the same desc drop it": when a core is reset after *)
(* a wait that was long enough no port has a slot of it any more.          *)
DescsDropped == mode = "reset" /\ ~late => \A p \in Ports : port[p].next \notin Slots
=============================================================================
