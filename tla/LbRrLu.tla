-------------------------------- MODULE LbRrLu --------------------------------
(***************************************************************************)
(* lb_rr_lu.v, the round-robin load balancing policy, with the slot        *)
(* keepers of lb_controller.v that it pops.  One step is one clock edge.   *)
(*                                                                         *)
(* Every incoming port reserves a descriptor (core, slot) before its next  *)
(* packet starts.  The request goes through a registered arbiter, so the   *)
(* grant meets a port one cycle after the port asked, when the port may be *)
(* in another state.  inuse and away are auxiliary: the slots that left    *)
(* with a packet or with an inter-core transfer, and the slots the load    *)
(* balancer does not have: not given to it by the core yet, or discarded   *)
(* when the host flushed the core or released a reservation.               *)
(***************************************************************************)
EXTENDS MaxFinder, FiniteSets

CONSTANTS
  IF_COUNT,        \* incoming ports
  CORE_COUNT,
  CLUSTER_COUNT,   \* divides CORE_COUNT
  CLUSTER_CORE_WIDTH,
                   \* bits of a core number within its cluster
  SLOT_COUNT,
  HostCommands,    \* the host commands that occur
  WordKinds,       \* what a port may bring in a cycle
  BusySets         \* the sets of cores with an inter-core transfer in a cycle

ASSUME CountsAssumption ==
  {IF_COUNT, CORE_COUNT, CLUSTER_COUNT, SLOT_COUNT} \subseteq Nat \ {0}

(* There are clusters to arbitrate between, and cores in each of them:     *)
(* with one cluster nothing drives max_valid, and a tree over one core has *)
(* no last stage.  The width of a core number in its cluster is            *)
(* CLUSTER_CORE_WIDTH = $clog2(CLUSTER_CORES), and a core number is made   *)
(* of the bits of the cluster and of the core within it, which names the   *)
(* core only if the cores of a cluster are a power of two.                 *)
ASSUME ClustersAssumption ==
  /\ 2 <= CLUSTER_COUNT /\ 2 * CLUSTER_COUNT <= CORE_COUNT /\ CLUSTER_CORE_WIDTH \in Nat
  /\ CORE_COUNT \div CLUSTER_COUNT
       = PowersOfTwo(CLUSTER_CORE_WIDTH)[CLUSTER_CORE_WIDTH]

Ports    == 0 .. IF_COUNT - 1
Cores    == 0 .. CORE_COUNT - 1
Clusters == 0 .. CLUSTER_COUNT - 1
Slots    == 1 .. SLOT_COUNT
Descs    == [core : Cores, slot : Slots]

CLUSTER_CORES == CORE_COUNT \div CLUSTER_COUNT

NoPort == IF_COUNT

VARIABLES
  enabled_cores, income_cores,   \* host registers
  release_desc, slots_flush,     \* one-cycle host commands
  port_state,                    \* STALL, FIRST, WAIT or MID per port
  dest_r,                        \* reserved descriptor per port
  dest_rr,                       \* descriptor of the packet in progress
  selected_port,                 \* registered grant of port_selector
  port_mask, cluster_mask,       \* round-robin masks of the two arbiters
  free,                          \* slots in each slot_keeper
  inuse, away                    \* auxiliary

hostVars == <<enabled_cores, income_cores, release_desc, slots_flush>>
portVars == <<port_state, dest_r, dest_rr>>
arbVars  == <<selected_port, port_mask, cluster_mask>>
slotVars == <<free, inuse, away>>
vars     == <<hostVars, portVars, arbVars, slotVars>>

Commands == [reg : {"none"}]
            \cup [reg : {"enable", "receive", "flush"}, data : SUBSET Cores]
            \cup [reg : {"release"}, data : SUBSET Ports]

ASSUME PinsAssumption == HostCommands \subseteq Commands
                         /\ BusySets \subseteq SUBSET Cores
                         /\ WordKinds \subseteq {"none", "mid", "last"}

(* What the control channel brings in a cycle: nothing, a slot coming back *)
(* from a packet that left, or a core giving all its slots after a reset,  *)
(* which it does when none of them is anywhere else.                       *)
Returns == [kind : {"none"}] \cup [kind : {"slot"}, desc : Descs]
           \cup [kind : {"init"}, core : Cores]

Possible(ret) ==
  /\ ret.kind = "slot" => ret.desc.slot \in inuse[ret.desc.core]
  /\ ret.kind = "init" => away[ret.core] = Slots

-----------------------------------------------------------------------------
Least(S) == CHOOSE x \in S : \A y \in S : x <= y

(* A round-robin arbiter prefers the requests above the last one granted.  *)
RoundRobin(request, mask) ==
  Least(IF request \cap mask # {} THEN request \cap mask ELSE request)

Above(n, S) == {x \in S : x > n}

slot_counts == [c \in Cores |-> Cardinality(free[c])]

masks(busy) == income_cores \ busy

selected_cluster_core(k, busy) ==
  LET base   == k * CLUSTER_CORES
      counts == [i \in 0 .. CLUSTER_CORES - 1 |-> slot_counts[base + i]]
      valids == {i \in 0 .. CLUSTER_CORES - 1 : base + i \in masks(busy)}
  IN max_ptr(counts, valids, CLUSTER_CORES, CLUSTER_CORE_WIDTH)

cluster_max_valid(busy) ==
  {k \in Clusters : \E c \in masks(busy) :
     c \div CLUSTER_CORES = k /\ slot_counts[c] # 0}

selected_cluster(busy) == RoundRobin(cluster_max_valid(busy), cluster_mask)

selected_core(busy) ==
  LET k == selected_cluster(busy)
  IN k * PowersOfTwo(CLUSTER_CORE_WIDTH)[CLUSTER_CORE_WIDTH] + selected_cluster_core(k, busy)

desc_pop(busy) == selected_port # NoPort /\ cluster_max_valid(busy) # {}

desc_data(busy) ==
  [core |-> selected_core(busy), slot |-> Least(free[selected_core(busy)])]

port_desc_avail(p, busy) == desc_pop(busy) /\ selected_port = p

port_valid(p, word)        == word[p] # "none" /\ port_state[p] # "STALL"
sending_last_word(p, word) == word[p] = "last" /\ port_state[p] # "STALL"

-----------------------------------------------------------------------------
\* Mutant: enabling cores leaves the incoming cores as they are.
HostStepKeepIncome(cmd) ==
  /\ enabled_cores' = IF cmd.reg = "enable" THEN cmd.data ELSE enabled_cores
  /\ income_cores'  = IF cmd.reg = "receive" THEN cmd.data \cap enabled_cores
                      ELSE income_cores
  /\ slots_flush'   = IF cmd.reg = "flush" THEN cmd.data ELSE {}
  /\ release_desc'  = IF cmd.reg = "release" THEN cmd.data ELSE {}

HostStep(cmd) ==
  /\ enabled_cores' = IF cmd.reg = "enable" THEN cmd.data ELSE enabled_cores
  /\ income_cores'  = CASE cmd.reg = "enable"  -> income_cores \cap cmd.data
                        [] cmd.reg = "receive" -> cmd.data \cap enabled_cores
                        [] OTHER -> income_cores
  /\ slots_flush'   = CASE cmd.reg = "flush" -> cmd.data
                        [] cmd.reg \in {"enable", "receive", "release"}
                             -> slots_flush
                        [] OTHER -> {}
  /\ release_desc'  = CASE cmd.reg = "release" -> cmd.data
                        [] cmd.reg \in {"enable", "receive", "flush"}
                             -> release_desc
                        [] OTHER -> {}

\* Mutant: a release in MID is forgotten when the packet ends.
NextStateLateRelease(p, word, busy) ==
  LET avail == port_desc_avail(p, busy)
      last  == sending_last_word(p, word)
  IN CASE port_state[p] = "STALL" -> IF avail THEN "FIRST" ELSE "STALL"
       [] port_state[p] = "FIRST" -> IF last THEN "STALL"
                                     ELSE IF port_valid(p, word) THEN "WAIT"
                                     ELSE IF p \in release_desc THEN "STALL"
                                     ELSE "FIRST"
       [] port_state[p] = "WAIT"  -> IF avail THEN "MID"
                                     ELSE IF last THEN "STALL" ELSE "WAIT"
       [] port_state[p] = "MID"   -> IF last THEN "FIRST"
                                     ELSE IF p \in release_desc THEN "WAIT"
                                     ELSE "MID"

NextState(p, word, busy) ==
  LET avail == port_desc_avail(p, busy)
      last  == sending_last_word(p, word)
  IN CASE port_state[p] = "STALL" -> IF avail THEN "FIRST" ELSE "STALL"
       [] port_state[p] = "FIRST" -> IF last THEN "STALL"
                                     ELSE IF port_valid(p, word) THEN "WAIT"
                                     ELSE IF p \in release_desc THEN "STALL"
                                     ELSE "FIRST"
       [] port_state[p] = "WAIT"  -> IF avail /\ last THEN "FIRST"
                                     ELSE IF avail THEN "MID"
                                     ELSE IF last THEN "STALL" ELSE "WAIT"
       [] port_state[p] = "MID"   -> IF last
                                     THEN IF p \in release_desc THEN "STALL"
                                          ELSE "FIRST"
                                     ELSE IF p \in release_desc THEN "WAIT"
                                     ELSE "MID"

PortStep(word, busy) ==
  /\ port_state' = [p \in Ports |-> NextState(p, word, busy)]
  /\ dest_rr' = [p \in Ports |->
       IF port_state[p] = "FIRST" /\ port_valid(p, word) THEN dest_r[p]
       ELSE dest_rr[p]]
  /\ dest_r' = IF desc_pop(busy)
               THEN [dest_r EXCEPT ![selected_port] = desc_data(busy)]
               ELSE dest_r

\* Mutants: a request is not withdrawn while it is being granted; only the
\* start of a packet asks for a descriptor.
desc_reqWhileSelected(word) ==
  {p \in Ports : \/ port_state[p] \in {"STALL", "WAIT"}
                 \/ port_state[p] = "FIRST" /\ port_valid(p, word)}
desc_reqOnStart(word) ==
  {p \in Ports : /\ selected_port # p
                 /\ \/ port_state[p] = "WAIT"
                    \/ port_state[p] = "FIRST" /\ port_valid(p, word)}

desc_req(word) ==
  {p \in Ports : /\ selected_port # p
                 /\ \/ port_state[p] \in {"STALL", "WAIT"}
                    \/ port_state[p] = "FIRST" /\ port_valid(p, word)}

ArbiterStep(word, busy) ==
  /\ IF desc_req(word) = {}
     THEN selected_port' = NoPort /\ UNCHANGED port_mask
     ELSE /\ selected_port' = RoundRobin(desc_req(word), port_mask)
          /\ port_mask' = Above(selected_port', Ports)
  /\ cluster_mask' = IF selected_port # NoPort /\ cluster_max_valid(busy) # {}
                     THEN Above(selected_cluster(busy), Clusters)
                     ELSE cluster_mask

-----------------------------------------------------------------------------
(* The slot keepers, and where the slots that leave them are.              *)

Popped(c, busy) ==
  IF desc_pop(busy) /\ selected_core(busy) = c THEN {desc_data(busy).slot}
  ELSE IF c \in busy /\ c \in enabled_cores /\ free[c] # {}
  THEN {Least(free[c])} ELSE {}

Returned(c, ret) ==
  IF ret.kind = "slot" /\ ret.desc.core = c THEN {ret.desc.slot} ELSE {}

KeeperStep(busy, ret) ==
  free' = [c \in Cores |->
    IF c \in slots_flush THEN {}
    ELSE IF ret.kind = "init" /\ ret.core = c THEN Slots
    ELSE (free[c] \cup Returned(c, ret)) \ Popped(c, busy)]

Reserved == {p \in Ports : port_state[p] \in {"FIRST", "MID"}}
Current  == {p \in Ports : port_state[p] \in {"WAIT", "MID"}}

\* Slots of core c whose packet's last word leaves in this cycle.
Finished(c, word) ==
  {dest_rr[p].slot : p \in {q \in Current : sending_last_word(q, word)
                                            /\ dest_rr[q].core = c}}
  \cup {dest_r[p].slot : p \in {q \in Ports : port_state[q] = "FIRST"
                          /\ sending_last_word(q, word) /\ dest_r[q].core = c}}

\* Slots of core c whose reservation is released in this cycle.
Discarded(c, word) ==
  {dest_r[p].slot : p \in {q \in Reserved \cap release_desc :
      /\ dest_r[q].core = c
      /\ port_state[q] = "FIRST" => ~port_valid(q, word)}}

AuxStep(word, busy, ret) ==
  /\ inuse' = [c \in Cores |->
       (inuse[c] \ Returned(c, ret)) \cup Finished(c, word)
         \cup (IF c \in busy /\ ~(desc_pop(busy) /\ selected_core(busy) = c)
              THEN Popped(c, busy) ELSE {})]
  /\ away' = [c \in Cores |->
       (IF ret.kind = "init" /\ ret.core = c /\ c \notin slots_flush THEN {}
        ELSE away[c])
         \cup Discarded(c, word)
         \cup (IF c \in slots_flush
              THEN (free[c] \cup Returned(c, ret)) \ Popped(c, busy) ELSE {})]

Clock(word, busy, ret, cmd) ==
  /\ Possible(ret)
  /\ HostStep(cmd)
  /\ PortStep(word, busy)
  /\ ArbiterStep(word, busy)
  /\ KeeperStep(busy, ret)
  /\ AuxStep(word, busy, ret)

Init ==
  /\ enabled_cores = {} /\ income_cores = {}
  /\ release_desc = {} /\ slots_flush = {}
  /\ port_state = [p \in Ports |-> "STALL"]
  /\ dest_r  = [p \in Ports |-> [core |-> 0, slot |-> 1]]
  /\ dest_rr = [p \in Ports |-> [core |-> 0, slot |-> 1]]
  /\ selected_port = NoPort /\ port_mask = {} /\ cluster_mask = {}
  /\ free = [c \in Cores |-> {}]
  /\ inuse = [c \in Cores |-> {}] /\ away = [c \in Cores |-> Slots]

(* The words offered in a cycle; one to a stalled port has no effect.      *)
Words == {word \in [Ports -> WordKinds] :
            \A p \in Ports : port_state[p] = "STALL" => word[p] = "none"}

Next == \E word \in Words, busy \in BusySets, ret \in Returns,
           cmd \in HostCommands : Clock(word, busy, ret, cmd)

Spec == Init /\ [][Next]_vars

-----------------------------------------------------------------------------
TypeOK ==
  /\ enabled_cores \in SUBSET Cores /\ income_cores \in SUBSET Cores
  /\ release_desc \in SUBSET Ports /\ slots_flush \in SUBSET Cores
  /\ port_state \in [Ports -> {"STALL", "FIRST", "WAIT", "MID"}]
  /\ dest_r \in [Ports -> Descs] /\ dest_rr \in [Ports -> Descs]
  /\ selected_port \in Ports \cup {NoPort}
  /\ port_mask \in SUBSET Ports /\ cluster_mask \in SUBSET Clusters
  /\ free \in [Cores -> SUBSET Slots]
  /\ inuse \in [Cores -> SUBSET Slots] /\ away \in [Cores -> SUBSET Slots]

\* Where slot s of core c is.
Places(c, s) ==
  {<<"reserved", p>> : p \in {q \in Reserved : dest_r[q] = [core |-> c, slot |-> s]}}
  \cup {<<"current", p>> : p \in {q \in Current : dest_rr[q] = [core |-> c, slot |-> s]}}
  \cup {<<"free">> : x \in free[c] \cap {s}}
  \cup {<<"inuse">> : x \in inuse[c] \cap {s}}
  \cup {<<"away">> : x \in away[c] \cap {s}}

(* Every slot of every core is in exactly one place: in its keeper, held   *)
(* by one port for its next packet or for the packet it is sending, out    *)
(* with a packet, or discarded.  In particular a slot popped for a port    *)
(* always reaches that port, although the port's state may have changed    *)
(* between its request and the registered grant, and no slot is handed to  *)
(* two packets.  (State machine, registers and keepers keep their types.)  *)
SlotsConserved ==
  TypeOK /\ \A c \in Cores, s \in Slots : Cardinality(Places(c, s)) = 1

(* A grant always finds the port able to take the descriptor.              *)
GrantIsExpected ==
  selected_port # NoPort => port_state[selected_port] \in {"STALL", "WAIT"}

(* A port is given a slot of an enabled core only: once the host disables  *)
(* a core, no later host register write but enabling it again lets a port  *)
(* reserve one of its slots.                                               *)
NoGrantFromDisabled ==
  [][\A p \in Ports : dest_r'[p] # dest_r[p]
                        => dest_r'[p].core \in enabled_cores]_vars

\* A slot is there that no inter-core transfer takes from the policy.
SlotAtHand == \E c \in income_cores \ UNION BusySets : free[c] # {}

(* No port is starved: while slots remain at hand, a port that stalls      *)
(* gets one, whatever the other ports ask for, although each grant lasts   *)
(* one cycle only and nothing acknowledges it.                             *)
StallEnds ==
  \A p \in Ports : <>[]SlotAtHand
                    => (port_state[p] = "STALL" ~> port_state[p] # "STALL")
=============================================================================
