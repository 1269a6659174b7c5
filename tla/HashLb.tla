------------------------------- MODULE HashLb -------------------------------
(***************************************************************************)
(* lb_hash_blocking.v and lb_hash_dropping.v, the load balancing policies  *)
(* by flow hash, with the slot keepers that they pop.  One step is one     *)
(* clock edge.                                                             *)
(*                                                                         *)
(* A packet waits in the data FIFO of its port while its hash goes through *)
(* rx_hash_fifo, is given a slot of the core the hash selects, and comes   *)
(* back in rx_hash_n_desc_fifo.  Nothing but the order ties packet and     *)
(* hash together.  A packet is represented by the core its hash selects;   *)
(* every packet is WORDS words long.  inuse and away are auxiliary: slots  *)
(* that left with a packet or an inter-core transfer, and slots that the   *)
(* load balancer does not have.                                            *)
(***************************************************************************)
EXTENDS Naturals, Sequences, FiniteSets

CONSTANTS
  POLICY,            \* "blocking" (lb_hash_blocking.v) or "dropping"
  IF_COUNT, CORE_COUNT, SLOT_COUNT,
  DATA_FIFO_WORDS,   \* words in the RAM of the data FIFO
  RAM_PIPELINE,      \* and in the pipeline behind it, less one
  WORDS,             \* words of a packet
  HASH_FIFO_DEPTH,
  HostCommands, BusySets, FullSets
                     \* host commands, cores with inter-core transfers and
                     \* ports with a nearly full receive FIFO, in a cycle

Ports == 0 .. IF_COUNT - 1
Cores == 0 .. CORE_COUNT - 1
Slots == 1 .. SLOT_COUNT
Descs == [core : Cores, slot : Slots]

Commands == [reg : {"none"}] \cup [reg : {"enable", "receive", "flush"}, data : SUBSET Cores]

ASSUME HashLbAssumption ==
  /\ POLICY \in {"blocking", "dropping"} /\ RAM_PIPELINE \in Nat
  /\ {IF_COUNT, CORE_COUNT, SLOT_COUNT, DATA_FIFO_WORDS, WORDS, HASH_FIFO_DEPTH}
       \subseteq Nat \ {0}
  /\ HostCommands \subseteq Commands

NoPort == IF_COUNT

\* Packets of WORDS words that fit in the data FIFO of a port.
PKT_ROOM == (DATA_FIFO_WORDS + RAM_PIPELINE + 1) \div WORDS

VARIABLES
  enabled_cores, income_cores, slots_flush,   \* host registers
  pkts,              \* packets in the data FIFO of each port
  hash_pipe,         \* hash in rx_hash, of each port
  hash_fifo,         \* rx_hash_fifo
  desc_fifo,         \* rx_hash_n_desc_fifo
  selected_port_r, selected_core,
  port_mask,         \* round-robin mask of port_selector
  desc_stall,        \* port that waits for a slot of each core
  free, inuse, away

hostVars == <<enabled_cores, income_cores, slots_flush>>
portVars == <<pkts, hash_pipe, hash_fifo, desc_fifo>>
selVars  == <<selected_port_r, selected_core, port_mask, desc_stall>>
slotVars == <<free, inuse, away>>
vars == <<hostVars, portVars, selVars, slotVars>>

(* What the control channel brings in a cycle: nothing, a slot that was in *)
(* use, or all slots of a core that has none.                              *)
Returns == [kind : {"none"}]
           \cup {[kind |-> "slot", desc |-> d] : d \in {e \in Descs : e.slot \in inuse[e.core]}}
           \cup {[kind |-> "init", core |-> c] : c \in {e \in Cores : away[e] = Slots}}

-----------------------------------------------------------------------------
Least(S)    == CHOOSE x \in S : \A y \in S : x <= y
Greatest(S) == CHOOSE x \in S : \A y \in S : x >= y

desc_avail == {c \in income_cores : free[c] # {}}

Waiting(p, c) == desc_stall[c] \in {NoPort, p}

\* Bug: a slot that goes to an inter-core transfer is given away again.
desc_popBusy(busy) ==
  /\ selected_port_r # NoPort /\ selected_core \in desc_avail
  /\ POLICY = "blocking" => Waiting(selected_port_r, selected_core)

\* A slot of the selected core goes to the selected port.
desc_pop(busy) ==
  /\ selected_port_r # NoPort
  /\ selected_core \in desc_avail \ busy
  /\ POLICY = "blocking" => Waiting(selected_port_r, selected_core)

\* The packet of the selected port is to be dropped.
to_drop(busy, almost_full) ==
  /\ POLICY = "dropping" /\ selected_port_r \in almost_full
  /\ selected_core \notin desc_avail \cup busy

Taken(p, busy, almost_full) ==
  selected_port_r = p /\ (desc_pop(busy) \/ to_drop(busy, almost_full))

next_slot(c) == IF free[c] # {} THEN Least(free[c]) ELSE 0

hash_n_dest_in ==
  [core |-> selected_core, slot |-> next_slot(selected_core),
   drop |-> selected_core \notin desc_avail]

\* Bug: nothing is pushed for a packet to drop.
PushedPops(p, busy, almost_full) ==
  IF selected_port_r = p /\ desc_pop(busy) THEN <<hash_n_dest_in>> ELSE <<>>

Pushed(p, busy, almost_full) ==
  IF Taken(p, busy, almost_full) THEN <<hash_n_dest_in>> ELSE <<>>

desc_req == {p \in Ports : /\ hash_fifo[p] # <<>> /\ p # selected_port_r
                           /\ Len(desc_fifo[p]) < HASH_FIFO_DEPTH}

selected_port == LET masked == desc_req \cap port_mask
                 IN Greatest(IF masked # {} THEN masked ELSE desc_req)

-----------------------------------------------------------------------------

HostStep(cmd) ==
  /\ enabled_cores' = IF cmd.reg = "enable" THEN cmd.data ELSE enabled_cores
  /\ income_cores'  = CASE cmd.reg = "enable"  -> income_cores \cap cmd.data
                        [] cmd.reg = "receive" -> cmd.data \cap enabled_cores
                        [] OTHER -> income_cores
  /\ slots_flush'   = CASE cmd.reg = "flush" -> cmd.data
                        [] cmd.reg = "none"  -> {}
                        [] OTHER -> slots_flush

SelectStep ==
  IF desc_req = {}
  THEN selected_port_r' = NoPort /\ UNCHANGED <<selected_core, port_mask>>
  ELSE /\ selected_port_r' = selected_port
       /\ selected_core' = Head(hash_fifo[selected_port])
       /\ port_mask' = {p \in Ports : p < selected_port}

\* Bug: the port that waits is forgotten when any port gets a slot.
StallStepAny(busy) ==
  desc_stall' =
    IF POLICY = "dropping" \/ selected_port_r = NoPort THEN desc_stall
    ELSE [desc_stall EXCEPT ![selected_core] =
            IF selected_core \notin desc_avail \ busy
            THEN selected_port_r ELSE NoPort]

StallStep(busy) ==
  desc_stall' =
    IF POLICY = "dropping" \/ selected_port_r = NoPort THEN desc_stall
    ELSE [desc_stall EXCEPT ![selected_core] =
            IF selected_core \notin desc_avail \ busy
            THEN IF @ = NoPort THEN selected_port_r ELSE @
            ELSE IF @ = selected_port_r THEN NoPort ELSE @]

(* header_adder_blocking sends or drops a packet once it has its header.   *)
CanSend(p, ready) == /\ pkts[p] # <<>> /\ desc_fifo[p] # <<>>
                     /\ p \in ready \/ Head(desc_fifo[p]).drop

Rest(seq, taken) == IF taken /\ seq # <<>> THEN Tail(seq) ELSE seq

(* What basic_fifo takes of the items offered to it.  Nobody looks at      *)
(* din_ready of rx_hash_fifo: a hash that it has no room for is lost.      *)
Accepted(fifo, items) == IF Len(fifo) < HASH_FIFO_DEPTH THEN items ELSE <<>>

PortStep(arrival, ready, busy, almost_full) ==
  /\ pkts' = [p \in Ports |-> Rest(pkts[p], CanSend(p, ready)) \o arrival[p]]
  /\ hash_pipe' = arrival
  /\ hash_fifo' = [p \in Ports |->
       Rest(hash_fifo[p], Taken(p, busy, almost_full))
         \o Accepted(hash_fifo[p], hash_pipe[p])]
  /\ desc_fifo' = [p \in Ports |->
       Rest(desc_fifo[p], CanSend(p, ready))
         \o Accepted(desc_fifo[p], Pushed(p, busy, almost_full))]

(* The slot keepers.                                                       *)
next_slot_pop(c, busy) == \/ desc_pop(busy) /\ selected_core = c
                          \/ c \in busy \cap enabled_cores

Popped(c, busy) ==
  IF next_slot_pop(c, busy) THEN {next_slot(c)} \ {0} ELSE {}

Returned(c, ret) ==
  IF ret.kind = "slot" /\ ret.desc.core = c THEN {ret.desc.slot} ELSE {}

KeeperStep(busy, ret) ==
  free' = [c \in Cores |->
    IF c \in slots_flush THEN {}
    ELSE IF ret.kind = "init" /\ ret.core = c THEN Slots
    ELSE (free[c] \cup Returned(c, ret)) \ Popped(c, busy)]

Sent(c, ready) ==
  {Head(desc_fifo[p]).slot : p \in {q \in Ports :
      CanSend(q, ready) /\ Head(desc_fifo[q]).core = c /\ ~Head(desc_fifo[q]).drop}}

AuxStep(ready, busy, ret) ==
  /\ inuse' = [c \in Cores |->
       (inuse[c] \ Returned(c, ret)) \cup Sent(c, ready)
         \cup (IF c \in busy THEN Popped(c, busy) ELSE {})]
  /\ away' = [c \in Cores |->
       (IF ret.kind = "init" /\ ret.core = c /\ c \notin slots_flush THEN {} ELSE away[c])
         \cup (IF c \in slots_flush
              THEN (free[c] \cup Returned(c, ret)) \ Popped(c, busy) ELSE {})]

\* A packet that arrives at a port with room, if any: the core it selects.
Arrivals == {a \in [Ports -> {<<>>} \cup {<<c>> : c \in Cores}] :
               \A p \in Ports : a[p] # <<>> => Len(pkts[p]) < PKT_ROOM}

Clock(arrival, ready, busy, almost_full, ret, cmd) ==
  /\ HostStep(cmd) /\ SelectStep /\ StallStep(busy)
  /\ PortStep(arrival, ready, busy, almost_full)
  /\ KeeperStep(busy, ret) /\ AuxStep(ready, busy, ret)

Init ==
  /\ enabled_cores = {} /\ income_cores = {} /\ slots_flush = {}
  /\ pkts = [p \in Ports |-> <<>>] /\ hash_pipe = [p \in Ports |-> <<>>]
  /\ hash_fifo = [p \in Ports |-> <<>>] /\ desc_fifo = [p \in Ports |-> <<>>]
  /\ selected_port_r = NoPort /\ selected_core = 0 /\ port_mask = {}
  /\ desc_stall = [c \in Cores |-> NoPort]
  /\ free = [c \in Cores |-> {}]
  /\ inuse = [c \in Cores |-> {}] /\ away = [c \in Cores |-> Slots]

\* The host writes an enable register to change it.
Useful(cmd) == CASE cmd.reg = "enable"  -> cmd.data # enabled_cores
                 [] cmd.reg = "receive" -> cmd.data # income_cores
                 [] OTHER -> TRUE

\* It matters whether an output is ready when a packet may leave there.
Next == \E arrival \in Arrivals, ready \in SUBSET {p \in Ports : desc_fifo[p] # <<>>},
           busy \in BusySets, almost_full \in FullSets, ret \in Returns,
           cmd \in {c \in HostCommands : Useful(c)} :
          Clock(arrival, ready, busy, almost_full, ret, cmd)

Spec == Init /\ [][Next]_vars

\* A packet leaves port p in this step.
Leaves(p) == Len(pkts'[p]) - Len(hash_pipe'[p]) < Len(pkts[p])

(* The clock does not stop while a packet waits for a slot, the output of  *)
(* a port is not held up for ever, and the cores announce their slots and  *)
(* give back every slot they get.                                          *)
Fairness ==
  /\ []<>(\A p \in Ports : hash_fifo[p] = <<>>) \/ []<><<TRUE>>_vars
  /\ \A p \in Ports : []<>(desc_fifo[p] = <<>>) \/ []<><<Leaves(p)>>_vars
  /\ \A c \in Cores : []<>(away[c] # Slots)
  /\ \A c \in Cores, x \in Slots : []<>(x \notin inuse[c])

-----------------------------------------------------------------------------
TypeOK ==
  /\ enabled_cores \subseteq Cores /\ income_cores \subseteq enabled_cores
  /\ slots_flush \subseteq Cores
  /\ pkts \in [Ports -> Seq(Cores)] /\ hash_fifo \in [Ports -> Seq(Cores)]
  /\ \A p \in Ports : /\ Len(pkts[p]) <= PKT_ROOM /\ Len(hash_pipe[p]) <= 1
                      /\ Len(hash_fifo[p]) <= HASH_FIFO_DEPTH
                      /\ Len(desc_fifo[p]) <= HASH_FIFO_DEPTH
  /\ selected_port_r \in Ports \cup {NoPort} /\ selected_core \in Cores
  /\ port_mask \subseteq Ports /\ desc_stall \in [Cores -> Ports \cup {NoPort}]
  /\ free \in [Cores -> SUBSET Slots] /\ inuse \in [Cores -> SUBSET Slots]
  /\ away \in [Cores -> SUBSET Slots]

(* A core is kept for a waiting port only while the first packet of that   *)
(* port is for this core; else the core would be lost to all ports.        *)
StallIsHead ==
  \A c \in Cores : desc_stall[c] # NoPort =>
    LET hashes == hash_fifo[desc_stall[c]] IN hashes # <<>> /\ Head(hashes) = c

(* Every packet goes to the core that its own hash selects: the hashes and *)
(* descriptors of a port are those of the packets in its data FIFO, in     *)
(* their order; and a core that is kept is kept for such a packet.         *)
HashesAligned ==
  /\ \A p \in Ports :
       pkts[p] = [i \in DOMAIN desc_fifo[p] |-> desc_fifo[p][i].core]
                   \o hash_fifo[p] \o hash_pipe[p]
  /\ StallIsHead

\* Where slot s of core c is.
Places(c, s) ==
  (UNION {{<<"desc", p, i>> : i \in {j \in DOMAIN desc_fifo[p] :
             ~desc_fifo[p][j].drop /\ desc_fifo[p][j].core = c
             /\ desc_fifo[p][j].slot = s}} : p \in Ports})
  \cup {<<"free">> : x \in free[c] \cap {s}}
  \cup {<<"inuse">> : x \in inuse[c] \cap {s}}
  \cup {<<"away">> : x \in away[c] \cap {s}}

(* Every slot is in exactly one place, although a port is selected, and    *)
(* its descriptor FIFO seen to have room, one cycle before the slot is     *)
(* taken.                                                                  *)
SlotsConserved == TypeOK /\ \A c \in Cores, s \in Slots : Cardinality(Places(c, s)) = 1

(* No port is starved by the others, however the slots come back: while    *)
(* all cores receive, a port with packets gets slots again and again.      *)
PortServed ==
  \A p \in Ports :
    <>[](income_cores = Cores) =>
      []<>(hash_fifo[p] = <<>>) \/ []<>(selected_port_r = p /\ desc_pop({}))
=============================================================================
