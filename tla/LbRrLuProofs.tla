---------------------------- MODULE LbRrLuProofs ----------------------------
(***************************************************************************)
(* Proofs about lb_rr_lu.v, for every number of ports, clusters and slots  *)
(* and clusters of every power of two of cores: a grant finds its port     *)
(* waiting (GrantInv), and the two cycles it takes neither lose nor double *)
(* a slot (SlotInv), whatever the host disables, flushes or releases in    *)
(* between.                                                                *)
(***************************************************************************)
EXTENDS LbRrLu, MaxFinderProofs, FiniteSetTheorems

(* A nonempty set of naturals has a least element.                         *)
LEMMA LeastElement ==
  ASSUME NEW S, S \subseteq Nat, S # {}
  PROVE  Least(S) \in S /\ \A y \in S : Least(S) <= y
<1>1. \E x \in S : \A y \in S : x <= y
  BY NatMin, Zenon
<1>. QED  BY <1>1, Zenon DEF Least

(* An arbiter grants one that asks.                                        *)
LEMMA RoundRobinGrants ==
  ASSUME NEW request, request \subseteq Nat, request # {}, NEW mask
  PROVE  RoundRobin(request, mask) \in request
<1>2. CASE request \cap mask # {}
  BY <1>2, LeastElement, Zenon DEF RoundRobin
<1>3. CASE request \cap mask = {}
  BY <1>3, LeastElement, Zenon DEF RoundRobin
<1>. QED  BY <1>2, <1>3

(* The cores of a cluster are cores, and every core of the cluster is one  *)
(* of its CLUSTER_CORES.                                                   *)
LEMMA ClusterCores ==
  ASSUME NEW k \in Clusters
  PROVE  /\ CLUSTER_CORES \in Nat \ {0} /\ k * CLUSTER_CORES \in Nat
         /\ \A i \in 0 .. CLUSTER_CORES - 1 : k * CLUSTER_CORES + i \in Cores
         /\ \A c \in Cores : c \div CLUSTER_CORES = k
              => c - k * CLUSTER_CORES \in 0 .. CLUSTER_CORES - 1
<1>1. ASSUME NEW n \in Nat, NEW d \in Nat \ {0}
      PROVE  n \div d \in Nat /\ d * (n \div d) <= n /\ n < d * (n \div d) + d
  OBVIOUS
<1>2. CLUSTER_COUNT \in Nat \ {0} /\ CORE_COUNT \in Nat \ {0} /\ CLUSTER_COUNT <= CORE_COUNT
  BY CountsAssumption, ClustersAssumption
<1> DEFINE q == CLUSTER_CORES
<1>3. q \in Nat /\ CLUSTER_COUNT * q <= CORE_COUNT /\ CORE_COUNT < CLUSTER_COUNT * q + CLUSTER_COUNT
  BY <1>1, <1>2 DEF CLUSTER_CORES
<1> HIDE DEF q
<1>4. q # 0
  BY <1>2, <1>3
<1>5. k \in Nat /\ k <= CLUSTER_COUNT - 1
  BY <1>2 DEF Clusters
<1>6. k * q \in Nat /\ k * q + q <= CORE_COUNT
  <2>1. PICK r \in Nat : CLUSTER_COUNT = k + 1 + r
    <3>1. CLUSTER_COUNT - k - 1 \in Nat /\ CLUSTER_COUNT = k + 1 + (CLUSTER_COUNT - k - 1)
      BY <1>2, <1>5
    <3>. QED  BY <3>1
  <2>2. CLUSTER_COUNT * q = k * q + q + r * q /\ r * q \in Nat /\ k * q \in Nat
    BY <1>3, <1>5, <2>1
  <2>. QED  BY <1>2, <1>3, <2>2
<1>7. \A i \in 0 .. q - 1 : k * q + i \in Cores
  BY <1>2, <1>3, <1>6 DEF Cores
<1>8. ASSUME NEW c \in Cores, c \div q = k
      PROVE  c - k * q \in 0 .. q - 1
  <2>1. c \in Nat
    BY <1>2 DEF Cores
  <2>2. q * k <= c /\ c < q * k + q /\ q * k = k * q
    BY <1>1, <1>3, <1>4, <1>5, <1>8, <2>1
  <2>. QED  BY <1>3, <1>6, <2>1, <2>2
<1>. QED  BY <1>3, <1>4, <1>6, <1>7, <1>8 DEF q

LEMMA CountsOfFree ==
  ASSUME free \in [Cores -> SUBSET Slots]
  PROVE  /\ slot_counts \in [Cores -> Nat]
         /\ \A c \in Cores : slot_counts[c] # 0 => free[c] # {}
<1>1. IsFiniteSet(Slots)
  <2>1. 1 \in Int /\ SLOT_COUNT \in Int
    BY CountsAssumption
  <2>2. IsFiniteSet(1 .. SLOT_COUNT)
    BY <2>1, FS_Interval, Zenon
  <2>. QED  BY <2>2, Zenon DEF Slots
<1>2. \A c \in Cores : IsFiniteSet(free[c])
  BY <1>1, FS_Subset, Zenon
<1>3. \A c \in Cores : Cardinality(free[c]) \in Nat
  BY <1>2, FS_CardinalityType, Zenon
<1>4. \A c \in Cores : Cardinality(free[c]) # 0 => free[c] # {}
  BY FS_EmptySet
<1>. QED  BY <1>3, <1>4 DEF slot_counts

(* When some cluster has a slot to give, the core that the tree selects in *)
(* the cluster that the arbiter selects may be used and has one.           *)
LEMMA SelectedHasSlot ==
  ASSUME free \in [Cores -> SUBSET Slots], income_cores \subseteq Cores,
         NEW busy, cluster_max_valid(busy) # {}
  PROVE  selected_core(busy) \in masks(busy) /\ free[selected_core(busy)] # {}
<1> DEFINE k == selected_cluster(busy)
           q == CLUSTER_CORES
           counts == [i \in 0 .. q - 1 |-> slot_counts[k * q + i]]
           valids == {i \in 0 .. q - 1 : k * q + i \in masks(busy)}
           m == max_ptr(counts, valids, q, CLUSTER_CORE_WIDTH)
<1>1. k \in cluster_max_valid(busy)
  <2>1. cluster_max_valid(busy) \subseteq Nat
    BY CountsAssumption DEF cluster_max_valid, Clusters
  <2>. QED  BY <2>1, RoundRobinGrants, Zenon DEF selected_cluster
<1>2. selected_core(busy) = k * q + m
  <2>1. q = PowersOfTwo(CLUSTER_CORE_WIDTH)[CLUSTER_CORE_WIDTH]
    BY ClustersAssumption, Zenon DEF CLUSTER_CORES
  <2>2. selected_core(busy) = k * PowersOfTwo(CLUSTER_CORE_WIDTH)[CLUSTER_CORE_WIDTH] + m
    BY Zenon DEF selected_core, selected_cluster_core
  <2> HIDE DEF k, q, m
  <2>. QED  BY <2>1, <2>2, Zenon
<1> HIDE DEF k
<1>3. PICK c \in masks(busy) : c \div q = k /\ slot_counts[c] # 0
  BY <1>1 DEF cluster_max_valid
<1>4. k \in Clusters /\ masks(busy) \subseteq Cores
  BY <1>1 DEF cluster_max_valid, masks
<1>5. /\ q \in Nat \ {0} /\ k * q \in Nat
      /\ \A i \in 0 .. q - 1 : k * q + i \in Cores
      /\ c - k * q \in 0 .. q - 1
  BY <1>3, <1>4, ClusterCores
<1>6. counts \in [0 .. q - 1 -> Nat] /\ valids \in SUBSET (0 .. q - 1)
  BY <1>5, CountsOfFree
<1>7. max_valid(counts, valids, q)
  <2>1. k * q + (c - k * q) = c
    BY <1>3, <1>4, <1>5 DEF Cores
  <2>2. counts[c - k * q] = slot_counts[c] /\ c - k * q \in valids
    BY <1>3, <1>5, <2>1
  <2> HIDE DEF counts, valids
  <2>. QED  BY <1>3, <1>5, <2>2 DEF max_valid, masked_values
<1>8. q <= PowersOfTwo(CLUSTER_CORE_WIDTH)[CLUSTER_CORE_WIDTH] /\ CLUSTER_CORE_WIDTH \in Nat
  <2>1. q = PowersOfTwo(CLUSTER_CORE_WIDTH)[CLUSTER_CORE_WIDTH] /\ CLUSTER_CORE_WIDTH \in Nat
    BY ClustersAssumption, Zenon DEF CLUSTER_CORES
  <2> HIDE DEF q
  <2>. QED  BY <1>5, <2>1
<1>9. m \in valids /\ counts[m] # 0
  <2> HIDE DEF counts, valids
  <2>. QED  BY <1>5, <1>6, <1>7, <1>8, PointerNamesMaximum, Zenon
<1> HIDE DEF m
<1>10. k * q + m \in masks(busy) /\ slot_counts[k * q + m] # 0
  BY <1>9
<1>. QED  BY <1>2, <1>4, <1>10, CountsOfFree, Zenon

(* What the arbiter and the state machine of a port need of each other: a  *)
(* grant is for a port, and that port is in a state that takes it.         *)
GrantInv ==
  /\ port_state \in [Ports -> {"STALL", "FIRST", "WAIT", "MID"}]
  /\ selected_port \in Ports \cup {NoPort}
  /\ GrantIsExpected

(* A port that asks, and is not being granted in this cycle, is in a state *)
(* that takes a descriptor one cycle later, whatever words it gets and     *)
(* whatever the host releases.                                             *)
LEMMA RequestStaysExpected ==
  ASSUME port_state \in [Ports -> {"STALL", "FIRST", "WAIT", "MID"}],
         NEW word, NEW busy, NEW p \in desc_req(word)
  PROVE  NextState(p, word, busy) \in {"STALL", "WAIT"}
<1>1. p \in Ports /\ selected_port # p
  BY DEF desc_req
<1>2. ~port_desc_avail(p, busy)
  BY <1>1 DEF port_desc_avail
<1>3. CASE port_state[p] = "STALL"
  BY <1>2, <1>3 DEF NextState
<1>4. CASE port_state[p] = "WAIT"
  BY <1>2, <1>4 DEF NextState
<1>5. CASE port_state[p] = "FIRST" /\ port_valid(p, word)
  BY <1>2, <1>5 DEF NextState
<1>. QED  BY <1>3, <1>4, <1>5 DEF desc_req

(* The states of the machine.                                              *)
LEMMA NextStateType ==
  ASSUME port_state \in [Ports -> {"STALL", "FIRST", "WAIT", "MID"}],
         NEW word, NEW busy, NEW p \in Ports
  PROVE  NextState(p, word, busy) \in {"STALL", "FIRST", "WAIT", "MID"}
<1>1. port_state[p] \in {"STALL", "FIRST", "WAIT", "MID"}
  OBVIOUS
<1>. QED  BY <1>1 DEF NextState

LEMMA GrantStep ==
  ASSUME GrantInv, [Next]_vars
  PROVE  GrantInv'
<1>1. CASE UNCHANGED vars
  BY <1>1 DEF GrantInv, GrantIsExpected, vars, portVars, arbVars
<1>2. ASSUME NEW word \in Words, NEW busy \in BusySets, NEW ret \in Returns,
             NEW cmd \in HostCommands, Clock(word, busy, ret, cmd)
      PROVE  GrantInv'
  <2>1. port_state' = [p \in Ports |-> NextState(p, word, busy)]
    BY <1>2 DEF Clock, PortStep
  <2>2. port_state' \in [Ports -> {"STALL", "FIRST", "WAIT", "MID"}]
    BY <2>1, NextStateType DEF GrantInv
  <2>3. desc_req(word) \subseteq Ports /\ desc_req(word) \subseteq Nat
    BY CountsAssumption DEF desc_req, Ports
  <2>4. CASE desc_req(word) = {}
    <3>1. selected_port' = NoPort
      BY <1>2, <2>4 DEF Clock, ArbiterStep
    <3>. QED  BY <2>2, <3>1 DEF GrantInv, GrantIsExpected
  <2>5. CASE desc_req(word) # {}
    <3>1. selected_port' \in desc_req(word)
      BY <1>2, <2>3, <2>5, RoundRobinGrants DEF Clock, ArbiterStep
    <3>2. NextState(selected_port', word, busy) \in {"STALL", "WAIT"}
      BY <3>1, RequestStaysExpected DEF GrantInv
    <3>3. port_state'[selected_port'] \in {"STALL", "WAIT"}
      BY <2>1, <2>3, <3>1, <3>2
    <3>. QED  BY <2>2, <2>3, <3>1, <3>3 DEF GrantInv, GrantIsExpected
  <2>. QED  BY <2>4, <2>5
<1>. QED  BY <1>1, <1>2 DEF Next

(* A registered grant of port_selector always finds its port able to take  *)
(* the descriptor (lb_rr_lu.v: the request is made one cycle before).      *)
THEOREM GrantsAreExpected == Spec => []GrantIsExpected
<1>1. Init => GrantInv
  BY DEF Init, GrantInv, GrantIsExpected
<1>2. GrantInv /\ [Next]_vars => GrantInv'
  BY GrantStep
<1>3. GrantInv => GrantIsExpected
  BY DEF GrantInv
<1>. QED  BY <1>1, <1>2, <1>3, PTL DEF Spec

-----------------------------------------------------------------------------
(* Conservation of the slots.                                              *)

Desc(c, s)     == [core |-> c, slot |-> s]
ReservedBy(d)  == {p \in Reserved : dest_r[p] = d}
CurrentWith(d) == {p \in Current : dest_rr[p] = d}

(* The place of slot s of core c: in the keeper, out with a packet, not    *)
(* with the load balancer, reserved by port p, or the packet of port p's.  *)
InKeeper(c, s) ==
  /\ s \in free[c] /\ s \notin inuse[c] /\ s \notin away[c]
  /\ ReservedBy(Desc(c, s)) = {} /\ CurrentWith(Desc(c, s)) = {}
InUse(c, s) ==
  /\ s \notin free[c] /\ s \in inuse[c] /\ s \notin away[c]
  /\ ReservedBy(Desc(c, s)) = {} /\ CurrentWith(Desc(c, s)) = {}
IsAway(c, s) ==
  /\ s \notin free[c] /\ s \notin inuse[c] /\ s \in away[c]
  /\ ReservedBy(Desc(c, s)) = {} /\ CurrentWith(Desc(c, s)) = {}
IsReserved(c, s, p) ==
  /\ s \notin free[c] /\ s \notin inuse[c] /\ s \notin away[c]
  /\ ReservedBy(Desc(c, s)) = {p} /\ CurrentWith(Desc(c, s)) = {}
IsCurrent(c, s, p) ==
  /\ s \notin free[c] /\ s \notin inuse[c] /\ s \notin away[c]
  /\ ReservedBy(Desc(c, s)) = {} /\ CurrentWith(Desc(c, s)) = {p}

OnePlace(c, s) ==
  \/ InKeeper(c, s) \/ InUse(c, s) \/ IsAway(c, s)
  \/ \E p \in Ports : IsReserved(c, s, p) \/ IsCurrent(c, s, p)

(* The inductive invariant: the grants meet their ports, only enabled      *)
(* cores receive, and every slot has its place.                            *)
SlotInv ==
  /\ TypeOK /\ GrantIsExpected /\ income_cores \subseteq enabled_cores
  /\ \A c \in Cores, s \in Slots : OnePlace(c, s)

LEMMA OnePlaceIsOne ==
  ASSUME NEW c, NEW s, OnePlace(c, s)
  PROVE  Cardinality(Places(c, s)) = 1
<1> DEFINE R == ReservedBy(Desc(c, s))
           C == CurrentWith(Desc(c, s))
<1>1. Places(c, s) = {<<"reserved", p>> : p \in R} \cup {<<"current", p>> : p \in C}
                     \cup {<<"free">> : x \in free[c] \cap {s}}
                     \cup {<<"inuse">> : x \in inuse[c] \cap {s}}
                     \cup {<<"away">> : x \in away[c] \cap {s}}
  BY Zenon DEF Places, ReservedBy, CurrentWith, Desc
<1> HIDE DEF R, C
<1>2. \E x : Places(c, s) = {x}
  <2>1. CASE InKeeper(c, s)
    <3>1. R = {} /\ C = {} /\ free[c] \cap {s} = {s} /\ inuse[c] \cap {s} = {} /\ away[c] \cap {s} = {}
      BY <2>1 DEF InKeeper, R, C
    <3>2. Places(c, s) = {<<"free">>}
      BY <1>1, <3>1, Zenon
    <3>. QED  BY <3>2, Zenon
  <2>2. CASE InUse(c, s)
    <3>1. R = {} /\ C = {} /\ free[c] \cap {s} = {} /\ inuse[c] \cap {s} = {s} /\ away[c] \cap {s} = {}
      BY <2>2 DEF InUse, R, C
    <3>2. Places(c, s) = {<<"inuse">>}
      BY <1>1, <3>1, Zenon
    <3>. QED  BY <3>2, Zenon
  <2>3. CASE IsAway(c, s)
    <3>1. R = {} /\ C = {} /\ free[c] \cap {s} = {} /\ inuse[c] \cap {s} = {} /\ away[c] \cap {s} = {s}
      BY <2>3 DEF IsAway, R, C
    <3>2. Places(c, s) = {<<"away">>}
      BY <1>1, <3>1, Zenon
    <3>. QED  BY <3>2, Zenon
  <2>4. ASSUME NEW p \in Ports, IsReserved(c, s, p)
        PROVE  \E x : Places(c, s) = {x}
    <3>1. R = {p} /\ C = {} /\ free[c] \cap {s} = {} /\ inuse[c] \cap {s} = {} /\ away[c] \cap {s} = {}
      BY <2>4 DEF IsReserved, R, C
    <3>2. Places(c, s) = {<<"reserved", p>>}
      BY <1>1, <3>1, Zenon
    <3>. QED  BY <3>2, Zenon
  <2>5. ASSUME NEW p \in Ports, IsCurrent(c, s, p)
        PROVE  \E x : Places(c, s) = {x}
    <3>1. R = {} /\ C = {p} /\ free[c] \cap {s} = {} /\ inuse[c] \cap {s} = {} /\ away[c] \cap {s} = {}
      BY <2>5 DEF IsCurrent, R, C
    <3>2. Places(c, s) = {<<"current", p>>}
      BY <1>1, <3>1, Zenon
    <3>. QED  BY <3>2, Zenon
  <2>. QED  BY <2>1, <2>2, <2>3, <2>4, <2>5, Zenon DEF OnePlace
<1>. QED  BY <1>2, FS_Singleton, Zenon

(* When a port holds a reservation, or a packet, in the next cycle.        *)
LEMMA NextStateHolds ==
  ASSUME port_state \in [Ports -> {"STALL", "FIRST", "WAIT", "MID"}],
         NEW word, NEW busy, NEW p \in Ports
  PROVE  /\ NextState(p, word, busy) \in {"FIRST", "MID"}
              <=> \/ port_desc_avail(p, busy) /\ port_state[p] \in {"STALL", "WAIT"}
                  \/ /\ port_state[p] \in {"FIRST", "MID"} /\ p \notin release_desc
                     /\ port_state[p] = "FIRST" => ~port_valid(p, word)
         /\ NextState(p, word, busy) \in {"WAIT", "MID"}
              <=> /\ ~sending_last_word(p, word)
                  /\ \/ port_state[p] \in {"WAIT", "MID"}
                     \/ port_state[p] = "FIRST" /\ port_valid(p, word)
<1>1. port_state[p] \in {"STALL", "FIRST", "WAIT", "MID"}
  OBVIOUS
<1>2. sending_last_word(p, word) => port_valid(p, word)
  BY DEF sending_last_word, port_valid
<1>3. CASE port_state[p] = "STALL"
  BY <1>3 DEF NextState
<1>4. CASE port_state[p] = "FIRST"
  BY <1>2, <1>4 DEF NextState
<1>5. CASE port_state[p] = "WAIT"
  BY <1>5 DEF NextState
<1>6. CASE port_state[p] = "MID"
  BY <1>6 DEF NextState
<1>. QED  BY <1>1, <1>3, <1>4, <1>5, <1>6, Zenon

(* What a pop of a descriptor takes, and who gets it.                      *)
LEMMA PopIsSound ==
  ASSUME TypeOK, GrantIsExpected, NEW busy, desc_pop(busy)
  PROVE  /\ selected_port \in Ports /\ port_state[selected_port] \in {"STALL", "WAIT"}
         /\ desc_data(busy) \in Descs
         /\ desc_data(busy).core \in income_cores \ busy
         /\ desc_data(busy).core = selected_core(busy)
         /\ desc_data(busy).slot \in free[desc_data(busy).core]
         /\ desc_data(busy).slot = Least(free[selected_core(busy)])
<1>1. selected_port \in Ports /\ port_state[selected_port] \in {"STALL", "WAIT"}
  BY DEF TypeOK, GrantIsExpected, desc_pop
<1>2. selected_core(busy) \in masks(busy) /\ free[selected_core(busy)] # {}
  BY SelectedHasSlot DEF TypeOK, desc_pop
<1> DEFINE k == selected_core(busy)
<1> HIDE DEF k
<1>3. k \in Cores /\ k \in income_cores \ busy /\ free[k] \subseteq Slots /\ free[k] # {}
  BY <1>2 DEF TypeOK, masks, k
<1>4. Slots \subseteq Nat
  BY CountsAssumption DEF Slots
<1>5. Least(free[k]) \in free[k]
  <2>1. free[k] \subseteq Nat
    BY <1>3, <1>4, Zenon
  <2>. QED  BY <1>3, <2>1, LeastElement, Zenon
<1>6. desc_data(busy) = [core |-> k, slot |-> Least(free[k])]
  BY Zenon DEF desc_data, k
<1>7. Least(free[k]) \in Slots
  BY <1>3, <1>5
<1>8. desc_data(busy) \in Descs /\ desc_data(busy).core = k /\ desc_data(busy).slot = Least(free[k])
  BY <1>3, <1>6, <1>7 DEF Descs
<1>. QED  BY <1>1, <1>3, <1>5, <1>8 DEF k

(* The descriptor d goes to a port; slot s of core c goes out with an      *)
(* inter-core transfer; core c gives all its slots; port q keeps what it   *)
(* reserved, unless the host releases it.                                  *)
Takes(d, busy)    == desc_pop(busy) /\ desc_data(busy) = d
Lends(c, s, busy) == /\ ~(desc_pop(busy) /\ selected_core(busy) = c)
                     /\ s \in Popped(c, busy)
GivesAll(c, ret)  == ret.kind = "init" /\ ret.core = c
Keeps(q, word)    == port_state[q] = "FIRST" => ~port_valid(q, word)

(* Where slot s of core c is after a clock edge, place by place.           *)
LEMMA PlacesStep ==
  ASSUME SlotInv, NEW word, NEW busy, NEW ret \in Returns, NEW cmd,
         Clock(word, busy, ret, cmd), NEW c \in Cores, NEW s \in Slots
  PROVE  /\ Takes(Desc(c, s), busy) \/ Lends(c, s, busy) => s \in free[c]
         /\ Takes(Desc(c, s), busy) => selected_port \in Ports
         /\ s \in Returned(c, ret) => s \in inuse[c]
         /\ GivesAll(c, ret) => s \in away[c]
         /\ ReservedBy(Desc(c, s))' =
              {q \in Ports : \/ Takes(Desc(c, s), busy) /\ q = selected_port
                             \/ q \in ReservedBy(Desc(c, s)) /\ q \notin release_desc /\ Keeps(q, word)}
         /\ CurrentWith(Desc(c, s))' =
              {q \in Ports : /\ ~sending_last_word(q, word)
                             /\ \/ q \in CurrentWith(Desc(c, s))
                                \/ q \in ReservedBy(Desc(c, s)) /\ ~Keeps(q, word)}
         /\ s \in free'[c]
              <=> /\ c \notin slots_flush
                  /\ \/ GivesAll(c, ret)
                     \/ /\ s \in free[c] \/ s \in Returned(c, ret)
                        /\ ~Takes(Desc(c, s), busy) /\ ~Lends(c, s, busy)
         /\ s \in inuse'[c]
              <=> \/ s \in inuse[c] /\ s \notin Returned(c, ret)
                  \/ Lends(c, s, busy)
                  \/ \E q \in Ports : /\ sending_last_word(q, word)
                                      /\ \/ q \in CurrentWith(Desc(c, s))
                                         \/ q \in ReservedBy(Desc(c, s)) /\ ~Keeps(q, word)
         /\ s \in away'[c]
              <=> \/ s \in away[c] /\ ~(GivesAll(c, ret) /\ c \notin slots_flush)
                  \/ /\ c \in slots_flush /\ (s \in free[c] \/ s \in Returned(c, ret))
                     /\ ~Takes(Desc(c, s), busy) /\ ~Lends(c, s, busy)
                  \/ \E q \in ReservedBy(Desc(c, s)) : q \in release_desc /\ Keeps(q, word)
<1> DEFINE d    == Desc(c, s)
           take == Takes(d, busy)
           lend == Lends(c, s, busy)
           back == s \in Returned(c, ret)
           init == GivesAll(c, ret)
<1> USE DEF Takes, Lends, GivesAll, Keeps
<1>1. TypeOK /\ GrantIsExpected
  BY DEF SlotInv
<1>2. d \in Descs /\ d.core = c /\ d.slot = s /\ \A e \in Descs : e = d <=> e.core = c /\ e.slot = s
  BY DEF Descs, Desc
<1> HIDE DEF d
<1>3. desc_pop(busy) =>
        /\ selected_port \in Ports /\ port_state[selected_port] \in {"STALL", "WAIT"}
        /\ desc_data(busy) \in Descs
        /\ desc_data(busy).core \in income_cores \ busy
        /\ desc_data(busy).core = selected_core(busy)
        /\ desc_data(busy).slot \in free[desc_data(busy).core]
  BY <1>1, PopIsSound, Zenon
<1>4. take => s \in free[c] /\ selected_port \in Ports /\ selected_core(busy) = c
              /\ port_state[selected_port] \in {"STALL", "WAIT"}
  BY <1>2, <1>3, Zenon
<1>5. lend => s \in free[c] /\ c \in busy
  <2>1. ASSUME lend
        PROVE  c \in busy /\ free[c] # {} /\ s = Least(free[c])
    BY <2>1, Zenon DEF Popped
  <2>2. ASSUME free[c] # {}
        PROVE  Least(free[c]) \in free[c]
    <3>1. free[c] \subseteq Nat
      BY <1>1, CountsAssumption DEF TypeOK, Slots
    <3>. QED  BY <2>2, <3>1, LeastElement, Zenon
  <2>. QED  BY <2>1, <2>2, Zenon
<1>6. s \in Popped(c, busy) <=> take \/ lend
  <2>1. CASE desc_pop(busy) /\ selected_core(busy) = c
    <3>1. Popped(c, busy) = {desc_data(busy).slot}
      BY <2>1, Zenon DEF Popped
    <3>2. desc_data(busy) \in Descs /\ desc_data(busy).core = c
      BY <1>3, <2>1, Zenon
    <3>. QED  BY <1>2, <2>1, <3>1, <3>2, Zenon
  <2>2. CASE ~(desc_pop(busy) /\ selected_core(busy) = c)
    BY <1>4, <2>2, Zenon
  <2>. QED  BY <2>1, <2>2, Zenon
<1>7. back => s \in inuse[c]
  BY Zenon DEF Returned, Clock, Possible
<1>8. init => s \in away[c]
  BY Zenon DEF Clock, Possible
<1>9. port_state \in [Ports -> {"STALL", "FIRST", "WAIT", "MID"}]
      /\ dest_r \in [Ports -> Descs] /\ dest_rr \in [Ports -> Descs]
  BY <1>1 DEF TypeOK
<1>10. port_state' = [q \in Ports |-> NextState(q, word, busy)]
       /\ dest_r' = (IF desc_pop(busy) THEN [dest_r EXCEPT ![selected_port] = desc_data(busy)] ELSE dest_r)
       /\ dest_rr' = [q \in Ports |-> IF port_state[q] = "FIRST" /\ port_valid(q, word)
                                      THEN dest_r[q] ELSE dest_rr[q]]
  BY Zenon DEF Clock, PortStep
<1>11. ReservedBy(d) = {q \in Ports : port_state[q] \in {"FIRST", "MID"} /\ dest_r[q] = d}
       /\ CurrentWith(d) = {q \in Ports : port_state[q] \in {"WAIT", "MID"} /\ dest_rr[q] = d}
  BY DEF ReservedBy, CurrentWith, Reserved, Current
<1>12. ReservedBy(d)' = {q \in Ports : port_state'[q] \in {"FIRST", "MID"} /\ dest_r'[q] = d}
       /\ CurrentWith(d)' = {q \in Ports : port_state'[q] \in {"WAIT", "MID"} /\ dest_rr'[q] = d}
  BY DEF ReservedBy, CurrentWith, Reserved, Current, d, Desc
<1>13. ReservedBy(d)' = {q \in Ports : \/ take /\ q = selected_port
                                       \/ q \in ReservedBy(d) /\ q \notin release_desc /\ Keeps(q, word)}
  <2> SUFFICES ASSUME NEW q \in Ports
               PROVE  port_state'[q] \in {"FIRST", "MID"} /\ dest_r'[q] = d
                        <=> \/ take /\ q = selected_port
                            \/ q \in ReservedBy(d) /\ q \notin release_desc /\ Keeps(q, word)
    BY <1>12, Zenon
  <2>1. port_state'[q] \in {"FIRST", "MID"}
          <=> \/ port_desc_avail(q, busy) /\ port_state[q] \in {"STALL", "WAIT"}
              \/ port_state[q] \in {"FIRST", "MID"} /\ q \notin release_desc /\ Keeps(q, word)
    BY <1>9, <1>10, NextStateHolds
  <2>2. port_desc_avail(q, busy) <=> desc_pop(busy) /\ q = selected_port
    BY DEF port_desc_avail
  <2>3. dest_r'[q] = IF desc_pop(busy) /\ q = selected_port THEN desc_data(busy) ELSE dest_r[q]
    BY <1>9, <1>10
  <2>4. CASE desc_pop(busy) /\ q = selected_port
    <3>1. port_state[q] \in {"STALL", "WAIT"} /\ q \notin ReservedBy(d)
      BY <1>3, <1>11, <2>4
    <3>. QED  BY <2>1, <2>2, <2>3, <2>4, <3>1, Zenon
  <2>5. CASE ~(desc_pop(busy) /\ q = selected_port)
    BY <1>11, <2>1, <2>2, <2>3, <2>5, Zenon
  <2>. QED  BY <2>4, <2>5, Zenon
<1>14. CurrentWith(d)' = {q \in Ports : /\ ~sending_last_word(q, word)
                                        /\ q \in CurrentWith(d) \/ (q \in ReservedBy(d) /\ ~Keeps(q, word))}
  <2> SUFFICES ASSUME NEW q \in Ports
               PROVE  port_state'[q] \in {"WAIT", "MID"} /\ dest_rr'[q] = d
                        <=> /\ ~sending_last_word(q, word)
                            /\ q \in CurrentWith(d) \/ (q \in ReservedBy(d) /\ ~Keeps(q, word))
    BY <1>12, Zenon
  <2>1. port_state'[q] \in {"WAIT", "MID"}
          <=> /\ ~sending_last_word(q, word)
              /\ port_state[q] \in {"WAIT", "MID"} \/ (port_state[q] = "FIRST" /\ port_valid(q, word))
    BY <1>9, <1>10, NextStateHolds
  <2>2. dest_rr'[q] = IF port_state[q] = "FIRST" /\ port_valid(q, word) THEN dest_r[q] ELSE dest_rr[q]
    BY <1>10
  <2>3. port_state[q] = "FIRST" => port_state[q] \notin {"WAIT", "MID"}
    OBVIOUS
  <2>. QED  BY <1>11, <2>1, <2>2, <2>3, Zenon
<1>15. s \in free'[c] <=> /\ c \notin slots_flush
                          /\ init \/ ((s \in free[c] \/ back) /\ ~take /\ ~lend)
  <2>1. free'[c] = IF c \in slots_flush THEN {}
                   ELSE IF init THEN Slots
                   ELSE (free[c] \cup Returned(c, ret)) \ Popped(c, busy)
    BY Zenon DEF Clock, KeeperStep
  <2> HIDE DEF take, lend, back, init
  <2>2. CASE c \in slots_flush
    BY <2>1, <2>2, Zenon
  <2>3. CASE c \notin slots_flush /\ init
    BY <2>1, <2>3, Zenon
  <2>4. CASE c \notin slots_flush /\ ~init
    BY <1>6, <2>1, <2>4, Zenon DEF back
  <2>. QED  BY <2>2, <2>3, <2>4, Zenon
<1>16. s \in Finished(c, word)
         <=> \E q \in Ports : /\ sending_last_word(q, word)
                              /\ q \in CurrentWith(d) \/ (q \in ReservedBy(d) /\ ~Keeps(q, word))
  <2>1. s \in Finished(c, word)
          <=> \/ \E q \in Ports : /\ port_state[q] \in {"WAIT", "MID"} /\ sending_last_word(q, word)
                                  /\ dest_rr[q].core = c /\ dest_rr[q].slot = s
              \/ \E q \in Ports : /\ port_state[q] = "FIRST" /\ sending_last_word(q, word)
                                  /\ dest_r[q].core = c /\ dest_r[q].slot = s
    BY Zenon DEF Finished, Current
  <2>2. \A q \in Ports : sending_last_word(q, word) => port_valid(q, word)
    BY DEF sending_last_word, port_valid
  <2>3. \A q \in Ports : q \in CurrentWith(d) <=> /\ port_state[q] \in {"WAIT", "MID"}
                                                  /\ dest_rr[q].core = c /\ dest_rr[q].slot = s
    BY <1>2, <1>9, <1>11, Zenon
  <2>4. \A q \in Ports : q \in ReservedBy(d) <=> /\ port_state[q] \in {"FIRST", "MID"}
                                                 /\ dest_r[q].core = c /\ dest_r[q].slot = s
    BY <1>2, <1>9, <1>11, Zenon
  <2>. QED  BY <2>1, <2>2, <2>3, <2>4, Zenon
<1>17. s \in Discarded(c, word) <=> \E q \in ReservedBy(d) : q \in release_desc /\ Keeps(q, word)
  <2>1. s \in Discarded(c, word)
          <=> \E q \in Ports : /\ port_state[q] \in {"FIRST", "MID"} /\ q \in release_desc
                               /\ dest_r[q].core = c /\ Keeps(q, word) /\ dest_r[q].slot = s
    BY Zenon DEF Discarded, Reserved
  <2>2. \A q \in Ports : q \in ReservedBy(d) <=> /\ port_state[q] \in {"FIRST", "MID"}
                                                 /\ dest_r[q].core = c /\ dest_r[q].slot = s
    BY <1>2, <1>9, <1>11, Zenon
  <2>3. ReservedBy(d) \subseteq Ports
    BY <1>11
  <2>. QED  BY <2>1, <2>2, <2>3, Zenon
<1>18. s \in inuse'[c] <=> \/ s \in inuse[c] /\ ~back
                           \/ lend
                           \/ \E q \in Ports : /\ sending_last_word(q, word)
                                               /\ q \in CurrentWith(d) \/ (q \in ReservedBy(d) /\ ~Keeps(q, word))
  <2>1. inuse'[c] = (inuse[c] \ Returned(c, ret)) \cup Finished(c, word)
                     \cup (IF c \in busy /\ ~(desc_pop(busy) /\ selected_core(busy) = c)
                           THEN Popped(c, busy) ELSE {})
    BY Zenon DEF Clock, AuxStep
  <2>2. s \in inuse'[c] <=> \/ s \in inuse[c] /\ ~back
                            \/ s \in Finished(c, word)
                            \/ lend
    <3>1. CASE c \in busy /\ ~(desc_pop(busy) /\ selected_core(busy) = c)
      BY <2>1, <3>1, Zenon
    <3>2. CASE ~(c \in busy /\ ~(desc_pop(busy) /\ selected_core(busy) = c))
      BY <1>5, <2>1, <3>2, Zenon
    <3>. QED  BY <3>1, <3>2, Zenon
  <2>. QED  BY <1>16, <2>2, Zenon
<1>19. s \in away'[c] <=> \/ s \in away[c] /\ ~(init /\ c \notin slots_flush)
                          \/ c \in slots_flush /\ (s \in free[c] \/ back) /\ ~take /\ ~lend
                          \/ \E q \in ReservedBy(d) : q \in release_desc /\ Keeps(q, word)
  <2>1. away'[c] = (IF init /\ c \notin slots_flush THEN {} ELSE away[c])
                    \cup Discarded(c, word)
                    \cup (IF c \in slots_flush
                          THEN (free[c] \cup Returned(c, ret)) \ Popped(c, busy) ELSE {})
    BY Zenon DEF Clock, AuxStep
  <2> HIDE DEF take, lend, back, init
  <2>2. s \in (IF init /\ c \notin slots_flush THEN {} ELSE away[c])
          <=> s \in away[c] /\ ~(init /\ c \notin slots_flush)
    BY Zenon
  <2>3. s \in (IF c \in slots_flush THEN (free[c] \cup Returned(c, ret)) \ Popped(c, busy) ELSE {})
          <=> c \in slots_flush /\ (s \in free[c] \/ back) /\ ~take /\ ~lend
    BY <1>6, Zenon DEF back
  <2>. QED  BY <1>17, <2>1, <2>2, <2>3, Zenon
<1> HIDE DEF Takes, Lends, GivesAll, Keeps
<1>. QED  BY <1>4, <1>5, <1>7, <1>8, <1>13, <1>14, <1>15, <1>18, <1>19, Zenon
          DEF d

(* A clock edge moves a slot from one place to one place.                  *)
LEMMA OnePlaceStep ==
  ASSUME SlotInv, NEW word, NEW busy, NEW ret \in Returns, NEW cmd,
         Clock(word, busy, ret, cmd), NEW c \in Cores, NEW s \in Slots
  PROVE  OnePlace(c, s)'
<1> DEFINE R  == ReservedBy(Desc(c, s))
           C  == CurrentWith(Desc(c, s))
           take == Takes(Desc(c, s), busy)
           lend == Lends(c, s, busy)
           back == s \in Returned(c, ret)
           init == GivesAll(c, ret)
           last(q) == sending_last_word(q, word)
           keep(q) == Keeps(q, word)
           place(f, u, a, r, n) ==
             /\ s \in free'[c] <=> f
             /\ s \in inuse'[c] <=> u
             /\ s \in away'[c] <=> a
             /\ R' = r /\ C' = n
<1>1. /\ take \/ lend => s \in free[c]
      /\ take => selected_port \in Ports
      /\ back => s \in inuse[c]
      /\ init => s \in away[c]
      /\ R' =
           {q \in Ports : \/ take /\ q = selected_port
                          \/ q \in R /\ q \notin release_desc /\ keep(q)}
      /\ C' =
           {q \in Ports : /\ ~last(q)
                          /\ \/ q \in C
                             \/ q \in R /\ ~keep(q)}
      /\ s \in free'[c]
           <=> /\ c \notin slots_flush
               /\ \/ init
                  \/ /\ s \in free[c] \/ back
                     /\ ~take /\ ~lend
      /\ s \in inuse'[c]
           <=> \/ s \in inuse[c] /\ ~back
               \/ lend
               \/ \E q \in Ports : /\ last(q)
                                   /\ \/ q \in C
                                      \/ q \in R /\ ~keep(q)
      /\ s \in away'[c]
           <=> \/ s \in away[c] /\ ~(init /\ c \notin slots_flush)
               \/ /\ c \in slots_flush /\ (s \in free[c] \/ back)
                  /\ ~take /\ ~lend
               \/ \E q \in R : q \in release_desc /\ keep(q)
  BY PlacesStep, Zenon
<1>2. ~(take /\ lend)
  BY PopIsSound DEF Takes, Lends, Desc, SlotInv
<1>3. OnePlace(c, s)
  BY DEF SlotInv
<1>4. \/ place(TRUE, FALSE, FALSE, {}, {})
      \/ place(FALSE, TRUE, FALSE, {}, {})
      \/ place(FALSE, FALSE, TRUE, {}, {})
      \/ \E p \in Ports : place(FALSE, FALSE, FALSE, {p}, {})
      \/ \E p \in Ports : place(FALSE, FALSE, FALSE, {}, {p})
      => OnePlace(c, s)'
  BY Zenon DEF OnePlace, InKeeper, InUse, IsAway, IsReserved, IsCurrent, R, C
<1>5. CASE InKeeper(c, s)
  <2>1. s \in free[c] /\ s \notin inuse[c] /\ s \notin away[c] /\ R = {} /\ C = {}
    BY <1>5 DEF InKeeper
  <2> HIDE DEF R, C, take, lend, back, init, last, keep
  <2>2. CASE take
    BY <1>1, <1>2, <1>4, <2>1, <2>2
  <2>3. CASE lend
    BY <1>1, <1>2, <1>4, <2>1, <2>3
  <2>4. CASE ~take /\ ~lend
    BY <1>1, <1>4, <2>1, <2>4
  <2>. QED  BY <2>2, <2>3, <2>4, Zenon
<1>6. CASE InUse(c, s)
  <2>1. s \notin free[c] /\ s \in inuse[c] /\ s \notin away[c] /\ R = {} /\ C = {}
    BY <1>6 DEF InUse
  <2> HIDE DEF R, C, take, lend, back, init, last, keep
  <2>. QED  BY <1>1, <1>4, <2>1
<1>7. CASE IsAway(c, s)
  <2>1. s \notin free[c] /\ s \notin inuse[c] /\ s \in away[c] /\ R = {} /\ C = {}
    BY <1>7 DEF IsAway
  <2> HIDE DEF R, C, take, lend, back, init, last, keep
  <2>. QED  BY <1>1, <1>4, <2>1
<1>8. ASSUME NEW p \in Ports, IsReserved(c, s, p)
      PROVE  OnePlace(c, s)'
  <2>1. s \notin free[c] /\ s \notin inuse[c] /\ s \notin away[c] /\ R = {p} /\ C = {}
    BY <1>8 DEF IsReserved
  <2> HIDE DEF R, C, take, lend, back, init, last, keep
  <2>2. CASE ~keep(p) /\ last(p)
    BY <1>1, <1>4, <2>1, <2>2
  <2>3. CASE ~keep(p) /\ ~last(p)
    BY <1>1, <1>4, <2>1, <2>3
  <2>4. CASE keep(p) /\ p \in release_desc
    BY <1>1, <1>4, <2>1, <2>4
  <2>5. CASE keep(p) /\ p \notin release_desc
    BY <1>1, <1>4, <2>1, <2>5
  <2>. QED  BY <2>2, <2>3, <2>4, <2>5, Zenon
<1>9. ASSUME NEW p \in Ports, IsCurrent(c, s, p)
      PROVE  OnePlace(c, s)'
  <2>1. s \notin free[c] /\ s \notin inuse[c] /\ s \notin away[c] /\ R = {} /\ C = {p}
    BY <1>9 DEF IsCurrent
  <2> HIDE DEF R, C, take, lend, back, init, last, keep
  <2>2. CASE last(p)
    BY <1>1, <1>4, <2>1, <2>2
  <2>3. CASE ~last(p)
    BY <1>1, <1>4, <2>1, <2>3
  <2>. QED  BY <2>2, <2>3, Zenon
<1>. QED  BY <1>3, <1>5, <1>6, <1>7, <1>8, <1>9, Zenon DEF OnePlace

(* What the host registers hold after a host command.                      *)
LEMMA HostRegisters ==
  ASSUME TypeOK, income_cores \subseteq enabled_cores, NEW cmd \in HostCommands, HostStep(cmd)
  PROVE  /\ enabled_cores' \in SUBSET Cores /\ income_cores' \in SUBSET Cores
         /\ release_desc' \in SUBSET Ports /\ slots_flush' \in SUBSET Cores
         /\ income_cores' \subseteq enabled_cores'
<1>1. /\ cmd.reg \in {"none", "enable", "receive", "flush", "release"}
      /\ cmd.reg \in {"enable", "receive", "flush"} => cmd.data \subseteq Cores
      /\ cmd.reg = "release" => cmd.data \subseteq Ports
  <2>1. cmd \in Commands
    BY PinsAssumption, Zenon
  <2>. QED  BY <2>1 DEF Commands
<1>2. /\ enabled_cores \subseteq Cores /\ income_cores \subseteq Cores
      /\ release_desc \subseteq Ports /\ slots_flush \subseteq Cores
  BY DEF TypeOK
<1>3. CASE cmd.reg = "none"
  <2>1. enabled_cores' = enabled_cores /\ income_cores' = income_cores
        /\ slots_flush' = {} /\ release_desc' = {}
    BY <1>3, Zenon DEF HostStep
  <2>. QED  BY <1>2, <2>1
<1>4. CASE cmd.reg = "enable"
  <2>1. enabled_cores' = cmd.data /\ income_cores' = income_cores \cap cmd.data
        /\ slots_flush' = slots_flush /\ release_desc' = release_desc
    BY <1>4, Zenon DEF HostStep
  <2>. QED  BY <1>1, <1>2, <1>4, <2>1
<1>5. CASE cmd.reg = "receive"
  <2>1. enabled_cores' = enabled_cores /\ income_cores' = cmd.data \cap enabled_cores
        /\ slots_flush' = slots_flush /\ release_desc' = release_desc
    BY <1>5, Zenon DEF HostStep
  <2>. QED  BY <1>1, <1>2, <1>5, <2>1
<1>6. CASE cmd.reg = "flush"
  <2>1. enabled_cores' = enabled_cores /\ income_cores' = income_cores
        /\ slots_flush' = cmd.data /\ release_desc' = release_desc
    BY <1>6, Zenon DEF HostStep
  <2>. QED  BY <1>1, <1>2, <1>6, <2>1
<1>7. CASE cmd.reg = "release"
  <2>1. enabled_cores' = enabled_cores /\ income_cores' = income_cores
        /\ slots_flush' = slots_flush /\ release_desc' = cmd.data
    BY <1>7, Zenon DEF HostStep
  <2>. QED  BY <1>1, <1>2, <1>7, <2>1
<1>. QED  BY <1>1, <1>3, <1>4, <1>5, <1>6, <1>7, Zenon

LEMMA TypeStep ==
  ASSUME SlotInv, NEW word \in Words, NEW busy \in BusySets, NEW ret \in Returns,
         NEW cmd \in HostCommands, Clock(word, busy, ret, cmd)
  PROVE  TypeOK' /\ GrantIsExpected' /\ (income_cores \subseteq enabled_cores)'
<1>1. TypeOK /\ GrantIsExpected /\ income_cores \subseteq enabled_cores
  BY DEF SlotInv
<1>2. GrantInv'
  <2>1. GrantInv
    BY <1>1 DEF GrantInv, TypeOK
  <2>2. Next
    BY DEF Next
  <2>. QED  BY <2>1, <2>2, GrantStep
<1>3. /\ enabled_cores' \in SUBSET Cores /\ income_cores' \in SUBSET Cores
      /\ release_desc' \in SUBSET Ports /\ slots_flush' \in SUBSET Cores
      /\ income_cores' \subseteq enabled_cores'
  BY <1>1, HostRegisters DEF Clock
<1>4. desc_pop(busy) => desc_data(busy) \in Descs /\ desc_data(busy).core = selected_core(busy)
  BY <1>1, PopIsSound, Zenon
<1>5. dest_r' \in [Ports -> Descs] /\ dest_rr' \in [Ports -> Descs]
  <2>1. dest_r \in [Ports -> Descs] /\ dest_rr \in [Ports -> Descs]
    BY <1>1 DEF TypeOK
  <2>2. dest_r' = (IF desc_pop(busy) THEN [dest_r EXCEPT ![selected_port] = desc_data(busy)] ELSE dest_r)
        /\ dest_rr' = [q \in Ports |-> IF port_state[q] = "FIRST" /\ port_valid(q, word)
                                       THEN dest_r[q] ELSE dest_rr[q]]
    BY Zenon DEF Clock, PortStep
  <2>. QED  BY <1>4, <2>1, <2>2, Zenon
<1>6. port_mask' \in SUBSET Ports /\ cluster_mask' \in SUBSET Clusters
  <2>1. port_mask \in SUBSET Ports /\ cluster_mask \in SUBSET Clusters
    BY <1>1 DEF TypeOK
  <2>2. ArbiterStep(word, busy)
    BY DEF Clock
  <2>. QED  BY <2>1, <2>2 DEF ArbiterStep, Above
<1>7. \A c \in Cores : Returned(c, ret) \subseteq Slots
  BY DEF Returned, Returns, Descs
<1>8. \A c \in Cores : Popped(c, busy) \subseteq Slots
  <2> SUFFICES ASSUME NEW c \in Cores
               PROVE  Popped(c, busy) \subseteq Slots
    OBVIOUS
  <2>1. CASE desc_pop(busy) /\ selected_core(busy) = c
    <3>1. Popped(c, busy) = {desc_data(busy).slot}
      BY <2>1, Zenon DEF Popped
    <3>. QED  BY <1>4, <2>1, <3>1 DEF Descs
  <2>2. CASE ~(desc_pop(busy) /\ selected_core(busy) = c) /\ free[c] # {}
    <3>1. Popped(c, busy) \subseteq {Least(free[c])}
      BY <2>2, Zenon DEF Popped
    <3>2. free[c] \subseteq Slots /\ free[c] \subseteq Nat
      BY <1>1, CountsAssumption DEF TypeOK, Slots
    <3>3. Least(free[c]) \in free[c]
      BY <2>2, <3>2, LeastElement, Zenon
    <3>. QED  BY <3>1, <3>2, <3>3
  <2>3. CASE ~(desc_pop(busy) /\ selected_core(busy) = c) /\ free[c] = {}
    BY <2>3, Zenon DEF Popped
  <2>. QED  BY <2>1, <2>2, <2>3, Zenon
<1>9. dest_r \in [Ports -> [core : Cores, slot : Slots]] /\ dest_rr \in [Ports -> [core : Cores, slot : Slots]]
  BY <1>1 DEF TypeOK, Descs
<1>10. \A c \in Cores : Finished(c, word) \subseteq Slots /\ Discarded(c, word) \subseteq Slots
  BY <1>9 DEF Finished, Discarded, Reserved, Current
<1>11. free' \in [Cores -> SUBSET Slots]
  <2>1. free \in [Cores -> SUBSET Slots]
    BY <1>1 DEF TypeOK
  <2>. QED  BY <1>7, <2>1 DEF Clock, KeeperStep
<1>12. inuse' \in [Cores -> SUBSET Slots]
  <2>1. inuse \in [Cores -> SUBSET Slots]
    BY <1>1 DEF TypeOK
  <2>. QED  BY <1>8, <1>10, <2>1 DEF Clock, AuxStep
<1>13. away' \in [Cores -> SUBSET Slots]
  <2>1. away \in [Cores -> SUBSET Slots] /\ free \in [Cores -> SUBSET Slots]
    BY <1>1 DEF TypeOK
  <2>. QED  BY <1>7, <1>10, <2>1 DEF Clock, AuxStep
<1>. QED  BY <1>2, <1>3, <1>5, <1>6, <1>11, <1>12, <1>13 DEF TypeOK, GrantInv

LEMMA SlotInit ==
  ASSUME Init
  PROVE  SlotInv
<1>1. Descs = [core : Cores, slot : Slots] /\ 0 \in Cores /\ 1 \in Slots
  BY CountsAssumption DEF Descs, Cores, Slots
<1>2. TypeOK /\ GrantIsExpected /\ income_cores \subseteq enabled_cores
  BY <1>1 DEF Init, TypeOK, GrantIsExpected
<1>3. ASSUME NEW c \in Cores, NEW s \in Slots
      PROVE  IsAway(c, s)
  <2>1. Reserved = {} /\ Current = {}
    BY DEF Init, Reserved, Current
  <2>. QED  BY <2>1 DEF Init, IsAway, ReservedBy, CurrentWith
<1>. QED  BY <1>2, <1>3, Zenon DEF SlotInv, OnePlace

LEMMA SlotStep ==
  ASSUME SlotInv, [Next]_vars
  PROVE  SlotInv'
<1>1. CASE UNCHANGED vars
  <2>1. /\ enabled_cores' = enabled_cores /\ income_cores' = income_cores
        /\ release_desc' = release_desc /\ slots_flush' = slots_flush
        /\ port_state' = port_state /\ dest_r' = dest_r /\ dest_rr' = dest_rr
        /\ selected_port' = selected_port /\ port_mask' = port_mask /\ cluster_mask' = cluster_mask
        /\ free' = free /\ inuse' = inuse /\ away' = away
    BY <1>1 DEF vars, hostVars, portVars, arbVars, slotVars
  <2>2. TypeOK' /\ GrantIsExpected' /\ (income_cores \subseteq enabled_cores)'
    BY <2>1 DEF SlotInv, TypeOK, GrantIsExpected
  <2>3. \A d : ReservedBy(d)' = ReservedBy(d) /\ CurrentWith(d)' = CurrentWith(d)
    BY <2>1, Zenon DEF ReservedBy, CurrentWith, Reserved, Current
  <2>4. ASSUME NEW c \in Cores, NEW s \in Slots
        PROVE  OnePlace(c, s)'
    <3>1. OnePlace(c, s)
      BY DEF SlotInv
    <3>2. /\ ReservedBy(Desc(c, s))' = ReservedBy(Desc(c, s))
          /\ CurrentWith(Desc(c, s))' = CurrentWith(Desc(c, s))
      BY <2>3 DEF Desc
    <3>. QED  BY <2>1, <3>1, <3>2, Zenon DEF OnePlace, InKeeper, InUse, IsAway, IsReserved, IsCurrent
  <2>. QED  BY <2>2, <2>4, Zenon DEF SlotInv
<1>2. ASSUME NEW word \in Words, NEW busy \in BusySets, NEW ret \in Returns,
             NEW cmd \in HostCommands, Clock(word, busy, ret, cmd)
      PROVE  SlotInv'
  <2>1. TypeOK' /\ GrantIsExpected' /\ (income_cores \subseteq enabled_cores)'
    BY <1>2, TypeStep, Zenon
  <2>2. \A c \in Cores, s \in Slots : OnePlace(c, s)'
    BY <1>2, OnePlaceStep, Zenon
  <2>. QED  BY <2>1, <2>2, Zenon DEF SlotInv
<1>. QED  BY <1>1, <1>2, Zenon DEF Next

(* The inductive invariant holds throughout.                               *)
LEMMA SlotInvHolds == Spec => []SlotInv
<1>1. Init => SlotInv
  BY SlotInit
<1>2. SlotInv /\ [Next]_vars => SlotInv'
  BY SlotStep
<1>. QED  BY <1>1, <1>2, PTL DEF Spec

(* Every slot of every core is in exactly one place (the slot keepers of   *)
(* lb_controller.v, the reservations and packets of lb_rr_lu.v), for every *)
(* number of ports, cores, clusters and slots, whatever the host commands  *)
(* and whichever cores have an inter-core transfer.                        *)
THEOREM SlotsAreConserved == Spec => []SlotsConserved
<1>1. SlotInv => SlotsConserved
  BY OnePlaceIsOne, Zenon DEF SlotInv, SlotsConserved
<1>. QED  BY <1>1, SlotInvHolds, PTL

(* A port reserves a slot of an enabled core only: the core that the tree  *)
(* selects receives, and a core that receives is enabled (the host writes  *)
(* of lb_rr_lu.v keep income_cores within enabled_cores).                  *)
THEOREM GrantsFromEnabled == Spec => NoGrantFromDisabled
<1>1. ASSUME SlotInv, [Next]_vars
      PROVE  [\A p \in Ports : dest_r'[p] # dest_r[p] => dest_r'[p].core \in enabled_cores]_vars
  <2>1. ASSUME NEW word \in Words, NEW busy \in BusySets, NEW ret \in Returns,
               NEW cmd \in HostCommands, Clock(word, busy, ret, cmd),
               NEW p \in Ports, dest_r'[p] # dest_r[p]
        PROVE  dest_r'[p].core \in enabled_cores
    <3>1. TypeOK /\ GrantIsExpected /\ income_cores \subseteq enabled_cores
      BY <1>1 DEF SlotInv
    <3>2. dest_r' = IF desc_pop(busy) THEN [dest_r EXCEPT ![selected_port] = desc_data(busy)] ELSE dest_r
      BY <2>1, Zenon DEF Clock, PortStep
    <3>3. desc_pop(busy) /\ dest_r'[p] = desc_data(busy)
      BY <2>1, <3>1, <3>2 DEF TypeOK
    <3>4. desc_data(busy).core \in income_cores \ busy
      BY <3>1, <3>3, PopIsSound, Zenon
    <3>. QED  BY <3>1, <3>3, <3>4
  <2>. QED  BY <1>1, <2>1, Zenon DEF Next
<1>. QED  BY <1>1, SlotInvHolds, PTL DEF Spec, NoGrantFromDisabled
=============================================================================
