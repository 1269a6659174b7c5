---------------------------- MODULE HashLbProofs ----------------------------
(***************************************************************************)
(* Proofs about the hash load balancers, for every number of ports, cores  *)
(* and slots and every FIFO depth: which depths keep packets and hashes    *)
(* together (AlignInv), and that no slot is lost or doubled next to        *)
(* inter-core transfers and flushes (SlotInv).                             *)
(***************************************************************************)
EXTENDS HashLb, SequenceTheorems, FiniteSetTheorems, WellFoundedInduction, TLAPS

(* The hash FIFO has an entry for every packet that the data FIFO and the  *)
(* pipeline behind it can hold.                                            *)
RoomForHashes == PKT_ROOM \in Nat /\ HASH_FIFO_DEPTH \in Nat /\ PKT_ROOM <= HASH_FIFO_DEPTH

Counts == {IF_COUNT, CORE_COUNT, SLOT_COUNT} \subseteq Nat \ {0}

HashDescs == [core : Cores, slot : Nat, drop : BOOLEAN]

CoresOf(descs) == [i \in DOMAIN descs |-> descs[i].core]

-----------------------------------------------------------------------------
(* Least and greatest elements of sets of ports and slots.                 *)
LEMMA LeastElement ==
  ASSUME NEW S, S \subseteq Nat, S # {}
  PROVE  Least(S) \in S
<1>1. PICK x \in S : \A y \in S : ~(<<y, x>> \in OpToRel(<, Nat))
  BY NatLessThanWellFounded, WFMin, Zenon
<1>2. \A y \in S : y < x => <<y, x>> \in OpToRel(<, Nat)
  BY DEF OpToRel
<1>3. \A y \in S : ~(y < x)
  BY <1>1, <1>2, Zenon
<1>4. \A y \in S : x <= y
  BY <1>3
<1>. QED  BY <1>4, Zenon DEF Least

LEMMA GreatestElement ==
  ASSUME Counts, NEW S, S \subseteq Ports, S # {}
  PROVE  Greatest(S) \in S
<1>1. S \subseteq Nat /\ IF_COUNT \in Nat /\ \A x \in S : x <= IF_COUNT
  BY DEF Counts, Ports
<1> DEFINE T == {IF_COUNT - x : x \in S}
<1>2. T \subseteq Nat /\ T # {}
  <2>1. \A x \in S : IF_COUNT - x \in Nat
    BY <1>1
  <2>. QED  BY <2>1
<1>3. PICK t \in T : \A y \in T : ~(<<y, t>> \in OpToRel(<, Nat))
  BY <1>2, NatLessThanWellFounded, WFMin, Zenon
<1>4. \A y \in T : y < t => <<y, t>> \in OpToRel(<, Nat)
  BY <1>2 DEF OpToRel
<1>5. \A y \in T : ~(y < t)
  BY <1>3, <1>4, Zenon
<1>6. PICK x \in S : t = IF_COUNT - x
  OBVIOUS
<1>7. \A y \in S : ~(IF_COUNT - y < IF_COUNT - x)
  BY <1>5, <1>6
<1>8. \A y \in S : x >= y
  BY <1>1, <1>7
<1>. QED  BY <1>8 DEF Greatest

LEMMA SameLength ==
  ASSUME NEW m \in Nat, NEW n \in Nat, 1 .. m = 1 .. n
  PROVE  m = n
<1>1. CASE m < n
  <2>1. n \in 1 .. n /\ ~(n \in 1 .. m)
    BY <1>1
  <2>. QED  BY <2>1
<1>2. CASE n < m
  <2>1. m \in 1 .. m /\ ~(m \in 1 .. n)
    BY <1>2
  <2>. QED  BY <2>1
<1>. QED  BY <1>1, <1>2

(* The cores of a queue of descriptors.                                    *)
LEMMA CoresOfType ==
  ASSUME NEW descs \in Seq(HashDescs)
  PROVE  /\ CoresOf(descs) \in Seq(Cores) /\ Len(CoresOf(descs)) = Len(descs)
         /\ \A i \in 1 .. Len(descs) : CoresOf(descs)[i] = descs[i].core
<1>1. /\ Len(descs) \in Nat /\ DOMAIN descs = 1 .. Len(descs)
      /\ descs \in [1 .. Len(descs) -> HashDescs]
  BY LenProperties
<1>2. /\ CoresOf(descs) \in [1 .. Len(descs) -> Cores]
      /\ \A i \in 1 .. Len(descs) : CoresOf(descs)[i] = descs[i].core
  BY <1>1 DEF CoresOf, HashDescs
<1>3. CoresOf(descs) \in Seq(Cores)
  BY <1>1, <1>2, SeqDef
<1>4. Len(CoresOf(descs)) \in Nat /\ DOMAIN CoresOf(descs) = 1 .. Len(CoresOf(descs))
  BY <1>3, LenProperties
<1>5. 1 .. Len(CoresOf(descs)) = 1 .. Len(descs)
  BY <1>2, <1>4
<1>6. Len(CoresOf(descs)) = Len(descs)
  BY <1>1, <1>4, <1>5, SameLength, Zenon
<1>. QED  BY <1>2, <1>3, <1>6

LEMMA CoresOfTail ==
  ASSUME NEW descs \in Seq(HashDescs), descs # <<>>
  PROVE  CoresOf(Tail(descs)) = Tail(CoresOf(descs)) /\ CoresOf(descs) # <<>>
<1>1. Tail(descs) \in Seq(HashDescs) /\ Len(Tail(descs)) = Len(descs) - 1
      /\ \A i \in 1 .. Len(Tail(descs)) : Tail(descs)[i] = descs[i + 1]
  BY HeadTailProperties
<1>2. Len(descs) \in Nat \ {0}
  BY EmptySeq
<1>3. CoresOf(descs) \in Seq(Cores) /\ Len(CoresOf(descs)) = Len(descs)
      /\ \A i \in 1 .. Len(descs) : CoresOf(descs)[i] = descs[i].core
  BY CoresOfType
<1>4. CoresOf(descs) # <<>>
  BY <1>2, <1>3, EmptySeq
<1>5. /\ Tail(CoresOf(descs)) \in Seq(Cores) /\ Len(Tail(CoresOf(descs))) = Len(descs) - 1
      /\ \A i \in 1 .. Len(descs) - 1 : Tail(CoresOf(descs))[i] = CoresOf(descs)[i + 1]
  BY <1>3, <1>4, HeadTailProperties
<1>6. /\ CoresOf(Tail(descs)) \in Seq(Cores) /\ Len(CoresOf(Tail(descs))) = Len(descs) - 1
      /\ \A i \in 1 .. Len(descs) - 1 : CoresOf(Tail(descs))[i] = Tail(descs)[i].core
  BY <1>1, CoresOfType, Zenon
<1>7. \A i \in 1 .. Len(descs) - 1 : CoresOf(Tail(descs))[i] = Tail(CoresOf(descs))[i]
  BY <1>1, <1>2, <1>3, <1>5, <1>6
<1>. QED  BY <1>4, <1>5, <1>6, <1>7, SeqEqual, Zenon

LEMMA CoresOfConcat ==
  ASSUME NEW descs \in Seq(HashDescs), NEW d \in HashDescs
  PROVE  CoresOf(descs \o <<d>>) = CoresOf(descs) \o <<d.core>>
<1>1. <<d>> \in Seq(HashDescs) /\ Len(<<d>>) = 1 /\ <<d>>[1] = d
  OBVIOUS
<1>2. d.core \in Cores
  BY DEF HashDescs
<1>3. <<d.core>> \in Seq(Cores) /\ Len(<<d.core>>) = 1 /\ <<d.core>>[1] = d.core
  BY <1>2
<1>4. /\ Len(descs) \in Nat /\ CoresOf(descs) \in Seq(Cores)
      /\ Len(CoresOf(descs)) = Len(descs)
      /\ \A i \in 1 .. Len(descs) : CoresOf(descs)[i] = descs[i].core
  BY CoresOfType, LenProperties
<1>5. /\ descs \o <<d>> \in Seq(HashDescs) /\ Len(descs \o <<d>>) = Len(descs) + 1
      /\ \A i \in 1 .. Len(descs) + 1 :
           (descs \o <<d>>)[i] = IF i <= Len(descs) THEN descs[i] ELSE <<d>>[i - Len(descs)]
  BY <1>1, ConcatProperties
<1>6. /\ CoresOf(descs) \o <<d.core>> \in Seq(Cores)
      /\ Len(CoresOf(descs) \o <<d.core>>) = Len(descs) + 1
      /\ \A i \in 1 .. Len(descs) + 1 :
           (CoresOf(descs) \o <<d.core>>)[i] =
              IF i <= Len(descs) THEN CoresOf(descs)[i] ELSE <<d.core>>[i - Len(descs)]
  BY <1>3, <1>4, ConcatProperties
<1>7. /\ CoresOf(descs \o <<d>>) \in Seq(Cores)
      /\ Len(CoresOf(descs \o <<d>>)) = Len(descs) + 1
      /\ \A i \in 1 .. Len(descs) + 1 : CoresOf(descs \o <<d>>)[i] = (descs \o <<d>>)[i].core
  BY <1>5, CoresOfType, Zenon
<1>8. ASSUME NEW i \in 1 .. Len(descs) + 1
      PROVE  CoresOf(descs \o <<d>>)[i] = (CoresOf(descs) \o <<d.core>>)[i]
  <2>1. CASE i <= Len(descs)
    <3>1. i \in 1 .. Len(descs)
      BY <1>4, <2>1
    <3>2. (descs \o <<d>>)[i] = descs[i]
      BY <1>5, <2>1
    <3>3. (CoresOf(descs) \o <<d.core>>)[i] = CoresOf(descs)[i]
      BY <1>6, <2>1
    <3>4. CoresOf(descs \o <<d>>)[i] = (descs \o <<d>>)[i].core
      BY <1>7
    <3>5. CoresOf(descs)[i] = descs[i].core
      BY <1>4, <3>1
    <3>. QED  BY <3>2, <3>3, <3>4, <3>5, Zenon
  <2>2. CASE i = Len(descs) + 1
    <3>1. i - Len(descs) = 1 /\ ~(i <= Len(descs))
      BY <1>4, <2>2
    <3>. QED  BY <1>1, <1>3, <1>5, <1>6, <1>7, <3>1, Zenon
  <2>. QED  BY <1>4, <2>1, <2>2
<1>. QED  BY <1>6, <1>7, <1>8, SeqEqual, Zenon

(* Taking the first element of three queues in a row.                      *)
LEMMA TailOfThree ==
  ASSUME NEW S, NEW a \in Seq(S), NEW b \in Seq(S), NEW c \in Seq(S), a # <<>>
  PROVE  (a \o b) \o c # <<>> /\ Tail((a \o b) \o c) = (Tail(a) \o b) \o c
<1>1. ASSUME NEW s \in Seq(S), NEW t \in Seq(S), s # <<>>
      PROVE  s \o t \in Seq(S) /\ s \o t # <<>> /\ Tail(s \o t) = Tail(s) \o t
  BY <1>1
<1>. QED  BY <1>1

-----------------------------------------------------------------------------
(* The invariant.  A selection is one cycle old when it is used, so it has *)
(* to speak of the first hash of the port still; and the lengths must fit. *)
SelectedIsHead ==
  selected_port_r # NoPort =>
    /\ hash_fifo[selected_port_r] # <<>>
    /\ Head(hash_fifo[selected_port_r]) = selected_core

AlignType ==
  /\ pkts \in [Ports -> Seq(Cores)] /\ hash_pipe \in [Ports -> Seq(Cores)]
  /\ hash_fifo \in [Ports -> Seq(Cores)] /\ desc_fifo \in [Ports -> Seq(HashDescs)]
  /\ free \in [Cores -> SUBSET Slots]
  /\ selected_port_r \in Ports \cup {NoPort} /\ selected_core \in Cores
  /\ desc_stall \in [Cores -> Ports \cup {NoPort}]
  /\ \A p \in Ports : Len(pkts[p]) <= PKT_ROOM

AlignInv ==
  /\ AlignType /\ SelectedIsHead /\ HashesAligned
  /\ POLICY = "dropping" => \A c \in Cores : desc_stall[c] = NoPort

LEMMA SumFits ==
  ASSUME NEW a \in Nat, NEW b \in Nat, NEW c \in Nat, NEW m \in Nat, NEW n \in Nat,
         a + b + c <= m, m <= n
  PROVE  (c > 0 => b < n) /\ (b > 0 => a < n)
OBVIOUS

(* The queues of a port have room for what is put into them.               *)
LEMMA HashesFit ==
  ASSUME Counts, RoomForHashes, AlignInv, NEW p \in Ports
  PROVE  /\ Accepted(hash_fifo[p], hash_pipe[p]) = hash_pipe[p]
         /\ hash_fifo[p] # <<>> => Len(desc_fifo[p]) < HASH_FIFO_DEPTH
<1> DEFINE C == CoresOf(desc_fifo[p])
           H == hash_fifo[p]
           P == hash_pipe[p]
<1>1. /\ desc_fifo[p] \in Seq(HashDescs) /\ H \in Seq(Cores) /\ P \in Seq(Cores)
      /\ Len(pkts[p]) <= PKT_ROOM /\ pkts[p] = (C \o H) \o P
  BY Zenon DEF AlignInv, AlignType, HashesAligned, CoresOf
<1>2. C \in Seq(Cores) /\ Len(C) = Len(desc_fifo[p])
  BY <1>1, CoresOfType
<1>3. C \o H \in Seq(Cores) /\ Len(C \o H) = Len(C) + Len(H)
  BY <1>1, <1>2, ConcatProperties, Zenon
<1>4. Len((C \o H) \o P) = Len(C) + Len(H) + Len(P)
  BY <1>1, <1>3, ConcatProperties
<1>5. Len(C) \in Nat /\ Len(H) \in Nat /\ Len(P) \in Nat
  BY <1>1, <1>2, LenProperties
<1>6. Len(C) + Len(H) + Len(P) <= PKT_ROOM
  BY <1>1, <1>4, Zenon
<1>7. P # <<>> => Len(P) > 0
  BY <1>1, EmptySeq
<1>8. H # <<>> => Len(H) > 0
  BY <1>1, EmptySeq
<1>9. P # <<>> => Len(H) < HASH_FIFO_DEPTH
  BY <1>5, <1>6, <1>7, SumFits, Zenon DEF RoomForHashes
<1>10. H # <<>> => Len(C) < HASH_FIFO_DEPTH
  BY <1>5, <1>6, <1>8, SumFits, Zenon DEF RoomForHashes
<1>. QED  BY <1>2, <1>9, <1>10 DEF Accepted

(* What is pushed for the selected port: a descriptor of its first hash.   *)
LEMMA PushedType ==
  ASSUME Counts, AlignInv
  PROVE  hash_n_dest_in \in HashDescs
<1>1. selected_core \in Cores /\ free[selected_core] \subseteq Slots
  BY DEF AlignInv, AlignType
<1>2. Slots \subseteq Nat
  BY DEF Slots, Counts
<1>3. next_slot(selected_core) \in Nat
  <2>1. CASE free[selected_core] = {}
    BY <2>1 DEF next_slot
  <2>2. CASE free[selected_core] # {}
    BY <1>1, <1>2, <2>2, LeastElement, Zenon DEF next_slot
  <2>. QED  BY <2>1, <2>2
<1>. QED  BY <1>1, <1>3 DEF hash_n_dest_in, HashDescs

(* One clock edge at one port: the packets of the port stay aligned with   *)
(* its descriptors and hashes, which keep their types.                     *)
LEMMA PortAligned ==
  ASSUME Counts, RoomForHashes, AlignInv, NEW arrival \in Arrivals, NEW ready, NEW busy,
         NEW almost_full, PortStep(arrival, ready, busy, almost_full), NEW p \in Ports
  PROVE  /\ pkts'[p] \in Seq(Cores) /\ hash_pipe'[p] \in Seq(Cores)
         /\ hash_fifo'[p] \in Seq(Cores) /\ desc_fifo'[p] \in Seq(HashDescs)
         /\ Len(pkts'[p]) <= PKT_ROOM
         /\ pkts'[p] = (CoresOf(desc_fifo'[p]) \o hash_fifo'[p]) \o hash_pipe'[p]
         /\ ~Taken(p, busy, almost_full) => hash_fifo'[p] = hash_fifo[p] \o hash_pipe[p]
<1> DEFINE K == pkts[p]
           D == desc_fifo[p]
           C == CoresOf(D)
           H == hash_fifo[p]
           P == hash_pipe[p]
           A == arrival[p]
           RK == Rest(K, CanSend(p, ready))
           RD == Rest(D, CanSend(p, ready))
           RH == Rest(H, Taken(p, busy, almost_full))
           X == Pushed(p, busy, almost_full)
<1>1. /\ K \in Seq(Cores) /\ D \in Seq(HashDescs) /\ H \in Seq(Cores) /\ P \in Seq(Cores)
      /\ Len(K) <= PKT_ROOM /\ K = (C \o H) \o P
  BY Zenon DEF AlignInv, AlignType, HashesAligned, CoresOf
<1>2. C \in Seq(Cores)
  BY <1>1, CoresOfType
<1>3. A \in Seq(Cores) /\ (A # <<>> => Len(A) = 1 /\ Len(K) < PKT_ROOM)
  <2>1. A = <<>> \/ \E c \in Cores : A = <<c>>
    BY DEF Arrivals
  <2>2. A # <<>> => Len(K) < PKT_ROOM
    BY DEF Arrivals
  <2>3. \A c \in Cores : <<c>> \in Seq(Cores) /\ Len(<<c>>) = 1
    OBVIOUS
  <2>4. <<>> \in Seq(Cores)
    OBVIOUS
  <2>. QED  BY <2>1, <2>2, <2>3, <2>4, Zenon
<1>4. Taken(p, busy, almost_full) => H # <<>> /\ Head(H) = selected_core
  <2>1. p # NoPort
    BY DEF Ports, NoPort, Counts
  <2>. QED  BY <2>1 DEF Taken, AlignInv, SelectedIsHead
<1>5. /\ pkts'[p] = RK \o A /\ hash_pipe'[p] = A
      /\ hash_fifo'[p] = RH \o P /\ desc_fifo'[p] = RD \o X
  <2>1. Accepted(H, P) = P
    BY HashesFit
  <2>2. Accepted(D, X) = X
    BY <1>4, HashesFit DEF Accepted, Pushed
  <2>3. arrival \in [Ports -> {<<>>} \cup {<<c>> : c \in Cores}]
    BY DEF Arrivals
  <2>. QED  BY <2>1, <2>2, <2>3, Zenon DEF PortStep
<1>6. RD \in Seq(HashDescs) /\ RH \in Seq(Cores) /\ RK \in Seq(Cores)
  BY <1>1, HeadTailProperties DEF Rest
<1>7. CoresOf(RD) \in Seq(Cores) /\ RK = (CoresOf(RD) \o H) \o P
  <2>1. CASE CanSend(p, ready)
    <3>1. D # <<>> /\ K # <<>>
      BY <2>1 DEF CanSend
    <3>2. RK = Tail(K) /\ RD = Tail(D)
      BY <2>1, <3>1 DEF Rest
    <3>3. CoresOf(RD) = Tail(C) /\ C # <<>>
      BY <1>1, <3>1, <3>2, CoresOfTail
    <3>4. Tail((C \o H) \o P) = (Tail(C) \o H) \o P
      <4>1. \A a, b, c \in Seq(Cores) :
              a # <<>> => Tail((a \o b) \o c) = (Tail(a) \o b) \o c
        BY TailOfThree, SMTT(30)
      <4> HIDE DEF C, H, P
      <4>. QED  BY <1>1, <1>2, <3>3, <4>1, Zenon
    <3>. QED  BY <1>1, <1>6, <3>2, <3>3, <3>4, CoresOfType, Zenon
  <2>2. CASE ~CanSend(p, ready)
    <3>1. RK = K /\ RD = D
      BY <2>2 DEF Rest
    <3>. QED  BY <1>1, <1>2, <3>1
  <2>. QED  BY <2>1, <2>2, Zenon
<1>8. PICK Y \in Seq(Cores) : /\ CoresOf(RD \o X) = CoresOf(RD) \o Y
                              /\ Y \o RH = H /\ RD \o X \in Seq(HashDescs)
  <2>1. CASE Taken(p, busy, almost_full)
    <3>1. X = <<hash_n_dest_in>> /\ hash_n_dest_in \in HashDescs
      BY <2>1, PushedType DEF Pushed
    <3>2. hash_n_dest_in.core = selected_core
      BY DEF hash_n_dest_in
    <3>3. CoresOf(RD \o X) = CoresOf(RD) \o <<selected_core>>
      BY <1>6, <3>1, <3>2, CoresOfConcat, Zenon
    <3>4. RH = Tail(H) /\ H # <<>> /\ Head(H) = selected_core
      BY <1>4, <2>1 DEF Rest
    <3>5. <<Head(H)>> \o Tail(H) = H /\ <<Head(H)>> \in Seq(Cores)
      BY <1>1, <3>4
    <3>6. RD \o X \in Seq(HashDescs)
      BY <1>6, <3>1
    <3>. QED  BY <3>3, <3>4, <3>5, <3>6, Zenon
  <2>2. CASE ~Taken(p, busy, almost_full)
    <3>1. X = <<>> /\ RH = H
      BY <2>2 DEF Pushed, Rest
    <3>2. RD \o X = RD /\ CoresOf(RD) \o <<>> = CoresOf(RD) /\ <<>> \o H = H
      BY <1>1, <1>6, <1>7, <3>1, ConcatEmptySeq
    <3>3. <<>> \in Seq(Cores)
      OBVIOUS
    <3>. QED  BY <1>6, <3>1, <3>2, <3>3, Zenon
  <2>. QED  BY <2>1, <2>2, Zenon
<1>9. pkts'[p] = (CoresOf(desc_fifo'[p]) \o hash_fifo'[p]) \o hash_pipe'[p]
  <2>1. ((CoresOf(RD) \o Y) \o (RH \o P)) \o A = ((CoresOf(RD) \o (Y \o RH)) \o P) \o A
    <3>1. /\ CoresOf(RD) \in Seq(Cores) /\ Y \in Seq(Cores) /\ RH \in Seq(Cores)
          /\ P \in Seq(Cores) /\ A \in Seq(Cores)
      BY <1>1, <1>3, <1>6, <1>7, Zenon
    <3>2. (CoresOf(RD) \o Y) \o (RH \o P) = (CoresOf(RD) \o (Y \o RH)) \o P
      <4>1. PICK a \in Seq(Cores), y \in Seq(Cores), b \in Seq(Cores) :
              a = CoresOf(RD) /\ y = RH /\ b = P
        BY <3>1, Zenon
      <4>2. PICK yb \in Seq(Cores), xy \in Seq(Cores) : yb = y \o b /\ xy = Y \o y
        BY ConcatProperties, Zenon
      <4>3. (a \o Y) \o yb = a \o (Y \o yb)
        BY SMTT(60)
      <4>4. (Y \o y) \o b = Y \o (y \o b)
        BY SMTT(60)
      <4>5. (a \o xy) \o b = a \o (xy \o b)
        BY SMTT(60)
      <4> HIDE DEF RD, RH, P
      <4>. QED  BY <4>1, <4>2, <4>3, <4>4, <4>5, Zenon
    <3>. QED  BY <3>2, Zenon
  <2>. QED  BY <1>5, <1>7, <1>8, <2>1, Zenon
<1>10. Len(pkts'[p]) <= PKT_ROOM
  <2>1. Len(K) \in Nat /\ Len(RK) \in Nat /\ Len(A) \in Nat
    BY <1>1, <1>3, <1>6, LenProperties, Zenon
  <2>2. Len(RK) <= Len(K)
    <3>1. K # <<>> => Len(Tail(K)) = Len(K) - 1
      BY <1>1, HeadTailProperties, Zenon
    <3>2. RK = K \/ (K # <<>> /\ RK = Tail(K))
      BY DEF Rest
    <3>3. Len(K) <= Len(K) /\ Len(K) - 1 <= Len(K)
      BY <2>1
    <3>. QED  BY <3>1, <3>2, <3>3, Zenon
  <2>3. Len(pkts'[p]) = Len(RK) + Len(A)
    <3>1. Len(RK \o A) = Len(RK) + Len(A)
      BY <1>3, <1>6, ConcatProperties, Zenon
    <3>. QED  BY <1>5, <3>1, Zenon
  <2>4. Len(A) = 0 \/ (Len(A) = 1 /\ Len(K) < PKT_ROOM)
    BY <1>3
  <2>5. Len(K) <= PKT_ROOM /\ PKT_ROOM \in Nat
    BY <1>1, Zenon DEF RoomForHashes
  <2>6. \A k, r, n, m \in Nat :
          r <= k /\ k <= m /\ (n = 0 \/ (n = 1 /\ k < m)) => r + n <= m
    OBVIOUS
  <2> HIDE DEF K, A, RK
  <2>. QED  BY <2>1, <2>2, <2>3, <2>4, <2>5, <2>6, Zenon
<1>11. pkts'[p] \in Seq(Cores) /\ hash_fifo'[p] \in Seq(Cores)
  BY <1>1, <1>3, <1>5, <1>6, ConcatProperties
<1>12. ~Taken(p, busy, almost_full) => RH = H
  BY DEF Rest
<1>. QED  BY <1>3, <1>5, <1>8, <1>9, <1>10, <1>11, <1>12, Zenon

(* The selection made in a cycle speaks of the first hash of its port in   *)
(* the next one: only the port selected before loses its first hash.       *)
LEMMA SelectionStep ==
  ASSUME Counts, RoomForHashes, AlignInv, NEW arrival \in Arrivals, NEW ready, NEW busy,
         NEW almost_full, PortStep(arrival, ready, busy, almost_full), SelectStep
  PROVE  /\ selected_port_r' \in Ports \cup {NoPort} /\ selected_core' \in Cores
         /\ SelectedIsHead'
<1>1. CASE desc_req = {}
  BY <1>1 DEF SelectStep, SelectedIsHead, AlignInv, AlignType, NoPort
<1>2. CASE desc_req # {}
  <2>1. desc_req \subseteq Ports
    BY DEF desc_req
  <2>2. selected_port \in desc_req
    BY <1>2, <2>1, GreatestElement DEF selected_port
  <2>3. /\ selected_port \in Ports /\ hash_fifo[selected_port] # <<>>
        /\ selected_port # selected_port_r
    BY <2>2 DEF desc_req
  <2>4. selected_port_r' = selected_port /\ selected_core' = Head(hash_fifo[selected_port])
    BY <1>2 DEF SelectStep
  <2>5. hash_fifo'[selected_port] = hash_fifo[selected_port] \o hash_pipe[selected_port]
    BY <2>3, PortAligned, Zenon DEF Taken
  <2>6. hash_fifo[selected_port] \in Seq(Cores) /\ hash_pipe[selected_port] \in Seq(Cores)
    BY <2>3 DEF AlignInv, AlignType
  <2>7. ASSUME NEW s \in Seq(Cores), NEW t \in Seq(Cores), s # <<>>
        PROVE  Head(s) \in Cores /\ s \o t # <<>> /\ Head(s \o t) = Head(s)
    BY <2>7
  <2>. QED  BY <2>3, <2>4, <2>5, <2>6, <2>7, Zenon DEF SelectedIsHead
<1>. QED  BY <1>1, <1>2

(* A core is kept for the port whose first hash selects it: the first hash *)
(* goes only when its port gets the slot, and then the core is let go.     *)
LEMMA StallAligned ==
  ASSUME Counts, RoomForHashes, AlignInv, POLICY \in {"blocking", "dropping"},
         NEW arrival \in Arrivals, NEW ready, NEW busy, NEW almost_full,
         PortStep(arrival, ready, busy, almost_full), StallStep(busy)
  PROVE  /\ desc_stall' \in [Cores -> Ports \cup {NoPort}] /\ StallIsHead'
         /\ POLICY = "dropping" => \A c \in Cores : desc_stall'[c] = NoPort
<1>1. /\ desc_stall \in [Cores -> Ports \cup {NoPort}] /\ selected_core \in Cores
      /\ selected_port_r \in Ports \cup {NoPort} /\ NoPort \notin Ports
      /\ hash_fifo \in [Ports -> Seq(Cores)] /\ hash_pipe \in [Ports -> Seq(Cores)]
  BY DEF AlignInv, AlignType, NoPort, Ports, Counts
<1>2. CASE POLICY = "dropping"
  BY <1>1, <1>2 DEF StallStep, AlignInv, StallIsHead
<1>3. CASE POLICY = "blocking"
  <2>1. desc_stall' \in [Cores -> Ports \cup {NoPort}]
    BY <1>1 DEF StallStep
  <2>2. ASSUME NEW c \in Cores, desc_stall'[c] # NoPort
        PROVE  /\ hash_fifo'[desc_stall'[c]] # <<>>
               /\ Head(hash_fifo'[desc_stall'[c]]) = c
    <3> DEFINE q == desc_stall'[c]
    <3>1. q \in Ports
      BY <2>1, <2>2
    <3>2. hash_fifo[q] # <<>> /\ Head(hash_fifo[q]) = c
      <4>1. CASE q = desc_stall[c]
        BY <2>2, <4>1 DEF AlignInv, HashesAligned, StallIsHead
      <4>2. CASE q # desc_stall[c]
        <5>1. c = selected_core /\ selected_port_r # NoPort /\ q = selected_port_r
          BY <1>1, <1>3, <2>2, <4>2 DEF StallStep
        <5>. QED  BY <5>1 DEF AlignInv, SelectedIsHead
      <4>. QED  BY <4>1, <4>2
    <3>3. ~Taken(q, busy, almost_full)
      <4>1. SUFFICES ASSUME Taken(q, busy, almost_full)
                     PROVE  FALSE
        OBVIOUS
      <4>2. selected_port_r = q /\ desc_pop(busy)
        BY <1>3, <4>1 DEF Taken, to_drop
      <4>3. selected_core = c
        BY <1>1, <3>1, <3>2, <4>2 DEF AlignInv, SelectedIsHead
      <4>4. selected_core \in desc_avail \ busy /\ desc_stall[c] \in {NoPort, q}
        BY <1>3, <4>2, <4>3 DEF desc_pop, Waiting
      <4>5. desc_stall'[c] = NoPort
        BY <1>1, <1>3, <3>1, <4>2, <4>3, <4>4 DEF StallStep
      <4>. QED  BY <2>2, <4>5
    <3>4. hash_fifo'[q] = hash_fifo[q] \o hash_pipe[q]
      BY <3>1, <3>3, PortAligned, Zenon
    <3>5. hash_fifo[q] \in Seq(Cores) /\ hash_pipe[q] \in Seq(Cores)
      BY <1>1, <3>1
    <3>6. ASSUME NEW s \in Seq(Cores), NEW t \in Seq(Cores), s # <<>>
          PROVE  s \o t # <<>> /\ Head(s \o t) = Head(s)
      BY <3>6
    <3>. QED  BY <3>2, <3>4, <3>5, <3>6, Zenon
  <2>. QED  BY <1>3, <2>1, <2>2 DEF StallIsHead
<1>. QED  BY <1>2, <1>3

LEMMA FreeStep ==
  ASSUME AlignInv, NEW ret \in Returns, NEW busy, KeeperStep(busy, ret)
  PROVE  free' \in [Cores -> SUBSET Slots]
<1>1. \A c \in Cores : Returned(c, ret) \subseteq Slots
  <2>1. ret.kind = "slot" => ret.desc.slot \in Slots
    BY DEF Returns, Descs
  <2>. QED  BY <2>1 DEF Returned
<1>. QED  BY <1>1 DEF KeeperStep, AlignInv, AlignType

LEMMA AlignStep ==
  ASSUME Counts, RoomForHashes, POLICY \in {"blocking", "dropping"}, AlignInv, [Next]_vars
  PROVE  AlignInv'
<1>1. CASE Next
  <2>1. PICK arrival \in Arrivals, ready \in SUBSET {p \in Ports : desc_fifo[p] # <<>>},
             busy \in BusySets, almost_full \in FullSets, ret \in Returns,
             cmd \in HostCommands : Clock(arrival, ready, busy, almost_full, ret, cmd)
    BY <1>1 DEF Next
  <2>2. /\ PortStep(arrival, ready, busy, almost_full) /\ SelectStep /\ StallStep(busy)
        /\ KeeperStep(busy, ret)
    BY <2>1 DEF Clock
  <2>3. \A p \in Ports :
          /\ pkts'[p] \in Seq(Cores) /\ hash_pipe'[p] \in Seq(Cores)
          /\ hash_fifo'[p] \in Seq(Cores) /\ desc_fifo'[p] \in Seq(HashDescs)
          /\ Len(pkts'[p]) <= PKT_ROOM
          /\ pkts'[p] = (CoresOf(desc_fifo'[p]) \o hash_fifo'[p]) \o hash_pipe'[p]
    BY <2>2, PortAligned, Zenon
  <2>4. /\ selected_port_r' \in Ports \cup {NoPort} /\ selected_core' \in Cores
        /\ SelectedIsHead'
    BY <2>2, SelectionStep
  <2>5. /\ desc_stall' \in [Cores -> Ports \cup {NoPort}] /\ StallIsHead'
        /\ POLICY = "dropping" => \A c \in Cores : desc_stall'[c] = NoPort
    BY <2>2, StallAligned
  <2>6. free' \in [Cores -> SUBSET Slots]
    BY <2>2, FreeStep
  <2>7. /\ pkts' \in [Ports -> Seq(Cores)] /\ hash_pipe' \in [Ports -> Seq(Cores)]
        /\ hash_fifo' \in [Ports -> Seq(Cores)] /\ desc_fifo' \in [Ports -> Seq(HashDescs)]
    BY <2>2, <2>3 DEF PortStep, Arrivals
  <2>8. AlignType'
    BY <2>3, <2>4, <2>5, <2>6, <2>7 DEF AlignType
  <2>9. HashesAligned'
    BY <2>3, <2>5, Zenon DEF HashesAligned, CoresOf
  <2>. QED  BY <2>4, <2>5, <2>8, <2>9 DEF AlignInv
<1>2. CASE UNCHANGED vars
  BY <1>2, Zenon DEF vars, hostVars, portVars, selVars, slotVars, AlignInv, AlignType,
     SelectedIsHead, HashesAligned, StallIsHead
<1>. QED  BY <1>1, <1>2

LEMMA AlignInit ==
  ASSUME Counts, RoomForHashes, Init
  PROVE  AlignInv
<1>1. 0 \in Cores
  BY DEF Cores, Counts
<1>2. \A p \in Ports : pkts[p] = <<>> /\ hash_pipe[p] = <<>> /\ hash_fifo[p] = <<>>
                       /\ desc_fifo[p] = <<>>
  BY DEF Init
<1>3. <<>> \in Seq(Cores) /\ <<>> \in Seq(HashDescs) /\ Len(<<>>) = 0
  OBVIOUS
<1>4. CoresOf(<<>>) \in Seq(Cores) /\ Len(CoresOf(<<>>)) = 0
  BY <1>3, CoresOfType, Zenon
<1>5. CoresOf(<<>>) = <<>> /\ (<<>> \o <<>>) \o <<>> = <<>>
  BY <1>4, EmptySeq
<1>6. \A p \in Ports : pkts[p] = (CoresOf(desc_fifo[p]) \o hash_fifo[p]) \o hash_pipe[p]
  BY <1>2, <1>5, Zenon
<1>7. /\ pkts \in [Ports -> Seq(Cores)] /\ hash_pipe \in [Ports -> Seq(Cores)]
      /\ hash_fifo \in [Ports -> Seq(Cores)] /\ desc_fifo \in [Ports -> Seq(HashDescs)]
  BY <1>3 DEF Init
<1>8. \A p \in Ports : Len(pkts[p]) <= PKT_ROOM
  BY <1>2, <1>3 DEF RoomForHashes
<1>9. desc_stall \in [Cores -> Ports \cup {NoPort}] /\ \A c \in Cores : desc_stall[c] = NoPort
  BY DEF Init
<1>10. free \in [Cores -> SUBSET Slots]
  BY DEF Init
<1>11. AlignType
  BY <1>1, <1>7, <1>8, <1>9, <1>10 DEF AlignType, Init
<1>12. SelectedIsHead
  BY DEF SelectedIsHead, Init
<1>13. HashesAligned
  BY <1>6, <1>9, Zenon DEF HashesAligned, StallIsHead, CoresOf
<1>. QED  BY <1>9, <1>11, <1>12, <1>13 DEF AlignInv

(* Whenever the hash FIFO can hold a hash for every packet that the data   *)
(* FIFO of a port and its pipeline can hold, every packet leaves for the   *)
(* core that its own hash selects, under both policies and whatever the    *)
(* cores, the ports and the host do; and a core is kept only for a port    *)
(* whose first packet is for it (lb_hash_blocking.v, lb_hash_dropping.v).  *)
THEOREM HashesStayAligned ==
  ASSUME RoomForHashes
  PROVE  Spec => []HashesAligned
<1>. Counts /\ POLICY \in {"blocking", "dropping"}
  BY HashLbAssumption DEF Counts
<1>1. Init => AlignInv
  BY AlignInit
<1>2. AlignInv /\ [Next]_vars => AlignInv'
  BY AlignStep
<1>3. AlignInv => HashesAligned
  BY DEF AlignInv
<1>. QED  BY <1>1, <1>2, <1>3, PTL DEF Spec

-----------------------------------------------------------------------------
(* Conservation of the slots.  It does not need the hashes to fit.         *)

\* The descriptors of a port; one of a packet that is not dropped has a slot.
PortDescs == {d \in HashDescs : ~d.drop => d.slot \in Slots}

\* The i-th descriptor of port p has slot s of core c.
Holds(c, s, p, i) ==
  /\ p \in Ports /\ i \in 1 .. Len(desc_fifo[p])
  /\ ~desc_fifo[p][i].drop /\ desc_fifo[p][i].core = c /\ desc_fifo[p][i].slot = s

Unheld(c, s) == \A p \in Ports, i \in Nat : ~Holds(c, s, p, i)

(* The place of slot s of core c: in the keeper, out with a packet, not    *)
(* with the load balancer, or in a descriptor that waits at a port.        *)
InKeeper(c, s) ==
  s \in free[c] /\ s \notin inuse[c] /\ s \notin away[c] /\ Unheld(c, s)
InUse(c, s) ==
  s \notin free[c] /\ s \in inuse[c] /\ s \notin away[c] /\ Unheld(c, s)
IsAway(c, s) ==
  s \notin free[c] /\ s \notin inuse[c] /\ s \in away[c] /\ Unheld(c, s)
IsHeld(c, s, p, i) ==
  /\ s \notin free[c] /\ s \notin inuse[c] /\ s \notin away[c] /\ Holds(c, s, p, i)
  /\ \A q \in Ports, j \in Nat : Holds(c, s, q, j) => q = p /\ j = i

OnePlace(c, s) ==
  \/ InKeeper(c, s) \/ InUse(c, s) \/ IsAway(c, s)
  \/ \E p \in Ports, i \in Nat : IsHeld(c, s, p, i)

(* The inductive invariant.  The descriptor FIFO of the selected port was  *)
(* seen to have room one cycle ago, and has it still.                      *)
SlotInv ==
  /\ TypeOK /\ hash_pipe \in [Ports -> Seq(Cores)] /\ desc_fifo \in [Ports -> Seq(PortDescs)]
  /\ selected_port_r # NoPort => Len(desc_fifo[selected_port_r]) < HASH_FIFO_DEPTH
  /\ \A c \in Cores, s \in Slots : OnePlace(c, s)

LEMMA OnePlaceIsOne ==
  ASSUME desc_fifo \in [Ports -> Seq(PortDescs)], NEW c, NEW s, OnePlace(c, s)
  PROVE  Cardinality(Places(c, s)) = 1
<1> DEFINE D == UNION {{<<"desc", p, i>> : i \in {j \in DOMAIN desc_fifo[p] :
                          ~desc_fifo[p][j].drop /\ desc_fifo[p][j].core = c
                          /\ desc_fifo[p][j].slot = s}} : p \in Ports}
<1>1. Places(c, s) = D \cup {<<"free">> : x \in free[c] \cap {s}}
                     \cup {<<"inuse">> : x \in inuse[c] \cap {s}}
                     \cup {<<"away">> : x \in away[c] \cap {s}}
  BY Zenon DEF Places
<1>2. \A p \in Ports : DOMAIN desc_fifo[p] = 1 .. Len(desc_fifo[p]) /\ Len(desc_fifo[p]) \in Nat
  BY LenProperties, Zenon
<1>3. \A x : x \in D <=> \E p \in Ports, i \in Nat : Holds(c, s, p, i) /\ x = <<"desc", p, i>>
  <2>1. \A x : x \in D <=> \E p \in Ports : \E i \in DOMAIN desc_fifo[p] :
                            /\ ~desc_fifo[p][i].drop /\ desc_fifo[p][i].core = c
                            /\ desc_fifo[p][i].slot = s /\ x = <<"desc", p, i>>
    OBVIOUS
  <2>2. \A p \in Ports, i \in Nat :
          Holds(c, s, p, i) <=> /\ i \in DOMAIN desc_fifo[p]
                                /\ ~desc_fifo[p][i].drop /\ desc_fifo[p][i].core = c
                                /\ desc_fifo[p][i].slot = s
    BY <1>2, Zenon DEF Holds
  <2>3. \A p \in Ports : \A i \in DOMAIN desc_fifo[p] : i \in Nat
    BY <1>2
  <2> HIDE DEF D
  <2>. QED  BY <2>1, <2>2, <2>3, Zenon
<1> HIDE DEF D
<1>4. Unheld(c, s) => D = {}
  BY <1>3, Zenon DEF Unheld
<1>5. \E x : Places(c, s) = {x}
  <2>1. CASE InKeeper(c, s)
    <3>1. D = {} /\ free[c] \cap {s} = {s} /\ inuse[c] \cap {s} = {} /\ away[c] \cap {s} = {}
      BY <1>4, <2>1 DEF InKeeper
    <3>2. Places(c, s) = {<<"free">>}
      BY <1>1, <3>1, Zenon
    <3>. QED  BY <3>2, Zenon
  <2>2. CASE InUse(c, s)
    <3>1. D = {} /\ free[c] \cap {s} = {} /\ inuse[c] \cap {s} = {s} /\ away[c] \cap {s} = {}
      BY <1>4, <2>2 DEF InUse
    <3>2. Places(c, s) = {<<"inuse">>}
      BY <1>1, <3>1, Zenon
    <3>. QED  BY <3>2, Zenon
  <2>3. CASE IsAway(c, s)
    <3>1. D = {} /\ free[c] \cap {s} = {} /\ inuse[c] \cap {s} = {} /\ away[c] \cap {s} = {s}
      BY <1>4, <2>3 DEF IsAway
    <3>2. Places(c, s) = {<<"away">>}
      BY <1>1, <3>1, Zenon
    <3>. QED  BY <3>2, Zenon
  <2>4. ASSUME NEW p \in Ports, NEW i \in Nat, IsHeld(c, s, p, i)
        PROVE  \E x : Places(c, s) = {x}
    <3>1. free[c] \cap {s} = {} /\ inuse[c] \cap {s} = {} /\ away[c] \cap {s} = {}
      BY <2>4 DEF IsHeld
    <3>2. D = {<<"desc", p, i>>}
      <4>1. Holds(c, s, p, i) /\ \A q \in Ports, j \in Nat : Holds(c, s, q, j) => q = p /\ j = i
        BY <2>4, Zenon DEF IsHeld
      <4>. QED  BY <1>3, <4>1, Zenon
    <3>3. Places(c, s) = {<<"desc", p, i>>}
      BY <1>1, <3>1, <3>2, Zenon
    <3>. QED  BY <3>3, Zenon
  <2>. QED  BY <2>1, <2>2, <2>3, <2>4, Zenon DEF OnePlace
<1>. QED  BY <1>5, FS_Singleton, Zenon

(* What a pop takes for the selected port.                                 *)
LEMMA PopIsSound ==
  ASSUME TypeOK, NEW busy, desc_pop(busy)
  PROVE  /\ selected_port_r \in Ports /\ selected_core \in Cores /\ selected_core \notin busy
         /\ next_slot(selected_core) \in free[selected_core]
         /\ ~hash_n_dest_in.drop
<1>1. /\ selected_port_r \in Ports /\ selected_core \in desc_avail /\ selected_core \notin busy
      /\ selected_core \in Cores
  BY DEF TypeOK, desc_pop
<1>2. free[selected_core] # {} /\ free[selected_core] \subseteq Nat
  BY <1>1, HashLbAssumption DEF desc_avail, TypeOK, Slots
<1>3. next_slot(selected_core) \in free[selected_core]
  BY <1>2, LeastElement, Zenon DEF next_slot
<1>4. hash_n_dest_in.drop = (selected_core \notin desc_avail)
  BY DEF hash_n_dest_in
<1>. QED  BY <1>1, <1>3, <1>4, Zenon

(* What is pushed for the selected port: a descriptor with a slot, or one  *)
(* of a packet to drop.                                                    *)
LEMMA PushIsSound ==
  ASSUME TypeOK, NEW busy, NEW almost_full, NEW p \in Ports, Taken(p, busy, almost_full)
  PROVE  /\ hash_n_dest_in \in PortDescs /\ hash_n_dest_in.core = selected_core
         /\ hash_n_dest_in.slot = next_slot(selected_core)
         /\ ~hash_n_dest_in.drop <=> desc_pop(busy)
<1>1. /\ selected_core \in Cores /\ free[selected_core] \subseteq Slots
      /\ Slots \subseteq Nat
  BY HashLbAssumption DEF TypeOK, Slots
<1>2. /\ next_slot(selected_core) \in Nat
      /\ free[selected_core] # {} => next_slot(selected_core) \in Slots
  <2>1. CASE free[selected_core] = {}
    BY <2>1 DEF next_slot
  <2>2. CASE free[selected_core] # {}
    <3>1. next_slot(selected_core) \in free[selected_core]
      BY <1>1, <2>2, LeastElement, Zenon DEF next_slot
    <3>. QED  BY <1>1, <3>1, Zenon
  <2>. QED  BY <2>1, <2>2
<1> DEFINE d == hash_n_dest_in
<1>3. d = [core |-> selected_core, slot |-> next_slot(selected_core),
           drop |-> selected_core \notin desc_avail]
  BY DEF hash_n_dest_in
<1>4. d.core = selected_core /\ d.slot = next_slot(selected_core)
      /\ d.drop = (selected_core \notin desc_avail) /\ d \in HashDescs
  BY <1>1, <1>2, <1>3 DEF HashDescs
<1>5. desc_pop(busy) => selected_core \in desc_avail
  BY DEF desc_pop
<1>6. ~desc_pop(busy) => selected_core \notin desc_avail
  BY DEF Taken, to_drop
<1>7. selected_core \in desc_avail => free[selected_core] # {}
  BY DEF desc_avail
<1> HIDE DEF d
<1>. QED  BY <1>2, <1>4, <1>5, <1>6, <1>7, Zenon DEF PortDescs, d

\* Whether the first descriptor of a port goes.
Gone(p, ready) == IF CanSend(p, ready) THEN 1 ELSE 0

\* Slot s of core c goes to the selected port, or out with an inter-core transfer.
Takes(c, s, busy) == desc_pop(busy) /\ selected_core = c /\ next_slot(c) = s
Lends(c, s, busy) == c \in busy /\ s \in Popped(c, busy)
GivesAll(c, ret)  == ret.kind = "init" /\ ret.core = c

(* The descriptors of a port after a clock edge.                           *)
LEMMA DescsStep ==
  ASSUME SlotInv, NEW arrival, NEW ready, NEW busy, NEW almost_full,
         PortStep(arrival, ready, busy, almost_full), NEW p \in Ports
  PROVE  /\ desc_fifo'[p] \in Seq(PortDescs) /\ Len(desc_fifo'[p]) \in Nat
         /\ Len(desc_fifo[p]) \in Nat /\ Gone(p, ready) <= Len(desc_fifo[p])
         /\ Taken(p, busy, almost_full) => Len(desc_fifo[p]) < HASH_FIFO_DEPTH
         /\ Len(desc_fifo'[p]) = Len(desc_fifo[p]) - Gone(p, ready)
                                   + (IF Taken(p, busy, almost_full) THEN 1 ELSE 0)
         /\ \A i \in 1 .. Len(desc_fifo[p]) - Gone(p, ready) :
              desc_fifo'[p][i] = desc_fifo[p][i + Gone(p, ready)]
         /\ Taken(p, busy, almost_full)
              => desc_fifo'[p][Len(desc_fifo[p]) - Gone(p, ready) + 1] = hash_n_dest_in
<1> DEFINE D  == desc_fifo[p]
           RD == Rest(D, CanSend(p, ready))
           X  == IF Taken(p, busy, almost_full) THEN <<hash_n_dest_in>> ELSE <<>>
           g  == Gone(p, ready)
<1>1. D \in Seq(PortDescs) /\ Len(D) \in Nat
  BY LenProperties DEF SlotInv
<1>2. Taken(p, busy, almost_full) => Len(D) < HASH_FIFO_DEPTH /\ hash_n_dest_in \in PortDescs
  <2>1. p # NoPort
    BY HashLbAssumption DEF Ports, NoPort
  <2>. QED  BY <2>1, PushIsSound, Zenon DEF Taken, SlotInv
<1>3. desc_fifo'[p] = RD \o X
  <2>1. desc_fifo'[p] = RD \o Accepted(D, X)
    BY Zenon DEF PortStep, Pushed
  <2>2. Accepted(D, X) = X
    BY <1>2 DEF Accepted
  <2>. QED  BY <2>1, <2>2, Zenon
<1>4. /\ RD \in Seq(PortDescs) /\ Len(RD) = Len(D) - g /\ g \in {0, 1} /\ g <= Len(D)
      /\ \A i \in 1 .. Len(D) - g : RD[i] = D[i + g]
  <2>1. CASE CanSend(p, ready)
    <3>1. D # <<>> /\ g = 1 /\ RD = Tail(D)
      BY <2>1 DEF CanSend, Gone, Rest
    <3>2. Len(D) > 0
      BY <1>1, <3>1, EmptySeq
    <3>3. Tail(D) \in Seq(PortDescs) /\ Len(Tail(D)) = Len(D) - 1
          /\ \A i \in 1 .. Len(Tail(D)) : Tail(D)[i] = D[i + 1]
      BY <1>1, <3>1, HeadTailProperties, Zenon
    <3> HIDE DEF D, RD, g
    <3>. QED  BY <1>1, <3>1, <3>2, <3>3
  <2>2. CASE ~CanSend(p, ready)
    <3>1. g = 0 /\ RD = D
      BY <2>2 DEF Gone, Rest
    <3> HIDE DEF D, RD, g
    <3>. QED  BY <1>1, <3>1
  <2>. QED  BY <2>1, <2>2, Zenon
<1>5. X \in Seq(PortDescs) /\ Len(X) = (IF Taken(p, busy, almost_full) THEN 1 ELSE 0)
      /\ (Taken(p, busy, almost_full) => X[1] = hash_n_dest_in)
  <2>1. CASE Taken(p, busy, almost_full)
    <3>1. X = <<hash_n_dest_in>> /\ hash_n_dest_in \in PortDescs
      BY <1>2, <2>1
    <3>. QED  BY <2>1, <3>1
  <2>2. CASE ~Taken(p, busy, almost_full)
    BY <2>2
  <2>. QED  BY <2>1, <2>2, Zenon
<1> HIDE DEF D, RD, X, g
<1>6. /\ RD \o X \in Seq(PortDescs) /\ Len(RD \o X) = Len(RD) + Len(X)
      /\ \A i \in 1 .. Len(RD) + Len(X) :
           (RD \o X)[i] = IF i <= Len(RD) THEN RD[i] ELSE X[i - Len(RD)]
  BY <1>4, <1>5, ConcatProperties, Zenon
<1>7. Len(RD) \in Nat /\ Len(X) \in Nat
  BY <1>4, <1>5, LenProperties, Zenon
<1>8. ASSUME NEW i \in 1 .. Len(D) - g
      PROVE  (RD \o X)[i] = D[i + g]
  BY <1>1, <1>4, <1>6, <1>7
<1>9. ASSUME Taken(p, busy, almost_full)
      PROVE  (RD \o X)[Len(D) - g + 1] = hash_n_dest_in
  <2>1. Len(D) - g + 1 = Len(RD) + 1 /\ Len(X) = 1 /\ X[1] = hash_n_dest_in
    BY <1>4, <1>5, <1>9, Zenon
  <2>2. PICK k : k = Len(D) - g + 1
    OBVIOUS
  <2>3. k \in 1 .. Len(RD) + Len(X) /\ ~(k <= Len(RD)) /\ k - Len(RD) = 1
    BY <1>7, <2>1, <2>2
  <2>4. (RD \o X)[k] = hash_n_dest_in
    BY <1>6, <2>1, <2>3, Zenon
  <2>. QED  BY <2>2, <2>4, Zenon
<1>10. Len(RD \o X) = Len(D) - g + (IF Taken(p, busy, almost_full) THEN 1 ELSE 0)
  BY <1>4, <1>5, <1>6, Zenon
<1>11. Len(RD \o X) \in Nat
  BY <1>6, <1>7
<1>. QED  BY <1>1, <1>2, <1>3, <1>4, <1>6, <1>8, <1>9, <1>10, <1>11, Zenon DEF D, g

(* The lengths alone.                                                      *)
LEMMA DescsLength ==
  ASSUME SlotInv, NEW arrival, NEW ready, NEW busy, NEW almost_full,
         PortStep(arrival, ready, busy, almost_full), NEW p \in Ports
  PROVE  /\ Len(desc_fifo'[p]) \in Nat /\ Len(desc_fifo[p]) \in Nat
         /\ Taken(p, busy, almost_full) => Len(desc_fifo[p]) < HASH_FIFO_DEPTH
         /\ Len(desc_fifo'[p]) = Len(desc_fifo[p]) - Gone(p, ready)
                                   + (IF Taken(p, busy, almost_full) THEN 1 ELSE 0)
<1>1. /\ desc_fifo'[p] \in Seq(PortDescs) /\ Len(desc_fifo'[p]) \in Nat
      /\ Len(desc_fifo[p]) \in Nat /\ Gone(p, ready) <= Len(desc_fifo[p])
      /\ Taken(p, busy, almost_full) => Len(desc_fifo[p]) < HASH_FIFO_DEPTH
      /\ Len(desc_fifo'[p]) = Len(desc_fifo[p]) - Gone(p, ready)
                                + (IF Taken(p, busy, almost_full) THEN 1 ELSE 0)
      /\ \A i \in 1 .. Len(desc_fifo[p]) - Gone(p, ready) :
           desc_fifo'[p][i] = desc_fifo[p][i + Gone(p, ready)]
      /\ Taken(p, busy, almost_full)
           => desc_fifo'[p][Len(desc_fifo[p]) - Gone(p, ready) + 1] = hash_n_dest_in
  BY DescsStep, Zenon
<1>. QED  BY <1>1

(* Where slot s of core c is after a clock edge, place by place.           *)
LEMMA HoldsStep ==
  ASSUME SlotInv, NEW arrival, NEW ready, NEW busy, NEW almost_full,
         PortStep(arrival, ready, busy, almost_full), NEW c \in Cores, NEW s \in Slots,
         NEW p \in Ports, NEW i \in Nat
  PROVE  Holds(c, s, p, i)' <=>
           \/ i > 0 /\ Holds(c, s, p, i + Gone(p, ready))
           \/ /\ Takes(c, s, busy) /\ p = selected_port_r
              /\ i = Len(desc_fifo[p]) - Gone(p, ready) + 1
<1> DEFINE D == desc_fifo[p]
           E == desc_fifo'[p]
           g == Gone(p, ready)
           taken == Taken(p, busy, almost_full)
           Mine(d) == ~d.drop /\ d.core = c /\ d.slot = s
<1>1. /\ E \in Seq(PortDescs) /\ Len(E) \in Nat
      /\ Len(D) \in Nat /\ g <= Len(D)
      /\ taken => Len(D) < HASH_FIFO_DEPTH
      /\ Len(E) = Len(D) - g + (IF taken THEN 1 ELSE 0)
      /\ \A j \in 1 .. Len(D) - g : E[j] = D[j + g]
      /\ taken => E[Len(D) - g + 1] = hash_n_dest_in
  BY DescsStep, Zenon
<1>2. g \in {0, 1}
  BY DEF Gone
<1>3. Holds(c, s, p, i)' <=> i \in 1 .. Len(E) /\ Mine(E[i])
  BY Zenon DEF Holds
<1>4. Holds(c, s, p, i + g) <=> i + g \in 1 .. Len(D) /\ Mine(D[i + g])
  BY Zenon DEF Holds
<1>5. taken => (Mine(hash_n_dest_in) <=> Takes(c, s, busy))
  BY PushIsSound, Zenon DEF Takes, SlotInv
<1>6. Takes(c, s, busy) /\ p = selected_port_r => taken
  BY Zenon DEF Takes, Taken
<1>7. taken => p = selected_port_r
  BY Zenon DEF Taken
<1> HIDE DEF D, E, g, taken, Mine
<1>8. CASE i \in 1 .. Len(D) - g
  <2>1. /\ i > 0 /\ i + g \in 1 .. Len(D) /\ i # Len(D) - g + 1 /\ E[i] = D[i + g]
        /\ i \in 1 .. Len(E)
    BY <1>1, <1>2, <1>8
  <2>. QED  BY <1>3, <1>4, <2>1, Zenon DEF D, g
<1>9. CASE i = Len(D) - g + 1
  <2>1. i > 0 /\ ~(i + g \in 1 .. Len(D)) /\ (i \in 1 .. Len(E) <=> taken)
    BY <1>1, <1>2, <1>9
  <2>2. taken => E[i] = hash_n_dest_in
    BY <1>1, <1>9, Zenon
  <2>. QED  BY <1>3, <1>4, <1>5, <1>6, <1>7, <1>9, <2>1, <2>2, Zenon DEF D, g
<1>10. CASE i \notin 1 .. Len(D) - g /\ i # Len(D) - g + 1
  <2>1. ~(i > 0 /\ i + g \in 1 .. Len(D)) /\ ~(i \in 1 .. Len(E))
    BY <1>1, <1>2, <1>10
  <2>. QED  BY <1>3, <1>4, <1>10, <2>1, Zenon DEF D, g
<1>. QED  BY <1>8, <1>9, <1>10, Zenon

LEMMA KeepersStep ==
  ASSUME SlotInv, NEW arrival, NEW ready, NEW busy, NEW almost_full, NEW ret \in Returns, NEW cmd,
         Clock(arrival, ready, busy, almost_full, ret, cmd), NEW c \in Cores, NEW s \in Slots
  PROVE  /\ Takes(c, s, busy) \/ Lends(c, s, busy) => s \in free[c]
         /\ Takes(c, s, busy) => selected_port_r \in Ports /\ ~Lends(c, s, busy)
         /\ s \in Returned(c, ret) => s \in inuse[c]
         /\ GivesAll(c, ret) => s \in away[c]
         /\ s \in free'[c]
              <=> /\ c \notin slots_flush
                  /\ \/ GivesAll(c, ret)
                     \/ /\ s \in free[c] \/ s \in Returned(c, ret)
                        /\ ~Takes(c, s, busy) /\ ~Lends(c, s, busy)
         /\ s \in inuse'[c]
              <=> \/ s \in inuse[c] /\ s \notin Returned(c, ret)
                  \/ Lends(c, s, busy)
                  \/ \E q \in Ports : CanSend(q, ready) /\ Holds(c, s, q, 1)
         /\ s \in away'[c]
              <=> \/ s \in away[c] /\ ~(GivesAll(c, ret) /\ c \notin slots_flush)
                  \/ /\ c \in slots_flush /\ (s \in free[c] \/ s \in Returned(c, ret))
                     /\ ~Takes(c, s, busy) /\ ~Lends(c, s, busy)
<1> DEFINE take == Takes(c, s, busy)
           lend == Lends(c, s, busy)
           back == s \in Returned(c, ret)
           init == GivesAll(c, ret)
<1>1. TypeOK
  BY DEF SlotInv
<1>2. take => s \in free[c] /\ selected_port_r \in Ports /\ ~lend
  BY <1>1, PopIsSound, Zenon DEF Takes, Lends
<1>3. free[c] \subseteq Nat /\ 0 \notin free[c] /\ s # 0
  BY <1>1, HashLbAssumption DEF TypeOK, Slots
<1>4. s \in Popped(c, busy) <=> next_slot_pop(c, busy) /\ s = next_slot(c)
  BY <1>3, Zenon DEF Popped
<1>5. s = next_slot(c) => s \in free[c]
  <2>1. CASE free[c] = {}
    BY <1>3, <2>1, Zenon DEF next_slot
  <2>2. CASE free[c] # {}
    BY <1>3, <2>2, LeastElement, Zenon DEF next_slot
  <2>. QED  BY <2>1, <2>2, Zenon
<1>6. lend => s \in free[c]
  BY <1>4, <1>5, Zenon DEF Lends
<1>7. s \in Popped(c, busy) <=> take \/ lend
  BY <1>4, Zenon DEF Takes, Lends, next_slot_pop
<1>8. back => s \in inuse[c]
  BY DEF Returned, Returns
<1>9. init => s \in away[c]
  BY DEF GivesAll, Returns
<1>10. s \in free'[c] <=> /\ c \notin slots_flush
                          /\ \/ init
                             \/ /\ s \in free[c] \/ back
                                /\ ~take /\ ~lend
  <2>1. free'[c] = IF c \in slots_flush THEN {}
                   ELSE IF init THEN Slots
                   ELSE (free[c] \cup Returned(c, ret)) \ Popped(c, busy)
    BY Zenon DEF Clock, KeeperStep, GivesAll
  <2> HIDE DEF take, lend, back, init
  <2>2. CASE c \in slots_flush
    BY <2>1, <2>2, Zenon
  <2>3. CASE c \notin slots_flush /\ init
    BY <2>1, <2>3, Zenon
  <2>4. CASE c \notin slots_flush /\ ~init
    BY <1>7, <2>1, <2>4, Zenon DEF back
  <2>. QED  BY <2>2, <2>3, <2>4, Zenon
<1>11. s \in Sent(c, ready) <=> \E q \in Ports : CanSend(q, ready) /\ Holds(c, s, q, 1)
  <2>1. s \in Sent(c, ready)
          <=> \E q \in Ports : /\ CanSend(q, ready) /\ Head(desc_fifo[q]).core = c
                               /\ ~Head(desc_fifo[q]).drop /\ Head(desc_fifo[q]).slot = s
    BY Zenon DEF Sent
  <2>2. ASSUME NEW q \in Ports, CanSend(q, ready)
        PROVE  1 \in 1 .. Len(desc_fifo[q]) /\ Head(desc_fifo[q]) = desc_fifo[q][1]
    <3>1. desc_fifo[q] # <<>> /\ desc_fifo[q] \in Seq(PortDescs)
      BY <2>2 DEF CanSend, SlotInv
    <3>. QED  BY <3>1, EmptySeq, HeadTailProperties
  <2>. QED  BY <2>1, <2>2, Zenon DEF Holds
<1>12. s \in inuse'[c] <=> \/ s \in inuse[c] /\ ~back
                           \/ lend
                           \/ \E q \in Ports : CanSend(q, ready) /\ Holds(c, s, q, 1)
  <2>1. inuse'[c] = (inuse[c] \ Returned(c, ret)) \cup Sent(c, ready)
                     \cup (IF c \in busy THEN Popped(c, busy) ELSE {})
    BY Zenon DEF Clock, AuxStep
  <2>2. s \in (IF c \in busy THEN Popped(c, busy) ELSE {}) <=> lend
    BY Zenon DEF Lends
  <2>. QED  BY <1>11, <2>1, <2>2, Zenon
<1>13. s \in away'[c] <=> \/ s \in away[c] /\ ~(init /\ c \notin slots_flush)
                          \/ /\ c \in slots_flush /\ (s \in free[c] \/ back)
                             /\ ~take /\ ~lend
  <2>1. away'[c] = (IF init /\ c \notin slots_flush THEN {} ELSE away[c])
                    \cup (IF c \in slots_flush
                          THEN (free[c] \cup Returned(c, ret)) \ Popped(c, busy) ELSE {})
    BY Zenon DEF Clock, AuxStep, GivesAll
  <2> HIDE DEF take, lend, back, init
  <2>2. s \in (IF init /\ c \notin slots_flush THEN {} ELSE away[c])
          <=> s \in away[c] /\ ~(init /\ c \notin slots_flush)
    BY Zenon
  <2>3. s \in (IF c \in slots_flush THEN (free[c] \cup Returned(c, ret)) \ Popped(c, busy) ELSE {})
          <=> c \in slots_flush /\ (s \in free[c] \/ back) /\ ~take /\ ~lend
    BY <1>7, Zenon DEF back
  <2>. QED  BY <2>1, <2>2, <2>3, Zenon
<1>. QED  BY <1>2, <1>6, <1>8, <1>9, <1>10, <1>12, <1>13, Zenon

(* A clock edge moves a slot from one place to one place.                  *)
LEMMA OnePlaceStep ==
  ASSUME SlotInv, NEW arrival, NEW ready, NEW busy, NEW almost_full, NEW ret \in Returns, NEW cmd,
         Clock(arrival, ready, busy, almost_full, ret, cmd), NEW c \in Cores, NEW s \in Slots
  PROVE  OnePlace(c, s)'
<1> DEFINE take == Takes(c, s, busy)
           lend == Lends(c, s, busy)
           back == s \in Returned(c, ret)
           init == GivesAll(c, ret)
           sent == \E q \in Ports : CanSend(q, ready) /\ Holds(c, s, q, 1)
           H(q, j) == Holds(c, s, q, j)
           N(q, j) == Holds(c, s, q, j)'
           end(q) == Len(desc_fifo[q]) - Gone(q, ready) + 1
           free1 == s \in free'[c]
           inuse1 == s \in inuse'[c]
           away1 == s \in away'[c]
<1>1. /\ take \/ lend => s \in free[c]
      /\ take => selected_port_r \in Ports /\ ~lend
      /\ back => s \in inuse[c]
      /\ init => s \in away[c]
      /\ free1 <=> /\ c \notin slots_flush
                   /\ \/ init
                      \/ /\ s \in free[c] \/ back
                         /\ ~take /\ ~lend
      /\ inuse1 <=> \/ s \in inuse[c] /\ ~back
                    \/ lend
                    \/ sent
      /\ away1 <=> \/ s \in away[c] /\ ~(init /\ c \notin slots_flush)
                   \/ /\ c \in slots_flush /\ (s \in free[c] \/ back)
                      /\ ~take /\ ~lend
  BY KeepersStep, Zenon
<1>2. \A q \in Ports, j \in Nat :
        N(q, j) <=> \/ j > 0 /\ H(q, j + Gone(q, ready))
                    \/ take /\ q = selected_port_r /\ j = end(q)
  <2>1. PortStep(arrival, ready, busy, almost_full)
    BY DEF Clock
  <2>. QED  BY <2>1, HoldsStep, ZenonT(60)
<1>3. \A q \in Ports, j \in Nat : j + Gone(q, ready) \in Nat
  BY DEF Gone
<1>4. OnePlace(c, s)
  BY DEF SlotInv
<1>5. \A q \in Ports : end(q) \in Nat \ {0}
  <2>1. PortStep(arrival, ready, busy, almost_full)
    BY DEF Clock
  <2>2. ASSUME NEW q \in Ports
        PROVE  Len(desc_fifo[q]) \in Nat /\ Gone(q, ready) <= Len(desc_fifo[q])
    BY <2>1, DescsStep, Zenon
  <2>3. \A q \in Ports : Gone(q, ready) \in {0, 1}
    BY DEF Gone
  <2>. QED  BY <2>2, <2>3
<1>6. \/ free1 /\ ~inuse1 /\ ~away1 /\ \A q \in Ports, j \in Nat : ~N(q, j)
      \/ ~free1 /\ inuse1 /\ ~away1 /\ \A q \in Ports, j \in Nat : ~N(q, j)
      \/ ~free1 /\ ~inuse1 /\ away1 /\ \A q \in Ports, j \in Nat : ~N(q, j)
      \/ /\ ~free1 /\ ~inuse1 /\ ~away1
         /\ \E p \in Ports, i \in Nat :
              N(p, i) /\ \A q \in Ports, j \in Nat : N(q, j) => q = p /\ j = i
      => OnePlace(c, s)'
  BY Zenon DEF OnePlace, InKeeper, InUse, IsAway, IsHeld, Unheld
<1>7. Unheld(c, s) => ~sent /\ \A q \in Ports, j \in Nat : N(q, j) <=> take /\ q = selected_port_r /\ j = end(q)
  BY <1>2, <1>3, Zenon DEF Unheld
<1>8. CASE InKeeper(c, s)
  <2>1. s \in free[c] /\ s \notin inuse[c] /\ s \notin away[c] /\ Unheld(c, s)
    BY <1>8 DEF InKeeper
  <2> HIDE DEF take, lend, back, init, sent, H, N, end, free1, inuse1, away1
  <2>2. CASE take
    <3>1. ~free1 /\ ~inuse1 /\ ~away1
      BY <1>1, <1>7, <2>1, <2>2, ZenonT(30)
    <3>2. selected_port_r \in Ports /\ end(selected_port_r) \in Nat
      BY <1>1, <1>5, <2>2
    <3>3. N(selected_port_r, end(selected_port_r))
      BY <1>7, <2>1, <2>2, <3>2, Zenon
    <3>4. \A q \in Ports, j \in Nat : N(q, j) => q = selected_port_r /\ j = end(selected_port_r)
      BY <1>7, <2>1, Zenon
    <3>. QED  BY <1>6, <3>1, <3>2, <3>3, <3>4, Zenon
  <2>3. CASE ~take
    <3>1. \A q \in Ports, j \in Nat : ~N(q, j)
      BY <1>7, <2>1, <2>3, Zenon
    <3>. QED  BY <1>1, <1>6, <1>7, <2>1, <2>3, <3>1, Zenon
  <2>. QED  BY <2>2, <2>3, Zenon
<1>9. CASE InUse(c, s) \/ IsAway(c, s)
  <2>1. s \notin free[c] /\ Unheld(c, s) /\ (s \in inuse[c] <=> s \notin away[c])
    BY <1>9 DEF InUse, IsAway
  <2> HIDE DEF take, lend, back, init, sent, H, N, end, free1, inuse1, away1
  <2>2. \A q \in Ports, j \in Nat : ~N(q, j)
    BY <1>1, <1>7, <2>1, Zenon
  <2>. QED  BY <1>1, <1>6, <1>7, <2>1, <2>2, Zenon
<1>10. ASSUME NEW p \in Ports, NEW i \in Nat, IsHeld(c, s, p, i)
       PROVE  OnePlace(c, s)'
  <2>1. /\ s \notin free[c] /\ s \notin inuse[c] /\ s \notin away[c] /\ H(p, i)
        /\ \A q \in Ports, j \in Nat : H(q, j) => q = p /\ j = i
    BY <1>10, Zenon DEF IsHeld
  <2>2. i # 0
    BY <2>1 DEF Holds
  <2>3. ~take /\ ~lend /\ ~back /\ ~init
    BY <1>1, <2>1, Zenon
  <2> HIDE DEF take, lend, back, init, sent, H, N, end, free1, inuse1, away1
  <2>4. ~free1 /\ ~away1 /\ (inuse1 <=> sent)
    BY <1>1, <2>1, <2>3, Zenon
  <2>5. \A q \in Ports, j \in Nat : N(q, j) <=> j > 0 /\ H(q, j + Gone(q, ready))
    BY <1>2, <2>3, Zenon
  <2>6. CASE CanSend(p, ready) /\ i = 1
    <3>1. sent
      BY <2>1, <2>6, Zenon DEF sent, H
    <3>2. ASSUME NEW q \in Ports, NEW j \in Nat, N(q, j)
          PROVE  FALSE
      <4>1. j > 0 /\ H(q, j + Gone(q, ready)) /\ j + Gone(q, ready) \in Nat
        BY <1>3, <2>5, <3>2, Zenon
      <4>2. q = p /\ j + Gone(q, ready) = i
        BY <2>1, <4>1, Zenon
      <4>3. Gone(q, ready) = 1
        BY <2>6, <4>2 DEF Gone
      <4>. QED  BY <2>6, <4>1, <4>2, <4>3
    <3>. QED  BY <1>6, <2>4, <3>1, <3>2, Zenon
  <2>7. CASE ~(CanSend(p, ready) /\ i = 1)
    <3>1. PICK k \in Nat : k > 0 /\ k + Gone(p, ready) = i
      <4>1. Gone(p, ready) \in {0, 1} /\ (i = 1 => Gone(p, ready) = 0)
        BY <2>7 DEF Gone
      <4>2. i - Gone(p, ready) \in Nat /\ i - Gone(p, ready) > 0 /\ i - Gone(p, ready) + Gone(p, ready) = i
        BY <2>2, <4>1
      <4>. QED  BY <4>2
    <3>2. ~sent
      BY <2>1, <2>7, Zenon DEF sent, H
    <3>3. N(p, k)
      BY <2>1, <2>5, <3>1, Zenon
    <3>4. ASSUME NEW q \in Ports, NEW j \in Nat, N(q, j)
          PROVE  q = p /\ j = k
      <4>1. H(q, j + Gone(q, ready)) /\ j + Gone(q, ready) \in Nat
        BY <1>3, <2>5, <3>4, Zenon
      <4>2. q = p /\ j + Gone(p, ready) = i
        BY <2>1, <4>1, Zenon
      <4>3. Gone(p, ready) \in {0, 1}
        BY DEF Gone
      <4>. QED  BY <3>1, <4>2, <4>3
    <3>. QED  BY <1>6, <2>4, <3>2, <3>3, <3>4, Zenon
  <2>. QED  BY <2>6, <2>7, Zenon
<1>. QED  BY <1>4, <1>8, <1>9, <1>10, Zenon DEF OnePlace

(* The registers and queues keep their types, and the port selected now    *)
(* has room for a descriptor in the next cycle.                            *)
LEMMA HostRegisters ==
  ASSUME TypeOK, NEW cmd \in HostCommands, HostStep(cmd)
  PROVE  /\ enabled_cores' \subseteq Cores /\ income_cores' \subseteq enabled_cores'
         /\ slots_flush' \subseteq Cores
<1>1. /\ cmd.reg \in {"none", "enable", "receive", "flush"}
      /\ cmd.reg # "none" => cmd.data \subseteq Cores
  <2>1. cmd \in Commands
    BY HashLbAssumption, Zenon
  <2>. QED  BY <2>1 DEF Commands
<1>2. enabled_cores \subseteq Cores /\ income_cores \subseteq enabled_cores /\ slots_flush \subseteq Cores
  BY DEF TypeOK
<1>3. CASE cmd.reg = "none"
  <2>1. enabled_cores' = enabled_cores /\ income_cores' = income_cores /\ slots_flush' = {}
    BY <1>3, Zenon DEF HostStep
  <2>. QED  BY <1>2, <2>1
<1>4. CASE cmd.reg = "enable"
  <2>1. enabled_cores' = cmd.data /\ income_cores' = income_cores \cap cmd.data
        /\ slots_flush' = slots_flush
    BY <1>4, Zenon DEF HostStep
  <2>. QED  BY <1>1, <1>2, <1>4, <2>1
<1>5. CASE cmd.reg = "receive"
  <2>1. enabled_cores' = enabled_cores /\ income_cores' = cmd.data \cap enabled_cores
        /\ slots_flush' = slots_flush
    BY <1>5, Zenon DEF HostStep
  <2>. QED  BY <1>1, <1>2, <1>5, <2>1
<1>6. CASE cmd.reg = "flush"
  <2>1. enabled_cores' = enabled_cores /\ income_cores' = income_cores /\ slots_flush' = cmd.data
    BY <1>6, Zenon DEF HostStep
  <2>. QED  BY <1>1, <1>2, <1>6, <2>1
<1>. QED  BY <1>1, <1>3, <1>4, <1>5, <1>6, Zenon

\* Two queues at an edge: one item may leave seq, and items may follow.
LEMMA QueueStep ==
  ASSUME NEW S, NEW seq \in Seq(S), NEW items \in Seq(S), NEW gone \in BOOLEAN
  PROVE  /\ Rest(seq, gone) \o items \in Seq(S)
         /\ Len(Rest(seq, gone) \o items) \in Nat /\ Len(seq) \in Nat /\ Len(items) \in Nat
         /\ Len(Rest(seq, gone) \o items) <= Len(seq) + Len(items)
<1>1. Rest(seq, gone) \in Seq(S) /\ Len(Rest(seq, gone)) <= Len(seq)
  <2>1. CASE gone /\ seq # <<>>
    <3>1. Rest(seq, gone) = Tail(seq)
      BY <2>1 DEF Rest
    <3>2. Tail(seq) \in Seq(S) /\ Len(Tail(seq)) = Len(seq) - 1 /\ Len(seq) \in Nat
      BY <2>1, HeadTailProperties, LenProperties, Zenon
    <3>. QED  BY <3>1, <3>2
  <2>2. CASE ~(gone /\ seq # <<>>)
    <3>1. Rest(seq, gone) = seq
      BY <2>2 DEF Rest
    <3>. QED  BY <3>1
  <2>. QED  BY <2>1, <2>2
<1>. QED  BY <1>1

LEMMA RoomIsNat == PKT_ROOM \in Nat
<1>1. DATA_FIFO_WORDS + RAM_PIPELINE + 1 \in Nat /\ WORDS \in Nat \ {0}
  BY HashLbAssumption
<1>2. \A n \in Nat, m \in Nat \ {0} : n \div m \in Nat
  OBVIOUS
<1>. QED  BY <1>1, <1>2, Zenon DEF PKT_ROOM

(* The queues of a port keep their types and stay within their depths.     *)
LEMMA PortQueues ==
  ASSUME SlotInv, NEW arrival \in Arrivals, NEW ready, NEW busy, NEW almost_full,
         PortStep(arrival, ready, busy, almost_full), NEW p \in Ports
  PROVE  /\ pkts'[p] \in Seq(Cores) /\ hash_pipe'[p] \in Seq(Cores) /\ hash_fifo'[p] \in Seq(Cores)
         /\ Len(pkts'[p]) <= PKT_ROOM /\ Len(hash_pipe'[p]) <= 1
         /\ Len(hash_fifo'[p]) <= HASH_FIFO_DEPTH /\ Len(desc_fifo'[p]) <= HASH_FIFO_DEPTH
<1>1. /\ pkts[p] \in Seq(Cores) /\ hash_fifo[p] \in Seq(Cores) /\ hash_pipe[p] \in Seq(Cores)
      /\ Len(pkts[p]) <= PKT_ROOM /\ Len(hash_pipe[p]) <= 1
      /\ Len(hash_fifo[p]) <= HASH_FIFO_DEPTH /\ Len(desc_fifo[p]) <= HASH_FIFO_DEPTH
  BY DEF SlotInv, TypeOK
<1>2. /\ arrival[p] = <<>> \/ \E c \in Cores : arrival[p] = <<c>>
      /\ arrival[p] # <<>> => Len(pkts[p]) < PKT_ROOM
  BY DEF Arrivals
<1>3. arrival[p] \in Seq(Cores) /\ Len(arrival[p]) <= 1 /\ (arrival[p] = <<>> => Len(arrival[p]) = 0)
  <2>1. <<>> \in Seq(Cores) /\ Len(<<>>) = 0
    OBVIOUS
  <2>2. \A c \in Cores : <<c>> \in Seq(Cores) /\ Len(<<c>>) = 1
    OBVIOUS
  <2>3. CASE arrival[p] = <<>>
    BY <2>1, <2>3
  <2>4. CASE arrival[p] # <<>>
    <3>1. PICK c \in Cores : arrival[p] = <<c>>
      BY <1>2, <2>4
    <3>2. arrival[p] \in Seq(Cores) /\ Len(arrival[p]) = 1
      BY <2>2, <3>1, Zenon
    <3>. QED  BY <2>4, <3>2
  <2>. QED  BY <2>3, <2>4
<1>4. PKT_ROOM \in Nat /\ HASH_FIFO_DEPTH \in Nat
  BY RoomIsNat, HashLbAssumption
<1>5. /\ pkts'[p] = Rest(pkts[p], CanSend(p, ready)) \o arrival[p]
      /\ hash_pipe'[p] = arrival[p]
      /\ hash_fifo'[p] = Rest(hash_fifo[p], Taken(p, busy, almost_full))
                           \o Accepted(hash_fifo[p], hash_pipe[p])
  BY Zenon DEF PortStep
<1>6. CanSend(p, ready) \in BOOLEAN /\ Taken(p, busy, almost_full) \in BOOLEAN
  BY DEF CanSend, Taken
<1>7. pkts'[p] \in Seq(Cores) /\ Len(pkts'[p]) <= PKT_ROOM
  <2>1. /\ pkts'[p] \in Seq(Cores) /\ Len(pkts'[p]) \in Nat /\ Len(pkts[p]) \in Nat
        /\ Len(arrival[p]) \in Nat /\ Len(pkts'[p]) <= Len(pkts[p]) + Len(arrival[p])
    BY <1>1, <1>3, <1>5, <1>6, QueueStep, Zenon
  <2>2. Len(arrival[p]) = 0 \/ Len(pkts[p]) < PKT_ROOM
    BY <1>2, <1>3
  <2>3. Len(pkts'[p]) <= PKT_ROOM
    <3>1. \A k, l, m, room \in Nat :
            k <= l + m /\ m <= 1 /\ l <= room /\ (m = 0 \/ l < room) => k <= room
      OBVIOUS
    <3>. QED  BY <1>1, <1>3, <1>4, <2>1, <2>2, <3>1, Zenon
  <2>. QED  BY <2>1, <2>3
<1>8. hash_fifo'[p] \in Seq(Cores) /\ Len(hash_fifo'[p]) <= HASH_FIFO_DEPTH
  <2> DEFINE items == Accepted(hash_fifo[p], hash_pipe[p])
  <2>1. /\ items \in Seq(Cores) /\ Len(items) <= 1
        /\ Len(hash_fifo[p]) < HASH_FIFO_DEPTH \/ Len(items) = 0
    BY <1>1 DEF Accepted
  <2>2. hash_fifo'[p] = Rest(hash_fifo[p], Taken(p, busy, almost_full)) \o items
    BY <1>5, Zenon
  <2> HIDE DEF items
  <2>3. /\ hash_fifo'[p] \in Seq(Cores) /\ Len(hash_fifo'[p]) \in Nat /\ Len(hash_fifo[p]) \in Nat
        /\ Len(items) \in Nat /\ Len(hash_fifo'[p]) <= Len(hash_fifo[p]) + Len(items)
    BY <1>1, <1>6, <2>1, <2>2, QueueStep, ZenonT(30)
  <2>. QED  BY <1>1, <1>4, <2>1, <2>3
<1>9. Len(desc_fifo'[p]) <= HASH_FIFO_DEPTH
  <2>1. /\ Len(desc_fifo'[p]) \in Nat /\ Len(desc_fifo[p]) \in Nat
        /\ Taken(p, busy, almost_full) => Len(desc_fifo[p]) < HASH_FIFO_DEPTH
        /\ Len(desc_fifo'[p]) = Len(desc_fifo[p]) - Gone(p, ready)
                                  + (IF Taken(p, busy, almost_full) THEN 1 ELSE 0)
    BY DescsLength, ZenonT(30)
  <2>2. Gone(p, ready) \in {0, 1}
    BY DEF Gone
  <2>. QED  BY <1>1, <1>4, <2>1, <2>2
<1>. QED  BY <1>3, <1>5, <1>7, <1>8, <1>9, Zenon

(* The port selected in a cycle is not the one served in it, so the room   *)
(* seen in its descriptor FIFO is still there in the next.                 *)
LEMMA SelectStepRoom ==
  ASSUME SlotInv, NEW arrival, NEW ready, NEW busy, NEW almost_full,
         PortStep(arrival, ready, busy, almost_full), SelectStep
  PROVE  /\ selected_port_r' \in Ports \cup {NoPort} /\ selected_core' \in Cores
         /\ port_mask' \subseteq Ports
         /\ selected_port_r' # NoPort => Len(desc_fifo'[selected_port_r']) < HASH_FIFO_DEPTH
<1>0. Counts /\ HASH_FIFO_DEPTH \in Nat
  BY HashLbAssumption DEF Counts
<1>1. CASE desc_req = {}
  BY <1>1 DEF SelectStep, SlotInv, TypeOK
<1>2. CASE desc_req # {}
  <2>1. desc_req \subseteq Ports
    BY DEF desc_req
  <2>2. selected_port \in desc_req
    BY <1>0, <1>2, <2>1, GreatestElement DEF selected_port
  <2>3. /\ selected_port \in Ports /\ hash_fifo[selected_port] # <<>>
        /\ selected_port # selected_port_r
        /\ Len(desc_fifo[selected_port]) < HASH_FIFO_DEPTH
    BY <2>2 DEF desc_req
  <2>4. selected_port_r' = selected_port /\ selected_core' = Head(hash_fifo[selected_port])
        /\ port_mask' \subseteq Ports
    BY <1>2 DEF SelectStep
  <2>5. selected_core' \in Cores
    <3>1. hash_fifo[selected_port] \in Seq(Cores)
      BY <2>3 DEF SlotInv, TypeOK
    <3>. QED  BY <2>3, <2>4, <3>1
  <2>6. Len(desc_fifo'[selected_port]) < HASH_FIFO_DEPTH
    <3>1. \A p \in Ports :
            /\ Len(desc_fifo'[p]) \in Nat /\ Len(desc_fifo[p]) \in Nat
            /\ Taken(p, busy, almost_full) => Len(desc_fifo[p]) < HASH_FIFO_DEPTH
            /\ Len(desc_fifo'[p]) = Len(desc_fifo[p]) - Gone(p, ready)
                                      + (IF Taken(p, busy, almost_full) THEN 1 ELSE 0)
      BY DescsLength, ZenonT(60)
    <3>2. ~Taken(selected_port, busy, almost_full)
      BY <2>3 DEF Taken
    <3>3. Gone(selected_port, ready) \in {0, 1}
      BY DEF Gone
    <3>. QED  BY <1>0, <2>3, <3>1, <3>2, <3>3
  <2>. QED  BY <2>3, <2>4, <2>5, <2>6, Zenon
<1>. QED  BY <1>1, <1>2, Zenon

LEMMA TypeStep ==
  ASSUME SlotInv, NEW arrival \in Arrivals, NEW ready, NEW busy, NEW almost_full,
         NEW ret \in Returns, NEW cmd \in HostCommands,
         Clock(arrival, ready, busy, almost_full, ret, cmd)
  PROVE  /\ TypeOK' /\ hash_pipe' \in [Ports -> Seq(Cores)] /\ desc_fifo' \in [Ports -> Seq(PortDescs)]
         /\ selected_port_r' # NoPort => Len(desc_fifo'[selected_port_r']) < HASH_FIFO_DEPTH
<1>1. TypeOK
  BY DEF SlotInv
<1>2. /\ HostStep(cmd) /\ PortStep(arrival, ready, busy, almost_full) /\ SelectStep /\ StallStep(busy)
      /\ KeeperStep(busy, ret) /\ AuxStep(ready, busy, ret)
  BY DEF Clock
<1>3. /\ enabled_cores' \subseteq Cores /\ income_cores' \subseteq enabled_cores'
      /\ slots_flush' \subseteq Cores
  BY <1>1, <1>2, HostRegisters, Zenon
<1>4. \A p \in Ports :
         /\ pkts'[p] \in Seq(Cores) /\ hash_pipe'[p] \in Seq(Cores) /\ hash_fifo'[p] \in Seq(Cores)
         /\ Len(pkts'[p]) <= PKT_ROOM /\ Len(hash_pipe'[p]) <= 1
         /\ Len(hash_fifo'[p]) <= HASH_FIFO_DEPTH /\ Len(desc_fifo'[p]) <= HASH_FIFO_DEPTH
  BY <1>2, PortQueues, Zenon
<1>5. \A p \in Ports : desc_fifo'[p] \in Seq(PortDescs)
  BY <1>2, DescsStep, ZenonT(30)
<1>6. /\ pkts' \in [Ports -> Seq(Cores)] /\ hash_pipe' \in [Ports -> Seq(Cores)]
      /\ hash_fifo' \in [Ports -> Seq(Cores)] /\ desc_fifo' \in [Ports -> Seq(PortDescs)]
  BY <1>2, <1>4, <1>5 DEF PortStep, Arrivals
<1>7. /\ selected_port_r' \in Ports \cup {NoPort} /\ selected_core' \in Cores
      /\ port_mask' \subseteq Ports
      /\ selected_port_r' # NoPort => Len(desc_fifo'[selected_port_r']) < HASH_FIFO_DEPTH
  BY <1>2, SelectStepRoom, Zenon
<1>8. desc_stall' \in [Cores -> Ports \cup {NoPort}]
  <2>1. desc_stall \in [Cores -> Ports \cup {NoPort}] /\ selected_port_r \in Ports \cup {NoPort}
        /\ selected_core \in Cores
    BY <1>1 DEF TypeOK
  <2>. QED  BY <1>2, <2>1 DEF StallStep
<1>9. free \in [Cores -> SUBSET Slots] /\ inuse \in [Cores -> SUBSET Slots]
      /\ away \in [Cores -> SUBSET Slots]
  BY <1>1 DEF TypeOK
<1>10. \A c \in Cores : Returned(c, ret) \subseteq Slots
  <2>1. ret.kind = "slot" => ret.desc.slot \in Slots
    BY DEF Returns, Descs
  <2>. QED  BY <2>1 DEF Returned
<1>11. free' \in [Cores -> SUBSET Slots]
  BY <1>2, <1>9, <1>10 DEF KeeperStep
<1>12. away' \in [Cores -> SUBSET Slots]
  BY <1>2, <1>9, <1>10, SMTT(30) DEF AuxStep
<1>13. ASSUME NEW c \in Cores
       PROVE  Popped(c, busy) \subseteq Slots /\ Sent(c, ready) \subseteq Slots
  <2>1. free[c] \subseteq Slots /\ free[c] \subseteq Nat
    BY <1>9, HashLbAssumption DEF Slots
  <2>2. Popped(c, busy) \subseteq Slots
    <3>1. CASE free[c] = {}
      BY <3>1 DEF Popped, next_slot
    <3>2. CASE free[c] # {}
      <4>1. next_slot(c) \in free[c]
        BY <2>1, <3>2, LeastElement, ZenonT(30) DEF next_slot
      <4>. QED  BY <2>1, <4>1 DEF Popped
    <3>. QED  BY <3>1, <3>2
  <2>3. ASSUME NEW p \in Ports, CanSend(p, ready), ~Head(desc_fifo[p]).drop
        PROVE  Head(desc_fifo[p]).slot \in Slots
    <3>1. desc_fifo[p] \in Seq(PortDescs) /\ desc_fifo[p] # <<>>
      BY <2>3 DEF SlotInv, CanSend
    <3>2. Head(desc_fifo[p]) \in PortDescs
      BY <3>1
    <3>. QED  BY <2>3, <3>2 DEF PortDescs
  <2>. QED  BY <2>2, <2>3, SMTT(30) DEF Sent
<1>14. inuse' \in [Cores -> SUBSET Slots]
  BY <1>2, <1>9, <1>13 DEF AuxStep
<1>15. TypeOK'
  BY <1>3, <1>4, <1>6, <1>7, <1>8, <1>11, <1>12, <1>14, ZenonT(30) DEF TypeOK
<1>. QED  BY <1>6, <1>7, <1>15, Zenon

LEMMA SlotInit ==
  ASSUME Init
  PROVE  SlotInv
<1>1. 0 \in Cores /\ PKT_ROOM \in Nat /\ HASH_FIFO_DEPTH \in Nat
  BY HashLbAssumption, RoomIsNat DEF Cores
<1>2. /\ <<>> \in Seq(Cores) /\ <<>> \in Seq(PortDescs) /\ Len(<<>>) = 0
  OBVIOUS
<1>3. \A p \in Ports : pkts[p] = <<>> /\ hash_pipe[p] = <<>> /\ hash_fifo[p] = <<>>
                       /\ desc_fifo[p] = <<>>
  BY DEF Init
<1>4. /\ pkts \in [Ports -> Seq(Cores)] /\ hash_pipe \in [Ports -> Seq(Cores)]
      /\ hash_fifo \in [Ports -> Seq(Cores)] /\ desc_fifo \in [Ports -> Seq(PortDescs)]
  BY <1>2 DEF Init
<1>5. \A p \in Ports : /\ Len(pkts[p]) <= PKT_ROOM /\ Len(hash_pipe[p]) <= 1
                       /\ Len(hash_fifo[p]) <= HASH_FIFO_DEPTH
                       /\ Len(desc_fifo[p]) <= HASH_FIFO_DEPTH
  BY <1>1, <1>2, <1>3
<1>6. TypeOK
  BY <1>1, <1>4, <1>5 DEF Init, TypeOK
<1>7. ASSUME NEW c \in Cores, NEW s \in Slots
      PROVE  IsAway(c, s)
  <2>1. \A p \in Ports, i \in Nat : ~Holds(c, s, p, i)
    BY <1>2, <1>3 DEF Holds
  <2>. QED  BY <2>1 DEF Init, IsAway, Unheld
<1>8. selected_port_r = NoPort
  BY DEF Init
<1>. QED  BY <1>4, <1>6, <1>7, <1>8, Zenon DEF SlotInv, OnePlace

LEMMA SlotStep ==
  ASSUME SlotInv, [Next]_vars
  PROVE  SlotInv'
<1>1. CASE UNCHANGED vars
  <2>1. /\ enabled_cores' = enabled_cores /\ income_cores' = income_cores /\ slots_flush' = slots_flush
        /\ pkts' = pkts /\ hash_pipe' = hash_pipe /\ hash_fifo' = hash_fifo /\ desc_fifo' = desc_fifo
        /\ selected_port_r' = selected_port_r /\ selected_core' = selected_core
        /\ port_mask' = port_mask /\ desc_stall' = desc_stall
        /\ free' = free /\ inuse' = inuse /\ away' = away
    BY <1>1 DEF vars, hostVars, portVars, selVars, slotVars
  <2>2. TypeOK'
    BY <2>1, Zenon DEF SlotInv, TypeOK
  <2>3. /\ (hash_pipe \in [Ports -> Seq(Cores)])' /\ (desc_fifo \in [Ports -> Seq(PortDescs)])'
        /\ (selected_port_r # NoPort => Len(desc_fifo[selected_port_r]) < HASH_FIFO_DEPTH)'
    BY <2>1 DEF SlotInv
  <2>4. ASSUME NEW c \in Cores, NEW s \in Slots
        PROVE  OnePlace(c, s)'
    <3>1. OnePlace(c, s)
      BY DEF SlotInv
    <3>2. \A p, i : Holds(c, s, p, i)' <=> Holds(c, s, p, i)
      BY <2>1, Zenon DEF Holds
    <3>3. Unheld(c, s)' <=> Unheld(c, s)
      BY <3>2, Zenon DEF Unheld
    <3>4. \A p, i : IsHeld(c, s, p, i)' <=> IsHeld(c, s, p, i)
      BY <2>1, <3>2, Zenon DEF IsHeld
    <3>5. /\ InKeeper(c, s)' <=> InKeeper(c, s)
          /\ InUse(c, s)' <=> InUse(c, s)
          /\ IsAway(c, s)' <=> IsAway(c, s)
      BY <2>1, <3>3, Zenon DEF InKeeper, InUse, IsAway
    <3>. QED  BY <3>1, <3>4, <3>5, Zenon DEF OnePlace
  <2>. QED  BY <2>2, <2>3, <2>4, Zenon DEF SlotInv
<1>2. CASE Next
  <2>1. PICK arrival \in Arrivals, ready \in SUBSET {p \in Ports : desc_fifo[p] # <<>>},
             busy \in BusySets, almost_full \in FullSets, ret \in Returns,
             cmd \in HostCommands : Clock(arrival, ready, busy, almost_full, ret, cmd)
    BY <1>2 DEF Next
  <2>2. /\ TypeOK' /\ hash_pipe' \in [Ports -> Seq(Cores)] /\ desc_fifo' \in [Ports -> Seq(PortDescs)]
        /\ selected_port_r' # NoPort => Len(desc_fifo'[selected_port_r']) < HASH_FIFO_DEPTH
    BY <2>1, TypeStep, Zenon
  <2>3. \A c \in Cores, s \in Slots : OnePlace(c, s)'
    BY <2>1, OnePlaceStep, Zenon
  <2>. QED  BY <2>2, <2>3, ZenonT(30) DEF SlotInv
<1>. QED  BY <1>1, <1>2, Zenon

(* Every slot of every core is in exactly one place (the slot keepers, the *)
(* descriptors that wait at the ports, with a packet or transfer, or with  *)
(* the core), under both hash policies and for every number of ports,      *)
(* cores and slots and every depth of the FIFOs, whatever the traffic, the *)
(* inter-core transfers and the host do (lb_hash_blocking.v,               *)
(* lb_hash_dropping.v).                                                    *)
THEOREM SlotsStayConserved == Spec => []SlotsConserved
<1>1. Init => SlotInv
  BY SlotInit
<1>2. SlotInv /\ [Next]_vars => SlotInv'
  BY SlotStep
<1>3. SlotInv => SlotsConserved
  BY OnePlaceIsOne, Zenon DEF SlotInv, SlotsConserved
<1>. QED  BY <1>1, <1>2, <1>3, PTL DEF Spec
=============================================================================
