--------------------------- MODULE MaxFinderProofs ---------------------------
(***************************************************************************)
(* Lemmas about the comparator tree of max_finder_tree.v, for every number *)
(* of inputs: what a stage knows of the inputs below it, and what the last *)
(* one finds.  They are used for the tree on its own (LeafProofs) and for  *)
(* the choice of a core by lb_rr_lu.v (LbRrLuProofs).                      *)
(***************************************************************************)
EXTENDS MaxFinder, WellFoundedInduction, TLAPS

(* A nonempty set of naturals has a least element.                         *)
LEMMA NatMin ==
  ASSUME NEW S, S \subseteq Nat, S # {}
  PROVE  \E x \in S : \A y \in S : x <= y
<1>1. PICK x \in S : \A y \in S : ~(<<y, x>> \in OpToRel(<, Nat))
  BY NatLessThanWellFounded, WFMin, Zenon
<1>2. \A y \in S : y < x => <<y, x>> \in OpToRel(<, Nat)
  BY DEF OpToRel
<1>3. \A y \in S : ~(y < x)
  BY <1>1, <1>2, Zenon
<1>4. \A y \in S : x <= y
  BY <1>3
<1>. QED  BY <1>4, Zenon

(* A set of naturals with 0 that is closed under the successor, up to n,   *)
(* has every natural up to n.                                              *)
LEMMA UpTo ==
  ASSUME NEW n \in Nat, NEW S, 0 \in S,
         \A i \in 0 .. n - 1 : i \in S => i + 1 \in S
  PROVE  0 .. n \subseteq S
<1> DEFINE Bad == {i \in 0 .. n : i \notin S}
<1> SUFFICES ASSUME Bad # {} PROVE FALSE
  OBVIOUS
<1>1. Bad \subseteq Nat
  OBVIOUS
<1>2. PICK x \in Bad : \A y \in Bad : x <= y
  BY <1>1, NatMin, Zenon
<1>3. x \in 1 .. n /\ x \notin S
  OBVIOUS
<1>4. x - 1 \in 0 .. n - 1 /\ ~(x <= x - 1) /\ x - 1 + 1 = x
  BY <1>3
<1>5. x - 1 \notin Bad
  BY <1>2, <1>4
<1>. QED  BY <1>3, <1>4, <1>5

(* The recursive definition of the powers of two is one: there is a        *)
(* function that satisfies it.                                             *)
LEMMA PowersExist ==
  ASSUME NEW width \in Nat
  PROVE  \E f : f = [n \in 0 .. width |-> IF n = 0 THEN 1 ELSE 2 * f[n - 1]]
<1> DEFINE Good(f, k) == \A n \in 0 .. k : f[n] = IF n = 0 THEN 1 ELSE 2 * f[n - 1]
           S == {k \in 0 .. width : \E f \in [0 .. width -> Nat] : Good(f, k)}
<1>1. 0 \in S
  <2> DEFINE one == [n \in 0 .. width |-> 1]
  <2>1. one \in [0 .. width -> Nat] /\ Good(one, 0) /\ 0 \in 0 .. width
    OBVIOUS
  <2> HIDE DEF one, Good
  <2>. QED  BY <2>1, Zenon
<1>2. ASSUME NEW i \in 0 .. width - 1, i \in S
      PROVE  i + 1 \in S
  <2>1. PICK f \in [0 .. width -> Nat] : Good(f, i)
    BY <1>2, Zenon
  <2> DEFINE g == [n \in 0 .. width |-> IF n = i + 1 THEN 2 * f[i] ELSE f[n]]
  <2>2. g \in [0 .. width -> Nat] /\ i + 1 \in 0 .. width
    OBVIOUS
  <2>3. ASSUME NEW n \in 0 .. i + 1
        PROVE  g[n] = IF n = 0 THEN 1 ELSE 2 * g[n - 1]
    <3>1. CASE n = i + 1
      <4>1. g[n] = 2 * f[i] /\ n - 1 = i /\ n # 0 /\ n \in 0 .. width
        BY <3>1
      <4>2. g[i] = f[i]
        OBVIOUS
      <4> HIDE DEF g
      <4>. QED  BY <4>1, <4>2
    <3>2. CASE n # i + 1
      <4>1. n \in 0 .. i /\ n \in 0 .. width /\ (n # 0 => n - 1 \in 0 .. width /\ n - 1 # i + 1)
        BY <3>2
      <4>2. g[n] = f[n] /\ (n # 0 => g[n - 1] = f[n - 1])
        BY <3>2, <4>1
      <4> HIDE DEF g
      <4>. QED  BY <2>1, <4>1, <4>2
    <3>. QED  BY <3>1, <3>2
  <2>4. Good(g, i + 1)
    BY <2>3, Zenon
  <2> HIDE DEF g, Good
  <2>. QED  BY <2>2, <2>4, Zenon
<1>3. width \in S
  <2> HIDE DEF S
  <2>1. 0 .. width \subseteq S
    BY <1>1, <1>2, UpTo, Zenon
  <2>. QED  BY <2>1
<1>4. PICK f \in [0 .. width -> Nat] : Good(f, width)
  BY <1>3, Zenon
<1>5. f = [n \in 0 .. width |-> IF n = 0 THEN 1 ELSE 2 * f[n - 1]]
  BY <1>4
<1>. QED  BY <1>5

LEMMA Powers ==
  ASSUME NEW width \in Nat
  PROVE  PowersOfTwo(width) =
           [n \in 0 .. width |-> IF n = 0 THEN 1 ELSE 2 * PowersOfTwo(width)[n - 1]]
  BY PowersExist, Zenon DEF PowersOfTwo

LEMMA PowersType ==
  ASSUME NEW width \in Nat
  PROVE  PowersOfTwo(width) \in [0 .. width -> Nat \ {0}]
<1> DEFINE pow == PowersOfTwo(width)
           S == {n \in 0 .. width : pow[n] \in Nat \ {0}}
<1>1. pow = [n \in 0 .. width |-> IF n = 0 THEN 1 ELSE 2 * pow[n - 1]]
  BY Powers, Zenon
<1> HIDE DEF pow
<1>2. 0 \in S
  BY <1>1
<1>3. ASSUME NEW i \in 0 .. width - 1, i \in S
      PROVE  i + 1 \in S
  <2>1. i + 1 \in 0 .. width /\ i + 1 # 0 /\ i + 1 - 1 = i
    OBVIOUS
  <2>2. pow[i + 1] = 2 * pow[i]
    BY <1>1, <2>1
  <2>. QED  BY <1>3, <2>1, <2>2
<1>4. 0 .. width \subseteq S
  <2> HIDE DEF S
  <2>. QED  BY <1>2, <1>3, UpTo, Zenon
<1>. QED  BY <1>1, <1>4 DEF pow

LEMMA PowersStep ==
  ASSUME NEW width \in Nat, NEW n \in 0 .. width - 1
  PROVE  PowersOfTwo(width)[n + 1] = 2 * PowersOfTwo(width)[n]
<1> DEFINE pow == PowersOfTwo(width)
<1>1. pow = [k \in 0 .. width |-> IF k = 0 THEN 1 ELSE 2 * pow[k - 1]]
  BY Powers, Zenon
<1> HIDE DEF pow
<1>2. n + 1 \in 0 .. width /\ n + 1 # 0 /\ n + 1 - 1 = n
  OBVIOUS
<1>3. pow[n + 1] = 2 * pow[n]
  BY <1>1, <1>2
<1>. QED  BY <1>3 DEF pow

LEMMA PowersZero ==
  ASSUME NEW width \in Nat
  PROVE  PowersOfTwo(width)[0] = 1
<1> DEFINE pow == PowersOfTwo(width)
<1>1. pow = [k \in 0 .. width |-> IF k = 0 THEN 1 ELSE 2 * pow[k - 1]]
  BY Powers, Zenon
<1> HIDE DEF pow
<1>2. pow[0] = 1
  BY <1>1
<1>. QED  BY <1>2 DEF pow

(* A stage with 2^(width - n) nodes over 2^n values each covers them all.  *)
LEMMA PowersProduct ==
  ASSUME NEW width \in Nat, NEW n \in 0 .. width
  PROVE  PowersOfTwo(width)[width - n] * PowersOfTwo(width)[n] = PowersOfTwo(width)[width]
<1> DEFINE pow == PowersOfTwo(width)
           S == {k \in 0 .. width : pow[width - k] * pow[k] = pow[width]}
<1>1. pow \in [0 .. width -> Nat \ {0}]
  BY PowersType, Zenon
<1>2. pow[0] = 1
  BY PowersZero, Zenon
<1>3. \A k \in 0 .. width - 1 : pow[k + 1] = 2 * pow[k]
  BY PowersStep, Zenon
<1> HIDE DEF pow
<1>4. 0 \in S
  BY <1>1, <1>2
<1>5. ASSUME NEW i \in 0 .. width - 1, i \in S
      PROVE  i + 1 \in S
  <2>1. width - (i + 1) \in 0 .. width - 1 /\ width - (i + 1) + 1 = width - i
    OBVIOUS
  <2>2. pow[width - i] = 2 * pow[width - (i + 1)]
    BY <1>3, <2>1
  <2>3. pow[i + 1] = 2 * pow[i]
    BY <1>3
  <2>4. pow[width - (i + 1)] \in Nat /\ pow[i] \in Nat
    BY <1>1, <2>1
  <2>5. ASSUME NEW a \in Nat, NEW b \in Nat PROVE a * (2 * b) = (2 * a) * b
    OBVIOUS
  <2>6. pow[width - i] * pow[i] = pow[width]
    BY <1>5
  <2>7. pow[width - (i + 1)] * pow[i + 1] = pow[width]
    BY <2>2, <2>3, <2>4, <2>5, <2>6
  <2>. QED  BY <2>7
<1>6. 0 .. width \subseteq S
  <2> HIDE DEF S
  <2>. QED  BY <1>4, <1>5, UpTo, Zenon
<1>7. pow[width - n] * pow[n] = pow[width]
  BY <1>6
<1>. QED  BY <1>7 DEF pow

-----------------------------------------------------------------------------
(* The tree.                                                               *)
LEMMA StagesExist ==
  ASSUME NEW width \in Nat, NEW values
  PROVE  \E f : f = [stage \in 0 .. width |->
                       IF stage = 0 THEN InputNodes(values, width)
                       ELSE Joined(f[stage - 1], stage, width)]
<1> DEFINE Good(f, k) == \A n \in 0 .. k :
             f[n] = IF n = 0 THEN InputNodes(values, width) ELSE Joined(f[n - 1], n, width)
           S == {k \in 0 .. width : \E f : f = [n \in 0 .. width |-> f[n]] /\ Good(f, k)}
<1>1. 0 \in S
  <2> DEFINE f0 == [n \in 0 .. width |-> InputNodes(values, width)]
  <2>1. f0 = [n \in 0 .. width |-> f0[n]] /\ Good(f0, 0) /\ 0 \in 0 .. width
    OBVIOUS
  <2> HIDE DEF f0, Good
  <2>. QED  BY <2>1, Zenon
<1>2. ASSUME NEW i \in 0 .. width - 1, i \in S
      PROVE  i + 1 \in S
  <2>1. PICK f : f = [n \in 0 .. width |-> f[n]] /\ Good(f, i)
    BY <1>2, Zenon
  <2> DEFINE g == [n \in 0 .. width |-> IF n = i + 1 THEN Joined(f[i], i + 1, width) ELSE f[n]]
  <2>2. g = [n \in 0 .. width |-> g[n]] /\ i + 1 \in 0 .. width
    OBVIOUS
  <2>3. ASSUME NEW n \in 0 .. i + 1
        PROVE  g[n] = IF n = 0 THEN InputNodes(values, width) ELSE Joined(g[n - 1], n, width)
    <3>1. CASE n = i + 1
      <4>1. g[n] = Joined(f[i], i + 1, width) /\ n - 1 = i /\ n # 0
        BY <3>1
      <4>2. g[i] = f[i]
        OBVIOUS
      <4> HIDE DEF g
      <4>. QED  BY <3>1, <4>1, <4>2
    <3>2. CASE n # i + 1
      <4>1. n \in 0 .. i /\ n \in 0 .. width /\ (n # 0 => n - 1 \in 0 .. width /\ n - 1 # i + 1)
        BY <3>2
      <4>2. g[n] = f[n] /\ (n # 0 => g[n - 1] = f[n - 1])
        BY <3>2, <4>1
      <4> HIDE DEF g
      <4>. QED  BY <2>1, <4>1, <4>2, Zenon
    <3>. QED  BY <3>1, <3>2
  <2>4. Good(g, i + 1)
    BY <2>3, Zenon
  <2> HIDE DEF g, Good
  <2>. QED  BY <2>2, <2>4, Zenon
<1>3. width \in S
  <2> HIDE DEF S
  <2>1. 0 .. width \subseteq S
    BY <1>1, <1>2, UpTo, Zenon
  <2>. QED  BY <2>1
<1>4. PICK f : f = [n \in 0 .. width |-> f[n]] /\ Good(f, width)
  BY <1>3, Zenon
<1>5. f = [stage \in 0 .. width |-> IF stage = 0 THEN InputNodes(values, width)
                                    ELSE Joined(f[stage - 1], stage, width)]
  BY <1>4, Zenon
<1>. QED  BY <1>5

LEMMA StagesDefined ==
  ASSUME NEW width \in Nat, NEW values
  PROVE  Stages(values, width) =
           [stage \in 0 .. width |->
              IF stage = 0 THEN InputNodes(values, width)
              ELSE Joined(Stages(values, width)[stage - 1], stage, width)]
  BY StagesExist, SMTT(30) DEF Stages

(* What a node over the size values from base on stands for: the largest   *)
(* of them, at the lowest place where it occurs.                           *)
Winner(node, values, base, size) ==
  /\ node.ptr \in 0 .. size - 1 /\ node.max = values[base + node.ptr]
  /\ \A k \in 0 .. size - 1 : values[base + k] <= node.max
  /\ \A k \in 0 .. size - 1 : values[base + k] = node.max => node.ptr <= k

LEMMA JoinWinner ==
  ASSUME NEW values, NEW base \in Nat, NEW size \in Nat, NEW left, NEW right,
         \A k \in base .. base + 2 * size - 1 : values[k] \in Nat,
         Winner(left, values, base, size), Winner(right, values, base + size, size)
  PROVE  Winner(Join(right, left, size), values, base, 2 * size)
<1> DEFINE node == Join(right, left, size)
<1>1. /\ left.ptr \in 0 .. size - 1 /\ left.max = values[base + left.ptr]
      /\ \A k \in 0 .. size - 1 : values[base + k] <= left.max
      /\ \A k \in 0 .. size - 1 : values[base + k] = left.max => left.ptr <= k
  BY DEF Winner
<1>2. /\ right.ptr \in 0 .. size - 1 /\ right.max = values[base + size + right.ptr]
      /\ \A k \in 0 .. size - 1 : values[base + size + k] <= right.max
      /\ \A k \in 0 .. size - 1 : values[base + size + k] = right.max => right.ptr <= k
  BY DEF Winner
<1>3. left.max \in Nat
  BY <1>1
<1>4. right.max \in Nat
  <2>1. base + size + right.ptr \in base .. base + 2 * size - 1
    BY <1>2
  <2>. QED  BY <1>2, <2>1
<1>5. CASE right.max > left.max
  <2>1. node.max = right.max /\ node.ptr = size + right.ptr
    BY <1>5 DEF Join, greater_than
  <2> HIDE DEF node
  <2>2. node.ptr \in 0 .. 2 * size - 1 /\ node.max = values[base + node.ptr]
    <3>1. base + (size + right.ptr) = base + size + right.ptr
      BY <1>2
    <3>. QED  BY <1>2, <2>1, <3>1
  <2>3. ASSUME NEW k \in 0 .. 2 * size - 1
        PROVE  /\ values[base + k] <= node.max
               /\ values[base + k] = node.max => node.ptr <= k
    <3>1. CASE k < size
      <4>1. values[base + k] <= left.max /\ values[base + k] \in Nat
        BY <1>1, <3>1
      <4>. QED  BY <1>3, <1>4, <1>5, <2>1, <4>1
    <3>2. CASE k >= size
      <4>1. k - size \in 0 .. size - 1 /\ base + size + (k - size) = base + k
        BY <3>2
      <4>2. values[base + k] <= right.max /\ (values[base + k] = right.max => right.ptr <= k - size)
        BY <1>2, <4>1, SMTT(30)
      <4>. QED  BY <1>2, <2>1, <4>2
    <3>. QED  BY <3>1, <3>2
  <2>. QED  BY <2>2, <2>3 DEF Winner, node
<1>6. CASE ~(right.max > left.max)
  <2>1. node.max = left.max /\ node.ptr = left.ptr
    BY <1>6 DEF Join, greater_than
  <2> HIDE DEF node
  <2>2. node.ptr \in 0 .. 2 * size - 1 /\ node.max = values[base + node.ptr]
    BY <1>1, <2>1
  <2>3. ASSUME NEW k \in 0 .. 2 * size - 1
        PROVE  /\ values[base + k] <= node.max
               /\ values[base + k] = node.max => node.ptr <= k
    <3>1. CASE k < size
      BY <1>1, <2>1, <3>1
    <3>2. CASE k >= size
      <4>1. k - size \in 0 .. size - 1 /\ base + size + (k - size) = base + k
        BY <3>2
      <4>2. values[base + k] <= right.max
        BY <1>2, <4>1, Zenon
      <4>3. values[base + k] \in Nat
        OBVIOUS
      <4>. QED  BY <1>1, <1>3, <1>4, <1>6, <2>1, <3>2, <4>2, <4>3
    <3>. QED  BY <3>1, <3>2
  <2>. QED  BY <2>2, <2>3 DEF Winner, node
<1>. QED  BY <1>3, <1>4, <1>5, <1>6

(* Every node of every stage stands for the values below it.               *)
LEMMA StageWinners ==
  ASSUME NEW width \in Nat,
         NEW values \in [0 .. PowersOfTwo(width)[width] - 1 -> Nat], NEW stage \in 0 .. width,
         NEW j \in 0 .. PowersOfTwo(width)[width - stage] - 1
  PROVE  Winner(Stages(values, width)[stage][j], values,
                j * PowersOfTwo(width)[stage], PowersOfTwo(width)[stage])
<1> DEFINE pow == PowersOfTwo(width)
           st  == Stages(values, width)
           Holds(s) == \A i \in 0 .. pow[width - s] - 1 : Winner(st[s][i], values, i * pow[s], pow[s])
           S   == {s \in 0 .. width : Holds(s)}
<1>1. pow \in [0 .. width -> Nat \ {0}] /\ pow[0] = 1
  BY PowersType, PowersZero, Zenon
<1>2. \A k \in 0 .. width - 1 : pow[k + 1] = 2 * pow[k]
  BY PowersStep, Zenon
<1>3. \A k \in 0 .. width : pow[width - k] * pow[k] = pow[width]
  BY PowersProduct, Zenon
<1>4. st = [s \in 0 .. width |-> IF s = 0 THEN InputNodes(values, width)
                                 ELSE Joined(st[s - 1], s, width)]
  BY StagesDefined, Zenon
<1>5. values \in [0 .. pow[width] - 1 -> Nat]
  OBVIOUS
<1>6. InputNodes(values, width) = [k \in 0 .. pow[width] - 1 |-> [max |-> values[k], ptr |-> 0]]
  BY Zenon DEF InputNodes
<1>7. \A n, s : Joined(n, s, width) = [i \in 0 .. pow[width - s] - 1 |->
                                         Join(n[2 * i + 1], n[2 * i], pow[s - 1])]
  BY Zenon DEF Joined
<1> HIDE DEF pow, st
<1>8. 0 \in S
  <2>1. st[0] = InputNodes(values, width)
    BY <1>4
  <2>2. ASSUME NEW i \in 0 .. pow[width - 0] - 1
        PROVE  Winner(st[0][i], values, i * pow[0], pow[0])
    <3>1. i \in 0 .. pow[width] - 1 /\ width \in 0 .. width /\ pow[width] \in Nat
      BY <1>1
    <3>2. st[0][i] = [max |-> values[i], ptr |-> 0]
      BY <1>6, <2>1, <3>1
    <3>3. i * pow[0] = i /\ pow[0] - 1 = 0 /\ i \in Nat /\ values[i] \in Nat
      <4>1. i \in Nat
        BY <3>1
      <4>2. i * 1 = i /\ 1 - 1 = 0
        BY <4>1
      <4>. QED  BY <1>1, <1>5, <3>1, <4>1, <4>2, Zenon
    <3>. QED  BY <1>1, <3>2, <3>3 DEF Winner
  <2>. QED  BY <2>2
<1>9. ASSUME NEW s \in 0 .. width - 1, s \in S
      PROVE  s + 1 \in S
  <2>1. s + 1 \in 0 .. width /\ s + 1 # 0 /\ s + 1 - 1 = s /\ s \in 0 .. width
        /\ width - (s + 1) \in 0 .. width - 1 /\ width - (s + 1) + 1 = width - s
    OBVIOUS
  <2>2. st[s + 1] = Joined(st[s], s + 1, width)
    BY <1>4, <2>1
  <2>3. pow[s + 1] = 2 * pow[s] /\ pow[width - s] = 2 * pow[width - (s + 1)]
    BY <1>2, <2>1
  <2>4. pow[s] \in Nat \ {0} /\ pow[width - (s + 1)] \in Nat \ {0} /\ pow[width - s] \in Nat
        /\ pow[width] \in Nat
    BY <1>1, <2>1
  <2>5. ASSUME NEW i \in 0 .. pow[width - (s + 1)] - 1
        PROVE  Winner(st[s + 1][i], values, i * pow[s + 1], pow[s + 1])
    <3>1. 2 * i \in 0 .. pow[width - s] - 1 /\ 2 * i + 1 \in 0 .. pow[width - s] - 1
      BY <2>3, <2>4, SMTT(30)
    <3>2. Winner(st[s][2 * i], values, (2 * i) * pow[s], pow[s])
          /\ Winner(st[s][2 * i + 1], values, (2 * i + 1) * pow[s], pow[s])
      BY <1>9, <3>1
    <3>3. i \in Nat /\ i <= pow[width - (s + 1)] - 1
      BY <2>4
    <3>5. ASSUME NEW n \in Nat, NEW p \in Nat, NEW q \in Nat, n <= q - 1
          PROVE  (2 * n) * p + 2 * p <= (2 * q) * p
      <4>1. PICK r \in Nat : q = n + 1 + r
        <5>1. q - n - 1 \in Nat /\ q = n + 1 + (q - n - 1)
          BY <3>5
        <5>. QED  BY <5>1
      <4>2. (2 * q) * p = (2 * n) * p + 2 * p + 2 * (r * p) /\ r * p \in Nat
        BY <4>1
      <4>. QED  BY <4>2
    <3>6. (2 * i) * pow[s] + 2 * pow[s] <= pow[width]
      <4>1. pow[width - s] * pow[s] = pow[width]
        BY <1>3, <2>1
      <4>2. (2 * i) * pow[s] + 2 * pow[s] <= (2 * pow[width - (s + 1)]) * pow[s]
        BY <2>4, <3>3, <3>5, Zenon
      <4>. QED  BY <2>3, <4>1, <4>2
    <3>7. ASSUME NEW b \in Nat, b = (2 * i) * pow[s]
          PROVE  \A k \in b .. b + 2 * pow[s] - 1 : values[k] \in Nat
      <4>1. ASSUME NEW p \in Nat, NEW w \in Nat, b + 2 * p <= w, NEW k \in b .. b + 2 * p - 1
            PROVE  k \in 0 .. w - 1
        BY <4>1
      <4>2. pow[s] \in Nat /\ pow[width] \in Nat /\ b + 2 * pow[s] <= pow[width]
        BY <2>4, <3>6, <3>7, Zenon
      <4>3. \A k \in b .. b + 2 * pow[s] - 1 : k \in 0 .. pow[width] - 1
        BY <4>1, <4>2, Zenon
      <4>. QED  BY <1>5, <4>3, Zenon
    <3>8. (2 * i) * pow[s] \in Nat /\ (2 * i + 1) * pow[s] = (2 * i) * pow[s] + pow[s]
          /\ i * pow[s + 1] = (2 * i) * pow[s]
      <4>1. PICK n \in Nat, p \in Nat : n = i /\ p = pow[s]
        BY <2>4, <3>3, Zenon
      <4>2. (2 * n) * p \in Nat /\ (2 * n + 1) * p = (2 * n) * p + p /\ n * (2 * p) = (2 * n) * p
        OBVIOUS
      <4>. QED  BY <2>3, <4>1, <4>2
    <3>9. Winner(Join(st[s][2 * i + 1], st[s][2 * i], pow[s]), values,
                 (2 * i) * pow[s], 2 * pow[s])
      <4>1. PICK b \in Nat : b = (2 * i) * pow[s]
        BY <3>8
      <4>2. \A k \in b .. b + 2 * pow[s] - 1 : values[k] \in Nat
        BY <3>7, <4>1
      <4>3. Winner(st[s][2 * i], values, b, pow[s]) /\ Winner(st[s][2 * i + 1], values, b + pow[s], pow[s])
        BY <3>2, <3>8, <4>1
      <4>4. pow[s] \in Nat
        BY <2>4
      <4>5. Winner(Join(st[s][2 * i + 1], st[s][2 * i], pow[s]), values, b, 2 * pow[s])
        BY <4>2, <4>3, <4>4, JoinWinner, Zenon
      <4>. QED  BY <4>1, <4>5
    <3>10. st[s + 1][i] = Join(st[s][2 * i + 1], st[s][2 * i], pow[s])
      <4>1. Joined(st[s], s + 1, width)[i] = Join(st[s][2 * i + 1], st[s][2 * i], pow[s + 1 - 1])
        BY DEF Joined, pow
      <4>. QED  BY <2>1, <2>2, <4>1, Zenon
    <3>. QED  BY <2>3, <3>8, <3>9, <3>10
  <2>. QED  BY <2>1, <2>5
<1>10. 0 .. width \subseteq S
  <2> HIDE DEF S
  <2>. QED  BY <1>8, <1>9, UpTo, Zenon
<1>11. Winner(st[stage][j], values, j * pow[stage], pow[stage])
  <2>1. Holds(stage) /\ j \in 0 .. pow[width - stage] - 1
    BY <1>10 DEF pow
  <2>. QED  BY <2>1
<1>. QED  BY <1>11 DEF pow, st

(* The tree over any number of ports: when a valid port has a value other  *)
(* than zero, the pointer names the first valid port with the largest      *)
(* value (max_finder_tree of max_finder_tree.v, the padding included).     *)
LEMMA PointerNamesMaximum ==
  ASSUME NEW count \in Nat, NEW width \in Nat, count <= PowersOfTwo(width)[width],
         NEW vals \in [0 .. count - 1 -> Nat], NEW used \in SUBSET (0 .. count - 1),
         max_valid(vals, used, count)
  PROVE  LET m == max_ptr(vals, used, count, width)
         IN /\ m \in used
            /\ vals[m] # 0
            /\ \A i \in used : vals[i] <= vals[m]
            /\ \A i \in used : vals[i] = vals[m] => m <= i
<1> DEFINE pow    == PowersOfTwo(width)
           masked == masked_values(vals, used, 0 .. count - 1)
           padded == [i \in 0 .. pow[width] - 1 |-> IF i < count THEN masked[i] ELSE 0]
           node   == Stages(padded, width)[width][0]
           m      == max_ptr(vals, used, count, width)
<1>1. pow \in [0 .. width -> Nat \ {0}] /\ pow[0] = 1
  BY PowersType, PowersZero, Zenon
<1>2. pow[width] \in Nat \ {0} /\ width \in 0 .. width /\ width - width = 0
      /\ 0 \in 0 .. pow[width - width] - 1 /\ 0 * pow[width] = 0 /\ count <= pow[width]
  <2>1. width \in 0 .. width /\ width - width = 0 /\ 0 \in 0 .. 1 - 1
    OBVIOUS
  <2>2. pow[width] \in Nat \ {0}
    BY <1>1, <2>1, Zenon
  <2>3. 0 * pow[width] = 0
    BY <2>2
  <2>. QED  BY <1>1, <2>1, <2>2, <2>3, Zenon
<1>3. masked \in [0 .. count - 1 -> Nat]
      /\ \A i \in 0 .. count - 1 : masked[i] = IF i \in used THEN vals[i] ELSE 0
  BY DEF masked_values
<1>4. m = node.ptr
  BY DEF max_ptr, max_finder_tree_pow_of_2
<1> HIDE DEF pow, masked
<1>5. padded \in [0 .. pow[width] - 1 -> Nat]
  BY <1>3
<1>6. Winner(node, padded, 0, pow[width])
  <2> HIDE DEF padded
  <2>1. Winner(Stages(padded, width)[width][0], padded, 0 * pow[width], pow[width])
    BY <1>2, <1>5, StageWinners, Zenon DEF pow
  <2>. QED  BY <1>2, <2>1
<1> HIDE DEF node, m
<1>7. /\ m \in 0 .. pow[width] - 1 /\ node.max = padded[0 + m] /\ 0 + m = m
      /\ \A k \in 0 .. pow[width] - 1 : /\ padded[k] <= padded[m]
                                        /\ padded[k] = padded[m] => m <= k
  <2> HIDE DEF padded
  <2>1. /\ m \in 0 .. pow[width] - 1 /\ node.max = padded[0 + m]
        /\ \A k \in 0 .. pow[width] - 1 : /\ padded[0 + k] <= node.max
                                          /\ padded[0 + k] = node.max => m <= k
    BY <1>4, <1>6, Zenon DEF Winner
  <2>2. \A k \in 0 .. pow[width] - 1 : 0 + k = k
    BY <1>2
  <2>3. 0 + m = m
    BY <2>1, <2>2, Zenon
  <2>4. ASSUME NEW k \in 0 .. pow[width] - 1
        PROVE  padded[k] <= padded[m] /\ (padded[k] = padded[m] => m <= k)
    <3>1. padded[0 + k] <= node.max /\ (padded[0 + k] = node.max => m <= k)
      BY <2>1, Zenon
    <3>2. 0 + k = k
      BY <2>2, Zenon
    <3>. QED  BY <2>1, <2>3, <3>1, <3>2, Zenon
  <2>. QED  BY <2>1, <2>3, <2>4, Zenon
<1>8. PICK i \in 0 .. count - 1 : masked[i] # 0
  BY DEF max_valid, masked
<1>9. padded[m] > 0
  <2>1. i \in 0 .. pow[width] - 1 /\ padded[i] = masked[i] /\ masked[i] > 0 /\ 0 + i = i
    BY <1>2, <1>3, <1>8
  <2>2. padded[m] \in Nat /\ 0 + m = m
    BY <1>2, <1>5, <1>7
  <2> HIDE DEF padded
  <2>3. padded[i] <= padded[m]
    BY <1>7, <2>1, Zenon
  <2>. QED  BY <1>3, <2>1, <2>2, <2>3
<1>10. m \in 0 .. count - 1 /\ padded[m] = masked[m] /\ m \in used /\ vals[m] = padded[m]
  <2>1. m < count
    BY <1>2, <1>7, <1>9
  <2>2. m \in 0 .. count - 1 /\ padded[m] = masked[m]
    BY <1>2, <1>7, <2>1
  <2> HIDE DEF padded
  <2>3. m \in used
    BY <1>3, <1>9, <2>2
  <2>. QED  BY <1>3, <2>2, <2>3
<1>11. ASSUME NEW k \in used
       PROVE  vals[k] <= vals[m] /\ (vals[k] = vals[m] => m <= k)
  <2>1. k \in 0 .. count - 1 /\ k \in 0 .. pow[width] - 1
    BY <1>2
  <2>2. padded[k] = vals[k] /\ 0 + k = k /\ 0 + m = m
    BY <1>2, <1>3, <1>7, <2>1
  <2> HIDE DEF padded
  <2>. QED  BY <1>7, <1>10, <2>1, <2>2, Zenon
<1>. QED
  <2>1. vals[m] # 0
    BY <1>9, <1>10
  <2>. QED  BY <1>10, <1>11, <2>1, Zenon DEF m

=============================================================================
