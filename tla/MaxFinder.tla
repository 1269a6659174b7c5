------------------------------ MODULE MaxFinder ------------------------------
(***************************************************************************)
(* max_finder_tree.v: the comparator tree that picks the core with the     *)
(* most free slots.  Ports that are not valid count as zero.               *)
(***************************************************************************)
EXTENDS Integers

\* One comparator: the right input wins only when it is greater.
greater_thanOrEqual(a, b) == a >= b

greater_than(a, b) == a > b

(* A node of a stage joins the nodes left and right of the stage before;   *)
(* the pointer gains one bit, set when the right one wins.                 *)
Join(right, left, bit) ==
  IF greater_than(right.max, left.max)
  THEN [max |-> right.max, ptr |-> bit + right.ptr]
  ELSE [max |-> left.max, ptr |-> left.ptr]

(* The powers of two up to 2^width, as a function of the exponent.         *)
PowersOfTwo(width) ==
  LET pow[n \in 0 .. width] == IF n = 0 THEN 1 ELSE 2 * pow[n - 1]
  IN pow

(* The inputs of the tree over values[0 .. 2^width - 1], and the nodes of  *)
(* a stage over those of the stage before.                                 *)
InputNodes(values, width) ==
  [k \in 0 .. PowersOfTwo(width)[width] - 1 |-> [max |-> values[k], ptr |-> 0]]

Joined(nodes, stage, width) ==
  [j \in 0 .. PowersOfTwo(width)[width - stage] - 1 |->
     Join(nodes[2 * j + 1], nodes[2 * j], PowersOfTwo(width)[stage - 1])]

Stages(values, width) ==
  LET stages[stage \in 0 .. width] ==
        IF stage = 0 THEN InputNodes(values, width)
        ELSE Joined(stages[stage - 1], stage, width)
  IN stages

max_finder_tree_pow_of_2(values, width) == Stages(values, width)[width][0]

masked_values(values, valids, ports) ==
  [i \in ports |-> IF i \in valids THEN values[i] ELSE 0]

(* The count ports are padded with zeros to the power of two 2^width.      *)
max_ptr(values, valids, count, width) ==
  LET masked == masked_values(values, valids, 0 .. count - 1)
      padded == [i \in 0 .. PowersOfTwo(width)[width] - 1 |->
                   IF i < count THEN masked[i] ELSE 0]
  IN max_finder_tree_pow_of_2(padded, width).ptr

max_valid(values, valids, count) ==
  \E i \in 0 .. count - 1 :
    masked_values(values, valids, 0 .. count - 1)[i] # 0
=============================================================================
