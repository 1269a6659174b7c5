--------------------------- MODULE MaxFinderTree ---------------------------
(***************************************************************************)
(* max_finder_tree.v as a unit of its own.  It has no state: values and    *)
(* valids are its input pins, which take any value in any cycle.           *)
(***************************************************************************)
EXTENDS MaxFinder

CONSTANTS
  PORT_COUNT,
  ADDR_WIDTH,   \* $clog2(PORT_COUNT)
  MaxValue      \* the largest value a port shows

(* The tree has a last stage: int_max[PORT_COUNT-2].                       *)
ASSUME TreeAssumption ==
  /\ {PORT_COUNT, ADDR_WIDTH, MaxValue} \subseteq Nat /\ 2 <= PORT_COUNT
  /\ PORT_COUNT <= PowersOfTwo(ADDR_WIDTH)[ADDR_WIDTH]

VARIABLES values, valids

tree == <<values, valids>>

Inports == 0 .. PORT_COUNT - 1

TreeInputs == values \in [Inports -> 0 .. MaxValue] /\ valids \in SUBSET Inports

(* The selected core is one that may be used and has at least as many free *)
(* slots as any other such core; among equals the lowest number wins       *)
(* (max_finder_tree, core_selector of lb_rr_lu.v).                         *)
FindsMaximum ==
  max_valid(values, valids, PORT_COUNT) =>
    LET m == max_ptr(values, valids, PORT_COUNT, ADDR_WIDTH)
    IN /\ m \in valids
       /\ \A i \in valids : values[i] <= values[m]
       /\ \A i \in valids : values[i] = values[m] => m <= i
=============================================================================
