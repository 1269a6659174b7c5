----------------------------- MODULE SlotKeeper -----------------------------
(***************************************************************************)
(* slot_keeper.v: the set of free packet slots that the load balancer      *)
(* keeps for one core.  One step is one rising clock edge: every register  *)
(* takes the value the nonblocking assignments give it from the registers  *)
(* and the input pins of the cycle that ends.                              *)
(*                                                                         *)
(* The environment drives the pins the way lb_controller.v does: a control *)
(* message either returns a slot or (re)initialises the slots, never both, *)
(* and any port may pop the slot on offer.  granted is an auxiliary        *)
(* variable: the slots handed out since the last initialisation and not    *)
(* returned yet.                                                           *)
(***************************************************************************)
EXTENDS Integers, FiniteSets

CONSTANTS
  SLOT_COUNT,   \* number of slots of a core
  SLOT_WIDTH    \* bits of a slot number

Slots == 1 .. SLOT_COUNT

\* last_valid_count and slot_count_r have SLOT_WIDTH + 1 bits.
CountMod == 2 ^ (SLOT_WIDTH + 1)

ASSUME SlotCountAssumption == SLOT_COUNT \in Nat \ {0}
ASSUME CountModAssumption  == CountMod \in Nat /\ CountMod > 2 * SLOT_COUNT

\* Counter arithmetic: n is at most one modulus away from the range.
Wrap(n) == IF n >= CountMod THEN n - CountMod
           ELSE IF n < 0 THEN n + CountMod ELSE n

VARIABLES
  occupied,           \* slots free to be handed out
  slot_err,           \* slots that were returned while free
  last_valid_count,   \* the count at which the last free slot leaves
  slot_count_r,
  valid_r,
  enq_err_r,
  granted             \* auxiliary: slots held outside the keeper

vars == <<occupied, slot_err, last_valid_count, slot_count_r, valid_r,
          enq_err_r, granted>>

-----------------------------------------------------------------------------
(* The input pins of a cycle.  slot_in = 0 is the "no slot" value.         *)

Inputs == [rst           : BOOLEAN,
           init_valid    : BOOLEAN,
           init_slots    : 0 .. SLOT_COUNT,
           slot_in_valid : BOOLEAN,
           slot_in       : 0 .. SLOT_COUNT,
           slot_out_pop  : BOOLEAN]

selected_slot ==
  IF occupied = {} THEN 1
  ELSE CHOOSE s \in occupied : \A t \in occupied : s <= t

enque(pins) == pins.slot_in_valid /\ pins.slot_in # 0
deque(pins) == valid_r /\ pins.slot_out_pop

Duplicate(pins) == enque(pins) /\ pins.slot_in \in occupied

Entering(pins) == IF enque(pins) THEN {pins.slot_in} ELSE {}
Leaving(pins)  == IF deque(pins) THEN {selected_slot} ELSE {}

(* Mutant of OccupiedStep: the popped slot stays free.                     *)
OccupiedStepNoClear(pins) ==
  occupied' = IF pins.rst THEN {}
              ELSE IF pins.init_valid THEN 1 .. pins.init_slots
              ELSE occupied \cup Entering(pins)

(* Bit vector of the free slots.  The clear of the popped slot is written  *)
(* after the set of the returned one and wins when they are the same slot. *)
OccupiedStep(pins) ==
  occupied' = IF pins.rst THEN {}
              ELSE IF pins.init_valid THEN 1 .. pins.init_slots
              ELSE (occupied \cup Entering(pins)) \ Leaving(pins)

(* Mutant of ErrorStep: duplicates are flagged but not counted.            *)
ErrorStepUncounted(pins) ==
  /\ last_valid_count' = IF pins.rst \/ pins.init_valid THEN 1
                         ELSE last_valid_count
  /\ slot_err' = IF pins.rst \/ pins.init_valid THEN {}
                 ELSE IF Duplicate(pins) THEN slot_err \cup {pins.slot_in}
                 ELSE slot_err

(* The duplicates seen so far, as a bit vector and as a counter.           *)
ErrorStep(pins) ==
  IF pins.rst \/ pins.init_valid
  THEN slot_err' = {} /\ last_valid_count' = 1
  ELSE IF Duplicate(pins)
  THEN /\ slot_err' = slot_err \cup {pins.slot_in}
       /\ last_valid_count' = Wrap(last_valid_count + 1)
  ELSE UNCHANGED <<slot_err, last_valid_count>>

(* The count and the valid flag.  The two ifs of the source are not joined *)
(* by an else: a pop in the cycle of an initialisation overrides the count *)
(* the initialisation loads, and overrides valid_r only when it takes the  *)
(* last slot of the old set.                                               *)
CountStep(pins) ==
  LET init == pins.init_valid
  IN  IF pins.rst
      THEN slot_count_r' = 0 /\ valid_r' = FALSE
      ELSE IF enque(pins) /\ ~deque(pins)
      THEN /\ slot_count_r' = Wrap(slot_count_r + 1)
           /\ valid_r' = TRUE
      ELSE IF ~enque(pins) /\ deque(pins)
      THEN /\ slot_count_r' = Wrap(slot_count_r - 1)
           /\ valid_r' = IF slot_count_r = last_valid_count THEN FALSE
                         ELSE IF init THEN pins.init_slots # 0
                         ELSE valid_r
      ELSE /\ slot_count_r' = IF init THEN pins.init_slots ELSE slot_count_r
           /\ valid_r' = IF init THEN pins.init_slots # 0 ELSE valid_r

ErrorFlagStep(pins) == enq_err_r' = (~pins.rst /\ slot_err # {})

GrantedStep(pins) ==
  granted' = IF pins.rst \/ pins.init_valid THEN {}
             ELSE (granted \ Entering(pins)) \cup Leaving(pins)

Clock(pins) ==
  /\ OccupiedStep(pins)
  /\ ErrorStep(pins)
  /\ CountStep(pins)
  /\ ErrorFlagStep(pins)
  /\ GrantedStep(pins)

-----------------------------------------------------------------------------
(* lb_controller.v derives enq_slot_v and init_slot_v from the type field  *)
(* of one message, so at most one of them is up.                           *)
OneMessage(pins) == ~(pins.slot_in_valid /\ pins.init_valid)

Init ==
  /\ occupied = {} /\ slot_err = {} /\ last_valid_count = 1
  /\ slot_count_r = 0 /\ valid_r = FALSE /\ enq_err_r = FALSE
  /\ granted = {}

(* A slot that is already free may come back, but not in the very cycle of *)
(* a pop, and a core initialises its slots while none is on offer (after   *)
(* reset, or after the host flushed the keeper): slot_keeper.v does not    *)
(* handle these two collisions.                                            *)
Next ==
  \E pins \in Inputs :
    /\ OneMessage(pins)
    /\ Duplicate(pins) => ~deque(pins)
    /\ pins.init_valid => ~valid_r
    /\ Clock(pins)

Spec == Init /\ [][Next]_vars

-----------------------------------------------------------------------------
TypeOK ==
  /\ occupied \subseteq Slots
  /\ slot_err \subseteq Slots
  /\ last_valid_count \in 0 .. CountMod - 1
  /\ slot_count_r \in 0 .. CountMod - 1
  /\ valid_r \in BOOLEAN
  /\ enq_err_r \in BOOLEAN
  /\ granted \subseteq Slots

(* The count runs ahead of the free slots by the duplicates seen, and a    *)
(* slot is on offer exactly when one is free: what last_valid_count is     *)
(* kept for.                                                               *)
CountTracksFree ==
  /\ slot_count_r = Wrap(Cardinality(occupied) + last_valid_count - 1)
  /\ valid_r <=> occupied # {}

(* What the policy modules rely on: no slot is both on offer and with a    *)
(* packet, and as long as no duplicate is flagged the count they rank the  *)
(* cores by is the number of free slots.                                   *)
NoDoubleGrant ==
  /\ occupied \cap granted = {}
  /\ slot_err = {} => slot_count_r = Cardinality(occupied)
=============================================================================
