---------------------------- MODULE Descriptors ----------------------------
(***************************************************************************)
(* Descriptors: a slot of a core.  Slots are numbered from 1; slot 0 is    *)
(* used where a packet has no slot.                                        *)
(***************************************************************************)
EXTENDS Integers, Sequences, FiniteSets

CONSTANTS
  CORE_COUNT,
  SLOT_COUNT

ASSUME CountsAssumption == CORE_COUNT \in Nat \ {0} /\ SLOT_COUNT \in Nat \ {0}

Cores == 0 .. CORE_COUNT - 1
Slots == 1 .. SLOT_COUNT
Descs == [core : Cores, slot : Slots]

NoDesc == [core |-> 0, slot |-> 0]
=============================================================================
