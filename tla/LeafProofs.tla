----------------------------- MODULE LeafProofs -----------------------------
(***************************************************************************)
(* Proofs about the small components: basic_fifo.v for every memory size,  *)
(* slot_keeper.v for every number of slots, and max_finder_tree.v for      *)
(* every number of ports, from the lemmas of MaxFinderProofs.              *)
(***************************************************************************)
EXTENDS BasicFifo, SlotKeeper, MaxFinderTree, MaxFinderProofs, SequenceTheorems,
        FiniteSetTheorems

-----------------------------------------------------------------------------
(* basic_fifo.v: its registered flags agree with its contents, and it      *)
(* implements a bounded queue.                                             *)

Inv == FifoTypeOK /\ FlagsAgree

LEMMA Ptr == ASSUME NEW p \in Pointers PROVE Plus1(p) \in Pointers
BY SizeAssumption DEF Pointers, Plus1

LEMMA InitInv == FifoInit => Inv
<1> SUFFICES ASSUME FifoInit PROVE Inv
  OBVIOUS
<1>1. 0 \in Pointers /\ 0 \in 0 .. Size /\ Size # 0 /\ 0 + 0 < Size
  BY SizeAssumption DEF Pointers
<1>2. FifoTypeOK
  BY <1>1, Zenon DEF FifoInit, FifoTypeOK
<1>3. FlagsAgree
  BY <1>1 DEF FifoInit, FlagsAgree, Entry
<1> QED
  BY <1>2, <1>3 DEF Inv

(* What one cycle does to the registers, by the kind of cycle.             *)
Idle     == UNCHANGED <<mem, rptr, wptr, item_count_r>>
DoPut(d)  == /\ wptr' = Plus1(wptr) /\ mem' = [mem EXCEPT ![wptr] = d]
             /\ item_count_r' = item_count_r + 1 /\ UNCHANGED rptr
DoTake    == /\ rptr' = Plus1(rptr) /\ item_count_r' = item_count_r - 1
             /\ UNCHANGED <<mem, wptr>>
DoBoth(d) == /\ wptr' = Plus1(wptr) /\ mem' = [mem EXCEPT ![wptr] = d]
             /\ rptr' = Plus1(rptr) /\ UNCHANGED item_count_r
DoClear   == wptr' = 0 /\ rptr' = 0 /\ mem' = mem /\ item_count_r' = 0

(* A cycle is a clear, idle, a put, a take or both, and only a FIFO with   *)
(* room takes a word, only one with a word gives one.                      *)
LEMMA Kinds ==
  ASSUME Inv, NEW pins \in FifoInputs, FifoClock(pins)
  PROVE  \/ DoClear /\ n_full' = FALSE /\ n_empty' = FALSE
         \/ /\ Idle /\ UNCHANGED n_empty
            /\ \/ UNCHANGED n_full
               \/ n_full' = TRUE /\ n_full = FALSE /\ n_empty = FALSE
         \/ /\ DoPut(pins.din) /\ item_count_r < Size
            /\ n_empty' = TRUE /\ n_full' = (Plus1(wptr) # rptr)
         \/ /\ DoTake /\ item_count_r > 0
            /\ n_full' = TRUE /\ n_empty' = (Plus1(rptr) # wptr)
         \/ /\ DoBoth(pins.din) /\ item_count_r < Size /\ item_count_r > 0
            /\ UNCHANGED <<n_full, n_empty>>
<1> USE DEF Inv
<1>0. n_full \in BOOLEAN /\ n_empty \in BOOLEAN /\ pins.din_valid \in BOOLEAN
      /\ pins.dout_ready \in BOOLEAN /\ pins.clear \in BOOLEAN
  BY DEF FifoTypeOK, FifoInputs
<1>1. (n_full => item_count_r < Size) /\ (n_empty => item_count_r > 0)
  BY SizeAssumption DEF FifoTypeOK, FlagsAgree
<1>2. CASE pins.clear
  BY <1>2 DEF FifoClock, PointerStep, FlagStep, ItemCountStep, DoClear
<1>3. CASE ~pins.clear /\ fifo_enque(pins) /\ fifo_deque(pins)
  <2>1. n_full /\ n_empty
    BY <1>3 DEF fifo_enque, fifo_deque, din_ready, dout_valid
  <2> QED
    BY <1>0, <1>1, <1>3, <2>1, Zenon DEF FifoClock, PointerStep, FlagStep, ItemCountStep, DoBoth
<1>4. CASE ~pins.clear /\ fifo_enque(pins) /\ ~fifo_deque(pins)
  <2>1. n_full
    BY <1>4 DEF fifo_enque, din_ready
  <2> QED
    BY <1>0, <1>1, <1>4, <2>1, Zenon DEF FifoClock, PointerStep, FlagStep, ItemCountStep, DoPut
<1>5. CASE ~pins.clear /\ ~fifo_enque(pins) /\ fifo_deque(pins)
  <2>1. n_empty
    BY <1>5 DEF fifo_deque, dout_valid
  <2> QED
    BY <1>0, <1>1, <1>5, <2>1, Zenon DEF FifoClock, PointerStep, FlagStep, ItemCountStep, DoTake
<1>6. CASE ~pins.clear /\ ~fifo_enque(pins) /\ ~fifo_deque(pins)
  <2>1. Idle
    BY <1>6 DEF FifoClock, PointerStep, ItemCountStep, Idle
  <2>2. /\ UNCHANGED n_empty
        /\ \/ UNCHANGED n_full
           \/ n_full' = TRUE /\ ~n_full /\ ~n_empty
    <3>1. fifo_enque(pins) = FALSE /\ fifo_deque(pins) = FALSE
      BY <1>0, <1>6 DEF fifo_enque, fifo_deque, din_ready, dout_valid
    <3> QED
      BY <1>6, <3>1, Zenon DEF FifoClock, FlagStep
  <2> QED
    BY <1>0, <2>1, <2>2, Zenon
<1> QED
  BY <1>2, <1>3, <1>4, <1>5, <1>6, Zenon

LEMMA StepInv == Inv /\ [FifoNext]_fifoVars => Inv'
<1> SUFFICES ASSUME Inv, [FifoNext]_fifoVars PROVE Inv'
  OBVIOUS
<1>1. CASE UNCHANGED fifoVars
  BY <1>1 DEF fifoVars, Inv, FifoTypeOK, FlagsAgree
<1>2. CASE FifoNext
  <2>1. PICK pins \in FifoInputs : FifoClock(pins)
    BY <1>2 DEF FifoNext
  <2>2. /\ rptr \in Pointers /\ wptr \in Pointers /\ item_count_r \in 0 .. Size
        /\ mem \in [Pointers -> Data] /\ n_full \in BOOLEAN /\ n_empty \in BOOLEAN
        /\ pins.din \in Data
    BY <2>1 DEF Inv, FifoTypeOK, FifoInputs
  <2>3. CASE DoClear /\ n_full' = FALSE /\ n_empty' = FALSE
    <3>1. 0 \in Pointers /\ 0 \in 0 .. Size /\ Size # 0 /\ 0 + 0 < Size
      BY SizeAssumption DEF Pointers
    <3>2. FifoTypeOK'
      BY <2>2, <2>3, <3>1, Zenon DEF DoClear, FifoTypeOK
    <3>3. FlagsAgree'
      BY <2>3, <3>1 DEF DoClear, FlagsAgree, Entry
    <3> QED
      BY <3>2, <3>3 DEF Inv
  <2>4. CASE /\ Idle /\ UNCHANGED n_empty
             /\ \/ UNCHANGED n_full
                \/ n_full' = TRUE /\ n_full = FALSE /\ n_empty = FALSE
    <3>1. FifoTypeOK'
      BY <2>2, <2>4, Zenon DEF Idle, FifoTypeOK
    <3>2. FlagsAgree'
      BY <2>2, <2>4, SizeAssumption DEF Inv, Idle, FlagsAgree, Entry
    <3> QED
      BY <3>1, <3>2 DEF Inv
  <2>5. CASE /\ DoPut(pins.din) /\ item_count_r < Size
             /\ n_empty' = TRUE /\ n_full' = (Plus1(wptr) # rptr)
    <3>1. /\ wptr' \in Pointers /\ item_count_r' \in 0 .. Size
          /\ mem' \in [Pointers -> Data]
      BY <2>2, <2>5, Ptr, SizeAssumption DEF DoPut
    <3>2. n_full' \in BOOLEAN /\ n_empty' \in BOOLEAN
      BY <2>5, Zenon
    <3>3. FifoTypeOK'
      BY <2>2, <2>5, <3>1, <3>2, Zenon DEF DoPut, FifoTypeOK
    <3>4. wptr' = Entry(rptr', item_count_r')
      BY <2>2, <2>5, SizeAssumption DEF Inv, DoPut, FlagsAgree, Entry, Plus1, Pointers
    <3>5. item_count_r' # 0 /\ (Plus1(wptr) = rptr <=> item_count_r' = Size)
      BY <2>2, <2>5, SizeAssumption DEF Inv, DoPut, FlagsAgree, Entry, Plus1, Pointers
    <3>6. FlagsAgree'
      BY <2>5, <3>4, <3>5, Zenon DEF FlagsAgree
    <3> QED
      BY <3>3, <3>6 DEF Inv
  <2>6. CASE /\ DoTake /\ item_count_r > 0
             /\ n_full' = TRUE /\ n_empty' = (Plus1(rptr) # wptr)
    <3>1. rptr' \in Pointers /\ item_count_r' \in 0 .. Size
      BY <2>2, <2>6, Ptr, SizeAssumption DEF DoTake
    <3>2. n_full' \in BOOLEAN /\ n_empty' \in BOOLEAN
      BY <2>6, Zenon
    <3>3. FifoTypeOK'
      BY <2>2, <2>6, <3>1, <3>2, Zenon DEF DoTake, FifoTypeOK
    <3>4. wptr' = Entry(rptr', item_count_r')
      BY <2>2, <2>6, SizeAssumption DEF Inv, DoTake, FlagsAgree, Entry, Plus1, Pointers
    <3>5. item_count_r' # Size /\ (Plus1(rptr) = wptr <=> item_count_r' = 0)
      BY <2>2, <2>6, SizeAssumption DEF Inv, DoTake, FlagsAgree, Entry, Plus1, Pointers
    <3>6. FlagsAgree'
      BY <2>6, <3>4, <3>5, Zenon DEF FlagsAgree
    <3> QED
      BY <3>3, <3>6 DEF Inv
  <2>7. CASE /\ DoBoth(pins.din) /\ item_count_r < Size /\ item_count_r > 0
             /\ UNCHANGED <<n_full, n_empty>>
    <3>1. /\ wptr' \in Pointers /\ rptr' \in Pointers
          /\ mem' \in [Pointers -> Data]
      BY <2>2, <2>7, Ptr DEF DoBoth
    <3>2. FifoTypeOK'
      BY <2>2, <2>7, <3>1, Zenon DEF DoBoth, FifoTypeOK
    <3>3. FlagsAgree'
      BY <2>2, <2>7, SizeAssumption DEF Inv, DoBoth, FlagsAgree, Entry, Plus1, Pointers
    <3> QED
      BY <3>2, <3>3 DEF Inv
  <2> QED
    BY <2>1, <2>3, <2>4, <2>5, <2>6, <2>7, Kinds, Zenon
<1> QED
  BY <1>1, <1>2

(* The registered n_full and n_empty of basic_fifo.v are right in every    *)
(* cycle, for every memory size.                                           *)
THEOREM FlagsAlwaysAgree == FifoSpec => [](FifoTypeOK /\ FlagsAgree)
<1>1. FifoSpec => []Inv
  BY InitInv, StepInv, PTL DEF FifoSpec
<1> QED
  BY <1>1, PTL DEF Inv

-----------------------------------------------------------------------------
(* The memory seen through Contents.                                       *)

ContentsOK ==
  /\ Contents \in Seq(Data)
  /\ Len(Contents) = item_count_r
  /\ \A i \in 1 .. item_count_r : Contents[i] = mem[Entry(rptr, i - 1)]

LEMMA ContentsSeq == Inv => ContentsOK
<1> SUFFICES ASSUME Inv PROVE ContentsOK
  OBVIOUS
<1>1. /\ rptr \in Pointers /\ item_count_r \in 0 .. Size
      /\ mem \in [Pointers -> Data]
  BY DEF Inv, FifoTypeOK
<1>2. \A i \in 1 .. item_count_r : Entry(rptr, i - 1) \in Pointers
  BY <1>1, SizeAssumption DEF Entry, Pointers
<1>3. Contents \in [1 .. item_count_r -> Data]
  BY <1>1, <1>2 DEF Contents
<1>4. item_count_r \in Nat
  BY <1>1, SizeAssumption
<1> QED
  BY <1>3, <1>4 DEF Contents, ContentsOK

LEMMA InitQueue == FifoInit => Fifo!Init
BY SizeAssumption DEF FifoInit, Fifo!Init, Contents

(* Each kind of cycle is a step of the bounded queue, or leaves it alone.  *)
LEMMA StepQueue ==
  ASSUME Inv, Inv', [FifoNext]_fifoVars
  PROVE  Fifo!Next \/ UNCHANGED Contents
<1>1. CASE UNCHANGED fifoVars
  BY <1>1 DEF fifoVars, Contents, Entry
<1>2. CASE FifoNext
  <2>1. PICK pins \in FifoInputs : FifoClock(pins)
    BY <1>2 DEF FifoNext
  <2>2. /\ rptr \in Pointers /\ wptr \in Pointers /\ item_count_r \in 0 .. Size
        /\ mem \in [Pointers -> Data] /\ pins.din \in Data
        /\ wptr = Entry(rptr, item_count_r)
    BY <2>1 DEF Inv, FifoTypeOK, FlagsAgree, FifoInputs
  <2>q. ContentsOK
    BY ContentsSeq
  <2>r. ContentsOK'
    BY ContentsSeq, PTL
  <2>3. CASE DoClear
    BY <2>3 DEF DoClear, Contents, Fifo!Next, Fifo!Clear
  <2>4. CASE Idle
    BY <2>4 DEF Idle, Contents, Entry
  <2>5. CASE DoPut(pins.din) /\ item_count_r < Size
    <3>1. \A i \in 1 .. item_count_r :
            Entry(rptr, i - 1) \in Pointers /\ Entry(rptr, i - 1) # wptr
      BY <2>2, <2>5, SizeAssumption DEF DoPut, Entry, Pointers
    <3>2. /\ item_count_r + 1 \in 1 .. item_count_r'
          /\ item_count_r + 1 - 1 = item_count_r
          /\ \A i \in 1 .. item_count_r : i \in 1 .. item_count_r'
      BY <2>2, <2>5, SizeAssumption DEF DoPut
    <3>3. mem'[wptr] = pins.din /\ \A p \in Pointers \ {wptr} : mem'[p] = mem[p]
      BY <2>2, <2>5 DEF DoPut
    <3>4. \A i \in 1 .. item_count_r : Contents'[i] = Contents[i]
      <4> TAKE i \in 1 .. item_count_r
      <4>1. Contents[i] = mem[Entry(rptr, i - 1)]
        BY <2>q DEF ContentsOK
      <4>2. Contents'[i] = mem'[Entry(rptr', i - 1)]
        BY <2>r, <3>2 DEF ContentsOK
      <4>3. rptr' = rptr
        BY <2>5 DEF DoPut
      <4> QED
        BY <3>1, <3>3, <4>1, <4>2, <4>3
    <3>5. Contents'[item_count_r + 1] = pins.din
      BY <2>2, <2>5, <2>r, <3>2, <3>3 DEF ContentsOK, DoPut
    <3>6. Contents' = Append(Contents, pins.din)
      BY <2>2, <2>5, <2>q, <2>r, <3>4, <3>5 DEF ContentsOK, DoPut
    <3> QED
      BY <2>2, <2>5, <2>q, <3>6 DEF ContentsOK, Fifo!Next, Fifo!Put
  <2>6. CASE DoTake /\ item_count_r > 0
    <3>1. \A i \in 1 .. item_count_r - 1 :
            /\ Entry(rptr', i - 1) = Entry(rptr, i + 1 - 1)
            /\ i + 1 \in 1 .. item_count_r
            /\ i \in 1 .. item_count_r'
      BY <2>2, <2>6, SizeAssumption DEF DoTake, Entry, Pointers, Plus1
    <3>2. \A i \in 1 .. item_count_r - 1 : Contents'[i] = Contents[i + 1]
      <4> TAKE i \in 1 .. item_count_r - 1
      <4>1. Contents[i + 1] = mem[Entry(rptr, i + 1 - 1)]
        BY <2>q, <3>1 DEF ContentsOK
      <4>2. Contents'[i] = mem'[Entry(rptr', i - 1)]
        BY <2>r, <3>1 DEF ContentsOK
      <4>3. mem' = mem
        BY <2>6 DEF DoTake
      <4> QED
        BY <3>1, <4>1, <4>2, <4>3
    <3>3. Contents # <<>>
      BY <2>2, <2>6, <2>q DEF ContentsOK
    <3>4. Contents' = Tail(Contents)
      BY <2>2, <2>6, <2>q, <2>r, <3>2, <3>3 DEF ContentsOK, DoTake
    <3> QED
      BY <3>3, <3>4 DEF Fifo!Next, Fifo!Take
  <2>7. CASE DoBoth(pins.din) /\ item_count_r < Size /\ item_count_r > 0
    <3>1. \A i \in 1 .. item_count_r - 1 :
            /\ Entry(rptr', i - 1) = Entry(rptr, i + 1 - 1)
            /\ Entry(rptr, i + 1 - 1) \in Pointers /\ Entry(rptr, i + 1 - 1) # wptr
            /\ i + 1 \in 1 .. item_count_r
            /\ i \in 1 .. item_count_r'
      BY <2>2, <2>7, SizeAssumption DEF DoBoth, Entry, Pointers, Plus1
    <3>2. /\ Entry(rptr', item_count_r - 1) = wptr
          /\ item_count_r \in 1 .. item_count_r'
      BY <2>2, <2>7, SizeAssumption DEF DoBoth, Entry, Pointers, Plus1
    <3>3. mem'[wptr] = pins.din /\ \A p \in Pointers \ {wptr} : mem'[p] = mem[p]
      BY <2>2, <2>7 DEF DoBoth
    <3>4. \A i \in 1 .. item_count_r - 1 : Contents'[i] = Contents[i + 1]
      <4> TAKE i \in 1 .. item_count_r - 1
      <4>1. Contents[i + 1] = mem[Entry(rptr, i + 1 - 1)]
        BY <2>q, <3>1 DEF ContentsOK
      <4>2. Contents'[i] = mem'[Entry(rptr', i - 1)]
        BY <2>r, <3>1 DEF ContentsOK
      <4> QED
        BY <3>1, <3>3, <4>1, <4>2
    <3>5. Contents'[item_count_r] = pins.din
      BY <2>2, <2>7, <2>r, <3>2, <3>3 DEF ContentsOK, DoBoth
    <3>6. Contents # <<>>
      BY <2>2, <2>7, <2>q DEF ContentsOK
    <3>7. Contents' = Append(Tail(Contents), pins.din)
      BY <2>2, <2>7, <2>q, <2>r, <3>4, <3>5, <3>6 DEF ContentsOK, DoBoth
    <3> QED
      BY <2>2, <2>7, <2>q, <3>6, <3>7, SMTT(30) DEF ContentsOK, Fifo!Next, Fifo!PutTake
  <2> QED
    BY <2>1, <2>3, <2>4, <2>5, <2>6, <2>7, Kinds, Zenon
<1> QED
  BY <1>1, <1>2

(* basic_fifo.v implements a bounded queue: no word is lost, duplicated or *)
(* reordered between its din and dout handshakes, except by a clear.       *)
THEOREM FifoImplementsQueue == FifoSpec => ImplementsFifo
<1>1. FifoSpec => []Inv
  BY InitInv, StepInv, PTL DEF FifoSpec
<1>2. Inv /\ Inv' /\ [FifoNext]_fifoVars => [Fifo!Next]_Contents
  BY StepQueue
<1> QED
  BY <1>1, <1>2, InitQueue, PTL DEF FifoSpec, ImplementsFifo, Fifo!Spec

-----------------------------------------------------------------------------
(* slot_keeper.v                                                           *)

(* The slot on offer is a free one whenever some slot is free.             *)
LEMMA SelectedIsFree ==
  ASSUME occupied \subseteq Slots, occupied # {}
  PROVE  selected_slot \in occupied
<1>1. occupied \subseteq Nat
  BY SlotCountAssumption DEF Slots
<1>2. \E s \in occupied : \A t \in occupied : s <= t
  BY <1>1, NatMin, Zenon
<1>. QED  BY <1>2 DEF selected_slot

(* The slots an initialisation frees.                                      *)
LEMMA PrefixCardinality ==
  ASSUME NEW n \in Nat
  PROVE  Cardinality(1 .. n) = n /\ (1 .. n # {} <=> n # 0)
<1>1. Cardinality(1 .. n) = IF 1 > n THEN 0 ELSE n - 1 + 1
  BY FS_Interval
<1>2. Cardinality(1 .. n) = n
  BY <1>1
<1>. QED  BY <1>2

(* Sets of slots are finite and have at most SLOT_COUNT elements.          *)
LEMMA SlotSetCardinality ==
  ASSUME NEW S, S \subseteq Slots
  PROVE  /\ IsFiniteSet(S)
         /\ Cardinality(S) \in 0 .. SLOT_COUNT
         /\ Cardinality(S) = 0 <=> S = {}
         /\ Cardinality(S) = 1 => \A x \in S : S \ {x} = {}
         /\ \A x \in S : Cardinality(S) # 1 => S \ {x} # {}
<1>1. IsFiniteSet(Slots) /\ Cardinality(Slots) = SLOT_COUNT
  BY FS_Interval, SlotCountAssumption DEF Slots
<1>2. IsFiniteSet(S) /\ Cardinality(S) <= SLOT_COUNT
  BY <1>1, FS_Subset
<1>3. Cardinality(S) \in Nat
  BY <1>2, FS_CardinalityType
<1>4. Cardinality(S) = 0 <=> S = {}
  BY <1>2, FS_EmptySet
<1>5. \A x \in S : /\ IsFiniteSet(S \ {x})
                   /\ Cardinality(S \ {x}) = Cardinality(S) - 1
  BY <1>2, FS_RemoveElement
<1>6. \A x \in S : Cardinality(S \ {x}) = 0 <=> S \ {x} = {}
  BY <1>5, FS_EmptySet
<1>7. Cardinality(S) \in 0 .. SLOT_COUNT
  BY <1>2, <1>3, SlotCountAssumption
<1>8. ASSUME NEW x \in S
      PROVE  S \ {x} = {} <=> Cardinality(S) = 1
  <2>1. Cardinality(S \ {x}) = Cardinality(S) - 1
    BY <1>5
  <2>2. Cardinality(S \ {x}) = 0 <=> Cardinality(S) = 1
    BY <1>3, <2>1
  <2>. QED  BY <1>6, <2>2
<1>. QED  BY <1>2, <1>4, <1>7, <1>8

-----------------------------------------------------------------------------
(* One clock edge keeps the types, whatever the pins are.                  *)
LEMMA TypeStep ==
  ASSUME TypeOK, NEW pins \in Inputs, Clock(pins)
  PROVE  TypeOK'
<1>. USE SlotCountAssumption, CountModAssumption
<1>1. selected_slot \in Slots
  <2>1. CASE occupied = {}
    BY <2>1 DEF selected_slot, Slots
  <2>2. CASE occupied # {}
    BY <2>2, SelectedIsFree DEF TypeOK
  <2>. QED  BY <2>1, <2>2
<1>2. Entering(pins) \subseteq Slots
  BY DEF Entering, enque, Inputs, Slots
<1>3. Leaving(pins) \subseteq Slots
  BY <1>1 DEF Leaving
<1>4. pins.init_slots \in 0 .. SLOT_COUNT /\ pins.slot_in \in 0 .. SLOT_COUNT
  BY DEF Inputs
<1>5. occupied' \subseteq Slots /\ granted' \subseteq Slots
  <2>1. 1 .. pins.init_slots \subseteq Slots
    BY <1>4 DEF Slots
  <2>. QED  BY <1>2, <1>3, <2>1
            DEF Clock, OccupiedStep, GrantedStep, TypeOK
<1>6. slot_err' \subseteq Slots
  BY <1>4 DEF Clock, ErrorStep, Duplicate, TypeOK
<1>7. last_valid_count' \in 0 .. CountMod - 1
  BY DEF Clock, ErrorStep, Wrap, TypeOK
<1>8. slot_count_r' \in 0 .. CountMod - 1
  <2>1. pins.init_slots \in 0 .. CountMod - 1
    BY <1>4
  <2>2. slot_count_r \in 0 .. CountMod - 1
    BY DEF TypeOK
  <2>3. /\ Wrap(slot_count_r + 1) \in 0 .. CountMod - 1
        /\ Wrap(slot_count_r - 1) \in 0 .. CountMod - 1
        /\ 0 \in 0 .. CountMod - 1
    BY <2>2 DEF Wrap
  <2>. QED  BY <2>1, <2>2, <2>3, Zenon DEF Clock, CountStep
<1>9. valid_r' \in BOOLEAN /\ enq_err_r' \in BOOLEAN
  BY Zenon DEF Clock, CountStep, ErrorFlagStep, TypeOK
<1>. QED  BY <1>5, <1>6, <1>7, <1>8, <1>9 DEF TypeOK

-----------------------------------------------------------------------------
(* One clock edge keeps the count and the valid flag in step with the free *)
(* set, as long as a duplicate does not meet a pop and an initialisation   *)
(* does not meet an offer: the two collisions slot_keeper.v does not       *)
(* handle.                                                                 *)
LEMMA CountPreserved ==
  ASSUME TypeOK, CountTracksFree, NEW pins \in Inputs, Clock(pins),
         OneMessage(pins), Duplicate(pins) => ~deque(pins),
         pins.init_valid => ~valid_r
  PROVE  CountTracksFree'
<1>. USE SlotCountAssumption, CountModAssumption
<1>. DEFINE s == pins.slot_in
            c == Cardinality(occupied)
<1>1. /\ IsFiniteSet(occupied) /\ c \in 0 .. SLOT_COUNT
      /\ c = 0 <=> occupied = {}
  BY SlotSetCardinality DEF TypeOK
<1>2. pins.init_slots \in 0 .. SLOT_COUNT /\ s \in 0 .. SLOT_COUNT
  BY DEF Inputs
<1>3. /\ last_valid_count \in 0 .. CountMod - 1
      /\ slot_count_r \in 0 .. CountMod - 1
      /\ valid_r \in BOOLEAN
  BY DEF TypeOK
<1>4. slot_count_r = Wrap(c + last_valid_count - 1) /\ (valid_r <=> occupied # {})
  BY DEF CountTracksFree
<1>5. CASE pins.rst
  <2>1. /\ occupied' = {} /\ last_valid_count' = 1
        /\ slot_count_r' = 0 /\ valid_r' = FALSE
    BY <1>5 DEF Clock, OccupiedStep, ErrorStep, CountStep
  <2>2. Cardinality({}) = 0
    BY FS_EmptySet
  <2>. QED  BY <2>1, <2>2 DEF CountTracksFree, Wrap
<1>6. CASE ~pins.rst /\ pins.init_valid
  <2>1. ~enque(pins) /\ ~deque(pins)
    BY <1>6 DEF enque, deque, OneMessage
  <2>2. /\ occupied' = 1 .. pins.init_slots /\ last_valid_count' = 1
        /\ slot_count_r' = pins.init_slots
        /\ valid_r' = (pins.init_slots # 0)
    BY <1>6, <2>1 DEF Clock, OccupiedStep, ErrorStep, CountStep
  <2>3. /\ Cardinality(1 .. pins.init_slots) = pins.init_slots
        /\ 1 .. pins.init_slots # {} <=> pins.init_slots # 0
    BY <1>2, PrefixCardinality
  <2>4. Cardinality(occupied') = pins.init_slots
    BY <2>2, <2>3
  <2>5. slot_count_r' = Wrap(Cardinality(occupied') + last_valid_count' - 1)
    BY <1>2, <2>2, <2>4 DEF Wrap
  <2>6. valid_r' <=> occupied' # {}
    BY <2>2, <2>3, ZenonT(30)
  <2>. QED  BY <2>5, <2>6 DEF CountTracksFree
<1>7. CASE ~pins.rst /\ ~pins.init_valid /\ ~enque(pins) /\ ~deque(pins)
  BY <1>7, <1>4
  DEF Clock, OccupiedStep, ErrorStep, CountStep, Entering, Leaving,
      Duplicate, CountTracksFree
<1>8. CASE ~pins.rst /\ ~pins.init_valid /\ enque(pins) /\ ~deque(pins)
  <2>1. /\ occupied' = occupied \cup {s}
        /\ slot_count_r' = Wrap(slot_count_r + 1) /\ valid_r' = TRUE
    BY <1>8 DEF Clock, OccupiedStep, CountStep, Entering, Leaving
  <2>2. last_valid_count' = IF s \in occupied THEN Wrap(last_valid_count + 1)
                            ELSE last_valid_count
    BY <1>8 DEF Clock, ErrorStep, Duplicate
  <2>3. Cardinality(occupied \cup {s}) = IF s \in occupied THEN c ELSE c + 1
    BY <1>1, FS_AddElement, Zenon
  <2>4. s \in occupied => c # 0
    BY <1>1
  <2>. QED  BY <1>1, <1>3, <1>4, <2>1, <2>2, <2>3, <2>4
            DEF CountTracksFree, Wrap
<1>9. CASE ~pins.rst /\ ~pins.init_valid /\ ~enque(pins) /\ deque(pins)
  <2>1. valid_r /\ selected_slot \in occupied
    BY <1>9, <1>4, SelectedIsFree DEF deque, TypeOK
  <2>2. /\ occupied' = occupied \ {selected_slot}
        /\ last_valid_count' = last_valid_count
        /\ slot_count_r' = Wrap(slot_count_r - 1)
        /\ valid_r' = (slot_count_r # last_valid_count)
    BY <1>9, <2>1, ZenonT(30) DEF Clock, OccupiedStep, CountStep, ErrorStep, Duplicate, Entering, Leaving
  <2>3. Cardinality(occupied') = c - 1
    BY <1>1, <2>1, <2>2, FS_RemoveElement, SMTT(30)
  <2>4. slot_count_r' = Wrap(Cardinality(occupied') + last_valid_count' - 1)
    BY <1>1, <1>3, <1>4, <2>1, <2>2, <2>3 DEF Wrap
  <2>5. slot_count_r = last_valid_count <=> c = 1
    BY <1>1, <1>3, <1>4, <2>1 DEF Wrap
  <2>6. occupied' = {} <=> c = 1
    BY <2>1, <2>2, SlotSetCardinality DEF TypeOK
  <2>. QED  BY <2>2, <2>4, <2>5, <2>6, ZenonT(30) DEF CountTracksFree
<1>10. CASE ~pins.rst /\ ~pins.init_valid /\ enque(pins) /\ deque(pins)
  <2>1. valid_r /\ selected_slot \in occupied
    BY <1>10, <1>4, SelectedIsFree DEF deque, TypeOK
  <2>2. s \notin occupied
    BY <1>10 DEF Duplicate
  <2>3. /\ occupied' = (occupied \cup {s}) \ {selected_slot}
        /\ last_valid_count' = last_valid_count
        /\ slot_count_r' = slot_count_r
        /\ valid_r' = valid_r
    BY <1>10, <2>2
    DEF Clock, OccupiedStep, CountStep, ErrorStep, Duplicate, Entering, Leaving
  <2>4. /\ IsFiniteSet(occupied \cup {s})
        /\ Cardinality(occupied \cup {s}) = c + 1
    BY <1>1, <2>2, FS_AddElement
  <2>5. Cardinality(occupied') = Cardinality(occupied \cup {s}) - 1
    BY <2>1, <2>3, <2>4, FS_RemoveElement
  <2>6. Cardinality(occupied') = c
    BY <1>1, <2>4, <2>5
  <2>7. occupied' # {}
    BY <2>1, <2>2, <2>3
  <2>. QED  BY <1>4, <2>1, <2>3, <2>6, <2>7 DEF CountTracksFree
<1>. QED  BY <1>5, <1>6, <1>7, <1>8, <1>9, <1>10

-----------------------------------------------------------------------------
(* The registers after reset: no slot is free and none is on offer.        *)
LEMMA InitTracks == Init => TypeOK /\ CountTracksFree
<1>. SUFFICES ASSUME Init PROVE TypeOK /\ CountTracksFree
  OBVIOUS
<1>. USE SlotCountAssumption, CountModAssumption
<1>1. TypeOK
  <2>1. 0 \in 0 .. CountMod - 1 /\ 1 \in 0 .. CountMod - 1
    OBVIOUS
  <2>. QED  BY <2>1, Zenon DEF Init, TypeOK
<1>2. Cardinality(occupied) = 0
  BY FS_EmptySet DEF Init
<1>3. slot_count_r = Wrap(Cardinality(occupied) + last_valid_count - 1)
  BY <1>2 DEF Init, Wrap
<1>4. valid_r <=> occupied # {}
  BY DEF Init
<1>. QED  BY <1>1, <1>3, <1>4 DEF CountTracksFree

(* slot_keeper.v, always blocks: under any returns that do not collide     *)
(* with a pop, the count runs ahead of the free slots by the duplicates    *)
(* and a slot is on offer exactly when one is free.                        *)
THEOREM DuplicatesCounted == Spec => [](TypeOK /\ CountTracksFree)
<1>2. TypeOK /\ CountTracksFree /\ [Next]_vars
      => (TypeOK /\ CountTracksFree)'
  <2>1. ASSUME TypeOK, CountTracksFree, Next
        PROVE  (TypeOK /\ CountTracksFree)'
    BY <2>1, TypeStep, CountPreserved DEF Next
  <2>2. ASSUME TypeOK, CountTracksFree, UNCHANGED vars
        PROVE  (TypeOK /\ CountTracksFree)'
    BY <2>2 DEF vars, TypeOK, CountTracksFree
  <2>. QED  BY <2>1, <2>2
<1>. QED  BY <1>2, InitTracks, PTL DEF Spec

(* The inductive strengthening of NoDoubleGrant: the counter of the        *)
(* duplicates is still one while none is flagged.                          *)
GrantInv ==
  /\ TypeOK /\ CountTracksFree
  /\ slot_err = {} => last_valid_count = 1
  /\ occupied \cap granted = {}

LEMMA GrantInvImpliesGrant == GrantInv => NoDoubleGrant
<1>1. ASSUME GrantInv, slot_err = {}
      PROVE  slot_count_r = Cardinality(occupied)
  <2>1. Cardinality(occupied) \in 0 .. SLOT_COUNT
    BY <1>1, SlotSetCardinality DEF GrantInv, TypeOK
  <2>. QED  BY <1>1, <2>1, SlotCountAssumption, CountModAssumption
            DEF GrantInv, CountTracksFree, Wrap
<1>. QED  BY <1>1 DEF GrantInv, NoDoubleGrant

(* slot_keeper.v, always blocks: every slot has one owner, and the count   *)
(* is exact until a duplicate is flagged.                                  *)
THEOREM SlotsHaveOneOwner == Spec => []NoDoubleGrant
<1>1. Init => GrantInv
  BY InitTracks DEF Init, GrantInv
<1>2. GrantInv /\ [Next]_vars => GrantInv'
  <2>1. ASSUME GrantInv, NEW pins \in Inputs, OneMessage(pins),
               Duplicate(pins) => ~deque(pins), pins.init_valid => ~valid_r,
               Clock(pins)
        PROVE  GrantInv'
    <3>1. TypeOK' /\ CountTracksFree'
      BY <2>1, TypeStep, CountPreserved DEF GrantInv
    <3>2. slot_err' = {} => last_valid_count' = 1
      BY <2>1 DEF GrantInv, Clock, ErrorStep
    <3>3. occupied' \cap granted' = {}
      <4>1. deque(pins) => selected_slot \in occupied
        BY <2>1, SelectedIsFree DEF GrantInv, CountTracksFree, deque, TypeOK
      <4>2. Leaving(pins) \cap Entering(pins) = {}
        BY <2>1, <4>1 DEF Leaving, Entering, Duplicate
      <4>. QED  BY <2>1, <4>2
                DEF GrantInv, Clock, OccupiedStep, GrantedStep
    <3>. QED  BY <3>1, <3>2, <3>3 DEF GrantInv
  <2>2. ASSUME GrantInv, UNCHANGED vars
        PROVE  GrantInv'
    BY <2>2 DEF vars, GrantInv, TypeOK, CountTracksFree
  <2>. QED  BY <2>1, <2>2 DEF Next
<1>. QED  BY <1>1, <1>2, GrantInvImpliesGrant, PTL DEF Spec

-----------------------------------------------------------------------------
(* max_finder_tree.v                                                       *)

(* max_finder_tree.v selects the first valid port with the largest value,  *)
(* for every number of ports, whatever its inputs do.                      *)
THEOREM TreeFindsMaximum == []TreeInputs => []FindsMaximum
<1>1. TreeInputs => FindsMaximum
  <2> SUFFICES ASSUME TreeInputs, max_valid(values, valids, PORT_COUNT)
               PROVE  LET m == max_ptr(values, valids, PORT_COUNT, ADDR_WIDTH)
                      IN /\ m \in valids
                         /\ \A i \in valids : values[i] <= values[m]
                         /\ \A i \in valids : values[i] = values[m] => m <= i
    BY Zenon DEF FindsMaximum
  <2>1. PORT_COUNT \in Nat /\ ADDR_WIDTH \in Nat
        /\ PORT_COUNT <= PowersOfTwo(ADDR_WIDTH)[ADDR_WIDTH]
    BY TreeAssumption
  <2>2. values \in [0 .. PORT_COUNT - 1 -> Nat] /\ valids \in SUBSET (0 .. PORT_COUNT - 1)
    BY TreeAssumption DEF TreeInputs, Inports
  <2>. QED  BY <2>1, <2>2, PointerNamesMaximum, Zenon
<1>. QED  BY <1>1, PTL
=============================================================================
