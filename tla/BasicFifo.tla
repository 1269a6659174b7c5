------------------------------ MODULE BasicFifo ------------------------------
(***************************************************************************)
(* basic_fifo.v: the FIFO in front of and behind every component.  One     *)
(* step is one rising clock edge.  Full and empty are registered flags     *)
(* (n_full, n_empty, active low) that follow the pointers, and both are    *)
(* low in the cycle after a reset or a clear, when nothing is accepted.    *)
(***************************************************************************)
EXTENDS Integers, Sequences

CONSTANTS
  Size,   \* entries of the memory, 2^ADDR_WIDTH
  Data    \* words that can be written

ASSUME SizeAssumption == Size \in Nat \ {0, 1}

VARIABLES mem, rptr, wptr, n_full, n_empty, item_count_r

fifoVars == <<mem, rptr, wptr, n_full, n_empty, item_count_r>>

Pointers == 0 .. Size - 1

\* Pointers have ADDR_WIDTH bits.
Plus1(p) == IF p = Size - 1 THEN 0 ELSE p + 1

FifoInputs == [clear      : BOOLEAN,    \* rst || clear
               din_valid  : BOOLEAN,
               din        : Data,
               dout_ready : BOOLEAN]

din_ready  == n_full
dout_valid == n_empty
dout       == mem[rptr]

fifo_enque(pins) == pins.din_valid /\ din_ready
fifo_deque(pins) == dout_valid /\ pins.dout_ready

\* Mutant: a clear leaves the write pointer.
PointerStepKeepsWptr(pins) ==
  IF pins.clear
  THEN rptr' = 0 /\ UNCHANGED <<mem, wptr>>
  ELSE /\ wptr' = IF fifo_enque(pins) THEN Plus1(wptr) ELSE wptr
       /\ mem'  = IF fifo_enque(pins) THEN [mem EXCEPT ![wptr] = pins.din] ELSE mem
       /\ rptr' = IF fifo_deque(pins) THEN Plus1(rptr) ELSE rptr

\* Mutant: a write goes to the entry after the write pointer.
PointerStepWritesNext(pins) ==
  IF pins.clear
  THEN wptr' = 0 /\ rptr' = 0 /\ UNCHANGED mem
  ELSE /\ wptr' = IF fifo_enque(pins) THEN Plus1(wptr) ELSE wptr
       /\ mem'  = IF fifo_enque(pins) THEN [mem EXCEPT ![Plus1(wptr)] = pins.din]
                  ELSE mem
       /\ rptr' = IF fifo_deque(pins) THEN Plus1(rptr) ELSE rptr

PointerStep(pins) ==
  IF pins.clear
  THEN wptr' = 0 /\ rptr' = 0 /\ UNCHANGED mem
  ELSE /\ wptr' = IF fifo_enque(pins) THEN Plus1(wptr) ELSE wptr
       /\ mem'  = IF fifo_enque(pins) THEN [mem EXCEPT ![wptr] = pins.din] ELSE mem
       /\ rptr' = IF fifo_deque(pins) THEN Plus1(rptr) ELSE rptr

(* The last transaction decides whether equal pointers mean full or empty. *)
FlagStep(pins) ==
  IF pins.clear
  THEN n_full' = FALSE /\ n_empty' = FALSE
  ELSE IF ~n_full /\ ~n_empty
  THEN n_full' = TRUE /\ UNCHANGED n_empty
  ELSE IF fifo_enque(pins) # fifo_deque(pins)
  THEN /\ n_full'  = ~(Plus1(wptr) = rptr /\ fifo_enque(pins))
       /\ n_empty' = ~(Plus1(rptr) = wptr /\ fifo_deque(pins))
  ELSE UNCHANGED <<n_full, n_empty>>

ItemCountStep(pins) ==
  item_count_r' =
    IF pins.clear THEN 0
    ELSE IF fifo_enque(pins) /\ ~fifo_deque(pins) THEN item_count_r + 1
    ELSE IF ~fifo_enque(pins) /\ fifo_deque(pins) THEN item_count_r - 1
    ELSE item_count_r

FifoClock(pins) == PointerStep(pins) /\ FlagStep(pins) /\ ItemCountStep(pins)

FifoInit ==
  /\ mem \in [Pointers -> Data]
  /\ rptr = 0 /\ wptr = 0
  /\ n_full = FALSE /\ n_empty = FALSE
  /\ item_count_r = 0

FifoNext == \E pins \in FifoInputs : FifoClock(pins)

FifoSpec == FifoInit /\ [][FifoNext]_fifoVars

-----------------------------------------------------------------------------
FifoTypeOK ==
  /\ mem \in [Pointers -> Data]
  /\ rptr \in Pointers /\ wptr \in Pointers
  /\ n_full \in BOOLEAN /\ n_empty \in BOOLEAN
  /\ item_count_r \in 0 .. Size

\* i entries after p in the circular memory.
Entry(p, i) == IF p + i < Size THEN p + i ELSE p + i - Size

(* The items in the memory, oldest first.                                  *)
Contents == [i \in 1 .. item_count_r |-> mem[Entry(rptr, i - 1)]]

(* The flags that gate the handshakes agree with the count and with the    *)
(* pointers: nothing is accepted into a full memory or taken from an empty *)
(* one, and a ready FIFO is refused only in the cycle after a clear.       *)
FlagsAgree ==
  /\ n_empty <=> item_count_r # 0
  /\ n_full => item_count_r # Size
  /\ (~n_full /\ item_count_r # Size) => (item_count_r = 0 /\ rptr = 0)
  /\ wptr = Entry(rptr, item_count_r)

(* basic_fifo.v is a bounded queue of Size items.                          *)
Fifo == INSTANCE BoundedFifo WITH queue <- Contents, Capacity <- Size

ImplementsFifo == Fifo!Spec
=============================================================================
