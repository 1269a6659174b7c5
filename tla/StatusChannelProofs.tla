------------------------- MODULE StatusChannelProofs -------------------------
(***************************************************************************)
(* Proofs about the timer that the status channel carries to a core, for   *)
(* every width of the timer.                                               *)
(***************************************************************************)
EXTENDS StatusChannel, Integers, TLAPS

PERIOD == HALF * HALF

(* The value of the timer of the interconnect n cycles ago.                *)
Before(n) == (timer + PERIOD - n) % PERIOD

LEMMA PeriodType == PERIOD \in Nat /\ (PERIOD = 1 \/ PERIOD >= 4)
<1>1. HALF \in Nat \ {0}
  BY StatusAssumption
<1>. QED  BY <1>1 DEF PERIOD

(* A value of the timer and its two halves.                                *)
LEMMA Halves ==
  ASSUME NEW x \in 0 .. PERIOD - 1
  PROVE  /\ x \div HALF \in 0 .. HALF - 1 /\ x % HALF \in 0 .. HALF - 1
         /\ (x \div HALF) * HALF + (x % HALF) = x
<1>1. HALF \in Nat \ {0}
  BY StatusAssumption
<1>. QED  BY <1>1 DEF PERIOD

LEMMA FromHalves ==
  ASSUME NEW h \in 0 .. HALF - 1, NEW l \in 0 .. HALF - 1
  PROVE  /\ h * HALF + l \in 0 .. PERIOD - 1
         /\ (h * HALF + l) \div HALF = h /\ (h * HALF + l) % HALF = l
<1>1. HALF \in Nat \ {0}
  BY StatusAssumption
<1>. QED  BY <1>1 DEF PERIOD

(* Sums modulo the period.                                                 *)
LEMMA Modulo ==
  ASSUME NEW x \in 0 .. PERIOD - 1
  PROVE  x % PERIOD = x /\ (x + PERIOD) % PERIOD = x
<1>1. PERIOD \in Nat \ {0}
  BY PeriodType
<1>2. ASSUME NEW n \in Nat \ {0}, NEW y \in 0 .. n - 1
      PROVE  y % n = y /\ (y + n) % n = y
  OBVIOUS
<1>. QED  BY <1>1, <1>2

(* What was n cycles ago is n + 1 cycles ago after the next edge, and a    *)
(* counter that runs three cycles behind stays so.                         *)
LEMMA OneCycleLater ==
  ASSUME timer \in 0 .. PERIOD - 1, TimerStep
  PROVE  /\ timer' \in 0 .. PERIOD - 1
         /\ timer = Before(1)' /\ Before(1) = Before(2)' /\ Before(2) = Before(3)'
         /\ (Before(3) + 1) % PERIOD = Before(3)'
         /\ \A n \in 1 .. 3 : Before(n) \in 0 .. PERIOD - 1
<1>1. PERIOD \in Nat /\ (PERIOD = 1 \/ PERIOD >= 4)
  BY PeriodType
<1>2. timer' = (timer + 1) % PERIOD
  BY DEF TimerStep, PERIOD
<1>3. PERIOD' = PERIOD
  BY DEF PERIOD
<1>4. CASE PERIOD = 1
  <2>1. \A x \in Int : x % PERIOD = 0
    BY <1>4
  <2>. QED  BY <1>1, <1>2, <1>3, <1>4, <2>1 DEF Before
<1>5. CASE PERIOD >= 4
  <2>1. timer' = IF timer + 1 = PERIOD THEN 0 ELSE timer + 1
    <3>1. CASE timer + 1 = PERIOD
      <4>1. (0 + PERIOD) % PERIOD = 0
        BY <1>1, <1>5, Modulo
      <4>. QED  BY <1>1, <1>2, <3>1, <4>1
    <3>2. CASE timer + 1 # PERIOD
      BY <1>1, <1>2, <3>2, Modulo
    <3>. QED  BY <3>1, <3>2
  <2>2. ASSUME NEW n \in 0 .. 3, NEW t \in 0 .. PERIOD - 1
        PROVE  (t + PERIOD - n) % PERIOD = IF t >= n THEN t - n ELSE t + PERIOD - n
    <3>1. CASE t >= n
      <4>1. (t - n) + PERIOD = t + PERIOD - n /\ t - n \in 0 .. PERIOD - 1
        BY <1>1, <3>1
      <4>. QED  BY <3>1, <4>1, Modulo
    <3>2. CASE t < n
      <4>1. t + PERIOD - n \in 0 .. PERIOD - 1
        BY <1>1, <1>5, <3>2
      <4>. QED  BY <3>2, <4>1, Modulo
    <3>. QED  BY <3>1, <3>2
  <2>3. timer' \in 0 .. PERIOD - 1
    BY <1>1, <2>1
  <2>4. \A n \in 1 .. 3 : Before(n) = IF timer >= n THEN timer - n ELSE timer + PERIOD - n
    BY <2>2 DEF Before
  <2>5. \A n \in 1 .. 3 :
          (timer' + PERIOD - n) % PERIOD = IF timer' >= n THEN timer' - n ELSE timer' + PERIOD - n
    BY <2>2, <2>3
  <2>6. \A x \in 0 .. PERIOD - 1 :
          (x + 1) % PERIOD = IF x + 1 = PERIOD THEN 0 ELSE x + 1
    <3>1. (0 + PERIOD) % PERIOD = 0
      BY <1>1, <1>5, Modulo
    <3>2. (PERIOD - 1) + 1 = 0 + PERIOD
      BY <1>1
    <3>3. ASSUME NEW x \in 0 .. PERIOD - 1, x + 1 # PERIOD
          PROVE  x + 1 \in 0 .. PERIOD - 1 /\ (x + 1) % PERIOD = x + 1
      BY <1>1, <3>3, Modulo
    <3>. QED  BY <1>1, <3>1, <3>2, <3>3
  <2>. QED  BY <1>1, <1>3, <1>5, <2>1, <2>3, <2>4, <2>5, <2>6 DEF Before
<1>. QED  BY <1>1, <1>4, <1>5

-----------------------------------------------------------------------------
(* The three words after a reset: in each state, what is on the channel    *)
(* and what has arrived, in terms of the timer.  TimerInSync speaks of the *)
(* last state only.                                                        *)
TimerInv ==
  /\ TypeOK
  /\ status_state = "INFO" => status.addr = "info"
  /\ status_state = "TIMER_L" =>
       /\ status = [addr |-> "timer_l", data |-> Before(1) % HALF]
       /\ timer_h_r = Before(1) \div HALF
  /\ status_state = "TIMER_H" =>
       /\ status = [addr |-> "timer_h", data |-> Before(2) \div HALF]
       /\ core_timer % HALF = Before(2) % HALF
  /\ status_state = "DEFAULT" =>
       /\ status.addr \in {"ints", "debug_l", "debug_h", "occupancy"}
       /\ core_timer = Before(3)

(* Each state of the status generator follows from the one before it.      *)
LEMMA StatusSequence ==
  ASSUME StatusStep, status_state \in {"INFO", "TIMER_L", "TIMER_H", "DEFAULT"}
  PROVE  \/ status_state' = "INFO" /\ status'.addr = "info"
         \/ /\ status_state = "INFO" /\ status_state' = "TIMER_L"
            /\ status' = [addr |-> "timer_l", data |-> timer % HALF]
         \/ /\ status_state = "TIMER_L" /\ status_state' = "TIMER_H"
            /\ status' = [addr |-> "timer_h", data |-> timer_h_r]
         \/ /\ status_state \in {"TIMER_H", "DEFAULT"} /\ status_state' = "DEFAULT"
            /\ status'.addr \in {"ints", "debug_l", "debug_h", "occupancy"}
<1>1. CASE core_reset_r
  BY <1>1 DEF StatusStep
<1>2. CASE ~core_reset_r /\ status_state = "INFO"
  BY <1>2 DEF StatusStep
<1>3. CASE ~core_reset_r /\ status_state = "TIMER_L"
  BY <1>3 DEF StatusStep
<1>4. CASE ~core_reset_r /\ status_state = "TIMER_H"
  BY <1>4 DEF StatusStep
<1>5. CASE ~core_reset_r /\ status_state = "DEFAULT"
  <2>1. \E a \in {"ints", "debug_l", "debug_h", "occupancy"} :
          \E d : status_state' = "DEFAULT" /\ status' = [addr |-> a, data |-> d]
    BY <1>5 DEF StatusStep
  <2>. QED  BY <1>5, <2>1
<1>. QED  BY <1>1, <1>2, <1>3, <1>4, <1>5

(* The timer of the core stays in its range, whatever the channel carries. *)
LEMMA CoreTimerType ==
  ASSUME TimerInv, WordStep, TimerStep
  PROVE  core_timer' \in 0 .. PERIOD - 1
<1>1. timer \in 0 .. PERIOD - 1 /\ core_timer \in 0 .. PERIOD - 1
  BY DEF TimerInv, TypeOK, PERIOD
<1>2. Before(1) \in 0 .. PERIOD - 1 /\ Before(2) \in 0 .. PERIOD - 1
  BY <1>1, OneCycleLater
<1>3. status_state \in {"INFO", "TIMER_L", "TIMER_H", "DEFAULT"}
  BY DEF TimerInv, TypeOK
<1>4. CASE status_state = "TIMER_L"
  <2>1. core_timer' = (core_timer \div HALF) * HALF + (Before(1) % HALF)
    BY <1>4 DEF TimerInv, WordStep
  <2>. QED  BY <1>1, <1>2, <2>1, Halves, FromHalves
<1>5. CASE status_state = "TIMER_H"
  <2>1. core_timer' = (Before(2) \div HALF) * HALF + (core_timer % HALF)
    BY <1>5 DEF TimerInv, WordStep
  <2>. QED  BY <1>1, <1>2, <2>1, Halves, FromHalves
<1>6. CASE status_state \in {"INFO", "DEFAULT"}
  <2>1. core_timer' = (core_timer + 1) % PERIOD
    BY <1>6 DEF TimerInv, WordStep, PERIOD
  <2>2. PERIOD \in Nat \ {0}
    BY PeriodType
  <2>3. \A x \in Nat : x % PERIOD \in 0 .. PERIOD - 1
    BY <2>2
  <2>. QED  BY <1>1, <2>1, <2>2, <2>3
<1>. QED  BY <1>3, <1>4, <1>5, <1>6

(* The other registers keep their types.                                   *)
LEMMA TypeStep ==
  ASSUME TimerInv, NEW cmd \in {<<>>} \cup {<<c>> : c \in Commands},
         NEW events \in SUBSET Events, NEW step \in BOOLEAN, Clock(cmd, events, step)
  PROVE  TypeOK'
<1>. USE StatusAssumption
<1>1. Len(ctrl_r') <= 1 /\ gap' \in 0 .. CMD_GAP
  <2>1. ctrl_r' = cmd /\ gap' = IF cmd # <<>> THEN CMD_GAP ELSE IF gap = 0 THEN 0 ELSE gap - 1
    BY DEF Clock, HostStep
  <2>2. Len(cmd) <= 1
    <3>1. CASE cmd = <<>>
      BY <3>1
    <3>2. ASSUME NEW c \in Commands, cmd = <<c>> PROVE Len(cmd) <= 1
      BY <3>2
    <3>. QED  BY <3>1, <3>2
  <2>3. gap \in 0 .. CMD_GAP
    BY DEF TimerInv, TypeOK
  <2>4. gap' \in 0 .. CMD_GAP
    BY <2>1, <2>3
  <2>. QED  BY <2>1, <2>2, <2>4
<1>2. pulses' \subseteq Kept \cup {"dram"} /\ host_debug_v' \subseteq {"debug_l", "debug_h"}
  BY Zenon DEF Clock, CommandStep, Kept
<1>3. ints' \subseteq Kept /\ int_flag' \subseteq Kept
  BY DEF TimerInv, TypeOK, Clock, FlagStep, CoreStep
<1>4. core_reset_r' \in BOOLEAN /\ core_interrupt' \in BOOLEAN
  BY Zenon DEF TimerInv, TypeOK, Clock, CommandStep, InterruptStep
<1>5. ready_to_evict' \in BOOLEAN /\ fw' \in {"main", "handler", "evict"}
  BY Zenon DEF TimerInv, TypeOK, Clock, CoreStep
<1>6. timer' \in 0 .. PERIOD - 1
  BY OneCycleLater DEF TimerInv, TypeOK, Clock, PERIOD
<1>7. core_timer' \in 0 .. PERIOD - 1
  BY CoreTimerType DEF Clock
<1>8. status_state' \in {"INFO", "TIMER_L", "TIMER_H", "DEFAULT"}
  BY StatusSequence DEF TimerInv, TypeOK, Clock
<1>. QED  BY <1>1, <1>2, <1>3, <1>4, <1>5, <1>6, <1>7, <1>8 DEF TypeOK, PERIOD

LEMMA TimerInvStep ==
  ASSUME TimerInv, [Next]_vars
  PROVE  TimerInv'
<1>1. CASE UNCHANGED vars
  BY <1>1 DEF TimerInv, TypeOK, Before, PERIOD, vars, interconVars, controllerVars, coreVars
<1>2. ASSUME NEW cmd \in {<<>>} \cup {<<c>> : c \in Commands},
             NEW events \in SUBSET Events, NEW step \in BOOLEAN, Clock(cmd, events, step)
      PROVE  TimerInv'
  <2>1. TypeOK'
    BY <1>2, TypeStep
  <2>2. /\ timer = Before(1)' /\ Before(1) = Before(2)' /\ Before(2) = Before(3)'
        /\ (Before(3) + 1) % PERIOD = Before(3)'
        /\ Before(1) \in 0 .. PERIOD - 1 /\ Before(2) \in 0 .. PERIOD - 1
    BY <1>2, OneCycleLater DEF TimerInv, TypeOK, Clock, PERIOD
  <2>3. core_timer \in 0 .. PERIOD - 1
    BY DEF TimerInv, TypeOK, PERIOD
  <2>4. timer_h_r' = timer \div HALF
    BY <1>2 DEF Clock, TimerStep
  <2>5. CASE status_state' = "INFO" /\ status'.addr = "info"
    BY <2>1, <2>5 DEF TimerInv
  <2>6. CASE /\ status_state = "INFO" /\ status_state' = "TIMER_L"
             /\ status' = [addr |-> "timer_l", data |-> timer % HALF]
    BY <2>1, <2>2, <2>4, <2>6 DEF TimerInv
  <2>7. CASE /\ status_state = "TIMER_L" /\ status_state' = "TIMER_H"
             /\ status' = [addr |-> "timer_h", data |-> timer_h_r]
    <3>1. core_timer' = (core_timer \div HALF) * HALF + (Before(1) % HALF)
      BY <1>2, <2>7 DEF TimerInv, Clock, WordStep
    <3>2. core_timer' % HALF = Before(1) % HALF
      BY <2>2, <2>3, <3>1, Halves, FromHalves, SMTT(30)
    <3>3. timer_h_r = Before(1) \div HALF
      BY <2>7 DEF TimerInv
    <3>. QED  BY <2>1, <2>2, <2>7, <3>2, <3>3 DEF TimerInv
  <2>8. CASE /\ status_state = "TIMER_H" /\ status_state' = "DEFAULT"
             /\ status'.addr \in {"ints", "debug_l", "debug_h", "occupancy"}
    <3>1. core_timer' = (Before(2) \div HALF) * HALF + (Before(2) % HALF)
      BY <1>2, <2>8 DEF TimerInv, Clock, WordStep
    <3>2. core_timer' = Before(2)
      BY <2>2, <3>1, Halves
    <3>. QED  BY <2>1, <2>2, <2>8, <3>2 DEF TimerInv
  <2>9. CASE /\ status_state = "DEFAULT" /\ status_state' = "DEFAULT"
             /\ status'.addr \in {"ints", "debug_l", "debug_h", "occupancy"}
    <3>1. core_timer' = (Before(3) + 1) % PERIOD
      BY <1>2, <2>9 DEF TimerInv, Clock, WordStep, PERIOD
    <3>. QED  BY <2>1, <2>2, <2>9, <3>1 DEF TimerInv
  <2>. QED  BY <1>2, <2>5, <2>6, <2>7, <2>8, <2>9, StatusSequence DEF TimerInv, TypeOK, Clock
<1>. QED  BY <1>1, <1>2 DEF Next

(* The timer of a core is the timer of the interconnect three cycles ago   *)
(* once its two halves have arrived, also when the lower half overflows    *)
(* between them (rpu_intercon.v: timer_h_r; rpu_controller.v: core timer). *)
THEOREM TimersInSync == Spec => []TimerInSync
<1>1. Init => TimerInv
  <2>1. ASSUME Init PROVE TypeOK
    <3>1. PERIOD \in Nat \ {0} /\ CMD_GAP \in Nat
      BY PeriodType, StatusAssumption
    <3>2. {timer, core_timer} \subseteq 0 .. PERIOD - 1 /\ gap \in 0 .. CMD_GAP
      BY <2>1, <3>1 DEF Init, PERIOD
    <3>3. Len(ctrl_r) <= 1
      <4>1. Len(<<>>) = 0
        OBVIOUS
      <4>. QED  BY <2>1, <4>1 DEF Init
    <3>4. /\ core_reset_r = TRUE /\ core_interrupt = FALSE /\ ready_to_evict = FALSE
          /\ pulses = {} /\ ints = {} /\ int_flag = {} /\ host_debug_v = {}
          /\ status_state = "INFO" /\ fw = "main"
      BY <2>1 DEF Init
    <3>. QED  BY <3>2, <3>3, <3>4, Zenon DEF TypeOK, PERIOD
  <2>2. ASSUME Init PROVE status_state = "INFO" /\ status.addr = "info"
    BY <2>2 DEF Init
  <2>. QED  BY <2>1, <2>2 DEF TimerInv
<1>2. TimerInv /\ [Next]_vars => TimerInv'
  BY TimerInvStep
<1>3. TimerInv => TimerInSync
  BY DEF TimerInv, TimerInSync, TIMER_LAG, Before, PERIOD
<1>. QED  BY <1>1, <1>2, <1>3, PTL DEF Spec
=============================================================================
