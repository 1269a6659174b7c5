--------------------------- MODULE StatusChannel ---------------------------
(***************************************************************************)
(* The way of host commands, interrupts and status to the core of one RPU: *)
(* the command parser and the status generator of rpu_intercon.v, the      *)
(* flags of rpu_controller.v, the interrupt line of riscvcore.v and        *)
(* int_handler.c.  One step is one clock edge of the RPU; the firmware     *)
(* takes any number of cycles for each of its steps.                       *)
(*                                                                         *)
(* The status channel carries one word per cycle, [addr, data]; addr is    *)
(* the kind of word.  Events on it are sets: of the pulses "poke" and      *)
(* "evict" of the host and the pulses in Events of the datapath.  The two  *)
(* halves of the 64-bit timer are digits to the base HALF.                 *)
(***************************************************************************)
EXTENDS Naturals, Sequences

CONSTANTS
  Commands,   \* commands that the host sends
  Events,     \* other interrupts: "dupl" (slot errors) and "dram" (DRAM data)
  Words,      \* values of a debug word
  HALF,       \* values of half of the timer
  CMD_GAP     \* cycles between two commands of the host, at least

ASSUME StatusAssumption ==
  /\ Events \subseteq {"dupl", "dram"} /\ HALF \in Nat \ {0} /\ CMD_GAP \in Nat
  /\ Commands \subseteq [cmd : {"debug_l", "debug_h"}, val : Words]
                   \cup [cmd : {"poke", "evict"}, val : {1}]
                   \cup [cmd : {"reset"}, val : {0, 1}]

(* The commands of an instance for TLC.  A poke takes the same way as an   *)
(* eviction up to the interrupt handler and is left out.                   *)
AllCommands == [cmd : {"reset"}, val : {0, 1}] \cup [cmd : {"debug_h"}, val : Words]
               \cup [cmd : {"debug_l", "evict"}, val : {1}]

VARIABLES
  ctrl_r,          \* command register, at most one command
  gap,             \* cycles until the host may send the next command
  pulses,          \* core_poke_r, core_evict_r and the pulses of Events
  core_reset_r,
  host_debug, host_debug_v,
  timer, timer_h_r,
  status_state, status,
  \* rpu_controller.v
  ints, debug_in, core_timer,
  \* riscvcore.v and the firmware
  core_interrupt, fw, int_flag, ready_to_evict

interconVars == <<ctrl_r, gap, pulses, core_reset_r, host_debug, host_debug_v, timer,
                  timer_h_r, status_state, status>>
controllerVars == <<ints, debug_in, core_timer>>
coreVars == <<core_interrupt, fw, int_flag, ready_to_evict>>
vars == <<interconVars, controllerVars, coreVars>>

-----------------------------------------------------------------------------
Kept == {"poke", "evict", "dupl"}   \* interrupts that rpu_controller keeps

int_valid   == pulses # {}
ints_status == pulses

Command(c) == ctrl_r # <<>> /\ Head(ctrl_r).cmd = c
Arrives(c) == ctrl_r # <<>> /\ Head(ctrl_r) = c

\* The next command of the host: cmd is <<>> or <<command>>.
HostStep(cmd) ==
  /\ cmd # <<>> => gap = 0 /\ Head(cmd) \in Commands
  /\ ctrl_r' = cmd
  /\ gap' = IF cmd # <<>> THEN CMD_GAP ELSE IF gap = 0 THEN 0 ELSE gap - 1

\* Bug: a debug word is valid for one cycle.
CommandStepNoWait(events) ==
  /\ pulses' = events \cup {p \in {"poke", "evict"} : Command(p)}
  /\ core_reset_r' = IF Command("reset") THEN Head(ctrl_r).val = 1 ELSE core_reset_r
  /\ host_debug' = [x \in {"debug_l", "debug_h"} |->
                      IF Command(x) THEN Head(ctrl_r).val ELSE host_debug[x]]
  /\ host_debug_v' = {x \in {"debug_l", "debug_h"} : Command(x)}

(* The parser: poke and evict are pulses, a debug word waits until no      *)
(* interrupt, and for the high word no low word, is in its way.            *)
CommandStep(events) ==
  /\ pulses' = events \cup {p \in {"poke", "evict"} : Command(p)}
  /\ core_reset_r' = IF Command("reset") THEN Head(ctrl_r).val = 1 ELSE core_reset_r
  /\ host_debug' = [x \in {"debug_l", "debug_h"} |->
                      IF Command(x) THEN Head(ctrl_r).val ELSE host_debug[x]]
  /\ host_debug_v' =
       {x \in {"debug_l", "debug_h"} :
          \/ Command(x)
          \/ x \in host_debug_v /\ int_valid
          \/ x = "debug_h" /\ {"debug_l", "debug_h"} \subseteq host_debug_v}

\* Bug: the upper half is not the one of the lower half sent.
TimerStepNoDelay ==
  /\ timer' = (timer + 1) % (HALF * HALF)
  /\ timer_h_r' = timer' \div HALF

TimerStep ==
  /\ timer' = (timer + 1) % (HALF * HALF)
  /\ timer_h_r' = timer \div HALF

(* Three words after a reset, then the word with the highest priority.     *)
StatusStep ==
  LET Send(state, addr, data) ==
        /\ status_state' = state
        /\ status' = [addr |-> addr, data |-> data]
  IN IF core_reset_r THEN Send("INFO", "info", 0)
     ELSE CASE status_state = "INFO"    -> Send("TIMER_L", "timer_l", timer % HALF)
            [] status_state = "TIMER_L" -> Send("TIMER_H", "timer_h", timer_h_r)
            [] status_state = "TIMER_H" -> Send("DEFAULT", "ints", ints_status)
            [] status_state = "DEFAULT" ->
                 IF int_valid THEN Send("DEFAULT", "ints", ints_status)
                 ELSE IF "debug_l" \in host_debug_v
                   THEN Send("DEFAULT", "debug_l", host_debug["debug_l"])
                 ELSE IF "debug_h" \in host_debug_v
                   THEN Send("DEFAULT", "debug_h", host_debug["debug_h"])
                 ELSE Send("DEFAULT", "occupancy", ints_status)

-----------------------------------------------------------------------------

(* rpu_controller.v.  A word of interrupts is stored as it is; an          *)
(* acknowledgement of the core wins.                                       *)
FlagStep(ack) ==
  ints' = IF core_reset_r THEN {}
          ELSE (IF status.addr = "ints" THEN status.data \cap Kept ELSE ints) \ ack

WordStep ==
  /\ debug_in' = [x \in {"debug_l", "debug_h"} |->
                    IF status.addr = x THEN status.data ELSE debug_in[x]]
  /\ core_timer' =
       CASE status.addr = "timer_l" -> (core_timer \div HALF) * HALF + status.data
         [] status.addr = "timer_h" -> status.data * HALF + (core_timer % HALF)
         [] OTHER -> (core_timer + 1) % (HALF * HALF)

(* riscvcore.v and int_handler.c: read the flags, acknowledge them one by  *)
(* one; after an evict the handler never returns.                          *)
FirstFlag == IF "evict" \in int_flag THEN "evict"
             ELSE IF "poke" \in int_flag THEN "poke" ELSE "dupl"

Ack(step) == IF step /\ fw = "handler" /\ int_flag # {} THEN {FirstFlag} ELSE {}

InterruptStep(ack) == core_interrupt' = (~core_reset_r /\ ack = {} /\ ints # {})

CoreStep(step) ==
  \/ /\ core_reset_r
     /\ fw' = "main" /\ int_flag' = {} /\ ready_to_evict' = FALSE
  \/ /\ ~core_reset_r /\ step /\ fw = "main" /\ core_interrupt
     /\ fw' = "handler" /\ int_flag' = ints
     /\ UNCHANGED ready_to_evict
  \/ /\ ~core_reset_r /\ step /\ fw = "handler"
     /\ fw' = IF int_flag = {} THEN "main"
              ELSE IF "evict" \in int_flag THEN "evict" ELSE "handler"
     /\ int_flag' = int_flag \ Ack(step)
     /\ UNCHANGED ready_to_evict
  \/ /\ ~core_reset_r /\ step /\ fw = "evict"
     /\ ready_to_evict' = TRUE
     /\ UNCHANGED <<fw, int_flag>>
  \/ /\ ~core_reset_r /\ (step => fw = "main" /\ ~core_interrupt)
     /\ UNCHANGED <<fw, int_flag, ready_to_evict>>

-----------------------------------------------------------------------------
Clock(cmd, events, step) ==
  /\ HostStep(cmd) /\ CommandStep(events) /\ TimerStep /\ StatusStep
  /\ FlagStep(Ack(step)) /\ WordStep /\ InterruptStep(Ack(step)) /\ CoreStep(step)

Init ==
  /\ ctrl_r = <<>> /\ gap = 0 /\ pulses = {} /\ core_reset_r = TRUE
  /\ host_debug \in [{"debug_l", "debug_h"} -> Words] /\ host_debug_v = {}
  /\ timer = 0 /\ timer_h_r = 0
  /\ status_state = "INFO" /\ status = [addr |-> "info", data |-> 0]
  /\ ints = {} /\ debug_in = host_debug
  /\ core_timer \in 0 .. HALF * HALF - 1
  /\ core_interrupt = FALSE /\ fw = "main" /\ int_flag = {} /\ ready_to_evict = FALSE

Next == \E cmd \in {<<>>} \cup {<<c>> : c \in Commands}, events \in SUBSET Events,
           step \in BOOLEAN : Clock(cmd, events, step)

Spec == Init /\ [][Next]_vars

(* The clock does not stop, the firmware goes on, and there is not an      *)
(* interrupt or a command in every cycle for ever.                         *)
QuietClock == ~Command("poke") /\ ~Command("evict") /\ Clock(<<>>, {}, TRUE)

FairSpec == Spec /\ WF_vars(Clock(<<>>, {}, FALSE)) /\ SF_vars(QuietClock)

-----------------------------------------------------------------------------
TypeOK ==
  /\ Len(ctrl_r) <= 1 /\ gap \in 0 .. CMD_GAP
  /\ pulses \subseteq Kept \cup {"dram"} /\ ints \subseteq Kept /\ int_flag \subseteq Kept
  /\ {core_reset_r, core_interrupt, ready_to_evict} \subseteq BOOLEAN
  /\ host_debug_v \subseteq {"debug_l", "debug_h"}
  /\ {timer, core_timer} \subseteq 0 .. HALF * HALF - 1
  /\ status_state \in {"INFO", "TIMER_L", "TIMER_H", "DEFAULT"}
  /\ fw \in {"main", "handler", "evict"}

(* The timer of the core runs a fixed number of cycles behind the timer of *)
(* the interconnect, which all RPUs count alike, also when the lower half  *)
(* overflows while the two halves are sent ("Globally synced timer").      *)
TIMER_LAG == 3
TimerInSync ==
  /\ TypeOK
  /\ status_state = "DEFAULT" =>
       core_timer = (timer + HALF * HALF - TIMER_LAG) % (HALF * HALF)

(* An interrupt flag stays up until the core acknowledges it.              *)
KeptUntilAcked ==
  [][~core_reset_r => \A x \in ints : x \in ints' \/ (fw = "handler" /\ x \in int_flag \ int_flag')]_vars

(* A debug word that the host sends to a running core arrives, whatever    *)
(* interrupts and the other word do, unless the host sends a new low word, *)
(* the word again with another value, or resets the core.                  *)
DebugArrives ==
  \A x \in {"debug_l", "debug_h"}, w \in Words :
    (Arrives([cmd |-> x, val |-> w]) /\ ~core_reset_r)
      ~> \/ debug_in[x] = w
         \/ \E v \in Words \ {w} : Arrives([cmd |-> x, val |-> v])
         \/ x = "debug_h" /\ Command("debug_l")
         \/ core_reset_r

(* A core that is told to evict reports that it is ready, unless it is     *)
(* reset or another interrupt is signalled in the meantime.                *)
EvictAnswered ==
  (Command("evict") /\ ~core_reset_r)
    ~> (ready_to_evict \/ core_reset_r \/ pulses \ {"evict"} # {})

(* Debug words arrive and evict requests are answered.                     *)
StatusAnswered == DebugArrives /\ EvictAnswered
=============================================================================
