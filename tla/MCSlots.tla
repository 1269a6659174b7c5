------------------------------- MODULE MCSlots -------------------------------
(***************************************************************************)
(* The life of a core and its slots, for TLC: the loop of the slots        *)
(* through the system (SlotLoop), reset and reload of a core in traffic    *)
(* (HostReset, with a hash policy and with the round robin policy, whose   *)
(* ports reserve slots; there one port and fewer slots are enough to see   *)
(* the host wait for them) and the loading of the memories (FirmwareLoad). *)
(* part says which one runs while the others rest; policy says which one   *)
(* the design has.                                                         *)
(***************************************************************************)
EXTENDS SlotLoop

CONSTANTS
  HASH_PORTS, HASH_SLOTS, RR_PORTS, RR_SLOTS,   \* of HostReset
  NCORES, CHUNK, Images, MEMORY                 \* of FirmwareLoad

ASSUME HostResetAssumption ==
  {HASH_PORTS, HASH_SLOTS, RR_PORTS, RR_SLOTS} \subseteq Nat \ {0}

VARIABLES
  part,
  policy, incoming, rx_en, free_slots, port, net, recvd, active, sent, ctrl, mode,
  evict_int, evict_ready, pc, proc, i, slots, descs_released, late,
  image, step, core, seg, left, offset, frames_in, staging, rd, wr,
  engine, requests, cmem, frames, in_reset

Hash == INSTANCE HostReset WITH PREFETCH <- FALSE, IF_COUNT <- HASH_PORTS, SLOTS <- HASH_SLOTS
RR   == INSTANCE HostReset WITH PREFETCH <- TRUE, IF_COUNT <- RR_PORTS, SLOTS <- RR_SLOTS
Load == INSTANCE FirmwareLoad

resetVars ==
  <<policy, incoming, rx_en, free_slots, port, net, recvd, active, sent, ctrl, mode,
    evict_int, evict_ready, pc, proc, i, slots, descs_released, late>>
loadVars ==
  <<image, step, core, seg, left, offset, frames_in, staging, rd, wr,
    engine, requests, cmem, frames, in_reset>>
slotVars == <<part, vars, resetVars, loadVars>>

-----------------------------------------------------------------------------
(* Images with an instruction segment of up to two chunks and data         *)
(* segments, one of them empty.                                            *)
Seg(b, n) == [base |-> b, len |-> n]
McImages == {<<Seg(0, 3), Seg(3, 2), Seg(5, 1)>>, <<Seg(0, 1), Seg(2, 0), Seg(3, 3)>>,
             <<Seg(0, 4), Seg(4, 2)>>}

-----------------------------------------------------------------------------
(* A part at rest is in an initial state, or has nothing in its variables. *)
ResetIdle == policy = "hash" /\ Hash!Init
LoadIdle ==
  /\ image = << >> /\ step = << >> /\ core = << >> /\ seg = << >>
  /\ left = << >> /\ offset = << >> /\ frames_in = << >> /\ staging = << >>
  /\ rd = << >> /\ wr = << >> /\ engine = << >> /\ requests = << >>
  /\ cmem = << >> /\ frames = << >> /\ in_reset = << >>

SlotsInit ==
  \/ part = "loop" /\ Init /\ ResetIdle /\ LoadIdle
  \/ part = "reset" /\ policy = "hash" /\ Hash!Init /\ Init /\ LoadIdle
  \/ part = "reset" /\ policy = "rr" /\ RR!Init /\ Init /\ LoadIdle
  \/ part = "load" /\ Load!LoadInit /\ Init /\ ResetIdle

HashReset == part = "reset" /\ policy = "hash"
RrReset   == part = "reset" /\ policy = "rr"

SlotsNext ==
  /\ UNCHANGED <<part, policy>>
  /\ \/ part = "loop" /\ Next /\ UNCHANGED <<resetVars, loadVars>>
     \/ HashReset /\ Hash!Next /\ UNCHANGED <<vars, loadVars>>
     \/ RrReset /\ RR!Next /\ UNCHANGED <<vars, loadVars>>
     \/ part = "load" /\ Load!LoadNext /\ UNCHANGED <<vars, resetVars>>

(* Packets and messages arrive, firmware and host go on; so do the DMA     *)
(* engine and the network to the cores.  (The fairness of the loop is in   *)
(* FairSpec of SlotLoop.)                                                  *)
Others == UNCHANGED <<part, vars, loadVars>>
SlotsFairness ==
  /\ \A p \in 1 .. HASH_PORTS : WF_slotVars(HashReset /\ Hash!EndPacket(p) /\ UNCHANGED policy /\ Others)
  /\ \A p \in 1 .. RR_PORTS : WF_slotVars(RrReset /\ RR!EndPacket(p) /\ UNCHANGED policy /\ Others)
  /\ WF_slotVars(/\ (HashReset /\ Hash!Return) \/ (RrReset /\ RR!Return)
                 /\ UNCHANGED policy /\ Others)
  /\ WF_slotVars(part = "reset" /\ Hash!RpuNext /\ UNCHANGED policy /\ Others)
  /\ WF_slotVars(part = "reset" /\ Hash!FirmwareNext /\ UNCHANGED policy /\ Others)
  /\ WF_slotVars(/\ (HashReset /\ Hash!HostGoesOn) \/ (RrReset /\ RR!HostGoesOn)
                 /\ UNCHANGED policy /\ Others)
  /\ WF_slotVars(part = "load" /\ Load!HostStep /\ UNCHANGED <<part, vars, resetVars>>)
  /\ WF_slotVars(part = "load" /\ Load!PollOnly /\ UNCHANGED <<part, vars, resetVars>>)
  /\ WF_slotVars(part = "load" /\ (Load!EngineStep \/ Load!PollAndComplete) /\ UNCHANGED <<part, vars, resetVars>>)
  /\ WF_slotVars(part = "load" /\ Load!Deliver /\ UNCHANGED <<part, vars, resetVars>>)

SlotsSpec == SlotsInit /\ [][SlotsNext]_slotVars /\ SlotsFairness

-----------------------------------------------------------------------------
(* A slot never has two owners, also not after a reset and reload in the   *)
(* middle of traffic, and none is missing when the core is back, unless    *)
(* the host waited too short a time (reset_single_core, reset_all_cores    *)
(* and the evict handler).                                                 *)
SlotOwnedOnce == /\ HashReset => Hash!TypeOK /\ Hash!SlotOwnedOnce
                 /\ RrReset => RR!TypeOK

(* "check if still it's the same desc drop it": when a core is reset after *)
(* a wait that was long enough no port has a slot of it any more.          *)
DescsDropped == RrReset => RR!DescsDropped

(* Core memories only ever hold the words of the image in their places,    *)
(* what a released core lacks is on its way to it, and a block that is     *)
(* read back has no word of another block (block_write, load_firmware,     *)
(* block_read).                                                            *)
LoadExact == part = "load" => Load!LoadExact

(* The host comes to its end: a core that it takes out of service is in    *)
(* service again at last, also when the waits were too short, and loading  *)
(* ends with the image in every memory because no status is lost between   *)
(* its arrival and the poll (reset_single_core, reset_all_cores,           *)
(* block_write).                                                           *)
HostFinishes == Hash!ResetEnds /\ <>(part = "load" => Load!Loaded)
=============================================================================
