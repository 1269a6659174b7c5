---------------------------- MODULE FirmwareLoad ----------------------------
(***************************************************************************)
(* The host loads the memories of the cores: block_write, block_read and   *)
(* load_firmware of Rosebud_API.py with the descriptor and status          *)
(* registers of pcie_config.v.  All blocks go through one staging area in  *)
(* host memory, one descriptor register per direction and one status       *)
(* register per direction that a read clears.                              *)
(*                                                                         *)
(* The DMA engine and the network to the cores are external.  The engine   *)
(* accepts a descriptor at any time after it is posted, fetches the block  *)
(* later and then reports the tag.  Requests reach a core in their order;  *)
(* nothing orders them with those of other cores, with the commands that   *)
(* release a core or with the blocks that are read back, which take other  *)
(* channels.  The waits of the host (100 ns and 2000 ns) promise nothing.  *)
(* A word of the model stands for a part of a 16384-byte chunk.            *)
(***************************************************************************)
EXTENDS Integers, Sequences, SequencesExt, FiniteSetsExt

CONSTANTS
  NCORES,
  CHUNK,      \* words of a full chunk
  Images,     \* firmware images: sequences of segments [base, len]
  MEMORY      \* words of a core's memory

VARIABLES
  image,
  step,       \* of the host: its next register access
  core, seg,  \* loop variables of load_firmware
  left, offset, frames_in,
  staging,    \* mem_data
  rd,         \* descriptor registers of host memory -> core, and their status
  wr,         \* the same for core -> host memory
  engine,     \* descriptors in the DMA engine
  requests,   \* requests on their way to a core
  cmem,       \* memories of the cores
  frames,     \* received frames of each core, core register 1
  in_reset    \* the cores in reset

loadVars == <<image, step, core, seg, left, offset, frames_in, staging, rd, wr,
              engine, requests, cmem, frames, in_reset>>
hostPlace == <<step, core, seg, left, offset, frames_in>>

Cores == 1 .. NCORES
Empty == << >>
Word(s, n) == <<s, n>>   \* word n of segment s
NoDesc == [host |-> 0, addr |-> <<0, 0>>, len |-> 0, valid |-> FALSE, tags |-> {}]

LoadInit ==
  /\ image \in Images
  /\ step = "frames" /\ core = 1 /\ seg = 1
  /\ left = 0 /\ offset = 0 /\ frames_in = 0
  /\ staging = [n \in 0 .. MEMORY - 1 |-> Empty]
  /\ rd = NoDesc /\ wr = NoDesc
  /\ engine = << >> /\ requests = << >>
  /\ cmem = [c \in Cores |-> [n \in 0 .. MEMORY - 1 |-> Empty]]
  /\ frames = [c \in Cores |-> 0]
  /\ in_reset = Cores

Base == image[seg].base
Length == image[seg].len

-----------------------------------------------------------------------------
(* The host.  frames_in is read once per core, before its first block.     *)
ReadFrames ==
  /\ step = "frames" /\ step' = "block" /\ seg' = 1
  /\ frames_in' = frames[core]
  /\ UNCHANGED <<image, core, left, offset, staging, rd, wr, engine, requests, cmem, frames, in_reset>>

(* A block is copied to the staging area.  The first segment of an image   *)
(* is the instruction segment: its frames are awaited even if it is empty. *)
block_write ==
  /\ step = "block"
  /\ IF Length = 0
     THEN /\ step' = IF seg = 1 THEN "await" ELSE "next"
          /\ UNCHANGED <<left, offset, staging>>
     ELSE /\ step' = "host" /\ left' = Length /\ offset' = 0
          /\ staging' = [n \in DOMAIN staging |-> IF n < Length THEN Word(seg, n) ELSE staging[n]]
  /\ UNCHANGED <<image, core, seg, frames_in, rd, wr, engine, requests, cmem, frames, in_reset>>

(* Four register writes, the last one posts the descriptor.                *)
WriteDesc ==
  /\ \/ step = "host" /\ step' = "addr" /\ rd' = [rd EXCEPT !.host = offset]
     \/ step = "addr" /\ step' = "len" /\ rd' = [rd EXCEPT !.addr = <<core, Base + offset>>]
     \/ step = "len" /\ step' = "tag" /\ rd' = [rd EXCEPT !.len = IF left < CHUNK THEN left ELSE CHUNK]
     \/ step = "tag" /\ step' = "poll" /\ rd' = [rd EXCEPT !.valid = TRUE]
  /\ UNCHANGED <<image, core, seg, left, offset, frames_in, staging, wr, engine, requests, cmem, frames, in_reset>>

(* A read of the status register returns the tags and clears them, except  *)
(* for one that arrives in the same cycle.                                 *)
Cleaned(regs, arrives) == [regs EXCEPT !.tags = arrives]

\* Mutant: the next chunk is started as soon as the descriptor is taken.
PollWriteEarly(arrives) ==
  /\ step = "poll"
  /\ rd' = Cleaned(rd, arrives)
  /\ IF rd.valid THEN UNCHANGED <<step, left, offset>>
     ELSE /\ left' = left - CHUNK /\ offset' = offset + CHUNK
          /\ step' = IF left' > 0 THEN "host" ELSE "await"
  /\ UNCHANGED <<image, core, seg, frames_in, staging, wr, cmem, frames, in_reset>>
PollWrite(arrives) ==
  /\ step = "poll"
  /\ rd' = Cleaned(rd, arrives)
  /\ IF rd.tags # {170} THEN UNCHANGED <<step, left, offset>>
     ELSE /\ left' = left - CHUNK /\ offset' = offset + CHUNK
          /\ step' = IF left' > 0 THEN "host" ELSE "await"
  /\ UNCHANGED <<image, core, seg, frames_in, staging, wr, cmem, frames, in_reset>>

(* The host waits until the frame counter of the core has moved.           *)
AwaitFrames ==
  /\ step = "await"
  /\ frames[core] # frames_in
  /\ step' = "next"
  /\ UNCHANGED <<image, core, seg, left, offset, frames_in, staging, rd, wr, engine, requests, cmem, frames, in_reset>>

NextBlock ==
  /\ step = "next"
  /\ \/ seg < Len(image) /\ seg' = seg + 1 /\ step' = "block" /\ UNCHANGED core
     \/ seg = Len(image) /\ core < NCORES /\ core' = core + 1 /\ step' = "frames" /\ UNCHANGED seg
     \/ seg = Len(image) /\ core = NCORES /\ step' = "release" /\ UNCHANGED <<core, seg>>
  /\ UNCHANGED <<image, left, offset, frames_in, staging, rd, wr, engine, requests, cmem, frames, in_reset>>

(* The cores are released in turn, whatever is still under way to them.    *)
(* A block is then read back from the last core.                           *)
Release ==
  /\ step = "release" /\ in_reset' = in_reset \ {Min(in_reset)}
  /\ IF in_reset' = {} THEN step' = "read" /\ seg' = 1 ELSE UNCHANGED <<step, seg>>
  /\ UNCHANGED <<image, core, left, offset, frames_in, staging, rd, wr, engine, requests, cmem, frames>>

block_read ==
  /\ step = "read"
  /\ IF Length = 0 THEN step' = "done" /\ UNCHANGED <<left, offset>>
     ELSE step' = "rhost" /\ left' = Length /\ offset' = 0
  /\ UNCHANGED <<image, core, seg, frames_in, staging, rd, wr, engine, requests, cmem, frames, in_reset>>

WriteReadDesc ==
  /\ \/ step = "rhost" /\ step' = "raddr" /\ wr' = [wr EXCEPT !.host = offset]
     \/ step = "raddr" /\ step' = "rlen" /\ wr' = [wr EXCEPT !.addr = <<core, Base + offset>>]
     \/ step = "rlen" /\ step' = "rtag" /\ wr' = [wr EXCEPT !.len = IF left < CHUNK THEN left ELSE CHUNK]
     \/ step = "rtag" /\ step' = "rpoll" /\ wr' = [wr EXCEPT !.valid = TRUE]
  /\ UNCHANGED <<image, core, seg, left, offset, frames_in, staging, rd, engine, requests, cmem, frames, in_reset>>

PollRead(arrives) ==
  /\ step = "rpoll"
  /\ wr' = Cleaned(wr, arrives)
  /\ IF wr.tags # {85} THEN UNCHANGED <<step, left, offset>>
     ELSE /\ left' = left - CHUNK /\ offset' = offset + CHUNK
          /\ step' = IF left' > 0 THEN "rhost" ELSE "done"
  /\ UNCHANGED <<image, core, seg, frames_in, rd, cmem, frames, in_reset>>

-----------------------------------------------------------------------------
(* The DMA engine takes a posted descriptor.                               *)
TakeDesc ==
  /\ \/ /\ rd.valid /\ rd' = [rd EXCEPT !.valid = FALSE] /\ UNCHANGED wr
        /\ engine' = Append(engine, [dir |-> "load", host |-> rd.host, addr |-> rd.addr, len |-> rd.len])
     \/ /\ wr.valid /\ wr' = [wr EXCEPT !.valid = FALSE] /\ UNCHANGED rd
        /\ engine' = Append(engine, [dir |-> "store", host |-> wr.host, addr |-> wr.addr, len |-> wr.len])
  /\ UNCHANGED <<image, hostPlace, staging, requests, cmem, frames, in_reset>>

(* It fetches a block for a core and reports its tag; fetched says how.    *)
Fetch(fetched) ==
  LET d == Head(engine)
  IN /\ engine # << >> /\ d.dir = "load" /\ engine' = Tail(engine)
     /\ requests' = Append(requests, [core |-> d.addr[1], at |-> d.addr[2],
                            data |-> [n \in 0 .. d.len - 1 |-> staging[d.host + n]]])
     /\ fetched
Complete ==
  /\ Fetch(rd' = [rd EXCEPT !.tags = @ \cup {170}])
  /\ UNCHANGED <<image, hostPlace, staging, wr, cmem, frames, in_reset>>

(* A block comes back as it is in the memory of the core now.              *)
Store(stored) ==
  LET d == Head(engine)
  IN /\ engine # << >> /\ d.dir = "store" /\ engine' = Tail(engine)
     /\ staging' = [n \in DOMAIN staging |->
                      IF d.host <= n /\ n < d.host + d.len
                      THEN cmem[d.addr[1]][d.addr[2] + n - d.host] ELSE staging[n]]
     /\ stored
CompleteRead ==
  /\ Store(wr' = [wr EXCEPT !.tags = @ \cup {85}])
  /\ UNCHANGED <<image, hostPlace, rd, requests, cmem, frames, in_reset>>

(* The status may arrive in the cycle of the read.                         *)
PollOnly == /\ PollWrite({}) \/ (PollRead({}) /\ UNCHANGED staging)
            /\ UNCHANGED <<engine, requests>>
PollAndComplete ==
  \/ Fetch(PollWrite({170}))
  \/ Store(PollRead({85})) /\ UNCHANGED requests

(* The first request under way to a core arrives.                          *)
Holds(p, n) == p.at <= n /\ n - p.at \in DOMAIN p.data
Deliver ==
  \E k \in DOMAIN requests :
    LET p == requests[k]
    IN /\ \A j \in 1 .. k - 1 : requests[j].core # p.core
       /\ requests' = RemoveAt(requests, k)
       /\ cmem' = [cmem EXCEPT ![p.core] =
                     [n \in DOMAIN @ |-> IF Holds(p, n) THEN p.data[n - p.at] ELSE @[n]]]
       /\ frames' = [frames EXCEPT ![p.core] = @ + 1]
       /\ UNCHANGED <<image, hostPlace, staging, rd, wr, engine, in_reset>>

HostStep ==
  \/ ReadFrames \/ block_write \/ WriteDesc \/ AwaitFrames \/ NextBlock \/ Release
  \/ block_read \/ WriteReadDesc
EngineStep == TakeDesc \/ Complete \/ CompleteRead
LoadRest == step = "done" /\ UNCHANGED loadVars

LoadNext == HostStep \/ PollOnly \/ PollAndComplete \/ EngineStep \/ Deliver \/ LoadRest

(* The host goes on, and so do engine and network.                         *)
LoadFairness ==
  /\ WF_loadVars(HostStep) /\ WF_loadVars(PollOnly)
  /\ WF_loadVars(EngineStep \/ PollAndComplete) /\ WF_loadVars(Deliver)
LoadSpec == LoadInit /\ [][LoadNext]_loadVars /\ LoadFairness

-----------------------------------------------------------------------------
Wanted(n) ==
  LET in == {s \in DOMAIN image : image[s].base <= n /\ n < image[s].base + image[s].len}
  IN IF in = {} THEN Empty ELSE LET s == CHOOSE x \in in : TRUE IN Word(s, n - image[s].base)

(* No core memory ever holds a word of another segment, another core's     *)
(* word or a word out of place, although all blocks share one staging area *)
(* and one descriptor register; what the memory of a released core lacks   *)
(* is on its way to that core; and what is read back is the block or, for  *)
(* a word that had not arrived, the memory without it, never what the      *)
(* staging area held before (block_write, block_read and load_firmware).   *)
LoadExact ==
  /\ \A c \in Cores, n \in 0 .. MEMORY - 1 : cmem[c][n] \in {Empty, Wanted(n)}
  /\ \A c \in Cores \ in_reset, n \in 0 .. MEMORY - 1 :
       \/ cmem[c][n] = Wanted(n)
       \/ \E k \in DOMAIN requests :
            LET p == requests[k] IN p.core = c /\ Holds(p, n) /\ p.data[n - p.at] = Wanted(n)
  /\ step = "done" => \A n \in 0 .. Length - 1 : staging[n] \in {Empty, Word(seg, n)}

(* Loading ends with the image in every memory: no status is lost between  *)
(* its arrival and the poll, and no wait is for a frame that never comes   *)
(* (the polls of 0x458 and 0x478, the waits for core register 1).          *)
Loaded == step = "done" /\ \A c \in Cores, n \in 0 .. MEMORY - 1 : cmem[c][n] = Wanted(n)
LoadEnds == <>Loaded

(* "Wait for the core to receive the data memory block": when the host     *)
(* goes on to the next block, the core has the one before.                 *)
BlockReceived ==
  step = "next" => \A n \in 0 .. Length - 1 : cmem[core][Base + n] = Word(seg, n)
=============================================================================
