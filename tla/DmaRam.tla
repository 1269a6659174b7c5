------------------------------- MODULE DmaRam -------------------------------
(***************************************************************************)
(* The RAM models behind the DMA engines: PsdpRam of dma_psdp_ram.py and   *)
(* PSDPRam of dma_ram.py.  The memory is cut into segments that lie in     *)
(* turns in the address space; each segment has its own write command,     *)
(* read command and read response channel, and all of them move on the     *)
(* same clock edge.  A segment answers its reads through a pipeline that   *)
(* must neither drop nor overtake when the reader holds back or the model  *)
(* is paused.                                                              *)
(***************************************************************************)
EXTENDS Integers, Sequences, SequencesExt

CONSTANTS
  SEGS,       \* number of segments
  LANES,      \* bytes of a segment word
  SIZE,       \* bytes of the memory
  Kinds,      \* [reset |-> the model has a reset input, latency |-> of the reads]
  Scripts,    \* what the engine asks of each segment: [wr |-> , rd |-> ]
  MAXRESET    \* bound on the resets

VARIABLES
  kind,
  ram,
  wr, rd,     \* commands still to come, of each segment; the first one is
  wv, rv,     \*   on the bus while the flag is set
  cmd_ready,  \* of all segments, as the write process keeps it
  wr_ready,   \*   and as the bus shows it
  wr_done,    \* segments whose write is being acknowledged (PsdpRamWrite)
  rd_ready,   \* the ready flag the model registers, of each segment
  pipeline,   \* of each segment, the stage before the output last
  resp,       \* the response on the bus
  written,    \* write commands that were stored, of each segment
  owed,       \* commands taken less acknowledgements seen, of each segment
  want,       \* words read at a command, and what it saw
  returned,   \* words the engine received
  ram_resets

writeVars == <<cmd_ready, wr_ready, wr_done, owed>>
ramVars == <<kind, ram, wr, rd, wv, rv, rd_ready, pipeline, resp, writeVars,
             written, want, returned, ram_resets>>

Segs == 0 .. SEGS - 1
Lanes == 0 .. LANES - 1
NoWord == << >>

RamInit ==
  /\ kind \in Kinds
  /\ ram = [a \in 0 .. SIZE - 1 |-> 0]
  /\ \E s \in Scripts : /\ wr = [k \in Segs |-> s[k].wr]
                        /\ rd = [k \in Segs |-> s[k].rd]
  /\ wv = [s \in Segs |-> FALSE] /\ rv = wv
  /\ cmd_ready = FALSE /\ wr_ready = FALSE /\ wr_done = {}
  /\ owed = [s \in Segs |-> 0]
  /\ rd_ready = [s \in Segs |-> FALSE]
  /\ pipeline = [s \in Segs |-> [i \in 1 .. kind.latency |-> NoWord]]
  /\ resp = [s \in Segs |-> NoWord]
  /\ written = [s \in Segs |-> << >>]
  /\ want = [s \in Segs |-> << >>] /\ returned = want
  /\ ram_resets = 0

-----------------------------------------------------------------------------
(* The first byte of a segment word.                                       *)
\* Mutant: the segments lie one after the other.
addrBlocks(seg, seg_addr) == ((seg * (SIZE \div (SEGS * LANES)) + seg_addr) * LANES) % SIZE
addr(seg, seg_addr) == ((seg_addr * SEGS + seg) * LANES) % SIZE

ReadWord(m, seg, seg_addr) == [i \in Lanes |-> m[addr(seg, seg_addr) + i]]

(* A byte lane takes the command's byte when it is enabled.  The lanes of  *)
(* the commands taken at one edge are disjoint.                            *)
write_logic(m, taken) ==
  [a \in DOMAIN m |->
     LET hit == {s \in taken : \E i \in Head(wr[s]).be : addr(s, Head(wr[s]).addr) + i = a}
     IN IF hit = {} THEN m[a] ELSE Head(wr[CHOOSE s \in hit : TRUE]).id]

(* One step of the pipeline: every empty stage takes the word before it.   *)
Shift(p) ==
  LET Moves(i) == \E j \in i .. Len(p) : p[j] = NoWord
  IN [i \in DOMAIN p |->
        CASE ~Moves(i) -> p[i] [] i = 1 -> NoWord [] OTHER -> p[i - 1]]

(* A read port at an edge: the output register takes the last stage unless *)
(* its word is still waiting, the pipeline moves up, and the word of a new *)
(* command enters.                                                         *)
read_logic(p, out, ready, word) ==
  LET free  == ready \/ out = NoWord
      moved == Shift(IF free THEN [p EXCEPT ![Len(p)] = NoWord] ELSE p)
  IN [out      |-> IF free THEN p[Len(p)] ELSE out,
      pipeline |-> IF word = NoWord THEN moved ELSE [moved EXCEPT ![1] = word]]

(* PsdpRamRead offers the ready flag that it registers; PSDPRam is also    *)
(* ready when its response is being taken, and a pause acts at once.       *)
rd_cmd_ready(s, rr, pause) ==
  IF kind.reset THEN rd_ready[s] ELSE (s \in rr \/ rd_ready[s]) /\ ~pause

NextReady(out, p, pause) ==
  /\ kind.reset => ~pause
  /\ out = NoWord \/ \E i \in DOMAIN p : p[i] = NoWord

(* The engine puts its next command on the bus.                            *)
IssueWrite(s) == /\ ~wv[s] /\ wr[s] # << >>
                 /\ wv' = [wv EXCEPT ![s] = TRUE]
                 /\ UNCHANGED <<kind, ram, wr, rd, rv, writeVars, rd_ready, pipeline, resp,
                                written, want, returned, ram_resets>>
IssueRead(s) == /\ ~rv[s] /\ rd[s] # << >>
                /\ rv' = [rv EXCEPT ![s] = TRUE]
                /\ UNCHANGED <<kind, ram, wr, rd, wv, writeVars, rd_ready, pipeline, resp,
                               written, want, returned, ram_resets>>

(* A clock edge.  The write and the read process run in either order, so a *)
(* read may or may not see what is written at the same edge.  rr are the   *)
(* segments whose response the engine is ready to take.  The write process *)
(* goes by its own ready flag, the engine by the one on the bus; PSDPRam   *)
(* has no wr_done.                                                         *)
Edge(pw, pr, rr, before) ==
  LET stored == {s \in Segs : cmd_ready /\ wv[s]}
      wtaken == {s \in Segs : wr_ready /\ wv[s]}
      rtaken == {s \in Segs : rv[s] /\ rd_cmd_ready(s, rr, pr)}
      after  == write_logic(ram, stored)
      seen   == IF before THEN ram ELSE after
      Word(s) == IF s \in rtaken THEN ReadWord(seen, s, Head(rd[s])) ELSE NoWord
      port   == [s \in Segs |-> read_logic(pipeline[s], resp[s], s \in rr, Word(s))]
  IN /\ ram' = after
     /\ wr' = [s \in Segs |-> IF s \in wtaken THEN Tail(wr[s]) ELSE wr[s]]
     /\ wv' = [s \in Segs |-> wv[s] /\ s \notin wtaken]
     /\ written' = [s \in Segs |-> IF s \in stored THEN Append(written[s], Head(wr[s]))
                                   ELSE written[s]]
     /\ rd' = [s \in Segs |-> IF s \in rtaken THEN Tail(rd[s]) ELSE rd[s]]
     /\ rv' = [s \in Segs |-> rv[s] /\ s \notin rtaken]
     /\ want' = [s \in Segs |->
                   IF s \in rtaken
                   THEN Append(want[s], [addr |-> Head(rd[s]),
                                         seen |-> IF before THEN written[s] ELSE written'[s]])
                   ELSE want[s]]
     /\ returned' = [s \in Segs |-> IF s \in rr /\ resp[s] # NoWord THEN Append(returned[s], resp[s])
                               ELSE returned[s]]
     /\ pipeline' = [s \in Segs |-> port[s].pipeline]
     /\ resp' = [s \in Segs |-> port[s].out]
     /\ cmd_ready' = ~pw /\ wr_ready' = ~pw
     /\ wr_done' = IF kind.reset THEN stored ELSE {}
     /\ owed' = [s \in Segs |-> owed[s] + (IF kind.reset /\ s \in wtaken THEN 1 ELSE 0)
                                       - (IF s \in wr_done THEN 1 ELSE 0)]
     /\ rd_ready' = [s \in Segs |-> NextReady(port[s].out, port[s].pipeline, pr)]
     /\ UNCHANGED <<kind, ram_resets>>

(* An edge in reset, which the engine shares.  The response on the bus and *)
(* the commands on it are withdrawn; a word in the pipeline stays there,   *)
(* and so does the ready flag of the write process, while the bus shows    *)
(* that it is not ready.                                                   *)
ReadReset == rd_ready' = [s \in Segs |-> FALSE] /\ resp' = [s \in Segs |-> NoWord]
ramReset ==
  /\ kind.reset /\ ram_resets < MAXRESET
  /\ ram_resets' = ram_resets + 1
  /\ ReadReset
  /\ wv' = [s \in Segs |-> FALSE] /\ rv' = wv'
  /\ wr_ready' = FALSE /\ wr_done' = {}
  /\ UNCHANGED <<kind, ram, wr, rd, cmd_ready, owed, pipeline, written, want, returned>>

Working ==
  \E s \in Segs : s \in wr_done \/ wv[s] \/ rv[s] \/ resp[s] # NoWord \/ \E i \in DOMAIN pipeline[s] : pipeline[s][i] # NoWord

ramRest == ~Working /\ (\A s \in Segs : wr[s] = << >> /\ rd[s] = << >>) /\ UNCHANGED ramVars

Issue == \E s \in Segs : IssueWrite(s) \/ IssueRead(s)
RamNext ==
  \/ Issue
  \/ \E pw, pr, before \in BOOLEAN, rr \in SUBSET Segs :
       /\ Working
       /\ before \/ \E s \in Segs : wv[s] /\ rv[s]    \* else the order does not matter
       /\ Edge(pw, pr, rr, before)
  \/ ramReset \/ ramRest

(* The engine issues its commands and takes responses again and again.     *)
CanIssue == \E s \in Segs : (~wv[s] /\ wr[s] # << >>) \/ (~rv[s] /\ rd[s] # << >>)
ClearEdge == \E before \in BOOLEAN : Edge(FALSE, FALSE, Segs, before)
RamFairness ==
  /\ []<>~CanIssue \/ []<><<Issue>>_ramVars
  /\ []<>~Working \/ []<><<ClearEdge>>_ramVars
RamSpec == RamInit /\ [][RamNext]_ramVars /\ RamFairness

-----------------------------------------------------------------------------
(* The word that a read of row n returns after the given writes of its     *)
(* segment: byte by byte the last one that enables it.  Rows repeat at the *)
(* end of the memory.                                                      *)
Rows == SIZE \div (SEGS * LANES)
Reference(w) ==
  [i \in Lanes |->
     LET hit == {k \in DOMAIN w.seen : w.seen[k].addr % Rows = w.addr % Rows /\ i \in w.seen[k].be}
     IN IF hit = {} THEN 0 ELSE w.seen[CHOOSE k \in hit : \A j \in hit : j <= k].id]

InFlight(s) == SelectSeq(<<resp[s]>> \o Reverse(pipeline[s]), LAMBDA x : x # NoWord)

(* Each segment answers every read that it took exactly once, in order,    *)
(* with the bytes that the writes taken before it left there, whatever the *)
(* pauses and however long the engine holds back its responses; a reset    *)
(* withdraws at most the one response on the bus of a segment (read_logic  *)
(* and write_logic of dma_ram.py, _run of dma_psdp_ram.py).  A write that  *)
(* was taken is acknowledged once by wr_done; a reset makes that one too   *)
(* few (a pulse it cuts off) or one too many (a command that is on the bus *)
(* at the first edge after it is stored at that edge, and again when the   *)
(* engine sees the ready flag).                                            *)
RamExact ==
  \A s \in Segs :
    LET unpaid == owed[s] - (IF s \in wr_done THEN 1 ELSE 0)
        seen   == returned[s] \o InFlight(s)
        answer == [i \in DOMAIN want[s] |-> Reference(want[s][i])]
    IN /\ unpaid \in -ram_resets .. ram_resets
       /\ Len(answer) - ram_resets <= Len(seen) /\ Len(seen) <= Len(answer)
       /\ \E at \in [1 .. Len(seen) -> 1 .. Len(answer)] :
            /\ \A i, j \in 1 .. Len(seen) : i < j => at[i] < at[j]
            /\ \A i \in 1 .. Len(seen) : seen[i] = answer[at[i]]

(* Every command is taken and every read answered, however the model and   *)
(* the engine pause, as long as neither does for ever.                     *)
RamDone == ~Working /\ \A s \in Segs : rd[s] = << >> /\ wr[s] = << >>
AllRead == <>RamDone
=============================================================================
