------------------------------- MODULE AxiMem -------------------------------
(***************************************************************************)
(* The AXI and AXI-Lite bus models of the test benches: a master and a RAM *)
(* connected by the five channels (axi.py, axil.py).  Every coroutine of   *)
(* create_logic and create_port is an action; a channel is one register,   *)
(* driven by one end and emptied by the other in any later cycle, which    *)
(* stands for every pattern of pauses.  A test process queues commands     *)
(* with init_write and init_read and may wait() for the master to be idle. *)
(***************************************************************************)
EXTENDS Integers, Sequences, FiniteSets, SequencesExt, FiniteSetsExt

CONSTANTS
  BW,           \* bytes of a bus word
  SIZE,         \* bytes of the memory
  PAGE,         \* the boundary no burst may cross (0x1000 in the code)
  MAX_BURST,    \* max_burst_len of the master
  IDS,          \* number of AXI ids
  Tests         \* [lite, steps]: the bus and the commands of the test process

ASSUME AxiSizes == BW \in 1 .. SIZE /\ PAGE % BW = 0 /\ SIZE % BW = 0 /\ MAX_BURST >= 1 /\ IDS >= 1

VARIABLES
  lite,         \* AXI-Lite instead of AXI
  steps,        \* what the test process still does
  m,            \* the master's queues and the local state of its coroutines
  ch,           \* the registers of the channels
  r,            \* the RAM's queues and the burst its write_logic works on
  mem,          \* the bytes of the RAM
  writes, asked,    \* the write and the read commands issued
  answered, results,\* write_resp_queue and read_data_queue
  broken        \* an assertion has failed

vars == <<lite, steps, m, ch, r, mem, writes, asked, answered, results, broken>>

None == [op |-> "none"]
Lanes == 0 .. BW - 1

(* A command's beats are num_bytes wide; the first begins at addr, the     *)
(* last ends with the data, the ones between are aligned.                  *)
AlignedAddr(c) == (c.addr \div c.num_bytes) * c.num_bytes
WordAddr(a) == (a \div BW) * BW
Cycles(c) == (c.length + c.num_bytes - 1 + (c.addr % c.num_bytes)) \div c.num_bytes
LaneOf(c, k) == (AlignedAddr(c) - WordAddr(c.addr) + k * c.num_bytes) % BW
Start(c, k) == IF k = 0 THEN c.addr % BW ELSE LaneOf(c, k)
Stop(c, k) == IF k = Cycles(c) - 1 THEN ((c.addr + c.length - 1) % BW) + 1 ELSE LaneOf(c, k) + c.num_bytes
OffsetOf(c, k) == IF k = 0 THEN 0 ELSE k * c.num_bytes - (c.addr % c.num_bytes)
Beat(c, k, last) ==
  LET strb == Start(c, k) .. Stop(c, k) - 1
  IN [val |-> [j \in Lanes |-> IF j \in strb THEN c.data[OffsetOf(c, k) + (j - Start(c, k)) + 1] ELSE 0],
      strb |-> strb, last |-> last]

(* Mutant: bursts are not cut at the page boundary.                        *)
BurstLengthUncut(left, cur_addr, num_bytes) == Min({left, MAX_BURST})
(* max_burst_len, then the 4k boundary.                                    *)
BurstLength(left, cur_addr, num_bytes) ==
  LET n == Min({left, MAX_BURST})
  IN (Min({n * num_bytes, PAGE - (cur_addr % PAGE)}) + num_bytes - 1) \div num_bytes
(* The bursts of a command: cycle, address, id and length of each.         *)
Bursts(c, id) ==
  FoldLeft(LAMBDA acc, k :
             LET at == AlignedAddr(c) + k * c.num_bytes
                 n == BurstLength(Cycles(c) - k, at, c.num_bytes)
             IN IF k < acc.until THEN acc
                ELSE [until |-> k + n, id |-> (acc.id + 1) % IDS,
                      list |-> Append(acc.list, [addr |-> at, id |-> acc.id, length |-> n, num_bytes |-> c.num_bytes,
                                                 burst |-> c.burst, first |-> k])],
           [until |-> 0, id |-> id, list |-> << >>], [i \in 1 .. Cycles(c) |-> i - 1])
LastOf(bursts, k) == \E i \in 1 .. Len(bursts) : k = bursts[i].first + bursts[i].length - 1

-----------------------------------------------------------------------------
AXIMaster ==
  [wcmd |-> << >>, rcmd |-> << >>, cur_write_id |-> 0, cur_read_id |-> 0,
   waddr |-> << >>, wdata |-> << >>, wrespcmd |-> << >>, wresp |-> << >>,
   raddr |-> << >>, rrespcmd |-> << >>, rresp |-> [i \in 0 .. IDS - 1 |-> << >>],
   in_flight |-> 0, wtask |-> None, rtask |-> None]
AXIRam == [waddr |-> << >>, wdata |-> << >>, wresp |-> << >>, raddr |-> << >>, rresp |-> << >>, cur |-> None]
Channels == [c \in {"aw", "w", "b", "ar", "r"} |-> << >>]

Init ==
  /\ \E t \in Tests : lite = t.lite /\ steps = t.steps
  /\ m = AXIMaster /\ ch = Channels /\ r = AXIRam
  /\ mem = [a \in 0 .. SIZE - 1 |-> 0]
  /\ writes = << >> /\ asked = << >> /\ answered = << >> /\ results = << >>
  /\ broken = FALSE

(* The test process.                                                       *)
init_write ==
  /\ steps # << >> /\ Head(steps).op = "write"
  /\ steps' = Tail(steps)
  /\ m' = [m EXCEPT !.wcmd = Append(@, Head(steps))]
  /\ writes' = Append(writes, Head(steps))
  /\ UNCHANGED <<lite, ch, r, mem, asked, answered, results, broken>>
init_read ==
  /\ steps # << >> /\ Head(steps).op = "read"
  /\ steps' = Tail(steps)
  /\ m' = [m EXCEPT !.rcmd = Append(@, Head(steps))]
  /\ asked' = Append(asked, [cmd |-> Head(steps), from |-> Len(answered)])
  /\ UNCHANGED <<lite, ch, r, mem, writes, answered, results, broken>>
idle == m.wcmd = << >> /\ m.rcmd = << >> /\ m.in_flight = 0
wait ==
  /\ steps # << >> /\ Head(steps).op = "wait" /\ idle
  /\ steps' = Tail(steps)
  /\ UNCHANGED <<lite, m, ch, r, mem, writes, asked, answered, results, broken>>

-----------------------------------------------------------------------------
(* The master.                                                             *)
write_logic ==
  /\ ~lite /\ m.wcmd # << >>
  /\ LET c == Head(m.wcmd)
         b == Bursts(c, m.cur_write_id)
     IN m' = [m EXCEPT !.wcmd = Tail(@), !.in_flight = @ + 1, !.cur_write_id = b.id,
                       !.waddr = @ \o b.list,
                       !.wdata = @ \o [i \in 1 .. Cycles(c) |-> Beat(c, i - 1, LastOf(b.list, i - 1))],
                       !.wrespcmd = Append(@, [addr |-> c.addr, length |-> c.length, left |-> Len(b.list)])]
  /\ UNCHANGED <<lite, steps, ch, r, mem, writes, asked, answered, results, broken>>
axil_write_logic ==
  /\ lite /\ m.wcmd # << >>
  /\ LET c == Head(m.wcmd)
     IN m' = [m EXCEPT !.wcmd = Tail(@), !.in_flight = @ + 1,
                       !.waddr = @ \o [i \in 1 .. Cycles(c) |->
                                         [addr |-> WordAddr(c.addr) + (IF i = 1 THEN c.addr % BW ELSE 0) + (i - 1) * BW]],
                       !.wdata = @ \o [i \in 1 .. Cycles(c) |-> Beat(c, i - 1, TRUE)],
                       !.wrespcmd = Append(@, [addr |-> c.addr, length |-> c.length, left |-> Cycles(c)])]
  /\ UNCHANGED <<lite, steps, ch, r, mem, writes, asked, answered, results, broken>>

(* The response of a command comes with that of its last burst (AXI) or    *)
(* its last cycle (AXI-Lite).                                              *)
WriteTask == IF m.wtask # None \/ m.wrespcmd = << >> THEN m.wtask ELSE Head(m.wrespcmd)
WriteResponse ==
  LET t == WriteTask
      rest == IF m.wtask # None THEN m.wrespcmd ELSE Tail(m.wrespcmd)
  IN /\ t # None /\ m.wresp # << >>
     /\ IF t.left = 1
        THEN /\ m' = [m EXCEPT !.wtask = None, !.wrespcmd = rest, !.wresp = Tail(@), !.in_flight = @ - 1]
             /\ answered' = Append(answered, [addr |-> t.addr, length |-> t.length])
        ELSE /\ m' = [m EXCEPT !.wtask = [t EXCEPT !.left = @ - 1], !.wrespcmd = rest, !.wresp = Tail(@)]
             /\ UNCHANGED answered
     /\ UNCHANGED <<lite, steps, ch, r, mem, writes, asked, results, broken>>
write_resp_logic == ~lite /\ WriteResponse
axil_write_resp_logic == lite /\ WriteResponse

read_logic ==
  /\ ~lite /\ m.rcmd # << >>
  /\ LET c == Head(m.rcmd)
         b == Bursts(c, m.cur_read_id)
     IN m' = [m EXCEPT !.rcmd = Tail(@), !.in_flight = @ + 1, !.cur_read_id = b.id,
                       !.raddr = @ \o b.list,
                       !.rrespcmd = Append(@, [cmd |-> c, bursts |-> b.list, k |-> 0, data |-> << >>])]
  /\ UNCHANGED <<lite, steps, ch, r, mem, writes, asked, answered, results, broken>>
axil_read_logic ==
  /\ lite /\ m.rcmd # << >>
  /\ LET c == Head(m.rcmd)
     IN m' = [m EXCEPT !.rcmd = Tail(@), !.in_flight = @ + 1,
                       !.raddr = @ \o [i \in 1 .. Cycles(c) |->
                                         [addr |-> WordAddr(c.addr) + (IF i = 1 THEN c.addr % BW ELSE 0) + (i - 1) * BW]],
                       !.rrespcmd = Append(@, [cmd |-> c, bursts |-> << >>, k |-> 0, data |-> << >>])]
  /\ UNCHANGED <<lite, steps, ch, r, mem, writes, asked, answered, results, broken>>

(* A command's data is collected beat by beat, each from the queue of its  *)
(* burst's id: k counts the beats of the command.                          *)
ReadTask == IF m.rtask # None \/ m.rrespcmd = << >> THEN m.rtask ELSE Head(m.rrespcmd)
RestOfReads == IF m.rtask # None THEN m.rrespcmd ELSE Tail(m.rrespcmd)
BurstAt(t) == CHOOSE b \in Range(t.bursts) : b.first <= t.k /\ t.k < b.first + b.length
Kept(beat, from, to) == [j \in 1 .. to - from |-> beat.val[from + j - 1]]
ReadBeat(t, rid, bytes, holds) ==
  LET data == t.data \o bytes
      rresp == [m.rresp EXCEPT ![rid] = Tail(@)]
  IN /\ IF t.k + 1 = Cycles(t.cmd)
        THEN /\ m' = [m EXCEPT !.rtask = None, !.rrespcmd = RestOfReads, !.rresp = rresp, !.in_flight = @ - 1]
             /\ results' = Append(results, [addr |-> t.cmd.addr, data |-> SubSeq(data, 1, t.cmd.length), upto |-> Len(writes)])
        ELSE /\ m' = [m EXCEPT !.rtask = [t EXCEPT !.k = @ + 1, !.data = data], !.rrespcmd = RestOfReads, !.rresp = rresp]
             /\ UNCHANGED results
     /\ broken' = (broken \/ ~holds)
     /\ UNCHANGED <<lite, steps, ch, r, mem, writes, asked, answered>>
read_resp_logic ==
  /\ ~lite /\ ReadTask # None
  /\ LET t == ReadTask
         b == BurstAt(t)
         beat == Head(m.rresp[b.id])
     IN /\ m.rresp[b.id] # << >>
        /\ ReadBeat(t, b.id, Kept(beat, Start(t.cmd, t.k), LaneOf(t.cmd, t.k) + t.cmd.num_bytes),
                    beat.last = LastOf(t.bursts, t.k))
axil_read_resp_logic ==
  /\ lite /\ ReadTask # None /\ m.rresp[0] # << >>
  /\ LET t == ReadTask
     IN ReadBeat(t, 0, Kept(Head(m.rresp[0]), Start(t.cmd, t.k), Stop(t.cmd, t.k)), TRUE)

(* The interface coroutines of the master: valid with the head of a queue  *)
(* until ready; ready until a valid response.                              *)
Drive(q, c) ==
  /\ m[q] # << >> /\ ch[c] = << >>
  /\ m' = [m EXCEPT ![q] = Tail(@)]
  /\ ch' = [ch EXCEPT ![c] = <<Head(m[q])>>]
  /\ UNCHANGED <<lite, steps, r, mem, writes, asked, answered, results, broken>>
TakeB ==
  /\ ch.b # << >>
  /\ m' = [m EXCEPT !.wresp = Append(@, Head(ch.b))]
  /\ ch' = [ch EXCEPT !.b = << >>]
  /\ UNCHANGED <<lite, steps, r, mem, writes, asked, answered, results, broken>>
TakeR(id) ==
  /\ m' = [m EXCEPT !.rresp = [@ EXCEPT ![id] = Append(@, Head(ch.r))]]
  /\ ch' = [ch EXCEPT !.r = << >>]
  /\ UNCHANGED <<lite, steps, r, mem, writes, asked, answered, results, broken>>
write_addr_interface_logic == ~lite /\ Drive("waddr", "aw")
write_data_interface_logic == ~lite /\ Drive("wdata", "w")
read_addr_interface_logic == ~lite /\ Drive("raddr", "ar")
write_resp_interface_logic == ~lite /\ TakeB
(* Mutant: beats are kept in one queue whatever their id.                  *)
read_resp_interface_logicNoId == ~lite /\ ch.r # << >> /\ TakeR(0)
read_resp_interface_logic == ~lite /\ ch.r # << >> /\ TakeR(Head(ch.r).id)
axil_write_addr_interface_logic == lite /\ Drive("waddr", "aw")
axil_write_data_interface_logic == lite /\ Drive("wdata", "w")
axil_read_addr_interface_logic == lite /\ Drive("raddr", "ar")
axil_write_resp_interface_logic == lite /\ TakeB
axil_read_resp_interface_logic == lite /\ ch.r # << >> /\ TakeR(0)

-----------------------------------------------------------------------------
(* The AXI RAM.                                                            *)
Sample(c, q) ==
  /\ ~lite /\ ch[c] # << >>
  /\ r' = [r EXCEPT ![q] = Append(@, Head(ch[c]))]
  /\ ch' = [ch EXCEPT ![c] = << >>]
  /\ UNCHANGED <<lite, steps, m, mem, writes, asked, answered, results, broken>>
Respond(q, c) ==
  /\ ~lite /\ r[q] # << >> /\ ch[c] = << >>
  /\ r' = [r EXCEPT ![q] = Tail(@)]
  /\ ch' = [ch EXCEPT ![c] = <<Head(r[q])>>]
  /\ UNCHANGED <<lite, steps, m, mem, writes, asked, answered, results, broken>>
AXIRam_write_addr_interface_logic == Sample("aw", "waddr")
AXIRam_write_data_interface_logic == Sample("w", "wdata")
AXIRam_read_addr_interface_logic == Sample("ar", "raddr")
AXIRam_write_resp_interface_logic == Respond("wresp", "b")
AXIRam_read_resp_interface_logic == Respond("rresp", "r")

(* The addresses of a burst's beats, and the assertion on its page.        *)
NextAddr(b, a) ==
  LET transfer_size == b.num_bytes * b.length
      lower == (b.addr \div transfer_size) * transfer_size
  IN CASE b.burst = "FIXED" -> a
       [] b.burst = "INCR" -> a + b.num_bytes
       [] b.burst = "WRAP" -> IF a + b.num_bytes = lower + transfer_size THEN lower ELSE a + b.num_bytes
InPage(b) == b.burst = "INCR" => PAGE - (AlignedAddr(b) % PAGE) >= b.num_bytes * b.length
Word(a) == [j \in Lanes |-> mem[(WordAddr(a) + j) % SIZE]]
Stored(a, beat) ==
  [x \in 0 .. SIZE - 1 |->
     IF \E j \in beat.strb : x = (WordAddr(a) % SIZE) + j THEN beat.val[x - (WordAddr(a) % SIZE)] ELSE mem[x]]

(* write_logic takes a burst, then its beats as they come.                 *)
AXIRam_write_burst ==
  /\ ~lite /\ r.cur = None /\ r.waddr # << >>
  /\ LET b == Head(r.waddr)
     IN /\ r' = [r EXCEPT !.waddr = Tail(@), !.cur = [b |-> b, at |-> AlignedAddr(b), n |-> 0]]
        /\ broken' = (broken \/ ~InPage(b))
  /\ UNCHANGED <<lite, steps, m, ch, mem, writes, asked, answered, results>>
AXIRam_write_beat ==
  /\ ~lite /\ r.cur # None /\ r.wdata # << >>
  /\ LET c == r.cur
         beat == Head(r.wdata)
         last == c.n = c.b.length - 1
     IN /\ mem' = Stored(c.at, beat)
        /\ r' = [r EXCEPT !.wdata = Tail(@), !.wresp = IF last THEN Append(@, c.b.id) ELSE @,
                          !.cur = IF last THEN None ELSE [c EXCEPT !.n = @ + 1, !.at = NextAddr(c.b, @)]]
        /\ broken' = (broken \/ beat.last # last)
  /\ UNCHANGED <<lite, steps, m, ch, writes, asked, answered, results>>
(* read_logic reads a burst without waiting.                               *)
AXIRam_read_logic ==
  /\ ~lite /\ r.raddr # << >>
  /\ LET b == Head(r.raddr)
         beats == FoldLeft(LAMBDA acc, n :
                             [at |-> NextAddr(b, acc.at),
                              list |-> Append(acc.list, [val |-> Word(acc.at), id |-> b.id, last |-> n = b.length])],
                           [at |-> AlignedAddr(b), list |-> << >>], [n \in 1 .. b.length |-> n])
     IN /\ r' = [r EXCEPT !.raddr = Tail(@), !.rresp = @ \o beats.list]
        /\ broken' = (broken \/ ~InPage(b))
  /\ UNCHANGED <<lite, steps, m, ch, mem, writes, asked, answered, results>>

(* The AXI-Lite RAM: one coroutine takes the address, the data and gives   *)
(* the response before it takes the next address; another reads.           *)
AXILiteRam_write_addr ==
  /\ lite /\ r.cur = None /\ ch.aw # << >>
  /\ r' = [r EXCEPT !.cur = [at |-> WordAddr(Head(ch.aw).addr)]]
  /\ ch' = [ch EXCEPT !.aw = << >>]
  /\ UNCHANGED <<lite, steps, m, mem, writes, asked, answered, results, broken>>
AXILiteRam_write_data ==
  /\ lite /\ r.cur # None /\ ch.w # << >> /\ ch.b = << >>
  /\ mem' = Stored(r.cur.at, Head(ch.w))
  /\ ch' = [ch EXCEPT !.w = << >>, !.b = <<0>>]
  /\ r' = [r EXCEPT !.cur = None]
  /\ UNCHANGED <<lite, steps, m, writes, asked, answered, results, broken>>
AXILiteRam_read_logic ==
  /\ lite /\ ch.ar # << >> /\ ch.r = << >>
  /\ ch' = [ch EXCEPT !.ar = << >>, !.r = <<[val |-> Word(Head(ch.ar).addr)]>>]
  /\ UNCHANGED <<lite, steps, m, r, mem, writes, asked, answered, results, broken>>

Test == init_write \/ init_read \/ wait
Master ==
  \/ write_logic \/ write_resp_logic \/ write_addr_interface_logic \/ write_data_interface_logic
  \/ write_resp_interface_logic \/ read_logic \/ read_resp_logic \/ read_addr_interface_logic
  \/ read_resp_interface_logic
Ram ==
  \/ AXIRam_write_addr_interface_logic \/ AXIRam_write_data_interface_logic \/ AXIRam_read_addr_interface_logic
  \/ AXIRam_write_resp_interface_logic \/ AXIRam_read_resp_interface_logic
  \/ AXIRam_write_burst \/ AXIRam_write_beat \/ AXIRam_read_logic
LiteMaster ==
  \/ axil_write_logic \/ axil_write_resp_logic \/ axil_write_addr_interface_logic \/ axil_write_data_interface_logic
  \/ axil_write_resp_interface_logic \/ axil_read_logic \/ axil_read_resp_logic \/ axil_read_addr_interface_logic
  \/ axil_read_resp_interface_logic
LiteRam == AXILiteRam_write_addr \/ AXILiteRam_write_data \/ AXILiteRam_read_logic
Step == Test \/ Master \/ Ram \/ LiteMaster \/ LiteRam

(* Some coroutine has something to do.                                     *)
Ready ==
  \/ steps # << >> /\ (Head(steps).op = "wait" => idle)
  \/ m.wcmd # << >> \/ m.rcmd # << >>
  \/ WriteTask # None /\ m.wresp # << >>
  \/ ReadTask # None /\ m.rresp[IF lite THEN 0 ELSE BurstAt(ReadTask).id] # << >>
  \/ \E p \in {<<m.waddr, ch.aw>>, <<m.wdata, ch.w>>, <<m.raddr, ch.ar>>} : p[1] # << >> /\ p[2] = << >>
  \/ ch.b # << >> \/ ch.r # << >>
  \/ ~lite /\ (\E c \in {"aw", "w", "ar"} : ch[c] # << >>)
  \/ ~lite /\ (r.wresp # << >> \/ r.rresp # << >> \/ r.raddr # << >>)
  \/ ~lite /\ (IF r.cur = None THEN r.waddr # << >> ELSE r.wdata # << >>)
  \/ lite /\ (ch.ar # << >> \/ (IF r.cur = None THEN ch.aw # << >> ELSE ch.w # << >>))
Rest == ~Ready /\ UNCHANGED vars
Next == Step \/ Rest

(* The simulator runs the coroutines that can run, and no end of a channel *)
(* pauses for ever.                                                        *)
Fairness == []<>~Ready \/ []<><<Step>>_vars
Spec == Init /\ [][Next]_vars /\ Fairness

-----------------------------------------------------------------------------
(* What a command means: where byte i of it lives, and what a byte of      *)
(* memory is after the first k writes.                                     *)
Place(c, i) ==
  CASE c.burst = "INCR" -> c.addr + i
    [] c.burst = "WRAP" -> LET lower == (c.addr \div c.length) * c.length
                           IN lower + (((c.addr - lower) + i) % c.length)
    [] c.burst = "FIXED" -> c.addr + (i % c.num_bytes)
Written(c, a) == {i \in 0 .. c.length - 1 : Place(c, i) % SIZE = a}
ValueAfter(k, a) ==
  LET hits == {j \in 1 .. k : Written(writes[j], a) # {}}
  IN IF hits = {} THEN 0 ELSE writes[Max(hits)].data[Max(Written(writes[Max(hits)], a)) + 1]

(* Reads return what was written: every byte of an answered read is the    *)
(* byte's value after some of the writes that may have been done by then:  *)
(* all that were answered when the read was issued, at most those issued   *)
(* when it was answered; answers come in the order of the commands; and no *)
(* assertion of master or RAM on bursts, pages and last beats fails, for   *)
(* every alignment, beat size, burst type, id reuse and pattern of pauses  *)
(* (write_logic, read_logic, read_resp_logic of both classes).             *)
ReadsExact ==
  /\ ~broken
  /\ \A i \in 1 .. Len(results) :
       LET c == asked[i].cmd
       IN /\ results[i].addr = c.addr /\ Len(results[i].data) = c.length
          /\ \A j \in 0 .. c.length - 1 :
               \E k \in asked[i].from .. results[i].upto : results[i].data[j + 1] = ValueAfter(k, Place(c, j) % SIZE)

(* A write is answered only when its bytes are in memory: once the writes  *)
(* answered are all that were issued, memory is their result, in the order *)
(* they were issued, and no other byte has changed (write_logic and        *)
(* write_resp_logic, wstrb in the RAMs).                                   *)
WritesExact ==
  /\ \A i \in 1 .. Len(answered) : answered[i].addr = writes[i].addr /\ answered[i].length = writes[i].length
  /\ Len(answered) = Len(writes) => \A a \in 0 .. SIZE - 1 : mem[a] = ValueAfter(Len(writes), a)

Answered == steps = << >> /\ idle /\ Len(answered) = Len(writes) /\ Len(results) = Len(asked)

(* The test process never hangs in wait(): every command is answered and   *)
(* the master becomes idle (in_flight_operations).                         *)
AllAnswered == <>Answered
=============================================================================
