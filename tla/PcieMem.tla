------------------------------- MODULE PcieMem -------------------------------
(***************************************************************************)
(* Memory, IO and config transfers of the PCIe simulation models:          *)
(* processes call the read and write methods of a requester, requests      *)
(* travel over FIFO links, a completer answers them, completions are       *)
(* matched to the waiting process by tag.                                  *)
(*                                                                         *)
(* unit.req is the requester class (pcie.py RootComplex and Function,      *)
(* pcie_if.py PcieIfTestDevice), unit.cpl the completer class              *)
(* (MemoryEndpoint, RootComplex, PcieIfTestDevice).  Memory 0 is the       *)
(* host's, memory d the one behind the BARs of device d in Devs, memory    *)
(* DEVS + d its config space (what its registers do is in PcieConfig), and *)
(* Absent stands for a function that is not there.  A root complex reaches *)
(* every device, a device only the host.  unit.bus_master_enable is the    *)
(* bit of the command register that lets a Function send requests.         *)
(*                                                                         *)
(* A byte is a record: the address it belongs at and the process that      *)
(* wrote it (0 initially).  Requests carry the ghost field id, the         *)
(* process, the operation and the request they were sent for.              *)
(*                                                                         *)
(* A byte-enable nibble is the set of the byte lanes it enables.  Data is  *)
(* a sequence of bytes, four per dword; bytes are opaque, Pad is the zero  *)
(* byte the packing code fills unused lanes with.  PAGE, MRRS, MPS and RCB *)
(* stand for 0x1000, 128 << max_read_request_size, 128 <<                  *)
(* max_payload_size and 128.                                               *)
(***************************************************************************)
EXTENDS Integers, Sequences, FiniteSetsExt, SequencesExt

CONSTANTS
  PAGE, MRRS, MPS, RCB,
  DEVS,       \* number of devices below the root complex
  SIZE,       \* bytes of every memory; addresses from SIZE on match nothing
  CFG,        \* bytes of every config space
  CapOffset(_, _), \* get_capability_offset: where a config space has a capability, 0 if nowhere
  Units,      \* the requester/completer pairs to examine, with their tag_count
  Programs(_) \* for a unit, the assignments of operation sequences to processes

ASSUME TlpSizes ==
  /\ {PAGE, MRRS, MPS, RCB} \subseteq Nat \ {0}
  /\ RCB % 4 = 0 /\ MPS % RCB = 0 /\ MRRS % RCB = 0 /\ PAGE % RCB = 0

Lanes == 0..3

Pad == [at |-> 0 - 1, by |-> 0]

(* The byte enables that select the bytes addr .. addr+length-1.           *)
set_be(addr, length) ==
  LET first == addr % 4
      last  == 3 - ((addr + length - 1) % 4)
      dws   == (length + first + last + 3) \div 4
      low   == {b \in Lanes : b >= first}
      high  == {b \in Lanes : b <= 3 - last}
  IN [address  |-> addr - first,
      length   |-> dws,
      first_be |-> IF dws = 1 THEN low \cap high ELSE low,
      last_be  |-> IF dws = 1 THEN {} ELSE high]

(* The payload of set_be_data: data padded to whole dwords.                *)
set_be_data(addr, data) ==
  [i \in 1 .. 4 * set_be(addr, Len(data)).length |->
     LET k == i - (addr % 4) IN IF k \in DOMAIN data THEN data[k] ELSE Pad]

get_first_be_offset(be) == IF be \cap {0, 1, 2} = {} THEN 3 ELSE Min(be)

get_last_be_offset(tlp) ==
  LET be == IF tlp.length = 1 THEN tlp.first_be ELSE tlp.last_be
  IN IF be = {} THEN 0 ELSE 3 - Max(be)

get_be_byte_count(tlp) ==
  4 * tlp.length - get_first_be_offset(tlp.first_be) - get_last_be_offset(tlp)

\* Mutant: a write changes the whole dwords it touches.
EnabledWhole(tlp) == 0 .. 4 * tlp.length - 1
(* The byte offsets, from the TLP's address, that a write changes.         *)
Enabled(tlp) ==
  {o \in 0 .. 4 * tlp.length - 1 :
     LET be == IF o < 4 THEN tlp.first_be
               ELSE IF o >= 4 * (tlp.length - 1) THEN tlp.last_be ELSE Lanes
     IN o % 4 \in be}

(* The checks of TLP.check, which every send and receive asserts.          *)
check(tlp) ==
  /\ tlp.type \in {"mem_write", "io_write"} => Len(tlp.data) = 4 * tlp.length
  /\ tlp.type \in {"mem_read", "mem_write"} =>
       4 * tlp.length <= PAGE - (tlp.address % PAGE)
  /\ tlp.type \in {"io_read", "io_write"} => tlp.length = 1 /\ tlp.last_be = {}
  /\ tlp.type = "cpl_data" =>
       tlp.byte_count + (tlp.lower_address % 4) + 3 >= Len(tlp.data)

set_completion(tlp, type, status) ==
  [type |-> type, tag |-> tlp.tag, status |-> status, byte_count |-> 0,
   lower_address |-> 0, data |-> << >>, id |-> tlp.id]

set_ur_completion(tlp) == set_completion(tlp, "cpl", "UR")

(* A one-dword completion with data: byte_count is always 4.               *)
DwordCompletion(tlp, data) ==
  [set_completion(tlp, "cpl_data", "SC") EXCEPT !.data = data, !.byte_count = 4]

(* Completions for a memory read whose dwords hold data: every completion  *)
(* carries the bytes still due, and all but the last end on an RCB         *)
(* boundary.  m counts dwords, n bytes, addr the next byte.                *)
RECURSIVE SplitCompletions(_, _, _, _, _)
SplitCompletions(tlp, data, m, n, addr) ==
  IF m >= tlp.length THEN << >>
  ELSE LET left == tlp.length - m
           dws  == IF left > MPS \div 4
                   THEN (MPS \div 4) - ((addr % RCB) \div 4) ELSE left
           step == 4 * dws - (addr % 4)
           cpl  == [set_completion(tlp, "cpl_data", "SC") EXCEPT
                      !.byte_count    = get_be_byte_count(tlp) - n,
                      !.lower_address = addr % RCB,
                      !.data          = SubSeq(data, 4*m + 1, 4*(m + dws))]
       IN <<cpl>> \o SplitCompletions(tlp, data, m + dws, n + step, addr + step)

ReadCompletions(tlp, data) ==
  SplitCompletions(tlp, data, 0, 0, tlp.address + get_first_be_offset(tlp.first_be))

(* How a requester folds one completion into the bytes it has: the two     *)
(* assertions of the receive loop, then the slice of the payload.          *)
TakeCompletion(byte_length, got, cpl) ==
  LET off  == cpl.lower_address % 4
      last == Min({off + cpl.byte_count, Len(cpl.data)})
  IN IF got.bad \/ got.m >= byte_length THEN got
     ELSE IF /\ cpl.byte_count + 3 + off >= Len(cpl.data)
             /\ cpl.byte_count = byte_length - got.m
          THEN [bad  |-> FALSE,
                m    |-> got.m + Len(cpl.data) - off,
                data |-> got.data \o SubSeq(cpl.data, off + 1, last)]
          ELSE [got EXCEPT !.bad = TRUE]

-----------------------------------------------------------------------------
Devs  == 1 .. DEVS
Absent == 2 * DEVS + 1
MemSize(d) == IF d <= DEVS THEN SIZE ELSE IF d < Absent THEN CFG ELSE 0

VARIABLES
  unit,
  prog,        \* prog[p]: the operations process p performs
  proc,        \* proc[p]: progress of process p
  mem,         \* mem[d][a]
  tx,          \* tx[d][c]: requests under way to the completer, per interface
  rx,          \* rx[d]: completions under way to the requester
  rx_cpl_queues, woken, current_tag, tag_active

vars == <<unit, prog, proc, mem, tx, rx, rx_cpl_queues, woken, current_tag, tag_active>>

Procs == DOMAIN prog
TAGS == unit.tags
TagSet == 0 .. TAGS - 1

(* capability_read and capability_write: the config method at the offset   *)
(* of the capability.                                                      *)
capability_read(op) == [op EXCEPT !.addr = @ + CapOffset(op.dev, op.cap)]
capability_write(op) == [op EXCEPT !.addr = @ + CapOffset(op.dev, op.cap)]
OpAt(p, i) ==
  LET op == prog[p][i]
  IN IF op.cap = "none" THEN op ELSE IF op.kind = "cfg_read" THEN capability_read(op) ELSE capability_write(op)
Op(p) == OpAt(p, proc[p].pc)

(* The methods for words: a word is the sequence of its bytes, the least   *)
(* significant first.                                                      *)
WordSize(size) == CASE size = "byte" -> 1 [] size = "word" -> 2 [] size = "dword" -> 4 [] size = "qword" -> 8
from_bytes(data, ws) == [k \in 1 .. Len(data) \div ws |-> SubSeq(data, ws * (k - 1) + 1, ws * k)]
to_bytes(words) == FlattenSeq(words)

(* mem_write_byte, config_write_byte and capability_write_byte pass the    *)
(* byte on as a list, which set_be_data cannot join to the padding: an     *)
(* exception before anything is sent.                                      *)
write_byte(op) == op.size = "list"

RootComplex_mem_read_words(op, data) == from_bytes(data, WordSize(op.size))
Function_mem_read_words(op, data) == from_bytes(data, WordSize(op.size))
config_read_words(op, data) == from_bytes(data, WordSize(op.size))
capability_read_words(op, data) == from_bytes(data, WordSize(op.size))
RootComplex_mem_write_words(words) == to_bytes(words)
Function_mem_write_words(words) == to_bytes(words)
config_write_words(words) == to_bytes(words)
capability_write_words(words) == to_bytes(words)

Written_bytes(p, op) == [i \in 1 .. op.len |-> [at |-> op.addr + i - 1, by |-> p]]
Bytes(p, op) ==
  LET w == WordSize(op.size)
      words == [k \in 1 .. op.len \div w |-> [j \in 1 .. w |-> [at |-> op.addr + w * (k - 1) + j - 1, by |-> p]]]
  IN CASE op.size = "bytes" -> Written_bytes(p, op)
       [] op.size # "bytes" /\ op.kind = "mem_write" /\ unit.req = "rc" -> RootComplex_mem_write_words(words)
       [] op.size # "bytes" /\ op.kind = "mem_write" /\ unit.req # "rc" -> Function_mem_write_words(words)
       [] op.size # "bytes" /\ op.kind = "cfg_write" /\ op.cap = "none" -> config_write_words(words)
       [] op.size # "bytes" /\ op.kind = "cfg_write" /\ op.cap # "none" -> capability_write_words(words)
Result(op, data) ==
  CASE op.size = "bytes" \/ data = << >> -> data
    [] op.size # "bytes" /\ op.kind = "mem_read" /\ unit.req = "rc" -> RootComplex_mem_read_words(op, data)
    [] op.size # "bytes" /\ op.kind = "mem_read" /\ unit.req # "rc" -> Function_mem_read_words(op, data)
    [] op.size # "bytes" /\ op.kind = "cfg_read" /\ op.cap = "none" -> config_read_words(op, data)
    [] op.size # "bytes" /\ op.kind = "cfg_read" /\ op.cap # "none" -> capability_read_words(op, data)

(* PcieIfTestDevice sends writes and reads over two interfaces.            *)
Channels == {"wr", "rd"}
Channel(kind) == IF unit.req = "testdev" /\ kind \in {"mem_read", "io_read"}
                 THEN "rd" ELSE "wr"
(* The link and the memory an operation on memory d uses.                  *)
LinkOf(d) == CASE d \in {0, Absent} -> 1 [] d \in Devs -> d [] d > DEVS /\ d < Absent -> d - DEVS
Running(p) == proc[p].st = "run" /\ proc[p].pc <= Len(prog[p])
Waiting(p) == \E k \in DOMAIN proc[p].reqs : proc[p].reqs[k].st # "done"

Idle(pc, done) == [pc |-> pc, st |-> "run", n |-> 0, data |-> << >>, reqs |-> << >>, done |-> done]

Init ==
  /\ unit \in Units
  /\ prog \in Programs(unit)
  /\ proc = [p \in DOMAIN prog |-> Idle(1, << >>)]
  /\ mem = [d \in 0 .. Absent |-> [a \in 0 .. MemSize(d) - 1 |-> [at |-> a, by |-> 0]]]
  /\ tx = [d \in Devs |-> [c \in Channels |-> << >>]]
  /\ rx = [d \in Devs |-> << >>]
  /\ rx_cpl_queues = [t \in TagSet |-> << >>]
  /\ woken = {}
  /\ current_tag = 0
  /\ tag_active = {}

-----------------------------------------------------------------------------
(* Requests.  Each method cuts what is left of a transfer into requests:   *)
(* the next request's byte length and its byte enables.                    *)

Cut(len, be) == [len |-> len] @@ be

RootComplex_mem_read(addr, left, length) ==
  LET len == Min({left, MRRS - (addr % 4), PAGE - (addr % PAGE)})
  IN Cut(len, set_be(addr, len))

(* The byte enables come from the length of the whole transfer.            *)
Function_mem_read(addr, left, length) ==
  LET len == Min({left, MRRS - (addr % 4), PAGE - (addr % PAGE)})
  IN Cut(len, set_be(addr, length))

(* A read that exceeds the limit is cut at a read completion boundary.     *)
dma_mem_read(addr, left, length) ==
  LET lim == IF left > MRRS - (addr % 4) THEN MRRS - (addr % RCB) ELSE left
      len == Min({left, lim, PAGE - (addr % PAGE)})
  IN Cut(len, set_be(addr, len))

RootComplex_mem_write(addr, left) ==
  LET len == Min({left, MPS - (addr % 4), PAGE - (addr % PAGE)})
  IN Cut(len, set_be(addr, len))

Function_mem_write(addr, left) ==
  LET len == Min({left, MPS - (addr % 4), PAGE - (addr % PAGE)})
  IN Cut(len, set_be(addr, len))

dma_mem_write(addr, left) ==
  LET len == Min({left, MPS - (addr % 4), PAGE - (addr % PAGE)})
  IN Cut(len, set_be(addr, len))

(* IO and config requests never leave their dword.                         *)
IoCut(addr, left) ==
  LET len == Min({left, 4 - (addr % 4)}) IN Cut(len, set_be(addr, len))

RootComplex_io_read(addr, left)  == IoCut(addr, left)
RootComplex_io_write(addr, left) == IoCut(addr, left)
Function_io_read(addr, left)     == IoCut(addr, left)
Function_io_write(addr, left)    == IoCut(addr, left)
dma_io_read(addr, left)          == IoCut(addr, left)
dma_io_write(addr, left)         == IoCut(addr, left)
config_read(addr, left)          == IoCut(addr, left)
config_write(addr, left)         == IoCut(addr, left)

NextCut(op, n) ==
  LET addr == op.addr + n
      left == op.len - n
      is(req, kind) == unit.req = req /\ op.kind = kind
  IN CASE op.kind = "cfg_read"        -> config_read(addr, left)
       [] op.kind = "cfg_write"       -> config_write(addr, left)
       [] is("rc", "mem_read")        -> RootComplex_mem_read(addr, left, op.len)
       [] is("rc", "mem_write")       -> RootComplex_mem_write(addr, left)
       [] is("rc", "io_read")         -> RootComplex_io_read(addr, left)
       [] is("rc", "io_write")        -> RootComplex_io_write(addr, left)
       [] is("function", "mem_read")  -> Function_mem_read(addr, left, op.len)
       [] is("function", "mem_write") -> Function_mem_write(addr, left)
       [] is("function", "io_read")   -> Function_io_read(addr, left)
       [] is("function", "io_write")  -> Function_io_write(addr, left)
       [] is("testdev", "mem_read")   -> dma_mem_read(addr, left, op.len)
       [] is("testdev", "mem_write")  -> dma_mem_write(addr, left)
       [] is("testdev", "io_read")    -> dma_io_read(addr, left)
       [] is("testdev", "io_write")   -> dma_io_write(addr, left)

(* The TLP for the next request of process p's operation.                  *)
Tlp(p, n, cut, tag) ==
  LET op == Op(p)
  IN [type |-> op.kind, address |-> cut.address, length |-> cut.length,
      first_be |-> cut.first_be, last_be |-> cut.last_be, tag |-> tag, dev |-> op.dev,
      data |-> IF op.kind \in {"mem_write", "io_write", "cfg_write"}
               THEN set_be_data(op.addr + n, SubSeq(Bytes(p, op), n + 1, n + cut.len))
               ELSE << >>,
      id |-> <<p, proc[p].pc, n>>]

Send(p, tlp) ==
  tx' = [tx EXCEPT ![LinkOf(tlp.dev)][Channel(tlp.type)] = Append(@, tlp)]

(* The next tag, in cyclic order, whose completion queue is empty.         *)
NextFree(tag_count) ==
  LET k == Min({j \in 1 .. tag_count : rx_cpl_queues[(current_tag + j) % tag_count] = << >>})
  IN (current_tag + k) % tag_count
RootComplex_get_free_tag == NextFree(TAGS)
Function_get_free_tag == NextFree(TAGS)

FinishOp(p, data) ==
  proc' = [proc EXCEPT ![p] = Idle(@.pc + 1, Append(@.done, [op |-> Op(p), data |-> Result(Op(p), data)]))]

Fail(p, st) == proc' = [proc EXCEPT ![p].st = st, ![p].reqs = << >>]

-----------------------------------------------------------------------------
(* Sequential requesters: RootComplex and Function.                        *)

(* RootComplex methods on an address of the host's own regions.            *)
LocalAccess(p) ==
  /\ unit.req = "rc" /\ Running(p) /\ Op(p).dev = 0
  /\ LET op == Op(p)
         range == op.addr .. op.addr + op.len - 1
     IN IF op.kind = "mem_read"
        THEN /\ FinishOp(p, [i \in 1 .. op.len |-> mem[0][op.addr + i - 1]])
             /\ UNCHANGED mem
        ELSE /\ FinishOp(p, << >>)
             /\ mem' = [mem EXCEPT ![0] = [a \in DOMAIN @ |->
                          IF a \in range THEN [at |-> a, by |-> p] ELSE @[a]]]
  /\ UNCHANGED <<unit, prog, tx, rx, rx_cpl_queues, woken, current_tag, tag_active>>

(* A capability the device does not have is an exception.                  *)
Missing(p) == prog[p][proc[p].pc].cap # "none" /\ Op(p).addr = prog[p][proc[p].pc].addr
CapabilityMissing(p) ==
  /\ Running(p) /\ Missing(p)
  /\ Fail(p, "failed")
  /\ UNCHANGED <<unit, prog, mem, tx, rx, rx_cpl_queues, woken, current_tag, tag_active>>

(* A function that is not bus master returns at once: a write does         *)
(* nothing, a read gives None, which a method for words cannot take apart. *)
Refused == unit.req = "function" /\ ~unit.bus_master_enable
WordRead(op) == op.kind \in {"mem_read", "io_read"} /\ op.size # "bytes"
NotBusMaster(p) ==
  /\ Refused /\ Running(p)
  /\ IF WordRead(Op(p)) THEN Fail(p, "failed") ELSE FinishOp(p, << >>)
  /\ UNCHANGED <<unit, prog, mem, tx, rx, rx_cpl_queues, woken, current_tag, tag_active>>

Remote(p) == Running(p) /\ ~(unit.req = "rc" /\ Op(p).dev = 0) /\ ~Missing(p) /\ ~Refused

(* A posted write: the loop goes on without waiting.                       *)
IssueWrite(p) ==
  /\ Remote(p) /\ Op(p).kind = "mem_write"
  /\ LET cut == NextCut(Op(p), proc[p].n)
         n   == proc[p].n + cut.len
         tlp == Tlp(p, proc[p].n, cut, 0)
     IN IF write_byte(Op(p)) THEN Fail(p, "failed") /\ UNCHANGED tx
        ELSE IF ~check(tlp) THEN Fail(p, "assert") /\ UNCHANGED tx
        ELSE /\ Send(p, tlp)
             /\ IF n >= Op(p).len THEN FinishOp(p, << >>)
                ELSE proc' = [proc EXCEPT ![p].n = n]
  /\ UNCHANGED <<unit, prog, mem, rx, rx_cpl_queues, woken, current_tag, tag_active>>

(* A read or an IO request: take a tag, send, wait for the completion.     *)
IssueRequest(p) ==
  /\ Remote(p) /\ unit.req \in {"rc", "function"}
  /\ Op(p).kind # "mem_write" /\ ~Waiting(p)
  /\ LET t == IF unit.req = "rc" THEN RootComplex_get_free_tag ELSE Function_get_free_tag
         cut == NextCut(Op(p), proc[p].n)
         tlp == Tlp(p, proc[p].n, cut, t)
     IN /\ IF write_byte(Op(p)) THEN Fail(p, "failed") /\ UNCHANGED tx
           ELSE IF ~check(tlp) THEN Fail(p, "assert") /\ UNCHANGED tx
           ELSE /\ Send(p, tlp)
                /\ proc' = [proc EXCEPT ![p].reqs =
                     <<[st |-> "wait", tag |-> t, n |-> proc[p].n, len |-> cut.len,
                        cpls |-> << >>, got |-> [bad |-> FALSE, m |-> 0, data |-> << >>]]>>]
        /\ current_tag' = t
  /\ UNCHANGED <<unit, prog, mem, rx, rx_cpl_queues, woken, tag_active>>

(* The loop of a sequential method moves on after a request is complete.   *)
Advance(p, r, data) ==
  LET n == r.n + r.len
      all == proc[p].data \o data
      op == Op(p)
  IN IF n >= op.len
     THEN FinishOp(p, IF op.kind \in {"io_read", "cfg_read"} THEN SubSeq(all, 1, op.len) ELSE all)
     ELSE proc' = [proc EXCEPT ![p].n = n, ![p].data = all, ![p].reqs = << >>]

(* What a config read that failed returns.  No answer is an error for the  *)
(* other methods; the config methods go on.                                *)
Ones == [at |-> 0 - 2, by |-> 0]
AllOnes == <<Ones, Ones, Ones, Ones>>
NoAnswer(p) ==
  LET r == proc[p].reqs[1]
  IN CASE Op(p).kind = "cfg_write" -> Advance(p, r, << >>)
       [] Op(p).kind = "cfg_read" -> Advance(p, r, SubSeq(AllOnes, ((Op(p).addr + r.n) % 4) + 1, 4))
       [] Op(p).kind \notin {"cfg_read", "cfg_write"} -> Fail(p, "failed")

(* The body of the completion loop for one completion.                     *)
TakeAnswer(p, r, cpl) ==
  LET kind == Op(p).kind
      pad  == (Op(p).addr + r.n) % 4
      got  == TakeCompletion(r.len, r.got, cpl)
  IN IF kind = "cfg_write" THEN Advance(p, r, << >>)
     ELSE IF kind = "cfg_read" /\ cpl.status # "SC" THEN Advance(p, r, SubSeq(AllOnes, pad + 1, 4))
     ELSE IF cpl.status # "SC" THEN Fail(p, "failed")
     ELSE IF kind = "io_write" THEN Advance(p, r, << >>)
     ELSE IF kind \in {"io_read", "cfg_read"}
          THEN IF Len(cpl.data) # 4 THEN Fail(p, "assert")
               ELSE Advance(p, r, SubSeq(cpl.data, pad + 1, 4))
     ELSE IF got.bad THEN Fail(p, "assert")
     ELSE IF got.m >= r.len THEN Advance(p, r, got.data)
     ELSE proc' = [proc EXCEPT ![p].reqs[1].got = got]

(* recv_cpl of pcie.py: woken by the toggle of the tag's sync signal.  An  *)
(* empty queue, emptied by another waiter, counts as a timeout.            *)
Receive(p) ==
  /\ p \in woken
  /\ woken' = woken \ {p}
  /\ LET r == proc[p].reqs[1]
         q == rx_cpl_queues[r.tag]
     IN IF q = << >> THEN NoAnswer(p) /\ UNCHANGED rx_cpl_queues
        ELSE /\ TakeAnswer(p, r, Head(q))
             /\ rx_cpl_queues' = [rx_cpl_queues EXCEPT ![r.tag] = Tail(@)]
  /\ UNCHANGED <<unit, prog, mem, tx, rx, current_tag, tag_active>>
RootComplex_recv_cpl(p) == unit.req = "rc" /\ Receive(p)
Function_recv_cpl(p) == unit.req = "function" /\ Receive(p)

(* The timeout of recv_cpl passes before a completion arrives.             *)
Timeout(p) ==
  /\ unit.timeouts /\ Running(p) /\ Waiting(p) /\ woken = {}
  /\ unit.req \in {"rc", "function"}
  /\ NoAnswer(p)
  /\ UNCHANGED <<unit, prog, mem, tx, rx, rx_cpl_queues, woken, current_tag, tag_active>>

-----------------------------------------------------------------------------
(* PcieIfTestDevice: one coroutine per request, all started at once.       *)

RECURSIVE AllCuts(_, _)
AllCuts(op, n) ==
  IF n >= op.len THEN << >>
  ELSE LET cut == NextCut(op, n)
       IN <<[n |-> n, cut |-> cut]>> \o AllCuts(op, n + cut.len)

(* A transfer of no bytes asks for one byte with no byte enabled.          *)
NonZero(op) == [op EXCEPT !.len = IF @ = 0 THEN 1 ELSE @]
ZeroBe(op, cut) == IF op.len = 0 THEN [cut EXCEPT !.first_be = {}] ELSE cut

StartOp(p) ==
  /\ unit.req = "testdev" /\ Running(p)
  /\ Op(p).kind # "mem_write" /\ proc[p].reqs = << >>
  /\ LET cuts == AllCuts(NonZero(Op(p)), 0)
     IN proc' = [proc EXCEPT ![p].reqs = [k \in DOMAIN cuts |->
          [st |-> "new", tag |-> 0, n |-> cuts[k].n, len |-> cuts[k].cut.len,
           cut |-> ZeroBe(Op(p), cuts[k].cut), cpls |-> << >>]]]
  /\ UNCHANGED <<unit, prog, mem, tx, rx, rx_cpl_queues, woken, current_tag, tag_active>>

\* Mutant: the next tag is taken whether it is active or not.
alloc_tagNext(t) ==
  /\ t = (current_tag + 1) % TAGS
  /\ tag_active' = tag_active \cup {t}
  /\ current_tag' = t
(* alloc_tag: the next inactive tag in cyclic order; waits while all are   *)
(* active.                                                                 *)
alloc_tag(t) ==
  /\ tag_active # TagSet
  /\ LET k == Min({j \in 1 .. TAGS : (current_tag + j) % TAGS \notin tag_active})
     IN t = (current_tag + k) % TAGS
  /\ tag_active' = tag_active \cup {t}
  /\ current_tag' = t

StartRequest(p, k) ==
  /\ unit.req = "testdev" /\ Running(p) /\ k \in DOMAIN proc[p].reqs
  /\ proc[p].reqs[k].st = "new"
  /\ \A j \in 1 .. k - 1 : proc[p].reqs[j].st # "new"
  /\ \E t \in TagSet :
       /\ alloc_tag(t)
       /\ Send(p, Tlp(p, proc[p].reqs[k].n, proc[p].reqs[k].cut @@ [len |-> proc[p].reqs[k].len], t))
       /\ proc' = [proc EXCEPT ![p].reqs[k].st = "wait", ![p].reqs[k].tag = t]
  /\ UNCHANGED <<unit, prog, mem, rx, rx_cpl_queues, woken>>

\* Mutant: a completion without data is not the end of a read.
LastCompletionData(op, cpl) ==
  op.kind # "mem_read" \/ (cpl.type = "cpl_data" /\ cpl.byte_count <= Len(cpl.data) - (cpl.lower_address % 4))
(* perform_nonposted_operation: collect completions up to the last one,    *)
(* then release_tag.                                                       *)
LastCompletion(op, cpl) ==
  \/ cpl.status # "SC"
  \/ op.kind # "mem_read"
  \/ cpl.byte_count <= Len(cpl.data) - (cpl.lower_address % 4)
  \/ cpl.type = "cpl"

perform_nonposted_operation(p, k) ==
  /\ unit.req = "testdev" /\ Running(p) /\ k \in DOMAIN proc[p].reqs
  /\ LET r == proc[p].reqs[k]
     IN /\ r.st = "wait" /\ rx_cpl_queues[r.tag] # << >>
        /\ LET cpl  == Head(rx_cpl_queues[r.tag])
               last == LastCompletion(Op(p), cpl)
           IN /\ proc' = [proc EXCEPT ![p].reqs[k].cpls = Append(@, cpl),
                                      ![p].reqs[k].st = IF last THEN "done" ELSE "wait"]
              /\ tag_active' = IF last THEN tag_active \ {r.tag} ELSE tag_active
        /\ rx_cpl_queues' = [rx_cpl_queues EXCEPT ![r.tag] = Tail(@)]
  /\ UNCHANGED <<unit, prog, mem, tx, rx, woken, current_tag>>

(* The joins at the end of a dma_ method: requests in order, completions   *)
(* in order.                                                               *)
JoinRead(op, reqs) ==
  LET got(r) == FoldLeft(LAMBDA g, c : TakeCompletion(r.len, g, c),
                         [bad |-> FALSE, m |-> 0, data |-> << >>], r.cpls)
  IN [bad  |-> \E k \in DOMAIN reqs : got(reqs[k]).bad \/ got(reqs[k]).m < reqs[k].len,
      data |-> FlattenSeq([k \in DOMAIN reqs |-> got(reqs[k]).data])]

JoinIoRead(op, reqs) ==
  LET d(r) == SubSeq(r.cpls[1].data, ((op.addr + r.n) % 4) + 1, 4)
  IN [bad  |-> \E k \in DOMAIN reqs : Len(reqs[k].cpls[1].data) # 4,
      data |-> FlattenSeq([k \in DOMAIN reqs |-> d(reqs[k])])]

Join(p) ==
  /\ unit.req = "testdev" /\ Running(p) /\ proc[p].reqs # << >>
  /\ ~Waiting(p)
  /\ LET op   == Op(p)
         reqs == proc[p].reqs
         res  == CASE op.kind = "mem_read" -> JoinRead(op, reqs)
                   [] op.kind = "io_read"  -> JoinIoRead(op, reqs)
                   [] op.kind = "io_write" -> [bad |-> FALSE, data |-> << >>]
     IN IF \E k \in DOMAIN reqs : \E i \in DOMAIN reqs[k].cpls : reqs[k].cpls[i].status # "SC"
        THEN Fail(p, "failed")
        ELSE IF res.bad THEN Fail(p, "assert")
        ELSE FinishOp(p, SubSeq(res.data, 1, Min({op.len, Len(res.data)})))
  /\ UNCHANGED <<unit, prog, mem, tx, rx, rx_cpl_queues, woken, current_tag, tag_active>>

-----------------------------------------------------------------------------
(* Completers.  A handler's effect: the memory after it and the            *)
(* completions it sends.                                                   *)

Matches(tlp) == tlp.address < SIZE
InPage(tlp)  == 4 * tlp.length <= PAGE - (tlp.address % PAGE)
Effect(m, cpls) == [mem |-> m, cpls |-> cpls]

Written(m, tlp) ==
  [a \in DOMAIN m |-> IF a - tlp.address \in Enabled(tlp)
                      THEN tlp.data[a - tlp.address + 1] ELSE m[a]]
DwordsAt(m, tlp) == [i \in 1 .. 4 * tlp.length |-> m[tlp.address + i - 1]]
EnabledDword(m, tlp) ==
  [i \in 1 .. 4 |-> IF i - 1 \in tlp.first_be THEN m[tlp.address + i - 1] ELSE Pad]

MemoryEndpoint_mem_read(m, tlp) ==
  IF ~Matches(tlp) THEN Effect(m, <<set_ur_completion(tlp)>>)
  ELSE IF ~InPage(tlp) THEN Effect(m, << >>)
  ELSE Effect(m, ReadCompletions(tlp, DwordsAt(m, tlp)))

MemoryEndpoint_mem_write(m, tlp) ==
  Effect(IF Matches(tlp) /\ InPage(tlp) THEN Written(m, tlp) ELSE m, << >>)

MemoryEndpoint_io_read(m, tlp) ==
  Effect(m, IF Matches(tlp) THEN <<DwordCompletion(tlp, EnabledDword(m, tlp))>>
            ELSE <<set_ur_completion(tlp)>>)

MemoryEndpoint_io_write(m, tlp) ==
  IF Matches(tlp)
  THEN Effect(Written(m, tlp), <<[set_completion(tlp, "cpl", "SC") EXCEPT !.byte_count = 4]>>)
  ELSE Effect(m, <<set_ur_completion(tlp)>>)

RootComplex_handle_mem_read(m, tlp) ==
  IF ~Matches(tlp) THEN Effect(m, <<set_ur_completion(tlp)>>)
  ELSE IF ~InPage(tlp) THEN Effect(m, << >>)
  ELSE Effect(m, ReadCompletions(tlp, DwordsAt(m, tlp)))

RootComplex_handle_mem_write(m, tlp) ==
  Effect(IF Matches(tlp) /\ InPage(tlp) THEN Written(m, tlp) ELSE m, << >>)

RootComplex_handle_io_read(m, tlp) ==
  Effect(m, IF Matches(tlp) THEN <<DwordCompletion(tlp, EnabledDword(m, tlp))>>
            ELSE <<set_ur_completion(tlp)>>)

RootComplex_handle_io_write(m, tlp) ==
  IF Matches(tlp)
  THEN Effect(Written(m, tlp), <<[set_completion(tlp, "cpl", "SC") EXCEPT !.byte_count = 4]>>)
  ELSE Effect(m, <<set_ur_completion(tlp)>>)

(* PcieIfDevice answers what matches no BAR; what matches reaches the test *)
(* device, which checks no page.                                           *)
PcieIfDevice_no_bar(m, tlp) ==
  Effect(m, IF tlp.type = "mem_write" THEN << >> ELSE <<set_ur_completion(tlp)>>)

TestDevice_mem_read(m, tlp) ==
  IF Matches(tlp) THEN Effect(m, ReadCompletions(tlp, DwordsAt(m, tlp))) ELSE PcieIfDevice_no_bar(m, tlp)
TestDevice_mem_write(m, tlp) ==
  IF Matches(tlp) THEN Effect(Written(m, tlp), << >>) ELSE PcieIfDevice_no_bar(m, tlp)
TestDevice_io_read(m, tlp) ==
  IF Matches(tlp) THEN Effect(m, <<DwordCompletion(tlp, EnabledDword(m, tlp))>>) ELSE PcieIfDevice_no_bar(m, tlp)
TestDevice_io_write(m, tlp) ==
  IF Matches(tlp) THEN Effect(Written(m, tlp), <<set_completion(tlp, "cpl", "SC")>>) ELSE PcieIfDevice_no_bar(m, tlp)

(* Config requests reach the function they are for, or no function.  A     *)
(* read returns the whole register.                                        *)
handle_config_0_tlp(m, tlp) ==
  CASE tlp.dev = Absent -> Effect(m, <<set_ur_completion(tlp)>>)
    [] tlp.dev # Absent /\ tlp.type = "cfg_read" -> Effect(m, <<DwordCompletion(tlp, DwordsAt(m, tlp))>>)
    [] tlp.dev # Absent /\ tlp.type = "cfg_write" -> Effect(Written(m, tlp), <<set_completion(tlp, "cpl", "SC")>>)

Handler(m, tlp) ==
  LET is(cpl, type) == unit.cpl = cpl /\ tlp.type = type
  IN CASE tlp.type \in {"cfg_read", "cfg_write"} -> handle_config_0_tlp(m, tlp)
       [] is("endpoint", "mem_read")  -> MemoryEndpoint_mem_read(m, tlp)
       [] is("endpoint", "mem_write") -> MemoryEndpoint_mem_write(m, tlp)
       [] is("endpoint", "io_read")   -> MemoryEndpoint_io_read(m, tlp)
       [] is("endpoint", "io_write")  -> MemoryEndpoint_io_write(m, tlp)
       [] is("rc", "mem_read")        -> RootComplex_handle_mem_read(m, tlp)
       [] is("rc", "mem_write")       -> RootComplex_handle_mem_write(m, tlp)
       [] is("rc", "io_read")         -> RootComplex_handle_io_read(m, tlp)
       [] is("rc", "io_write")        -> RootComplex_handle_io_write(m, tlp)
       [] is("testdev", "mem_read")   -> TestDevice_mem_read(m, tlp)
       [] is("testdev", "mem_write")  -> TestDevice_mem_write(m, tlp)
       [] is("testdev", "io_read")    -> TestDevice_io_read(m, tlp)
       [] is("testdev", "io_write")   -> TestDevice_io_write(m, tlp)

(* A link delivers the oldest request and its handler runs.                *)
handle_tlp(d, c) ==
  /\ woken = {} /\ tx[d][c] # << >>
  /\ LET tlp == Head(tx[d][c])
         e   == Handler(mem[tlp.dev], tlp)
     IN /\ mem' = [mem EXCEPT ![tlp.dev] = e.mem]
        /\ rx' = [rx EXCEPT ![d] = @ \o e.cpls]
  /\ tx' = [tx EXCEPT ![d][c] = Tail(@)]
  /\ UNCHANGED <<unit, prog, proc, rx_cpl_queues, woken, current_tag, tag_active>>

(* A link delivers the oldest completion: it is queued under its tag and   *)
(* every process that waits for the tag's sync signal becomes runnable.    *)
(* Simulation time, hence a link, only advances when nothing is runnable.  *)
Deliver(d) ==
  /\ woken = {} /\ rx[d] # << >>
  /\ LET cpl == Head(rx[d])
     IN rx_cpl_queues' = [rx_cpl_queues EXCEPT ![cpl.tag] = Append(@, cpl)]
  /\ rx' = [rx EXCEPT ![d] = Tail(@)]
  /\ UNCHANGED <<unit, prog, proc, mem, tx, current_tag, tag_active>>
Wake(d) ==
  woken' = {p \in Procs : \E k \in DOMAIN proc[p].reqs :
              proc[p].reqs[k].st = "wait" /\ proc[p].reqs[k].tag = Head(rx[d]).tag}
RootComplex_handle_tlp(d) == unit.req = "rc" /\ Deliver(d) /\ Wake(d)
Function_handle_tlp(d) == unit.req = "function" /\ Deliver(d) /\ Wake(d)
_run_rx_cpl_tlp(d) == unit.req = "testdev" /\ Deliver(d) /\ UNCHANGED woken

-----------------------------------------------------------------------------
Finished(p) == proc[p].st # "run" \/ proc[p].pc > Len(prog[p])

(* The simulator has something to run: a process that does not wait, or a  *)
(* TLP on a link.                                                          *)
CanRun(p) ==
  \/ p \in woken
  \/ /\ Running(p)
     /\ \/ ~Waiting(p)
        \/ \E k \in DOMAIN proc[p].reqs :
             LET r == proc[p].reqs[k]
             IN \/ r.st = "new" /\ tag_active # TagSet
                \/ unit.req = "testdev" /\ r.st = "wait" /\ rx_cpl_queues[r.tag] # << >>
Runnable ==
  \/ \E p \in Procs : CanRun(p)
  \/ \E d \in Devs : rx[d] # << >> \/ \E c \in Channels : tx[d][c] # << >>

Halt == ~Runnable /\ UNCHANGED vars

ProcStep(p) ==
  \/ LocalAccess(p) \/ IssueWrite(p) \/ IssueRequest(p) \/ CapabilityMissing(p)
  \/ NotBusMaster(p)
  \/ RootComplex_recv_cpl(p) \/ Function_recv_cpl(p)
  \/ StartOp(p) \/ Join(p)
  \/ \E k \in DOMAIN proc[p].reqs : StartRequest(p, k) \/ perform_nonposted_operation(p, k)

LinkStep(d) ==
  \/ RootComplex_handle_tlp(d) \/ Function_handle_tlp(d) \/ _run_rx_cpl_tlp(d)
  \/ \E c \in Channels : handle_tlp(d, c)

Progress == (\E p \in Procs : ProcStep(p)) \/ (\E d \in Devs : LinkStep(d))

Next == Progress \/ (\E p \in Procs : Timeout(p)) \/ Halt

(* The simulator's scheduler runs whatever can run (weak fairness of       *)
(* Progress, with its guard spelled out).                                  *)
Fairness == []<>~Runnable \/ []<><<Progress>>_vars

Spec == Init /\ [][Next]_vars /\ Fairness

-----------------------------------------------------------------------------
Span(op) == op.addr .. op.addr + op.len - 1
Reads  == {"mem_read", "io_read", "cfg_read"}
Writes == {"mem_write", "io_write", "cfg_write"}

(* The operations of p that have begun, and those that send their data.    *)
Begun(p) == {OpAt(p, i) : i \in 1 .. Min({proc[p].pc, Len(prog[p])})}
Writers(d, a) == {p \in Procs : \E op \in Begun(p) :
                    ~Refused /\ ~write_byte(op) /\ op.kind \in Writes /\ op.dev = d /\ a \in Span(op)}
InFlight(p, i) == \E d \in Devs, c \in Channels : \E k \in DOMAIN tx[d][c] :
                    tx[d][c][k].id[1] = p /\ tx[d][c][k].id[2] = i

Unanswered(op) == op.kind = "cfg_read" /\ (unit.timeouts \/ op.dev = Absent)
(* A read returns exactly the bytes asked for, in order, from the addresses *)
(* asked for, however the transfer is cut into requests and completions and *)
(* put into words (set_be, the read loops and their word methods, the RCB   *)
(* splitting); a config read gives ones for what is not answered, and a     *)
(* function that is not bus master gets nothing.  A process of pcie.py that *)
(* alone wrote the range before sees what it wrote.                         *)
ReadExact ==
  \A p \in Procs : \A i \in DOMAIN proc[p].done :
    LET op   == proc[p].done[i].op
        res  == proc[p].done[i].data
        data == IF op.size = "bytes" THEN res ELSE FlattenSeq(res)
    IN op.kind \in Reads =>
         /\ Len(data) = IF Refused THEN 0 ELSE op.len
         /\ op.size # "bytes" => \A k \in DOMAIN res : Len(res[k]) = WordSize(op.size)
         /\ \A k \in DOMAIN data :
              \/ Unanswered(op) /\ data[k] = Ones
              \/ /\ data[k].at = op.addr + k - 1
                 /\ (/\ unit.req # "testdev"
                     /\ Writers(op.dev, data[k].at) = {p}
                     /\ \E j \in 1 .. i - 1 : OpAt(p, j).kind \in Writes /\ data[k].at \in Span(OpAt(p, j)))
                    => data[k].by = p

(* Writes change exactly the bytes of their range: no byte lands elsewhere  *)
(* (byte enables of first and last dword), and once the requests of a       *)
(* finished write have been handled every byte of the range has arrived;    *)
(* a write that is refused or raises its exception changes no byte.         *)
WriteExact ==
  /\ \A d \in 0 .. Absent : \A a \in DOMAIN mem[d] :
       mem[d][a].at = a /\ mem[d][a].by \in {0} \cup Writers(d, a)
  /\ \A p \in Procs : \A i \in DOMAIN proc[p].done :
       LET op == proc[p].done[i].op
       IN (op.kind \in Writes /\ ~InFlight(p, i) /\ ~Refused) =>
            \A a \in Span(op) \cap DOMAIN mem[op.dev] : mem[op.dev][a].by # 0

(* The assertions of the completion loops hold: the completions a process   *)
(* takes add up to its request, and TLP.check accepts every TLP.  A request *)
(* fails only when its address matches no BAR, its capability is missing,   *)
(* its timeout passed, a single byte is to be written or words are to be    *)
(* read by a function that is not bus master.                               *)
AssertionsHold ==
  \A p \in Procs :
    /\ proc[p].st # "assert"
    /\ (proc[p].st = "failed" /\ ~unit.timeouts) =>
         \/ Op(p).addr >= SIZE \/ Missing(p) \/ write_byte(Op(p))
         \/ Refused /\ WordRead(Op(p))

(* A completion queued under a tag was sent for the request that waits on   *)
(* that tag, never for an earlier or another process's request.             *)
OwnCompletion ==
  \A t \in TagSet : \A i \in DOMAIN rx_cpl_queues[t] :
    \A p \in Procs : \A k \in DOMAIN proc[p].reqs :
      LET r == proc[p].reqs[k]
      IN (r.st = "wait" /\ r.tag = t) => rx_cpl_queues[t][i].id = <<p, proc[p].pc, r.n>>

(* Every operation ends: no completion is lost, no tag stays taken while    *)
(* requests wait for it (recv_cpl, alloc_tag, release_tag).                 *)
AllFinished == \A p \in Procs : Finished(p)
AllFinish == <>AllFinished
=============================================================================
