-------------------------------- MODULE Mqnic --------------------------------
(***************************************************************************)
(* The NIC driver of the Corundum test benches (mqnic.py) with the queue   *)
(* managers it talks to (cpl_queue_manager.v, queue_manager.v): a transmit *)
(* and a receive ring, their completion queues, and one event queue that   *)
(* raises the interrupt.  The driver's coroutines interleave at their      *)
(* awaits.  Register writes are posted: they reach the NIC in their order, *)
(* later; a register read returns after all of them.                       *)
(*                                                                         *)
(* The driver's pointers count up; the NIC's are taken modulo PTRS.  A     *)
(* completion carries the NIC's ring pointer, which the driver uses as an  *)
(* index as it is.                                                         *)
(***************************************************************************)
EXTENDS Integers, Sequences, FiniteSets, SequencesExt, FiniteSetsExt

CONSTANTS
  SIZE,         \* entries of the rings and the completion queues (1024 in the code)
  EQSIZE,       \* entries of the event queue (1024)
  PTRS,         \* hw_ptr_mask + 1
  REFILL,       \* missing receive buffers below which none is added (8)
  NTX, NRX      \* bounds: packets handed to start_xmit and packets that arrive

ASSUME MqnicSizes == SIZE \in Nat \ {0} /\ PTRS % (2 * SIZE) = 0 /\ PTRS % (2 * EQSIZE) = 0 /\ REFILL \in 1 .. SIZE

VARIABLES
  phase,        \* how far init_dev, init and open have come
  up,           \* port_up
  pc,           \* where the interrupt coroutine is; "idle" when not running
  pending,      \* interrupt_pending
  eq, txcq, rxcq,   \* driver side of the queues: head_ptr, tail_ptr, and eq's local tail
  tx, rx,       \* driver side of the rings: head_ptr, tail_ptr, clean_tail_ptr, info
  free, allocated,  \* free_packets and the number of allocated_packets
  bufs, desc,   \* host memory: packet buffers and the descriptors of both rings
  posted,       \* register writes on their way to the NIC
  nic,          \* the queues in the NIC, its work in flight, its events
  msi,          \* interrupt messages on their way to the host
  rxq, sync, receiver, \* pkt_rx_queue, pkt_rx_sync, the state of a recv call
  sent, wire, arrived, received, \* packets submitted, sent, accepted, returned by recv
  lost,         \* a completion or an event found its queue full or inactive
  failed        \* an assertion or an index of the driver failed

setup == <<phase, up>>
handler == <<pc, pending>>
rings == <<eq, txcq, rxcq, tx, rx>>
memory == <<free, allocated, bufs, desc>>
bus == <<posted, nic, msi>>
app == <<rxq, sync, receiver>>
log == <<sent, wire, arrived, received, lost, failed>>
vars == <<setup, handler, rings, memory, bus, app, log>>

Slots == 0 .. SIZE - 1
NoBuf == 0
Buffers == 1 .. 2 * SIZE + 1

-----------------------------------------------------------------------------
(* Register writes of the driver.                                          *)
Write(op, q, val) == [op |-> op, q |-> q, val |-> val]
EqRing_init == <<Write("init", "eq", 0)>>
CqRing_init(q) == <<Write("init", q, 0)>>
TxRing_init == <<Write("init", "tx", 0)>>
RxRing_init == <<Write("init", "rx", 0)>>
EqRing_activate == <<Write("activate", "eq", eq.tail % PTRS)>>
CqRing_activate(q, r) == <<Write("activate", q, r.tail % PTRS)>>
TxRing_activate == <<Write("activate", "tx", tx.head % PTRS)>>
RxRing_activate == <<Write("activate", "rx", rx.head % PTRS)>>
EqRing_arm == <<Write("arm", "eq", 0)>>
CqRing_arm(q) == <<Write("arm", q, 0)>>
EqRing_write_tail_ptr(tail) == <<Write("tail", "eq", tail % PTRS)>>
CqRing_write_tail_ptr(q, tail) == <<Write("tail", q, tail % PTRS)>>
TxRing_write_head_ptr(head) == <<Write("head", "tx", head % PTRS)>>
RxRing_write_head_ptr(head) == <<Write("head", "rx", head % PTRS)>>

(* Register reads: the driver's pointer moves on to the NIC's.             *)
Advance(ptr, val) == ptr + ((val - ptr) % PTRS)
EqRing_read_head_ptr == Advance(eq.head, nic.q.eq.head)
CqRing_read_head_ptr(q, r) == Advance(r.head, nic.q[q].head)
TxRing_read_tail_ptr == Advance(tx.tail, nic.q.tx.tail)
RxRing_read_tail_ptr == Advance(rx.tail, nic.q.rx.tail)

(* alloc_pkt, n times: free buffers first, then new ones.                  *)
alloc_pkts(n) ==
  LET k == Min({n, Len(free)})
  IN [pkts |-> SubSeq(free, 1, k) \o [i \in 1 .. n - k |-> allocated + i],
      free |-> SubSeq(free, k + 1, Len(free)), allocated |-> allocated + (n - k)]

(* refill_buffers with prepare_desc for every missing descriptor.          *)
refill_buffers(r) ==
  LET missing == SIZE - (r.head - r.clean)
      a == alloc_pkts(missing)
      At(i) == CHOOSE k \in 1 .. missing : (r.head + k - 1) % SIZE = i
      New == {(r.head + k - 1) % SIZE : k \in 1 .. missing}
      info == [i \in Slots |-> IF i \in New THEN a.pkts[At(i)] ELSE r.info[i]]
  IN IF missing < REFILL
     THEN [rx |-> r, free |-> free, allocated |-> allocated, desc |-> desc.rx, writes |-> << >>]
     ELSE [rx |-> [r EXCEPT !.head = @ + missing, !.info = info], free |-> a.free, allocated |-> a.allocated,
           desc |-> [i \in Slots |-> IF i \in New THEN info[i] ELSE desc.rx[i]],
           writes |-> RxRing_write_head_ptr(r.head + missing)]

-----------------------------------------------------------------------------
Ring == [head |-> 0, tail |-> 0, clean |-> 0, info |-> [i \in Slots |-> NoBuf]]
HwQueue == [active |-> FALSE, armed |-> FALSE, head |-> 0, tail |-> 0, buf |-> [i \in 0 .. Max({SIZE, EQSIZE}) - 1 |-> 0]]

Init ==
  /\ phase = "new" /\ up = FALSE /\ pc = "idle" /\ pending = 0
  /\ eq = [head |-> 0, tail |-> 0, local |-> 0]
  /\ txcq = [head |-> 0, tail |-> 0] /\ rxcq = [head |-> 0, tail |-> 0]
  /\ tx = Ring /\ rx = Ring /\ free = << >> /\ allocated = 0
  /\ bufs = [b \in Buffers |-> 0]
  /\ desc = [r \in {"tx", "rx"} |-> [i \in Slots |-> NoBuf]]
  /\ posted = << >>
  /\ nic = [q |-> [n \in {"eq", "txcq", "rxcq", "tx", "rx"} |-> HwQueue], fly |-> [r \in {"tx", "rx"} |-> << >>],
            events |-> [c \in {"txcq", "rxcq"} |-> 0]]
  /\ msi = 0 /\ rxq = << >> /\ sync = FALSE /\ receiver = "idle"
  /\ sent = 0 /\ wire = << >> /\ arrived = 0 /\ received = << >> /\ lost = FALSE /\ failed = FALSE

(* Driver.init_dev and Interface.init: registers are read, the callback is *)
(* registered, all rings are initialised, and a read waits for the writes. *)
Driver_init_dev ==
  /\ phase = "new" /\ phase' = "found"
  /\ UNCHANGED <<up, handler, rings, memory, bus, app, log>>
Interface_init ==
  /\ phase = "found" /\ phase' = "initialised"
  /\ posted' = EqRing_init \o TxRing_init \o CqRing_init("txcq") \o RxRing_init \o CqRing_init("rxcq")
  /\ UNCHANGED <<up, handler, rings, memory, nic, msi, app, log>>

(* Interface.open, between its awaits: the receive side, the transmit      *)
(* side, and port_up once all writes have arrived.  Packets and interrupts *)
(* may come before the port is up.                                         *)
open ==
  /\ \/ /\ phase = "initialised" /\ posted = << >> /\ phase' = "receiving"
        /\ LET f == refill_buffers(rx)
           IN /\ posted' = posted \o EqRing_activate \o EqRing_arm \o CqRing_activate("rxcq", rxcq) \o CqRing_arm("rxcq")
                             \o RxRing_activate \o f.writes
              /\ rx' = f.rx /\ free' = f.free /\ allocated' = f.allocated
              /\ desc' = [desc EXCEPT !.rx = f.desc]
        /\ up' = FALSE
     \/ /\ phase = "receiving" /\ phase' = "transmitting"
        /\ posted' = posted \o CqRing_activate("txcq", txcq) \o CqRing_arm("txcq") \o TxRing_activate
        /\ UNCHANGED <<up, rx, free, allocated, desc>>
     \/ /\ phase = "transmitting" /\ posted = << >> /\ phase' = "open" /\ up' = TRUE
        /\ UNCHANGED <<rx, free, allocated, desc, posted>>
  /\ UNCHANGED <<handler, eq, txcq, rxcq, tx, bufs, nic, msi, app, log>>

(* Interface.start_xmit.  The test bench keeps fewer packets outstanding   *)
(* than the ring has entries: the driver does not look at full().          *)
start_xmit ==
  /\ up /\ sent < NTX /\ tx.head - tx.clean < SIZE
  /\ sent' = sent + 1
  /\ LET a == alloc_pkts(1)
         i == tx.head % SIZE
     IN /\ free' = a.free /\ allocated' = a.allocated
        /\ bufs' = [bufs EXCEPT ![a.pkts[1]] = sent + 1]
        /\ desc' = [desc EXCEPT !.tx[i] = a.pkts[1]]
        /\ tx' = [tx EXCEPT !.head = @ + 1, !.info[i] = a.pkts[1]]
  /\ posted' = posted \o TxRing_write_head_ptr(tx.head + 1)
  /\ UNCHANGED <<setup, handler, eq, txcq, rxcq, rx, nic, msi, app, wire, arrived, received, lost, failed>>

-----------------------------------------------------------------------------
(* Interface.interrupt: the callback of the interrupt message.             *)
(* Mutant: an interrupt that comes while one is handled is forgotten.      *)
interruptForgotten ==
  /\ msi > 0 /\ msi' = msi - 1
  /\ pc' = IF pc = "idle" THEN "event queue" ELSE pc
  /\ UNCHANGED <<setup, pending, rings, memory, posted, nic, app, log>>
interrupt ==
  /\ msi > 0 /\ msi' = msi - 1
  /\ IF pc = "idle" THEN pc' = "event queue" /\ UNCHANGED pending
     ELSE pending' = pending + 1 /\ UNCHANGED pc
  /\ UNCHANGED <<setup, rings, memory, posted, nic, app, log>>

(* EqRing.process reads the head once.                                     *)
EqRing_process ==
  /\ pc = "event queue"
  /\ IF up THEN /\ posted = << >> /\ pc' = "event"
                /\ eq' = [eq EXCEPT !.head = EqRing_read_head_ptr, !.local = eq.tail]
           ELSE pc' = "arm" /\ UNCHANGED eq
  /\ UNCHANGED <<setup, pending, txcq, rxcq, tx, rx, memory, bus, app, log>>
(* Then the events one by one; its tail is written after the last.         *)
EqRing_event ==
  /\ pc = "event"
  /\ IF eq.head # eq.local
     THEN /\ pc' = (IF nic.q.eq.buf[eq.local % EQSIZE] = "txcq" THEN "transmit completions" ELSE "receive completions")
          /\ UNCHANGED <<eq, posted>>
     ELSE /\ pc' = "arm" /\ eq' = [eq EXCEPT !.tail = eq.local]
          /\ posted' = posted \o EqRing_write_tail_ptr(eq.local)
  /\ UNCHANGED <<setup, pending, txcq, rxcq, tx, rx, memory, nic, msi, app, log>>

(* The completions of a queue from its tail to its head.                   *)
Completions(q, r, head) == [k \in 1 .. head - r.tail |-> nic.q[q].buf[(r.tail + k - 1) % SIZE]]
(* free_desc: the index of every completion must be one of the ring, and   *)
(* its buffer must be there.                                               *)
Sound(list, info) ==
  \A k \in 1 .. Len(list) : /\ list[k] \in Slots /\ info[list[k]] # NoBuf
                            /\ \A j \in 1 .. k - 1 : list[j] # list[k]
\* Mutant: the entry keeps its buffer.
FreedKept(list, info) == info
Freed(list, info) == [i \in Slots |-> IF i \in Range(list) THEN NoBuf ELSE info[i]]
(* clean_tail_ptr moves over the entries that have no buffer.              *)
Cleaned(r, tail) ==
  CHOOSE c \in r.clean .. tail :
    /\ \A p \in r.clean .. c - 1 : r.info[p % SIZE] = NoBuf
    /\ c = tail \/ r.info[c % SIZE] # NoBuf

process_tx_cq ==
  /\ pc = "transmit completions" /\ posted = << >>
  /\ LET head == CqRing_read_head_ptr("txcq", txcq)
         list == Completions("txcq", txcq, head)
     IN IF ~Sound(list, tx.info) THEN failed' = TRUE /\ pc' = "dead" /\ UNCHANGED <<txcq, tx, free, posted>>
        ELSE /\ tx' = [tx EXCEPT !.info = Freed(list, @)]
             /\ free' = free \o [k \in 1 .. Len(list) |-> tx.info[list[k]]]
             /\ txcq' = [head |-> head, tail |-> head]
             /\ posted' = posted \o CqRing_write_tail_ptr("txcq", head)
             /\ pc' = "transmit ring" /\ UNCHANGED failed
  /\ UNCHANGED <<setup, pending, eq, rxcq, rx, allocated, bufs, desc, nic, msi, app, sent, wire, arrived, received, lost>>
process_tx_ring ==
  /\ pc = "transmit ring" /\ posted = << >>
  /\ LET tail == TxRing_read_tail_ptr
     IN tx' = [tx EXCEPT !.tail = tail, !.clean = Cleaned(tx, tail)]
  /\ posted' = posted \o CqRing_arm("txcq")
  /\ eq' = [eq EXCEPT !.local = @ + 1] /\ pc' = "event"
  /\ UNCHANGED <<setup, pending, txcq, rxcq, rx, memory, nic, msi, app, log>>
process_rx_cq ==
  /\ pc = "receive completions" /\ posted = << >>
  /\ LET head == CqRing_read_head_ptr("rxcq", rxcq)
         list == Completions("rxcq", rxcq, head)
     IN IF ~Sound(list, rx.info) THEN failed' = TRUE /\ pc' = "dead" /\ UNCHANGED <<rxcq, rx, free, posted, rxq, sync>>
        ELSE /\ rxq' = rxq \o [k \in 1 .. Len(list) |-> bufs[rx.info[list[k]]]]
             /\ sync' = (sync \/ list # << >>)
             /\ rx' = [rx EXCEPT !.info = Freed(list, @)]
             /\ free' = free \o [k \in 1 .. Len(list) |-> rx.info[list[k]]]
             /\ rxcq' = [head |-> head, tail |-> head]
             /\ posted' = posted \o CqRing_write_tail_ptr("rxcq", head)
             /\ pc' = "receive ring" /\ UNCHANGED failed
  /\ UNCHANGED <<setup, pending, eq, txcq, tx, allocated, bufs, desc, nic, msi, receiver, sent, wire, arrived, received, lost>>
process_rx_ring ==
  /\ pc = "receive ring" /\ posted = << >>
  /\ LET tail == RxRing_read_tail_ptr
         f == refill_buffers([rx EXCEPT !.tail = tail, !.clean = Cleaned(rx, tail)])
     IN /\ rx' = f.rx /\ free' = f.free /\ allocated' = f.allocated
        /\ desc' = [desc EXCEPT !.rx = f.desc]
        /\ posted' = posted \o f.writes \o CqRing_arm("rxcq")
  /\ eq' = [eq EXCEPT !.local = @ + 1] /\ pc' = "event"
  /\ UNCHANGED <<setup, pending, txcq, rxcq, tx, bufs, nic, msi, app, log>>

(* The event queue is armed; when that await returns the handler is done,  *)
(* and runs again for an interrupt that came meanwhile.                    *)
arm ==
  /\ pc = "arm" /\ pc' = "armed"
  /\ posted' = posted \o EqRing_arm
  /\ UNCHANGED <<setup, pending, rings, memory, nic, msi, app, log>>
interrupt_done ==
  /\ pc = "armed"
  /\ IF pending > 0 THEN pending' = pending - 1 /\ pc' = "event queue" ELSE pc' = "idle" /\ UNCHANGED pending
  /\ UNCHANGED <<setup, rings, memory, bus, app, log>>

\* Mutant: the event is not cleared before the wait.
recvUncleared ==
  /\ \/ /\ receiver = "idle" /\ rxq = << >> /\ Len(received) < NRX
        /\ receiver' = "waiting" /\ UNCHANGED <<sync, rxq, received>>
     \/ /\ (receiver = "idle" /\ rxq # << >>) \/ (receiver = "waiting" /\ sync)
        /\ received' = Append(received, IF rxq = << >> THEN NoBuf ELSE Head(rxq))
        /\ rxq' = IF rxq = << >> THEN rxq ELSE Tail(rxq)
        /\ receiver' = "idle" /\ UNCHANGED sync
  /\ UNCHANGED <<setup, handler, rings, memory, bus, sent, wire, arrived, lost, failed>>
(* Interface.recv: an empty queue clears the event and waits for it.       *)
recv ==
  /\ \/ /\ receiver = "idle" /\ rxq = << >> /\ Len(received) < NRX
        /\ sync' = FALSE /\ receiver' = "waiting" /\ UNCHANGED <<rxq, received>>
     \/ /\ (receiver = "idle" /\ rxq # << >>) \/ (receiver = "waiting" /\ sync)
        /\ received' = Append(received, IF rxq = << >> THEN NoBuf ELSE Head(rxq))
        /\ rxq' = IF rxq = << >> THEN rxq ELSE Tail(rxq)
        /\ receiver' = "idle" /\ UNCHANGED sync
  /\ UNCHANGED <<setup, handler, rings, memory, bus, sent, wire, arrived, lost, failed>>

-----------------------------------------------------------------------------
(* The NIC.  A register write arrives.  Arming a queue that is not empty   *)
(* raises its event at once and leaves it disarmed.                        *)
Raise(n, m, q) ==
  IF q = "eq" THEN [nic |-> n, msi |-> m + 1] ELSE [nic |-> [n EXCEPT !.events[q] = @ + 1], msi |-> m]
queue_manager_write ==
  /\ posted # << >> /\ posted' = Tail(posted)
  /\ LET w == Head(posted)
         h == nic.q[w.q]
         quiet == w.op # "arm" \/ h.head = h.tail
         new == CASE w.op = "init" -> [h EXCEPT !.active = FALSE, !.head = 0, !.tail = 0]
                  [] w.op = "activate" -> [h EXCEPT !.active = TRUE, !.head = w.val, !.tail = w.val]
                  [] w.op = "head" -> [h EXCEPT !.head = w.val]
                  [] w.op = "tail" -> [h EXCEPT !.tail = w.val]
                  [] w.op = "arm" -> [h EXCEPT !.armed = quiet]
         n == [nic EXCEPT !.q[w.q] = new]
         e == Raise(n, msi, w.q)
     IN IF quiet THEN nic' = n /\ UNCHANGED msi ELSE nic' = e.nic /\ msi' = e.msi
  /\ UNCHANGED <<setup, handler, rings, memory, app, log>>

(* cpl_write and cpl_queue_manager: an entry is written to host memory,    *)
(* then the head moves and an armed queue raises its event; an entry for a *)
(* full or an inactive queue is dropped.                                   *)
Enqueue(n, q, entry) ==
  LET h == n.q[q]
      size == IF q = "eq" THEN EQSIZE ELSE SIZE
      full == (h.head - h.tail) % PTRS >= size
      m == [n EXCEPT !.q[q] = [h EXCEPT !.head = (@ + 1) % PTRS, !.armed = FALSE, !.buf[h.head % size] = entry]]
  IN IF ~h.active \/ full THEN [nic |-> n, msi |-> msi, lost |-> TRUE]
     ELSE IF h.armed THEN [nic |-> Raise(m, msi, q).nic, msi |-> Raise(m, msi, q).msi, lost |-> lost]
     ELSE [nic |-> m, msi |-> msi, lost |-> lost]

Dequeue(n, r, entry) ==
  [n EXCEPT !.q[r].tail = (@ + 1) % PTRS, !.fly[r] = Append(@, entry)]
Available(r) == nic.q[r].active /\ nic.q[r].head # nic.q[r].tail

(* A descriptor is fetched and the ring's tail moves on; the completion    *)
(* follows when the packet has been read or written.                       *)
tx_fetch ==
  /\ Available("tx")
  /\ nic' = Dequeue(nic, "tx", [ptr |-> nic.q.tx.tail, buf |-> desc.tx[nic.q.tx.tail % SIZE]])
  /\ UNCHANGED <<setup, handler, rings, memory, posted, msi, app, log>>
tx_complete ==
  /\ nic.fly.tx # << >>
  /\ LET w == Head(nic.fly.tx)
         e == Enqueue([nic EXCEPT !.fly.tx = Tail(@)], "txcq", w.ptr)
     IN /\ wire' = Append(wire, bufs[w.buf])
        /\ nic' = e.nic /\ msi' = e.msi /\ lost' = e.lost
  /\ UNCHANGED <<setup, handler, rings, memory, posted, app, sent, arrived, received, failed>>
(* A packet that finds no descriptor is dropped by the receive engine and  *)
(* does not count as arrived.                                              *)
rx_fetch ==
  /\ arrived < NRX /\ Available("rx")
  /\ arrived' = arrived + 1
  /\ LET buf == desc.rx[nic.q.rx.tail % SIZE]
     IN /\ nic' = Dequeue(nic, "rx", [ptr |-> nic.q.rx.tail, buf |-> buf])
        /\ bufs' = [bufs EXCEPT ![buf] = 100 + arrived + 1]
  /\ UNCHANGED <<setup, handler, rings, free, allocated, desc, posted, msi, app, sent, wire, received, lost, failed>>
rx_complete ==
  /\ nic.fly.rx # << >>
  /\ LET w == Head(nic.fly.rx)
         e == Enqueue([nic EXCEPT !.fly.rx = Tail(@)], "rxcq", w.ptr)
     IN nic' = e.nic /\ msi' = e.msi /\ lost' = e.lost
  /\ UNCHANGED <<setup, handler, rings, memory, posted, app, sent, wire, arrived, received, failed>>
(* event_mux: an event of a completion queue is put into the event queue.  *)
event_mux ==
  /\ \E q \in {"txcq", "rxcq"} :
       /\ nic.events[q] > 0
       /\ LET e == Enqueue([nic EXCEPT !.events[q] = @ - 1], "eq", q)
          IN nic' = e.nic /\ msi' = e.msi /\ lost' = e.lost
  /\ UNCHANGED <<setup, handler, rings, memory, posted, app, sent, wire, arrived, received, failed>>

Handler ==
  \/ interrupt \/ EqRing_process \/ EqRing_event \/ process_tx_cq \/ process_tx_ring
  \/ process_rx_cq \/ process_rx_ring \/ arm \/ interrupt_done
Nic == queue_manager_write \/ tx_fetch \/ tx_complete \/ rx_complete \/ event_mux
Step == Driver_init_dev \/ Interface_init \/ open \/ start_xmit \/ recv \/ Handler \/ Nic \/ rx_fetch

(* What can run: the steps of the handler that read a register wait for    *)
(* the writes before them.                                                 *)
Reading == {"event queue", "transmit completions", "receive completions", "transmit ring", "receive ring"}
HandlerReady == msi > 0 \/ (pc \notin {"idle", "dead"} /\ (pc \in Reading /\ up => posted = << >>))
OpenReady == phase \in {"new", "found", "receiving"} \/ (phase \in {"initialised", "transmitting"} /\ posted = << >>)
SendReady == up /\ sent < NTX /\ tx.head - tx.clean < SIZE
ReceiveReady == IF receiver = "idle" THEN rxq # << >> \/ Len(received) < NRX ELSE sync
EventReady == \E q \in {"txcq", "rxcq"} : nic.events[q] > 0
Rest ==
  /\ ~(HandlerReady \/ OpenReady \/ SendReady \/ ReceiveReady \/ EventReady \/ Available("tx"))
  /\ posted = << >> /\ nic.fly.tx = << >> /\ nic.fly.rx = << >> /\ UNCHANGED vars
Next == Step \/ Rest

(* Coroutines that can run do, and the NIC finishes what it has begun.  A  *)
(* read waits only for the writes before it, not for later ones: open gets *)
(* its turn when it could take it again and again.  Packets need not come. *)
Fairness ==
  /\ <>[]~OpenReady \/ []<><<Driver_init_dev \/ Interface_init \/ open>>_vars
  /\ []<>~SendReady \/ []<><<start_xmit>>_vars
  /\ []<>~ReceiveReady \/ []<><<recv>>_vars
  /\ []<>~HandlerReady \/ []<><<Handler>>_vars
  /\ []<>(posted = << >>) \/ []<><<queue_manager_write>>_vars
  /\ []<>~Available("tx") \/ []<><<tx_fetch>>_vars
  /\ []<>(nic.fly.tx = << >>) \/ []<><<tx_complete>>_vars
  /\ []<>(nic.fly.rx = << >>) \/ []<><<rx_complete>>_vars
  /\ []<>~EventReady \/ []<><<event_mux>>_vars
Spec == Init /\ [][Next]_vars /\ Fairness

-----------------------------------------------------------------------------
(* The NIC sends the packets given to start_xmit, and recv returns the     *)
(* packets that arrived, each once, in order and unchanged: no buffer is   *)
(* reused while the other side may still read or write it (free_desc,      *)
(* refill_buffers and clean_tail_ptr).                                     *)
NicPacketsExact ==
  /\ wire = [i \in 1 .. Len(wire) |-> i] /\ Len(wire) <= sent
  /\ received \o rxq = [i \in 1 .. Len(received) + Len(rxq) |-> 100 + i]
  /\ Len(received) + Len(rxq) <= arrived

Held(r) == {r.info[i] : i \in Slots} \ {NoBuf}
Holds(r) == Cardinality({i \in Slots : r.info[i] # NoBuf})
(* Every packet buffer is in exactly one of free_packets, tx_info and      *)
(* rx_info, the buffers the NIC works on are not free, no index or         *)
(* assertion of the driver fails, and no completion or event ever finds    *)
(* its queue full: the event queue holds two events of every completion    *)
(* queue, one handled but not yet given back and one raised since.  A ring *)
(* has carried at most SIZE packets (alloc_pkt, free_pkt, the loops over   *)
(* completions, write_tail_ptr).                                           *)
BuffersOwned ==
  /\ ~failed /\ ~lost
  /\ Len(free) + Holds(tx) + Holds(rx) = allocated
  /\ Range(free) \cup Held(tx) \cup Held(rx) = 1 .. allocated
  /\ \A k \in 1 .. Len(nic.fly.tx) : nic.fly.tx[k].buf \in Held(tx)
  /\ \A k \in 1 .. Len(nic.fly.rx) : nic.fly.rx[k].buf \in Held(rx)

Handled == /\ up /\ Len(wire) = NTX /\ Held(tx) = {} /\ tx.clean = tx.head
           /\ Len(received) = arrived
(* No interrupt is lost for good: every packet submitted is sent and its   *)
(* buffer freed and its ring entry cleaned, and every packet that arrived  *)
(* is returned by recv, also when events come while the handler runs, is   *)
(* about to arm its queue, or before the port is up (arm, interrupt,       *)
(* interrupt_pending, pkt_rx_sync).                                        *)
AllHandled == []<>Handled
=============================================================================
