------------------------------- MODULE HardBlock -------------------------------
(***************************************************************************)
(* The PCIe device models between the host link and the user design:       *)
(* UltrascalePCIe (pcie_us.py), UltrascalePlusPCIe (pcie_usp.py) and       *)
(* PcieIfDevice (pcie_if.py).  Requests from the host wait for a credit    *)
(* of the user when they are non-posted; completions and requests of the   *)
(* user go up the link, and the sequence number of each request sent is    *)
(* reported back; the user reads and writes config registers and sends     *)
(* message signalled interrupts.                                           *)
(*                                                                         *)
(* The channels to the user are FIFOs here: EndpointPair is about what     *)
(* happens on them.  A TLP from the host is [k, match, n]: its kind,       *)
(* whether a function, or exactly one BAR, takes it, and its number.  What *)
(* the status outputs show of the functions' registers is left out.       *)
(***************************************************************************)
EXTENDS Integers, Sequences, FiniteSets, SequencesExt, FiniteSetsExt

CONSTANTS
  Loads,        \* device, TLPs of the host, requests, accesses and interrupts of the user
  NP_MAX,       \* the cap on credits (32 in the code)
  GRANTS,       \* bound on the credits the device accepts
  MAXRESET

VARIABLES
  load,         \* [kind, ports, host, rq, mgmt, msi]
  todo,         \* what the user has still to do of its part of load
  link,         \* TLPs of the host on their way
  enable,       \* config_space_enable
  master,       \* bus_master_enable
  cq_queue, cq_np_queue, cq_np_req_count, rc_queue, rq_seq_num,
  cq, rc,       \* handed to the sources
  cc, rq,       \* given by the user to the channels to the sinks; rq by channel
  up,           \* sent to the host
  sys_reset,    \* active low
  mgmt,         \* configuration management: [req, done, runs]
  intr,         \* [int, sent, acks]: interrupt raised, acknowledged, acknowledgements
  seen,         \* what the user took from cq, in order
  seqs,         \* sequence numbers reported, by channel
  granted,      \* credits accepted
  resets

queues == <<cq_queue, cq_np_queue, cq_np_req_count, rc_queue, rq_seq_num>>
vars == <<load, todo, link, enable, master, queues, cq, rc, cc, rq, up, sys_reset, mgmt, intr, seen, seqs, granted,
          resets>>

Channels == {"rq", "rd", "wr", "msi"}
NonPosted == {"io_read", "io_write", "mem_read"}
Reply(t, status) == [k |-> "cpl", n |-> t.n, status |-> status]

-----------------------------------------------------------------------------
(* What a device does with a TLP from the host: the queue it goes to and   *)
(* the completion the device itself sends.                                 *)
To(queue) == [queue |-> queue, status |-> "none"]
Answer(status) == [queue |-> "none", status |-> status]
Drop == Answer("none")

UltrascalePCIe_upstream_recv(t) ==
  CASE t.k = "cfg" -> IF ~enable THEN Answer("CRS") ELSE IF t.match THEN Answer("SC") ELSE Answer("UR")
    [] t.k = "cpl" -> IF t.match THEN To("rc") ELSE Drop
    [] t.k \in {"io_read", "io_write"} -> IF t.match THEN To("cq") ELSE Answer("UR")
    [] t.k = "mem_read" -> IF t.match THEN To("cq") ELSE Answer("UR")
    [] t.k = "mem_write" -> IF t.match THEN To("cq") ELSE Drop
UltrascalePlusPCIe_upstream_recv(t) ==
  CASE t.k = "cfg" -> IF ~enable THEN Answer("CRS") ELSE IF t.match THEN Answer("SC") ELSE Answer("UR")
    [] t.k = "cpl" -> IF t.match THEN To("rc") ELSE Drop
    [] t.k \in {"io_read", "io_write", "mem_read"} -> IF t.match THEN To("cq") ELSE Answer("UR")
    [] t.k = "mem_write" -> IF t.match THEN To("cq") ELSE Drop
PcieIfDevice_upstream_recv(t) ==
  CASE t.k = "cfg" -> IF t.match THEN Answer("SC") ELSE Answer("UR")
    [] t.k = "cpl" -> IF t.match THEN To("rc") ELSE Drop
    [] t.k \in {"io_read", "io_write", "mem_read"} -> IF t.match THEN To("cq") ELSE Answer("UR")
    [] t.k = "mem_write" -> IF t.match THEN To("cq") ELSE Drop

upstream_recv ==
  /\ link # << >>
  /\ LET t == Head(link)
         effect == CASE load.kind = "us" -> UltrascalePCIe_upstream_recv(t)
                     [] load.kind = "usp" -> UltrascalePlusPCIe_upstream_recv(t)
                     [] load.kind = "if" -> PcieIfDevice_upstream_recv(t)
     IN /\ up' = IF effect.status = "none" THEN up ELSE Append(up, Reply(t, effect.status))
        /\ cq_queue' = IF effect.queue = "cq" THEN Append(cq_queue, t) ELSE cq_queue
        /\ rc_queue' = IF effect.queue = "rc" THEN Append(rc_queue, t) ELSE rc_queue
        \* a config write of the host may enable or disable bus mastering
        /\ master' \in IF t.k = "cfg" /\ effect.status = "SC" THEN BOOLEAN ELSE {master}
  /\ link' = Tail(link)
  /\ UNCHANGED <<load, todo, enable, cq_np_queue, cq_np_req_count, rq_seq_num, cq, rc, cc, rq, sys_reset, mgmt, intr, seen,
                 seqs, granted, resets>>

-----------------------------------------------------------------------------
(* The clocked logic.  Queued non-posted requests go first, each for a     *)
(* credit; then the new requests, of which the non-posted ones wait when   *)
(* there is no credit.                                                     *)
Credit(np_req, low) ==
  CASE low -> 0
    [] ~low /\ np_req /\ cq_np_req_count < NP_MAX -> cq_np_req_count + 1
    [] ~low /\ ~(np_req /\ cq_np_req_count < NP_MAX) -> cq_np_req_count
(* Mutant: a request is forwarded with the last credit still counted.      *)
NewRequestFree(st, t) ==
  IF t.k \in NonPosted /\ st.count = 0 THEN [st EXCEPT !.np = Append(@, t)] ELSE [st EXCEPT !.out = Append(@, t)]
NewRequest(st, t) ==
  CASE t.k \in NonPosted /\ st.count > 0 -> [st EXCEPT !.count = @ - 1, !.out = Append(@, t)]
    [] t.k \in NonPosted /\ st.count = 0 -> [st EXCEPT !.np = Append(@, t)]
    [] t.k \notin NonPosted -> [st EXCEPT !.out = Append(@, t)]
completer_requests(credit) ==
  LET n == Min({credit, Len(cq_np_queue)})
  IN FoldLeft(NewRequest, [count |-> credit - n, np |-> SubSeq(cq_np_queue, n + 1, Len(cq_np_queue)),
                           out |-> SubSeq(cq_np_queue, 1, n)], cq_queue)

(* Completions of the user go up unless discontinued, with the id of the   *)
(* device; so do its requests when bus mastering is enabled, and their     *)
(* sequence numbers are noted.                                             *)
completer_completions(frames) == SelectSeq(frames, LAMBDA p : ~p.discontinue)
requester_requests(frames) == SelectSeq(frames, LAMBDA p : ~p.discontinue /\ master)
SeqNums(requests) == [i \in 1 .. Len(requests) |-> requests[i].seq]
First(all, n) == SubSeq(all, 1, Min({n, Len(all)}))
Rest(all, n) == SubSeq(all, n + 1, Len(all))

(* cfg_mgmt: an access takes one cycle, then done is up for one cycle.  On *)
(* UltraScale, address bit 18 stands for an internal register.             *)
UltrascalePCIe_cfg_mgmt ==
  CASE mgmt.done -> [mgmt EXCEPT !.done = FALSE]
    [] ~mgmt.done /\ mgmt.req = "config" -> [mgmt EXCEPT !.done = TRUE, !.runs = @ + 1]
    [] ~mgmt.done /\ mgmt.req = "internal" -> [mgmt EXCEPT !.done = TRUE]
    [] ~mgmt.done /\ mgmt.req = "none" -> mgmt
UltrascalePlusPCIe_cfg_mgmt ==
  CASE mgmt.done -> [mgmt EXCEPT !.done = FALSE]
    [] ~mgmt.done /\ mgmt.req # "none" -> [mgmt EXCEPT !.done = TRUE, !.runs = @ + 1]
    [] ~mgmt.done /\ mgmt.req = "none" -> mgmt

(* MSI: exactly one vector and an existing function, else nothing is done. *)
(* MSI-X carries its address.  sent goes up although a function that is no *)
(* bus master sends nothing.                                               *)
Message == IF master THEN <<[k |-> "msi", n |-> 0, status |-> "none"]>> ELSE << >>
interrupt_msi == intr.int = "msi"
interrupt_msix == intr.int = "msix"
UltrascalePCIe_interrupt ==
  [up |-> IF interrupt_msi \/ interrupt_msix THEN Message ELSE << >>,
   sent |-> IF interrupt_msi THEN "msi" ELSE IF interrupt_msix THEN "msix" ELSE "none"]
UltrascalePlusPCIe_interrupt ==
  [up |-> IF interrupt_msi \/ interrupt_msix THEN Message ELSE << >>,
   sent |-> IF interrupt_msi \/ interrupt_msix THEN "msi" ELSE "none"]

(* Everything a clock edge, or the start of sys_reset, does.  at holds the *)
(* level of the reset (low), the credit granted, what the cq source still  *)
(* has, and the frames the cc and rq sinks have received.                  *)
Logic(at, ports, cfg_mgmt, irq) ==
  LET requests == completer_requests(Credit(at.np_req, at.low))
      sends == requester_requests(at.rq)
      nums == rq_seq_num.rq \o SeqNums(sends)
  IN /\ cq_np_req_count' = requests.count /\ cq_np_queue' = requests.np /\ cq_queue' = << >>
     /\ cq' = at.cq \o requests.out
     /\ rc' = rc \o rc_queue /\ rc_queue' = << >>
     /\ up' = up \o completer_completions(at.cc) \o sends \o irq.up
     /\ rq_seq_num' = [rq_seq_num EXCEPT !.rq = Rest(nums, ports)]
     /\ seqs' = [seqs EXCEPT !.rq = @ \o First(nums, ports)]
     /\ mgmt' = [cfg_mgmt EXCEPT !.req = IF mgmt.done \/ at.low THEN "none" ELSE @]
     /\ intr' = [int |-> "none", sent |-> irq.sent, acks |-> intr.acks + (IF intr.sent = "none" THEN 0 ELSE 1)]
     /\ enable' = ~at.low
UltrascalePCIe_logic(at) == Logic(at, 1, UltrascalePCIe_cfg_mgmt, UltrascalePCIe_interrupt)
UltrascalePlusPCIe_logic(at) == Logic(at, 2, UltrascalePlusPCIe_cfg_mgmt, UltrascalePlusPCIe_interrupt)
logic(at) == (load.kind = "us" /\ UltrascalePCIe_logic(at)) \/ (load.kind = "usp" /\ UltrascalePlusPCIe_logic(at))

(* pcie_if: no credits; each channel has its own coroutine, which takes    *)
(* the next frame when there is one.  Sequence numbers of reads and writes *)
(* leave with the clock, as many as the port has lanes; without a port     *)
(* they are dropped one by one.                                            *)
_run_rx_req_logic ==
  /\ cq_queue # << >>
  /\ cq' = Append(cq, Head(cq_queue)) /\ cq_queue' = Tail(cq_queue)
  /\ UNCHANGED <<rc, rc_queue, cc, rq, up, rq_seq_num, seqs>>
_run_rx_cpl_logic ==
  /\ rc_queue # << >>
  /\ rc' = Append(rc, Head(rc_queue)) /\ rc_queue' = Tail(rc_queue)
  /\ UNCHANGED <<cq, cq_queue, cc, rq, up, rq_seq_num, seqs>>
_run_tx_cpl_logic ==
  /\ cc # << >>
  /\ up' = Append(up, Head(cc)) /\ cc' = Tail(cc)
  /\ UNCHANGED <<cq, cq_queue, rc, rc_queue, rq, rq_seq_num, seqs>>
_run_tx_rd_req_logic ==
  /\ rq.rd # << >>
  /\ up' = Append(up, Head(rq.rd)) /\ rq' = [rq EXCEPT !.rd = Tail(@)]
  /\ rq_seq_num' = [rq_seq_num EXCEPT !.rd = Append(@, Head(rq.rd).seq)]
  /\ UNCHANGED <<cq, cq_queue, rc, rc_queue, cc, seqs>>
_run_tx_wr_req_logic ==
  /\ rq.wr # << >>
  /\ up' = Append(up, Head(rq.wr)) /\ rq' = [rq EXCEPT !.wr = Tail(@)]
  /\ rq_seq_num' = [rq_seq_num EXCEPT !.wr = Append(@, Head(rq.wr).seq)]
  /\ UNCHANGED <<cq, cq_queue, rc, rc_queue, cc, seqs>>
_run_tx_msi_wr_req_logic ==
  /\ rq.msi # << >>
  /\ up' = Append(up, Head(rq.msi)) /\ rq' = [rq EXCEPT !.msi = Tail(@)]
  /\ UNCHANGED <<cq, cq_queue, rc, rc_queue, cc, rq_seq_num, seqs>>
_run_rd_req_tx_seq_num_logic ==
  [queue |-> Rest(rq_seq_num.rd, Max({1, load.ports})), out |-> First(rq_seq_num.rd, load.ports)]
_run_wr_req_tx_seq_num_logic ==
  [queue |-> Rest(rq_seq_num.wr, Max({1, load.ports})), out |-> First(rq_seq_num.wr, load.ports)]
TxSeqNum ==
  /\ rq_seq_num.rd # << >> \/ rq_seq_num.wr # << >>
  /\ LET rd == _run_rd_req_tx_seq_num_logic
         wr == _run_wr_req_tx_seq_num_logic
     IN /\ rq_seq_num' = [rq_seq_num EXCEPT !.rd = rd.queue, !.wr = wr.queue]
        /\ seqs' = [seqs EXCEPT !.rd = @ \o rd.out, !.wr = @ \o wr.out]
  /\ UNCHANGED <<cq, cq_queue, rc, rc_queue, cc, rq, up>>
PcieIfDevice_step ==
  /\ load.kind = "if"
  /\ \/ _run_rx_req_logic \/ _run_rx_cpl_logic \/ _run_tx_cpl_logic \/ _run_tx_rd_req_logic
     \/ _run_tx_wr_req_logic \/ _run_tx_msi_wr_req_logic \/ TxSeqNum
  /\ UNCHANGED <<load, todo, link, enable, master, cq_np_queue, cq_np_req_count, sys_reset, mgmt, intr, seen,
                 granted, resets>>

Pending == cq_queue # << >> \/ rc_queue # << >> \/ cc # << >> \/ (\E c \in Channels : rq[c] # << >> \/ rq_seq_num[c] # << >>)
           \/ mgmt.req # "none" \/ mgmt.done \/ intr.int # "none" \/ intr.sent # "none"
           \/ (load.kind # "if" /\ enable # sys_reset)
Cycle(np_req) ==
  /\ load.kind # "if" /\ (Pending \/ np_req)
  /\ np_req => sys_reset /\ granted < GRANTS
  /\ granted' = IF np_req /\ cq_np_req_count < NP_MAX THEN granted + 1 ELSE granted
  /\ IF sys_reset
     THEN /\ logic([low |-> FALSE, np_req |-> np_req, cq |-> cq, cc |-> cc, rq |-> rq.rq])
          /\ cc' = << >> /\ rq' = [rq EXCEPT !.rq = << >>]
     ELSE logic([low |-> TRUE, np_req |-> FALSE, cq |-> cq, cc |-> << >>, rq |-> << >>]) /\ UNCHANGED <<cc, rq>>
  /\ UNCHANGED <<load, todo, link, master, sys_reset, seen, resets>>

(* sys_reset goes low: the logic runs as for a clock edge, with the frames *)
(* the sinks have received so far, and the channels are reset.  A frame    *)
(* under way on a channel is lost, the frames queued behind it are not.    *)
Cuts(q) == {c \in [taken : 0 .. Len(q), lost : 0 .. 1] : c.taken + c.lost <= Len(q)}
Assert_reset ==
  /\ load.kind # "if" /\ sys_reset /\ resets < MAXRESET
  /\ sys_reset' = FALSE /\ resets' = resets + 1
  /\ \E c \in Cuts(cc), r \in Cuts(rq.rq), lost \in 0 .. Min({1, Len(cq)}) :
       /\ logic([low |-> TRUE, np_req |-> FALSE, cq |-> Rest(cq, lost),
                 cc |-> First(cc, c.taken), rq |-> First(rq.rq, r.taken)])
       /\ cc' = Rest(cc, c.taken + c.lost) /\ rq' = [rq EXCEPT !.rq = Rest(@, r.taken + r.lost)]
  /\ UNCHANGED <<load, todo, link, master, seen, granted>>
Release_reset ==
  /\ ~sys_reset /\ sys_reset' = TRUE
  /\ UNCHANGED <<load, todo, link, enable, master, queues, cq, rc, cc, rq, up, mgmt, intr, seen, seqs, granted, resets>>

-----------------------------------------------------------------------------
(* The user design: takes requests in order and completes the non-posted   *)
(* ones, sends requests, accesses config space, raises interrupts.         *)
UserTake ==
  /\ cq # << >> /\ sys_reset
  /\ seen' = Append(seen, Head(cq))
  /\ cc' = IF Head(cq).k \in NonPosted
           THEN Append(cc, [k |-> "cpl", n |-> Head(cq).n, status |-> "user", discontinue |-> FALSE]) ELSE cc
  /\ cq' = Tail(cq)
  /\ UNCHANGED <<load, todo, link, enable, master, queues, rc, rq, up, sys_reset, mgmt, intr, seqs, granted, resets>>
UserRequest ==
  /\ todo.rq # << >> /\ sys_reset
  /\ rq' = [rq EXCEPT ![Head(todo.rq).ch] = Append(@, Head(todo.rq))]
  /\ todo' = [todo EXCEPT !.rq = Tail(@)]
  /\ UNCHANGED <<load, link, enable, master, queues, cq, rc, cc, up, sys_reset, mgmt, intr, seen, seqs, granted, resets>>
UserConfig ==
  /\ todo.mgmt # << >> /\ mgmt.req = "none" /\ ~mgmt.done /\ sys_reset
  /\ mgmt' = [mgmt EXCEPT !.req = Head(todo.mgmt)]
  /\ todo' = [todo EXCEPT !.mgmt = Tail(@)]
  /\ UNCHANGED <<load, link, enable, master, queues, cq, rc, cc, rq, up, sys_reset, intr, seen, seqs, granted, resets>>
UserInterrupt ==
  /\ todo.msi # << >> /\ intr.int = "none" /\ intr.sent = "none" /\ sys_reset
  /\ intr' = [intr EXCEPT !.int = Head(todo.msi)]
  /\ todo' = [todo EXCEPT !.msi = Tail(@)]
  /\ UNCHANGED <<load, link, enable, master, queues, cq, rc, cc, rq, up, sys_reset, mgmt, seen, seqs, granted, resets>>

Empty == [c \in Channels |-> << >>]
Init ==
  /\ load \in Loads
  /\ todo = [rq |-> load.rq, mgmt |-> load.mgmt, msi |-> load.msi]
  /\ link = load.host
  /\ enable = FALSE /\ master \in BOOLEAN /\ sys_reset = TRUE
  /\ cq_queue = << >> /\ cq_np_queue = << >> /\ cq_np_req_count = 0 /\ rc_queue = << >> /\ rq_seq_num = Empty
  /\ cq = << >> /\ rc = << >> /\ cc = << >> /\ rq = Empty /\ up = << >>
  /\ mgmt = [req |-> "none", done |-> FALSE, runs |-> 0]
  /\ intr = [int |-> "none", sent |-> "none", acks |-> 0]
  /\ seen = << >> /\ seqs = Empty /\ granted = 0 /\ resets = 0

User == UserTake \/ UserRequest \/ UserConfig \/ UserInterrupt
Halt == link = << >> /\ ~Pending /\ sys_reset /\ cq = << >> /\ UNCHANGED vars
Device == PcieIfDevice_step \/ (\E np_req \in BOOLEAN : Cycle(np_req))
Next == upstream_recv \/ Device \/ Assert_reset \/ Release_reset \/ User \/ Halt

(* The clock runs and a reset ends; the host's link delivers; the user     *)
(* takes requests and grants credits while non-posted requests wait.       *)
Waits == sys_reset /\ cq_np_queue # << >> /\ granted < GRANTS
Idle ==
  /\ link = << >>
  /\ sys_reset => /\ cq = << >> /\ todo.rq = << >>
                  /\ todo.mgmt # << >> => mgmt.req # "none" \/ mgmt.done
                  /\ todo.msi # << >> => intr.int # "none" \/ intr.sent # "none"
Serve == upstream_recv \/ User
Fairness ==
  /\ []<>Idle \/ []<><<Serve>>_vars
  /\ []<>~(sys_reset /\ Pending) \/ []<><<Device>>_vars
  /\ []<>~Waits \/ []<><<Cycle(TRUE)>>_vars
  /\ []<>sys_reset
Spec == Init /\ [][Next]_vars /\ Fairness

-----------------------------------------------------------------------------
Out == seen \o cq
Places(n) ==
  Cardinality({x \in {<<"link", link>>, <<"cq_queue", cq_queue>>, <<"np", cq_np_queue>>, <<"cq", cq>>, <<"cc", cc>>,
                      <<"up", up>>} : \E i \in DOMAIN x[2] : x[2][i].n = n})
Count(q, n) == Cardinality({i \in DOMAIN q : q[i].n = n})
HostTlps == {load.host[i] : i \in DOMAIN load.host}
One(b) == IF b THEN 1 ELSE 0
Accesses(todolist) == Len(SelectSeq(todolist, LAMBDA a : a = "config"))
Valid(interrupts) == Len(SelectSeq(interrupts, LAMBDA i : i \in {"msi", "msix"}))
Messages == Len(SelectSeq(up, LAMBDA p : p.k = "msi"))

(* Towards the user, posted requests keep their order and so do non-posted *)
(* ones; a posted request may pass waiting non-posted ones and nothing     *)
(* else overtakes; no more non-posted requests are forwarded than credits  *)
(* were accepted, and none waits while there is a credit (the queues of    *)
(* logic, cq_np_req_count).                                                *)
RequestOrder ==
  /\ \A a, b \in DOMAIN Out : a < b /\ Out[a].n > Out[b].n => Out[a].k = "mem_write" /\ Out[b].k \in NonPosted
  /\ \A a \in DOMAIN Out, w \in Range(cq_queue \o cq_np_queue) :
       w.n < Out[a].n => Out[a].k = "mem_write" /\ w.k \in NonPosted
  /\ load.kind # "if" =>
       /\ Len(SelectSeq(Out, LAMBDA t : t.k \in NonPosted)) + cq_np_req_count <= granted
       /\ (cq_np_queue # << >> => cq_np_req_count = 0)

(* Every request of the host that needs a completion is in one place until *)
(* one completion for it is sent, by the device (also for config requests  *)
(* while config space is disabled, or without a function or BAR) or by the *)
(* user, never two; posted requests are never answered.  Every request of  *)
(* the user that is sent is reported by its sequence number once, in       *)
(* order.  Every interrupt and config access of the user is done once      *)
(* (upstream_recv, rq_seq_num, cfg_mgmt_read_write_done, MSI).             *)
UpstreamExact ==
  /\ \A t \in HostTlps :
       IF t.k \in NonPosted \cup {"cfg"}
       THEN Places(t.n) <= 1 /\ Count(up, t.n) <= 1 /\ (resets = 0 => Places(t.n) = 1)
       ELSE Count(up, t.n) = 0
  /\ \A c \in {"rq", "rd", "wr"} :
       LET Reported == seqs[c] \o rq_seq_num[c]
           Upward == SeqNums(SelectSeq(up, LAMBDA p : p.k = "req" /\ p.ch = c))
       IN IF load.ports > 0 THEN Reported = Upward ELSE seqs[c] = << >> /\ IsSuffix(rq_seq_num[c], Upward)
  /\ Messages <= Len(load.msi) - Len(todo.msi)
  /\ resets = 0 => /\ mgmt.runs = Accesses(load.mgmt) - Accesses(todo.mgmt) - One(mgmt.req = "config" /\ ~mgmt.done)
                   /\ intr.acks + One(intr.sent # "none") = Valid(load.msi) - Valid(todo.msi) - One(intr.int \in {"msi", "msix"})

Served ==
  \/ resets > 0
  \/ /\ \A t \in HostTlps : t.k \in NonPosted \cup {"cfg"} => Count(up, t.n) = 1
     /\ \A t \in HostTlps : t.k = "mem_write" /\ t.match => Count(seen, t.n) = 1
     /\ \A t \in HostTlps : t.k = "cpl" /\ t.match => Count(rc, t.n) = 1
     /\ rq_seq_num = Empty /\ todo.rq = << >> /\ rq = Empty /\ intr.acks = Valid(load.msi)

(* Unless a reset intervenes, every request of the host is answered or     *)
(* seen by the user, every completion reaches it, every request of the     *)
(* user that may be sent is reported, and every interrupt acknowledged.    *)
AllServed == <>Served
=============================================================================
