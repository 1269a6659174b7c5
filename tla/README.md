# Rosebud in TLA+

A verification development for Rosebud, the FPGA middlebox framework in this
repository: its packet path in hardware, the firmware and host programs that
run it, and the simulation models and tools in Python that come with it. RTL
paths below are relative to `src/fpga_src/lib/Rosebud/rtl/`, host code to
`src/host_utils/runtime/`, firmware to `src/riscv_code/`, Python to
`src/fpga_src/lib/`.

## 1. The system

A packet that enters by an Ethernet port or from the host goes to the load
balancer. Its policy module chooses a core (RPU), takes a free *slot* of that
core and stamps the packet with (core, slot). The switches carry the packet to
the RPU, whose DMA writes it into the slot and hands a descriptor to the RISC-V
core. The firmware sends, drops or passes the packet on; when the data has
left, the slot goes back to the load balancer over the control channel. Slots
are the flow control of the whole design: FIFOs are as deep as a core has
slots, and many of them rely on it.

Control messages, core to load balancer: 0 slot release, 1 send-out request,
2 packet to another core, 3 slot initialisation. Load balancer or host to core:
0 send, 1 loop back, 8/9 debug word, C poke, D evict, F reset.

Around the hardware stand a host that resets and loads the cores, a compiler
that turns string matching rules into tables and Verilog, and the simulation:
a model of PCIe (root complex, switches, endpoints and the hard blocks of the
FPGA), bus functional models of AXI, AXI stream and memories, and a NIC driver.
Most of the Python of the repository is this simulation; everything that the
tests of the hardware say rests on it.

### Inventory

| Part | State | Hard behaviour | Module |
|---|---|---|---|
| `slot_keeper.v` | free slots, duplicate record, count | return and pop in one cycle, duplicates | `SlotKeeper` |
| `basic_fifo.v` | pointers, flags, counter | full or empty from the last transaction | `BasicFifo`, `BoundedFifo` |
| `max_finder_tree.v` | none | ties, padding | `MaxFinder`, `MaxFinderTree` |
| `lb_controller.v` | slot keepers, request FIFOs, arbiter | ready over all FIFOs, shared slots | `LbController` |
| `lb_rr_lu.v` | port FSM, reserved descriptors, host registers | two-cycle grant against host commands | `LbRrLu` |
| `lb_hash_*.v` | hash and descriptor FIFOs, stall table | order alone ties packet to hash | `HashLb` |
| `header.v` | FSM, leftover bytes | stalls in every cycle | `HeaderAdder`, `HeaderRemover` |
| `axis_dma.v` | two-word pipeline, counts, descriptor | unaligned ends, stalls | `AxisDmaWrite`, `AxisDmaRead` |
| `rpu_intercon.v`, packets | FIFOs, slots in use, arbiter | three return paths of a slot | `RpuIntercon` |
| `rpu_intercon.v`, `rpu_controller.v`, `riscvcore.v`, `int_handler.c`: status and interrupts | pulses, debug words, timer, flags, interrupt line | one channel for all words, new interrupt in the handler | `StatusChannel` |
| `rpu.c`, `pr_reload.c`, `rvfw.c` | program counter of the host | reset while traffic goes on | `HostReset` |
| switches, `loopback_msg_fifo.v` | messages under way | any order | in `SlotLoop` |
| `Rosebud_API.py`, `pcie_config.v`: loading | staging area, descriptor and status registers | status cleared by the read that polls it, release after a fixed time | `FirmwareLoad` |
| `pcie/tb/pcie.py`, `pcie_if.py`: transfers | tags, completion queues, links | interleaved requesters, timeouts, late answers | `PcieMem` |
| `pcie.py`: enumeration, routing | bus numbers, windows, BARs, vectors | half-numbered trees, second enumeration | `PcieBus` |
| `pcie.py`: config space | register fields | byte enables, write-one-to-clear | `PcieConfig` |
| `pcie_us.py`, `pcie_usp.py`, `pcie_if.py`: devices | queues, credits, sequence numbers | non-posted requests wait, reset in traffic | `HardBlock` |
| sources and sinks of `pcie_us.py`, `pcie_if.py`, `axis_ep.py`, `ll_ep.py` | queues, bus registers | pauses, lanes, reset in a frame | `UsStream`, `PacketStream`, `EndpointPair` |
| `axi/tb/axi.py`, `axil.py` | command, address, data and response queues | ids, bursts, waits | `AxiMem` |
| `dma_ram.py`, `dma_psdp_ram.py` | read pipelines | hold-back, reset between two ready flags | `DmaRam` |
| `corundum/tb/mqnic.py` with the queue managers of the NIC | rings, buffers, armed queues | interrupt between last look and arming | `Mqnic` |
| `accel/archive/sme/python/sme_rulecompiler.py` | tries, machines, blocks, flow state | suffix patterns, block limits, flow switch | `Sme` |
| broadcast, DRAM access, accelerator DMA, droppers, statistics, memories, board wiring, generators | | | not modelled (section 5) |

`PROJECT.json` lists every part with its sources, and the hazards at the lines
where they bite.

## 2. Modules

Three grains of time are used. In the *cycle* modules one step is one clock
edge: an operator per `always` block (or per body of a clocked coroutine) says
what its registers become, and the edge conjoins them. Inputs (stalls, pauses,
arrivals, commands) are chosen anew in every cycle. In the *handshake* modules
one step is one valid/ready handshake, one store of the firmware or one step of
the host, interleaved freely. In the *coroutine* modules one step runs a Python
coroutine from one `yield` or `await` to the next, which is how the simulator
interleaves them.

**Hardware.**

- `SlotKeeper` (cycle). `occupied`, `slot_err`, `last_valid_count`,
  `slot_count_r`, `valid_r`, `enq_err_r` are the registers; `granted`
  (auxiliary) the slots with a packet. Duplicate returns are allowed except in
  the cycle of a pop, and initialisation only while no slot is on offer.
- `BasicFifo` (cycle) and its abstract specification `BoundedFifo`.
- `MaxFinder`: the tree as a recursive function of its stages;
  `MaxFinderTree`: its inputs and what it promises.
- `LbRrLu` (cycle): `HostStep`, the port FSM, the core selection by
  `max_finder_tree` per cluster, the round robin arbiter, the slot keepers by
  what `SlotKeeper` promises. The number of a core is cluster and core put
  together, so the cores of a cluster are a power of two, as in the boards. `Places` gathers where a slot is.
- `HashLb` (cycle): both hash policies, `POLICY` selects. A packet is the core
  that its hash selects.
- `HeaderStream`, `HeaderAdder`, `HeaderRemover`, `AxisDmaWrite`,
  `AxisDmaRead` (cycle), side by side in `Streams`: a byte is known by its
  packet and place, so that a lost, doubled or misplaced byte shows.
- `StatusChannel` (cycle): command parser, status FSM, flags, interrupt line
  and handler. The firmware takes any number of cycles for a step.
- `Descriptors`, `LbController`, `RpuIntercon` (handshake), composed in
  `SlotLoop` with the two networks and the firmware. The policy is left open:
  any port may reserve any slot.

**Host programs.**

- `HostReset` (handshake): one core under reset, the ports, the messages under
  way and the host program. The fixed waits of the host may end at any time;
  `late` (auxiliary) records that one ended while packets were still under way.
- `FirmwareLoad` (handshake): `load_firmware`, `block_write` and `block_read`
  over the descriptor and status registers of `pcie_config.v`. The poll that
  clears a status and the status that arrives in the same cycle are one step
  (`PollAndComplete`). DMA engine and network are external; only the words for
  one core keep their order. Nothing orders them with the release commands or
  the read-back, which take other channels, and the waits of 100 and 2000 ns
  promise nothing.
- `Mqnic` (coroutine): driver set-up, interrupt handler, `start_xmit` and
  `recv`, with posted register writes and the queue managers of the NIC.
- `Sme`: each step of the compiler is an action over a list of rules; then the
  compiled machines run on all byte streams with pauses and flow switches, as
  the compiler's own query and as the emitted registers. `Endless` is the loop
  of `finalize` that appends an empty block again and again.

**Simulation models.**

- `PcieMem` (coroutine): operators on TLPs (byte enables, lengths, cuts,
  checks); processes call the read and write methods of
  `RootComplex`, `Function` and `PcieIfTestDevice`; requests travel over FIFO
  links; `MemoryEndpoint`, `RootComplex` or `PcieIfTestDevice` answers them;
  completions find the waiting process by tag. A function that is not bus
  master returns at once (`NotBusMaster`). A byte records its address and
  the process that wrote it; a request its operation (auxiliary).
- `PcieBus`: `enumerate` over a tree of ports, switches and functions, one step
  for all config requests to one function; routing and
  capability lists as operators.
- `PcieConfig`: a register is the set of its one bits, and every read or write
  method a set of slices of fields.
- `HardBlock` (cycle and coroutine): `upstream_recv` and the clocked logic of
  the three device models; the channels to the user are FIFOs.
- `UsStream`, `PacketStream`: pack, source, sink and unpack of the CQ, CC, RQ
  and RC channels, of AXI stream (three versions), LocalLink and the segmented
  interface of `pcie_if.py`, composed in `EndpointPair` (cycle).
- `AxiMem` (coroutine): master and RAM joined by five channels. `DmaRam`
  (cycle): segments that move on one clock edge; `cmd_ready` is the flag of the
  write process, `wr_ready` the one on the bus, `owed` (auxiliary) counts the
  acknowledgements due.

**Proofs**: `LeafProofs` (`SlotKeeper`, `BasicFifo`, `MaxFinderTree`),
`MaxFinderProofs` (lemmas about the tree), `LbRrLuProofs`, `HashLbProofs`,
`StatusChannelProofs`, and for `SlotLoop` the invariant with the steps of the
RPUs (`SlotRpuSteps`), the steps of load balancer, networks and host
(`SlotLbSteps`) and the theorems (`SlotLoopProofs`).

**Instances**: `MC*`; `SlotLoop` and `StatusChannel` hold the few definitions
that their own instances need. Several hold parts or variants that share no state; a
variable that never changes (`unit`, `part`, `policy`) says which one runs,
while the others rest.

The names of the source are kept. `map` in `PROJECT.json` gives the lines of
every definition.

## 3. What is checked

| Run | Properties | What it shows | Bounds |
|---|---|---|---|
| `leaves` | `NoDoubleGrant`, `CountTracksFree`, `FlagsAgree`, `ImplementsFifo`, `FindsMaximum`, `DmaExact`, `HeadersExact`, `DmaCompletes` | no slot of a keeper has two owners, its count is off exactly by the recorded duplicates; the FIFO is a queue; the tree finds the maximum; DMA and header units move every byte once, in place and in order, under all stalls but one (`HDR_READY`, below) | 4 slots with a 4-bit counter that can wrap; FIFO of 4: full, empty, wrap and clear occur; 5 tree ports: an incomplete tree; words of 4 bytes, 3 packets, lengths 1, 4, 9 and offsets 0, 1, 3: ends before, on and behind a word boundary; headers of 3 and of 1 byte |
| `lb_rr_lu` | `SlotsConserved`, `GrantIsExpected`, `NoGrantFromDisabled`, `StallEnds` | the two-cycle grant is safe against host commands and inter-core pops, and ports are served | 2 ports, 2 clusters of 2 cores, 3 cores in use, 1 slot: every grant is contended, one cluster has a choice; inter-core transfers take slots of core 1; the host enables, disables and releases and writes a register only to change it. A flush is left to the theorems |
| `hash_lb` | `HashesAligned`, `SlotsConserved`, `BlockingServes` | packets of more than one word keep their hash, slots are conserved, with the blocking policy ports waiting for a core are served in turn | 2 ports, 2 cores, 1 slot, packets of 2 words, FIFOs of 2; the host writes an enable register only to change it |
| `slots` | `SlotInOnePlace`, `NoOverflow`, `SlotOwnedOnce`, `LoadExact`, `HostFinishes` | a slot is in one place on all three return paths and FIFOs have room; a reset in traffic ends and, with the hash policies and a wait that was long enough, neither doubles nor loses slots; no word lands in a wrong place or core, what a released core lacks is on its way, all memories get their image and no status is lost | loop: 2 cores, 2 slots, FIFOs of the size the slots dictate, others of 1; reset: 2 ports and 3 slots (hash), 1 port and 2 slots (round robin); a reset whose wait was too short is the last one and no new packet comes after it; load: 2 cores, chunks of 2 words, 3 images |
| `slot_loop_fair` | `SlotReturns` | every slot comes back | the same loop, 1 reserved descriptor, one path per core |
| `status_channel` | `TimerInSync`, `StatusAnswered` | the timer is in step, debug words arrive and evict is answered, except as below | 2 values per half of the timer, 2 per debug word, 3 cycles between commands |
| `pcie` | `CompletionsMatch`, `TransfersExact`, `RoutesExact`, `CapabilitiesFound`, `WriteReadsBack`, `HardBlockExact`, `PcieFinishes` | transfers change and return exactly the bytes asked for; enumeration gives every function, BAR and vector a route of its own; config writes set exactly the writable bits; the hard blocks keep order, answer and report once; all requests end | page 64, read request 32, payload 16, completion boundary 8: all cuts occur; 5 pairs of requester and completer with 2 processes, wrong addresses, a missing function, a function that is not bus master, single bytes, timeouts; trees flat, deep and chained, enumerated twice; 3 functions, 2 patterns, 2 sets of byte enables, 2 writes; 2 credits at most, 4 granted, 1 reset |
| `bus_models` | `PacketsExact`, `AxiExact`, `RamExact`, `BusFinishes` | every field of every packet arrives in order through pauses and a reset; AXI reads return what was written; each RAM read is answered once, in order, each write acknowledged once, up to one more or less for a reset; all finish | words of 2 bytes, page 8, bursts of 2, 2 ids; nine interfaces with 1 to 16 lanes, 2 packets, 1 reset; 2 segments of 2 lanes, latency 1 and 2 |
| `software` | `NicExact`, `OneOwner`, `PacketsHandled`, `RulesExact`, `MatchesExact`, `PartitionEnds` | packets go through the driver once and in order, a buffer has one owner, no interrupt is lost; compiled and emitted machines report exactly the patterns that end at each byte, the emitted ones except at the last byte of a frame; the partition ends, except with `max_states` = 1 | rings of 2, event queue of 4, 2 packets each way, pointers modulo 8; bytes of 2 bits split in 1 or 2, 4 lists of rules: nested, repeated, more than a block holds, mixed; `max_states` 1 to 10, with 1 for 1 to 6 patterns |

Type invariants are conjuncts of these properties. Every property has a mutant
of the code's model (a dropped guard, a missing reset, an off-by-one) that
violates it.

Where the bounds are small it is to make the case happen: one slot per core
forces every port, transfer and flush to fight for it; FIFOs of two entries are
full and empty within a few steps; a counter or timer half of few values wraps;
a page of a few words is crossed by most transfers. Constants of the code that
only scale (4 KiB, 128 bytes, 32 devices, 16384-byte chunks) are `CONSTANTS`.

### Where code and comments disagree

Three runs expect a violation:

- `header_remover_stall` (`RemoverExact`): `header_remover` takes the header
  word also when the sink is not ready, while its FSM waits; the rest of the
  word is lost (`header.v:288` against the comment at 253-254). In `leaves` the
  sink is taken to be ready when a header comes (`HDR_READY`).
- `host_reset_prefetch` (`DescsDropped`): the host writes the command to drop a
  reserved descriptor to register 1 (`rpu.h:59`); `lb_rr_lu.v:115` has it at 2.
- `hash_lb_one_word` (`HashesAligned`): `rx_hash_fifo` has 64 entries, the data
  FIFO 64 words and two more in the pipeline behind them. With packets of one
  word and no slot for the port, the last two hashes find no room and are lost,
  and later packets take the hash of another (`lb_hash_blocking.v:155`, "FIFO
  has more room than 64B packets in the data fifo"). The run has the same
  surplus of two at FIFOs of 2; `HashLbProofs` proves that without the surplus
  it cannot happen.

Three definitions state a comment of the code, do not hold, and are kept for
the reader without a run:

- `KeptUntilAcked` (`StatusChannel`): a new word of interrupts overwrites flags
  not yet acknowledged (`rpu_controller.v:209` against `riscvcore.v:350`).
  `StatusAnswered` therefore excepts an interrupt in between.
- `BlockReceived` (`FirmwareLoad`): "Wait for the core to receive"
  (`Rosebud_API.py:638`), but the number of frames it compares with is read once
  per core, so that only the first block is waited for. The 100 ns before the
  release (653) are what is left to cover the others: `LoadExact` shows that a
  core may be released with words still on their way to it, and that these are
  the right ones. With an empty instruction segment the same wait never ends.
- `LastByteMatched` (`Sme`): the emitted matcher resets its state with the last
  byte, so that a match ending there is not reported, while the README of the
  compiler (line 34) promises the match "for the current byte". `MatchesExact`
  therefore speaks of every byte but the last one of a frame.

Seen while modelling, without a run.

*Hardware.*
- `lb_controller.v:182` acknowledges a message to another core when the FIFO of
  *any* core has room. `RecvToCore` models the loss; with one sender per
  destination (`inter_core.c`) `NoOverflow` shows that it does not happen, and
  the theorem names the depth that any other pattern needs.
- `rpu_intercon.v:399` sends `ints_status` at the address where
  `fifo_occupancy` is read.
- `axis_dma.v:294`: with a descriptor channel that stalls, the late descriptor
  has the fields of the next packet. `recv_desc_ready` stays up here because
  `recvd_data_fifo` has a place for every slot (`NoOverflow`).
- `slot_keeper.v:106` lacks an `else`: a return in the cycle of an
  initialisation overwrites the count.
- `rpu.c:256` asks only ports in state FIRST to drop a descriptor.
- `rpu.c:236` waits 10 ms, looks once, waits again and compares the count it
  already has (242-245). If packets are still under way the core is reset with a
  warning (279); their slots come back to a keeper that was flushed, and after
  the reload they can be there twice. `SlotOwnedOnce` therefore excepts `late`.

*PCIe model* (`pcie.py` unless named).
- `mem_write_byte`, `config_write_byte` and `capability_write_byte` pass a list,
  which `set_be_data` (492) cannot add to a bytearray: a TypeError, and nothing
  is sent (`write_byte`). The word methods for I/O pass five arguments to
  methods that take three (1956, 3947), and are not modelled.
- A `Function` that is not bus master returns None from a read (1858, 1980);
  the methods for words then end in a TypeError.
- A tag counts as free while its queue is empty, even if a request waits with it
  (3416): with more requests than tags one is used twice. The programs stay
  below that. `Function.mem_read` with several requests can miss a completion.
- `alloc_region` keeps the last byte as limit: right for sizes that are powers
  of two above one. `register()` has the like for capabilities placed
  automatically.
- Link capabilities are shifted right instead of left; the completion boundary
  is read at bit 3 and written at bit 4; a bridge has no register 15; error
  bits of a secondary bus are never cleared; unimplemented MSI registers read
  as None.
- `pcie_us.py:2579` shows function 0's setting for function 1; an MSI is
  acknowledged although the function is not bus master; a reset in the middle
  of a packet breaks `pcie_if` streams, whose coroutines do not look at it.

*Others.*
- `dma_psdp_ram.py:156`: in reset the write process clears the ready signal but
  not the flag it goes by. A command that is on the bus at the first edge after
  the reset is stored and acknowledged at that edge, and again when the engine
  sees ready. A reset also cuts off the acknowledgement of a write just stored.
- `mqnic.py:876`, `921` and the engines (`tx_engine.v:757`, `rx_engine.v:770`)
  use the unmasked ring pointer as index, so that only the first turn of a ring
  is right; `start_xmit` does not look at `full()`; `close` ends in a TypeError
  (838).
- The AXI master handles WRAP bursts at full width only and FIXED bursts when
  aligned and not longer than a burst.
- `match_file` yields pairs where the compiler expects triples. Without
  `--max_length`, as the Makefile of the compiler calls it, the headers mapping
  ends in a TypeError (`sme_rulecompiler.py:1080`), after the Verilog is written
  (`headers_mapping`). With `max_states` = 1 an empty block meets the limit and
  `finalize` appends it for ever (628-634) when 1, 4, 5, 10 or some other number
  of patterns is left;
  `PartitionEnds` excepts that.

### Fairness

- Clocked modules: the clock does not stop. `leaves`: the source goes on and
  memory and sink are ready again and again. `status_channel`: there is not an
  interrupt or command in every cycle for ever (the host needs a PCIe write per
  command), and the firmware goes on. `hash_lb`: an output is not held up for
  ever, cores announce their slots and give back each one. `lb_rr_lu`: the
  clock only; that slots come back is the premise of `StallEnds` (a slot stays
  at hand that no inter-core transfer takes).
- `slot_loop_fair`: weak fairness of each handshake, since both sides stay ready
  once they are; strong fairness of the control switch per core, since it
  arbitrates in turn; the firmware polls and gives back what it holds. Nothing
  is assumed of host and arrivals.
- `slots`: packets and messages under way arrive, firmware, host, DMA engine
  and network go on. That a wait of the host was long enough for packets under
  way to settle (`Settled`) is a premise of `SlotOwnedOnce` only, by `~late`.
  Taken for granted is that a reload (a bitstream or the memories of a core)
  outlasts a control message under way: `Reload` and `Enable` of `HostReset`
  find the control channel empty.
- Python models: the simulator runs every coroutine that can go on, so a part
  that can go on does. The user grants credits again and again, an end of a bus
  is not paused for ever, a reset ends. `software`: each coroutine of the
  driver and each engine of the NIC goes on; set-up is strongly fair, as its
  register reads return after the posted writes before them.

Some of these are written `[]<>~Guard \/ []<><<Action>>_vars` instead of
`WF_vars(Action)`, which TLC evaluates faster. The two agree because each guard
implies that the action can take a step that changes the state; this was checked
as an invariant of the same instances. `lb_rr_lu` has
`[]<><<TRUE>>_vars`: in every state some input changes a register.

## 4. What is proved

TLAPS checks these for every value of the constants that satisfies the
assumptions below.

**The slot loop** (`SlotLoopProofs`). Load balancer, control network, data
network, interconnects and firmware together.

- `SlotsHaveOnePlace`: `Spec => []SlotInOnePlace`. `Cardinality(Places) = 1` is
  not inductive by itself and awkward for the provers, so `Inv`
  (`SlotRpuSteps`) says it place by place: a core is `Off`, `Starting` (its
  initialisation message is in exactly one queue and none of its slots is
  anywhere) or `Running` (every slot is `At` some place, and at no other). A
  place is a queue, an index in it and the role the slot has there (`own`: the
  sender's slot; `new`: the slot it is to be copied to; `done`: a release).
  Two more conjuncts say what the interconnect's own records mean: `ToSend`
  and `InProg` tie `slots_to_send` and `slots_in_prog` to where the slot is,
  and are what makes its error checks silent. The steps come in three shapes,
  proved once: the first item of a queue moves on (`Shift`), a slot leaves one
  place for another (`Leap`), or both at once, at the head of a queue whose rest
  moves up (`Hop`); each action is shown to be one of them.
- `SlotsMeetRoom`: `Spec => []NoOverflow`. A counting argument on top of `Inv`:
  the entries of a queue have distinct slots of one core, each in that place
  only; if one more slot waits to enter, the queue holds fewer entries than the
  core has slots. For the request FIFO of a core the entries are distinct
  (sender, slot) pairs out of `Requests`. `FewReserved` bounds the ports.
  `DepthAssumption` gives the depths that this needs and the code has: as many
  entries as slots, and for requests one entry per slot of all cores that send
  to the same core. Which cores send to which, and which paths they mix, is
  left open; cyclic sending is included (it may block, it cannot overflow).

**The round robin policy** (`LbRrLuProofs`).

- `GrantsAreExpected`: `Spec => []GrantIsExpected`. A grant is registered one
  cycle after the request, so `GrantInv` says that the port selected now will
  still expect it in the next cycle: no transition of the port FSM, no host
  command and no release takes a request back between the two. The round robin
  choice returns one of the requests (`RoundRobinGrants`, by a least element).
- `SlotsAreConserved`: `Spec => []SlotsConserved`. `SlotInv` joins
  `GrantIsExpected` (a popped slot finds its port), that only enabled cores
  receive, and that each slot has its place (keeper, a port's reserved or
  current descriptor, a packet, or discarded). In one cycle a slot can be popped for a
  port, another for a transfer, a third come back, while the host flushes; the
  proof follows one slot through each combination. That the slot popped is one
  the chosen core has rests on the comparator tree (`PointerNamesMaximum`).
- `GrantsFromEnabled`: `Spec => NoGrantFromDisabled`, an action property, from
  the same invariant: the tree points at a valid core, and valid cores receive.

**The hash policies** (`HashLbProofs`).

- `HashesStayAligned`: `Spec => []HashesAligned` under the hypothesis
  `RoomForHashes`: the hash FIFO has an entry for every packet that the data
  FIFO and its pipeline hold. `AlignInv` adds that a registered selection still
  speaks of the first hash of its port (`SelectedIsHead`): only the port
  selected before can lose its first hash, and a port is not selected twice in
  a row. The hypothesis is exactly what `hash_lb_one_word` violates.
- `SlotsStayConserved`: `Spec => []SlotsConserved`, without that hypothesis:
  slots are conserved even where hashes are lost. `SlotInv` adds that the
  descriptor FIFO of the selected port, seen to have room a cycle ago, still
  has it; otherwise the popped slot would vanish.

**The units** (`LeafProofs`, `StatusChannelProofs`).

- `TreeFindsMaximum`: the pointer of `max_finder_tree` names the first valid
  port with the largest value, for every number of ports and every width.
  `StageWinners` says of each node of each stage that it stands for the values
  below it (`Winner`), by induction over the stages. The induction schema of the
  library is out of reach, so the induction is on a set of naturals and its
  least element (`UpTo`); the recursive functions are first shown to exist.
- `DuplicatesCounted`: `Spec => [](TypeOK /\ CountTracksFree)` of `SlotKeeper`.
  The conjunction is inductive: each clock edge moves `occupied`, the duplicate
  count and `slot_count_r` alike, modulo the counter's width. Lemmas give the
  effect of each `always` block and the cardinalities of what enters and leaves.
- `SlotsHaveOneOwner`: `Spec => []NoDoubleGrant`. Not inductive: that a popped
  slot was free needs `valid_r <=> occupied # {}`, and the count needs that no
  recorded duplicate means `last_valid_count = 1`. `GrantInv` adds both.
- `FlagsAlwaysAgree`: `n_full` and `n_empty` of `BasicFifo` agree with counter
  and pointers. The invariant ties the counter to the distance of the pointers
  modulo the depth.
- `FifoImplementsQueue`: `FifoSpec => Fifo!Spec` under the mapping of memory and
  pointers to the sequence `Contents`, one case for each kind of clock edge.
- `TimersInSync`: `Spec => []TimerInSync` for every width of the timer.
  `TimerInv` says for each state of the status FSM how far each half of the
  core's timer is behind; the carry between the halves is arithmetic of
  quotient and remainder (`Halves`, `FromHalves`).

**Assumptions**, all evaluated by TLC in the runs: at least one port, core and
slot (`CountsAssumption`, `HashLbAssumption`); for `lb_rr_lu.v` at least two
clusters of a power of two of cores, at least two, and for the tree at least two ports
(`ClustersAssumption`, `TreeAssumption`: with one cluster nothing drives
`max_valid`, and a tree over one port has no last stage); a slot counter of more
than twice the number of slots (`SlotCountAssumption`, `CountModAssumption`); a
FIFO depth of at least two (`SizeAssumption`); the depths of the slot loop
(`DepthAssumption`) and room for at least one message in the control network
(`NetAssumption`); inputs of their types (`PinsAssumption`,
`FirmwareAssumption`, `StatusAssumption`).

**Only model-checked.**

- All liveness: `StallEnds`, `BlockingServes`, `SlotReturns`, `StatusAnswered`,
  `HostFinishes`, `DmaCompletes`, `PcieFinishes`, `BusFinishes`,
  `PacketsHandled`, `PartitionEnds`. Fairness and ENABLED are outside the
  prover.
- `DmaExact`, `HeadersExact`: they compare the bytes sent with a sum over the
  packets before, which is induction over data.
- `SlotOwnedOnce`, `LoadExact`: the programs of the host. Their inductive
  invariants would have to say for each of some twenty program counters what is
  under way; they have not been worked out.
- The Python models (`pcie`, `bus_models`, `software`): recursive definitions
  over lists, trees and automata, written with `RECURSIVE` operators or folds.

## 5. Not modelled, and why

- Broadcast messages: their one property, the same order at every core, lies in
  a vendored arbiter. DRAM access and `pcie_controller.v`: descriptors handed to
  vendored DMA engines, without slots.
- Hash, matcher and regex accelerators and their DMA: data paths without control
  of slots.
- `VexRiscv.v` is generated; the RTL of the `axi`, `axis`, `corundum` and `pcie`
  libraries is vendored and enters by what its users see of it.
- Statistics, readback, board wiring, pipeline registers, memories, and the gates
  in front of a region under reconfiguration, whose timing depends on it. The
  host's command pulse (`fpga_core.v:1596`) ignores the ready signal of the
  control channel; it is part of this wiring.
- The descriptor registers of `riscvcore.v`: `pkt_send` is one step here, two
  stores in `core.h:227` (its atomic variant is the one step).
- Headers as wide as a word and `ALWAYS_HDR`; payload, lengths and ports inside
  descriptors in `SlotLoop`; cyclic sending between cores, which blocks when
  all slots are under way; direct sends of a core that also gets a constant
  stream of messages, which can starve (`rpu_intercon.v:1185`).
- Python: generators of wrappers, rule tables and traffic (text from arguments,
  no state), `RPU_API.py` (drives pins in the order of a test), printing and
  comparison of frames, status outputs that mirror a register, link speed,
  messages, checksums, schedulers and MTU, `close` and `deactivate` of the
  driver.

## 6. Next

1. `SendPath`: send arbiter, DMA and sent FIFO of `rpu_intercon.v` 977-1254 by
   the cycle, as a refinement of `RpuIntercon`.
2. `CoreIo`: descriptor registers of `riscvcore.v` with `pkt_send` and the
   interrupt handler in between.
3. Proof that the slot keepers of `LbController` are implemented by
   `SlotKeeper`, and inductive invariants for `HostReset` and `FirmwareLoad`.

## 7. Use

    tlc -config MCSlots.cfg MCSlots
    tlapm HashLbProofs.tla
