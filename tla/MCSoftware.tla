------------------------------ MODULE MCSoftware ------------------------------
(***************************************************************************)
(* Two programs around the hardware, for TLC: the driver of the NIC with   *)
(* the queues it shares with it (Mqnic) and the rule compiler of the       *)
(* string matching engine with what it emits (Sme).  part says which one   *)
(* runs while the other rests.                                             *)
(***************************************************************************)
EXTENDS Mqnic

CONSTANTS BITS, Loads    \* of Sme

VARIABLES
  part,
  load, matches, headers, stage, offset, low, high, bssm, state, found,
  state_reg, match_reg, saved, flow, hist, last, prev, ended

Compiler == INSTANCE Sme

smeVars ==
  <<load, matches, headers, stage, offset, low, high, bssm, state, found,
    state_reg, match_reg, saved, flow, hist, last, prev, ended>>
softVars == <<part, vars, smeVars>>

-----------------------------------------------------------------------------
(* Rule lists with patterns that are suffixes, prefixes and repetitions of *)
(* each other, contents with hex sections, negations and flags.            *)
Chr(b) == [t |-> "chr", b |-> b]
Hex(b) == [t |-> "hex", b |-> b]
Bar == [t |-> "bar", b |-> 0]
Space == [t |-> "space", b |-> 0]
Plain(bytes) == [i \in 1 .. Len(bytes) |-> Chr(bytes[i])]
Content(value) == [value |-> value, neg |-> FALSE, flags |-> {}]
Without(value) == [value |-> value, neg |-> TRUE, flags |-> {}]
Rule(header, options) == [header |-> header, options |-> options]
Rules(words) == [i \in 1 .. Len(words) |-> Rule(i, <<Content(Plain(words[i]))>>)]

Nested == Rules(<<<<1, 2, 1>>, <<2, 1>>, <<1>>, <<2, 1, 3>>, <<2, 1>>>>)
Repeats == Rules(<<<<0, 0>>, <<0, 0, 0>>, <<0, 3, 0>>, <<3, 3>>>>)
Many == Rules(<<<<0>>, <<1, 1>>, <<1, 2, 3>>, <<2, 0, 2>>, <<2, 3>>, <<3, 1, 0>>, <<3, 3, 3>>>>)
Mixed == <<
  Rule("a", <<Content(<<Chr(1), Bar, Hex(2), Space, Hex(3), Bar, Chr(0)>>)>>),
  Rule("b", <<Content(Plain(<<1>>)), Content(<<Bar, Hex(1), Space, Hex(2), Bar>>), Without(Plain(<<3, 3, 3>>)),
             Content(Plain(<<0, 0, 0>>))>>),
  Rule("c", <<Content(Plain(<<2, 2, 2>>)), [Content(Plain(<<1, 2>>)) EXCEPT !.flags = {"fast_pattern"}]>>),
  Rule("d", <<[Without(Plain(<<3, 1>>)) EXCEPT !.flags = {"depth"}], Content(<<Chr(3), Bar, Hex(1), Bar>>)>>),
  Rule("e", <<Without(Plain(<<1>>))>>)>>

Load(rules, split, len, max_matches, max_states, tlast, bytes) ==
  [rules |-> rules, split |-> split, max_length |-> len, max_matches |-> max_matches,
   max_states |-> max_states, tlast |-> tlast, bytes |-> bytes]
McLoads ==
  {Load(Nested, sp, 0, mm, 0, FALSE, 4) : sp \in {1, 2}, mm \in {0, 2}}
  \cup {Load(Repeats, 1, 0, 0, 6, FALSE, 4), Load(Repeats, 1, 2, 0, 0, TRUE, 3)}
  \cup {Load(Many, sp, 0, mm, ms, FALSE, 1) : sp \in {1, 2}, mm \in {0, 1, 3}, ms \in 1 .. 10}
  \cup {Load(SubSeq(Many, 1, n), 1, 0, 0, 1, FALSE, 1) : n \in 1 .. 6}
  \cup {Load(Mixed, 2, len, 0, 0, FALSE, 2) : len \in 0 .. 4}

-----------------------------------------------------------------------------
(* A part at rest has nothing in its variables.                            *)
NicIdle ==
  /\ phase = << >> /\ up = << >> /\ pc = << >> /\ pending = << >>
  /\ eq = << >> /\ txcq = << >> /\ rxcq = << >> /\ tx = << >> /\ rx = << >>
  /\ free = << >> /\ allocated = << >> /\ bufs = << >> /\ desc = << >>
  /\ posted = << >> /\ nic = << >> /\ msi = << >> /\ rxq = << >>
  /\ sync = << >> /\ receiver = << >> /\ sent = << >> /\ wire = << >>
  /\ arrived = << >> /\ received = << >> /\ lost = << >> /\ failed = << >>
SmeIdle ==
  /\ load = << >> /\ matches = << >> /\ headers = << >> /\ stage = << >>
  /\ offset = << >> /\ low = << >> /\ high = << >> /\ bssm = << >>
  /\ state = << >> /\ found = << >> /\ state_reg = << >> /\ match_reg = << >>
  /\ saved = << >> /\ flow = << >> /\ hist = << >> /\ last = << >>
  /\ prev = << >> /\ ended = << >>

SoftInit ==
  \/ part = "nic" /\ Init /\ SmeIdle
  \/ part = "sme" /\ NicIdle /\ Compiler!Init

SoftNext ==
  /\ UNCHANGED part
  /\ \/ part = "nic" /\ Next /\ UNCHANGED smeVars
     \/ part = "sme" /\ Compiler!Next /\ UNCHANGED vars

(* The fairness of the two modules, for the part that runs.                *)
SoftFairness ==
  /\ <>[]~(part = "nic" /\ OpenReady) \/ []<><<Driver_init_dev \/ Interface_init \/ open>>_softVars
  /\ \/ []<>~((part = "nic" /\ SendReady) \/ (part = "sme" /\ ~Compiler!Partitioned /\ ~Compiler!Endless))
     \/ []<><<(part = "nic" /\ start_xmit) \/ (part = "sme" /\ Compiler!Compile)>>_softVars
  /\ []<>~(part = "nic" /\ ReceiveReady) \/ []<><<recv>>_softVars
  /\ []<>~(part = "nic" /\ HandlerReady) \/ []<><<Handler>>_softVars
  /\ []<>~(part = "nic" /\ posted # << >>) \/ []<><<queue_manager_write>>_softVars
  /\ []<>~(part = "nic" /\ Available("tx")) \/ []<><<tx_fetch>>_softVars
  /\ []<>~(part = "nic" /\ nic.fly.tx # << >>) \/ []<><<tx_complete>>_softVars
  /\ []<>~(part = "nic" /\ nic.fly.rx # << >>) \/ []<><<rx_complete>>_softVars
  /\ []<>~(part = "nic" /\ EventReady) \/ []<><<event_mux>>_softVars
SoftSpec == SoftInit /\ [][SoftNext]_softVars /\ SoftFairness

-----------------------------------------------------------------------------
(* Packets are sent and returned by recv once, in order and unchanged      *)
(* (start_xmit, process_rx_cq and the rings between driver and NIC).       *)
NicExact == part = "nic" => NicPacketsExact

(* Every packet buffer has one owner, and no queue overflows (alloc_pkt,   *)
(* free_pkt, write_tail_ptr).                                              *)
OneOwner == part = "nic" => BuffersOwned

(* No interrupt is lost for good: all packets are handled in the end.      *)
PacketsHandled == []<>(part = "nic" => Handled)

(* Every rule is found under the pattern its contents call for             *)
(* (fast_pattern_extractor, truncate_content and main of the compiler).    *)
RulesExact == part = "sme" => Compiler!RulesExact

(* The blocks partition the patterns within their limits, and the machines *)
(* compiled and emitted for them report exactly the patterns that end at   *)
(* each byte, the emitted ones with the exception of a frame's last byte   *)
(* (finalize of the group, query, to_verilog).                             *)
MatchesExact == part = "sme" => Compiler!PartitionComplete /\ Compiler!MatchesExact

(* The search for block sizes ends for all limits but max_states = 1,      *)
(* where it can come to an empty block (finalize of the group).            *)
PartitionEnds == <>(part = "sme" => Compiler!Partitioned \/ (load.max_states = 1 /\ Compiler!Endless))
=============================================================================
