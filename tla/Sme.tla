--------------------------------- MODULE Sme ---------------------------------
(***************************************************************************)
(* The rule compiler of the string matching engine (sme_rulecompiler.py):  *)
(* it takes a fast pattern from every rule, divides the patterns among     *)
(* blocks, compiles every block into Aho-Corasick machines that each see   *)
(* SPLIT bits of a byte, and emits them as Verilog.  The compiled machines *)
(* are then run on a stream of bytes, by the compiler's own query and by   *)
(* the emitted registers, whose state can be saved and loaded to switch    *)
(* between two flows.                                                      *)
(*                                                                         *)
(* A trie node is the sequence that leads to it; the number the code gives *)
(* it stands for nothing else.  A content string is a sequence of tokens:  *)
(* a character, a bar, two hex digits, a space between hex bytes.          *)
(***************************************************************************)
EXTENDS Integers, Sequences, FiniteSets, SequencesExt, FiniteSetsExt

CONSTANTS
  BITS,         \* bits of a byte
  Loads         \* rules with headers, options of the compiler, number of bytes to run

VARIABLES
  load,         \* [rules, split, max_length, max_matches, max_states, tlast, bytes]
  stage,        \* "main", "partition", "failed" or "run"
  matches,      \* the patterns, in their order
  headers,      \* the headers of every pattern
  offset, low, high, bssm,    \* BitSplitStateMachineGroup.finalize
  state, found, \* query: the states of every flow, the matches of the last byte
  state_reg, match_reg, saved, \* the registers; the saved state of the other flow
  flow, hist,   \* ghosts: the flow fed now, the bytes of every flow since its start
  last, prev,   \* ghosts: the history at the last byte, the one the output stands for, if any
  ended         \* ghost: the frame whose last byte was just taken

rulevars == <<load, matches, headers>>
groupvars == <<offset, low, high, bssm>>
runvars == <<state, found, state_reg, match_reg, saved, flow, hist, last, prev, ended>>
vars == <<rulevars, stage, groupvars, runvars>>

-----------------------------------------------------------------------------
(* Rules to patterns.                                                      *)
parse_content_string(s) ==
  LET bytes == SelectSeq(s, LAMBDA x : x.t \in {"chr", "hex"}) IN [i \in 1 .. Len(bytes) |-> bytes[i].b]

Bars(s, i) == Cardinality({j \in 1 .. i : s[j].t = "bar"})
Ends(s, j) == s[j].t \in {"chr", "space"} \/ (s[j].t = "bar" /\ Bars(s, j) % 2 = 0)
(* Mutant: the character that reaches the limit is cut off too.            *)
truncate_contentOpen(s, limit) ==
  LET At == {i \in 1 .. Len(s) : Cardinality({j \in 1 .. i : Ends(s, j)}) = limit}
  IN IF At = {} THEN s ELSE SubSeq(s, 1, Min(At) - 1)
truncate_content(s, limit) ==
  LET At == {i \in 1 .. Len(s) : Cardinality({j \in 1 .. i : Ends(s, j)}) = limit}
      i == Min(At)
  IN IF At = {} THEN s
     ELSE IF Bars(s, i) % 2 = 0 THEN SubSeq(s, 1, i)
     ELSE Append(SubSeq(s, 1, i - 1), [t |-> "bar", b |-> 0])

(* The flag fast_pattern decides; else the longest content that is not     *)
(* negated, unless a negated one without flags is as long.                 *)
ConsiderOption(st, opt) ==
  LET len == Len(parse_content_string(opt.value))
  IN CASE st.stop -> st
       [] ~st.stop /\ "fast_pattern" \in opt.flags -> [st EXCEPT !.pattern = opt.value, !.stop = TRUE]
       [] ~st.stop /\ opt.neg /\ opt.flags = {} -> [st EXCEPT !.len = Max({@, len})]
       [] ~st.stop /\ opt.neg /\ opt.flags # {} /\ "fast_pattern" \notin opt.flags -> st
       [] ~st.stop /\ ~opt.neg /\ "fast_pattern" \notin opt.flags ->
            IF len > st.len THEN [st EXCEPT !.pattern = opt.value, !.len = len] ELSE st
fast_pattern_extractor(options) ==
  FoldLeft(ConsiderOption, [pattern |-> << >>, len |-> 0, stop |-> FALSE], options).pattern

Cut(b) == IF load.max_length > 0 THEN SubSeq(b, 1, Min({load.max_length, Len(b)})) ELSE b
Pattern(rule) == Cut(parse_content_string(fast_pattern_extractor(rule.options)))
Shown(rule) ==
  LET p == fast_pattern_extractor(rule.options) IN IF load.max_length > 0 THEN truncate_content(p, load.max_length) ELSE p

Before(a, b) ==
  \/ IsStrictPrefix(a, b)
  \/ \E i \in 1 .. Min({Len(a), Len(b)}) : SubSeq(a, 1, i - 1) = SubSeq(b, 1, i - 1) /\ a[i] < b[i]
(* main: patterns without duplicates, sorted, with all their headers.      *)
main ==
  /\ stage = "main"
  /\ LET rules == SelectSeq(load.rules, LAMBDA r : Pattern(r) # << >>)
         set == {Pattern(rules[i]) : i \in DOMAIN rules}
     IN /\ matches' = SetToSortSeq(set, Before)
        /\ headers' = [b \in set |-> {rules[i].header : i \in {j \in DOMAIN rules : Pattern(rules[j]) = b}}]
        /\ high' = Cardinality(set)
  /\ stage' = "partition" /\ UNCHANGED <<load, offset, low, bssm, runvars>>

(* The end of main, after the Verilog is written: the headers of every     *)
(* pattern by its number.  Their layout fails with a TypeError when        *)
(* max_length is not given, and there is no mapping.                       *)
headers_mapping ==
  IF stage = "run" /\ load.max_length > 0 THEN [n \in DOMAIN matches |-> headers[matches[n]]] ELSE << >>

-----------------------------------------------------------------------------
(* AhoCorasickStateMachine: the trie of add_word, then the longest strict  *)
(* suffix links, the matches with those of the suffixes, and the next      *)
(* states of finalize.                                                     *)
Root == << >>
add_word(words) == {Root} \cup UNION {Prefixes(words[i]) : i \in DOMAIN words}
suffix_links(nodes) ==
  LET lss[s \in nodes] ==
        LET ch == s[Len(s)]
            down[t \in nodes] == IF Append(t, ch) \in nodes \/ t = Root THEN t ELSE down[lss[t]]
            t == down[lss[SubSeq(s, 1, Len(s) - 1)]]
        IN IF Len(s) <= 1 THEN Root ELSE IF Append(t, ch) \in nodes THEN Append(t, ch) ELSE Root
  IN [s \in nodes |-> lss[s]]
(* Mutant: the matches of suffixes are not collected.                      *)
suffix_matchesOwn(words, nodes, lss) == [s \in nodes |-> {i \in DOMAIN words : words[i] = s}]
suffix_matches(words, nodes, lss) ==
  LET match[s \in nodes] == {i \in DOMAIN words : words[i] = s} \cup (IF Len(s) <= 1 THEN {} ELSE match[lss[s]])
  IN [s \in nodes |-> match[s]]
next_index(nodes, lss) ==
  LET go[s \in nodes] ==
        [ch \in 0 .. 2 ^ load.split - 1 |-> IF Append(s, ch) \in nodes THEN Append(s, ch)
                                     ELSE IF s = Root THEN Root ELSE go[lss[s]][ch]]
  IN [s \in nodes |-> go[s]]
AhoCorasickStateMachine(words) ==
  LET nodes == add_word(words)
      lss == suffix_links(nodes)
  IN [nodes |-> nodes, lss |-> lss, match |-> suffix_matches(words, nodes, lss), next |-> next_index(nodes, lss)]

(* query_char: suffixes are followed until one has the character.          *)
query_char(sm, s, ch) ==
  LET down[t \in sm.nodes] == IF Append(t, ch) \in sm.nodes \/ t = Root THEN t ELSE down[sm.lss[t]]
      t == down[s]
  IN IF Append(t, ch) \in sm.nodes THEN [state |-> Append(t, ch), match |-> sm.match[Append(t, ch)]]
     ELSE [state |-> Root, match |-> {}]

(* BitSplitStateMachine: machine k sees bits k * split and up.             *)
Splits == 0 .. (BITS \div load.split) - 1
split_char(ch, k) == (ch \div 2 ^ (load.split * k)) % 2 ^ load.split
split_string(word, k) == [i \in 1 .. Len(word) |-> split_char(word[i], k)]
BitSplit_add_word(words, k) == [i \in DOMAIN words |-> split_string(words[i], k)]
BitSplitStateMachine(words) == [k \in Splits |-> AhoCorasickStateMachine(BitSplit_add_word(words, k))]
BitSplit_query_char(acsm, s, ch) ==
  LET q == [k \in Splits |-> query_char(acsm[k], s[k], split_char(ch, k))]
  IN [state |-> [k \in Splits |-> q[k].state], match |-> {i \in q[0].match : \A k \in Splits : i \in q[k].match}]

-----------------------------------------------------------------------------
(* BitSplitStateMachineGroup.finalize, an iteration of its loop: the words *)
(* offset + 1 .. offset + mid are tried.                                   *)
StateCount(acsm) == Max({Cardinality(acsm[k].nodes) : k \in Splits})
Try ==
  LET top == IF load.max_matches > 0 THEN Min({high, load.max_matches}) ELSE high
      mid == IF load.max_states > 0 THEN (top + low) \div 2 ELSE top
      acsm == BitSplitStateMachine(SubSeq(matches, offset + 1, offset + mid))
  IN [top |-> top, mid |-> mid, acsm |-> acsm,
      over |-> load.max_states > 0 /\ StateCount(acsm) > load.max_states,
      under |-> load.max_states > 0 /\ StateCount(acsm) < load.max_states]
(* An empty block leaves offset as it was: the iterations since the block  *)
(* before it are repeated for ever and append it again and again.          *)
Endless == \E n \in DOMAIN bssm : bssm[n].count = 0
(* Mutant: after a try with room left the search forgets its upper end.    *)
finalizeRestart ==
  /\ stage = "partition" /\ high > 0 /\ ~Endless
  /\ LET t == Try
     IN CASE t.over /\ t.mid <= 1 -> stage' = "failed" /\ UNCHANGED groupvars
          [] t.over /\ t.mid > 1 ->
               /\ high' = t.mid - 1 /\ low' = IF low <= t.mid - 1 THEN low ELSE t.mid - 2
               /\ UNCHANGED <<stage, offset, bssm>>
          [] t.under /\ t.mid < t.top -> low' = t.mid + 1 /\ high' = Len(matches) - offset /\ UNCHANGED <<stage, offset, bssm>>
          [] ~t.over /\ ~(t.under /\ t.mid < t.top) ->
               /\ bssm' = Append(bssm, [first |-> offset, count |-> t.mid, acsm |-> t.acsm])
               /\ offset' = offset + t.mid /\ low' = 0 /\ high' = Len(matches) - offset - t.mid /\ UNCHANGED stage
  /\ UNCHANGED <<rulevars, runvars>>

finalize ==
  /\ stage = "partition" /\ high > 0 /\ ~Endless
  /\ LET t == Try
     IN CASE t.over /\ t.mid <= 1 -> stage' = "failed" /\ UNCHANGED groupvars
          [] t.over /\ t.mid > 1 ->
               /\ high' = t.mid - 1 /\ low' = IF low <= t.mid - 1 THEN low ELSE t.mid - 2
               /\ UNCHANGED <<stage, offset, bssm>>
          [] t.under /\ t.mid < t.top -> low' = t.mid + 1 /\ high' = t.top /\ UNCHANGED <<stage, offset, bssm>>
          [] ~t.over /\ ~(t.under /\ t.mid < t.top) ->
               /\ bssm' = Append(bssm, [first |-> offset, count |-> t.mid, acsm |-> t.acsm])
               /\ offset' = offset + t.mid /\ low' = 0 /\ high' = Len(matches) - offset - t.mid /\ UNCHANGED stage
  /\ UNCHANGED <<rulevars, runvars>>

Flows == {1, 2}
Fresh == [n \in DOMAIN bssm |-> [k \in Splits |-> Root]]
finalized ==
  /\ stage = "partition" /\ high = 0 /\ stage' = "run"
  /\ state' = [f \in Flows |-> Fresh] /\ state_reg' = Fresh /\ saved' = Fresh
  /\ match_reg' = [n \in DOMAIN bssm |-> [k \in Splits |-> {}]]
  /\ UNCHANGED <<rulevars, groupvars, found, flow, hist, last, prev, ended>>

-----------------------------------------------------------------------------
(* The emitted registers: match_reg follows the state a cycle later; the   *)
(* last byte of a frame and a load override the next state.                *)
to_verilog(tvalid, tdata, tlast, load_state) ==
  /\ match_reg' = [n \in DOMAIN bssm |-> [k \in Splits |-> bssm[n].acsm[k].match[state_reg[n][k]]]]
  /\ state_reg' = [n \in DOMAIN bssm |-> [k \in Splits |->
       CASE load_state -> saved[n][k]
         [] ~load_state /\ tvalid /\ tlast -> Root
         [] ~load_state /\ tvalid /\ ~tlast -> bssm[n].acsm[k].next[state_reg[n][k]][split_char(tdata, k)]
         [] ~load_state /\ ~tvalid -> state_reg[n][k]]]
  /\ prev' = IF ended = << >> THEN {hist[flow]} ELSE {}
(* The outputs of the blocks side by side, as pattern numbers.             *)
to_verilog_module ==
  UNION {{bssm[n].first + i : i \in {j \in 1 .. bssm[n].count : \A k \in Splits : j \in match_reg[n][k]}} : n \in DOMAIN bssm}

(* A byte, to the registers and to query.                                  *)
Query(ch) ==
  LET q == [n \in DOMAIN bssm |-> BitSplit_query_char(bssm[n].acsm, state[flow][n], ch)]
  IN [state |-> [n \in DOMAIN bssm |-> q[n].state], match |-> UNION {{bssm[n].first + i : i \in q[n].match} : n \in DOMAIN bssm}]
Fed == Len(hist[1]) + Len(hist[2])
Byte(ch, end) ==
  /\ stage = "run" /\ Fed < load.bytes /\ (end => load.tlast)
  /\ LET q == Query(ch)
     IN state' = [state EXCEPT ![flow] = IF end THEN Fresh ELSE q.state] /\ found' = q.match
  /\ last' = Append(hist[flow], ch)
  /\ hist' = [hist EXCEPT ![flow] = IF end THEN << >> ELSE Append(@, ch)]
  /\ ended' = IF end THEN Append(hist[flow], ch) ELSE << >>
  /\ to_verilog(TRUE, ch, end, FALSE)
  /\ UNCHANGED <<rulevars, stage, groupvars, saved, flow>>
Pause ==
  /\ stage = "run"
  /\ to_verilog(FALSE, 0, FALSE, FALSE) /\ ended' = << >>
  /\ UNCHANGED <<rulevars, stage, groupvars, state, found, saved, flow, hist, last>>
(* state_out is saved while the state of the other flow is loaded.         *)
Switch ==
  /\ stage = "run" /\ Fed < load.bytes
  /\ to_verilog(FALSE, 0, FALSE, TRUE) /\ ended' = << >>
  /\ saved' = state_reg /\ flow' = 3 - flow
  /\ UNCHANGED <<rulevars, stage, groupvars, state, found, hist, last>>
Reset ==
  /\ stage = "run" /\ Fed < load.bytes
  /\ state_reg' = Fresh /\ match_reg' = [n \in DOMAIN bssm |-> [k \in Splits |-> {}]]
  /\ hist' = [hist EXCEPT ![flow] = << >>] /\ state' = [state EXCEPT ![flow] = Fresh] /\ prev' = {<< >>} /\ ended' = << >>
  /\ UNCHANGED <<rulevars, stage, groupvars, found, saved, flow, last>>

Init ==
  /\ load \in Loads /\ stage = "main" /\ matches = << >> /\ headers = << >>
  /\ offset = 0 /\ low = 0 /\ high = 0 /\ bssm = << >>
  /\ state = << >> /\ found = {} /\ state_reg = << >> /\ match_reg = << >> /\ saved = << >>
  /\ flow = 1 /\ hist = <<<< >>, << >>>> /\ last = << >> /\ prev = {<< >>} /\ ended = << >>
Failed == (stage = "failed" \/ Endless) /\ UNCHANGED vars
Partitioned == stage \in {"run", "failed"}
Compile == main \/ finalize \/ finalized
Next == Compile \/ Pause \/ Switch \/ Reset \/ Failed \/ \E ch \in 0 .. 2 ^ BITS - 1, end \in BOOLEAN : Byte(ch, end)
Spec == Init /\ [][Next]_vars /\ ([]<>(Partitioned \/ Endless) \/ []<><<Compile>>_vars)

-----------------------------------------------------------------------------
Length(r, i) == Len(parse_content_string(r.options[i].value))
Forced(r) == {i \in DOMAIN r.options : "fast_pattern" \in r.options[i].flags}
(* The contents that call for a match, unless a content as long that must  *)
(* be absent stands before them.                                           *)
Candidates(r) ==
  {i \in DOMAIN r.options :
     /\ ~r.options[i].neg /\ Length(r, i) > 0
     /\ ~ \E n \in 1 .. i - 1 : r.options[n].neg /\ r.options[n].flags = {} /\ Length(r, n) >= Length(r, i)}
Longest(r) == {i \in Candidates(r) : \A j \in Candidates(r) : Length(r, j) <= Length(r, i)}
(* The pattern of a rule is its first content flagged fast_pattern, or     *)
(* else the first of its longest candidates, and none only if there is no  *)
(* candidate; cut to max_length the shown pattern and the matched bytes    *)
(* are the same; every rule with a pattern is found in the sorted list,    *)
(* once, with its header, and the mapping that is written shows it there   *)
(* (fast_pattern_extractor, truncate_content, match_list_dict).            *)
RulesExact ==
  /\ \A i \in DOMAIN load.rules :
       LET r == load.rules[i]
           Deciding == IF Forced(r) # {} THEN Forced(r) ELSE Longest(r)
       IN /\ fast_pattern_extractor(r.options) = IF Deciding = {} THEN << >> ELSE r.options[Min(Deciding)].value
          /\ parse_content_string(Shown(r)) = Pattern(r)
          /\ stage # "main" /\ Pattern(r) # << >> =>
               \E n \in DOMAIN matches :
                 /\ matches[n] = Pattern(r) /\ r.header \in headers[Pattern(r)]
                 /\ stage = "run" /\ load.max_length > 0 => r.header \in headers_mapping[n]
  /\ \A m, n \in DOMAIN matches : m < n => Before(matches[m], matches[n])

(* The blocks hold the patterns in their order without gap or overlap,     *)
(* none is above a limit, none is empty unless max_states is 1, and the    *)
(* partition fails only when one pattern alone needs more states than      *)
(* allowed (the search over low, mid and high in finalize).                *)
PartitionComplete ==
  /\ \A n \in DOMAIN bssm :
       /\ load.max_states # 1 => bssm[n].count > 0
       /\ bssm[n].first = FoldLeft(LAMBDA a, b : a + b.count, 0, SubSeq(bssm, 1, n - 1))
       /\ load.max_matches > 0 => bssm[n].count <= load.max_matches
       /\ load.max_states > 0 => StateCount(bssm[n].acsm) <= load.max_states
  /\ stage = "run" => FoldLeft(LAMBDA a, b : a + b.count, 0, bssm) = Len(matches)
  /\ stage = "failed" => StateCount(BitSplitStateMachine(<<matches[offset + 1]>>)) > load.max_states

(* The definition of a match: the pattern ends where the text ends.        *)
Naive(text) == {i \in DOMAIN matches : IsSuffix(matches[i], text)}
(* query reports exactly the patterns that end at each byte, and so does   *)
(* the emitted engine a cycle after each byte but the last of a frame (see *)
(* LastByteMatched), for each of two flows whose states are saved and      *)
(* loaded in turn, also after pauses, resets and the start of a new frame  *)
(* (suffix links, intersection of the bit-split machines, next_index,      *)
(* state_in and state_out).                                                *)
MatchesExact == stage = "run" => found = Naive(last) /\ \A text \in prev : to_verilog_module = Naive(text)

(* The partition ends, with blocks for all patterns or with an error, or   *)
(* comes to an empty block (which only max_states = 1 brings about, see    *)
(* PartitionComplete) and then goes on for ever.                           *)
PartitionEnds == <>(Partitioned \/ (load.max_states = 1 /\ Endless))

(* README.md of the compiler: the output indicates "which rule is matched  *)
(* for the current byte"; so also for the last byte of a frame, unless a   *)
(* reset comes in the cycle after it.                                      *)
LastByteMatched == [][ended # << >> => Reset \/ to_verilog_module' = Naive(ended)]_vars
=============================================================================
