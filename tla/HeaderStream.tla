---------------------------- MODULE HeaderStream ----------------------------
(***************************************************************************)
(* Packets as header.v sees them: streams of words of W bytes, of which    *)
(* only the last may be shorter, with headers of H bytes put in front of   *)
(* them or taken off.  A byte is known by its packet and its place in it;  *)
(* the bytes of the header have the places 1 - H to 0.  Two packet numbers *)
(* are enough, since at most two packets are at work at a time.            *)
(***************************************************************************)
EXTENDS Integers, Sequences, SequencesExt

CONSTANTS W, H, MAX_LEN

ASSUME HeaderStreamAssumption ==
  W \in Nat /\ H \in 1 .. W - 1 /\ MAX_LEN \in Nat \ {0}

Ids     == {0, 1}
Packets == [id : Ids, len : 1 .. MAX_LEN, hdr : BOOLEAN, drop : BOOLEAN]

Header(id)   == [i \in 1 .. H |-> <<id, i - H>>]
Payload(pkt) == [i \in 1 .. pkt.len |-> <<pkt.id, i>>]
Whole(pkt)   == (IF pkt.hdr THEN Header(pkt.id) ELSE <<>>) \o Payload(pkt)

\* Word number n, from 0, of a stream of bytes, and whether it is the last.
Word(bytes, n)   == SubSeq(bytes, n * W + 1,
                           IF Len(bytes) < (n + 1) * W THEN Len(bytes) ELSE (n + 1) * W)
IsLast(bytes, n) == (n + 1) * W >= Len(bytes)

\* The first n bytes of a word, and the others.
First(word, n) == SubSeq(word, 1, IF Len(word) < n THEN Len(word) ELSE n)
After(word, n) == SubSeq(word, n + 1, Len(word))

(* What the receiver of a stream has of the packet that is coming in.      *)
NoOutput == [bytes |-> <<>>, ended |-> FALSE, dest |-> 0, same |-> TRUE]
Append1(out, bytes, last, dest) ==
  LET old == IF out.ended THEN NoOutput ELSE out
  IN [bytes |-> old.bytes \o bytes, ended |-> last, dest |-> dest,
      same  |-> old.same /\ (old.bytes = <<>> \/ old.dest = dest)]
=============================================================================
