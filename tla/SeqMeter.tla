------------------------------ MODULE SeqMeter ------------------------------
(***************************************************************************)
(* The sequence tracker of lib/ci_meas.c as operators on its struct: a     *)
(* 16-bit RDP sequence number is unwrapped against the highest position    *)
(* seen, a circular bitmap tells a duplicate from a packet that fills a    *)
(* hole, and loss is the span minus the distinct packets.                  *)
(***************************************************************************)
EXTENDS Integers, FiniteSets

CONSTANTS
  Half,        \* half the sequence space (2^15 in the build)
  Win,         \* CI_SEQ_WIN, positions in the bitmap (2048)
  MinSpan,     \* CI_LOSS_MIN_SPAN (64)
  DensityDiv   \* CI_LOSS_DENSITY_DIV (8)

ASSUME SeqAssumption ==
  /\ Half \in Nat \ {0}
  /\ Win \in 1 .. Half
  /\ MinSpan \in Nat
  /\ DensityDiv \in Nat

SeqMod == 2 * Half

\* The sequence number a packet at position p carries.
SeqOf(p) == p % SeqMod

-----------------------------------------------------------------------------
Bit(p) == p % Win

NewMeter ==
  [have |-> FALSE, first |-> 0, max |-> 0, n_seen |-> 0, n_distinct |-> 0,
   n_dup |-> 0, n_reorder |-> 0, n_gap |-> 0, epoch |-> 0, seen |-> {}]

\* Mutant: the distance from the head is read as unsigned.
SignedDiffUnsigned(seq, max) == (seq - max) % SeqMod

\* (int16_t)(seq - max): the distance from the head, in -Half .. Half-1.
SignedDiff(seq, max) ==
  LET d == (seq - max) % SeqMod IN IF d < Half THEN d ELSE d - SeqMod

\* The first feed fixes the baseline in epoch 0.
FirstFeed(t, seq) ==
  [t EXCEPT !.have = TRUE, !.first = seq, !.max = seq, !.n_seen = @ + 1,
            !.n_distinct = 1, !.epoch = 0, !.seen = {Bit(seq)}]

\* Mutant: the positions that are jumped over keep the bits of old ones.
ForwardStale(t, diff) ==
  [t EXCEPT !.max = @ + diff, !.n_seen = @ + 1, !.n_distinct = @ + 1,
            !.n_gap = @ + diff - 1, !.epoch = (t.max + diff) \div SeqMod,
            !.seen = @ \cup {Bit(t.max + diff)}]

\* A feed ahead of the head: the holes it exposes are cleared in the bitmap, at
\* most one whole turn of it.
Forward(t, diff) ==
  LET pos  == t.max + diff
      from == IF diff > Win THEN pos - Win ELSE t.max + 1
  IN  [t EXCEPT !.max = pos, !.n_seen = @ + 1, !.n_distinct = @ + 1,
                !.n_gap = @ + diff - 1, !.epoch = pos \div SeqMod,
                !.seen = (@ \ {Bit(p) : p \in from .. (pos - 1)}) \cup {Bit(pos)}]

\* Mutant: a packet that fills a hole is not counted as distinct.
BehindUncounted(t, pos) ==
  IF Bit(pos) \in t.seen
    THEN [t EXCEPT !.n_seen = @ + 1, !.n_dup = @ + 1]
    ELSE [t EXCEPT !.n_seen = @ + 1, !.n_reorder = @ + 1,
                   !.seen = @ \cup {Bit(pos)}]

\* A feed at or behind the head: a duplicate when its bit is set, otherwise a
\* reordered packet.
Behind(t, pos) ==
  IF Bit(pos) \in t.seen
    THEN [t EXCEPT !.n_seen = @ + 1, !.n_dup = @ + 1]
    ELSE [t EXCEPT !.n_seen = @ + 1, !.n_distinct = @ + 1, !.n_reorder = @ + 1,
                   !.seen = @ \cup {Bit(pos)}]

Feed(t, seq) ==
  IF ~t.have THEN FirstFeed(t, seq)
  ELSE IF SignedDiff(seq, t.max) > 0 THEN Forward(t, SignedDiff(seq, t.max))
  ELSE Behind(t, t.max + SignedDiff(seq, t.max))

-----------------------------------------------------------------------------
\* Mutant: the first packet is not part of the span.
SpanShort(t) == t.max - t.first

Span(t) == t.max - t.first + 1

Loss(t) ==
  IF t.have /\ Span(t) > t.n_distinct THEN Span(t) - t.n_distinct ELSE 0

Trustworthy(t) ==
  \/ ~t.have
  \/ Span(t) < MinSpan
  \/ t.n_distinct * DensityDiv >= Span(t)

=============================================================================
