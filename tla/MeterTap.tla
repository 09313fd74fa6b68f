------------------------------ MODULE MeterTap ------------------------------
(***************************************************************************)
(* The tracker of SeqMeter at a tap on a lossy link.  A connection numbers *)
(* its packets with positions that never wrap; the tap sees any of them,   *)
(* lost, repeated and reordered by at most Depth behind the highest one so *)
(* far, and feeds the tracker the 16-bit number.  The true positions are   *)
(* kept beside the tracker as the reference its verdict is judged by.      *)
(***************************************************************************)
EXTENDS SeqMeter

CONSTANTS
  Starts,    \* positions the first packet may have
  Depth,     \* how far behind the head a packet may arrive (RDP window)
  Jump,      \* longest step forward
  Others,    \* first numbers a second connection in the capture may have
  Horizon,   \* bound: highest position sent
  MaxFeeds   \* bound: packets fed

ASSUME TapAssumption ==
  /\ Starts \subseteq 0 .. (SeqMod - 1)
  /\ Depth \in 0 .. (Win - 1)
  /\ Jump \in 1 .. (Half - 1)
  /\ Others \subseteq Nat
  /\ Horizon \in Nat
  /\ MaxFeeds \in Nat

VARIABLES
  t,         \* the tracker
  arrived,   \* positions of the connection that were seen
  base,      \* position of the first packet seen, -1 before it
  high,      \* highest position seen, -1 before the first
  other      \* next number of the second connection, -1 if there is none

mvars == <<t, arrived, base, high, other>>

MInit ==
  /\ t = NewMeter
  /\ arrived = {}
  /\ base = -1
  /\ high = -1
  /\ other \in Others \cup {-1}

Begin(p) ==
  /\ arrived = {}
  /\ p \in Starts
  /\ t' = Feed(t, SeqOf(p))
  /\ arrived' = {p}
  /\ base' = p
  /\ high' = p
  /\ UNCHANGED other

\* A packet of the connection passes the tap: new, late (also older than the
\* first one seen) or repeated.
Observe(p) ==
  /\ arrived # {}
  /\ t.n_seen < MaxFeeds
  /\ p \in (high - Depth) .. (high + Jump)
  /\ p <= Horizon
  /\ t' = Feed(t, SeqOf(p))
  /\ arrived' = arrived \cup {p}
  /\ high' = IF p > high THEN p ELSE high
  /\ UNCHANGED <<base, other>>

\* A packet of the second connection, sent in order and without loss.
ObserveOther ==
  /\ other # -1
  /\ t.n_seen < MaxFeeds
  /\ t' = Feed(t, SeqOf(other))
  /\ other' = other + 1
  /\ UNCHANGED <<arrived, base, high>>

MNext ==
  \/ \E p \in Starts : Begin(p)
  \/ \E p \in (high - Depth) .. (high + Jump) : Observe(p)
  \/ ObserveOther

MSpec == MInit /\ [][MNext]_mvars

-----------------------------------------------------------------------------
(* Properties.                                                             *)

\* The tracker's counters account for every feed, of one connection or two: each
\* is distinct or a duplicate, and what the gaps opened and the late packets closed
\* again is what the span has left over.
Accounting ==
  /\ t.n_seen = t.n_distinct + t.n_dup
  /\ t.have => Span(t) - t.n_distinct = t.n_gap - t.n_reorder

Missing == (base .. high) \ arrived
EarlyOnes == {p \in arrived : p < base}

\* For one connection, ci_seq_tracker_loss is the number of packets between the
\* first and the highest one seen that never arrived, through any number of wraps
\* of the 16-bit number, duplicates and late packets; each packet older than the
\* first one hides one loss, because it is distinct and not in the span.
LossExact ==
  other = -1 =>
    Loss(t) = IF arrived # {} /\ Cardinality(Missing) > Cardinality(EarlyOnes)
                THEN Cardinality(Missing) - Cardinality(EarlyOnes) ELSE 0

\* For one connection, a feed is counted as a duplicate exactly when that very
\* packet was seen before: no packet is mistaken for the one a whole bitmap turn or
\* a whole sequence space earlier.
DuplicatesExact ==
  [][other = -1 => (t'.n_dup # t.n_dup <=> arrived' = arrived)]_mvars

=============================================================================
