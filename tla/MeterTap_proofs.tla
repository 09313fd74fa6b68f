-------------------------- MODULE MeterTap_proofs ---------------------------
(***************************************************************************)
(* The loss number and the duplicate count of lib/ci_meas.c are exact, for *)
(* every width of the sequence number and every size of the bitmap, as     *)
(* long as packets arrive less than a bitmap behind the head and less than *)
(* half the sequence space ahead of it; and the RTT ring of the monitor's  *)
(* drainer pairs an acknowledgement with the packet it acknowledges.       *)
(***************************************************************************)
EXTENDS CaptureTap, SeqMeter_proofs, FiniteSetTheorems

-----------------------------------------------------------------------------
(* The inductive invariant.                                                *)

\* The tracker's positions are the true ones, and its bitmap says which of the last
\* ones have arrived.
MInv ==
  /\ Record(t) /\ t.n_dup \in Nat
  /\ other = -1
  /\ base \in Int /\ high \in Int
  /\ t.have <=> arrived # {}
  /\ t.have => Exact(t, arrived, base, high, 0)

\* A capture of one connection stays one; of two, two.
OtherType == other \in Nat \cup {-1}
AloneInv == OtherType /\ (other = -1 => MInv)

LEMMA MInitInv ==
  ASSUME other = -1, MInit
  PROVE  MInv
<1>1. Record(t)
  BY DEF MInit, NewMeter, Record, Fields
<1> QED BY <1>1 DEF MInit, MInv, NewMeter

LEMMA BeginInv ==
  ASSUME MInv, NEW p \in Starts, Begin(p)
  PROVE  MInv' /\ t'.n_dup = t.n_dup
<1>1. p \in 0 .. (SeqMod - 1) /\ p \in Int /\ 0 \in Int
  BY TapAssumption, SeqAssumption DEF SeqMod
<1>2. SeqOf(p) = p - 0
  BY <1>1, SeqSmall
<1>3. t' = Feed(t, SeqOf(p)) /\ arrived' = {p} /\ base' = p /\ high' = p /\ other' = other
  BY DEF Begin
<1>4. Record(t) /\ ~t.have /\ t.n_dup \in Nat
  BY DEF Begin, MInv
<1>5. Exact(Feed(t, SeqOf(p)), {p}, p, p, 0) /\ Feed(t, SeqOf(p)).n_dup = t.n_dup
  BY <1>1, <1>2, <1>4, FeedFirst
<1>6. Exact(t', {p}, p, p, 0) /\ t'.n_dup = t.n_dup
  BY <1>3, <1>5
<1>7. Exact(t', arrived', base', high', 0)
  BY <1>3, <1>6
<1>8. Record(t') /\ t'.n_dup \in Nat /\ t'.have /\ arrived' # {}
  BY <1>3, <1>6, ExactFacts
<1> QED BY <1>1, <1>3, <1>6, <1>7, <1>8 DEF MInv

LEMMA ObserveInv ==
  ASSUME MInv, NEW p, Observe(p)
  PROVE  MInv' /\ (t'.n_dup # t.n_dup <=> arrived' = arrived)
<1>0. /\ p \in Int /\ high \in Int /\ p - high < Half /\ high - p < Win /\ t.have
  BY SeqAssumption, TapAssumption DEF Observe, MInv
<1>1. Exact(t, arrived, base, high, 0)
  BY <1>0 DEF MInv
<1>2. /\ t' = Feed(t, SeqOf(p)) /\ arrived' = arrived \cup {p}
      /\ high' = (IF p > high THEN p ELSE high) /\ base' = base /\ other' = other
  BY DEF Observe
<1>3. Turns(0)
  <2>1. 0 = SeqMod * 0
    BY SeqAssumption DEF SeqMod
  <2> QED BY <2>1 DEF Turns
<1>4. /\ Exact(Feed(t, SeqOf(p)), arrived', base, high', 0)
      /\ Feed(t, SeqOf(p)).n_dup # t.n_dup <=> p \in arrived
  BY <1>0, <1>1, <1>2, <1>3, FeedExact
<1>5. Exact(t', arrived', base', high', 0) /\ (t'.n_dup # t.n_dup <=> p \in arrived)
  BY <1>2, <1>4
<1>6. /\ Record(t') /\ t'.n_dup \in Nat /\ t'.have /\ arrived' # {}
      /\ base' \in Int /\ high' \in Int
  BY <1>2, <1>5, ExactFacts
<1>7. MInv'
  BY <1>2, <1>5, <1>6 DEF MInv
<1> QED BY <1>2, <1>5, <1>7

LEMMA StepInv ==
  ASSUME MInv, [MNext]_mvars
  PROVE  MInv'
<1>1. ASSUME NEW p \in Starts, Begin(p) PROVE MInv'
  BY <1>1, BeginInv
<1>2. ASSUME NEW p \in (high - Depth) .. (high + Jump), Observe(p) PROVE MInv'
  BY <1>2, ObserveInv
<1>3. CASE ObserveOther
  BY <1>3 DEF ObserveOther, MInv
<1>4. CASE UNCHANGED mvars
  BY <1>4 DEF mvars, MInv
<1> QED BY <1>1, <1>2, <1>3, <1>4 DEF MNext

\* Subtracting a part of an interval from it leaves the rest.
LEMMA RestOfInterval ==
  ASSUME NEW a \in Int, NEW b \in Int, NEW S, S \subseteq a .. b, a <= b
  PROVE  Cardinality((a .. b) \ S) = (b - a + 1) - Cardinality(S) /\ Cardinality(S) \in Nat
         /\ Cardinality((a .. b) \ S) \in Nat
<1>1. IsFiniteSet(a .. b) /\ Cardinality(a .. b) = b - a + 1
  BY FS_Interval
<1>2. IsFiniteSet(S) /\ Cardinality(S) \in Nat
  BY <1>1, FS_Subset, FS_CardinalityType
<1>3. Cardinality((a .. b) \ S) = Cardinality(a .. b) - Cardinality((a .. b) \cap S)
      /\ IsFiniteSet((a .. b) \ S)
  BY <1>1, FS_Difference
<1>4. (a .. b) \cap S = S
  OBVIOUS
<1>5. Cardinality((a .. b) \ S) \in Nat
  BY <1>3, FS_CardinalityType
<1> QED BY <1>1, <1>2, <1>3, <1>4, <1>5

LEMMA InvGivesLoss ==
  ASSUME MInv
  PROVE  LossExact
<1>1. CASE ~t.have
  BY <1>1 DEF MInv, LossExact, Loss
<1>2. CASE t.have
  <2> DEFINE late == arrived \ EarlyOnes
  <2>0. Exact(t, arrived, base, high, 0)
    BY <1>2 DEF MInv
  <2>1. /\ base \in Int /\ high \in Int /\ arrived # {}
        /\ IsFiniteSet(arrived) /\ arrived \subseteq Int
        /\ t.first = base /\ t.max = high /\ t.n_distinct = Cardinality(arrived)
    BY <2>0 DEF Exact
  <2>a. \A q \in arrived : q \in Int /\ q <= high
    BY <2>0, ExactFacts
  <2>b. base <= high
    BY <2>0, <2>a DEF Exact
  <2>c. late \subseteq base .. high
    <3> SUFFICES ASSUME NEW q \in late PROVE q \in base .. high
      OBVIOUS
    <3>1. q \in arrived /\ q \notin EarlyOnes
      OBVIOUS
    <3>2. ~(q < base)
      BY <3>1 DEF EarlyOnes
    <3>3. q \in Int /\ q <= high
      BY <2>a, <3>1
    <3> QED BY <2>1, <3>2, <3>3
  <2>d. EarlyOnes \subseteq arrived
    BY DEF EarlyOnes
  <2>e. \A q \in base .. high : q \in late <=> q \in arrived
    BY <2>1 DEF EarlyOnes
  <2>f. Missing = (base .. high) \ late
    <3> HIDE DEF late
    <3> QED BY <2>e DEF Missing
  <2>2. /\ late \subseteq base .. high
        /\ EarlyOnes \subseteq arrived
        /\ Missing = (base .. high) \ late
        /\ base <= high
    BY <2>b, <2>c, <2>d, <2>f
  <2>3. /\ Cardinality(Missing) = (high - base + 1) - Cardinality(late)
        /\ Cardinality(late) \in Nat
        /\ Cardinality(Missing) \in Nat
    BY <2>1, <2>2, RestOfInterval, ZenonT(60)
  <2>4. /\ Cardinality(late) = Cardinality(arrived) - Cardinality(EarlyOnes)
        /\ Cardinality(EarlyOnes) \in Nat
        /\ Cardinality(arrived) \in Nat
    <3>1. Cardinality(late) = Cardinality(arrived) - Cardinality(arrived \cap EarlyOnes)
      BY <2>1, FS_Difference
    <3>2. arrived \cap EarlyOnes = EarlyOnes
      BY <2>2
    <3>3. IsFiniteSet(EarlyOnes)
      BY <2>1, <2>2, FS_Subset
    <3> QED BY <2>1, <3>1, <3>2, <3>3, FS_CardinalityType
  <2>5. Span(t) = high - base + 1 /\ t.n_distinct = Cardinality(arrived)
    BY <2>1 DEF Span
  <2> HIDE DEF late
  <2>6. Span(t) - t.n_distinct = Cardinality(Missing) - Cardinality(EarlyOnes)
        /\ Span(t) \in Int /\ t.n_distinct \in Int
    BY <2>1, <2>3, <2>4, <2>5
  <2>7. Span(t) > t.n_distinct <=> Cardinality(Missing) > Cardinality(EarlyOnes)
    BY <2>3, <2>4, <2>6
  <2>8. Loss(t) = IF Cardinality(Missing) > Cardinality(EarlyOnes)
                    THEN Cardinality(Missing) - Cardinality(EarlyOnes) ELSE 0
    BY <1>2, <2>6, <2>7 DEF Loss
  <2> QED BY <2>1, <2>8 DEF LossExact
<1> QED BY <1>1, <1>2

LEMMA AloneInit ==
  ASSUME MInit
  PROVE  AloneInv
BY MInitInv, TapAssumption DEF MInit, AloneInv, OtherType

LEMMA AloneStep ==
  ASSUME AloneInv, [MNext]_mvars
  PROVE  AloneInv'
<1>1. OtherType'
  BY DEF AloneInv, OtherType, MNext, Begin, Observe, ObserveOther, mvars
<1>2. other' = -1 => other = -1
  BY DEF AloneInv, OtherType, MNext, Begin, Observe, ObserveOther, mvars
<1>3. other = -1 => MInv'
  BY StepInv DEF AloneInv
<1> QED BY <1>1, <1>2, <1>3 DEF AloneInv

\* For every sequence width, bitmap size, reordering below the bitmap size and
\* jump below half the sequence space: the loss ci_seq_tracker_loss reports for
\* one connection is the number of packets lost since its first packet, less the
\* older ones that came after it.
THEOREM LossIsExact == MSpec => []LossExact
<1>1. MInit => AloneInv
  BY AloneInit
<1>2. AloneInv /\ [MNext]_mvars => AloneInv'
  BY AloneStep
<1>3. AloneInv => LossExact
  BY InvGivesLoss DEF AloneInv, LossExact
<1> QED BY <1>1, <1>2, <1>3, PTL DEF MSpec

\* For the same parameters a feed is counted as a duplicate exactly when that
\* packet had been seen.
THEOREM DuplicatesAreExact == MSpec => DuplicatesExact
<1> DEFINE Step == other = -1 => (t'.n_dup # t.n_dup <=> arrived' = arrived)
<1>1. MInit => AloneInv
  BY AloneInit
<1>2. AloneInv /\ [MNext]_mvars => AloneInv'
  BY AloneStep
<1>3. AloneInv /\ [MNext]_mvars => [Step]_mvars
  <2> SUFFICES ASSUME MInv, MNext, other = -1
               PROVE  t'.n_dup # t.n_dup <=> arrived' = arrived
    BY DEF AloneInv
  <2>1. ASSUME NEW p \in Starts, Begin(p) PROVE t'.n_dup # t.n_dup <=> arrived' = arrived
    <3>1. arrived' # arrived
      BY <2>1 DEF Begin
    <3> QED BY <2>1, <3>1, BeginInv
  <2>2. ASSUME NEW p \in (high - Depth) .. (high + Jump), Observe(p)
        PROVE  t'.n_dup # t.n_dup <=> arrived' = arrived
    BY <2>2, ObserveInv
  <2>3. CASE ObserveOther
    BY <2>3 DEF ObserveOther
  <2> QED BY <2>1, <2>2, <2>3 DEF MNext
<1> QED BY <1>1, <1>2, <1>3, PTL DEF MSpec, DuplicatesExact

-----------------------------------------------------------------------------
(* The counters.                                                           *)

\* What makes the sequence of feeds well typed, for one connection or two.
TapType ==
  /\ Balanced(t)
  /\ high \in Int
  /\ other \in Int

LEMMA TapTypeStep == TapType /\ [MNext]_mvars => TapType'
<1> SUFFICES ASSUME TapType, [MNext]_mvars
             PROVE  TapType'
  OBVIOUS
<1>1. ASSUME NEW p \in Starts, Begin(p) PROVE TapType'
  <2>1. p \in Int
    BY TapAssumption
  <2> QED BY <1>1, <2>1, SeqOfType, FeedBalanced DEF TapType, Begin
<1>2. ASSUME NEW p \in (high - Depth) .. (high + Jump), Observe(p) PROVE TapType'
  <2>1. p \in Int
    BY TapAssumption DEF TapType
  <2> QED BY <1>2, <2>1, SeqOfType, FeedBalanced DEF TapType, Observe
<1>3. CASE ObserveOther
  BY <1>3, SeqOfType, FeedBalanced DEF TapType, ObserveOther
<1>4. CASE UNCHANGED mvars
  BY <1>4 DEF TapType, mvars
<1> QED BY <1>1, <1>2, <1>3, <1>4 DEF MNext

\* The tracker's counters account for every feed, whatever two connections mix
\* into one capture: ci_seq_tracker_feed never counts a frame twice or not at all.
THEOREM AccountingHolds == MSpec => []Accounting
<1>1. MInit => TapType
  BY NewBalanced, TapAssumption DEF MInit, TapType
<1>2. TapType /\ [MNext]_mvars => TapType'
  BY TapTypeStep
<1>3. TapType => Accounting
  BY DEF TapType, Balanced, Accounting
<1> QED BY <1>1, <1>2, <1>3, PTL DEF MSpec

-----------------------------------------------------------------------------
(* The drainer, which also pairs acknowledgements with data.               *)

\* Pairing only watches: to the tracker a captured frame is a packet at the tap.
LEMMA CaptureIsTap == CSpec => MSpec
<1>1. CInit => MInit
  BY DEF CInit
<1>2. [CNext]_cvars => [MNext]_mvars
  BY DEF CNext, FwdFrame, RevFrame, MNext, Begin, Observe, cvars, mvars
<1> QED BY <1>1, <1>2, PTL DEF CSpec, MSpec

\* So the loss number, the duplicate count and the balance of the counters are as
\* exact at the monitor's drainer as at the bare tap.
THEOREM CaptureMeters == CSpec => []LossExact /\ DuplicatesExact /\ []Accounting
BY CaptureIsTap, LossIsExact, DuplicatesAreExact, AccountingHolds, PTL

-----------------------------------------------------------------------------
(* The RTT ring.                                                           *)

Entry == [frame : [dir : {"fwd", "rev"}, pos : Int], t : Int, paired : BOOLEAN]
Slot == [seq : Int, t_ms : Int, valid : BOOLEAN]
SlotOf(e) == [seq |-> SeqOf(e.frame.pos), t_ms |-> e.t, valid |-> ~e.paired]

\* The ring is the tail of the list: a slot holds the one of the last Ring data
\* frames whose turn it is, and a slot never written holds nothing.
Mirrors(p, s) ==
  /\ p = [slot |-> p.slot, head |-> p.head]
  /\ p.slot \in [0 .. (Ring - 1) -> Slot]
  /\ s \in Seq(Entry)
  /\ p.head = Len(s)
  /\ \A i \in 1 .. Len(s) : i > Len(s) - Ring => p.slot[(i - 1) % Ring] = SlotOf(s[i])
  /\ \A k \in 0 .. (Ring - 1) : k >= Len(s) => ~p.slot[k].valid

\* The entries are in the order of their times, all in the past.
Timed(s, now) ==
  \A i \in 1 .. Len(s) : /\ s[i].t < now
                         /\ \A j \in 1 .. Len(s) : i < j => s[i].t < s[j].t

LEMMA RingResidue ==
  ASSUME NEW i \in Int
  PROVE  i % Ring \in 0 .. (Ring - 1)
BY RingAssumption, IntMod

LEMMA RingResidueSmall ==
  ASSUME NEW i \in 0 .. (Ring - 1)
  PROVE  i % Ring = i
<1>1. i = Ring * 0 + i /\ i \in Int /\ Ring \in Nat \ {0}
  BY RingAssumption
<1> QED BY <1>1, ModUnique

\* Recording a data frame overwrites the oldest entry and no other.
LEMMA RingOnData ==
  ASSUME NEW p, NEW s, Mirrors(p, s), NEW e \in Entry, ~e.paired, e.t = Now
  PROVE  Mirrors(OnData(p, SeqOf(e.frame.pos)), Append(s, e))
<1> DEFINE n == Len(s)
           r == OnData(p, SeqOf(e.frame.pos))
           u == Append(s, e)
           h == n % Ring
<1>1. /\ n \in Nat /\ s \in Seq(Entry) /\ p.head = n /\ Ring \in Nat \ {0}
      /\ p.slot \in [0 .. (Ring - 1) -> Slot]
  BY RingAssumption DEF Mirrors
<1>2. u \in Seq(Entry) /\ Len(u) = n + 1 /\ u[n + 1] = e /\ \A i \in 1 .. n : u[i] = s[i]
  BY <1>1
<1>3. h \in 0 .. (Ring - 1)
  BY <1>1, RingResidue
<1>4. SlotOf(e) \in Slot
  <2>1. SeqOf(e.frame.pos) \in Int
    BY SeqOfType DEF Entry
  <2> QED BY <2>1 DEF SlotOf, Slot, Entry
<1>5. r.head = n + 1 /\ r.slot = [p.slot EXCEPT ![h] = SlotOf(e)]
      /\ r = [slot |-> r.slot, head |-> r.head]
  <2>1. SlotOf(e) = [seq |-> SeqOf(e.frame.pos), t_ms |-> Now, valid |-> TRUE]
    BY DEF SlotOf, Entry
  <2> HIDE DEF h
  <2> QED BY <1>1, <2>1 DEF OnData, h
<1> HIDE DEF r, u, h
<1>6. r.slot \in [0 .. (Ring - 1) -> Slot]
  BY <1>1, <1>3, <1>4, <1>5
<1>7. ASSUME NEW i \in 1 .. (n + 1), i > (n + 1) - Ring
      PROVE  r.slot[(i - 1) % Ring] = SlotOf(u[i])
  <2>1. CASE i = n + 1
    <3>1. (i - 1) % Ring = h
      BY <1>1, <2>1 DEF h
    <3> QED BY <1>1, <1>2, <1>3, <1>5, <2>1, <3>1
  <2>2. CASE i # n + 1
    <3>1. i \in 1 .. n /\ i > n - Ring /\ i - 1 \in Int /\ n \in Int
          /\ n - (i - 1) < Ring /\ (i - 1) - n < Ring /\ i - 1 # n
      BY <1>1, <1>7, <2>2
    <3>2. (i - 1) % Ring \in 0 .. (Ring - 1) /\ (i - 1) % Ring # h
      BY <1>1, <3>1, RingResidue, NearResidues DEF h
    <3>3. r.slot[(i - 1) % Ring] = p.slot[(i - 1) % Ring]
      BY <1>1, <1>5, <3>2
    <3>4. p.slot[(i - 1) % Ring] = SlotOf(s[i])
      BY <3>1 DEF Mirrors
    <3> QED BY <1>2, <3>1, <3>3, <3>4
  <2> QED BY <2>1, <2>2
<1>8. ASSUME NEW k \in 0 .. (Ring - 1), k >= n + 1
      PROVE  ~r.slot[k].valid
  <2>1. n \in 0 .. (Ring - 1) /\ k >= n /\ k # n
    BY <1>1, <1>8
  <2>2. h = n
    BY <2>1, RingResidueSmall DEF h
  <2>3. r.slot[k] = p.slot[k]
    BY <1>1, <1>5, <2>1, <2>2
  <2> QED BY <2>1, <2>3 DEF Mirrors
<1>9. Mirrors(r, u)
  BY <1>1, <1>2, <1>5, <1>6, <1>7, <1>8 DEF Mirrors
<1> QED BY <1>9 DEF r, u

LEMMA Cleared ==
  ASSUME NEW y \in Slot
  PROVE  [y EXCEPT !.valid = FALSE] = [seq |-> y.seq, t_ms |-> y.t_ms, valid |-> FALSE]
<1>1. PICK f : f = FALSE
  OBVIOUS
<1>2. [y EXCEPT !.valid = f] = [seq |-> y.seq, t_ms |-> y.t_ms, valid |-> f]
  BY DEF Slot
<1> QED BY <1>1, <1>2

\* Using an entry once: the slot and the list forget it together.
LEMMA RingOnAck ==
  ASSUME NEW p, NEW s, Mirrors(p, s), NEW j \in 1 .. Len(s), j > Len(s) - Ring
  PROVE  Mirrors([p EXCEPT !.slot[(j - 1) % Ring].valid = FALSE],
                 [s EXCEPT ![j].paired = TRUE])
<1> DEFINE n == Len(s)
           h == (j - 1) % Ring
           r == [p EXCEPT !.slot[h].valid = FALSE]
           u == [s EXCEPT ![j].paired = TRUE]
<1>1. /\ n \in Nat /\ s \in Seq(Entry) /\ p.head = n /\ Ring \in Nat \ {0}
      /\ p.slot \in [0 .. (Ring - 1) -> Slot] /\ j \in Int /\ j - 1 \in Int
      /\ p = [slot |-> p.slot, head |-> p.head]
  BY RingAssumption DEF Mirrors
<1>2. h \in 0 .. (Ring - 1)
  BY <1>1, RingResidue
<1> DEFINE e == [s[j] EXCEPT !.paired = TRUE]
<1>3. /\ s[j] \in Entry /\ e \in Entry
      /\ SlotOf(e) = [seq |-> SeqOf(s[j].frame.pos), t_ms |-> s[j].t, valid |-> FALSE]
  <2>1. s[j] \in Entry
    BY <1>1
  <2>2. e \in Entry /\ e.frame = s[j].frame /\ e.t = s[j].t /\ e.paired
    BY <2>1 DEF Entry
  <2> HIDE DEF e
  <2>3. SlotOf(e) = [seq |-> SeqOf(s[j].frame.pos), t_ms |-> s[j].t, valid |-> FALSE]
    <3>1. (~e.paired) = FALSE
      BY <2>2
    <3> QED BY <2>2, <3>1, Zenon DEF SlotOf
  <2> QED BY <2>1, <2>2, <2>3
<1>4. u \in Seq(Entry) /\ Len(u) = n /\ u[j] = e /\ \A i \in 1 .. n : i # j => u[i] = s[i]
  <2>1. u = [s EXCEPT ![j] = e]
    OBVIOUS
  <2>2. e \in Entry
    BY <1>3
  <2> HIDE DEF u, e
  <2>3. DOMAIN s = 1 .. n /\ j \in DOMAIN s
    BY <1>1
  <2>4. \A i \in 1 .. n : u[i] = IF i = j THEN e ELSE s[i]
    BY <2>1, <2>3
  <2>5. u \in [1 .. n -> Entry]
    BY <1>1, <2>1, <2>2, <2>3
  <2>6. u \in Seq(Entry) /\ Len(u) = n
    <3>1. n \in Nat
      BY <1>1
    <3> HIDE DEF n
    <3> QED BY <3>1, <2>5
  <2> QED BY <2>4, <2>6
<1>5. p.slot[h] = SlotOf(s[j])
  BY DEF Mirrors
<1>6. /\ r = [slot |-> r.slot, head |-> r.head] /\ r.head = n
      /\ r.slot = [p.slot EXCEPT ![h] = SlotOf(e)]
  <2>1. [p.slot[h] EXCEPT !.valid = FALSE] = SlotOf(e)
    <3> DEFINE y == p.slot[h]
    <3>1. y \in Slot
      BY <1>1, <1>2
    <3>2. y.seq = SeqOf(s[j].frame.pos) /\ y.t_ms = s[j].t
      BY <1>5 DEF SlotOf
    <3> HIDE DEF y, e
    <3>3. [y EXCEPT !.valid = FALSE] = [seq |-> y.seq, t_ms |-> y.t_ms, valid |-> FALSE]
      BY <3>1, Cleared
    <3>4. [y EXCEPT !.valid = FALSE] = SlotOf(e)
      BY <1>3, <3>2, <3>3
    <3> QED BY <3>4 DEF y
  <2> DEFINE q == p.slot
  <2>2. r = [slot |-> [q EXCEPT ![h] = [q[h] EXCEPT !.valid = FALSE]], head |-> n]
    <3> HIDE DEF h
    <3>1. p.slot = q
      OBVIOUS
    <3> HIDE DEF q
    <3>2. p = [slot |-> q, head |-> n]
      BY <1>1, <3>1
    <3>3. r = [p EXCEPT !.slot = [q EXCEPT ![h] = [q[h] EXCEPT !.valid = FALSE]]]
      BY <3>2, SMT
    <3> HIDE DEF r
    <3> QED BY <3>2, <3>3
  <2> HIDE DEF r, h, e
  <2> QED BY <2>1, <2>2
<1>7. SlotOf(e) \in Slot
  <2>1. SeqOf(e.frame.pos) \in Int
    BY <1>3, SeqOfType DEF Entry
  <2> HIDE DEF e
  <2> QED BY <1>3, <2>1 DEF SlotOf, Slot, Entry
<1> HIDE DEF r, u, h, e
<1>8. r.slot \in [0 .. (Ring - 1) -> Slot]
  BY <1>1, <1>2, <1>6, <1>7
<1>9. ASSUME NEW i \in 1 .. n, i > n - Ring
      PROVE  r.slot[(i - 1) % Ring] = SlotOf(u[i])
  <2>1. CASE i = j
    BY <1>1, <1>2, <1>4, <1>6, <2>1 DEF h
  <2>2. CASE i # j
    <3>1. /\ i - 1 \in Int /\ (i - 1) - (j - 1) < Ring /\ (j - 1) - (i - 1) < Ring
          /\ i - 1 # j - 1
      BY <1>1, <1>9, <2>2, SMTT(30)
    <3>2. (i - 1) % Ring \in 0 .. (Ring - 1) /\ (i - 1) % Ring # h
      BY <1>1, <3>1, RingResidue, NearResidues DEF h
    <3>3. r.slot[(i - 1) % Ring] = p.slot[(i - 1) % Ring]
      BY <1>1, <1>6, <3>2
    <3>4. p.slot[(i - 1) % Ring] = SlotOf(s[i])
      BY <1>9 DEF Mirrors
    <3> QED BY <1>4, <2>2, <3>3, <3>4
  <2> QED BY <2>1, <2>2
<1>10. ASSUME NEW k \in 0 .. (Ring - 1), k >= n
       PROVE  ~r.slot[k].valid
  <2>1. j - 1 \in 0 .. (Ring - 1) /\ k # j - 1
    BY <1>1, <1>10
  <2>2. h = j - 1
    BY <2>1, RingResidueSmall DEF h
  <2>3. r.slot[k] = p.slot[k]
    BY <1>1, <1>6, <2>1, <2>2
  <2> QED BY <1>10, <2>3 DEF Mirrors
<1>11. Mirrors(r, u)
  BY <1>1, <1>4, <1>6, <1>8, <1>9, <1>10 DEF Mirrors
<1> QED BY <1>11 DEF r, u, h

LEMMA MaxIs ==
  ASSUME NEW S \in SUBSET Int, NEW m \in S, \A y \in S : m >= y
  PROVE  Max(S) = m
<1>1. PICK x : x = Max(S)
  OBVIOUS
<1>2. x \in S /\ \A y \in S : x >= y
  BY <1>1, Zenon DEF Max
<1> QED BY <1>1, <1>2

LEMMA MinIs ==
  ASSUME NEW S \in SUBSET Int, NEW m \in S, \A y \in S : m <= y
  PROVE  Min(S) = m
<1>1. PICK x : x = Min(S)
  OBVIOUS
<1>2. x \in S /\ \A y \in S : x <= y
  BY <1>1, Zenon DEF Min
<1> QED BY <1>1, <1>2

\* The slots with a number, by their age, as Newest goes through them.
Ages(p, ack) == {k \in 0 .. (Ring - 1) : LET s == p.slot[(p.head - 1 - k) % Ring]
                                         IN  s.valid /\ s.seq = ack}

\* Going back through the ring is going back through the list: an age names a data
\* frame of the list, or a slot that was never written.
LEMMA AgeIsEntry ==
  ASSUME NEW p, NEW s, Mirrors(p, s), NEW ack, NEW k \in 0 .. (Ring - 1)
  PROVE  k \in Ages(p, ack) <=> Len(s) - k \in Candidates(s, ack)
<1> DEFINE n == Len(s)
           i == n - k
           x == p.slot[(n - 1 - k) % Ring]
<1>1. n \in Nat /\ s \in Seq(Entry) /\ p.head = n /\ Ring \in Nat \ {0} /\ k \in Nat
  BY RingAssumption DEF Mirrors
<1>2. k \in Ages(p, ack) <=> x.valid /\ x.seq = ack
  BY <1>1 DEF Ages
<1>3. i \in Candidates(s, ack) <=>
        i \in DOMAIN s /\ i > n - Ring /\ ~s[i].paired /\ SeqOf(s[i].frame.pos) = ack
  BY DEF Candidates
<1>4. CASE i >= 1
  <2>1. i \in 1 .. n /\ i > n - Ring /\ DOMAIN s = 1 .. n /\ n - 1 - k = i - 1
    BY <1>1, <1>4
  <2>2. x = SlotOf(s[i])
    BY <2>1 DEF Mirrors
  <2> HIDE DEF i, x
  <2>3. x.valid <=> ~s[i].paired
    BY <2>2, Zenon DEF SlotOf
  <2>4. x.seq = SeqOf(s[i].frame.pos)
    BY <2>2 DEF SlotOf
  <2> QED BY <1>2, <1>3, <2>1, <2>3, <2>4 DEF i
<1>5. CASE ~(i >= 1)
  <2> DEFINE h == n - 1 - k + Ring
  <2>1. h \in 0 .. (Ring - 1) /\ h >= n /\ n - 1 - k = Ring * (-1) + h
        /\ n - 1 - k \in Int /\ -1 \in Int
    BY <1>1, <1>5
  <2>2. (n - 1 - k) % Ring = h
    <3> HIDE DEF h
    <3> QED BY <1>1, <2>1, ModUnique
  <2>3. ~x.valid
    BY <2>1, <2>2 DEF Mirrors
  <2>4. i \notin DOMAIN s
    BY <1>1, <1>5
  <2> QED BY <1>2, <1>3, <2>3, <2>4
<1> QED BY <1>4, <1>5

\* The newest slot is the slot of the last candidate.
LEMMA NewestIsLast ==
  ASSUME NEW p, NEW s, Mirrors(p, s), NEW ack
  PROVE  LET j == Max(Candidates(s, ack) \cup {0})
         IN  \/ j = 0 /\ Newest(p, ack) = -1
             \/ /\ j \in Candidates(s, ack) /\ j \in 1 .. Len(s) /\ j > Len(s) - Ring
                /\ Newest(p, ack) = (j - 1) % Ring
<1> DEFINE C == Candidates(s, ack)
           A == Ages(p, ack)
           n == Len(s)
<1>1. n \in Nat /\ s \in Seq(Entry) /\ p.head = n /\ Ring \in Nat \ {0}
  BY RingAssumption DEF Mirrors
<1>2. Newest(p, ack) = IF A = {} THEN -1 ELSE (n - 1 - Min(A)) % Ring
  BY <1>1 DEF Newest, Ages
<1>3. A \subseteq 0 .. (Ring - 1)
  BY DEF Ages
<1>4. \A i \in C : i \in 1 .. n /\ i > n - Ring
  BY <1>1 DEF Candidates
<1>5. \A k \in 0 .. (Ring - 1) : k \in A <=> n - k \in C
  BY AgeIsEntry
<1>6. ASSUME NEW i \in C
      PROVE  n - i \in A /\ n - i \in 0 .. (Ring - 1)
  <2>1. n - i \in 0 .. (Ring - 1) /\ n - (n - i) = i
    BY <1>1, <1>4
  <2> QED BY <1>5, <2>1
<1> HIDE DEF C, A
<1>7. CASE A = {}
  <2>1. C = {}
    BY <1>6, <1>7
  <2>2. C \cup {0} \in SUBSET Int /\ 0 \in C \cup {0} /\ \A y \in C \cup {0} : 0 >= y
    BY <2>1
  <2>3. Max(C \cup {0}) = 0
    BY <2>2, MaxIs
  <2> QED BY <1>2, <1>7, <2>3 DEF C
<1>8. CASE A # {}
  <2>1. A \in SUBSET Nat
    BY <1>1, <1>3
  <2>2. PICK k \in A : \A y \in A : k <= y
    BY <1>8, <2>1, LeastElement
  <2>3. Min(A) = k
    BY <2>1, <2>2, MinIs
  <2> DEFINE j == n - k
  <2>4. j \in C /\ k \in 0 .. (Ring - 1)
    BY <1>3, <1>5
  <2>5. j \in 1 .. n /\ j > n - Ring
    BY <1>4, <2>4
  <2>6. \A y \in C \cup {0} : j >= y
    <3>1. ASSUME NEW y \in C PROVE j >= y
      <4>1. k <= n - y /\ y \in 1 .. n /\ k \in Nat
        BY <1>4, <1>6, <2>1, <2>2
      <4> QED BY <1>1, <4>1
    <3> QED BY <1>1, <2>5, <3>1
  <2>7. C \cup {0} \in SUBSET Int
    BY <1>1, <1>4
  <2>8. n - 1 - k = j - 1
    BY <1>1, <2>4
  <2> HIDE DEF j
  <2>9. Max(C \cup {0}) = j
    BY <2>4, <2>6, <2>7, MaxIs
  <2>10. Newest(p, ack) = (j - 1) % Ring
    BY <1>2, <1>8, <2>3, <2>8
  <2> QED BY <2>4, <2>5, <2>9, <2>10 DEF C
<1> QED BY <1>7, <1>8

\* The time of an entry names its frame.
LEMMA CapturedIs ==
  ASSUME NEW s \in Seq(Entry), NEW now \in Int, Timed(s, now), NEW j \in 1 .. Len(s)
  PROVE  Captured(s, s[j].t) = s[j].frame
<1> DEFINE at == {i \in DOMAIN s : s[i].t = s[j].t}
<1>1. DOMAIN s = 1 .. Len(s) /\ Len(s) \in Nat /\ \A i \in 1 .. Len(s) : s[i].t \in Int
  <2>1. \A i \in 1 .. Len(s) : s[i] \in Entry
    OBVIOUS
  <2>2. \A x \in Entry : x.t \in Int
    BY DEF Entry
  <2> QED BY <2>1, <2>2
<1>2. ASSUME NEW i \in 1 .. Len(s), s[i].t = s[j].t PROVE i = j
  <2>1. ~(i < j) /\ ~(j < i)
    BY <1>1, <1>2 DEF Timed
  <2> QED BY <1>1, <2>1
<1>3. at = {j}
  BY <1>1, <1>2
<1> HIDE DEF at
<1>4. Max(at) = j
  <2>1. at \in SUBSET Int /\ j \in at /\ \A y \in at : j >= y
    BY <1>1, <1>3
  <2> QED BY <2>1, MaxIs
<1>5. Captured(s, s[j].t) = IF at = {} THEN NoFrame ELSE s[Max(at)].frame
  BY DEF Captured, at
<1> QED BY <1>3, <1>4, <1>5

LEMMA FeedSeen ==
  ASSUME NEW m, Balanced(m), NEW seq \in Int
  PROVE  Feed(m, seq).n_seen = m.n_seen + 1
<1> DEFINE d == SignedDiff(seq, m.max)
<1>1. m = [f \in Fields |-> m[f]]
  BY DEF Balanced, Record
<1> HIDE DEF d
<1>2. FirstFeed(m, seq).n_seen = m.n_seen + 1 /\ Forward(m, d).n_seen = m.n_seen + 1
  BY <1>1 DEF Fields, FirstFeed, Forward
<1>3. Behind(m, m.max + d).n_seen = m.n_seen + 1
  <2>1. CASE Bit(m.max + d) \in m.seen
    BY <1>1, <2>1 DEF Fields, Behind
  <2>2. CASE Bit(m.max + d) \notin m.seen
    BY <1>1, <2>2 DEF Fields, Behind
  <2> QED BY <2>1, <2>2
<1> QED BY <1>2, <1>3 DEF Feed, d

\* The last pairing is with one of the last Ring data frames, whose number is the
\* one that was acknowledged.
Paired ==
  /\ PairingIsSearch
  /\ pair.rtt # -1 =>
       /\ \E i \in 1 .. Len(sent) : i > Len(sent) - Ring /\ sent[i].frame = pair.found
       /\ SeqOf(pair.found.pos) = SeqOf(pair.acked.pos)
       /\ pair.acked \in [dir : {"fwd", "rev"}, pos : Int]
       /\ {pair.from, pair.acked.dir} = {"fwd", "rev"}

RingInv ==
  /\ TapType
  /\ Mirrors(rtt, sent)
  /\ Timed(sent, Now)
  /\ Paired

\* One captured frame, whatever it carries and acknowledges.
LEMMA PairingStep ==
  ASSUME NEW frame, NEW payload \in BOOLEAN, NEW acked,
         frame \in [dir : {"fwd", "rev"}, pos : Int],
         acked \in [dir : {"fwd", "rev"}, pos : Int],
         {frame.dir, acked.dir} = {"fwd", "rev"},
         Mirrors(rtt, sent), Timed(sent, Now), Now \in Int, Now' = Now + 1,
         Pairing(frame, payload, acked)
  PROVE  Mirrors(rtt', sent') /\ Timed(sent', Now') /\ Paired'
<1> DEFINE seq == SeqOf(frame.pos)
           ack == SeqOf(acked.pos)
           e == [frame |-> frame, t |-> Now, paired |-> FALSE]
           r == IF payload THEN OnData(rtt, seq) ELSE rtt
           s == IF payload THEN Append(sent, e) ELSE sent
           i == Newest(r, ack)
           j == Max(Candidates(s, ack) \cup {0})
<1>1. /\ rtt' = OnAck(r, ack)
      /\ sent' = IF j = 0 THEN s ELSE [s EXCEPT ![j].paired = TRUE]
      /\ pair'.from = frame.dir /\ pair'.acked = acked
      /\ pair'.rtt = IF i = -1 THEN -1 ELSE Now - r.slot[i].t_ms
      /\ pair'.want = IF j = 0 THEN -1 ELSE Now - s[j].t
      /\ pair'.found = IF i = -1 THEN NoFrame ELSE Captured(s, r.slot[i].t_ms)
  BY DEF Pairing, Records
<1>2. e \in Entry /\ e.frame = frame /\ e.t = Now /\ ~e.paired
  BY DEF Entry
<1>3. sent \in Seq(Entry) /\ Len(sent) \in Nat
  BY DEF Mirrors
<1>4. Mirrors(r, s) /\ Timed(s, Now + 1)
  <2> HIDE DEF e
  <2>1. CASE payload
    <3>1. r = OnData(rtt, SeqOf(e.frame.pos)) /\ s = Append(sent, e)
      BY <1>2, <2>1
    <3>2. Mirrors(r, s)
      <4> HIDE DEF r, s
      <4> QED BY <1>2, <3>1, RingOnData
    <3>3. /\ Len(s) = Len(sent) + 1 /\ s[Len(sent) + 1] = e
          /\ \A k \in 1 .. Len(sent) : s[k] = sent[k]
      BY <1>2, <1>3, <3>1
    <3>4. \A k \in 1 .. Len(s) : k \in 1 .. Len(sent) \/ k = Len(sent) + 1
      BY <1>3, <3>3
    <3>5. \A k \in 1 .. Len(sent) : sent[k].t < Now /\ sent[k].t \in Int
      <4>1. \A x \in Entry : x.t \in Int
        BY DEF Entry
      <4> QED BY <1>3, <4>1 DEF Timed
    <3> HIDE DEF r, s
    <3>6. Timed(s, Now + 1)
      <4>1. ASSUME NEW k \in 1 .. Len(s)
            PROVE  s[k].t < Now + 1
        BY <1>2, <3>3, <3>4, <3>5
      <4>2. ASSUME NEW k \in 1 .. Len(s), NEW l \in 1 .. Len(s), k < l
            PROVE  s[k].t < s[l].t
        <5>1. k \in 1 .. Len(sent)
          BY <1>3, <3>3, <3>4, <4>2
        <5>2. CASE l \in 1 .. Len(sent)
          BY <3>3, <4>2, <5>1, <5>2 DEF Timed
        <5>3. CASE l = Len(sent) + 1
          BY <1>2, <3>3, <3>5, <5>1, <5>3
        <5> QED BY <3>4, <5>2, <5>3
      <4> QED BY <4>1, <4>2 DEF Timed
    <3> QED BY <3>2, <3>6
  <2>2. CASE ~payload
    <3>1. r = rtt /\ s = sent
      BY <2>2
    <3> HIDE DEF r, s
    <3>2. \A k \in 1 .. Len(sent) : sent[k].t < Now + 1
      <4>1. \A x \in Entry : x.t \in Int
        BY DEF Entry
      <4> QED BY <1>3, <4>1 DEF Timed
    <3> QED BY <3>1, <3>2 DEF Timed
  <2> QED BY <2>1, <2>2
<1> HIDE DEF r, s, e
<1>5. \/ j = 0 /\ i = -1
      \/ /\ j \in Candidates(s, ack) /\ j \in 1 .. Len(s) /\ j > Len(s) - Ring
         /\ i = (j - 1) % Ring
  BY <1>4, NewestIsLast
<1>6. s \in Seq(Entry) /\ Len(s) \in Nat /\ Now + 1 \in Int
  BY <1>4 DEF Mirrors
<1>7. rtt' = IF i = -1 THEN r ELSE [r EXCEPT !.slot[i].valid = FALSE]
  BY <1>1 DEF OnAck
<1> HIDE DEF i, j
<1>8. CASE j = 0 /\ i = -1
  <2>1. rtt' = r /\ sent' = s /\ pair'.rtt = -1 /\ pair'.want = -1
    BY <1>1, <1>7, <1>8
  <2>2. Mirrors(rtt', sent') /\ Timed(sent', Now')
    BY <1>4, <2>1
  <2>3. Paired'
    BY <2>1 DEF Paired, PairingIsSearch
  <2> QED BY <2>2, <2>3
<1>9. CASE /\ j \in Candidates(s, ack) /\ j \in 1 .. Len(s) /\ j > Len(s) - Ring
           /\ i = (j - 1) % Ring
  <2>1. i # -1 /\ j # 0
    BY <1>6, <1>9, RingResidue, RingAssumption
  <2>2. rtt' = [r EXCEPT !.slot[(j - 1) % Ring].valid = FALSE]
        /\ sent' = [s EXCEPT ![j].paired = TRUE]
    BY <1>1, <1>7, <1>9, <2>1
  <2>3. Mirrors(rtt', sent')
    BY <1>4, <1>9, <2>2, RingOnAck
  <2>4. r.slot[i] = SlotOf(s[j])
    BY <1>4, <1>9 DEF Mirrors
  <2>5. r.slot[i].t_ms = s[j].t
    BY <2>4 DEF SlotOf
  <2>6. Captured(s, s[j].t) = s[j].frame
    BY <1>4, <1>6, <1>9, CapturedIs
  <2>7. SeqOf(s[j].frame.pos) = ack
    BY <1>9 DEF Candidates
  <2>8. /\ pair'.rtt = Now - s[j].t /\ pair'.want = Now - s[j].t
        /\ pair'.found = s[j].frame
    BY <1>1, <2>1, <2>5, <2>6
  <2>9. /\ Len(sent') = Len(s)
        /\ \A k \in 1 .. Len(s) : sent'[k].frame = s[k].frame /\ sent'[k].t = s[k].t
    <3>1. DOMAIN s = 1 .. Len(s) /\ \A k \in 1 .. Len(s) : s[k] \in Entry
      BY <1>6
    <3>2. \A x \in Entry : /\ [x EXCEPT !.paired = TRUE].frame = x.frame
                           /\ [x EXCEPT !.paired = TRUE].t = x.t
      BY DEF Entry
    <3>3. DOMAIN sent' = 1 .. Len(s) /\ sent' \in Seq(Entry)
      BY <2>2, <2>3, <3>1 DEF Mirrors
    <3>4. \A k \in 1 .. Len(s) : sent'[k] = IF k = j THEN [s[k] EXCEPT !.paired = TRUE] ELSE s[k]
      BY <1>9, <2>2, <3>1
    <3>5. Len(sent') = Len(s)
      BY <1>6, <3>3
    <3> QED BY <3>1, <3>2, <3>4, <3>5
  <2>10. Timed(sent', Now')
    BY <1>4, <2>9 DEF Timed
  <2>11. Paired'
    <3>1. pair'.found = sent'[j].frame /\ j \in 1 .. Len(sent') /\ j > Len(sent') - Ring
      BY <1>9, <2>8, <2>9
    <3>2. SeqOf(pair'.found.pos) = SeqOf(pair'.acked.pos)
      BY <1>1, <2>7, <2>8
    <3>3. pair'.rtt = pair'.want /\ pair'.from = frame.dir /\ pair'.acked = acked
      BY <1>1, <2>8
    <3> QED BY <3>1, <3>2, <3>3 DEF Paired, PairingIsSearch
  <2> QED BY <2>3, <2>10, <2>11
<1> QED BY <1>5, <1>8, <1>9

LEMMA RingInit == CInit => RingInv
<1> SUFFICES ASSUME CInit PROVE RingInv
  OBVIOUS
<1>1. TapType
  BY NewBalanced, TapAssumption DEF CInit, MInit, TapType
<1>2. Mirrors(rtt, sent)
  <2>1. rtt = RttInit /\ sent = <<>>
    BY DEF CInit
  <2>2. sent \in Seq(Entry) /\ Len(sent) = 0
    BY <2>1
  <2>3. rtt.head = 0 /\ rtt = [slot |-> rtt.slot, head |-> rtt.head]
        /\ rtt.slot = [i \in 0 .. (Ring - 1) |-> [seq |-> 0, t_ms |-> 0, valid |-> FALSE]]
    BY <2>1 DEF RttInit
  <2>4. [seq |-> 0, t_ms |-> 0, valid |-> FALSE] \in Slot
    BY DEF Slot
  <2> QED BY <2>2, <2>3, <2>4 DEF Mirrors
<1>3. Timed(sent, Now)
  BY DEF CInit, Timed
<1>4. Paired
  BY DEF CInit, Paired, PairingIsSearch
<1> QED BY <1>1, <1>2, <1>3, <1>4 DEF RingInv

LEMMA RingStep == RingInv /\ [CNext]_cvars => RingInv'
<1> SUFFICES ASSUME RingInv, [CNext]_cvars PROVE RingInv'
  OBVIOUS
<1>1. TapType'
  <2>1. [MNext]_mvars
    BY DEF CNext, FwdFrame, RevFrame, MNext, Begin, Observe, cvars, mvars
  <2> QED BY <2>1, TapTypeStep DEF RingInv
<1>2. Balanced(t) /\ Now \in Int /\ high \in Int /\ other \in Int
  BY DEF RingInv, TapType, Balanced, Now
<1>3. ASSUME NEW p \in Starts \cup ((high - Depth) .. (high + Jump)), FwdFrame(p)
      PROVE  RingInv'
  <2>1. p \in Int
    BY <1>2, TapAssumption
  <2>2. Now' = Now + 1
    BY <1>2, <1>3, <2>1, FeedSeen, SeqOfType DEF FwdFrame, Begin, Observe, Now
  <2>3. PICK payload \in BOOLEAN, q \in RevAcked :
           Pairing(Frame("fwd", p), payload, Frame("rev", q))
    BY <1>3 DEF FwdFrame
  <2>4. q \in Int
    BY <1>2, RingAssumption DEF RevAcked
  <2>5. /\ Frame("fwd", p) \in [dir : {"fwd", "rev"}, pos : Int]
        /\ Frame("fwd", p).dir = "fwd"
        /\ Frame("rev", q) \in [dir : {"fwd", "rev"}, pos : Int]
        /\ Frame("rev", q).dir = "rev"
    BY <2>1, <2>4 DEF Frame
  <2>6. Mirrors(rtt, sent) /\ Timed(sent, Now)
    BY DEF RingInv
  <2>7. Mirrors(rtt', sent') /\ Timed(sent', Now') /\ Paired'
    BY <1>2, <2>2, <2>3, <2>5, <2>6, PairingStep
  <2> QED BY <1>1, <2>7 DEF RingInv
<1>4. CASE RevFrame
  <2>1. Now' = Now + 1
    BY <1>2, <1>4, FeedSeen, SeqOfType DEF RevFrame, ObserveOther, Now
  <2>2. PICK payload \in BOOLEAN, q \in (high - Depth) .. high :
           Pairing(Frame("rev", other), payload, Frame("fwd", q))
    BY <1>4 DEF RevFrame
  <2>3. q \in Int
    BY <1>2, TapAssumption
  <2>4. /\ Frame("rev", other) \in [dir : {"fwd", "rev"}, pos : Int]
        /\ Frame("rev", other).dir = "rev"
        /\ Frame("fwd", q) \in [dir : {"fwd", "rev"}, pos : Int]
        /\ Frame("fwd", q).dir = "fwd"
    BY <1>2, <2>3 DEF Frame
  <2>5. {"rev", "fwd"} = {"fwd", "rev"}
    OBVIOUS
  <2>6. Mirrors(rtt, sent) /\ Timed(sent, Now)
    BY DEF RingInv
  <2>7. Mirrors(rtt', sent') /\ Timed(sent', Now') /\ Paired'
    BY <1>2, <2>1, <2>2, <2>4, <2>5, <2>6, PairingStep
  <2> QED BY <1>1, <2>7 DEF RingInv
<1>5. CASE UNCHANGED cvars
  BY <1>1, <1>5 DEF RingInv, Now, Paired, PairingIsSearch, cvars, mvars
<1> QED BY <1>3, <1>4, <1>5 DEF CNext

\* For every size of the ring and any number of turns of its cursor, the interval
\* ci_rtt_on_ack reports is that of the newest unused data frame with the number
\* among the last Ring.
THEOREM RingIsSearch == CSpec => []PairingIsSearch
<1>1. RingInv => PairingIsSearch
  BY DEF RingInv, Paired
<1> QED BY <1>1, RingInit, RingStep, PTL DEF CSpec

\* The data frames the ring holds are less than a whole sequence space away from
\* the packet that is acknowledged.
Recent ==
  \A i \in DOMAIN sent :
    i > Len(sent) - Ring /\ sent[i].frame.dir = pair.acked.dir =>
      /\ sent[i].frame.pos - pair.acked.pos < SeqMod
      /\ pair.acked.pos - sent[i].frame.pos < SeqMod

\* As long as that is so, a pairing across the two directions is with a data frame
\* of the very packet that is acknowledged.
THEOREM RingNamesPacket == CSpec => [](Recent => PairNamesPacket)
<1>1. ASSUME RingInv, Recent PROVE PairNamesPacket
  <2>1. SUFFICES ASSUME pair.rtt # -1, pair.found.dir # pair.from
                 PROVE  pair.found = pair.acked
    BY DEF PairNamesPacket
  <2>2. PICK i \in 1 .. Len(sent) : i > Len(sent) - Ring /\ sent[i].frame = pair.found
    BY <1>1, <2>1 DEF RingInv, Paired
  <2>3. /\ SeqOf(pair.found.pos) = SeqOf(pair.acked.pos) /\ pair.acked.pos \in Int
        /\ pair.acked \in [dir : {"fwd", "rev"}, pos : Int]
        /\ {pair.from, pair.acked.dir} = {"fwd", "rev"}
    BY <1>1, <2>1 DEF RingInv, Paired
  <2>4. sent[i] \in Entry /\ i \in DOMAIN sent
    BY <1>1 DEF RingInv, Mirrors
  <2>5. pair.found \in [dir : {"fwd", "rev"}, pos : Int]
    BY <2>2, <2>4 DEF Entry
  <2>6. pair.found.dir = pair.acked.dir
    BY <2>1, <2>3, <2>5
  <2>7. /\ pair.found.pos - pair.acked.pos < SeqMod
        /\ pair.acked.pos - pair.found.pos < SeqMod
    BY <1>1, <2>2, <2>4, <2>6 DEF Recent
  <2>8. pair.found.pos = pair.acked.pos
    <3>1. SeqMod \in Nat \ {0} /\ pair.found.pos \in Int
      BY SeqAssumption, <2>5 DEF SeqMod
    <3> QED BY <2>3, <2>7, <3>1, NearResidues DEF SeqOf
  <2> QED BY <2>6, <2>8, <2>5, <2>3
<1>2. RingInv => (Recent => PairNamesPacket)
  BY <1>1
<1> QED BY <1>2, RingInit, RingStep, PTL DEF CSpec

=============================================================================
