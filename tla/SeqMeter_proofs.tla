-------------------------- MODULE SeqMeter_proofs ---------------------------
(***************************************************************************)
(* Facts about the sequence tracker of lib/ci_meas.c that do not depend on *)
(* who feeds it: the arithmetic of wrapping numbers and of the bitmap, and *)
(* the balance of the counters and the truth of its positions over one     *)
(* feed.                                                                   *)
(***************************************************************************)
EXTENDS SeqMeter, Numbers, FiniteSetTheorems

\* Within one turn of the bitmap a position has a bit of its own.
LEMMA BitUnique ==
  ASSUME NEW p \in Int, NEW q \in Int, p - q < Win, q - p < Win, Bit(p) = Bit(q)
  PROVE  p = q
<1>1. Win \in Nat \ {0} /\ p % Win = q % Win
  BY SeqAssumption DEF Bit
<1> QED BY <1>1, NearResidues

\* Less than half the sequence space away, the signed 16-bit distance is the
\* true one.
LEMMA DiffExact ==
  ASSUME NEW p \in Int, NEW h \in Int, p - h >= -Half, p - h < Half
  PROVE  SignedDiff(SeqOf(p), h) = p - h
<1>0. Half \in Nat \ {0} /\ SeqMod \in Nat \ {0} /\ SeqMod = 2 * Half
  BY SeqAssumption DEF SeqMod
<1> DEFINE M == SeqMod
           s == SeqOf(p)
           d == IF p >= h THEN p - h ELSE p - h + M
<1>1. s \in Int
  BY <1>0, IntMod DEF SeqOf
<1>2. PICK a \in Int : p = M * a + s
  BY <1>0, IntMod DEF SeqOf
<1>3. d \in 0 .. (M - 1)
  BY <1>0
<1>4. (s - h) % M = d
  <2>1. CASE p >= h
    <3>1. s - h = M * (-a) + d
      <4>1. M * (-a) = -(M * a)
        BY <1>0
      <4> DEFINE x == M * a
      <4>2. x \in Int /\ p = x + s /\ d = p - h
        BY <1>0, <1>2, <2>1
      <4> HIDE DEF x, M, s, d
      <4>3. s - h = -x + d
        BY <4>2, <1>1
      <4> QED BY <4>1, <4>3 DEF x
    <3>2. s - h \in Int /\ -a \in Int /\ M \in Nat \ {0}
      BY <1>0, <1>1
    <3> HIDE DEF M, s, d
    <3> QED BY <3>1, <3>2, <1>3, ModUnique
  <2>2. CASE ~(p >= h)
    <3>1. s - h = M * (-a - 1) + d
      <4>1. M * (-a - 1) = -(M * a) - M
        BY <1>0
      <4> DEFINE x == M * a
      <4>2. x \in Int /\ M \in Int /\ p = x + s /\ d = p - h + M
        BY <1>0, <1>2, <2>2
      <4> HIDE DEF x, M, s, d
      <4>3. s - h = -x - M + d
        BY <4>2, <1>1
      <4> QED BY <4>1, <4>3 DEF x
    <3>2. s - h \in Int /\ -a - 1 \in Int /\ M \in Nat \ {0}
      BY <1>0, <1>1
    <3> HIDE DEF M, s, d
    <3> QED BY <3>1, <3>2, <1>3, ModUnique
  <2> QED BY <2>1, <2>2
<1>5. SignedDiff(s, h) = IF d < Half THEN d ELSE d - M
  BY <1>4 DEF SignedDiff
<1>6. SignedDiff(s, h) = p - h
  <2> HIDE DEF s
  <2> QED BY <1>5, <1>0
<1> QED BY <1>6

\* Before its first wrap a number is its position.
LEMMA SeqSmall ==
  ASSUME NEW p \in 0 .. (SeqMod - 1)
  PROVE  SeqOf(p) = p
<1>1. SeqMod \in Nat \ {0} /\ p = SeqMod * 0 + p
  BY SeqAssumption DEF SeqMod
<1> QED BY <1>1, ModUnique DEF SeqOf

-----------------------------------------------------------------------------
(* The counters, whatever is fed.                                          *)

Fields == {"have", "first", "max", "n_seen", "n_distinct", "n_dup", "n_reorder",
           "n_gap", "epoch", "seen"}

Record(m) == m = [f \in Fields |-> m[f]]

\* What the counters of a tracker say of each other.
Balanced(m) ==
  /\ Record(m)
  /\ m.have \in BOOLEAN
  /\ m.first \in Int /\ m.max \in Int
  /\ m.n_seen \in Int /\ m.n_distinct \in Int /\ m.n_dup \in Int
  /\ m.n_reorder \in Int /\ m.n_gap \in Int
  /\ m.n_seen = m.n_distinct + m.n_dup
  /\ ~m.have => m.n_distinct = 0 /\ m.n_gap = m.n_reorder
  /\ m.have => Span(m) - m.n_distinct = m.n_gap - m.n_reorder

LEMMA SignedDiffType ==
  ASSUME NEW seq \in Int, NEW max \in Int
  PROVE  SignedDiff(seq, max) \in Int
<1>1. SeqMod \in Nat \ {0}
  BY SeqAssumption DEF SeqMod
<1>2. (seq - max) % SeqMod \in 0 .. (SeqMod - 1)
  BY <1>1, IntMod
<1> DEFINE d == (seq - max) % SeqMod
<1> HIDE DEF d
<1>3. d \in Int /\ d - SeqMod \in Int
  BY <1>1, <1>2 DEF d
<1> QED BY <1>3 DEF SignedDiff, d

\* A feed keeps the counters balanced, whichever of its four cases it takes.
LEMMA FeedBalanced ==
  ASSUME NEW m, Balanced(m), NEW seq \in Int
  PROVE  Balanced(Feed(m, seq))
<1>1. CASE ~m.have
  <2> DEFINE r == FirstFeed(m, seq)
  <2>1. /\ Record(r) /\ r.have /\ r.have \in BOOLEAN /\ r.first = seq /\ r.max = seq
        /\ r.n_seen = m.n_seen + 1 /\ r.n_distinct = 1 /\ r.n_dup = m.n_dup
        /\ r.n_reorder = m.n_reorder /\ r.n_gap = m.n_gap
    BY DEF Balanced, Record, Fields, FirstFeed
  <2> HIDE DEF r
  <2>2. m.n_distinct = 0 /\ m.n_gap = m.n_reorder /\ m.n_seen = m.n_dup
    BY <1>1 DEF Balanced
  <2>3. r.n_seen = r.n_distinct + r.n_dup /\ Span(r) - r.n_distinct = r.n_gap - r.n_reorder
    BY <2>1, <2>2 DEF Balanced, Span
  <2>4. Balanced(r)
    BY <2>1, <2>3 DEF Balanced
  <2> QED BY <1>1, <2>4 DEF Feed, r
<1> DEFINE d == SignedDiff(seq, m.max)
<1>2. d \in Int
  BY SignedDiffType DEF Balanced
<1>3. CASE m.have /\ d > 0
  <2> DEFINE r == Forward(m, d)
  <2>1. /\ Record(r) /\ r.have = m.have /\ r.first = m.first /\ r.max = m.max + d
        /\ r.n_seen = m.n_seen + 1 /\ r.n_distinct = m.n_distinct + 1 /\ r.n_dup = m.n_dup
        /\ r.n_reorder = m.n_reorder /\ r.n_gap = m.n_gap + d - 1
    <3> HIDE DEF d
    <3> QED BY DEF Balanced, Record, Fields, Forward
  <2> HIDE DEF r, d
  <2>2. Balanced(r)
    BY <1>2, <1>3, <2>1 DEF Balanced, Span
  <2> QED BY <1>3, <2>2 DEF Feed, r, d
<1>4. CASE m.have /\ ~(d > 0)
  <2> DEFINE r == Behind(m, m.max + d)
  <2>1. /\ Record(r) /\ r.have = m.have /\ r.first = m.first /\ r.max = m.max
        /\ r.n_seen = m.n_seen + 1 /\ r.n_gap = m.n_gap
        /\ \/ r.n_distinct = m.n_distinct + 1 /\ r.n_dup = m.n_dup
              /\ r.n_reorder = m.n_reorder + 1
           \/ r.n_distinct = m.n_distinct /\ r.n_dup = m.n_dup + 1
              /\ r.n_reorder = m.n_reorder
    <3> HIDE DEF d
    <3>1. CASE Bit(m.max + d) \in m.seen
      BY <3>1 DEF Balanced, Record, Fields, Behind
    <3>2. CASE Bit(m.max + d) \notin m.seen
      BY <3>2 DEF Balanced, Record, Fields, Behind
    <3> QED BY <3>1, <3>2
  <2> HIDE DEF r, d
  <2>2. Span(m) - m.n_distinct = m.n_gap - m.n_reorder
    BY <1>4 DEF Balanced
  <2>3. r.n_seen = r.n_distinct + r.n_dup /\ Span(r) - r.n_distinct = r.n_gap - r.n_reorder
    <3>1. CASE r.n_distinct = m.n_distinct + 1 /\ r.n_dup = m.n_dup /\ r.n_reorder = m.n_reorder + 1
      BY <2>1, <2>2, <3>1 DEF Balanced, Span
    <3>2. CASE r.n_distinct = m.n_distinct /\ r.n_dup = m.n_dup + 1 /\ r.n_reorder = m.n_reorder
      BY <2>1, <2>2, <3>2 DEF Balanced, Span
    <3> QED BY <2>1, <3>1, <3>2
  <2>4. Balanced(r)
    BY <1>4, <2>1, <2>3 DEF Balanced
  <2> QED BY <1>4, <2>4 DEF Feed, r, d
<1> QED BY <1>1, <1>3, <1>4 DEF Balanced

LEMMA NewBalanced == Balanced(NewMeter)
BY DEF Balanced, Record, Fields, NewMeter

LEMMA SeqOfType ==
  ASSUME NEW p \in Int
  PROVE  SeqOf(p) \in 0 .. (SeqMod - 1) /\ SeqOf(p) \in Int
<1>1. SeqMod \in Nat \ {0}
  BY SeqAssumption DEF SeqMod
<1> QED BY <1>1, IntMod DEF SeqOf

-----------------------------------------------------------------------------
(* The tracker and the packets of one connection.                          *)

\* The tracker m was fed exactly the packets at positions A, b first and h the
\* highest.  It counts positions from c, a whole number of turns of the sequence
\* number, and for the last Win of them the bitmap says which ones came.
Exact(m, A, b, h, c) ==
  /\ Record(m) /\ m.have /\ m.n_dup \in Nat
  /\ A \subseteq Int /\ IsFiniteSet(A) /\ b \in A /\ h \in A /\ c \in Int
  /\ \A p \in A : p <= h
  /\ m.first = b - c /\ m.max = h - c
  /\ m.n_distinct = Cardinality(A)
  /\ \A p \in (h - Win + 1) .. h : Bit(p - c) \in m.seen <=> p \in A

Turns(c) == \E k \in Int : c = SeqMod * k

LEMMA SeqShift ==
  ASSUME NEW p \in Int, NEW c \in Int, Turns(c)
  PROVE  SeqOf(p - c) = SeqOf(p)
<1>1. SeqMod \in Nat \ {0}
  BY SeqAssumption DEF SeqMod
<1>2. PICK k \in Int : c = SeqMod * k
  BY DEF Turns
<1>3. PICK q \in Int : p = SeqMod * q + SeqOf(p)
  BY <1>1, IntMod DEF SeqOf
<1>4. SeqOf(p) \in 0 .. (SeqMod - 1)
  BY <1>1, IntMod DEF SeqOf
<1>5. p - c = SeqMod * (q - k) + SeqOf(p)
  <2> DEFINE x == SeqMod * q
             y == SeqMod * k
  <2>1. SeqMod * (q - k) = x - y /\ x \in Int /\ y \in Int
    BY <1>1
  <2> HIDE DEF x, y
  <2> QED BY <1>2, <1>3, <1>4, <2>1 DEF x, y
<1>6. p - c \in Int /\ q - k \in Int
  OBVIOUS
<1> HIDE DEF SeqOf
<1>7. (p - c) % SeqMod = SeqOf(p)
  BY <1>1, <1>4, <1>5, <1>6, ModUnique
<1> QED BY <1>7 DEF SeqOf

\* The first packet fixes the place to count from.
LEMMA FeedFirst ==
  ASSUME NEW m, Record(m), ~m.have, m.n_dup \in Nat, NEW p \in Int, NEW c \in Int,
         SeqOf(p) = p - c
  PROVE  Exact(Feed(m, SeqOf(p)), {p}, p, p, c) /\ Feed(m, SeqOf(p)).n_dup = m.n_dup
<1> DEFINE r == Feed(m, SeqOf(p))
<1>1. r = FirstFeed(m, p - c)
  BY DEF Feed
<1> HIDE DEF r
<1>2. /\ Record(r) /\ r.have /\ r.n_dup = m.n_dup /\ r.first = p - c /\ r.max = p - c
      /\ r.n_distinct = 1 /\ r.seen = {Bit(p - c)}
  BY <1>1 DEF Record, FirstFeed, Fields
<1>3. IsFiniteSet({p}) /\ Cardinality({p}) = 1
  BY FS_Singleton
<1>4. ASSUME NEW q \in (p - Win + 1) .. p PROVE Bit(q - c) \in {Bit(p - c)} <=> q \in {p}
  <2>1. Win \in Nat \ {0} /\ q \in Int
    BY SeqAssumption
  <2>2. Bit(q - c) = Bit(p - c) => q - c = p - c
    BY <2>1, BitUnique
  <2> QED BY <2>1, <2>2
<1> QED BY <1>2, <1>3, <1>4 DEF Exact, r

LEMMA ExactFacts ==
  ASSUME NEW m, NEW A, NEW b, NEW h, NEW c, Exact(m, A, b, h, c)
  PROVE  /\ Win \in Nat \ {0} /\ h \in Int /\ b \in Int /\ c \in Int /\ m.n_dup \in Nat
         /\ m.max = h - c /\ m.first = b - c /\ Record(m) /\ m.have
         /\ \A q \in A : q <= h /\ q \in Int
<1>1. Win \in Nat \ {0}
  BY SeqAssumption
<1>2. /\ h \in Int /\ b \in Int /\ c \in Int /\ m.n_dup \in Nat
      /\ m.max = h - c /\ m.first = b - c /\ Record(m) /\ m.have
  BY DEF Exact
<1>3. \A q \in A : q <= h /\ q \in Int
  BY DEF Exact
<1> QED BY <1>1, <1>2, <1>3

LEMMA ForwardExact ==
  ASSUME NEW m, NEW A, NEW b, NEW h, NEW c, Exact(m, A, b, h, c),
         NEW p \in Int, p > h, p - h < Half, NEW B, B = A \cup {p}
  PROVE  /\ Exact(Forward(m, p - h), B, b, p, c)
         /\ Forward(m, p - h).n_dup = m.n_dup /\ p \notin A
<1>0. /\ Win \in Nat \ {0} /\ h \in Int /\ b \in Int /\ c \in Int
      /\ m.max = h - c /\ m.first = b - c /\ Record(m) /\ m.have
      /\ \A q \in A : q <= h /\ q \in Int
  BY ExactFacts
<1> DEFINE r == Forward(m, p - h)
           from == IF p - h > Win THEN p - c - Win ELSE h - c + 1
           cleared == {Bit(q) : q \in from .. (p - c - 1)}
<1>a. m.max + (p - h) = p - c /\ (p - h > Win => m.max + (p - h) - Win = p - c - Win) /\ m.max + 1 = h - c + 1
  BY <1>0
<1>b. r = [m EXCEPT !.max = p - c, !.n_seen = @ + 1, !.n_distinct = @ + 1,
                    !.n_gap = @ + (p - h) - 1, !.epoch = (p - c) \div SeqMod,
                    !.seen = (@ \ cleared) \cup {Bit(p - c)}]
  BY <1>a DEF Forward
<1> HIDE DEF r
<1>1. /\ r.have /\ r.first = b - c /\ r.max = p - c
      /\ r.n_distinct = m.n_distinct + 1 /\ r.n_dup = m.n_dup
      /\ r.seen = (m.seen \ cleared) \cup {Bit(p - c)}
  <2> HIDE DEF cleared, from
  <2> QED BY <1>0, <1>b DEF Record, Fields
<1>2. Record(r)
  <2> HIDE DEF cleared, from
  <2> QED BY <1>0, <1>b DEF Record, Fields
<1>3. p \notin A
  BY <1>0
<1>4. IsFiniteSet(B) /\ Cardinality(B) = Cardinality(A) + 1
  BY <1>3, FS_AddElement DEF Exact
<1>5. ASSUME NEW q \in (p - Win + 1) .. p
      PROVE  Bit(q - c) \in r.seen <=> q \in B
  <2>0. q \in Int /\ q - c \in Int /\ p - c \in Int
    BY <1>0
  <2>1. CASE q = p
    BY <2>1, <1>1
  <2>2. CASE q # p /\ q > h
    <3>1. Bit(q - c) \in cleared
      BY <2>2, <2>0, <1>0
    <3>2. Bit(q - c) # Bit(p - c)
      BY <2>2, <2>0, <1>0, BitUnique
    <3>3. q \notin B
      BY <2>2, <2>0, <1>0
    <3> HIDE DEF cleared
    <3> QED BY <1>1, <3>1, <3>2, <3>3
  <2>3. CASE q # p /\ q <= h
    <3>1. q \in (h - Win + 1) .. h /\ from = h - c + 1
      BY <2>3, <2>0, <1>0
    <3>2. Bit(q - c) # Bit(p - c)
      BY <2>3, <2>0, <1>0, BitUnique
    <3>3. Bit(q - c) \notin cleared
      <4> SUFFICES ASSUME NEW x \in from .. (p - c - 1), Bit(q - c) = Bit(x) PROVE FALSE
        OBVIOUS
      <4>1. x \in Int /\ x > h - c /\ x < p - c
        BY <3>1, <1>0
      <4>2. x - (q - c) < Win /\ (q - c) - x < Win
        BY <4>1, <2>3, <2>0, <1>0
      <4> HIDE DEF from
      <4>3. q - c = x
        BY <4>1, <4>2, <2>0, BitUnique
      <4> QED BY <4>1, <4>3, <2>3, <1>0
    <3>4. Bit(q - c) \in m.seen <=> q \in A
      BY <3>1, <1>0 DEF Exact
    <3> HIDE DEF cleared
    <3> QED BY <1>1, <3>2, <3>3, <3>4, <2>3
  <2> QED BY <2>0, <2>1, <2>2, <2>3, <1>0
<1> HIDE DEF from, cleared
<1>6. B \subseteq Int /\ (\A q \in B : q <= p) /\ b \in B /\ p \in B
  BY <1>0 DEF Exact
<1>7. r.n_dup \in Nat /\ r.n_distinct = Cardinality(B)
  BY <1>1, <1>4 DEF Exact
<1>8. Exact(r, B, b, p, c)
  BY <1>0, <1>1, <1>2, <1>4, <1>5, <1>6, <1>7 DEF Exact
<1> QED BY <1>1, <1>3, <1>8 DEF r

LEMMA BehindExact ==
  ASSUME NEW m, NEW A, NEW b, NEW h, NEW c, Exact(m, A, b, h, c),
         NEW p \in Int, p <= h, h - p < Win, NEW B, B = A \cup {p}
  PROVE  /\ Exact(Behind(m, p - c), B, b, h, c)
         /\ Behind(m, p - c).n_dup # m.n_dup <=> p \in A
<1> DEFINE r == Behind(m, p - c)
<1>0. /\ Win \in Nat \ {0} /\ h \in Int /\ b \in Int /\ c \in Int /\ m.n_dup \in Nat
      /\ m.max = h - c /\ m.first = b - c /\ Record(m) /\ m.have
      /\ \A q \in A : q <= h /\ q \in Int
  BY ExactFacts
<1>1. Bit(p - c) \in m.seen <=> p \in A
  BY <1>0 DEF Exact
<1>2. CASE p \in A
  <2>1. B = A
    BY <1>2
  <2>2. r = [m EXCEPT !.n_seen = @ + 1, !.n_dup = @ + 1]
    BY <1>1, <1>2 DEF Behind
  <2> HIDE DEF r
  <2>3. r.n_dup = m.n_dup + 1 /\ r.n_dup \in Nat /\ r.n_dup # m.n_dup
    BY <1>0, <2>2 DEF Record, Fields
  <2>4. Record(r)
    BY <1>0, <2>2 DEF Record, Fields
  <2>5. /\ r.have = m.have /\ r.first = m.first /\ r.max = m.max
        /\ r.n_distinct = m.n_distinct /\ r.seen = m.seen
    BY <1>0, <2>2 DEF Record, Fields
  <2>6. Exact(r, A, b, h, c)
    BY <2>3, <2>4, <2>5 DEF Exact
  <2>7. Exact(r, B, b, h, c)
    BY <2>1, <2>6
  <2> QED BY <1>2, <2>3, <2>7 DEF r
<1>3. CASE p \notin A
  <2>1. r = [m EXCEPT !.n_seen = @ + 1, !.n_distinct = @ + 1, !.n_reorder = @ + 1,
                      !.seen = @ \cup {Bit(p - c)}]
    BY <1>1, <1>3 DEF Behind
  <2> HIDE DEF r
  <2>2. /\ r.have = m.have /\ r.first = m.first /\ r.max = m.max
        /\ r.n_distinct = m.n_distinct + 1 /\ r.seen = m.seen \cup {Bit(p - c)}
        /\ r.n_dup = m.n_dup
    BY <1>0, <2>1 DEF Record, Fields
  <2>3. Record(r)
    BY <1>0, <2>1 DEF Record, Fields
  <2>4. IsFiniteSet(B) /\ Cardinality(B) = Cardinality(A) + 1
    BY <1>3, FS_AddElement DEF Exact
  <2>5. ASSUME NEW q \in (h - Win + 1) .. h
        PROVE  Bit(q - c) \in r.seen <=> q \in B
    <3>1. q \in Int /\ (q - c) - (p - c) < Win /\ (p - c) - (q - c) < Win
      BY <1>0
    <3>2. Bit(q - c) = Bit(p - c) => q - c = p - c
      BY <1>0, <3>1, BitUnique
    <3>3. Bit(q - c) \in m.seen <=> q \in A
      BY DEF Exact
    <3>4. q - c = p - c => q = p
      BY <1>0, <3>1
    <3> QED BY <2>2, <3>2, <3>3, <3>4
  <2>6. B \subseteq Int /\ (\A q \in B : q <= h) /\ b \in B /\ h \in B
    BY <1>0 DEF Exact
  <2>7. Exact(r, B, b, h, c)
    BY <1>0, <2>2, <2>3, <2>4, <2>5, <2>6 DEF Exact
  <2> QED BY <1>3, <2>2, <2>7 DEF r
<1> QED BY <1>2, <1>3

\* A packet less than the bitmap behind the head and less than half the sequence
\* space ahead of it is put where it belongs, by its 16-bit number alone.
LEMMA FeedExact ==
  ASSUME NEW m, NEW A, NEW b, NEW h, NEW c, Exact(m, A, b, h, c), Turns(c),
         NEW p \in Int, p - h < Half, h - p < Win,
         NEW B, B = A \cup {p}, NEW g, g = IF p > h THEN p ELSE h
  PROVE  /\ Exact(Feed(m, SeqOf(p)), B, b, g, c)
         /\ Feed(m, SeqOf(p)).n_dup # m.n_dup <=> p \in A
<1>0. h \in Int /\ c \in Int /\ m.have /\ m.max = h - c /\ Win \in Nat /\ Half \in Nat /\ Win <= Half
  BY SeqAssumption DEF Exact
<1>1. SeqOf(p) = SeqOf(p - c)
  BY <1>0, SeqShift
<1>2. SignedDiff(SeqOf(p), m.max) = p - h
  <2>1. p - c \in Int /\ h - c \in Int /\ (p - c) - (h - c) = p - h /\ p - h >= -Half
    BY <1>0
  <2>2. SignedDiff(SeqOf(p - c), h - c) = (p - c) - (h - c)
    BY <2>1, DiffExact
  <2> QED BY <1>0, <1>1, <2>1, <2>2
<1>3. CASE p > h
  <2>1. Feed(m, SeqOf(p)) = Forward(m, p - h)
    BY <1>0, <1>2, <1>3 DEF Feed
  <2>2. Exact(Forward(m, p - h), B, b, p, c) /\ Forward(m, p - h).n_dup = m.n_dup /\ p \notin A
    BY <1>3, ForwardExact
  <2> QED BY <1>3, <2>1, <2>2
<1>4. CASE ~(p > h)
  <2>1. Feed(m, SeqOf(p)) = Behind(m, p - c)
    <3>1. m.max + (p - h) = p - c
      BY <1>0
    <3> QED BY <1>0, <1>2, <1>4, <3>1 DEF Feed
  <2>2. /\ Exact(Behind(m, p - c), B, b, h, c)
        /\ Behind(m, p - c).n_dup # m.n_dup <=> p \in A
    BY <1>0, <1>4, p <= h, BehindExact
  <2> QED BY <1>4, <2>1, <2>2
<1> QED BY <1>3, <1>4

=============================================================================
