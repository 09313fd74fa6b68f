------------------------------ MODULE Numbers -------------------------------
(***************************************************************************)
(* Facts about numbers that the proofs share: division and remainder with  *)
(* a positive divisor, as the sequence numbers and the block geometry of   *)
(* the code need them, and induction, with a set in the place of the       *)
(* predicate.                                                              *)
(***************************************************************************)
EXTENDS Integers, WellFoundedInduction, TLAPS

\* A set of natural numbers has a least element.
LEMMA LeastElement ==
  ASSUME NEW T \in SUBSET Nat, T # {}
  PROVE  \E x \in T : \A y \in T : x <= y
<1> DEFINE R == OpToRel(<, Nat)
<1>1. IsWellFoundedOn(R, Nat)
  BY NatLessThanWellFounded
<1>2. \A x, y \in Nat : x < y => <<x, y>> \in R
  BY DEF OpToRel
<1> HIDE DEF R
<1>3. T \subseteq Nat
  OBVIOUS
<1>4. PICK x \in T : \A y \in T : ~(<<y, x>> \in R)
  BY <1>1, <1>3, WFMin, Zenon
<1>5. \A y \in T : ~(y < x)
  BY <1>2, <1>3, <1>4
<1> QED BY <1>3, <1>5

\* Induction up to n: S stands for the numbers that have the property.
LEMMA SetInduction ==
  ASSUME NEW n \in Nat, NEW S, 0 \in S, \A k \in 1 .. n : k - 1 \in S => k \in S
  PROVE  \A k \in 0 .. n : k \in S
<1> DEFINE T == (0 .. n) \ S
<1>1. ASSUME T # {} PROVE FALSE
  <2>1. T \in SUBSET Nat /\ \A x \in T : x \in 0 .. n /\ x \notin S
    OBVIOUS
  <2>2. \A x \in 0 .. n : x \notin S => x \in T
    OBVIOUS
  <2> HIDE DEF T
  <2>3. PICK x \in T : \A y \in T : x <= y
    BY <1>1, <2>1, LeastElement
  <2>4. x \in 0 .. n /\ x \notin S /\ x # 0
    BY <2>1
  <2>5. x \in 1 .. n /\ x - 1 \in 0 .. n /\ ~(x <= x - 1)
    BY <2>4
  <2>6. x - 1 \in S
    BY <2>2, <2>3, <2>5
  <2> QED BY <2>4, <2>5, <2>6
<1> QED BY <1>1

\* A loop that goes through states of a set St has a run of every length: f is the
\* run up to n.
IsRun(f, n, St, init, step) ==
  /\ f \in [0 .. n -> St]
  /\ f[0] = init
  /\ \A k \in 1 .. n : f[k] = step[<<k, f[k - 1]>>]

LEMMA RunExists ==
  ASSUME NEW N \in Nat, NEW St, NEW init \in St, NEW step \in [(1 .. N) \X St -> St]
  PROVE  \E f : IsRun(f, N, St, init, step)
<1> DEFINE S == {n \in 0 .. N : \E f : IsRun(f, n, St, init, step)}
<1>1. 0 \in S
  <2> DEFINE f == [k \in 0 .. 0 |-> init]
  <2>1. IsRun(f, 0, St, init, step)
    BY DEF IsRun
  <2> QED BY <2>1
<1>2. ASSUME NEW n \in 1 .. N, n - 1 \in S PROVE n \in S
  <2>1. PICK f : IsRun(f, n - 1, St, init, step)
    BY <1>2
  <2> DEFINE x == step[<<n, f[n - 1]>>]
             g == [k \in 0 .. n |-> IF k < n THEN f[k] ELSE x]
  <2>2. \A k \in 0 .. (n - 1) : f[k] \in St
    BY <2>1 DEF IsRun
  <2>3. x \in St
    BY <2>2
  <2> HIDE DEF x
  <2>4. g \in [0 .. n -> St] /\ g[0] = init
    BY <2>1, <2>2, <2>3 DEF IsRun
  <2>5. ASSUME NEW k \in 1 .. n PROVE g[k] = step[<<k, g[k - 1]>>]
    <3>1. g[k - 1] = f[k - 1]
      OBVIOUS
    <3>2. CASE k < n
      BY <2>1, <3>1, <3>2 DEF IsRun
    <3>3. CASE k = n
      <4>1. g[n] = x
        OBVIOUS
      <4> HIDE DEF g
      <4>2. g[k] = x /\ g[k - 1] = f[n - 1]
        BY <3>1, <3>3, <4>1
      <4> QED BY <3>3, <4>2 DEF x
    <3> QED BY <3>2, <3>3
  <2> HIDE DEF g
  <2>6. IsRun(g, n, St, init, step)
    BY <2>4, <2>5 DEF IsRun
  <2> QED BY <2>6
<1> HIDE DEF S
<1>3. \A k \in 0 .. N : k \in S
  BY <1>1, <1>2, SetInduction
<1>4. N \in S
  BY <1>3
<1> QED BY <1>4 DEF S

\* Division with a positive divisor (the C operators / and % on uint32_t).
LEMMA DivMod ==
  ASSUME NEW n \in Nat, NEW d \in Nat \ {0}
  PROVE  /\ n \div d \in Nat
         /\ n % d \in 0 .. (d - 1)
         /\ n = d * (n \div d) + (n % d)
  OBVIOUS

LEMMA DivUnique ==
  ASSUME NEW n \in Nat, NEW d \in Nat \ {0}, NEW q \in Nat, NEW r \in 0 .. (d - 1),
         n = d * q + r
  PROVE  n \div d = q
<1>1. /\ n \div d \in Nat
      /\ n % d \in 0 .. (d - 1)
      /\ n = d * (n \div d) + (n % d)
  BY DivMod
<1> QED BY <1>1

\* A multiple of d that lies strictly between -d and d is 0.
LEMMA SmallMultiple ==
  ASSUME NEW d \in Nat \ {0}, NEW k \in Int, -d < d * k, d * k < d
  PROVE  k = 0
<1>1. CASE k >= 1
  <2>1. d * k = d + d * (k - 1) /\ k - 1 \in Nat
    BY <1>1
  <2>2. d * (k - 1) \in Nat
    BY <2>1
  <2> DEFINE x == d * (k - 1)
             y == d * k
  <2>3. y = d + x /\ x \in Nat /\ y < d
    BY <2>1, <2>2
  <2> HIDE DEF x, y
  <2> QED BY <2>3
<1>2. CASE k <= -1
  <2>1. d * k = -d - d * (-k - 1) /\ -k - 1 \in Nat
    BY <1>2
  <2>2. d * (-k - 1) \in Nat
    BY <2>1
  <2> DEFINE x == d * (-k - 1)
             y == d * k
  <2>3. y = -d - x /\ x \in Nat /\ -d < y
    BY <2>1, <2>2
  <2> HIDE DEF x, y
  <2> QED BY <2>3
<1> QED BY <1>1, <1>2

\* The C remainder of the unsigned arithmetic, on any integer.
LEMMA IntMod ==
  ASSUME NEW n \in Int, NEW d \in Nat \ {0}
  PROVE  n % d \in 0 .. (d - 1) /\ \E q \in Int : n = d * q + (n % d)
<1>1. n \div d \in Int /\ n % d \in 0 .. (d - 1) /\ n = d * (n \div d) + (n % d)
  OBVIOUS
<1> QED BY <1>1

LEMMA ModUnique ==
  ASSUME NEW n \in Int, NEW d \in Nat \ {0}, NEW q \in Int, NEW r \in 0 .. (d - 1),
         n = d * q + r
  PROVE  n % d = r
<1>1. n % d \in 0 .. (d - 1)
  BY IntMod
<1>2. PICK a \in Int : n = d * a + (n % d)
  BY IntMod
<1> DEFINE m == n % d
<1>3. d * (a - q) = r - m
  <2>1. d * (a - q) = d * a - d * q
    OBVIOUS
  <2> DEFINE x == d * a
             y == d * q
  <2>2. x \in Int /\ y \in Int /\ n = x + m /\ n = y + r /\ m \in Int
    BY <1>1, <1>2
  <2> HIDE DEF x, y, m
  <2>3. x - y = r - m
    BY <2>2
  <2> QED BY <2>1, <2>3 DEF x, y
<1>4. a - q = 0
  <2>1. -d < r - m /\ r - m < d /\ a - q \in Int
    BY <1>1
  <2> HIDE DEF m
  <2> QED BY <1>3, <2>1, SmallMultiple
<1>5. a = q
  BY <1>4
<1> QED BY <1>2, <1>5, <1>1

\* Two numbers less than d apart with the same remainder are equal.
LEMMA NearResidues ==
  ASSUME NEW d \in Nat \ {0}, NEW p \in Int, NEW q \in Int,
         p - q < d, q - p < d, p % d = q % d
  PROVE  p = q
<1>1. PICK a \in Int : p = d * a + (p % d)
  BY IntMod
<1>2. PICK b \in Int : q = d * b + (q % d)
  BY IntMod
<1>3. d * (a - b) = p - q
  <2>1. d * (a - b) = d * a - d * b
    OBVIOUS
  <2>2. p % d \in Int /\ q % d = p % d
    BY IntMod
  <2> DEFINE x == d * a
             y == d * b
             r == p % d
  <2>3. x \in Int /\ y \in Int /\ r \in Int /\ p = x + r /\ q = y + r
    BY <1>1, <1>2, <2>2
  <2> HIDE DEF x, y, r
  <2>4. x - y = p - q
    BY <2>3
  <2> QED BY <2>1, <2>4 DEF x, y
<1>4. a - b = 0
  BY <1>3, SmallMultiple, a - b \in Int, -d < p - q, p - q < d
<1>5. d * (a - b) = 0
  BY <1>4
<1> QED BY <1>3, <1>5

\* p, the number of a position in turn e of m = 2 * h numbers, and q, the number of
\* the position d further on: ci_seq_is_wrap tells from them whether q is in the
\* next turn.
TellsTurn(h, m, e, p, d, q) ==
  /\ q \in 0 .. (m - 1)
  /\ (q - p) % m < h /\ q < p => m * (e + 1) + q = m * e + p + d
  /\ ~((q - p) % m < h /\ q < p) => q = p + d

\* It does when the flow has advanced by less than half a turn.
LEMMA NextNumber ==
  ASSUME NEW h \in Nat \ {0}, NEW m, m = 2 * h, NEW e \in Int, NEW p \in 0 .. (m - 1), NEW d \in 0 .. (h - 1),
         NEW q, q = (m * e + p + d) % m
  PROVE  TellsTurn(h, m, e, p, d, q)
<1>0. m \in Nat \ {0} /\ m = h + h
  OBVIOUS
<1>1. m * e \in Int /\ m * (e + 1) \in Int /\ m * (e + 1) = m * e + m
  BY <1>0
<1> DEFINE a == m * e
           b == m * (e + 1)
<1>2. a \in Int /\ b = a + m
  BY <1>1
<1>3. CASE p + d < m
  <2>1. p + d \in 0 .. (m - 1) /\ a + p + d = a + (p + d) /\ a + p + d \in Int
    BY <1>0, <1>2, <1>3
  <2>2. q = p + d
    BY <1>0, <2>1, ModUnique
  <2>3. ~(q < p) /\ q \in 0 .. (m - 1)
    BY <2>1, <2>2
  <2> QED BY <2>2, <2>3 DEF TellsTurn
<1>4. CASE ~(p + d < m)
  <2>1. p + d - m \in 0 .. (m - 1) /\ a + p + d = b + (p + d - m) /\ a + p + d \in Int /\ e + 1 \in Int
    BY <1>0, <1>2, <1>4
  <2>2. q = p + d - m
    BY <1>0, <2>1, ModUnique
  <2>3. (q - p) % m = d
    <3>1. q - p = m * (-1) + d /\ q - p \in Int /\ d \in 0 .. (m - 1) /\ -1 \in Int
      BY <1>0, <2>2
    <3> QED BY <1>0, <3>1, ModUnique
  <2>4. q < p /\ d < h /\ q \in 0 .. (m - 1)
    BY <1>0, <2>1, <2>2
  <2>5. b + q = a + p + d
    BY <1>0, <1>2, <2>2
  <2> QED BY <2>3, <2>4, <2>5 DEF TellsTurn
<1> QED BY <1>3, <1>4

LEMMA Distribute ==
  ASSUME NEW m \in Int, NEW a \in Int, NEW b \in Int, NEW q \in Int, NEW x, m * (a + b) + q = x
  PROVE  b * m + q = x - a * m /\ x \in Int
<1> DEFINE c == m * a
           d == m * b
<1>1. m * (a + b) = c + d /\ c \in Int /\ d \in Int /\ b * m = d /\ a * m = c
  OBVIOUS
<1> HIDE DEF c, d
<1> QED BY <1>1

\* Numbers that are close have close quotients.
LEMMA DivGap ==
  ASSUME NEW m \in Nat, NEW n \in Nat, NEW d \in Nat \ {0}, NEW e \in Nat, n <= m + e
  PROVE  n \div d <= m \div d + ((e + d - 1) \div d)
<1> DEFINE a == m \div d
           b == n \div d
           q == (e + d - 1) \div d
           c == b - a - q
<1>1. a \in Nat /\ m % d \in 0 .. (d - 1) /\ m = d * a + (m % d)
  BY DivMod
<1>2. b \in Nat /\ n % d \in 0 .. (d - 1) /\ n = d * b + (n % d)
  BY DivMod
<1>3. e + d - 1 \in Nat
  OBVIOUS
<1>4. q \in Nat /\ (e + d - 1) % d \in 0 .. (d - 1)
      /\ e + d - 1 = d * q + ((e + d - 1) % d)
  BY <1>3, DivMod
<1> HIDE DEF a, b, q
<1>5. ASSUME c >= 1 PROVE FALSE
  <2>1. c - 1 \in Nat /\ d * (c - 1) \in Nat /\ d * c = d + d * (c - 1)
    BY <1>1, <1>2, <1>4, <1>5
  <2>2. d * b = d * a + d * q + d * c
    BY <1>1, <1>2, <1>4
  <2>3. d * a \in Nat /\ d * b \in Nat /\ d * q \in Nat /\ d * c \in Nat
    BY <1>1, <1>2, <1>4, <2>1
  <2> QED BY <1>1, <1>2, <1>4, <2>1, <2>2, <2>3
<1> QED BY <1>1, <1>2, <1>4, <1>5 DEF a, b, q

LEMMA NextMultiple ==
  ASSUME NEW p \in Nat \ {0}, NEW s \in Nat, NEW o \in Nat, s <= o, (o - s) % p = 0
  PROVE  ((o + p) - s) % p = 0
<1> DEFINE d == o - s
           q == d \div p
           e == (o + p) - s
<1>1. d \in Nat /\ d % p = 0 /\ e = d + p /\ e \in Int
  OBVIOUS
<1>2. q \in Nat /\ d = p * q + (d % p)
  BY <1>1, DivMod
<1> HIDE DEF d, q, e
<1>3. e = p * (q + 1) + 0 /\ q + 1 \in Int /\ 0 \in 0 .. (p - 1)
  BY <1>1, <1>2
<1>4. e % p = 0
  BY <1>1, <1>3, ModUnique
<1> QED BY <1>4 DEF e

LEMMA MultipleBelow ==
  ASSUME NEW p \in Nat \ {0}, NEW s \in Nat, NEW j \in Nat, s <= j
  PROVE  \E o \in Nat : s <= o /\ o <= j /\ j < o + p /\ (o - s) % p = 0
<1> DEFINE d == j - s
           q == d \div p
           r == d % p
           m == p * q
<1>1. d \in Nat /\ j = s + d
  OBVIOUS
<1>2. q \in Nat /\ r \in 0 .. (p - 1) /\ d = p * q + r
  BY <1>1, DivMod
<1> HIDE DEF d, q, r
<1>3. m \in Nat /\ d = m + r /\ m = p * q + 0 /\ 0 \in 0 .. (p - 1)
  BY <1>2
<1>4. m % p = 0
  BY <1>2, <1>3, ModUnique
<1> HIDE DEF m
<1> DEFINE o == s + m
<1>5. o \in Nat /\ s <= o /\ o <= j /\ j < o + p /\ o - s = m
  BY <1>1, <1>2, <1>3
<1> HIDE DEF o
<1>6. (o - s) % p = 0
  BY <1>4, <1>5
<1> QED BY <1>5, <1>6

\* The numbers of two positions in the same turn, the second below the first.
LEMMA NumberBack ==
  ASSUME NEW h \in Nat \ {0}, NEW m, m = 2 * h, NEW p \in 0 .. (m - 1), NEW q \in 0 .. (m - 1),
         p - q \in 1 .. (h - 1)
  PROVE  ~((q - p) % m < h)
<1>1. m \in Nat \ {0} /\ m = h + h
  OBVIOUS
<1> DEFINE k == m - (p - q)
<1>2. k \in 0 .. (m - 1) /\ q - p = m * (-1) + k /\ q - p \in Int /\ -1 \in Int /\ k > h
  BY <1>1
<1> HIDE DEF k
<1>3. (q - p) % m = k
  BY <1>1, <1>2, ModUnique
<1> QED BY <1>2, <1>3

\* The new number is taken for one of the next turn.
Wraps(h, m, prev, new) == (new - prev) % m < h /\ new < prev

\* Position p is number seq of turn b + epoch.
NumberAt(m, b, epoch, seq, p) ==
  epoch \in Int /\ seq \in 0 .. (m - 1) /\ m * (b + epoch) + seq = p

\* The turn is followed from position a to p, less than half the numbers apart and
\* not back across a wrap.
LEMMA FollowsTurn ==
  ASSUME NEW h \in Nat \ {0}, NEW m, m = 2 * h,
         NEW b \in Int, NEW ep, NEW last, NEW a \in Nat, NumberAt(m, b, ep, last, a),
         NEW p \in Nat, p - a \in (1 - h) .. (h - 1),
         a \div m <= p \div m,
         NEW seq, seq = p % m,
         NEW e, e = IF Wraps(h, m, last, seq) THEN ep + 1 ELSE ep
  PROVE  NumberAt(m, b, e, seq, p)
<1>0. h \in Nat \ {0} /\ m = 2 * h /\ m \in Nat \ {0}
  OBVIOUS
<1>1. ep \in Int /\ last \in 0 .. (m - 1) /\ m * (b + ep) + last = a
  BY DEF NumberAt
<1> DEFINE turn == b + ep
           d == p - a
<1>2. turn \in Int /\ m * turn + last = a
  BY <1>1
<1>3. CASE a <= p
  <2>1. d \in 0 .. (h - 1)
    BY <1>0, <1>3
  <2>2. m * turn + last + d = p
    <3> DEFINE x == m * turn
    <3>1. x \in Int /\ x + last = a
      BY <1>0, <1>2
    <3> HIDE DEF x, turn
    <3>2. x + last + d = p
      BY <1>1, <3>1
    <3> QED BY <3>2 DEF x
  <2> HIDE DEF turn, d
  <2>3. seq = (m * turn + last + d) % m
    BY <2>2
  <2>4. TellsTurn(h, m, turn, last, d, seq)
    BY ONLY <1>0, <1>1, <1>2, <2>1, <2>3, NextNumber
  <2>5. CASE Wraps(h, m, last, seq)
    <3>1. m * (turn + 1) + seq = p /\ seq \in 0 .. (m - 1)
      BY <2>2, <2>4, <2>5 DEF Wraps, TellsTurn
    <3>2. turn + 1 = b + e /\ e \in Int
      BY <1>1, <2>5 DEF turn
    <3> QED BY <3>1, <3>2 DEF NumberAt
  <2>6. CASE ~Wraps(h, m, last, seq)
    <3>1. seq = last + d /\ seq \in 0 .. (m - 1)
      BY <2>4, <2>6 DEF Wraps, TellsTurn
    <3>2. m * turn + seq = p
      <4> DEFINE y == m * turn
      <4>1. y \in Int /\ y + last + d = p
        BY <1>0, <1>2, <2>2
      <4> HIDE DEF y
      <4>2. y + seq = p
        BY <1>1, <2>1, <3>1, <4>1
      <4> QED BY <4>2 DEF y
    <3>3. turn = b + e /\ e \in Int
      BY <1>1, <2>6 DEF turn
    <3> QED BY <3>1, <3>2, <3>3 DEF NumberAt
  <2> QED BY <2>5, <2>6
<1>4. CASE ~(a <= p)
  <2> DEFINE u == p \div m
  <2>1. u \in Nat /\ seq \in 0 .. (m - 1) /\ p = m * u + seq
    BY <1>0, DivMod
  <2>2. a \div m = turn
    <3>1. turn \in Nat
      <4> DEFINE x == m * turn
      <4>1. x \in Int /\ x + last = a
        BY <1>0, <1>2
      <4>2. x > -m
        <5> HIDE DEF x
        <5> QED BY <1>0, <1>1, <4>1
      <4>3. CASE turn < 0
        <5>1. turn + 1 <= 0 /\ m * turn = m * (turn + 1) - m
          BY <1>0, <1>2, <4>3
        <5>2. m * (turn + 1) <= 0
          <6>1. -(turn + 1) \in Nat
            BY <1>2, <5>1
          <6>2. m * (-(turn + 1)) >= 0
            BY <1>0, <6>1
          <6>3. m * (-(turn + 1)) = -(m * (turn + 1))
            BY <1>0, <1>2
          <6> DEFINE z == m * (turn + 1)
          <6>4. z \in Int /\ -z >= 0
            BY <1>0, <1>2, <6>2, <6>3
          <6> HIDE DEF z
          <6>5. z <= 0
            BY <6>4
          <6> QED BY <6>5 DEF z
        <5> DEFINE z == m * (turn + 1)
        <5>3. z \in Int /\ z <= 0 /\ x = z - m
          BY <1>0, <1>2, <5>1, <5>2
        <5> HIDE DEF z, x
        <5> QED BY <1>0, <4>2, <5>3
      <4> QED BY <1>2, <4>3
    <3> HIDE DEF turn
    <3> QED BY ONLY <1>0, <1>1, <1>2, <3>1, a \in Nat, DivUnique
  <2> HIDE DEF turn
  <2>3. turn <= u
    BY <1>0, <2>2
  <2> HIDE DEF u
  <2>4. u = turn
    <3>1. CASE u > turn
      <4>1. m * u = m * turn + m * (u - turn) /\ u - turn \in Nat \ {0}
        BY <1>0, <1>2, <2>1, <3>1
      <4>2. m * (u - turn) = m + m * (u - turn - 1) /\ u - turn - 1 \in Nat
        BY <1>0, <4>1
      <4>3. m * (u - turn - 1) \in Nat
        BY <1>0, <4>2
      <4> DEFINE x == m * u
                 y == m * turn
                 z == m * (u - turn - 1)
                 w == m * (u - turn)
      <4>4. x \in Int /\ y \in Int /\ z \in Nat /\ w \in Int /\ x = y + w /\ w = m + z /\ p = x + seq /\ y + last = a
        BY <1>0, <1>2, <2>1, <4>1, <4>2, <4>3
      <4> HIDE DEF x, y, z, w
      <4>5. p > a
        BY <1>0, <1>1, <2>1, <4>4
      <4> QED BY <1>4, <4>5
    <3> QED BY <1>2, <2>1, <2>3, <3>1
  <2>5. last - seq = a - p
    <3> DEFINE y == m * turn
    <3>1. y \in Int /\ y + last = a /\ p = y + seq
      BY <1>0, <1>2, <2>1, <2>4
    <3> HIDE DEF y
    <3> QED BY <1>1, <2>1, <3>1
  <2>6. last - seq \in 1 .. (h - 1)
    BY <1>0, <1>4, <2>5
  <2>7. ~Wraps(h, m, last, seq)
    BY ONLY <1>0, <1>1, <2>1, <2>6, NumberBack DEF Wraps
  <2> QED BY <1>1, <2>1, <2>4, <2>7 DEF NumberAt, turn
<1> QED BY <1>3, <1>4

=============================================================================
