------------------------- MODULE SvuTransfer_proofs -------------------------
(***************************************************************************)
(* Safety of the SVU transfer for every payload, size, block size, packet  *)
(* size, number of rounds, attempts, ports, faults and restarts, and the   *)
(* proof that it implements SvuDelivery.  First the operators of           *)
(* lib/ci_svu.c it rests on; then the tracker on its own, whose verdict,   *)
(* requests and loops are right for every sequence of fragments; then why  *)
(* one link fault cannot pass off a mix of files as a file; last why only  *)
(* faults cost rounds.                                                     *)
(***************************************************************************)
EXTENDS SvuTransfer, SvuTracker, Numbers, FiniteSetTheorems, SequenceTheorems

-----------------------------------------------------------------------------
(* The SVU core's operators, for every word width, digest length, payload  *)
(* and block size.                                                         *)

\* ci_svu_nblocks is the number of blocks that covers the payload exactly, or 0
\* when the uint32_t sum wrapped (which ci_svu_new then refuses): the wrap never
\* yields a count that is merely too small.
THEOREM NBlocksExact ==
  ASSUME NEW size \in 0 .. (Word - 1), NEW block \in 1 .. (Word - 1)
  PROVE  /\ NBlocks(size, block) \in Nat
         /\ NBlocks(size, block) # 0 =>
              /\ size <= NBlocks(size, block) * block
              /\ (NBlocks(size, block) - 1) * block < size
<1> DEFINE s == size + block - 1
           q == s \div block
<1>1. CASE size = 0
  BY <1>1 DEF NBlocks
<1>2. CASE size # 0 /\ s < Word
  <2>1. s \in Nat /\ Word \in Nat \ {0} /\ block \in Nat \ {0}
    BY WordAssumption
  <2>2. s % Word = s
    BY <1>2, <2>1
  <2>3. NBlocks(size, block) = q
    BY <1>2, <2>2, <2>1 DEF NBlocks
  <2>4. q \in Nat /\ s % block \in 0 .. (block - 1) /\ s = block * q + (s % block)
    BY <2>1, DivMod
  <2>5. size <= q * block /\ (q - 1) * block < size
    <3> DEFINE r == s % block
               p == block * q
    <3>1. p \in Nat /\ q * block = p /\ (q - 1) * block = p - block
      BY <2>1, <2>4
    <3>2. r \in 0 .. (block - 1) /\ size + block - 1 = p + r
      BY <2>4
    <3> HIDE DEF r, p, q, s
    <3> QED BY <3>1, <3>2, <2>1
  <2> QED BY <2>3, <2>4, <2>5
<1>3. CASE size # 0 /\ ~(s < Word)
  <2>1. s - Word \in 0 .. (block - 1) /\ s \in Nat /\ Word \in Nat \ {0}
    BY <1>3, WordAssumption
  <2>2. s = Word * 1 + (s - Word)
    BY <2>1
  <2>3. s % Word = s - Word
    BY <2>1, s < 2 * Word
  <2>4. (s - Word) \div block = 0
    <3>1. s - Word \in Nat /\ block \in Nat \ {0} /\ s - Word = block * 0 + (s - Word)
      BY <2>1
    <3> QED BY <3>1, <2>1, DivUnique
  <2> QED BY <1>3, <2>3, <2>4 DEF NBlocks
<1> QED BY <1>1, <1>2, <1>3

\* Every byte of the payload lies in a block that ci_svu_verify hashes.
LEMMA ByteInBlock ==
  ASSUME NEW size \in 0 .. (Word - 1), NEW block \in 1 .. (Word - 1),
         NBlocks(size, block) # 0, NEW i \in 0 .. (size - 1)
  PROVE  \E b \in 0 .. (NBlocks(size, block) - 1) :
           i \in BlockStart(b, block) .. (BlockEnd(b, block, size) - 1)
<1> DEFINE b == i \div block
           n == NBlocks(size, block)
<1>1. b \in Nat /\ i % block \in 0 .. (block - 1) /\ i = block * b + (i % block)
  BY DivMod, i \in Nat, block \in Nat \ {0}
<1>2. n \in Nat /\ size <= n * block
  BY NBlocksExact
<1> HIDE DEF b, n
<1>3. b * block <= i /\ i < b * block + block
  BY <1>1
<1>4. b < n
  <2>1. SUFFICES ASSUME n <= b PROVE FALSE
    BY <1>1, <1>2
  <2>2. n * block <= b * block
    BY <2>1, <1>1, <1>2
  <2> QED BY <2>2, <1>1, <1>2, <1>3
<1>5. (b + 1) * block = b * block + block
  BY <1>1
<1>6. i \in BlockStart(b, block) .. (BlockEnd(b, block, size) - 1)
  BY <1>1, <1>3, <1>5 DEF BlockStart, BlockEnd
<1> QED BY <1>1, <1>2, <1>4, <1>6 DEF n

\* A manifest determines its payload: two buffers of the same size whose blocks
\* all hash alike are equal, the short last block included.  This is what lets
\* ci_svu_verify compare digests instead of bytes.
THEOREM DigestsDeterminePayload ==
  ASSUME NEW size \in 0 .. (Word - 1), NEW block \in 1 .. (Word - 1),
         NBlocks(size, block) # 0,
         NEW V, NEW d \in [0 .. (size - 1) -> V], NEW e \in [0 .. (size - 1) -> V],
         \A b \in 0 .. (NBlocks(size, block) - 1) :
           HashBlock(d, size, block, b) = HashBlock(e, size, block, b)
  PROVE  d = e
<1>1. SUFFICES ASSUME NEW i \in 0 .. (size - 1) PROVE d[i] = e[i]
  OBVIOUS
<1>2. PICK b \in 0 .. (NBlocks(size, block) - 1) :
         i \in BlockStart(b, block) .. (BlockEnd(b, block, size) - 1)
  BY ByteInBlock
<1> DEFINE a == BlockStart(b, block)
           k == i - a + 1
<1>3. a \in Int /\ BlockEnd(b, block, size) \in Int
  BY NBlocksExact DEF BlockStart, BlockEnd
<1>4. k \in 1 .. (BlockEnd(b, block, size) - a) /\ a + k - 1 = i
  BY <1>2, <1>3
<1>5. HashBlock(d, size, block, b)[k] = d[i] /\ HashBlock(e, size, block, b)[k] = e[i]
  BY <1>4 DEF HashBlock
<1> QED BY <1>5

\* The digests of a payload and its manifest are sequences.
LEMMA HashBlockType ==
  ASSUME NEW size \in Nat, NEW block \in Nat, NEW V,
         NEW d \in [0 .. (size - 1) -> V], NEW b \in Nat
  PROVE  HashBlock(d, size, block, b) \in Seq(V)
<1> DEFINE a == BlockStart(b, block)
           e == BlockEnd(b, block, size)
           n == IF e >= a THEN e - a ELSE 0
<1>1. a \in Nat /\ e \in Nat /\ e <= size
  BY DEF BlockStart, BlockEnd
<1> HIDE DEF a, e
<1>2. n \in Nat /\ 1 .. n = 1 .. (e - a)
  BY <1>1
<1>3. \A k \in 1 .. n : d[a + k - 1] \in V
  BY <1>1, <1>2
<1> HIDE DEF n
<1>4. [k \in 1 .. n |-> d[a + k - 1]] \in Seq(V)
  BY <1>2, <1>3
<1>5. HashBlock(d, size, block, b) = [k \in 1 .. n |-> d[a + k - 1]]
  BY <1>2 DEF HashBlock, a, e
<1> QED BY <1>4, <1>5

LEMMA ManifestType ==
  ASSUME NEW size \in 0 .. (Word - 1), NEW block \in 1 .. (Word - 1), NEW V,
         NEW d \in [0 .. (size - 1) -> V]
  PROVE  /\ Manifest(d, size, block) \in Seq(Seq(V) \X Nat)
         /\ Len(Manifest(d, size, block)) = NBlocks(size, block) * DigestLen
<1> DEFINE n == NBlocks(size, block) * DigestLen
           m(j) == << HashBlock(d, size, block, (j - 1) \div DigestLen),
                      (j - 1) % DigestLen >>
<1>1. n \in Nat
  BY NBlocksExact, DigestLenAssumption
<1>2. ASSUME NEW j \in 1 .. n PROVE m(j) \in Seq(V) \X Nat
  <2>1. (j - 1) \div DigestLen \in Nat /\ (j - 1) % DigestLen \in Nat
    <3>1. j - 1 \in Nat
      <4> HIDE DEF n
      <4> QED BY <1>1
    <3>2. (j - 1) % DigestLen \in 0 .. (DigestLen - 1) /\ (j - 1) \div DigestLen \in Nat
      BY <3>1, DivMod, DigestLenAssumption
    <3> QED BY <3>2, DigestLenAssumption
  <2>2. HashBlock(d, size, block, (j - 1) \div DigestLen) \in Seq(V)
    BY <2>1, HashBlockType
  <2> QED BY <2>1, <2>2
<1> HIDE DEF m, n
<1>3. [j \in 1 .. n |-> m(j)] \in Seq(Seq(V) \X Nat) /\ Len([j \in 1 .. n |-> m(j)]) = n
  BY <1>1, <1>2
<1>4. Manifest(d, size, block) = [j \in 1 .. n |-> m(j)]
  BY DEF Manifest, m, n
<1> QED BY <1>3, <1>4 DEF n

\* Counting only the bytes that are new keeps a count of distinct bytes.
LEMMA FreshCount ==
  ASSUME NEW A, NEW T, IsFiniteSet(A), IsFiniteSet(T \ A)
  PROVE  Cardinality(A \cup T) = Cardinality(A) + Cardinality(T \ A)
<1> DEFINE F == T \ A
<1>1. A \cup T = A \cup F
  OBVIOUS
<1>2. A \cap F = {}
  OBVIOUS
<1>3. IsFiniteSet(F)
  OBVIOUS
<1> HIDE DEF F
<1>4. Cardinality(A \cup F) = Cardinality(A) + Cardinality(F) - Cardinality(A \cap F)
  BY <1>3, FS_Union
<1>5. Cardinality(A \cap F) = 0
  BY <1>2, FS_EmptySet
<1>6. Cardinality(A) \in Nat /\ Cardinality(F) \in Nat
  BY <1>3, FS_CardinalityType
<1>7. Cardinality(A \cup F) = Cardinality(A) + Cardinality(F)
  BY <1>4, <1>5, <1>6
<1> QED BY <1>1, <1>7 DEF F

LEMMA OffsetsFinite ==
  ASSUME NEW n \in Nat
  PROVE  IsFiniteSet(0 .. (n - 1))
  BY FS_Interval, n - 1 \in Int

\* A tracker whose buffers have one size and whose count is exact.
WellFormed(s, V) ==
  /\ s.total \in Nat
  /\ s.data \in [0 .. (s.total - 1) -> V]
  /\ s.covered \subseteq 0 .. (s.total - 1)
  /\ s.covered_count = Cardinality(s.covered)

SameGeometry(s, t) ==
  /\ t.total = s.total /\ t.block = s.block
  /\ t.nblocks = s.nblocks /\ t.expected = s.expected

\* ci_svu_accept keeps the geometry and the locked manifest, never forgets a
\* covered byte, stays inside the buffers, and counts each byte once.
LEMMA AcceptPreserves ==
  ASSUME NEW V, NEW s, WellFormed(s, V), NEW off \in Nat, NEW buf \in Seq(V)
  PROVE  /\ WellFormed(Accept(s, off, buf), V)
         /\ SameGeometry(s, Accept(s, off, buf))
         /\ s.covered \subseteq Accept(s, off, buf).covered
<1> DEFINE t == Accept(s, off, buf)
<1> USE DEF WellFormed
<1> HIDE DEF t
<1>0. t = Accept(s, off, buf)
  BY DEF t
<1> SUFFICES /\ SameGeometry(s, t)
             /\ t.data \in [0 .. (t.total - 1) -> V]
             /\ t.covered \subseteq 0 .. (t.total - 1)
             /\ s.covered \subseteq t.covered
             /\ t.covered_count = Cardinality(t.covered)
  BY <1>0 DEF SameGeometry
<1> DEFINE span == off .. (off + Len(buf) - 1)
<1>1. CASE off + Len(buf) > s.total
  BY <1>0, <1>1 DEF Accept, SameGeometry
<1>2. CASE ~(off + Len(buf) > s.total)
  <2>1. /\ t.total = s.total /\ t.block = s.block
        /\ t.nblocks = s.nblocks /\ t.expected = s.expected
        /\ t.covered = s.covered \cup span
        /\ t.covered_count = s.covered_count + Cardinality(span \ s.covered)
        /\ t.data = [i \in 0 .. (s.total - 1) |->
                       IF i \in span THEN buf[i - off + 1] ELSE s.data[i]]
    BY <1>0, <1>2 DEF Accept
  <2>2. Len(buf) \in Nat /\ span \subseteq 0 .. (s.total - 1)
    BY <1>2
  <2>3. \A i \in span : buf[i - off + 1] \in V
    BY <2>2
  <2>4. t.data \in [0 .. (t.total - 1) -> V]
    BY <2>1, <2>3
  <2>5. IsFiniteSet(0 .. (s.total - 1))
    BY OffsetsFinite
  <2>6. IsFiniteSet(s.covered) /\ IsFiniteSet(span \ s.covered)
    <3> HIDE DEF span
    <3> QED BY <2>2, <2>5, FS_Subset
  <2>7. Cardinality(s.covered \cup span) =
          Cardinality(s.covered) + Cardinality(span \ s.covered)
    <3> HIDE DEF span
    <3> QED BY <2>6, FreshCount
  <2>8. t.covered \subseteq 0 .. (t.total - 1) /\ s.covered \subseteq t.covered
    BY <2>1, <2>2
  <2> HIDE DEF span
  <2>9. t.covered_count = Cardinality(t.covered)
    BY <2>1, <2>7
  <2> QED BY <2>1, <2>4, <2>8, <2>9 DEF SameGeometry
<1> QED BY <1>1, <1>2

-----------------------------------------------------------------------------
(* The transfer.                                                           *)


\* What ties the client's place in its loop to its variables.
Control ==
  /\ pc \in {"request", "header", "manifest"} => attempt < MaxAttempts
  /\ pc \in {"drain", "write"} => live
  /\ result = "running" <=> pc # "done"
  /\ live => NewOK(recv.total, recv.block, recv.nblocks)
  /\ result = "ok" => live
  /\ ~live => recv = NoTracker
  /\ pc = "write" \/ result = "ok" => Status(recv) = "COMPLETE_VERIFIED"

\* The inductive invariant.
IInv == TypeOK /\ CoverageExact /\ Control

-----------------------------------------------------------------------------
(* Types of what is sent.                                                  *)

LEMMA ReplyType ==
  ASSUME NEW p \in 0 .. (NPorts - 1), NEW f \in Files
  PROVE  Reply(p, f) \in Seq(Packet)
<1> DEFINE m == Manifest(f.bytes, f.size, BlockSize)
           n == (Len(m) + ChunkLen - 1) \div ChunkLen
           hi(i) == IF i * ChunkLen <= Len(m) THEN i * ChunkLen ELSE Len(m)
           c(i) == ChunkPacket(p, SubSeq(m, (i - 1) * ChunkLen + 1, hi(i)))
<1>1. /\ f.size \in 0 .. (Word - 1)
      /\ f.bytes \in [0 .. (f.size - 1) -> Byte]
      /\ BlockSize \in 1 .. (Word - 1)
  BY FilesAssumption, SizesAssumption
<1>2. m \in Seq(ManifestByte)
  BY <1>1, ManifestType DEF ManifestByte
<1>3. NBlocks(f.size, BlockSize) \in Nat
  BY <1>1, NBlocksExact
<1>4. HeaderPacket(p, f) \in Packet
  <2>1. [k \in 1 .. HdrLen |-> << <<>>, k >>] \in Seq(ManifestByte)
    <3> DEFINE z == <<>>
    <3>1. z \in Seq(Byte)
      OBVIOUS
    <3> HIDE DEF z
    <3>2. \A k \in 1 .. HdrLen : << z, k >> \in ManifestByte
      BY <3>1, SizesAssumption DEF ManifestByte
    <3>3. [k \in 1 .. HdrLen |-> << z, k >>] \in Seq(ManifestByte)
      BY <3>2, SizesAssumption
    <3> QED BY <3>3 DEF z
  <2>2. [total |-> f.size, block |-> BlockSize,
         nblocks |-> NBlocks(f.size, BlockSize)] \in Header
    BY <1>1, <1>3 DEF Header
  <2> QED BY <2>1, <2>2 DEF HeaderPacket, Packet
<1> HIDE DEF m
<1>5. n \in Nat
  <2>1. Len(m) + ChunkLen - 1 \in Nat /\ ChunkLen \in Nat \ {0}
    BY <1>2, SizesAssumption
  <2> QED BY <2>1, DivMod
<1> HIDE DEF n
<1>6. ASSUME NEW i \in 1 .. n PROVE c(i) \in Packet
  <2> DEFINE lo == (i - 1) * ChunkLen + 1
  <2>1. i \in Nat \ {0} /\ ChunkLen \in Nat \ {0} /\ Len(m) \in Nat
    BY <1>2, <1>5, SizesAssumption
  <2>2. (i - 1) * ChunkLen \in Nat /\ i * ChunkLen \in Nat
    BY <2>1
  <2>3. lo \in Nat \ {0} /\ hi(i) \in Nat /\ hi(i) <= Len(m)
    BY <2>1, <2>2
  <2> HIDE DEF lo, hi
  <2>4. SubSeq(m, lo, hi(i)) \in Seq(ManifestByte)
    BY <1>2, <2>1, <2>3
  <2>5. NoHeader \in Header
    BY WordAssumption DEF NoHeader, Header
  <2> QED BY <2>4, <2>5 DEF ChunkPacket, Packet, lo
<1> HIDE DEF c
<1>7. [i \in 1 .. n |-> c(i)] \in Seq(Packet)
  BY <1>5, <1>6
<1>8. Chunks(p, m) = [i \in 1 .. n |-> c(i)]
  BY DEF Chunks, n, c, hi
<1>9. << HeaderPacket(p, f) >> \in Seq(Packet)
  BY <1>4
<1> QED BY <1>7, <1>8, <1>9 DEF Reply, m

LEMMA BlastIntervalType ==
  ASSUME NEW f \in Files, NEW iv, iv.start \in Nat, iv.end \in Nat,
         iv.end <= f.size
  PROVE  BlastInterval(f, iv) \subseteq Fragment
<1>1. /\ f.size \in 0 .. (Word - 1)
      /\ f.bytes \in [0 .. (f.size - 1) -> Byte]
      /\ Pay \in Nat \ {0}
  BY FilesAssumption, SizesAssumption
<1>2. ASSUME NEW o \in Bytes(iv)
      PROVE  [off |-> o,
              buf |-> [k \in 1 .. (IF o + Pay <= iv.end THEN Pay ELSE iv.end - o) |->
                         f.bytes[o + k - 1]]] \in Fragment
  <2> DEFINE n == IF o + Pay <= iv.end THEN Pay ELSE iv.end - o
  <2>1. o \in Nat /\ o < iv.end
    BY DEF Bytes
  <2>2. n \in Nat /\ o + n <= iv.end
    BY <1>1, <2>1
  <2> HIDE DEF n
  <2>3. \A k \in 1 .. n : f.bytes[o + k - 1] \in Byte
    BY <1>1, <2>1, <2>2
  <2>4. [k \in 1 .. n |-> f.bytes[o + k - 1]] \in Seq(Byte)
    BY <2>2, <2>3
  <2> QED BY <2>1, <2>4 DEF Fragment, n
<1> QED BY <1>2 DEF BlastInterval

LEMMA BlastType ==
  ASSUME NEW f \in Files, NEW req \in SUBSET ByteRange
  PROVE  Blasted(f, req) \subseteq Fragment
<1>1. f.size \in Nat
  BY FilesAssumption, WordAssumption
<1>2. BlastInterval(f, Interval(0, f.size)) \subseteq Fragment
  BY <1>1, BlastIntervalType DEF Interval
<1>3. ASSUME NEW iv \in req
      PROVE  BlastInterval(f, Interval(iv.start,
                IF iv.end > f.size THEN f.size ELSE iv.end)) \subseteq Fragment
  <2> DEFINE e == IF iv.end > f.size THEN f.size ELSE iv.end
  <2>1. iv.start \in Nat /\ e \in Nat /\ e <= f.size
    BY <1>1 DEF ByteRange
  <2> HIDE DEF e
  <2>2. /\ Interval(iv.start, e).start = iv.start
        /\ Interval(iv.start, e).end = e
    BY DEF Interval
  <2>3. BlastInterval(f, Interval(iv.start, e)) \subseteq Fragment
    BY <2>1, <2>2, BlastIntervalType
  <2> QED BY <2>3 DEF e
<1> QED BY <1>2, <1>3 DEF Blasted

LEMMA RangesType ==
  ASSUME NEW s, s.total \in Nat, s.block \in Nat, s.nblocks \in Nat, NEW max
  PROVE  FirstRanges(Ranges(s), max) \subseteq ByteRange
<1>1. Holes(s) \subseteq ByteRange
  BY DEF Holes, Interval, ByteRange
<1>2. CorruptRanges(s) \subseteq ByteRange
  <2>1. ASSUME NEW b \in BadBlocks(s)
        PROVE  Interval(BlockStart(b, s.block), BlockEnd(b, s.block, s.total)) \in ByteRange
    <3>1. b \in Nat
      BY DEF BadBlocks
    <3>2. b * s.block \in Nat /\ (b + 1) * s.block \in Nat
      BY <3>1
    <3> QED BY <3>1, <3>2 DEF Interval, ByteRange, BlockStart, BlockEnd
  <2> QED BY <2>1 DEF CorruptRanges
<1>3. Ranges(s) \subseteq ByteRange
  BY <1>1, <1>2 DEF Ranges, Status
<1> QED BY <1>3 DEF FirstRanges

-----------------------------------------------------------------------------
(* The inductive invariant.                                                *)

LEMMA InitInv == Init => IInv
<1> SUFFICES ASSUME Init PROVE IInv
  OBVIOUS
<1>1. /\ NoTracker.total = 0 /\ NoTracker.block = 0 /\ NoTracker.nblocks = 0
      /\ NoTracker.covered_count = 0 /\ NoTracker.covered = {}
      /\ NoTracker.data \in [0 .. (NoTracker.total - 1) -> Byte]
  <2>1. NoTracker.total = 0 /\ NoTracker.block = 0 /\ NoTracker.nblocks = 0
    BY DEF NoTracker, NewTracker
  <2>2. NoTracker.covered_count = 0 /\ NoTracker.covered = {}
    BY DEF NoTracker, NewTracker
  <2>3. NoTracker.data = [i \in 0 .. (0 - 1) |-> 0]
    BY DEF NoTracker, NewTracker
  <2> QED BY <2>1, <2>2, <2>3, ByteAssumption
<1>2. 0 \in 0 .. (Word - 1) /\ NoHeader \in Header
  BY WordAssumption DEF NoHeader, Header
<1>3. TypeOK
  <2>1. reqs \in Seq(Request) /\ ctl \in Seq(Packet) /\ man \in Seq(ManifestByte)
    BY DEF Init
  <2>2. TrackerOK(recv)
    BY <1>1, <1>2 DEF Init, TrackerOK
  <2>4. /\ round \in 1 .. MaxRounds /\ attempt \in 0 .. MaxAttempts
        /\ port \in 0 .. (NPorts - 1) /\ faults \in 0 .. MaxFaults
        /\ restarts \in 0 .. MaxRestarts
    BY LimitsAssumption DEF Init
  <2>5. /\ up \in BOOLEAN /\ live \in BOOLEAN /\ served \in Files /\ hdr \in Header
    BY <1>2, Zenon DEF Init
  <2>6. /\ wire \subseteq Fragment /\ ivs \subseteq ByteRange
        /\ pc \in States /\ result \in Results
    BY DEF Init, States, Results
  <2> QED BY <2>1, <2>2, <2>4, <2>5, <2>6, Zenon DEF TypeOK
<1>4. CoverageExact
  BY <1>1, FS_EmptySet DEF Init, CoverageExact
<1>5. Control
  BY LimitsAssumption DEF Init, Control
<1> QED BY <1>3, <1>4, <1>5 DEF IInv

\* Steps of the server and of the link leave the client alone.
LEMMA NetworkStepInv ==
  ASSUME IInv,
         ServeRequest \/ ServeStop \/ ServeStart \/ RouterDrop
           \/ LoseRequest \/ LoseControl \/ LoseData
  PROVE  IInv'
<1> USE DEF IInv
<1>1. /\ recv' = recv /\ pc' = pc /\ attempt' = attempt /\ live' = live
      /\ result' = result /\ UNCHANGED <<client, port>>
  BY DEF ServeRequest, ServeStop, ServeStart, RouterDrop, LoseRequest,
         LoseControl, LoseData, client
<1>2. CoverageExact' /\ Control'
  <2>1. CoverageExact'
    BY <1>1 DEF CoverageExact
  <2>2. Control'
    BY <1>1, Zenon DEF Control
  <2> QED BY <2>1, <2>2
<1>3. CASE ServeRequest
  <2>1. Head(reqs) \in Request /\ Tail(reqs) \in Seq(Request)
    BY <1>3 DEF ServeRequest, TypeOK
  <2>2. ctl \o Reply(Head(reqs).port, served) \in Seq(Packet)
    BY <2>1, ReplyType DEF TypeOK, Request
  <2>3. wire \cup Blasted(served, Head(reqs).ivs) \subseteq Fragment
    BY <2>1, BlastType DEF TypeOK, Request
  <2> QED BY <1>1, <1>2, <1>3, <2>1, <2>2, <2>3 DEF ServeRequest, TypeOK, client, server
<1>4. CASE ServeStop
  <2>1. reqs' \in Seq(Request)
    BY <1>4 DEF ServeStop
  <2>2. restarts' \in 0 .. MaxRestarts
    BY <1>4, LimitsAssumption DEF ServeStop, TypeOK
  <2>3. /\ up' \in BOOLEAN
        /\ UNCHANGED <<served, ctl, wire, round, ivs, hdr, man, faults>>
    BY <1>4 DEF ServeStop, client
  <2> QED BY <1>1, <1>2, <2>1, <2>2, <2>3 DEF TypeOK
<1>5. CASE ServeStart
  BY <1>1, <1>2, <1>5 DEF ServeStart, TypeOK, client
<1>6. CASE RouterDrop
  BY <1>1, <1>2, <1>6 DEF RouterDrop, TypeOK, client, server
<1>7. CASE LoseRequest
  BY <1>1, <1>2, <1>7, LimitsAssumption DEF LoseRequest, TypeOK, client, server
<1>8. CASE LoseControl
  <2>1. PICK i \in 1 .. Len(ctl) :
          ctl' = SubSeq(ctl, 1, i - 1) \o SubSeq(ctl, i + 1, Len(ctl))
    BY <1>8 DEF LoseControl
  <2>2. ctl \in Seq(Packet) /\ Len(ctl) \in Nat
    BY DEF TypeOK
  <2>3. SubSeq(ctl, 1, i - 1) \in Seq(Packet) /\ SubSeq(ctl, i + 1, Len(ctl)) \in Seq(Packet)
    BY <2>2
  <2>4. ctl' \in Seq(Packet)
    BY <2>1, <2>3
  <2> QED BY <1>1, <1>2, <1>8, <2>4, LimitsAssumption
          DEF LoseControl, TypeOK, client, server
<1>9. CASE LoseData
  BY <1>1, <1>2, <1>9, LimitsAssumption DEF LoseData, TypeOK, client, server
<1> QED BY <1>3, <1>4, <1>5, <1>6, <1>7, <1>8, <1>9

\* A failed attempt is retried or ends the run; nothing else changes.
LEMMA AttemptFailsInv ==
  ASSUME IInv, pc \in {"request", "header", "manifest"}, AttemptFails
  PROVE  /\ attempt' \in 0 .. MaxAttempts /\ pc' \in States /\ result' \in Results
         /\ CoverageExact' /\ Control'
<1> USE DEF IInv
<1>1. attempt' = attempt + 1 /\ attempt < MaxAttempts /\ attempt \in Nat
      /\ recv' = recv /\ live' = live
  BY LimitsAssumption DEF AttemptFails, Control, TypeOK
<1>2. CoverageExact'
  BY <1>1 DEF CoverageExact
<1>3. /\ live => NewOK(recv.total, recv.block, recv.nblocks)
      /\ ~live => recv = NoTracker
      /\ result = "running" /\ pc # "done" /\ pc # "write"
  BY DEF Control
<1>4. CASE attempt + 1 < MaxAttempts
  <2>1. pc' = "request" /\ result' = result
    BY <1>4 DEF AttemptFails
  <2> QED BY <1>1, <1>2, <1>3, <1>4, <2>1, LimitsAssumption DEF Control, TypeOK, States, Results
<1>5. CASE ~(attempt + 1 < MaxAttempts)
  <2>1. pc' = "done" /\ result' = "ctrl_failed"
    BY <1>5 DEF AttemptFails
  <2> QED BY <1>1, <1>2, <1>3, <1>5, <2>1, LimitsAssumption DEF Control, TypeOK, States, Results
<1> QED BY <1>4, <1>5

\* A completed exchange locks a well-formed, empty tracker or leaves the old one.
LEMMA ExchangeDoneInv ==
  ASSUME IInv, pc \in {"header", "manifest"}, NEW h \in Header, NEW m,
         ExchangeDone(h, m), attempt' = attempt
  PROVE  /\ pc' \in States /\ result' \in Results /\ live' \in BOOLEAN
         /\ TrackerOK(recv') /\ CoverageExact' /\ Control'
<1> USE DEF IInv
<1>1. /\ live => NewOK(recv.total, recv.block, recv.nblocks)
      /\ ~live => recv = NoTracker
      /\ result = "running"
  BY DEF Control
<1>2. CASE live
  <2>1. pc' = "drain" /\ live' = live /\ recv' = recv /\ result' = result
    BY <1>2 DEF ExchangeDone
  <2>2. CoverageExact'
    BY <2>1 DEF CoverageExact
  <2>3. Control'
    BY <1>1, <1>2, <2>1 DEF Control
  <2> QED BY <2>1, <2>2, <2>3, <1>1 DEF TypeOK, States, Results
<1>3. CASE ~live /\ NewOK(h.total, h.block, h.nblocks)
  <2>1. /\ pc' = "drain" /\ live' = TRUE /\ result' = result
        /\ recv' = NewTracker(h.total, h.block, h.nblocks, m)
    BY <1>3 DEF ExchangeDone
  <2>2. /\ recv'.total = h.total /\ recv'.block = h.block
        /\ recv'.nblocks = h.nblocks /\ recv'.covered_count = 0
        /\ recv'.covered = {} /\ recv'.data = [i \in 0 .. (h.total - 1) |-> 0]
    BY <2>1 DEF NewTracker
  <2>3. TrackerOK(recv')
    BY <2>2, ByteAssumption DEF TrackerOK, Header
  <2>4. CoverageExact'
    BY <2>2, FS_EmptySet DEF CoverageExact
  <2>5. Control'
    BY <1>1, <1>3, <2>1, <2>2 DEF Control
  <2> QED BY <1>1, <2>1, <2>3, <2>4, <2>5 DEF States, Results
<1>4. CASE ~live /\ ~NewOK(h.total, h.block, h.nblocks)
  <2>1. /\ pc' = "done" /\ result' = "bad_geometry" /\ live' = live /\ recv' = recv
    BY <1>4 DEF ExchangeDone
  <2>2. CoverageExact'
    BY <2>1 DEF CoverageExact
  <2>3. Control'
    BY <1>1, <1>4, <2>1 DEF Control
  <2> QED BY <2>1, <2>2, <2>3 DEF TypeOK, States, Results
<1> QED BY <1>2, <1>3, <1>4

LEMMA ControlStepInv ==
  ASSUME IInv,
         SendRequest \/ ConnectFails \/ ReadHeader \/ ReadManifest \/ ReadTimeout
  PROVE  IInv'
<1> USE DEF IInv
<1>1. CASE SendRequest
  <2>1. /\ pc = "request" /\ pc' = "header" /\ recv' = recv /\ live' = live
        /\ attempt' = attempt /\ result' = result
    BY <1>1 DEF SendRequest, client
  <2>2. port' \in 0 .. (NPorts - 1)
    <3>1. port + 1 \in Nat /\ NPorts \in Nat \ {0}
      BY LimitsAssumption DEF TypeOK
    <3>2. (port + 1) % NPorts \in 0 .. (NPorts - 1)
      BY <3>1, DivMod
    <3> QED BY <3>2, <1>1 DEF SendRequest
  <2>3. reqs' \in Seq(Request)
    <3>1. [port |-> port', ivs |-> ivs] \in Request
      BY <2>2 DEF TypeOK, Request
    <3> QED BY <3>1, <1>1 DEF SendRequest, TypeOK
  <2>4. CoverageExact'
    BY <2>1 DEF CoverageExact
  <2>5. Control'
    BY <2>1 DEF Control
  <2>6. TypeOK'
    BY <1>1, <2>1, <2>2, <2>3 DEF SendRequest, TypeOK, client, server, States
  <2> QED BY <2>4, <2>5, <2>6
<1>2. CASE ConnectFails
  <2>1. AttemptFails /\ pc = "request" /\ faults' \in 0 .. MaxFaults
    BY <1>2, LimitsAssumption DEF ConnectFails, TypeOK
  <2>2. /\ attempt' \in 0 .. MaxAttempts /\ pc' \in States /\ result' \in Results
        /\ CoverageExact' /\ Control'
    BY <2>1, AttemptFailsInv
  <2> QED BY <1>2, <2>1, <2>2 DEF ConnectFails, AttemptFails, TypeOK, server
<1>3. CASE ReadTimeout
  <2>1. AttemptFails /\ pc \in {"header", "manifest"}
    BY <1>3 DEF ReadTimeout
  <2>2. /\ attempt' \in 0 .. MaxAttempts /\ pc' \in States /\ result' \in Results
        /\ CoverageExact' /\ Control'
    BY <2>1, AttemptFailsInv
  <2> QED BY <1>3, <2>1, <2>2 DEF ReadTimeout, AttemptFails, TypeOK, server
<1>4. CASE ReadHeader
  <2>1. /\ pc = "header" /\ ctl # <<>> /\ ctl' = Tail(ctl)
        /\ UNCHANGED <<server, reqs, wire, port, faults>>
    BY <1>4 DEF ReadHeader, Readable
  <2>2. Head(ctl) \in Packet /\ ctl' \in Seq(Packet)
    BY <2>1 DEF TypeOK
  <2>3. Head(ctl).hdr \in Header
    BY <2>2 DEF Packet
  <2>4. CASE ~Head(ctl).magic
    <3>1. AttemptFails /\ UNCHANGED <<hdr, man>>
      BY <1>4, <2>4 DEF ReadHeader
    <3>2. /\ attempt' \in 0 .. MaxAttempts /\ pc' \in States /\ result' \in Results
          /\ CoverageExact' /\ Control'
      BY <2>1, <3>1, AttemptFailsInv
    <3> QED BY <2>1, <2>2, <3>1, <3>2 DEF AttemptFails, TypeOK, server
  <2>5. CASE Head(ctl).magic
    <3>1. /\ hdr' = Head(ctl).hdr /\ man' = <<>>
          /\ UNCHANGED <<round, attempt, ivs, out>>
          /\ IF Head(ctl).hdr.nblocks = 0
               THEN ExchangeDone(Head(ctl).hdr, <<>>)
               ELSE pc' = "manifest" /\ UNCHANGED <<live, recv, result>>
      BY <1>4, <2>5 DEF ReadHeader
    <3>2. man' \in Seq(ManifestByte)
      BY <3>1
    <3>3. /\ pc' \in States /\ result' \in Results /\ live' \in BOOLEAN
          /\ TrackerOK(recv') /\ CoverageExact' /\ Control'
      <4>1. CASE Head(ctl).hdr.nblocks = 0
        <5>1. ExchangeDone(Head(ctl).hdr, <<>>) /\ attempt' = attempt
          BY <3>1, <4>1
        <5> QED BY <2>1, <2>3, <5>1, ExchangeDoneInv
      <4>2. CASE Head(ctl).hdr.nblocks # 0
        <5>1. pc' = "manifest" /\ live' = live /\ recv' = recv /\ result' = result
              /\ attempt' = attempt
          BY <3>1, <4>2
        <5>2. CoverageExact'
          BY <5>1 DEF CoverageExact
        <5>3. Control'
          BY <2>1, <5>1 DEF Control
        <5> QED BY <5>1, <5>2, <5>3 DEF TypeOK, States
      <4> QED BY <4>1, <4>2
    <3> QED BY <2>1, <2>2, <2>3, <3>1, <3>2, <3>3 DEF TypeOK, server
  <2> QED BY <2>4, <2>5
<1>5. CASE ReadManifest
  <2>1. /\ pc = "manifest" /\ ctl # <<>> /\ ctl' = Tail(ctl)
        /\ UNCHANGED <<server, round, attempt, ivs, hdr, out, reqs, wire, port, faults>>
        /\ man' = TakeBytes(Head(ctl).bytes)
    BY <1>5 DEF ReadManifest, Readable
  <2>2. Head(ctl) \in Packet /\ ctl' \in Seq(Packet)
    BY <2>1 DEF TypeOK
  <2>3. man' \in Seq(ManifestByte)
    <3> DEFINE c == Head(ctl).bytes
               room == hdr.nblocks * DigestLen - Len(man)
               n == IF Len(c) > room THEN room ELSE Len(c)
    <3>1. c \in Seq(ManifestByte) /\ Len(c) \in Nat /\ man \in Seq(ManifestByte)
      BY <2>2 DEF Packet, TypeOK
    <3>2. room \in Int
      BY <3>1, DigestLenAssumption DEF TypeOK, Header
    <3> HIDE DEF c, room
    <3>3. n \in Int /\ n <= Len(c)
      BY <3>1, <3>2
    <3> HIDE DEF n
    <3>4. SubSeq(c, 1, n) \in Seq(ManifestByte)
      BY <3>1, <3>3
    <3>5. man \o SubSeq(c, 1, n) \in Seq(ManifestByte)
      BY <3>1, <3>4
    <3> QED BY <2>1, <3>5 DEF TakeBytes, c, n, room
  <2>4. /\ pc' \in States /\ result' \in Results /\ live' \in BOOLEAN
        /\ TrackerOK(recv') /\ CoverageExact' /\ Control'
    <3>1. CASE Len(man') < hdr.nblocks * DigestLen
      <4>1. pc' = pc /\ live' = live /\ recv' = recv /\ result' = result
            /\ attempt' = attempt
        BY <1>5, <2>1, <3>1 DEF ReadManifest
      <4>2. CoverageExact'
        BY <4>1 DEF CoverageExact
      <4>3. Control'
        BY <4>1, Zenon DEF Control
      <4> QED BY <4>1, <4>2, <4>3 DEF TypeOK
    <3>2. CASE ~(Len(man') < hdr.nblocks * DigestLen)
      <4>1. ExchangeDone(hdr, man') /\ attempt' = attempt /\ hdr \in Header
        BY <1>5, <2>1, <3>2 DEF ReadManifest, TypeOK
      <4> DEFINE m == man'
      <4>2. ExchangeDone(hdr, m)
        BY <4>1
      <4> HIDE DEF m
      <4> QED BY <2>1, <4>1, <4>2, ExchangeDoneInv
    <3> QED BY <3>1, <3>2
  <2> QED BY <2>1, <2>2, <2>3, <2>4 DEF TypeOK, server
<1> QED BY <1>1, <1>2, <1>3, <1>4, <1>5

\* Whatever a data packet says, accepting it keeps the invariant.
LEMMA AcceptInv ==
  ASSUME IInv, pc = "drain", NEW o \in Nat, NEW b \in Seq(Byte),
         recv' = Accept(recv, o, b),
         UNCHANGED <<pc, attempt, live, result>>
  PROVE  TrackerOK(recv') /\ CoverageExact' /\ Control'
<1> USE DEF IInv
<1> DEFINE t == recv'
<1>1. WellFormed(recv, Byte)
  BY WordAssumption DEF TypeOK, TrackerOK, CoverageExact, WellFormed
<1>2. /\ WellFormed(Accept(recv, o, b), Byte)
      /\ SameGeometry(recv, Accept(recv, o, b))
  BY <1>1, AcceptPreserves
<1>3. WellFormed(t, Byte) /\ SameGeometry(recv, t) /\ recv' = t
  BY <1>2
<1> HIDE DEF t
<1> USE DEF WellFormed, SameGeometry
<1>4. TrackerOK(recv')
  BY <1>3 DEF TypeOK, TrackerOK
<1>5. CoverageExact'
  BY <1>3 DEF CoverageExact
<1>6. live /\ result = "running" /\ NewOK(recv.total, recv.block, recv.nblocks)
  BY DEF Control
<1>7. Control'
  <2>1. NewOK(recv'.total, recv'.block, recv'.nblocks)
    BY <1>3, <1>6
  <2>2. pc' = "drain" /\ live' = live /\ result' = "running" /\ attempt' = attempt
    BY <1>6
  <2> QED BY <1>6, <2>1, <2>2 DEF Control
<1> QED BY <1>4, <1>5, <1>7

LEMMA DataStepInv ==
  ASSUME IInv,
         \/ \E f \in wire : ReceiveData(f) \/ ReceiveDuplicate(f) \/ ReceiveDamaged(f)
         \/ DrainIdle \/ OpenFails \/ WriteFile
  PROVE  IInv'
<1> USE DEF IInv
<1>1. ASSUME NEW f \in wire, ReceiveData(f) \/ ReceiveDuplicate(f)
      PROVE  IInv'
  <2>1. f.off \in Nat /\ f.buf \in Seq(Byte)
    BY DEF TypeOK, Fragment
  <2>2. /\ pc = "drain" /\ recv' = Accept(recv, f.off, f.buf)
        /\ UNCHANGED <<pc, attempt, live, result>>
    BY <1>1 DEF ReceiveData, ReceiveDuplicate
  <2>3. TrackerOK(recv') /\ CoverageExact' /\ Control'
    BY <2>1, <2>2, AcceptInv
  <2>4. faults' \in 0 .. MaxFaults /\ wire' \subseteq Fragment
    BY <1>1, LimitsAssumption DEF ReceiveData, ReceiveDuplicate, TypeOK
  <2> QED BY <1>1, <2>2, <2>3, <2>4
          DEF ReceiveData, ReceiveDuplicate, TypeOK, server
<1>2. ASSUME NEW f \in wire, ReceiveDamaged(f)
      PROVE  IInv'
  <2>1. PICK o \in 0 .. recv.total, b \in [1 .. Len(f.buf) -> Byte] :
          recv' = Accept(recv, o, b)
    BY <1>2 DEF ReceiveDamaged
  <2>2. o \in Nat /\ b \in Seq(Byte)
    <3>1. recv.total \in Nat /\ Len(f.buf) \in Nat
      BY WordAssumption DEF TypeOK, TrackerOK, Fragment
    <3> QED BY <3>1
  <2>3. pc = "drain" /\ UNCHANGED <<pc, attempt, live, result>>
    BY <1>2 DEF ReceiveDamaged
  <2>4. TrackerOK(recv') /\ CoverageExact' /\ Control'
    BY <2>1, <2>2, <2>3, AcceptInv
  <2>5. faults' \in 0 .. MaxFaults /\ wire' \subseteq Fragment
    BY <1>2, LimitsAssumption DEF ReceiveDamaged, TypeOK
  <2> QED BY <1>2, <2>3, <2>4, <2>5 DEF ReceiveDamaged, TypeOK, server
<1>3. CASE DrainIdle
  <2>1. /\ pc = "drain" /\ recv' = recv /\ live' = live
        /\ UNCHANGED <<server, hdr, man, live, out, reqs, ctl, wire, port, faults>>
    BY <1>3 DEF DrainIdle
  <2>2. CoverageExact'
    BY <2>1 DEF CoverageExact
  <2>3. live /\ result = "running" /\ NewOK(recv.total, recv.block, recv.nblocks)
    BY <2>1 DEF Control
  <2>4. CASE Status(recv) = "COMPLETE_VERIFIED"
    <3>1. pc' = "write" /\ UNCHANGED <<ivs, round, attempt, result>>
      BY <1>3, <2>4 DEF DrainIdle
    <3>2. Control'
      BY <2>1, <2>3, <2>4, <3>1 DEF Control
    <3> QED BY <2>1, <2>2, <3>1, <3>2 DEF TypeOK, States, server
  <2>5. CASE Status(recv) # "COMPLETE_VERIFIED"
    <3>1. ivs' = FirstRanges(Ranges(recv), MaxIntervals)
      BY <1>3, <2>5 DEF DrainIdle
    <3>2. ivs' \subseteq ByteRange
      BY <3>1, RangesType, WordAssumption DEF TypeOK, TrackerOK
    <3>3. CASE round < MaxRounds
      <4>1. pc' = "request" /\ round' = round + 1 /\ attempt' = 0 /\ result' = result
        BY <1>3, <2>5, <3>3 DEF DrainIdle
      <4>2. Control'
        BY <2>1, <2>3, <4>1, LimitsAssumption DEF Control
      <4>3. round' \in 1 .. MaxRounds /\ attempt' \in 0 .. MaxAttempts
        BY <3>3, <4>1, LimitsAssumption DEF TypeOK
      <4> QED BY <2>1, <2>2, <3>2, <4>1, <4>2, <4>3 DEF TypeOK, States, server
    <3>4. CASE ~(round < MaxRounds)
      <4>1. pc' = "done" /\ result' = "gave_up" /\ UNCHANGED <<round, attempt>>
        BY <1>3, <2>5, <3>4 DEF DrainIdle
      <4>2. Control'
        BY <2>1, <2>3, <4>1 DEF Control
      <4> QED BY <2>1, <2>2, <3>2, <4>1, <4>2 DEF TypeOK, States, Results, server
    <3> QED BY <3>3, <3>4
  <2> QED BY <2>4, <2>5
<1>4. CASE OpenFails \/ WriteFile
  <2>1. /\ pc = "write" /\ pc' = "done" /\ result' \in {"no_outfile", "ok"}
        /\ recv' = recv /\ live' = live /\ attempt' = attempt
    BY <1>4 DEF OpenFails, WriteFile
  <2>2. CoverageExact'
    BY <2>1 DEF CoverageExact
  <2>3. /\ live /\ NewOK(recv.total, recv.block, recv.nblocks)
        /\ Status(recv) = "COMPLETE_VERIFIED"
    BY <2>1 DEF Control
  <2>4. Control'
    BY <2>1, <2>3 DEF Control
  <2> QED BY <1>4, <2>1, <2>2, <2>4
          DEF OpenFails, WriteFile, TypeOK, States, Results, server
<1> QED BY <1>1, <1>2, <1>3, <1>4

LEMMA NextInv == IInv /\ [Next]_vars => IInv'
<1> SUFFICES ASSUME IInv, [Next]_vars PROVE IInv'
  OBVIOUS
<1>1. CASE ClientStep
  BY <1>1, ControlStepInv, DataStepInv, Zenon DEF ClientStep
<1>2. CASE ServeRequest \/ ServeStop \/ ServeStart \/ RouterDrop
             \/ LoseRequest \/ LoseControl \/ LoseData
  BY <1>2, NetworkStepInv
<1>3. CASE UNCHANGED vars
  <2>1. CoverageExact'
    BY <1>3 DEF vars, IInv, CoverageExact
  <2>2. Control'
    <3>1. recv' = recv /\ pc' = pc /\ attempt' = attempt /\ live' = live /\ result' = result
      BY <1>3 DEF vars
    <3> QED BY <3>1, Zenon DEF IInv, Control
  <2>3. TypeOK'
    BY <1>3 DEF vars, IInv, TypeOK
  <2> QED BY <2>1, <2>2, <2>3 DEF IInv
<1> QED BY <1>1, <1>2, <1>3, Zenon DEF Next, Terminated

-----------------------------------------------------------------------------
(* Theorems.                                                               *)

LEMMA Invariance == Spec => []IInv
  BY InitInv, NextInv, PTL DEF Spec

\* Type correctness: whatever the network delivers, the tracker stays within the
\* size it was created with.
THEOREM TypeCorrect == Spec => []TypeOK
<1>1. IInv => TypeOK
  BY DEF IInv
<1> QED BY <1>1, Invariance, PTL

\* covered_count always is the number of distinct bytes covered.
THEOREM CoverageIsExact == Spec => []CoverageExact
<1>1. IInv => CoverageExact
  BY DEF IInv
<1> QED BY <1>1, Invariance, PTL

\* A verified tracker: every block hashes to what the locked manifest says.
LEMMA VerifiedDigests ==
  ASSUME IInv, pc = "write" \/ result = "ok"
  PROVE  /\ live
         /\ recv.block \in 1 .. (Word - 1)
         /\ NBlocks(recv.total, recv.block) \in Nat \ {0}
         /\ \A b \in 0 .. (NBlocks(recv.total, recv.block) - 1), k \in 1 .. DigestLen :
              recv.expected[b * DigestLen + k] =
                << HashBlock(recv.data, recv.total, recv.block, b), k - 1 >>
<1> USE DEF IInv
<1>1. /\ live /\ NewOK(recv.total, recv.block, recv.nblocks)
      /\ Status(recv) = "COMPLETE_VERIFIED"
  BY DEF Control
<1>2. NBlocks(recv.total, recv.block) # 0 /\ recv.nblocks = NBlocks(recv.total, recv.block)
  BY <1>1 DEF NewOK
<1>3. recv.total \in 0 .. (Word - 1) /\ recv.block \in 1 .. (Word - 1)
  BY <1>2 DEF TypeOK, TrackerOK, NBlocks
<1>4. NBlocks(recv.total, recv.block) \in Nat \ {0}
  BY <1>2, <1>3, NBlocksExact
<1>5. BadBlocks(recv) = {}
  BY <1>1 DEF Status
<1>6. ASSUME NEW b \in 0 .. (NBlocks(recv.total, recv.block) - 1),
             NEW k \in 1 .. DigestLen
      PROVE  recv.expected[b * DigestLen + k] =
               << HashBlock(recv.data, recv.total, recv.block, b), k - 1 >>
  <2> DEFINE d == HashBlock(recv.data, recv.total, recv.block, b)
  <2>1. DigestBytes(d) = ExpectedDigest(recv, b)
    BY <1>2, <1>5 DEF BadBlocks
  <2> HIDE DEF d
  <2>2. DigestBytes(d)[k] = << d, k - 1 >>
    BY DEF DigestBytes
  <2>3. ExpectedDigest(recv, b)[k] = recv.expected[b * DigestLen + k]
    BY DEF ExpectedDigest
  <2> QED BY <2>1, <2>2, <2>3 DEF d
<1> QED BY <1>1, <1>3, <1>4, <1>6

LEMMA VerifiedMeansPromised == IInv => VerifiedIsPromised
<1> SUFFICES ASSUME IInv, pc = "write" \/ result = "ok", NEW f \in Files,
                    recv.total = f.size, recv.block = BlockSize,
                    recv.expected = Manifest(f.bytes, f.size, BlockSize)
             PROVE  recv.data = f.bytes
  BY DEF VerifiedIsPromised
<1> DEFINE n == NBlocks(recv.total, recv.block)
<1>1. /\ recv.total \in 0 .. (Word - 1)
      /\ recv.data \in [0 .. (recv.total - 1) -> Byte]
      /\ f.bytes \in [0 .. (recv.total - 1) -> Byte]
  BY FilesAssumption DEF IInv, TypeOK, TrackerOK
<1>2. recv.block \in 1 .. (Word - 1) /\ n \in Nat \ {0}
  BY VerifiedDigests
<1>3. ASSUME NEW b \in 0 .. (n - 1)
      PROVE  HashBlock(recv.data, recv.total, recv.block, b) =
               HashBlock(f.bytes, recv.total, recv.block, b)
  <2> DEFINE d == HashBlock(recv.data, recv.total, recv.block, b)
             e == HashBlock(f.bytes, recv.total, recv.block, b)
             j == b * DigestLen + 1
  <2>1. recv.expected[j] = << d, 0 >>
    <3>1. 1 \in 1 .. DigestLen
      BY DigestLenAssumption
    <3>2. recv.expected[b * DigestLen + 1] = << d, 1 - 1 >>
      BY <3>1, VerifiedDigests
    <3> QED BY <3>2
  <2>2. b \in Nat /\ DigestLen \in Nat \ {0} /\ b + 1 <= n
    BY <1>2, DigestLenAssumption
  <2>3. b * DigestLen \in Nat /\ (b + 1) * DigestLen <= n * DigestLen
    <3> HIDE DEF n
    <3> QED BY <1>2, <2>2
  <2>4. j \in 1 .. (n * DigestLen)
    <3> HIDE DEF n
    <3>1. (b + 1) * DigestLen = b * DigestLen + DigestLen
      BY <2>2
    <3>2. n * DigestLen \in Nat
      BY <1>2, <2>2
    <3> QED BY <2>2, <2>3, <3>1, <3>2
  <2>5. (j - 1) \div DigestLen = b
    <3>1. j - 1 \in Nat /\ j - 1 = DigestLen * b + 0 /\ 0 \in 0 .. (DigestLen - 1)
      BY <2>2, <2>3
    <3> QED BY <2>2, <3>1, DivUnique
  <2>6. recv.expected[j] = << e, (j - 1) % DigestLen >>
    BY <2>4, <2>5 DEF Manifest
  <2> HIDE DEF d, e, j
  <2>7. d = e
    BY <2>1, <2>6
  <2> QED BY <2>7 DEF d, e
<1> QED BY <1>1, <1>2, <1>3, DigestsDeterminePayload

\* For every payload, packet size and schedule of losses, delays, duplicates,
\* damage and server restarts: a buffer svu_client_run accepts is the payload
\* whose manifest it locked.
THEOREM VerifiedSafety == Spec => []VerifiedIsPromised
  BY VerifiedMeansPromised, Invariance, PTL

-----------------------------------------------------------------------------
(* Refinement of SvuDelivery.                                              *)

LEMMA RefinesInit == Init => Delivery!SInit
  BY DEF Init, Delivery!SInit, Delivery!NoPromise, Delivery!Nothing

\* The client ends without delivering.
LEMMA RefinesFail ==
  ASSUME IInv, result = "running", result' \in Delivery!Failures,
         live' = live, recv' = recv
  PROVE  Delivery!SNext
  BY Zenon DEF Delivery!SNext, Delivery!Fail, Delivery!Failures

\* Nothing the abstract specification sees changes.
LEMMA RefinesStutter ==
  ASSUME IInv, live' = live, result' = result,
         recv' = recv \/ (/\ result # "ok" /\ recv'.total = recv.total
                          /\ recv'.block = recv.block /\ recv'.expected = recv.expected)
  PROVE  UNCHANGED Delivery!svars
  BY DEF Delivery!svars

LEMMA RefinesAttempt ==
  ASSUME IInv, pc \in {"request", "header", "manifest"}, AttemptFails
  PROVE  [Delivery!SNext]_(Delivery!svars)
<1>1. result = "running" /\ live' = live /\ recv' = recv
  BY DEF IInv, Control, AttemptFails
<1>2. CASE attempt + 1 < MaxAttempts
  BY <1>1, <1>2, RefinesStutter DEF AttemptFails
<1>3. CASE ~(attempt + 1 < MaxAttempts)
  BY <1>1, <1>3, RefinesFail DEF AttemptFails, Delivery!Failures
<1> QED BY <1>2, <1>3

LEMMA RefinesExchange ==
  ASSUME IInv, pc \in {"header", "manifest"}, NEW h \in Header, NEW m,
         ExchangeDone(h, m)
  PROVE  [Delivery!SNext]_(Delivery!svars)
<1>1. result = "running"
  BY DEF IInv, Control
<1>2. CASE live
  BY <1>1, <1>2, RefinesStutter DEF ExchangeDone
<1>3. CASE ~live /\ NewOK(h.total, h.block, h.nblocks)
  <2>1. /\ live' = TRUE /\ result' = result
        /\ recv'.total = h.total /\ recv'.block = h.block
    BY <1>3 DEF ExchangeDone, NewTracker
  <2>2. NBlocks(recv'.total, recv'.block) # 0
    BY <1>3, <2>1 DEF NewOK
  <2>3. Delivery!Announce
    BY <1>1, <1>3, <2>1, <2>2
       DEF Delivery!Announce, Delivery!NoPromise, Delivery!NBlocks, NBlocks
  <2> QED BY <2>3 DEF Delivery!SNext
<1>4. CASE ~live /\ ~NewOK(h.total, h.block, h.nblocks)
  BY <1>1, <1>4, RefinesFail DEF ExchangeDone, Delivery!Failures
<1> QED BY <1>2, <1>3, <1>4

LEMMA RefinesAccept ==
  ASSUME IInv, pc = "drain", NEW o, NEW b, recv' = Accept(recv, o, b),
         live' = live, result' = result
  PROVE  UNCHANGED Delivery!svars
<1>1. result # "ok"
  BY DEF IInv, Control
<1>2. /\ recv'.total = recv.total /\ recv'.block = recv.block
      /\ recv'.expected = recv.expected
  BY DEF Accept
<1> QED BY <1>1, <1>2, RefinesStutter

LEMMA RefinesDeliver ==
  ASSUME IInv, WriteFile
  PROVE  Delivery!SNext
<1>1. /\ pc = "write" /\ result' = "ok" /\ live' = live /\ recv' = recv
      /\ result = "running"
  BY DEF WriteFile, IInv, Control
<1>2. /\ live /\ recv.block # 0
      /\ \A b \in 0 .. (NBlocks(recv.total, recv.block) - 1), k \in 1 .. DigestLen :
           recv.expected[b * DigestLen + k] =
             << HashBlock(recv.data, recv.total, recv.block, b), k - 1 >>
  BY <1>1, VerifiedDigests
<1>3. Delivery!Matches([size |-> recv.total, bytes |-> recv.data],
                       [size |-> recv.total, block |-> recv.block,
                        manifest |-> recv.expected])
  BY <1>2 DEF Delivery!Matches, Delivery!NBlocks, Delivery!HashBlock,
             Delivery!BlockStart, Delivery!BlockEnd, NBlocks, HashBlock,
             BlockStart, BlockEnd
<1>4. [size |-> recv.total, block |-> recv.block, manifest |-> recv.expected]
        # Delivery!NoPromise
  BY <1>2 DEF Delivery!NoPromise
<1>5. Delivery!Deliver
  BY <1>1, <1>2, <1>3, <1>4 DEF Delivery!Deliver
<1> QED BY <1>5 DEF Delivery!SNext

LEMMA RefinesNext == IInv /\ [Next]_vars => [Delivery!SNext]_(Delivery!svars)
<1> SUFFICES ASSUME IInv, [Next]_vars PROVE [Delivery!SNext]_(Delivery!svars)
  OBVIOUS
<1>1. CASE ServeRequest \/ ServeStop \/ ServeStart \/ RouterDrop \/ LoseRequest
             \/ LoseControl \/ LoseData \/ SendRequest \/ UNCHANGED vars
  <2>1. live' = live /\ result' = result /\ recv' = recv
    BY <1>1 DEF ServeRequest, ServeStop, ServeStart, RouterDrop, LoseRequest,
                LoseControl, LoseData, SendRequest, client, vars
  <2> QED BY <2>1, RefinesStutter
<1>2. CASE ConnectFails \/ ReadTimeout
  BY <1>2, RefinesAttempt DEF ConnectFails, ReadTimeout
<1>3. CASE ReadHeader
  <2>1. pc = "header" /\ ctl # <<>>
    BY <1>3 DEF ReadHeader, Readable
  <2>2. Head(ctl) \in Packet
    BY <2>1 DEF IInv, TypeOK
  <2>3. Head(ctl).hdr \in Header
    BY <2>2 DEF Packet
  <2>4. CASE ~Head(ctl).magic
    BY <1>3, <2>1, <2>4, RefinesAttempt DEF ReadHeader
  <2>5. CASE Head(ctl).magic /\ Head(ctl).hdr.nblocks = 0
    BY <1>3, <2>1, <2>3, <2>5, RefinesExchange DEF ReadHeader
  <2>6. CASE Head(ctl).magic /\ Head(ctl).hdr.nblocks # 0
    BY <1>3, <2>6, RefinesStutter DEF ReadHeader
  <2> QED BY <2>4, <2>5, <2>6
<1>4. CASE ReadManifest
  <2>1. pc = "manifest" /\ hdr \in Header
    BY <1>4 DEF ReadManifest, IInv, TypeOK
  <2>2. CASE Len(man') < hdr.nblocks * DigestLen
    BY <1>4, <2>2, RefinesStutter DEF ReadManifest
  <2>3. CASE ~(Len(man') < hdr.nblocks * DigestLen)
    <3> DEFINE m == man'
    <3>1. ExchangeDone(hdr, m)
      BY <1>4, <2>3 DEF ReadManifest
    <3> HIDE DEF m
    <3> QED BY <2>1, <3>1, RefinesExchange
  <2> QED BY <2>2, <2>3
<1>5. ASSUME NEW f \in wire, ReceiveData(f) \/ ReceiveDuplicate(f)
      PROVE  UNCHANGED Delivery!svars
  <2>1. /\ pc = "drain" /\ recv' = Accept(recv, f.off, f.buf)
        /\ live' = live /\ result' = result
    BY <1>5 DEF ReceiveData, ReceiveDuplicate
  <2> QED BY <2>1, RefinesAccept
<1>6. ASSUME NEW f \in wire, ReceiveDamaged(f)
      PROVE  UNCHANGED Delivery!svars
  <2>1. PICK o \in 0 .. recv.total, b \in [1 .. Len(f.buf) -> Byte] :
          recv' = Accept(recv, o, b)
    BY <1>6 DEF ReceiveDamaged
  <2>2. pc = "drain" /\ live' = live /\ result' = result
    BY <1>6 DEF ReceiveDamaged
  <2> QED BY <2>1, <2>2, RefinesAccept
<1>7. CASE DrainIdle
  <2>1. pc = "drain" /\ live' = live /\ recv' = recv /\ result = "running"
    BY <1>7 DEF DrainIdle, IInv, Control
  <2>2. CASE Status(recv) = "COMPLETE_VERIFIED" \/ round < MaxRounds
    BY <1>7, <2>1, <2>2, RefinesStutter DEF DrainIdle
  <2>3. CASE ~(Status(recv) = "COMPLETE_VERIFIED" \/ round < MaxRounds)
    BY <1>7, <2>1, <2>3, RefinesFail DEF DrainIdle, Delivery!Failures
  <2> QED BY <2>2, <2>3
<1>8. CASE OpenFails
  <2>1. result' = "no_outfile" /\ live' = live /\ recv' = recv /\ result = "running"
    BY <1>8 DEF OpenFails, IInv, Control
  <2> QED BY <2>1, RefinesFail DEF Delivery!Failures
<1>9. CASE WriteFile
  BY <1>9, RefinesDeliver
<1> QED BY <1>1, <1>2, <1>3, <1>4, <1>5, <1>6, <1>7, <1>8, <1>9, Zenon
        DEF Next, ClientStep, Terminated

\* The client loop, over its faulty network, does nothing SvuDelivery does not
\* allow: one promise, then one matching delivery or one failure.
THEOREM TransferImplementsDelivery == Spec => ImplementsDelivery
  BY RefinesInit, RefinesNext, Invariance, PTL DEF ImplementsDelivery, Spec, Delivery!SSpec

-----------------------------------------------------------------------------
(* What a re-request asks for.                                             *)

\* Ranges that lie inside the payload, are not empty and share no byte.
Proper(R, total) ==
  /\ \A iv \in R : /\ iv.start \in Nat /\ iv.end \in Nat
                   /\ iv.start < iv.end /\ iv.end <= total
  /\ \A iv, jv \in R : iv # jv => Bytes(iv) \cap Bytes(jv) = {}

\* Proper ranges are told apart by where they start, and there are finitely many.
LEMMA ProperStarts ==
  ASSUME NEW total \in Nat, NEW R, Proper(R, total)
  PROVE  /\ \A iv, jv \in R : iv.start = jv.start => iv = jv
         /\ IsFiniteSet(R)
<1>1. ASSUME NEW iv \in R, NEW jv \in R, iv.start = jv.start PROVE iv = jv
  <2>1. iv.start \in Bytes(iv) /\ jv.start \in Bytes(jv)
    BY DEF Proper, Bytes
  <2> QED BY <1>1, <2>1 DEF Proper
<1> DEFINE f == [iv \in R |-> iv.start]
<1>2. f \in [R -> 0 .. total]
  BY DEF Proper
<1>3. \A iv, jv \in R : f[iv] = f[jv] => iv = jv
  BY <1>1
<1> HIDE DEF f
<1>4. f \in Injection(R, 0 .. total)
  BY <1>2, <1>3 DEF Injection, IsInjective
<1>5. IsFiniteSet(0 .. total)
  BY FS_Interval
<1>6. IsFiniteSet(R)
  BY <1>4, <1>5, FS_Injection
<1> QED BY <1>1, <1>6

\* The ranges before one of them.
Before(R, iv) == {jv \in R : jv.start < iv.start}

\* push_interval with a full array: what is stored is not empty, is no longer than
\* the array, and is everything when the array is not full.
LEMMA FirstRangesFit ==
  ASSUME NEW total \in Nat, NEW R, Proper(R, total), R # {}, NEW max \in Nat \ {0}
  PROVE  /\ FirstRanges(R, max) \subseteq R
         /\ FirstRanges(R, max) # {}
         /\ Cardinality(FirstRanges(R, max)) <= max
         /\ Cardinality(FirstRanges(R, max)) < max => FirstRanges(R, max) = R
<1> DEFINE F == FirstRanges(R, max)
           rank(iv) == Cardinality(Before(R, iv))
<1>1. F = {iv \in R : rank(iv) < max}
  BY DEF FirstRanges, Before
<1>2. IsFiniteSet(R) /\ \A iv, jv \in R : iv.start = jv.start => iv = jv
  BY ProperStarts
<1>3. \A iv \in R : iv.start \in Nat
  BY DEF Proper
<1>4. \A iv \in R : /\ Before(R, iv) \in SUBSET R
                    /\ \A jv \in R : jv \in Before(R, iv) <=> jv.start < iv.start
  BY DEF Before
<1>5. ASSUME NEW iv \in R
      PROVE  IsFiniteSet(Before(R, iv)) /\ rank(iv) \in Nat
  BY <1>2, <1>4, FS_Subset, FS_CardinalityType
<1>6. ASSUME NEW iv \in R, NEW jv \in R, iv.start < jv.start
      PROVE  rank(iv) < rank(jv)
  <2>1. Before(R, iv) \in SUBSET Before(R, jv)
    BY <1>3, <1>4, <1>6
  <2>2. iv \in Before(R, jv) /\ iv \notin Before(R, iv)
    BY <1>3, <1>4, <1>6
  <2>3. /\ rank(iv) <= rank(jv)
        /\ rank(jv) = rank(iv) => Before(R, jv) = Before(R, iv)
    BY <2>1, <1>5, FS_Subset
  <2> HIDE DEF rank
  <2> QED BY <2>2, <2>3, <1>5
<1> HIDE DEF F
<1>7. ASSUME NEW T \in SUBSET R, T # {}
      PROVE  \E iv \in T : \A jv \in T : iv.start <= jv.start
  <2> DEFINE S == {iv.start : iv \in T}
  <2>1. S \in SUBSET Nat /\ S # {}
    BY <1>3, <1>7
  <2>2. PICK x \in S : \A y \in S : x <= y
    <3> HIDE DEF S
    <3> QED BY <2>1, LeastElement
  <2>3. PICK iv \in T : x = iv.start
    OBVIOUS
  <2> QED BY <2>2, <2>3
<1>8. F # {}
  <2>1. PICK iv \in R : \A jv \in R : iv.start <= jv.start
    BY <1>7
  <2>2. Before(R, iv) = {}
    BY <2>1, <1>3, <1>4
  <2>3. rank(iv) = 0
    BY <2>2, FS_EmptySet
  <2> HIDE DEF rank
  <2> QED BY <2>3, <1>1
<1>9. IsFiniteSet(F) /\ Cardinality(F) \in Nat
  BY <1>1, <1>2, FS_Subset, FS_CardinalityType
<1>10. Cardinality(F) <= max
  <2> DEFINE f == [iv \in F |-> rank(iv)]
  <2>1. f \in [F -> 0 .. (max - 1)]
    <3> HIDE DEF rank
    <3> QED BY <1>1, <1>5
  <2>2. \A iv, jv \in F : f[iv] = f[jv] => iv = jv
    <3>1. SUFFICES ASSUME NEW iv \in F, NEW jv \in F, rank(iv) = rank(jv), iv # jv
                   PROVE  FALSE
      OBVIOUS
    <3>2. iv \in R /\ jv \in R
      BY <1>1
    <3>3. iv.start \in Nat /\ jv.start \in Nat /\ iv.start # jv.start
      BY <1>2, <1>3, <3>1, <3>2
    <3>4. iv.start < jv.start \/ jv.start < iv.start
      BY <3>3
    <3>5. rank(iv) < rank(jv) \/ rank(jv) < rank(iv)
      BY <1>6, <3>2, <3>4
    <3>6. rank(iv) \in Nat /\ rank(jv) \in Nat
      BY <1>5, <3>2
    <3> HIDE DEF rank
    <3> QED BY <3>1, <3>5, <3>6
  <2> HIDE DEF f
  <2>3. f \in Injection(F, 0 .. (max - 1))
    BY <2>1, <2>2 DEF Injection, IsInjective
  <2>4. IsFiniteSet(0 .. (max - 1)) /\ Cardinality(0 .. (max - 1)) = max
    <3>1. 0 \in Int /\ max - 1 \in Int /\ ~(0 > max - 1) /\ (max - 1) - 0 + 1 = max
      OBVIOUS
    <3> QED BY <3>1, FS_Interval
  <2>5. Cardinality(F) <= Cardinality(0 .. (max - 1))
    BY <2>3, <2>4, FS_Injection
  <2> QED BY <2>4, <2>5
<1>11. ASSUME Cardinality(F) < max PROVE F = R
  <2> DEFINE T == R \ F
  <2>1. SUFFICES ASSUME T # {} PROVE FALSE
    BY <1>1
  <2>2. PICK iv \in T : \A jv \in T : iv.start <= jv.start
    BY <2>1, <1>7
  <2>3. \A jv \in R : jv.start < iv.start => jv \in F
    BY <2>2, <1>3
  <2>4. Before(R, iv) \in SUBSET F
    BY <2>3, <1>4
  <2>5. rank(iv) <= Cardinality(F)
    BY <2>4, <1>9, FS_Subset
  <2>6. rank(iv) \in Nat
    BY <1>5
  <2> HIDE DEF rank
  <2>7. rank(iv) < max
    BY <2>5, <2>6, <1>9, <1>11
  <2> QED BY <2>7, <1>1
<1> QED BY <1>1, <1>8, <1>10, <1>11 DEF F

Missing(s) == (0 .. (s.total - 1)) \ s.covered

\* The maximal runs of uncovered bytes are proper ranges of missing bytes.
LEMMA HolesProper ==
  ASSUME NEW s, s.total \in Nat
  PROVE  /\ Proper(Holes(s), s.total)
         /\ \A iv \in Holes(s) : Bytes(iv) \subseteq Missing(s)
<1>1. ASSUME NEW iv \in Holes(s)
      PROVE  /\ iv.start \in Nat /\ iv.end \in Nat
             /\ iv.start < iv.end /\ iv.end <= s.total
             /\ iv = Interval(iv.start, iv.end)
             /\ \A x \in Bytes(iv) : x \notin s.covered
             /\ iv.start = 0 \/ (iv.start - 1) \in s.covered
             /\ iv.end = s.total \/ iv.end \in s.covered
  BY DEF Holes, Interval
<1>2. ASSUME NEW iv \in Holes(s), NEW jv \in Holes(s), NEW x \in Bytes(iv), x \in Bytes(jv)
      PROVE  iv.start = jv.start /\ iv.end = jv.end
  <2>1. /\ x \in Int /\ iv.start <= x /\ x < iv.end /\ jv.start <= x /\ x < jv.end
        /\ iv.start \in Nat /\ iv.end \in Nat /\ jv.start \in Nat /\ jv.end \in Nat
    BY <1>1, <1>2 DEF Bytes
  <2>2. ~(iv.start < jv.start)
    <3>1. SUFFICES ASSUME iv.start < jv.start PROVE FALSE
      OBVIOUS
    <3>2. jv.start - 1 \in s.covered
      BY <1>1, <2>1, <3>1
    <3>3. jv.start - 1 \in Bytes(iv)
      BY <2>1, <3>1 DEF Bytes
    <3> QED BY <1>1, <3>2, <3>3
  <2>3. ~(jv.start < iv.start)
    <3>1. SUFFICES ASSUME jv.start < iv.start PROVE FALSE
      OBVIOUS
    <3>2. iv.start - 1 \in s.covered
      BY <1>1, <2>1, <3>1
    <3>3. iv.start - 1 \in Bytes(jv)
      BY <2>1, <3>1 DEF Bytes
    <3> QED BY <1>1, <3>2, <3>3
  <2>4. ~(iv.end < jv.end)
    <3>1. SUFFICES ASSUME iv.end < jv.end PROVE FALSE
      OBVIOUS
    <3>2. iv.end \in s.covered
      BY <1>1, <2>1, <3>1
    <3>3. iv.end \in Bytes(jv)
      BY <2>1, <3>1 DEF Bytes
    <3> QED BY <1>1, <3>2, <3>3
  <2>5. ~(jv.end < iv.end)
    <3>1. SUFFICES ASSUME jv.end < iv.end PROVE FALSE
      OBVIOUS
    <3>2. jv.end \in s.covered
      BY <1>1, <2>1, <3>1
    <3>3. jv.end \in Bytes(iv)
      BY <2>1, <3>1 DEF Bytes
    <3> QED BY <1>1, <3>2, <3>3
  <2> QED BY <2>1, <2>2, <2>3, <2>4, <2>5
<1>3. \A iv, jv \in Holes(s) : iv # jv => Bytes(iv) \cap Bytes(jv) = {}
  BY <1>1, <1>2
<1>4. ASSUME NEW iv \in Holes(s) PROVE Bytes(iv) \subseteq Missing(s)
  BY <1>1 DEF Bytes, Missing
<1> QED BY <1>1, <1>3, <1>4 DEF Proper

\* Every missing byte is in one of the runs: the one that starts after the nearest
\* covered byte below it and ends at the nearest one above it.
LEMMA HolesCover ==
  ASSUME NEW s, s.total \in Nat, NEW m \in Missing(s)
  PROVE  \E iv \in Holes(s) : m \in Bytes(iv)
<1>1. m \in Nat /\ m < s.total /\ m \notin s.covered
  BY DEF Missing
<1> DEFINE E == {e \in (m + 1) .. s.total : e = s.total \/ e \in s.covered}
           A == {k \in 0 .. m : m - k = 0 \/ (m - k) - 1 \in s.covered}
<1>2. PICK e \in E : \A x \in E : e <= x
  <2>1. E \in SUBSET Nat
    BY <1>1
  <2>2. s.total \in E
    BY <1>1
  <2> HIDE DEF E
  <2> QED BY <2>1, <2>2, LeastElement
<1>3. PICK k \in A : \A x \in A : k <= x
  <2>1. A \in SUBSET Nat
    BY <1>1
  <2>2. m \in A
    BY <1>1
  <2> HIDE DEF A
  <2> QED BY <2>1, <2>2, LeastElement
<1> DEFINE a == m - k
           iv == Interval(a, e)
<1>4. /\ a \in Nat /\ a <= m /\ e \in Nat /\ m < e /\ e <= s.total
      /\ a = 0 \/ a - 1 \in s.covered
      /\ e = s.total \/ e \in s.covered
  BY <1>1
<1>5. ASSUME NEW x \in a .. (e - 1) PROVE x \notin s.covered
  <2>1. x \in Int /\ a <= x /\ x < e
    BY <1>4
  <2>2. CASE x = m
    BY <2>2, <1>1
  <2>3. CASE m < x
    <3>1. x \in (m + 1) .. s.total /\ ~(e <= x)
      BY <1>1, <1>4, <2>1, <2>3
    <3>2. x \notin E
      BY <1>2, <3>1
    <3> QED BY <3>1, <3>2
  <2>4. CASE x < m
    <3> DEFINE j == (m - x) - 1
    <3>1. j \in 0 .. m /\ ~(k <= j) /\ (m - j) - 1 = x
      BY <1>1, <1>4, <2>1, <2>4
    <3>2. j \notin A
      <4> HIDE DEF A, j
      <4> QED BY <1>3, <3>1
    <3> HIDE DEF j
    <3> QED BY <3>1, <3>2
  <2> QED BY <1>1, <2>1, <2>2, <2>3, <2>4
<1> HIDE DEF a, E, A
<1>6. iv.start = a /\ iv.end = e /\ Bytes(iv) = a .. (e - 1)
  BY DEF Interval, Bytes
<1>7. iv \in {Interval(x, y) : x \in 0 .. (s.total - 1), y \in 1 .. s.total}
  <2>1. a \in 0 .. (s.total - 1) /\ e \in 1 .. s.total
    BY <1>1, <1>4
  <2> QED BY <2>1
<1>8. Bytes(iv) \cap s.covered = {} /\ iv.start < iv.end
  BY <1>1, <1>4, <1>5, <1>6
<1> HIDE DEF iv
<1>9. iv \in Holes(s)
  BY <1>4, <1>6, <1>7, <1>8 DEF Holes
<1>10. m \in Bytes(iv)
  BY <1>1, <1>4, <1>6
<1> QED BY <1>9, <1>10

\* The ranges of the bad blocks are proper, the short last block included.
LEMMA CorruptProper ==
  ASSUME NEW s, s.total \in 0 .. (Word - 1), s.block \in 1 .. (Word - 1),
         NewOK(s.total, s.block, s.nblocks)
  PROVE  Proper(CorruptRanges(s), s.total)
<1> DEFINE t == s.total
           k == s.block
           n == s.nblocks
<1>1. /\ t \in Nat /\ k \in Nat \ {0} /\ n \in Nat
      /\ (n - 1) * k < t
  BY NBlocksExact, WordAssumption DEF NewOK
<1> DEFINE iv(b) == Interval(BlockStart(b, k), BlockEnd(b, k, t))
<1>2. ASSUME NEW b \in 0 .. (n - 1)
      PROVE  /\ iv(b).start = b * k /\ b * k \in Nat
             /\ iv(b).end \in Nat /\ b * k < iv(b).end
             /\ iv(b).end <= t /\ iv(b).end <= b * k + k
  <2>1. b \in Nat /\ n \in Nat /\ b <= n - 1
    BY <1>1
  <2>2. b * k \in Nat /\ b * k <= (n - 1) * k /\ (b + 1) * k = b * k + k
    <3> HIDE DEF n, k
    <3> QED BY <1>1, <2>1
  <2>3. (n - 1) * k \in Int
    <3> HIDE DEF n, k
    <3> QED BY <1>1
  <2>4. b * k < t
    <3> DEFINE p == b * k
               q == (n - 1) * k
    <3> HIDE DEF p, q, t
    <3>1. p \in Nat /\ p <= q /\ q < t /\ q \in Int /\ t \in Nat
      BY <1>1, <2>2, <2>3 DEF p, q
    <3>2. p < t
      BY <3>1
    <3> QED BY <3>2 DEF p
  <2>5. iv(b).start = b * k /\ iv(b).end = IF (b + 1) * k > t THEN t ELSE (b + 1) * k
    BY DEF Interval, BlockStart, BlockEnd
  <2> HIDE DEF iv
  <2> DEFINE p == b * k
  <2>6. p \in Nat /\ p < t /\ iv(b).start = p /\ iv(b).end = IF p + k > t THEN t ELSE p + k
    BY <2>2, <2>4, <2>5
  <2> HIDE DEF p, t, k
  <2>7. iv(b).end \in Nat /\ p < iv(b).end /\ iv(b).end <= t /\ iv(b).end <= p + k
    BY <1>1, <2>6
  <2> QED BY <2>6, <2>7 DEF p
<1>3. ASSUME NEW b \in 0 .. (n - 1), NEW c \in 0 .. (n - 1), b < c
      PROVE  iv(b).end <= iv(c).start
  <2>1. b \in Nat /\ c \in Nat /\ b + 1 <= c
    BY <1>1, <1>3
  <2>2. (b + 1) * k <= c * k /\ (b + 1) * k = b * k + k
    <3> HIDE DEF k
    <3> QED BY <1>1, <2>1
  <2>3. /\ iv(b).end <= b * k + k /\ iv(c).start = c * k /\ iv(b).end \in Nat
        /\ b * k \in Nat /\ c * k \in Nat
    BY <1>2
  <2> HIDE DEF iv
  <2> DEFINE p == b * k
             q == c * k
  <2>4. /\ iv(b).end <= p + k /\ iv(c).start = q /\ p + k <= q
        /\ iv(b).end \in Nat /\ p \in Nat /\ q \in Nat
    BY <2>2, <2>3
  <2> HIDE DEF p, q, k
  <2> QED BY <1>1, <2>4
<1>4. \A r \in CorruptRanges(s) : \E b \in 0 .. (n - 1) : r = iv(b)
  BY DEF CorruptRanges, BadBlocks
<1> HIDE DEF iv, t, k, n
<1>5. ASSUME NEW r \in CorruptRanges(s)
      PROVE  r.start \in Nat /\ r.end \in Nat /\ r.start < r.end /\ r.end <= t
  BY <1>2, <1>4
<1>6. ASSUME NEW r \in CorruptRanges(s), NEW q \in CorruptRanges(s), r # q
      PROVE  Bytes(r) \cap Bytes(q) = {}
  <2>1. PICK b \in 0 .. (n - 1) : r = iv(b)
    BY <1>4
  <2>2. PICK c \in 0 .. (n - 1) : q = iv(c)
    BY <1>4
  <2>3. b < c \/ c < b
    BY <1>1, <1>6, <2>1, <2>2
  <2>4. r.end <= q.start \/ q.end <= r.start
    BY <1>3, <2>1, <2>2, <2>3
  <2> QED BY <1>5, <2>4 DEF Bytes
<1> QED BY <1>5, <1>6 DEF Proper, t

\* The count of distinct bytes reaches total exactly when none is missing.
LEMMA MissingIffShort ==
  ASSUME NEW s, s.total \in Nat, s.covered \subseteq 0 .. (s.total - 1),
         s.covered_count = Cardinality(s.covered)
  PROVE  s.covered_count < s.total <=> Missing(s) # {}
<1> DEFINE All == 0 .. (s.total - 1)
           n == s.total
<1>1. IsFiniteSet(All) /\ Cardinality(All) = n
  <2>1. 0 \in Int /\ n - 1 \in Int /\ (0 > n - 1 => n = 0) /\ (n - 1) - 0 + 1 = n
    OBVIOUS
  <2> QED BY <2>1, FS_Interval
<1> HIDE DEF All
<1>2. /\ Cardinality(s.covered) <= n
      /\ n = Cardinality(s.covered) => All = s.covered
      /\ Cardinality(s.covered) \in Nat
  <2>1. s.covered \in SUBSET All
    BY DEF All
  <2> QED BY <1>1, <2>1, FS_Subset, FS_CardinalityType
<1>3. Missing(s) = All \ s.covered
  BY DEF Missing, All
<1>4. CASE s.covered_count < n
  <2>1. Missing(s) # {}
    <3>1. SUFFICES ASSUME Missing(s) = {} PROVE FALSE
      OBVIOUS
    <3>2. s.covered = All
      BY <1>3, <3>1 DEF All
    <3> QED BY <1>1, <1>4, <3>2
  <2> QED BY <1>4, <2>1
<1>5. CASE ~(s.covered_count < n)
  <2>1. All = s.covered
    BY <1>2, <1>5
  <2> QED BY <1>3, <1>5, <2>1
<1> QED BY <1>4, <1>5

\* What ci_svu_verify returns with a verdict other than success.
LEMMA RangesSound ==
  ASSUME NEW s, s.total \in 0 .. (Word - 1), s.block \in 1 .. (Word - 1),
         s.covered \subseteq 0 .. (s.total - 1),
         s.covered_count = Cardinality(s.covered),
         NewOK(s.total, s.block, s.nblocks), Status(s) # "COMPLETE_VERIFIED"
  PROVE  /\ Ranges(s) # {}
         /\ Proper(Ranges(s), s.total)
         /\ Missing(s) # {} => UNION {Bytes(iv) : iv \in Ranges(s)} = Missing(s)
<1>1. s.total \in Nat
  OBVIOUS
<1>2. s.covered_count < s.total <=> Missing(s) # {}
  BY <1>1, MissingIffShort
<1>3. CASE Missing(s) # {}
  <2>1. Ranges(s) = Holes(s)
    BY <1>2, <1>3 DEF Ranges, Status
  <2>2. \A m \in Missing(s) : \E iv \in Holes(s) : m \in Bytes(iv)
    BY <1>1, HolesCover
  <2>3. Proper(Holes(s), s.total) /\ \A iv \in Holes(s) : Bytes(iv) \subseteq Missing(s)
    BY <1>1, HolesProper
  <2>4. UNION {Bytes(iv) : iv \in Holes(s)} = Missing(s)
    BY <2>2, <2>3
  <2> QED BY <1>3, <2>1, <2>2, <2>3, <2>4
<1>4. CASE Missing(s) = {}
  <2>1. BadBlocks(s) # {} /\ Ranges(s) = CorruptRanges(s)
    BY <1>2, <1>4 DEF Ranges, Status
  <2>2. Ranges(s) # {}
    BY <2>1 DEF CorruptRanges
  <2>3. Proper(Ranges(s), s.total)
    BY <2>1, CorruptProper
  <2> QED BY <1>4, <2>2, <2>3
<1> QED BY <1>3, <1>4

\* Until the next data phase the request on the table is the one ci_svu_verify
\* filled in, and the tracker it was filled from has not moved: late data waits in
\* the socket, and a retry of the exchange repeats the same ranges.
Asks ==
  live /\ pc \in {"request", "header", "manifest"} =>
    /\ ivs = FirstRanges(Ranges(recv), MaxIntervals)
    /\ Status(recv) # "COMPLETE_VERIFIED"

LEMMA AsksSame ==
  ASSUME Asks, live' => live, recv' = recv, ivs' = ivs,
         pc' \in {"request", "header", "manifest"} =>
           pc \in {"request", "header", "manifest"}
  PROVE  Asks'
  BY DEF Asks

LEMMA AsksExchange ==
  ASSUME NEW h, NEW m, Asks, ExchangeDone(h, m), IInv
  PROVE  Asks'
<1>1. pc' = "drain" \/ pc' = "done"
  BY DEF ExchangeDone
<1> QED BY <1>1 DEF Asks

LEMMA AsksNext == Asks /\ IInv /\ [Next]_vars => Asks'
<1> SUFFICES ASSUME Asks, IInv, [Next]_vars PROVE Asks'
  OBVIOUS
<1>1. CASE \/ ServeRequest \/ ServeStop \/ ServeStart \/ RouterDrop
           \/ LoseRequest \/ LoseControl \/ LoseData \/ UNCHANGED vars
  <2>1. live' = live /\ recv' = recv /\ ivs' = ivs /\ pc' = pc
    BY <1>1 DEF ServeRequest, ServeStop, ServeStart, RouterDrop, LoseRequest,
                LoseControl, LoseData, client, vars
  <2> QED BY <2>1, AsksSame
<1>2. CASE SendRequest
  <2>1. live' = live /\ recv' = recv /\ ivs' = ivs /\ pc = "request"
    BY <1>2 DEF SendRequest, client
  <2> QED BY <2>1, AsksSame
<1>3. CASE ConnectFails \/ ReadTimeout
  <2>1. live' = live /\ recv' = recv /\ ivs' = ivs
    BY <1>3 DEF ConnectFails, ReadTimeout, AttemptFails
  <2>2. pc \in {"request", "header", "manifest"}
    BY <1>3 DEF ConnectFails, ReadTimeout
  <2> QED BY <2>1, <2>2, AsksSame
<1>4. CASE ReadHeader
  <2>1. pc = "header"
    BY <1>4 DEF ReadHeader
  <2>2. CASE AttemptFails
    BY <2>1, <2>2, AsksSame DEF AttemptFails
  <2>3. CASE ExchangeDone(Head(ctl).hdr, <<>>)
    BY <2>3, AsksExchange
  <2>4. CASE pc' = "manifest" /\ UNCHANGED <<live, recv, result>> /\ ivs' = ivs
    BY <2>1, <2>4, AsksSame
  <2> QED BY <1>4, <2>2, <2>3, <2>4 DEF ReadHeader
<1>5. CASE ReadManifest
  <2>1. pc = "manifest" /\ ivs' = ivs
    BY <1>5 DEF ReadManifest
  <2>2. CASE UNCHANGED <<pc, live, recv, result>>
    BY <2>1, <2>2, AsksSame
  <2>3. CASE ExchangeDone(hdr, man')
    BY <2>3, AsksExchange
  <2> QED BY <1>5, <2>2, <2>3 DEF ReadManifest
<1>6. CASE \E f \in wire : ReceiveData(f) \/ ReceiveDuplicate(f) \/ ReceiveDamaged(f)
  <2>1. pc' = "drain"
    BY <1>6 DEF ReceiveData, ReceiveDuplicate, ReceiveDamaged
  <2> QED BY <2>1 DEF Asks
<1>7. CASE DrainIdle
  <2>1. recv' = recv
    BY <1>7 DEF DrainIdle
  <2>2. CASE Status(recv) = "COMPLETE_VERIFIED"
    <3>1. pc' = "write"
      BY <1>7, <2>2 DEF DrainIdle
    <3> QED BY <3>1 DEF Asks
  <2>3. CASE Status(recv) # "COMPLETE_VERIFIED"
    <3>1. ivs' = FirstRanges(Ranges(recv), MaxIntervals)
      BY <1>7, <2>3 DEF DrainIdle
    <3> QED BY <2>1, <2>3, <3>1 DEF Asks
  <2> QED BY <2>2, <2>3
<1>8. CASE OpenFails \/ WriteFile
  <2>1. pc' = "done"
    BY <1>8 DEF OpenFails, WriteFile
  <2> QED BY <2>1 DEF Asks
<1> QED BY <1>1, <1>2, <1>3, <1>4, <1>5, <1>6, <1>7, <1>8, Zenon
        DEF Next, ClientStep, Terminated

LEMMA AsksSound == IInv /\ Asks => ReRequestSound
<1> SUFFICES ASSUME IInv, Asks, live, pc \in {"request", "header", "manifest"}
             PROVE  /\ ivs # {}
                    /\ Cardinality(ivs) <= MaxIntervals
                    /\ UNION {Bytes(iv) : iv \in ivs} \subseteq 0 .. (recv.total - 1)
                    /\ \A iv, jv \in ivs : iv # jv => Bytes(iv) \cap Bytes(jv) = {}
                    /\ \A iv \in ivs : Bytes(iv) # {}
                    /\ Missing(recv) # {} =>
                         /\ UNION {Bytes(iv) : iv \in ivs} \subseteq Missing(recv)
                         /\ Cardinality(ivs) < MaxIntervals =>
                              UNION {Bytes(iv) : iv \in ivs} = Missing(recv)
  BY DEF ReRequestSound, Missing
<1> DEFINE R == Ranges(recv)
<1>1. ivs = FirstRanges(R, MaxIntervals) /\ Status(recv) # "COMPLETE_VERIFIED"
  BY DEF Asks
<1>2. NewOK(recv.total, recv.block, recv.nblocks)
  BY DEF IInv, Control
<1>3. /\ recv.total \in 0 .. (Word - 1) /\ recv.block \in 1 .. (Word - 1)
      /\ recv.covered \subseteq 0 .. (recv.total - 1)
      /\ recv.covered_count = Cardinality(recv.covered)
  BY <1>2 DEF IInv, TypeOK, TrackerOK, CoverageExact, NewOK, NBlocks
<1>4. /\ R # {} /\ Proper(R, recv.total)
      /\ Missing(recv) # {} => UNION {Bytes(iv) : iv \in R} = Missing(recv)
  BY <1>1, <1>2, <1>3, RangesSound
<1> HIDE DEF R
<1>5. /\ ivs \subseteq R /\ ivs # {} /\ Cardinality(ivs) <= MaxIntervals
      /\ Cardinality(ivs) < MaxIntervals => ivs = R
  BY <1>1, <1>3, <1>4, LimitsAssumption, FirstRangesFit
<1>6. \A iv \in R : Bytes(iv) # {} /\ Bytes(iv) \subseteq 0 .. (recv.total - 1)
  <2>1. SUFFICES ASSUME NEW iv \in R
                 PROVE  iv.start \in Bytes(iv) /\ Bytes(iv) \subseteq 0 .. (recv.total - 1)
    OBVIOUS
  <2> QED BY <1>3, <1>4 DEF Proper, Bytes
<1>7. \A iv, jv \in ivs : iv # jv => Bytes(iv) \cap Bytes(jv) = {}
  BY <1>4, <1>5 DEF Proper
<1> QED BY <1>4, <1>5, <1>6, <1>7

\* Whatever was lost, damaged or misplaced, the ranges svu_client_run asks for
\* again are proper, fit the request and miss no hole unless the limit cut them.
THEOREM ReRequests == Spec => []ReRequestSound
<1>1. Init => Asks
  BY DEF Init, Asks
<1> QED BY <1>1, AsksNext, AsksSound, Invariance, PTL DEF Spec

-----------------------------------------------------------------------------
(* The tracker on its own, fed with anything.                              *)

\* s is a tracker of payload f: well formed, of an accepted geometry, and with the
\* manifest of f.
Tracks(s, f) ==
  /\ WellFormed(s, Byte)
  /\ s.total \in 0 .. (Word - 1) /\ s.block \in 1 .. (Word - 1)
  /\ NewOK(s.total, s.block, s.nblocks)
  /\ f \in [0 .. (s.total - 1) -> Byte]
  /\ s.expected = Manifest(f, s.total, s.block)

LEMMA ManifestEntry ==
  ASSUME NEW size \in 0 .. (Word - 1), NEW block \in 1 .. (Word - 1), NEW f,
         NEW b \in 0 .. (NBlocks(size, block) - 1), NEW k \in 1 .. DigestLen
  PROVE  Manifest(f, size, block)[b * DigestLen + k] =
           << HashBlock(f, size, block, b), k - 1 >>
<1> DEFINE n == NBlocks(size, block)
           j == b * DigestLen + k
<1>1. /\ b \in Nat /\ n \in Nat /\ b + 1 <= n /\ DigestLen \in Nat \ {0}
      /\ k \in Nat /\ 1 <= k /\ k <= DigestLen
  BY NBlocksExact, DigestLenAssumption
<1>2. b * DigestLen \in Nat /\ (b + 1) * DigestLen <= n * DigestLen
      /\ (b + 1) * DigestLen = b * DigestLen + DigestLen /\ n * DigestLen \in Nat
  <2> HIDE DEF n
  <2> QED BY <1>1
<1>3. j \in 1 .. (n * DigestLen) /\ j - 1 \in Nat
  <2> DEFINE x == b * DigestLen
             y == n * DigestLen
  <2>1. x \in Nat /\ y \in Nat /\ x + DigestLen <= y /\ j = x + k
    BY <1>2
  <2> HIDE DEF x, y, j
  <2>2. j \in 1 .. y /\ j - 1 \in Nat
    BY <1>1, <2>1
  <2> QED BY <2>2 DEF y
<1>4. j - 1 = DigestLen * b + (k - 1) /\ k - 1 \in 0 .. (DigestLen - 1)
  BY <1>1, <1>2
<1> HIDE DEF j
<1>5. (j - 1) \div DigestLen = b /\ (j - 1) % DigestLen = k - 1
  <2>1. j - 1 \in Int /\ b \in Int
    BY <1>1, <1>3
  <2>2. (j - 1) \div DigestLen = b
    BY <1>1, <1>3, <1>4, DivUnique
  <2>3. (j - 1) % DigestLen = k - 1
    BY <1>1, <1>4, <2>1, ModUnique
  <2> QED BY <2>2, <2>3
<1> HIDE DEF n
<1>6. Manifest(f, size, block)[j] =
        << HashBlock(f, size, block, (j - 1) \div DigestLen), (j - 1) % DigestLen >>
  BY <1>3 DEF Manifest, n
<1> QED BY <1>5, <1>6 DEF j

\* The bad blocks are those in which the buffer's digest is not the payload's.
LEMMA BadBlocksAre ==
  ASSUME NEW s, NEW f, Tracks(s, f), NEW b \in 0 .. (s.nblocks - 1)
  PROVE  b \in BadBlocks(s) <=>
           HashBlock(s.data, s.total, s.block, b) # HashBlock(f, s.total, s.block, b)
<1> DEFINE x == HashBlock(s.data, s.total, s.block, b)
           y == HashBlock(f, s.total, s.block, b)
<1>1. \A k \in 1 .. DigestLen : s.expected[b * DigestLen + k] = << y, k - 1 >>
  <2>1. /\ s.total \in 0 .. (Word - 1) /\ s.block \in 1 .. (Word - 1)
        /\ b \in 0 .. (NBlocks(s.total, s.block) - 1)
    BY DEF Tracks, NewOK
  <2>2. s.expected = Manifest(f, s.total, s.block)
    BY DEF Tracks
  <2> SUFFICES ASSUME NEW k \in 1 .. DigestLen
               PROVE  Manifest(f, s.total, s.block)[b * DigestLen + k] = << y, k - 1 >>
    BY <2>2
  <2> QED BY <2>1, ManifestEntry
<1> HIDE DEF y
<1>2. ExpectedDigest(s, b) = DigestBytes(y)
  BY <1>1 DEF ExpectedDigest, DigestBytes
<1>3. DigestBytes(x)[1] = << x, 0 >> /\ DigestBytes(y)[1] = << y, 0 >>
  <2> HIDE DEF x
  <2> QED BY DigestLenAssumption DEF DigestBytes
<1>4. b \in BadBlocks(s) <=> DigestBytes(x) # DigestBytes(y)
  BY <1>2 DEF BadBlocks
<1> HIDE DEF x
<1>5. x # y <=> DigestBytes(x) # DigestBytes(y)
  BY <1>3
<1> QED BY <1>4, <1>5 DEF x, y

\* Equal digests of a block mean equal bytes in it.
LEMMA BlockBytes ==
  ASSUME NEW size \in Nat, NEW block \in Nat, NEW d, NEW e, NEW b \in Nat,
         HashBlock(d, size, block, b) = HashBlock(e, size, block, b),
         NEW i \in BlockStart(b, block) .. (BlockEnd(b, block, size) - 1)
  PROVE  d[i] = e[i]
<1> DEFINE a == BlockStart(b, block)
           k == i - a + 1
<1>1. a \in Int /\ BlockEnd(b, block, size) \in Int
  BY DEF BlockStart, BlockEnd
<1>2. k \in 1 .. (BlockEnd(b, block, size) - a) /\ a + k - 1 = i
  BY <1>1
<1>3. HashBlock(d, size, block, b)[k] = d[i] /\ HashBlock(e, size, block, b)[k] = e[i]
  BY <1>2 DEF HashBlock
<1> QED BY <1>3

LEMMA NoBadBlocks ==
  ASSUME NEW s, NEW f, Tracks(s, f)
  PROVE  BadBlocks(s) = {} <=> s.data = f
<1>1. /\ s.total \in 0 .. (Word - 1) /\ s.block \in 1 .. (Word - 1)
      /\ NBlocks(s.total, s.block) # 0 /\ s.nblocks = NBlocks(s.total, s.block)
      /\ s.data \in [0 .. (s.total - 1) -> Byte] /\ f \in [0 .. (s.total - 1) -> Byte]
  BY DEF Tracks, NewOK, WellFormed
<1>2. ASSUME BadBlocks(s) = {} PROVE s.data = f
  <2>1. \A b \in 0 .. (NBlocks(s.total, s.block) - 1) :
           HashBlock(s.data, s.total, s.block, b) = HashBlock(f, s.total, s.block, b)
    BY <1>1, <1>2, BadBlocksAre
  <2> QED BY <1>1, <2>1, DigestsDeterminePayload
<1>3. ASSUME s.data = f PROVE BadBlocks(s) = {}
  <2>1. \A b \in 0 .. (s.nblocks - 1) : b \notin BadBlocks(s)
    BY <1>3, BadBlocksAre
  <2> QED BY <2>1 DEF BadBlocks
<1> QED BY <1>2, <1>3

\* Both directions of the verdict.
LEMMA StatusExact ==
  ASSUME NEW s, NEW f, Tracks(s, f)
  PROVE  Status(s) = "COMPLETE_VERIFIED" <=>
           s.covered = 0 .. (s.total - 1) /\ s.data = f
<1>1. /\ s.total \in Nat /\ s.covered \subseteq 0 .. (s.total - 1)
      /\ s.covered_count = Cardinality(s.covered)
  BY DEF Tracks, WellFormed
<1>2. s.covered_count < s.total <=> Missing(s) # {}
  BY <1>1, MissingIffShort
<1>3. Missing(s) = {} <=> s.covered = 0 .. (s.total - 1)
  BY <1>1 DEF Missing
<1>4. BadBlocks(s) = {} <=> s.data = f
  BY NoBadBlocks
<1> QED BY <1>2, <1>3, <1>4 DEF Status

Asked(s) == UNION {Bytes(iv) : iv \in Ranges(s)}

\* r is s after the payload's bytes arrived in every range that was asked for.
LEMMA RepairSuffices ==
  ASSUME NEW s, NEW f, Tracks(s, f), NEW r, SameGeometry(s, r),
         r.covered = s.covered \cup Asked(s),
         r.covered_count = Cardinality(r.covered),
         r.data = [i \in 0 .. (s.total - 1) |-> IF i \in Asked(s) THEN f[i] ELSE s.data[i]]
  PROVE  /\ Status(s) = "INCOMPLETE" => Status(r) # "INCOMPLETE"
         /\ Status(s) = "CORRUPT" => Status(r) = "COMPLETE_VERIFIED"
<1>1. /\ s.total \in Nat /\ s.total \in 0 .. (Word - 1) /\ s.block \in 1 .. (Word - 1)
      /\ s.covered \subseteq 0 .. (s.total - 1)
      /\ s.covered_count = Cardinality(s.covered)
      /\ s.data \in [0 .. (s.total - 1) -> Byte] /\ f \in [0 .. (s.total - 1) -> Byte]
      /\ NewOK(s.total, s.block, s.nblocks)
  BY DEF Tracks, WellFormed
<1>2. r.total = s.total /\ r.block = s.block /\ r.nblocks = s.nblocks /\ r.expected = s.expected
  BY DEF SameGeometry
<1>3. s.covered_count < s.total <=> Missing(s) # {}
  BY <1>1, MissingIffShort
<1>4. ASSUME Status(s) # "COMPLETE_VERIFIED" PROVE r.covered = 0 .. (s.total - 1)
  <2>1. /\ Proper(Ranges(s), s.total)
        /\ Missing(s) # {} => Asked(s) = Missing(s)
    BY <1>1, <1>4, RangesSound DEF Asked
  <2>2. Asked(s) \subseteq 0 .. (s.total - 1)
    <3>1. ASSUME NEW iv \in Ranges(s) PROVE Bytes(iv) \subseteq 0 .. (s.total - 1)
      BY <1>1, <2>1 DEF Proper, Bytes
    <3> QED BY <3>1 DEF Asked
  <2> QED BY <1>1, <2>1, <2>2 DEF Missing
<1>5. \A i \in 0 .. (s.total - 1) : r.data[i] \in Byte
  BY <1>1
<1>6. r.data \in [0 .. (s.total - 1) -> Byte]
  BY <1>5
<1>7. ASSUME Status(s) # "COMPLETE_VERIFIED" PROVE Tracks(r, f) /\ ~(r.covered_count < r.total)
  <2>1. r.covered \subseteq 0 .. (r.total - 1) /\ Missing(r) = {}
    BY <1>2, <1>4, <1>7 DEF Missing
  <2>2. ~(r.covered_count < r.total)
    BY <1>1, <1>2, <2>1, MissingIffShort
  <2> QED BY <1>1, <1>2, <1>6, <2>1, <2>2 DEF Tracks, WellFormed
<1>8. ASSUME Status(s) = "INCOMPLETE" PROVE Status(r) # "INCOMPLETE"
  BY <1>7, <1>8 DEF Status
<1>9. ASSUME Status(s) = "CORRUPT" PROVE Status(r) = "COMPLETE_VERIFIED"
  <2>1. Ranges(s) = CorruptRanges(s)
    BY <1>9 DEF Ranges
  <2>2. ASSUME NEW i \in 0 .. (s.total - 1), i \notin Asked(s) PROVE s.data[i] = f[i]
    <3>1. PICK b \in 0 .. (s.nblocks - 1) :
             i \in BlockStart(b, s.block) .. (BlockEnd(b, s.block, s.total) - 1)
      BY <1>1, ByteInBlock DEF NewOK
    <3>2. b \notin BadBlocks(s)
      <4>1. SUFFICES ASSUME b \in BadBlocks(s) PROVE FALSE
        OBVIOUS
      <4> DEFINE iv == Interval(BlockStart(b, s.block), BlockEnd(b, s.block, s.total))
      <4>2. iv \in CorruptRanges(s)
        BY <4>1 DEF CorruptRanges
      <4>3. i \in Bytes(iv)
        BY <3>1 DEF Bytes, Interval
      <4> HIDE DEF iv
      <4> QED BY <2>1, <2>2, <4>2, <4>3 DEF Asked
    <3>3. HashBlock(s.data, s.total, s.block, b) = HashBlock(f, s.total, s.block, b)
      BY <3>2, BadBlocksAre
    <3>4. b \in Nat /\ s.block \in Nat
      BY <1>1, <3>1
    <3> QED BY <1>1, <3>1, <3>3, <3>4, BlockBytes
  <2>3. r.data = f
    BY <1>1, <2>2
  <2>4. Tracks(r, f) /\ r.covered = 0 .. (r.total - 1)
    BY <1>2, <1>4, <1>7, <1>9
  <2> QED BY <2>3, <2>4, StatusExact
<1> QED BY <1>8, <1>9

\* struct ci_svu, with every field.
Fields(t) ==
  [total |-> t.total, block |-> t.block, nblocks |-> t.nblocks,
   covered_count |-> t.covered_count, data |-> t.data, covered |-> t.covered,
   expected |-> t.expected]

\* The inductive invariant of the tracker.
TInv ==
  /\ Tracks(trk, file)
  /\ trk = Fields(trk)
  /\ maxout \in Nat

LEMMA TInitInv == TInit => TInv
<1> SUFFICES ASSUME TInit PROVE TInv
  OBVIOUS
<1>1. PICK size \in Sizes, block \in Blocks :
        /\ NewOK(size, block, NBlocks(size, block))
        /\ file \in [0 .. (size - 1) -> Byte]
        /\ trk = NewTracker(size, block, NBlocks(size, block), Manifest(file, size, block))
        /\ maxout \in Capacity
  BY DEF TInit
<1>2. size \in 1 .. (Word - 1) /\ block \in 1 .. (Word - 1) /\ maxout \in Nat
  BY <1>1, TrackerAssumption
<1>3. /\ trk.total = size /\ trk.block = block /\ trk.nblocks = NBlocks(size, block)
      /\ trk.covered_count = 0 /\ trk.covered = {}
      /\ trk.data = [i \in 0 .. (size - 1) |-> 0]
      /\ trk.expected = Manifest(file, size, block)
      /\ trk = Fields(trk)
  BY <1>1 DEF NewTracker, Fields
<1>4. WellFormed(trk, Byte)
  BY <1>2, <1>3, ByteAssumption, WordAssumption, FS_EmptySet DEF WellFormed
<1> QED BY <1>1, <1>2, <1>3, <1>4, WordAssumption DEF TInv, Tracks

LEMMA FragmentType ==
  ASSUME NEW f \in Fragments, TInv
  PROVE  f.off \in Nat /\ f.buf \in Seq(Byte) /\ Len(f.buf) \in Nat
<1>1. trk.total \in Nat
  BY DEF TInv, Tracks, WellFormed
<1>2. PICK o \in 0 .. trk.total, b \in UNION {[1 .. n -> Byte] : n \in 1 .. MaxLen} :
         f = [off |-> o, buf |-> b]
  BY DEF Fragments
<1>3. PICK n \in 1 .. MaxLen : b \in [1 .. n -> Byte]
  BY <1>2
<1>4. n \in Nat
  BY TrackerAssumption
<1> QED BY <1>1, <1>2, <1>3, <1>4

LEMMA TNextInv == TInv /\ [TAccept]_tvars => TInv'
<1> SUFFICES ASSUME TInv, [TAccept]_tvars PROVE TInv'
  OBVIOUS
<1>1. CASE TAccept
  <2>1. PICK f \in Fragments : trk' = Accept(trk, f.off, f.buf)
    BY <1>1 DEF TAccept
  <2>2. file' = file /\ maxout' = maxout
    BY <1>1 DEF TAccept
  <2>3. WellFormed(trk, Byte) /\ f.off \in Nat /\ f.buf \in Seq(Byte)
    BY FragmentType DEF TInv, Tracks
  <2>4. WellFormed(trk', Byte) /\ SameGeometry(trk, trk')
    BY <2>1, <2>3, AcceptPreserves
  <2>5. trk' = Fields(trk')
    BY <2>1 DEF TInv, Accept, Fields
  <2> QED BY <2>2, <2>4, <2>5 DEF TInv, Tracks, SameGeometry
<1>2. CASE UNCHANGED tvars
  BY <1>2 DEF TInv, Tracks, WellFormed, Fields, tvars
<1> QED BY <1>1, <1>2

LEMMA TInvariance == TSpec => []TInv
  BY TInitInv, TNextInv, PTL DEF TSpec

\* Whatever fragments were fed, in whatever order and with whatever bytes,
\* ci_svu_verify says COMPLETE_VERIFIED exactly when the buffer is the payload and
\* every byte of it arrived.
THEOREM VerdictIsExact == TSpec => []VerdictExact
<1>1. TInv => VerdictExact
  BY StatusExact DEF TInv, VerdictExact
<1> QED BY <1>1, TInvariance, PTL

\* The ranges ci_svu_verify lists are enough: their bytes fill every hole, and then
\* repair every corrupt block.
THEOREM RequestsAreEnough == TSpec => []RequestsSuffice
<1>1. TInv => RequestsSuffice
  <2> SUFFICES ASSUME TInv PROVE RequestsSuffice
    OBVIOUS
  <2> DEFINE r == Repaired
  <2>1. Tracks(trk, file) /\ trk = Fields(trk) /\ DOMAIN trk.data = 0 .. (trk.total - 1)
    BY DEF TInv, Tracks, WellFormed
  <2>2. /\ SameGeometry(trk, r)
        /\ r.covered = trk.covered \cup Asked(trk)
        /\ r.covered_count = Cardinality(r.covered)
        /\ r.data = [i \in 0 .. (trk.total - 1) |->
                       IF i \in Asked(trk) THEN file[i] ELSE trk.data[i]]
    <3> DEFINE a == Asked(trk)
               c == Cardinality(trk.covered \cup a)
               d == [i \in DOMAIN trk.data |-> IF i \in a THEN file[i] ELSE trk.data[i]]
    <3>1. r = [trk EXCEPT !.covered = trk.covered \cup a, !.covered_count = c, !.data = d]
      BY DEF Repaired, Asked
    <3> HIDE DEF a, c, d, r
    <3>2. r = [total |-> trk.total, block |-> trk.block, nblocks |-> trk.nblocks,
               covered_count |-> c, data |-> d, covered |-> trk.covered \cup a,
               expected |-> trk.expected]
      BY <2>1, <3>1 DEF Fields
    <3>3. r.covered = trk.covered \cup a /\ r.covered_count = c
      BY <3>2
    <3>4. r.covered_count = Cardinality(r.covered)
      BY <3>3 DEF c
    <3> QED BY <2>1, <3>2, <3>3, <3>4 DEF SameGeometry, a, d
  <2> HIDE DEF r
  <2>3. /\ Status(trk) = "INCOMPLETE" => Status(r) # "INCOMPLETE"
        /\ Status(trk) = "CORRUPT" => Status(r) = "COMPLETE_VERIFIED"
    BY ONLY <2>1, <2>2, RepairSuffices
  <2> QED BY <2>3 DEF RequestsSuffice, r
<1> QED BY <1>1, TInvariance, PTL


-----------------------------------------------------------------------------
(* The loops of the code compute the sets of SvuCore.                      *)

Covering(off, len, cov, count) ==
  LET span == off .. (off + len - 1)
  IN  [covered |-> cov \cup span, covered_count |-> count + Cardinality(span \ cov)]

\* The byte loop of ci_svu_accept: the span is covered and its new bytes counted.
LEMMA CoverLoopIs ==
  ASSUME NEW off \in Nat, NEW len \in Nat, NEW cov, IsFiniteSet(cov), NEW count \in Nat
  PROVE  CoverLoop(off, len, cov, count) = Covering(off, len, cov, count)
<1> DEFINE span(n) == off .. (off + n - 1)
           new(n) == Cardinality(span(n) \ cov)
           st(n) == [covered |-> cov \cup span(n), covered_count |-> count + new(n)]
           turn(was, n) ==
             IF off + n - 1 \in was.covered THEN was
             ELSE [covered |-> was.covered \cup {off + n - 1},
                   covered_count |-> was.covered_count + 1]
           first == [covered |-> cov, covered_count |-> count]
           loop == CHOOSE f : f = [n \in 0 .. len |-> IF n = 0 THEN first ELSE turn(f[n - 1], n)]
<1>1. CoverLoop(off, len, cov, count) = loop[len]
  BY DEF CoverLoop
<1>2. ASSUME NEW n \in 0 .. len PROVE IsFiniteSet(span(n) \ cov) /\ new(n) \in Nat
  <2>1. IsFiniteSet(span(n))
    BY FS_Interval, off \in Int, off + n - 1 \in Int
  <2>2. IsFiniteSet(span(n) \ cov)
    <3> HIDE DEF span
    <3> QED BY <2>1, FS_Subset
  <2> QED BY <2>2, FS_CardinalityType
<1>3. st(0) = first
  <2>1. span(0) = {}
    OBVIOUS
  <2>2. new(0) = 0
    BY <2>1, FS_EmptySet
  <2> HIDE DEF span, new
  <2> QED BY <2>1, <2>2
<1>4. ASSUME NEW n \in 1 .. len PROVE st(n) = turn(st(n - 1), n)
  <2> DEFINE i == off + n - 1
  <2>1. span(n) = span(n - 1) \cup {i} /\ i \notin span(n - 1) /\ n - 1 \in 0 .. len
    OBVIOUS
  <2>2. IsFiniteSet(span(n - 1) \ cov) /\ new(n - 1) \in Nat
    BY <2>1, <1>2
  <2> DEFINE A == span(n - 1)
             B == span(n)
  <2>3. B = A \cup {i} /\ i \notin A /\ IsFiniteSet(A \ cov)
    BY <2>1, <2>2
  <2>4. st(n - 1).covered = cov \cup A /\ st(n - 1).covered_count = count + Cardinality(A \ cov)
    OBVIOUS
  <2> HIDE DEF A, B, i
  <2>5. CASE i \in cov
    <3>1. B \ cov = A \ cov /\ cov \cup B = cov \cup A
      BY <2>3, <2>5
    <3>2. st(n) = st(n - 1)
      BY <3>1 DEF A, B
    <3>3. i \in st(n - 1).covered
      BY <2>4, <2>5
    <3> HIDE DEF st
    <3> QED BY <3>2, <3>3 DEF i
  <2>6. CASE i \notin cov
    <3>1. B \ cov = (A \ cov) \cup {i} /\ cov \cup B = (cov \cup A) \cup {i}
          /\ i \notin A \ cov /\ i \notin cov \cup A
      BY <2>3, <2>6
    <3>2. Cardinality(B \ cov) = Cardinality(A \ cov) + 1
      BY <2>3, <3>1, FS_AddElement
    <3>3. Cardinality(A \ cov) \in Nat
      BY <2>3, FS_CardinalityType
    <3>4. st(n).covered = (cov \cup A) \cup {i} /\ st(n).covered_count = (count + Cardinality(A \ cov)) + 1
      <4>1. st(n).covered = cov \cup B /\ st(n).covered_count = count + Cardinality(B \ cov)
        BY DEF B
      <4> HIDE DEF st
      <4> QED BY <3>1, <3>2, <3>3, <4>1
    <3>5. st(n) = [covered |-> st(n).covered, covered_count |-> st(n).covered_count]
      OBVIOUS
    <3> HIDE DEF st
    <3>6. i \notin st(n - 1).covered
      BY <2>4, <3>1
    <3>7. st(n) = [covered |-> st(n - 1).covered \cup {i},
                   covered_count |-> st(n - 1).covered_count + 1]
      BY <2>4, <3>4, <3>5
    <3> QED BY <3>6, <3>7 DEF i
  <2> QED BY <2>5, <2>6
<1> HIDE DEF st, turn, first
<1>5. loop = [n \in 0 .. len |-> IF n = 0 THEN first ELSE turn(loop[n - 1], n)]
  <2> DEFINE w == [n \in 0 .. len |-> st(n)]
  <2>1. w = [n \in 0 .. len |-> IF n = 0 THEN first ELSE turn(w[n - 1], n)]
    <3>1. ASSUME NEW n \in 0 .. len
          PROVE  w[n] = IF n = 0 THEN first ELSE turn(w[n - 1], n)
      <4>1. w[n] = st(n)
        OBVIOUS
      <4>2. CASE n = 0
        BY <1>3, <4>1, <4>2
      <4>3. CASE n # 0
        <5>1. n \in 1 .. len /\ w[n - 1] = st(n - 1)
          BY <4>3
        <5> HIDE DEF w
        <5> QED BY <1>4, <4>1, <4>3, <5>1
      <4> QED BY <4>2, <4>3
    <3>2. DOMAIN w = 0 .. len /\ w = [n \in 0 .. len |-> w[n]]
      OBVIOUS
    <3> HIDE DEF w
    <3> QED BY <3>1, <3>2
  <2> HIDE DEF w
  <2> QED BY <2>1
<1> HIDE DEF loop
<1> DEFINE S == {n \in 0 .. len : loop[n] = st(n)}
<1>6. 0 \in S
  BY <1>3, <1>5
<1>7. ASSUME NEW n \in 1 .. len, n - 1 \in S PROVE n \in S
  <2>1. loop[n] = turn(loop[n - 1], n) /\ n \in 0 .. len
    BY <1>5
  <2>2. loop[n - 1] = st(n - 1)
    BY <1>7
  <2> QED BY <1>4, <2>1, <2>2
<1>8. len \in S
  <2> HIDE DEF S
  <2>1. \A k \in 0 .. len : k \in S
    BY <1>6, <1>7, SetInduction
  <2> QED BY <2>1
<1>9. st(len) = Covering(off, len, cov, count)
  BY DEF st, Covering
<1> HIDE DEF S
<1>10. loop[len] = st(len)
  BY <1>8 DEF S
<1> QED BY <1>1, <1>9, <1>10

\* The set arithmetic of Accept is what the byte loop of ci_svu_accept leaves.
THEOREM AcceptLoop == TSpec => []AcceptIsLoop
<1>1. TInv => AcceptIsLoop
  <2> SUFFICES ASSUME TInv, NEW f \in Fragments, f.off + Len(f.buf) <= trk.total
               PROVE  LET t == Accept(trk, f.off, f.buf)
                          c == CoverLoop(f.off, Len(f.buf), trk.covered, trk.covered_count)
                      IN  t.covered = c.covered /\ t.covered_count = c.covered_count
    BY DEF AcceptIsLoop
  <2> DEFINE off == f.off
             len == Len(f.buf)
             span == off .. (off + len - 1)
             t == Accept(trk, f.off, f.buf)
             c == CoverLoop(f.off, Len(f.buf), trk.covered, trk.covered_count)
  <2>1. /\ trk.total \in Nat /\ trk.covered \subseteq 0 .. (trk.total - 1)
        /\ trk.covered_count = Cardinality(trk.covered)
        /\ off \in Nat /\ len \in Nat
    BY FragmentType DEF TInv, Tracks, WellFormed
  <2>2. IsFiniteSet(trk.covered) /\ trk.covered_count \in Nat
    BY <2>1, OffsetsFinite, FS_Subset, FS_CardinalityType
  <2>3. /\ c.covered = trk.covered \cup span
        /\ c.covered_count = trk.covered_count + Cardinality(span \ trk.covered)
    <3>1. c = Covering(off, len, trk.covered, trk.covered_count)
      BY <2>1, <2>2, CoverLoopIs
    <3> HIDE DEF c
    <3> QED BY <3>1 DEF Covering
  <2>4. ~(f.off + Len(f.buf) > trk.total)
    BY <2>1
  <2>5. /\ t.covered = trk.covered \cup span
        /\ t.covered_count = trk.covered_count + Cardinality(span \ trk.covered)
    BY <2>4 DEF Accept
  <2> HIDE DEF c, t
  <2>6. t.covered = c.covered /\ t.covered_count = c.covered_count
    BY <2>3, <2>5
  <2> QED BY <2>6 DEF c, t
<1> QED BY <1>1, TInvariance, PTL


Ivals == [start : Nat, end : Nat]

\* acc holds the ranges R, the first maxout of them in out[], in rising order.
Stored(acc, R) ==
  /\ acc.out \in Seq(Ivals)
  /\ acc.nout = Cardinality(R)
  /\ Range(acc.out) = FirstRanges(R, maxout)
  /\ \A i, j \in 1 .. Len(acc.out) : i < j => acc.out[i].end <= acc.out[j].start

\* A range behind all the others is stored exactly when there is still room.
LEMMA FirstRangesGrow ==
  ASSUME NEW total \in Nat, NEW R, Proper(R, total), NEW iv \in Ivals,
         \A jv \in R : jv.end <= iv.start, NEW max \in Nat, NEW Q, Q = R \cup {iv}
  PROVE  /\ Cardinality(R) < max => FirstRanges(Q, max) = FirstRanges(R, max) \cup {iv}
         /\ ~(Cardinality(R) < max) => FirstRanges(Q, max) = FirstRanges(R, max)
<1>1. iv.start \in Nat /\ \A jv \in R : jv.start \in Nat /\ jv.start < iv.start
  BY DEF Proper, Ivals
<1>2. \A jv \in R : Before(Q, jv) = Before(R, jv)
  BY <1>1 DEF Before
<1>3. Before(Q, iv) = R /\ iv \notin R
  <2>1. ~(iv.start < iv.start) /\ iv \notin R
    BY <1>1
  <2> QED BY <1>1, <2>1 DEF Before
<1>4. /\ FirstRanges(Q, max) = {jv \in Q : Cardinality(Before(Q, jv)) < max}
      /\ FirstRanges(R, max) = {jv \in R : Cardinality(Before(R, jv)) < max}
  BY DEF FirstRanges, Before
<1> QED BY <1>2, <1>3, <1>4

\* push_interval keeps the order.
LEMMA PushStores ==
  ASSUME maxout \in Nat, NEW total \in Nat, NEW R, Proper(R, total), NEW iv \in Ivals,
         \A jv \in R : jv.end <= iv.start, NEW acc, Stored(acc, R),
         NEW Q, Q = R \cup {iv}
  PROVE  Stored(Push(acc, iv), Q)
<1> DEFINE new == Push(acc, iv)
           held == acc.out
           len == Len(acc.out)
<1>1. IsFiniteSet(R) /\ Cardinality(R) \in Nat /\ iv \notin R
  <2>1. iv \notin R
    BY DEF Proper
  <2> QED BY <2>1, ProperStarts, FS_CardinalityType
<1>2. Cardinality(Q) = Cardinality(R) + 1
  BY <1>1, FS_AddElement
<1>3. /\ held \in Seq(Ivals) /\ acc.nout = Cardinality(R) /\ len \in Nat
      /\ Range(held) = FirstRanges(R, maxout)
      /\ \A i, j \in 1 .. len : i < j => held[i].end <= held[j].start
  BY DEF Stored
<1>4. /\ new.nout = acc.nout + 1
      /\ acc.nout < maxout => new.out = Append(held, iv)
      /\ ~(acc.nout < maxout) => new.out = held
  BY DEF Push
<1>5. new.nout = Cardinality(Q)
  BY <1>2, <1>3, <1>4
<1> HIDE DEF new
<1>6. CASE Cardinality(R) < maxout
  <2>1. new.out = Append(held, iv) /\ FirstRanges(Q, maxout) = Range(held) \cup {iv}
    BY <1>3, <1>4, <1>6, FirstRangesGrow
  <2> DEFINE more == Append(held, iv)
  <2>2. /\ more \in Seq(Ivals) /\ Len(more) = len + 1 /\ more[len + 1] = iv
        /\ \A i \in 1 .. len : more[i] = held[i]
        /\ DOMAIN more = 1 .. (len + 1) /\ DOMAIN held = 1 .. len
    BY <1>3
  <2> HIDE DEF more, held, len
  <2>3. Range(more) = Range(held) \cup {iv}
    <3>1. /\ Range(more) = {more[i] : i \in 1 .. (len + 1)}
          /\ Range(held) = {held[i] : i \in 1 .. len}
      BY <2>2 DEF Range
    <3>2. 1 .. (len + 1) = (1 .. len) \cup {len + 1}
      BY <1>3
    <3> QED BY <2>2, <3>1, <3>2
  <2>4. ASSUME NEW i \in 1 .. Len(more), NEW j \in 1 .. Len(more), i < j
        PROVE  more[i].end <= more[j].start
    <3>1. i \in 1 .. len /\ more[i] = held[i]
      BY <1>3, <2>2, <2>4
    <3>2. CASE j = len + 1
      <4>1. held[i] \in Range(held)
        BY <2>2, <3>1 DEF Range
      <4>2. held[i] \in R
        BY <1>3, <4>1 DEF FirstRanges
      <4> QED BY <2>2, <3>1, <3>2, <4>2
    <3>3. CASE j # len + 1
      <4>1. j \in 1 .. len /\ more[j] = held[j]
        BY <1>3, <2>2, <3>3
      <4> QED BY <1>3, <2>4, <3>1, <4>1
    <3> QED BY <3>2, <3>3
  <2>5. new.out = more /\ FirstRanges(Q, maxout) = Range(more)
    BY <2>1, <2>3 DEF more
  <2> QED BY <1>5, <2>2, <2>4, <2>5 DEF Stored, new
<1>7. CASE ~(Cardinality(R) < maxout)
  <2>1. new.out = held /\ FirstRanges(Q, maxout) = Range(held)
    BY <1>3, <1>4, <1>7, FirstRangesGrow
  <2> QED BY <1>3, <1>5, <2>1 DEF Stored, new
<1> QED BY <1>6, <1>7

\* j is where a run of uncovered bytes from k ends.
Stops(k, j, t) ==
  /\ j \in k .. t.total
  /\ \A l \in k .. (j - 1) : l \notin t.covered
  /\ j = t.total \/ j \in t.covered

LEMMA RunEndStops ==
  ASSUME NEW t, t.total \in Nat, NEW i \in 0 .. t.total
  PROVE  Stops(i, RunEnd(i, t), t)
<1> DEFINE N == t.total
           run == CHOOSE f : f = [k \in 0 .. t.total |->
                                    IF k < t.total /\ k \notin t.covered THEN f[k + 1] ELSE k]
<1>1. RunEnd(i, t) = run[i]
  BY DEF RunEnd
<1>2. ASSUME NEW k \in 0 .. N PROVE \E j : Stops(k, j, t)
  <2> DEFINE T == {j \in k .. N : j = N \/ j \in t.covered}
  <2>1. T \in SUBSET Nat /\ N \in T
    OBVIOUS
  <2>2. \A j : j \in T <=> j \in k .. N /\ (j = N \/ j \in t.covered)
    OBVIOUS
  <2> HIDE DEF T
  <2>3. PICK j \in T : \A l \in T : j <= l
    BY <2>1, LeastElement
  <2>4. \A l \in k .. (j - 1) : l \notin t.covered
    BY <2>2, <2>3
  <2> QED BY <2>2, <2>3, <2>4 DEF Stops
<1>3. ASSUME NEW k \in 0 .. N, NEW j, NEW l, Stops(k, j, t), Stops(k, l, t) PROVE j = l
  BY <1>3 DEF Stops
<1>4. ASSUME NEW k \in 0 .. N, k < N, k \notin t.covered, NEW j, Stops(k + 1, j, t)
      PROVE  Stops(k, j, t)
  BY <1>4 DEF Stops
<1>5. ASSUME NEW k \in 0 .. N, ~(k < N /\ k \notin t.covered) PROVE Stops(k, k, t)
  BY <1>5 DEF Stops
<1>6. run = [k \in 0 .. t.total |->
               IF k < t.total /\ k \notin t.covered THEN run[k + 1] ELSE k]
  <2> DEFINE s(k) == CHOOSE j : Stops(k, j, t)
             w == [k \in 0 .. N |-> s(k)]
  <2>1. \A k \in 0 .. N : Stops(k, s(k), t)
    BY <1>2
  <2> HIDE DEF s
  <2>2. ASSUME NEW k \in 0 .. N
        PROVE  w[k] = IF k < N /\ k \notin t.covered THEN w[k + 1] ELSE k
    <3>1. CASE k < N /\ k \notin t.covered
      <4>1. k + 1 \in 0 .. N
        BY <3>1
      <4>2. Stops(k, s(k + 1), t)
        BY <1>4, <2>1, <3>1, <4>1
      <4>3. s(k) = s(k + 1)
        BY <1>3, <2>1, <4>2
      <4> QED BY <3>1, <4>1, <4>3
    <3>2. CASE ~(k < N /\ k \notin t.covered)
      <4>1. s(k) = k
        BY <1>3, <1>5, <2>1, <3>2
      <4> QED BY <3>2, <4>1
    <3> QED BY <3>1, <3>2
  <2>3. w = [k \in 0 .. N |-> w[k]]
    OBVIOUS
  <2> HIDE DEF w
  <2>4. w = [k \in 0 .. t.total |-> IF k < t.total /\ k \notin t.covered THEN w[k + 1] ELSE k]
    BY <2>2, <2>3
  <2> QED BY <2>4
<1> HIDE DEF run
<1> DEFINE S == {m \in 0 .. N : Stops(N - m, run[N - m], t)}
<1>7. 0 \in S
  <2>1. N \in 0 .. N /\ N - 0 = N /\ ~(N < N)
    OBVIOUS
  <2>2. run[N] = N
    BY <1>6, <2>1
  <2> QED BY <1>5, <2>1, <2>2
<1>8. ASSUME NEW m \in 1 .. N, m - 1 \in S PROVE m \in S
  <2> DEFINE k == N - m
  <2>1. k \in 0 .. N /\ k < N /\ N - (m - 1) = k + 1
    OBVIOUS
  <2>2. Stops(k + 1, run[k + 1], t)
    BY <1>8, <2>1
  <2> HIDE DEF k
  <2>3. CASE k \notin t.covered
    <3>1. run[k] = run[k + 1]
      BY <1>6, <2>1, <2>3
    <3>2. Stops(k, run[k], t)
      BY <1>4, <2>1, <2>2, <2>3, <3>1
    <3> QED BY <3>2 DEF k
  <2>4. CASE k \in t.covered
    <3>1. run[k] = k
      BY <1>6, <2>1, <2>4
    <3>2. Stops(k, run[k], t)
      BY <1>5, <2>1, <2>4, <3>1
    <3> QED BY <3>2 DEF k
  <2> QED BY <2>3, <2>4
<1>9. \A m \in 0 .. N : m \in S
  <2> HIDE DEF S
  <2> QED BY <1>7, <1>8, SetInduction
<1>10. Stops(N - (N - i), run[N - (N - i)], t)
  BY <1>9, N - i \in 0 .. N
<1>11. N - (N - i) = i
  OBVIOUS
<1> QED BY <1>1, <1>10, <1>11

\* The holes that end at i or before it.
HolesTo(t, i) == {iv \in Holes(t) : iv.end <= i}

\* What the hole scan of ci_svu_verify knows when it is at byte s.i: it has found
\* every hole behind it, and it is not inside one.
Scanned(s, t) ==
  /\ s.i \in 0 .. t.total
  /\ Stored(s.acc, HolesTo(t, s.i))
  /\ \/ s.i = 0 \/ s.i = t.total
     \/ s.i \in t.covered \/ (s.i - 1) \in t.covered

LEMMA HoleShape ==
  ASSUME NEW t, t.total \in Nat, NEW iv \in Holes(t)
  PROVE  /\ iv.start \in 0 .. (t.total - 1) /\ iv.end \in 1 .. t.total
         /\ iv = Interval(iv.start, iv.end) /\ iv.start < iv.end
         /\ \A k \in iv.start .. (iv.end - 1) : k \notin t.covered
         /\ iv.start = 0 \/ (iv.start - 1) \in t.covered
         /\ iv.end = t.total \/ iv.end \in t.covered
<1>1. PICK a \in 0 .. (t.total - 1), b \in 1 .. t.total : iv = Interval(a, b)
  BY DEF Holes
<1>2. iv.start = a /\ iv.end = b
  BY <1>1 DEF Interval
<1>3. /\ iv.start < iv.end /\ Bytes(iv) \cap t.covered = {}
      /\ iv.start = 0 \/ (iv.start - 1) \in t.covered
      /\ iv.end = t.total \/ iv.end \in t.covered
  BY DEF Holes
<1>4. \A k \in iv.start .. (iv.end - 1) : k \notin t.covered
  BY <1>3 DEF Bytes
<1> QED BY <1>1, <1>2, <1>3, <1>4

\* A covered byte ends no hole: the scan goes on.
LEMMA ScanCovered ==
  ASSUME NEW t, t.total \in Nat, NEW i \in 0 .. (t.total - 1), i \in t.covered
  PROVE  HolesTo(t, i + 1) = HolesTo(t, i)
<1>1. ASSUME NEW iv \in Holes(t) PROVE iv.end <= i + 1 <=> iv.end <= i
  BY HoleShape
<1> QED BY <1>1 DEF HolesTo

\* An uncovered byte at which the scan stands starts a hole, the next one.
LEMMA ScanHole ==
  ASSUME NEW t, t.total \in Nat, NEW i \in 0 .. (t.total - 1), i \notin t.covered,
         i = 0 \/ (i - 1) \in t.covered, NEW j, Stops(i, j, t)
  PROVE  /\ i < j /\ j \in 1 .. t.total
         /\ HolesTo(t, j) = HolesTo(t, i) \cup {Interval(i, j)}
<1> DEFINE h == Interval(i, j)
<1>1. i < j /\ j \in 1 .. t.total /\ \A l \in i .. (j - 1) : l \notin t.covered
  BY DEF Stops
<1>2. h.start = i /\ h.end = j
  BY DEF Interval
<1>3. h \in Holes(t)
  <2>1. h \in {Interval(a, b) : a \in 0 .. (t.total - 1), b \in 1 .. t.total}
    BY <1>1
  <2> HIDE DEF h
  <2>2. Bytes(h) \cap t.covered = {}
    BY <1>1, <1>2 DEF Bytes
  <2>3. h.end = t.total \/ h.end \in t.covered
    BY <1>2 DEF Stops
  <2> QED BY <1>1, <1>2, <2>1, <2>2, <2>3 DEF Holes
<1>4. ASSUME NEW iv \in Holes(t), iv.end <= j, ~(iv.end <= i) PROVE iv = h
  <2>1. iv.end = j
    BY <1>1, <1>4, HoleShape
  <2>2. iv.start = i
    BY <1>1, <1>4, HoleShape
  <2> QED BY <2>1, <2>2, HoleShape
<1>5. ASSUME NEW iv \in Holes(t), iv.end <= i PROVE iv.end <= j
  BY <1>1, <1>5, HoleShape
<1> HIDE DEF h
<1>6. HolesTo(t, j) = HolesTo(t, i) \cup {h}
  BY <1>1, <1>2, <1>3, <1>4, <1>5 DEF HolesTo
<1> QED BY <1>1, <1>6 DEF h


Accs == [out : Seq(Ivals), nout : Nat]

LEMMA NoRangesStored ==
  ASSUME NEW R, R = {}
  PROVE  NoRanges \in Accs /\ Stored(NoRanges, R)
<1>1. NoRanges.out = <<>> /\ NoRanges.nout = 0 /\ NoRanges \in Accs
  BY DEF NoRanges, Accs
<1>2. Cardinality(R) = 0 /\ FirstRanges(R, maxout) = {}
  BY FS_EmptySet DEF FirstRanges
<1>3. Range(<<>>) = {} /\ Len(<<>>) = 0 /\ <<>> \in Seq(Ivals)
  BY DEF Range
<1> DEFINE e == <<>>
<1>4. NoRanges.out = e /\ Range(e) = {} /\ Len(e) = 0 /\ e \in Seq(Ivals)
  BY <1>1, <1>3
<1> HIDE DEF e
<1>5. \A i, j \in 1 .. Len(e) : FALSE
  BY <1>4
<1>6. /\ NoRanges.out \in Seq(Ivals) /\ NoRanges.nout = Cardinality(R)
      /\ Range(NoRanges.out) = FirstRanges(R, maxout)
  BY <1>1, <1>2, <1>4
<1> QED BY <1>1, <1>4, <1>5, <1>6 DEF Stored

LEMMA PushType ==
  ASSUME maxout \in Nat, NEW acc \in Accs, NEW iv \in Ivals
  PROVE  Push(acc, iv) \in Accs
  BY DEF Push, Accs

\* One turn of the hole scan.
HoleTurn(s, t) ==
  IF s.i >= t.total THEN [i |-> s.i, acc |-> s.acc]
  ELSE IF s.i \in t.covered THEN [i |-> s.i + 1, acc |-> s.acc]
  ELSE [i |-> RunEnd(s.i, t), acc |-> Push(s.acc, Interval(s.i, RunEnd(s.i, t)))]

LEMMA HoleTurnScans ==
  ASSUME NEW t, t.total \in Nat, maxout \in Nat, NEW s, Scanned(s, t)
  PROVE  /\ Scanned(HoleTurn(s, t), t)
         /\ s.i >= t.total => HoleTurn(s, t).i = s.i
         /\ ~(s.i >= t.total) => HoleTurn(s, t).i >= s.i + 1
<1> DEFINE r == HoleTurn(s, t)
           i == s.i
           j == RunEnd(s.i, t)
<1>1. /\ i \in 0 .. t.total /\ Stored(s.acc, HolesTo(t, i))
      /\ i = 0 \/ i = t.total \/ i \in t.covered \/ (i - 1) \in t.covered
  BY DEF Scanned
<1>2. CASE i >= t.total
  <2>1. r.i = i /\ r.acc = s.acc
    BY <1>2 DEF HoleTurn
  <2> HIDE DEF r
  <2> QED BY <1>1, <1>2, <2>1 DEF Scanned, r
<1>3. CASE ~(i >= t.total) /\ i \in t.covered
  <2>1. r.i = i + 1 /\ r.acc = s.acc
    BY <1>3 DEF HoleTurn
  <2>2. i \in 0 .. (t.total - 1) /\ HolesTo(t, i + 1) = HolesTo(t, i)
    BY <1>1, <1>3, ScanCovered
  <2>3. r.i \in 0 .. t.total /\ r.i - 1 = i
    BY <2>1, <2>2
  <2> HIDE DEF r
  <2>4. Stored(r.acc, HolesTo(t, r.i))
    BY <1>1, <2>1, <2>2
  <2>5. Scanned(r, t)
    BY <1>3, <2>3, <2>4 DEF Scanned
  <2> QED BY <1>1, <1>3, <2>1, <2>5 DEF r
<1>4. CASE ~(i >= t.total) /\ i \notin t.covered
  <2> DEFINE iv == Interval(i, j)
  <2>1. r.i = j /\ r.acc = Push(s.acc, iv)
    BY <1>4 DEF HoleTurn
  <2>2. Stops(i, j, t)
    BY <1>1, RunEndStops
  <2> HIDE DEF j
  <2>3. /\ i \in 0 .. (t.total - 1) /\ i < j /\ j \in 1 .. t.total
        /\ HolesTo(t, j) = HolesTo(t, i) \cup {iv}
    BY <1>1, <1>4, <2>2, ScanHole
  <2>4. iv \in Ivals /\ iv.start = i
    BY <2>3 DEF Ivals, Interval
  <2> HIDE DEF iv
  <2>5. Proper(HolesTo(t, i), t.total) /\ \A jv \in HolesTo(t, i) : jv.end <= iv.start
    BY <2>4, HolesProper DEF HolesTo, Proper
  <2>6. Stored(Push(s.acc, iv), HolesTo(t, j))
    BY <1>1, <2>3, <2>4, <2>5, PushStores
  <2> HIDE DEF r
  <2>7. Scanned(r, t)
    BY <2>1, <2>2, <2>3, <2>6 DEF Scanned, Stops
  <2>8. r.i >= i + 1
    BY <2>1, <2>3
  <2> QED BY <1>4, <2>7, <2>8 DEF r
<1> QED BY <1>2, <1>3, <1>4

\* The hole scan finds the maximal runs of uncovered bytes.
LEMMA HoleLoopFinds ==
  ASSUME NEW t, t.total \in Nat, maxout \in Nat
  PROVE  Stored(HoleLoop(t), Holes(t))
<1> DEFINE N == t.total
           first == [i |-> 0, acc |-> NoRanges]
           loop == CHOOSE f : f = [n \in 0 .. t.total |->
                                     IF n = 0 THEN first ELSE HoleTurn(f[n - 1], t)]
           St == [i : 0 .. N, acc : Accs]
<1>1. HoleLoop(t) = loop[t.total].acc
  BY DEF HoleLoop, HoleTurn
<1>2. first \in St
  BY NoRangesStored, {} = {}, 0 \in 0 .. N
<1>3. ASSUME NEW s \in St PROVE HoleTurn(s, t) \in St
  <2>1. s.i \in 0 .. N /\ s.acc \in Accs
    OBVIOUS
  <2>2. CASE s.i >= N
    BY <2>1, <2>2 DEF HoleTurn
  <2>3. CASE ~(s.i >= N) /\ s.i \in t.covered
    BY <2>1, <2>3 DEF HoleTurn
  <2>4. CASE ~(s.i >= N) /\ s.i \notin t.covered
    <3> DEFINE j == RunEnd(s.i, t)
    <3>1. j \in 0 .. N
      BY <2>1, RunEndStops DEF Stops
    <3>2. Interval(s.i, j) \in Ivals
      BY <2>1, <3>1 DEF Interval, Ivals
    <3>3. Push(s.acc, Interval(s.i, j)) \in Accs
      BY <2>1, <3>2, PushType
    <3> QED BY <2>4, <3>1, <3>3 DEF HoleTurn
  <2> QED BY <2>2, <2>3, <2>4
<1> HIDE DEF St, first
<1>4. loop = [n \in 0 .. t.total |-> IF n = 0 THEN first ELSE HoleTurn(loop[n - 1], t)]
  <2> DEFINE step == [p \in (1 .. N) \X St |-> HoleTurn(p[2], t)]
  <2>1. step \in [(1 .. N) \X St -> St]
    BY <1>3
  <2>2. \A n \in 1 .. N, s \in St : step[<<n, s>>] = HoleTurn(s, t)
    OBVIOUS
  <2> HIDE DEF step
  <2>3. PICK f : IsRun(f, N, St, first, step)
    BY <1>2, <2>1, RunExists
  <2>4. f \in [0 .. N -> St] /\ f[0] = first
    BY <2>3 DEF IsRun
  <2>5. ASSUME NEW n \in 1 .. N PROVE f[n] = HoleTurn(f[n - 1], t)
    <3>1. f[n] = step[<<n, f[n - 1]>>] /\ f[n - 1] \in St
      BY <2>3, <2>4 DEF IsRun
    <3> QED BY <2>2, <3>1
  <2>6. f = [n \in 0 .. t.total |-> IF n = 0 THEN first ELSE HoleTurn(f[n - 1], t)]
    <3>1. f = [n \in 0 .. N |-> f[n]]
      BY <2>4
    <3>2. ASSUME NEW n \in 0 .. N PROVE f[n] = IF n = 0 THEN first ELSE HoleTurn(f[n - 1], t)
      BY <2>4, <2>5
    <3> QED BY <3>1, <3>2
  <2> QED BY <2>6
<1> HIDE DEF loop
<1> DEFINE S == {n \in 0 .. N : Scanned(loop[n], t) /\ (loop[n].i >= n \/ loop[n].i = N)}
<1>5. 0 \in S
  <2>1. loop[0] = first
    BY <1>4
  <2>2. first.i = 0 /\ first.acc = NoRanges
    BY DEF first
  <2>3. HolesTo(t, 0) = {}
    BY HoleShape DEF HolesTo
  <2>4. Stored(NoRanges, HolesTo(t, 0))
    BY <2>3, NoRangesStored
  <2>5. Scanned(first, t)
    BY <2>2, <2>4 DEF Scanned
  <2> QED BY <2>1, <2>2, <2>5
<1>6. ASSUME NEW n \in 1 .. N, n - 1 \in S PROVE n \in S
  <2>1. loop[n] = HoleTurn(loop[n - 1], t)
    BY <1>4
  <2> DEFINE s == loop[n - 1]
  <2>2. Scanned(s, t) /\ (s.i >= n - 1 \/ s.i = N)
    BY <1>6
  <2> HIDE DEF s
  <2>3. s.i \in 0 .. N
    BY <2>2 DEF Scanned
  <2>4. /\ Scanned(HoleTurn(s, t), t)
        /\ s.i >= N => HoleTurn(s, t).i = s.i
        /\ ~(s.i >= N) => HoleTurn(s, t).i >= s.i + 1
    BY <2>2, HoleTurnScans
  <2>5. HoleTurn(s, t).i \in 0 .. N
    BY <2>4 DEF Scanned
  <2>6. HoleTurn(s, t).i >= n \/ HoleTurn(s, t).i = N
    BY <2>2, <2>3, <2>4, <2>5
  <2> QED BY <2>1, <2>4, <2>6 DEF s
<1>7. N \in S
  <2> HIDE DEF S
  <2>1. \A k \in 0 .. N : k \in S
    BY <1>5, <1>6, SetInduction
  <2> QED BY <2>1
<1>8. loop[N].i = N /\ Stored(loop[N].acc, HolesTo(t, loop[N].i))
  BY <1>7 DEF Scanned
<1>9. HolesTo(t, N) = Holes(t)
  BY HoleShape DEF HolesTo
<1> QED BY <1>1, <1>8, <1>9


BlockRange(t, b) == Interval(BlockStart(b, t.block), BlockEnd(b, t.block, t.total))

\* The ranges of the bad blocks before block n.
CorruptTo(t, n) == {BlockRange(t, b) : b \in {c \in BadBlocks(t) : c < n}}

\* Blocks follow each other.
LEMMA BlocksInOrder ==
  ASSUME NEW t, t.total \in Nat, t.block \in Nat, NEW b \in Nat, NEW c \in Nat, b < c
  PROVE  /\ BlockRange(t, b).end <= BlockRange(t, c).start
         /\ BlockRange(t, b) \in Ivals
<1> DEFINE k == t.block
           p == (b + 1) * k
           q == c * k
<1>1. p \in Nat /\ q \in Nat /\ p <= q
  <2>1. b + 1 <= c
    OBVIOUS
  <2> HIDE DEF k
  <2> QED BY <2>1, k \in Nat DEF k
<1>2. b * k \in Nat
  <2> HIDE DEF k
  <2> QED BY k \in Nat DEF k
<1>3. /\ BlockRange(t, b).end = (IF p > t.total THEN t.total ELSE p)
      /\ BlockRange(t, c).start = q
      /\ BlockRange(t, b) = [start |-> b * k, end |-> IF p > t.total THEN t.total ELSE p]
  BY DEF BlockRange, BlockStart, BlockEnd, Interval
<1> DEFINE z == b * k
<1> HIDE DEF p, q, z
<1> QED BY <1>1, <1>2, <1>3 DEF Ivals, z

\* One turn of the block scan.
BlockTurn(acc, n, t) ==
  IF DigestBytes(HashBlock(t.data, t.total, t.block, n - 1)) = ExpectedDigest(t, n - 1)
    THEN acc
    ELSE Push(acc, Interval((n - 1) * t.block,
                            IF (n - 1) * t.block + t.block > t.total THEN t.total
                            ELSE (n - 1) * t.block + t.block))

LEMMA BlockTurnIs ==
  ASSUME NEW t, t.total \in Nat, t.block \in Nat, t.nblocks \in Nat,
         NEW n \in 1 .. t.nblocks, NEW acc
  PROVE  /\ n - 1 \in BadBlocks(t) => BlockTurn(acc, n, t) = Push(acc, BlockRange(t, n - 1))
         /\ n - 1 \notin BadBlocks(t) => BlockTurn(acc, n, t) = acc
<1>1. n - 1 \in 0 .. (t.nblocks - 1) /\ n - 1 \in Nat
  OBVIOUS
<1> DEFINE b == n - 1
           x == b * t.block
           y == (b + 1) * t.block
<1>2. y = x + t.block
  BY <1>1
<1>3. BlockRange(t, b) = Interval(x, IF y > t.total THEN t.total ELSE y)
  BY DEF BlockRange, BlockStart, BlockEnd
<1> DEFINE same == DigestBytes(HashBlock(t.data, t.total, t.block, b)) = ExpectedDigest(t, b)
           iv == Interval(x, IF x + t.block > t.total THEN t.total ELSE x + t.block)
<1>4. BlockTurn(acc, n, t) = IF same THEN acc ELSE Push(acc, iv)
  BY DEF BlockTurn
<1>5. b \in BadBlocks(t) <=> ~same
  BY <1>1 DEF BadBlocks
<1> HIDE DEF same, x, y
<1>6. iv = BlockRange(t, b)
  BY <1>2, <1>3
<1> HIDE DEF iv, b
<1>7. /\ b \in BadBlocks(t) => BlockTurn(acc, n, t) = Push(acc, BlockRange(t, b))
      /\ b \notin BadBlocks(t) => BlockTurn(acc, n, t) = acc
  BY <1>4, <1>5, <1>6
<1> QED BY <1>7 DEF b

\* The block scan finds the ranges of the bad blocks.
LEMMA BlockLoopFinds ==
  ASSUME NEW t, t.total \in 0 .. (Word - 1), t.block \in 1 .. (Word - 1),
         NewOK(t.total, t.block, t.nblocks), maxout \in Nat
  PROVE  Stored(BlockLoop(t), CorruptRanges(t))
<1> DEFINE N == t.nblocks
           loop == CHOOSE f : f = [n \in 0 .. t.nblocks |->
                                     IF n = 0 THEN NoRanges ELSE BlockTurn(f[n - 1], n, t)]
<1>0. t.total \in Nat /\ t.block \in Nat /\ N \in Nat
  BY NBlocksExact, WordAssumption DEF NewOK
<1>1. BlockLoop(t) = loop[t.nblocks]
  BY DEF BlockLoop, BlockTurn
<1>2. ASSUME NEW n \in 1 .. N, NEW acc \in Accs PROVE BlockTurn(acc, n, t) \in Accs
  <2>1. n - 1 \in Nat /\ n \in Nat /\ n - 1 < n
    BY <1>0
  <2>2. BlockRange(t, n - 1) \in Ivals
    BY <1>0, <2>1, BlocksInOrder
  <2>3. Push(acc, BlockRange(t, n - 1)) \in Accs
    BY <2>2, PushType
  <2> QED BY <1>0, <2>3, BlockTurnIs
<1>3. NoRanges \in Accs
  BY NoRangesStored, {} = {}
<1>4. loop = [n \in 0 .. t.nblocks |-> IF n = 0 THEN NoRanges ELSE BlockTurn(loop[n - 1], n, t)]
  <2> DEFINE step == [p \in (1 .. N) \X Accs |-> BlockTurn(p[2], p[1], t)]
  <2>1. step \in [(1 .. N) \X Accs -> Accs]
    BY <1>2
  <2>2. \A n \in 1 .. N, s \in Accs : step[<<n, s>>] = BlockTurn(s, n, t)
    OBVIOUS
  <2> HIDE DEF step
  <2>3. PICK f : IsRun(f, N, Accs, NoRanges, step)
    BY <1>0, <1>3, <2>1, RunExists
  <2>4. f \in [0 .. N -> Accs] /\ f[0] = NoRanges
    BY <2>3 DEF IsRun
  <2>5. ASSUME NEW n \in 1 .. N PROVE f[n] = BlockTurn(f[n - 1], n, t)
    <3>1. f[n] = step[<<n, f[n - 1]>>] /\ f[n - 1] \in Accs
      BY <1>0, <2>3, <2>4 DEF IsRun
    <3> QED BY <2>2, <3>1
  <2>6. f = [n \in 0 .. t.nblocks |-> IF n = 0 THEN NoRanges ELSE BlockTurn(f[n - 1], n, t)]
    <3>1. f = [n \in 0 .. N |-> f[n]]
      BY <2>4
    <3>2. ASSUME NEW n \in 0 .. N
          PROVE  f[n] = IF n = 0 THEN NoRanges ELSE BlockTurn(f[n - 1], n, t)
      BY <1>0, <2>4, <2>5
    <3> QED BY <3>1, <3>2
  <2> QED BY <2>6
<1> HIDE DEF loop
<1> DEFINE S == {n \in 0 .. N : Stored(loop[n], CorruptTo(t, n))}
<1>5. 0 \in S
  <2>1. loop[0] = NoRanges
    BY <1>0, <1>4
  <2>2. CorruptTo(t, 0) = {}
    BY <1>0 DEF CorruptTo, BadBlocks
  <2> QED BY <1>0, <2>1, <2>2, NoRangesStored
<1>6. ASSUME NEW n \in 1 .. N, n - 1 \in S PROVE n \in S
  <2> DEFINE b == n - 1
             acc == loop[n - 1]
             iv == BlockRange(t, n - 1)
             R == CorruptTo(t, n - 1)
             Q == CorruptTo(t, n)
  <2>1. /\ b \in 0 .. (N - 1) /\ b \in Nat /\ n \in Nat /\ b < n
        /\ \A c \in Nat : c < n <=> c < b \/ c = b
    BY <1>0
  <2>2. loop[n] = BlockTurn(acc, n, t) /\ Stored(acc, R)
    BY <1>0, <1>4, <1>6
  <2>3. \A c \in BadBlocks(t) : c \in Nat
    BY <1>0 DEF BadBlocks
  <2>4. CASE b \in BadBlocks(t)
    <3>1. Q = R \cup {iv}
      BY <2>1, <2>3, <2>4 DEF CorruptTo
    <3>2. iv \in Ivals /\ \A c \in Nat : c < b => BlockRange(t, c).end <= iv.start
      BY <1>0, <2>1, BlocksInOrder
    <3>3. \A jv \in R : jv.end <= iv.start
      BY <2>3, <3>2 DEF CorruptTo
    <3>4. R \subseteq CorruptRanges(t)
      BY DEF CorruptTo, CorruptRanges, BlockRange
    <3>5. Proper(R, t.total)
      BY <3>4, CorruptProper DEF Proper
    <3>6. loop[n] = Push(acc, iv)
      BY <1>0, <2>2, <2>4, BlockTurnIs
    <3> HIDE DEF acc, iv, R, Q
    <3>7. Stored(Push(acc, iv), Q)
      BY <1>0, <2>2, <3>1, <3>2, <3>3, <3>5, PushStores
    <3>8. Stored(loop[n], CorruptTo(t, n))
      BY <3>6, <3>7 DEF Q
    <3> QED BY <1>0, <3>8
  <2>5. CASE b \notin BadBlocks(t)
    <3>1. Q = R
      BY <2>1, <2>3, <2>5 DEF CorruptTo
    <3>2. loop[n] = acc
      BY <1>0, <2>2, <2>5, BlockTurnIs
    <3> HIDE DEF acc, R, Q
    <3>3. Stored(loop[n], CorruptTo(t, n))
      BY <2>2, <3>1, <3>2 DEF Q
    <3> QED BY <1>0, <3>3
  <2> QED BY <2>4, <2>5
<1>7. N \in S
  <2> HIDE DEF S
  <2>1. \A k \in 0 .. N : k \in S
    BY <1>0, <1>5, <1>6, SetInduction
  <2> QED BY <1>0, <2>1
<1>8. CorruptTo(t, N) = CorruptRanges(t)
  <2>1. \A c \in BadBlocks(t) : c < N
    BY <1>0 DEF BadBlocks
  <2> QED BY <2>1 DEF CorruptTo, CorruptRanges, BlockRange
<1>9. Stored(loop[N], CorruptTo(t, N))
  BY <1>7
<1> QED BY <1>1, <1>8, <1>9

\* ci_svu_verify's two scans, as loops over bytes and blocks, compute the verdict
\* and the ranges that the rest of the development takes as sets.
THEOREM VerifyLoops == TSpec => []VerifyIsLoop
<1>1. TInv => VerifyIsLoop
  <2> SUFFICES ASSUME TInv PROVE VerifyIsLoop
    OBVIOUS
  <2> DEFINE v == VerifyLoop(trk)
  <2>1. /\ trk.total \in 0 .. (Word - 1) /\ trk.block \in 1 .. (Word - 1)
        /\ trk.total \in Nat /\ NewOK(trk.total, trk.block, trk.nblocks) /\ maxout \in Nat
    BY DEF TInv, Tracks, WellFormed
  <2>2. Stored(HoleLoop(trk), Holes(trk)) /\ Stored(BlockLoop(trk), CorruptRanges(trk))
    BY <2>1, HoleLoopFinds, BlockLoopFinds
  <2>3. BlockLoop(trk).nout > 0 <=> BadBlocks(trk) # {}
    <3>1. BlockLoop(trk).nout = Cardinality(CorruptRanges(trk))
      BY <2>2 DEF Stored
    <3>2. IsFiniteSet(CorruptRanges(trk))
      BY <2>1, CorruptProper, ProperStarts
    <3>3. /\ Cardinality(CorruptRanges(trk)) \in Nat
          /\ Cardinality(CorruptRanges(trk)) = 0 <=> CorruptRanges(trk) = {}
      BY <3>2, FS_CardinalityType, FS_EmptySet
    <3>4. CorruptRanges(trk) = {} <=> BadBlocks(trk) = {}
      BY DEF CorruptRanges
    <3> QED BY <3>1, <3>3, <3>4
  <2>4. v.status = Status(trk)
    BY <2>3 DEF VerifyLoop, Status
  <2>5. Stored(v.res, Ranges(trk))
    <3>1. CASE trk.covered_count < trk.total
      <4>1. v.res = HoleLoop(trk) /\ Ranges(trk) = Holes(trk)
        BY <3>1 DEF VerifyLoop, Ranges, Status
      <4> QED BY <2>2, <4>1
    <3>2. CASE ~(trk.covered_count < trk.total)
      <4>1. v.res = BlockLoop(trk)
        BY <3>2 DEF VerifyLoop
      <4>2. Ranges(trk) = CorruptRanges(trk)
        BY <3>2 DEF Ranges, Status, CorruptRanges
      <4> QED BY <2>2, <4>1, <4>2
    <3> QED BY <3>1, <3>2
  <2> HIDE DEF v
  <2> QED BY <2>4, <2>5 DEF VerifyIsLoop, Stored, v
<1> QED BY <1>1, TInvariance, PTL

-----------------------------------------------------------------------------
(* What the control channel carries: answers, in parts.                    *)

ManifestOf(f) == Manifest(f.bytes, f.size, BlockSize)

Geometry(f) ==
  [total |-> f.size, block |-> BlockSize, nblocks |-> NBlocks(f.size, BlockSize)]

\* The packets of an answer: the header is part 1.
Parts(f) == ((Len(ManifestOf(f)) + ChunkLen - 1) \div ChunkLen) + 1

\* The manifest bytes in the first k parts.
Upto(f, k) ==
  IF (k - 1) * ChunkLen <= Len(ManifestOf(f)) THEN (k - 1) * ChunkLen
                                              ELSE Len(ManifestOf(f))

LEMMA FileType ==
  ASSUME NEW f \in Files
  PROVE  /\ f.size \in 0 .. (Word - 1) /\ f.size \in Nat
         /\ f.bytes \in [0 .. (f.size - 1) -> Byte]
         /\ BlockSize \in 1 .. (Word - 1)
         /\ NBlocks(f.size, BlockSize) \in Nat
         /\ ManifestOf(f) \in Seq(ManifestByte)
         /\ Len(ManifestOf(f)) = NBlocks(f.size, BlockSize) * DigestLen
         /\ Len(ManifestOf(f)) \in Nat
<1>1. /\ f.size \in 0 .. (Word - 1) /\ f.size \in Nat
      /\ f.bytes \in [0 .. (f.size - 1) -> Byte]
      /\ BlockSize \in 1 .. (Word - 1)
  BY FilesAssumption, SizesAssumption, WordAssumption
<1>2. NBlocks(f.size, BlockSize) \in Nat
  BY <1>1, NBlocksExact
<1>3. /\ ManifestOf(f) \in Seq(ManifestByte)
      /\ Len(ManifestOf(f)) = NBlocks(f.size, BlockSize) * DigestLen
  BY <1>1, ManifestType DEF ManifestByte, ManifestOf
<1> QED BY <1>1, <1>2, <1>3

\* Every part after the header brings at least one byte, and all of them the whole
\* manifest.
LEMMA PartsAdd ==
  ASSUME NEW f \in Files
  PROVE  /\ Parts(f) \in Nat \ {0}
         /\ Upto(f, 1) = 0
         /\ Upto(f, Parts(f)) = Len(ManifestOf(f))
         /\ \A k \in 1 .. Parts(f) : Upto(f, k) \in 0 .. Len(ManifestOf(f))
         /\ \A k \in 2 .. Parts(f) : /\ Upto(f, k - 1) < Upto(f, k)
                                     /\ Upto(f, k - 1) = (k - 2) * ChunkLen
         /\ Parts(f) = 1 => Len(ManifestOf(f)) = 0
<1> DEFINE n == Len(ManifestOf(f))
           c == ChunkLen
           q == (n + c - 1) \div c
<1>1. n \in Nat /\ c \in Nat \ {0} /\ n + c - 1 \in Nat
  BY FileType, SizesAssumption
<1> HIDE DEF n, c
<1>2. q \in Nat /\ (n + c - 1) % c \in 0 .. (c - 1) /\ n + c - 1 = c * q + ((n + c - 1) % c)
  BY <1>1, DivMod
<1> DEFINE r == (n + c - 1) % c
           s == c * q
<1>3. r \in Nat /\ r < c /\ s \in Nat /\ s = q * c /\ n + c - 1 = s + r
  BY <1>1, <1>2
<1>4. Parts(f) = q + 1
  BY DEF Parts, q, n, c
<1>5. \A k : Upto(f, k) = IF (k - 1) * c <= n THEN (k - 1) * c ELSE n
  BY DEF Upto, n, c
<1> HIDE DEF q, r, s
<1>6. n <= s /\ s < n + c
  BY <1>1, <1>3
<1>7. Upto(f, 1) = 0
  BY <1>1, <1>5
<1>8. Upto(f, Parts(f)) = n
  BY <1>1, <1>2, <1>3, <1>4, <1>5, <1>6
<1>9. ASSUME NEW k \in 1 .. Parts(f) PROVE Upto(f, k) \in 0 .. n
  <2>1. k - 1 \in Nat /\ (k - 1) * c \in Nat
    BY <1>1, <1>2, <1>4
  <2> QED BY <1>1, <1>5, <2>1
<1>10. ASSUME NEW k \in 2 .. Parts(f)
       PROVE  Upto(f, k - 1) < Upto(f, k) /\ Upto(f, k - 1) = (k - 2) * c
  <2>1. k - 2 \in Nat /\ k - 1 \in Nat /\ k - 1 <= q /\ k \in Int
    BY <1>2, <1>4
  <2>2. (k - 2) * c \in Nat /\ (k - 1) * c = (k - 2) * c + c
    BY <1>1, <2>1
  <2>3. (k - 1) * c <= q * c
    BY <1>1, <1>2, <2>1
  <2> DEFINE x == (k - 2) * c
             y == (k - 1) * c
  <2>4. x \in Nat /\ y = x + c /\ y <= s
    BY <1>3, <2>2, <2>3
  <2>5. Upto(f, k - 1) = IF x <= n THEN x ELSE n
    <3>1. (k - 1) - 1 = k - 2
      BY <2>1
    <3> QED BY <1>5, <3>1
  <2>6. Upto(f, k) = IF y <= n THEN y ELSE n
    BY <1>5
  <2> HIDE DEF x, y
  <2>7. x < n
    BY <1>1, <1>3, <1>6, <2>4
  <2>8. Upto(f, k - 1) = x /\ x < Upto(f, k)
    BY <1>1, <2>4, <2>5, <2>6, <2>7
  <2> QED BY <2>8 DEF x
<1>11. Parts(f) = 1 => n = 0
  <2>1. q = 0 => s = 0
    BY <1>1 DEF s
  <2> QED BY <1>1, <1>2, <1>4, <1>6, <2>1
<1> QED BY <1>2, <1>4, <1>7, <1>8, <1>9, <1>10, <1>11 DEF n, c

\* Part k of the answer sent to port p.
LEMMA ReplyParts ==
  ASSUME NEW f \in Files, NEW p \in 0 .. (NPorts - 1)
  PROVE  /\ Reply(p, f) \in Seq(Packet)
         /\ Len(Reply(p, f)) = Parts(f)
         /\ Reply(p, f)[1] = HeaderPacket(p, f)
         /\ \A k \in 2 .. Parts(f) :
              Reply(p, f)[k] =
                ChunkPacket(p, SubSeq(ManifestOf(f), Upto(f, k - 1) + 1, Upto(f, k)))
<1> DEFINE m == ManifestOf(f)
           n == Parts(f) - 1
           h == HeaderPacket(p, f)
           c(i) == ChunkPacket(p, SubSeq(m, (i - 1) * ChunkLen + 1,
                           IF i * ChunkLen <= Len(m) THEN i * ChunkLen ELSE Len(m)))
           t == [i \in 1 .. n |-> c(i)]
<1>1. Reply(p, f) \in Seq(Packet)
  BY ReplyType
<1>2. n \in Nat /\ Parts(f) \in Nat
  BY PartsAdd
<1>3. Chunks(p, m) = t
  <2>1. n = (Len(m) + ChunkLen - 1) \div ChunkLen
    <3>1. Parts(f) = ((Len(m) + ChunkLen - 1) \div ChunkLen) + 1
      BY DEF Parts
    <3>2. Len(m) + ChunkLen - 1 \in Nat /\ ChunkLen \in Nat \ {0}
      BY FileType, SizesAssumption
    <3>3. (Len(m) + ChunkLen - 1) \div ChunkLen \in Nat
      BY <3>2, DivMod
    <3> HIDE DEF m
    <3> QED BY <3>1, <3>3
  <2> QED BY <2>1 DEF Chunks
<1>4. Reply(p, f) = << h >> \o t
  BY <1>3 DEF Reply, ManifestOf
<1> HIDE DEF h, c, m
<1> DEFINE S == {h} \cup {c(i) : i \in 1 .. n}
<1>5. << h >> \in Seq(S) /\ t \in Seq(S) /\ Len(t) = n
  BY <1>2
<1>6. /\ Len(<< h >> \o t) = 1 + n
      /\ \A i \in 1 .. (1 + n) : (<< h >> \o t)[i] = IF i <= 1 THEN << h >>[i] ELSE t[i - 1]
  <2>1. Len(<< h >>) = 1
    OBVIOUS
  <2> HIDE DEF t, S
  <2> QED BY <1>5, <2>1, ConcatProperties
<1>7. Len(Reply(p, f)) = Parts(f)
  BY <1>2, <1>4, <1>6
<1>8. Reply(p, f)[1] = h
  <2>1. (<< h >> \o t)[1] = << h >>[1]
    BY <1>2, <1>6
  <2> HIDE DEF t
  <2> QED BY <1>4, <2>1
<1>9. ASSUME NEW k \in 2 .. Parts(f)
      PROVE  Reply(p, f)[k] = ChunkPacket(p, SubSeq(m, Upto(f, k - 1) + 1, Upto(f, k)))
  <2>1. k \in 1 .. (1 + n) /\ ~(k <= 1) /\ k - 1 \in 1 .. n
    BY <1>2
  <2>2. Reply(p, f)[k] = t[k - 1]
    <3> HIDE DEF t
    <3> QED BY <1>4, <1>6, <2>1
  <2>3. t[k - 1] = c(k - 1)
    BY <2>1
  <2>4. (k - 1) - 1 = k - 2 /\ (k - 2) * ChunkLen = Upto(f, k - 1)
    BY PartsAdd, <1>2
  <2>5. (IF (k - 1) * ChunkLen <= Len(m) THEN (k - 1) * ChunkLen ELSE Len(m)) = Upto(f, k)
    BY DEF Upto, m
  <2>6. c(k - 1) = ChunkPacket(p, SubSeq(m, Upto(f, k - 1) + 1, Upto(f, k)))
    BY <2>4, <2>5 DEF c
  <2> HIDE DEF t
  <2> QED BY <2>2, <2>3, <2>6
<1> QED BY <1>1, <1>7, <1>8, <1>9 DEF h, m

-----------------------------------------------------------------------------
(* A queue of whole answers, of which one packet may be missing.           *)

\* In queue w, the packets after position i are parts k + 1, k + 2, ... of f's answer
\* to port p, to the last, and the next packet for p, if it follows at once, is a
\* header.
Rest(w, i, p, f, k) ==
  /\ i + Parts(f) - k <= Len(w)
  /\ \A d \in (k + 1) .. Parts(f) : w[i + d - k] = Reply(p, f)[d]
  /\ i + Parts(f) - k + 1 <= Len(w) =>
       w[i + Parts(f) - k + 1].magic \/ w[i + Parts(f) - k + 1].port # p

\* Every packet of w is followed by the rest of its answer, and every packet that is
\* no header follows one for the same port.
Whole(w) ==
  \A i \in 1 .. Len(w) :
    /\ \E f \in Files : \E k \in 1 .. Parts(f) :
         w[i] = Reply(w[i].port, f)[k] /\ Rest(w, i, w[i].port, f, k)
    /\ i > 1 => w[i].magic \/ w[i].port = w[i - 1].port

Without(w, j) == SubSeq(w, 1, j - 1) \o SubSeq(w, j + 1, Len(w))

LEMMA TailIs ==
  ASSUME NEW S, NEW w \in Seq(S), Len(w) > 0
  PROVE  /\ w # <<>> /\ Tail(w) \in Seq(S) /\ Len(Tail(w)) = Len(w) - 1
         /\ Head(w) = w[1] /\ w[1] \in S
         /\ \A i \in 1 .. (Len(w) - 1) : Tail(w)[i] = w[i + 1]
<1>1. w # <<>>
  BY EmptySeq
<1>2. Tail(w) \in Seq(S) /\ Len(Tail(w)) = Len(w) - 1 /\ Head(w) = w[1]
      /\ \A i \in 1 .. (Len(w) - 1) : Tail(w)[i] = w[i + 1]
  BY <1>1, HeadTailProperties
<1>3. 1 \in 1 .. Len(w)
  BY LenProperties
<1>4. w[1] \in S
  BY <1>3, ElementOfSeq
<1> QED BY <1>1, <1>2, <1>4

LEMMA WithoutIs ==
  ASSUME NEW S, NEW w \in Seq(S), NEW j \in 1 .. Len(w)
  PROVE  /\ Without(w, j) \in Seq(S) /\ Len(Without(w, j)) = Len(w) - 1
         /\ \A i \in 1 .. (Len(w) - 1) :
              Without(w, j)[i] = IF i < j THEN w[i] ELSE w[i + 1]
<1> DEFINE a == SubSeq(w, 1, j - 1)
           b == SubSeq(w, j + 1, Len(w))
<1>1. Len(w) \in Nat /\ \A i \in 1 .. Len(w) : w[i] \in S
  BY LenProperties, ElementOfSeq
<1>2. /\ a \in Seq(S) /\ Len(a) = j - 1
      /\ \A i \in 1 .. (j - 1) : a[i] = w[i]
  BY <1>1
<1>3. /\ b \in Seq(S) /\ Len(b) = Len(w) - j
      /\ \A i \in 1 .. (Len(w) - j) : b[i] = w[j + i]
  BY <1>1
<1> HIDE DEF a, b
<1>4. /\ a \o b \in Seq(S) /\ Len(a \o b) = (j - 1) + (Len(w) - j)
      /\ \A i \in 1 .. ((j - 1) + (Len(w) - j)) :
           (a \o b)[i] = IF i <= j - 1 THEN a[i] ELSE b[i - (j - 1)]
  <2>1. /\ a \o b \in Seq(S) /\ Len(a \o b) = Len(a) + Len(b)
        /\ \A i \in 1 .. (Len(a) + Len(b)) :
             (a \o b)[i] = IF i <= Len(a) THEN a[i] ELSE b[i - Len(a)]
    BY <1>2, <1>3, ConcatProperties
  <2>2. Len(a) = j - 1 /\ Len(b) = Len(w) - j
    BY <1>2, <1>3
  <2> QED BY <2>1, <2>2, Zenon
<1>5. Without(w, j) = a \o b
  BY DEF Without, a, b
<1>6. (j - 1) + (Len(w) - j) = Len(w) - 1
  BY <1>1
<1>7. ASSUME NEW i \in 1 .. (Len(w) - 1)
      PROVE  (a \o b)[i] = IF i < j THEN w[i] ELSE w[i + 1]
  <2>1. CASE i < j
    <3>1. (a \o b)[i] = a[i] /\ a[i] = w[i]
      BY <1>1, <1>2, <1>4, <2>1
    <3> QED BY <2>1, <3>1
  <2>2. CASE ~(i < j)
    <3>1. i - (j - 1) \in 1 .. (Len(w) - j) /\ j + (i - (j - 1)) = i + 1 /\ ~(i <= j - 1)
      BY <1>1, <2>2
    <3>2. (a \o b)[i] = b[i - (j - 1)]
      BY <1>4, <1>6, <3>1
    <3>3. b[i - (j - 1)] = w[i + 1]
      BY <1>3, <3>1
    <3> QED BY <2>2, <3>2, <3>3
  <2> QED BY <2>1, <2>2
<1> QED BY <1>4, <1>5, <1>6, <1>7

LEMMA WithoutFirst ==
  ASSUME NEW S, NEW w \in Seq(S), Len(w) > 0
  PROVE  Without(w, 1) = Tail(w)
<1>1. Len(w) \in Nat /\ 1 \in 1 .. Len(w)
  BY LenProperties
<1>2. /\ Without(w, 1) \in Seq(S) /\ Len(Without(w, 1)) = Len(w) - 1
      /\ \A i \in 1 .. (Len(w) - 1) : Without(w, 1)[i] = IF i < 1 THEN w[i] ELSE w[i + 1]
  BY <1>1, WithoutIs
<1>3. /\ Tail(w) \in Seq(S) /\ Len(Tail(w)) = Len(w) - 1
      /\ \A i \in 1 .. (Len(w) - 1) : Tail(w)[i] = w[i + 1]
  BY TailIs
<1> QED BY <1>1, <1>2, <1>3, SeqEqual

LEMMA WithoutTail ==
  ASSUME NEW S, NEW w \in Seq(S), NEW j \in 2 .. Len(w)
  PROVE  /\ Len(Without(w, j)) > 0 /\ Without(w, j)[1] = w[1]
         /\ j - 1 \in 1 .. Len(Tail(w))
         /\ Tail(Without(w, j)) = Without(Tail(w), j - 1)
<1> DEFINE v == Without(w, j)
           t == Tail(w)
           n == Len(w)
<1>1. n \in Nat /\ n >= 2 /\ j \in 1 .. n /\ n > 0
  BY LenProperties
<1>2. v \in Seq(S) /\ Len(v) = n - 1
      /\ \A i \in 1 .. (n - 1) : v[i] = IF i < j THEN w[i] ELSE w[i + 1]
  BY <1>1, WithoutIs
<1>3. t \in Seq(S) /\ Len(t) = n - 1 /\ \A i \in 1 .. (n - 1) : t[i] = w[i + 1]
  BY <1>1, TailIs
<1> HIDE DEF v, t
<1>4. Len(v) > 0 /\ v[1] = w[1] /\ j - 1 \in 1 .. Len(t)
  BY <1>1, <1>2, <1>3
<1>5. Tail(v) \in Seq(S) /\ Len(Tail(v)) = n - 2
      /\ \A i \in 1 .. (n - 2) : Tail(v)[i] = v[i + 1]
  <2>1. Len(v) - 1 = n - 2
    BY <1>1, <1>2
  <2> QED BY <1>2, <1>4, <2>1, TailIs
<1>6. Without(t, j - 1) \in Seq(S) /\ Len(Without(t, j - 1)) = n - 2
      /\ \A i \in 1 .. (n - 2) : Without(t, j - 1)[i] = IF i < j - 1 THEN t[i] ELSE t[i + 1]
  <2>1. Len(t) - 1 = n - 2
    BY <1>1, <1>3
  <2>2. /\ Without(t, j - 1) \in Seq(S) /\ Len(Without(t, j - 1)) = Len(t) - 1
        /\ \A i \in 1 .. (Len(t) - 1) :
             Without(t, j - 1)[i] = IF i < j - 1 THEN t[i] ELSE t[i + 1]
    BY <1>3, <1>4, WithoutIs
  <2> QED BY <2>1, <2>2, Zenon
<1>7. ASSUME NEW i \in 1 .. (n - 2) PROVE Tail(v)[i] = Without(t, j - 1)[i]
  <2>1. i + 1 \in 1 .. (n - 1) /\ i \in 1 .. (n - 1) /\ (i < j - 1 <=> i + 1 < j)
    BY <1>1
  <2> QED BY <1>1, <1>2, <1>3, <1>5, <1>6, <2>1
<1>8. Tail(v) = Without(t, j - 1)
  BY <1>5, <1>6, <1>7, SeqEqual
<1> QED BY <1>4, <1>8 DEF v, t

LEMMA WithoutConcat ==
  ASSUME NEW S, NEW w \in Seq(S), NEW r \in Seq(S), NEW j \in 1 .. Len(w)
  PROVE  /\ j \in 1 .. Len(w \o r)
         /\ Without(w, j) \o r = Without(w \o r, j)
<1> DEFINE v == Without(w, j)
           x == w \o r
           n == Len(w)
           l == Len(r)
<1>1. n \in Nat /\ l \in Nat
  BY LenProperties
<1>2. v \in Seq(S) /\ Len(v) = n - 1
      /\ \A i \in 1 .. (n - 1) : v[i] = IF i < j THEN w[i] ELSE w[i + 1]
  BY WithoutIs
<1>3. x \in Seq(S) /\ Len(x) = n + l
      /\ \A i \in 1 .. (n + l) : x[i] = IF i <= n THEN w[i] ELSE r[i - n]
  BY ConcatProperties
<1> HIDE DEF v, x
<1>4. j \in 1 .. Len(x)
  BY <1>1, <1>3
<1>5. v \o r \in Seq(S) /\ Len(v \o r) = n + l - 1
      /\ \A i \in 1 .. (n + l - 1) : (v \o r)[i] = IF i <= n - 1 THEN v[i] ELSE r[i - (n - 1)]
  <2>1. Len(v) + l = n + l - 1 /\ Len(v) = n - 1
    BY <1>1, <1>2
  <2>2. /\ v \o r \in Seq(S) /\ Len(v \o r) = Len(v) + l
        /\ \A i \in 1 .. (Len(v) + l) : (v \o r)[i] = IF i <= Len(v) THEN v[i] ELSE r[i - Len(v)]
    BY <1>2, ConcatProperties
  <2> QED BY <2>1, <2>2, Zenon
<1>6. Without(x, j) \in Seq(S) /\ Len(Without(x, j)) = n + l - 1
      /\ \A i \in 1 .. (n + l - 1) : Without(x, j)[i] = IF i < j THEN x[i] ELSE x[i + 1]
  <2>1. Len(x) - 1 = n + l - 1
    BY <1>1, <1>3
  <2>2. /\ Without(x, j) \in Seq(S) /\ Len(Without(x, j)) = Len(x) - 1
        /\ \A i \in 1 .. (Len(x) - 1) : Without(x, j)[i] = IF i < j THEN x[i] ELSE x[i + 1]
    BY <1>3, <1>4, WithoutIs
  <2> QED BY <2>1, <2>2, Zenon
<1>7. ASSUME NEW i \in 1 .. (n + l - 1) PROVE (v \o r)[i] = Without(x, j)[i]
  <2>1. i \in 1 .. (n + l) /\ i + 1 \in 1 .. (n + l) /\ i - (n - 1) = i + 1 - n
    BY <1>1
  <2>2. CASE i <= n - 1
    <3>1. i \in 1 .. (n - 1) /\ i <= n /\ i + 1 <= n
      BY <1>1, <2>2
    <3> QED BY <1>2, <1>3, <1>5, <1>6, <2>1, <2>2, <3>1
  <2>3. CASE ~(i <= n - 1)
    <3>1. ~(i < j) /\ ~(i + 1 <= n)
      BY <1>1, <2>3
    <3>2. (v \o r)[i] = r[i - (n - 1)]
      BY <1>5, <2>3
    <3>3. Without(x, j)[i] = x[i + 1]
      BY <1>6, <3>1
    <3>4. x[i + 1] = r[i + 1 - n]
      BY <1>3, <2>1, <3>1
    <3> QED BY <2>1, <3>2, <3>3, <3>4
  <2> QED BY <2>2, <2>3
<1>8. v \o r = Without(x, j)
  BY <1>5, <1>6, <1>7, SeqEqual
<1> QED BY <1>4, <1>8 DEF v, x

LEMMA RestTail ==
  ASSUME NEW w \in Seq(Packet), NEW i \in Nat \ {0}, NEW p, NEW f \in Files,
         NEW k \in 1 .. Parts(f), Len(w) > 0, Rest(w, i, p, f, k)
  PROVE  Rest(Tail(w), i - 1, p, f, k)
<1> DEFINE n == Parts(f)
           t == Tail(w)
<1>1. Len(w) \in Nat /\ n \in Nat
  BY LenProperties, PartsAdd
<1>2. Len(t) = Len(w) - 1 /\ \A x \in 1 .. (Len(w) - 1) : t[x] = w[x + 1]
  BY TailIs
<1>3. /\ i + n - k <= Len(w)
      /\ \A d \in (k + 1) .. n : w[i + d - k] = Reply(p, f)[d]
      /\ i + n - k + 1 <= Len(w) => w[i + n - k + 1].magic \/ w[i + n - k + 1].port # p
  BY DEF Rest
<1> HIDE DEF t, n
<1>4. k \in Nat /\ k <= n
  BY <1>1 DEF n
<1>5. (i - 1) + n - k <= Len(t)
  BY <1>1, <1>2, <1>3, <1>4
<1>6. ASSUME NEW d \in (k + 1) .. n PROVE t[(i - 1) + d - k] = Reply(p, f)[d]
  <2>1. (i - 1) + d - k \in 1 .. (Len(w) - 1) /\ (i - 1) + d - k + 1 = i + d - k
    BY <1>1, <1>3, <1>4
  <2> QED BY <1>2, <1>3, <2>1
<1>7. ASSUME (i - 1) + n - k + 1 <= Len(t)
      PROVE  t[(i - 1) + n - k + 1].magic \/ t[(i - 1) + n - k + 1].port # p
  <2>1. (i - 1) + n - k + 1 \in 1 .. (Len(w) - 1)
        /\ (i - 1) + n - k + 1 + 1 = i + n - k + 1 /\ i + n - k + 1 <= Len(w)
    BY <1>1, <1>2, <1>4, <1>7
  <2>2. t[(i - 1) + n - k + 1] = w[i + n - k + 1]
    BY <1>2, <2>1
  <2> QED BY <1>3, <2>1, <2>2
<1> QED BY <1>5, <1>6, <1>7 DEF Rest, n, t

\* The next part of the answer is at the head of the queue.
LEMMA RestStep ==
  ASSUME NEW w \in Seq(Packet), NEW p, NEW f \in Files, NEW k \in 1 .. Parts(f),
         k < Parts(f), Rest(w, 0, p, f, k)
  PROVE  /\ Len(w) > 0 /\ w[1] = Reply(p, f)[k + 1]
         /\ k + 1 \in 1 .. Parts(f) /\ Rest(Tail(w), 0, p, f, k + 1)
<1> DEFINE n == Parts(f)
<1>1. Len(w) \in Nat /\ n \in Nat
  BY LenProperties, PartsAdd
<1>2. /\ 0 + n - k <= Len(w)
      /\ \A d \in (k + 1) .. n : w[0 + d - k] = Reply(p, f)[d]
      /\ 0 + n - k + 1 <= Len(w) => w[0 + n - k + 1].magic \/ w[0 + n - k + 1].port # p
  BY DEF Rest
<1> HIDE DEF n
<1>3. k \in Nat /\ k < n /\ k + 1 \in 1 .. n
  BY <1>1 DEF n
<1>4. Len(w) > 0 /\ w[1] = Reply(p, f)[k + 1]
  <2>1. 0 + (k + 1) - k = 1 /\ k + 1 \in (k + 1) .. n
    BY <1>1, <1>3
  <2>2. w[0 + (k + 1) - k] = Reply(p, f)[k + 1]
    BY <1>2, <2>1
  <2> QED BY <1>1, <1>2, <1>3, <2>1, <2>2
<1>5. Rest(w, 1, p, f, k + 1)
  <2>1. 1 + n - (k + 1) = 0 + n - k
    BY <1>1, <1>3
  <2>2. ASSUME NEW d \in (k + 1 + 1) .. n PROVE w[1 + d - (k + 1)] = Reply(p, f)[d]
    <3>1. 1 + d - (k + 1) = 0 + d - k /\ d \in (k + 1) .. n
      BY <1>1, <1>3
    <3> QED BY <1>2, <3>1
  <2> QED BY <1>2, <2>1, <2>2 DEF Rest, n
<1>6. Rest(Tail(w), 1 - 1, p, f, k + 1)
  <2>1. 1 \in Nat \ {0} /\ k + 1 \in 1 .. Parts(f)
    BY <1>3 DEF n
  <2> QED BY <1>4, <1>5, <2>1, RestTail
<1> QED BY <1>3, <1>4, <1>6 DEF n

LEMMA RestConcat ==
  ASSUME NEW w \in Seq(Packet), NEW i \in Nat, NEW p, NEW f \in Files,
         NEW k \in 1 .. Parts(f), Rest(w, i, p, f, k),
         NEW q \in 0 .. (NPorts - 1), NEW g \in Files
  PROVE  Rest(w \o Reply(q, g), i, p, f, k)
<1> DEFINE n == Parts(f)
           r == Reply(q, g)
           x == w \o r
           l == Len(r)
<1>1. Len(w) \in Nat /\ n \in Nat
  BY LenProperties, PartsAdd
<1>2. r \in Seq(Packet) /\ r[1].magic /\ l \in Nat \ {0}
  <2>1. r \in Seq(Packet) /\ r[1] = HeaderPacket(q, g) /\ l \in Nat \ {0}
    BY ReplyParts, PartsAdd
  <2> HIDE DEF r, l
  <2> QED BY <2>1 DEF HeaderPacket
<1> HIDE DEF r
<1>3. Len(x) = Len(w) + l /\ \A y \in 1 .. (Len(w) + l) : x[y] = IF y <= Len(w) THEN w[y] ELSE r[y - Len(w)]
  BY <1>2, ConcatProperties
<1>4. /\ i + n - k <= Len(w)
      /\ \A d \in (k + 1) .. n : w[i + d - k] = Reply(p, f)[d]
      /\ i + n - k + 1 <= Len(w) => w[i + n - k + 1].magic \/ w[i + n - k + 1].port # p
  BY DEF Rest
<1> HIDE DEF n, x, l
<1>5. k \in Nat /\ k <= n /\ 1 <= k
  BY <1>1 DEF n
<1>6. i + n - k <= Len(x)
  BY <1>1, <1>2, <1>3, <1>4, <1>5
<1>7. ASSUME NEW d \in (k + 1) .. n PROVE x[i + d - k] = Reply(p, f)[d]
  <2> DEFINE m == Len(w)
  <2>0. m \in Nat /\ l \in Nat /\ n \in Nat /\ i + n - k <= m
    BY <1>1, <1>2, <1>4
  <2> HIDE DEF m
  <2>1. i + d - k \in 1 .. (m + l) /\ i + d - k <= m
    BY <1>5, <2>0
  <2> QED BY <1>3, <1>4, <2>1 DEF m
<1>8. ASSUME i + n - k + 1 <= Len(x)
      PROVE  x[i + n - k + 1].magic \/ x[i + n - k + 1].port # p
  <2> DEFINE y == i + n - k + 1
  <2>1. y \in 1 .. (Len(w) + l) /\ (~(y <= Len(w)) => y - Len(w) = 1)
    <3>1. i + n - k + 1 <= Len(w) + l /\ i + n - k <= Len(w)
      BY <1>3, <1>4, <1>8
    <3> DEFINE m == Len(w)
    <3>2. m \in Nat /\ i + n - k + 1 <= m + l /\ i + n - k <= m
      BY <1>1, <3>1
    <3> HIDE DEF m
    <3>3. y \in 1 .. (m + l) /\ (~(y <= m) => y - m = 1)
      BY <1>1, <1>2, <1>5, <3>2
    <3> QED BY <3>3 DEF m
  <2>2. CASE y <= Len(w)
    <3>1. x[y] = w[y]
      BY <1>3, <2>1, <2>2
    <3> QED BY <1>4, <2>2, <3>1
  <2>3. CASE ~(y <= Len(w))
    <3>1. x[y] = r[1]
      BY <1>3, <2>1, <2>3
    <3> QED BY <1>2, <3>1
  <2> QED BY <2>2, <2>3
<1> QED BY <1>6, <1>7, <1>8 DEF Rest, n, x, r

LEMMA WholeTail ==
  ASSUME NEW w \in Seq(Packet), Len(w) > 0, Whole(w)
  PROVE  Whole(Tail(w))
<1> DEFINE t == Tail(w)
<1>1. Len(w) \in Nat
  BY LenProperties
<1>2. Len(t) = Len(w) - 1 /\ \A x \in 1 .. (Len(w) - 1) : t[x] = w[x + 1]
  BY TailIs
<1>3. ASSUME NEW i \in 1 .. (Len(w) - 1)
      PROVE  /\ \E f \in Files : \E k \in 1 .. Parts(f) :
                  t[i] = Reply(t[i].port, f)[k] /\ Rest(t, i, t[i].port, f, k)
             /\ i > 1 => t[i].magic \/ t[i].port = t[i - 1].port
  <2>1. i + 1 \in 1 .. Len(w) /\ i + 1 > 1 /\ i + 1 \in Nat \ {0} /\ i + 1 - 1 = i /\ t[i] = w[i + 1]
    BY <1>1, <1>2
  <2>2. PICK f \in Files : \E k \in 1 .. Parts(f) :
           w[i + 1] = Reply(w[i + 1].port, f)[k] /\ Rest(w, i + 1, w[i + 1].port, f, k)
    BY <2>1 DEF Whole
  <2>3. PICK k \in 1 .. Parts(f) :
           w[i + 1] = Reply(w[i + 1].port, f)[k] /\ Rest(w, i + 1, w[i + 1].port, f, k)
    BY <2>2
  <2>4. Rest(t, i, t[i].port, f, k)
    <3>1. Rest(t, i + 1 - 1, w[i + 1].port, f, k)
      <4> DEFINE y == i + 1
                 p == w[i + 1].port
      <4>1. y \in Nat \ {0} /\ Rest(w, y, p, f, k)
        BY <2>1, <2>3
      <4> HIDE DEF y, p
      <4>2. Rest(t, y - 1, p, f, k)
        BY <4>1, RestTail
      <4> QED BY <4>2 DEF y, p
    <3> QED BY <2>1, <3>1
  <2>5. i > 1 => t[i].magic \/ t[i].port = t[i - 1].port
    <3>1. SUFFICES ASSUME i > 1 PROVE t[i].magic \/ t[i].port = t[i - 1].port
      OBVIOUS
    <3>2. i - 1 \in 1 .. (Len(w) - 1) /\ i - 1 + 1 = i
      BY <1>1, <3>1
    <3>3. t[i - 1] = w[i]
      BY <1>2, <3>2
    <3>4. w[i + 1].magic \/ w[i + 1].port = w[i + 1 - 1].port
      BY <2>1 DEF Whole
    <3> QED BY <2>1, <3>3, <3>4
  <2>6. t[i] = Reply(t[i].port, f)[k]
    BY <2>1, <2>3
  <2> QED BY <2>4, <2>5, <2>6
<1> QED BY <1>2, <1>3 DEF Whole

\* Every packet of an answer is for its port, and only the first is a header.
LEMMA ReplyMarks ==
  ASSUME NEW f \in Files, NEW p \in 0 .. (NPorts - 1), NEW k \in 1 .. Parts(f)
  PROVE  /\ Reply(p, f)[k].port = p
         /\ Reply(p, f)[k].magic <=> k = 1
<1>1. Parts(f) \in Nat /\ (k # 1 => k \in 2 .. Parts(f))
  BY PartsAdd
<1>2. CASE k = 1
  <2>1. Reply(p, f)[k] = HeaderPacket(p, f)
    BY <1>2, ReplyParts
  <2> QED BY <1>2, <2>1 DEF HeaderPacket
<1>3. CASE k # 1
  <2>1. Reply(p, f)[k] =
          ChunkPacket(p, SubSeq(ManifestOf(f), Upto(f, k - 1) + 1, Upto(f, k)))
    BY <1>1, <1>3, ReplyParts
  <2> QED BY <1>3, <2>1 DEF ChunkPacket
<1> QED BY <1>2, <1>3

LEMMA WholeConcat ==
  ASSUME NEW w \in Seq(Packet), Whole(w), NEW q \in 0 .. (NPorts - 1), NEW g \in Files
  PROVE  /\ w \o Reply(q, g) \in Seq(Packet)
         /\ Whole(w \o Reply(q, g))
<1> DEFINE r == Reply(q, g)
           x == w \o r
           m == Len(w)
           n == Parts(g)
<1>1. m \in Nat /\ n \in Nat \ {0}
  BY LenProperties, PartsAdd
<1>2. r \in Seq(Packet) /\ Len(r) = n
  BY ReplyParts
<1>3. /\ x \in Seq(Packet) /\ Len(x) = m + n
      /\ \A y \in 1 .. (m + n) : x[y] = IF y <= m THEN w[y] ELSE r[y - m]
  BY <1>2, ConcatProperties
<1>4. \A d \in 1 .. n : r[d].port = q /\ (r[d].magic <=> d = 1)
  BY ReplyMarks
<1>5. ASSUME NEW i \in 1 .. m
      PROVE  /\ \E f \in Files : \E k \in 1 .. Parts(f) :
                  x[i] = Reply(x[i].port, f)[k] /\ Rest(x, i, x[i].port, f, k)
             /\ i > 1 => x[i].magic \/ x[i].port = x[i - 1].port
  <2> HIDE DEF n
  <2>1. i \in 1 .. (m + n) /\ i <= m /\ i \in Nat /\ (i > 1 => i - 1 \in 1 .. (m + n) /\ i - 1 <= m)
    BY <1>1
  <2> HIDE DEF m
  <2>2. x[i] = w[i] /\ (i > 1 => x[i - 1] = w[i - 1])
    <3> HIDE DEF x, r
    <3> QED BY <1>3, <2>1
  <2>3. PICK f \in Files : \E k \in 1 .. Parts(f) :
           w[i] = Reply(w[i].port, f)[k] /\ Rest(w, i, w[i].port, f, k)
    BY DEF Whole, m
  <2>4. PICK k \in 1 .. Parts(f) :
           w[i] = Reply(w[i].port, f)[k] /\ Rest(w, i, w[i].port, f, k)
    BY <2>3
  <2>5. Rest(x, i, w[i].port, f, k)
    <3> DEFINE p == w[i].port
    <3>1. Rest(w, i, p, f, k)
      BY <2>4
    <3> HIDE DEF p
    <3>2. Rest(x, i, p, f, k)
      BY <2>1, <3>1, RestConcat
    <3> QED BY <3>2 DEF p
  <2>6. i > 1 => w[i].magic \/ w[i].port = w[i - 1].port
    BY DEF Whole, m
  <2> HIDE DEF x
  <2> QED BY <2>2, <2>4, <2>5, <2>6
<1>6. ASSUME NEW i \in (m + 1) .. (m + n)
      PROVE  /\ \E f \in Files : \E k \in 1 .. Parts(f) :
                  x[i] = Reply(x[i].port, f)[k] /\ Rest(x, i, x[i].port, f, k)
             /\ i > 1 => x[i].magic \/ x[i].port = x[i - 1].port
  <2> DEFINE d == i - m
  <2> HIDE DEF n, m
  <2>1. d \in 1 .. n /\ ~(i <= m) /\ i = m + d /\ i \in 1 .. (m + n) /\ d \in Nat
    BY <1>1
  <2> HIDE DEF d, x
  <2>2. x[i] = r[d]
    <3> HIDE DEF r
    <3>1. i - m = d
      BY DEF d
    <3> QED BY <1>3, <2>1, <3>1
  <2>3. r[d].port = q /\ (r[d].magic <=> d = 1)
    BY <1>4, <2>1
  <2>4. Rest(x, i, q, g, d)
    <3> HIDE DEF r
    <3>1. i + n - d = m + n
      BY <1>1, <2>1
    <3>2. ASSUME NEW e \in (d + 1) .. n PROVE x[i + e - d] = r[e]
      <4>1. i + e - d \in 1 .. (m + n) /\ ~(i + e - d <= m) /\ (i + e - d) - m = e
        BY <1>1, <2>1
      <4> QED BY <1>3, <4>1
    <3>3. i + n - d <= Len(x) /\ ~(i + n - d + 1 <= Len(x))
      <4>1. Len(x) = m + n
        BY <1>3
      <4> QED BY <1>1, <3>1, <4>1
    <3> QED BY <3>2, <3>3 DEF Rest, r, n
  <2>5. i > 1 => x[i].magic \/ x[i].port = x[i - 1].port
    <3> HIDE DEF r
    <3>1. CASE d = 1
      BY <2>2, <2>3, <3>1
    <3>2. CASE d # 1
      <4>1. i - 1 \in 1 .. (m + n) /\ ~(i - 1 <= m) /\ (i - 1) - m = d - 1 /\ d - 1 \in 1 .. n
        BY <1>1, <2>1, <3>2
      <4>2. x[i - 1] = r[d - 1]
        BY <1>3, <4>1
      <4> QED BY <1>4, <2>2, <2>3, <4>1, <4>2
    <3> QED BY <3>1, <3>2
  <2>6. d \in 1 .. Parts(g) /\ x[i] = Reply(x[i].port, g)[d] /\ Rest(x, i, x[i].port, g, d)
    BY <2>1, <2>2, <2>3, <2>4 DEF n
  <2> QED BY <2>5, <2>6
<1>7. ASSUME NEW i \in 1 .. Len(x) PROVE i \in 1 .. m \/ i \in (m + 1) .. (m + n)
  <2>1. Len(x) = m + n
    BY <1>3
  <2> HIDE DEF n, m, x
  <2> QED BY <1>1, <2>1
<1> HIDE DEF x, m, n
<1>8. Whole(x)
  BY <1>5, <1>6, <1>7 DEF Whole
<1> QED BY <1>3, <1>8 DEF x

\* The head of a queue of whole answers: which part of which answer it is, with the
\* rest of it behind.
LEMMA WholeHead ==
  ASSUME NEW w \in Seq(Packet), Len(w) > 0, Whole(w)
  PROVE  /\ w[1] \in Packet
         /\ \E f \in Files : \E k \in 1 .. Parts(f) :
              /\ w[1] = Reply(w[1].port, f)[k]
              /\ w[1].magic <=> k = 1
              /\ Rest(Tail(w), 0, w[1].port, f, k)
<1>1. Len(w) \in Nat /\ 1 \in 1 .. Len(w)
  BY LenProperties
<1>2. w[1] \in Packet /\ w[1].port \in 0 .. (NPorts - 1)
  <2>1. w[1] \in Packet
    BY <1>1, ElementOfSeq
  <2> QED BY <2>1 DEF Packet
<1> DEFINE p == w[1].port
<1>3. PICK f \in Files : \E k \in 1 .. Parts(f) : w[1] = Reply(p, f)[k] /\ Rest(w, 1, p, f, k)
  BY <1>1 DEF Whole
<1>4. PICK k \in 1 .. Parts(f) : w[1] = Reply(p, f)[k] /\ Rest(w, 1, p, f, k)
  BY <1>3
<1>5. w[1].magic <=> k = 1
  BY <1>2, <1>4, ReplyMarks
<1>6. Rest(Tail(w), 0, p, f, k)
  <2> HIDE DEF p
  <2>1. Rest(Tail(w), 1 - 1, p, f, k)
    BY <1>4, RestTail
  <2>2. 1 - 1 = 0
    OBVIOUS
  <2> QED BY <2>1, <2>2
<1> QED BY <1>2, <1>4, <1>5, <1>6

\* A packet for another port that goes leaves a finished answer finished.
LEMMA RestDrop ==
  ASSUME NEW w \in Seq(Packet), Whole(w), NEW p, NEW f \in Files,
         Len(w) > 0, w[1].port # p, Rest(w, 0, p, f, Parts(f))
  PROVE  Rest(Tail(w), 0, p, f, Parts(f))
<1> DEFINE n == Parts(f)
           t == Tail(w)
<1>1. Len(w) \in Nat /\ n \in Nat
  BY LenProperties, PartsAdd
<1>2. Len(t) = Len(w) - 1 /\ \A x \in 1 .. (Len(w) - 1) : t[x] = w[x + 1]
  BY TailIs
<1> HIDE DEF n, t
<1>3. 0 + n - n <= Len(t)
  BY <1>1, <1>2
<1>4. ASSUME 0 + n - n + 1 <= Len(t)
      PROVE  t[0 + n - n + 1].magic \/ t[0 + n - n + 1].port # p
  <2>1. 0 + n - n + 1 = 1 /\ 1 \in 1 .. (Len(w) - 1) /\ 2 \in 1 .. Len(w)
    BY <1>1, <1>2, <1>4
  <2>2. t[1] = w[2]
    BY <1>2, <2>1
  <2>3. w[2].magic \/ w[2].port = w[1].port
    <3>1. w[2].magic \/ w[2].port = w[2 - 1].port
      BY <2>1 DEF Whole
    <3> QED BY <3>1
  <2> QED BY <2>1, <2>2, <2>3
<1>5. \A d \in (n + 1) .. n : t[0 + d - n] = Reply(p, f)[d]
  BY <1>1
<1> QED BY <1>3, <1>4, <1>5 DEF Rest, n, t

-----------------------------------------------------------------------------
(* What the client has read of one exchange, with one fault at most.       *)

\* A manifest byte that no digest contains: it came from a header.
Poisoned(m) == \E j \in 1 .. Len(m) : m[j][1] = <<>>

\* c is the queue w of whole answers, or w without its packet j if there was a fault
\* (a missing first packet is no packet of w at all).
Carries(c, n, w, j) ==
  /\ w \in Seq(Packet)
  /\ Whole(w)
  /\ \/ j = 0 /\ c = w
     \/ j \in 2 .. Len(w) /\ n = 1 /\ c = Without(w, j)

\* The bytes m read after header h on port p, too few so far: header bytes among them;
\* or those of the first k parts of the answer with the others still to come; or fewer
\* than those, one part having been lost.
Reads(p, h, m, n, w, j) ==
  /\ Len(m) < h.nblocks * DigestLen
  /\ \/ Poisoned(m)
     \/ \E f \in Files : \E k \in 1 .. Parts(f) :
          /\ h = Geometry(f)
          /\ Rest(w, 0, p, f, k)
          /\ \/ k < Parts(f) /\ m = SubSeq(ManifestOf(f), 1, Upto(f, k))
             \/ j = 0 /\ n = 1 /\ Len(m) < Upto(f, k)

Sound ==
  faults <= 1 =>
    \E w \in Seq(Packet), j \in Nat :
      /\ Carries(ctl, faults, w, j)
      /\ pc = "manifest" => Reads(port, hdr, man, faults, w, j)

\* What was locked is a manifest the server sent, or one with header bytes in it.
Locked ==
  faults <= 1 /\ live =>
    \/ \E f \in Files : /\ recv.total = f.size
                        /\ recv.block = BlockSize
                        /\ recv.expected = ManifestOf(f)
    \/ Len(recv.expected) = recv.nblocks * DigestLen /\ Poisoned(recv.expected)

\* The head of the queue is taken.
LEMMA CarriesTail ==
  ASSUME NEW c, NEW n, NEW w, NEW j, Carries(c, n, w, j), c # <<>>
  PROVE  /\ w \in Seq(Packet) /\ Whole(w)
         /\ Len(w) > 0 /\ Head(c) = w[1]
         /\ Tail(w) \in Seq(Packet)
         /\ \/ j # 2 /\ \E i \in Nat : (j = 0 => i = 0) /\ Carries(Tail(c), n, Tail(w), i)
            \/ /\ j = 2 /\ n = 1 /\ Tail(Tail(w)) \in Seq(Packet)
               /\ Carries(Tail(c), n, Tail(Tail(w)), 0)
<1>1. w \in Seq(Packet) /\ Whole(w) /\ Len(w) \in Nat
  BY LenProperties DEF Carries
<1>2. CASE j = 0 /\ c = w
  <2>1. Len(w) > 0 /\ Head(c) = w[1]
    BY <1>1, <1>2, EmptySeq
  <2>2. Tail(w) \in Seq(Packet) /\ Whole(Tail(w))
    BY <1>1, <2>1, TailIs, WholeTail
  <2>3. Carries(Tail(c), n, Tail(w), 0)
    BY <1>2, <2>2 DEF Carries
  <2> QED BY <1>1, <1>2, <2>1, <2>2, <2>3
<1>3. CASE j \in 2 .. Len(w) /\ n = 1 /\ c = Without(w, j)
  <2>1. Len(w) > 0 /\ j \in Nat /\ j \in 1 .. Len(w)
    BY <1>1, <1>3
  <2>2. /\ Len(c) > 0 /\ c[1] = w[1] /\ c \in Seq(Packet)
        /\ j - 1 \in 1 .. Len(Tail(w)) /\ Tail(c) = Without(Tail(w), j - 1)
    BY <1>1, <1>3, <2>1, WithoutTail, WithoutIs
  <2>3. Head(c) = w[1]
    BY <2>2
  <2>4. Tail(w) \in Seq(Packet) /\ Whole(Tail(w))
    BY <1>1, <2>1, TailIs, WholeTail
  <2>5. Len(Tail(w)) \in Nat /\ Len(Tail(w)) > 0
    BY <2>1, <2>2, <2>4, LenProperties
  <2>6. CASE j = 2
    <3>1. Tail(c) = Tail(Tail(w))
      <4> DEFINE t == Tail(w)
      <4>1. Tail(c) = Without(t, 1) /\ t \in Seq(Packet) /\ Len(t) > 0
        BY <2>2, <2>4, <2>5, <2>6
      <4> HIDE DEF t
      <4>2. Without(t, 1) = Tail(t)
        BY <4>1, WithoutFirst
      <4> QED BY <4>1, <4>2 DEF t
    <3>2. Tail(Tail(w)) \in Seq(Packet) /\ Whole(Tail(Tail(w)))
      <4> DEFINE t == Tail(w)
      <4>1. t \in Seq(Packet) /\ Len(t) > 0 /\ Whole(t)
        BY <2>4, <2>5
      <4> HIDE DEF t
      <4>2. Tail(t) \in Seq(Packet) /\ Whole(Tail(t))
        BY <4>1, TailIs, WholeTail
      <4> QED BY <4>2 DEF t
    <3>3. Carries(Tail(c), n, Tail(Tail(w)), 0)
      BY <3>1, <3>2 DEF Carries
    <3> QED BY <1>1, <1>3, <2>1, <2>3, <2>4, <2>6, <3>2, <3>3
  <2>7. CASE j # 2
    <3>1. j - 1 \in 2 .. Len(Tail(w)) /\ j - 1 \in Nat /\ j # 0
      BY <2>1, <2>2, <2>5, <2>7, <1>3
    <3>2. Carries(Tail(c), n, Tail(w), j - 1)
      BY <1>3, <2>2, <2>4, <3>1 DEF Carries
    <3> QED BY <1>1, <2>1, <2>3, <2>4, <2>7, <3>1, <3>2
  <2> QED BY <2>6, <2>7
<1> QED BY <1>2, <1>3 DEF Carries

\* The bytes b appended to m, up to length need.
Taken(m, b, need) ==
  m \o SubSeq(b, 1, IF Len(b) > need - Len(m) THEN need - Len(m) ELSE Len(b))

\* What reading the bytes b adds.
LEMMA Taking ==
  ASSUME NEW m \in Seq(ManifestByte), NEW b \in Seq(ManifestByte), NEW need \in Nat,
         Len(m) < need
  PROVE  /\ Taken(m, b, need) \in Seq(ManifestByte)
         /\ Len(Taken(m, b, need)) = IF Len(b) > need - Len(m) THEN need ELSE Len(m) + Len(b)
         /\ Len(Taken(m, b, need)) <= need
         /\ \A i \in 1 .. Len(m) : Taken(m, b, need)[i] = m[i]
         /\ \A i \in 1 .. Len(b) : Len(m) + i <= need => Taken(m, b, need)[Len(m) + i] = b[i]
<1> DEFINE l == IF Len(b) > need - Len(m) THEN need - Len(m) ELSE Len(b)
           s == SubSeq(b, 1, l)
           x == Taken(m, b, need)
<1>1. Len(m) \in Nat /\ Len(b) \in Nat /\ l \in 0 .. Len(b)
  BY LenProperties
<1>2. s \in Seq(ManifestByte) /\ Len(s) = l /\ \A i \in 1 .. l : s[i] = b[i]
  <2> HIDE DEF l
  <2>1. \A i \in 1 .. Len(b) : b[i] \in ManifestByte
    BY ElementOfSeq
  <2> QED BY <1>1, <2>1
<1>3. x = m \o s
  BY DEF Taken
<1> HIDE DEF s, x
<1>4. /\ x \in Seq(ManifestByte) /\ Len(x) = Len(m) + Len(s)
      /\ \A i \in 1 .. (Len(m) + Len(s)) : x[i] = IF i <= Len(m) THEN m[i] ELSE s[i - Len(m)]
  BY <1>2, <1>3, ConcatProperties, ZenonT(60)
<1>5. /\ x \in Seq(ManifestByte) /\ Len(x) = Len(m) + l
      /\ \A i \in 1 .. (Len(m) + l) : x[i] = IF i <= Len(m) THEN m[i] ELSE s[i - Len(m)]
  <2>1. Len(s) = l
    BY <1>2
  <2> HIDE DEF l
  <2> QED BY <1>4, <2>1, Zenon
<1>6. Len(x) = (IF Len(b) > need - Len(m) THEN need ELSE Len(m) + Len(b)) /\ Len(x) <= need
  BY <1>1, <1>5
<1>7. ASSUME NEW i \in 1 .. Len(m) PROVE x[i] = m[i]
  <2>1. i \in 1 .. (Len(m) + l) /\ i <= Len(m)
    BY <1>1
  <2> HIDE DEF l
  <2> QED BY <1>5, <2>1
<1>8. ASSUME NEW i \in 1 .. Len(b), Len(m) + i <= need PROVE x[Len(m) + i] = b[i]
  <2>1. /\ Len(m) + i \in 1 .. (Len(m) + l) /\ ~(Len(m) + i <= Len(m))
        /\ Len(m) + i - Len(m) = i /\ i \in 1 .. l
    BY <1>1, <1>8
  <2> HIDE DEF l
  <2> QED BY <1>2, <1>5, <2>1
<1> QED BY <1>5, <1>6, <1>7, <1>8 DEF x

\* Of M, u bytes were due and the bytes up to v come.
LEMMA TakeSlice ==
  ASSUME NEW M \in Seq(ManifestByte), NEW u \in 0 .. Len(M), NEW v \in 0 .. Len(M), u < v,
         NEW m \in Seq(ManifestByte), Len(m) < Len(M), Len(m) <= u
  PROVE  LET x == Taken(m, SubSeq(M, u + 1, v), Len(M))
         IN  /\ Len(m) < u => Len(x) < v
             /\ m = SubSeq(M, 1, u) => x = SubSeq(M, 1, v) /\ Len(x) = v
<1> DEFINE need == Len(M)
           b == SubSeq(M, u + 1, v)
           x == Taken(m, b, need)
<1>1. need \in Nat /\ \A i \in 1 .. need : M[i] \in ManifestByte
  BY LenProperties, ElementOfSeq
<1>2. Len(m) \in Nat /\ Len(m) < need /\ Len(m) <= u /\ u < v
  BY LenProperties
<1>3. /\ b \in Seq(ManifestByte) /\ Len(b) = v - u
      /\ \A i \in 1 .. (v - u) : b[i] = M[u + i]
  BY <1>1, <1>2
<1> HIDE DEF b, x
<1>4. /\ x \in Seq(ManifestByte)
      /\ Len(x) = IF Len(b) > need - Len(m) THEN need ELSE Len(m) + Len(b)
      /\ \A i \in 1 .. Len(m) : x[i] = m[i]
      /\ \A i \in 1 .. Len(b) : Len(m) + i <= need => x[Len(m) + i] = b[i]
  BY <1>1, <1>2, <1>3, Taking DEF x
<1>5. Len(x) = Len(m) + (v - u)
  <2>1. Len(b) = v - u
    BY <1>3
  <2> QED BY <1>1, <1>2, <1>4, <2>1
<1>6. Len(m) < u => Len(x) < v
  BY <1>1, <1>2, <1>5
<1>7. ASSUME m = SubSeq(M, 1, u) PROVE x = SubSeq(M, 1, v) /\ Len(x) = v
  <2> DEFINE y == SubSeq(M, 1, v)
  <2>1. Len(m) = u /\ \A i \in 1 .. u : m[i] = M[i]
    BY <1>1, <1>7
  <2>2. y \in Seq(ManifestByte) /\ Len(y) = v /\ \A i \in 1 .. v : y[i] = M[i]
    BY <1>1
  <2> HIDE DEF y
  <2>3. Len(x) = v
    BY <1>1, <1>5, <2>1
  <2>4. ASSUME NEW i \in 1 .. v PROVE x[i] = M[i]
    <3>1. CASE i <= u
      <4>1. i \in 1 .. u /\ i \in 1 .. Len(m)
        BY <1>1, <2>1, <3>1
      <4> QED BY <1>4, <2>1, <4>1
    <3>2. CASE ~(i <= u)
      <4> DEFINE e == i - u
      <4>1. e \in 1 .. (v - u) /\ u + e = i /\ u + e <= need
        BY <1>1, <3>2
      <4> HIDE DEF e
      <4>2. e \in 1 .. Len(b) /\ Len(m) + e <= need /\ Len(m) + e = i
        BY <1>3, <2>1, <4>1
      <4>3. x[i] = b[e]
        BY <1>4, <4>2
      <4>4. b[e] = M[i]
        BY <1>3, <4>1
      <4> QED BY <4>3, <4>4
    <3> QED BY <3>1, <3>2
  <2>5. x = y
    BY <1>4, <2>2, <2>3, <2>4, SeqEqual
  <2> QED BY <2>3, <2>5 DEF y
<1> QED BY <1>6, <1>7 DEF x, b, need

LEMMA ChunkBytes ==
  ASSUME NEW p, NEW y
  PROVE  ChunkPacket(p, y).bytes = y
BY DEF ChunkPacket

LEMMA HeaderBytes ==
  ASSUME NEW p, NEW f
  PROVE  /\ HeaderPacket(p, f).bytes = [k \in 1 .. HdrLen |-> << <<>>, k >>]
         /\ HeaderPacket(p, f).hdr = Geometry(f)
BY DEF HeaderPacket, Geometry

\* The next part of the answer, taken after its first k, brings all of it up to part
\* k + 1, and the whole manifest when that is the last.
LEMMA TakePart ==
  ASSUME NEW f \in Files, NEW p \in 0 .. (NPorts - 1), NEW k \in 1 .. Parts(f),
         k < Parts(f), NEW m \in Seq(ManifestByte),
         Len(m) < Len(ManifestOf(f)), Len(m) <= Upto(f, k)
  PROVE  LET x == Taken(m, Reply(p, f)[k + 1].bytes, Len(ManifestOf(f)))
         IN  /\ Len(m) < Upto(f, k) => Len(x) < Upto(f, k + 1)
             /\ m = SubSeq(ManifestOf(f), 1, Upto(f, k)) =>
                  /\ x = SubSeq(ManifestOf(f), 1, Upto(f, k + 1))
                  /\ Len(x) = Upto(f, k + 1)
<1> DEFINE M == ManifestOf(f)
           u == Upto(f, k)
           v == Upto(f, k + 1)
           b == Reply(p, f)[k + 1].bytes
<1>1. /\ Len(M) \in Nat /\ M \in Seq(ManifestByte) /\ Parts(f) \in Nat
      /\ k + 1 \in 2 .. Parts(f) /\ k + 1 \in 1 .. Parts(f) /\ k + 1 - 1 = k
  BY FileType, PartsAdd
<1>2. u \in 0 .. Len(M) /\ v \in 0 .. Len(M) /\ u < v
  <2>1. Upto(f, k + 1 - 1) < v
    BY <1>1, PartsAdd
  <2>2. u \in 0 .. Len(M) /\ v \in 0 .. Len(M)
    BY <1>1, PartsAdd
  <2> QED BY <1>1, <2>1, <2>2
<1>3. b = SubSeq(M, u + 1, v)
  <2> DEFINE y == SubSeq(M, Upto(f, k + 1 - 1) + 1, v)
  <2>1. Reply(p, f)[k + 1] = ChunkPacket(p, y)
    BY <1>1, ReplyParts
  <2> HIDE DEF y
  <2>2. b = y
    <3>1. ChunkPacket(p, y).bytes = y
      BY ChunkBytes
    <3> QED BY <2>1, <3>1, Zenon
  <2> QED BY <1>1, <2>2 DEF y
<1>4. Len(m) < Len(M) /\ Len(m) <= u
  OBVIOUS
<1> HIDE DEF M, u, v, b
<1>5. LET x == Taken(m, SubSeq(M, u + 1, v), Len(M))
      IN  /\ Len(m) < u => Len(x) < v
          /\ m = SubSeq(M, 1, u) => x = SubSeq(M, 1, v) /\ Len(x) = v
  BY <1>1, <1>2, <1>4, TakeSlice
<1>6. LET x == Taken(m, b, Len(M))
      IN  /\ Len(m) < u => Len(x) < v
          /\ m = SubSeq(M, 1, u) => x = SubSeq(M, 1, v) /\ Len(x) = v
  BY <1>3, <1>5, Zenon
<1> QED BY <1>6 DEF M, u, v, b

\* One packet more of the manifest.
LEMMA Took ==
  ASSUME NEW p \in 0 .. (NPorts - 1), NEW h, h.nblocks \in Nat,
         NEW m \in Seq(ManifestByte), NEW n, NEW w, NEW j, NEW c, c # <<>>,
         Carries(c, n, w, j), Reads(p, h, m, n, w, j), Head(c).port = p,
         NEW need, need = h.nblocks * DigestLen
  PROVE  LET x == Taken(m, Head(c).bytes, need)
         IN  /\ Len(x) < need =>
                  \E v \in Seq(Packet), i \in Nat :
                    Carries(Tail(c), n, v, i) /\ Reads(p, h, x, n, v, i)
             /\ ~(Len(x) < need) =>
                  /\ Len(x) = need
                  /\ Poisoned(x) \/ \E f \in Files : h = Geometry(f) /\ x = ManifestOf(f)
<1> DEFINE b == Head(c).bytes
           x == Taken(m, b, need)
           Goal == /\ Len(x) < need =>
                        \E v \in Seq(Packet), i \in Nat :
                          Carries(Tail(c), n, v, i) /\ Reads(p, h, x, n, v, i)
                   /\ ~(Len(x) < need) =>
                        /\ Len(x) = need
                        /\ Poisoned(x) \/ \E f \in Files : h = Geometry(f) /\ x = ManifestOf(f)
<1>1. need \in Nat /\ Len(m) < need /\ Len(m) \in Nat
  BY DigestLenAssumption, LenProperties DEF Reads
<1>2. /\ w \in Seq(Packet) /\ Whole(w)
      /\ Len(w) > 0 /\ Head(c) = w[1]
      /\ Tail(w) \in Seq(Packet)
      /\ \/ j # 2 /\ \E i \in Nat : (j = 0 => i = 0) /\ Carries(Tail(c), n, Tail(w), i)
         \/ /\ j = 2 /\ n = 1 /\ Tail(Tail(w)) \in Seq(Packet)
            /\ Carries(Tail(c), n, Tail(Tail(w)), 0)
  BY CarriesTail
<1>3. w[1] \in Packet /\ b = w[1].bytes /\ b \in Seq(ManifestByte) /\ w[1].port = p
  <2>1. w[1] \in Packet
    BY <1>2, WholeHead
  <2>2. w[1].bytes \in Seq(ManifestByte)
    BY <2>1 DEF Packet
  <2> QED BY <1>2, <2>1, <2>2
<1> HIDE DEF b, x
<1>4. /\ x \in Seq(ManifestByte)
      /\ Len(x) = IF Len(b) > need - Len(m) THEN need ELSE Len(m) + Len(b)
      /\ Len(x) <= need
      /\ \A i \in 1 .. Len(m) : x[i] = m[i]
      /\ \A i \in 1 .. Len(b) : Len(m) + i <= need => x[Len(m) + i] = b[i]
  BY <1>1, <1>3, Taking DEF x
<1>5. Len(x) \in Nat /\ Len(b) \in Nat /\ Len(m) <= Len(x)
  <2>1. Len(x) \in Nat /\ Len(b) \in Nat
    BY <1>3, <1>4, LenProperties
  <2> QED BY <1>1, <1>4, <2>1
<1>6. ~(Len(x) < need) => Len(x) = need
  BY <1>1, <1>4, <1>5, SMTT(30)
<1>7. \E v \in Seq(Packet), i \in Nat : Carries(Tail(c), n, v, i)
  BY <1>2
<1>8. ASSUME Poisoned(x), Len(x) < need
      PROVE  \E v \in Seq(Packet), i \in Nat : Carries(Tail(c), n, v, i) /\ Reads(p, h, x, n, v, i)
  BY <1>7, <1>8 DEF Reads
<1>9. ASSUME Poisoned(m) PROVE Goal
  <2>1. PICK i \in 1 .. Len(m) : m[i][1] = <<>>
    BY <1>9 DEF Poisoned
  <2>2. i \in 1 .. Len(x) /\ x[i] = m[i]
    BY <1>1, <1>4, <1>5
  <2>3. Poisoned(x)
    BY <2>1, <2>2 DEF Poisoned
  <2> QED BY <1>6, <1>8, <2>3
<1>10. ASSUME NEW f \in Files, NEW k \in 1 .. Parts(f), h = Geometry(f), Rest(w, 0, p, f, k),
              k < Parts(f), m = SubSeq(ManifestOf(f), 1, Upto(f, k)) \/ Len(m) < Upto(f, k)
       PROVE  /\ need = Len(ManifestOf(f))
              /\ k + 1 \in 1 .. Parts(f) /\ Rest(Tail(w), 0, p, f, k + 1)
              /\ Parts(f) \in Nat
              /\ Upto(f, k + 1) \in 0 .. need
              /\ Len(m) < Upto(f, k) => Len(x) < Upto(f, k + 1)
              /\ m = SubSeq(ManifestOf(f), 1, Upto(f, k)) =>
                   /\ x = SubSeq(ManifestOf(f), 1, Upto(f, k + 1))
                   /\ Len(x) = Upto(f, k + 1)
  <2>1. need = Len(ManifestOf(f))
    <3>1. h.nblocks = NBlocks(f.size, BlockSize)
      BY <1>10 DEF Geometry
    <3> QED BY <3>1, FileType
  <2>2. /\ w[1] = Reply(p, f)[k + 1] /\ k + 1 \in 1 .. Parts(f)
        /\ Rest(Tail(w), 0, p, f, k + 1)
    BY <1>2, <1>10, RestStep
  <2>3. Parts(f) \in Nat /\ Upto(f, k) \in 0 .. need /\ Upto(f, k + 1) \in 0 .. need
    BY <2>1, <2>2, PartsAdd
  <2>4. Len(m) <= Upto(f, k)
    <3>1. m = SubSeq(ManifestOf(f), 1, Upto(f, k)) => Len(m) = Upto(f, k)
      <4>1. ManifestOf(f) \in Seq(ManifestByte)
        BY FileType
      <4> QED BY <2>1, <2>3, <4>1
    <3> QED BY <1>1, <1>10, <2>3, <3>1
  <2>5. /\ Len(m) < Upto(f, k) => Len(x) < Upto(f, k + 1)
        /\ m = SubSeq(ManifestOf(f), 1, Upto(f, k)) =>
             /\ x = SubSeq(ManifestOf(f), 1, Upto(f, k + 1))
             /\ Len(x) = Upto(f, k + 1)
    <3>1. b = Reply(p, f)[k + 1].bytes
      BY <1>3, <2>2
    <3>2. x = Taken(m, Reply(p, f)[k + 1].bytes, Len(ManifestOf(f)))
      BY <2>1, <3>1, Zenon DEF x
    <3>3. Len(m) < Len(ManifestOf(f))
      BY <1>1, <2>1
    <3>4. LET y == Taken(m, Reply(p, f)[k + 1].bytes, Len(ManifestOf(f)))
          IN  /\ Len(m) < Upto(f, k) => Len(y) < Upto(f, k + 1)
              /\ m = SubSeq(ManifestOf(f), 1, Upto(f, k)) =>
                   /\ y = SubSeq(ManifestOf(f), 1, Upto(f, k + 1))
                   /\ Len(y) = Upto(f, k + 1)
      BY <1>10, <2>4, <3>3, TakePart
    <3> QED BY <3>2, <3>4, Zenon
  <2> QED BY <2>1, <2>2, <2>3, <2>5
<1>11. ASSUME NEW f \in Files, NEW k \in 1 .. Parts(f), h = Geometry(f), Rest(w, 0, p, f, k),
              k < Parts(f), m = SubSeq(ManifestOf(f), 1, Upto(f, k))
       PROVE  /\ Len(x) < need =>
                   \E v \in Seq(Packet), i \in Nat :
                     Carries(Tail(c), n, v, i) /\ Reads(p, h, x, n, v, i)
              /\ ~(Len(x) < need) => h = Geometry(f) /\ x = ManifestOf(f)
  <2>1. /\ need = Len(ManifestOf(f))
        /\ k + 1 \in 1 .. Parts(f) /\ Rest(Tail(w), 0, p, f, k + 1)
        /\ Parts(f) \in Nat
        /\ Upto(f, k + 1) \in 0 .. need
        /\ x = SubSeq(ManifestOf(f), 1, Upto(f, k + 1))
        /\ Len(x) = Upto(f, k + 1)
    BY <1>10, <1>11
  <2>2. CASE ~(k + 1 < Parts(f))
    <3>1. k + 1 = Parts(f)
      BY <2>1, <2>2
    <3>2. Upto(f, k + 1) = need
      BY <2>1, <3>1, PartsAdd
    <3>3. x = ManifestOf(f)
      <4> DEFINE M == ManifestOf(f)
      <4>1. M \in Seq(ManifestByte) /\ x = SubSeq(M, 1, Len(M))
        BY <2>1, <3>2, FileType
      <4> HIDE DEF M
      <4>2. \A i \in 1 .. Len(M) : M[i] \in ManifestByte
        BY <4>1, ElementOfSeq
      <4>3. SubSeq(M, 1, Len(M)) = M
        BY <4>1, <4>2
      <4> QED BY <4>1, <4>3 DEF M
    <3>4. ~(Len(x) < need)
      BY <1>1, <2>1, <3>2
    <3> QED BY <1>11, <3>3, <3>4
  <2>3. CASE k + 1 < Parts(f)
    <3>1. /\ k + 2 \in 2 .. Parts(f) /\ k + 2 \in 1 .. Parts(f) /\ k + 2 - 1 = k + 1
          /\ k + 1 + 1 = k + 2
      BY <2>1, <2>3
    <3>2. Upto(f, k + 1) < Upto(f, k + 2) /\ Upto(f, k + 2) \in 0 .. need
      <4>1. Upto(f, k + 2 - 1) < Upto(f, k + 2) /\ Upto(f, k + 2) \in 0 .. need
        BY <2>1, <3>1, PartsAdd
      <4> QED BY <3>1, <4>1
    <3>3. Len(x) < need
      BY <1>1, <2>1, <3>2
    <3>4. CASE j # 2
      <4>1. PICK i \in Nat : Carries(Tail(c), n, Tail(w), i)
        BY <1>2, <3>4
      <4>2. Reads(p, h, x, n, Tail(w), i)
        BY <1>11, <2>1, <2>3, <3>3 DEF Reads
      <4> QED BY <1>2, <3>3, <4>1, <4>2
    <3>5. CASE j = 2
      <4>1. n = 1 /\ Tail(Tail(w)) \in Seq(Packet) /\ Carries(Tail(c), n, Tail(Tail(w)), 0)
        BY <1>2, <3>5
      <4>2. Rest(Tail(Tail(w)), 0, p, f, k + 2)
        <5> DEFINE t == Tail(w)
                   l == k + 1
        <5>1. t \in Seq(Packet) /\ Rest(t, 0, p, f, l) /\ l \in 1 .. Parts(f) /\ l < Parts(f)
          BY <1>2, <2>1, <2>3
        <5> HIDE DEF t, l
        <5>2. Rest(Tail(t), 0, p, f, l + 1)
          BY <5>1, RestStep
        <5> QED BY <3>1, <5>2 DEF t, l
      <4>3. Len(x) < Upto(f, k + 2)
        BY <2>1, <3>2
      <4>4. Reads(p, h, x, n, Tail(Tail(w)), 0)
        BY <1>11, <3>1, <3>3, <4>1, <4>2, <4>3 DEF Reads
      <4> QED BY <3>3, <4>1, <4>4
    <3> QED BY <3>4, <3>5
  <2> QED BY <2>2, <2>3
<1>12. ASSUME NEW f \in Files, NEW k \in 1 .. Parts(f), h = Geometry(f), Rest(w, 0, p, f, k),
              k < Parts(f), j = 0, n = 1, Len(m) < Upto(f, k)
       PROVE  /\ Len(x) < need
              /\ \E v \in Seq(Packet), i \in Nat :
                   Carries(Tail(c), n, v, i) /\ Reads(p, h, x, n, v, i)
  <2>1. /\ k + 1 \in 1 .. Parts(f) /\ Rest(Tail(w), 0, p, f, k + 1)
        /\ Upto(f, k + 1) \in 0 .. need
        /\ Len(x) < Upto(f, k + 1)
    BY <1>10, <1>12
  <2>2. Len(x) < need
    BY <1>1, <1>5, <2>1
  <2>3. Carries(Tail(c), n, Tail(w), 0)
    BY <1>2, <1>12
  <2>4. Reads(p, h, x, n, Tail(w), 0)
    BY <1>12, <2>1, <2>2 DEF Reads
  <2> QED BY <1>2, <2>2, <2>3, <2>4
<1>13. ASSUME NEW f \in Files, Rest(w, 0, p, f, Parts(f))
       PROVE  Poisoned(x)
  <2>1. w[1].magic
    <3>1. Parts(f) \in Nat /\ Len(w) \in Nat
      BY <1>2, PartsAdd, LenProperties
    <3>2. 0 + Parts(f) - Parts(f) + 1 = 1 /\ 1 <= Len(w)
      BY <1>2, <3>1
    <3>3. 0 + Parts(f) - Parts(f) + 1 <= Len(w) =>
             \/ w[0 + Parts(f) - Parts(f) + 1].magic
             \/ w[0 + Parts(f) - Parts(f) + 1].port # p
      BY <1>13 DEF Rest
    <3> QED BY <1>3, <3>2, <3>3
  <2>2. PICK g \in Files : w[1] = Reply(p, g)[1]
    BY <1>2, <1>3, <2>1, WholeHead
  <2>3. w[1] = HeaderPacket(p, g)
    BY <2>2, ReplyParts
  <2>4. b = [i \in 1 .. HdrLen |-> << <<>>, i >>]
    <3>1. HeaderPacket(p, g).bytes = [i \in 1 .. HdrLen |-> << <<>>, i >>]
      BY HeaderBytes
    <3> QED BY <1>3, <2>3, <3>1, Zenon
  <2>5. HdrLen \in Nat \ {0}
    BY SizesAssumption
  <2>6. Len(b) = HdrLen /\ b[1] = << <<>>, 1 >>
    BY <2>4, <2>5
  <2>7. 1 \in 1 .. Len(b) /\ Len(m) + 1 <= need
    BY <1>1, <2>5, <2>6
  <2>8. x[Len(m) + 1] = b[1]
    BY <1>4, <2>7
  <2>9. Len(m) + 1 \in 1 .. Len(x)
    BY <1>1, <1>4, <1>5, <2>7
  <2>10. x[Len(m) + 1][1] = <<>>
    BY <2>6, <2>8
  <2> QED BY <2>9, <2>10 DEF Poisoned
<1>14. ASSUME ~Poisoned(m) PROVE Goal
  <2>1. PICK f \in Files : \E k \in 1 .. Parts(f) :
          /\ h = Geometry(f)
          /\ Rest(w, 0, p, f, k)
          /\ \/ k < Parts(f) /\ m = SubSeq(ManifestOf(f), 1, Upto(f, k))
             \/ j = 0 /\ n = 1 /\ Len(m) < Upto(f, k)
    BY <1>14 DEF Reads
  <2>2. PICK k \in 1 .. Parts(f) :
          /\ h = Geometry(f)
          /\ Rest(w, 0, p, f, k)
          /\ \/ k < Parts(f) /\ m = SubSeq(ManifestOf(f), 1, Upto(f, k))
             \/ j = 0 /\ n = 1 /\ Len(m) < Upto(f, k)
    BY <2>1
  <2>3. CASE k < Parts(f) /\ m = SubSeq(ManifestOf(f), 1, Upto(f, k))
    BY <1>6, <1>11, <2>2, <2>3
  <2>4. CASE j = 0 /\ n = 1 /\ Len(m) < Upto(f, k) /\ k < Parts(f)
    BY <1>12, <2>2, <2>4
  <2>5. CASE ~(k < Parts(f))
    <3>1. k = Parts(f)
      BY <2>5, PartsAdd
    <3>2. Poisoned(x)
      BY <1>13, <2>2, <3>1
    <3> QED BY <1>6, <1>8, <3>2
  <2> QED BY <2>2, <2>3, <2>4, <2>5
<1>15. Goal
  BY <1>9, <1>14
<1> QED BY <1>15 DEF x, b

\* A step that leaves the control channel alone, and the exchange too unless it ends
\* it: one fault more changes nothing.
LEMMA SoundKeep ==
  ASSUME Sound, faults \in Nat, faults' \in {faults, faults + 1}, ctl' = ctl,
         pc' = "manifest" => pc = "manifest" /\ UNCHANGED <<port, hdr, man>>
  PROVE  Sound'
<1> SUFFICES ASSUME faults' <= 1
             PROVE  \E w \in Seq(Packet), j \in Nat :
                      /\ Carries(ctl', faults', w, j)
                      /\ pc' = "manifest" => Reads(port', hdr', man', faults', w, j)
  BY DEF Sound
<1>1. faults <= 1 /\ (faults' = faults \/ (faults = 0 /\ faults' = 1))
  OBVIOUS
<1>2. PICK w \in Seq(Packet), j \in Nat :
        /\ Carries(ctl, faults, w, j)
        /\ pc = "manifest" => Reads(port, hdr, man, faults, w, j)
  BY <1>1 DEF Sound
<1>3. Carries(ctl', faults', w, j)
  BY <1>1, <1>2 DEF Carries
<1>4. ASSUME pc' = "manifest" PROVE Reads(port', hdr', man', faults', w, j)
  <2>1. Reads(port, hdr, man, faults, w, j) /\ port' = port /\ hdr' = hdr /\ man' = man
    BY <1>2, <1>4
  <2>2. Reads(port, hdr, man, faults', w, j)
    BY <1>1, <2>1 DEF Reads
  <2> QED BY <2>1, <2>2
<1> QED BY <1>3, <1>4

LEMMA LockedKeep ==
  ASSUME Locked, faults \in Nat, faults' \in {faults, faults + 1}, live' = live,
         SameGeometry(recv, recv')
  PROVE  Locked'
<1>1. faults' <= 1 => faults <= 1
  OBVIOUS
<1>2. /\ recv'.total = recv.total /\ recv'.block = recv.block
      /\ recv'.nblocks = recv.nblocks /\ recv'.expected = recv.expected
  BY DEF SameGeometry
<1> QED BY <1>1, <1>2 DEF Locked

LEMMA LockedExchange ==
  ASSUME Locked, faults' = faults, NEW h, NEW m, ExchangeDone(h, m),
         faults <= 1 /\ NewOK(h.total, h.block, h.nblocks) =>
           \/ \E f \in Files : h = Geometry(f) /\ m = ManifestOf(f)
           \/ Len(m) = h.nblocks * DigestLen /\ Poisoned(m)
  PROVE  Locked'
<1>1. CASE live \/ ~NewOK(h.total, h.block, h.nblocks)
  <2>1. live' = live /\ recv' = recv
    BY <1>1 DEF ExchangeDone
  <2> QED BY <2>1 DEF Locked
<1>2. CASE ~live /\ NewOK(h.total, h.block, h.nblocks)
  <2>1. recv' = NewTracker(h.total, h.block, h.nblocks, m)
    BY <1>2 DEF ExchangeDone
  <2>2. /\ recv'.total = h.total /\ recv'.block = h.block
        /\ recv'.nblocks = h.nblocks /\ recv'.expected = m
    BY <2>1 DEF NewTracker
  <2>3. \A f \in Files : h = Geometry(f) => h.total = f.size /\ h.block = BlockSize
    BY DEF Geometry
  <2> QED BY <1>2, <2>2, <2>3 DEF Locked
<1> QED BY <1>1, <1>2

LEMMA SoundServe ==
  ASSUME Sound, IInv, ServeRequest
  PROVE  Sound'
<1> SUFFICES ASSUME faults <= 1
             PROVE  \E w \in Seq(Packet), j \in Nat :
                      /\ Carries(ctl', faults, w, j)
                      /\ pc = "manifest" => Reads(port, hdr, man, faults, w, j)
  BY DEF Sound, ServeRequest, client
<1> DEFINE q == Head(reqs).port
           r == Reply(q, served)
<1>1. q \in 0 .. (NPorts - 1) /\ served \in Files /\ ctl' = ctl \o r
  <2>1. Head(reqs) \in Request /\ served \in Files
    BY DEF ServeRequest, IInv, TypeOK
  <2> QED BY <2>1 DEF Request, ServeRequest
<1> HIDE DEF q
<1>2. r \in Seq(Packet)
  BY <1>1, ReplyType
<1>3. PICK w \in Seq(Packet), j \in Nat :
        /\ Carries(ctl, faults, w, j)
        /\ pc = "manifest" => Reads(port, hdr, man, faults, w, j)
  BY DEF Sound
<1>4. w \o r \in Seq(Packet) /\ Whole(w \o r)
  BY <1>1, <1>3, WholeConcat DEF Carries
<1>5. Carries(ctl', faults, w \o r, j)
  <2>1. CASE j = 0 /\ ctl = w
    BY <1>1, <1>4, <2>1 DEF Carries
  <2>2. CASE j \in 2 .. Len(w) /\ faults = 1 /\ ctl = Without(w, j)
    <3>1. j \in 1 .. Len(w)
      BY <2>2
    <3>2. j \in 1 .. Len(w \o r) /\ Without(w, j) \o r = Without(w \o r, j)
      <4> HIDE DEF r
      <4> QED BY <1>2, <3>1, WithoutConcat
    <3>3. j \in 2 .. Len(w \o r)
      BY <2>2, <3>2
    <3> HIDE DEF r
    <3> QED BY <1>1, <1>4, <2>2, <3>2, <3>3 DEF Carries
  <2> QED BY <1>3, <2>1, <2>2 DEF Carries
<1>6. ASSUME Reads(port, hdr, man, faults, w, j)
      PROVE  Reads(port, hdr, man, faults, w \o r, j)
  <2>1. ASSUME NEW f \in Files, NEW k \in 1 .. Parts(f), Rest(w, 0, port, f, k)
        PROVE  Rest(w \o r, 0, port, f, k)
    BY <1>1, <2>1, RestConcat
  <2> HIDE DEF r
  <2> QED BY <1>6, <2>1 DEF Reads
<1> HIDE DEF r
<1> QED BY <1>3, <1>4, <1>5, <1>6

LEMMA SoundRouterDrop ==
  ASSUME Sound, IInv, RouterDrop
  PROVE  Sound'
<1> SUFFICES ASSUME faults <= 1
             PROVE  \E w \in Seq(Packet), j \in Nat :
                      /\ Carries(Tail(ctl), faults, w, j)
                      /\ pc = "manifest" => Reads(port, hdr, man, faults, w, j)
  BY DEF Sound, RouterDrop, client
<1>0. port \in 0 .. (NPorts - 1)
  BY DEF IInv, TypeOK
<1>1. ctl # <<>> /\ (pc = "manifest" => Head(ctl).port # port)
  BY DEF RouterDrop, Readable
<1>2. PICK w \in Seq(Packet), j \in Nat :
        /\ Carries(ctl, faults, w, j)
        /\ pc = "manifest" => Reads(port, hdr, man, faults, w, j)
  BY DEF Sound
<1>3. /\ w \in Seq(Packet) /\ Whole(w)
      /\ Len(w) > 0 /\ Head(ctl) = w[1]
      /\ Tail(w) \in Seq(Packet)
      /\ \/ j # 2 /\ \E i \in Nat : (j = 0 => i = 0) /\ Carries(Tail(ctl), faults, Tail(w), i)
         \/ /\ j = 2 /\ faults = 1 /\ Tail(Tail(w)) \in Seq(Packet)
            /\ Carries(Tail(ctl), faults, Tail(Tail(w)), 0)
  BY <1>1, <1>2, CarriesTail
<1>4. CASE pc # "manifest"
  BY <1>3, <1>4
<1>5. CASE pc = "manifest" /\ Poisoned(man)
  <2>1. \A v, i : Reads(port, hdr, man, faults, v, i)
    BY <1>2, <1>5 DEF Reads
  <2> QED BY <1>3, <2>1
<1>6. CASE pc = "manifest" /\ ~Poisoned(man)
  <2>1. Reads(port, hdr, man, faults, w, j) /\ w[1].port # port
    BY <1>1, <1>2, <1>3, <1>6
  <2>2. PICK f \in Files : \E k \in 1 .. Parts(f) :
          /\ hdr = Geometry(f)
          /\ Rest(w, 0, port, f, k)
          /\ \/ k < Parts(f) /\ man = SubSeq(ManifestOf(f), 1, Upto(f, k))
             \/ j = 0 /\ faults = 1 /\ Len(man) < Upto(f, k)
    BY <1>6, <2>1 DEF Reads
  <2>3. PICK k \in 1 .. Parts(f) :
          /\ hdr = Geometry(f)
          /\ Rest(w, 0, port, f, k)
          /\ \/ k < Parts(f) /\ man = SubSeq(ManifestOf(f), 1, Upto(f, k))
             \/ j = 0 /\ faults = 1 /\ Len(man) < Upto(f, k)
    BY <2>2
  <2>4. k = Parts(f)
    <3>1. ASSUME k < Parts(f) PROVE FALSE
      <4>1. w[1] = Reply(port, f)[k + 1] /\ k + 1 \in 1 .. Parts(f)
        BY <1>3, <2>3, <3>1, RestStep
      <4> QED BY <2>1, <4>1, <1>0, ReplyMarks
    <3> QED BY <3>1, PartsAdd
  <2>5. j = 0 /\ faults = 1 /\ Len(man) < Upto(f, k)
    BY <2>3, <2>4, PartsAdd
  <2>6. Rest(Tail(w), 0, port, f, k)
    BY <1>3, <2>1, <2>3, <2>4, RestDrop
  <2>7. Reads(port, hdr, man, faults, Tail(w), 0)
    BY <2>1, <2>3, <2>5, <2>6 DEF Reads
  <2>8. Carries(Tail(ctl), faults, Tail(w), 0)
    <3>1. \E i \in Nat : (j = 0 => i = 0) /\ Carries(Tail(ctl), faults, Tail(w), i)
      BY <1>3, <2>5
    <3> QED BY <2>5, <3>1, Zenon
  <2> QED BY <1>3, <2>7, <2>8
<1> QED BY <1>4, <1>5, <1>6

LEMMA SoundLoseControl ==
  ASSUME Sound, IInv, LoseControl
  PROVE  Sound'
<1> SUFFICES ASSUME faults = 0, faults' = 1
             PROVE  \E w \in Seq(Packet), j \in Nat :
                      /\ Carries(ctl', 1, w, j)
                      /\ pc = "manifest" => Reads(port, hdr, man, 1, w, j)
  <2>1. faults' = faults + 1 /\ faults \in Nat /\ UNCHANGED <<pc, port, hdr, man>>
    BY DEF LoseControl, client, IInv, TypeOK
  <2> QED BY <2>1 DEF Sound
<1>1. PICK w \in Seq(Packet), j \in Nat :
        /\ Carries(ctl, 0, w, j)
        /\ pc = "manifest" => Reads(port, hdr, man, 0, w, j)
  BY DEF Sound
<1>2. j = 0 /\ ctl = w /\ Whole(w)
  BY <1>1 DEF Carries
<1>3. PICK i \in 1 .. Len(w) : ctl' = Without(w, i)
  BY <1>2 DEF LoseControl, Without
<1>4. Len(w) \in Nat /\ Len(w) > 0
  <2>1. Len(w) \in Nat
    BY LenProperties
  <2> QED BY <1>3, <2>1
<1>5. CASE i # 1
  <2>1. i \in 2 .. Len(w) /\ i \in Nat
    BY <1>3, <1>5
  <2>2. Carries(ctl', 1, w, i)
    BY <1>2, <1>3, <2>1 DEF Carries
  <2>3. pc = "manifest" => Reads(port, hdr, man, 1, w, i)
    BY <1>1 DEF Reads
  <2> QED BY <2>1, <2>2, <2>3
<1>6. CASE i = 1
  <2>1. Tail(w) \in Seq(Packet) /\ Whole(Tail(w))
    BY <1>2, <1>4, TailIs, WholeTail
  <2>2. Carries(ctl', 1, Tail(w), 0)
    <3>1. ctl' = Tail(w)
      BY <1>3, <1>4, <1>6, WithoutFirst
    <3> QED BY <2>1, <3>1 DEF Carries
  <2>3. ASSUME pc = "manifest" PROVE Reads(port, hdr, man, 1, Tail(w), 0)
    <3>1. Reads(port, hdr, man, 0, w, 0)
      BY <1>1, <1>2, <2>3
    <3>2. CASE Poisoned(man)
      BY <3>1, <3>2 DEF Reads
    <3>3. CASE ~Poisoned(man)
      <4>1. PICK f \in Files : \E k \in 1 .. Parts(f) :
              /\ hdr = Geometry(f)
              /\ Rest(w, 0, port, f, k)
              /\ k < Parts(f) /\ man = SubSeq(ManifestOf(f), 1, Upto(f, k))
        BY <3>1, <3>3 DEF Reads
      <4>2. PICK k \in 1 .. Parts(f) :
              /\ hdr = Geometry(f)
              /\ Rest(w, 0, port, f, k)
              /\ k < Parts(f) /\ man = SubSeq(ManifestOf(f), 1, Upto(f, k))
        BY <4>1
      <4>3. k + 1 \in 1 .. Parts(f) /\ Rest(Tail(w), 0, port, f, k + 1)
        BY <4>2, RestStep
      <4>4. Len(man) < Upto(f, k + 1)
        <5>1. Parts(f) \in Nat /\ Upto(f, k) \in 0 .. Len(ManifestOf(f)) /\ Len(ManifestOf(f)) \in Nat
          BY PartsAdd, FileType
        <5>2. k + 1 \in 2 .. Parts(f) /\ k + 1 - 1 = k
          BY <4>2, <5>1
        <5>3. Upto(f, k) < Upto(f, k + 1)
          <6>1. Upto(f, k + 1 - 1) < Upto(f, k + 1)
            BY <5>2, PartsAdd
          <6> QED BY <5>2, <6>1
        <5>4. Len(man) = Upto(f, k)
          <6> DEFINE M == ManifestOf(f)
                     u == Upto(f, k)
          <6>1. M \in Seq(ManifestByte) /\ u \in 0 .. Len(M) /\ man = SubSeq(M, 1, u)
            BY <4>2, <5>1, FileType
          <6> HIDE DEF M, u
          <6>2. Len(man) = u
            BY <6>1
          <6> QED BY <6>2 DEF u
        <5> QED BY <5>3, <5>4
      <4> QED BY <3>1, <4>2, <4>3, <4>4 DEF Reads
    <3> QED BY <3>2, <3>3
  <2> QED BY <2>1, <2>2, <2>3
<1> QED BY <1>5, <1>6

LEMMA SoundHeader ==
  ASSUME Sound, Locked, IInv, ReadHeader
  PROVE  Sound' /\ Locked'
<1>1. /\ pc = "header" /\ ctl # <<>> /\ Head(ctl).port = port /\ ctl' = Tail(ctl)
      /\ UNCHANGED <<port, faults>> /\ port \in 0 .. (NPorts - 1) /\ faults \in Nat
  BY DEF ReadHeader, Readable, IInv, TypeOK
<1>2. ASSUME faults <= 1
      PROVE  \E w, j : /\ Carries(ctl, faults, w, j)
                       /\ w \in Seq(Packet) /\ Whole(w)
                       /\ Len(w) > 0 /\ Head(ctl) = w[1]
                       /\ Tail(w) \in Seq(Packet)
                       /\ \/ j # 2 /\ \E i \in Nat : /\ j = 0 => i = 0
                                                     /\ Carries(Tail(ctl), faults, Tail(w), i)
                          \/ /\ j = 2 /\ faults = 1 /\ Tail(Tail(w)) \in Seq(Packet)
                             /\ Carries(Tail(ctl), faults, Tail(Tail(w)), 0)
  <2>1. PICK w \in Seq(Packet), j \in Nat : Carries(ctl, faults, w, j)
    BY <1>2 DEF Sound
  <2> QED BY <1>1, <2>1, CarriesTail
<1>3. CASE ~(Head(ctl).magic /\ Head(ctl).hdr.nblocks # 0)
  <2>1. pc' # "manifest"
    BY <1>3 DEF ReadHeader, AttemptFails, ExchangeDone
  <2>2. Sound'
    <3> SUFFICES ASSUME faults <= 1
                 PROVE  \E w \in Seq(Packet), j \in Nat : Carries(Tail(ctl), faults, w, j)
      BY <1>1, <2>1 DEF Sound
    <3> QED BY <1>2
  <2>3. Locked'
    <3>1. CASE Head(ctl).magic /\ Head(ctl).hdr.nblocks = 0
      <4>1. ExchangeDone(Head(ctl).hdr, <<>>)
        BY <3>1 DEF ReadHeader
      <4>2. ~NewOK(Head(ctl).hdr.total, Head(ctl).hdr.block, Head(ctl).hdr.nblocks)
        BY <3>1 DEF NewOK
      <4> QED BY <1>1, <4>1, <4>2, LockedExchange
    <3>2. CASE ~Head(ctl).magic
      <4>1. live' = live /\ recv' = recv
        BY <3>2 DEF ReadHeader, AttemptFails
      <4> QED BY <1>1, <4>1 DEF Locked
    <3> QED BY <1>3, <3>1, <3>2
  <2> QED BY <2>2, <2>3
<1>4. CASE Head(ctl).magic /\ Head(ctl).hdr.nblocks # 0
  <2>1. hdr' = Head(ctl).hdr /\ man' = <<>> /\ UNCHANGED <<live, recv>>
    BY <1>4 DEF ReadHeader
  <2>2. Locked'
    BY <1>1, <2>1 DEF Locked
  <2>3. ASSUME faults <= 1
        PROVE  \E w \in Seq(Packet), j \in Nat :
                 /\ Carries(Tail(ctl), faults, w, j)
                 /\ Reads(port, Head(ctl).hdr, <<>>, faults, w, j)
    <3>1. PICK w, j : /\ Carries(ctl, faults, w, j)
                      /\ w \in Seq(Packet) /\ Whole(w)
                      /\ Len(w) > 0 /\ Head(ctl) = w[1]
                      /\ Tail(w) \in Seq(Packet)
                      /\ \/ j # 2 /\ \E i \in Nat : /\ j = 0 => i = 0
                                                    /\ Carries(Tail(ctl), faults, Tail(w), i)
                         \/ /\ j = 2 /\ faults = 1 /\ Tail(Tail(w)) \in Seq(Packet)
                            /\ Carries(Tail(ctl), faults, Tail(Tail(w)), 0)
      BY <1>2, <2>3
    <3>2. PICK f \in Files : \E k \in 1 .. Parts(f) :
            /\ w[1] = Reply(port, f)[k]
            /\ w[1].magic <=> k = 1
            /\ Rest(Tail(w), 0, port, f, k)
      <4>1. w[1].port = port
        BY <1>1, <3>1
      <4>2. \E f \in Files : \E k \in 1 .. Parts(f) :
              /\ w[1] = Reply(w[1].port, f)[k]
              /\ w[1].magic <=> k = 1
              /\ Rest(Tail(w), 0, w[1].port, f, k)
        BY <3>1, WholeHead
      <4> QED BY <4>1, <4>2
    <3>3. /\ 1 \in 1 .. Parts(f) /\ w[1] = HeaderPacket(port, f)
          /\ Rest(Tail(w), 0, port, f, 1)
      <4>1. w[1].magic
        BY <1>4, <3>1
      <4> QED BY <1>1, <3>2, <4>1, ReplyParts
    <3>4. Head(ctl).hdr = Geometry(f)
      <4>1. HeaderPacket(port, f).hdr = Geometry(f)
        BY HeaderBytes
      <4> QED BY <3>1, <3>3, <4>1, Zenon
    <3>5. /\ Geometry(f).nblocks # 0 /\ Geometry(f).nblocks = NBlocks(f.size, BlockSize)
      BY <1>4, <3>4 DEF Geometry
    <3> DEFINE h == Geometry(f)
    <3>6. Len(<<>>) < h.nblocks * DigestLen /\ Len(ManifestOf(f)) = h.nblocks * DigestLen
      <4>1. h.nblocks \in Nat \ {0} /\ DigestLen \in Nat \ {0}
        BY <3>5, FileType, DigestLenAssumption
      <4>2. Len(ManifestOf(f)) = h.nblocks * DigestLen
        BY <3>5, FileType
      <4> HIDE DEF h
      <4>3. 0 < h.nblocks * DigestLen
        BY <4>1
      <4> QED BY <4>2, <4>3
    <3>7. Parts(f) \in Nat \ {0} /\ 1 < Parts(f) /\ Upto(f, 1) = 0
      BY <3>6, PartsAdd
    <3>8. <<>> = SubSeq(ManifestOf(f), 1, Upto(f, 1))
      <4> DEFINE M == ManifestOf(f)
      <4>1. M \in Seq(ManifestByte)
        BY FileType
      <4> HIDE DEF M
      <4>2. SubSeq(M, 1, 0) = <<>>
        BY <4>1
      <4> QED BY <3>7, <4>2 DEF M
    <3> HIDE DEF h
    <3>9. CASE j # 2
      <4>1. PICK i \in Nat : Carries(Tail(ctl), faults, Tail(w), i)
        BY <3>1, <3>9
      <4>2. Reads(port, h, <<>>, faults, Tail(w), i)
        BY <3>3, <3>6, <3>7, <3>8 DEF Reads, h
      <4> QED BY <3>1, <3>4, <4>1, <4>2 DEF h
    <3>10. CASE j = 2
      <4>1. /\ faults = 1 /\ Tail(Tail(w)) \in Seq(Packet)
            /\ Carries(Tail(ctl), faults, Tail(Tail(w)), 0)
        BY <3>1, <3>10
      <4>2. 2 \in 1 .. Parts(f) /\ Rest(Tail(Tail(w)), 0, port, f, 2)
        <5> DEFINE t == Tail(w)
        <5>1. t \in Seq(Packet) /\ Rest(t, 0, port, f, 1)
          BY <3>1, <3>3
        <5> HIDE DEF t
        <5>2. 1 + 1 \in 1 .. Parts(f) /\ Rest(Tail(t), 0, port, f, 1 + 1)
          BY <3>3, <3>7, <5>1, RestStep
        <5>3. 1 + 1 = 2
          OBVIOUS
        <5> QED BY <5>2, <5>3 DEF t
      <4>3. Len(<<>>) < Upto(f, 2)
        <5>1. 2 \in 2 .. Parts(f)
          BY <3>7
        <5>2. Upto(f, 2 - 1) < Upto(f, 2)
          BY <5>1, PartsAdd
        <5>3. 2 - 1 = 1
          OBVIOUS
        <5> QED BY <3>7, <5>2, <5>3
      <4>4. Reads(port, h, <<>>, faults, Tail(Tail(w)), 0)
        BY <3>6, <4>1, <4>2, <4>3 DEF Reads, h
      <4> QED BY <3>4, <4>1, <4>4 DEF h
    <3> QED BY <3>9, <3>10
  <2>4. Sound'
    BY <1>1, <2>1, <2>3 DEF Sound
  <2> QED BY <2>2, <2>4
<1> QED BY <1>3, <1>4

LEMMA SoundManifest ==
  ASSUME Sound, Locked, IInv, ReadManifest
  PROVE  Sound' /\ Locked'
<1> DEFINE need == hdr.nblocks * DigestLen
           x == Taken(man, Head(ctl).bytes, need)
<1>1. /\ pc = "manifest" /\ ctl # <<>> /\ Head(ctl).port = port /\ ctl' = Tail(ctl)
      /\ UNCHANGED <<port, hdr, faults>>
      /\ port \in 0 .. (NPorts - 1) /\ hdr.nblocks \in Nat /\ man \in Seq(ManifestByte)
  BY DEF ReadManifest, Readable, IInv, TypeOK, Header
<1>2. man' = x
  BY DEF ReadManifest, TakeBytes, Taken
<1>3. IF Len(x) < need THEN UNCHANGED <<pc, live, recv, result>> ELSE ExchangeDone(hdr, x)
  BY <1>2 DEF ReadManifest
<1>4. ASSUME faults <= 1
      PROVE  /\ Len(x) < need =>
                  \E v \in Seq(Packet), i \in Nat :
                    Carries(Tail(ctl), faults, v, i) /\ Reads(port, hdr, x, faults, v, i)
             /\ ~(Len(x) < need) =>
                  /\ Len(x) = need
                  /\ Poisoned(x) \/ \E f \in Files : hdr = Geometry(f) /\ x = ManifestOf(f)
  <2>1. PICK w \in Seq(Packet), j \in Nat :
          Carries(ctl, faults, w, j) /\ Reads(port, hdr, man, faults, w, j)
    BY <1>1, <1>4 DEF Sound
  <2> QED BY <1>1, <2>1, Took, SMTT(30)
<1> HIDE DEF x
<1>5. Sound'
  <2> SUFFICES ASSUME faults <= 1
               PROVE  \E w \in Seq(Packet), j \in Nat :
                        /\ Carries(Tail(ctl), faults, w, j)
                        /\ pc' = "manifest" => Reads(port, hdr, x, faults, w, j)
    BY <1>1, <1>2 DEF Sound
  <2>1. CASE Len(x) < need
    BY <1>4, <2>1
  <2>2. CASE ~(Len(x) < need)
    <3>1. pc' # "manifest"
      BY <1>3, <2>2 DEF ExchangeDone
    <3>2. PICK w \in Seq(Packet), j \in Nat : Carries(ctl, faults, w, j)
      BY DEF Sound
    <3>3. \E v \in Seq(Packet), i \in Nat : Carries(Tail(ctl), faults, v, i)
      <4>1. /\ Tail(w) \in Seq(Packet)
            /\ \/ j # 2 /\ \E i \in Nat : /\ j = 0 => i = 0
                                          /\ Carries(Tail(ctl), faults, Tail(w), i)
               \/ /\ j = 2 /\ faults = 1 /\ Tail(Tail(w)) \in Seq(Packet)
                  /\ Carries(Tail(ctl), faults, Tail(Tail(w)), 0)
        BY <1>1, <3>2, CarriesTail
      <4> QED BY <4>1
    <3> QED BY <3>1, <3>3
  <2> QED BY <2>1, <2>2
<1>6. Locked'
  <2>1. CASE Len(x) < need
    <3>1. live' = live /\ recv' = recv
      BY <1>3, <2>1
    <3> QED BY <1>1, <3>1 DEF Locked
  <2>2. CASE ~(Len(x) < need)
    <3>1. ExchangeDone(hdr, x)
      BY <1>3, <2>2
    <3>2. faults <= 1 => \/ \E f \in Files : hdr = Geometry(f) /\ x = ManifestOf(f)
                         \/ Len(x) = hdr.nblocks * DigestLen /\ Poisoned(x)
      BY <1>4, <2>2
    <3> QED BY <1>1, <3>1, <3>2, LockedExchange
  <2> QED BY <2>1, <2>2
<1> QED BY <1>5, <1>6

LEMMA SoundInit == Init => Sound /\ Locked
<1> SUFFICES ASSUME Init PROVE Sound /\ Locked
  OBVIOUS
<1>1. ctl = <<>> /\ pc = "request" /\ live = FALSE
  BY DEF Init
<1>2. <<>> \in Seq(Packet) /\ Len(<<>>) = 0
  BY EmptySeq
<1>3. Whole(<<>>)
  BY DEF Whole
<1>4. Carries(ctl, faults, <<>>, 0)
  BY <1>1, <1>2, <1>3 DEF Carries
<1> QED BY <1>1, <1>2, <1>4 DEF Sound, Locked

LEMMA SoundNext == Sound /\ Locked /\ IInv /\ [Next]_vars => Sound' /\ Locked'
<1> SUFFICES ASSUME Sound, Locked, IInv, [Next]_vars PROVE Sound' /\ Locked'
  OBVIOUS
<1>1. faults \in Nat
  BY DEF IInv, TypeOK
<1>2. SameGeometry(recv, recv)
  BY DEF SameGeometry
<1>3. CASE ServeRequest \/ RouterDrop \/ LoseControl
  <2>1. Sound'
    BY <1>3, SoundServe, SoundRouterDrop, SoundLoseControl
  <2>2. faults' \in {faults, faults + 1} /\ live' = live /\ recv' = recv
    BY <1>3 DEF ServeRequest, RouterDrop, LoseControl, client
  <2> QED BY <1>1, <1>2, <2>1, <2>2, LockedKeep
<1>4. CASE ReadHeader \/ ReadManifest
  BY <1>4, SoundHeader, SoundManifest
<1>5. CASE ServeStop \/ ServeStart \/ LoseRequest \/ LoseData \/ UNCHANGED vars
  <2>1. /\ faults' \in {faults, faults + 1} /\ live' = live /\ recv' = recv
        /\ UNCHANGED <<ctl, pc, port, hdr, man>>
    BY <1>5 DEF ServeStop, ServeStart, LoseRequest, LoseData, vars, client
  <2> QED BY <1>1, <1>2, <2>1, SoundKeep, LockedKeep
<1>6. CASE SendRequest \/ ConnectFails \/ ReadTimeout
  <2>1. /\ faults' \in {faults, faults + 1} /\ live' = live /\ recv' = recv
        /\ ctl' = ctl /\ pc' # "manifest"
    BY <1>6 DEF SendRequest, ConnectFails, ReadTimeout, AttemptFails, client
  <2> QED BY <1>1, <1>2, <2>1, SoundKeep, LockedKeep
<1>7. CASE DrainIdle \/ OpenFails \/ WriteFile
  <2>1. /\ faults' = faults /\ live' = live /\ recv' = recv
        /\ ctl' = ctl /\ pc' # "manifest"
    BY <1>7 DEF DrainIdle, OpenFails, WriteFile
  <2> QED BY <1>1, <1>2, <2>1, SoundKeep, LockedKeep
<1>8. CASE \E f \in wire : ReceiveData(f) \/ ReceiveDuplicate(f) \/ ReceiveDamaged(f)
  <2>1. /\ faults' \in {faults, faults + 1} /\ live' = live
        /\ ctl' = ctl /\ pc' # "manifest"
    BY <1>8 DEF ReceiveData, ReceiveDuplicate, ReceiveDamaged
  <2>2. PICK o, b : recv' = Accept(recv, o, b)
    BY <1>8 DEF ReceiveData, ReceiveDuplicate, ReceiveDamaged
  <2>3. SameGeometry(recv, recv')
    BY <2>2 DEF Accept, SameGeometry
  <2> QED BY <1>1, <2>1, <2>3, SoundKeep, LockedKeep
<1> QED BY <1>3, <1>4, <1>5, <1>6, <1>7, <1>8, Zenon DEF Next, ClientStep, Terminated

\* No block that has a byte hashes to what a header byte stands for.
LEMMA NotPoisoned ==
  ASSUME IInv, pc = "write" \/ result = "ok"
  PROVE  ~(Len(recv.expected) = recv.nblocks * DigestLen /\ Poisoned(recv.expected))
<1>0. SUFFICES ASSUME Len(recv.expected) = recv.nblocks * DigestLen, Poisoned(recv.expected)
               PROVE  FALSE
  OBVIOUS
<1> DEFINE n == recv.nblocks
           D == DigestLen
<1>1. /\ n = NBlocks(recv.total, recv.block) /\ n \in Nat \ {0}
      /\ recv.total \in 0 .. (Word - 1) /\ recv.block \in 1 .. (Word - 1)
      /\ recv.total \in Nat /\ recv.block \in Nat \ {0} /\ D \in Nat \ {0}
  <2>1. live /\ recv.block \in 1 .. (Word - 1) /\ NBlocks(recv.total, recv.block) \in Nat \ {0}
    BY VerifiedDigests
  <2>2. n = NBlocks(recv.total, recv.block)
    BY <2>1 DEF IInv, Control, NewOK
  <2>3. recv.total \in 0 .. (Word - 1)
    BY DEF IInv, TypeOK, TrackerOK
  <2> QED BY <2>1, <2>2, <2>3, WordAssumption, DigestLenAssumption
<1>2. PICK j \in 1 .. (n * D) : recv.expected[j][1] = <<>>
  BY <1>0 DEF Poisoned
<1> DEFINE b == (j - 1) \div D
           r == (j - 1) % D
<1>3. j \in 1 .. (n * D)
  OBVIOUS
<1> HIDE DEF n, D
<1>4. j - 1 \in Nat /\ j - 1 < n * D /\ n * D \in Nat
  BY <1>1, <1>3
<1>5. b \in Nat /\ r \in 0 .. (D - 1) /\ j - 1 = D * b + r
  BY <1>1, <1>4, DivMod
<1> HIDE DEF b, r
<1>6. b \in 0 .. (n - 1)
  <2>1. SUFFICES ASSUME b >= n PROVE FALSE
    BY <1>1, <1>5
  <2>2. D * b >= n * D
    BY <1>1, <1>5, <2>1
  <2>3. D * b \in Nat
    BY <1>1, <1>5
  <2> QED BY <1>1, <1>4, <1>5, <2>2, <2>3
<1>7. PICK k \in 1 .. D : j = b * D + k
  <2>1. D * b = b * D /\ b * D \in Nat
    BY <1>1, <1>5
  <2>2. j = b * D + (r + 1) /\ r + 1 \in 1 .. D
    BY <1>1, <1>3, <1>5, <2>1
  <2> QED BY <2>2
<1> DEFINE h == HashBlock(recv.data, recv.total, recv.block, b)
<1>8. recv.expected[j] = << h, k - 1 >>
  <2>1. \A e \in 0 .. (NBlocks(recv.total, recv.block) - 1), i \in 1 .. DigestLen :
          recv.expected[e * DigestLen + i] =
            << HashBlock(recv.data, recv.total, recv.block, e), i - 1 >>
    BY VerifiedDigests
  <2>2. \A e \in 0 .. (n - 1), i \in 1 .. D :
          recv.expected[e * D + i] =
            << HashBlock(recv.data, recv.total, recv.block, e), i - 1 >>
    BY <1>1, <2>1, Zenon DEF D
  <2>3. recv.expected[b * D + k] = << h, k - 1 >>
    BY <1>6, <2>2
  <2> QED BY <1>7, <2>3, Zenon
<1>9. h = <<>>
  <2> HIDE DEF h
  <2> QED BY <1>2, <1>8
<1>10. BlockEnd(b, recv.block, recv.total) - BlockStart(b, recv.block) \in Nat \ {0}
  <2>1. (n - 1) * recv.block < recv.total
    <3>1. NBlocks(recv.total, recv.block) # 0
      BY <1>1
    <3>2. (NBlocks(recv.total, recv.block) - 1) * recv.block < recv.total
      BY <1>1, <3>1, NBlocksExact
    <3> QED BY <1>1, <3>2
  <2> DEFINE z == recv.block
             t == recv.total
  <2>2. z \in Nat \ {0} /\ t \in Nat /\ (n - 1) * z < t
    BY <1>1, <2>1
  <2> HIDE DEF z, t
  <2>3. b * z <= (n - 1) * z /\ b * z \in Nat /\ (b + 1) * z = b * z + z /\ (n - 1) * z \in Nat
    <3>1. b \in Nat /\ n - 1 \in Nat /\ b <= n - 1
      BY <1>1, <1>5, <1>6
    <3> DEFINE m == n - 1
    <3>2. m \in Nat /\ b <= m
      BY <3>1
    <3> HIDE DEF m
    <3>3. b * z <= m * z /\ b * z \in Nat /\ (b + 1) * z = b * z + z /\ m * z \in Nat
      BY <2>2, <3>1, <3>2
    <3> QED BY <3>3 DEF m
  <2>4. BlockEnd(b, z, t) - BlockStart(b, z) \in Nat \ {0}
    BY <2>2, <2>3 DEF BlockEnd, BlockStart
  <2> QED BY <2>4 DEF z, t
<1>11. Len(h) \in Nat \ {0}
  <2> DEFINE l == BlockEnd(b, recv.block, recv.total) - BlockStart(b, recv.block)
  <2>1. h = [i \in 1 .. l |-> recv.data[BlockStart(b, recv.block) + i - 1]]
    BY DEF HashBlock
  <2>2. l \in Nat \ {0}
    BY <1>10
  <2> HIDE DEF l, h
  <2> QED BY <2>1, <2>2
<1> QED BY <1>9, <1>11

LEMMA SoundMeansServed == IInv /\ Locked => VerifiedIsServed
<1> SUFFICES ASSUME IInv, Locked, faults <= 1, pc = "write" \/ result = "ok"
             PROVE  \E f \in Files : recv.total = f.size /\ recv.data = f.bytes
  BY DEF VerifiedIsServed
<1>1. live
  BY VerifiedDigests
<1>2. ~(Len(recv.expected) = recv.nblocks * DigestLen /\ Poisoned(recv.expected))
  BY NotPoisoned
<1>3. PICK f \in Files : /\ recv.total = f.size
                         /\ recv.block = BlockSize
                         /\ recv.expected = ManifestOf(f)
  BY <1>1, <1>2 DEF Locked
<1>4. recv.data = f.bytes
  BY <1>3, VerifiedMeansPromised DEF VerifiedIsPromised, ManifestOf
<1> QED BY <1>3, <1>4

\* For every set of payloads, chunk length, port rotation and restart: with one link
\* fault at most, svu_client_run reaches its fopen only with the bytes of one file
\* the server was started on.  A lost control packet either leaves the exchange short
\* or lets a header in, whose bytes no block hashes to.
THEOREM OneFaultSafety == Spec => []VerifiedIsServed
  BY SoundInit, SoundNext, SoundMeansServed, Invariance, PTL DEF Spec

-----------------------------------------------------------------------------
(* What is left to repair.                                                 *)

Span(g) == g.off .. (g.off + Len(g.buf) - 1)

Offs(w) == {g.off : g \in w}

\* Uncovered bytes that cost a round: the start of a packet that was asked for and
\* is under way no longer, or the start of a hole.
Cells(s, f, B, w) ==
  {x \in (0 .. (f.size - 1)) \ s.covered :
     IF w # {} /\ x \in Offs(B) THEN x \notin Offs(w)
                                ELSE x = 0 \/ x - 1 \in s.covered}

\* A packet under way will put byte i right, and touches nothing but its block.
Fixed(s, w, i) ==
  \E g \in w : /\ i \in Span(g) /\ Span(g) \subseteq s.covered
               /\ \A j \in Span(g) : j \div BlockSize = i \div BlockSize

Wrong(s, f, w) ==
  {i \in s.covered : s.data[i] # f.bytes[i] /\ ~Fixed(s, w, i)}

\* A bad block as a number no byte has.
BlockMark(i) == -1 - (i \div BlockSize)

\* What is left to repair of file f in tracker s, of the packets B asked for w being
\* under way.
Need(s, f, B, w) == Cells(s, f, B, w) \cup {BlockMark(i) : i \in Wrong(s, f, w)}

\* The tracker's covered bytes lie in the file.
Within(s, f) == s.covered \subseteq 0 .. (f.size - 1)

LEMMA QuotientBelow ==
  ASSUME NEW i \in Nat, NEW d \in Nat \ {0}
  PROVE  i \div d \in Nat /\ i \div d <= i
<1> DEFINE q == i \div d
<1>1. q \in Nat /\ i % d \in Nat /\ i = d * q + (i % d)
  BY DivMod
<1> HIDE DEF q
<1>2. d * q = q + (d - 1) * q /\ (d - 1) * q \in Nat
  BY <1>1
<1>3. q <= i
  BY <1>1, <1>2
<1> QED BY <1>1, <1>3 DEF q

LEMMA MarkType ==
  ASSUME NEW n \in Nat, NEW i \in 0 .. (n - 1)
  PROVE  BlockMark(i) \in (-n) .. (-1)
<1>1. BlockSize \in Nat \ {0} /\ i \in Nat
  BY SizesAssumption, WordAssumption
<1>2. i \div BlockSize \in Nat /\ i \div BlockSize <= i
  BY <1>1, QuotientBelow
<1> QED BY <1>2 DEF BlockMark

LEMMA NeedFinite ==
  ASSUME NEW f \in Files, NEW s, Within(s, f), NEW B, NEW w
  PROVE  /\ Need(s, f, B, w) \subseteq (-f.size) .. f.size
         /\ IsFiniteSet(Need(s, f, B, w))
         /\ Cardinality(Need(s, f, B, w)) \in Nat
<1>1. f.size \in Nat
  BY FileType
<1>2. Cells(s, f, B, w) \subseteq (-f.size) .. f.size
  BY <1>1 DEF Cells
<1>3. ASSUME NEW i \in Wrong(s, f, w) PROVE BlockMark(i) \in (-f.size) .. f.size
  <2>1. i \in 0 .. (f.size - 1)
    BY DEF Wrong, Within
  <2>2. BlockMark(i) \in (-f.size) .. (-1)
    BY <1>1, <2>1, MarkType
  <2> QED BY <1>1, <2>2
<1>4. Need(s, f, B, w) \subseteq (-f.size) .. f.size
  BY <1>2, <1>3 DEF Need
<1>5. IsFiniteSet((-f.size) .. f.size)
  BY <1>1, FS_Interval
<1> QED BY <1>4, <1>5, FS_Subset, FS_CardinalityType

\* More packets under way leave less to repair.
LEMMA NeedOfAll ==
  ASSUME NEW s, NEW f, NEW B, NEW w, w \subseteq B
  PROVE  Need(s, f, B, B) \subseteq Need(s, f, B, w)
<1>1. Cells(s, f, B, B) \subseteq Cells(s, f, B, w)
  BY DEF Cells
<1>2. Wrong(s, f, B) \subseteq Wrong(s, f, w)
  BY DEF Wrong, Fixed
<1> QED BY <1>1, <1>2 DEF Need

\* The token a lost packet leaves.
LossMark(s, g) == IF g.off \in s.covered THEN BlockMark(g.off) ELSE g.off

\* A lost packet leaves one hole, or one bad block as it was.
LEMMA NeedOfLoss ==
  ASSUME NEW s, NEW f, NEW B, NEW w, w \subseteq B, NEW g \in w,
         g.off \in Nat, Len(g.buf) \in Nat
  PROVE  Need(s, f, B, w \ {g}) \subseteq Need(s, f, B, w) \cup {LossMark(s, g)}
<1>1. /\ Offs(w) \subseteq Offs(w \ {g}) \cup {g.off}
      /\ w \ {g} = {} => Offs(w) \subseteq {g.off}
  BY DEF Offs
<1>2. ASSUME NEW x \in Cells(s, f, B, w \ {g}), x \notin Cells(s, f, B, w)
      PROVE  x = LossMark(s, g)
  <2>1. x \in Offs(w)
    BY <1>2 DEF Cells
  <2>2. CASE w \ {g} = {}
    BY <1>1, <2>1, <2>2, <1>2 DEF Cells, LossMark
  <2>3. CASE w \ {g} # {} /\ x \in Offs(B)
    BY <1>1, <2>1, <2>3, <1>2 DEF Cells, LossMark
  <2>4. CASE w \ {g} # {} /\ x \notin Offs(B)
    BY <1>2, <2>4 DEF Cells
  <2> QED BY <2>2, <2>3, <2>4
<1>3. ASSUME NEW i \in Wrong(s, f, w \ {g}), i \notin Wrong(s, f, w)
      PROVE  BlockMark(i) = LossMark(s, g)
  <2>1. i \in s.covered /\ Fixed(s, w, i) /\ ~Fixed(s, w \ {g}, i)
    BY <1>3 DEF Wrong
  <2>2. i \in Span(g) /\ Span(g) \subseteq s.covered
        /\ \A j \in Span(g) : j \div BlockSize = i \div BlockSize
    BY <2>1 DEF Fixed
  <2>3. g.off \in Span(g)
    BY <2>2 DEF Span
  <2> QED BY <2>2, <2>3 DEF LossMark, BlockMark
<1> QED BY <1>2, <1>3 DEF Need

\* What n bytes landing at o may leave: a hole cut in two, and the blocks they fall on.
Spoiled(o, n) == {o + n} \cup {BlockMark(i) : i \in o .. (o + n - 1)}

\* t is s after the bytes b landed at o.
Lands(s, o, b, t) ==
  \/ o + Len(b) > s.total /\ t = s
  \/ /\ o + Len(b) <= s.total
     /\ t.covered = s.covered \cup (o .. (o + Len(b) - 1))
     /\ \A i \in 0 .. (s.total - 1) :
          t.data[i] = IF i \in o .. (o + Len(b) - 1) THEN b[i - o + 1] ELSE s.data[i]

LEMMA AcceptLands ==
  ASSUME NEW s, s.total \in Nat, NEW o \in Nat, NEW b, Len(b) \in Nat
  PROVE  Lands(s, o, b, Accept(s, o, b))
<1>1. CASE o + Len(b) > s.total
  BY <1>1 DEF Accept, Lands
<1>2. CASE ~(o + Len(b) > s.total)
  BY <1>2 DEF Accept, Lands
<1> QED BY <1>1, <1>2

\* Whatever lands, wherever.
LEMMA NeedOfLanding ==
  ASSUME NEW s, NEW f \in Files, s.total = f.size, Within(s, f), NEW B, NEW w,
         NEW o \in Nat, NEW b, Len(b) \in Nat
  PROVE  Need(Accept(s, o, b), f, B, w) \subseteq
           Need(s, f, B, w) \cup Spoiled(o, Len(b))
<1> DEFINE t == Accept(s, o, b)
           S == o .. (o + Len(b) - 1)
<1>1. f.size \in Nat
  BY FileType
<1>2. CASE t = s
  BY <1>2
<1>3. CASE /\ o + Len(b) <= s.total
           /\ t.covered = s.covered \cup S
           /\ \A i \in 0 .. (s.total - 1) :
                t.data[i] = IF i \in S THEN b[i - o + 1] ELSE s.data[i]
  <2> HIDE DEF t
  <2>1. ASSUME NEW x \in Cells(t, f, B, w), x \notin Cells(s, f, B, w)
        PROVE  x = o + Len(b)
    <3>1. x \in 0 .. (f.size - 1) /\ x \notin s.covered /\ x \notin S
      BY <1>3, <2>1 DEF Cells
    <3>2. x - 1 \in S
      BY <1>3, <2>1, <3>1 DEF Cells
    <3> QED BY <1>1, <3>1, <3>2
  <2>2. ASSUME NEW i \in Wrong(t, f, w), i \notin Wrong(s, f, w)
        PROVE  i \in S
    <3>1. CASE i \in s.covered /\ i \notin S
      <4>1. i \in 0 .. (s.total - 1)
        BY <3>1 DEF Within
      <4>2. t.data[i] = s.data[i]
        BY <1>3, <3>1, <4>1
      <4>3. Fixed(s, w, i) => Fixed(t, w, i)
        BY <1>3 DEF Fixed
      <4> QED BY <2>2, <3>1, <4>2, <4>3 DEF Wrong
    <3> QED BY <1>3, <2>2, <3>1 DEF Wrong
  <2> QED BY <2>1, <2>2 DEF Need, Spoiled, t
<1>4. \/ o + Len(b) > s.total /\ t = s
      \/ /\ o + Len(b) <= s.total
         /\ t.covered = s.covered \cup S
         /\ \A i \in 0 .. (s.total - 1) :
              t.data[i] = IF i \in S THEN b[i - o + 1] ELSE s.data[i]
  BY <1>1, AcceptLands DEF Lands
<1> QED BY <1>2, <1>3, <1>4

\* A packet of the blast as the server made it.
Fits(g, f) ==
  /\ g.off \in Nat /\ g.buf \in Seq(Byte) /\ Len(g.buf) \in 1 .. Pay
  /\ g.off + Len(g.buf) <= f.size
  /\ \A i \in Span(g) : g.buf[i - g.off + 1] = f.bytes[i]

\* Behind a packet comes another one, a covered byte or the end of the file.
Ends(s, f, B) ==
  \A g \in B : g.off + Len(g.buf) \in Offs(B) \cup s.covered \cup {f.size}

\* A packet that lands unharmed leaves nothing new.
LEMMA NeedOfArrival ==
  ASSUME NEW s, NEW f \in Files, s.total = f.size, Within(s, f),
         NEW B, Ends(s, f, B), NEW w, w \subseteq B, NEW g \in w, Fits(g, f),
         NEW v, w \ {g} \subseteq v, v \subseteq w
  PROVE  Need(Accept(s, g.off, g.buf), f, B, v) \subseteq Need(s, f, B, w)
<1> DEFINE t == Accept(s, g.off, g.buf)
<1>1. /\ f.size \in Nat /\ g.off \in Nat /\ Len(g.buf) \in Nat \ {0}
      /\ g.off + Len(g.buf) \in Nat
  BY FileType DEF Fits
<1>2. /\ t.covered = s.covered \cup Span(g)
      /\ \A i \in 0 .. (s.total - 1) :
           t.data[i] = IF i \in Span(g) THEN g.buf[i - g.off + 1] ELSE s.data[i]
  <2>1. ~(g.off + Len(g.buf) > s.total)
    BY <1>1 DEF Fits
  <2>2. s.total \in Nat /\ Len(g.buf) \in Nat
    BY <1>1
  <2>3. Lands(s, g.off, g.buf, t)
    BY <1>1, <2>2, AcceptLands, Zenon
  <2> HIDE DEF t
  <2> QED BY <2>1, <2>3, Zenon DEF Span, Lands
<1> HIDE DEF t
<1>3. /\ Offs(w) \subseteq Offs(v) \cup {g.off}
      /\ v = {} => Offs(w) \subseteq {g.off}
  BY DEF Offs
<1>4. ASSUME NEW x \in Cells(t, f, B, v) PROVE x \in Cells(s, f, B, w)
  <2>1. x \in 0 .. (f.size - 1) /\ x \notin s.covered /\ x \notin Span(g)
    BY <1>2, <1>4 DEF Cells
  <2>2. x # g.off
    BY <1>1, <2>1 DEF Span
  <2>3. CASE x \in Offs(B)
    BY <1>3, <1>4, <2>1, <2>2, <2>3 DEF Cells
  <2>4. CASE x \notin Offs(B)
    <3>1. x = 0 \/ x - 1 \in s.covered \/ x - 1 \in Span(g)
      BY <1>2, <1>4, <2>4 DEF Cells
    <3>2. x - 1 \in Span(g) => x = g.off + Len(g.buf)
      BY <1>1, <2>1 DEF Span
    <3>3. x # g.off + Len(g.buf)
      BY <1>1, <2>1, <2>4 DEF Ends
    <3> QED BY <2>1, <2>4, <3>1, <3>2, <3>3 DEF Cells
  <2> QED BY <2>3, <2>4
<1>5. ASSUME NEW i \in Wrong(t, f, v) PROVE i \in Wrong(s, f, w)
  <2>1. i \in 0 .. (s.total - 1)
    BY <1>1, <1>2, <1>5 DEF Wrong, Within, Fits, Span
  <2>2. i \notin Span(g)
    BY <1>2, <1>5, <2>1 DEF Wrong, Fits
  <2>3. i \in s.covered /\ t.data[i] = s.data[i]
    BY <1>2, <1>5, <2>1, <2>2 DEF Wrong
  <2>4. Fixed(s, w, i) => Fixed(t, v, i)
    BY <1>2, <2>2 DEF Fixed
  <2> QED BY <1>5, <2>3, <2>4 DEF Wrong
<1> QED BY <1>4, <1>5 DEF Need, t

LEMMA CostType ==
  /\ BlocksTouched \in Nat \ {0} /\ RoundCost \in Nat /\ RoundCost = BlocksTouched + 2
<1>1. Pay + BlockSize - 2 \in Nat /\ BlockSize \in Nat \ {0}
  BY SizesAssumption, WordAssumption
<1>2. (Pay + BlockSize - 2) \div BlockSize \in Nat
  BY <1>1, DivMod
<1> QED BY <1>2 DEF BlocksTouched, RoundCost

\* A packet spoils no more than a hole and the blocks it touches.
LEMMA SpoiledFew ==
  ASSUME NEW o \in Nat, NEW n \in 0 .. Pay
  PROVE  /\ IsFiniteSet(Spoiled(o, n))
         /\ Cardinality(Spoiled(o, n)) + 1 <= RoundCost
<1> DEFINE a == o \div BlockSize
           q == (Pay + BlockSize - 2) \div BlockSize
           M == {BlockMark(i) : i \in o .. (o + n - 1)}
<1>1. /\ Pay \in Nat \ {0} /\ BlockSize \in Nat \ {0} /\ Pay - 1 \in Nat
      /\ Pay + BlockSize - 2 \in Nat /\ (Pay - 1) + BlockSize - 1 = Pay + BlockSize - 2
  BY SizesAssumption, WordAssumption
<1>2. a \in Nat /\ q \in Nat /\ RoundCost = q + 3
  BY <1>1, DivMod DEF RoundCost, BlocksTouched
<1>3. ASSUME NEW i \in o .. (o + n - 1)
      PROVE  i \div BlockSize \in a .. (a + q)
  <2>1. i \in Nat /\ i <= o + (Pay - 1) /\ o <= i + 0
    BY <1>1
  <2>2. i \div BlockSize <= a + (((Pay - 1) + BlockSize - 1) \div BlockSize)
    BY <1>1, <2>1, DivGap
  <2>3. a <= i \div BlockSize + ((0 + BlockSize - 1) \div BlockSize)
    BY <1>1, <2>1, DivGap
  <2>4. (0 + BlockSize - 1) \div BlockSize = 0
    <3>1. BlockSize - 1 = BlockSize * 0 + (BlockSize - 1) /\ BlockSize - 1 \in 0 .. (BlockSize - 1)
      BY <1>1
    <3>2. (BlockSize - 1) \div BlockSize = 0
      BY <1>1, <3>1, DivUnique
    <3> QED BY <1>1, <3>2
  <2>5. i \div BlockSize \in Nat
    BY <1>1, <2>1, DivMod
  <2>6. ((Pay - 1) + BlockSize - 1) \div BlockSize = q
    BY <1>1
  <2> HIDE DEF a, q
  <2> QED BY <1>2, <2>2, <2>3, <2>4, <2>5, <2>6
<1> HIDE DEF a, q
<1>4. M \subseteq (-1 - (a + q)) .. (-1 - a)
  BY <1>2, <1>3 DEF BlockMark
<1>5. /\ IsFiniteSet((-1 - (a + q)) .. (-1 - a))
      /\ Cardinality((-1 - (a + q)) .. (-1 - a)) = q + 1
  <2>1. -1 - (a + q) \in Int /\ -1 - a \in Int /\ ~(-1 - (a + q) > -1 - a)
        /\ (-1 - a) - (-1 - (a + q)) + 1 = q + 1
    BY <1>2
  <2> QED BY <2>1, FS_Interval
<1>6. IsFiniteSet(M) /\ Cardinality(M) <= q + 1 /\ Cardinality(M) \in Nat
  <2> DEFINE R == (-1 - (a + q)) .. (-1 - a)
  <2>1. M \subseteq R /\ IsFiniteSet(R) /\ Cardinality(R) = q + 1
    BY <1>4, <1>5
  <2> HIDE DEF R, M
  <2>2. IsFiniteSet(M) /\ Cardinality(M) <= Cardinality(R)
    BY <2>1, FS_Subset
  <2> QED BY <2>1, <2>2, FS_CardinalityType
<1> HIDE DEF M
<1>7. Spoiled(o, n) = M \cup {o + n}
  BY DEF Spoiled, M
<1>8. /\ IsFiniteSet(M \cup {o + n})
      /\ Cardinality(M \cup {o + n}) <= Cardinality(M) + 1
      /\ Cardinality(M \cup {o + n}) \in Nat
  BY <1>6, FS_AddElement, FS_CardinalityType
<1> QED BY <1>2, <1>6, <1>7, <1>8

LEMMA UnionFew ==
  ASSUME NEW S, IsFiniteSet(S), NEW T, IsFiniteSet(T), NEW R, R \subseteq S \cup T,
         NEW n \in Nat, Cardinality(T) <= n
  PROVE  Cardinality(R) <= Cardinality(S) + n
<1>1. /\ IsFiniteSet(S \cup T)
      /\ Cardinality(S \cup T) = Cardinality(S) + Cardinality(T) - Cardinality(S \cap T)
  BY FS_Union
<1>2. IsFiniteSet(S \cap T)
  BY FS_Subset
<1>3. Cardinality(S) \in Nat /\ Cardinality(T) \in Nat /\ Cardinality(S \cap T) \in Nat
  BY <1>2, FS_CardinalityType
<1>4. Cardinality(R) <= Cardinality(S \cup T) /\ Cardinality(R) \in Nat
  BY <1>1, FS_Subset, FS_CardinalityType
<1> QED BY <1>1, <1>3, <1>4

-----------------------------------------------------------------------------
(* What the server blasts.                                                 *)

Sendable(f, iv) == iv.start \in Nat /\ iv.end \in Nat /\ iv.end <= f.size

Room(o, e) == IF o + Pay <= e THEN Pay ELSE e - o

LEMMA BlastPacket ==
  ASSUME NEW f \in Files, NEW iv, Sendable(f, iv), NEW g \in BlastInterval(f, iv)
  PROVE  /\ g.off \in iv.start .. (iv.end - 1) /\ g.off \in Nat
         /\ (g.off - iv.start) % Pay = 0
         /\ Len(g.buf) = Room(g.off, iv.end) /\ Len(g.buf) \in 1 .. Pay
         /\ Fits(g, f) /\ Span(g) \subseteq Bytes(iv)
<1>1. PICK o \in Bytes(iv) :
        /\ (o - iv.start) % Pay = 0
        /\ g = [off |-> o, buf |-> [k \in 1 .. Room(o, iv.end) |-> f.bytes[o + k - 1]]]
  BY DEF BlastInterval, Room
<1> DEFINE n == Room(o, iv.end)
<1>2. /\ Pay \in Nat \ {0} /\ o \in iv.start .. (iv.end - 1) /\ o \in Nat
      /\ iv.end <= f.size /\ f.size \in Nat /\ iv.end \in Nat /\ iv.start \in Nat
      /\ f.bytes \in [0 .. (f.size - 1) -> Byte]
  BY SizesAssumption, FileType DEF Bytes, Sendable
<1>3. n \in 1 .. Pay /\ o + n <= iv.end /\ n \in Nat
  BY <1>2 DEF Room
<1>4. g.off = o /\ g.buf = [k \in 1 .. n |-> f.bytes[o + k - 1]]
  BY <1>1
<1> HIDE DEF n
<1>5. ASSUME NEW k \in 1 .. n PROVE f.bytes[o + k - 1] \in Byte
  <2>1. o + k - 1 \in 0 .. (f.size - 1)
    BY <1>2, <1>3
  <2> QED BY <1>2, <2>1
<1>6. g.buf \in Seq(Byte) /\ Len(g.buf) = n
  BY <1>3, <1>4, <1>5
<1>7. Span(g) = o .. (o + n - 1)
  BY <1>4, <1>6 DEF Span
<1>8. ASSUME NEW i \in o .. (o + n - 1) PROVE g.buf[i - g.off + 1] = f.bytes[i]
  <2>1. i - o + 1 \in 1 .. n /\ o + (i - o + 1) - 1 = i
    BY <1>2, <1>3
  <2>2. g.buf[i - o + 1] = f.bytes[o + (i - o + 1) - 1]
    BY <1>4, <2>1
  <2> QED BY <1>4, <2>1, <2>2
<1>9. g.off + Len(g.buf) <= f.size /\ g.off \in Nat
  BY <1>2, <1>3, <1>4, <1>6
<1>10. Fits(g, f)
  BY <1>3, <1>6, <1>7, <1>8, <1>9, Zenon DEF Fits
<1>11. Span(g) \subseteq Bytes(iv)
  BY <1>2, <1>3, <1>7 DEF Bytes
<1>12. Len(g.buf) = Room(g.off, iv.end)
  BY <1>4, <1>6 DEF n
<1> QED BY <1>1, <1>2, <1>3, <1>4, <1>6, <1>10, <1>11, <1>12

\* Offsets are the multiples of Pay from the start of the range.
LEMMA BlastOffs ==
  ASSUME NEW f, NEW iv, NEW o \in Bytes(iv), (o - iv.start) % Pay = 0
  PROVE  \E g \in BlastInterval(f, iv) : g.off = o
<1> DEFINE g == [off |-> o,
                 buf |-> [k \in 1 .. (IF o + Pay <= iv.end THEN Pay ELSE iv.end - o) |->
                            f.bytes[o + k - 1]]]
<1>1. g \in BlastInterval(f, iv)
  BY DEF BlastInterval
<1>2. g.off = o
  OBVIOUS
<1> HIDE DEF g
<1> QED BY <1>1, <1>2

LEMMA BlastFirst ==
  ASSUME NEW f \in Files, NEW iv, Sendable(f, iv), iv.start < iv.end
  PROVE  \E g \in BlastInterval(f, iv) : g.off = iv.start
<1>1. iv.start \in Nat /\ iv.end \in Nat /\ Pay \in Nat \ {0}
  BY SizesAssumption DEF Sendable
<1>2. PICK o \in Nat : iv.start <= o /\ o <= iv.start /\ (o - iv.start) % Pay = 0
  BY <1>1, MultipleBelow
<1>3. o = iv.start /\ o \in Bytes(iv)
  BY <1>1, <1>2 DEF Bytes
<1> QED BY <1>2, <1>3, BlastOffs

LEMMA BlastEnds ==
  ASSUME NEW f \in Files, NEW iv, Sendable(f, iv), NEW g \in BlastInterval(f, iv)
  PROVE  \/ g.off + Len(g.buf) = iv.end
         \/ \E h \in BlastInterval(f, iv) : h.off = g.off + Len(g.buf)
<1>1. /\ g.off \in iv.start .. (iv.end - 1) /\ g.off \in Nat
      /\ (g.off - iv.start) % Pay = 0
      /\ Len(g.buf) = Room(g.off, iv.end)
  BY BlastPacket
<1>2. Pay \in Nat \ {0} /\ iv.end \in Nat /\ iv.start \in Nat
  BY SizesAssumption DEF Sendable
<1>3. CASE g.off + Pay < iv.end
  <2>1. Len(g.buf) = Pay /\ g.off + Pay \in Bytes(iv)
    BY <1>1, <1>2, <1>3 DEF Room, Bytes
  <2>2. iv.start <= g.off
    BY <1>1, <1>2
  <2>3. ((g.off + Pay) - iv.start) % Pay = 0
    BY <1>1, <1>2, <2>2, NextMultiple
  <2>4. \E h \in BlastInterval(f, iv) : h.off = g.off + Pay
    BY <2>1, <2>3, BlastOffs
  <2> QED BY <2>1, <2>4
<1>4. CASE ~(g.off + Pay < iv.end)
  <2>1. g.off + Room(g.off, iv.end) = iv.end
    BY <1>1, <1>2, <1>4 DEF Room
  <2> QED BY <1>1, <2>1
<1> QED BY <1>3, <1>4

LEMMA BlastCovers ==
  ASSUME NEW f \in Files, NEW iv, Sendable(f, iv), NEW j \in Bytes(iv)
  PROVE  \E g \in BlastInterval(f, iv) : j \in Span(g)
<1>1. Pay \in Nat \ {0} /\ iv.start \in Nat /\ iv.end \in Nat /\ j \in iv.start .. (iv.end - 1)
  BY SizesAssumption DEF Sendable, Bytes
<1>2. j \in Nat /\ iv.start <= j
  BY <1>1
<1>3. PICK o \in Nat : iv.start <= o /\ o <= j /\ j < o + Pay /\ (o - iv.start) % Pay = 0
  BY <1>1, <1>2, MultipleBelow
<1>4. o \in Bytes(iv) /\ j \in o .. (o + Room(o, iv.end) - 1)
  BY <1>1, <1>3 DEF Bytes, Room
<1>5. PICK g \in BlastInterval(f, iv) : g.off = o
  BY <1>3, <1>4, BlastOffs
<1>6. Len(g.buf) = Room(o, iv.end)
  BY <1>5, BlastPacket
<1>7. j \in Span(g)
  BY <1>4, <1>5, <1>6 DEF Span
<1> QED BY <1>7

LEMMA SameRange ==
  ASSUME NEW f, NEW iv, NEW jv, iv.start = jv.start, iv.end = jv.end
  PROVE  BlastInterval(f, iv) = BlastInterval(f, jv)
  BY DEF BlastInterval, Bytes

\* Everything the server blasts is as it stands in the file.
LEMMA BlastedFits ==
  ASSUME NEW f \in Files, NEW V \in SUBSET ByteRange, NEW g \in Blasted(f, V)
  PROVE  Fits(g, f)
<1>1. f.size \in Nat
  BY FileType
<1>2. CASE V = {}
  <2> DEFINE iv == Interval(0, f.size)
  <2>1. g \in BlastInterval(f, iv) /\ Sendable(f, iv)
    BY <1>1, <1>2 DEF Blasted, Sendable, Interval
  <2> HIDE DEF iv
  <2> QED BY <2>1, BlastPacket
<1>3. CASE V # {}
  <2>1. PICK iv \in V : g \in BlastInterval(f, Interval(iv.start,
                                IF iv.end > f.size THEN f.size ELSE iv.end))
    BY <1>3 DEF Blasted
  <2> DEFINE jv == Interval(iv.start, IF iv.end > f.size THEN f.size ELSE iv.end)
  <2>2. iv.start \in Nat /\ iv.end \in Nat
    BY DEF ByteRange
  <2>3. Sendable(f, jv)
    BY <1>1, <2>2 DEF Sendable, Interval
  <2> HIDE DEF jv
  <2>4. g \in BlastInterval(f, jv)
    BY <2>1 DEF jv
  <2> QED BY <2>3, <2>4, BlastPacket
<1> QED BY <1>2, <1>3

\* Ranges that lie in the file are blasted as they are.
LEMMA BlastedIs ==
  ASSUME NEW f \in Files, NEW V, Proper(V, f.size), V # {}
  PROVE  /\ \A iv \in V : Sendable(f, iv) /\ iv.start < iv.end
                          /\ BlastInterval(f, iv) \subseteq Blasted(f, V)
         /\ \A g \in Blasted(f, V) : \E iv \in V : g \in BlastInterval(f, iv)
<1> DEFINE Clip(iv) == Interval(iv.start, IF iv.end > f.size THEN f.size ELSE iv.end)
<1>1. f.size \in Nat
  BY FileType
<1>2. ASSUME NEW iv \in V
      PROVE  /\ Sendable(f, iv) /\ iv.start < iv.end
             /\ BlastInterval(f, Clip(iv)) = BlastInterval(f, iv)
  <2>1. Sendable(f, iv) /\ iv.start < iv.end /\ ~(iv.end > f.size)
    BY <1>1 DEF Proper, Sendable
  <2>2. Clip(iv).start = iv.start /\ Clip(iv).end = iv.end
    BY <2>1 DEF Interval
  <2> HIDE DEF Clip
  <2> QED BY <2>1, <2>2, SameRange
<1>3. Blasted(f, V) = UNION {BlastInterval(f, Clip(iv)) : iv \in V}
  BY DEF Blasted
<1> HIDE DEF Clip
<1> QED BY <1>2, <1>3

\* At first the whole file is asked for.
LEMMA EndsWhole ==
  ASSUME NEW f \in Files, NEW s
  PROVE  Ends(s, f, Blasted(f, {}))
<1> DEFINE iv == Interval(0, f.size)
<1>1. f.size \in Nat
  BY FileType
<1>2. Blasted(f, {}) = BlastInterval(f, iv) /\ Sendable(f, iv) /\ iv.end = f.size
  BY <1>1 DEF Blasted, Sendable, Interval
<1> HIDE DEF iv
<1>3. ASSUME NEW g \in BlastInterval(f, iv)
      PROVE  g.off + Len(g.buf) \in Offs(BlastInterval(f, iv)) \cup {f.size}
  BY <1>2, <1>3, BlastEnds DEF Offs
<1> QED BY <1>2, <1>3 DEF Ends

\* The next request when bytes are missing: it asks for the first hole.
LEMMA NextHoles ==
  ASSUME NEW f \in Files, NEW s, s.total = f.size, Within(s, f),
         NEW V, V \subseteq Holes(s), V # {}
  PROVE  /\ Ends(s, f, Blasted(f, V))
         /\ \E e \in Need(s, f, Blasted(f, V), {}) : e \notin Need(s, f, Blasted(f, V), Blasted(f, V))
<1> DEFINE B == Blasted(f, V)
<1>1. f.size \in Nat /\ s.total \in Nat
  BY FileType
<1>2. Proper(V, f.size)
  BY <1>1, HolesProper DEF Proper
<1>3. /\ \A iv \in V : Sendable(f, iv) /\ iv.start < iv.end
                          /\ BlastInterval(f, iv) \subseteq B
      /\ \A g \in B : \E iv \in V : g \in BlastInterval(f, iv)
  BY <1>2, BlastedIs
<1> HIDE DEF B
<1>4. ASSUME NEW iv \in V
      PROVE  /\ iv.end = f.size \/ iv.end \in s.covered
             /\ iv.start \in 0 .. (f.size - 1) /\ iv.start \notin s.covered
             /\ iv.start = 0 \/ iv.start - 1 \in s.covered
  <2>1. /\ iv.start \in 0 .. (s.total - 1) /\ iv.start < iv.end
        /\ iv.end = s.total \/ iv.end \in s.covered
        /\ iv.start = 0 \/ (iv.start - 1) \in s.covered
        /\ \A k \in iv.start .. (iv.end - 1) : k \notin s.covered
        /\ iv.end \in 1 .. s.total
    BY <1>1, HoleShape
  <2>2. iv.start \in iv.start .. (iv.end - 1)
    BY <1>1, <2>1
  <2> QED BY <2>1, <2>2
<1>5. Ends(s, f, B)
  <2> SUFFICES ASSUME NEW g \in B
               PROVE  g.off + Len(g.buf) \in Offs(B) \cup s.covered \cup {f.size}
    BY DEF Ends
  <2>1. PICK iv \in V : g \in BlastInterval(f, iv)
    BY <1>3
  <2>2. \/ g.off + Len(g.buf) = iv.end
        \/ \E h \in BlastInterval(f, iv) : h.off = g.off + Len(g.buf)
    BY <1>3, <2>1, BlastEnds
  <2> QED BY <1>3, <1>4, <2>2 DEF Offs
<1>6. PICK iv \in V : TRUE
  OBVIOUS
<1> DEFINE e == iv.start
<1>7. e \in Need(s, f, B, {})
  BY <1>4 DEF Need, Cells
<1>8. e \in Offs(B)
  <2>1. \E g \in BlastInterval(f, iv) : g.off = iv.start
    BY <1>3, BlastFirst
  <2> QED BY <1>3, <2>1 DEF Offs
<1>9. e \notin Cells(s, f, B, B)
  BY <1>8 DEF Cells, Offs
<1>10. e \in Nat
  BY <1>4
<1>11. ASSUME NEW i \in Wrong(s, f, B) PROVE BlockMark(i) # e
  <2>1. i \in 0 .. (f.size - 1)
    BY DEF Wrong, Within
  <2>2. BlockMark(i) \in (-f.size) .. (-1)
    BY <1>1, <2>1, MarkType
  <2> QED BY <1>1, <1>10, <2>2
<1> QED BY <1>5, <1>7, <1>9, <1>11 DEF Need, B

LEMMA BlockOfByte ==
  ASSUME NEW d \in Nat \ {0}, NEW b \in Nat, NEW i \in Nat
  PROVE  i \div d = b <=> b * d <= i /\ i < (b + 1) * d
<1> DEFINE q == i \div d
           r == i % d
<1>1. q \in Nat /\ r \in 0 .. (d - 1) /\ i = d * q + r
  BY DivMod
<1> HIDE DEF q, r
<1>2. q = b => b * d <= i /\ i < (b + 1) * d
  <2>1. b * d = d * b /\ (b + 1) * d = d * b + d /\ d * b \in Nat
    OBVIOUS
  <2> QED BY <1>1, <2>1
<1>3. ASSUME b * d <= i, i < (b + 1) * d PROVE i \div d = b
  <2> DEFINE m == d * b
  <2>1. b * d = m /\ (b + 1) * d = m + d /\ m \in Nat
    OBVIOUS
  <2> HIDE DEF m
  <2>2. i - m \in 0 .. (d - 1) /\ i = m + (i - m)
    BY <1>3, <2>1
  <2>3. i = d * b + (i - m)
    BY <2>2 DEF m
  <2> QED BY <2>2, <2>3, DivUnique
<1> QED BY <1>2, <1>3 DEF q

\* Block b of a payload of n bytes is the bytes i with this quotient.
BlockTells(n, d, b, i) ==
  i \in BlockStart(b, d) .. (BlockEnd(b, d, n) - 1) <=> i < n /\ i \div d = b

LEMMA BlockIs ==
  ASSUME NEW n \in Nat, NEW d \in Nat \ {0}, NEW b \in Nat, NEW i \in Nat
  PROVE  BlockTells(n, d, b, i)
<1>1. i \div d = b <=> b * d <= i /\ i < (b + 1) * d
  BY BlockOfByte
<1> DEFINE x == b * d
           y == (b + 1) * d
<1>2. x \in Nat /\ y \in Nat
  OBVIOUS
<1>3. BlockStart(b, d) = x /\ BlockEnd(b, d, n) = IF y > n THEN n ELSE y
  BY DEF BlockStart, BlockEnd
<1>4. i \div d = b <=> x <= i /\ i < y
  BY <1>1
<1> HIDE DEF x, y
<1>5. i \in x .. ((IF y > n THEN n ELSE y) - 1) <=> i < n /\ x <= i /\ i < y
  BY <1>2
<1> QED BY <1>3, <1>4, <1>5 DEF BlockTells

\* The next request when blocks are bad: it asks for the first of them.
LEMMA NextBlocks ==
  ASSUME NEW f \in Files, NEW s, Tracks(s, f.bytes), s.total = f.size, s.block = BlockSize,
         s.covered = 0 .. (f.size - 1),
         NEW V, V \subseteq CorruptRanges(s), V # {}
  PROVE  /\ Ends(s, f, Blasted(f, V))
         /\ \E e \in Need(s, f, Blasted(f, V), {}) : e \notin Need(s, f, Blasted(f, V), Blasted(f, V))
<1> DEFINE B == Blasted(f, V)
<1>1. /\ f.size \in Nat /\ s.total \in Nat /\ BlockSize \in 1 .. (Word - 1)
      /\ BlockSize \in Nat \ {0} /\ f.bytes \in [0 .. (f.size - 1) -> Byte]
      /\ s.data \in [0 .. (f.size - 1) -> Byte] /\ s.nblocks \in Nat
  BY FileType, WordAssumption DEF Tracks, WellFormed, NewOK
<1>2. Proper(V, f.size)
  <2>1. Proper(CorruptRanges(s), s.total)
    BY CorruptProper DEF Tracks
  <2> QED BY <2>1 DEF Proper
<1>3. /\ \A iv \in V : Sendable(f, iv) /\ iv.start < iv.end
                          /\ BlastInterval(f, iv) \subseteq B
      /\ \A g \in B : \E iv \in V : g \in BlastInterval(f, iv)
  BY <1>2, BlastedIs
<1> HIDE DEF B
<1>4. Ends(s, f, B)
  <2> SUFFICES ASSUME NEW g \in B
               PROVE  g.off + Len(g.buf) \in s.covered \cup {f.size}
    BY DEF Ends
  <2>1. PICK iv \in V : g \in BlastInterval(f, iv)
    BY <1>3
  <2>2. Fits(g, f)
    BY <1>3, <2>1, BlastPacket
  <2>3. g.off + Len(g.buf) \in Nat /\ g.off + Len(g.buf) <= f.size
    BY <2>2 DEF Fits
  <2> QED BY <1>1, <2>3
<1>5. PICK iv \in V : TRUE
  OBVIOUS
<1>6. PICK b \in BadBlocks(s) :
        iv = Interval(BlockStart(b, BlockSize), BlockEnd(b, BlockSize, f.size))
  BY DEF CorruptRanges
<1>7. b \in 0 .. (s.nblocks - 1) /\ b \in Nat
  BY <1>1 DEF BadBlocks
<1>8. ASSUME NEW i \in Nat PROVE i \in Bytes(iv) <=> i < f.size /\ i \div BlockSize = b
  <2>1. Bytes(iv) = BlockStart(b, BlockSize) .. (BlockEnd(b, BlockSize, f.size) - 1)
    BY <1>6 DEF Bytes, Interval
  <2>2. f.size \in Nat /\ BlockSize \in Nat \ {0} /\ b \in Nat
    BY <1>1, <1>7
  <2>3. BlockTells(f.size, BlockSize, b, i)
    BY <2>2, BlockIs, Zenon
  <2> QED BY <2>1, <2>3, Zenon DEF BlockTells
<1>9. \A i \in Bytes(iv) : i \in Nat /\ i \in 0 .. (f.size - 1) /\ i \div BlockSize = b
  <2>1. \A i \in Bytes(iv) : i \in Nat
    BY <1>3 DEF Sendable, Bytes
  <2> QED BY <1>1, <1>8, <2>1
<1>10. PICK i \in Bytes(iv) : s.data[i] # f.bytes[i]
  <2>1. HashBlock(s.data, f.size, BlockSize, b) # HashBlock(f.bytes, f.size, BlockSize, b)
    BY <1>7, BadBlocksAre
  <2> SUFFICES ASSUME \A i \in Bytes(iv) : s.data[i] = f.bytes[i]
               PROVE  HashBlock(s.data, f.size, BlockSize, b)
                        = HashBlock(f.bytes, f.size, BlockSize, b)
    BY <2>1
  <2> DEFINE a == BlockStart(b, BlockSize)
             z == BlockEnd(b, BlockSize, f.size)
  <2>2. a \in Nat /\ z \in Nat /\ Bytes(iv) = a .. (z - 1)
    BY <1>1, <1>6, <1>7 DEF BlockStart, BlockEnd, Bytes, Interval
  <2> HIDE DEF a, z
  <2>3. \A k \in 1 .. (z - a) : s.data[a + k - 1] = f.bytes[a + k - 1]
    BY <2>2
  <2> QED BY <2>3 DEF HashBlock, a, z
<1> DEFINE e == BlockMark(i)
<1>11. e \in Need(s, f, B, {})
  BY <1>9, <1>10 DEF Need, Wrong, Fixed
<1>12. ASSUME NEW j \in Wrong(s, f, B), BlockMark(j) = e PROVE FALSE
  <2>1. j \in 0 .. (f.size - 1) /\ j \in Nat /\ j < f.size
    BY <1>1 DEF Wrong
  <2>2. j \div BlockSize \in Nat /\ i \div BlockSize = b
    BY <1>1, <1>9, <2>1, DivMod
  <2>3. j \div BlockSize = b
    BY <1>7, <1>12, <2>2 DEF BlockMark
  <2>4. j \in Bytes(iv)
    BY <1>8, <2>1, <2>3
  <2>5. PICK g \in BlastInterval(f, iv) : j \in Span(g)
    BY <1>3, <2>4, BlastCovers
  <2>6. Span(g) \subseteq Bytes(iv)
    BY <1>3, BlastPacket
  <2>7. Fixed(s, B, j)
    BY <1>3, <1>9, <2>3, <2>5, <2>6 DEF Fixed
  <2> QED BY <2>7 DEF Wrong
<1>13. e \notin Cells(s, f, B, B)
  BY DEF Cells
<1> QED BY <1>4, <1>11, <1>12, <1>13 DEF Need, B

LEMMA NeedOfNone ==
  ASSUME NEW s, NEW f, NEW B, NEW D
  PROVE  Need(s, f, B, {}) = Need(s, f, D, {})
<1>1. Cells(s, f, B, {}) = Cells(s, f, D, {})
  BY DEF Cells
<1> QED BY <1>1 DEF Need

\* Every new request takes something off what is left to repair.
LEMMA NextAsk ==
  ASSUME NEW f \in Files, NEW s, Tracks(s, f.bytes), s.total = f.size, s.block = BlockSize,
         Status(s) # "COMPLETE_VERIFIED", NEW B
  PROVE  LET D == Blasted(f, FirstRanges(Ranges(s), MaxIntervals))
         IN  /\ Ends(s, f, D)
             /\ Cardinality(Need(s, f, D, D)) < Cardinality(Need(s, f, B, {}))
             /\ Cardinality(Need(s, f, D, {})) = Cardinality(Need(s, f, B, {}))
<1> DEFINE V == FirstRanges(Ranges(s), MaxIntervals)
           D == Blasted(f, V)
<1>1. /\ s.total \in 0 .. (Word - 1) /\ s.total \in Nat /\ s.block \in 1 .. (Word - 1)
      /\ s.covered \subseteq 0 .. (s.total - 1) /\ Within(s, f)
      /\ s.covered_count = Cardinality(s.covered)
      /\ NewOK(s.total, s.block, s.nblocks)
      /\ MaxIntervals \in Nat \ {0}
  BY LimitsAssumption, WordAssumption DEF Tracks, WellFormed, Within
<1>2. Ranges(s) # {} /\ Proper(Ranges(s), s.total)
  BY <1>1, RangesSound
<1>3. V \subseteq Ranges(s) /\ V # {}
  BY <1>1, <1>2, FirstRangesFit
<1> HIDE DEF V
<1> DEFINE Goal == /\ Ends(s, f, D)
                   /\ \E e \in Need(s, f, D, {}) : e \notin Need(s, f, D, D)
<1>4. ASSUME s.covered_count < s.total PROVE Goal
  <2>1. Ranges(s) = Holes(s)
    BY <1>4 DEF Ranges, Status
  <2>2. V \subseteq Holes(s)
    BY <1>3, <2>1
  <2>3. Goal
    BY <1>1, <1>3, <2>2, NextHoles
  <2> QED BY <2>3
<1>5. ASSUME ~(s.covered_count < s.total) PROVE Goal
  <2>1. Ranges(s) = CorruptRanges(s)
    BY <1>5 DEF Ranges, Status
  <2>2. V \subseteq CorruptRanges(s)
    BY <1>3, <2>1
  <2>3. Missing(s) = {}
    BY <1>1, <1>5, MissingIffShort
  <2>4. s.covered = 0 .. (f.size - 1)
    BY <1>1, <2>3 DEF Missing
  <2>5. Goal
    BY <1>3, <2>2, <2>4, NextBlocks
  <2> QED BY <2>5
<1>6. Goal
  BY <1>4, <1>5
<1>7. PICK e \in Need(s, f, D, {}) : e \notin Need(s, f, D, D)
  BY <1>6
<1>8. Need(s, f, D, D) \subseteq Need(s, f, D, {})
  BY NeedOfAll
<1>9. Need(s, f, D, {}) = Need(s, f, B, {})
  BY NeedOfNone
<1>10. Ends(s, f, D)
  BY <1>6
<1> HIDE DEF D, Goal
<1>11. IsFiniteSet(Need(s, f, D, {}))
  BY <1>1, NeedFinite
<1>12. /\ Cardinality(Need(s, f, D, D)) <= Cardinality(Need(s, f, D, {}))
       /\ Cardinality(Need(s, f, D, D)) # Cardinality(Need(s, f, D, {}))
  BY <1>7, <1>8, <1>11, FS_Subset
<1>13. Cardinality(Need(s, f, D, D)) \in Nat /\ Cardinality(Need(s, f, D, {})) \in Nat
  BY <1>1, NeedFinite
<1>14. Cardinality(Need(s, f, D, D)) < Cardinality(Need(s, f, D, {}))
  BY <1>12, <1>13
<1> QED BY <1>9, <1>10, <1>14 DEF D, V

-----------------------------------------------------------------------------
(* The rounds a transfer may still need.                                   *)

\* n rounds are enough when nothing else goes wrong: what is left to repair is no
\* more than that.  As long as a request is still to be served (p), one more may be
\* left for the packets that are not under way yet.
Owes(p, n, s, f, B, w) ==
  IF p THEN /\ Cardinality(Need(s, f, B, B)) <= n
            /\ Cardinality(Need(s, f, B, w)) <= n + 1
       ELSE Cardinality(Need(s, f, B, w)) <= n

LEMMA OwesGrow ==
  ASSUME NEW f \in Files, NEW s, Within(s, f), NEW t, Within(t, f), NEW B, NEW w, NEW v,
         NEW T, IsFiniteSet(T), NEW k \in Nat, Cardinality(T) <= k,
         Need(t, f, B, B) \subseteq Need(s, f, B, B) \cup T,
         Need(t, f, B, v) \subseteq Need(s, f, B, w) \cup T,
         NEW p, NEW n \in Int, Owes(p, n, s, f, B, w)
  PROVE  Owes(p, n + k, t, f, B, v)
<1>1. /\ IsFiniteSet(Need(s, f, B, B)) /\ IsFiniteSet(Need(s, f, B, w))
      /\ Cardinality(Need(s, f, B, B)) \in Nat /\ Cardinality(Need(s, f, B, w)) \in Nat
      /\ Cardinality(Need(t, f, B, B)) \in Nat /\ Cardinality(Need(t, f, B, v)) \in Nat
  BY NeedFinite
<1>2. Cardinality(Need(t, f, B, B)) <= Cardinality(Need(s, f, B, B)) + k
  BY <1>1, UnionFew
<1>3. Cardinality(Need(t, f, B, v)) <= Cardinality(Need(s, f, B, w)) + k
  BY <1>1, UnionFew
<1> QED BY <1>1, <1>2, <1>3 DEF Owes

\* A failed attempt asks for the same again.
LEMMA OwesRetry ==
  ASSUME NEW f \in Files, NEW s, Within(s, f), NEW B, NEW w, w \subseteq B,
         NEW p, NEW n \in Int, Owes(p, n, s, f, B, w)
  PROVE  Owes(TRUE, n, s, f, B, w)
<1>1. /\ IsFiniteSet(Need(s, f, B, w)) /\ Cardinality(Need(s, f, B, w)) \in Nat
      /\ Cardinality(Need(s, f, B, B)) \in Nat
  BY NeedFinite
<1>2. Cardinality(Need(s, f, B, B)) <= Cardinality(Need(s, f, B, w))
  BY <1>1, NeedOfAll, FS_Subset
<1> QED BY <1>1, <1>2 DEF Owes

LEMMA OwesServed ==
  ASSUME NEW f \in Files, NEW s, Within(s, f), NEW B, NEW w,
         NEW p, NEW n \in Int, Owes(TRUE, n, s, f, B, w)
  PROVE  Owes(p, n, s, f, B, B)
<1>1. Cardinality(Need(s, f, B, B)) \in Nat
  BY NeedFinite
<1> QED BY <1>1 DEF Owes

LEMMA OwesLost ==
  ASSUME NEW f \in Files, NEW s, Within(s, f), NEW B, NEW w,
         NEW p, NEW n \in Int, Owes(TRUE, n, s, f, B, w)
  PROVE  Owes(p, n + 1, s, f, B, w)
<1>1. Cardinality(Need(s, f, B, B)) \in Nat /\ Cardinality(Need(s, f, B, w)) \in Nat
  BY NeedFinite
<1> QED BY <1>1 DEF Owes

LEMMA OwesMore ==
  ASSUME NEW f \in Files, NEW s, Within(s, f), NEW B, NEW w,
         NEW p, NEW n \in Int, Owes(p, n, s, f, B, w), NEW m \in Int, n <= m
  PROVE  /\ Owes(p, m, s, f, B, w) /\ n >= 0
<1>1. Cardinality(Need(s, f, B, B)) \in Nat /\ Cardinality(Need(s, f, B, w)) \in Nat
  BY NeedFinite
<1> QED BY <1>1 DEF Owes

-----------------------------------------------------------------------------
(* The first exchange when time-outs are honest.                           *)

\* A time-out means that the packet will not come, the server is not restarted, and
\* a round has fewer attempts (8) than CSP has client ports (47: 17 to 63), so that
\* no two connections of the first exchange have one port.
Honest == Timely /\ MaxRestarts = 0 /\ MaxAttempts < NPorts

\* The packets of port p in w are parts of f's answer behind the k-th, in order; c
\* has their numbers.  No packet has a later port.
Line(w, c, p, f, k) ==
  /\ c \in Seq(Nat) /\ Len(c) = Len(w)
  /\ \A i \in 1 .. Len(w) :
       /\ w[i].port <= p
       /\ w[i].port = p => c[i] \in (k + 1) .. Parts(f) /\ w[i] = Reply(p, f)[c[i]]
  /\ \A i, j \in 1 .. Len(w) :
       i < j /\ w[i].port = p /\ w[j].port = p => c[i] < c[j]

LEMMA LineWithout ==
  ASSUME NEW w \in Seq(Packet), NEW c, NEW p, NEW f, NEW k, Line(w, c, p, f, k),
         NEW j \in 1 .. Len(w)
  PROVE  Line(Without(w, j), Without(c, j), p, f, k)
<1> DEFINE v == Without(w, j)
           d == Without(c, j)
           m(i) == IF i < j THEN i ELSE i + 1
<1>1. Len(w) \in Nat /\ c \in Seq(Nat) /\ Len(c) = Len(w) /\ j \in 1 .. Len(c)
  BY DEF Line
<1>2. /\ v \in Seq(Packet) /\ Len(v) = Len(w) - 1
      /\ \A i \in 1 .. (Len(w) - 1) : v[i] = IF i < j THEN w[i] ELSE w[i + 1]
  BY WithoutIs
<1>3. /\ d \in Seq(Nat) /\ Len(d) = Len(c) - 1
      /\ \A i \in 1 .. (Len(c) - 1) : d[i] = IF i < j THEN c[i] ELSE c[i + 1]
  BY <1>1, WithoutIs
<1> HIDE DEF v, d
<1>4. ASSUME NEW i \in 1 .. Len(v)
      PROVE  v[i] = w[m(i)] /\ d[i] = c[m(i)] /\ m(i) \in 1 .. Len(w)
  <2>1. i \in 1 .. (Len(w) - 1) /\ i \in 1 .. (Len(c) - 1) /\ m(i) \in 1 .. Len(w)
    BY <1>1, <1>2
  <2>2. v[i] = (IF i < j THEN w[i] ELSE w[i + 1]) /\ d[i] = IF i < j THEN c[i] ELSE c[i + 1]
    BY <1>2, <1>3, <2>1, Zenon
  <2> QED BY <2>1, <2>2
<1>5. \A i, l \in 1 .. Len(v) : i < l => m(i) < m(l)
  BY <1>1
<1> HIDE DEF m
<1>6. ASSUME NEW i \in 1 .. Len(v)
      PROVE  /\ v[i].port <= p
             /\ v[i].port = p => d[i] \in (k + 1) .. Parts(f) /\ v[i] = Reply(p, f)[d[i]]
  BY <1>4, Zenon DEF Line
<1>7. ASSUME NEW i \in 1 .. Len(v), NEW l \in 1 .. Len(v), i < l, v[i].port = p, v[l].port = p
      PROVE  d[i] < d[l]
  <2>1. m(i) < m(l)
    BY <1>5, <1>7
  <2>2. v[i] = w[m(i)] /\ d[i] = c[m(i)] /\ m(i) \in 1 .. Len(w)
    BY <1>4, Zenon
  <2>3. v[l] = w[m(l)] /\ d[l] = c[m(l)] /\ m(l) \in 1 .. Len(w)
    BY <1>4, Zenon
  <2>4. w[m(i)].port = p /\ w[m(l)].port = p
    BY <1>7, <2>2, <2>3
  <2>5. c[m(i)] < c[m(l)]
    BY <2>1, <2>2, <2>3, <2>4, Zenon DEF Line
  <2> QED BY <2>2, <2>3, <2>5
<1>8. d \in Seq(Nat) /\ Len(d) = Len(v)
  BY <1>1, <1>2, <1>3
<1> QED BY <1>6, <1>7, <1>8 DEF Line, v, d

LEMMA LineTail ==
  ASSUME NEW w \in Seq(Packet), NEW c, NEW p, NEW f \in Files, NEW k \in Nat,
         Line(w, c, p, f, k), Len(w) > 0
  PROVE  /\ Line(Tail(w), Tail(c), p, f, k)
         /\ w[1].port = p => Line(Tail(w), Tail(c), p, f, c[1])
<1>1. c \in Seq(Nat) /\ Len(c) = Len(w) /\ 1 \in 1 .. Len(w) /\ Len(w) \in Nat
  BY DEF Line
<1>2. Line(Without(w, 1), Without(c, 1), p, f, k)
  BY <1>1, LineWithout
<1>3. Without(w, 1) = Tail(w) /\ Without(c, 1) = Tail(c)
  BY <1>1, WithoutFirst
<1>4. Line(Tail(w), Tail(c), p, f, k)
  BY <1>2, <1>3
<1>5. /\ Len(Tail(w)) = Len(w) - 1 /\ \A i \in 1 .. (Len(w) - 1) : Tail(w)[i] = w[i + 1]
  BY TailIs
<1>6. \A i \in 1 .. (Len(w) - 1) : Tail(c)[i] = c[i + 1]
  BY <1>1, TailIs
<1>7. ASSUME w[1].port = p, NEW i \in 1 .. Len(Tail(w)), Tail(w)[i].port = p,
             Tail(c)[i] \in (k + 1) .. Parts(f)
      PROVE  Tail(c)[i] \in (c[1] + 1) .. Parts(f)
  <2>1. i + 1 \in 1 .. Len(w) /\ 1 < i + 1 /\ w[i + 1].port = p /\ Tail(c)[i] = c[i + 1]
    BY <1>1, <1>5, <1>6, <1>7
  <2>2. c[1] < c[i + 1] /\ c[1] \in Nat /\ c[i + 1] \in Nat
    BY <1>1, <1>7, <2>1 DEF Line
  <2>3. Parts(f) \in Nat
    BY PartsAdd
  <2> DEFINE x == Tail(c)[i]
             a == c[1]
  <2>4. x \in (k + 1) .. Parts(f) /\ a < x /\ a \in Nat
    BY <1>7, <2>1, <2>2
  <2> HIDE DEF x, a
  <2>5. x \in (a + 1) .. Parts(f)
    BY <2>3, <2>4
  <2> QED BY <2>5 DEF x, a
<1> QED BY <1>4, <1>7 DEF Line

\* No packet of this port is under way.
LEMMA LineNone ==
  ASSUME NEW w \in Seq(Packet), NEW p, NEW f, NEW k, \A i \in 1 .. Len(w) : w[i].port < p,
         p \in Nat
  PROVE  \E c : Line(w, c, p, f, k)
<1> DEFINE c == [i \in 1 .. Len(w) |-> 0]
<1>1. Len(w) \in Nat /\ \A i \in 1 .. Len(w) : w[i] \in Packet
  OBVIOUS
<1>2. \A i \in 1 .. Len(w) : w[i].port \in Nat
  BY <1>1, LimitsAssumption DEF Packet
<1>3. c \in Seq(Nat) /\ Len(c) = Len(w)
  BY <1>1
<1>4. \A i \in 1 .. Len(w) : w[i].port <= p /\ w[i].port # p
  BY <1>2
<1> HIDE DEF c
<1>5. Line(w, c, p, f, k)
  BY <1>3, <1>4 DEF Line
<1> QED BY <1>5

\* The whole answer is under way.
LEMMA LineReply ==
  ASSUME NEW w \in Seq(Packet), NEW p \in 0 .. (NPorts - 1), NEW f \in Files,
         \A i \in 1 .. Len(w) : w[i].port < p
  PROVE  \E c : Line(w \o Reply(p, f), c, p, f, 0)
<1> DEFINE r == Reply(p, f)
           n == Len(w)
           v == w \o r
           c == [i \in 1 .. (n + Parts(f)) |-> IF i <= n THEN 0 ELSE i - n]
<1>1. r \in Seq(Packet) /\ Len(r) = Parts(f) /\ Parts(f) \in Nat /\ n \in Nat /\ p \in Nat
  BY ReplyParts, PartsAdd, LimitsAssumption
<1>2. \A i \in 1 .. n : w[i].port \in Nat
  <2>1. \A i \in 1 .. n : w[i] \in Packet
    OBVIOUS
  <2> QED BY <2>1, LimitsAssumption DEF Packet
<1>3. /\ v \in Seq(Packet) /\ Len(v) = n + Len(r)
      /\ \A i \in 1 .. n : v[i] = w[i]
      /\ \A i \in 1 .. Len(r) : v[n + i] = r[i]
  BY <1>1, SMTT(30)
<1>4. \A i \in 1 .. Parts(f) : r[i].port = p
  BY ReplyMarks
<1>5. c \in Seq(Nat) /\ Len(c) = n + Parts(f)
  <2> DEFINE q == n + Parts(f)
  <2>1. q \in Nat
    BY <1>1
  <2> HIDE DEF n, q
  <2>2. \A i \in 1 .. q : (IF i <= n THEN 0 ELSE i - n) \in Nat
    BY <1>1, <2>1
  <2>3. /\ [i \in 1 .. q |-> IF i <= n THEN 0 ELSE i - n] \in Seq(Nat)
        /\ Len([i \in 1 .. q |-> IF i <= n THEN 0 ELSE i - n]) = q
    BY <2>1, <2>2
  <2> QED BY <2>3 DEF q
<1>6. \A i \in 1 .. (n + Parts(f)) : c[i] = IF i <= n THEN 0 ELSE i - n
  OBVIOUS
<1> HIDE DEF c, v, r, n
<1>7. ASSUME NEW i \in 1 .. Len(v)
      PROVE  \/ i <= n /\ v[i].port < p /\ v[i].port \in Nat
             \/ /\ i > n /\ v[i].port = p /\ c[i] = i - n /\ c[i] \in 1 .. Parts(f)
                /\ v[i] = r[c[i]]
  <2>1. CASE i <= n
    BY <1>1, <1>2, <1>3, <2>1 DEF n
  <2>2. CASE ~(i <= n)
    <3>1. i - n \in 1 .. Parts(f) /\ n + (i - n) = i /\ i \in 1 .. (n + Parts(f))
      BY <1>1, <1>3, <2>2
    <3>2. v[i] = r[i - n] /\ c[i] = i - n /\ r[i - n].port = p
      BY <1>1, <1>3, <1>4, <1>6, <2>2, <3>1
    <3> QED BY <1>1, <2>2, <3>1, <3>2
  <2> QED BY <2>1, <2>2
<1>8. ASSUME NEW i \in 1 .. Len(v)
      PROVE  /\ v[i].port <= p
             /\ v[i].port = p => c[i] \in (0 + 1) .. Parts(f) /\ v[i] = r[c[i]]
  BY <1>1, <1>7
<1>9. ASSUME NEW i \in 1 .. Len(v), NEW j \in 1 .. Len(v), i < j, v[i].port = p, v[j].port = p
      PROVE  c[i] < c[j]
  BY <1>1, <1>7, <1>9
<1>10. Line(v, c, p, f, 0)
  BY <1>1, <1>3, <1>5, <1>8, <1>9 DEF Line, r
<1> QED BY <1>10 DEF v, r

\* No packet in w is of port p or later.
Earlier(w, p) == \A i \in 1 .. Len(w) : w[i].port < p

\* The manifest m read so far is the first k parts of f's, or too short for them.
Reading(w, p, f, h, m) ==
  /\ h = Geometry(f) /\ Len(m) < Len(ManifestOf(f))
  /\ \E k \in 1 .. Parts(f), c \in Seq(Nat) :
       /\ Line(w, c, p, f, k)
       /\ m = SubSeq(ManifestOf(f), 1, Upto(f, k)) \/ Len(m) < Upto(f, k)

LEMMA LineEarlier ==
  ASSUME NEW w \in Seq(Packet), NEW p \in Nat, NEW c, NEW f, NEW k, Line(w, c, p, f, k)
  PROVE  Earlier(w, p + 1)
<1>1. \A i \in 1 .. Len(w) : w[i] \in Packet
  OBVIOUS
<1>2. \A i \in 1 .. Len(w) : w[i].port \in Nat
  BY <1>1, LimitsAssumption DEF Packet
<1>3. \A i \in 1 .. Len(w) : w[i].port <= p
  BY DEF Line
<1> QED BY <1>2, <1>3 DEF Earlier

LEMMA EarlierWithout ==
  ASSUME NEW w \in Seq(Packet), NEW p, Earlier(w, p), NEW j \in 1 .. Len(w)
  PROVE  Earlier(Without(w, j), p)
<1> DEFINE v == Without(w, j)
<1>1. /\ Len(v) = Len(w) - 1 /\ Len(w) \in Nat
      /\ \A i \in 1 .. (Len(w) - 1) : v[i] = IF i < j THEN w[i] ELSE w[i + 1]
  BY WithoutIs
<1> HIDE DEF v
<1>2. ASSUME NEW i \in 1 .. Len(v) PROVE v[i].port < p
  <2>1. i \in 1 .. (Len(w) - 1) /\ i \in 1 .. Len(w) /\ i + 1 \in 1 .. Len(w)
    BY <1>1
  <2>2. v[i] = w[i] \/ v[i] = w[i + 1]
    BY <1>1, <2>1
  <2> QED BY <2>1, <2>2, Zenon DEF Earlier
<1> QED BY <1>2 DEF Earlier, v

LEMMA ReadingWithout ==
  ASSUME NEW w \in Seq(Packet), NEW p, NEW f \in Files, NEW h, NEW m,
         Reading(w, p, f, h, m), NEW j \in 1 .. Len(w)
  PROVE  Reading(Without(w, j), p, f, h, m)
<1>1. PICK k \in 1 .. Parts(f), c \in Seq(Nat) :
        /\ Line(w, c, p, f, k)
        /\ m = SubSeq(ManifestOf(f), 1, Upto(f, k)) \/ Len(m) < Upto(f, k)
  BY DEF Reading
<1>2. Line(Without(w, j), Without(c, j), p, f, k)
  BY <1>1, LineWithout
<1>3. Without(c, j) \in Seq(Nat)
  BY <1>2 DEF Line
<1> QED BY <1>1, <1>2, <1>3, Zenon DEF Reading

LEMMA UptoGrows ==
  ASSUME NEW f \in Files, NEW k \in 1 .. Parts(f), NEW l \in 1 .. Parts(f), k < l, l < Parts(f)
  PROVE  Upto(f, k) < Upto(f, l)
<1>1. Parts(f) \in Nat /\ ChunkLen \in Nat \ {0}
  BY PartsAdd, SizesAssumption
<1>2. ASSUME NEW j \in 1 .. Parts(f), j < Parts(f) PROVE Upto(f, j) = (j - 1) * ChunkLen
  <2>1. j + 1 \in 2 .. Parts(f) /\ (j + 1) - 1 = j /\ (j + 1) - 2 = j - 1
    BY <1>1, <1>2
  <2>2. Upto(f, (j + 1) - 1) = ((j + 1) - 2) * ChunkLen
    BY <2>1, PartsAdd
  <2> QED BY <2>1, <2>2
<1>3. Upto(f, k) = (k - 1) * ChunkLen /\ Upto(f, l) = (l - 1) * ChunkLen
  BY <1>1, <1>2
<1>4. (l - 1) * ChunkLen = (k - 1) * ChunkLen + (l - k) * ChunkLen
      /\ (l - k) * ChunkLen = ChunkLen + (l - k - 1) * ChunkLen
      /\ (l - k - 1) * ChunkLen \in Nat /\ (k - 1) * ChunkLen \in Nat
  BY <1>1
<1> QED BY <1>1, <1>3, <1>4

\* Reading the next packet of the connection.
LEMMA ReadingTake ==
  ASSUME NEW w \in Seq(Packet), NEW p \in 0 .. (NPorts - 1), NEW f \in Files, NEW h,
         NEW m \in Seq(ManifestByte), Reading(w, p, f, h, m), Len(w) > 0, w[1].port = p
  PROVE  LET x == Taken(m, w[1].bytes, Len(ManifestOf(f)))
         IN  /\ Len(x) < Len(ManifestOf(f)) => Reading(Tail(w), p, f, h, x)
             /\ ~(Len(x) < Len(ManifestOf(f))) => x = ManifestOf(f)
<1> DEFINE M == ManifestOf(f)
           x == Taken(m, w[1].bytes, Len(M))
<1>1. PICK k \in 1 .. Parts(f), c \in Seq(Nat) :
        /\ Line(w, c, p, f, k)
        /\ m = SubSeq(M, 1, Upto(f, k)) \/ Len(m) < Upto(f, k)
  BY DEF Reading
<1>2. /\ Parts(f) \in Nat /\ k \in Nat /\ 1 \in 1 .. Len(w) /\ Len(m) \in Nat
      /\ M \in Seq(ManifestByte) /\ Len(M) \in Nat /\ Len(m) < Len(M)
  BY PartsAdd, FileType DEF Reading
<1>3. c[1] \in (k + 1) .. Parts(f) /\ w[1] = Reply(p, f)[c[1]]
  BY <1>1, <1>2, Zenon DEF Line
<1> DEFINE l == c[1] - 1
<1>4. l \in 1 .. Parts(f) /\ l < Parts(f) /\ l + 1 = c[1] /\ k <= l /\ l + 1 \in 1 .. Parts(f)
  <2> DEFINE a == c[1]
  <2>1. a \in (k + 1) .. Parts(f) /\ l = a - 1
    BY <1>3
  <2> HIDE DEF a, l
  <2>2. l \in 1 .. Parts(f) /\ l < Parts(f) /\ l + 1 = a /\ k <= l /\ l + 1 \in 1 .. Parts(f)
    BY <1>2, <2>1
  <2> QED BY <2>2 DEF a
<1>5. w[1] = Reply(p, f)[l + 1]
  BY <1>3, <1>4
<1>6. Line(Tail(w), Tail(c), p, f, l + 1) /\ Tail(c) \in Seq(Nat)
  <2>1. Line(Tail(w), Tail(c), p, f, c[1])
    BY <1>1, <1>2, LineTail
  <2> QED BY <1>4, <2>1 DEF Line
<1> HIDE DEF l
<1>7. Upto(f, k) \in Nat /\ Upto(f, l) \in Nat /\ Upto(f, l + 1) \in 0 .. Len(M)
  BY <1>1, <1>2, <1>4, PartsAdd
<1>8. m = SubSeq(M, 1, Upto(f, l)) \/ Len(m) < Upto(f, l)
  <2>1. CASE k = l
    BY <1>1, <2>1
  <2>2. CASE k < l
    <3>1. Upto(f, k) < Upto(f, l)
      BY <1>4, <2>2, UptoGrows
    <3>2. m = SubSeq(M, 1, Upto(f, k)) => Len(m) = Upto(f, k)
      <4>1. Upto(f, k) \in 0 .. Len(M)
        BY PartsAdd
      <4> QED BY <1>2, <4>1
    <3> QED BY <1>1, <1>2, <1>7, <3>1, <3>2
  <2> QED BY <1>2, <1>4, <2>1, <2>2
<1>9. Len(m) <= Upto(f, l)
  <2>1. Upto(f, l) \in 0 .. Len(M)
    BY <1>4, PartsAdd
  <2>2. m = SubSeq(M, 1, Upto(f, l)) => Len(m) = Upto(f, l)
    BY <1>2, <2>1
  <2> QED BY <1>2, <1>7, <1>8, <2>2
<1>10. /\ Len(m) < Upto(f, l) => Len(x) < Upto(f, l + 1)
       /\ m = SubSeq(M, 1, Upto(f, l)) =>
            x = SubSeq(M, 1, Upto(f, l + 1)) /\ Len(x) = Upto(f, l + 1)
  <2> DEFINE y == Taken(m, Reply(p, f)[l + 1].bytes, Len(ManifestOf(f)))
  <2>1. /\ Len(m) < Upto(f, l) => Len(y) < Upto(f, l + 1)
        /\ m = SubSeq(ManifestOf(f), 1, Upto(f, l)) =>
             y = SubSeq(ManifestOf(f), 1, Upto(f, l + 1)) /\ Len(y) = Upto(f, l + 1)
    BY <1>2, <1>4, <1>9, TakePart
  <2>2. x = y
    BY <1>5
  <2> HIDE DEF x, y
  <2> QED BY <2>1, <2>2
<1> HIDE DEF x
<1>11. ASSUME Len(x) < Len(M) PROVE Reading(Tail(w), p, f, h, x)
  <2>1. x = SubSeq(M, 1, Upto(f, l + 1)) \/ Len(x) < Upto(f, l + 1)
    BY <1>8, <1>10
  <2>2. h = Geometry(f)
    BY DEF Reading
  <2> QED BY <1>4, <1>6, <1>11, <2>1, <2>2, Zenon DEF Reading
<1>12. ASSUME ~(Len(x) < Len(M)) PROVE x = M
  <2>1. x = SubSeq(M, 1, Upto(f, l + 1)) /\ Len(x) = Upto(f, l + 1)
    BY <1>2, <1>7, <1>8, <1>10, <1>12
  <2>2. Upto(f, l + 1) = Len(M)
    BY <1>2, <1>7, <1>12, <2>1
  <2>3. SubSeq(M, 1, Len(M)) = M
    <3> HIDE DEF M
    <3> QED BY <1>2
  <2> QED BY <2>1, <2>2, <2>3
<1> QED BY <1>11, <1>12 DEF x

\* Until the manifest is locked: each connection has a port of its own, its request is
\* the only one, and what is read is this server's answer.
Opening ==
  ~live =>
    /\ pc = "request" => /\ port <= attempt /\ reqs = <<>>
                         /\ Earlier(ctl, port + 1)
    /\ pc = "header" => /\ port <= attempt + 1
                        /\ \/ reqs = <<>> /\ \E c : Line(ctl, c, port, served, 0)
                           \/ /\ reqs # <<>> /\ Tail(reqs) = <<>> /\ Head(reqs).port = port
                              /\ Earlier(ctl, port)
    /\ pc = "manifest" => /\ port <= attempt + 1 /\ reqs = <<>>
                          /\ Reading(ctl, port, served, hdr, man)

\* The locked manifest is the one of the file being served.
Agreed ==
  live => /\ recv.total = served.size /\ recv.block = BlockSize
          /\ recv.expected = ManifestOf(served)

\* The server stays up.
Steady == up = TRUE /\ restarts = 0

LEMMA OpeningTypes ==
  ASSUME IInv
  PROVE  /\ port \in 0 .. (NPorts - 1) /\ port \in Nat /\ attempt \in Nat
         /\ ctl \in Seq(Packet) /\ served \in Files /\ NPorts \in Nat /\ MaxAttempts \in Nat
         /\ man \in Seq(ManifestByte) /\ hdr.nblocks \in Nat
  BY LimitsAssumption DEF IInv, TypeOK, Header

LEMMA OpeningFails ==
  ASSUME IInv, AttemptFails, port' = port, reqs' = <<>>,
         ~live => port <= attempt + 1 /\ Earlier(ctl', port + 1)
  PROVE  Opening'
<1>1. /\ live' = live /\ attempt' = attempt + 1 /\ pc' \in {"request", "done"}
  BY DEF AttemptFails
<1>2. pc' # "header" /\ pc' # "manifest"
  BY <1>1
<1>3. ~live => (port <= attempt + 1 /\ Earlier(ctl', port + 1))
  OBVIOUS
<1> QED BY <1>1, <1>2, <1>3 DEF Opening, Earlier

LEMMA OpeningExchange ==
  ASSUME NEW h, NEW m, ExchangeDone(h, m)
  PROVE  Opening'
<1>1. pc' \in {"drain", "done"}
  BY DEF ExchangeDone
<1> QED BY <1>1 DEF Opening

LEMMA AgreedExchange ==
  ASSUME Agreed, served' = served, NEW h, NEW m, ExchangeDone(h, m),
         ~live /\ NewOK(h.total, h.block, h.nblocks) =>
           h = Geometry(served) /\ m = ManifestOf(served)
  PROVE  Agreed'
<1>1. CASE live \/ ~NewOK(h.total, h.block, h.nblocks)
  <2>1. live' = live /\ recv' = recv
    BY <1>1 DEF ExchangeDone
  <2> QED BY <2>1 DEF Agreed
<1>2. CASE ~live /\ NewOK(h.total, h.block, h.nblocks)
  <2>1. recv' = NewTracker(h.total, h.block, h.nblocks, m)
    BY <1>2 DEF ExchangeDone
  <2>2. recv'.total = h.total /\ recv'.block = h.block /\ recv'.expected = m
    BY <2>1 DEF NewTracker
  <2>3. h = Geometry(served) /\ m = ManifestOf(served)
    BY <1>2
  <2>4. h.total = served.size /\ h.block = BlockSize
    BY <2>3 DEF Geometry
  <2> QED BY <2>2, <2>3, <2>4 DEF Agreed
<1> QED BY <1>1, <1>2

\* A control packet is lost or dropped.
LEMMA OpeningWithout ==
  ASSUME Opening, IInv, NEW j \in 1 .. Len(ctl), ctl' = Without(ctl, j),
         UNCHANGED <<live, pc, port, attempt, reqs, served, hdr, man>>
  PROVE  Opening'
<1>0. ctl \in Seq(Packet) /\ served \in Files
  BY OpeningTypes
<1>1. \A p : Earlier(ctl, p) => Earlier(ctl', p)
  BY <1>0, EarlierWithout
<1>2. ASSUME NEW c, Line(ctl, c, port, served, 0) PROVE \E d : Line(ctl', d, port, served, 0)
  BY <1>0, <1>2, LineWithout
<1>3. Reading(ctl, port, served, hdr, man) => Reading(ctl', port, served, hdr, man)
  BY <1>0, ReadingWithout
<1> SUFFICES ASSUME ~live PROVE Opening'
  BY DEF Opening
<1>4. CASE pc = "request"
  BY <1>1, <1>4 DEF Opening
<1>5. CASE pc = "header"
  BY <1>1, <1>2, <1>5 DEF Opening
<1>6. CASE pc = "manifest"
  BY <1>3, <1>6 DEF Opening
<1> QED BY <1>4, <1>5, <1>6 DEF Opening

LEMMA OpeningSend ==
  ASSUME Honest, Opening, IInv, SendRequest
  PROVE  Opening'
<1> SUFFICES ASSUME ~live PROVE Opening'
  BY DEF Opening, SendRequest, client
<1>1. /\ pc = "request" /\ pc' = "header" /\ port' = (port + 1) % NPorts
      /\ reqs' = Append(reqs, [port |-> port', ivs |-> ivs])
      /\ UNCHANGED <<live, attempt, ctl, served>>
  BY DEF SendRequest, client, server
<1>2. port <= attempt /\ reqs = <<>> /\ Earlier(ctl, port + 1)
  BY <1>1 DEF Opening
<1>3. attempt < MaxAttempts
  BY <1>1 DEF IInv, Control
<1>4. port + 1 < NPorts /\ port + 1 \in Nat
  BY <1>2, <1>3, OpeningTypes DEF Honest
<1>5. port' = port + 1
  <2>1. port + 1 = NPorts * 0 + (port + 1) /\ port + 1 \in 0 .. (NPorts - 1)
        /\ port + 1 \in Int /\ NPorts \in Nat \ {0}
    BY <1>4, OpeningTypes
  <2>2. (port + 1) % NPorts = port + 1
    BY <2>1, ModUnique
  <2> QED BY <1>1, <2>2
<1>6. reqs' # <<>> /\ Tail(reqs') = <<>> /\ Head(reqs').port = port'
  BY <1>1, <1>2
<1>7. port' <= attempt' + 1
  BY <1>1, <1>2, <1>5, OpeningTypes
<1>8. Earlier(ctl', port')
  BY <1>1, <1>2, <1>5
<1> QED BY <1>1, <1>6, <1>7, <1>8 DEF Opening

LEMMA OpeningServe ==
  ASSUME Opening, IInv, ServeRequest
  PROVE  Opening'
<1> SUFFICES ASSUME ~live PROVE Opening'
  BY DEF Opening, ServeRequest, client
<1>1. /\ reqs # <<>> /\ reqs' = Tail(reqs) /\ ctl' = ctl \o Reply(Head(reqs).port, served)
      /\ UNCHANGED <<live, attempt, port, pc, served, hdr, man>>
  BY DEF ServeRequest, client, server
<1>2. CASE pc = "header"
  <2>1. port <= attempt + 1 /\ Tail(reqs) = <<>> /\ Head(reqs).port = port /\ Earlier(ctl, port)
    BY <1>1, <1>2 DEF Opening
  <2>2. \E c : Line(ctl \o Reply(port, served), c, port, served, 0)
    BY <2>1, LineReply, OpeningTypes DEF Earlier
  <2>3. \E c : Line(ctl', c, port', served', 0)
    BY <1>1, <2>1, <2>2
  <2> QED BY <1>1, <1>2, <2>1, <2>3 DEF Opening
<1>3. CASE pc # "header"
  BY <1>1, <1>3 DEF Opening
<1> QED BY <1>2, <1>3

LEMMA OpeningLoseRequest ==
  ASSUME Opening, IInv, LoseRequest
  PROVE  Opening'
<1> SUFFICES ASSUME ~live PROVE Opening'
  BY DEF Opening, LoseRequest, client
<1>1. /\ reqs # <<>> /\ reqs' = Tail(reqs)
      /\ UNCHANGED <<live, attempt, port, pc, served, hdr, man, ctl>>
  BY DEF LoseRequest, client, server
<1>2. CASE pc = "header"
  <2>1. port <= attempt + 1 /\ Tail(reqs) = <<>> /\ Earlier(ctl, port)
    BY <1>1, <1>2 DEF Opening
  <2>2. \E c : Line(ctl, c, port, served, 0)
    BY <2>1, LineNone, OpeningTypes DEF Earlier
  <2> QED BY <1>1, <1>2, <2>1, <2>2 DEF Opening
<1>3. CASE pc # "header"
  BY <1>1, <1>3 DEF Opening
<1> QED BY <1>2, <1>3

LEMMA OpeningHeader ==
  ASSUME Opening, Agreed, IInv, ReadHeader
  PROVE  Opening' /\ Agreed'
<1>1. /\ pc = "header" /\ ctl # <<>> /\ Head(ctl).port = port /\ ctl' = Tail(ctl)
      /\ UNCHANGED <<port, served, reqs>>
  BY DEF ReadHeader, Readable, server
<1>2. /\ ctl \in Seq(Packet) /\ Len(ctl) > 0 /\ Head(ctl) = ctl[1] /\ 1 \in 1 .. Len(ctl)
      /\ port \in 0 .. (NPorts - 1) /\ port \in Nat /\ served \in Files
  BY <1>1, OpeningTypes
<1>3. CASE live
  <2>1. live'
    BY <1>3 DEF ReadHeader, ExchangeDone, AttemptFails
  <2>2. Opening'
    BY <2>1 DEF Opening
  <2>3. recv' = recv
    BY <1>3 DEF ReadHeader, ExchangeDone, AttemptFails
  <2> QED BY <1>1, <1>3, <2>1, <2>2, <2>3 DEF Agreed
<1>4. CASE ~live
  <2>0. ~Earlier(ctl, port)
    BY <1>1, <1>2 DEF Earlier
  <2>1. PICK c : port <= attempt + 1 /\ reqs = <<>> /\ Line(ctl, c, port, served, 0)
    BY <1>1, <1>4, <2>0 DEF Opening
  <2>2. /\ Line(Tail(ctl), Tail(c), port, served, 0)
        /\ Line(Tail(ctl), Tail(c), port, served, c[1])
    BY <1>1, <1>2, <2>1, LineTail
  <2>3. c[1] \in (0 + 1) .. Parts(served) /\ ctl[1] = Reply(port, served)[c[1]]
    BY <1>1, <1>2, <2>1, Zenon DEF Line
  <2>4. c[1] \in 1 .. Parts(served)
    BY <2>3
  <2>5. Head(ctl).magic <=> c[1] = 1
    BY <1>2, <2>3, <2>4, ReplyMarks
  <2>6. CASE ~Head(ctl).magic
    <3>1. AttemptFails
      BY <2>6 DEF ReadHeader
    <3>2. Earlier(Tail(ctl), port + 1)
      <4>1. Tail(ctl) \in Seq(Packet)
        BY <1>2
      <4> QED BY <1>2, <2>2, <4>1, LineEarlier
    <3>3. Opening'
      BY <1>1, <2>1, <3>1, <3>2, OpeningFails
    <3>4. live' = live
      BY <3>1 DEF AttemptFails
    <3> QED BY <1>4, <3>3, <3>4 DEF Agreed
  <2>7. CASE Head(ctl).magic
    <3>1. Head(ctl) = HeaderPacket(port, served)
      BY <1>2, <2>3, <2>5, <2>7, ReplyParts
    <3>2. Head(ctl).hdr = Geometry(served)
      BY <3>1, HeaderBytes
    <3>3. CASE Head(ctl).hdr.nblocks = 0
      <4>1. ExchangeDone(Head(ctl).hdr, <<>>)
        BY <2>7, <3>3 DEF ReadHeader
      <4>2. ~NewOK(Head(ctl).hdr.total, Head(ctl).hdr.block, Head(ctl).hdr.nblocks)
        BY <3>3 DEF NewOK
      <4> QED BY <1>1, <4>1, <4>2, AgreedExchange, OpeningExchange
    <3>4. CASE Head(ctl).hdr.nblocks # 0
      <4>1. hdr' = Head(ctl).hdr /\ man' = <<>> /\ pc' = "manifest"
            /\ UNCHANGED <<live, recv, attempt>>
        BY <2>7, <3>4 DEF ReadHeader
      <4>2. Len(ManifestOf(served)) > 0
        <5>1. NBlocks(served.size, BlockSize) # 0
          BY <3>2, <3>4 DEF Geometry
        <5> DEFINE n == NBlocks(served.size, BlockSize)
        <5>2. n \in Nat /\ n # 0 /\ Len(ManifestOf(served)) = n * DigestLen
          BY <1>2, <5>1, FileType
        <5>3. n * DigestLen > 0
          <6> HIDE DEF n
          <6>1. n * DigestLen = DigestLen + (n - 1) * DigestLen /\ (n - 1) * DigestLen \in Nat
            BY <5>2, DigestLenAssumption
          <6> QED BY <6>1, DigestLenAssumption
        <5> QED BY <5>2, <5>3
      <4>3. Reading(Tail(ctl), port, served, Head(ctl).hdr, <<>>)
        <5>1. Line(Tail(ctl), Tail(c), port, served, 1) /\ Tail(c) \in Seq(Nat)
          BY <2>2, <2>5, <2>7 DEF Line
        <5>2. 1 \in 1 .. Parts(served) /\ Upto(served, 1) = 0
          BY <1>2, PartsAdd
        <5>3. <<>> = SubSeq(ManifestOf(served), 1, Upto(served, 1))
          BY <1>2, <5>2, FileType
        <5>4. Len(<<>>) < Len(ManifestOf(served))
          BY <4>2
        <5> QED BY <3>2, <5>1, <5>2, <5>3, <5>4, Zenon DEF Reading
      <4>4. Opening'
        BY <1>1, <1>4, <2>1, <4>1, <4>3 DEF Opening
      <4> QED BY <1>4, <4>1, <4>4 DEF Agreed
    <3> QED BY <3>3, <3>4
  <2> QED BY <2>6, <2>7
<1> QED BY <1>3, <1>4

LEMMA OpeningManifest ==
  ASSUME Opening, Agreed, IInv, ReadManifest
  PROVE  Opening' /\ Agreed'
<1> DEFINE need == hdr.nblocks * DigestLen
           x == Taken(man, Head(ctl).bytes, need)
<1>1. /\ pc = "manifest" /\ ctl # <<>> /\ Head(ctl).port = port /\ ctl' = Tail(ctl)
      /\ UNCHANGED <<port, served, reqs, attempt, hdr>>
  BY DEF ReadManifest, Readable, server
<1>2. /\ ctl \in Seq(Packet) /\ Len(ctl) > 0 /\ Head(ctl) = ctl[1]
      /\ port \in 0 .. (NPorts - 1) /\ served \in Files /\ man \in Seq(ManifestByte)
  BY <1>1, OpeningTypes
<1>3. man' = x
  BY DEF ReadManifest, TakeBytes, Taken
<1>4. IF Len(x) < need THEN UNCHANGED <<pc, live, recv, result>> ELSE ExchangeDone(hdr, x)
  BY <1>3 DEF ReadManifest
<1> HIDE DEF x
<1>5. CASE live
  <2>1. live' /\ recv' = recv
    BY <1>4, <1>5 DEF ExchangeDone
  <2> QED BY <1>1, <1>5, <2>1 DEF Opening, Agreed
<1>6. CASE ~live
  <2>1. port <= attempt + 1 /\ reqs = <<>> /\ Reading(ctl, port, served, hdr, man)
    BY <1>1, <1>6 DEF Opening
  <2>2. hdr = Geometry(served)
    BY <2>1 DEF Reading
  <2>3. need = Len(ManifestOf(served))
    BY <1>2, <2>2, FileType DEF Geometry
  <2>4. x = Taken(man, ctl[1].bytes, Len(ManifestOf(served)))
    BY <1>2, <2>3 DEF x
  <2>5. /\ Len(x) < Len(ManifestOf(served)) => Reading(Tail(ctl), port, served, hdr, x)
        /\ ~(Len(x) < Len(ManifestOf(served))) => x = ManifestOf(served)
    BY <1>1, <1>2, <2>1, <2>4, ReadingTake
  <2> HIDE DEF need
  <2>6. CASE Len(x) < need
    <3>1. Reading(Tail(ctl), port, served, hdr, x)
      BY <2>3, <2>5, <2>6
    <3>2. UNCHANGED <<pc, live, recv>>
      BY <1>4, <2>6
    <3> QED BY <1>1, <1>3, <1>6, <2>1, <3>1, <3>2 DEF Opening, Agreed
  <2>7. CASE ~(Len(x) < need)
    <3>1. ExchangeDone(hdr, x) /\ x = ManifestOf(served)
      BY <1>4, <2>3, <2>5, <2>7
    <3> QED BY <1>1, <2>2, <3>1, AgreedExchange, OpeningExchange
  <2> QED BY <2>6, <2>7
<1> QED BY <1>5, <1>6

LEMMA OpeningTimeout ==
  ASSUME Honest, Opening, IInv, ReadTimeout
  PROVE  Opening'
<1>1. /\ pc \in {"header", "manifest"} /\ AttemptFails /\ UNCHANGED <<port, reqs, ctl, served>>
      /\ \A i \in 1 .. Len(reqs) : reqs[i].port # port
  BY DEF ReadTimeout, server, Honest
<1>2. live' = live
  BY <1>1 DEF AttemptFails
<1> SUFFICES ASSUME ~live PROVE Opening'
  BY <1>2 DEF Opening
<1>3. reqs \in Seq(Request)
  BY DEF IInv, TypeOK
<1>4. ~(reqs # <<>> /\ Head(reqs).port = port)
  BY <1>1, <1>3
<1>5. port <= attempt + 1 /\ reqs = <<>>
      /\ \E c, k : Line(ctl, c, port, served, k)
  BY <1>1, <1>4 DEF Opening, Reading
<1>6. Earlier(ctl, port + 1)
  BY <1>5, LineEarlier, OpeningTypes
<1> QED BY <1>1, <1>5, <1>6, OpeningFails

LEMMA OpeningConnect ==
  ASSUME Opening, IInv, ConnectFails
  PROVE  Opening'
<1>1. pc = "request" /\ AttemptFails /\ UNCHANGED <<port, reqs, ctl, served>>
  BY DEF ConnectFails, server
<1>2. live' = live
  BY <1>1 DEF AttemptFails
<1> SUFFICES ASSUME ~live PROVE Opening'
  BY <1>2 DEF Opening
<1>3. port <= attempt /\ reqs = <<>> /\ Earlier(ctl, port + 1)
  BY <1>1 DEF Opening
<1>4. port <= attempt + 1
  BY <1>3, OpeningTypes
<1> QED BY <1>1, <1>3, <1>4, OpeningFails

LEMMA AgreedKeep ==
  ASSUME Agreed, live' = live, served' = served, SameGeometry(recv, recv')
  PROVE  Agreed'
<1>1. recv'.total = recv.total /\ recv'.block = recv.block /\ recv'.expected = recv.expected
  BY DEF SameGeometry
<1> QED BY <1>1 DEF Agreed

LEMMA OpeningInit == Init => Steady /\ Opening /\ Agreed
<1> SUFFICES ASSUME Init PROVE Steady /\ Opening /\ Agreed
  OBVIOUS
<1>1. /\ up = TRUE /\ restarts = 0 /\ ctl = <<>> /\ reqs = <<>> /\ pc = "request"
      /\ live = FALSE /\ port = 0 /\ attempt = 0
  BY DEF Init
<1>2. Earlier(ctl, port + 1)
  BY <1>1 DEF Earlier
<1> QED BY <1>1, <1>2 DEF Steady, Opening, Agreed

LEMMA OpeningNext ==
  ASSUME Honest, Steady, Opening, Agreed, IInv, [Next]_vars
  PROVE  Steady' /\ Opening' /\ Agreed'
<1> DEFINE Goal == Steady' /\ Opening' /\ Agreed'
<1>1. SameGeometry(recv, recv)
  BY DEF SameGeometry
<1>2. ~ServeStop /\ ~ServeStart
  BY DEF ServeStop, ServeStart, Steady, Honest
<1>3. ASSUME SendRequest \/ ConnectFails \/ ReadTimeout \/ ServeRequest \/ LoseRequest
      PROVE  Goal
  <2>1. Opening'
    BY <1>3, OpeningSend, OpeningConnect, OpeningTimeout, OpeningServe, OpeningLoseRequest
  <2>2. UNCHANGED <<up, restarts, served, live, recv>>
    BY <1>3 DEF SendRequest, ConnectFails, ReadTimeout, ServeRequest, LoseRequest,
                AttemptFails, server, client
  <2> QED BY <1>1, <2>1, <2>2, AgreedKeep DEF Steady
<1>4. ASSUME ReadHeader \/ ReadManifest PROVE Goal
  <2>1. Opening' /\ Agreed'
    BY <1>4, OpeningHeader, OpeningManifest
  <2>2. UNCHANGED <<up, restarts>>
    BY <1>4 DEF ReadHeader, ReadManifest, server
  <2> QED BY <2>1, <2>2 DEF Steady
<1>5. ASSUME RouterDrop \/ LoseControl PROVE Goal
  <2>1. UNCHANGED <<up, restarts, served, live, recv, pc, port, attempt, reqs, hdr, man>>
    BY <1>5 DEF RouterDrop, LoseControl, server, client
  <2>2. \E j \in 1 .. Len(ctl) : ctl' = Without(ctl, j)
    <3>1. ctl \in Seq(Packet)
      BY OpeningTypes
    <3>2. CASE RouterDrop
      <4>1. ctl # <<>> /\ ctl' = Tail(ctl)
        BY <3>2 DEF RouterDrop
      <4>2. Len(ctl) > 0 /\ 1 \in 1 .. Len(ctl)
        BY <3>1, <4>1
      <4>3. ctl' = Without(ctl, 1)
        BY <3>1, <4>1, <4>2, WithoutFirst
      <4> QED BY <4>2, <4>3
    <3>3. CASE LoseControl
      BY <3>3 DEF LoseControl, Without
    <3> QED BY <1>5, <3>2, <3>3
  <2>3. Opening'
    BY <2>1, <2>2, OpeningWithout
  <2> QED BY <1>1, <2>1, <2>3, AgreedKeep DEF Steady
<1>6. ASSUME LoseData \/ UNCHANGED vars PROVE Goal
  <2>1. UNCHANGED <<up, restarts, served, live, recv, pc, port, attempt, reqs, ctl, hdr, man>>
    BY <1>6 DEF LoseData, server, client, vars
  <2>2. Opening'
    BY <2>1 DEF Opening
  <2> QED BY <1>1, <2>1, <2>2, AgreedKeep DEF Steady
<1>7. ASSUME \/ \E f \in wire : ReceiveData(f) \/ ReceiveDuplicate(f) \/ ReceiveDamaged(f)
             \/ DrainIdle \/ OpenFails \/ WriteFile
      PROVE  Goal
  <2>1. pc \in {"drain", "write"} /\ UNCHANGED <<up, restarts, served, live>>
    BY <1>7 DEF ReceiveData, ReceiveDuplicate, ReceiveDamaged, DrainIdle, OpenFails,
                WriteFile, server
  <2>2. live
    BY <2>1 DEF IInv, Control
  <2>3. Opening'
    BY <2>1, <2>2 DEF Opening
  <2>4. recv' = recv \/ \E o, b : recv' = Accept(recv, o, b)
    BY <1>7 DEF ReceiveData, ReceiveDuplicate, ReceiveDamaged, DrainIdle, OpenFails, WriteFile
  <2>5. CASE recv' = recv
    BY <1>1, <2>1, <2>3, <2>5, AgreedKeep DEF Steady
  <2>6. CASE \E o, b : recv' = Accept(recv, o, b)
    <3>1. PICK o, b : recv' = Accept(recv, o, b)
      BY <2>6
    <3>2. SameGeometry(recv, recv')
      BY <3>1 DEF Accept, SameGeometry
    <3> QED BY <2>1, <2>3, <3>2, AgreedKeep DEF Steady
  <2> QED BY <2>4, <2>5, <2>6
<1>8. Goal
  BY <1>2, <1>3, <1>4, <1>5, <1>6, <1>7, Zenon DEF Next, ClientStep, Terminated
<1> QED BY <1>8


-----------------------------------------------------------------------------
(* Every round repairs something.                                          *)

\* What the current round asks for.
AskedFor == Blasted(served, ivs)

\* The request of this round is still to be served.
Pending == pc = "request" \/ reqs # <<>>

\* The rounds that the faults so far still allow.
Left == RoundCost * faults + 1 - round

Running == pc \notin {"write", "done"}

\* Nothing is under way but what this round asks for.
Flight ==
  Running => /\ wire \subseteq AskedFor
             /\ \A i \in 1 .. Len(reqs) : reqs[i].ivs = ivs
             /\ Ends(recv, served, AskedFor)

\* What is left to repair takes no more rounds than are left.
Spend ==
  /\ RoundsBounded
  /\ Running => Owes(Pending, Left, recv, served, AskedFor, wire)

LEMMA WithinOf ==
  ASSUME NEW s, TrackerOK(s), NEW f, s.total = f.size \/ s.covered = {}
  PROVE  Within(s, f)
  BY DEF TrackerOK, Within

LEMMA LeftIs ==
  ASSUME IInv, faults' \in {faults, faults + 1}
  PROVE  /\ faults \in Nat /\ round \in Nat /\ Left \in Int
         /\ RoundCost * faults \in Nat
         /\ faults' = faults + 1 => RoundCost * faults' = RoundCost * faults + RoundCost
         /\ faults' = faults + 1 /\ round' = round => Left' = Left + RoundCost
         /\ faults' = faults /\ round' = round => Left' = Left
<1>1. faults \in Nat /\ round \in Nat /\ RoundCost \in Nat
  BY CostType, LimitsAssumption DEF IInv, TypeOK
<1>2. RoundCost * faults \in Nat
  BY <1>1
<1>3. RoundCost * (faults + 1) = RoundCost * faults + RoundCost
  BY <1>1
<1> DEFINE x == RoundCost * faults
<1>4. faults' = faults + 1 => RoundCost * faults' = x + RoundCost
  BY <1>3
<1>5. faults' = faults => RoundCost * faults' = x
  OBVIOUS
<1>6. Left = x + 1 - round /\ Left' = RoundCost * faults' + 1 - round'
  BY DEF Left
<1>7. x \in Nat
  BY <1>2
<1> HIDE DEF x
<1>8. Left \in Int
  BY <1>1, <1>6, <1>7
<1>9. faults' = faults + 1 /\ round' = round => Left' = Left + RoundCost
  BY <1>1, <1>4, <1>6, <1>7
<1>10. faults' = faults /\ round' = round => Left' = Left
  BY <1>5, <1>6
<1> QED BY <1>1, <1>4, <1>7, <1>8, <1>9, <1>10 DEF x

LEMMA BoundGrows ==
  ASSUME RoundsBounded, IInv, faults' \in {faults, faults + 1}, round' = round,
         result' = result \/ result' # "gave_up"
  PROVE  RoundsBounded'
<1> DEFINE x == RoundCost * faults
           y == RoundCost * faults'
<1>1. x \in Nat /\ round \in Nat /\ RoundCost \in Nat /\ (y = x \/ y = x + RoundCost)
  BY LeftIs, CostType
<1>2. round <= x + 1 /\ (result = "gave_up" => round <= x)
  BY DEF RoundsBounded
<1>3. RoundsBounded' <=> round' <= y + 1 /\ (result' = "gave_up" => round' <= y)
  BY DEF RoundsBounded
<1> HIDE DEF x, y
<1>4. x <= y /\ y \in Nat
  BY <1>1
<1>5. round <= y + 1 /\ (result = "gave_up" => round <= y)
  BY <1>1, <1>2, <1>4
<1> QED BY <1>3, <1>5

LEMMA RoundFacts ==
  ASSUME IInv, Agreed
  PROVE  /\ served \in Files /\ Within(recv, served) /\ ivs \in SUBSET ByteRange
         /\ reqs \in Seq(Request) /\ TrackerOK(recv)
         /\ live => /\ Tracks(recv, served.bytes) /\ recv.total = served.size
                    /\ recv.block = BlockSize
<1>1. /\ served \in Files /\ ivs \in SUBSET ByteRange /\ reqs \in Seq(Request) /\ TrackerOK(recv)
  BY DEF IInv, TypeOK
<1>2. CASE ~live
  <2>1. recv.covered = {}
    BY <1>2 DEF IInv, Control, NoTracker, NewTracker
  <2> QED BY <1>1, <1>2, <2>1, WithinOf
<1>3. CASE live
  <2>1. /\ recv.total = served.size /\ recv.block = BlockSize
        /\ recv.expected = ManifestOf(served)
        /\ NewOK(recv.total, recv.block, recv.nblocks)
    BY <1>3 DEF Agreed, IInv, Control
  <2>2. WellFormed(recv, Byte)
    BY WordAssumption DEF IInv, TypeOK, TrackerOK, CoverageExact, WellFormed
  <2>3. Tracks(recv, served.bytes)
    BY <1>1, <2>1, <2>2, FileType DEF Tracks, ManifestOf
  <2> QED BY <1>1, <1>3, <2>1, <2>3, WithinOf
<1> QED BY <1>2, <1>3


\* A new tracker lacks what no tracker lacks.
LEMMA NeedOfFresh ==
  ASSUME NEW s, s.covered = {}, NEW t, t.covered = {}, NEW f, NEW B, NEW w, NEW p, NEW n
  PROVE  /\ Owes(p, n, s, f, B, w) <=> Owes(p, n, t, f, B, w)
         /\ Ends(s, f, B) <=> Ends(t, f, B)
<1>1. ASSUME NEW v PROVE Need(s, f, B, v) = Need(t, f, B, v)
  <2>1. Cells(s, f, B, v) = Cells(t, f, B, v)
    BY DEF Cells
  <2>2. Wrong(s, f, v) = {} /\ Wrong(t, f, v) = {}
    BY DEF Wrong
  <2> QED BY <2>1, <2>2 DEF Need
<1>2. Owes(p, n, s, f, B, w) <=> Owes(p, n, t, f, B, w)
  BY <1>1 DEF Owes
<1> QED BY <1>2 DEF Ends

\* One fault more, and nothing of the data touched: a failed attempt asks again.
LEMMA OwesLater ==
  ASSUME IInv, Agreed, faults' \in {faults, faults + 1}, round' = round,
         NEW B, NEW w, w \subseteq B, NEW p, Owes(p, Left, recv, served, B, w)
  PROVE  Owes(p, Left', recv, served, B, w) /\ Owes(TRUE, Left', recv, served, B, w)
<1>1. Left \in Int /\ Left' \in Int /\ Left <= Left'
  <2>1. Left \in Int /\ RoundCost \in Nat /\ (Left' = Left \/ Left' = Left + RoundCost)
    BY LeftIs, CostType
  <2> HIDE DEF Left
  <2> QED BY <2>1
<1>2. served \in Files /\ Within(recv, served)
  BY RoundFacts
<1>3. Owes(p, Left', recv, served, B, w)
  BY <1>1, <1>2, OwesMore
<1>4. Owes(TRUE, Left', recv, served, B, w)
  BY <1>1, <1>2, <1>3, OwesRetry
<1> QED BY <1>3, <1>4

\* Steps of the control exchange.
LEMMA RoundControl ==
  ASSUME IInv, Agreed, Flight, Spend, pc \in {"request", "header", "manifest"},
         UNCHANGED <<served, reqs, wire, ivs, round>>, faults' \in {faults, faults + 1},
         recv' = recv \/ (recv.covered = {} /\ recv'.covered = {}),
         pc = "request" => pc' \in {"request", "done"},
         result' # "gave_up"
  PROVE  Flight' /\ Spend'
<1>1. Running /\ RoundsBounded /\ RoundsBounded'
  BY BoundGrows DEF Spend, Running
<1>2. wire \subseteq AskedFor /\ Ends(recv, served, AskedFor)
      /\ Owes(Pending, Left, recv, served, AskedFor, wire)
      /\ \A i \in 1 .. Len(reqs) : reqs[i].ivs = ivs
  BY <1>1 DEF Flight, Spend
<1>3. AskedFor' = AskedFor
  BY DEF AskedFor
<1>4. Owes(Pending, Left', recv, served, AskedFor, wire)
      /\ Owes(TRUE, Left', recv, served, AskedFor, wire)
  BY <1>2, OwesLater
<1>5. Pending' = Pending \/ Pending' = TRUE \/ pc' = "done"
  BY DEF Pending
<1>6. Running' => Owes(Pending', Left', recv, served, AskedFor, wire)
  BY <1>4, <1>5 DEF Running
<1>7. Running' => Owes(Pending', Left', recv', served, AskedFor, wire)
  BY <1>6, NeedOfFresh
<1>8. Ends(recv', served, AskedFor)
  BY <1>2, NeedOfFresh
<1>9. Flight'
  BY <1>2, <1>3, <1>8 DEF Flight
<1> QED BY <1>1, <1>3, <1>7, <1>9 DEF Spend


LEMMA RoundExchange ==
  ASSUME IInv, Agreed, Flight, Spend,
         ConnectFails \/ ReadHeader \/ ReadManifest \/ ReadTimeout
  PROVE  Flight' /\ Spend'
<1>1. /\ pc \in {"request", "header", "manifest"}
      /\ UNCHANGED <<served, reqs, wire, ivs, round>> /\ faults' \in {faults, faults + 1}
  BY DEF ConnectFails, ReadHeader, ReadManifest, ReadTimeout, AttemptFails, server
<1>2. pc = "request" => pc' \in {"request", "done"}
  BY DEF ConnectFails, ReadHeader, ReadManifest, ReadTimeout, AttemptFails
<1>3. result = "running"
  BY <1>1 DEF IInv, Control
<1>4. ASSUME NEW h, NEW m, ExchangeDone(h, m)
      PROVE  /\ result' # "gave_up"
             /\ recv' = recv \/ (recv.covered = {} /\ recv'.covered = {})
  <2>1. result' # "gave_up"
    BY <1>3, <1>4 DEF ExchangeDone
  <2>2. CASE recv' = recv
    BY <2>1, <2>2
  <2>3. CASE recv' # recv
    <3>1. ~live /\ recv' = NewTracker(h.total, h.block, h.nblocks, m)
      BY <1>4, <2>3 DEF ExchangeDone
    <3>2. recv = NoTracker
      BY <3>1 DEF IInv, Control
    <3> QED BY <2>1, <3>1, <3>2 DEF NewTracker, NoTracker
  <2> QED BY <2>2, <2>3
<1>5. ASSUME AttemptFails PROVE result' # "gave_up" /\ recv' = recv
  BY <1>3, <1>5 DEF AttemptFails
<1>6. /\ result' # "gave_up"
      /\ recv' = recv \/ (recv.covered = {} /\ recv'.covered = {})
  <2>1. \/ AttemptFails \/ (\E h, m : ExchangeDone(h, m)) \/ UNCHANGED <<recv, result>>
    BY DEF ConnectFails, ReadHeader, ReadManifest, ReadTimeout
  <2> QED BY <1>3, <1>4, <1>5, <2>1
<1> QED BY <1>1, <1>2, <1>6, RoundControl

LEMMA RoundSend ==
  ASSUME IInv, Agreed, Flight, Spend, SendRequest
  PROVE  Flight' /\ Spend'
<1>1. /\ pc = "request" /\ pc' = "header"
      /\ UNCHANGED <<served, wire, ivs, round, recv, result, faults>>
      /\ reqs' = Append(reqs, [port |-> port', ivs |-> ivs])
  BY DEF SendRequest, server, client
<1>2. Running /\ RoundsBounded' /\ Left' = Left
  BY <1>1, BoundGrows DEF Running, Spend, Left
<1>3. wire \subseteq AskedFor /\ Ends(recv, served, AskedFor)
      /\ Owes(Pending, Left, recv, served, AskedFor, wire)
      /\ \A i \in 1 .. Len(reqs) : reqs[i].ivs = ivs
  BY <1>2 DEF Flight, Spend
<1>4. AskedFor' = AskedFor /\ Pending = TRUE
  BY <1>1 DEF AskedFor, Pending
<1>5. reqs \in Seq(Request)
  BY RoundFacts
<1>6. \A i \in 1 .. Len(reqs') : reqs'[i].ivs = ivs
  BY <1>1, <1>3, <1>5
<1>7. Pending' = TRUE
  BY <1>1, <1>5 DEF Pending
<1>8. Flight'
  BY <1>1, <1>3, <1>4, <1>6 DEF Flight
<1> QED BY <1>1, <1>2, <1>3, <1>4, <1>7, <1>8 DEF Spend

LEMMA RoundServe ==
  ASSUME IInv, Agreed, Flight, Spend, ServeRequest
  PROVE  Flight' /\ Spend'
<1>1. /\ reqs # <<>> /\ reqs' = Tail(reqs)
      /\ UNCHANGED <<served, ivs, round, recv, result, faults, pc>>
      /\ wire' = wire \cup Blasted(served, Head(reqs).ivs)
  BY DEF ServeRequest, server, client
<1>2. Running' = Running /\ RoundsBounded' /\ Left' = Left /\ AskedFor' = AskedFor
  BY <1>1, BoundGrows DEF Running, Spend, Left, AskedFor
<1>3. CASE ~Running
  BY <1>2, <1>3 DEF Flight, Spend
<1>4. CASE Running
  <2>1. wire \subseteq AskedFor /\ Ends(recv, served, AskedFor)
        /\ Owes(Pending, Left, recv, served, AskedFor, wire)
        /\ \A i \in 1 .. Len(reqs) : reqs[i].ivs = ivs
    BY <1>4 DEF Flight, Spend
  <2>2. reqs \in Seq(Request) /\ served \in Files /\ Within(recv, served)
    BY RoundFacts
  <2>3. Head(reqs).ivs = ivs /\ Pending = TRUE
    BY <1>1, <2>1, <2>2 DEF Pending
  <2>4. wire' = AskedFor
    BY <1>1, <2>1, <2>3 DEF AskedFor
  <2>5. \A i \in 1 .. Len(reqs') : reqs'[i].ivs = ivs
    BY <1>1, <2>1, <2>2
  <2>6. Left \in Int
    BY <1>1, LeftIs
  <2>7. Owes(Pending', Left, recv, served, AskedFor, AskedFor)
    BY <2>1, <2>2, <2>3, <2>6, OwesServed
  <2>8. Flight'
    BY <1>1, <1>2, <2>1, <2>4, <2>5 DEF Flight
  <2> QED BY <1>1, <1>2, <2>4, <2>7, <2>8 DEF Spend
<1> QED BY <1>3, <1>4

LEMMA RoundLoseRequest ==
  ASSUME IInv, Agreed, Steady, Flight, Spend, LoseRequest
  PROVE  Flight' /\ Spend'
<1>1. /\ reqs # <<>> /\ reqs' = Tail(reqs)
      /\ UNCHANGED <<served, ivs, round, recv, result, wire, pc>>
      /\ faults' = faults + 1
  BY DEF LoseRequest, server, client, Steady
<1>2. Running' = Running /\ RoundsBounded' /\ Left' = Left + RoundCost /\ AskedFor' = AskedFor
  BY <1>1, BoundGrows, LeftIs DEF Running, Spend, AskedFor
<1>3. CASE ~Running
  BY <1>2, <1>3 DEF Flight, Spend
<1>4. CASE Running
  <2>1. wire \subseteq AskedFor /\ Ends(recv, served, AskedFor)
        /\ Owes(Pending, Left, recv, served, AskedFor, wire)
        /\ \A i \in 1 .. Len(reqs) : reqs[i].ivs = ivs
    BY <1>4 DEF Flight, Spend
  <2>2. reqs \in Seq(Request) /\ served \in Files /\ Within(recv, served)
    BY RoundFacts
  <2>3. Pending = TRUE
    BY <1>1 DEF Pending
  <2>4. \A i \in 1 .. Len(reqs') : reqs'[i].ivs = ivs
    BY <1>1, <2>1, <2>2
  <2>5. Left \in Int /\ Left + 1 \in Int /\ Left' \in Int /\ Left + 1 <= Left'
    <3>1. Left \in Int /\ RoundCost \in Nat /\ RoundCost >= 1
      BY <1>1, LeftIs, CostType
    <3> HIDE DEF Left
    <3> QED BY <1>2, <3>1
  <2>6. Owes(Pending', Left + 1, recv, served, AskedFor, wire)
    BY <2>1, <2>2, <2>3, <2>5, OwesLost
  <2>7. Owes(Pending', Left', recv, served, AskedFor, wire)
    BY <2>2, <2>5, <2>6, OwesMore
  <2>8. Flight'
    BY <1>1, <1>2, <2>1, <2>4 DEF Flight
  <2> QED BY <1>1, <1>2, <2>7, <2>8 DEF Spend
<1> QED BY <1>3, <1>4

\* Control packets come and go without effect on the data.
LEMMA RoundIdle ==
  ASSUME IInv, Agreed, Flight, Spend, RouterDrop \/ LoseControl \/ UNCHANGED vars
  PROVE  Flight' /\ Spend'
<1>1. /\ UNCHANGED <<served, ivs, round, recv, result, wire, pc, reqs>>
      /\ faults' \in {faults, faults + 1}
  BY DEF RouterDrop, LoseControl, vars, server, client
<1>2. /\ Running' = Running /\ RoundsBounded' /\ AskedFor' = AskedFor /\ Pending' = Pending
      /\ Flight' = Flight
  BY <1>1, BoundGrows DEF Running, Spend, AskedFor, Pending, Flight
<1>3. Running => Owes(Pending, Left', recv, served, AskedFor, wire)
  BY <1>1, OwesLater DEF Flight, Spend
<1> QED BY <1>1, <1>2, <1>3 DEF Spend


\* A data packet is lost or lands: at most k things more are to be repaired.
LEMMA RoundData ==
  ASSUME IInv, Agreed, Flight, Spend, Running, Within(recv', served),
         UNCHANGED <<served, ivs, round, result, pc, reqs>>, wire' \subseteq wire,
         recv.covered \subseteq recv'.covered,
         NEW T, IsFiniteSet(T), NEW k \in Nat, Cardinality(T) <= k,
         \/ faults' = faults /\ k = 0
         \/ faults' = faults + 1 /\ k <= RoundCost,
         Need(recv', served, AskedFor, AskedFor) \subseteq
           Need(recv, served, AskedFor, AskedFor) \cup T,
         Need(recv', served, AskedFor, wire') \subseteq Need(recv, served, AskedFor, wire) \cup T
  PROVE  Flight' /\ Spend'
<1>1. /\ RoundsBounded' /\ AskedFor' = AskedFor /\ Pending' = Pending
  BY BoundGrows DEF Spend, AskedFor, Pending
<1>2. wire \subseteq AskedFor /\ Ends(recv, served, AskedFor)
      /\ Owes(Pending, Left, recv, served, AskedFor, wire)
      /\ \A i \in 1 .. Len(reqs) : reqs[i].ivs = ivs
  BY DEF Flight, Spend
<1>3. served \in Files /\ Within(recv, served)
  BY RoundFacts
<1>4. Left \in Int /\ Left + k \in Int /\ Left' \in Int /\ Left + k <= Left'
  <2>1. Left \in Int /\ RoundCost \in Nat
        /\ (faults' = faults => Left' = Left) /\ (faults' = faults + 1 => Left' = Left + RoundCost)
    BY LeftIs, CostType
  <2> HIDE DEF Left
  <2> QED BY <2>1
<1>5. Owes(Pending, Left + k, recv', served, AskedFor, wire')
  BY <1>2, <1>3, <1>4, OwesGrow
<1>6. Owes(Pending, Left', recv', served, AskedFor, wire')
  BY <1>3, <1>4, <1>5, OwesMore
<1>7. Ends(recv', served, AskedFor)
  BY <1>2 DEF Ends
<1>8. Flight'
  BY <1>1, <1>2, <1>7 DEF Flight
<1> QED BY <1>1, <1>6, <1>8 DEF Spend

LEMMA RoundLoseData ==
  ASSUME IInv, Agreed, Flight, Spend, LoseData
  PROVE  Flight' /\ Spend'
<1>1. /\ UNCHANGED <<served, ivs, round, recv, result, pc, reqs>>
      /\ faults' = faults + 1 /\ \E f \in wire : wire' = wire \ {f}
  BY DEF LoseData, server, client
<1>2. CASE ~Running
  BY <1>1, <1>2, BoundGrows DEF Flight, Spend, Running
<1>3. CASE Running
  <2>1. PICK g \in wire : wire' = wire \ {g}
    BY <1>1
  <2>2. wire \subseteq AskedFor /\ g.off \in Nat /\ Len(g.buf) \in Nat
    BY <1>3 DEF Flight, IInv, TypeOK, Fragment
  <2> DEFINE T == {LossMark(recv, g)}
  <2>3. Need(recv, served, AskedFor, wire \ {g}) \subseteq Need(recv, served, AskedFor, wire) \cup T
    BY <2>2, NeedOfLoss
  <2>4. IsFiniteSet(T) /\ Cardinality(T) = 1
    BY FS_Singleton
  <2>5. 1 <= RoundCost /\ Within(recv, served)
    BY CostType, RoundFacts
  <2> HIDE DEF T
  <2>6. /\ Need(recv', served, AskedFor, AskedFor) \subseteq
             Need(recv, served, AskedFor, AskedFor) \cup T
        /\ Need(recv', served, AskedFor, wire') \subseteq Need(recv, served, AskedFor, wire) \cup T
        /\ recv.covered \subseteq recv'.covered /\ Within(recv', served) /\ wire' \subseteq wire
        /\ Cardinality(T) <= 1
    BY <1>1, <2>1, <2>3, <2>4, <2>5
  <2> QED BY <1>1, <1>3, <2>4, <2>5, <2>6, RoundData
<1> QED BY <1>2, <1>3

\* What a data step knows.
LEMMA DataFacts ==
  ASSUME IInv, Agreed, Flight, pc = "drain", NEW g \in wire, NEW o \in Nat, NEW b \in Seq(Byte),
         recv' = Accept(recv, o, b)
  PROVE  /\ Running /\ live /\ served \in Files /\ wire \subseteq AskedFor
         /\ recv.total = served.size /\ Within(recv, served) /\ Fits(g, served)
         /\ Within(recv', served) /\ recv.covered \subseteq recv'.covered
         /\ Ends(recv, served, AskedFor)
<1>1. Running /\ live
  BY DEF Running, IInv, Control
<1>2. served \in Files /\ recv.total = served.size /\ Within(recv, served)
      /\ WellFormed(recv, Byte) /\ ivs \in SUBSET ByteRange
  BY <1>1, RoundFacts DEF Tracks
<1>3. wire \subseteq AskedFor /\ Ends(recv, served, AskedFor)
  BY <1>1 DEF Flight
<1>4. Fits(g, served)
  BY <1>2, <1>3, BlastedFits DEF AskedFor
<1>5. WellFormed(recv', Byte) /\ SameGeometry(recv, recv') /\ recv.covered \subseteq recv'.covered
  BY <1>2, AcceptPreserves
<1>6. Within(recv', served)
  BY <1>2, <1>5 DEF WellFormed, SameGeometry, Within
<1> QED BY <1>1, <1>2, <1>3, <1>4, <1>5, <1>6

LEMMA RoundReceive ==
  ASSUME IInv, Agreed, Flight, Spend, NEW g \in wire, ReceiveData(g) \/ ReceiveDuplicate(g)
  PROVE  Flight' /\ Spend'
<1>1. /\ pc = "drain" /\ UNCHANGED <<served, ivs, round, result, pc, reqs>>
      /\ recv' = Accept(recv, g.off, g.buf)
      /\ wire' \subseteq wire /\ wire \ {g} \subseteq wire'
      /\ faults' \in {faults, faults + 1}
  BY DEF ReceiveData, ReceiveDuplicate, server
<1>2. g.off \in Nat /\ g.buf \in Seq(Byte)
  BY DEF IInv, TypeOK, Fragment
<1>3. /\ Running /\ served \in Files /\ wire \subseteq AskedFor
      /\ recv.total = served.size /\ Within(recv, served) /\ Fits(g, served)
      /\ Within(recv', served) /\ recv.covered \subseteq recv'.covered
      /\ Ends(recv, served, AskedFor)
  BY <1>1, <1>2, DataFacts
<1>4. Need(recv', served, AskedFor, wire') \subseteq Need(recv, served, AskedFor, wire)
  BY <1>1, <1>3, NeedOfArrival
<1>5. Need(recv', served, AskedFor, AskedFor) \subseteq
        Need(recv, served, AskedFor, AskedFor)
  <2>1. AskedFor \subseteq AskedFor /\ g \in AskedFor /\ AskedFor \ {g} \subseteq AskedFor
    BY <1>3
  <2> QED BY <1>1, <1>3, <2>1, NeedOfArrival
<1>6. IsFiniteSet({}) /\ Cardinality({}) = 0 /\ 0 \in Nat /\ 0 <= RoundCost
  BY FS_EmptySet, CostType
<1> QED BY <1>1, <1>3, <1>4, <1>5, <1>6, RoundData

LEMMA RoundDamaged ==
  ASSUME IInv, Agreed, Flight, Spend, NEW g \in wire, ReceiveDamaged(g)
  PROVE  Flight' /\ Spend'
<1>1. /\ pc = "drain" /\ UNCHANGED <<served, ivs, round, result, pc, reqs>>
      /\ wire' = wire \ {g} /\ faults' = faults + 1
      /\ \E o \in 0 .. recv.total, b \in [1 .. Len(g.buf) -> Byte] : recv' = Accept(recv, o, b)
  BY DEF ReceiveDamaged, server
<1>2. PICK o \in 0 .. recv.total, b \in [1 .. Len(g.buf) -> Byte] : recv' = Accept(recv, o, b)
  BY <1>1
<1>3. recv.total \in Nat /\ Len(g.buf) \in Nat /\ g.off \in Nat
  BY WordAssumption DEF IInv, TypeOK, TrackerOK, Fragment
<1>4. o \in Nat /\ b \in Seq(Byte) /\ Len(b) = Len(g.buf)
  BY <1>3
<1>5. /\ Running /\ served \in Files /\ wire \subseteq AskedFor
      /\ recv.total = served.size /\ Within(recv, served) /\ Fits(g, served)
      /\ Within(recv', served) /\ recv.covered \subseteq recv'.covered
  BY <1>1, <1>2, <1>4, DataFacts
<1>6. Len(b) \in 0 .. Pay /\ Len(b) \in Nat
  BY <1>3, <1>4, <1>5, SizesAssumption DEF Fits
<1> DEFINE S == Spoiled(o, Len(b))
           T == S \cup {LossMark(recv, g)}
<1>7. /\ Need(recv', served, AskedFor, AskedFor) \subseteq
           Need(recv, served, AskedFor, AskedFor) \cup S
      /\ Need(recv', served, AskedFor, wire') \subseteq Need(recv, served, AskedFor, wire') \cup S
  BY <1>2, <1>4, <1>5, <1>6, NeedOfLanding
<1>8. Need(recv, served, AskedFor, wire') \subseteq
        Need(recv, served, AskedFor, wire) \cup {LossMark(recv, g)}
  BY <1>1, <1>3, <1>5, NeedOfLoss
<1>9. IsFiniteSet(S) /\ Cardinality(S) + 1 <= RoundCost /\ Cardinality(S) \in Nat
  BY <1>4, <1>6, SpoiledFew, FS_CardinalityType
<1> HIDE DEF S
<1>10. IsFiniteSet(T) /\ Cardinality(T) <= RoundCost
  <2>1. IsFiniteSet(T) /\ (Cardinality(T) = Cardinality(S) \/ Cardinality(T) = Cardinality(S) + 1)
    BY <1>9, FS_AddElement
  <2> HIDE DEF T
  <2> QED BY <1>9, <2>1, CostType
<1>11. /\ Need(recv', served, AskedFor, AskedFor) \subseteq
            Need(recv, served, AskedFor, AskedFor) \cup T
       /\ Need(recv', served, AskedFor, wire') \subseteq Need(recv, served, AskedFor, wire) \cup T
  BY <1>7, <1>8
<1>12. wire' \subseteq wire /\ RoundCost \in Nat /\ RoundCost <= RoundCost
  BY <1>1, CostType
<1> HIDE DEF T
<1> QED BY <1>1, <1>5, <1>10, <1>11, <1>12, RoundData


LEMMA RoundDrained ==
  ASSUME Honest, IInv, Agreed, Flight, Spend, DrainIdle
  PROVE  Flight' /\ Spend'
<1>1. /\ pc = "drain" /\ wire = {} /\ reqs = <<>>
      /\ UNCHANGED <<served, recv, wire, reqs, faults>>
  BY DEF DrainIdle, server, Honest
<1>2. Running /\ live /\ result = "running"
  BY <1>1 DEF Running, IInv, Control
<1>3. CASE Status(recv) = "COMPLETE_VERIFIED"
  <2>1. pc' = "write" /\ round' = round /\ result' = result
    BY <1>3 DEF DrainIdle
  <2> QED BY <1>1, <2>1, BoundGrows DEF Running, Flight, Spend
<1>4. CASE Status(recv) # "COMPLETE_VERIFIED"
  <2> DEFINE V == FirstRanges(Ranges(recv), MaxIntervals)
             D == Blasted(served, V)
             N == Cardinality(Need(recv, served, AskedFor, {}))
             M == Cardinality(Need(recv, served, D, D))
             x == RoundCost * faults
  <2>1. ivs' = V
    BY <1>4 DEF DrainIdle
  <2>2. /\ served \in Files /\ Within(recv, served) /\ Tracks(recv, served.bytes)
        /\ recv.total = served.size /\ recv.block = BlockSize
    BY <1>2, RoundFacts
  <2>3. Ends(recv, served, D) /\ M < N /\ Cardinality(Need(recv, served, D, {})) = N
    BY <1>4, <2>2, NextAsk
  <2>4. M \in Nat /\ N \in Nat
    BY <2>2, NeedFinite
  <2>5. N <= Left
    BY <1>1, <1>2 DEF Spend, Owes, Pending
  <2>6. /\ x \in Nat /\ round \in Nat /\ Left = x + 1 - round
    BY <1>1, LeftIs DEF Left
  <2>7. AskedFor' = D
    BY <1>1, <2>1 DEF AskedFor
  <2>8. Flight'
    BY <1>1, <2>3, <2>7 DEF Flight
  <2> HIDE DEF V, D, M, N, Left
  <2>9. RoundCost * faults' = x
    BY <1>1
  <2> HIDE DEF x
  <2>10. N >= 1 /\ Left >= 1 /\ Left \in Int /\ round <= x /\ M <= Left - 1 /\ N <= (Left - 1) + 1
    BY <2>3, <2>4, <2>5, <2>6
  <2>11. CASE round < MaxRounds
    <3>1. pc' = "request" /\ round' = round + 1 /\ result' = result
      BY <1>4, <2>11 DEF DrainIdle
    <3>2. Left' = Left - 1
      BY <2>6, <2>9, <3>1 DEF Left
    <3>3. Owes(TRUE, Left - 1, recv, served, D, {})
      BY <2>3, <2>10 DEF Owes, M
    <3>4. Owes(Pending', Left', recv', served', AskedFor', wire')
      BY <1>1, <2>7, <3>1, <3>2, <3>3 DEF Pending
    <3>5. round' <= RoundCost * faults' + 1
      BY <2>6, <2>9, <2>10, <3>1
    <3>6. RoundsBounded'
      BY <1>2, <3>1, <3>5 DEF RoundsBounded
    <3> QED BY <2>8, <3>4, <3>6 DEF Spend
  <2>12. CASE ~(round < MaxRounds)
    <3>1. pc' = "done" /\ round' = round
      BY <1>4, <2>12 DEF DrainIdle
    <3>2. round' <= RoundCost * faults' /\ round' <= RoundCost * faults' + 1
      BY <2>6, <2>9, <2>10, <3>1
    <3>3. RoundsBounded'
      BY <3>2 DEF RoundsBounded
    <3> QED BY <2>8, <3>1, <3>3 DEF Spend, Running
  <2> QED BY <2>11, <2>12
<1> QED BY <1>3, <1>4

LEMMA RoundInit == Init => Flight /\ Spend
<1> SUFFICES ASSUME Init PROVE Flight /\ Spend
  OBVIOUS
<1>1. /\ served \in Files /\ wire = {} /\ reqs = <<>> /\ pc = "request" /\ ivs = {}
      /\ recv = NoTracker /\ faults = 0 /\ round = 1 /\ result = "running"
  BY DEF Init
<1>2. recv.covered = {} /\ Within(recv, served)
  BY <1>1 DEF NoTracker, NewTracker, Within
<1>3. AskedFor = Blasted(served, {}) /\ Ends(recv, served, AskedFor)
  BY <1>1, EndsWhole DEF AskedFor
<1>4. Flight
  BY <1>1, <1>3 DEF Flight
<1>5. RoundCost * faults = 0 /\ Left = 0
  BY <1>1, CostType DEF Left
<1>6. Need(recv, served, AskedFor, {}) \subseteq {0}
  BY <1>2 DEF Need, Cells, Wrong
<1>7. Need(recv, served, AskedFor, AskedFor) = {}
  <2>1. served.size \in Nat
    BY <1>1, FileType
  <2>2. served.size > 0 => 0 \in Offs(AskedFor)
    <3> SUFFICES ASSUME served.size > 0 PROVE 0 \in Offs(AskedFor)
      OBVIOUS
    <3> DEFINE iv == Interval(0, served.size)
    <3>1. AskedFor = BlastInterval(served, iv) /\ Sendable(served, iv) /\ iv.start = 0
          /\ iv.start < iv.end
      BY <1>3, <2>1 DEF Blasted, Sendable, Interval
    <3> HIDE DEF iv
    <3> QED BY <1>1, <3>1, BlastFirst DEF Offs
  <2>3. Cells(recv, served, AskedFor, AskedFor) = {}
    <3> SUFFICES ASSUME NEW x \in Cells(recv, served, AskedFor, AskedFor) PROVE FALSE
      OBVIOUS
    <3>1. x \in 0 .. (served.size - 1) /\ x = 0
      BY <1>2 DEF Cells
    <3>2. 0 \in Offs(AskedFor)
      BY <2>1, <2>2, <3>1
    <3>3. AskedFor # {}
      BY <3>2 DEF Offs
    <3> QED BY <3>1, <3>2, <3>3 DEF Cells
  <2>4. Wrong(recv, served, AskedFor) = {}
    BY <1>2 DEF Wrong
  <2> QED BY <2>3, <2>4 DEF Need
<1>8. IsFiniteSet({0}) /\ Cardinality({0}) = 1 /\ Cardinality({}) = 0
  BY FS_Singleton, FS_EmptySet
<1>9. Cardinality(Need(recv, served, AskedFor, {})) <= 1
  BY <1>6, <1>8, FS_Subset
<1>10. Owes(TRUE, 0, recv, served, AskedFor, {})
  BY <1>7, <1>8, <1>9 DEF Owes
<1>11. Pending = TRUE
  BY <1>1 DEF Pending
<1>12. RoundsBounded
  BY <1>1, <1>5 DEF RoundsBounded
<1> QED BY <1>1, <1>4, <1>5, <1>10, <1>11, <1>12 DEF Spend

LEMMA RoundNext ==
  ASSUME Honest, Steady, Agreed, IInv, Flight, Spend, [Next]_vars
  PROVE  Flight' /\ Spend'
<1> DEFINE Goal == Flight' /\ Spend'
<1>1. ~ServeStop /\ ~ServeStart
  BY DEF ServeStop, ServeStart, Steady, Honest
<1>2. ASSUME SendRequest \/ ConnectFails \/ ReadHeader \/ ReadManifest \/ ReadTimeout
      PROVE  Goal
  BY <1>2, RoundSend, RoundExchange
<1>3. ASSUME ServeRequest \/ LoseRequest \/ LoseData PROVE Goal
  BY <1>3, RoundServe, RoundLoseRequest, RoundLoseData
<1>4. ASSUME RouterDrop \/ LoseControl \/ UNCHANGED vars PROVE Goal
  BY <1>4, RoundIdle
<1>5. ASSUME NEW f \in wire, ReceiveData(f) \/ ReceiveDuplicate(f) \/ ReceiveDamaged(f)
      PROVE  Goal
  BY <1>5, RoundReceive, RoundDamaged
<1>6. ASSUME DrainIdle PROVE Goal
  BY <1>6, RoundDrained
<1>7. ASSUME OpenFails \/ WriteFile PROVE Goal
  <2>1. /\ pc' = "done" /\ round' = round /\ faults' = faults /\ result' # "gave_up"
    BY <1>7 DEF OpenFails, WriteFile
  <2>2. RoundsBounded'
    BY <2>1, BoundGrows DEF Spend
  <2> QED BY <2>1, <2>2 DEF Running, Flight, Spend
<1> HIDE DEF Goal
<1>8. Goal
  BY <1>1, <1>2, <1>3, <1>4, <1>5, <1>6, <1>7, Zenon DEF Next, ClientStep, Terminated
<1> QED BY <1>8 DEF Goal

\* With honest time-outs and a server that stays up, svu_client_run repeats a round
\* only because of a fault: each fault costs at most RoundCost rounds, and the client
\* gives up for want of rounds only when faults used them all, whatever the file, the
\* block size, the packet size and the number of ranges a request may carry.
THEOREM RoundsAreBounded ==
  ASSUME Honest
  PROVE  Spec => []RoundsBounded
<1> DEFINE I == Steady /\ Opening /\ Agreed /\ Flight /\ Spend
<1>1. Init => I
  BY OpeningInit, RoundInit
<1>2. I /\ IInv /\ [Next]_vars => I'
  <2> SUFFICES ASSUME I, IInv, [Next]_vars PROVE I'
    OBVIOUS
  <2>1. Steady' /\ Opening' /\ Agreed'
    BY OpeningNext
  <2>2. Flight' /\ Spend'
    BY RoundNext
  <2> QED BY <2>1, <2>2
<1>3. I => RoundsBounded
  BY DEF Spend
<1> HIDE DEF I
<1> QED BY <1>1, <1>2, <1>3, Invariance, PTL DEF Spec

=============================================================================
