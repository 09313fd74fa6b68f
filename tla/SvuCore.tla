------------------------------ MODULE SvuCore ------------------------------
(***************************************************************************)
(* The Self-Verifying Uploader core (lib/ci_svu.c) as pure operators: the  *)
(* block geometry, the per-block manifest, the receiver's tracker and the  *)
(* completion verdict with the ranges to re-request.                       *)
(*                                                                         *)
(* A payload is a record: size (uint32_t) and bytes, a function on         *)
(* 0 .. size-1.  SHA-256 (lib/ci_sha256.c) is idealised as collision free: *)
(* the digest of a block is the block's content.  On the wire a digest     *)
(* still occupies DigestLen bytes, so a manifest is the sequence of all    *)
(* digest bytes and can be cut, shifted or mixed like the real one.        *)
(***************************************************************************)
EXTENDS Integers, Sequences, FiniteSets

CONSTANTS
  Word,       \* number of values of a uint32_t (2^32 in the build)
  DigestLen,  \* CI_SVU_HASH_LEN (32 in the build)
  Byte        \* values of a payload byte; calloc's 0 is one of them

ASSUME WordAssumption == Word \in Nat \ {0}
ASSUME DigestLenAssumption == DigestLen \in Nat \ {0}
ASSUME ByteAssumption == 0 \in Byte

-----------------------------------------------------------------------------
(* Block geometry.                                                         *)

\* The sum is a uint32_t: it wraps when size is within block of 2^32.
NBlocks(size, block) ==
  IF size = 0 \/ block = 0
    THEN 0
    ELSE ((size + block - 1) % Word) \div block

BlockStart(b, block) == b * block

BlockEnd(b, block, size) ==
  IF (b + 1) * block > size THEN size ELSE (b + 1) * block

-----------------------------------------------------------------------------
(* Digests and manifests.                                                  *)

\* The digest of block b of bytes: its content (collision-free hash).
HashBlock(bytes, size, block, b) ==
  [k \in 1 .. (BlockEnd(b, block, size) - BlockStart(b, block)) |->
     bytes[BlockStart(b, block) + k - 1]]

\* The j-th byte (from 1) of the manifest is byte (j-1) % DigestLen of the
\* digest of block (j-1) \div DigestLen.
Manifest(bytes, size, block) ==
  [j \in 1 .. (NBlocks(size, block) * DigestLen) |->
     << HashBlock(bytes, size, block, (j - 1) \div DigestLen),
        (j - 1) % DigestLen >>]

-----------------------------------------------------------------------------
(* The receiver's tracker (struct ci_svu).                                 *)

\* ci_svu_new refuses a geometry the announced block count does not fit.
NewOK(size, block, nblocks) ==
  /\ NBlocks(size, block) # 0
  /\ NBlocks(size, block) = nblocks

\* Both buffers come from calloc: byte 0 everywhere, nothing covered.
NewTracker(size, block, nblocks, expected) ==
  [total         |-> size,
   block         |-> block,
   nblocks       |-> nblocks,
   covered_count |-> 0,
   data          |-> [i \in 0 .. (size - 1) |-> 0],
   covered       |-> {},
   expected      |-> expected]

\* Mutant: every byte of a fragment is counted, also those already covered.
AcceptRecounts(s, off, buf) ==
  IF off + Len(buf) > s.total
    THEN s
    ELSE LET span == off .. (off + Len(buf) - 1)
         IN  [s EXCEPT !.covered_count = @ + Len(buf),
                       !.data = [i \in DOMAIN @ |->
                                   IF i \in span THEN buf[i - off + 1] ELSE @[i]],
                       !.covered = @ \cup span]

\* Mutant: the end of the fragment is not compared with the payload's size.
AcceptUnbounded(s, off, buf) ==
  LET span == off .. (off + Len(buf) - 1)
  IN  [s EXCEPT !.covered_count = @ + Cardinality(span \ s.covered),
                !.data = [i \in DOMAIN @ |->
                            IF i \in span THEN buf[i - off + 1] ELSE @[i]],
                !.covered = @ \cup span]

\* Mutant: a fragment that ends exactly at the payload's end is refused.
AcceptStrict(s, off, buf) ==
  IF off + Len(buf) >= s.total
    THEN s
    ELSE AcceptUnbounded(s, off, buf)

\* ci_svu_accept: a fragment past the payload is refused; otherwise every byte
\* of it is marked covered, the newly covered ones are counted, and the bytes
\* overwrite whatever an earlier fragment put there.
Accept(s, off, buf) ==
  IF off + Len(buf) > s.total
    THEN s
    ELSE LET span == off .. (off + Len(buf) - 1)
         IN  [total         |-> s.total,
              block         |-> s.block,
              nblocks       |-> s.nblocks,
              covered_count |-> s.covered_count + Cardinality(span \ s.covered),
              data          |-> [i \in 0 .. (s.total - 1) |->
                                   IF i \in span THEN buf[i - off + 1]
                                                 ELSE s.data[i]],
              covered       |-> s.covered \cup span,
              expected      |-> s.expected]

-----------------------------------------------------------------------------
(* ci_svu_verify.                                                          *)

Interval(a, b) == [start |-> a, end |-> b]

Bytes(iv) == iv.start .. (iv.end - 1)

\* Mutant: a run of holes at the very end of the payload is not closed.
HolesNoTail(s) ==
  {iv \in {Interval(a, b) : a \in 0 .. (s.total - 1), b \in 1 .. s.total} :
     /\ iv.start < iv.end
     /\ Bytes(iv) \cap s.covered = {}
     /\ iv.start = 0 \/ (iv.start - 1) \in s.covered
     /\ iv.end \in s.covered}

\* INCOMPLETE: the maximal runs of uncovered bytes.
Holes(s) ==
  {iv \in {Interval(a, b) : a \in 0 .. (s.total - 1), b \in 1 .. s.total} :
     /\ iv.start < iv.end
     /\ Bytes(iv) \cap s.covered = {}
     /\ iv.start = 0 \/ (iv.start - 1) \in s.covered
     /\ iv.end = s.total \/ iv.end \in s.covered}

\* The digest of block b as the locked manifest has it.
ExpectedDigest(s, b) ==
  [k \in 1 .. DigestLen |-> s.expected[b * DigestLen + k]]

DigestBytes(d) == [k \in 1 .. DigestLen |-> << d, k - 1 >>]

\* Mutant: the short last block is not compared.
BadBlocksShort(s) ==
  {b \in 0 .. (s.nblocks - 2) :
     DigestBytes(HashBlock(s.data, s.total, s.block, b)) # ExpectedDigest(s, b)}

BadBlocks(s) ==
  {b \in 0 .. (s.nblocks - 1) :
     DigestBytes(HashBlock(s.data, s.total, s.block, b)) # ExpectedDigest(s, b)}

\* Mutant: the range of a bad block is taken to include its end.
CorruptRangesInclusive(s) ==
  {Interval(BlockStart(b, s.block), BlockEnd(b, s.block, s.total) - 1) :
     b \in BadBlocks(s)}

\* CORRUPT: the ranges of the blocks whose digest differs.
CorruptRanges(s) ==
  {Interval(BlockStart(b, s.block), BlockEnd(b, s.block, s.total)) :
     b \in BadBlocks(s)}

\* Mutant: full coverage alone is taken for success.
StatusUnhashed(s) ==
  IF s.covered_count < s.total THEN "INCOMPLETE" ELSE "COMPLETE_VERIFIED"

Status(s) ==
  IF s.covered_count < s.total THEN "INCOMPLETE"
  ELSE IF BadBlocks(s) # {} THEN "CORRUPT"
  ELSE "COMPLETE_VERIFIED"

\* Every range ci_svu_verify counts in *nout.
Ranges(s) ==
  IF Status(s) = "INCOMPLETE" THEN Holes(s)
  ELSE IF Status(s) = "CORRUPT" THEN CorruptRanges(s)
  ELSE {}

\* Mutant: one range too many is stored.
FirstRangesOver(ivs, max) ==
  {iv \in ivs : Cardinality({jv \in ivs : jv.start < iv.start}) <= max}

\* push_interval stores the first max of them, in ascending order.
FirstRanges(ivs, max) ==
  {iv \in ivs : Cardinality({jv \in ivs : jv.start < iv.start}) < max}

=============================================================================
