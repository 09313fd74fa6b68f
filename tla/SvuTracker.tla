---------------------------- MODULE SvuTracker -----------------------------
(***************************************************************************)
(* The tracker of lib/ci_svu.c on its own, fed with arbitrary fragments:   *)
(* its operators in SvuCore, written as sets and functions, are compared   *)
(* with the loops of the code, and the verdict with the payload.           *)
(***************************************************************************)
EXTENDS SvuCore, Functions

CONSTANTS
  Sizes,      \* payload sizes tried
  Blocks,     \* block sizes tried
  MaxLen,     \* longest fragment
  Capacity    \* values of max, the room in ci_svu_verify's out[]

ASSUME TrackerAssumption ==
  /\ Sizes \subseteq 1 .. (Word - 1)
  /\ Blocks \subseteq 1 .. (Word - 1)
  /\ MaxLen \in Nat \ {0}
  /\ Capacity \subseteq Nat

VARIABLES
  file,   \* the payload the manifest was made from
  trk,    \* the tracker
  maxout  \* max, the room in out[]

tvars == <<file, trk, maxout>>

TInit ==
  \E size \in Sizes, block \in Blocks :
    /\ NewOK(size, block, NBlocks(size, block))
    /\ file \in [0 .. (size - 1) -> Byte]
    /\ trk = NewTracker(size, block, NBlocks(size, block), Manifest(file, size, block))
    /\ maxout \in Capacity

Fragments == {[off |-> o, buf |-> b] :
                o \in 0 .. trk.total, b \in UNION {[1 .. n -> Byte] : n \in 1 .. MaxLen}}

TAccept ==
  /\ \E f \in Fragments : trk' = Accept(trk, f.off, f.buf)
  /\ UNCHANGED <<file, maxout>>

TSpec == TInit /\ [][TAccept]_tvars

-----------------------------------------------------------------------------
(* The loops of the code, as the states they go through.                   *)

\* for (i = offset; i < end; i++) of ci_svu_accept: covered[] and covered_count
\* when n turns have been made.
CoverLoop(off, len, cov, count) ==
  LET loop[n \in 0 .. len] ==
        IF n = 0 THEN [covered |-> cov, covered_count |-> count]
        ELSE LET was == loop[n - 1]
                 i   == off + n - 1
             IN  IF i \in was.covered THEN was
                 ELSE [covered |-> was.covered \cup {i},
                       covered_count |-> was.covered_count + 1]
  IN  loop[len]

\* while (run < total && covered[run] == 0) run++
RunEnd(i, t) ==
  LET run[k \in 0 .. t.total] ==
        IF k < t.total /\ k \notin t.covered THEN run[k + 1] ELSE k
  IN  run[i]

\* push_interval: out holds the stored ranges, nout counts them all.
Push(acc, iv) ==
  [out |-> IF acc.nout < maxout THEN Append(acc.out, iv) ELSE acc.out,
   nout |-> acc.nout + 1]

NoRanges == [out |-> <<>>, nout |-> 0]

\* while (i < total) of ci_svu_verify: i and the ranges after n turns; there are
\* no more turns than bytes.
HoleLoop(t) ==
  LET loop[n \in 0 .. t.total] ==
        IF n = 0 THEN [i |-> 0, acc |-> NoRanges]
        ELSE LET i   == loop[n - 1].i
                 acc == loop[n - 1].acc
             IN  IF i >= t.total THEN [i |-> i, acc |-> acc]
                 ELSE IF i \in t.covered THEN [i |-> i + 1, acc |-> acc]
                 ELSE [i |-> RunEnd(i, t), acc |-> Push(acc, Interval(i, RunEnd(i, t)))]
  IN  loop[t.total].acc

\* for (b = 0; b < nblocks; b++) of ci_svu_verify: the ranges after n turns.
BlockLoop(t) ==
  LET loop[n \in 0 .. t.nblocks] ==
        IF n = 0 THEN NoRanges
        ELSE LET b     == n - 1
                 start == b * t.block
                 end   == start + t.block
             IN  IF DigestBytes(HashBlock(t.data, t.total, t.block, b)) = ExpectedDigest(t, b)
                   THEN loop[n - 1]
                   ELSE Push(loop[n - 1],
                             Interval(start, IF end > t.total THEN t.total ELSE end))
  IN  loop[t.nblocks]

VerifyLoop(t) ==
  IF t.covered_count < t.total
    THEN [status |-> "INCOMPLETE", res |-> HoleLoop(t)]
    ELSE [status |-> IF BlockLoop(t).nout > 0 THEN "CORRUPT" ELSE "COMPLETE_VERIFIED",
          res |-> BlockLoop(t)]

-----------------------------------------------------------------------------
(* Properties.                                                             *)

\* The sets of SvuCore are what the loops of ci_svu_verify compute: the same
\* verdict, the same count, and in out[] the first maxout ranges in rising order.
VerifyIsLoop ==
  LET v == VerifyLoop(trk)
  IN  /\ v.status = Status(trk)
      /\ v.res.nout = Cardinality(Ranges(trk))
      /\ Range(v.res.out) = FirstRanges(Ranges(trk), maxout)
      /\ \A i, j \in 1 .. Len(v.res.out) :
           i < j => v.res.out[i].end <= v.res.out[j].start

\* Accept's set arithmetic is what the byte loop of ci_svu_accept computes.
AcceptIsLoop ==
  \A f \in Fragments :
    LET t == Accept(trk, f.off, f.buf)
        c == CoverLoop(f.off, Len(f.buf), trk.covered, trk.covered_count)
    IN  f.off + Len(f.buf) <= trk.total =>
          t.covered = c.covered /\ t.covered_count = c.covered_count

\* The verdict is right both ways: COMPLETE_VERIFIED exactly when every byte has
\* arrived and the buffer is the payload.
VerdictExact ==
  Status(trk) = "COMPLETE_VERIFIED" <=>
    trk.covered = 0 .. (trk.total - 1) /\ trk.data = file

\* The tracker after the true bytes of every range asked for have arrived.
Repaired ==
  LET asked == UNION {Bytes(iv) : iv \in Ranges(trk)}
  IN  [trk EXCEPT !.covered = @ \cup asked,
                  !.covered_count = Cardinality(trk.covered \cup asked),
                  !.data = [i \in DOMAIN trk.data |->
                              IF i \in asked THEN file[i] ELSE trk.data[i]]]

\* What ci_svu_verify asks for is enough: delivering it ends one stage, holes are
\* all filled, and corrupt blocks are all repaired.
RequestsSuffice ==
  /\ Status(trk) = "INCOMPLETE" => Status(Repaired) # "INCOMPLETE"
  /\ Status(trk) = "CORRUPT" => Status(Repaired) = "COMPLETE_VERIFIED"

=============================================================================
