---------------------------- MODULE MC_Transfer ----------------------------
(***************************************************************************)
(* Payloads for the TLC runs of SvuTransfer.                               *)
(***************************************************************************)
EXTENDS SvuTransfer

FileOf(s) == [size |-> Len(s), bytes |-> [i \in 0 .. (Len(s) - 1) |-> s[i + 1]]]

\* Two payloads that differ in both blocks, a shorter one and an empty one.
RestartFiles ==
  {FileOf(<<1, 0, 1>>), FileOf(<<0, 1, 0>>), FileOf(<<0, 1>>), FileOf(<<>>)}

OneFile == {FileOf(<<1, 0, 1, 1>>)}

\* Five bytes: in packets of two and blocks of three, packets straddle the blocks
\* and both the last packet and the last block are short.
OddFile == {FileOf(<<1, 0, 1, 1, 0>>)}

=============================================================================
