------------------------------ MODULE MC_Push -------------------------------
(***************************************************************************)
(* Paths for the TLC runs of SvuPush.                                      *)
(***************************************************************************)
EXTENDS SvuPush

\* Every path fits the announce.
NoCut == [p \in Paths |-> p]

\* Path 3 is longer than 250 bytes and path 1 is its beginning.
LongPath == [p \in Paths |-> IF p = 3 THEN 1 ELSE p]

=============================================================================
