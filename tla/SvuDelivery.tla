---------------------------- MODULE SvuDelivery ----------------------------
(***************************************************************************)
(* What an SVU transfer promises, without a network: the receiver is told  *)
(* once what it will get (a size, a block size and a manifest), and it     *)
(* ends either by delivering one payload that matches that promise block   *)
(* by block, all at once, or by saying why it does not.                    *)
(***************************************************************************)
EXTENDS SvuCore

VARIABLES
  promise,    \* what was announced, or NoPromise
  verdict,    \* "running", "ok", or the reason for a failure
  delivered   \* the payload handed over, or Nothing

svars == <<promise, verdict, delivered>>

NoPromise == [size |-> 0, block |-> 0, manifest |-> <<>>]
Nothing == [size |-> -1, bytes |-> <<>>]
Failures == {"ctrl_failed", "bad_geometry", "gave_up", "no_outfile"}

\* Every block of the payload has the digest the promise gives for it.
Matches(p, pr) ==
  /\ p.size = pr.size
  /\ \A b \in 0 .. (NBlocks(pr.size, pr.block) - 1), k \in 1 .. DigestLen :
       pr.manifest[b * DigestLen + k] =
         << HashBlock(p.bytes, p.size, pr.block, b), k - 1 >>

SInit ==
  /\ promise = NoPromise
  /\ verdict = "running"
  /\ delivered = Nothing

\* The first complete control exchange.
Announce ==
  /\ verdict = "running"
  /\ promise = NoPromise
  /\ NBlocks(promise'.size, promise'.block) # 0
  /\ UNCHANGED <<verdict, delivered>>

Deliver ==
  /\ verdict = "running"
  /\ promise # NoPromise
  /\ verdict' = "ok"
  /\ Matches(delivered', promise)
  /\ UNCHANGED promise

Fail ==
  /\ verdict = "running"
  /\ verdict' \in Failures
  /\ UNCHANGED <<promise, delivered>>

SNext == Announce \/ Deliver \/ Fail

SSpec == SInit /\ [][SNext]_svars

=============================================================================
