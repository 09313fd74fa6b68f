------------------------------ MODULE MC_Shim -------------------------------
(***************************************************************************)
(* Rules and draws for the TLC runs of DropShim and InjectBridge.          *)
(***************************************************************************)
EXTENDS InjectBridge

Indices == 0 .. 47

Rule(replay, vector, len, d) ==
  [match_dport |-> Port, match_rdp_syn |-> FALSE, replay |-> replay,
   replay_len |-> len, replay_vector |-> vector, draw |-> d, threshold |-> 1]

\* Every set of dropped positions around the wrap, as draws and as a recorded
\* vector that ends before the flow does.
WrapRules ==
  {Rule(FALSE, [i \in {} |-> 0], 0, [i \in Indices |-> IF i \in S THEN 0 ELSE 1]) :
     S \in SUBSET (13 .. 18)}
  \cup
  {Rule(TRUE, [i \in 0 .. 17 |-> IF i \in S THEN 1 ELSE 0], 18, [i \in Indices |-> 0]) :
     S \in SUBSET (13 .. 17)}

NoLoss == Rule(FALSE, [i \in {} |-> 0], 0, [i \in Indices |-> 1])

\* Draws of the chain: 0 fires both transitions, 1 only BAD -> GOOD, 2 none.  The
\* last of six decides nothing any more.
AllDraws == {[i \in 0 .. 5 |-> IF i = 5 THEN 0 ELSE d[i]] : d \in [0 .. 4 -> 0 .. 2]}

RdpSender == [dtp |-> FALSE, overhead |-> 0]

ByIdentity ==
  {[per_attempt |-> FALSE, rule |-> r, draw |-> [i \in {} |-> 0], sender |-> RdpSender] :
     r \in WrapRules}

ByAttempt ==
  {[per_attempt |-> TRUE, rule |-> NoLoss, draw |-> d, sender |-> RdpSender] : d \in AllDraws}

\* Behind the bridge: an RDP flow through the chain, and DTP flows of either
\* header length through rules and the chain.
DtpRules ==
  {Rule(FALSE, [i \in {} |-> 0], 0, [i \in Indices |-> IF i \in S THEN 0 ELSE 1]) :
     S \in {{1}, {0, 2}}}

DtpSenders == {[dtp |-> TRUE, overhead |-> 4], [dtp |-> TRUE, overhead |-> 8]}

BridgedFlows ==
  {[per_attempt |-> FALSE, rule |-> r, draw |-> [i \in {} |-> 0], sender |-> s] :
     r \in DtpRules, s \in DtpSenders}
  \cup
  {[per_attempt |-> TRUE, rule |-> NoLoss, draw |-> [i \in 0 .. 5 |-> 0], sender |-> s] :
     s \in {RdpSender, [dtp |-> TRUE, overhead |-> 8]}}

BothModes == ByIdentity \cup ByAttempt

=============================================================================
