------------------------------ MODULE MC_Proxy ------------------------------
(***************************************************************************)
(* Frames and rules for the TLC runs of LossyProxy.                        *)
(***************************************************************************)
EXTENDS LossyProxy

Kind(role, size, inflow) == [role |-> role, size |-> size, flow |-> inflow]

\* The flow, another port, a frame that does not fit and one that is too short.
LossKinds ==
  {Kind("other", "ok", TRUE), Kind("other", "ok", FALSE), Kind("other", "big", TRUE),
   Kind("other", "short", TRUE)}

FlowKind == {Kind("other", "ok", TRUE)}

\* Frames from and to the half-duplex node as well.
HdxKinds == {Kind("tx", "ok", TRUE), Kind("rx", "ok", TRUE)}

\* What the capture thread tells apart.
SizeKinds == {Kind("other", size, TRUE) : size \in {"ok", "big", "short"}}

CaptureHdxKinds == {Kind("tx", "ok", TRUE), Kind("other", "big", TRUE)}

\* Memory that looks like a frame of the flow, or of another port.
Memory(inflow) == [role |-> "other", pkt |-> Packet(inflow, 3)]

Rule(port, drops) ==
  [match_dport |-> port, match_rdp_syn |-> FALSE, replay |-> FALSE, replay_len |-> 0,
   replay_vector |-> [i \in {} |-> 0],
   draw |-> [i \in 0 .. (3 * SeqSpace) |-> IF i \in drops THEN 0 ELSE 1], threshold |-> 1]

Setup(hdx_node, corrupt, delays, r, cap_on, ks, back) ==
  [hdx |-> hdx_node, corrupting |-> corrupt, delaying |-> delays, rule |-> r,
   capture |-> cap_on, kinds |-> ks, depth |-> back,
   memory |-> {Memory(ks = LossKinds)}]

\* Loss alone, with the first frame dropped or the one beyond the wrap, whose index
\* is 0 when nothing was logged before it; delay together with half duplex or
\* corruption; and the capture thread with both kinds of loss and with half duplex.
AllSetups ==
  {Setup(FALSE, FALSE, FALSE, Rule(Port, {i}), FALSE, LossKinds, 2) :
     i \in {First + 1, SeqSpace, 0}}
  \cup {Setup(TRUE, FALSE, TRUE, Rule(Port, {First + 2}), FALSE, HdxKinds, 0),
        Setup(FALSE, TRUE, TRUE, Rule(Port, {First + 2}), FALSE, FlowKind, 0),
        Setup(FALSE, FALSE, FALSE, Rule(Port, {First + 2}), TRUE, SizeKinds, 0),
        Setup(FALSE, FALSE, FALSE, Rule(-1, {}), TRUE, SizeKinds, 0),
        Setup(TRUE, FALSE, FALSE, Rule(-1, {}), TRUE, CaptureHdxKinds, 0)}

=============================================================================
