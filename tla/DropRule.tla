------------------------------ MODULE DropRule ------------------------------
(***************************************************************************)
(* The loss injector's decision (lib/ci_rule.c, lib/ci_ge.c) as operators: *)
(* what of a packet a rule looks at, which packets are in scope, the index *)
(* that identifies a packet within its flow, the deterministic decision by *)
(* index, and the Gilbert-Elliott chain that decides by transmission.      *)
(*                                                                         *)
(* A packet is a record: dport; frdp, the RDP flag of its CSP header; len, *)
(* its payload length; syn and seq, what an RDP trailer would hold; off,   *)
(* what a DTP offset field would hold.  The splitmix64 draw of an index is *)
(* a fixed but arbitrary number: Draw[index].                              *)
(***************************************************************************)
EXTENDS Integers

CONSTANTS
  SeqHalf,      \* half the RDP sequence space (0x8000)
  TrailerLen,   \* CI_RDP_HEADER_SIZE (5)
  OffsetLen,    \* CI_DTP_OFFSET_SIZE (4)
  TG2B,         \* threshold of GOOD -> BAD
  TB2G          \* threshold of BAD -> GOOD

ASSUME RuleAssumption ==
  /\ SeqHalf \in Nat \ {0}
  /\ TrailerLen \in Nat
  /\ OffsetLen \in Nat
  /\ TG2B \in Nat
  /\ TB2G \in Nat

SeqSpace == 2 * SeqHalf

-----------------------------------------------------------------------------
(* Frames and scope.                                                       *)

\* ci_rdp_parse_trailer succeeds; syn and seq are then what it decodes.
TrailerParses(pkt) == pkt.len >= TrailerLen

\* The RDP flags are 0 when the trailer does not fit the payload.
FrameFromFields(pkt) ==
  [dport |-> pkt.dport, is_rdp |-> pkt.frdp,
   syn |-> pkt.frdp /\ TrailerParses(pkt) /\ pkt.syn]

\* match_dport = -1 is any port.
RuleMatch(r, f) ==
  /\ r.match_dport >= 0 => f.dport = r.match_dport
  /\ r.match_rdp_syn => f.is_rdp /\ f.syn

-----------------------------------------------------------------------------
(* The per-flow index.                                                     *)

NewFlow(mtu, overhead) ==
  [last_seq |-> 0, have_last_seq |-> FALSE, epoch |-> 0,
   dtp_mtu |-> mtu, dtp_overhead |-> overhead]

\* Mutant: the crossing of the boundary itself is not taken for a wrap.
SeqIsWrapStrict(prev, new) ==
  (new - prev) % SeqSpace < SeqHalf /\ new < prev /\ new # 0

\* Forward progress whose raw value went down.
SeqIsWrap(prev, new) == (new - prev) % SeqSpace < SeqHalf /\ new < prev

FlowIndexRdp(epoch, seq) == epoch * SeqSpace + seq

\* The offset field over the payload of a fragment; 0 when the field does not
\* fit the packet or the MTU leaves a fragment no payload.
FragmentIndex(fl, pkt) ==
  IF pkt.len >= OffsetLen /\ fl.dtp_mtu > fl.dtp_overhead
    THEN pkt.off \div (fl.dtp_mtu - fl.dtp_overhead)
    ELSE 0

\* ci_flow_index: the new tracker and the index.  What cannot be parsed has
\* index 0 and leaves the tracker alone.
FlowIndex(fl, f, pkt) ==
  IF f.is_rdp
    THEN IF TrailerParses(pkt)
           THEN LET e == IF fl.have_last_seq /\ SeqIsWrap(fl.last_seq, pkt.seq)
                           THEN fl.epoch + 1 ELSE fl.epoch
                IN  [flow |-> [fl EXCEPT !.last_seq = pkt.seq,
                                         !.have_last_seq = TRUE, !.epoch = e],
                     index |-> FlowIndexRdp(e, pkt.seq)]
           ELSE [flow |-> fl, index |-> 0]
    ELSE [flow |-> fl, index |-> FragmentIndex(fl, pkt)]

-----------------------------------------------------------------------------
(* The decisions.                                                          *)

\* By identity: a replay vector wins, indices beyond it are kept; otherwise the
\* draw of the index against the threshold of drop_probability.
RuleDecide(r, index) ==
  IF r.replay
    THEN index < r.replay_len /\ r.replay_vector[index] = 1
    ELSE r.draw[index] < r.threshold

NewGE == [step |-> 0, bad |-> FALSE]

\* By transmission: GOOD keeps, BAD drops, then one draw moves the chain.
GEMove(bad, d) == IF bad THEN ~(d < TB2G) ELSE d < TG2B

\* Mutant: the chain moves before the decision is taken.
GEStepLate(ge, draw) ==
  [drop |-> GEMove(ge.bad, draw[ge.step]),
   ge |-> [step |-> ge.step + 1, bad |-> GEMove(ge.bad, draw[ge.step])]]

GEStep(ge, draw) ==
  [drop |-> ge.bad,
   ge |-> [step |-> ge.step + 1, bad |-> GEMove(ge.bad, draw[ge.step])]]

\* ci_ge_fill: the vector of n decisions of the same chain along the index.
GEFill(draw, n) ==
  LET vec[i \in 0 .. n] == IF i = 0 THEN FALSE ELSE GEMove(vec[i - 1], draw[i - 1])
  IN  [i \in 0 .. (n - 1) |-> vec[i]]

=============================================================================
