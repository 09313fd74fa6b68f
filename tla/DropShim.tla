------------------------------ MODULE DropShim ------------------------------
(***************************************************************************)
(* The in-path drop shim (inject/ci_drop_iface.c) between a sender and a   *)
(* bus with a tap on it: the project's two-oracle experiment.  Oracle A is *)
(* the shim's drop log, oracle B the sequence tracker fed at the tap.      *)
(*                                                                         *)
(* The sender sends the packets of one RDP flow, or the fragments of one   *)
(* DTP flow, in order, from a position that may be just below the wrap of  *)
(* the 16-bit number, and may send one of the last Depth again.  Packets   *)
(* on another port and RDP packets too short for a trailer come in         *)
(* between.  The bus loses nothing.                                        *)
(***************************************************************************)
EXTENDS SeqMeter, DropRule, Sequences

CONSTANTS
  Channels,    \* shims tried: per_attempt, rule and the draws of the chain; and
               \* the sender: dtp, and overhead, the DTP header of its libdtp
  Port,        \* the port the rule matches
  DtpMtu,      \* dtp_mtu the shim is created with
  DtpOverhead, \* CI_DTP_OVERHEAD_DIPP, what ci_flow_tracker_init always takes
  Starts,      \* first positions of an RDP flow
  Depth,       \* how far back a packet is sent again; 0: never
  MaxSends,    \* bound: packets of the flow sent
  MaxOther,    \* bound: packets of another port
  MaxShort     \* bound: packets too short for a trailer

ASSUME ShimAssumption ==
  /\ SeqHalf = Half /\ Half > 1
  /\ DtpMtu \in Nat
  /\ \A c \in Channels : {c.per_attempt, c.sender.dtp} \subseteq BOOLEAN
  /\ \A c \in Channels : c.sender.overhead \in 0 .. (DtpMtu - 1)
  /\ Starts \subseteq 0 .. (SeqMod - 1)
  /\ Depth \in 0 .. (Win - 1)
  /\ MaxSends \in Nat
  /\ MaxOther \in Nat
  /\ MaxShort \in Nat

VARIABLES
  rule, draw,       \* fixed at the start, like per_attempt and sender:
  per_attempt,      \* the shim decides by transmission
  sender,           \* what it sends: dtp, overhead
  tracker, ge,      \* the shim's flow tracker and chain
  log,              \* oracle A; each line also keeps the packet's position
  injected_drops, forwarded, passthrough,
  bus,              \* positions of the flow's packets on the bus, in order
  t,                \* oracle B: the sequence tracker at the tap
  start, next,      \* first and next position of the sender
  sends, short      \* packets of the flow and short packets sent so far

fixed == <<rule, draw, per_attempt, sender, start>>
dvars == <<fixed, tracker, ge, log, injected_drops, forwarded, passthrough, bus, t,
           next, sends, short>>

\* ci_drop_iface_init, and ci_drop_iface_enable_ge when per_attempt.
ShimInit(c, overhead) ==
  /\ rule = c.rule /\ per_attempt = c.per_attempt /\ draw = c.draw /\ sender = c.sender
  /\ tracker = NewFlow(DtpMtu, overhead)
  /\ ge = NewGE
  /\ log = <<>>
  /\ injected_drops = 0 /\ forwarded = 0 /\ passthrough = 0
  /\ bus = <<>>
  /\ t = NewMeter
  /\ start \in IF c.sender.dtp THEN {0} ELSE Starts
  /\ next = start
  /\ sends = 0 /\ short = 0

DInit == \E c \in Channels : ShimInit(c, DtpOverhead)

\* Mutant: a dropped packet is counted as forwarded too.
CountBoth(drop) ==
  /\ injected_drops' = IF drop THEN injected_drops + 1 ELSE injected_drops
  /\ forwarded' = forwarded + 1

Count(drop) ==
  /\ injected_drops' = IF drop THEN injected_drops + 1 ELSE injected_drops
  /\ forwarded' = IF drop THEN forwarded ELSE forwarded + 1

\* ci_drop_iface_nexthop: out of scope passes untouched and unlogged; in scope
\* is logged, then freed or handed on.  A packet handed on reaches the tap,
\* which feeds its tracker the trailer's number if there is one.
Nexthop(pkt, pos) ==
  LET f    == FrameFromFields(pkt)
      fi   == FlowIndex(tracker, f, pkt)
      step == GEStep(ge, draw)
      drop == IF per_attempt THEN step.drop ELSE RuleDecide(rule, fi.index)
  IN  IF ~RuleMatch(rule, f)
        THEN /\ passthrough' = passthrough + 1
             /\ UNCHANGED <<tracker, ge, log, injected_drops, forwarded, bus, t>>
        ELSE /\ tracker' = fi.flow
             /\ ge' = IF per_attempt THEN step.ge ELSE ge
             /\ log' = Append(log, [pos |-> pos, index |-> fi.index, dropped |-> drop])
             /\ Count(drop)
             /\ bus' = IF drop \/ pos = -1 THEN bus ELSE Append(bus, pos)
             /\ t' = IF drop \/ pos = -1 \/ ~f.is_rdp THEN t ELSE Feed(t, pkt.seq)
             /\ UNCHANGED passthrough

Rdp(p, len) ==
  [dport |-> Port, frdp |-> TRUE, len |-> len, syn |-> FALSE, seq |-> SeqOf(p),
   off |-> 0]

\* A fragment starts at the bytes the fragments before it carry.
Dtp(p) ==
  [dport |-> Port, frdp |-> FALSE, len |-> OffsetLen + 1, syn |-> FALSE, seq |-> 0,
   off |-> p * (DtpMtu - sender.overhead)]

FlowPacket(p) == IF sender.dtp THEN Dtp(p) ELSE Rdp(p, TrailerLen + 1)

ShortPacket == Rdp(0, TrailerLen - 1)

OtherPacket ==
  [dport |-> Port + 1, frdp |-> FALSE, len |-> OffsetLen, syn |-> FALSE, seq |-> 0,
   off |-> 0]

\* The flow's next packet, or one of the last Depth again.
SendFlow(p) ==
  /\ sends < MaxSends
  /\ sends' = sends + 1
  /\ next' = IF p = next THEN next + 1 ELSE next
  /\ Nexthop(FlowPacket(p), p)
  /\ UNCHANGED <<fixed, short>>

\* A packet of the flow's port that is too short for an RDP trailer.
SendShort ==
  /\ short < MaxShort
  /\ short' = short + 1
  /\ Nexthop(ShortPacket, -1)
  /\ UNCHANGED <<fixed, next, sends>>

\* DTP bulk on another port.
SendOther ==
  /\ passthrough < MaxOther
  /\ Nexthop(OtherPacket, -1)
  /\ UNCHANGED <<fixed, next, sends, short>>

DNext ==
  \/ \E p \in (next - Depth) .. next : p >= start /\ SendFlow(p)
  \/ SendShort
  \/ SendOther

DSpec == DInit /\ [][DNext]_dvars

-----------------------------------------------------------------------------
(* Properties.                                                             *)

Lines == {log[i] : i \in DOMAIN log}
Injected == {l.pos : l \in {k \in Lines : k.dropped}}
Observed == {bus[i] : i \in DOMAIN bus}

\* No packet from before a wrap of the 16-bit number is sent after one from
\* beyond it.
NoCrossing ==
  \A i, j \in DOMAIN log :
    i < j /\ log[i].pos # -1 /\ log[j].pos # -1 =>
      log[i].pos \div SeqMod <= log[j].pos \div SeqMod

\* No packet was lost on its way to the shim, below the highest that reached it.
AllReachShim ==
  \A l \in Lines : start .. l.pos \subseteq {k.pos : k \in Lines}

\* Both oracles tell the same story: what the tracker at the tap infers as lost
\* is what the log says was injected and never got through, between the first
\* and the highest packet that did, through wraps and retransmissions.  (The
\* tracker cannot place a packet from before the first one it saw: MeterTap; and
\* the log knows nothing of packets lost on their way to the shim.)
TwoOraclesAgree ==
  ~sender.dtp /\ (\A q \in Observed : bus[1] <= q) /\ AllReachShim =>
    Loss(t) =
      Cardinality({p \in Injected \ Observed :
                     \E q \in Observed : bus[1] <= p /\ p < q})

\* "the SAME RDP seq (same wrap epoch) ... is dropped on EVERY transmission": in
\* identity mode two transmissions of one packet share their fate.
SameFrameSameFate ==
  ~per_attempt =>
    \A k, l \in Lines : k.pos = l.pos => k.dropped = l.dropped

\* The index ci_flow_index gives a packet is its position in the flow, past the
\* wrap and for retransmissions on either side of it, although the tracker only
\* ever sees the 16-bit number; a retransmission across the wrap may confuse it,
\* and so may packets it never saw.  Likewise for DTP, when the shim and the
\* sender agree on the header's length.
IndexIsIdentity ==
  (IF sender.dtp THEN tracker.dtp_overhead = sender.overhead
                 ELSE NoCrossing /\ AllReachShim) =>
    \A l \in Lines : l.pos # -1 => l.index = l.pos

\* The chain's trajectory is the vector ci_ge_fill produces for the same seed,
\* whichever packets were sent and whatever else passed in between.
TrajectoryIsFill ==
  per_attempt =>
    LET vec == GEFill(draw, Len(log))
    IN  \A i \in DOMAIN log : log[i].dropped = vec[i - 1]

\* Every in-scope packet is either injected loss or forwarded, never both and
\* never neither, and the counters, the log and the bus say so together.
Partition ==
  /\ injected_drops + forwarded = Len(log)
  /\ injected_drops = Cardinality({i \in DOMAIN log : log[i].dropped})
  /\ LET kept[i \in 0 .. Len(log)] ==
           IF i = 0 THEN <<>>
           ELSE IF log[i].pos = -1 \/ log[i].dropped THEN kept[i - 1]
           ELSE Append(kept[i - 1], log[i].pos)
     IN  bus = kept[Len(log)]

=============================================================================
