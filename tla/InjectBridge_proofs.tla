------------------------- MODULE InjectBridge_proofs ------------------------
(***************************************************************************)
(* The drop shim (inject/ci_drop_iface.c) and the bridge around it         *)
(* (tests/e2e/ci_inject_bridge.c), for every rule, draw, MTU, queue length *)
(* and number of packets: the counters, the chain, the flow index, the     *)
(* join with the bus, the pump, and the agreement of the two oracles.      *)
(***************************************************************************)
EXTENDS InjectBridge, SeqMeter_proofs, Numbers, FiniteSetTheorems, FunctionTheorems, SequenceTheorems

FrameT == [iface : {"in", "out"}, src : {"ground", "sat"}, kind : {"flow", "short", "other", "down"}, pos : Int]

\* A frame of the ground: of the flow, or with no position in it.
FromGround(f, from) == (f.kind = "flow" /\ f.pos >= from) \/ (f.kind \in {"short", "other"} /\ f.pos = -1)

\* What is in the bridge's queue, and on its way back to it.
Queues ==
  /\ start \in Nat /\ next \in Nat /\ start <= next /\ ups \in Nat /\ downs \in Nat
  /\ qfifo \in Seq(FrameT) /\ air \in Seq(FrameT)
  /\ \A i \in 1 .. Len(qfifo) : Uplink(qfifo[i]) => FromGround(qfifo[i], start)
  /\ \A i \in 1 .. Len(air) : ~Genuine(air[i])

shim == <<tracker, ge, log, injected_drops, forwarded, passthrough, bus, t>>

\* A packet that reaches the shim is of the flow or has no position.
Reaches ==
  \/ \E p \in Nat : p >= start /\ Nexthop(FlowPacket(p), p)
  \/ Nexthop(ShortPacket, -1)
  \/ Nexthop(OtherPacket, -1)

-----------------------------------------------------------------------------
(* Sequences.                                                              *)

LEMMA AppendIs ==
  ASSUME NEW S, NEW s \in Seq(S), NEW e \in S
  PROVE  /\ Append(s, e) \in Seq(S) /\ Len(s) \in Nat /\ Len(Append(s, e)) = Len(s) + 1
         /\ \A i \in 1 .. Len(s) : Append(s, e)[i] = s[i]
         /\ Append(s, e)[Len(s) + 1] = e
         /\ \A i \in 1 .. Len(Append(s, e)) : i \in 1 .. Len(s) \/ i = Len(s) + 1
OBVIOUS

LEMMA TailIs ==
  ASSUME NEW S, NEW s \in Seq(S), s # <<>>
  PROVE  /\ Tail(s) \in Seq(S) /\ Head(s) \in S /\ Head(s) = s[1]
         /\ Len(s) \in Nat \ {0} /\ 1 \in 1 .. Len(s)
         /\ Len(Tail(s)) = Len(s) - 1
         /\ \A i \in 1 .. Len(Tail(s)) : Tail(s)[i] = s[i + 1] /\ i + 1 \in 2 .. Len(s)
OBVIOUS

LEMMA WithoutIs ==
  ASSUME NEW S, NEW s \in Seq(S), NEW i \in 1 .. Len(s)
  PROVE  /\ Without(s, i) \in Seq(S) /\ Len(s) \in Nat /\ Len(Without(s, i)) = Len(s) - 1
         /\ \A k \in 1 .. (Len(s) - 1) : Without(s, i)[k] = IF k < i THEN s[k] ELSE s[k + 1]
<1>1. Len(s) - 1 \in Nat /\ \A k \in 1 .. Len(s) : s[k] \in S
  OBVIOUS
<1>2. \A k \in 1 .. (Len(s) - 1) : k \in 1 .. Len(s) /\ k + 1 \in 1 .. Len(s)
  BY <1>1
<1>3. Without(s, i) \in [1 .. (Len(s) - 1) -> S]
  BY <1>1, <1>2 DEF Without
<1> QED BY <1>1, <1>3 DEF Without

\* A sequence of anything, with one more element.
IsSeq(s) == \E S : s \in Seq(S)

LEMMA AppendAny ==
  ASSUME NEW s, IsSeq(s), NEW e
  PROVE  /\ IsSeq(Append(s, e)) /\ Len(s) \in Nat /\ Len(Append(s, e)) = Len(s) + 1
         /\ \A i \in 1 .. Len(s) : Append(s, e)[i] = s[i]
         /\ Append(s, e)[Len(s) + 1] = e
         /\ \A i \in 1 .. Len(Append(s, e)) : i \in 1 .. Len(s) \/ i = Len(s) + 1
<1>1. PICK S : s \in Seq(S)
  BY DEF IsSeq
<1> DEFINE T == S \cup {e}
<1>2. s \in Seq(T)
  BY <1>1, SeqMonotonic
<1>3. e \in T
  OBVIOUS
<1> HIDE DEF T
<1>4. Append(s, e) \in Seq(T)
  BY <1>2, <1>3
<1> QED BY <1>2, <1>3, <1>4, AppendIs DEF IsSeq

-----------------------------------------------------------------------------
(* The queues.                                                             *)

LEMMA InitQueues == BInit => Queues
<1> SUFFICES ASSUME BInit PROVE Queues
  OBVIOUS
<1>1. PICK c, o : ShimInit(c, o)
  BY DEF BInit, DInit, BridgeInit
<1>2. start \in Nat /\ next = start
  <2>1. start = 0 \/ start \in Starts
    BY <1>1 DEF ShimInit
  <2>2. Starts \subseteq Nat
    BY ShimAssumption
  <2> QED BY <1>1, <2>1, <2>2 DEF ShimInit
<1>3. qfifo = <<>> /\ air = <<>> /\ Len(qfifo) = 0 /\ Len(air) = 0 /\ ups = 0 /\ downs = 0
  BY DEF BInit
<1>4. qfifo \in Seq(FrameT) /\ air \in Seq(FrameT)
  BY <1>3, EmptySeq
<1> QED BY <1>2, <1>3, <1>4 DEF Queues

\* A frame that arrives: at the end of the queue, or nowhere.
LEMMA ArriveQueues ==
  ASSUME Queues, NEW f \in FrameT, Uplink(f) => FromGround(f, start), Arrive(f), start' = start
  PROVE  /\ qfifo' \in Seq(FrameT)
         /\ \A i \in 1 .. Len(qfifo') : Uplink(qfifo'[i]) => FromGround(qfifo'[i], start')
<1>1. qfifo \in Seq(FrameT) /\ \A i \in 1 .. Len(qfifo) : Uplink(qfifo[i]) => FromGround(qfifo[i], start)
  BY DEF Queues
<1>2. CASE qfifo' = qfifo
  BY <1>1, <1>2
<1>3. CASE qfifo' = Append(qfifo, f)
  <2>1. /\ qfifo' \in Seq(FrameT)
        /\ \A i \in 1 .. Len(qfifo') : i \in 1 .. Len(qfifo) \/ i = Len(qfifo) + 1
        /\ \A i \in 1 .. Len(qfifo) : qfifo'[i] = qfifo[i]
        /\ qfifo'[Len(qfifo) + 1] = f
    BY <1>1, <1>3, AppendIs
  <2> QED BY <1>1, <2>1
<1> QED BY <1>2, <1>3 DEF Arrive

\* A frame leaves the queue for the pump.
LEMMA ReadQueues ==
  ASSUME Queues, qfifo # <<>>, qfifo' = Tail(qfifo), start' = start
  PROVE  /\ qfifo' \in Seq(FrameT) /\ Head(qfifo) \in FrameT
         /\ Uplink(Head(qfifo)) => FromGround(Head(qfifo), start)
         /\ \A i \in 1 .. Len(qfifo') : Uplink(qfifo'[i]) => FromGround(qfifo'[i], start')
<1>1. qfifo \in Seq(FrameT) /\ \A i \in 1 .. Len(qfifo) : Uplink(qfifo[i]) => FromGround(qfifo[i], start)
  BY DEF Queues
<1>2. /\ qfifo' \in Seq(FrameT) /\ Head(qfifo) \in FrameT /\ Head(qfifo) = qfifo[1] /\ 1 \in 1 .. Len(qfifo)
      /\ Len(qfifo) \in Nat
      /\ \A i \in 1 .. Len(qfifo') : qfifo'[i] = qfifo[i + 1] /\ i + 1 \in 2 .. Len(qfifo)
  BY <1>1, TailIs
<1>3. \A i \in 2 .. Len(qfifo) : i \in 1 .. Len(qfifo)
  BY <1>2
<1> QED BY <1>1, <1>2, <1>3

\* A frame that is played back is never taken for one of its side.
LEMMA PlayedBackAir ==
  ASSUME Queues, NEW g \in FrameT, ~Genuine(g), PlayedBack(g)
  PROVE  air' \in Seq(FrameT) /\ \A i \in 1 .. Len(air') : ~Genuine(air'[i])
<1>1. air \in Seq(FrameT) /\ \A i \in 1 .. Len(air) : ~Genuine(air[i])
  BY DEF Queues
<1>2. CASE air' = air
  BY <1>1, <1>2
<1>3. CASE air' = Append(air, g)
  <2>1. /\ air' \in Seq(FrameT)
        /\ \A i \in 1 .. Len(air') : i \in 1 .. Len(air) \/ i = Len(air) + 1
        /\ \A i \in 1 .. Len(air) : air'[i] = air[i]
        /\ air'[Len(air) + 1] = g
    BY <1>1, <1>3, AppendIs
  <2> QED BY <1>1, <2>1
<1> QED BY <1>2, <1>3 DEF PlayedBack

Kept == <<rule, draw, per_attempt, sender, start, bridged>>

\* What a step does to the queues and to the shim.
StepOK == Queues' /\ UNCHANGED Kept /\ (UNCHANGED shim \/ Reaches)

LEMMA GroundStep ==
  ASSUME Queues, UNCHANGED bridged, NEW kind \in {"flow", "short", "other"}, NEW p \in Int,
         kind = "flow" => p >= start /\ p <= next, kind # "flow" => p = -1, GroundSends(kind, p)
  PROVE  StepOK
<1>1. UNCHANGED <<shim, Kept, air>> /\ start' = start
  BY DEF GroundSends, shim, Kept, fixed
<1>2. Frame("in", "ground", kind, p) \in FrameT /\ FromGround(Frame("in", "ground", kind, p), start)
  BY DEF Frame, FrameT, FromGround
<1>3. /\ qfifo' \in Seq(FrameT)
      /\ \A i \in 1 .. Len(qfifo') : Uplink(qfifo'[i]) => FromGround(qfifo'[i], start')
  BY <1>1, <1>2, ArriveQueues DEF GroundSends
<1>4. next' \in Nat /\ start <= next' /\ start \in Nat /\ ups' \in Nat /\ downs' \in Nat
  BY DEF GroundSends, Queues
<1>5. Queues'
  BY <1>1, <1>3, <1>4 DEF Queues
<1> QED BY <1>1, <1>5 DEF StepOK

LEMMA OthersStep ==
  ASSUME Queues, UNCHANGED bridged, SatSends \/ HearOwn \/ OnSig
  PROVE  StepOK
<1>1. UNCHANGED <<shim, Kept, next>> /\ start' = start
  BY DEF SatSends, HearOwn, OnSig, shim, Kept, fixed, dvars
<1>2. CASE SatSends
  <2>1. Frame("out", "sat", "down", downs) \in FrameT /\ ~Uplink(Frame("out", "sat", "down", downs))
    BY DEF Frame, FrameT, Uplink, Queues
  <2>2. /\ qfifo' \in Seq(FrameT)
        /\ \A i \in 1 .. Len(qfifo') : Uplink(qfifo'[i]) => FromGround(qfifo'[i], start')
    BY <1>1, <1>2, <2>1, ArriveQueues DEF SatSends
  <2>3. UNCHANGED <<air, ups>> /\ downs' \in Nat
    BY <1>2 DEF SatSends, Queues
  <2>4. Queues'
    BY <1>1, <2>2, <2>3 DEF Queues
  <2> QED BY <1>1, <2>4 DEF StepOK
<1>3. CASE HearOwn
  <2>1. PICK k \in 1 .. Len(air) : air' = Without(air, k) /\ Arrive(air[k]) /\ UNCHANGED <<ups, downs>>
    BY <1>3 DEF HearOwn
  <2>2. /\ air \in Seq(FrameT) /\ air' \in Seq(FrameT) /\ air[k] \in FrameT /\ Len(air) \in Nat
        /\ Len(air') = Len(air) - 1
        /\ \A i \in 1 .. (Len(air) - 1) : air'[i] = IF i < k THEN air[i] ELSE air[i + 1]
    <3>1. air \in Seq(FrameT)
      BY DEF Queues
    <3>2. air[k] \in FrameT
      BY <3>1
    <3>3. /\ Without(air, k) \in Seq(FrameT) /\ Len(air) \in Nat
          /\ Len(Without(air, k)) = Len(air) - 1
          /\ \A i \in 1 .. (Len(air) - 1) : Without(air, k)[i] = IF i < k THEN air[i] ELSE air[i + 1]
      BY <3>1, WithoutIs, Zenon
    <3>4. air' = Without(air, k)
      BY <2>1
    <3> QED BY <3>1, <3>2, <3>3, <3>4, Zenon
  <2>3. ~Genuine(air[k]) /\ \A i \in 1 .. Len(air') : ~Genuine(air'[i])
    <3>1. \A i \in 1 .. (Len(air) - 1) : i \in 1 .. Len(air) /\ i + 1 \in 1 .. Len(air)
      BY <2>2
    <3> QED BY <2>2, <3>1 DEF Queues
  <2>4. ~Uplink(air[k])
    BY <2>3 DEF Uplink, Genuine
  <2>5. /\ qfifo' \in Seq(FrameT)
        /\ \A i \in 1 .. Len(qfifo') : Uplink(qfifo'[i]) => FromGround(qfifo'[i], start')
    BY <1>1, <2>1, <2>2, <2>4, ArriveQueues
  <2>6. Queues'
    BY <1>1, <2>1, <2>2, <2>3, <2>5 DEF Queues
  <2> QED BY <1>1, <2>6 DEF StepOK
<1>4. CASE OnSig
  BY <1>1, <1>4 DEF StepOK, Queues, OnSig
<1> QED BY <1>2, <1>3, <1>4

LEMMA PumpStep ==
  ASSUME Queues, UNCHANGED bridged, Pump
  PROVE  StepOK
<1> DEFINE f == Head(qfifo)
<1>0. /\ Duplicate(f) \/ ForwardUp(f) \/ ForwardDown(f) \/ DropEcho(f)
      /\ Read(f) /\ qfifo # <<>> /\ qfifo' = Tail(qfifo) /\ UNCHANGED <<Kept, next, ups, downs>> /\ start' = start
  BY DEF Pump, Duplicate, ForwardUp, ForwardDown, DropEcho, Read, Kept, dvars, fixed
<1>1. /\ qfifo' \in Seq(FrameT) /\ f \in FrameT
      /\ Uplink(f) => FromGround(f, start)
      /\ \A i \in 1 .. Len(qfifo') : Uplink(qfifo'[i]) => FromGround(qfifo'[i], start')
  BY <1>0, ReadQueues
<1> HIDE DEF f
<1>2. ASSUME air' \in Seq(FrameT) /\ \A i \in 1 .. Len(air') : ~Genuine(air'[i])
      PROVE  Queues'
  BY <1>0, <1>1, <1>2 DEF Queues
<1>3. CASE Duplicate(f) \/ DropEcho(f)
  <2>1. UNCHANGED <<shim, air>>
    BY <1>3 DEF Duplicate, DropEcho, dvars, shim
  <2> QED BY <1>0, <1>2, <2>1 DEF StepOK, Queues
<1>4. CASE ForwardDown(f)
  <2> DEFINE g == [f EXCEPT !.iface = "in"]
  <2>1. g \in FrameT /\ ~Genuine(g) /\ PlayedBack(g)
    BY <1>1, <1>4 DEF ForwardDown, Downlink, FrameT, Genuine
  <2> HIDE DEF g
  <2>2. UNCHANGED shim
    BY <1>4 DEF ForwardDown, dvars, shim
  <2> QED BY <1>0, <1>2, <2>1, <2>2, PlayedBackAir DEF StepOK
<1>5. CASE ForwardUp(f)
  <2> DEFINE g == [f EXCEPT !.iface = "out"]
  <2>1. g \in FrameT /\ ~Genuine(g) /\ (PlayedBack(g) \/ UNCHANGED air)
    BY <1>1, <1>5 DEF ForwardUp, Uplink, FrameT, Genuine
  <2> HIDE DEF g
  <2>2. Queues'
    BY <1>2, <2>1, PlayedBackAir DEF Queues
  <2>3. Nexthop(PacketOf(f), f.pos) /\ FromGround(f, start) /\ start \in Nat
    BY <1>1, <1>5 DEF ForwardUp, Queues
  <2>4. CASE f.kind = "flow"
    <3>1. f.pos \in Nat /\ f.pos >= start /\ PacketOf(f) = FlowPacket(f.pos)
      BY <1>1, <2>3, <2>4 DEF FromGround, PacketOf, FrameT
    <3> QED BY <1>0, <2>2, <2>3, <3>1 DEF StepOK, Reaches
  <2>5. CASE f.kind = "short"
    <3>1. f.pos = -1 /\ PacketOf(f) = ShortPacket
      BY <2>3, <2>5 DEF FromGround, PacketOf
    <3> QED BY <1>0, <2>2, <2>3, <3>1 DEF StepOK, Reaches
  <2>6. CASE f.kind = "other"
    <3>1. f.pos = -1 /\ PacketOf(f) = OtherPacket
      BY <2>3, <2>6 DEF FromGround, PacketOf
    <3> QED BY <1>0, <2>2, <2>3, <3>1 DEF StepOK, Reaches
  <2> QED BY <2>3, <2>4, <2>5, <2>6 DEF FromGround
<1> QED BY <1>0, <1>3, <1>4, <1>5

LEMMA DirectStep ==
  ASSUME Queues, DNext, UNCHANGED <<bridged, pump>>
  PROVE  StepOK
<1>0. start \in Nat /\ next \in Nat /\ UNCHANGED <<qfifo, air, ups, downs>>
  BY DEF Queues, pump
<1>1. ASSUME NEW p \in (next - Depth) .. next, p >= start, SendFlow(p)
      PROVE  StepOK
  <2>1. p \in Nat /\ Nexthop(FlowPacket(p), p)
    BY <1>0, <1>1, ShimAssumption DEF SendFlow
  <2>2. UNCHANGED Kept /\ start' = start /\ next' \in Nat /\ start <= next'
    BY <1>0, <1>1 DEF SendFlow, Kept, fixed, Queues
  <2>3. Queues'
    BY <1>0, <2>2 DEF Queues
  <2> QED BY <1>1, <2>1, <2>2, <2>3 DEF StepOK, Reaches
<1>2. CASE SendShort \/ SendOther
  <2>1. UNCHANGED <<Kept, next>> /\ start' = start /\ Reaches
    BY <1>2 DEF SendShort, SendOther, Kept, fixed, Reaches
  <2>2. Queues'
    BY <1>0, <2>1 DEF Queues
  <2> QED BY <2>1, <2>2 DEF StepOK
<1> QED BY <1>1, <1>2 DEF DNext

LEMMA NextStep ==
  ASSUME Queues, [BNext]_bvars
  PROVE  StepOK
<1>1. CASE UNCHANGED bvars
  <2>1. UNCHANGED <<shim, Kept, qfifo, air, next, ups, downs, start>>
    BY <1>1 DEF bvars, dvars, fixed, pump, shim, Kept
  <2> QED BY <2>1 DEF StepOK, Queues
<1>2. CASE DNext /\ UNCHANGED <<bridged, pump>>
  BY <1>2, DirectStep
<1>3. CASE Bridge /\ UNCHANGED bridged
  <2>0. next \in Nat
    BY DEF Queues
  <2>1. ASSUME NEW p \in (next - Depth) .. next, p >= start, GroundSends("flow", p)
        PROVE  StepOK
    <3>1. p \in Int /\ p <= next
      BY <2>0, ShimAssumption
    <3> QED BY <1>3, <2>1, <3>1, GroundStep
  <2>2. ASSUME NEW kind \in {"short", "other"}, GroundSends(kind, -1)
        PROVE  StepOK
    <3>1. -1 \in Int
      OBVIOUS
    <3> QED BY <1>3, <2>2, <3>1, GroundStep
  <2> QED BY <1>3, <2>1, <2>2, OthersStep, PumpStep DEF Bridge
<1> QED BY <1>1, <1>2, <1>3 DEF BNext

LEMMA QueuesInvariance == BSpec => []Queues
<1>1. Queues /\ [BNext]_bvars => Queues'
  BY NextStep DEF StepOK
<1> QED BY <1>1, InitQueues, PTL DEF BSpec

-----------------------------------------------------------------------------
(* The shim's counters, its log and the bus.                               *)

\* The log line of a packet.
Line(pkt, pos) ==
  LET fi == FlowIndex(tracker, FrameFromFields(pkt), pkt)
  IN  [pos |-> pos, index |-> fi.index,
       dropped |-> IF per_attempt THEN ge.bad ELSE RuleDecide(rule, fi.index)]

Logs(pkt, pos) ==
  LET e == Line(pkt, pos)
  IN  /\ log' = Append(log, e)
      /\ Count(e.dropped)
      /\ bus' = IF e.dropped \/ pos = -1 THEN bus ELSE Append(bus, pos)
      /\ tracker' = FlowIndex(tracker, FrameFromFields(pkt), pkt).flow
      /\ ge' = IF per_attempt THEN GEStep(ge, draw).ge ELSE ge
      /\ UNCHANGED passthrough

Passes ==
  /\ passthrough' = passthrough + 1
  /\ UNCHANGED <<tracker, ge, log, injected_drops, forwarded, bus, t>>

\* A packet that reaches the shim is logged or passes.
LEMMA NexthopIs ==
  ASSUME NEW pkt, NEW pos, Nexthop(pkt, pos)
  PROVE  IF RuleMatch(rule, FrameFromFields(pkt)) THEN Logs(pkt, pos) ELSE Passes
BY DEF Nexthop, Logs, Line, Passes, GEStep

DropLines(s) == {i \in 1 .. Len(s) : s[i].dropped}

\* K[i] is what the first i lines of s let through.
KeptChain(K, s) ==
  K = [i \in 0 .. Len(s) |->
         IF i = 0 THEN <<>>
         ELSE IF s[i].pos = -1 \/ s[i].dropped THEN K[i - 1]
         ELSE Append(K[i - 1], s[i].pos)]

Books ==
  /\ IsSeq(log)
  /\ injected_drops \in Nat /\ forwarded \in Nat /\ passthrough \in Nat
  /\ injected_drops + forwarded = Len(log)
  /\ IsFiniteSet(DropLines(log)) /\ injected_drops = Cardinality(DropLines(log))
  /\ \E K : KeptChain(K, log) /\ K[Len(log)] = bus

LEMMA DropLinesNext ==
  ASSUME NEW s, IsSeq(s), NEW e, IsFiniteSet(DropLines(s))
  PROVE  /\ IsFiniteSet(DropLines(Append(s, e)))
         /\ Cardinality(DropLines(Append(s, e))) =
              IF e.dropped THEN Cardinality(DropLines(s)) + 1 ELSE Cardinality(DropLines(s))
<1> DEFINE r == Append(s, e)
           m == Len(s) + 1
<1>1. /\ Len(s) \in Nat /\ Len(r) = m
      /\ \A i \in 1 .. Len(s) : r[i] = s[i]
      /\ r[m] = e
      /\ \A i \in 1 .. Len(r) : i \in 1 .. Len(s) \/ i = m
  BY AppendAny
<1> HIDE DEF r
<1>2. \A i \in 1 .. Len(s) : i \in 1 .. Len(r)
  BY <1>1
<1>3. m \in 1 .. Len(r) /\ m \notin 1 .. Len(s)
  BY <1>1
<1> HIDE DEF m
<1>4. CASE e.dropped
  <2>1. DropLines(r) = DropLines(s) \cup {m}
    BY <1>1, <1>2, <1>3, <1>4 DEF DropLines
  <2>2. m \notin DropLines(s)
    BY <1>3 DEF DropLines
  <2> QED BY <1>4, <2>1, <2>2, FS_AddElement DEF r
<1>5. CASE ~e.dropped
  <2>1. DropLines(r) = DropLines(s)
    BY <1>1, <1>2, <1>3, <1>5 DEF DropLines
  <2> QED BY <1>5, <2>1 DEF r
<1> QED BY <1>4, <1>5

\* What is through after line e, when k was through before it.
Through(e, k) == IF e.dropped \/ e.pos = -1 THEN k ELSE Append(k, e.pos)

LEMMA KeptNext ==
  ASSUME NEW s, IsSeq(s), NEW e, NEW K, KeptChain(K, s)
  PROVE  \E J : KeptChain(J, Append(s, e)) /\ J[Len(Append(s, e))] = Through(e, K[Len(s)])
<1> DEFINE b == Through(e, K[Len(s)])
<1> DEFINE r == Append(s, e)
           m == Len(s) + 1
           J == [i \in 0 .. m |-> IF i = m THEN b ELSE K[i]]
<1>1. /\ Len(s) \in Nat /\ Len(r) = m
      /\ \A i \in 1 .. Len(s) : r[i] = s[i]
      /\ r[m] = e
  BY AppendAny
<1> HIDE DEF r
<1>2. m \in Nat \ {0} /\ m - 1 = Len(s) /\ m \in 0 .. m /\ \A i \in 0 .. m : i # m => i \in 0 .. Len(s) /\ i # m
  BY <1>1
<1>3. \A i \in 0 .. Len(s) : i \in 0 .. m /\ i # m /\ J[i] = K[i]
  BY <1>1
<1>4. J[m] = b
  BY <1>2
<1>5. ASSUME NEW i \in 0 .. m
      PROVE  J[i] = IF i = 0 THEN <<>>
                    ELSE IF r[i].pos = -1 \/ r[i].dropped THEN J[i - 1] ELSE Append(J[i - 1], r[i].pos)
  <2>1. CASE i = m
    <3>0. i - 1 = Len(s) /\ Len(s) \in 0 .. Len(s) /\ i # 0
      BY <1>1, <1>2, <2>1, SMTT(30)
    <3>1. J[i - 1] = K[Len(s)] /\ i # 0 /\ r[i] = e
      BY <1>1, <1>3, <2>1, <3>0
    <3> QED BY <1>4, <2>1, <3>1 DEF Through
  <2>2. CASE i = 0
    <3>1. J[i] = K[0] /\ 0 \in 0 .. Len(s)
      BY <1>1, <1>3, <2>2
    <3>2. K[0] = <<>>
      BY <3>1 DEF KeptChain
    <3> QED BY <2>2, <3>1, <3>2
  <2>3. CASE i # 0 /\ i # m
    <3>1. i \in 1 .. Len(s) /\ i \in 0 .. Len(s) /\ i - 1 \in 0 .. Len(s)
      BY <1>1, <2>3
    <3>2. J[i] = K[i] /\ J[i - 1] = K[i - 1] /\ r[i] = s[i]
      BY <1>1, <1>3, <3>1
    <3>3. K[i] = IF s[i].pos = -1 \/ s[i].dropped THEN K[i - 1] ELSE Append(K[i - 1], s[i].pos)
      BY <2>3, <3>1 DEF KeptChain
    <3> QED BY <2>3, <3>2, <3>3
  <2> QED BY <2>1, <2>2, <2>3
<1>6. DOMAIN J = 0 .. m /\ J = [i \in 0 .. m |-> J[i]]
  OBVIOUS
<1> HIDE DEF J
<1>7. KeptChain(J, r)
  BY <1>1, <1>5, <1>6 DEF KeptChain
<1> QED BY <1>1, <1>4, <1>7 DEF r

LEMMA InitBooks == BInit => Books
<1> SUFFICES ASSUME BInit PROVE Books
  OBVIOUS
<1>1. PICK c, o : ShimInit(c, o)
  BY DEF BInit, DInit, BridgeInit
<1>2. log = <<>> /\ bus = <<>> /\ injected_drops = 0 /\ forwarded = 0 /\ passthrough = 0 /\ Len(log) = 0
  BY <1>1 DEF ShimInit
<1>3. IsSeq(log)
  <2>1. log \in Seq({})
    BY <1>2, EmptySeq
  <2> QED BY <2>1 DEF IsSeq
<1>4. DropLines(log) = {}
  BY <1>2 DEF DropLines
<1>5. IsFiniteSet({}) /\ Cardinality({}) = 0
  BY FS_EmptySet
<1>6. \E K : KeptChain(K, log) /\ K[Len(log)] = bus
  <2> DEFINE K == [i \in 0 .. 0 |-> <<>>]
  <2>1. KeptChain(K, log) /\ K[0] = <<>>
    BY <1>2 DEF KeptChain
  <2> QED BY <1>2, <2>1
<1>7. IsFiniteSet(DropLines(log)) /\ Cardinality(DropLines(log)) = 0
  BY <1>4, <1>5
<1> QED BY ONLY <1>2, <1>3, <1>6, <1>7 DEF Books

LEMMA LogsBooks ==
  ASSUME Books, NEW pkt, NEW pos, Logs(pkt, pos)
  PROVE  Books'
<1> DEFINE e == Line(pkt, pos)
<1>1. /\ log' = Append(log, e) /\ Count(e.dropped) /\ UNCHANGED passthrough
      /\ bus' = IF e.dropped \/ pos = -1 THEN bus ELSE Append(bus, pos)
  BY DEF Logs
<1>2. e.pos = pos
  BY DEF Line
<1> HIDE DEF e
<1>3. IsSeq(log') /\ Len(log) \in Nat /\ Len(log') = Len(log) + 1
  BY <1>1, AppendAny DEF Books
<1>4. IsFiniteSet(DropLines(log')) /\ Cardinality(DropLines(log')) =
        IF e.dropped THEN Cardinality(DropLines(log)) + 1 ELSE Cardinality(DropLines(log))
  BY <1>1, DropLinesNext DEF Books
<1>5. PICK K : KeptChain(K, log) /\ K[Len(log)] = bus
  BY DEF Books
<1>6. \E J : KeptChain(J, log') /\ J[Len(log')] = bus'
  <2>1. IsSeq(log)
    BY DEF Books
  <2>2. bus' = Through(e, K[Len(log)])
    BY <1>1, <1>2, <1>5 DEF Through
  <2> QED BY ONLY <1>1, <1>5, <2>1, <2>2, KeptNext
<1>7. CASE e.dropped
  BY <1>1, <1>3, <1>4, <1>6, <1>7 DEF Books, Count
<1>8. CASE ~e.dropped
  BY <1>1, <1>3, <1>4, <1>6, <1>8 DEF Books, Count
<1> QED BY <1>7, <1>8

LEMMA NextBooks == Queues /\ Books /\ [BNext]_bvars => Books'
<1> SUFFICES ASSUME Queues, Books, [BNext]_bvars PROVE Books'
  OBVIOUS
<1>1. UNCHANGED shim \/ Reaches
  BY NextStep DEF StepOK
<1>2. CASE UNCHANGED shim
  BY <1>2 DEF shim, Books
<1>3. ASSUME NEW pkt, NEW pos, Nexthop(pkt, pos) PROVE Books'
  <2>1. CASE Logs(pkt, pos)
    BY <2>1, LogsBooks
  <2>2. CASE Passes
    BY <2>2 DEF Passes, Books
  <2> QED BY <1>3, <2>1, <2>2, NexthopIs
<1> QED BY <1>1, <1>2, <1>3 DEF Reaches

LEMMA BooksInvariance == BSpec => []Books
BY InitBooks, NextBooks, QueuesInvariance, PTL DEF BSpec

\* Two functions that are defined by the same recursion are equal.
LEMMA KeptUnique ==
  ASSUME NEW s, Len(s) \in Nat, NEW K, NEW J, KeptChain(K, s), KeptChain(J, s)
  PROVE  K[Len(s)] = J[Len(s)]
<1> DEFINE S == {k \in 0 .. Len(s) : K[k] = J[k]}
<1>1. 0 \in S
  BY DEF KeptChain
<1>2. ASSUME NEW k \in 1 .. Len(s), k - 1 \in S PROVE k \in S
  <2>1. k \in 0 .. Len(s) /\ k # 0 /\ K[k - 1] = J[k - 1]
    BY <1>2
  <2> QED BY <2>1 DEF KeptChain
<1> HIDE DEF S
<1>3. \A k \in 0 .. Len(s) : k \in S
  BY <1>1, <1>2, SetInduction
<1> QED BY <1>3 DEF S

\* Every in-scope packet is injected loss or forwarded, and counters, log and bus
\* say so together.
THEOREM PartitionHolds == BSpec => []Partition
<1>1. Books => Partition
  <2> SUFFICES ASSUME Books PROVE Partition
    OBVIOUS
  <2>1. Len(log) \in Nat /\ DOMAIN log = 1 .. Len(log)
    BY DEF Books, IsSeq
  <2> DEFINE J == CHOOSE J : J = [i \in 0 .. Len(log) |->
                                    IF i = 0 THEN <<>>
                                    ELSE IF log[i].pos = -1 \/ log[i].dropped THEN J[i - 1]
                                    ELSE Append(J[i - 1], log[i].pos)]
  <2>2. PICK K : KeptChain(K, log) /\ K[Len(log)] = bus
    BY SMTT(30) DEF Books
  <2>3. KeptChain(J, log)
    BY <2>2 DEF KeptChain
  <2>4. J[Len(log)] = bus
    <3> HIDE DEF J
    <3> QED BY <2>1, <2>2, <2>3, KeptUnique, SMTT(30)
  <2>5. injected_drops + forwarded = Len(log) /\ injected_drops = Cardinality({i \in DOMAIN log : log[i].dropped})
    BY <2>1 DEF Books, DropLines
  <2> QED BY <2>4, <2>5 DEF Partition
<1> QED BY <1>1, BooksInvariance, PTL

-----------------------------------------------------------------------------
(* The chain.                                                              *)

\* v is the chain's trajectory along its first n draws.
Chain(v, d, n) ==
  v = [i \in 0 .. n |-> IF i = 0 THEN FALSE ELSE GEMove(v[i - 1], d[i - 1])]

\* ge is where the trajectory stands after the lines of the log.
Along(v) ==
  /\ Chain(v, draw, Len(log)) /\ v[Len(log)] = ge.bad
  /\ \A i \in 1 .. Len(log) : log[i].dropped = v[i - 1]

Trajectory ==
  per_attempt => ge.step = Len(log) /\ \E v : Along(v)

LEMMA InitTrajectory == BInit => Trajectory
<1> SUFFICES ASSUME BInit PROVE Trajectory
  OBVIOUS
<1>1. PICK c, o : ShimInit(c, o)
  BY DEF BInit, DInit, BridgeInit
<1>2. log = <<>> /\ Len(log) = 0 /\ ge.step = 0 /\ ge.bad = FALSE
  BY <1>1 DEF ShimInit, NewGE
<1> DEFINE v == [i \in 0 .. 0 |-> FALSE]
<1>3. Chain(v, draw, 0) /\ v[0] = FALSE
  BY DEF Chain
<1> HIDE DEF v
<1>4. \A i \in 1 .. 0 : FALSE
  OBVIOUS
<1> QED BY <1>2, <1>3, <1>4 DEF Trajectory, Along

LEMMA ChainNext ==
  ASSUME NEW n \in Nat, NEW v, NEW d, Chain(v, d, n), NEW b, b = GEMove(v[n], d[n])
  PROVE  \E w : Chain(w, d, n + 1) /\ w[n + 1] = b /\ \A i \in 0 .. n : w[i] = v[i]
<1> DEFINE m == n + 1
           w == [i \in 0 .. m |-> IF i = m THEN b ELSE v[i]]
<1>1. m \in 0 .. m /\ m # 0 /\ m - 1 = n /\ n \in 0 .. n
  OBVIOUS
<1>2. \A i \in 0 .. n : i \in 0 .. m /\ i # m /\ w[i] = v[i]
  OBVIOUS
<1>3. w[m] = b
  BY <1>1
<1>4. ASSUME NEW i \in 0 .. m
      PROVE  w[i] = IF i = 0 THEN FALSE ELSE GEMove(w[i - 1], d[i - 1])
  <2>1. CASE i = m
    <3>1. i # 0 /\ w[i - 1] = v[n] /\ i - 1 = n
      BY <1>1, <1>2, <2>1
    <3> QED BY <1>3, <2>1, <3>1
  <2>2. CASE i = 0
    <3>1. 0 \in 0 .. n
      OBVIOUS
    <3>2. v[0] = FALSE
      BY <3>1 DEF Chain
    <3> QED BY <1>2, <2>2, <3>1, <3>2
  <2>3. CASE i # 0 /\ i # m
    <3>1. i \in 0 .. n /\ i - 1 \in 0 .. n
      BY <2>3
    <3>2. w[i] = v[i] /\ w[i - 1] = v[i - 1]
      BY <1>2, <3>1
    <3>3. v[i] = GEMove(v[i - 1], d[i - 1])
      BY <2>3, <3>1 DEF Chain
    <3> QED BY <2>3, <3>2, <3>3
  <2> QED BY <2>1, <2>2, <2>3
<1>5. w = [i \in 0 .. m |-> w[i]]
  OBVIOUS
<1> HIDE DEF w
<1>6. Chain(w, d, m)
  BY <1>4, <1>5 DEF Chain
<1> QED BY <1>2, <1>3, <1>6

LEMMA LogsTrajectory ==
  ASSUME Books, Trajectory, UNCHANGED Kept, NEW pkt, NEW pos, Logs(pkt, pos)
  PROVE  Trajectory'
<1> SUFFICES ASSUME per_attempt PROVE (ge.step = Len(log) /\ \E v : Along(v))'
  BY DEF Trajectory, Kept
<1> DEFINE e == Line(pkt, pos)
<1>1. log' = Append(log, e) /\ e.dropped = ge.bad /\ draw' = draw
  BY DEF Logs, Line, Kept
<1> HIDE DEF e
<1>2. ge'.step = ge.step + 1 /\ ge'.bad = GEMove(ge.bad, draw[ge.step])
  BY DEF Logs, GEStep
<1>3. /\ Len(log) \in Nat /\ Len(log') = Len(log) + 1
      /\ \A i \in 1 .. Len(log) : log'[i] = log[i]
      /\ log'[Len(log) + 1] = e
      /\ \A i \in 1 .. Len(log') : i \in 1 .. Len(log) \/ i = Len(log) + 1
  BY <1>1, AppendAny DEF Books
<1>4. PICK v : Along(v)
  BY DEF Trajectory
<1>5. ge.step = Len(log)
  BY DEF Trajectory
<1>6. PICK w : /\ Chain(w, draw, Len(log) + 1) /\ w[Len(log) + 1] = ge'.bad
               /\ \A i \in 0 .. Len(log) : w[i] = v[i]
  BY <1>2, <1>3, <1>4, <1>5, ChainNext DEF Along
<1>7. ASSUME NEW i \in 1 .. Len(log') PROVE log'[i].dropped = w[i - 1]
  <2>1. CASE i = Len(log) + 1
    <3>1. i - 1 = Len(log) /\ Len(log) \in 0 .. Len(log)
      BY <1>3, <2>1
    <3>2. w[i - 1] = v[Len(log)]
      BY <1>6, <3>1
    <3>3. log'[i].dropped = ge.bad
      BY <1>1, <1>3, <2>1
    <3> QED BY <1>4, <3>2, <3>3 DEF Along
  <2>2. CASE i \in 1 .. Len(log)
    <3>1. i - 1 \in 0 .. Len(log)
      BY <1>3, <2>2
    <3>2. w[i - 1] = v[i - 1]
      BY <1>6, <3>1
    <3>3. log'[i].dropped = v[i - 1]
      BY <1>3, <1>4, <2>2 DEF Along
    <3> QED BY <3>2, <3>3
  <2> QED BY <1>3, <2>1, <2>2
<1>8. Along(w)'
  BY <1>1, <1>3, <1>6, <1>7 DEF Along
<1> QED BY <1>2, <1>3, <1>5, <1>8

LEMMA NextTrajectory == Queues /\ Books /\ Trajectory /\ [BNext]_bvars => Trajectory'
<1> SUFFICES ASSUME Queues, Books, Trajectory, [BNext]_bvars PROVE Trajectory'
  OBVIOUS
<1>1. UNCHANGED Kept /\ (UNCHANGED shim \/ Reaches)
  BY NextStep DEF StepOK
<1>2. CASE UNCHANGED <<ge, log>>
  BY <1>1, <1>2 DEF Kept, Trajectory, Along
<1>3. ASSUME NEW pkt, NEW pos, Nexthop(pkt, pos) PROVE Trajectory'
  <2>1. CASE Logs(pkt, pos)
    BY <1>1, <2>1, LogsTrajectory
  <2>2. CASE Passes
    BY <1>2, <2>2 DEF Passes
  <2> QED BY <1>3, <2>1, <2>2, NexthopIs
<1> QED BY <1>1, <1>2, <1>3 DEF Reaches, shim

\* ci_ge_fill is the chain's trajectory.
LEMMA FillIsChain ==
  ASSUME NEW d, NEW n \in Nat, NEW w, Chain(w, d, n)
  PROVE  \A k \in 0 .. (n - 1) : GEFill(d, n)[k] = w[k]
<1> DEFINE v == CHOOSE v : v = [i \in 0 .. n |-> IF i = 0 THEN FALSE ELSE GEMove(v[i - 1], d[i - 1])]
<1>1. GEFill(d, n) = [i \in 0 .. (n - 1) |-> v[i]]
  BY DEF GEFill
<1>2. Chain(v, d, n)
  BY DEF Chain
<1> HIDE DEF v
<1> DEFINE S == {k \in 0 .. n : v[k] = w[k]}
<1>3. 0 \in S
  BY <1>2 DEF Chain
<1>4. ASSUME NEW k \in 1 .. n, k - 1 \in S PROVE k \in S
  <2>1. k \in 0 .. n /\ k # 0 /\ v[k - 1] = w[k - 1]
    BY <1>4
  <2> QED BY <1>2, <2>1 DEF Chain
<1> HIDE DEF S
<1>5. \A k \in 0 .. n : k \in S
  BY <1>3, <1>4, SetInduction
<1>6. \A k \in 0 .. (n - 1) : k \in 0 .. n
  OBVIOUS
<1> QED BY <1>1, <1>5, <1>6 DEF S

\* The shim's decisions by transmission are the vector ci_ge_fill produces.
THEOREM ShimIsFill == BSpec => []TrajectoryIsFill
<1>1. Books /\ Trajectory => TrajectoryIsFill
  <2> SUFFICES ASSUME Books, Trajectory, per_attempt, NEW i \in DOMAIN log
               PROVE  log[i].dropped = GEFill(draw, Len(log))[i - 1]
    BY DEF TrajectoryIsFill
  <2>1. Len(log) \in Nat /\ DOMAIN log = 1 .. Len(log)
    BY DEF Books, IsSeq
  <2>2. PICK v : Along(v)
    BY DEF Trajectory
  <2>3. i - 1 \in 0 .. (Len(log) - 1) /\ log[i].dropped = v[i - 1]
    BY <2>1, <2>2 DEF Along
  <2>4. GEFill(draw, Len(log))[i - 1] = v[i - 1]
    BY <2>1, <2>2, <2>3, FillIsChain DEF Along
  <2> QED BY <2>3, <2>4
<1> QED BY <1>1, InitTrajectory, NextTrajectory, BooksInvariance, QueuesInvariance, PTL DEF BSpec

-----------------------------------------------------------------------------
(* The index of a packet.                                                  *)

\* The lines of s that hold a packet of the flow, and the last of them.
FlowLines(s) == {i \in 1 .. Len(s) : s[i].pos # -1}
LastFlow(s, i) == i \in FlowLines(s) /\ \A j \in FlowLines(s) : j <= i

\* From one packet of the flow to the next the position moves by less than half
\* the sequence space (32768), forth or back.
Steps(s) ==
  \A i, j \in FlowLines(s) :
    i < j /\ (\A k \in FlowLines(s) : k <= i \/ j <= k) =>
      s[j].pos - s[i].pos \in (1 - SeqHalf) .. (SeqHalf - 1)

\* NoCrossing, of the log s.
Ordered(s) ==
  \A i, j \in FlowLines(s) : i < j => s[i].pos \div SeqMod <= s[j].pos \div SeqMod

FlowFields == {"last_seq", "have_last_seq", "epoch", "dtp_mtu", "dtp_overhead"}

\* What the tracker was set up with.
Shape ==
  /\ tracker = [f \in FlowFields |-> tracker[f]] /\ tracker.have_last_seq \in BOOLEAN
  /\ tracker.dtp_mtu = DtpMtu /\ sender.overhead \in 0 .. (DtpMtu - 1)
  /\ bridged => tracker.dtp_overhead = sender.overhead

Positions ==
  /\ start \in 0 .. (SeqMod - 1)
  /\ \A i \in FlowLines(log) : log[i].pos \in Nat /\ log[i].pos >= start

\* Position p is number seq of turn b + epoch.
AtPos(b, epoch, seq, p) == NumberAt(SeqSpace, b, epoch, seq, p)

\* The tracker counts turns from b, the one of the first packet of the flow it saw.
Based(b) ==
  /\ \A i \in FlowLines(log) : log[i].index = log[i].pos - b * SeqSpace
  /\ \E i \in FlowLines(log) : log[i].pos \div SeqMod = b /\ \A j \in FlowLines(log) : i <= j
  /\ \E i \in FlowLines(log) : LastFlow(log, i) /\ AtPos(b, tracker.epoch, tracker.last_seq, log[i].pos)

Placed ==
  ~sender.dtp =>
    /\ FlowLines(log) = {} => ~tracker.have_last_seq /\ tracker.epoch = 0
    /\ FlowLines(log) # {} => tracker.have_last_seq
    /\ FlowLines(log) # {} /\ Ordered(log) /\ Steps(log) => \E b \in Int : Based(b)

Fragments ==
  sender.dtp /\ tracker.dtp_overhead = sender.overhead =>
    \A i \in FlowLines(log) : log[i].index = log[i].pos

Indexed == Shape /\ Positions /\ Placed /\ Fragments

\* The packets of the flow are in the rule's scope.
InScope == RuleMatch(rule, FrameFromFields(FlowPacket(0)))

\* The shim without the bridge sees what the sender sends, in order.
Near ==
  ~bridged =>
    /\ FlowLines(log) # {} => InScope
    /\ \A i \in FlowLines(log) :
         LastFlow(log, i) => log[i].pos < next /\ (next - log[i].pos <= 1 \/ next - log[i].pos <= Depth)
    /\ Steps(log)

\* In identity mode the rule decides by the index.
Fate == ~per_attempt => \A i \in 1 .. Len(log) : log[i].dropped = RuleDecide(rule, log[i].index)

\* What is on the bus is what the log lets through.
OnBus ==
  /\ IsSeq(bus)
  /\ \A i \in FlowLines(log) : ~log[i].dropped => \E j \in 1 .. Len(bus) : bus[j] = log[i].pos
  /\ \A j \in 1 .. Len(bus) : \E i \in FlowLines(log) : ~log[i].dropped /\ bus[j] = log[i].pos

\* r is s with the line e.
Extended(s, r, e) ==
  /\ Len(s) \in Nat /\ Len(r) = Len(s) + 1
  /\ \A i \in 1 .. Len(s) : r[i] = s[i]
  /\ r[Len(s) + 1] = e
  /\ \A i \in FlowLines(s) : i \in Nat /\ i < Len(s) + 1 /\ r[i] = s[i] /\ i \in FlowLines(r)
  /\ \A i \in FlowLines(r) : i \in FlowLines(s) \/ (i = Len(s) + 1 /\ e.pos # -1)
  /\ e.pos # -1 => Len(s) + 1 \in FlowLines(r)

LEMMA ExtendedBy ==
  ASSUME NEW s, IsSeq(s), NEW e
  PROVE  Extended(s, Append(s, e), e)
<1> DEFINE r == Append(s, e)
<1>1. /\ Len(s) \in Nat /\ Len(r) = Len(s) + 1
      /\ \A i \in 1 .. Len(s) : r[i] = s[i]
      /\ r[Len(s) + 1] = e
      /\ \A i \in 1 .. Len(r) : i \in 1 .. Len(s) \/ i = Len(s) + 1
  BY AppendAny
<1> HIDE DEF r
<1>2. \A i \in 1 .. Len(s) : i \in Nat /\ i < Len(s) + 1 /\ i \in 1 .. Len(r)
  BY <1>1
<1>3. Len(s) + 1 \in 1 .. Len(r)
  BY <1>1
<1>4. \A i \in FlowLines(s) : i \in 1 .. Len(s) /\ i \in FlowLines(r)
  BY <1>1, <1>2 DEF FlowLines
<1>5. \A i \in FlowLines(r) : i \in FlowLines(s) \/ (i = Len(s) + 1 /\ e.pos # -1)
  BY <1>1 DEF FlowLines
<1>6. e.pos # -1 => Len(s) + 1 \in FlowLines(r)
  BY <1>1, <1>3 DEF FlowLines
<1>7. Extended(s, r, e)
  BY <1>1, <1>2, <1>4, <1>5, <1>6 DEF Extended
<1> QED BY <1>7 DEF r

\* What holds of all of the log's steps held of those before the last.
LEMMA StepsBefore ==
  ASSUME NEW s, NEW r, NEW e, Extended(s, r, e), Steps(r)
  PROVE  /\ Steps(s)
         /\ e.pos # -1 => \A i : LastFlow(s, i) => e.pos - s[i].pos \in (1 - SeqHalf) .. (SeqHalf - 1)
<1>1. /\ \A i \in FlowLines(s) : i \in Nat /\ i < Len(s) + 1 /\ r[i] = s[i] /\ i \in FlowLines(r)
      /\ \A i \in FlowLines(r) : i \in FlowLines(s) \/ (i = Len(s) + 1 /\ e.pos # -1)
      /\ Len(s) \in Nat /\ r[Len(s) + 1] = e
      /\ e.pos # -1 => Len(s) + 1 \in FlowLines(r)
  BY DEF Extended
<1>2. ASSUME NEW i \in FlowLines(s), NEW j \in FlowLines(s), i < j, \A k \in FlowLines(s) : k <= i \/ j <= k
      PROVE  s[j].pos - s[i].pos \in (1 - SeqHalf) .. (SeqHalf - 1)
  <2>1. \A k \in FlowLines(r) : k <= i \/ j <= k
    BY <1>1, <1>2
  <2>2. i \in FlowLines(r) /\ j \in FlowLines(r) /\ r[i] = s[i] /\ r[j] = s[j]
    BY <1>1
  <2>3. r[j].pos - r[i].pos \in (1 - SeqHalf) .. (SeqHalf - 1)
    BY <1>2, <2>1, <2>2 DEF Steps
  <2> QED BY <2>2, <2>3
<1>3. ASSUME NEW i, e.pos # -1, LastFlow(s, i)
      PROVE  e.pos - s[i].pos \in (1 - SeqHalf) .. (SeqHalf - 1)
  <2> DEFINE m == Len(s) + 1
  <2>1. i \in FlowLines(s) /\ \A j \in FlowLines(s) : j <= i
    BY <1>3 DEF LastFlow
  <2>2. i \in FlowLines(r) /\ m \in FlowLines(r) /\ i < m /\ r[i] = s[i] /\ r[m] = e
    BY <1>1, <1>3, <2>1
  <2>3. \A k \in FlowLines(r) : k <= i \/ m <= k
    BY <1>1, <2>1
  <2>4. r[m].pos - r[i].pos \in (1 - SeqHalf) .. (SeqHalf - 1)
    BY <2>2, <2>3 DEF Steps
  <2> QED BY <2>2, <2>4
<1> QED BY <1>2, <1>3 DEF Steps

LEMMA StepsAfter ==
  ASSUME NEW s, NEW r, NEW e, Extended(s, r, e), Steps(s),
         e.pos # -1 => \A i : LastFlow(s, i) => e.pos - s[i].pos \in (1 - SeqHalf) .. (SeqHalf - 1)
  PROVE  Steps(r)
<1>1. /\ \A i \in FlowLines(s) : i \in Nat /\ i < Len(s) + 1 /\ r[i] = s[i] /\ i \in FlowLines(r)
      /\ \A i \in FlowLines(r) : i \in FlowLines(s) \/ (i = Len(s) + 1 /\ e.pos # -1)
      /\ Len(s) \in Nat /\ r[Len(s) + 1] = e
  BY DEF Extended
<1>2. ASSUME NEW i \in FlowLines(r), NEW j \in FlowLines(r), i < j, \A k \in FlowLines(r) : k <= i \/ j <= k
      PROVE  r[j].pos - r[i].pos \in (1 - SeqHalf) .. (SeqHalf - 1)
  <2>1. i \in FlowLines(s)
    BY <1>1, <1>2
  <2>2. CASE j \in FlowLines(s)
    <3>1. \A k \in FlowLines(s) : k <= i \/ j <= k
      BY <1>1, <1>2
    <3>2. s[j].pos - s[i].pos \in (1 - SeqHalf) .. (SeqHalf - 1)
      BY <1>2, <2>1, <2>2, <3>1 DEF Steps
    <3> QED BY <1>1, <2>1, <2>2, <3>2
  <2>3. CASE j = Len(s) + 1 /\ e.pos # -1
    <3>1. ASSUME NEW k \in FlowLines(s) PROVE k <= i
      <4>1. k \in Nat /\ k < Len(s) + 1 /\ k \in FlowLines(r)
        BY <1>1
      <4>2. k <= i \/ j <= k
        BY <1>2, <4>1
      <4> QED BY <1>1, <2>3, <4>1, <4>2
    <3>2. e.pos - s[i].pos \in (1 - SeqHalf) .. (SeqHalf - 1)
      BY <2>1, <2>3, <3>1 DEF LastFlow
    <3> QED BY <1>1, <2>1, <2>3, <3>2
  <2> QED BY <1>1, <2>2, <2>3
<1> QED BY <1>2 DEF Steps

LEMMA OrderedBefore ==
  ASSUME NEW s, NEW r, NEW e, Extended(s, r, e), Ordered(r)
  PROVE  /\ Ordered(s)
         /\ e.pos # -1 => \A i \in FlowLines(s) : s[i].pos \div SeqMod <= e.pos \div SeqMod
<1>1. /\ \A i \in FlowLines(s) : i \in Nat /\ i < Len(s) + 1 /\ r[i] = s[i] /\ i \in FlowLines(r)
      /\ r[Len(s) + 1] = e
      /\ e.pos # -1 => Len(s) + 1 \in FlowLines(r)
  BY DEF Extended
<1>2. Ordered(s)
  BY <1>1 DEF Ordered
<1>3. ASSUME NEW i \in FlowLines(s), e.pos # -1 PROVE s[i].pos \div SeqMod <= e.pos \div SeqMod
  <2> DEFINE m == Len(s) + 1
  <2>1. i \in FlowLines(r) /\ m \in FlowLines(r) /\ i < m /\ r[i] = s[i] /\ r[m] = e
    BY <1>1, <1>3
  <2>2. r[i].pos \div SeqMod <= r[m].pos \div SeqMod
    BY <2>1 DEF Ordered
  <2> QED BY <2>1, <2>2
<1> QED BY <1>2, <1>3

LEMMA LastAfter ==
  ASSUME NEW s, NEW r, NEW e, Extended(s, r, e)
  PROVE  /\ e.pos # -1 => /\ LastFlow(r, Len(s) + 1)
                          /\ \A i : LastFlow(r, i) => i = Len(s) + 1
         /\ e.pos = -1 => FlowLines(r) = FlowLines(s) /\ \A i : LastFlow(r, i) <=> LastFlow(s, i)
<1>1. /\ \A i \in FlowLines(s) : i \in Nat /\ i < Len(s) + 1 /\ r[i] = s[i] /\ i \in FlowLines(r)
      /\ \A i \in FlowLines(r) : i \in FlowLines(s) \/ (i = Len(s) + 1 /\ e.pos # -1)
      /\ Len(s) \in Nat
      /\ e.pos # -1 => Len(s) + 1 \in FlowLines(r)
  BY DEF Extended
<1>2. CASE e.pos # -1
  <2>1. \A j \in FlowLines(r) : j \in Nat /\ j <= Len(s) + 1
    BY <1>1
  <2>2. ASSUME NEW i, LastFlow(r, i) PROVE i = Len(s) + 1
    <3>1. i \in FlowLines(r) /\ Len(s) + 1 <= i
      BY <1>1, <1>2, <2>2 DEF LastFlow
    <3> QED BY <1>1, <2>1, <3>1
  <2> QED BY <1>1, <1>2, <2>1, <2>2 DEF LastFlow
<1>3. CASE e.pos = -1
  <2>1. FlowLines(r) = FlowLines(s)
    BY <1>1, <1>3
  <2> QED BY <1>3, <2>1 DEF LastFlow
<1> QED BY <1>2, <1>3

\* ci_flow_index follows the flow from position a to p, no more than half the
\* sequence space apart and not back across a wrap.
LEMMA Follows ==
  ASSUME NEW b \in Int, NEW ep, NEW last, NEW a \in Nat, AtPos(b, ep, last, a),
         NEW p \in Nat, p - a \in (1 - SeqHalf) .. (SeqHalf - 1),
         a \div SeqMod <= p \div SeqMod,
         NEW seq, seq = p % SeqSpace,
         NEW e, e = IF SeqIsWrap(last, seq) THEN ep + 1 ELSE ep
  PROVE  AtPos(b, e, seq, p)
<1>1. SeqHalf \in Nat \ {0} /\ SeqSpace = 2 * SeqHalf /\ SeqMod = SeqSpace
  BY RuleAssumption, ShimAssumption DEF SeqSpace, SeqMod
<1>2. SeqIsWrap(last, seq) = Wraps(SeqHalf, SeqSpace, last, seq)
  BY DEF SeqIsWrap, Wraps
<1>3. a \div SeqSpace <= p \div SeqSpace
  BY <1>1
<1> QED BY <1>1, <1>2, <1>3, FollowsTurn DEF AtPos

-----------------------------------------------------------------------------
(* What the tracker makes of a packet.                                     *)

FlowShape(fl) == fl = [f \in FlowFields |-> fl[f]] /\ fl.have_last_seq \in BOOLEAN

\* An RDP packet of the flow: tracker g and index x after it.
Tracks(fl, g, x, seq) ==
  /\ FlowShape(g) /\ g.dtp_mtu = fl.dtp_mtu /\ g.dtp_overhead = fl.dtp_overhead
  /\ x = g.epoch * SeqSpace + seq
  /\ g.last_seq = seq /\ g.have_last_seq
  /\ g.epoch = IF fl.have_last_seq /\ SeqIsWrap(fl.last_seq, seq) THEN fl.epoch + 1 ELSE fl.epoch

LEMMA RdpTracks ==
  ASSUME NEW fl, FlowShape(fl), NEW p, NEW r, r = FlowIndex(fl, FrameFromFields(Rdp(p, TrailerLen + 1)), Rdp(p, TrailerLen + 1))
  PROVE  Tracks(fl, r.flow, r.index, SeqOf(p))
<1> DEFINE pk == Rdp(p, TrailerLen + 1)
<1>1. TrailerParses(pk) /\ FrameFromFields(pk).is_rdp = TRUE /\ pk.seq = SeqOf(p)
  BY RuleAssumption DEF TrailerParses, FrameFromFields, Rdp
<1> HIDE DEF pk
<1> DEFINE e == IF fl.have_last_seq /\ SeqIsWrap(fl.last_seq, pk.seq) THEN fl.epoch + 1 ELSE fl.epoch
           g == [fl EXCEPT !.last_seq = pk.seq, !.have_last_seq = TRUE, !.epoch = e]
<1>2. r = [flow |-> g, index |-> FlowIndexRdp(e, pk.seq)]
  BY <1>1 DEF FlowIndex, pk
<1>3. /\ g.last_seq = pk.seq /\ g.have_last_seq = TRUE /\ g.epoch = e /\ g = [x \in FlowFields |-> g[x]]
      /\ g.dtp_mtu = fl.dtp_mtu /\ g.dtp_overhead = fl.dtp_overhead
  BY DEF FlowShape, FlowFields
<1> HIDE DEF g
<1>4. r.flow = g /\ r.index = e * SeqSpace + pk.seq
  BY <1>2 DEF FlowIndexRdp
<1>5. FlowShape(g)
  BY <1>3 DEF FlowShape
<1> QED BY <1>1, <1>3, <1>4, <1>5 DEF Tracks

\* The line of an RDP packet of the flow.
LEMMA RdpLogged ==
  ASSUME Shape, ~sender.dtp, NEW p \in Nat, Logs(FlowPacket(p), p)
  PROVE  /\ log' = Append(log, Line(FlowPacket(p), p)) /\ Line(FlowPacket(p), p).pos = p
         /\ Tracks(tracker, tracker', Line(FlowPacket(p), p).index, SeqOf(p))
<1>1. FlowPacket(p) = Rdp(p, TrailerLen + 1)
  BY DEF FlowPacket
<1> DEFINE pk == Rdp(p, TrailerLen + 1)
           r == FlowIndex(tracker, FrameFromFields(pk), pk)
           e == Line(pk, p)
<1>2. log' = Append(log, e) /\ tracker' = r.flow /\ e.pos = p /\ e.index = r.index
  BY <1>1 DEF Logs, Line
<1>3. FlowShape(tracker)
  BY DEF Shape, FlowShape
<1>4. Tracks(tracker, r.flow, r.index, SeqOf(p))
  BY <1>3, RdpTracks
<1> HIDE DEF r, e, pk
<1> QED BY <1>1, <1>2, <1>4 DEF e, pk

\* The index of a fragment, for a tracker that knows the sender's header.
LEMMA FragmentIs ==
  ASSUME sender.overhead \in 0 .. (DtpMtu - 1), NEW fl, fl.dtp_mtu = DtpMtu, fl.dtp_overhead = sender.overhead,
         NEW p \in Nat
  PROVE  FragmentIndex(fl, Dtp(p)) = p
<1> DEFINE w == DtpMtu - sender.overhead
           pk == Dtp(p)
<1>1. pk.len >= OffsetLen /\ pk.off = p * w
  BY RuleAssumption DEF Dtp
<1> HIDE DEF pk
<1>2. w \in Nat \ {0} /\ fl.dtp_mtu > fl.dtp_overhead /\ fl.dtp_mtu - fl.dtp_overhead = w
  BY ShimAssumption
<1>3. FragmentIndex(fl, pk) = (p * w) \div w
  BY <1>1, <1>2 DEF FragmentIndex
<1> HIDE DEF w
<1>4. p * w \in Nat /\ p * w = w * p + 0 /\ 0 \in 0 .. (w - 1)
  BY <1>2
<1>5. (p * w) \div w = p
  BY <1>2, <1>4, DivUnique
<1> QED BY <1>3, <1>5 DEF pk

\* The line of a fragment.
LEMMA DtpLogged ==
  ASSUME Shape, sender.dtp, NEW p \in Nat, Logs(FlowPacket(p), p)
  PROVE  /\ log' = Append(log, Line(FlowPacket(p), p)) /\ Line(FlowPacket(p), p).pos = p
         /\ tracker' = tracker
         /\ tracker.dtp_overhead = sender.overhead => Line(FlowPacket(p), p).index = p
<1>1. FlowPacket(p) = Dtp(p)
  BY DEF FlowPacket
<1> DEFINE pk == Dtp(p)
<1>2. FrameFromFields(pk).is_rdp = FALSE
  BY DEF FrameFromFields, Dtp
<1>3. tracker.dtp_overhead = sender.overhead => FragmentIndex(tracker, pk) = p
  BY FragmentIs DEF Shape
<1> HIDE DEF pk
<1>4. FlowIndex(tracker, FrameFromFields(pk), pk) = [flow |-> tracker, index |-> FragmentIndex(tracker, pk)]
  BY <1>2 DEF FlowIndex
<1> QED BY <1>1, <1>3, <1>4 DEF Logs, Line, pk

\* The line of a packet that is not of the flow.
LEMMA OtherLogged ==
  ASSUME NEW pkt \in {ShortPacket, OtherPacket}, Logs(pkt, -1)
  PROVE  /\ log' = Append(log, Line(pkt, -1)) /\ Line(pkt, -1).pos = -1
         /\ tracker' = tracker
<1>1. FlowIndex(tracker, FrameFromFields(pkt), pkt).flow = tracker
  <2>1. CASE pkt = ShortPacket
    <3>1. ~TrailerParses(pkt)
      BY <2>1, RuleAssumption DEF TrailerParses, ShortPacket, Rdp
    <3> QED BY <3>1 DEF FlowIndex
  <2>2. CASE pkt = OtherPacket
    <3>1. FrameFromFields(pkt).is_rdp = FALSE
      BY <2>2 DEF FrameFromFields, OtherPacket
    <3> QED BY <3>1 DEF FlowIndex
  <2> QED BY <2>1, <2>2
<1> QED BY <1>1 DEF Logs, Line

LEMMA TurnOf ==
  ASSUME NEW p \in Nat
  PROVE  /\ SeqSpace \in Nat \ {0} /\ SeqMod = SeqSpace /\ p \div SeqMod \in Nat
         /\ SeqOf(p) = p % SeqSpace /\ SeqOf(p) \in 0 .. (SeqSpace - 1)
         /\ SeqSpace * (p \div SeqMod) + SeqOf(p) = p
<1>1. SeqSpace \in Nat \ {0} /\ SeqMod = SeqSpace
  BY RuleAssumption, ShimAssumption DEF SeqSpace, SeqMod
<1>2. /\ p \div SeqSpace \in Nat /\ p % SeqSpace \in 0 .. (SeqSpace - 1)
      /\ p = SeqSpace * (p \div SeqSpace) + (p % SeqSpace)
  BY <1>1, DivMod
<1> QED BY <1>1, <1>2 DEF SeqOf

\* The first packet of the flow that the shim sees.
LEMMA FirstPlaced ==
  ASSUME Shape, Placed, ~sender.dtp, FlowLines(log) = {}, NEW p \in Nat, NEW e, e.pos = p,
         Extended(log, log', e), Tracks(tracker, tracker', e.index, SeqOf(p))
  PROVE  Based(p \div SeqMod)'
<1> DEFINE b == p \div SeqMod
           m == Len(log) + 1
<1>1. /\ SeqSpace \in Nat \ {0} /\ SeqMod = SeqSpace /\ b \in Nat
      /\ SeqOf(p) \in 0 .. (SeqSpace - 1) /\ SeqSpace * b + SeqOf(p) = p
  BY TurnOf
<1>2. tracker'.epoch = 0 /\ tracker'.last_seq = SeqOf(p) /\ e.index = 0 * SeqSpace + SeqOf(p)
  BY DEF Tracks, Placed
<1>3. /\ m \in FlowLines(log') /\ log'[m] = e /\ LastFlow(log', m) /\ Len(log) \in Nat
      /\ \A i \in FlowLines(log') : i = m
  <2>1. e.pos # -1
    OBVIOUS
  <2> QED BY <2>1, LastAfter DEF Extended
<1> HIDE DEF m, b
<1>4. AtPos(b, 0, SeqOf(p), p)
  <2>1. b + 0 = b /\ 0 \in Int
    BY <1>1
  <2> QED BY <1>1, <2>1 DEF AtPos, NumberAt
<1>5. e.index = p - b * SeqSpace
  <2> DEFINE y == SeqSpace * b
  <2>1. y \in Int /\ y + SeqOf(p) = p /\ b * SeqSpace = y /\ e.index = SeqOf(p) /\ SeqOf(p) \in Int
    BY <1>1, <1>2
  <2> HIDE DEF y
  <2> QED BY <2>1
<1>6. \A i, j \in FlowLines(log') : i <= j
  <2>1. m <= m
    BY <1>3 DEF m
  <2> QED BY <1>3, <2>1
<1>7. e.pos \div SeqMod = b
  BY DEF b
<1>8. Based(b)'
  BY <1>2, <1>3, <1>4, <1>5, <1>6, <1>7 DEF Based
<1> QED BY <1>8 DEF b

\* A later one.
LEMMA NextPlaced ==
  ASSUME Books, Shape, Positions, Placed, ~sender.dtp, FlowLines(log) # {}, NEW p \in Nat, NEW e, e.pos = p,
         Extended(log, log', e), Tracks(tracker, tracker', e.index, SeqOf(p)),
         Ordered(log'), Steps(log')
  PROVE  \E b \in Int : Based(b)'
<1> DEFINE m == Len(log) + 1
<1>0. e.pos # -1 /\ SeqOf(p) = p % SeqSpace /\ SeqSpace \in Nat \ {0}
  BY TurnOf
<1>1. /\ Steps(log) /\ Ordered(log)
      /\ \A i : LastFlow(log, i) => p - log[i].pos \in (1 - SeqHalf) .. (SeqHalf - 1)
      /\ \A i \in FlowLines(log) : log[i].pos \div SeqMod <= p \div SeqMod
  BY <1>0, StepsBefore, OrderedBefore
<1>2. PICK b \in Int : Based(b)
  BY <1>1 DEF Placed
<1>3. tracker.have_last_seq
  BY DEF Placed
<1>4. PICK i \in FlowLines(log) : LastFlow(log, i) /\ AtPos(b, tracker.epoch, tracker.last_seq, log[i].pos)
  BY <1>2 DEF Based
<1>5. /\ tracker'.epoch = IF SeqIsWrap(tracker.last_seq, SeqOf(p)) THEN tracker.epoch + 1 ELSE tracker.epoch
      /\ tracker'.last_seq = SeqOf(p) /\ e.index = tracker'.epoch * SeqSpace + SeqOf(p)
  BY <1>3 DEF Tracks
<1>6. AtPos(b, tracker'.epoch, SeqOf(p), p)
  <2> DEFINE a == log[i].pos
  <2>1. a \in Nat /\ p - a \in (1 - SeqHalf) .. (SeqHalf - 1) /\ a \div SeqMod <= p \div SeqMod
        /\ AtPos(b, tracker.epoch, tracker.last_seq, a)
    BY <1>1, <1>4 DEF Positions
  <2> HIDE DEF a
  <2> QED BY ONLY <1>0, <1>2, <1>5, <2>1, p \in Nat, Follows
<1>7. e.index = p - b * SeqSpace
  <2> DEFINE ep == tracker'.epoch
             q == SeqOf(p)
  <2>1. ep \in Int /\ q \in Int /\ SeqSpace \in Int /\ SeqSpace * (b + ep) + q = p /\ e.index = ep * SeqSpace + q
    BY <1>0, <1>5, <1>6 DEF AtPos, NumberAt
  <2> HIDE DEF ep, q
  <2> QED BY ONLY <1>2, <2>1, Distribute
<1>8. /\ m \in FlowLines(log') /\ log'[m] = e /\ LastFlow(log', m)
      /\ \A j \in FlowLines(log') : j \in FlowLines(log) \/ j = m
      /\ \A j \in FlowLines(log) : j \in FlowLines(log') /\ log'[j] = log[j] /\ j <= m
  <2>1. LastFlow(log', m)
    BY <1>0, LastAfter
  <2>2. m \in FlowLines(log') /\ log'[m] = e /\ \A j \in FlowLines(log') : j \in FlowLines(log) \/ j = m
    BY <1>0 DEF Extended
  <2>3. ASSUME NEW j \in FlowLines(log)
        PROVE  j \in FlowLines(log') /\ log'[j] = log[j] /\ j <= m
    BY DEF Extended
  <2> QED BY <2>1, <2>2, <2>3
<1> HIDE DEF m
<1>9. \A j \in FlowLines(log') : log'[j].index = log'[j].pos - b * SeqSpace
  BY <1>2, <1>7, <1>8 DEF Based
<1>10. \E k \in FlowLines(log') : log'[k].pos \div SeqMod = b /\ \A j \in FlowLines(log') : k <= j
  <2>1. PICK k \in FlowLines(log) : log[k].pos \div SeqMod = b /\ \A j \in FlowLines(log) : k <= j
    BY <1>2 DEF Based
  <2>2. k \in FlowLines(log') /\ log'[k].pos \div SeqMod = b
    BY <1>8, <2>1
  <2>3. \A j \in FlowLines(log') : k <= j
    BY <1>8, <2>1
  <2> QED BY <2>2, <2>3
<1>11. \E k \in FlowLines(log') : LastFlow(log', k) /\ AtPos(b, tracker'.epoch, tracker'.last_seq, log'[k].pos)
  BY <1>5, <1>6, <1>8
<1>12. Based(b)'
  BY <1>9, <1>10, <1>11 DEF Based
<1> QED BY <1>12

LEMMA RdpIndexed ==
  ASSUME Books, Indexed, UNCHANGED Kept, ~sender.dtp, NEW p \in Nat, p >= start, Logs(FlowPacket(p), p)
  PROVE  Indexed'
<1> DEFINE e == Line(FlowPacket(p), p)
<1>0. sender' = sender /\ start' = start /\ bridged' = bridged /\ Shape /\ Positions /\ Placed
  BY DEF Kept, Indexed
<1>1. log' = Append(log, e) /\ e.pos = p /\ Tracks(tracker, tracker', e.index, SeqOf(p))
  BY <1>0, RdpLogged
<1> HIDE DEF e
<1>2. Extended(log, log', e) /\ e.pos # -1
  BY <1>1, ExtendedBy DEF Books
<1>3. Shape'
  BY <1>0, <1>1 DEF Tracks, Shape, FlowShape
<1>4. Positions'
  BY <1>0, <1>1, <1>2 DEF Positions, Extended
<1>5. tracker'.have_last_seq /\ FlowLines(log') # {}
  BY <1>1, <1>2 DEF Tracks, Extended
<1>6. ASSUME Ordered(log'), Steps(log') PROVE \E b \in Int : Based(b)'
  <2>1. CASE FlowLines(log) = {}
    <3>1. p \div SeqMod \in Int
      BY TurnOf
    <3> QED BY <1>0, <1>1, <1>2, <2>1, <3>1, FirstPlaced
  <2>2. CASE FlowLines(log) # {}
    BY <1>0, <1>1, <1>2, <1>6, <2>2, NextPlaced
  <2> QED BY <2>1, <2>2
<1>7. Placed'
  BY <1>0, <1>5, <1>6 DEF Placed
<1>8. Fragments'
  BY <1>0 DEF Fragments
<1> QED BY <1>3, <1>4, <1>7, <1>8 DEF Indexed

LEMMA DtpIndexed ==
  ASSUME Books, Indexed, UNCHANGED Kept, sender.dtp, NEW p \in Nat, p >= start, Logs(FlowPacket(p), p)
  PROVE  Indexed'
<1> DEFINE e == Line(FlowPacket(p), p)
<1>0. sender' = sender /\ start' = start /\ bridged' = bridged /\ Shape /\ Positions /\ Fragments
  BY DEF Kept, Indexed
<1>1. log' = Append(log, e) /\ e.pos = p /\ tracker' = tracker
      /\ (tracker.dtp_overhead = sender.overhead => e.index = p)
  BY <1>0, DtpLogged
<1> HIDE DEF e
<1>2. Extended(log, log', e)
  BY <1>1, ExtendedBy DEF Books
<1>3. Shape'
  BY <1>0, <1>1 DEF Shape
<1>4. Positions'
  BY <1>0, <1>1, <1>2 DEF Positions, Extended
<1>5. Placed'
  BY <1>0 DEF Placed
<1>6. Fragments'
  BY <1>0, <1>1, <1>2 DEF Fragments, Extended
<1> QED BY <1>3, <1>4, <1>5, <1>6 DEF Indexed

LEMMA OtherIndexed ==
  ASSUME Books, Indexed, UNCHANGED Kept, NEW pkt \in {ShortPacket, OtherPacket}, Logs(pkt, -1)
  PROVE  Indexed'
<1> DEFINE e == Line(pkt, -1)
<1>0. sender' = sender /\ start' = start /\ bridged' = bridged /\ Shape /\ Positions /\ Placed /\ Fragments
  BY DEF Kept, Indexed
<1>1. log' = Append(log, e) /\ e.pos = -1 /\ tracker' = tracker
  BY OtherLogged
<1> HIDE DEF e
<1>2. Extended(log, log', e)
  BY <1>1, ExtendedBy DEF Books
<1>3. /\ FlowLines(log') = FlowLines(log) /\ \A i : LastFlow(log', i) <=> LastFlow(log, i)
      /\ \A i \in FlowLines(log) : log'[i] = log[i]
  BY <1>1, <1>2, LastAfter DEF Extended
<1>4. Ordered(log') /\ Steps(log') => Ordered(log) /\ Steps(log)
  BY <1>2, StepsBefore, OrderedBefore
<1>5. Shape'
  BY <1>0, <1>1 DEF Shape
<1>6. Positions'
  BY <1>0, <1>3 DEF Positions
<1>7. ASSUME NEW b, Based(b) PROVE Based(b)'
  BY <1>1, <1>3, <1>7 DEF Based
<1>8. Placed'
  BY <1>0, <1>1, <1>3, <1>4, <1>7 DEF Placed
<1>9. Fragments'
  BY <1>0, <1>1, <1>3 DEF Fragments
<1> QED BY <1>5, <1>6, <1>8, <1>9 DEF Indexed

LEMMA InitIndexed == BInit => Indexed
<1> SUFFICES ASSUME BInit PROVE Indexed
  OBVIOUS
<1>1. PICK c, o : /\ ShimInit(c, o) /\ (bridged => o = c.sender.overhead)
                  /\ c.sender.overhead \in 0 .. (DtpMtu - 1)
  BY ShimAssumption, BridgeAssumption DEF BInit, DInit, BridgeInit
<1>2. /\ tracker = [last_seq |-> 0, have_last_seq |-> FALSE, epoch |-> 0, dtp_mtu |-> DtpMtu, dtp_overhead |-> o]
      /\ sender = c.sender /\ log = <<>>
  BY <1>1 DEF ShimInit, NewFlow
<1>3. FlowLines(log) = {}
  BY <1>2 DEF FlowLines
<1>4. Shape
  BY <1>1, <1>2 DEF Shape, FlowFields
<1>5. start \in 0 .. (SeqMod - 1)
  <2>1. start = 0 \/ start \in Starts
    BY <1>1 DEF ShimInit
  <2>2. Starts \subseteq 0 .. (SeqMod - 1) /\ SeqMod \in Nat \ {0}
    BY ShimAssumption, SeqAssumption DEF SeqMod
  <2>3. 0 \in 0 .. (SeqMod - 1)
    BY <2>2
  <2> QED BY ONLY <2>1, <2>2, <2>3
<1> QED BY <1>2, <1>3, <1>4, <1>5 DEF Indexed, Positions, Placed, Fragments

LEMMA NextIndexed == Queues /\ Books /\ Indexed /\ [BNext]_bvars => Indexed'
<1> SUFFICES ASSUME Queues, Books, Indexed, [BNext]_bvars PROVE Indexed'
  OBVIOUS
<1>1. UNCHANGED Kept /\ (UNCHANGED shim \/ Reaches)
  BY NextStep DEF StepOK
<1>2. CASE UNCHANGED <<tracker, log>>
  BY <1>1, <1>2 DEF Kept, Indexed, Shape, Positions, Placed, Fragments, Based
<1>3. CASE Passes
  BY <1>2, <1>3 DEF Passes
<1>4. ASSUME NEW p \in Nat, p >= start, Nexthop(FlowPacket(p), p) PROVE Indexed'
  <2>1. CASE Passes
    BY <1>3, <2>1
  <2>2. CASE Logs(FlowPacket(p), p)
    BY <1>1, <1>4, <2>2, RdpIndexed, DtpIndexed
  <2> QED BY <1>4, <2>1, <2>2, NexthopIs
<1>5. ASSUME NEW pkt \in {ShortPacket, OtherPacket}, Nexthop(pkt, -1) PROVE Indexed'
  <2>1. CASE Logs(pkt, -1)
    BY <1>1, <2>1, OtherIndexed
  <2> QED BY <1>3, <1>5, <2>1, NexthopIs
<1> QED BY <1>1, <1>2, <1>4, <1>5 DEF Reaches, shim

LEMMA IndexedInvariance == BSpec => []Indexed
BY InitIndexed, NextIndexed, QueuesInvariance, BooksInvariance, PTL DEF BSpec

-----------------------------------------------------------------------------
(* The shim without the bridge.                                            *)

LEMMA ScopeSame ==
  ASSUME NEW p
  PROVE  FrameFromFields(FlowPacket(p)) = FrameFromFields(FlowPacket(0))
<1>1. CASE sender.dtp
  BY <1>1 DEF FlowPacket, Dtp, FrameFromFields
<1>2. CASE ~sender.dtp
  BY <1>2 DEF FlowPacket, Rdp, FrameFromFields
<1> QED BY <1>1, <1>2

LEMMA SendNear ==
  ASSUME Queues, Books, Positions, Near, ~bridged, UNCHANGED Kept, NEW p \in (next - Depth) .. next, p >= start, SendFlow(p)
  PROVE  Near'
<1>0. /\ next \in Nat /\ start \in Nat /\ p \in Nat /\ Depth \in 0 .. (SeqHalf - 1) /\ SeqHalf \in Nat /\ SeqHalf > 1
      /\ p <= next /\ next - p <= Depth
  BY ShimAssumption, SeqAssumption DEF Queues
<1>1. Nexthop(FlowPacket(p), p) /\ next' = (IF p = next THEN next + 1 ELSE next) /\ bridged' = bridged /\ InScope' = InScope
  BY DEF SendFlow, Kept, InScope, FlowPacket, Dtp
<1>2. /\ FlowLines(log) # {} => InScope
      /\ Steps(log)
      /\ \A i \in FlowLines(log) :
           LastFlow(log, i) => log[i].pos < next /\ (next - log[i].pos <= 1 \/ next - log[i].pos <= Depth)
  BY DEF Near
<1>3. CASE ~InScope
  <2>1. Passes
    BY <1>1, <1>3, NexthopIs, ScopeSame DEF InScope
  <2>2. log' = log /\ FlowLines(log) = {}
    BY <1>2, <1>3, <2>1 DEF Passes
  <2> QED BY <1>2, <2>2 DEF Near
<1>4. CASE InScope
  <2>1. Logs(FlowPacket(p), p)
    BY <1>1, <1>4, NexthopIs, ScopeSame DEF InScope
  <2> DEFINE e == Line(FlowPacket(p), p)
  <2>2. log' = Append(log, e) /\ e.pos = p
    BY <2>1 DEF Logs, Line
  <2> HIDE DEF e
  <2>3. Extended(log, log', e) /\ e.pos # -1
    BY <1>0, <2>2, ExtendedBy DEF Books
  <2>4. ASSUME NEW i, LastFlow(log, i)
        PROVE  e.pos - log[i].pos \in (1 - SeqHalf) .. (SeqHalf - 1)
    <3>1. i \in FlowLines(log) /\ log[i].pos \in Int
      BY <2>4 DEF LastFlow, Positions
    <3>2. log[i].pos < next /\ (next - log[i].pos <= 1 \/ next - log[i].pos <= Depth)
      BY <1>2, <2>4, <3>1
    <3> DEFINE a == log[i].pos
    <3> HIDE DEF a
    <3>3. a \in Int /\ a < next /\ (next - a <= 1 \/ next - a <= Depth)
      BY <3>1, <3>2 DEF a
    <3>4. p - a \in (1 - SeqHalf) .. (SeqHalf - 1)
      BY <1>0, <3>3
    <3> QED BY <2>2, <3>4 DEF a
  <2>5. Steps(log')
    BY <1>2, <2>3, <2>4, StepsAfter
  <2>6. ASSUME NEW i \in FlowLines(log'), LastFlow(log', i)
        PROVE  log'[i].pos < next' /\ (next' - log'[i].pos <= 1 \/ next' - log'[i].pos <= Depth)
    <3>1. log'[i] = e
      BY <2>3, <2>6, LastAfter DEF Extended
    <3> QED BY <1>0, <1>1, <2>2, <3>1
  <2> QED BY <1>1, <1>4, <2>5, <2>6 DEF Near
<1> QED BY <1>3, <1>4

LEMMA OtherNear ==
  ASSUME Books, Near, UNCHANGED <<Kept, next>>, NEW pkt \in {ShortPacket, OtherPacket}, Nexthop(pkt, -1)
  PROVE  Near'
<1>0. bridged' = bridged /\ InScope' = InScope
  BY DEF Kept, InScope, FlowPacket, Dtp
<1>1. CASE Passes
  BY <1>0, <1>1 DEF Passes, Near
<1>2. CASE Logs(pkt, -1)
  <2> DEFINE e == Line(pkt, -1)
  <2>1. log' = Append(log, e) /\ e.pos = -1
    BY <1>2, OtherLogged
  <2> HIDE DEF e
  <2>2. Extended(log, log', e)
    BY <2>1, ExtendedBy DEF Books
  <2>3. /\ FlowLines(log') = FlowLines(log) /\ \A i : LastFlow(log', i) <=> LastFlow(log, i)
        /\ \A i \in FlowLines(log) : log'[i] = log[i]
    BY <2>1, <2>2, LastAfter DEF Extended
  <2>4. Steps(log) => Steps(log')
    BY <2>1, <2>2, StepsAfter
  <2> QED BY <1>0, <2>3, <2>4 DEF Near
<1> QED BY <1>1, <1>2, NexthopIs

LEMMA NextNear == Queues /\ Books /\ Indexed /\ Near /\ [BNext]_bvars => Near'
<1> SUFFICES ASSUME Queues, Books, Indexed, Near, [BNext]_bvars PROVE Near'
  OBVIOUS
<1>1. UNCHANGED Kept /\ bridged' = bridged
  BY NextStep DEF StepOK, Kept
<1>2. CASE bridged
  BY <1>1, <1>2 DEF Near
<1>3. CASE UNCHANGED bvars
  BY <1>1, <1>3 DEF bvars, dvars, fixed, Near, InScope, FlowPacket, Dtp
<1>4. CASE ~bridged /\ DNext
  <2>1. ASSUME NEW p \in (next - Depth) .. next, p >= start, SendFlow(p) PROVE Near'
    BY <1>1, <1>4, <2>1, SendNear DEF Indexed
  <2>2. CASE SendShort \/ SendOther
    <3>1. UNCHANGED next /\ \E pkt \in {ShortPacket, OtherPacket} : Nexthop(pkt, -1)
      BY <2>2 DEF SendShort, SendOther
    <3> QED BY <1>1, <3>1, OtherNear
  <2> QED BY <1>4, <2>1, <2>2 DEF DNext
<1> QED BY <1>2, <1>3, <1>4 DEF BNext

LEMMA NearInvariance == BSpec => []Near
<1>1. BInit => Near
  <2> SUFFICES ASSUME BInit PROVE Near
    OBVIOUS
  <2>1. PICK c, o : ShimInit(c, o)
    BY DEF BInit, DInit, BridgeInit
  <2>2. FlowLines(log) = {}
    BY <2>1 DEF ShimInit, FlowLines
  <2> QED BY <2>2 DEF Near, Steps
<1> QED BY <1>1, NextNear, QueuesInvariance, BooksInvariance, IndexedInvariance, PTL DEF BSpec

\* ci_flow_index gives a packet its position in the flow: always for the shim
\* without the bridge, and behind the bridge, which may lose packets on their way
\* to the shim, as long as the position moves by less than half the sequence space.
THEOREM IndexHolds == BSpec => []((bridged => Steps(log)) => IndexIsIdentity)
<1>1. Books /\ Indexed /\ Near => ((bridged => Steps(log)) => IndexIsIdentity)
  <2> SUFFICES ASSUME Books, Indexed, Near, bridged => Steps(log) PROVE IndexIsIdentity
    OBVIOUS
  <2>0. Len(log) \in Nat /\ DOMAIN log = 1 .. Len(log) /\ Steps(log)
    BY DEF Books, IsSeq, Near
  <2>1. \A l \in Lines : l.pos # -1 => \E i \in FlowLines(log) : l = log[i]
    BY <2>0 DEF Lines, FlowLines
  <2>2. \A i \in FlowLines(log) : i \in DOMAIN log /\ log[i] \in Lines /\ log[i].pos # -1 /\ i \in Nat
    BY <2>0 DEF Lines, FlowLines
  <2>3. CASE sender.dtp
    BY <2>1, <2>3 DEF IndexIsIdentity, Indexed, Fragments
  <2>4. CASE ~sender.dtp
    <3> SUFFICES ASSUME NoCrossing, AllReachShim, NEW i \in FlowLines(log)
                 PROVE  log[i].index = log[i].pos
      BY <2>1, <2>4 DEF IndexIsIdentity
    <3>1. Ordered(log)
      BY <2>2 DEF NoCrossing, Ordered
    <3>2. PICK b \in Int : Based(b)
      BY <2>0, <2>4, <3>1 DEF Indexed, Placed
    <3>3. PICK k \in FlowLines(log) : log[k].pos \div SeqMod = b /\ \A j \in FlowLines(log) : k <= j
      BY <3>2 DEF Based
    <3>4. log[k].pos \in Nat /\ log[k].pos >= start /\ start \in 0 .. (SeqMod - 1) /\ SeqMod \in Nat \ {0}
      BY SeqAssumption DEF Indexed, Positions, SeqMod
    <3>5. PICK j \in FlowLines(log) : log[j].pos = start
      <4>1. start \in start .. log[k].pos /\ start # -1
        BY <3>4
      <4>2. start \in {l.pos : l \in Lines}
        BY <2>2, <4>1 DEF AllReachShim
      <4>3. PICK l \in Lines : l.pos = start
        BY <4>2
      <4> QED BY <2>1, <4>1, <4>3
    <3>6. start \div SeqMod = 0
      BY <3>4, DivUnique
    <3>7. b <= 0
      <4>1. k = j \/ k < j
        BY <2>2, <3>3
      <4>2. CASE k = j
        BY <3>3, <3>5, <3>6, <4>2
      <4>3. CASE k < j
        BY <3>1, <3>3, <3>5, <3>6, <4>3 DEF Ordered
      <4> QED BY <4>1, <4>2, <4>3
    <3>8. b \in Nat
      BY <3>3, <3>4, TurnOf
    <3>9. b = 0 /\ b * SeqSpace = 0
      <4>1. b = 0
        BY <3>7, <3>8
      <4>2. SeqSpace \in Nat
        BY RuleAssumption DEF SeqSpace
      <4> QED BY <4>1, <4>2
    <3>10. log[i].index = log[i].pos - b * SeqSpace /\ log[i].pos \in Int
      BY <3>2 DEF Based, Indexed, Positions
    <3> QED BY <3>9, <3>10
  <2> QED BY <2>3, <2>4
<1> QED BY <1>1, BooksInvariance, IndexedInvariance, NearInvariance, PTL

-----------------------------------------------------------------------------
(* The join of the drop log and the bus.                                   *)

LEMMA NextJoin == Queues /\ Books /\ Fate /\ OnBus /\ [BNext]_bvars => Fate' /\ OnBus'
<1> SUFFICES ASSUME Queues, Books, Fate, OnBus, [BNext]_bvars PROVE Fate' /\ OnBus'
  OBVIOUS
<1>1. UNCHANGED Kept /\ (UNCHANGED shim \/ Reaches)
  BY NextStep DEF StepOK
<1>2. per_attempt' = per_attempt /\ rule' = rule
  BY <1>1 DEF Kept
<1>3. CASE UNCHANGED <<log, bus>>
  BY <1>2, <1>3 DEF Fate, OnBus
<1>4. ASSUME NEW pkt, NEW pos, Nexthop(pkt, pos) PROVE Fate' /\ OnBus'
  <2>1. CASE Passes
    BY <1>3, <2>1 DEF Passes
  <2>2. CASE Logs(pkt, pos)
    <3> DEFINE e == Line(pkt, pos)
    <3>1. /\ log' = Append(log, e) /\ e.pos = pos
          /\ bus' = IF e.dropped \/ pos = -1 THEN bus ELSE Append(bus, pos)
          /\ ~per_attempt => e.dropped = RuleDecide(rule, e.index)
      BY <2>2 DEF Logs, Line
    <3> HIDE DEF e
    <3>2. Extended(log, log', e)
      BY <3>1, ExtendedBy DEF Books
    <3> DEFINE m == Len(log) + 1
    <3>3. /\ \A i \in FlowLines(log) : i \in FlowLines(log') /\ log'[i] = log[i]
          /\ \A i \in FlowLines(log') : i \in FlowLines(log) \/ (i = m /\ pos # -1)
          /\ log'[m] = e /\ (pos # -1 => m \in FlowLines(log'))
      BY <3>1, <3>2 DEF Extended
    <3>4. Fate'
      <4> SUFFICES ASSUME ~per_attempt, NEW i \in 1 .. Len(log')
                   PROVE  log'[i].dropped = RuleDecide(rule, log'[i].index)
        BY <1>2 DEF Fate
      <4>1. i \in 1 .. Len(log) \/ i = m
        BY <3>2 DEF Extended
      <4>2. CASE i \in 1 .. Len(log)
        BY <3>2, <4>2 DEF Extended, Fate
      <4>3. CASE i = m
        BY <3>1, <3>3, <4>3
      <4> QED BY <4>1, <4>2, <4>3
    <3> HIDE DEF m
    <3>5. CASE e.dropped \/ pos = -1
      <4>1. bus' = bus
        BY <3>1, <3>5
      <4>2. \A i \in FlowLines(log') : i \in FlowLines(log) \/ log'[i].dropped
        BY <3>3, <3>5
      <4> QED BY <3>3, <3>4, <4>1, <4>2 DEF OnBus
    <3>6. CASE ~(e.dropped \/ pos = -1)
      <4> DEFINE k == Len(bus) + 1
      <4>1. /\ bus' = Append(bus, pos) /\ IsSeq(bus') /\ Len(bus) \in Nat /\ Len(bus') = k
            /\ \A j \in 1 .. Len(bus) : bus'[j] = bus[j]
            /\ bus'[k] = pos
            /\ \A j \in 1 .. Len(bus') : j \in 1 .. Len(bus) \/ j = k
        BY <3>1, <3>6, AppendAny DEF OnBus
      <4>2. k \in 1 .. Len(bus') /\ \A j \in 1 .. Len(bus) : j \in 1 .. Len(bus')
        BY <4>1
      <4> HIDE DEF k
      <4>3. ASSUME NEW i \in FlowLines(log'), ~log'[i].dropped
            PROVE  \E j \in 1 .. Len(bus') : bus'[j] = log'[i].pos
        <5>1. CASE i = m
          BY <3>1, <3>3, <4>1, <4>2, <5>1
        <5>2. CASE i \in FlowLines(log)
          <6>1. PICK j \in 1 .. Len(bus) : bus[j] = log[i].pos
            BY <3>3, <4>3, <5>2 DEF OnBus
          <6> QED BY <3>3, <4>1, <4>2, <5>2, <6>1
        <5> QED BY <3>3, <5>1, <5>2
      <4>4. ASSUME NEW j \in 1 .. Len(bus')
            PROVE  \E i \in FlowLines(log') : ~log'[i].dropped /\ bus'[j] = log'[i].pos
        <5>1. CASE j = k
          BY <3>1, <3>3, <3>6, <4>1, <5>1
        <5>2. CASE j \in 1 .. Len(bus)
          <6>1. PICK i \in FlowLines(log) : ~log[i].dropped /\ bus[j] = log[i].pos
            BY <5>2 DEF OnBus
          <6> QED BY <3>3, <4>1, <5>2, <6>1
        <5> QED BY <4>1, <5>1, <5>2
      <4> QED BY <3>4, <4>1, <4>3, <4>4 DEF OnBus
    <3> QED BY <3>5, <3>6
  <2> QED BY <1>4, <2>1, <2>2, NexthopIs
<1> QED BY <1>1, <1>3, <1>4 DEF Reaches, shim

LEMMA JoinInvariance == BSpec => [](Fate /\ OnBus)
<1>1. BInit => Fate /\ OnBus
  <2> SUFFICES ASSUME BInit PROVE Fate /\ OnBus
    OBVIOUS
  <2>1. PICK c, o : ShimInit(c, o)
    BY DEF BInit, DInit, BridgeInit
  <2>2. log = <<>> /\ bus = <<>> /\ Len(log) = 0 /\ Len(bus) = 0
    BY <2>1 DEF ShimInit
  <2>3. FlowLines(log) = {}
    BY <2>2 DEF FlowLines
  <2>4. IsSeq(bus)
    <3>1. bus \in Seq({})
      BY <2>2, EmptySeq
    <3> QED BY <3>1 DEF IsSeq
  <2> QED BY <2>2, <2>3, <2>4 DEF Fate, OnBus
<1> QED BY <1>1, NextJoin, QueuesInvariance, BooksInvariance, PTL DEF BSpec

\* The dropped lines of the log and the fragments on the bus partition the
\* fragments that reached the shim.
THEOREM JoinHolds == BSpec => []FragmentsJoin
<1>1. Books /\ Indexed /\ Fate /\ OnBus => FragmentsJoin
  <2> SUFFICES ASSUME Books, Indexed, Fate, OnBus, bridged, sender.dtp, ~per_attempt PROVE FragmentsJoin
    BY DEF FragmentsJoin
  <2> DEFINE lost_ == {l.index : l \in {k \in Lines : k.dropped /\ k.pos # -1}}
             seen_ == {FragmentIndex(NewFlow(DtpMtu, sender.overhead), Dtp(p)) : p \in Observed}
             all   == {l.pos : l \in Lines} \ {-1}
  <2>0. /\ DOMAIN log = 1 .. Len(log) /\ DOMAIN bus = 1 .. Len(bus)
        /\ \A l \in Lines : l.pos # -1 => \E i \in FlowLines(log) : l = log[i]
        /\ \A i \in FlowLines(log) : log[i] \in Lines /\ log[i].pos # -1 /\ i \in 1 .. Len(log)
    <3>1. IsSeq(log) /\ IsSeq(bus)
      BY DEF Books, OnBus
    <3>2. DOMAIN log = 1 .. Len(log) /\ DOMAIN bus = 1 .. Len(bus)
      BY <3>1 DEF IsSeq
    <3> QED BY <3>2 DEF Lines, FlowLines
  <2>1. \A i \in FlowLines(log) : log[i].pos \in Nat /\ log[i].index = log[i].pos
    BY DEF Indexed, Shape, Positions, Fragments
  <2>2. \A i \in FlowLines(log) : log[i].dropped = RuleDecide(rule, log[i].pos)
    BY <2>0, <2>1 DEF Fate
  <2>3. \A x : x \in lost_ <=> \E i \in FlowLines(log) : log[i].dropped /\ x = log[i].pos
    BY <2>0, <2>1
  <2>4. \A p \in Observed : p \in Nat /\ \E i \in FlowLines(log) : ~log[i].dropped /\ p = log[i].pos
    <3> SUFFICES ASSUME NEW p \in Observed
                 PROVE  p \in Nat /\ \E i \in FlowLines(log) : ~log[i].dropped /\ p = log[i].pos
      OBVIOUS
    <3>1. PICK j \in 1 .. Len(bus) : p = bus[j]
      BY <2>0 DEF Observed
    <3>2. PICK i \in FlowLines(log) : ~log[i].dropped /\ bus[j] = log[i].pos
      BY DEF OnBus
    <3> QED BY <2>1, <3>1, <3>2
  <2>5. \A i \in FlowLines(log) : ~log[i].dropped => log[i].pos \in Observed
    BY <2>0 DEF Observed, OnBus
  <2>6. seen_ = Observed
    <3> DEFINE fl == NewFlow(DtpMtu, sender.overhead)
    <3>1. fl.dtp_mtu = DtpMtu /\ fl.dtp_overhead = sender.overhead
      BY DEF NewFlow
    <3> HIDE DEF fl
    <3>2. sender.overhead \in 0 .. (DtpMtu - 1)
      BY DEF Indexed, Shape
    <3>3. \A p \in Observed : FragmentIndex(fl, Dtp(p)) = p
      BY <2>4, <3>1, <3>2, FragmentIs
    <3>4. {FragmentIndex(fl, Dtp(p)) : p \in Observed} = Observed
      BY <3>3
    <3> QED BY <3>4 DEF fl
  <2>7. \A x : x \in all <=> \E i \in FlowLines(log) : x = log[i].pos
    BY <2>0
  <2> HIDE DEF lost_, seen_, all
  <2>8. lost_ \cap seen_ = {}
    BY <2>2, <2>3, <2>4, <2>6
  <2>9. lost_ \cup seen_ = all
    <3>1. \A x : x \in lost_ \cup seen_ <=> \E i \in FlowLines(log) : x = log[i].pos
      BY <2>3, <2>4, <2>5, <2>6
    <3> QED BY <2>7, <3>1
  <2> QED BY <2>8, <2>9 DEF FragmentsJoin, lost_, seen_, all
<1> QED BY <1>1, BooksInvariance, IndexedInvariance, JoinInvariance, PTL

-----------------------------------------------------------------------------
(* The bridge's books.                                                     *)

\* The frames of either end, and those played back to the bridge.
Ups     == {f \in FrameT : f.iface = "in" /\ f.src = "ground"}
Downs   == {f \in FrameT : f.iface = "out" /\ f.src = "sat"}
EchoIn  == {f \in FrameT : f.iface = "in" /\ f.src = "sat"}
EchoOut == {f \in FrameT : f.iface = "out" /\ f.src = "ground"}

Of(s, S) == {i \in 1 .. Len(s) : s[i] \in S}
N(s, S) == Cardinality(Of(s, S))

EchoT == [in : Nat, out : Nat]
GoneT == [up : Nat, down : Nat]

\* u frames were sent: l are handled, g gone and q in the queue.
Sums(u, l, g, q) == l \in Nat /\ g \in Nat /\ q \in Nat /\ u = l + (g + q)

\* e echoes are counted, q in the queue and a on their way to it: no more than d,
\* the frames the bridge has sent.
Bounds(e, q, a, d) == e \in Nat /\ q \in Nat /\ a \in Nat /\ d \in Nat /\ e + (q + a) <= d

Counted ==
  bridged =>
    /\ echo \in EchoT /\ gone \in GoneT /\ IsSeq(down)
    /\ Sums(ups, Len(log) + passthrough, gone.up, N(qfifo, Ups))
    /\ Sums(downs, Len(down), gone.down, N(qfifo, Downs))
    /\ Bounds(echo.in, N(qfifo, EchoIn), N(air, EchoIn), Len(down))
    /\ Bounds(echo.out, N(qfifo, EchoOut), N(air, EchoOut), forwarded + passthrough)

One(f, S) == IF f \in S THEN 1 ELSE 0

LEMMA OfFinite ==
  ASSUME NEW s, Len(s) \in Nat, NEW S
  PROVE  IsFiniteSet(Of(s, S)) /\ N(s, S) \in Nat
<1>1. IsFiniteSet(1 .. Len(s))
  BY FS_Interval
<1>2. Of(s, S) \in SUBSET (1 .. Len(s))
  BY DEF Of
<1>3. IsFiniteSet(Of(s, S))
  BY <1>1, <1>2, FS_Subset
<1> QED BY <1>3, FS_CardinalityType DEF N

LEMMA CountAppend ==
  ASSUME NEW T, NEW s \in Seq(T), NEW f \in T, NEW S
  PROVE  N(Append(s, f), S) = N(s, S) + One(f, S) /\ N(s, S) \in Nat
<1> DEFINE r == Append(s, f)
           m == Len(s) + 1
<1>1. /\ Len(s) \in Nat /\ Len(r) = m
      /\ \A i \in 1 .. Len(s) : r[i] = s[i]
      /\ r[m] = f
      /\ \A i \in 1 .. Len(r) : i \in 1 .. Len(s) \/ i = m
  BY AppendIs
<1> HIDE DEF r
<1>2. m \in 1 .. Len(r) /\ m \notin 1 .. Len(s) /\ \A i \in 1 .. Len(s) : i \in 1 .. Len(r)
  BY <1>1
<1>3. IsFiniteSet(Of(s, S)) /\ N(s, S) \in Nat
  BY <1>1, OfFinite
<1> HIDE DEF m
<1>4. CASE f \in S
  <2>1. Of(r, S) = Of(s, S) \cup {m} /\ m \notin Of(s, S)
    BY <1>1, <1>2, <1>4 DEF Of
  <2>2. Cardinality(Of(s, S) \cup {m}) = Cardinality(Of(s, S)) + 1
    BY <1>3, <2>1, FS_AddElement
  <2> QED BY <1>3, <1>4, <2>1, <2>2 DEF N, One, r
<1>5. CASE f \notin S
  <2>1. Of(r, S) = Of(s, S)
    BY <1>1, <1>2, <1>5 DEF Of
  <2> QED BY <1>3, <1>5, <2>1 DEF N, One, r
<1> QED BY <1>4, <1>5

LEMMA CountTail ==
  ASSUME NEW T, NEW s \in Seq(T), s # <<>>, NEW S
  PROVE  N(s, S) = N(Tail(s), S) + One(Head(s), S) /\ N(Tail(s), S) \in Nat
<1> DEFINE r == Tail(s)
<1>1. /\ Head(s) = s[1] /\ Len(s) \in Nat \ {0} /\ 1 \in 1 .. Len(s) /\ Len(r) = Len(s) - 1
      /\ \A i \in 1 .. Len(r) : r[i] = s[i + 1] /\ i + 1 \in 2 .. Len(s)
  BY TailIs
<1> HIDE DEF r
<1>2. Len(r) \in Nat
  BY <1>1
<1>3. IsFiniteSet(Of(r, S)) /\ N(r, S) \in Nat
  BY <1>2, OfFinite
<1> DEFINE U == {i \in 2 .. Len(s) : s[i] \in S}
           F == [i \in Of(r, S) |-> i + 1]
<1>4. F \in [Of(r, S) -> U]
  <2>1. \A i \in Of(r, S) : i + 1 \in U
    BY <1>1 DEF Of
  <2> QED BY <2>1
<1>5. \A a, b \in Of(r, S) : F[a] = F[b] => a = b
  BY <1>2 DEF Of
<1>6. ASSUME NEW u \in U PROVE \E a \in Of(r, S) : F[a] = u
  <2>1. u - 1 \in 1 .. Len(r) /\ u - 1 + 1 = u /\ s[u] \in S
    BY <1>1
  <2>2. u - 1 \in Of(r, S)
    BY <1>1, <2>1 DEF Of
  <2> QED BY <2>1, <2>2
<1> HIDE DEF F
<1>7. F \in Bijection(Of(r, S), U)
  BY <1>4, <1>5, <1>6, Fun_IsBij
<1>8. IsFiniteSet(U) /\ Cardinality(U) = N(r, S)
  BY <1>3, <1>7, FS_Bijection DEF N, ExistsBijection
<1>9. \A i \in 1 .. Len(s) : i = 1 \/ i \in 2 .. Len(s)
  BY <1>1
<1>10. 1 \notin U /\ \A i \in 2 .. Len(s) : i \in 1 .. Len(s)
  BY <1>1
<1>11. CASE Head(s) \in S
  <2>1. Of(s, S) = U \cup {1}
    BY <1>1, <1>9, <1>10, <1>11 DEF Of
  <2>2. Cardinality(U \cup {1}) = Cardinality(U) + 1
    BY <1>8, <1>10, FS_AddElement
  <2> QED BY <1>3, <1>8, <1>11, <2>1, <2>2 DEF N, One, r
<1>12. CASE Head(s) \notin S
  <2>1. Of(s, S) = U
    BY <1>1, <1>9, <1>10, <1>12 DEF Of
  <2> QED BY <1>3, <1>8, <1>12, <2>1 DEF N, One, r
<1> QED BY <1>11, <1>12

LEMMA CountWithout ==
  ASSUME NEW T, NEW s \in Seq(T), NEW i \in 1 .. Len(s), NEW S
  PROVE  N(s, S) = N(Without(s, i), S) + One(s[i], S) /\ N(Without(s, i), S) \in Nat
<1> DEFINE r == Without(s, i)
<1>1. /\ Len(s) \in Nat /\ Len(r) = Len(s) - 1
      /\ \A k \in 1 .. (Len(s) - 1) : r[k] = IF k < i THEN s[k] ELSE s[k + 1]
  BY WithoutIs
<1> HIDE DEF r
<1>2. Len(r) \in Nat
  BY <1>1
<1>3. IsFiniteSet(Of(r, S)) /\ N(r, S) \in Nat
  BY <1>2, OfFinite
<1> DEFINE U == {k \in 1 .. Len(s) : k # i /\ s[k] \in S}
           F == [k \in Of(r, S) |-> IF k < i THEN k ELSE k + 1]
<1>4. F \in [Of(r, S) -> U]
  <2>1. ASSUME NEW k \in Of(r, S) PROVE (IF k < i THEN k ELSE k + 1) \in U
    <3>1. k \in 1 .. (Len(s) - 1) /\ r[k] \in S
      BY <1>1 DEF Of
    <3>2. CASE k < i
      BY <1>1, <3>1, <3>2
    <3>3. CASE ~(k < i)
      BY <1>1, <3>1, <3>3
    <3> QED BY <3>2, <3>3
  <2> QED BY <2>1
<1>5. \A a, b \in Of(r, S) : F[a] = F[b] => a = b
  BY <1>2 DEF Of
<1>6. ASSUME NEW u \in U PROVE \E a \in Of(r, S) : F[a] = u
  <2>1. CASE u < i
    <3>1. u \in 1 .. (Len(s) - 1) /\ r[u] = s[u] /\ s[u] \in S
      BY <1>1, <2>1
    <3>2. u \in Of(r, S)
      BY <1>1, <3>1 DEF Of
    <3> QED BY <2>1, <3>2
  <2>2. CASE ~(u < i)
    <3>1. u - 1 \in 1 .. (Len(s) - 1) /\ ~(u - 1 < i) /\ u - 1 + 1 = u /\ s[u] \in S
      BY <1>1, <2>2
    <3>2. u - 1 \in Of(r, S)
      BY <1>1, <3>1 DEF Of
    <3> QED BY <3>1, <3>2
  <2> QED BY <2>1, <2>2
<1> HIDE DEF F
<1>7. F \in Bijection(Of(r, S), U)
  BY <1>4, <1>5, <1>6, Fun_IsBij
<1>8. IsFiniteSet(U) /\ Cardinality(U) = N(r, S)
  BY <1>3, <1>7, FS_Bijection DEF N, ExistsBijection
<1>9. CASE s[i] \in S
  <2>1. Of(s, S) = U \cup {i} /\ i \notin U
    BY <1>9 DEF Of
  <2>2. Cardinality(U \cup {i}) = Cardinality(U) + 1
    BY <1>8, <2>1, FS_AddElement
  <2> QED BY <1>3, <1>8, <1>9, <2>1, <2>2 DEF N, One, r
<1>10. CASE s[i] \notin S
  <2>1. Of(s, S) = U
    BY <1>10 DEF Of
  <2> QED BY <1>3, <1>8, <1>10, <2>1 DEF N, One, r
<1> QED BY <1>9, <1>10

\* A frame is in one of the four classes.
LEMMA Classes ==
  ASSUME NEW f \in FrameT
  PROVE  /\ Uplink(f) => One(f, Ups) = 1 /\ One(f, Downs) = 0 /\ One(f, EchoIn) = 0 /\ One(f, EchoOut) = 0
         /\ Downlink(f) => One(f, Ups) = 0 /\ One(f, Downs) = 1 /\ One(f, EchoIn) = 0 /\ One(f, EchoOut) = 0
         /\ ~Uplink(f) /\ ~Downlink(f) =>
              /\ One(f, Ups) = 0 /\ One(f, Downs) = 0
              /\ f.iface = "in" => One(f, EchoIn) = 1 /\ One(f, EchoOut) = 0
              /\ f.iface = "out" => One(f, EchoIn) = 0 /\ One(f, EchoOut) = 1
         /\ Genuine(f) <=> Uplink(f) \/ Downlink(f)
         /\ f.iface \in {"in", "out"} /\ ~(Uplink(f) /\ Downlink(f))
<1>1. f.iface \in {"in", "out"} /\ f.src \in {"ground", "sat"}
  BY DEF FrameT
<1>2. /\ Uplink(f) <=> f.iface = "in" /\ f.src = "ground"
      /\ Downlink(f) <=> f.iface = "out" /\ f.src = "sat"
  BY <1>1 DEF Uplink, Downlink
<1>3. Genuine(f) <=> Uplink(f) \/ Downlink(f)
  BY <1>1, <1>2 DEF Genuine
<1>4. /\ f \in Ups <=> f.iface = "in" /\ f.src = "ground"
      /\ f \in Downs <=> f.iface = "out" /\ f.src = "sat"
      /\ f \in EchoIn <=> f.iface = "in" /\ f.src = "sat"
      /\ f \in EchoOut <=> f.iface = "out" /\ f.src = "ground"
  BY DEF Ups, Downs, EchoIn, EchoOut
<1> QED BY <1>1, <1>2, <1>3, <1>4 DEF One

LEMMA OneNat == ASSUME NEW f, NEW S PROVE One(f, S) \in 0 .. 1
BY DEF One

LEMMA LoseCounts ==
  ASSUME gone \in GoneT, NEW f \in FrameT, Lose(f)
  PROVE  gone' \in GoneT /\ gone'.up = gone.up + One(f, Ups) /\ gone'.down = gone.down + One(f, Downs)
<1>0. gone.up \in Nat /\ gone.down \in Nat
  BY DEF GoneT
<1>1. CASE ~Genuine(f)
  <2>1. gone' = gone /\ One(f, Ups) = 0 /\ One(f, Downs) = 0
    BY <1>1, Classes DEF Lose
  <2> QED BY <1>0, <2>1
<1>2. CASE Genuine(f) /\ f.src = "ground"
  <2>1. gone' = [gone EXCEPT !.up = @ + 1]
    BY <1>2 DEF Lose
  <2>2. Uplink(f)
    BY <1>2 DEF Genuine, Uplink
  <2>3. One(f, Ups) = 1 /\ One(f, Downs) = 0
    BY <2>2, Classes
  <2> QED BY <1>0, <2>1, <2>3 DEF GoneT
<1>3. CASE Genuine(f) /\ f.src # "ground"
  <2>1. gone' = [gone EXCEPT !.down = @ + 1]
    BY <1>3 DEF Lose
  <2>2. Downlink(f)
    BY <1>3 DEF Genuine, Downlink
  <2>3. One(f, Ups) = 0 /\ One(f, Downs) = 1
    BY <2>2, Classes
  <2> QED BY <1>0, <2>1, <2>3 DEF GoneT
<1> QED BY <1>1, <1>2, <1>3

QueueNats == \A S : N(qfifo, S) \in Nat /\ N(air, S) \in Nat

LEMMA QueueNatsHold == Queues => QueueNats
<1> SUFFICES ASSUME Queues PROVE QueueNats
  OBVIOUS
<1>1. Len(qfifo) \in Nat /\ Len(air) \in Nat
  BY DEF Queues
<1> QED BY <1>1, OfFinite DEF QueueNats

\* A frame that arrives is in the queue, or gone.
LEMMA ArriveCounts ==
  ASSUME Queues, gone \in GoneT, NEW f \in FrameT, Arrive(f)
  PROVE  /\ gone' \in GoneT
         /\ gone'.up + N(qfifo', Ups) = gone.up + N(qfifo, Ups) + One(f, Ups)
         /\ gone'.down + N(qfifo', Downs) = gone.down + N(qfifo, Downs) + One(f, Downs)
         /\ N(qfifo', EchoIn) <= N(qfifo, EchoIn) + One(f, EchoIn)
         /\ N(qfifo', EchoOut) <= N(qfifo, EchoOut) + One(f, EchoOut)
<1>0. /\ gone.up \in Nat /\ gone.down \in Nat /\ qfifo \in Seq(FrameT)
      /\ \A S : N(qfifo, S) \in Nat /\ One(f, S) \in 0 .. 1
  BY QueueNatsHold, OneNat DEF GoneT, Queues, QueueNats
<1>1. CASE qfifo' = Append(qfifo, f) /\ UNCHANGED gone
  <2>1. \A S : N(qfifo', S) = N(qfifo, S) + One(f, S)
    BY <1>0, <1>1, CountAppend
  <2> QED BY <1>0, <1>1, <2>1
<1>2. CASE UNCHANGED qfifo /\ Lose(f)
  <2>1. gone' \in GoneT /\ gone'.up = gone.up + One(f, Ups) /\ gone'.down = gone.down + One(f, Downs)
    BY <1>2, LoseCounts
  <2> QED BY <1>0, <1>2, <2>1
<1> QED BY <1>1, <1>2 DEF Arrive

LEMMA PlayedCounts ==
  ASSUME Queues, NEW g \in FrameT, PlayedBack(g), NEW S
  PROVE  N(air', S) <= N(air, S) + One(g, S)
<1>0. air \in Seq(FrameT) /\ N(air, S) \in Nat /\ One(g, S) \in 0 .. 1
  BY QueueNatsHold, OneNat DEF Queues, QueueNats
<1>1. CASE air' = air
  BY <1>0, <1>1
<1>2. CASE air' = Append(air, g)
  BY <1>0, <1>2, CountAppend
<1> QED BY <1>1, <1>2 DEF PlayedBack

\* A frame of an end arrives.
LEMMA SumSent ==
  ASSUME NEW u, NEW l, NEW g, NEW q, Sums(u, l, g, q), NEW o \in Nat, NEW h \in Nat, NEW r \in Nat,
         h + r = g + q + o, NEW v, v = u + o
  PROVE  Sums(v, l, h, r)
BY DEF Sums

\* A frame leaves the queue: it is handled or gone, if o is 1.
LEMMA SumRead ==
  ASSUME NEW u, NEW l, NEW g, NEW q, Sums(u, l, g, q), NEW o \in Nat, NEW r \in Nat, q = r + o,
         NEW k, NEW h, (k = l + o /\ h = g) \/ (k = l /\ h = g + o)
  PROVE  Sums(u, k, h, r)
<1>1. l \in Nat /\ g \in Nat /\ q \in Nat /\ u = l + (g + q)
  BY DEF Sums
<1>2. CASE k = l + o /\ h = g
  BY <1>1, <1>2 DEF Sums
<1>3. CASE k = l /\ h = g + o
  BY <1>1, <1>3 DEF Sums
<1> QED BY <1>2, <1>3

\* An echo is lost, reaches the queue or is counted; a frame is sent.
LEMMA BoundKept ==
  ASSUME NEW e, NEW q, NEW a, NEW d, Bounds(e, q, a, d), NEW o \in Nat,
         NEW f, NEW r \in Nat, NEW b \in Nat, NEW c,
         \/ f = e /\ r <= q /\ b <= a /\ c = d
         \/ f = e /\ r <= q + o /\ a = b + o /\ c = d
         \/ f = e + o /\ q = r + o /\ b = a /\ c = d
         \/ f = e /\ r <= q /\ b <= a + 1 /\ c = d + 1
  PROVE  Bounds(f, r, b, c)
<1>1. e \in Nat /\ q \in Nat /\ a \in Nat /\ d \in Nat /\ e + (q + a) <= d
  BY DEF Bounds
<1>2. CASE f = e /\ r <= q /\ b <= a /\ c = d
  BY <1>1, <1>2 DEF Bounds
<1>3. CASE f = e /\ r <= q + o /\ a = b + o /\ c = d
  BY <1>1, <1>3 DEF Bounds
<1>4. CASE f = e + o /\ q = r + o /\ b = a /\ c = d
  BY <1>1, <1>4 DEF Bounds
<1>5. CASE f = e /\ r <= q /\ b <= a + 1 /\ c = d + 1
  BY <1>1, <1>5 DEF Bounds
<1> QED BY <1>2, <1>3, <1>4, <1>5

LEMMA CountedFacts ==
  ASSUME Queues, Queues', Books, Counted, bridged
  PROVE  /\ echo \in EchoT /\ gone \in GoneT /\ IsSeq(down)
         /\ Sums(ups, Len(log) + passthrough, gone.up, N(qfifo, Ups))
         /\ Sums(downs, Len(down), gone.down, N(qfifo, Downs))
         /\ Bounds(echo.in, N(qfifo, EchoIn), N(air, EchoIn), Len(down))
         /\ Bounds(echo.out, N(qfifo, EchoOut), N(air, EchoOut), forwarded + passthrough)
         /\ gone.up \in Nat /\ gone.down \in Nat
         /\ N(qfifo', Ups) \in Nat /\ N(qfifo', Downs) \in Nat
         /\ N(qfifo', EchoIn) \in Nat /\ N(qfifo', EchoOut) \in Nat
         /\ N(air', EchoIn) \in Nat /\ N(air', EchoOut) \in Nat
         /\ N(qfifo, EchoIn) \in Nat /\ N(qfifo, EchoOut) \in Nat
         /\ N(air, EchoIn) \in Nat /\ N(air, EchoOut) \in Nat
<1>1. echo \in EchoT /\ gone \in GoneT
  BY DEF Counted
<1>2. Len(qfifo') \in Nat /\ Len(air') \in Nat
  BY DEF Queues
<1>3. gone.up \in Nat /\ gone.down \in Nat
  BY <1>1 DEF GoneT
<1> QED BY <1>1, <1>2, <1>3, OfFinite, QueueNatsHold DEF Counted, QueueNats

\* The ground or the satellite sends.
LEMMA SendsCounted ==
  ASSUME Queues, Queues', Books, Counted, bridged, NEW f \in FrameT, Arrive(f),
         UNCHANGED <<shim, bridged, down, echo, air>>,
         \/ Uplink(f) /\ ups' = ups + 1 /\ downs' = downs
         \/ Downlink(f) /\ ups' = ups /\ downs' = downs + 1
  PROVE  Counted'
<1>0. UNCHANGED <<log, passthrough, forwarded>>
  BY DEF shim
<1>1. /\ gone' \in GoneT /\ gone'.up \in Nat /\ gone'.down \in Nat
      /\ gone'.up + N(qfifo', Ups) = gone.up + N(qfifo, Ups) + One(f, Ups)
      /\ gone'.down + N(qfifo', Downs) = gone.down + N(qfifo, Downs) + One(f, Downs)
      /\ N(qfifo', EchoIn) <= N(qfifo, EchoIn) + One(f, EchoIn)
      /\ N(qfifo', EchoOut) <= N(qfifo, EchoOut) + One(f, EchoOut)
  BY CountedFacts, ArriveCounts DEF GoneT
<1>2. /\ One(f, EchoIn) = 0 /\ One(f, EchoOut) = 0
      /\ ups' = ups + One(f, Ups) /\ downs' = downs + One(f, Downs)
      /\ One(f, Ups) \in Nat /\ One(f, Downs) \in Nat
  <2>1. ups \in Nat /\ downs \in Nat
    BY DEF Queues
  <2> QED BY <2>1, Classes
<1>3. Sums(ups', Len(log) + passthrough, gone'.up, N(qfifo', Ups))
  BY ONLY <1>1, <1>2, CountedFacts, SumSent, Queues, Queues', Books, Counted, bridged
<1>4. Sums(downs', Len(down), gone'.down, N(qfifo', Downs))
  BY ONLY <1>1, <1>2, CountedFacts, SumSent, Queues, Queues', Books, Counted, bridged
<1>5. N(qfifo', EchoIn) <= N(qfifo, EchoIn) /\ N(qfifo', EchoOut) <= N(qfifo, EchoOut) /\ 0 \in Nat
      /\ N(air', EchoIn) <= N(air, EchoIn) /\ N(air', EchoOut) <= N(air, EchoOut)
  <2>1. air' = air
    OBVIOUS
  <2>2. /\ N(qfifo, EchoIn) \in Nat /\ N(qfifo, EchoOut) \in Nat /\ N(air, EchoIn) \in Nat /\ N(air, EchoOut) \in Nat
        /\ N(qfifo', EchoIn) \in Nat /\ N(qfifo', EchoOut) \in Nat
    BY CountedFacts
  <2> QED BY ONLY <1>1, <1>2, <2>1, <2>2
<1>6. Bounds(echo.in, N(qfifo', EchoIn), N(air', EchoIn), Len(down))
  BY ONLY <1>5, CountedFacts, BoundKept, Queues, Queues', Books, Counted, bridged
<1>7. Bounds(echo.out, N(qfifo', EchoOut), N(air', EchoOut), forwarded + passthrough)
  BY ONLY <1>5, CountedFacts, BoundKept, Queues, Queues', Books, Counted, bridged
<1> QED BY <1>0, <1>1, <1>3, <1>4, <1>6, <1>7, CountedFacts DEF Counted

\* A transport plays a frame back.
LEMMA HearCounted ==
  ASSUME Queues, Queues', Books, Counted, bridged, UNCHANGED bridged, HearOwn
  PROVE  Counted'
<1> PICK k \in 1 .. Len(air) :
        /\ air' = Without(air, k) /\ Arrive(air[k])
        /\ UNCHANGED <<dvars, recent, ups, downs, down, echo, g_stop>>
  BY DEF HearOwn
<1> DEFINE f == air[k]
<1>0. UNCHANGED <<log, passthrough, forwarded, ups, downs, down, echo>> /\ air' = Without(air, k) /\ Arrive(f)
  BY DEF dvars
<1>1. f \in FrameT /\ ~Genuine(f)
  BY DEF Queues
<1>2. \A S : N(air, S) = N(air', S) + One(f, S) /\ One(f, S) \in Nat
  <2>1. air \in Seq(FrameT)
    BY DEF Queues
  <2>2. ASSUME NEW S PROVE N(air, S) = N(air', S) + One(f, S) /\ One(f, S) \in Nat
    BY <1>0, <2>1, CountWithout, OneNat
  <2> QED BY <2>2
<1> HIDE DEF f
<1>3. /\ gone' \in GoneT /\ gone'.up \in Nat /\ gone'.down \in Nat
      /\ gone'.up + N(qfifo', Ups) = gone.up + N(qfifo, Ups) + One(f, Ups)
      /\ gone'.down + N(qfifo', Downs) = gone.down + N(qfifo, Downs) + One(f, Downs)
      /\ N(qfifo', EchoIn) <= N(qfifo, EchoIn) + One(f, EchoIn)
      /\ N(qfifo', EchoOut) <= N(qfifo, EchoOut) + One(f, EchoOut)
  BY <1>0, <1>1, CountedFacts, ArriveCounts DEF GoneT
<1>4. /\ One(f, Ups) = 0 /\ One(f, Downs) = 0
      /\ ups' = ups + One(f, Ups) /\ downs' = downs + One(f, Downs)
  <2>1. ups \in Nat /\ downs \in Nat
    BY DEF Queues
  <2> QED BY <1>0, <1>1, <2>1, Classes
<1>5. Sums(ups', Len(log) + passthrough, gone'.up, N(qfifo', Ups))
  BY ONLY <1>2, <1>3, <1>4, CountedFacts, SumSent, Queues, Queues', Books, Counted, bridged
<1>6. Sums(downs', Len(down), gone'.down, N(qfifo', Downs))
  BY ONLY <1>2, <1>3, <1>4, CountedFacts, SumSent, Queues, Queues', Books, Counted, bridged
<1>7. Bounds(echo.in, N(qfifo', EchoIn), N(air', EchoIn), Len(down))
  BY ONLY <1>2, <1>3, CountedFacts, BoundKept, Queues, Queues', Books, Counted, bridged
<1>8. Bounds(echo.out, N(qfifo', EchoOut), N(air', EchoOut), forwarded + passthrough)
  BY ONLY <1>2, <1>3, CountedFacts, BoundKept, Queues, Queues', Books, Counted, bridged
<1> QED BY <1>0, <1>3, <1>5, <1>6, <1>7, <1>8, CountedFacts DEF Counted

\* The pump reads a frame.
LEMMA ReadCounts ==
  ASSUME Queues, qfifo # <<>>, qfifo' = Tail(qfifo), Queues'
  PROVE  /\ Head(qfifo) \in FrameT
         /\ \A S : /\ N(qfifo, S) = N(qfifo', S) + One(Head(qfifo), S) /\ One(Head(qfifo), S) \in Nat
                   /\ N(qfifo', S) <= N(qfifo, S)
<1>1. qfifo \in Seq(FrameT) /\ Len(qfifo') \in Nat
  BY DEF Queues
<1>2. ASSUME NEW S
      PROVE  /\ N(qfifo, S) = N(qfifo', S) + One(Head(qfifo), S) /\ One(Head(qfifo), S) \in Nat
             /\ N(qfifo', S) <= N(qfifo, S)
  <2>1. N(qfifo, S) = N(qfifo', S) + One(Head(qfifo), S) /\ N(qfifo', S) \in Nat
    BY <1>1, CountTail
  <2>2. One(Head(qfifo), S) \in 0 .. 1
    BY OneNat
  <2> QED BY <2>1, <2>2
<1> QED BY <1>1, <1>2, TailIs

LEMMA DuplicateCounted ==
  ASSUME Queues, Queues', Books, Counted, bridged, UNCHANGED bridged, qfifo # <<>>, Duplicate(Head(qfifo))
  PROVE  Counted'
<1> DEFINE f == Head(qfifo)
<1>0. UNCHANGED <<log, passthrough, forwarded, ups, downs, down, echo, air>> /\ qfifo' = Tail(qfifo) /\ Lose(f)
  BY DEF Duplicate, Read, dvars
<1>1. f \in FrameT /\ \A S : /\ N(qfifo, S) = N(qfifo', S) + One(f, S) /\ One(f, S) \in Nat
                             /\ N(qfifo', S) <= N(qfifo, S)
  BY <1>0, ReadCounts
<1> HIDE DEF f
<1>2. gone' \in GoneT /\ gone'.up = gone.up + One(f, Ups) /\ gone'.down = gone.down + One(f, Downs)
  BY <1>0, <1>1, CountedFacts, LoseCounts
<1>3. Sums(ups, Len(log) + passthrough, gone'.up, N(qfifo', Ups))
  BY ONLY <1>1, <1>2, CountedFacts, SumRead, Queues, Queues', Books, Counted, bridged
<1>4. Sums(downs, Len(down), gone'.down, N(qfifo', Downs))
  BY ONLY <1>1, <1>2, CountedFacts, SumRead, Queues, Queues', Books, Counted, bridged
<1>5. N(air', EchoIn) <= N(air, EchoIn) /\ N(air', EchoOut) <= N(air, EchoOut) /\ 0 \in Nat
  <2>1. N(air, EchoIn) \in Nat /\ N(air, EchoOut) \in Nat
    BY CountedFacts
  <2> QED BY ONLY <1>0, <2>1
<1>6. Bounds(echo.in, N(qfifo', EchoIn), N(air', EchoIn), Len(down))
  BY ONLY <1>1, <1>5, CountedFacts, BoundKept, Queues, Queues', Books, Counted, bridged
<1>7. Bounds(echo.out, N(qfifo', EchoOut), N(air', EchoOut), forwarded + passthrough)
  BY ONLY <1>1, <1>5, CountedFacts, BoundKept, Queues, Queues', Books, Counted, bridged
<1> QED BY <1>0, <1>2, <1>3, <1>4, <1>6, <1>7, CountedFacts DEF Counted

LEMMA EchoCounted ==
  ASSUME Queues, Queues', Books, Counted, bridged, UNCHANGED bridged, qfifo # <<>>, DropEcho(Head(qfifo))
  PROVE  Counted'
<1> DEFINE f == Head(qfifo)
<1>0. /\ UNCHANGED <<log, passthrough, forwarded, ups, downs, down, gone, air>> /\ qfifo' = Tail(qfifo)
      /\ ~Uplink(f) /\ ~Downlink(f) /\ echo' = [echo EXCEPT ![f.iface] = @ + 1]
  BY DEF DropEcho, Read, dvars
<1>1. f \in FrameT /\ \A S : /\ N(qfifo, S) = N(qfifo', S) + One(f, S) /\ One(f, S) \in Nat
                             /\ N(qfifo', S) <= N(qfifo, S)
  BY <1>0, ReadCounts
<1> HIDE DEF f
<1>2. /\ One(f, Ups) = 0 /\ One(f, Downs) = 0 /\ f.iface \in {"in", "out"}
      /\ f.iface = "in" => One(f, EchoIn) = 1 /\ One(f, EchoOut) = 0
      /\ f.iface = "out" => One(f, EchoIn) = 0 /\ One(f, EchoOut) = 1
  BY <1>0, <1>1, Classes
<1>3. echo' \in EchoT /\ echo'.in = echo.in + One(f, EchoIn) /\ echo'.out = echo.out + One(f, EchoOut)
  <2>1. echo \in EchoT
    BY CountedFacts
  <2>2. CASE f.iface = "in"
    BY <1>0, <1>2, <2>1, <2>2 DEF EchoT
  <2>3. CASE f.iface = "out"
    BY <1>0, <1>2, <2>1, <2>3 DEF EchoT
  <2> QED BY <1>2, <2>2, <2>3
<1>4. gone.up + One(f, Ups) = gone.up /\ gone.down + One(f, Downs) = gone.down
  BY <1>2, CountedFacts
<1>5. Sums(ups, Len(log) + passthrough, gone.up, N(qfifo', Ups))
  BY ONLY <1>1, <1>4, CountedFacts, SumRead, Queues, Queues', Books, Counted, bridged
<1>6. Sums(downs, Len(down), gone.down, N(qfifo', Downs))
  BY ONLY <1>1, <1>4, CountedFacts, SumRead, Queues, Queues', Books, Counted, bridged
<1>7. Bounds(echo'.in, N(qfifo', EchoIn), N(air, EchoIn), Len(down))
  BY ONLY <1>1, <1>3, CountedFacts, BoundKept, Queues, Queues', Books, Counted, bridged
<1>8. Bounds(echo'.out, N(qfifo', EchoOut), N(air, EchoOut), forwarded + passthrough)
  BY ONLY <1>1, <1>3, CountedFacts, BoundKept, Queues, Queues', Books, Counted, bridged
<1> QED BY <1>0, <1>3, <1>5, <1>6, <1>7, <1>8, CountedFacts DEF Counted

LEMMA ForwardDownCounted ==
  ASSUME Queues, Queues', Books, Counted, bridged, UNCHANGED bridged, qfifo # <<>>, ForwardDown(Head(qfifo))
  PROVE  Counted'
<1> DEFINE f == Head(qfifo)
           g == [f EXCEPT !.iface = "in"]
<1>0. /\ UNCHANGED <<log, passthrough, forwarded, ups, downs, echo, gone>> /\ qfifo' = Tail(qfifo)
      /\ Downlink(f) /\ down' = Append(down, f) /\ PlayedBack(g)
  BY DEF ForwardDown, Read, dvars
<1>1. f \in FrameT /\ \A S : /\ N(qfifo, S) = N(qfifo', S) + One(f, S) /\ One(f, S) \in Nat
                             /\ N(qfifo', S) <= N(qfifo, S)
  BY <1>0, ReadCounts
<1> HIDE DEF f
<1>2. g \in FrameT /\ One(g, EchoIn) = 1 /\ One(g, EchoOut) = 0
  <2>1. g \in FrameT /\ g.iface = "in" /\ g.src # "ground"
    BY <1>0, <1>1 DEF FrameT, Downlink
  <2>2. ~Uplink(g) /\ ~Downlink(g)
    BY <2>1 DEF Uplink, Downlink
  <2> HIDE DEF g
  <2> QED BY <2>1, <2>2, Classes
<1> HIDE DEF g
<1>3. N(air', EchoIn) <= N(air, EchoIn) + 1 /\ N(air', EchoOut) <= N(air, EchoOut)
  <2>1. N(air', EchoIn) <= N(air, EchoIn) + One(g, EchoIn) /\ N(air', EchoOut) <= N(air, EchoOut) + One(g, EchoOut)
    BY <1>0, <1>2, PlayedCounts
  <2>2. N(air, EchoIn) \in Nat /\ N(air, EchoOut) \in Nat
    BY CountedFacts
  <2> QED BY ONLY <1>2, <2>1, <2>2
<1>4. One(f, Ups) = 0 /\ One(f, Downs) = 1
  BY <1>0, <1>1, Classes
<1>5. IsSeq(down') /\ Len(down') = Len(down) + 1
  BY <1>0, CountedFacts, AppendAny
<1>6. gone.up + One(f, Ups) = gone.up /\ Len(down') = Len(down) + One(f, Downs) /\ 0 \in Nat
  BY <1>4, <1>5, CountedFacts
<1>7. Sums(ups, Len(log) + passthrough, gone.up, N(qfifo', Ups))
  BY ONLY <1>1, <1>6, CountedFacts, SumRead, Queues, Queues', Books, Counted, bridged
<1>8. Sums(downs, Len(down'), gone.down, N(qfifo', Downs))
  BY ONLY <1>1, <1>6, CountedFacts, SumRead, Queues, Queues', Books, Counted, bridged
<1>9. Bounds(echo.in, N(qfifo', EchoIn), N(air', EchoIn), Len(down'))
  BY ONLY <1>1, <1>3, <1>5, <1>6, CountedFacts, BoundKept, Queues, Queues', Books, Counted, bridged, ZenonT(60)
<1>10. Bounds(echo.out, N(qfifo', EchoOut), N(air', EchoOut), forwarded + passthrough)
  BY ONLY <1>1, <1>3, <1>6, CountedFacts, BoundKept, Queues, Queues', Books, Counted, bridged
<1> QED BY <1>0, <1>5, <1>7, <1>8, <1>9, <1>10, CountedFacts DEF Counted

LEMMA ForwardUpCounted ==
  ASSUME Queues, Queues', Books, Counted, bridged, UNCHANGED bridged, qfifo # <<>>, ForwardUp(Head(qfifo))
  PROVE  Counted'
<1> DEFINE f == Head(qfifo)
           g == [f EXCEPT !.iface = "out"]
<1>0. /\ UNCHANGED <<ups, downs, down, echo, gone>> /\ qfifo' = Tail(qfifo)
      /\ Uplink(f) /\ Nexthop(PacketOf(f), f.pos)
      /\ IF injected_drops' = injected_drops THEN PlayedBack(g) ELSE UNCHANGED air
  BY DEF ForwardUp, Read, dvars
<1>1. f \in FrameT /\ \A S : /\ N(qfifo, S) = N(qfifo', S) + One(f, S) /\ One(f, S) \in Nat
                             /\ N(qfifo', S) <= N(qfifo, S)
  BY <1>0, ReadCounts
<1> HIDE DEF f
<1>2. g \in FrameT /\ One(g, EchoIn) = 0 /\ One(g, EchoOut) = 1
  <2>1. g \in FrameT /\ g.iface = "out" /\ g.src = "ground"
    BY <1>0, <1>1 DEF FrameT, Uplink
  <2>2. ~Uplink(g) /\ ~Downlink(g)
    BY <2>1 DEF Uplink, Downlink
  <2> HIDE DEF g
  <2> QED BY <2>1, <2>2, Classes
<1> HIDE DEF g
<1>3. One(f, Ups) = 1 /\ One(f, Downs) = 0
  BY <1>0, <1>1, Classes
<1>4. /\ Len(log) \in Nat /\ passthrough \in Nat /\ forwarded \in Nat /\ injected_drops \in Nat /\ IsSeq(log)
  BY DEF Books, IsSeq
<1>5. /\ Len(log') + passthrough' = Len(log) + passthrough + 1
      /\ \/ forwarded' + passthrough' = forwarded + passthrough + 1
         \/ forwarded' + passthrough' = forwarded + passthrough /\ injected_drops' # injected_drops
  <2>1. CASE Passes
    BY <1>4, <2>1 DEF Passes
  <2>2. CASE Logs(PacketOf(f), f.pos)
    <3> DEFINE e == Line(PacketOf(f), f.pos)
    <3>1. log' = Append(log, e) /\ Count(e.dropped) /\ passthrough' = passthrough
      BY <2>2 DEF Logs
    <3> HIDE DEF e
    <3>2. Len(log') = Len(log) + 1
      BY <1>4, <3>1, AppendAny
    <3> QED BY <1>4, <3>1, <3>2 DEF Count
  <2> QED BY <1>0, <2>1, <2>2, NexthopIs
<1>6. /\ N(air', EchoIn) <= N(air, EchoIn)
      /\ \/ N(air', EchoOut) <= N(air, EchoOut) /\ forwarded' + passthrough' = forwarded + passthrough
         \/ N(air', EchoOut) <= N(air, EchoOut) + 1 /\ forwarded' + passthrough' = forwarded + passthrough + 1
  <2>1. N(air, EchoIn) \in Nat /\ N(air, EchoOut) \in Nat
    BY CountedFacts
  <2>2. CASE UNCHANGED air
    BY ONLY <1>5, <2>1, <2>2
  <2>3. CASE PlayedBack(g) /\ injected_drops' = injected_drops
    <3>1. N(air', EchoIn) <= N(air, EchoIn) + One(g, EchoIn) /\ N(air', EchoOut) <= N(air, EchoOut) + One(g, EchoOut)
      BY <1>2, <2>3, PlayedCounts
    <3> QED BY ONLY <1>2, <1>5, <2>1, <2>3, <3>1
  <2> QED BY <1>0, <2>2, <2>3
<1>7. /\ Len(log') + passthrough' = Len(log) + passthrough + One(f, Ups) /\ gone.down + One(f, Downs) = gone.down /\ 0 \in Nat
  BY <1>3, <1>5, CountedFacts
<1>8. Sums(ups, Len(log') + passthrough', gone.up, N(qfifo', Ups))
  BY ONLY <1>1, <1>7, CountedFacts, SumRead, Queues, Queues', Books, Counted, bridged
<1>9. Sums(downs, Len(down), gone.down, N(qfifo', Downs))
  BY ONLY <1>1, <1>7, CountedFacts, SumRead, Queues, Queues', Books, Counted, bridged
<1>10. Bounds(echo.in, N(qfifo', EchoIn), N(air', EchoIn), Len(down))
  BY ONLY <1>1, <1>6, <1>7, CountedFacts, BoundKept, Queues, Queues', Books, Counted, bridged, ZenonT(60)
<1>11. Bounds(echo.out, N(qfifo', EchoOut), N(air', EchoOut), forwarded' + passthrough')
  <2> DEFINE d == forwarded + passthrough
             c == forwarded' + passthrough'
  <2>1. /\ Bounds(echo.out, N(qfifo, EchoOut), N(air, EchoOut), d)
        /\ N(qfifo', EchoOut) \in Nat /\ N(air', EchoOut) \in Nat /\ N(qfifo', EchoOut) <= N(qfifo, EchoOut)
    BY <1>1, CountedFacts
  <2>2. \/ N(air', EchoOut) <= N(air, EchoOut) /\ c = d
        \/ N(air', EchoOut) <= N(air, EchoOut) + 1 /\ c = d + 1
    BY <1>6
  <2> HIDE DEF c, d
  <2>3. Bounds(echo.out, N(qfifo', EchoOut), N(air', EchoOut), c)
    BY ONLY <1>7, <2>1, <2>2, BoundKept
  <2> QED BY <2>3 DEF c
<1> QED BY <1>0, <1>8, <1>9, <1>10, <1>11, CountedFacts DEF Counted

LEMMA NextCounted == Queues /\ Books /\ Counted /\ [BNext]_bvars => Counted'
<1> SUFFICES ASSUME Queues, Books, Counted, [BNext]_bvars PROVE Counted'
  OBVIOUS
<1>1. Queues' /\ bridged' = bridged
  BY NextStep DEF StepOK, Kept
<1>2. CASE ~bridged
  BY <1>1, <1>2 DEF Counted
<1>3. CASE UNCHANGED bvars
  BY <1>1, <1>3 DEF bvars, dvars, pump, Counted
<1>4. CASE bridged /\ Bridge
  <2>1. ASSUME NEW kind \in {"flow", "short", "other"}, NEW p \in Int, GroundSends(kind, p)
        PROVE  Counted'
    <3> DEFINE f == Frame("in", "ground", kind, p)
    <3>1. f \in FrameT /\ Uplink(f)
      BY DEF Frame, FrameT, Uplink
    <3>2. Arrive(f) /\ UNCHANGED <<shim, bridged, down, echo, air>> /\ ups' = ups + 1 /\ downs' = downs
      BY <1>1, <2>1 DEF GroundSends, shim
    <3> HIDE DEF f
    <3> QED BY <1>1, <1>4, <3>1, <3>2, SendsCounted
  <2>2. CASE SatSends
    <3> DEFINE f == Frame("out", "sat", "down", downs)
    <3>1. f \in FrameT /\ Downlink(f)
      BY DEF Frame, FrameT, Downlink, Queues
    <3>2. Arrive(f) /\ UNCHANGED <<shim, bridged, down, echo, air>> /\ ups' = ups /\ downs' = downs + 1
      BY <1>1, <2>2 DEF SatSends, shim, dvars
    <3> HIDE DEF f
    <3> QED BY <1>1, <1>4, <3>1, <3>2, SendsCounted
  <2>3. CASE HearOwn
    BY <1>1, <1>4, <2>3, HearCounted
  <2>4. CASE Pump
    <3>1. qfifo # <<>>
      BY <2>4 DEF Pump
    <3>2. \/ Duplicate(Head(qfifo)) \/ ForwardUp(Head(qfifo))
          \/ ForwardDown(Head(qfifo)) \/ DropEcho(Head(qfifo))
      BY <2>4 DEF Pump
    <3> QED BY <1>1, <1>4, <3>1, <3>2, DuplicateCounted, EchoCounted, ForwardDownCounted, ForwardUpCounted
  <2>5. CASE OnSig
    BY <1>1, <2>5 DEF OnSig, dvars, Counted
  <2>6. ASSUME NEW p \in (next - Depth) .. next, GroundSends("flow", p) PROVE Counted'
    <3>1. p \in Int
      BY ShimAssumption DEF Queues
    <3> QED BY <2>1, <2>6, <3>1
  <2>7. ASSUME NEW kind \in {"short", "other"}, GroundSends(kind, -1) PROVE Counted'
    <3>1. -1 \in Int
      OBVIOUS
    <3> QED BY <2>1, <2>7, <3>1
  <2> QED BY <1>4, <2>2, <2>3, <2>4, <2>5, <2>6, <2>7 DEF Bridge
<1> QED BY <1>2, <1>3, <1>4 DEF BNext

LEMMA CountedInvariance == BSpec => []Counted
<1>1. BInit => Counted
  <2> SUFFICES ASSUME BInit PROVE Counted
    OBVIOUS
  <2>1. PICK c, o : ShimInit(c, o)
    BY DEF BInit, DInit, BridgeInit
  <2>2. /\ log = <<>> /\ Len(log) = 0 /\ forwarded = 0 /\ passthrough = 0
        /\ qfifo = <<>> /\ air = <<>> /\ Len(qfifo) = 0 /\ Len(air) = 0
        /\ ups = 0 /\ downs = 0 /\ down = <<>> /\ Len(down) = 0
        /\ echo = [in |-> 0, out |-> 0] /\ gone = [up |-> 0, down |-> 0]
    BY <2>1 DEF ShimInit, BInit
  <2>3. ASSUME NEW S PROVE N(qfifo, S) = 0 /\ N(air, S) = 0
    <3>1. Of(qfifo, S) = {} /\ Of(air, S) = {}
      BY <2>2 DEF Of
    <3> QED BY <3>1, FS_EmptySet DEF N
  <2>4. echo \in EchoT /\ gone \in GoneT /\ echo.in = 0 /\ echo.out = 0 /\ gone.up = 0 /\ gone.down = 0
    BY <2>2 DEF EchoT, GoneT
  <2>5. IsSeq(down)
    <3>1. down \in Seq({})
      BY <2>2, EmptySeq
    <3> QED BY <3>1 DEF IsSeq
  <2>6. Sums(0, 0 + 0, 0, 0) /\ Sums(0, 0, 0, 0) /\ Bounds(0, 0, 0, 0) /\ Bounds(0, 0, 0, 0 + 0)
    BY DEF Sums, Bounds
  <2> QED BY <2>2, <2>3, <2>4, <2>5, <2>6 DEF Counted
<1> QED BY <1>1, NextCounted, QueuesInvariance, BooksInvariance, PTL DEF BSpec

\* The bridge handles a frame of either end at most once, loses none silently and
\* takes no echo for a frame of an end.
THEOREM ForwardsOnce == BSpec => []BridgeForwardsOnce
<1>1. Queues /\ Books /\ Counted => BridgeForwardsOnce
  <2> SUFFICES ASSUME Queues, Books, Counted, bridged PROVE BridgeForwardsOnce
    BY DEF BridgeForwardsOnce
  <2>1. DOMAIN qfifo = 1 .. Len(qfifo) /\ \A i \in 1 .. Len(qfifo) : qfifo[i] \in FrameT
    BY DEF Queues
  <2>2. \A f \in FrameT : /\ f \in Ups <=> Genuine(f) /\ f.src = "ground"
                          /\ f \in Downs <=> Genuine(f) /\ f.src = "sat"
    BY DEF Ups, Downs, Genuine
  <2>3. Queued("ground") = N(qfifo, Ups)
    <3>1. {i \in DOMAIN qfifo : Genuine(qfifo[i]) /\ qfifo[i].src = "ground"} = Of(qfifo, Ups)
      BY <2>1, <2>2 DEF Of
    <3> QED BY <3>1 DEF Queued, N
  <2>4. Queued("sat") = N(qfifo, Downs)
    <3>1. {i \in DOMAIN qfifo : Genuine(qfifo[i]) /\ qfifo[i].src = "sat"} = Of(qfifo, Downs)
      BY <2>1, <2>2 DEF Of
    <3> QED BY <3>1 DEF Queued, N
  <2>5. /\ Sums(ups, Len(log) + passthrough, gone.up, N(qfifo, Ups))
        /\ Sums(downs, Len(down), gone.down, N(qfifo, Downs))
        /\ Bounds(echo.in, N(qfifo, EchoIn), N(air, EchoIn), Len(down))
        /\ Bounds(echo.out, N(qfifo, EchoOut), N(air, EchoOut), forwarded + passthrough)
    BY DEF Counted
  <2>6. ups = Len(log) + passthrough + gone.up + Queued("ground")
    <3> DEFINE l == Len(log) + passthrough
               q == N(qfifo, Ups)
    <3>1. l \in Nat /\ gone.up \in Nat /\ q \in Nat /\ ups = l + (gone.up + q)
      BY <2>5 DEF Sums
    <3> HIDE DEF l, q
    <3>2. ups = l + gone.up + q
      BY ONLY <3>1
    <3> QED BY <2>3, <3>2 DEF l, q
  <2>7. downs = Len(down) + gone.down + Queued("sat")
    <3> DEFINE l == Len(down)
               q == N(qfifo, Downs)
    <3>1. l \in Nat /\ gone.down \in Nat /\ q \in Nat /\ downs = l + (gone.down + q)
      BY <2>5 DEF Sums
    <3> HIDE DEF l, q
    <3>2. downs = l + gone.down + q
      BY ONLY <3>1
    <3> QED BY <2>4, <3>2 DEF l, q
  <2>8. ASSUME NEW e, NEW q, NEW a, NEW d, Bounds(e, q, a, d) PROVE e <= d
    BY <2>8 DEF Bounds
  <2>9. echo.in <= Len(down) /\ echo.out <= forwarded + passthrough
    BY ONLY <2>5, <2>8
  <2> QED BY <2>6, <2>7, <2>9 DEF BridgeForwardsOnce
<1> QED BY <1>1, QueuesInvariance, BooksInvariance, CountedInvariance, PTL

-----------------------------------------------------------------------------
(* The two oracles.                                                        *)

\* Every packet on the bus is less than half the sequence space ahead of one that
\* was there before it: the shim never drops so long a run.
RunsShort(s) == \A j \in 2 .. Len(s) : \E i \in 1 .. (j - 1) : s[j] - s[i] < Half

\* The packets of the flow in the bridge's queue.
FlowFrames(s) == {i \in 1 .. Len(s) : Uplink(s[i]) /\ s[i].kind = "flow"}

\* A packet that is to reach the bus was sent Depth behind the newest at most, so
\* it is less than the bitmap behind everything that went before it.
Late ==
  /\ ~bridged => qfifo = <<>>
  /\ \A j \in 1 .. Len(bus) : bus[j] \in Nat /\ bus[j] < next
  /\ \A i \in FlowFrames(qfifo) :
       /\ qfifo[i].pos < next
       /\ \A j \in 1 .. Len(bus) : bus[j] - qfifo[i].pos < Win
       /\ \A k \in FlowFrames(qfifo) : k < i => qfifo[k].pos - qfifo[i].pos < Win

\* p gets to the bus and to the tracker behind it.
Taps(p) ==
  /\ bus' = Append(bus, p)
  /\ ~sender.dtp => t' = Feed(t, SeqOf(p))

LEMMA FlowTaps ==
  ASSUME NEW p \in Nat, Nexthop(FlowPacket(p), p)
  PROVE  UNCHANGED <<bus, t>> \/ Taps(p)
<1>1. p # -1
  OBVIOUS
<1>2. CASE sender.dtp
  BY <1>1, <1>2 DEF Nexthop, Taps
<1>3. CASE ~sender.dtp
  <2>1. FlowPacket(p).seq = SeqOf(p) /\ FrameFromFields(FlowPacket(p)).is_rdp
    BY <1>3 DEF FlowPacket, Rdp, FrameFromFields
  <2> DEFINE pkt == FlowPacket(p)
             f    == FrameFromFields(pkt)
             drop == IF per_attempt THEN GEStep(ge, draw).drop
                     ELSE RuleDecide(rule, FlowIndex(tracker, f, pkt).index)
  <2>2. \/ UNCHANGED <<bus, t>>
        \/ /\ bus' = IF drop \/ p = -1 THEN bus ELSE Append(bus, p)
           /\ t' = IF drop \/ p = -1 \/ ~f.is_rdp THEN t ELSE Feed(t, pkt.seq)
    BY DEF Nexthop
  <2> HIDE DEF drop, pkt, f
  <2>3. f.is_rdp /\ pkt.seq = SeqOf(p)
    BY <2>1 DEF f, pkt
  <2> QED BY <1>1, <2>2, <2>3 DEF Taps
<1> QED BY <1>2, <1>3

LEMMA NoTap ==
  ASSUME NEW pkt, Nexthop(pkt, -1)
  PROVE  UNCHANGED <<bus, t>>
BY DEF Nexthop

\* The effect of a step on bus, queue and tap: a frame arrives, or leaves the
\* queue for the bus, or goes there directly.
Enqueues ==
  /\ UNCHANGED <<bus, t>> /\ next' >= next
  /\ \/ qfifo' = qfifo
     \/ \E f \in FrameT :
          /\ bridged /\ qfifo' = Append(qfifo, f)
          /\ Uplink(f) /\ f.kind = "flow" => f.pos >= next - Depth /\ f.pos < next'

Dequeues ==
  /\ bridged /\ qfifo # <<>> /\ qfifo' = Tail(qfifo) /\ next' = next
  /\ \/ UNCHANGED <<bus, t>>
     \/ Uplink(Head(qfifo)) /\ Head(qfifo).kind = "flow" /\ Taps(Head(qfifo).pos)

Directly ==
  /\ ~bridged /\ qfifo' = qfifo /\ next' >= next
  /\ \E p \in Nat : p >= next - Depth /\ p < next' /\ Taps(p)

Moves == Enqueues \/ Dequeues \/ Directly

LEMMA ArriveMoves ==
  ASSUME bridged, UNCHANGED <<bus, t>>, next' >= next, NEW f \in FrameT, Arrive(f),
         Uplink(f) /\ f.kind = "flow" => f.pos >= next - Depth /\ f.pos < next'
  PROVE  Moves
<1>1. qfifo' = qfifo \/ qfifo' = Append(qfifo, f)
  BY DEF Arrive
<1> QED BY <1>1 DEF Moves, Enqueues

LEMMA BridgeMoves ==
  ASSUME Queues, bridged, Bridge
  PROVE  Moves
<1>0. next \in Nat /\ start \in Nat /\ Depth \in Nat /\ next >= next
  BY ShimAssumption, SeqAssumption DEF Queues
<1>1. ASSUME NEW p \in (next - Depth) .. next, p >= start, GroundSends("flow", p)
      PROVE  Moves
  <2> DEFINE f == Frame("in", "ground", "flow", p)
  <2>1. p \in Int /\ p >= next - Depth /\ p <= next
    BY <1>0
  <2>2. f \in FrameT /\ f.pos = p /\ Arrive(f)
    BY <1>1, <2>1 DEF Frame, FrameT, GroundSends
  <2>3. next' >= next /\ p < next' /\ UNCHANGED <<bus, t>>
    BY <1>0, <1>1, <2>1 DEF GroundSends
  <2> HIDE DEF f
  <2> QED BY <2>1, <2>2, <2>3, ArriveMoves
<1>2. ASSUME NEW kind \in {"short", "other"}, GroundSends(kind, -1)
      PROVE  Moves
  <2> DEFINE f == Frame("in", "ground", kind, -1)
  <2>1. f \in FrameT /\ f.kind # "flow" /\ Arrive(f)
    BY <1>2 DEF Frame, FrameT, GroundSends
  <2>2. next' = next /\ UNCHANGED <<bus, t>>
    BY <1>2 DEF GroundSends
  <2> HIDE DEF f
  <2> QED BY <1>0, <2>1, <2>2, ArriveMoves
<1>3. CASE SatSends
  <2> DEFINE f == Frame("out", "sat", "down", downs)
  <2>1. f \in FrameT /\ f.kind # "flow" /\ Arrive(f)
    BY <1>3 DEF Frame, FrameT, SatSends, Queues
  <2>2. next' = next /\ UNCHANGED <<bus, t>>
    BY <1>3 DEF SatSends, dvars
  <2> HIDE DEF f
  <2> QED BY <1>0, <2>1, <2>2, ArriveMoves
<1>4. CASE HearOwn
  <2>1. PICK k \in 1 .. Len(air) : Arrive(air[k]) /\ next' = next /\ UNCHANGED <<bus, t>>
    BY <1>4 DEF HearOwn, dvars
  <2>2. air[k] \in FrameT
    BY DEF Queues
  <2>3. ~Uplink(air[k])
    BY DEF Queues, Uplink, Genuine
  <2> QED BY <1>0, <2>1, <2>2, <2>3, ArriveMoves
<1>5. CASE Pump
  <2> DEFINE f == Head(qfifo)
  <2>1. /\ Duplicate(f) \/ ForwardUp(f) \/ ForwardDown(f) \/ DropEcho(f)
        /\ qfifo # <<>> /\ qfifo' = Tail(qfifo) /\ next' = next
    BY <1>5 DEF Pump, Duplicate, ForwardUp, ForwardDown, DropEcho, Read, dvars
  <2>2. /\ f \in FrameT /\ f = qfifo[1] /\ 1 \in 1 .. Len(qfifo)
    BY <2>1, TailIs DEF Queues
  <2>3. Uplink(f) => FromGround(f, start)
    BY <2>2 DEF Queues
  <2> HIDE DEF f
  <2>4. CASE Duplicate(f) \/ ForwardDown(f) \/ DropEcho(f)
    <3>1. UNCHANGED <<bus, t>>
      BY <2>4 DEF Duplicate, ForwardDown, DropEcho, dvars
    <3> QED BY <2>1, <3>1 DEF Moves, Dequeues
  <2>5. CASE ForwardUp(f)
    <3>1. Nexthop(PacketOf(f), f.pos) /\ Uplink(f) /\ FromGround(f, start)
      BY <2>3, <2>5 DEF ForwardUp
    <3>2. CASE f.kind = "flow"
      <4>1. f.pos \in Nat /\ PacketOf(f) = FlowPacket(f.pos)
        BY <1>0, <2>2, <3>1, <3>2 DEF FromGround, PacketOf, FrameT
      <4>2. UNCHANGED <<bus, t>> \/ Taps(f.pos)
        BY <3>1, <4>1, FlowTaps
      <4> QED BY <2>1, <3>1, <3>2, <4>2 DEF Moves, Dequeues, f
    <3>3. CASE f.kind # "flow"
      <4>1. f.pos = -1
        BY <3>1, <3>3 DEF FromGround
      <4>2. UNCHANGED <<bus, t>>
        BY <3>1, <4>1, NoTap
      <4> QED BY <2>1, <4>2 DEF Moves, Dequeues
    <3> QED BY <3>2, <3>3
  <2> QED BY <2>1, <2>4, <2>5
<1>6. CASE OnSig
  BY <1>0, <1>6 DEF OnSig, dvars, Moves, Enqueues
<1> QED BY <1>1, <1>2, <1>3, <1>4, <1>5, <1>6 DEF Bridge

LEMMA NextMoves ==
  ASSUME Queues, [BNext]_bvars
  PROVE  Moves /\ UNCHANGED <<bridged, sender>>
<1>0. next \in Nat /\ start \in Nat /\ Depth \in Nat /\ next >= next
  BY ShimAssumption, SeqAssumption DEF Queues
<1>1. UNCHANGED <<bridged, sender>>
  BY NextStep DEF StepOK, Kept
<1> SUFFICES Moves
  BY <1>1
<1>2. CASE UNCHANGED bvars
  BY <1>0, <1>2 DEF bvars, dvars, pump, Moves, Enqueues
<1>3. CASE bridged /\ Bridge
  BY <1>3, BridgeMoves
<1>4. CASE ~bridged /\ DNext /\ UNCHANGED pump
  <2>0. qfifo' = qfifo
    BY <1>4 DEF pump
  <2>1. ASSUME NEW p \in (next - Depth) .. next, p >= start, SendFlow(p)
        PROVE  Moves
    <3>1. p \in Nat /\ p >= next - Depth /\ p <= next
      BY <1>0, <2>1
    <3>2. next' >= next /\ p < next' /\ Nexthop(FlowPacket(p), p)
      BY <1>0, <2>1, <3>1 DEF SendFlow
    <3>3. UNCHANGED <<bus, t>> \/ Taps(p)
      BY <3>1, <3>2, FlowTaps
    <3> QED BY <1>4, <2>0, <3>1, <3>2, <3>3 DEF Moves, Enqueues, Directly
  <2>2. CASE SendShort \/ SendOther
    <3>1. UNCHANGED <<bus, t, next>>
      BY <2>2, NoTap DEF SendShort, SendOther
    <3> QED BY <1>0, <2>0, <3>1 DEF Moves, Enqueues
  <2> QED BY <1>4, <2>1, <2>2 DEF DNext
<1> QED BY <1>2, <1>3, <1>4 DEF BNext

LEMMA FrameFacts ==
  ASSUME Queues, Late, NEW i \in FlowFrames(qfifo)
  PROVE  /\ i \in Nat /\ i <= Len(qfifo) /\ Len(qfifo) \in Nat
         /\ qfifo[i].pos \in Int /\ qfifo[i].pos < next
<1>1. qfifo \in Seq(FrameT) /\ i \in 1 .. Len(qfifo)
  BY DEF Queues, FlowFrames
<1>2. qfifo[i] \in FrameT /\ Len(qfifo) \in Nat
  BY <1>1
<1>3. qfifo[i].pos < next
  BY DEF Late
<1> QED BY <1>1, <1>2, <1>3 DEF FrameT

LEMMA EnqueuesLate ==
  ASSUME Queues, Late, Enqueues, UNCHANGED bridged, next' \in Nat
  PROVE  Late'
<1>0. next \in Nat /\ next' >= next /\ bus' = bus /\ Depth \in Nat /\ Win \in Nat /\ Depth < Win
  BY ShimAssumption, SeqAssumption DEF Queues, Enqueues
<1>1. \A j \in 1 .. Len(bus') : bus'[j] \in Nat /\ bus'[j] < next'
  BY <1>0 DEF Late
<1>2. CASE qfifo' = qfifo
  <2>1. \A i \in FlowFrames(qfifo) : qfifo[i].pos \in Int
    BY FrameFacts
  <2>2. \A i \in FlowFrames(qfifo') :
          /\ qfifo'[i].pos < next'
          /\ \A j \in 1 .. Len(bus') : bus'[j] - qfifo'[i].pos < Win
          /\ \A k \in FlowFrames(qfifo') : k < i => qfifo'[k].pos - qfifo'[i].pos < Win
    BY <1>0, <1>2, <2>1 DEF Late
  <2> QED BY <1>1, <1>2, <2>2 DEF Late
<1>3. ASSUME NEW f \in FrameT, bridged, qfifo' = Append(qfifo, f),
             Uplink(f) /\ f.kind = "flow" => f.pos >= next - Depth /\ f.pos < next'
      PROVE  Late'
  <2> DEFINE n == Len(qfifo)
             r == qfifo'
  <2>1. /\ r \in Seq(FrameT) /\ n \in Nat /\ Len(r) = n + 1
        /\ \A i \in 1 .. n : r[i] = qfifo[i]
        /\ r[n + 1] = f
        /\ \A i \in 1 .. Len(r) : i \in 1 .. n \/ i = n + 1
    BY <1>3, AppendIs DEF Queues
  <2> HIDE DEF r
  <2>2. ASSUME NEW i \in FlowFrames(r)
        PROVE  \/ i \in FlowFrames(qfifo) /\ r[i] = qfifo[i] /\ i <= n
               \/ i = n + 1 /\ r[i] = f /\ Uplink(f) /\ f.kind = "flow"
    BY <2>1 DEF FlowFrames
  <2>3. ASSUME NEW i \in FlowFrames(qfifo)
        PROVE  i \in Nat /\ i <= n /\ qfifo[i].pos \in Int /\ qfifo[i].pos < next
    BY FrameFacts
  <2>4. f.pos \in Int
    BY DEF FrameT
  <2>5. ASSUME NEW i \in FlowFrames(r)
        PROVE  /\ r[i].pos < next'
               /\ \A j \in 1 .. Len(bus) : bus[j] - r[i].pos < Win
               /\ \A k \in FlowFrames(r) : k < i => r[k].pos - r[i].pos < Win
    <3>1. CASE i \in FlowFrames(qfifo) /\ r[i] = qfifo[i] /\ i <= n
      <4>1. r[i].pos < next' /\ \A j \in 1 .. Len(bus) : bus[j] - r[i].pos < Win
        BY <1>0, <2>3, <3>1 DEF Late
      <4>2. ASSUME NEW k \in FlowFrames(r), k < i PROVE r[k].pos - r[i].pos < Win
        <5>1. k \in FlowFrames(qfifo) /\ r[k] = qfifo[k]
          BY <2>1, <2>2, <2>3, <3>1, <4>2
        <5> QED BY <3>1, <4>2, <5>1 DEF Late
      <4> QED BY <4>1, <4>2
    <3>2. CASE i = n + 1 /\ r[i] = f /\ Uplink(f) /\ f.kind = "flow"
      <4>1. f.pos >= next - Depth /\ f.pos < next'
        BY <1>3, <3>2
      <4>2. \A j \in 1 .. Len(bus) : bus[j] - f.pos < Win
        BY <1>0, <2>4, <4>1 DEF Late
      <4>3. ASSUME NEW k \in FlowFrames(r), k < i PROVE r[k].pos - f.pos < Win
        <5>1. k \in FlowFrames(qfifo) /\ r[k] = qfifo[k]
          BY <2>1, <2>2, <3>2, <4>3
        <5> QED BY <1>0, <2>3, <2>4, <4>1, <5>1
      <4> QED BY <3>2, <4>1, <4>2, <4>3
    <3> QED BY <2>2, <3>1, <3>2
  <2>6. bridged'
    BY <1>3
  <2> QED BY <1>0, <1>1, <2>5, <2>6 DEF Late, r
<1> QED BY <1>2, <1>3 DEF Enqueues

\* The bus after one more packet p.
LEMMA BusGrows ==
  ASSUME IsSeq(bus), NEW p, Taps(p)
  PROVE  /\ Len(bus) \in Nat /\ Len(bus') = Len(bus) + 1 /\ IsSeq(bus')
         /\ \A j \in 1 .. Len(bus) : bus'[j] = bus[j]
         /\ bus'[Len(bus) + 1] = p
         /\ \A j \in 1 .. Len(bus') : j \in 1 .. Len(bus) \/ j = Len(bus) + 1
BY AppendAny DEF Taps

LEMMA DequeuesLate ==
  ASSUME Queues, Late, IsSeq(bus), Dequeues, UNCHANGED bridged
  PROVE  /\ Late'
         /\ \/ UNCHANGED <<bus, t>>
            \/ \E p \in Nat : Taps(p) /\ \A j \in 1 .. Len(bus) : bus[j] - p < Win
<1> DEFINE r == qfifo'
           f == Head(qfifo)
           n == Len(qfifo)
<1>1. /\ bridged' /\ next' = next /\ qfifo # <<>> /\ r = Tail(qfifo)
      /\ UNCHANGED <<bus, t>> \/ (Uplink(f) /\ f.kind = "flow" /\ Taps(f.pos))
  BY DEF Dequeues
<1>2. /\ r \in Seq(FrameT) /\ f \in FrameT /\ f = qfifo[1] /\ 1 \in 1 .. n /\ n \in Nat
      /\ Len(r) = n - 1
      /\ \A i \in 1 .. Len(r) : r[i] = qfifo[i + 1] /\ i + 1 \in 2 .. n
  BY <1>1, TailIs DEF Queues
<1> HIDE DEF r, f
<1>3. ASSUME NEW i \in FlowFrames(r)
      PROVE  i + 1 \in FlowFrames(qfifo) /\ r[i] = qfifo[i + 1] /\ i \in Nat /\ i >= 1 /\ r[i].pos \in Int
  <2>1. i \in 1 .. Len(r) /\ r[i] = qfifo[i + 1] /\ i + 1 \in 2 .. n
    BY <1>2 DEF FlowFrames
  <2>2. i + 1 \in 1 .. n /\ i \in Nat /\ i >= 1
    BY <1>2, <2>1
  <2>3. r[i] \in FrameT
    BY <1>2, <2>1
  <2> QED BY <2>1, <2>2, <2>3 DEF FlowFrames, FrameT
<1>4. ASSUME NEW i \in FlowFrames(r)
      PROVE  /\ r[i].pos < next
             /\ \A j \in 1 .. Len(bus) : bus[j] - r[i].pos < Win
             /\ \A k \in FlowFrames(r) : k < i => r[k].pos - r[i].pos < Win
  <2>1. r[i].pos < next /\ \A j \in 1 .. Len(bus) : bus[j] - r[i].pos < Win
    BY <1>3 DEF Late
  <2>2. ASSUME NEW k \in FlowFrames(r), k < i PROVE r[k].pos - r[i].pos < Win
    <3>1. k + 1 < i + 1
      BY <1>3, <2>2
    <3> QED BY <1>3, <3>1 DEF Late
  <2> QED BY <2>1, <2>2
<1>5. CASE UNCHANGED <<bus, t>>
  BY <1>1, <1>4, <1>5 DEF Late, r
<1>6. CASE Uplink(f) /\ f.kind = "flow" /\ Taps(f.pos)
  <2>1. 1 \in FlowFrames(qfifo)
    BY <1>2, <1>6 DEF FlowFrames
  <2>2. f.pos \in Nat /\ f.pos < next /\ \A j \in 1 .. Len(bus) : bus[j] - f.pos < Win
    <3>1. FromGround(f, start) /\ start \in Nat
      BY <1>2, <1>6 DEF Queues
    <3>2. f.pos \in Nat
      BY <1>2, <1>6, <3>1 DEF FromGround, FrameT
    <3> QED BY <1>2, <2>1, <3>2 DEF Late
  <2>3. ASSUME NEW i \in FlowFrames(r) PROVE f.pos - r[i].pos < Win
    <3>1. 1 < i + 1
      BY <1>3
    <3> QED BY <1>2, <1>3, <2>1, <3>1 DEF Late
  <2>4. /\ \A j \in 1 .. Len(bus) : bus'[j] = bus[j]
        /\ bus'[Len(bus) + 1] = f.pos
        /\ \A j \in 1 .. Len(bus') : j \in 1 .. Len(bus) \/ j = Len(bus) + 1
    BY <1>6, BusGrows
  <2>5. \A j \in 1 .. Len(bus') : bus'[j] \in Nat /\ bus'[j] < next
    BY <2>2, <2>4 DEF Late
  <2>6. \A i \in FlowFrames(r), j \in 1 .. Len(bus') : bus'[j] - r[i].pos < Win
    BY <1>4, <2>3, <2>4
  <2>7. Late'
    BY <1>1, <1>4, <2>5, <2>6 DEF Late, r
  <2> QED BY <1>6, <2>2, <2>7
<1> QED BY <1>1, <1>5, <1>6

LEMMA DirectlyLate ==
  ASSUME Queues, Late, IsSeq(bus), Directly, UNCHANGED bridged, next' \in Nat
  PROVE  /\ Late'
         /\ \E p \in Nat : Taps(p) /\ \A j \in 1 .. Len(bus) : bus[j] - p < Win
<1>0. /\ next \in Nat /\ next' >= next /\ Depth \in Nat /\ Win \in Nat /\ Depth < Win
      /\ ~bridged' /\ qfifo' = <<>>
  BY ShimAssumption, SeqAssumption DEF Queues, Directly, Late
<1>1. PICK p \in Nat : p >= next - Depth /\ p < next' /\ Taps(p)
  BY DEF Directly
<1>2. \A j \in 1 .. Len(bus) : bus[j] \in Nat /\ bus[j] < next /\ bus[j] - p < Win
  BY <1>0, <1>1 DEF Late
<1>3. /\ \A j \in 1 .. Len(bus) : bus'[j] = bus[j]
      /\ bus'[Len(bus) + 1] = p
      /\ \A j \in 1 .. Len(bus') : j \in 1 .. Len(bus) \/ j = Len(bus) + 1
  BY <1>1, BusGrows
<1>4. \A j \in 1 .. Len(bus') : bus'[j] \in Nat /\ bus'[j] < next'
  BY <1>0, <1>1, <1>2, <1>3
<1>5. FlowFrames(qfifo') = {}
  <2>1. Len(qfifo') = 0
    BY <1>0
  <2> QED BY <2>1 DEF FlowFrames
<1>6. Late'
  BY <1>0, <1>4, <1>5 DEF Late
<1> QED BY <1>1, <1>2, <1>6

\* A packet that gets to the bus is less than the bitmap behind all before it.
TapsLate ==
  \/ UNCHANGED <<bus, t>>
  \/ \E p \in Nat : Taps(p) /\ \A j \in 1 .. Len(bus) : bus[j] - p < Win

LEMMA NextLate ==
  ASSUME Queues, OnBus, Late, [BNext]_bvars
  PROVE  Late' /\ TapsLate /\ sender' = sender
<1>1. Moves /\ UNCHANGED <<bridged, sender>>
  BY NextMoves
<1>2. next' \in Nat
  BY NextStep DEF StepOK, Queues
<1>3. IsSeq(bus)
  BY DEF OnBus
<1>4. CASE Enqueues
  BY <1>1, <1>2, <1>4, EnqueuesLate DEF TapsLate, Enqueues
<1>5. CASE Dequeues
  BY <1>1, <1>3, <1>5, DequeuesLate DEF TapsLate
<1>6. CASE Directly
  BY <1>1, <1>2, <1>3, <1>6, DirectlyLate DEF TapsLate
<1> QED BY <1>1, <1>4, <1>5, <1>6 DEF Moves

\* The tracker at the tap knows what was on the bus, up to the turn it started in.
Metered ==
  ~sender.dtp =>
    /\ bus = <<>> => t = NewMeter
    /\ bus # <<>> /\ RunsShort(bus) => \E h, c : Turns(c) /\ Exact(t, Observed, bus[1], h, c)

LEMMA ObservedIs ==
  ASSUME IsSeq(bus)
  PROVE  /\ Len(bus) \in Nat /\ (bus # <<>> => Len(bus) > 0) /\ (bus = <<>> => Len(bus) = 0)
         /\ \A q : q \in Observed <=> \E i \in 1 .. Len(bus) : q = bus[i]
<1>1. Len(bus) \in Nat /\ DOMAIN bus = 1 .. Len(bus) /\ (bus # <<>> => Len(bus) > 0) /\ (bus = <<>> => Len(bus) = 0)
  BY DEF IsSeq
<1>2. \A q : q \in Observed <=> \E i \in 1 .. Len(bus) : q = bus[i]
  BY <1>1 DEF Observed
<1> QED BY <1>1, <1>2

LEMMA ObservedGrows ==
  ASSUME IsSeq(bus), NEW p, Taps(p)
  PROVE  Observed' = Observed \cup {p}
<1>1. /\ \A j \in 1 .. Len(bus) : bus'[j] = bus[j]
      /\ bus'[Len(bus) + 1] = p /\ IsSeq(bus') /\ Len(bus) \in Nat /\ Len(bus') = Len(bus) + 1
      /\ \A j \in 1 .. Len(bus') : j \in 1 .. Len(bus) \/ j = Len(bus) + 1
  BY BusGrows
<1>2. \A q : q \in Observed <=> \E i \in 1 .. Len(bus) : q = bus[i]
  BY ObservedIs
<1>3. DOMAIN bus' = 1 .. Len(bus')
  BY <1>1 DEF IsSeq
<1>4. \A q : q \in Observed' <=> \E i \in 1 .. Len(bus') : q = bus'[i]
  BY <1>3 DEF Observed
<1>5. Len(bus) + 1 \in 1 .. Len(bus') /\ \A j \in 1 .. Len(bus) : j \in 1 .. Len(bus')
  BY <1>1
<1> QED BY <1>1, <1>2, <1>4, <1>5

LEMMA FirstTap ==
  ASSUME NEW p \in Nat, NEW B, B = {p}
  PROVE  \E c : Turns(c) /\ Exact(Feed(NewMeter, SeqOf(p)), B, p, p, c)
<1>1. SeqMod \in Nat \ {0}
  BY SeqAssumption DEF SeqMod
<1>2. p \div SeqMod \in Int /\ p = SeqMod * (p \div SeqMod) + SeqOf(p) /\ SeqOf(p) \in Int
  BY <1>1, DivMod DEF SeqOf
<1> DEFINE k == p \div SeqMod
           c == SeqMod * k
<1>3. k \in Int /\ p = SeqMod * k + SeqOf(p)
  BY <1>2
<1> HIDE DEF k
<1>a. c \in Int /\ Turns(c)
  BY <1>1, <1>3 DEF Turns
<1>4. p = c + SeqOf(p)
  BY <1>3
<1> HIDE DEF c
<1>5. SeqOf(p) = p - c
  BY <1>2, <1>a, <1>4
<1>6. Record(NewMeter) /\ ~NewMeter.have /\ NewMeter.n_dup \in Nat
  BY NewBalanced DEF NewMeter, Balanced
<1>7. Exact(Feed(NewMeter, SeqOf(p)), {p}, p, p, c)
  BY <1>a, <1>5, <1>6, FeedFirst
<1> QED BY <1>a, <1>7

LEMMA TapMetered ==
  ASSUME OnBus, Metered, Late, ~sender.dtp, NEW p \in Nat, Taps(p), RunsShort(bus'),
         \A j \in 1 .. Len(bus) : bus[j] - p < Win
  PROVE  \E h, c : Turns(c) /\ Exact(t', Observed', bus'[1], h, c)
<1>0. IsSeq(bus)
  BY DEF OnBus
<1>1. /\ Len(bus) \in Nat /\ Len(bus') = Len(bus) + 1
      /\ \A j \in 1 .. Len(bus) : bus'[j] = bus[j]
      /\ bus'[Len(bus) + 1] = p
  BY <1>0, BusGrows
<1>2. Observed' = Observed \cup {p} /\ t' = Feed(t, SeqOf(p))
  BY <1>0, ObservedGrows DEF Taps
<1>3. /\ (bus # <<>> => Len(bus) > 0) /\ (bus = <<>> => Len(bus) = 0)
      /\ \A q : q \in Observed <=> \E i \in 1 .. Len(bus) : q = bus[i]
  BY <1>0, ObservedIs
<1>4. CASE bus = <<>>
  <2>1. t = NewMeter /\ Len(bus) = 0 /\ bus'[1] = p
    BY <1>1, <1>3, <1>4 DEF Metered
  <2>2. Observed = {}
    BY <1>3, <2>1
  <2>3. Observed' = {p}
    BY <1>2, <2>2
  <2>4. PICK c : Turns(c) /\ Exact(Feed(NewMeter, SeqOf(p)), Observed', p, p, c)
    BY <2>3, FirstTap
  <2> QED BY <1>2, <2>1, <2>4
<1>5. CASE bus # <<>>
  <2> DEFINE n == Len(bus)
  <2>1. n \in Nat /\ n > 0 /\ bus'[1] = bus[1]
    BY <1>1, <1>3, <1>5
  <2>2. RunsShort(bus)
    <3> SUFFICES ASSUME NEW j \in 2 .. n PROVE \E i \in 1 .. (j - 1) : bus[j] - bus[i] < Half
      BY DEF RunsShort
    <3>1. j \in 2 .. Len(bus') /\ j \in 1 .. n /\ \A i \in 1 .. (j - 1) : i \in 1 .. n
      BY <1>1, <2>1
    <3>2. PICK i \in 1 .. (j - 1) : bus'[j] - bus'[i] < Half
      BY <3>1 DEF RunsShort
    <3> QED BY <1>1, <3>1, <3>2
  <2>3. PICK h, c : Turns(c) /\ Exact(t, Observed, bus[1], h, c)
    BY <1>5, <2>2 DEF Metered
  <2>4. h \in Int /\ h \in Observed /\ \A q \in Observed : q <= h /\ q \in Int
    <3>1. h \in Observed
      BY <2>3 DEF Exact
    <3> QED BY <2>3, <3>1, ExactFacts
  <2>5. h - p < Win
    BY <1>3, <2>4
  <2>6. p - h < Half
    <3>1. n + 1 \in 2 .. Len(bus') /\ \A i \in 1 .. ((n + 1) - 1) : i \in 1 .. n
      BY <1>1, <2>1
    <3>2. PICK i \in 1 .. ((n + 1) - 1) : bus'[n + 1] - bus'[i] < Half
      BY <3>1 DEF RunsShort
    <3>3. i \in 1 .. n /\ bus'[i] = bus[i] /\ bus[i] \in Observed
      BY <1>1, <1>3, <3>1, <3>2
    <3>4. p - bus[i] < Half
      BY <1>1, <3>2, <3>3
    <3>5. bus[i] \in Observed
      BY <3>3
    <3>6. bus[i] <= h /\ bus[i] \in Int
      BY ONLY <2>4, <3>5
    <3>7. Half \in Int
      BY SeqAssumption
    <3> QED BY ONLY <2>4, <3>4, <3>6, <3>7, p \in Nat
  <2> DEFINE g == IF p > h THEN p ELSE h
  <2>7. g = IF p > h THEN p ELSE h
    OBVIOUS
  <2> HIDE DEF g
  <2>8. p \in Int /\ Observed' = Observed \cup {p}
    BY <1>2
  <2>9. Exact(Feed(t, SeqOf(p)), Observed', bus[1], g, c)
    BY ONLY <2>3, <2>5, <2>6, <2>7, <2>8, FeedExact
  <2> QED BY <1>2, <2>1, <2>3, <2>9
<1> QED BY <1>4, <1>5

LEMMA NextMetered == Queues /\ OnBus /\ Late /\ Metered /\ [BNext]_bvars => Late' /\ Metered'
<1> SUFFICES ASSUME Queues, OnBus, Late, Metered, [BNext]_bvars PROVE Late' /\ Metered'
  OBVIOUS
<1>1. Late' /\ TapsLate /\ sender' = sender
  BY NextLate
<1>2. CASE UNCHANGED <<bus, t>>
  BY <1>1, <1>2 DEF Metered, Observed
<1>3. ASSUME NEW p \in Nat, Taps(p), \A j \in 1 .. Len(bus) : bus[j] - p < Win
      PROVE  Metered'
  <2> SUFFICES ASSUME ~sender.dtp
               PROVE  /\ bus' # <<>>
                      /\ RunsShort(bus') => \E h, c : Turns(c) /\ Exact(t', Observed', bus'[1], h, c)
    BY <1>1 DEF Metered
  <2>1. bus' # <<>>
    BY <1>3, BusGrows DEF OnBus
  <2> QED BY <1>3, <2>1, TapMetered
<1> QED BY <1>1, <1>2, <1>3 DEF TapsLate

LEMMA MeteredInvariance == BSpec => [](Late /\ Metered)
<1>1. BInit => Late /\ Metered
  <2> SUFFICES ASSUME BInit PROVE Late /\ Metered
    OBVIOUS
  <2>1. PICK c, o : ShimInit(c, o)
    BY DEF BInit, DInit, BridgeInit
  <2>2. bus = <<>> /\ t = NewMeter /\ qfifo = <<>> /\ Len(bus) = 0 /\ Len(qfifo) = 0
    BY <2>1 DEF ShimInit, BInit
  <2>3. FlowFrames(qfifo) = {}
    BY <2>2 DEF FlowFrames
  <2> QED BY <2>2, <2>3 DEF Late, Metered
<1> QED BY <1>1, NextMetered, QueuesInvariance, JoinInvariance, PTL DEF BSpec

\* Between the first and the highest packet on the bus, a packet that is not there
\* is one the log says was dropped.
LEMMA LostWereInjected ==
  ASSUME Books, Indexed, OnBus, AllReachShim, NEW b \in Observed, NEW h \in Observed,
         b \in Int, h \in Int, \A q \in Observed : q \in Int /\ q <= h
  PROVE  {p \in Injected \ Observed : \E q \in Observed : b <= p /\ p < q} = (b .. h) \ Observed
<1>0. \A q : q \in Observed <=> \E i \in 1 .. Len(bus) : q = bus[i]
  <2>1. IsSeq(bus)
    BY DEF OnBus
  <2> QED BY ONLY <2>1, ObservedIs
<1>1. \A l : l \in Lines <=> \E i \in 1 .. Len(log) : l = log[i]
  <2>1. DOMAIN log = 1 .. Len(log)
    BY DEF Books, IsSeq
  <2> QED BY <2>1 DEF Lines
<1>2. \A p : p \in Injected <=> \E l \in Lines : l.dropped /\ l.pos = p
  BY DEF Injected
<1>3. /\ start \in Nat
      /\ \A i \in FlowLines(log) : log[i].pos \in Nat /\ log[i].pos >= start /\ log[i] \in Lines
  <2>1. \A i \in FlowLines(log) : i \in 1 .. Len(log)
    BY DEF FlowLines
  <2> QED BY <1>1, <2>1 DEF Indexed, Positions
<1>4. ASSUME NEW q \in Observed PROVE \E i \in FlowLines(log) : log[i].pos = q
  <2>1. PICK j \in 1 .. Len(bus) : q = bus[j]
    BY <1>0
  <2> QED BY <2>1 DEF OnBus
<1>5. ASSUME NEW p \in Injected PROVE p \in Int
  <2>1. PICK i \in 1 .. Len(log) : log[i].pos = p
    BY <1>1, <1>2
  <2>2. CASE p = -1
    BY <2>2
  <2>3. CASE p # -1
    <3>1. i \in FlowLines(log)
      BY <2>1, <2>3 DEF FlowLines
    <3> QED BY <1>3, <2>1, <3>1
  <2> QED BY <2>2, <2>3
<1>6. ASSUME NEW p \in b .. h, p \notin Observed
      PROVE  p \in Injected /\ p \in Int /\ b <= p /\ p < h
  <2>1. p \in Int /\ b <= p /\ p < h
    BY <1>6
  <2>2. PICK i \in FlowLines(log) : log[i].pos = b
    BY <1>4
  <2>3. PICK j \in FlowLines(log) : log[j].pos = h
    BY <1>4
  <2>4. start <= b /\ p \in start .. h /\ p # -1
    BY <1>3, <2>1, <2>2
  <2>5. start .. h \subseteq {k.pos : k \in Lines}
    BY <1>3, <2>3 DEF AllReachShim
  <2>6. PICK l \in Lines : l.pos = p
    BY <2>4, <2>5
  <2>7. PICK m \in 1 .. Len(log) : l = log[m]
    BY <1>1
  <2>8. m \in FlowLines(log)
    BY <2>4, <2>6, <2>7 DEF FlowLines
  <2>9. l.dropped
    <3>1. CASE ~l.dropped
      <4>1. \E k \in 1 .. Len(bus) : bus[k] = p
        BY <2>6, <2>7, <2>8, <3>1 DEF OnBus
      <4> QED BY <1>0, <1>6, <4>1
    <3> QED BY <3>1
  <2> QED BY <1>2, <2>1, <2>6, <2>9
<1>7. ASSUME NEW p \in Injected, NEW q \in Observed, b <= p, p < q
      PROVE  p \in b .. h
  <2>1. q \in Int /\ q <= h /\ p \in Int
    BY <1>5
  <2> QED BY <1>7, <2>1
<1> DEFINE lost == {p \in Injected \ Observed : \E q \in Observed : b <= p /\ p < q}
<1>8. ASSUME NEW p \in lost PROVE p \in (b .. h) \ Observed
  <2>1. p \in Injected /\ p \notin Observed /\ \E q \in Observed : b <= p /\ p < q
    OBVIOUS
  <2> QED BY <1>7, <2>1
<1>9. ASSUME NEW p \in (b .. h) \ Observed PROVE p \in lost
  BY <1>6
<1> QED BY <1>8, <1>9

LEMMA LossOf ==
  ASSUME NEW m, NEW A, NEW b, NEW h, NEW c, Exact(m, A, b, h, c), \A q \in A : b <= q,
         NEW M, M = (b .. h) \ A
  PROVE  Loss(m) = Cardinality(M)
<1>1. /\ h \in Int /\ b \in Int /\ c \in Int /\ m.max = h - c /\ m.first = b - c /\ m.have
      /\ \A q \in A : q <= h /\ q \in Int
  BY ExactFacts
<1>2. b \in A /\ m.n_distinct = Cardinality(A)
  BY DEF Exact
<1>3. b <= h /\ A \subseteq b .. h
  BY <1>1, <1>2
<1>4. IsFiniteSet(b .. h) /\ Cardinality(b .. h) = h - b + 1
  BY <1>1, <1>3, FS_Interval
<1>5. /\ IsFiniteSet(M) /\ Cardinality(M) = Cardinality(b .. h) - Cardinality((b .. h) \cap A)
  BY <1>4, FS_Difference
<1>6. (b .. h) \cap A = A
  BY <1>3
<1>7. Cardinality(A) \in Nat /\ Cardinality(M) \in Nat
  BY <1>3, <1>4, <1>5, FS_Subset, FS_CardinalityType
<1>8. Cardinality(M) = (h - b + 1) - m.n_distinct
  BY <1>2, <1>4, <1>5, <1>6
<1>9. Span(m) = h - b + 1
  BY <1>1 DEF Span
<1> QED BY <1>1, <1>2, <1>7, <1>8, <1>9 DEF Loss

\* Through wraps of the sequence number, retransmissions and the bridge, the loss
\* the tracker at the tap infers is the loss the shim's log injected, as long as
\* the shim drops no run of half the sequence space.
THEOREM OraclesAgree == BSpec => [](RunsShort(bus) => TwoOraclesAgree)
<1>1. Books /\ Indexed /\ OnBus /\ Metered /\ RunsShort(bus) => TwoOraclesAgree
  <2> SUFFICES ASSUME Books, Indexed, OnBus, Metered, RunsShort(bus), ~sender.dtp,
                      \A q \in Observed : bus[1] <= q, AllReachShim
               PROVE  Loss(t) = Cardinality({p \in Injected \ Observed :
                                               \E q \in Observed : bus[1] <= p /\ p < q})
    BY DEF TwoOraclesAgree
  <2> DEFINE lost == {p \in Injected \ Observed : \E q \in Observed : bus[1] <= p /\ p < q}
  <2>1. /\ (bus = <<>> => Len(bus) = 0)
        /\ \A q : q \in Observed <=> \E i \in 1 .. Len(bus) : q = bus[i]
    BY ObservedIs DEF OnBus
  <2>2. CASE bus = <<>>
    <3>1. t = NewMeter /\ Observed = {}
      BY <2>1, <2>2 DEF Metered
    <3>2. lost = {}
      BY <3>1
    <3>3. Loss(t) = 0 /\ Cardinality({}) = 0
      BY <3>1, FS_EmptySet DEF Loss, NewMeter
    <3> QED BY <3>2, <3>3
  <2>3. CASE bus # <<>>
    <3>1. PICK h, c : Turns(c) /\ Exact(t, Observed, bus[1], h, c)
      BY <2>3 DEF Metered
    <3>2. h \in Int /\ bus[1] \in Int /\ \A q \in Observed : q \in Int /\ q <= h
      BY <3>1, ExactFacts
    <3>3. bus[1] \in Observed /\ h \in Observed
      BY <3>1 DEF Exact
    <3>4. lost = (bus[1] .. h) \ Observed
      BY <3>2, <3>3, LostWereInjected
    <3> HIDE DEF lost
    <3>5. Loss(t) = Cardinality(lost)
      BY <3>1, <3>4, LossOf
    <3> QED BY <3>5 DEF lost
  <2> QED BY <2>2, <2>3
<1> QED BY <1>1, BooksInvariance, IndexedInvariance, JoinInvariance, MeteredInvariance, PTL

=============================================================================
