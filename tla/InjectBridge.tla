---------------------------- MODULE InjectBridge ----------------------------
(***************************************************************************)
(* The injection bridge (tests/e2e/ci_inject_bridge.c) around the shim of  *)
(* DropShim: one thread takes the frames of two interfaces from libcsp's   *)
(* queue; uplink frames leave through the shim on the egress, downlink     *)
(* frames through the ingress.  A transport may play back to the bridge    *)
(* what the bridge itself sent on it, at any later time, so a frame's      *)
(* direction is told by its source address.                                *)
(*                                                                         *)
(* The shim without the bridge, as in DropShim, is among the initial       *)
(* states: bridged is fixed at the start.                                  *)
(***************************************************************************)
EXTENDS DropShim

CONSTANTS
  Bridges,    \* channels tried behind the bridge
  QfifoLen,   \* CSP_QFIFO_LEN
  MaxUp,      \* bound: frames the ground sends
  MaxDown     \* bound: frames the satellite sends

ASSUME BridgeAssumption ==
  /\ {QfifoLen, MaxUp, MaxDown} \subseteq Nat
  /\ \A c \in Bridges : c.sender.overhead \in 0 .. (DtpMtu - 1)

VARIABLES
  bridged,    \* the sender reaches the shim through the bridge
  qfifo,      \* libcsp's queue of received frames, each with its interface
  air,        \* frames of the bridge that the transports will play back to it
  recent,     \* contents that dedup may still remember
  ups, downs, \* frames the ground and the satellite have sent
  down,       \* satellite frames the ingress has sent, in order
  echo,       \* g_echo_in, g_echo_out
  gone,       \* frames dedup or a full queue has cost, by their true origin
  g_stop

pump == <<qfifo, air, recent, ups, downs, down, echo, gone, g_stop>>
bvars == <<dvars, bridged, pump>>

\* Mutant: the tracker stays as ci_drop_iface_init left it.
BridgeInitDefault(c) == ShimInit(c, DtpOverhead)

\* The tracker is set up again, with the overhead of the command line, which
\* the operator matches to the sender's.
BridgeInit(c) == ShimInit(c, c.sender.overhead)

BInit ==
  /\ \/ bridged = FALSE /\ DInit
     \/ bridged = TRUE /\ \E c \in Bridges : BridgeInit(c)
  /\ qfifo = <<>> /\ air = <<>> /\ recent = {}
  /\ ups = 0 /\ downs = 0 /\ down = <<>>
  /\ echo = [in |-> 0, out |-> 0]
  /\ gone = [up |-> 0, down |-> 0]
  /\ g_stop = FALSE

-----------------------------------------------------------------------------
(* Frames arrive.                                                          *)

Frame(iface, src, kind, pos) == [iface |-> iface, src |-> src, kind |-> kind, pos |-> pos]

\* A frame the bridge hears from its true side; the others are echoes.
Genuine(f) == <<f.iface, f.src>> \in {<<"in", "ground">>, <<"out", "sat">>}

Lose(f) ==
  gone' = IF ~Genuine(f) THEN gone
          ELSE IF f.src = "ground" THEN [gone EXCEPT !.up = @ + 1]
          ELSE [gone EXCEPT !.down = @ + 1]

\* The receive task of an interface: csp_qfifo_write, which frees the frame when
\* the queue is full.
Arrive(f) ==
  IF Len(qfifo) < QfifoLen
    THEN qfifo' = Append(qfifo, f) /\ UNCHANGED gone
    ELSE UNCHANGED qfifo /\ Lose(f)

\* The flow's next packet or one of the last Depth again, a short one, or one
\* of another port, as in DropShim.
GroundSends(kind, p) ==
  /\ ups < MaxUp
  /\ ups' = ups + 1
  /\ next' = IF kind = "flow" /\ p = next THEN next + 1 ELSE next
  /\ Arrive(Frame("in", "ground", kind, p))
  /\ UNCHANGED <<fixed, tracker, ge, log, injected_drops, forwarded, passthrough, bus, t,
                 sends, short, air, recent, downs, down, echo, g_stop>>

SatSends ==
  /\ downs < MaxDown
  /\ downs' = downs + 1
  /\ Arrive(Frame("out", "sat", "down", downs))
  /\ UNCHANGED <<dvars, air, recent, ups, down, echo, g_stop>>

\* The sequence s with its i-th element taken out.
Without(s, i) == [k \in 1 .. (Len(s) - 1) |-> IF k < i THEN s[k] ELSE s[k + 1]]

\* The broker, or the local loopback of CAN, plays a frame back: the first of its
\* interface that it still holds.
HearOwn ==
  \E i \in 1 .. Len(air) :
    /\ \A j \in 1 .. (i - 1) : air[j].iface # air[i].iface
    /\ air' = Without(air, i)
    /\ Arrive(air[i])
    /\ UNCHANGED <<dvars, recent, ups, downs, down, echo, g_stop>>

-----------------------------------------------------------------------------
(* The pump.                                                               *)

\* Mutant: the egress forwards whatever it hears.
DownlinkAny(f) == f.iface = "out"

\* The egress forwards only frames not from src_addr, the ingress only frames
\* from it.
Downlink(f) == f.iface = "out" /\ f.src # "ground"

Uplink(f) == f.iface = "in" /\ f.src = "ground"

PacketOf(f) ==
  CASE f.kind = "flow"  -> FlowPacket(f.pos)
    [] f.kind = "short" -> ShortPacket
    [] f.kind = "other" -> OtherPacket

\* csp_qfifo_read gave f; dedup may still know its content from an earlier
\* frame, or not: its window is 16 frames and 100 ms.
Read(f) ==
  /\ qfifo' = Tail(qfifo)
  /\ recent' = recent \cup {<<f.src, f.kind, f.pos>>}
  /\ UNCHANGED <<ups, downs, g_stop>>

Duplicate(f) ==
  /\ Read(f)
  /\ <<f.src, f.kind, f.pos>> \in recent
  /\ Lose(f)
  /\ UNCHANGED <<dvars, air, down, echo>>

PlayedBack(f) == air' \in {air, Append(air, f)}

\* Only what the shim handed to the egress can be heard there again.
ForwardUp(f) ==
  /\ Read(f) /\ Uplink(f)
  /\ Nexthop(PacketOf(f), f.pos)
  /\ IF injected_drops' = injected_drops
       THEN PlayedBack([f EXCEPT !.iface = "out"])
       ELSE UNCHANGED air
  /\ UNCHANGED <<fixed, next, sends, short, down, echo, gone>>

ForwardDown(f) ==
  /\ Read(f) /\ Downlink(f)
  /\ down' = Append(down, f)
  /\ PlayedBack([f EXCEPT !.iface = "in"])
  /\ UNCHANGED <<dvars, echo, gone>>

DropEcho(f) ==
  /\ Read(f) /\ ~Uplink(f) /\ ~Downlink(f)
  /\ echo' = [echo EXCEPT ![f.iface] = @ + 1]
  /\ UNCHANGED <<dvars, air, down, gone>>

Pump ==
  /\ ~g_stop /\ qfifo # <<>>
  /\ LET f == Head(qfifo)
     IN  Duplicate(f) \/ ForwardUp(f) \/ ForwardDown(f) \/ DropEcho(f)

\* SIGINT or SIGTERM: the loop ends before it reads again.
OnSig ==
  /\ ~g_stop
  /\ g_stop' = TRUE
  /\ UNCHANGED <<dvars, qfifo, air, recent, ups, downs, down, echo, gone>>

Bridge ==
  \/ \E p \in (next - Depth) .. next : p >= start /\ GroundSends("flow", p)
  \/ \E kind \in {"short", "other"} : GroundSends(kind, -1)
  \/ SatSends
  \/ HearOwn
  \/ Pump
  \/ OnSig

BNext ==
  \/ ~bridged /\ DNext /\ UNCHANGED <<bridged, pump>>
  \/ bridged /\ Bridge /\ UNCHANGED bridged

BSpec == BInit /\ [][BNext]_bvars

-----------------------------------------------------------------------------
(* Properties.                                                             *)

Queued(src) == Cardinality({i \in DOMAIN qfifo : Genuine(qfifo[i]) /\ qfifo[i].src = src})

\* "one re-forwarded frame then laps zmq->can->zmq indefinitely": with its own
\* frames played back to it on both sides the bridge still handles each frame of
\* either end at most once, the shim decides on exactly those of the ground, and
\* what is missing is in the queue or was lost to it or to dedup; it counts no
\* more echoes than frames it sent.
BridgeForwardsOnce ==
  bridged =>
    /\ ups = Len(log) + passthrough + gone.up + Queued("ground")
    /\ downs = Len(down) + gone.down + Queued("sat")
    /\ echo.in <= Len(down) /\ echo.out <= forwarded + passthrough

\* scripts/oracle_join.awk, for identity mode: the fragment indices of the drop
\* log's dropped lines and the indices a monitor with the sender's overhead
\* computes from the fragments on the bus cover every fragment that reached the
\* shim exactly once, retransmissions included.  Packets too short for a trailer,
\* which the drop log lists under index 0, are no fragments and are left out.
FragmentsJoin ==
  bridged /\ sender.dtp /\ ~per_attempt =>
    LET dropped  == {l.index : l \in {k \in Lines : k.dropped /\ k.pos # -1}}
        observed == {FragmentIndex(NewFlow(DtpMtu, sender.overhead), Dtp(p)) : p \in Observed}
    IN  /\ dropped \cap observed = {}
        /\ dropped \cup observed = {l.pos : l \in Lines} \ {-1}

=============================================================================
