----------------------------- MODULE LossyProxy -----------------------------
(***************************************************************************)
(* The lossy ZMQ proxy (proxy/zmqproxy.c, ZMQ_PROXY_LOSSY): the main loop  *)
(* that receives a frame, applies the half-duplex model, corruption, the   *)
(* deterministic drop rule and delay to it, the worker thread that sends   *)
(* delayed frames, the capture thread that subscribes to the bus (-d 2),   *)
(* and the SIGINT handler that ends the run.                               *)
(*                                                                         *)
(* A frame has its role for the half-duplex node ("tx": sent by it, "rx":  *)
(* sent to it, "other"), its size ("short": less than a header, "big":     *)
(* more than the packet buffer), whether it belongs to the flow the rule   *)
(* matches and its position in it, of which it carries the 16-bit number.  *)
(* Publishers send the next position or one of the last few again; one     *)
(* that a frame out of scope took may so come late.  Times are left open:  *)
(* whether the node transmitted within the power-down delay is a flag that *)
(* time clears, and a delayed message may be found due or not whenever the *)
(* worker looks.  The two threads' calls on the shared backend socket are  *)
(* taken as atomic.  The XPUB queues a frame for the capture thread once   *)
(* that thread's subscription has arrived, and may drop it when many wait. *)
(***************************************************************************)
EXTENDS DropRule, Sequences, FiniteSetsExt

CONSTANTS
  Setups,       \* command lines tried, each a record of
                \*   hdx         -N: a half-duplex node is simulated
                \*   corrupting  -C: frames may be corrupted
                \*   delaying    -D: frames may be delayed
                \*   rule        match_dport = -1 is the legacy random loss
                \*   capture     -d 2: the capture thread runs
                \*   kinds       frames the publishers send: role, size, flow
                \*   depth       how far back they send one again; 0: never
                \*   memory      what malloc may leave in the packet buffer
  First,        \* position of the flow before the first frame
  Port,         \* dport of the flow
  DtpMtu,       \* -m
  DtpOverhead,  \* -H
  DelayLen,     \* length of the delay queue (1024)
  CapLen,       \* fewest frames that wait for the capture thread when the XPUB
                \* drops one (its high-water mark, less what it has not heard of)
  MaxFrames,    \* bound: frames received
  MaxSubs,      \* bound: subscription messages
  MaxSignals    \* bound: SIGINTs

ASSUME ProxyAssumption ==
  /\ \A s \in Setups :
       /\ {s.hdx, s.corrupting, s.delaying, s.capture} \subseteq BOOLEAN
       /\ s.rule.match_dport \in Int
       /\ s.kinds \subseteq [role : {"tx", "rx", "other"}, size : {"short", "ok", "big"},
                             flow : BOOLEAN]
       /\ s.depth \in Nat
  /\ First \in 0 .. (SeqSpace - 1)
  /\ DelayLen \in Nat
  /\ CapLen \in Nat
  /\ MaxFrames \in Nat
  /\ MaxSubs \in Nat
  /\ MaxSignals \in Nat

VARIABLES
  opt,             \* the command line
  flow,            \* g_last_seq, g_have_last_seq, g_epoch, g_dtp_mtu, g_dtp_overhead
  packet,          \* the one csp_packet_t every frame is parsed in: its role for
                   \* the half-duplex node and what the rule looks at
  pc,              \* where the main loop is
  revents,         \* what zmq_poll reported
  inbox, subs,     \* messages waiting at frontend and backend
  next,            \* the publishers' next position
  bus,             \* frames sent to the subscribers, in order
  pipe,            \* those queued for the capture thread
  delayq,          \* the delay queue
  wleft, held,     \* the worker: messages left to look at, the one it holds
  warm, powering,  \* half duplex: sent lately; hdx_powerup_start_ms # 0
  log,             \* the drop log
  stats,           \* g_kept, g_drops, g_delay_drops, g_malformed_frames; hdx drops,
                   \* which the code prints and does not count
  g_stop,
  raced,           \* a SIGINT fell between the check of g_stop and zmq_poll
  lost,            \* the worker could not put a message back
  joined,          \* the capture thread's subscription has arrived
  draining, cap,   \* it is past a short frame; frames it took from the pipe
  caplog,          \* its logfile
  counters,        \* threads that have incremented g_malformed_frames
  frames, signals  \* frames received so far, and SIGINTs

net == <<inbox, subs, frames, next>>
capture == <<joined, draining, cap, caplog>>
worker == <<wleft, held, lost>>
hdx == <<warm, powering>>
stop == <<g_stop, raced, signals>>
tally == <<stats, counters>>
parse == <<flow, packet, log>>
loop == <<pc, revents>>
sent == <<bus, pipe>>
out == <<sent, delayq>>
lvars == <<opt, parse, loop, net, out, worker, hdx, tally, stop, capture>>

rule == opt.rule

n == Len(frames)

Nobody == [id |-> 0, hdx |-> FALSE]

LInit ==
  /\ opt \in Setups
  /\ flow = NewFlow(DtpMtu, DtpOverhead)
  /\ packet \in opt.memory
  /\ pc = "check" /\ revents = {}
  /\ inbox = <<>> /\ subs = 0 /\ frames = <<>> /\ next = First + 1
  /\ bus = <<>> /\ pipe = <<>> /\ delayq = <<>>
  /\ wleft = 0 /\ held = Nobody /\ lost = FALSE
  /\ warm = FALSE /\ powering = FALSE
  /\ log = <<>>
  /\ stats = [kept |-> 0, drops |-> 0, delay |-> 0, malformed |-> 0, hdx |-> 0]
  /\ g_stop = FALSE /\ raced = FALSE /\ signals = 0
  /\ joined = FALSE /\ draining = FALSE /\ cap = 0 /\ caplog = <<>> /\ counters = {}

Counted(what) == stats' = [stats EXCEPT ![what] = @ + 1]

CountedMalformed(thread) ==
  /\ Counted("malformed")
  /\ counters' = counters \cup {thread}

-----------------------------------------------------------------------------
(* Outside: publishers, subscribers, the operator, time.                   *)

Frame(k, p) == [role |-> k.role, size |-> k.size, flow |-> k.flow, pos |-> p]

Publish(k, p) ==
  /\ k \in opt.kinds
  /\ p <= next /\ next - p <= opt.depth
  /\ n + Len(inbox) < MaxFrames
  /\ inbox' = Append(inbox, Frame(k, p))
  /\ next' = IF p = next THEN next + 1 ELSE next
  /\ UNCHANGED <<opt, parse, loop, subs, frames, out, worker, hdx, tally, stop, capture>>

Subscribe ==
  /\ subs < MaxSubs
  /\ subs' = subs + 1
  /\ UNCHANGED <<opt, parse, loop, inbox, frames, next, out, worker, hdx, tally, stop, capture>>

PowerDown ==
  /\ warm
  /\ warm' = FALSE
  /\ UNCHANGED <<opt, parse, loop, net, out, worker, powering, tally, stop, capture>>

\* The handler sets g_stop, and the main loop goes on at `at`.
Interrupt(at) ==
  /\ signals < MaxSignals
  /\ pc # "closed"
  /\ signals' = signals + 1
  /\ g_stop' = TRUE
  /\ pc' = at
  /\ raced' = (pc = "enter")
  /\ UNCHANGED <<opt, parse, revents, net, out, worker, hdx, tally, capture>>

\* Mutant: the poll is restarted after the handler (SA_RESTART).
SigintRestarts == Interrupt(pc)

\* A zmq_poll that is blocked returns EINTR.
Sigint == Interrupt(IF pc = "poll" THEN "check" ELSE pc)

-----------------------------------------------------------------------------
(* The main loop.                                                          *)

Goto(at) ==
  /\ pc' = at
  /\ UNCHANGED <<opt, parse, revents, net, out, worker, hdx, tally, stop, capture>>

\* while (!g_stop)
Check == pc = "check" /\ ~g_stop /\ Goto("enter")

\* proxy_shutdown closes the log and prints the counters; the process exits and
\* the other threads with it.
Shutdown == pc = "check" /\ g_stop /\ Goto("closed")

\* zmq_poll fails for another reason than a signal: the same end.
PollFails == pc = "poll" /\ Goto("closed")

EnterPoll == pc = "enter" /\ Goto("poll")

PollReturns ==
  /\ pc = "poll"
  /\ inbox # <<>> \/ subs > 0
  /\ revents' = {x \in {"front", "back"} : IF x = "front" THEN inbox # <<>> ELSE subs > 0}
  /\ pc' = IF inbox # <<>> THEN "front" ELSE "back"
  /\ UNCHANGED <<opt, parse, net, out, worker, hdx, tally, stop, capture>>

\* Frame k is taken from the frontend socket.
Take(k) ==
  /\ pc = "front"
  /\ k = Head(inbox)
  /\ inbox' = Tail(inbox)
  /\ frames' = Append(frames, k)
  /\ UNCHANGED <<opt, revents, subs, next, worker, stop, capture>>

\* A `continue`: the backend socket is left for the next poll.
Continue == pc' = "check"

\* Otherwise the loop goes on to the backend socket.
GoOn == pc' = "back"

\* A full queue costs the message, which is counted.
Delay(isHdx) ==
  IF Len(delayq) < DelayLen
    THEN /\ delayq' = Append(delayq, [id |-> n + 1, hdx |-> isHdx])
         /\ UNCHANGED stats
    ELSE Counted("delay") /\ UNCHANGED delayq

\* Frame id goes to every subscriber, the capture thread among them.
Send(id) ==
  /\ bus' = Append(bus, id)
  /\ \/ joined /\ pipe' = Append(pipe, id)
     \/ (~joined \/ Len(pipe) - cap >= CapLen) /\ UNCHANGED pipe

FrameFits(k) == k.size # "big"

\* A frame too large for the packet buffer is counted where it would be parsed.
Reject(k) ==
  /\ Take(k)
  /\ ~FrameFits(k) /\ (opt.hdx \/ rule.match_dport >= 0)
  /\ CountedMalformed("main")
  /\ Continue
  /\ UNCHANGED <<parse, delayq, hdx>>

\* Mutant: it goes out all the same.
MalformedForwarded(k) == Reject(k) /\ Send(n + 1)

Malformed(k) == Reject(k) /\ UNCHANGED sent

Packet(inflow, seq) ==
  [dport |-> IF inflow THEN Port ELSE Port + 1, frdp |-> TRUE, len |-> TrailerLen + 1,
   syn |-> FALSE, seq |-> seq % SeqSpace, off |-> 0]

\* What the packet buffer holds after frame k was copied into it and stripped.
\* csp_id_strip fails on a short frame, which nobody looks at: the buffer still
\* holds the frame before.
Strip(k) ==
  IF k.size = "short" THEN packet
  ELSE [role |-> k.role, pkt |-> Packet(k.flow, k.pos)]

\* The half-duplex node has to power up first.  Neither rule nor log sees the
\* frame.
HdxDelay(k) ==
  /\ Take(k)
  /\ opt.hdx /\ FrameFits(k) /\ Strip(k).role = "tx" /\ ~warm
  /\ packet' = Strip(k)
  /\ powering' = TRUE
  /\ Delay(TRUE)
  /\ Continue
  /\ UNCHANGED <<flow, sent, warm, log, counters>>

\* The half-duplex node cannot hear while it transmits: a line is printed.
HdxDrop(k) ==
  /\ Take(k)
  /\ opt.hdx /\ FrameFits(k) /\ Strip(k).role = "rx" /\ warm
  /\ packet' = Strip(k)
  /\ Counted("hdx")
  /\ Continue
  /\ UNCHANGED <<flow, out, hdx, log, counters>>

PastHdx(k) ==
  opt.hdx =>
    FrameFits(k) /\ (Strip(k).role = "tx" => warm) /\ (Strip(k).role = "rx" => ~warm)

\* The packet buffer when the rule looks at it: the flow's frames carry their
\* number; a corrupted frame may look like another port's or another frame's.
Parsed(k) ==
  IF rule.match_dport < 0 THEN {IF opt.hdx THEN Strip(k) ELSE packet}
  ELSE IF opt.corrupting /\ k.size # "short"
    THEN {[role |-> k.role, pkt |-> Packet(i, q)] : i \in BOOLEAN, q \in {0, k.pos}}
  ELSE {Strip(k)}

\* The decision for a frame that is parsed as pkt and identified by fi: in scope
\* it is logged.
DecideAs(pkt, fi, drop) ==
  IF rule.match_dport < 0 THEN UNCHANGED <<flow, log>>
  ELSE IF RuleMatch(rule, FrameFromFields(pkt))
    THEN /\ flow' = fi.flow
         /\ drop = RuleDecide(rule, fi.index)
         /\ log' = Append(log, [id |-> n + 1, index |-> fi.index, dropped |-> drop])
    ELSE ~drop /\ UNCHANGED <<flow, log>>

\* proxy_flow_index advances the globals exactly as ci_flow_index its tracker.
ProxyFlowIndex(pkt) == FlowIndex(flow, FrameFromFields(pkt), pkt)

\* Mutant: the decision is keyed on the order of arrival.
DecideByArrival(pkt, drop) == DecideAs(pkt, [flow |-> flow, index |-> Len(log)], drop)

Decide(pkt, drop) == DecideAs(pkt, ProxyFlowIndex(pkt), drop)

\* Mutant: a delayed frame is sent at once as well.
ForwardTwice(later) ==
  IF later THEN Delay(FALSE) /\ Continue /\ Send(n + 1)
  ELSE Send(n + 1) /\ Counted("kept") /\ GoOn /\ UNCHANGED delayq

Forward(later) ==
  IF later THEN Delay(FALSE) /\ Continue /\ UNCHANGED sent
  ELSE Send(n + 1) /\ Counted("kept") /\ GoOn /\ UNCHANGED delayq

\* Mutant: the frame is put on the bus before the decision is looked at.
DropAnyway == Counted("drops") /\ GoOn /\ Send(n + 1) /\ UNCHANGED delayq

Drop == Counted("drops") /\ GoOn /\ UNCHANGED out

\* Corruption, the drop decision, then delay or send.
Handle(k, drop, later) ==
  /\ Take(k)
  /\ PastHdx(k) /\ (FrameFits(k) \/ rule.match_dport < 0)
  /\ later => opt.delaying /\ ~drop
  /\ packet' \in Parsed(k)
  /\ Decide(packet'.pkt, drop)
  /\ warm' = (warm \/ (opt.hdx /\ Strip(k).role = "tx"))
  /\ IF drop THEN Drop ELSE Forward(later)
  /\ UNCHANGED <<powering, counters>>

\* Subscriptions go the other way.
BackEnd ==
  /\ pc = "back"
  /\ subs' = IF "back" \in revents THEN subs - 1 ELSE subs
  /\ pc' = "check"
  /\ UNCHANGED <<opt, parse, revents, inbox, frames, next, out, worker, hdx, tally,
                 stop, capture>>

-----------------------------------------------------------------------------
(* The delay worker.  It is only started when a delay mode is active, and  *)
(* ends with the process.                                                  *)

WorkerOn == (opt.delaying \/ opt.hdx) /\ pc # "closed"

WorkerSize ==
  /\ WorkerOn /\ held = Nobody /\ wleft = 0
  /\ delayq # <<>>
  /\ wleft' = Len(delayq)
  /\ UNCHANGED <<opt, parse, loop, net, out, held, lost, hdx, tally, stop, capture>>

WorkerDequeue ==
  /\ WorkerOn /\ held = Nobody /\ wleft > 0
  /\ held' = Head(delayq)
  /\ delayq' = Tail(delayq)
  /\ UNCHANGED <<opt, parse, loop, net, sent, wleft, lost, hdx, tally, stop, capture>>

\* The message is due: it is sent and the scan starts over.
WorkerSend ==
  /\ WorkerOn /\ held # Nobody
  /\ Send(held.id)
  /\ warm' = (warm \/ held.hdx)
  /\ powering' = (powering /\ ~held.hdx)
  /\ held' = Nobody
  /\ wleft' = 0
  /\ UNCHANGED <<opt, parse, loop, net, delayq, lost, tally, stop, capture>>

\* It is not: back to the end of the queue, if there is still room.
WorkerRequeue ==
  /\ WorkerOn /\ held # Nobody
  /\ delayq' = IF Len(delayq) < DelayLen THEN Append(delayq, held) ELSE delayq
  /\ lost' = (lost \/ Len(delayq) = DelayLen)
  /\ held' = Nobody
  /\ wleft' = wleft - 1
  /\ UNCHANGED <<opt, parse, loop, net, sent, hdx, tally, stop, capture>>

-----------------------------------------------------------------------------
(* The capture thread: a subscriber of the bus with a logfile.             *)

CaptureOn == opt.capture /\ pc # "closed"

\* Its connection and subscription reach the XPUB some time after the thread was
\* created.  (What the XPUB passes up for it is one of the messages of Subscribe.)
CaptureJoin ==
  /\ CaptureOn /\ ~joined
  /\ joined' = TRUE
  /\ UNCHANGED <<opt, parse, loop, net, out, worker, hdx, tally, stop, draining, cap,
                 caplog>>

\* One frame: drained, counted or logged.
CaptureOne(drains, counts) ==
  /\ CaptureOn /\ ~draining /\ cap < Len(pipe)
  /\ cap' = cap + 1
  /\ LET size == frames[pipe[cap + 1]].size
     IN  /\ draining' = (size \in drains)
         /\ IF size \in counts THEN CountedMalformed("capture") ELSE UNCHANGED tally
         /\ caplog' = IF size = "ok" THEN Append(caplog, pipe[cap + 1]) ELSE caplog
  /\ UNCHANGED <<opt, parse, loop, net, out, worker, hdx, stop, joined>>

\* Mutant: a frame too large is drained like one too short.
CaptureReadDrains == CaptureOne({"short", "big"}, {})

\* A frame too large is counted in the counter the main loop counts its own in.
CaptureRead == CaptureOne({"short"}, {"big"})

\* Behind a short frame one more is taken without waiting, if it is there yet, and
\* thrown away.  That closes the message, so the next zmq_msg_recv of the loop
\* fails and ends it.
CaptureDrain ==
  /\ CaptureOn /\ draining
  /\ draining' = FALSE
  /\ \/ cap < Len(pipe) /\ cap' = cap + 1
     \/ UNCHANGED cap
  /\ UNCHANGED <<opt, parse, loop, net, out, worker, hdx, stop, joined, caplog, tally>>

-----------------------------------------------------------------------------
AllKinds == UNION {s.kinds : s \in Setups}

Positions == (First + 1) .. (First + MaxFrames)

AllFrames == {Frame(k, p) : k \in AllKinds, p \in Positions}

Loop ==
  \/ Check \/ Shutdown \/ EnterPoll \/ PollReturns \/ BackEnd
  \/ \E k \in AllFrames :
       \/ Malformed(k) \/ HdxDelay(k) \/ HdxDrop(k)
       \/ \E drop, later \in BOOLEAN : Handle(k, drop, later)

Worker == WorkerSize \/ WorkerDequeue \/ WorkerSend \/ WorkerRequeue

Outside ==
  \/ \E k \in AllKinds, p \in Positions : Publish(k, p)
  \/ Subscribe \/ PowerDown \/ Sigint \/ PollFails

Capture == CaptureJoin \/ CaptureRead \/ CaptureDrain

LNext == Loop \/ Worker \/ Capture \/ Outside

\* The main thread is scheduled; nothing promises traffic or signals.
LSpec == LInit /\ [][LNext]_lvars /\ WF_lvars(Loop)

-----------------------------------------------------------------------------
(* Properties.                                                             *)

Sent == {bus[i] : i \in DOMAIN bus}

\* Every frame received is in exactly one place: sent once, dropped and reported
\* (by a counter, or by the line printed for a half-duplex drop), or still waiting
\* to be sent; unless the worker found the delay queue full when it put a message
\* back, which csp_queue_enqueue's caller does not notice.  What the capture thread
\* counts as malformed was sent all the same.
AllAccounted ==
  /\ Cardinality(Sent) = Len(bus)
  /\ ~lost =>
       n = Len(bus) + stats.drops + stats.delay + stats.hdx
             + (IF "capture" \in counters THEN 0 ELSE stats.malformed)
             + Len(delayq) + (IF held = Nobody THEN 0 ELSE 1)

\* g_malformed_frames is incremented without a lock by the main loop and by the
\* capture thread: no command line lets both do it, because whatever the loop
\* parses it does not forward when it is too large.
OneMalformedCounter == Cardinality(counters) <= 1

\* Of the frames that reached the capture thread (its subscription had arrived and
\* the XPUB did not drop them at its high-water mark) the log misses one only in
\* one case: it was right behind a short frame.  So a short frame costs the log
\* one frame at most.
CaptureGapsFollowShort ==
  \A i \in 1 .. cap :
    frames[pipe[i]].size = "ok" /\ pipe[i] \notin {caplog[j] : j \in DOMAIN caplog} =>
      i > 1 /\ frames[pipe[i - 1]].size = "short"

\* The reproducible measurement mode: loss alone.
LossOnly == ~opt.hdx /\ ~opt.corrupting /\ ~opt.delaying /\ rule.match_dport >= 0

\* "every fragment is either dropped or observed, never both": with loss alone, a
\* logged frame is on the bus exactly when the log says it was kept.
DroppedXorObserved ==
  LossOnly => \A i \in DOMAIN log : log[i].dropped <=> log[i].id \notin Sent

\* The frame whose bytes are in the packet buffer when frame id is decided; 0 if
\* there was none yet.
Owner(id) == Max({j \in 1 .. id : frames[j].size = "ok"} \cup {0})

\* The position of that frame in the flow.
At(id) == frames[Owner(id)].pos

\* From one logged frame to the next the flow moves by less than half the sequence
\* space, and not back across a wrap of the 16-bit number.
InStep ==
  \A i \in 2 .. Len(log) :
    LET p == At(log[i - 1].id)
        q == At(log[i].id)
    IN  /\ q - p \in (1 - SeqHalf) .. (SeqHalf - 1)
        /\ p \div SeqSpace <= q \div SeqSpace

\* Loss is injected by identity alone: the log's decision for a flow frame is what
\* the rule says of that frame's own position, counted from the turn of the 16-bit
\* number the first logged frame was in, past the next wrap, for frames sent again
\* or out of order, and whatever was rejected or out of scope before it.  Not so for
\* a frame sent again across a wrap, which is given another frame's index and maybe
\* another fate, as by the shim (SameFrameSameFate of DropShim).  A frame too short
\* for a header shares the decision of the frame before it and changes no other;
\* the very first one is decided by what malloc returned.
DecisionByIdentity ==
  LossOnly /\ log # <<>> /\ Owner(log[1].id) # 0 /\ InStep =>
    LET turn == At(log[1].id) \div SeqSpace
    IN  \A i \in DOMAIN log :
          log[i].dropped = RuleDecide(rule, At(log[i].id) - turn * SeqSpace)

\* A SIGINT ends the run and closes the log, unless it falls between the check
\* of g_stop and zmq_poll, which then waits for the next message.
SigintStops == g_stop /\ ~raced ~> pc = "closed"

=============================================================================
