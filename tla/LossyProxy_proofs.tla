-------------------------- MODULE LossyProxy_proofs -------------------------
(***************************************************************************)
(* The accounting of the lossy proxy (proxy/zmqproxy.c), for every set of  *)
(* command lines, delay queue and number of frames: where each frame that  *)
(* was received is, that one thread only counts malformed frames, what the *)
(* capture thread may miss, and that the drop log and the bus agree.       *)
(***************************************************************************)
EXTENDS LossyProxy, Numbers, FiniteSetTheorems, SequenceTheorems

FrameType == [role : {"tx", "rx", "other"}, size : {"short", "ok", "big"}, flow : BOOLEAN,
              pos : Nat]
Message == [id : Nat, hdx : BOOLEAN]
Stats == [{"kept", "drops", "delay", "malformed", "hdx"} -> Nat]

ProxyTypes ==
  /\ opt \in Setups
  /\ frames \in Seq(FrameType)
  /\ bus \in Seq(Nat)
  /\ delayq \in Seq(Message)
  /\ held \in Message
  /\ wleft \in Int
  /\ lost \in BOOLEAN
  /\ stats \in Stats
  /\ counters \subseteq {"main", "capture"}
  /\ draining \in BOOLEAN
  /\ pipe \in Seq(Nat)
  /\ cap \in 0 .. Len(pipe)
  /\ caplog \in Seq(Nat)

Holding == held # Nobody

\* What was sent, what waits and what the worker holds are different frames.
Distinct ==
  /\ \A i \in 1 .. Len(bus) : bus[i] \in 1 .. n
  /\ \A i \in 1 .. Len(delayq) : delayq[i].id \in 1 .. n
  /\ Holding => held.id \in 1 .. n
  /\ \A i, j \in 1 .. Len(bus) : bus[i] = bus[j] => i = j
  /\ \A i, j \in 1 .. Len(delayq) : delayq[i].id = delayq[j].id => i = j
  /\ \A i \in 1 .. Len(bus), j \in 1 .. Len(delayq) : bus[i] # delayq[j].id
  /\ Holding => /\ \A i \in 1 .. Len(bus) : bus[i] # held.id
                /\ \A i \in 1 .. Len(delayq) : delayq[i].id # held.id

\* The worker never looks for more messages than there are.
WorkerRange ==
  /\ Len(delayq) <= DelayLen
  /\ IF Holding THEN 1 <= wleft /\ wleft - 1 <= Len(delayq) ELSE 0 <= wleft /\ wleft <= Len(delayq)

\* A frame too large gets past the main loop only on a command line on which the
\* loop parses nothing, and then the loop never counts one.
Unparsed == ~opt.hdx /\ rule.match_dport < 0
BigPasses ==
  /\ \A i \in 1 .. Len(bus) : frames[bus[i]].size = "big" => Unparsed
  /\ \A i \in 1 .. Len(delayq) : frames[delayq[i].id].size = "big" => Unparsed
  /\ Holding /\ frames[held.id].size = "big" => Unparsed
  /\ "main" \in counters => ~Unparsed
  /\ "capture" \in counters => Unparsed
  /\ counters = {} => stats.malformed = 0

\* The malformed frames that were not sent.
Rejected == IF "capture" \in counters THEN 0 ELSE stats.malformed
Held == IF Holding THEN 1 ELSE 0

Dropped == (stats.drops + stats.delay) + (stats.hdx + Rejected)
Waiting == Len(delayq) + Held
Sum == Len(bus) + Dropped + Waiting

Balance == ~lost => n = Sum

Logged == {caplog[j] : j \in 1 .. Len(caplog)}

\* What is queued for the capture thread was sent, once.
Piped ==
  /\ \A i \in 1 .. Len(pipe) : \E j \in 1 .. Len(bus) : pipe[i] = bus[j]
  /\ \A i, j \in 1 .. Len(pipe) : pipe[i] = pipe[j] => i = j

\* The capture log holds frames the thread has read, and the frame before a drain
\* was short.
CaptureInv ==
  /\ \A x \in Logged : \E i \in 1 .. cap : pipe[i] = x
  /\ draining => cap # 0 /\ frames[pipe[cap]].size = "short"
  /\ \A i \in 1 .. cap :
       frames[pipe[i]].size = "ok" /\ pipe[i] \notin Logged =>
         i > 1 /\ frames[pipe[i - 1]].size = "short"

ProxyInv == ProxyTypes /\ Distinct /\ WorkerRange /\ BigPasses /\ Balance /\ Piped /\ CaptureInv

-----------------------------------------------------------------------------
LEMMA InitProxy == LInit => ProxyInv
<1> SUFFICES ASSUME LInit PROVE ProxyInv
  OBVIOUS
<1>1. frames = <<>> /\ bus = <<>> /\ pipe = <<>> /\ delayq = <<>> /\ caplog = <<>> /\ ~Holding /\ wleft = 0 /\ cap = 0
  BY DEF LInit, Holding
<1>2. Len(frames) = 0 /\ Len(bus) = 0 /\ Len(pipe) = 0 /\ Len(delayq) = 0 /\ Len(caplog) = 0
  BY <1>1
<1>3. stats = [kept |-> 0, drops |-> 0, delay |-> 0, malformed |-> 0, hdx |-> 0] /\ counters = {}
  BY DEF LInit
<1>4. ProxyTypes
  <2>1. frames \in Seq(FrameType) /\ bus \in Seq(Nat) /\ pipe \in Seq(Nat)
        /\ delayq \in Seq(Message) /\ caplog \in Seq(Nat)
    BY <1>1, EmptySeq
  <2>2. cap \in 0 .. Len(pipe) /\ wleft \in Int /\ held \in Message /\ stats \in Stats
    BY <1>1, <1>2, <1>3 DEF LInit, Message, Stats, Nobody
  <2> QED BY <1>3, <2>1, <2>2 DEF LInit, ProxyTypes
<1>5. Distinct /\ BigPasses
  BY <1>1, <1>2, <1>3 DEF Distinct, BigPasses
<1>6. WorkerRange /\ Balance
  BY <1>1, <1>2, <1>3, ProxyAssumption DEF WorkerRange, Balance, Sum, Dropped, Waiting, Rejected, Held, n
<1>7. Piped /\ CaptureInv
  BY <1>1, <1>2 DEF LInit, Piped, CaptureInv, Logged
<1> QED BY <1>4, <1>5, <1>6, <1>7 DEF ProxyInv

\* Everything the accounting depends on.
books == <<opt, frames, bus, pipe, delayq, held, wleft, lost, stats, counters, draining, cap, caplog>>

\* A step that touches none of it.
LEMMA QuietProxy ==
  ASSUME ProxyInv, UNCHANGED books
  PROVE  ProxyInv'
<1> USE DEF books, ProxyInv
<1>1. ProxyTypes' /\ WorkerRange'
  BY DEF ProxyTypes, WorkerRange, Holding
<1>2. Distinct' /\ BigPasses' /\ Balance'
  BY DEF Distinct, BigPasses, Balance, Sum, Dropped, Waiting, Rejected, Held, Holding, n, rule, Unparsed
<1>3. Piped' /\ CaptureInv'
  BY DEF Piped, CaptureInv, Logged
<1> QED BY <1>1, <1>2, <1>3

LEMMA Quiet ==
  ASSUME ProxyInv,
         \/ Check \/ Shutdown \/ EnterPoll \/ PollReturns \/ BackEnd \/ Subscribe \/ PowerDown \/ Sigint
         \/ PollFails \/ CaptureJoin \/ \E k \in AllKinds, p \in Positions : Publish(k, p)
  PROVE  ProxyInv'
<1>1. UNCHANGED books
  BY DEF Check, Shutdown, EnterPoll, PollReturns, BackEnd, Subscribe, PowerDown, Sigint, PollFails, Publish,
         CaptureJoin, Goto, Interrupt, books, net, sent, out, worker, tally, capture
<1> QED BY <1>1, QuietProxy

LEMMA AppendIs ==
  ASSUME NEW S, NEW s \in Seq(S), NEW e \in S
  PROVE  /\ Append(s, e) \in Seq(S) /\ Len(s) \in Nat /\ Len(Append(s, e)) = Len(s) + 1
         /\ \A i \in 1 .. Len(s) : Append(s, e)[i] = s[i]
         /\ Append(s, e)[Len(s) + 1] = e
         /\ \A i \in 1 .. Len(Append(s, e)) : i \in 1 .. Len(s) \/ i = Len(s) + 1
OBVIOUS

LEMMA TailIs ==
  ASSUME NEW S, NEW s \in Seq(S), Len(s) # 0
  PROVE  /\ Tail(s) \in Seq(S) /\ Head(s) \in S /\ Head(s) = s[1]
         /\ Len(s) \in Nat \ {0} /\ 1 \in 1 .. Len(s)
         /\ Len(Tail(s)) = Len(s) - 1
         /\ \A i \in 1 .. Len(Tail(s)) : Tail(s)[i] = s[i + 1] /\ i + 1 \in 2 .. Len(s)
OBVIOUS

\* What the capture thread has read was received.
LEMMA PipeReceived ==
  ASSUME ProxyInv
  PROVE  /\ n \in Nat /\ cap \in Nat /\ Len(pipe) \in Nat /\ cap <= Len(pipe)
         /\ \A i \in 1 .. Len(pipe) : pipe[i] \in 1 .. n
         /\ \A i \in 1 .. cap : i \in 1 .. Len(pipe) /\ pipe[i] \in 1 .. n
<1>1. n \in Nat /\ cap \in Nat /\ Len(pipe) \in Nat /\ cap <= Len(pipe)
  BY DEF ProxyInv, ProxyTypes, n
<1>2. \A i \in 1 .. Len(pipe) : pipe[i] \in 1 .. n
  BY DEF ProxyInv, Piped, Distinct
<1>3. \A i \in 1 .. cap : i \in 1 .. Len(pipe)
  BY <1>1
<1> QED BY <1>1, <1>2, <1>3

\* The capture thread's part does not depend on what is sent behind its back.
LEMMA CaptureStable ==
  ASSUME ProxyInv, UNCHANGED <<draining, cap, caplog>>,
         \A i \in 1 .. cap : pipe'[i] = pipe[i], \A x \in 1 .. n : frames'[x] = frames[x]
  PROVE  CaptureInv'
<1>0. cap \in Nat /\ CaptureInv /\ Logged' = Logged
  BY DEF ProxyInv, ProxyTypes, Logged
<1>1. \A i \in 1 .. cap : pipe'[i] = pipe[i] /\ frames'[pipe'[i]] = frames[pipe[i]]
  BY PipeReceived
<1>2. \A x \in Logged' : \E i \in 1 .. cap' : pipe'[i] = x
  BY <1>0 DEF CaptureInv
<1>3. draining' => cap' # 0 /\ frames'[pipe'[cap']].size = "short"
  BY <1>0, <1>1 DEF CaptureInv
<1>4. ASSUME NEW i \in 1 .. cap, frames'[pipe'[i]].size = "ok", pipe'[i] \notin Logged'
      PROVE  i > 1 /\ frames'[pipe'[i - 1]].size = "short"
  <2>1. i > 1 /\ frames[pipe[i - 1]].size = "short"
    BY <1>0, <1>1, <1>4 DEF CaptureInv
  <2>2. i - 1 \in 1 .. cap
    BY <1>0, <2>1
  <2> QED BY <1>1, <2>1, <2>2
<1> QED BY <1>2, <1>3, <1>4 DEF CaptureInv

\* The pipe is as it was, or has the frame that was sent at its end.
Queues(id) == pipe' = pipe \/ pipe' = Append(pipe, id)

LEMMA PipeGrows ==
  ASSUME ProxyInv, NEW id \in Nat, Queues(id), UNCHANGED <<draining, cap, caplog>>,
         bus' = Append(bus, id), \A i \in 1 .. Len(bus) : bus[i] # id,
         \A x \in 1 .. n : frames'[x] = frames[x]
  PROVE  pipe' \in Seq(Nat) /\ cap' \in 0 .. Len(pipe') /\ Piped' /\ CaptureInv'
<1>1. /\ Len(bus) \in Nat /\ Len(bus') = Len(bus) + 1
      /\ \A i \in 1 .. Len(bus) : bus'[i] = bus[i]
      /\ bus'[Len(bus) + 1] = id
  BY AppendIs DEF ProxyInv, ProxyTypes
<1>2. /\ pipe \in Seq(Nat) /\ Len(pipe) \in Nat /\ cap \in 0 .. Len(pipe)
      /\ \A i \in 1 .. Len(pipe) : \E j \in 1 .. Len(bus) : pipe[i] = bus[j]
      /\ \A i, j \in 1 .. Len(pipe) : pipe[i] = pipe[j] => i = j
  BY DEF ProxyInv, ProxyTypes, Piped
<1>3. \A j \in 1 .. Len(bus) : j \in 1 .. Len(bus')
  BY <1>1
<1>4. Len(bus) + 1 \in 1 .. Len(bus')
  BY <1>1
<1>5. ASSUME NEW i \in 1 .. Len(pipe)
      PROVE  pipe[i] # id /\ \E j \in 1 .. Len(bus') : pipe[i] = bus'[j]
  <2>1. PICK j \in 1 .. Len(bus) : pipe[i] = bus[j]
    BY <1>2, Zenon
  <2>2. bus[j] # id /\ bus'[j] = bus[j] /\ j \in 1 .. Len(bus')
    BY <1>1, <1>3, Zenon
  <2> QED BY <2>1, <2>2, Zenon
<1>6. CASE pipe' = pipe
  <2>1. CaptureInv'
    BY <1>6, CaptureStable
  <2> QED BY <1>2, <1>5, <1>6, <2>1 DEF Piped
<1>7. CASE pipe' = Append(pipe, id)
  <2>1. /\ pipe' \in Seq(Nat) /\ Len(pipe') = Len(pipe) + 1
        /\ \A i \in 1 .. Len(pipe) : pipe'[i] = pipe[i]
        /\ pipe'[Len(pipe) + 1] = id
        /\ \A i \in 1 .. Len(pipe') : i \in 1 .. Len(pipe) \/ i = Len(pipe) + 1
    BY <1>2, <1>7, AppendIs
  <2>2. cap' \in 0 .. Len(pipe') /\ \A i \in 1 .. cap : i \in 1 .. Len(pipe)
    BY <1>2, <2>1
  <2>3. CaptureInv'
    BY <2>1, <2>2, CaptureStable
  <2>4. ASSUME NEW i \in 1 .. Len(pipe') PROVE \E j \in 1 .. Len(bus') : pipe'[i] = bus'[j]
    <3>1. CASE i \in 1 .. Len(pipe)
      <4>1. PICK j \in 1 .. Len(bus') : pipe[i] = bus'[j]
        BY <1>5, <3>1
      <4>2. pipe'[i] = pipe[i]
        BY <2>1, <3>1
      <4> QED BY ONLY <4>1, <4>2
    <3>2. CASE i = Len(pipe) + 1
      BY <1>1, <1>4, <2>1, <3>2
    <3> QED BY <2>1, <2>4, <3>1, <3>2
  <2>5. ASSUME NEW i \in 1 .. Len(pipe'), NEW j \in 1 .. Len(pipe'), pipe'[i] = pipe'[j] PROVE i = j
    <3>1. CASE i \in 1 .. Len(pipe) /\ j \in 1 .. Len(pipe)
      BY <1>2, <2>1, <2>5, <3>1
    <3>2. CASE i = Len(pipe) + 1 \/ j = Len(pipe) + 1
      BY <1>5, <2>1, <2>5, <3>2
    <3> QED BY <2>1, <2>5, <3>1, <3>2
  <2> QED BY <2>1, <2>2, <2>3, <2>4, <2>5 DEF Piped
<1> QED BY <1>6, <1>7 DEF Queues

\* Nothing is sent.
LEMMA PipeStays ==
  ASSUME ProxyInv, UNCHANGED <<bus, pipe, draining, cap, caplog>>,
         \A x \in 1 .. n : frames'[x] = frames[x]
  PROVE  Piped' /\ CaptureInv'
<1>1. Piped'
  BY DEF ProxyInv, Piped
<1>2. CaptureInv'
  BY CaptureStable
<1> QED BY <1>1, <1>2

LEMMA SumTypes ==
  ASSUME ProxyInv
  PROVE  /\ Len(bus) \in Nat /\ Len(delayq) \in Nat /\ Rejected \in Nat /\ Held \in Nat
         /\ stats.drops \in Nat /\ stats.delay \in Nat /\ stats.hdx \in Nat /\ stats.malformed \in Nat
         /\ Dropped \in Nat /\ Waiting \in Nat /\ Sum \in Nat
<1>1. Len(bus) \in Nat /\ Len(delayq) \in Nat
  BY DEF ProxyInv, ProxyTypes
<1>2. stats.drops \in Nat /\ stats.delay \in Nat /\ stats.hdx \in Nat /\ stats.malformed \in Nat
  BY DEF ProxyInv, ProxyTypes, Stats
<1>3. Rejected \in Nat /\ Held \in Nat
  BY <1>2 DEF Rejected, Held
<1>4. Dropped \in Nat
  BY ONLY <1>2, <1>3 DEF Dropped
<1>5. Waiting \in Nat
  BY ONLY <1>1, <1>3 DEF Waiting
<1>6. Sum \in Nat
  BY ONLY <1>1, <1>4, <1>5 DEF Sum
<1> QED BY <1>1, <1>2, <1>3, <1>4, <1>5, <1>6

\* What receiving a frame changes in any case.
Received(k) ==
  /\ frames' = Append(frames, k)
  /\ UNCHANGED <<opt, held, wleft, lost, draining, cap, caplog>>

LEMMA ReceivedFacts ==
  ASSUME ProxyInv, NEW k \in FrameType, Received(k)
  PROVE  /\ frames' \in Seq(FrameType) /\ n \in Nat /\ n' = n + 1
         /\ \A i \in 1 .. n : frames'[i] = frames[i]
         /\ frames'[n + 1] = k
         /\ Holding' = Holding /\ Unparsed' = Unparsed
<1>1. frames \in Seq(FrameType)
  BY DEF ProxyInv, ProxyTypes
<1> QED BY <1>1, AppendIs DEF Received, n, Holding, Unparsed, rule

\* It is sent.
LEMMA ToBus ==
  ASSUME ProxyInv, NEW k \in FrameType, Received(k), k.size = "big" => Unparsed,
         bus' = Append(bus, n + 1), Queues(n + 1), UNCHANGED <<delayq, counters>>,
         stats' = [stats EXCEPT !["kept"] = @ + 1]
  PROVE  ProxyInv'
<1> USE DEF ProxyInv
<1>1. /\ frames' \in Seq(FrameType) /\ n \in Nat /\ n' = n + 1
      /\ \A i \in 1 .. n : frames'[i] = frames[i]
      /\ frames'[n + 1] = k
      /\ Holding' = Holding /\ Unparsed' = Unparsed
  BY ReceivedFacts
<1>2. /\ bus' \in Seq(Nat) /\ Len(bus) \in Nat /\ Len(bus') = Len(bus) + 1
      /\ \A i \in 1 .. Len(bus) : bus'[i] = bus[i]
      /\ bus'[Len(bus) + 1] = n + 1
      /\ \A i \in 1 .. Len(bus') : i \in 1 .. Len(bus) \/ i = Len(bus) + 1
  <2>1. bus \in Seq(Nat) /\ n + 1 \in Nat
    BY <1>1 DEF ProxyTypes
  <2> QED BY <2>1, AppendIs
<1>3. /\ stats' \in Stats /\ stats'.drops = stats.drops /\ stats'.delay = stats.delay
      /\ stats'.hdx = stats.hdx /\ stats'.malformed = stats.malformed
      /\ stats.drops \in Nat /\ stats.delay \in Nat /\ stats.hdx \in Nat /\ stats.malformed \in Nat
  BY DEF ProxyTypes, Stats
<1>10. pipe' \in Seq(Nat) /\ cap' \in 0 .. Len(pipe') /\ Piped' /\ CaptureInv'
  <2>1. \A i \in 1 .. Len(bus) : bus[i] # n + 1
    BY <1>1 DEF Distinct
  <2>2. n + 1 \in Nat
    BY <1>1
  <2> QED BY <1>1, <2>1, <2>2, PipeGrows DEF Received
<1>4. ProxyTypes'
  BY <1>1, <1>2, <1>3, <1>10 DEF ProxyTypes, Received
<1>5. \A x \in 1 .. n : x \in 1 .. n' /\ x # n + 1 /\ n + 1 \in 1 .. n'
  BY <1>1
<1>6. Distinct'
  <2>1. n + 1 \in 1 .. n'
    BY <1>1
  <2>2. \A i \in 1 .. Len(bus') : bus'[i] \in 1 .. n'
    BY <1>1, <1>2, <1>5, <2>1 DEF Distinct
  <2>3. \A i, j \in 1 .. Len(bus') : bus'[i] = bus'[j] => i = j
    BY <1>1, <1>2, <1>5 DEF Distinct
  <2>4. \A i \in 1 .. Len(bus'), j \in 1 .. Len(delayq) : bus'[i] # delayq[j].id
    BY <1>1, <1>2, <1>5 DEF Distinct
  <2>5. Holding => \A i \in 1 .. Len(bus') : bus'[i] # held.id
    BY <1>1, <1>2, <1>5 DEF Distinct
  <2> QED BY <1>1, <1>5, <2>2, <2>3, <2>4, <2>5 DEF Distinct, Received
<1>7. WorkerRange'
  BY <1>1 DEF WorkerRange, Received
<1>8. BigPasses'
  <2>1. \A i \in 1 .. Len(bus') : frames'[bus'[i]].size = "big" => Unparsed
    <3> SUFFICES ASSUME NEW i \in 1 .. Len(bus'), frames'[bus'[i]].size = "big" PROVE Unparsed
      OBVIOUS
    <3>1. CASE i \in 1 .. Len(bus)
      <4>1. bus'[i] = bus[i] /\ frames'[bus[i]] = frames[bus[i]]
        BY <1>1, <1>2, <3>1 DEF Distinct
      <4> QED BY <3>1, <4>1 DEF BigPasses
    <3>2. CASE i = Len(bus) + 1
      BY <1>1, <1>2, <3>2
    <3> QED BY <1>2, <3>1, <3>2
  <2>2. \A i \in 1 .. Len(delayq) : frames'[delayq[i].id] = frames[delayq[i].id]
    BY <1>1 DEF Distinct
  <2>3. Holding => frames'[held.id] = frames[held.id]
    BY <1>1 DEF Distinct
  <2> QED BY <1>1, <1>3, <2>1, <2>2, <2>3 DEF BigPasses, Received
<1>9. Balance'
  <2>1. Len(delayq) \in Nat /\ Len(delayq') = Len(delayq) /\ lost' = lost
    BY DEF ProxyTypes, Received
  <2>2. Rejected' = Rejected /\ Held' = Held
    BY <1>1, <1>3 DEF Rejected, Held
  <2>3. Dropped' = Dropped /\ Waiting' = Waiting
    BY <1>3, <2>1, <2>2 DEF Dropped, Waiting
  <2>4. Len(bus) \in Nat /\ Dropped \in Nat /\ Waiting \in Nat
    BY SumTypes
  <2>5. Sum' = Sum + 1
    BY ONLY <1>2, <2>3, <2>4 DEF Sum
  <2> QED BY <1>1, <2>1, <2>5 DEF Balance
<1> QED BY <1>4, <1>6, <1>7, <1>8, <1>9, <1>10

\* It joins the delay queue.
LEMMA ToDelay ==
  ASSUME ProxyInv, NEW k \in FrameType, Received(k), k.size = "big" => Unparsed, NEW b \in BOOLEAN,
         Len(delayq) < DelayLen, delayq' = Append(delayq, [id |-> n + 1, hdx |-> b]),
         UNCHANGED <<bus, pipe, counters, stats>>
  PROVE  ProxyInv'
<1> USE DEF ProxyInv
<1> DEFINE q == Len(delayq)
<1>1. /\ frames' \in Seq(FrameType) /\ n \in Nat /\ n' = n + 1
      /\ \A i \in 1 .. n : frames'[i] = frames[i]
      /\ frames'[n + 1] = k
      /\ Holding' = Holding /\ Unparsed' = Unparsed
  BY ReceivedFacts
<1>2. /\ delayq' \in Seq(Message) /\ q \in Nat /\ Len(delayq') = q + 1
      /\ \A i \in 1 .. q : delayq'[i] = delayq[i]
      /\ delayq'[q + 1] = [id |-> n + 1, hdx |-> b]
      /\ \A i \in 1 .. Len(delayq') : i \in 1 .. q \/ i = q + 1
  <2>1. delayq \in Seq(Message) /\ [id |-> n + 1, hdx |-> b] \in Message
    BY <1>1 DEF ProxyTypes, Message
  <2> QED BY <2>1, AppendIs
<1>3. delayq'[q + 1].id = n + 1
  BY <1>2
<1>4. ProxyTypes'
  BY <1>1, <1>2 DEF ProxyTypes, Received
<1>5. \A x \in 1 .. n : x \in 1 .. n' /\ x # n + 1
  BY <1>1
<1>6. n + 1 \in 1 .. n'
  BY <1>1
<1>7. Distinct'
  <2>1. \A i \in 1 .. Len(delayq') : delayq'[i].id \in 1 .. n'
    BY <1>2, <1>3, <1>5, <1>6 DEF Distinct
  <2>2. \A i, j \in 1 .. Len(delayq') : delayq'[i].id = delayq'[j].id => i = j
    BY <1>2, <1>3, <1>5 DEF Distinct
  <2>3. \A i \in 1 .. Len(bus), j \in 1 .. Len(delayq') : bus[i] # delayq'[j].id
    BY <1>2, <1>3, <1>5 DEF Distinct
  <2>4. Holding => \A i \in 1 .. Len(delayq') : delayq'[i].id # held.id
    BY <1>2, <1>3, <1>5 DEF Distinct
  <2> QED BY <1>1, <1>5, <2>1, <2>2, <2>3, <2>4 DEF Distinct, Received
<1>8. WorkerRange'
  BY <1>1, <1>2, ProxyAssumption DEF WorkerRange, Received, ProxyTypes
<1>9. BigPasses'
  <2>1. \A i \in 1 .. Len(delayq') : frames'[delayq'[i].id].size = "big" => Unparsed
    <3> SUFFICES ASSUME NEW i \in 1 .. Len(delayq'), frames'[delayq'[i].id].size = "big" PROVE Unparsed
      OBVIOUS
    <3>1. CASE i \in 1 .. q
      <4>1. delayq'[i] = delayq[i] /\ frames'[delayq[i].id] = frames[delayq[i].id]
        BY <1>1, <1>2, <3>1 DEF Distinct
      <4> QED BY <3>1, <4>1 DEF BigPasses
    <3>2. CASE i = q + 1
      BY <1>1, <1>3, <3>2
    <3> QED BY <1>2, <3>1, <3>2
  <2>2. \A i \in 1 .. Len(bus) : frames'[bus[i]] = frames[bus[i]]
    BY <1>1 DEF Distinct
  <2>3. Holding => frames'[held.id] = frames[held.id]
    BY <1>1 DEF Distinct
  <2> QED BY <1>1, <2>1, <2>2, <2>3 DEF BigPasses, Received
<1>10. Balance'
  <2>1. /\ Len(bus) \in Nat /\ Len(bus') = Len(bus) /\ lost' = lost /\ stats' = stats
        /\ stats.drops \in Nat /\ stats.delay \in Nat /\ stats.hdx \in Nat /\ stats.malformed \in Nat
    BY DEF ProxyTypes, Received, Stats
  <2>2. Rejected' = Rejected /\ Held' = Held
    BY <1>1, <2>1 DEF Rejected, Held
  <2>3. Len(delayq) \in Nat /\ Held \in Nat /\ Dropped \in Nat /\ Waiting \in Nat
    BY SumTypes
  <2>4. Dropped' = Dropped /\ Waiting' = Waiting + 1
    BY <1>2, <2>1, <2>2, <2>3 DEF Dropped, Waiting
  <2>5. Sum' = Sum + 1
    BY ONLY <2>1, <2>3, <2>4 DEF Sum
  <2> QED BY <1>1, <2>1, <2>5 DEF Balance
<1>11. Piped' /\ CaptureInv'
  BY <1>1, PipeStays DEF Received
<1> QED BY <1>4, <1>7, <1>8, <1>9, <1>10, <1>11

\* It is dropped and counted; a malformed one by the main loop, which then is the
\* only thread that counts.
LEMMA ToCounter ==
  ASSUME ProxyInv, NEW k \in FrameType, Received(k), UNCHANGED <<bus, pipe, delayq>>,
         NEW w \in {"drops", "delay", "hdx", "malformed"}, stats' = [stats EXCEPT ![w] = @ + 1],
         IF w = "malformed" THEN ~Unparsed /\ counters' = counters \cup {"main"} ELSE counters' = counters
  PROVE  ProxyInv'
<1> USE DEF ProxyInv
<1>1. /\ frames' \in Seq(FrameType) /\ n \in Nat /\ n' = n + 1
      /\ \A i \in 1 .. n : frames'[i] = frames[i]
      /\ frames'[n + 1] = k
      /\ Holding' = Holding /\ Unparsed' = Unparsed
  BY ReceivedFacts
<1>2. /\ stats.drops \in Nat /\ stats.delay \in Nat /\ stats.hdx \in Nat /\ stats.malformed \in Nat
      /\ stats' \in Stats
      /\ stats'.drops = IF w = "drops" THEN stats.drops + 1 ELSE stats.drops
      /\ stats'.delay = IF w = "delay" THEN stats.delay + 1 ELSE stats.delay
      /\ stats'.hdx = IF w = "hdx" THEN stats.hdx + 1 ELSE stats.hdx
      /\ stats'.malformed = IF w = "malformed" THEN stats.malformed + 1 ELSE stats.malformed
  BY DEF ProxyTypes, Stats
<1>3. counters' \subseteq {"main", "capture"} /\ ("capture" \in counters' <=> "capture" \in counters)
  BY DEF ProxyTypes
<1>4. ProxyTypes'
  BY <1>1, <1>2, <1>3 DEF ProxyTypes, Received
<1>5. \A x \in 1 .. n : x \in 1 .. n'
  BY <1>1
<1>6. Distinct' /\ WorkerRange'
  BY <1>1, <1>5 DEF Distinct, WorkerRange, Received
<1>7. BigPasses'
  <2>1. \A i \in 1 .. Len(bus) : frames'[bus[i]] = frames[bus[i]]
    BY <1>1 DEF Distinct
  <2>2. \A i \in 1 .. Len(delayq) : frames'[delayq[i].id] = frames[delayq[i].id]
    BY <1>1 DEF Distinct
  <2>3. Holding => frames'[held.id] = frames[held.id]
    BY <1>1 DEF Distinct
  <2>4. ("main" \in counters' => ~Unparsed) /\ (counters' = {} => stats'.malformed = 0)
    BY <1>2 DEF BigPasses
  <2> QED BY <1>1, <1>3, <2>1, <2>2, <2>3, <2>4 DEF BigPasses, Received
<1>8. Balance'
  <2>1. /\ Len(bus) \in Nat /\ Len(bus') = Len(bus) /\ Len(delayq) \in Nat /\ Len(delayq') = Len(delayq)
        /\ lost' = lost
    BY DEF ProxyTypes, Received
  <2>2. Rejected \in Nat /\ Held' = Held /\ Dropped \in Nat /\ Waiting \in Nat
    BY <1>1, SumTypes DEF Held
  <2>3. Rejected' = IF w = "malformed" THEN Rejected + 1 ELSE Rejected
    BY <1>2, <1>3 DEF Rejected, BigPasses
  <2>4. Dropped' = Dropped + 1
    <3>1. CASE w = "drops"
      BY ONLY <1>2, <2>2, <2>3, <3>1 DEF Dropped
    <3>2. CASE w = "delay"
      BY ONLY <1>2, <2>2, <2>3, <3>2 DEF Dropped
    <3>3. CASE w = "hdx"
      BY ONLY <1>2, <2>2, <2>3, <3>3 DEF Dropped
    <3>4. CASE w = "malformed"
      BY ONLY <1>2, <2>2, <2>3, <3>4 DEF Dropped
    <3> QED BY <3>1, <3>2, <3>3, <3>4
  <2>5. Waiting' = Waiting
    BY <2>1, <2>2 DEF Waiting
  <2>6. Sum' = Sum + 1
    BY ONLY <2>1, <2>2, <2>4, <2>5 DEF Sum
  <2> QED BY <1>1, <2>1, <2>6 DEF Balance
<1>9. Piped' /\ CaptureInv'
  BY <1>1, PipeStays DEF Received
<1> QED BY <1>4, <1>6, <1>7, <1>8, <1>9

LEMMA FramesAre == \A k \in AllFrames : k \in FrameType
<1> SUFFICES ASSUME NEW k \in AllKinds, NEW p \in Positions
             PROVE  Frame(k, p) \in FrameType
  BY DEF AllFrames
<1>1. PICK s \in Setups : k \in s.kinds
  BY DEF AllKinds
<1>2. k \in [role : {"tx", "rx", "other"}, size : {"short", "ok", "big"}, flow : BOOLEAN]
  BY <1>1, ProxyAssumption
<1>3. p \in Nat
  BY ProxyAssumption, RuleAssumption DEF Positions
<1> QED BY <1>2, <1>3 DEF Frame, FrameType

LEMMA PortIs == ProxyInv => rule.match_dport \in Int /\ opt.hdx \in BOOLEAN
BY ProxyAssumption DEF ProxyInv, ProxyTypes, rule

\* The main loop takes a frame: each way it may go is one of the three above.
LEMMA ReceiveInv ==
  ASSUME ProxyInv, NEW k \in AllFrames,
         \/ Malformed(k) \/ HdxDelay(k) \/ HdxDrop(k)
         \/ \E drop, later \in BOOLEAN : Handle(k, drop, later)
  PROVE  ProxyInv'
<1>0. k \in FrameType /\ Take(k)
  BY FramesAre DEF Malformed, Reject, HdxDelay, HdxDrop, Handle
<1>1. Received(k)
  BY <1>0 DEF Take, Received, worker, capture
<1>2. ASSUME NEW b \in BOOLEAN, Delay(b), UNCHANGED <<bus, pipe, counters>>, k.size = "big" => Unparsed
      PROVE  ProxyInv'
  <2>1. CASE Len(delayq) < DelayLen
    BY <1>0, <1>1, <1>2, <2>1, ToDelay DEF Delay
  <2>2. CASE ~(Len(delayq) < DelayLen)
    <3>1. stats' = [stats EXCEPT !["delay"] = @ + 1] /\ UNCHANGED delayq
      BY <1>2, <2>2 DEF Delay, Counted
    <3> QED BY <1>0, <1>1, <1>2, <3>1, ToCounter
  <2> QED BY <2>1, <2>2
<1>3. CASE Malformed(k)
  <2>1. ~Unparsed
    BY <1>3, PortIs DEF Malformed, Reject, Unparsed
  <2>2. UNCHANGED <<bus, pipe, delayq>> /\ counters' = counters \cup {"main"}
        /\ stats' = [stats EXCEPT !["malformed"] = @ + 1]
    BY <1>3 DEF Malformed, Reject, CountedMalformed, Counted, sent
  <2> QED BY <1>0, <1>1, <2>1, <2>2, ToCounter
<1>4. CASE HdxDelay(k)
  <2>1. Delay(TRUE) /\ UNCHANGED <<bus, pipe, counters>> /\ k.size # "big"
    BY <1>4 DEF HdxDelay, FrameFits, sent
  <2> QED BY <1>2, <2>1
<1>5. CASE HdxDrop(k)
  <2>1. stats' = [stats EXCEPT !["hdx"] = @ + 1] /\ UNCHANGED <<bus, pipe, delayq, counters>>
    BY <1>5 DEF HdxDrop, Counted, out, sent
  <2> QED BY <1>0, <1>1, <2>1, ToCounter
<1>6. ASSUME NEW drop \in BOOLEAN, NEW later \in BOOLEAN, Handle(k, drop, later)
      PROVE  ProxyInv'
  <2>1. k.size = "big" => Unparsed
    BY <1>6, PortIs DEF Handle, PastHdx, FrameFits, Unparsed
  <2>2. UNCHANGED counters /\ IF drop THEN Drop ELSE Forward(later)
    BY <1>6 DEF Handle
  <2>3. CASE drop
    <3>1. stats' = [stats EXCEPT !["drops"] = @ + 1] /\ UNCHANGED <<bus, pipe, delayq>>
      BY <2>2, <2>3 DEF Drop, Counted, out, sent
    <3> QED BY <1>0, <1>1, <2>2, <3>1, ToCounter
  <2>4. CASE ~drop /\ later
    <3>1. Delay(FALSE) /\ UNCHANGED <<bus, pipe>>
      BY <2>2, <2>4 DEF Forward, sent
    <3> QED BY <1>2, <2>1, <2>2, <3>1
  <2>5. CASE ~drop /\ ~later
    <3>1. /\ bus' = Append(bus, n + 1) /\ Queues(n + 1) /\ UNCHANGED delayq
          /\ stats' = [stats EXCEPT !["kept"] = @ + 1]
      BY <2>2, <2>5 DEF Forward, Send, Queues, Counted
    <3> QED BY <1>0, <1>1, <2>1, <2>2, <3>1, ToBus
  <2> QED BY <2>3, <2>4, <2>5
<1> QED BY <1>3, <1>4, <1>5, <1>6

\* The delay worker moves messages between the queue, its hands and the bus.
LEMMA WorkerInv ==
  ASSUME ProxyInv, Worker
  PROVE  ProxyInv'
<1> USE DEF ProxyInv
<1>0. UNCHANGED <<opt, frames, stats, counters, draining, cap, caplog>>
  BY DEF Worker, WorkerSize, WorkerDequeue, WorkerSend, WorkerRequeue, net, tally, capture
<1>1. /\ n \in Nat /\ n' = n /\ Unparsed' = Unparsed /\ Rejected' = Rejected /\ Dropped' = Dropped
      /\ Len(bus) \in Nat /\ Len(delayq) \in Nat /\ Dropped \in Nat /\ Rejected \in Nat
  BY <1>0, SumTypes DEF ProxyTypes, n, Unparsed, rule, Rejected, Dropped
<1>2. \A i \in 1 .. Len(bus) : bus[i] \in 1 .. n /\ bus[i] \in Nat
  BY <1>1 DEF ProxyTypes, Distinct
<1>3. CASE WorkerSize
  <2>1. ~Holding /\ wleft' = Len(delayq) /\ UNCHANGED <<bus, pipe, delayq, held, lost>>
    BY <1>3 DEF WorkerSize, Holding, out, sent
  <2>2. ProxyTypes' /\ WorkerRange' /\ Holding' = Holding
    BY <1>0, <1>1, <2>1 DEF ProxyTypes, WorkerRange, Holding
  <2>3. Distinct' /\ BigPasses' /\ Piped' /\ CaptureInv'
    BY <1>0, <1>1, <2>1, <2>2, PipeStays DEF Distinct, BigPasses
  <2>4. Balance'
    BY <1>1, <2>1, <2>2 DEF Balance, Sum, Waiting, Held
  <2> QED BY <2>2, <2>3, <2>4
<1>4. CASE WorkerDequeue
  <2>1. /\ ~Holding /\ wleft > 0 /\ held' = Head(delayq) /\ delayq' = Tail(delayq)
        /\ UNCHANGED <<bus, pipe, wleft, lost>>
    BY <1>4 DEF WorkerDequeue, Holding, sent
  <2>2. Len(delayq) # 0
    BY <1>1, <2>1 DEF WorkerRange, ProxyTypes
  <2>3. /\ delayq' \in Seq(Message) /\ held' \in Message /\ held' = delayq[1]
        /\ Len(delayq) \in Nat \ {0} /\ 1 \in 1 .. Len(delayq)
        /\ Len(delayq') = Len(delayq) - 1
        /\ \A i \in 1 .. Len(delayq') : delayq'[i] = delayq[i + 1] /\ i + 1 \in 2 .. Len(delayq)
    BY <2>1, <2>2, TailIs DEF ProxyTypes
  <2>4. \A i \in 1 .. Len(delayq') : i + 1 \in 1 .. Len(delayq) /\ i + 1 # 1
    BY <2>3
  <2>5. held'.id \in 1 .. n /\ Holding'
    BY <1>1, <2>3 DEF Distinct, Holding, Nobody
  <2>6. ProxyTypes'
    BY <1>0, <2>1, <2>3 DEF ProxyTypes
  <2>7. WorkerRange'
    BY <1>1, <2>1, <2>3, <2>5, ProxyAssumption DEF WorkerRange, ProxyTypes
  <2>8. Distinct'
    <3>1. \A i, j \in 1 .. Len(delayq') : delayq'[i].id = delayq'[j].id => i = j
      <4> SUFFICES ASSUME NEW i \in 1 .. Len(delayq'), NEW j \in 1 .. Len(delayq'), delayq'[i].id = delayq'[j].id
                   PROVE  i = j
        OBVIOUS
      <4>1. /\ i + 1 \in 1 .. Len(delayq) /\ j + 1 \in 1 .. Len(delayq)
            /\ delayq[i + 1].id = delayq[j + 1].id
        BY <2>3, <2>4
      <4>2. i + 1 = j + 1
        BY <4>1 DEF Distinct
      <4>3. Len(delayq') \in Nat
        BY <2>3
      <4> QED BY ONLY <4>2, <4>3, i \in 1 .. Len(delayq'), j \in 1 .. Len(delayq')
    <3>2. \A i \in 1 .. Len(delayq') : delayq'[i].id # held'.id
      BY <2>3, <2>4 DEF Distinct
    <3> QED BY <1>1, <2>1, <2>3, <2>4, <2>5, <3>1, <3>2 DEF Distinct
  <2>9. BigPasses'
    BY <1>0, <1>1, <2>1, <2>3, <2>4 DEF BigPasses
  <2>10. Balance'
    <3>1. Waiting' = Waiting
      BY <2>1, <2>3, <2>5 DEF Waiting, Held
    <3> QED BY <1>1, <2>1, <3>1 DEF Balance, Sum
  <2>11. Piped' /\ CaptureInv'
    BY <1>0, <2>1, PipeStays
  <2> QED BY <2>6, <2>7, <2>8, <2>9, <2>10, <2>11
<1>5. CASE WorkerSend
  <2>1. /\ Holding /\ bus' = Append(bus, held.id) /\ Queues(held.id) /\ held' = Nobody /\ wleft' = 0
        /\ UNCHANGED <<delayq, lost>>
    BY <1>5 DEF WorkerSend, Send, Queues, Holding
  <2>2. held.id \in 1 .. n /\ held.id \in Nat /\ ~Holding'
    BY <1>1, <2>1 DEF Distinct, Holding
  <2>3. /\ bus' \in Seq(Nat) /\ Len(bus') = Len(bus) + 1
        /\ \A i \in 1 .. Len(bus) : bus'[i] = bus[i]
        /\ bus'[Len(bus) + 1] = held.id
        /\ \A i \in 1 .. Len(bus') : i \in 1 .. Len(bus) \/ i = Len(bus) + 1
    BY <2>1, <2>2, AppendIs DEF ProxyTypes
  <2>9. pipe' \in Seq(Nat) /\ cap' \in 0 .. Len(pipe') /\ Piped' /\ CaptureInv'
    <3>1. \A i \in 1 .. Len(bus) : bus[i] # held.id
      BY <2>1 DEF Distinct
    <3> QED BY <1>0, <2>1, <2>2, <3>1, PipeGrows
  <2>4. ProxyTypes'
    <3>1. Nobody \in Message
      BY DEF Nobody, Message
    <3>2. wleft' \in Int
      BY <2>1
    <3> QED BY <1>0, <2>1, <2>3, <2>9, <3>1, <3>2 DEF ProxyTypes
  <2>5. WorkerRange'
    BY <1>1, <2>1, <2>2 DEF WorkerRange
  <2>6. Distinct'
    <3>1. \A i \in 1 .. Len(bus') : bus'[i] \in 1 .. n
      BY <1>2, <2>2, <2>3
    <3>2. \A i, j \in 1 .. Len(bus') : bus'[i] = bus'[j] => i = j
      BY <2>1, <2>3 DEF Distinct
    <3>3. \A i \in 1 .. Len(bus'), j \in 1 .. Len(delayq) : bus'[i] # delayq[j].id
      BY <2>1, <2>3 DEF Distinct
    <3> QED BY <1>1, <2>1, <2>2, <3>1, <3>2, <3>3 DEF Distinct
  <2>7. BigPasses'
    BY <1>0, <1>1, <2>1, <2>2, <2>3 DEF BigPasses
  <2>8. Balance'
    <3>1. Waiting = Len(delayq) + 1 /\ Waiting' = Len(delayq)
      BY <1>1, <2>1, <2>2 DEF Waiting, Held
    <3>2. Sum' = Sum
      BY ONLY <1>1, <2>3, <3>1 DEF Sum
    <3> QED BY <1>1, <2>1, <3>2 DEF Balance
  <2> QED BY <2>4, <2>5, <2>6, <2>7, <2>8, <2>9
<1>6. CASE WorkerRequeue
  <2>1. /\ Holding /\ held' = Nobody /\ wleft' = wleft - 1 /\ UNCHANGED <<bus, pipe>>
        /\ delayq' = IF Len(delayq) < DelayLen THEN Append(delayq, held) ELSE delayq
        /\ lost' = (lost \/ Len(delayq) = DelayLen)
    BY <1>6 DEF WorkerRequeue, Holding, sent
  <2>2. held.id \in 1 .. n /\ ~Holding' /\ wleft' \in Int /\ held' \in Message
    BY <1>1, <2>1 DEF Distinct, Holding, ProxyTypes, Nobody, Message
  <2>3. Piped' /\ CaptureInv'
    BY <1>0, <2>1, PipeStays
  <2>4. CASE Len(delayq) < DelayLen
    <3>1. /\ delayq' \in Seq(Message) /\ Len(delayq') = Len(delayq) + 1
          /\ \A i \in 1 .. Len(delayq) : delayq'[i] = delayq[i]
          /\ delayq'[Len(delayq) + 1] = held
          /\ \A i \in 1 .. Len(delayq') : i \in 1 .. Len(delayq) \/ i = Len(delayq) + 1
      BY <2>1, <2>4, AppendIs DEF ProxyTypes
    <3>2. ProxyTypes'
      BY <1>0, <2>1, <2>2, <3>1 DEF ProxyTypes
    <3>3. WorkerRange'
      BY <1>1, <2>1, <2>2, <2>4, <3>1, ProxyAssumption DEF WorkerRange, ProxyTypes
    <3>4. Distinct'
      <4>1. \A i \in 1 .. Len(delayq') : delayq'[i].id \in 1 .. n
        BY <2>2, <3>1 DEF Distinct
      <4>2. \A i, j \in 1 .. Len(delayq') : delayq'[i].id = delayq'[j].id => i = j
        BY <2>1, <3>1 DEF Distinct
      <4>3. \A i \in 1 .. Len(bus), j \in 1 .. Len(delayq') : bus[i] # delayq'[j].id
        BY <2>1, <3>1 DEF Distinct
      <4> QED BY <1>1, <2>1, <2>2, <4>1, <4>2, <4>3 DEF Distinct
    <3>5. BigPasses'
      BY <1>0, <1>1, <2>1, <2>2, <3>1 DEF BigPasses
    <3>6. Balance'
      <4>1. Waiting' = Waiting /\ lost' = lost
        <5>1. Len(delayq) # DelayLen
          BY <1>1, <2>4, ProxyAssumption
        <5> QED BY <1>1, <2>1, <2>2, <3>1, <5>1 DEF Waiting, Held, ProxyTypes
      <4> QED BY <1>1, <2>1, <4>1 DEF Balance, Sum
    <3> QED BY <2>3, <3>2, <3>3, <3>4, <3>5, <3>6
  <2>5. CASE ~(Len(delayq) < DelayLen)
    <3>1. delayq' = delayq /\ lost' /\ lost' \in BOOLEAN
      <4>1. Len(delayq) = DelayLen
        BY <1>1, <2>5, ProxyAssumption DEF WorkerRange
      <4> QED BY <2>1, <2>5, <4>1 DEF ProxyTypes
    <3>2. ProxyTypes'
      BY <1>0, <2>1, <2>2, <3>1 DEF ProxyTypes
    <3>3. WorkerRange'
      BY <1>1, <2>1, <2>2, <2>5, <3>1, ProxyAssumption DEF WorkerRange, ProxyTypes
    <3>4. Distinct' /\ BigPasses' /\ Balance'
      BY <1>0, <1>1, <2>1, <2>2, <3>1 DEF Distinct, BigPasses, Balance
    <3> QED BY <2>3, <3>2, <3>3, <3>4
  <2> QED BY <2>4, <2>5
<1> QED BY <1>3, <1>4, <1>5, <1>6 DEF Worker

\* A frame the capture thread has not read yet is in none of its books.
LEMMA NextUnlogged ==
  ASSUME ProxyInv, cap < Len(pipe)
  PROVE  /\ cap + 1 \in 1 .. Len(pipe) /\ pipe[cap + 1] \in 1 .. n /\ pipe[cap + 1] \notin Logged
         /\ \A m \in 1 .. cap : pipe[m] # pipe[cap + 1]
<1>1. cap \in Nat /\ Len(pipe) \in Nat
  BY PipeReceived
<1>2. cap + 1 \in 1 .. Len(pipe) /\ \A m \in 1 .. cap : m \in 1 .. Len(pipe) /\ m # cap + 1
  BY <1>1
<1>3. pipe[cap + 1] \in 1 .. n /\ \A m \in 1 .. cap : pipe[m] # pipe[cap + 1]
  BY <1>2, PipeReceived DEF ProxyInv, Piped
<1> QED BY <1>2, <1>3 DEF ProxyInv, CaptureInv

LEMMA CaptureReadInv ==
  ASSUME ProxyInv, CaptureRead
  PROVE  ProxyInv'
<1> USE DEF ProxyInv
<1> DEFINE x == pipe[cap + 1]
           size == frames[x].size
<1>1. /\ cap < Len(pipe) /\ cap' = cap + 1 /\ ~draining
      /\ draining' = (size = "short")
      /\ IF size = "big" THEN CountedMalformed("capture") ELSE UNCHANGED tally
      /\ caplog' = IF size = "ok" THEN Append(caplog, x) ELSE caplog
      /\ UNCHANGED <<opt, frames, bus, pipe, delayq, held, wleft, lost>>
  BY DEF CaptureRead, CaptureOne, net, sent, out, worker
<1>2. /\ cap + 1 \in 1 .. Len(pipe) /\ x \in 1 .. n /\ x \notin Logged /\ \A m \in 1 .. cap : pipe[m] # x
  BY <1>1, NextUnlogged
<1>3. /\ n' = n /\ n \in Nat /\ cap \in Nat /\ Len(pipe) \in Nat /\ Holding' = Holding /\ Unparsed' = Unparsed
      /\ x \in Nat
  BY <1>1, <1>2 DEF n, Holding, Unparsed, rule, ProxyTypes
<1> HIDE DEF x, size
<1>4. /\ caplog' \in Seq(Nat)
      /\ Logged' = IF size = "ok" THEN Logged \cup {x} ELSE Logged
  <2>1. CASE size = "ok"
    <3>1. /\ caplog' \in Seq(Nat) /\ Len(caplog) \in Nat /\ Len(caplog') = Len(caplog) + 1
          /\ \A i \in 1 .. Len(caplog) : caplog'[i] = caplog[i]
          /\ caplog'[Len(caplog) + 1] = x
          /\ \A i \in 1 .. Len(caplog') : i \in 1 .. Len(caplog) \/ i = Len(caplog) + 1
      BY <1>1, <1>3, <2>1, AppendIs DEF ProxyTypes
    <3>2. \A i \in 1 .. Len(caplog) : i \in 1 .. Len(caplog')
      BY <3>1
    <3>3. Len(caplog) + 1 \in 1 .. Len(caplog')
      BY <3>1
    <3>4. Logged' = Logged \cup {x}
      BY <3>1, <3>2, <3>3 DEF Logged
    <3> QED BY <2>1, <3>1, <3>4
  <2>2. CASE size # "ok"
    BY <1>1, <2>2 DEF Logged, ProxyTypes
  <2> QED BY <2>1, <2>2
<1>5. size = "big" => Unparsed
  <2>1. PICK j \in 1 .. Len(bus) : x = bus[j]
    BY <1>2 DEF Piped, x
  <2> QED BY <2>1 DEF BigPasses, size
<1>6. /\ stats' \in Stats /\ counters' \subseteq {"main", "capture"}
      /\ stats'.drops = stats.drops /\ stats'.delay = stats.delay /\ stats'.hdx = stats.hdx
      /\ ("main" \in counters' <=> "main" \in counters)
      /\ "capture" \in counters' => "capture" \in counters \/ Unparsed
      /\ counters' = {} => stats'.malformed = 0
      /\ Rejected' = Rejected
  <2>1. CASE size = "big"
    <3>1. stats' = [stats EXCEPT !["malformed"] = @ + 1] /\ counters' = counters \cup {"capture"}
      BY <1>1, <2>1 DEF CountedMalformed, Counted
    <3>2. stats' \in Stats /\ stats'.drops = stats.drops /\ stats'.delay = stats.delay /\ stats'.hdx = stats.hdx
      BY <3>1 DEF ProxyTypes, Stats
    <3>3. "main" \notin counters
      BY <1>5, <2>1 DEF BigPasses
    <3>4. counters = {} \/ "capture" \in counters
      BY <3>3 DEF ProxyTypes
    <3>5. Rejected = 0 /\ Rejected' = 0
      BY <3>1, <3>4 DEF Rejected, BigPasses
    <3> QED BY <1>5, <2>1, <3>1, <3>2, <3>5 DEF ProxyTypes
  <2>2. CASE size # "big"
    BY <1>1, <2>2 DEF tally, ProxyTypes, BigPasses, Rejected
  <2> QED BY <2>1, <2>2
<1>7. ProxyTypes'
  <2>1. cap' \in 0 .. Len(pipe')
    BY <1>1, <1>2, <1>3
  <2> QED BY <1>1, <1>4, <1>6, <2>1 DEF ProxyTypes
<1>8. Distinct' /\ WorkerRange' /\ Piped'
  BY <1>1, <1>3 DEF Distinct, WorkerRange, Piped
<1>9. BigPasses'
  BY <1>1, <1>3, <1>6 DEF BigPasses
<1>10. Balance'
  BY <1>1, <1>3, <1>6 DEF Balance, Sum, Dropped, Waiting, Held
<1>11. CaptureInv'
  <2>1. \A y \in Logged' : \E i \in 1 .. cap' : pipe'[i] = y
    <3> SUFFICES ASSUME NEW y \in Logged' PROVE \E i \in 1 .. cap' : pipe'[i] = y
      OBVIOUS
    <3>1. CASE y \in Logged
      <4>1. PICK i \in 1 .. cap : pipe[i] = y
        BY <3>1 DEF CaptureInv
      <4>2. i \in 1 .. cap'
        BY <1>1, <1>3
      <4> QED BY <1>1, <4>1, <4>2
    <3>2. CASE y = x
      <4>1. cap + 1 \in 1 .. cap'
        BY <1>1, <1>3
      <4> QED BY <1>1, <3>2, <4>1 DEF x
    <3> QED BY <1>4, <3>1, <3>2
  <2>2. draining' => cap' # 0 /\ frames'[pipe'[cap']].size = "short"
    <3>1. cap' # 0 /\ frames'[pipe'[cap']] = frames[x]
      BY <1>1, <1>3 DEF x
    <3>2. draining' => size = "short"
      BY <1>1
    <3> QED BY <3>1, <3>2 DEF size
  <2>3. ASSUME NEW i \in 1 .. cap', frames'[pipe'[i]].size = "ok", pipe'[i] \notin Logged'
        PROVE  i > 1 /\ frames'[pipe'[i - 1]].size = "short"
    <3>1. CASE i = cap + 1
      BY <1>1, <1>4, <2>3, <3>1 DEF x, size
    <3>2. CASE i # cap + 1
      <4>1. i \in 1 .. cap
        BY <1>1, <1>3, <3>2
      <4>2. pipe[i] \notin Logged /\ frames[pipe[i]].size = "ok"
        BY <1>1, <1>4, <2>3
      <4> QED BY <1>1, <4>1, <4>2 DEF CaptureInv
    <3> QED BY <3>1, <3>2
  <2> QED BY <2>1, <2>2, <2>3 DEF CaptureInv
<1> QED BY <1>7, <1>8, <1>9, <1>10, <1>11

LEMMA CaptureDrainInv ==
  ASSUME ProxyInv, CaptureDrain
  PROVE  ProxyInv'
<1> USE DEF ProxyInv
<1>1. /\ draining /\ draining' = FALSE
      /\ UNCHANGED <<opt, frames, bus, pipe, delayq, held, wleft, lost, stats, counters, caplog>>
      /\ cap' = cap \/ (cap < Len(pipe) /\ cap' = cap + 1)
  BY DEF CaptureDrain, net, sent, out, worker, tally
<1>2. /\ n' = n /\ n \in Nat /\ cap \in Nat /\ Len(pipe) \in Nat /\ Holding' = Holding /\ Unparsed' = Unparsed
      /\ Logged' = Logged
  BY <1>1 DEF n, Holding, Unparsed, rule, ProxyTypes, Logged
<1>3. ProxyTypes'
  <2>1. cap' \in 0 .. Len(pipe')
    BY <1>1, <1>2 DEF ProxyTypes
  <2> QED BY <1>1, <2>1 DEF ProxyTypes
<1>4. Distinct' /\ WorkerRange' /\ BigPasses' /\ Balance' /\ Piped'
  BY <1>1, <1>2 DEF Distinct, WorkerRange, BigPasses, Balance, Sum, Dropped, Rejected, Waiting, Held, Piped
<1>5. CaptureInv'
  <2>1. \A i \in 1 .. cap : i \in 1 .. cap'
    BY <1>1, <1>2
  <2>2. \A y \in Logged' : \E i \in 1 .. cap' : pipe'[i] = y
    BY <1>1, <1>2, <2>1 DEF CaptureInv
  <2>3. ASSUME NEW i \in 1 .. cap', frames'[pipe'[i]].size = "ok", pipe'[i] \notin Logged'
        PROVE  i > 1 /\ frames'[pipe'[i - 1]].size = "short"
    <3>1. CASE i \in 1 .. cap
      BY <1>1, <1>2, <2>3, <3>1 DEF CaptureInv
    <3>2. CASE i \notin 1 .. cap
      <4>1. i = cap + 1 /\ i - 1 = cap
        BY <1>1, <1>2, <3>2
      <4>2. cap # 0 /\ frames[pipe[cap]].size = "short"
        BY <1>1 DEF CaptureInv
      <4> QED BY <1>1, <1>2, <4>1, <4>2
    <3> QED BY <3>1, <3>2
  <2> QED BY <1>1, <2>2, <2>3 DEF CaptureInv
<1> QED BY <1>3, <1>4, <1>5

LEMMA NextProxy == ProxyInv /\ [LNext]_lvars => ProxyInv'
<1> SUFFICES ASSUME ProxyInv, [LNext]_lvars PROVE ProxyInv'
  OBVIOUS
<1>1. CASE UNCHANGED lvars
  BY <1>1, QuietProxy DEF lvars, books, net, sent, out, worker, tally, capture
<1>2. CASE Loop
  BY <1>2, Quiet, ReceiveInv DEF Loop
<1>3. CASE Outside
  BY <1>3, Quiet DEF Outside
<1> QED BY <1>1, <1>2, <1>3, Quiet, WorkerInv, CaptureReadInv, CaptureDrainInv DEF LNext, Capture

LEMMA ProxyInvariance == LSpec => []ProxyInv
BY InitProxy, NextProxy, PTL DEF LSpec

\* The two threads never both count in the unlocked g_malformed_frames.
THEOREM OneThreadCounts == LSpec => []OneMalformedCounter
<1>1. ProxyInv => OneMalformedCounter
  <2> SUFFICES ASSUME ProxyInv PROVE Cardinality(counters) <= 1
    BY DEF OneMalformedCounter
  <2>1. counters = {} \/ counters = {"main"} \/ counters = {"capture"}
    BY DEF ProxyInv, ProxyTypes, BigPasses
  <2>2. Cardinality({}) = 0 /\ Cardinality({"main"}) = 1 /\ Cardinality({"capture"}) = 1
    BY FS_EmptySet, FS_Singleton
  <2> QED BY <2>1, <2>2
<1> QED BY <1>1, ProxyInvariance, PTL

\* Every frame received is sent once, dropped and reported, or waits.
THEOREM EveryFrameAccounted == LSpec => []AllAccounted
<1>1. ProxyInv => AllAccounted
  <2> SUFFICES ASSUME ProxyInv PROVE AllAccounted
    OBVIOUS
  <2>1. Cardinality(Sent) = Len(bus)
    <3>0. bus \in Seq(Nat) /\ Len(bus) \in Nat /\ DOMAIN bus = 1 .. Len(bus)
      BY DEF ProxyInv, ProxyTypes
    <3>1. bus \in [1 .. Len(bus) -> Sent] /\ \A y \in Sent : \E i \in 1 .. Len(bus) : bus[i] = y
      BY <3>0 DEF Sent
    <3>2. bus \in Surjection(1 .. Len(bus), Sent)
      BY <3>1 DEF Surjection
    <3>3. bus \in Injection(1 .. Len(bus), Sent)
      BY <3>1 DEF Injection, IsInjective, ProxyInv, Distinct
    <3>4. IsFiniteSet(1 .. Len(bus)) /\ Cardinality(1 .. Len(bus)) = Len(bus)
      <4> DEFINE k == Len(bus)
      <4>1. 1 \in Int /\ k \in Int /\ k \in Nat
        BY <3>0
      <4> HIDE DEF k
      <4>2. IsFiniteSet(1 .. k) /\ Cardinality(1 .. k) = IF 1 > k THEN 0 ELSE k - 1 + 1
        BY <4>1, FS_Interval, Zenon
      <4>3. IsFiniteSet(1 .. k) /\ Cardinality(1 .. k) = k
        BY <4>1, <4>2
      <4> QED BY <4>3 DEF k
    <3> QED BY <3>2, <3>3, <3>4, FS_Surjection
  <2>2. ASSUME ~lost
        PROVE  n = Len(bus) + stats.drops + stats.delay + stats.hdx
                     + (IF "capture" \in counters THEN 0 ELSE stats.malformed)
                     + Len(delayq) + (IF held = Nobody THEN 0 ELSE 1)
    <3> DEFINE a == Len(bus)
               b == stats.drops
               c == stats.delay
               d == stats.hdx
               e == Rejected
               f == Len(delayq)
               g == Held
    <3>1. n = a + ((b + c) + (d + e)) + (f + g)
      BY <2>2 DEF ProxyInv, Balance, Sum, Dropped, Waiting
    <3>2. a \in Nat /\ b \in Nat /\ c \in Nat /\ d \in Nat /\ e \in Nat /\ f \in Nat /\ g \in Nat
      BY SumTypes
    <3> HIDE DEF a, b, c, d, e, f, g
    <3>3. n = a + b + c + d + e + f + g
      BY ONLY <3>1, <3>2
    <3> QED BY <3>3 DEF a, b, c, d, e, f, g, Rejected, Held, Holding
  <2> QED BY <2>1, <2>2 DEF AllAccounted
<1> QED BY <1>1, ProxyInvariance, PTL

\* Of what reached the capture thread the log misses a frame only right behind a
\* short one.
THEOREM CaptureGaps == LSpec => []CaptureGapsFollowShort
<1>1. ProxyInv => CaptureGapsFollowShort
  <2> SUFFICES ASSUME ProxyInv PROVE CaptureGapsFollowShort
    OBVIOUS
  <2>1. DOMAIN caplog = 1 .. Len(caplog)
    BY DEF ProxyInv, ProxyTypes
  <2>2. {caplog[q] : q \in DOMAIN caplog} = Logged
    BY <2>1 DEF Logged
  <2> QED BY <2>2 DEF ProxyInv, CaptureInv, CaptureGapsFollowShort
<1> QED BY <1>1, ProxyInvariance, PTL

-----------------------------------------------------------------------------
(* The drop log against the bus, with loss alone.                          *)

\* Nothing waits, and what the log says of a frame is where the frame is.
XorInv ==
  LossOnly =>
    /\ delayq = <<>> /\ held = Nobody
    /\ \E S : log \in Seq(S)
    /\ \A i \in 1 .. Len(log) : log[i].id \in 1 .. n /\ (log[i].dropped <=> log[i].id \notin Sent)

LEMMA InitXor == LInit => XorInv
<1> SUFFICES ASSUME LInit PROVE XorInv
  OBVIOUS
<1>1. delayq = <<>> /\ held = Nobody /\ log = <<>> /\ Len(log) = 0
  BY DEF LInit
<1>2. log \in Seq({})
  BY <1>1, EmptySeq
<1> QED BY <1>1, <1>2 DEF XorInv

\* What is on the bus was received.
LEMMA SentReceived == ProxyInv => n \in Nat /\ bus \in Seq(Nat) /\ Sent \subseteq 1 .. n
<1> SUFFICES ASSUME ProxyInv PROVE n \in Nat /\ bus \in Seq(Nat) /\ Sent \subseteq 1 .. n
  OBVIOUS
<1>1. n \in Nat /\ bus \in Seq(Nat) /\ DOMAIN bus = 1 .. Len(bus)
  BY DEF ProxyInv, ProxyTypes, n
<1> QED BY <1>1 DEF Sent, ProxyInv, Distinct

\* A frame the main loop sends is new to the bus.
LEMMA SentGrows ==
  ASSUME ProxyInv, bus' = Append(bus, n + 1)
  PROVE  Sent' = Sent \cup {n + 1}
<1>1. n \in Nat /\ bus \in Seq(Nat) /\ n + 1 \in Nat
  BY SentReceived
<1>2. /\ Len(bus) \in Nat /\ DOMAIN bus = 1 .. Len(bus) /\ DOMAIN bus' = 1 .. (Len(bus) + 1)
      /\ \A i \in 1 .. Len(bus) : bus'[i] = bus[i]
      /\ bus'[Len(bus) + 1] = n + 1
  BY <1>1
<1>3. \A i \in DOMAIN bus' : i \in DOMAIN bus \/ i = Len(bus) + 1
  BY <1>2
<1>4. \A i \in DOMAIN bus : i \in DOMAIN bus'
  BY <1>2
<1>5. Len(bus) + 1 \in DOMAIN bus'
  BY <1>2
<1>6. Sent' \subseteq Sent \cup {n + 1}
  BY <1>2, <1>3 DEF Sent
<1>7. Sent \cup {n + 1} \subseteq Sent'
  BY <1>2, <1>4, <1>5 DEF Sent
<1> QED BY <1>6, <1>7

\* A step that leaves log, bus and queues alone; frames may have come in.
LEMMA XorStable ==
  ASSUME ProxyInv, XorInv, UNCHANGED <<opt, log, bus, delayq, held>>,
         n' = n \/ n' = n + 1
  PROVE  XorInv'
<1> SUFFICES ASSUME LossOnly' PROVE XorInv' /\ LossOnly
  BY DEF LossOnly, rule, XorInv
<1>1. LossOnly /\ Sent' = Sent /\ n \in Nat
  BY SentReceived DEF LossOnly, rule, Sent
<1>2. \A i \in 1 .. n : i \in 1 .. n'
  BY <1>1
<1> QED BY <1>1, <1>2 DEF XorInv

\* The decision of a frame and its fate are one step.
LEMMA HandleXor ==
  ASSUME ProxyInv, XorInv, LossOnly, NEW k \in AllFrames, NEW drop \in BOOLEAN, NEW later \in BOOLEAN,
         Handle(k, drop, later)
  PROVE  XorInv'
<1>0. k \in FrameType /\ Take(k)
  BY FramesAre DEF Handle
<1>1. Received(k)
  BY <1>0 DEF Take, Received, worker, capture
<1>2. n \in Nat /\ n' = n + 1 /\ Sent \subseteq 1 .. n
  BY <1>0, <1>1, ReceivedFacts, SentReceived
<1>3. ~later /\ ~(rule.match_dport < 0)
  BY PortIs DEF Handle, LossOnly
<1>4. UNCHANGED <<delayq, held>> /\ (IF drop THEN bus' = bus ELSE bus' = Append(bus, n + 1))
  BY <1>1, <1>3 DEF Handle, Drop, Forward, Send, Received, sent, out
<1>5. Sent' = IF drop THEN Sent ELSE Sent \cup {n + 1}
  BY <1>4, SentGrows DEF Sent
<1>6. \A x \in 1 .. n : x \in 1 .. n' /\ (x \in Sent' <=> x \in Sent)
  BY <1>2, <1>5
<1>7. n + 1 \in 1 .. n' /\ (drop <=> n + 1 \notin Sent')
  BY <1>2, <1>5
<1>8. PICK S : log \in Seq(S)
  BY DEF XorInv
<1>9. CASE RuleMatch(rule, FrameFromFields(packet'.pkt))
  <2> DEFINE e == [id |-> n + 1, index |-> ProxyFlowIndex(packet'.pkt).index, dropped |-> drop]
             T == S \cup {e}
  <2>1. log' = Append(log, e)
    BY <1>3, <1>9 DEF Handle, Decide, DecideAs
  <2>2. e.id = n + 1 /\ e.dropped = drop
    OBVIOUS
  <2>3. e \in T
    OBVIOUS
  <2> HIDE DEF e
  <2>4. log \in Seq(T)
    BY <1>8, SeqMonotonic
  <2> HIDE DEF T
  <2>5. /\ log' \in Seq(T) /\ Len(log) \in Nat
        /\ \A i \in 1 .. Len(log) : log'[i] = log[i]
        /\ log'[Len(log) + 1] = e
        /\ \A i \in 1 .. Len(log') : i \in 1 .. Len(log) \/ i = Len(log) + 1
    BY <2>1, <2>3, <2>4, AppendIs
  <2>6. \A i \in 1 .. Len(log') : log'[i].id \in 1 .. n' /\ (log'[i].dropped <=> log'[i].id \notin Sent')
    BY <1>6, <1>7, <2>2, <2>5 DEF XorInv
  <2> QED BY <1>4, <2>5, <2>6 DEF XorInv
<1>10. CASE ~RuleMatch(rule, FrameFromFields(packet'.pkt))
  <2>1. log' = log
    BY <1>3, <1>10 DEF Handle, Decide, DecideAs
  <2> QED BY <1>4, <1>6, <2>1 DEF XorInv
<1> QED BY <1>9, <1>10

LEMMA NextXor == ProxyInv /\ XorInv /\ [LNext]_lvars => XorInv'
<1> SUFFICES ASSUME ProxyInv, XorInv, [LNext]_lvars PROVE XorInv'
  OBVIOUS
<1>0. opt' = opt /\ LossOnly' = LossOnly
  <2>1. opt' = opt
    BY DEF LNext, lvars, Loop, Worker, Capture, Outside, Check, Shutdown, EnterPoll, PollReturns, BackEnd,
           Goto, Malformed, Reject, HdxDelay, HdxDrop, Handle, Take, WorkerSize, WorkerDequeue, WorkerSend,
           WorkerRequeue, CaptureJoin, CaptureRead, CaptureOne, CaptureDrain, Publish, Subscribe, PowerDown, Sigint,
           Interrupt, PollFails
  <2> QED BY <2>1 DEF LossOnly, rule
<1>1. CASE ~LossOnly
  BY <1>0, <1>1 DEF XorInv
<1>2. CASE LossOnly
  <2>1. CASE UNCHANGED <<opt, log, bus, delayq, held, frames>>
    BY <2>1, XorStable DEF n
  <2>2. ASSUME NEW k \in AllFrames, Malformed(k)
        PROVE  XorInv'
    <3>1. Received(k) /\ k \in FrameType /\ UNCHANGED <<log, bus, delayq>>
      BY <2>2, FramesAre DEF Malformed, Reject, Take, Received, worker, capture, parse, sent
    <3>2. n' = n + 1 /\ UNCHANGED <<opt, held>>
      BY <3>1, ReceivedFacts DEF Received
    <3> QED BY <3>1, <3>2, XorStable
  <2>3. ASSUME NEW k \in AllFrames PROVE ~HdxDelay(k) /\ ~HdxDrop(k)
    BY <1>2 DEF HdxDelay, HdxDrop, LossOnly
  <2>4. ~Worker
    BY <1>2 DEF Worker, WorkerOn, WorkerSize, WorkerDequeue, WorkerSend, WorkerRequeue, LossOnly
  <2>5. CASE \/ Check \/ Shutdown \/ EnterPoll \/ PollReturns \/ BackEnd \/ UNCHANGED lvars \/ Capture \/ Outside
    <3>1. UNCHANGED <<opt, log, bus, delayq, held, frames>>
      BY <2>5 DEF lvars, Capture, Outside, Check, Shutdown, EnterPoll, PollReturns, BackEnd, Goto, CaptureJoin,
           CaptureRead, CaptureOne, CaptureDrain, Publish, Subscribe, PowerDown, Sigint, Interrupt, PollFails, net, sent,
           out, worker, parse
    <3> QED BY <2>1, <3>1
  <2> QED BY <1>2, <2>2, <2>3, <2>4, <2>5, HandleXor DEF LNext, Loop
<1> QED BY <1>1, <1>2

LEMMA XorInvariance == LSpec => []XorInv
BY InitXor, NextXor, ProxyInvariance, PTL DEF LSpec

\* With loss alone a logged frame is on the bus exactly when the log says it was
\* kept: "either dropped or observed, never both".
THEOREM LogMatchesBus == LSpec => []DroppedXorObserved
<1>1. XorInv => DroppedXorObserved
  <2> SUFFICES ASSUME XorInv, LossOnly
               PROVE  \A i \in DOMAIN log : log[i].dropped <=> log[i].id \notin Sent
    BY DEF DroppedXorObserved
  <2>1. PICK S : log \in Seq(S)
    BY DEF XorInv
  <2>2. DOMAIN log = 1 .. Len(log)
    BY <2>1
  <2> QED BY <2>2 DEF XorInv
<1> QED BY <1>1, XorInvariance, PTL

-----------------------------------------------------------------------------
(* The decision of a frame, with loss alone.                               *)

\* The frame whose bytes the packet buffer holds after the first id of fs.
OkUpTo(fs, id) == {j \in 1 .. id : fs[j].size = "ok"} \cup {0}
Own(fs, id) == Max(OkUpTo(fs, id))

PosOf(fs, id) == fs[Own(fs, id)].pos

\* The first logged frame has bytes of its own, not what malloc returned.
Owned == Len(log) # 0 /\ Own(frames, log[1].id) # 0

Turn == PosOf(frames, log[1].id) \div SeqSpace

\* A step of the flow that ci_rdp_seq_is_wrap gets right.
StepsTo(p, q) ==
  /\ q - p \in (1 - SeqHalf) .. (SeqHalf - 1)
  /\ p \div SeqSpace <= q \div SeqSpace

Stepping ==
  \A i \in 2 .. Len(log) : StepsTo(PosOf(frames, log[i - 1].id), PosOf(frames, log[i].id))

FlowFields == {"last_seq", "have_last_seq", "epoch", "dtp_mtu", "dtp_overhead"}
FlowShape(fl) == fl = [f \in FlowFields |-> fl[f]] /\ fl.have_last_seq \in BOOLEAN

\* The buffer holds the last frame with a header of its own.
Buffered ==
  /\ Own(frames, n) \in 0 .. n
  /\ Own(frames, n) # 0 =>
       /\ packet.pkt.frdp = TRUE /\ packet.pkt.len = TrailerLen + 1
       /\ packet.pkt.seq = PosOf(frames, n) % SeqSpace

\* The tracker's epoch counts the turns since the first logged frame.
Tracked ==
  /\ FlowShape(flow)
  /\ Len(log) = 0 => ~flow.have_last_seq /\ flow.epoch = 0
  /\ Owned =>
       /\ \A i \in 1 .. Len(log) : Own(frames, log[i].id) \in 1 .. Own(frames, n)
       /\ flow.have_last_seq
       /\ Stepping =>
            NumberAt(SeqSpace, Turn, flow.epoch, flow.last_seq, PosOf(frames, log[Len(log)].id))

\* The decision for the line is that of the position, counted from the turn.
DecidesAt(line, p, turn) == line.dropped = RuleDecide(rule, p - turn * SeqSpace)

Decided ==
  Owned /\ Stepping =>
    \A i \in 1 .. Len(log) : DecidesAt(log[i], PosOf(frames, log[i].id), Turn)

DecInv == LossOnly => Buffered /\ Tracked /\ Decided

LEMMA OwnSame ==
  ASSUME NEW fs, NEW gs, NEW id, \A j \in 1 .. id : gs[j] = fs[j]
  PROVE  Own(gs, id) = Own(fs, id)
<1>1. OkUpTo(gs, id) = OkUpTo(fs, id)
  BY DEF OkUpTo
<1> QED BY <1>1 DEF Own

LEMMA OwnNext ==
  ASSUME NEW fs, NEW m \in Nat
  PROVE  Own(fs, m + 1) = IF fs[m + 1].size = "ok" THEN m + 1 ELSE Own(fs, m)
<1>1. CASE fs[m + 1].size = "ok"
  <2>1. m + 1 \in OkUpTo(fs, m + 1) /\ \A y \in OkUpTo(fs, m + 1) : y \in Int /\ m + 1 >= y
    BY <1>1 DEF OkUpTo
  <2> DEFINE x == Max(OkUpTo(fs, m + 1))
  <2>2. x \in OkUpTo(fs, m + 1) /\ \A y \in OkUpTo(fs, m + 1) : x >= y
    BY <2>1 DEF Max
  <2>3. x >= m + 1 /\ m + 1 >= x /\ x \in Int
    BY <2>1, <2>2
  <2> HIDE DEF x
  <2>4. x = m + 1
    BY <2>3
  <2> QED BY <1>1, <2>4 DEF x, Own
<1>2. CASE fs[m + 1].size # "ok"
  <2>1. \A j \in 1 .. (m + 1) : j \in 1 .. m \/ j = m + 1
    OBVIOUS
  <2>2. \A j \in 1 .. m : j \in 1 .. (m + 1)
    OBVIOUS
  <2>3. OkUpTo(fs, m + 1) = OkUpTo(fs, m)
    BY <1>2, <2>1, <2>2 DEF OkUpTo
  <2> QED BY <1>2, <2>3 DEF Own
<1> QED BY <1>1, <1>2

LEMMA OwnZero == ASSUME NEW fs PROVE Own(fs, 0) = 0
<1>1. OkUpTo(fs, 0) = {0}
  BY DEF OkUpTo
<1>2. \A y \in {0} : 0 >= y
  OBVIOUS
<1>3. Max({0}) = 0
  BY <1>2 DEF Max
<1> QED BY <1>1, <1>3 DEF Own

\* What ci_flow_index makes of an RDP frame.
Advances(fl, pk, r) ==
  /\ r.index = r.flow.epoch * SeqSpace + pk.seq
  /\ r.flow.last_seq = pk.seq /\ r.flow.have_last_seq
  /\ r.flow.epoch = IF fl.have_last_seq /\ SeqIsWrap(fl.last_seq, pk.seq) THEN fl.epoch + 1 ELSE fl.epoch

LEMMA FlowIndexIs ==
  ASSUME NEW fl, FlowShape(fl), NEW pk, pk.frdp = TRUE, pk.len = TrailerLen + 1,
         NEW r, r = FlowIndex(fl, FrameFromFields(pk), pk)
  PROVE  Advances(fl, pk, r)
<1>1. TrailerParses(pk) /\ FrameFromFields(pk).is_rdp = TRUE
  BY RuleAssumption DEF TrailerParses, FrameFromFields
<1> DEFINE e == IF fl.have_last_seq /\ SeqIsWrap(fl.last_seq, pk.seq) THEN fl.epoch + 1 ELSE fl.epoch
           g == [fl EXCEPT !.last_seq = pk.seq, !.have_last_seq = TRUE, !.epoch = e]
<1>2. r = [flow |-> g, index |-> FlowIndexRdp(e, pk.seq)]
  BY <1>1 DEF FlowIndex
<1>3. g.last_seq = pk.seq /\ g.have_last_seq /\ g.epoch = e
  BY DEF FlowShape, FlowFields
<1> HIDE DEF g
<1>4. r.flow = g /\ r.index = e * SeqSpace + pk.seq
  BY <1>2 DEF FlowIndexRdp
<1> QED BY <1>3, <1>4 DEF Advances

LEMMA FlowShapeKept ==
  ASSUME NEW fl, FlowShape(fl), NEW pk, NEW f
  PROVE  FlowShape(FlowIndex(fl, f, pk).flow)
<1>2. ASSUME NEW e
      PROVE  FlowShape([fl EXCEPT !.last_seq = pk.seq, !.have_last_seq = TRUE, !.epoch = e])
  <2> DEFINE g == [fl EXCEPT !.last_seq = pk.seq, !.have_last_seq = TRUE, !.epoch = e]
  <2>1. g = [x \in FlowFields |-> g[x]] /\ g.have_last_seq = TRUE
    BY DEF FlowShape, FlowFields
  <2> HIDE DEF g
  <2>2. FlowShape(g)
    BY <2>1 DEF FlowShape
  <2> QED BY <2>2 DEF g
<1>3. CASE f.is_rdp /\ TrailerParses(pk)
  BY <1>2, <1>3 DEF FlowIndex
<1>4. CASE ~(f.is_rdp /\ TrailerParses(pk))
  BY <1>4 DEF FlowIndex
<1> QED BY <1>3, <1>4

LEMMA InitDec == LInit => DecInv
<1> SUFFICES ASSUME LInit PROVE Buffered /\ Tracked /\ Decided
  BY DEF DecInv
<1>1. frames = <<>> /\ log = <<>> /\ n = 0 /\ Len(log) = 0
  BY DEF LInit, n
<1>2. Own(frames, n) = 0
  BY <1>1, OwnZero
<1>3. flow = [last_seq |-> 0, have_last_seq |-> FALSE, epoch |-> 0, dtp_mtu |-> DtpMtu, dtp_overhead |-> DtpOverhead]
  BY DEF LInit, NewFlow
<1>4. FlowShape(flow) /\ ~flow.have_last_seq /\ flow.epoch = 0
  BY <1>3 DEF FlowShape, FlowFields
<1>5. ~Owned
  BY <1>1 DEF Owned
<1>6. Buffered
  BY <1>1, <1>2 DEF Buffered
<1>7. Tracked /\ Decided
  BY <1>4, <1>5 DEF Tracked, Decided
<1> QED BY <1>6, <1>7

\* The buffer's owner, when a frame is received.
LEMMA OwnGrows ==
  ASSUME ProxyInv, Buffered, NEW k \in FrameType, Received(k)
  PROVE  /\ n \in Nat /\ n' = n + 1
         /\ \A id \in 1 .. n : Own(frames', id) = Own(frames, id)
         /\ Own(frames', n') = IF k.size = "ok" THEN n + 1 ELSE Own(frames, n)
         /\ Own(frames, n) \in Nat /\ Own(frames', n') \in 0 .. n' /\ Own(frames, n) <= Own(frames', n')
<1>1. n \in Nat /\ n' = n + 1 /\ (\A i \in 1 .. n : frames'[i] = frames[i]) /\ frames'[n + 1] = k
  BY ReceivedFacts
<1>2. ASSUME NEW id \in 1 .. n PROVE Own(frames', id) = Own(frames, id)
  <2>1. \A j \in 1 .. id : frames'[j] = frames[j]
    BY <1>1
  <2> QED BY <2>1, OwnSame
<1>3. Own(frames', n) = Own(frames, n)
  BY <1>1, OwnSame
<1>4. Own(frames', n + 1) = IF k.size = "ok" THEN n + 1 ELSE Own(frames, n)
  BY <1>1, <1>3, OwnNext
<1>5. Own(frames, n) \in 0 .. n
  BY DEF Buffered
<1> QED BY <1>1, <1>2, <1>4, <1>5

\* The log's frames are received ones.
LEMMA LogIds ==
  ASSUME XorInv, LossOnly
  PROVE  Len(log) \in Nat /\ \A i \in 1 .. Len(log) : log[i].id \in 1 .. n
<1>1. PICK S : log \in Seq(S)
  BY DEF XorInv
<1> QED BY <1>1 DEF XorInv

\* Frames may have come in; those before keep their owners and positions.
Grown ==
  /\ n \in Nat
  /\ \A id \in 1 .. n : Own(frames', id) = Own(frames, id)
  /\ \A x \in 1 .. n : frames'[x] = frames[x] /\ frames[x].pos \in Nat
  /\ Own(frames, n) \in 0 .. n /\ Own(frames', n') \in Nat /\ Own(frames, n) <= Own(frames', n')

LEMMA OwnersKept ==
  ASSUME XorInv, LossOnly, Tracked, Grown
  PROVE  /\ Len(log) \in Nat
         /\ \A i \in 1 .. Len(log) : Own(frames', log[i].id) = Own(frames, log[i].id)
         /\ Owned => \A i \in 1 .. Len(log) :
                       /\ Own(frames', log[i].id) \in 1 .. Own(frames', n')
                       /\ PosOf(frames', log[i].id) = PosOf(frames, log[i].id)
                       /\ PosOf(frames, log[i].id) \in Nat
<1>1. Len(log) \in Nat /\ \A i \in 1 .. Len(log) : log[i].id \in 1 .. n
  BY LogIds
<1>2. \A i \in 1 .. Len(log) : Own(frames', log[i].id) = Own(frames, log[i].id)
  BY <1>1 DEF Grown
<1>3. ASSUME Owned, NEW i \in 1 .. Len(log)
      PROVE  /\ Own(frames', log[i].id) \in 1 .. Own(frames', n')
             /\ PosOf(frames', log[i].id) = PosOf(frames, log[i].id)
             /\ PosOf(frames, log[i].id) \in Nat
  <2> DEFINE o == Own(frames, log[i].id)
  <2>1. o \in 1 .. Own(frames, n) /\ Own(frames', log[i].id) = o
    BY <1>2, <1>3 DEF Tracked
  <2>2. o \in 1 .. n /\ o \in 1 .. Own(frames', n')
    BY <2>1 DEF Grown
  <2> QED BY <2>1, <2>2 DEF Grown, PosOf
<1> QED BY <1>1, <1>2, <1>3

\* A step that logs nothing.
LEMMA DecStable ==
  ASSUME XorInv, LossOnly, Tracked, Decided, UNCHANGED <<opt, log, flow>>, Grown
  PROVE  Tracked' /\ Decided'
<1>1. /\ Len(log) \in Nat
      /\ \A i \in 1 .. Len(log) : Own(frames', log[i].id) = Own(frames, log[i].id)
      /\ Owned => \A i \in 1 .. Len(log) :
                    /\ Own(frames', log[i].id) \in 1 .. Own(frames', n')
                    /\ PosOf(frames', log[i].id) = PosOf(frames, log[i].id)
  BY OwnersKept
<1>2. Len(log) # 0 => 1 \in 1 .. Len(log) /\ Len(log) \in 1 .. Len(log)
  BY <1>1
<1>3. Owned' = Owned
  BY <1>1, <1>2 DEF Owned
<1>4. CASE ~Owned
  BY <1>3, <1>4 DEF Tracked, Decided
<1>5. CASE Owned
  <2>1. Len(log) # 0
    BY <1>5 DEF Owned
  <2>2. Turn' = Turn /\ PosOf(frames', log'[Len(log')].id) = PosOf(frames, log[Len(log)].id)
    BY <1>1, <1>2, <1>5, <2>1 DEF Turn
  <2>3. Stepping' = Stepping
    <3>1. \A i \in 2 .. Len(log) : i \in 1 .. Len(log) /\ i - 1 \in 1 .. Len(log)
      BY <1>1
    <3>2. \A i \in 2 .. Len(log) : /\ PosOf(frames', log'[i].id) = PosOf(frames, log[i].id)
                                  /\ PosOf(frames', log'[i - 1].id) = PosOf(frames, log[i - 1].id)
      BY <1>1, <1>5, <3>1
    <3> QED BY <3>2 DEF Stepping
  <2>4. Tracked'
    BY <1>1, <1>3, <1>5, <2>1, <2>2, <2>3 DEF Tracked
  <2>5. Decided'
    BY <1>1, <1>3, <1>5, <2>2, <2>3 DEF Decided, DecidesAt, rule
  <2> QED BY <2>4, <2>5
<1> QED BY <1>4, <1>5

\* A frame in scope: its line is added to the log.
LEMMA DecLogged ==
  ASSUME XorInv, LossOnly, Tracked, Decided, opt' = opt, Grown, n' = n + 1,
         NEW pk, NEW drop, NEW fi, fi = FlowIndex(flow, FrameFromFields(pk), pk),
         Own(frames', n') # 0 =>
           /\ pk.frdp = TRUE /\ pk.len = TrailerLen + 1
           /\ PosOf(frames', n') \in Nat /\ pk.seq = PosOf(frames', n') % SeqSpace,
         flow' = fi.flow, drop = RuleDecide(rule, fi.index),
         log' = Append(log, [id |-> n + 1, index |-> fi.index, dropped |-> drop])
  PROVE  Tracked' /\ Decided'
<1> DEFINE e == [id |-> n + 1, index |-> fi.index, dropped |-> drop]
           len == Len(log)
           o == Own(frames', n')
           x == PosOf(frames', n')
<1>0. /\ SeqHalf \in Nat \ {0} /\ SeqSpace = 2 * SeqHalf /\ SeqSpace \in Nat \ {0}
  BY RuleAssumption DEF SeqSpace
<1>1. /\ len \in Nat
      /\ \A i \in 1 .. len : Own(frames', log[i].id) = Own(frames, log[i].id)
      /\ Owned => \A i \in 1 .. len :
                    /\ Own(frames', log[i].id) \in 1 .. o
                    /\ PosOf(frames', log[i].id) = PosOf(frames, log[i].id)
                    /\ PosOf(frames, log[i].id) \in Nat
  BY OwnersKept
<1>2. e.id = n + 1 /\ e.dropped = drop
  OBVIOUS
<1>3. /\ Len(log') = len + 1
      /\ \A i \in 1 .. len : log'[i] = log[i]
      /\ log'[len + 1] = e
      /\ \A i \in 1 .. Len(log') : i \in 1 .. len \/ i = len + 1
  <2>1. PICK S : log \in Seq(S)
    BY DEF XorInv
  <2> DEFINE T == S \cup {e}
  <2>2. e \in T
    OBVIOUS
  <2>3. log \in Seq(T)
    BY <2>1, SeqMonotonic
  <2>4. log' = Append(log, e)
    OBVIOUS
  <2> HIDE DEF e, T
  <2> QED BY <2>2, <2>3, <2>4, AppendIs
<1> HIDE DEF e
<1>4. Own(frames', log'[len + 1].id) = o /\ PosOf(frames', log'[len + 1].id) = x
  BY <1>2, <1>3 DEF PosOf
<1>5. o \in Nat /\ Len(log') # 0
  BY <1>1, <1>3 DEF Grown
<1>6. FlowShape(flow) /\ FlowShape(flow')
  BY FlowShapeKept DEF Tracked
<1>7. o # 0 => Advances(flow, pk, fi) /\ flow' = fi.flow
  BY <1>6, FlowIndexIs
\* The line's decision, once its number is placed.
<1>8. ASSUME NEW turn \in Int, x \in Nat, NumberAt(SeqSpace, turn, flow'.epoch, pk.seq, x),
             fi.index = flow'.epoch * SeqSpace + pk.seq
      PROVE  DecidesAt(e, x, turn)
  <2> DEFINE ep == flow'.epoch
             q == pk.seq
  <2>1. ep \in Int /\ q \in Int /\ SeqSpace \in Int /\ SeqSpace * (turn + ep) + q = x /\ fi.index = ep * SeqSpace + q
    BY <1>0, <1>8 DEF NumberAt
  <2> HIDE DEF ep, q, x
  <2>2. fi.index = x - turn * SeqSpace
    BY ONLY <1>8, <2>1, Distribute
  <2> QED BY <1>2, <2>2 DEF DecidesAt
<1>9. CASE len = 0
  <2>1. Owned' <=> o # 0
    BY <1>3, <1>4, <1>9 DEF Owned
  <2>2. CASE o = 0
    BY <1>5, <1>6, <2>1, <2>2 DEF Tracked, Decided
  <2>3. CASE o # 0
    <3>1. ~flow.have_last_seq /\ flow.epoch = 0
      BY <1>9 DEF Tracked
    <3>2. /\ fi.index = flow'.epoch * SeqSpace + pk.seq
          /\ flow'.last_seq = pk.seq /\ flow'.have_last_seq /\ flow'.epoch = 0
      BY <1>7, <2>3, <3>1 DEF Advances
    <3>3. x \in Nat /\ pk.seq = x % SeqSpace
      BY <2>3
    <3> DEFINE turn == x \div SeqSpace
    <3> HIDE DEF x
    <3>4. /\ turn \in Nat /\ x % SeqSpace \in 0 .. (SeqSpace - 1)
          /\ x = SeqSpace * turn + (x % SeqSpace)
      BY <1>0, <3>3, DivMod
    <3> HIDE DEF turn
    <3>5. turn \in Int /\ turn + 0 = turn /\ 0 \in Int
      BY <3>4
    <3>6. NumberAt(SeqSpace, turn, flow'.epoch, pk.seq, x)
      BY <3>2, <3>3, <3>4, <3>5 DEF NumberAt
    <3>7. Turn' = turn
      BY <1>3, <1>4, <1>9 DEF Turn, turn, x
    <3>8. \A i \in 1 .. Len(log') : i = len + 1
      BY <1>3, <1>9
    <3>9. Tracked'
      <4>1. \A i \in 1 .. Len(log') : Own(frames', log'[i].id) \in 1 .. o
        BY <1>4, <1>5, <2>3, <3>8
      <4>2. PosOf(frames', log'[Len(log')].id) = x
        BY <1>3, <1>4 DEF x
      <4> QED BY <1>5, <1>6, <3>2, <3>6, <3>7, <4>1, <4>2 DEF Tracked
    <3>10. Decided'
      <4>1. DecidesAt(e, x, turn)
        BY <1>8, <3>2, <3>3, <3>5, <3>6
      <4> QED BY <1>3, <1>4, <3>7, <3>8, <4>1 DEF Decided, DecidesAt, rule, x
    <3> QED BY <3>9, <3>10
  <2> QED BY <2>2, <2>3
<1>10. CASE len # 0
  <2>0. 1 \in 1 .. len /\ len \in 1 .. len /\ len + 1 \in 2 .. (len + 1) /\ len + 1 - 1 = len
    BY <1>1, <1>10
  <2>1. Owned' = Owned
    BY <1>1, <1>3, <1>5, <1>10, <2>0 DEF Owned
  <2>2. CASE ~Owned
    BY <1>5, <1>6, <2>1, <2>2 DEF Tracked, Decided
  <2>3. CASE Owned
    <3> DEFINE w == PosOf(frames, log[len].id)
    <3>1. w \in Nat /\ PosOf(frames', log'[len].id) = w /\ Turn' = Turn /\ Turn \in Int
      <4>1. PosOf(frames, log[1].id) \in Nat /\ PosOf(frames', log[1].id) = PosOf(frames, log[1].id)
        BY <1>1, <2>0, <2>3
      <4>2. Turn' = Turn
        BY <1>3, <2>0, <4>1 DEF Turn
      <4>3. Turn \in Int
        BY <1>0, <4>1, DivMod DEF Turn
      <4> QED BY <1>1, <1>3, <2>0, <2>3, <4>2, <4>3
    <3>2. \A i \in 1 .. Len(log') : Own(frames', log'[i].id) \in 1 .. o
      <4>1. o # 0
        BY <1>1, <1>5, <2>0, <2>3
      <4> QED BY <1>1, <1>3, <1>4, <1>5, <2>3, <4>1
    <3>3. flow.have_last_seq /\ o # 0
      BY <1>1, <1>5, <2>0, <2>3 DEF Tracked
    <3>4. /\ fi.index = flow'.epoch * SeqSpace + pk.seq /\ x \in Nat /\ pk.seq = x % SeqSpace
          /\ flow'.last_seq = pk.seq /\ flow'.have_last_seq
          /\ flow'.epoch = IF SeqIsWrap(flow.last_seq, pk.seq) THEN flow.epoch + 1 ELSE flow.epoch
      BY <1>7, <3>3 DEF Advances
    <3>5. ASSUME Stepping'
          PROVE  Stepping /\ StepsTo(w, x)
      <4>1. Stepping
        <5> SUFFICES ASSUME NEW i \in 2 .. len
                     PROVE  StepsTo(PosOf(frames, log[i - 1].id), PosOf(frames, log[i].id))
          BY DEF Stepping
        <5>1. i \in 1 .. len /\ i - 1 \in 1 .. len /\ i \in 2 .. Len(log')
          BY <1>1, <1>3
        <5>2. StepsTo(PosOf(frames', log'[i - 1].id), PosOf(frames', log'[i].id))
          BY <3>5, <5>1 DEF Stepping, StepsTo
        <5> QED BY <1>1, <1>3, <2>3, <5>1, <5>2
      <4>2. StepsTo(PosOf(frames', log'[len + 1 - 1].id), PosOf(frames', log'[len + 1].id))
        BY <1>3, <2>0, <3>5 DEF Stepping, StepsTo
      <4> QED BY <1>4, <2>0, <3>1, <4>1, <4>2
    <3>6. ASSUME Stepping'
          PROVE  NumberAt(SeqSpace, Turn, flow'.epoch, pk.seq, x)
      <4>1. NumberAt(SeqSpace, Turn, flow.epoch, flow.last_seq, w)
        BY <2>3, <3>5, <3>6 DEF Tracked
      <4>2. x - w \in (1 - SeqHalf) .. (SeqHalf - 1) /\ w \div SeqSpace <= x \div SeqSpace
        BY <3>5, <3>6 DEF StepsTo
      <4>3. flow'.epoch = IF Wraps(SeqHalf, SeqSpace, flow.last_seq, pk.seq) THEN flow.epoch + 1 ELSE flow.epoch
        BY <3>4 DEF SeqIsWrap, Wraps
      <4> HIDE DEF w, x
      <4> QED BY ONLY <1>0, <3>1, <3>4, <4>1, <4>2, <4>3, FollowsTurn
    <3>7. Tracked'
      <4>1. PosOf(frames', log'[Len(log')].id) = x
        BY <1>3, <1>4
      <4> QED BY <1>5, <1>6, <3>1, <3>2, <3>4, <3>6, <4>1 DEF Tracked
    <3>8. Decided'
      <4> SUFFICES ASSUME Stepping', NEW i \in 1 .. Len(log')
                   PROVE  DecidesAt(log'[i], PosOf(frames', log'[i].id), Turn)
        BY <3>1 DEF Decided, DecidesAt, rule
      <4>1. CASE i \in 1 .. len
        BY <1>1, <1>3, <2>3, <3>5, <4>1 DEF Decided
      <4>2. CASE i = len + 1
        <5>1. DecidesAt(e, x, Turn)
          BY <1>8, <3>1, <3>4, <3>6
        <5> QED BY <1>3, <1>4, <4>2, <5>1
      <4> QED BY <1>3, <4>1, <4>2
    <3> QED BY <3>7, <3>8
  <2> QED BY <2>2, <2>3
<1> QED BY <1>9, <1>10

\* What receiving a frame leaves alone.
LEMMA ReceivedGrown ==
  ASSUME ProxyInv, Buffered, NEW k \in FrameType, Received(k)
  PROVE  Grown /\ n' = n + 1 /\ frames'[n + 1] = k
<1>1. /\ n \in Nat /\ n' = n + 1
      /\ \A id \in 1 .. n : Own(frames', id) = Own(frames, id)
      /\ Own(frames, n) \in Nat /\ Own(frames', n') \in 0 .. n' /\ Own(frames, n) <= Own(frames', n')
  BY OwnGrows
<1>2. (\A i \in 1 .. n : frames'[i] = frames[i]) /\ frames'[n + 1] = k
  BY ReceivedFacts
<1>3. \A i \in 1 .. n : frames[i].pos \in Nat
  <2>1. \A i \in 1 .. n : frames[i] \in FrameType
    BY DEF ProxyInv, ProxyTypes, n
  <2> QED BY <2>1 DEF FrameType
<1>4. Own(frames', n') \in Nat
  BY <1>1
<1> QED BY <1>1, <1>2, <1>3, <1>4 DEF Grown, Buffered

LEMMA HandleDec ==
  ASSUME ProxyInv, XorInv, LossOnly, Buffered, Tracked, Decided,
         NEW k \in AllFrames, NEW drop \in BOOLEAN, NEW later \in BOOLEAN, Handle(k, drop, later)
  PROVE  Buffered' /\ Tracked' /\ Decided'
<1>0. k \in FrameType /\ Take(k)
  BY FramesAre DEF Handle
<1>1. Received(k) /\ opt' = opt
  BY <1>0 DEF Take, Received, worker, capture
<1>2. /\ n \in Nat /\ n' = n + 1
      /\ \A id \in 1 .. n : Own(frames', id) = Own(frames, id)
      /\ Own(frames', n') = IF k.size = "ok" THEN n + 1 ELSE Own(frames, n)
      /\ Own(frames, n) \in Nat /\ Own(frames', n') \in 0 .. n' /\ Own(frames, n) <= Own(frames', n')
  BY <1>0, <1>1, OwnGrows
<1>3. ~(rule.match_dport < 0) /\ k.size # "big" /\ ~opt.corrupting
  BY PortIs DEF Handle, LossOnly, FrameFits
<1>4. packet' = Strip(k)
  BY <1>3 DEF Handle, Parsed
<1>5. Grown /\ frames'[n + 1] = k
  BY <1>0, <1>1, ReceivedGrown
<1>6. Buffered' /\ (Own(frames', n') # 0 => PosOf(frames', n') \in Nat)
  <2>1. CASE k.size = "ok"
    <3>1. Own(frames', n') = n + 1
      BY <1>2, <2>1
    <3>2. packet'.pkt = Packet(k.flow, k.pos) /\ k.pos \in Nat
      BY <1>0, <1>4, <2>1 DEF Strip, FrameType
    <3>3. packet'.pkt.frdp = TRUE /\ packet'.pkt.len = TrailerLen + 1 /\ packet'.pkt.seq = k.pos % SeqSpace
      BY <3>2 DEF Packet
    <3>4. PosOf(frames', n') = k.pos
      BY <1>5, <3>1 DEF PosOf
    <3> QED BY <1>2, <3>2, <3>3, <3>4 DEF Buffered
  <2>2. CASE k.size # "ok"
    <3>1. k.size = "short"
      BY <1>0, <1>3, <2>2 DEF FrameType
    <3>2. packet' = packet /\ Own(frames', n') = Own(frames, n)
      BY <1>2, <1>4, <2>2, <3>1 DEF Strip
    <3>3. ASSUME Own(frames, n) # 0
          PROVE  PosOf(frames', n') = PosOf(frames, n) /\ PosOf(frames, n) \in Nat
      <4>1. Own(frames, n) \in 1 .. n
        BY <1>2, <3>3 DEF Buffered
      <4> QED BY <1>5, <3>2, <4>1 DEF Grown, PosOf
    <3> QED BY <1>2, <3>2, <3>3 DEF Buffered
  <2> QED BY <2>1, <2>2
<1>7. CASE ~RuleMatch(rule, FrameFromFields(packet'.pkt))
  <2>1. UNCHANGED <<opt, log, flow>>
    BY <1>1, <1>3, <1>7 DEF Handle, Decide, DecideAs
  <2> QED BY <1>5, <1>6, <2>1, DecStable
<1>8. CASE RuleMatch(rule, FrameFromFields(packet'.pkt))
  <2> DEFINE pk == packet'.pkt
             fi == ProxyFlowIndex(pk)
  <2>1. /\ flow' = fi.flow /\ drop = RuleDecide(rule, fi.index)
        /\ log' = Append(log, [id |-> n + 1, index |-> fi.index, dropped |-> drop])
    BY <1>3, <1>8 DEF Handle, Decide, DecideAs
  <2>2. fi = FlowIndex(flow, FrameFromFields(pk), pk)
    BY DEF ProxyFlowIndex
  <2>3. Own(frames', n') # 0 =>
          /\ pk.frdp = TRUE /\ pk.len = TrailerLen + 1
          /\ PosOf(frames', n') \in Nat /\ pk.seq = PosOf(frames', n') % SeqSpace
    BY <1>6 DEF Buffered
  <2> HIDE DEF pk, fi
  <2>4. Tracked' /\ Decided'
    BY <1>1, <1>2, <1>5, <2>1, <2>2, <2>3, DecLogged
  <2> QED BY <1>6, <2>4
<1> QED BY <1>7, <1>8

LEMMA NextDec == ProxyInv /\ XorInv /\ DecInv /\ [LNext]_lvars => DecInv'
<1> SUFFICES ASSUME ProxyInv, XorInv, DecInv, [LNext]_lvars PROVE DecInv'
  OBVIOUS
<1>0. LossOnly' = LossOnly
  <2>1. opt' = opt
    BY DEF LNext, lvars, Loop, Worker, Capture, Outside, Check, Shutdown, EnterPoll, PollReturns, BackEnd,
           Goto, Malformed, Reject, HdxDelay, HdxDrop, Handle, Take, WorkerSize, WorkerDequeue, WorkerSend,
           WorkerRequeue, CaptureJoin, CaptureRead, CaptureOne, CaptureDrain, Publish, Subscribe, PowerDown, Sigint,
           Interrupt, PollFails
  <2> QED BY <2>1 DEF LossOnly, rule
<1>1. CASE ~LossOnly
  BY <1>0, <1>1 DEF DecInv
<1>2. CASE LossOnly
  <2>0. Buffered /\ Tracked /\ Decided
    BY <1>2 DEF DecInv
  <2>1. CASE UNCHANGED <<opt, log, flow, packet, frames>>
    <3>1. Buffered'
      BY <2>0, <2>1 DEF Buffered, n
    <3>2. Tracked' /\ Decided'
      BY <2>0, <2>1 DEF Tracked, Decided, Owned, Turn, Stepping, DecidesAt, n, rule
    <3> QED BY <3>1, <3>2 DEF DecInv
  <2>2. ASSUME NEW k \in AllFrames, Malformed(k)
        PROVE  DecInv'
    <3>1. Received(k) /\ k \in FrameType /\ UNCHANGED <<opt, log, flow, packet>> /\ k.size = "big"
      BY <2>2, FramesAre DEF Malformed, Reject, Take, Received, worker, capture, parse, FrameFits
    <3>2. /\ n \in Nat /\ n' = n + 1
          /\ \A id \in 1 .. n : Own(frames', id) = Own(frames, id)
          /\ Own(frames', n') = Own(frames, n)
          /\ Own(frames, n) \in Nat /\ Own(frames', n') \in 0 .. n' /\ Own(frames, n) <= Own(frames', n')
      BY <2>0, <3>1, OwnGrows
    <3>3. Grown
      BY <2>0, <3>1, ReceivedGrown
    <3>4. Buffered'
      <4>1. ASSUME Own(frames, n) # 0 PROVE PosOf(frames', n') = PosOf(frames, n)
        <5>1. Own(frames, n) \in 1 .. n
          BY <2>0, <3>2, <4>1 DEF Buffered
        <5> QED BY <3>2, <3>3, <5>1 DEF Grown, PosOf
      <4> QED BY <2>0, <3>1, <3>2, <4>1 DEF Buffered
    <3>5. Tracked' /\ Decided'
      BY <1>2, <2>0, <3>1, <3>3, DecStable
    <3> QED BY <3>4, <3>5 DEF DecInv
  <2>3. ASSUME NEW k \in AllFrames PROVE ~HdxDelay(k) /\ ~HdxDrop(k)
    BY <1>2 DEF HdxDelay, HdxDrop, LossOnly
  <2>4. ~Worker
    BY <1>2 DEF Worker, WorkerOn, WorkerSize, WorkerDequeue, WorkerSend, WorkerRequeue, LossOnly
  <2>5. CASE \/ Check \/ Shutdown \/ EnterPoll \/ PollReturns \/ BackEnd \/ UNCHANGED lvars \/ Capture \/ Outside
    <3>1. UNCHANGED <<opt, log, flow, packet, frames>>
      BY <2>5 DEF lvars, Capture, Outside, Check, Shutdown, EnterPoll, PollReturns, BackEnd, Goto, CaptureJoin,
           CaptureRead, CaptureOne, CaptureDrain, Publish, Subscribe, PowerDown, Sigint, Interrupt, PollFails, net, parse
    <3> QED BY <2>1, <3>1
  <2>6. ASSUME NEW k \in AllFrames, NEW drop \in BOOLEAN, NEW later \in BOOLEAN, Handle(k, drop, later)
        PROVE  DecInv'
    BY <1>2, <2>0, <2>6, HandleDec DEF DecInv
  <2> QED BY <2>2, <2>3, <2>4, <2>5, <2>6 DEF LNext, Loop
<1> QED BY <1>1, <1>2

\* Loss is injected by identity alone, for frames sent again and out of order too,
\* as long as the flow moves by less than half the sequence space from one logged
\* frame to the next and not back across a wrap.
THEOREM DecidedByIdentity == LSpec => []DecisionByIdentity
<1>1. XorInv /\ DecInv => DecisionByIdentity
  <2> SUFFICES ASSUME XorInv, DecInv, LossOnly, log # <<>>, Owner(log[1].id) # 0, InStep
               PROVE  LET turn == At(log[1].id) \div SeqSpace
                      IN  \A i \in DOMAIN log :
                            log[i].dropped = RuleDecide(rule, At(log[i].id) - turn * SeqSpace)
    BY DEF DecisionByIdentity
  <2>1. \A id : Owner(id) = Own(frames, id) /\ At(id) = PosOf(frames, id)
    BY DEF Owner, At, Own, OkUpTo, PosOf
  <2>2. PICK S : log \in Seq(S)
    BY DEF XorInv
  <2>3. DOMAIN log = 1 .. Len(log) /\ Len(log) # 0
    BY <2>2
  <2>4. Owned
    BY <2>1, <2>3 DEF Owned
  <2>5. Stepping
    BY <2>1 DEF InStep, Stepping, StepsTo
  <2>6. \A i \in 1 .. Len(log) : DecidesAt(log[i], PosOf(frames, log[i].id), Turn)
    BY <2>4, <2>5 DEF DecInv, Decided
  <2>7. Turn = At(log[1].id) \div SeqSpace
    BY <2>1 DEF Turn
  <2> QED BY <2>1, <2>3, <2>6, <2>7 DEF DecidesAt
<1>2. LSpec => []DecInv
  BY XorInvariance, InitDec, NextDec, ProxyInvariance, PTL DEF LSpec
<1> QED BY <1>1, <1>2, XorInvariance, PTL

=============================================================================
