# csp-intercept: a TLA+ development

csp-intercept drops a known, repeatable part of a CubeSat Space Protocol (CSP) transfer and checks
whether the file arrived anyway; SVU is its own block-verified upload. The modules here model the
parts of it that keep state, TLC checks them on small instances, and TLAPS proves the main
results for every value of the constants. `PROJECT.json` maps every definition to its source lines.

## 1. Inventory

### SVU, the verified upload (`lib/ci_svu.c`, `svu/`)

| part | state | operations |
|---|---|---|
| core `ci_svu.c` | tracker: total, block size, expected digests, buffer, covered map and count | manifest, new, accept, verify (status and ranges to ask for again) |
| client `svu_session.c` | round, attempt, connection, header and manifest read so far, tracker, outfile | `svu_client_run`: control exchange, drain data, verify, ask again, write |
| serve loop `svu_serve.c` | the file it serves | answer one request: header, manifest, blast the ranges |
| push `svu_push.c`, `svu_apm.c` | serve thread, connection to the daemon | serve, announce, wait for one status byte, then exit or (csh) stop and join the serve thread |
| daemon `svu_daemon.c` | backlog, current connection | accept, pull, chmod, reply |

Client and server talk over a plain CSP connection per attempt (no acknowledgement, ports reused)
and connectionless data packets without CRC. Correct means: nothing is handed over as verified that
is not the promised file, a transfer that can succeed does, the client returns, and the word VERIFIED
on the operator's screen is about the operator's file.

### The measurement side (`lib/ci_meas.c`, `apm/csp_monitor_apm.c`)

| part | state | operations |
|---|---|---|
| sequence tracker | first, highest and distinct position, bitmap, counters | feed, loss, trustworthy |
| RTT ring | data packets waiting for an acknowledgement | on_data, on_ack |
| link monitor | running flag, CSV file, drainer thread, baselines of two 8-bit counters | start, stop, drain, window row |

The drainer thread and the csh thread share the running flag and the file; the libcsp router fills
the promiscuous queue from a buffer pool everybody shares. Correct means: inferred loss is real
loss or the row says it is not to be trusted; no clone leaks; a capture sees its own packets only.

### The injection side (`lib/ci_rule.c`, `lib/ci_ge.c`, `inject/`, `proxy/`)

| part | state | operations |
|---|---|---|
| rule and flow index | last number, wrap epoch | match, index, decide |
| Gilbert-Elliott chain | step, state | fill a vector, step once per packet |
| drop shim | tracker, chain, log, counters | nexthop |
| injection bridge | receive queue, dedup window, echo counters, stop flag | split-horizon pump: forward up through the shim, forward down, drop echoes |
| lossy ZMQ proxy | globals of the same, one packet buffer, delay queue, half-duplex flags, stop flag | main loop, delay worker, SIGINT |
| capture thread of the proxy | subscription, frames queued for it, logfile | join, read a frame, drain after a short one |

Correct means what the repository calls its load-bearing invariant: every fragment is dropped or
observed, never both, and the decision depends on the fragment's identity alone. The bridge must
forward every frame once although it hears its own frames on both sides.

### What is hard here

Stale packets and answers from earlier rounds or an earlier server; retries that race late answers;
a request cut at its limit; counters that wrap at 8, 16 and 32 bits; a bitmap that is a window on the
past; a thread being stopped while it is inside an iteration; a start that fails halfway; a queue
filled from one side and re-filled from the other; a signal between a check and a blocking call; a
buffer that still holds the frame before; own frames played back as if they were traffic. The
"hazards" of `PROJECT.json` list each at its line with the properties that would catch it.

## 2. Modules

| module | models | notes |
|---|---|---|
| `SvuCore` | `ci_svu.c` as operators on a tracker record | `Word` is 2^32; the block count wraps as in the code |
| `SvuTracker` | the tracker on its own, and the loops of `ci_svu_accept` and `ci_svu_verify` | the loops are recursive functions of the turn: reference for `SvuCore`'s sets |
| `SvuDelivery` | nothing: the abstract specification | announce once, then deliver what matches or fail |
| `SvuTransfer` | client, serve loop and the link between | one action per step of the client; `ServeRequest` is one turn of the serve loop, `ServeShort` (in `ShortSpec`) one that is cut short |
| `SvuPush` | push command, csh command and daemon | a pull appears as `SvuDelivery` describes it, the disk may cut its file short |
| `SeqMeter` | sequence tracker and trust guard as operators | positions are unbounded, the wire carries them modulo `2*Half` |
| `MeterTap` | the tracker at a tap on a lossy link | keeps the true positions beside it as reference |
| `CaptureTap` | what the drainer does with one RDP frame: tracker and RTT ring | extends `MeterTap`: each of its steps is a `MeterTap` step |
| `DropRule` | rule, flow index, Gilbert-Elliott chain as operators | a seeded draw is a fixed, arbitrary function of the index |
| `DropShim` | shim, bus and tap: the two-oracle experiment | composes `DropRule` and `SeqMeter` |
| `InjectBridge` | the bridge around the shim | extends `DropShim`: its initial states are the shim alone or behind the bridge |
| `LossyProxy` | `zmq_proxy_lossy` and `task_capture` | composes `DropRule`; main loop, worker, capture thread and signal interleave |
| `LinkMonitor` | csh thread, drainer, libcsp router and pool | composes `SeqMeter` |
| `MC_*` | | values of set-valued constants for TLC |
| `Numbers` | | division, remainder and induction, for the proofs |
| `SeqMeter_proofs` | | lemmas about one feed of the sequence tracker |
| `SvuTransfer_proofs`, `SvuPush_proofs`, `MeterTap_proofs`, `LinkMonitor_proofs`, `LossyProxy_proofs`, `InjectBridge_proofs` | | theorems about the modules of the same names and those they extend; `SvuTransfer_proofs` also holds `SvuCore`'s and `SvuTracker`'s, `MeterTap_proofs` `CaptureTap`'s, `InjectBridge_proofs` `DropShim`'s |

Operators whose comment begins with "Mutant:" are plausible mistakes; each is named in
`PROJECT.json` with the property that notices it when the definition after it is replaced by it.

### How state and actions correspond to the code

*SvuTransfer.* `pc` is the place in `svu_client_run`: `request` (line 137, before an attempt), `header`
and `manifest` (inside `ctrl_exchange`), `drain`, `write`, `done`. `recv` and `live` are the tracker
pointer, `ivs` the ranges of the request, `reqs` and `ctl` what is queued at either end of the
control connections and `wire` the data packets under way. `DrainIdle` is the whole of what follows
the last read: verify, count the round, make the next request or go to write.
`ServeRequest` reads one request and queues header, manifest and all data packets.
*SvuPush.* `cmd` is where the command is, `dpc` where the daemon is, `srv` the file the node's serve
thread is bound for; `conn.want`, `push.fresh`, `source` and `cut` (the disk took less than
was written, once at least) are ghosts. `ServeSeesStop` is the serve loop's
two idle seconds, `JoinServing` the return of `pthread_join`.
*LinkMonitor.* `main` is where the csh thread is within a command, `pc` where the drainer is in its loop (`feed`: it holds a clone; `store`: a row is sampled but not written). Clones carry the
number of the start during which they were queued; `unseen`, `flagged`, `linklost` and `failed` are
ghosts. *LossyProxy.* `pc` `enter` lies between the check of `g_stop` and `zmq_poll`; every `continue`
of the loop is a step to `check` that leaves the backend socket alone. `opt` is the command line.
`packet` is the one `csp_packet_t`: `Strip` leaves it as it was for a frame too short to strip.
`joined` says that the capture thread's subscription has
arrived, `pipe` what the XPUB queued for it since. `raced`, `lost`, `frames` and `counters` are ghosts, `next`
is the publishers'. *DropShim.* `Nexthop` is the whole handler; `log`
lines also keep the true position. *InjectBridge.* `qfifo` is libcsp's receive queue, `Pump` one turn
of the loop; `HearOwn` takes the oldest frame of either transport, so each is a FIFO of its own; `air`, `ups`, `downs` and `gone` are ghosts or belong to the transports. *CaptureTap.*
`Pairing` is one pass of the drainer over a frame; `sent` and `pair` are the reference it is judged by.

### Abstractions

- SHA-256 is collision free: a digest is its block's content; manifest bytes are pairs of digest and
  position, so that chunks of different answers can be told apart or mixed, as on the wire.
- A NULL from `csp_buffer_get` at the client shows as a refused connection. At the server it gives up the
  rest of the manifest or of the interval, and a kill gives up the rest of the answer: in `ShortSpec`
  that is one step and one fault; in `Spec`, which the proofs are about, an answer cut short is a whole one of
  which the link loses a packet at a time, each a fault. A NULL from `malloc` is left out.
- `off + pay` of `blast_interval` does not wrap (`PacketAssumption`): files within one packet of 4 GiB are left out. CSP buffers are 2048 bytes in the build, so a full request always fits.
- Other users of the buffer pool and other connections move the two counters the monitor reads (`OtherFails`).
- The XPUB queues a frame for the capture thread from the moment its subscription arrived, which is any time
  after the thread was created, and may drop it when `CapLen` or more wait. The other subscribers lose nothing.
- libcsp (connections, promiscuous queue, pool) and ZMQ are modelled from how the code uses them.
  `csp_promisc_add` is one step: its own check of the enable flag does not race the disable.
- The bus behind the shim loses nothing: what the shim forwards is what the tap sees. Behind the
  bridge a frame may be lost before it reaches the shim.
- `csp_dedup_is_duplicate` may or may not still know a content it has seen (16 frames, 100 ms). The
  bridge's pacing is a delay and left out.
- One source node pushes one file at a time; a push whose serve thread could not bind goes on.
- Times are left open: a time-out may fire early (unless `Timely`), a window may be over at any
  iteration, a delayed message may be due at any look. The one millisecond in which the half-duplex
  clock equals its limit is left out. The RTT ring's clock counts captured frames.
- The worker and the main loop of the proxy share a ZMQ socket without a lock, which ZMQ does not
  define; each send is taken as atomic.
- A short frame has less than 5 bytes: too short for the capture thread and for either CSP header. One
  of exactly 5, which the capture thread takes and a version 2 header does not fit, is left out.
- Option parsing, printing and the CSV layout are left out.

## 3. Runs

Passing runs:

| run | checks | bounds and why they are enough |
|---|---|---|
| `transfer_restart` | `TypeOK`, `CoverageExact`, `VerifiedIsServed`, `VerifiedIsPromised`, `ImplementsDelivery`, `Termination` | four files of up to three bytes (two of one size, one shorter, one empty) in blocks of two, so that there is a short last block; two rounds of two attempts on one port, so that it is reused at once, while the old answer is under way; one restart and one fault, of the link or an answer cut short (`ShortSpec`), so that stale data, stale or cut answers and a fault meet |
| `transfer_timely` | `ReRequestSound`, `RoundsBounded`, `DeliveredWithinBudget` | one file of five bytes in blocks of three and packets of two, so that a packet straddles two blocks and a damaged one spoils both; three faults, requests cut to one range: holes and bad blocks in both blocks occur together; one attempt more than faults and one port more than attempts; 14 rounds, one above what `RoundsBounded` allows for three faults, so that the bound and not the limit is what holds |
| `tracker` | `VerifyIsLoop`, `AcceptIsLoop`, `VerdictExact`, `RequestsSuffice` | every payload of 1, 3 or 4 bytes, blocks of 1 to 3, fragments up to two bytes, output capacity 1 and 4; `Word` = 6, so that the sum for 4 bytes in blocks of 3 wraps to a count of 0, which `ci_svu_new` refuses |
| `meter` | `Accounting`, `LossExact`, `DuplicatesExact`, `PairingIsSearch`, `PairNamesPacket` | sequence space 12, bitmap 3, RTT ring 2, start next to the wrap, jumps longer than the bitmap, two wraps, six frames, with and without the other direction: the ring goes round three times |
| `shim` | `TwoOraclesAgree`, `IndexIsIdentity`, `TrajectoryIsFill`, `Partition`, `BridgeForwardsOnce`, `FragmentsJoin` | without the bridge: space 16, start at 13 or 15; every set of dropped or replayed indices around the wrap; every sequence of draws that can matter; five packets, retransmissions up to two back. Behind the bridge: an RDP flow and DTP flows with 4 and 8 bytes of header, four frames up and one down, a receive queue of two, every frame sent may come back |
| `monitor` | `TypeOK`, `CsvOutlivesDrainer`, `FreshCaptures`, `LeakFree`, `CleanRowsAreLinkLoss`, `CommandReturns` | queue of one and pool of two, so that both ways of losing a clone happen; three frames make a gap with a packet on either side; two starts; `U8` = 2, so that a counter comes all the way round within a window |
| `push` | `VerdictHonest`, `PushReturns`, `DaemonReturns` | three pushes by either program, two files, two paths and one that is cut, two ports, backlog of two; any file may come out short on the disk |
| `proxy` | `AllAccounted`, `DroppedXorObserved`, `DecisionByIdentity`, `OneMalformedCounter`, `CaptureGapsFollowShort`, `SigintStops` | three frames from just below the wrap, of the flow, of another port, too short and too large, the last two sent again; a dropped index before the wrap, after it, and 0; delay with half duplex and with corruption; delay queue of two, which three messages overflow; the capture thread in both loss modes and with half duplex, joining at any time, and missing a frame when one waits (`CapLen` = 1) |

Runs that end in a counterexample, each a "finding":

| run | property | what happens |
|---|---|---|
| `transfer_disk` | `OkMeansFileWritten` | `fwrite` and `fclose` are not checked; a short outfile is reported as success |
| `shim_resend` | `SameFrameSameFate` | 15 is dropped, 16 wraps, 15 is sent again: it gets index 31 and is forwarded |
| `monitor_stale` | `NoStaleIngest` | a start that cannot open its file leaves promisc on; the next capture ingests the leftovers |
| `push_stale` | `DaemonWritesWhatWasPushed` | the daemon pulls what the node serves now, not what was announced |

`CHECK_DEADLOCK FALSE` is set where the system may stop: captures, operators and publishers end.
The transfer runs and `tracker` check deadlock; there only the finished client stutters.

### Deviations met while modelling

The passing properties state their provisos instead of hiding these:

- Nothing in a manifest packet says which answer it is of (`svu_session.c:79`). If a packet of a late
  answer and the header of the next are lost on a reused port while the server is restarted on another
  file, the client locks digests of both files, and a buffer of blocks of both verifies (`faults` in
  `VerifiedIsServed`; `VerifiedIsPromised` is about the manifest that was locked). A cut answer and one lost header
  have the same effect, which is why a cut answer counts as a fault.
- The daemon reports VERIFIED for a file that the disk cut short (`svu_session.c:190`, `svu_daemon.c:91`; `cut` in
  `VerdictHonest`, and the finding of `transfer_disk`).
- A packet older than the first one seen counts as distinct but is not in the span, so it hides one
  real loss (`ci_meas.c:84`; the `EarlyOnes` of `LossExact`).
- A second connection whose numbers start nearby yields a phantom loss that the density guard accepts
  (`ci_meas.c:108`; `LossExact` is about one connection).
- A start that fails in `pthread_create` disables promisc without draining the queue
  (`csp_monitor_apm.c:242`; `failed` in `LeakFree`).
- Counter baselines are read again after the row's sample, and the first after cloning began; losses
  in between, and a full turn that another user's failure completes there, are in no delta (`csp_monitor_apm.c:165`; `unseen` in `CleanRowsAreLinkLoss`).
- A status byte names no push: with a reused port a push can read another's verdict (`svu_push.c:152`;
  `fresh` in `VerdictHonest`), and a path longer than the announce is cut silently (`svu_proto.h:132`).
- The delay worker ignores a full queue when it puts a message back (`zmqproxy.c:567`; `lost` in
  `AllAccounted`).
- SIGINT between the check of `g_stop` and `zmq_poll` waits for the next message (`zmqproxy.c:700`;
  `raced` in `SigintStops`).

- Data and bare acknowledgements feed one tracker (`csp_monitor_apm.c:109`): an acknowledgement carries
  the number of the next data packet, so it stands in for that packet if it is lost. `LossExact` is
  about the numbers that were seen.
- With one ring for both directions an acknowledgement number is also looked for among the frames of
  the side that sends it, and can pair a frame with itself (`ci_meas.c:138`; `PairNamesPacket` is about
  pairings across directions).
- 256 losses in one window leave an 8-bit counter where it was and the row clean (`ci_meas.c:152`;
  `FullTurn`).
- The result of `csp_id_strip` is not looked at (`zmqproxy.c:727`, `788`): a frame too short for a header
  is decided, logged and forwarded as the frame before it, or as what `malloc` left in the buffer; the
  check above it rejects only frames that are too large (`Owner` in `DecisionByIdentity`).
- A frame that comes back across a wrap is given the index of another turn (`zmqproxy.c:610`, a copy of `ci_rule.c:77`;
  `InStep` in `DecisionByIdentity`, and the finding of `shim_resend`).
- With delay, a frame the log says was kept may meet a full delay queue; the counter says so, the log does not
  (`zmqproxy.c:815`; `LossOnly` in `DroppedXorObserved`).
- The capture thread sees nothing before its subscription has arrived, nor what the XPUB drops at its high-water
  mark (`zmqproxy.c:271`); `CaptureGapsFollowShort` is about what reached it. It throws away a frame that is
  queued right behind a short one (`zmqproxy.c:298`; one, because the loop closes the message it reads into), and in the
  legacy loss mode it counts as malformed a frame the main loop has kept (`zmqproxy.c:306`).
- Frames that the bridge loses to its queue or to dedup are link loss to the monitor and unknown to the
  drop log; if one is the last before a wrap, the tracker of the shim starts in the wrong turn
  (`AllReachShim` in `TwoOraclesAgree` and `IndexIsIdentity`).

### Fairness

- `SvuTransfer`: weak fairness of the client's steps (a running process whose waits all have
  time-outs), of the server's handling of a request, of the router discarding packets of a closed
  connection, and of a request vanishing while no server is bound. None for faults, restarts or the
  delivery of a particular data packet.
- `SvuPush`: weak fairness of command and daemon steps: the 600 s wait is bounded, and a pull is
  because `svu_client_run` terminates (`Termination`). The serve loop is only sure to find two idle
  seconds, and so to look at `stop`, while the daemon is not pulling; that is enough for the join.
- `LinkMonitor`: weak fairness of a command once begun and of the drainer thread, whose read has a
  100 ms time-out. The operator and the traffic promise nothing.
- `LossyProxy`: weak fairness of the main loop.

## 4. Proofs

Every theorem is for all values of the constants that the modules' ASSUMEs allow: any files, sizes,
windows, queues, numbers of faults and packets. Every safety invariant of the passing runs is proved.
Hardly one is inductive as it stands; the strengthening is named in each case.

**Induction.** The library's induction theorems take an operator, which the provers cannot
instantiate. `Numbers` derives from well-foundedness of `<` a form with a set in the predicate's
place (`SetInduction`) and the existence of a function that is defined by its value one step before
(`RunExists`). With these what a loop, written as a recursive function, computes for every input is
proved, not only checked.

**SVU core and transfer** (`SvuTransfer_proofs`).
`NBlocksExact`: the 32-bit block count is exactly enough or 0. `DigestsDeterminePayload`: equal
digests of all blocks mean equal payloads. From them `TypeCorrect`, `CoverageIsExact`, `VerifiedSafety` (what
passes verification is what the locked manifest was made from), `ReRequests` and
`TransferImplementsDelivery`. `IInv` adds to `TypeOK` and `CoverageExact` the control facts that tie
`pc` to the data: a tracker exists from the drain on, its geometry is one `NBlocks` accepts, `write` is
reached only with COMPLETE_VERIFIED. The argument: the count equals the covered bytes, so COMPLETE means
no hole; no bad block means that every digest agrees with the manifest; digests determine the payload.
`ReRequests` adds that the ranges in hand are the first ones of the tracker's own hole or block
ranges, which are proper, disjoint and together all of the missing bytes.
For the refinement each action is an `Announce`, a `Deliver`, a `Fail` or a stutter.

**One fault** (same module). `OneFaultSafety`: `VerifiedIsServed` for every number of files, ports and
restarts. `VerifiedSafety` says that a verified buffer is what the locked manifest was made from;
what is left is that this manifest is one file's, although a reused port may join the pieces of two
answers. `Sound`: as long as nothing was lost the queue of control packets is made of whole answers (`Whole`,
perhaps behind the rest of one), and after one fault it is such a queue without one packet (`Carries`);
what was read so far is the beginning of an answer, or less than that because a part of it was lost,
or has header bytes in it (`Reads`). An answer that
misses a packet is too short for the length its header announced, so either the read times out, or the
client reads on into the next answer, and the bytes of a header, which no digest contains, end up in the
manifest (`Poisoned`). `Locked`: the locked manifest is one file's or poisoned. With a poisoned one no
buffer verifies. Two faults can take away that header too, which is why the property stops at one. The same
argument covers a cut answer, which is followed by a header; that case only TLC checks (`transfer_restart`).

**Rounds** (same module). `RoundsAreBounded`: `RoundsBounded` for every file, packet and block size and limit of a
request, under the hypothesis `Honest`: a time-out means that the packet will not come, the server is not
restarted, and a round has fewer attempts than CSP has client ports. The last holds in the build, which makes
8 attempts and binds 16 ports (`meson.build:25`), so that 47 are left to rotate through; without the other two a
round can be spent without any fault. Three steps.
1. `Opening`, `Agreed`: before the manifest is locked no port comes twice, so what is read is the answer to
   this attempt's request, and the manifest locked is the one of the file being served.
2. `Need` counts what is left to repair: holes, bad blocks, and packets that were asked for and are
   no longer under way, less what the packets under way will put right. A packet that lands
   unharmed adds nothing (`NeedOfArrival`), a lost one adds 1 (`NeedOfLoss`), a damaged one adds at
   most its own range, a hole cut in two and the blocks it falls on (`NeedOfLanding`, `SpoiledFew`):
   `RoundCost` in all. Each new request takes at least one off (`NextAsk`), however many ranges the
   limit cut from it.
3. `Spend`: what is left to repair is never more than the rounds the faults so far allow (`Owes`, `Left`). While
   the request of the round is still to be served (`Pending`) one more may be missing, because its packets are
   not under way yet.

Two rounds per fault, what one would guess, is not enough: in the run of this property a damaged packet
that straddles two blocks can cost three.

**The tracker on its own** (same module). `VerdictIsExact`, `RequestsAreEnough`, `AcceptLoop`,
`VerifyLoops`: verdict and requests are right after every sequence of fragments, and the sets of
`SvuCore` are what the loops of the source compute, the order and the cut of `out[]` included.
`TInv` says that the tracker is well-formed and its manifest the payload's. For `VerifyLoops` the
state after each turn is described by the ranges below the scan's position (`HoleLoop`) or the blocks
before it (`BlockLoop`).

**Push** (`SvuPush_proofs`). `PushVerdictHonest`. `PInv`: an announce in the backlog or in the daemon's
hand is the running push's own or that push is not fresh, the port is bound for the running push's
file or not at all, and a pull that ended well left the file it locked at the path it was given. `CutByDisk`:
only a disk that took less than was written makes a file short.

**Sequence tracker** (`SeqMeter_proofs`, `MeterTap_proofs`). `Exact` is the heart: the
tracker was fed exactly the positions A, its `max` is the true highest up to a whole number of turns
although it saw 16 bits, and within one window of the head the bitmap is A; outside nothing is
claimed, which is why reordering must stay below the window and jumps below half the space.
`FeedExact` shows that a feed keeps it. From it `LossIsExact` and `DuplicatesAreExact`;
`AccountingHolds` also for two mixed connections; `CaptureIsTap` carries all three to the drainer
(`CaptureMeters`). `RingIsSearch`: the ring of any size is a search of the last `Ring` data frames; the
invariant ties each slot to the frame it holds, over any number of turns of the cursor. `RingNamesPacket`
has the hypothesis `Recent`: the frames in the ring are less than one turn from the packet
acknowledged. Otherwise equal numbers name two packets, in the code too.

**Link monitor** (`LinkMonitor_proofs`). `MonitorTypes`, `CsvIsOpen`, `NoCloneLeaks`, `CapturesAreFresh`,
`CleanRowsExact`. `MonInv`: each buffer of the pool is free, queued, with a user or held by the drainer
(`Conserved`); which states of the two threads go together (`Phases`); whose clones are queued. For
`CleanRowsExact`: as long as no row is flagged and nothing was lost unseen, what was fed, what is
queued and what the link lost make up the positions sent, and the tracker is `Exact`'s simpler
cousin for increasing numbers.

**Lossy proxy** (`LossyProxy_proofs`). `OneThreadCounts`, `EveryFrameAccounted`, `CaptureGaps`,
`LogMatchesBus`, `DecidedByIdentity`. `ProxyInv` says where each frame is: the bus, the delay queue, the
worker's hand and the main loop hold different frames, and together with the counters they make up
all received. `CaptureGaps` counts in the capture thread's own queue (`Piped`), so it holds for every moment of
joining and every loss at the high-water mark. `DecidedByIdentity`: the epoch is the number of turns from
that of the first logged frame as long as the log is in step (`Tracked`, with `FollowsTurn` of
`Numbers`); `InStep` is a proviso of the property, not a hypothesis of the theorem.

**Shim and bridge** (`InjectBridge_proofs`). `PartitionHolds`, `ShimIsFill`, `IndexHolds`, `JoinHolds`,
`ForwardsOnce`, `OraclesAgree`. All rest on `Queues` (what is in the receive queue and in the air: no
frame in the air is genuine) and `Books` (counters, log and bus). `ShimIsFill` carries the chain's trajectory
along the log. `IndexHolds`: the epoch counts turns from the one of the first packet (`Based`); behind the
bridge, which may lose packets before the shim, under the hypothesis `Steps` that the position moves by less than
half the space from packet to packet. `JoinHolds`: the lines kept are the bus (`OnBus`), and in identity mode a
fragment has one fate. `ForwardsOnce`: for each class of frames, sent = handled + gone + queued (`Counted`).
`OraclesAgree`: `Late` says that what is still to reach the bus is less than the bitmap behind
everything that went before it, since the sender goes back `Depth` at most and the queue is FIFO; so each
packet meets the conditions of `FeedExact`, and `Metered` keeps the tracker `Exact` for the set of packets
on the bus. Then the loss is the number of positions missing between the first and the highest, and each
of these has a dropped line. The hypothesis `RunsShort`: the shim drops no run as long as half the space,
which the tracker could not see.

Each hypothesis is satisfied throughout the run of the same property, where the bounds are below it.

**Only model-checked.**
- `VerifiedIsServed` under `ShortSpec`; the theorem is about `Spec`.
- Everything under fairness (`Termination`, `DeliveredWithinBudget`, `PushReturns`, `DaemonReturns`,
  `CommandReturns`, `SigintStops`): liveness is out of the prover's reach.

## 5. Not modelled

SHA-256's compression function and the splitmix64 hash (idealised); floating-point conversion of loss
rates; byte layouts; interface set-up and option parsing; the proxy's event logger and its plain mode
(one call of `zmq_proxy`).

`verify`, the satguard report, cspx and the scripts are sequential readers of finished captures. Read
beside the models, cspx has two edges its unit tests do not reach: `cmd_explain` returns the largest
exit code of the rows (`cspx/cli.py:33`), so a capture with a FAIL_LOUD row (3) and a FALSE_COMPLETE row
(2), "the dangerous one", ends in 3; and the tokens INCOMPLETE and DEPLOYED that the sweep scripts write
are in neither of its lists (`cspx/adapters.py:16-17`), so `explain` stops with an exception on such a
capture.

Two hazards have no property: the `uint32_t` product of `svu_session.c:72`, because the model's manifest
is a sequence without an allocation size; and the unlocked socket of `zmqproxy.c:558`, because nothing
in the program bounds what ZMQ does then.
