---------------------------- MODULE SvuTransfer ----------------------------
(***************************************************************************)
(* One SVU transfer: the receiving client (svu_client_run in               *)
(* svu/svu_session.c) pulling a file from the serve loop (svu_serve_loop   *)
(* in svu/svu_serve.c) over CSP.                                           *)
(*                                                                         *)
(* Control exchanges (request; header and manifest) run on one short-lived *)
(* plain CSP connection per attempt, CRC protected but neither reliable    *)
(* nor acknowledged; CSP recognises the connection of a reply by the       *)
(* client's ephemeral port only, and the ports are reused round robin.     *)
(* The file itself is blasted as connectionless packets without CRC.       *)
(*                                                                         *)
(* Faults, bounded by MaxFaults: any packet lost, a data packet duplicated *)
(* or damaged in payload and offset, a connection refused.  Delay and      *)
(* reordering of data are unbounded: wire is a set and a time-out may fire *)
(* while the answer is still under way, unless Timely.  The server may be  *)
(* stopped and started again on another file, MaxRestarts times.           *)
(*                                                                         *)
(* In Spec a turn of the serve loop sends its whole answer, and an answer  *)
(* cut short (the server killed in the middle, or csp_buffer_get out of    *)
(* buffers, which gives up the rest of the manifest or of the interval)    *)
(* counts as one fault for each packet it lacks.  ShortSpec also has it as *)
(* a step of its own, ServeShort, which is one fault in all.               *)
(***************************************************************************)
EXTENDS SvuCore

CONSTANTS
  Files,        \* payloads the server may be started on
  BlockSize,    \* the server's block size
  Pay,          \* payload bytes per data packet (mtu - SVU_DATA_HDR)
  ChunkLen,     \* manifest bytes per control packet (200 in the build)
  HdrLen,       \* SVU_RESP_HDR, the bytes of a response header
  MaxRounds,    \* max_rounds of svu_client_run (500 in the daemon)
  MaxAttempts,  \* control attempts per round (8 in the code)
  MaxIntervals, \* SVU_MAX_INTERVALS (32 in the code)
  NPorts,       \* ephemeral client ports CSP rotates through
  MaxFaults,    \* bound: link faults in one behaviour
  MaxRestarts,  \* bound: server restarts in one behaviour
  Timely        \* a time-out fires only when its packet will never come

ASSUME FilesAssumption ==
  \A f \in Files :
    f.size \in 0 .. (Word - 1) /\ f.bytes \in [0 .. (f.size - 1) -> Byte]
ASSUME SizesAssumption ==
  /\ BlockSize \in 1 .. (Word - 1)
  /\ Pay \in Nat \ {0}
  /\ ChunkLen \in Nat \ {0}
  /\ HdrLen \in Nat \ {0}
\* off + pay of blast_interval does not wrap.
ASSUME PacketAssumption == \A f \in Files : f.size + Pay <= Word
ASSUME LimitsAssumption ==
  /\ MaxRounds \in Nat \ {0}
  /\ MaxAttempts \in Nat \ {0}
  /\ MaxIntervals \in Nat \ {0}
  /\ NPorts \in Nat \ {0}
  /\ MaxFaults \in Nat
  /\ MaxRestarts \in Nat
  /\ Timely \in BOOLEAN

VARIABLES
  up,        \* a serve loop is bound to SVU_CTRL_PORT
  served,    \* the file it serves
  reqs,      \* requests on their way to it, FIFO
  ctl,       \* control packets on their way to the client, FIFO
  wire,      \* data packets on their way to the client
  pc,        \* where the client loop is
  round,     \* the client's round counter
  attempt,   \* control attempts made in this round
  port,      \* ephemeral port of the current or last connection
  ivs,       \* ranges of the current request; {} asks for the whole file
  hdr,       \* header read in the current exchange
  man,       \* manifest bytes read in the current exchange
  live,      \* recv # NULL: a manifest has been locked
  recv,      \* the tracker
  result,    \* "running", "ok", or why svu_client_run returned -1
  out,       \* what outfile holds
  faults,    \* link faults so far
  restarts   \* server restarts so far

server == <<up, served, restarts>>
client == <<round, attempt, ivs, hdr, man, live, recv, result, out>>
vars == <<up, served, reqs, ctl, wire, pc, round, attempt, port, ivs, hdr,
          man, live, recv, result, out, faults, restarts>>

NoHeader == [total |-> 0, block |-> 0, nblocks |-> 0]
NoTracker == NewTracker(0, 0, 0, <<>>)
NoOutfile == [size |-> -1, bytes |-> <<>>]

-----------------------------------------------------------------------------
(* Packets.                                                                *)

\* A response header is HdrLen bytes that no digest contains.
HeaderPacket(p, f) ==
  [port |-> p, magic |-> TRUE,
   hdr |-> [total |-> f.size, block |-> BlockSize,
            nblocks |-> NBlocks(f.size, BlockSize)],
   bytes |-> [k \in 1 .. HdrLen |-> << <<>>, k >>]]

ChunkPacket(p, bytes) ==
  [port |-> p, magic |-> FALSE, hdr |-> NoHeader, bytes |-> bytes]

\* send_manifest: slices of ChunkLen bytes, the last one shorter.
Chunks(p, m) ==
  [i \in 1 .. ((Len(m) + ChunkLen - 1) \div ChunkLen) |->
     ChunkPacket(p, SubSeq(m, (i - 1) * ChunkLen + 1,
                           IF i * ChunkLen <= Len(m) THEN i * ChunkLen
                                                     ELSE Len(m)))]

Reply(p, f) ==
  << HeaderPacket(p, f) >> \o Chunks(p, Manifest(f.bytes, f.size, BlockSize))

\* blast_interval: packets of Pay bytes from start, the last one shorter.
BlastInterval(f, iv) ==
  {[off |-> o,
    buf |-> [k \in 1 .. (IF o + Pay <= iv.end THEN Pay ELSE iv.end - o) |->
               f.bytes[o + k - 1]]] :
     o \in {x \in Bytes(iv) : (x - iv.start) % Pay = 0}}

\* An empty request is the whole file; ranges are clipped to the file.
Blasted(f, req) ==
  IF req = {}
    THEN BlastInterval(f, Interval(0, f.size))
    ELSE UNION {BlastInterval(f, Interval(iv.start,
                                  IF iv.end > f.size THEN f.size ELSE iv.end)) :
                  iv \in req}

-----------------------------------------------------------------------------
Init ==
  /\ up = TRUE
  /\ served \in Files
  /\ reqs = <<>>
  /\ ctl = <<>>
  /\ wire = {}
  /\ pc = "request"
  /\ round = 1
  /\ attempt = 0
  /\ port = 0
  /\ ivs = {}
  /\ hdr = NoHeader
  /\ man = <<>>
  /\ live = FALSE
  /\ recv = NoTracker
  /\ result = "running"
  /\ out = NoOutfile
  /\ faults = 0
  /\ restarts = 0

-----------------------------------------------------------------------------
(* The server.                                                             *)

\* One turn of the accept loop: answer on the connection, then blast.
ServeRequest ==
  /\ up
  /\ reqs # <<>>
  /\ reqs' = Tail(reqs)
  /\ ctl' = ctl \o Reply(Head(reqs).port, served)
  /\ wire' = wire \cup Blasted(served, Head(reqs).ivs)
  /\ UNCHANGED <<server, client, pc, port, faults>>

\* The serving process ends or leaves its loop; its accept queue goes with it.
ServeStop ==
  /\ up
  /\ restarts < MaxRestarts
  /\ up' = FALSE
  /\ restarts' = restarts + 1
  /\ reqs' = <<>>
  /\ UNCHANGED <<served, client, ctl, wire, pc, port, faults>>

\* A turn cut short: a part of the header and manifest goes out, then, unless the
\* process was killed before that, a part of the data.
ServeShort ==
  LET answer == Reply(Head(reqs).port, served)
  IN  /\ up
      /\ reqs # <<>>
      /\ faults < MaxFaults
      /\ faults' = faults + 1
      /\ \/ up' = up /\ reqs' = Tail(reqs) /\ restarts' = restarts
         \/ /\ restarts < MaxRestarts
            /\ up' = FALSE /\ reqs' = <<>> /\ restarts' = restarts + 1
      /\ \E k \in 0 .. Len(answer) :
           /\ ctl' = ctl \o SubSeq(answer, 1, k)
           /\ \E w \in SUBSET Blasted(served, Head(reqs).ivs) :
                /\ ~up' /\ k < Len(answer) => w = {}
                /\ wire' = wire \cup w
      /\ UNCHANGED <<served, client, pc, port>>

ServeStart ==
  /\ ~up
  /\ up' = TRUE
  /\ served' \in Files
  /\ UNCHANGED <<restarts, client, reqs, ctl, wire, pc, port, faults>>

-----------------------------------------------------------------------------
(* The client's control exchange (ctrl_exchange and its retry loop).       *)

\* Mutant: one attempt fewer than the limit is made.
AttemptFailsEarly ==
  /\ attempt' = attempt + 1
  /\ IF attempt + 2 < MaxAttempts
       THEN pc' = "request" /\ result' = result
       ELSE pc' = "done" /\ result' = "ctrl_failed"
  /\ UNCHANGED <<round, ivs, live, recv, out>>

\* The attempt returned -1: the next one, or "ctrl exchange failed".
AttemptFails ==
  /\ attempt' = attempt + 1
  /\ IF attempt + 1 < MaxAttempts
       THEN pc' = "request" /\ result' = result
       ELSE pc' = "done" /\ result' = "ctrl_failed"
  /\ UNCHANGED <<round, ivs, live, recv, out>>

SendRequest ==
  /\ pc = "request"
  /\ port' = (port + 1) % NPorts
  /\ reqs' = Append(reqs, [port |-> port', ivs |-> ivs])
  /\ pc' = "header"
  /\ UNCHANGED <<server, client, ctl, wire, faults>>

\* csp_connect or csp_buffer_get returned NULL.
ConnectFails ==
  /\ pc = "request"
  /\ faults < MaxFaults
  /\ faults' = faults + 1
  /\ AttemptFails
  /\ UNCHANGED <<server, hdr, man, reqs, ctl, wire, port>>

\* Mutant: every exchange starts a new tracker on the manifest it brought.
ExchangeDoneRelocks(h, m) ==
  IF NewOK(h.total, h.block, h.nblocks)
    THEN /\ pc' = "drain"
         /\ live' = TRUE
         /\ recv' = NewTracker(h.total, h.block, h.nblocks, m)
         /\ result' = result
    ELSE /\ pc' = "done"
         /\ result' = "bad_geometry"
         /\ UNCHANGED <<live, recv>>

\* The exchange is complete: the first one locks the manifest for good, and
\* the manifest of every later one is thrown away.
ExchangeDone(h, m) ==
  IF live
    THEN pc' = "drain" /\ UNCHANGED <<live, recv, result>>
    ELSE IF NewOK(h.total, h.block, h.nblocks)
           THEN /\ pc' = "drain"
                /\ live' = TRUE
                /\ recv' = NewTracker(h.total, h.block, h.nblocks, m)
                /\ result' = result
           ELSE /\ pc' = "done"
                /\ result' = "bad_geometry"
                /\ UNCHANGED <<live, recv>>

\* A packet is at the head of the queue for the open connection.
Readable ==
  /\ pc \in {"header", "manifest"}
  /\ ctl # <<>>
  /\ Head(ctl).port = port

ReadHeader ==
  /\ pc = "header"
  /\ Readable
  /\ ctl' = Tail(ctl)
  /\ IF Head(ctl).magic
       THEN /\ hdr' = Head(ctl).hdr
            /\ man' = <<>>
            /\ IF Head(ctl).hdr.nblocks = 0
                 THEN ExchangeDone(Head(ctl).hdr, <<>>)
                 ELSE pc' = "manifest" /\ UNCHANGED <<live, recv, result>>
            /\ UNCHANGED <<round, attempt, ivs, out>>
       ELSE /\ AttemptFails
            /\ UNCHANGED <<hdr, man>>
  /\ UNCHANGED <<server, reqs, wire, port, faults>>

\* Mutant: a header met in the middle of a manifest is skipped.
TakeBytesSkips(bytes) ==
  LET room == hdr.nblocks * DigestLen - Len(man)
  IN  IF Head(ctl).magic
        THEN man
        ELSE man \o SubSeq(bytes, 1, IF Len(bytes) > room THEN room ELSE Len(bytes))

\* Bytes are appended as they come, up to the announced length.
TakeBytes(bytes) ==
  LET room == hdr.nblocks * DigestLen - Len(man)
  IN  man \o SubSeq(bytes, 1, IF Len(bytes) > room THEN room ELSE Len(bytes))

ReadManifest ==
  /\ pc = "manifest"
  /\ Readable
  /\ ctl' = Tail(ctl)
  /\ man' = TakeBytes(Head(ctl).bytes)
  /\ IF Len(man') < hdr.nblocks * DigestLen
       THEN UNCHANGED <<pc, live, recv, result>>
       ELSE ExchangeDone(hdr, man')
  /\ UNCHANGED <<server, round, attempt, ivs, hdr, out, reqs, wire, port, faults>>

\* csp_read ran into its 10 s time-out.
ReadTimeout ==
  /\ pc \in {"header", "manifest"}
  /\ Timely => /\ \A i \in 1 .. Len(reqs) : reqs[i].port # port
               /\ \A i \in 1 .. Len(ctl) : ctl[i].port # port
  /\ AttemptFails
  /\ UNCHANGED <<server, hdr, man, reqs, ctl, wire, port, faults>>

\* CSP discards a packet for a connection that is closed.
RouterDrop ==
  /\ ctl # <<>>
  /\ ~Readable
  /\ ctl' = Tail(ctl)
  /\ UNCHANGED <<server, client, reqs, wire, pc, port, faults>>

-----------------------------------------------------------------------------
(* The client's data phase (drain_data, then ci_svu_verify).               *)

ReceiveData(f) ==
  /\ pc = "drain"
  /\ f \in wire
  /\ wire' = wire \ {f}
  /\ recv' = Accept(recv, f.off, f.buf)
  /\ UNCHANGED <<server, round, attempt, ivs, hdr, man, live, result, out,
                 reqs, ctl, pc, port, faults>>

\* The link delivers a copy and keeps the packet.
ReceiveDuplicate(f) ==
  /\ pc = "drain"
  /\ f \in wire
  /\ faults < MaxFaults
  /\ faults' = faults + 1
  /\ recv' = Accept(recv, f.off, f.buf)
  /\ UNCHANGED <<server, round, attempt, ivs, hdr, man, live, result, out,
                 reqs, ctl, wire, pc, port>>

\* No CRC on the data port: offset and payload arrive as anything.
ReceiveDamaged(f) ==
  /\ pc = "drain"
  /\ f \in wire
  /\ faults < MaxFaults
  /\ faults' = faults + 1
  /\ wire' = wire \ {f}
  /\ \E o \in 0 .. recv.total, b \in [1 .. Len(f.buf) -> Byte] :
       recv' = Accept(recv, o, b)
  /\ UNCHANGED <<server, round, attempt, ivs, hdr, man, live, result, out,
                 reqs, ctl, pc, port>>

\* Mutant: the round counter is not advanced.
DrainIdleForever ==
  /\ pc = "drain"
  /\ Timely => wire = {} /\ reqs = <<>>
  /\ IF Status(recv) = "COMPLETE_VERIFIED"
       THEN pc' = "write" /\ UNCHANGED <<ivs, attempt>>
       ELSE /\ ivs' = FirstRanges(Ranges(recv), MaxIntervals)
            /\ pc' = "request"
            /\ attempt' = 0
  /\ UNCHANGED <<server, round, result, hdr, man, live, recv, out, reqs, ctl,
                 wire, port, faults>>

\* The link was idle for 2 s: verify, then write, ask again or give up.
DrainIdle ==
  /\ pc = "drain"
  /\ Timely => wire = {} /\ reqs = <<>>
  /\ IF Status(recv) = "COMPLETE_VERIFIED"
       THEN pc' = "write" /\ UNCHANGED <<ivs, round, attempt, result>>
       ELSE /\ ivs' = FirstRanges(Ranges(recv), MaxIntervals)
            /\ IF round < MaxRounds
                 THEN /\ pc' = "request"
                      /\ round' = round + 1
                      /\ attempt' = 0
                      /\ result' = result
                 ELSE /\ pc' = "done"
                      /\ result' = "gave_up"
                      /\ UNCHANGED <<round, attempt>>
  /\ UNCHANGED <<server, hdr, man, live, recv, out, reqs, ctl, wire, port, faults>>

-----------------------------------------------------------------------------
(* Writing outfile.                                                        *)

OpenFails ==
  /\ pc = "write"
  /\ pc' = "done"
  /\ result' = "no_outfile"
  /\ UNCHANGED <<server, round, attempt, ivs, hdr, man, live, recv, out,
                 reqs, ctl, wire, port, faults>>

\* What n bytes of the buffer leave in the truncated file.
Written(n) == [size |-> n, bytes |-> [i \in 0 .. (n - 1) |-> recv.data[i]]]

\* fwrite and fclose are not checked: a full disk stores fewer bytes and the
\* result is 0 all the same.
WriteFile ==
  /\ pc = "write"
  /\ pc' = "done"
  /\ result' = "ok"
  /\ \E n \in 0 .. recv.total : out' = Written(n)
  /\ UNCHANGED <<server, round, attempt, ivs, hdr, man, live, recv,
                 reqs, ctl, wire, port, faults>>

-----------------------------------------------------------------------------
(* The link loses a packet.                                                *)

LoseRequest ==
  /\ reqs # <<>>
  /\ reqs' = Tail(reqs)
  /\ IF up THEN faults < MaxFaults /\ faults' = faults + 1
           ELSE faults' = faults
  /\ UNCHANGED <<server, client, ctl, wire, pc, port>>

LoseControl ==
  /\ faults < MaxFaults
  /\ faults' = faults + 1
  /\ \E i \in 1 .. Len(ctl) :
       ctl' = SubSeq(ctl, 1, i - 1) \o SubSeq(ctl, i + 1, Len(ctl))
  /\ UNCHANGED <<server, client, reqs, wire, pc, port>>

LoseData ==
  /\ faults < MaxFaults
  /\ faults' = faults + 1
  /\ \E f \in wire : wire' = wire \ {f}
  /\ UNCHANGED <<server, client, reqs, ctl, pc, port>>

-----------------------------------------------------------------------------
Terminated ==
  /\ pc = "done"
  /\ UNCHANGED vars

ClientStep ==
  \/ SendRequest \/ ConnectFails
  \/ ReadHeader \/ ReadManifest \/ ReadTimeout
  \/ \E f \in wire : ReceiveData(f) \/ ReceiveDuplicate(f) \/ ReceiveDamaged(f)
  \/ DrainIdle \/ OpenFails \/ WriteFile

Next ==
  \/ ClientStep
  \/ ServeRequest \/ ServeStop \/ ServeStart
  \/ RouterDrop \/ LoseRequest \/ LoseControl \/ LoseData
  \/ Terminated

Spec == Init /\ [][Next]_vars

\* The client's thread runs and its timers expire; the router task delivers or
\* discards what it has; a running serve loop answers.
Fairness ==
  /\ WF_vars(ClientStep)
  /\ WF_vars(ServeRequest)
  /\ WF_vars(RouterDrop)
  /\ WF_vars(LoseRequest /\ ~up)

FairSpec == Spec /\ Fairness

ShortSpec == Init /\ [][Next \/ ServeShort]_vars /\ Fairness

-----------------------------------------------------------------------------
(* Properties.                                                             *)

Header == [total : 0 .. (Word - 1), block : 0 .. (Word - 1), nblocks : Nat]
ManifestByte == Seq(Byte) \X Nat
Packet == [port : 0 .. (NPorts - 1), magic : BOOLEAN, hdr : Header,
           bytes : Seq(ManifestByte)]
Fragment == [off : Nat, buf : Seq(Byte)]
ByteRange == [start : Nat, end : Nat]

\* What svu_req_decode gives back of svu_req_encode's bytes; the control port is
\* CRC protected, so magic and lengths of a request that arrives are right.
Request == [port : 0 .. (NPorts - 1), ivs : SUBSET ByteRange]
States == {"request", "header", "manifest", "drain", "write", "done"}
Results == {"running", "ok", "ctrl_failed", "bad_geometry", "gave_up", "no_outfile"}

TrackerOK(s) ==
  /\ s.total \in 0 .. (Word - 1)
  /\ s.block \in 0 .. (Word - 1)
  /\ s.nblocks \in Nat
  /\ s.data \in [0 .. (s.total - 1) -> Byte]
  /\ s.covered \subseteq 0 .. (s.total - 1)

\* Every variable keeps its type; whatever the network delivers, the tracker's
\* buffers stay within the one size it was created with.
TypeOK ==
  /\ up \in BOOLEAN
  /\ served \in Files
  /\ reqs \in Seq(Request)
  /\ ctl \in Seq(Packet)
  /\ wire \subseteq Fragment
  /\ pc \in States
  /\ round \in 1 .. MaxRounds
  /\ attempt \in 0 .. MaxAttempts
  /\ port \in 0 .. (NPorts - 1)
  /\ ivs \subseteq ByteRange
  /\ hdr \in Header
  /\ man \in Seq(ManifestByte)
  /\ live \in BOOLEAN
  /\ TrackerOK(recv)
  /\ result \in Results
  /\ faults \in 0 .. MaxFaults
  /\ restarts \in 0 .. MaxRestarts

\* covered_count is the number of distinct bytes covered, whatever overlaps,
\* repeats or misplaced fragments ci_svu_accept has seen: it reaches total
\* exactly when no hole is left, which is what gates the hash comparison.
CoverageExact == recv.covered_count = Cardinality(recv.covered)

\* With one link fault at most, svu_client_run reaches its fopen only with the bytes
\* of one file the server really served: never a mix of two files, of stale and
\* fresh packets, or of damaged ones.  (Two lost control packets around a restart
\* can splice the manifests of two answers on a reused port.)  Under ShortSpec an
\* answer cut short counts as the fault: the one that follows it on a reused port
\* starts with a header, and no block hashes to the bytes of a header.
VerifiedIsServed ==
  faults <= 1 /\ (pc = "write" \/ result = "ok") =>
    \E f \in Files : recv.total = f.size /\ recv.data = f.bytes

\* Whatever arrived on either channel, a buffer that passed verification is the
\* payload its locked manifest was made from, down to the short last block.
VerifiedIsPromised ==
  pc = "write" \/ result = "ok" =>
    \A f \in Files :
      /\ recv.total = f.size
      /\ recv.block = BlockSize
      /\ recv.expected = Manifest(f.bytes, f.size, BlockSize)
      => recv.data = f.bytes

\* The transfer implements its abstract specification: the promise is the locked
\* manifest, and the payload is handed over when svu_client_run returns 0.
Delivery ==
  INSTANCE SvuDelivery WITH
    promise <- IF live
                 THEN [size |-> recv.total, block |-> recv.block,
                       manifest |-> recv.expected]
                 ELSE [size |-> 0, block |-> 0, manifest |-> <<>>],
    verdict <- result,
    delivered <- IF result = "ok"
                   THEN [size |-> recv.total, bytes |-> recv.data]
                   ELSE [size |-> -1, bytes |-> <<>>]

\* One promise, never exchanged for another; one delivery, all at once, of bytes
\* that match it; or one failure and nothing delivered.
ImplementsDelivery == Delivery!SSpec

\* A re-request is never empty (the server reads an empty one as "the whole
\* file"), fits SVU_MAX_INTERVALS, lies inside the payload, and asks for no byte
\* twice; while bytes are missing it asks for missing bytes only, and for all of
\* them unless the limit cut it.
ReRequestSound ==
  live /\ pc \in {"request", "header", "manifest"} =>
    LET asked   == UNION {Bytes(iv) : iv \in ivs}
        missing == (0 .. (recv.total - 1)) \ recv.covered
    IN  /\ ivs # {}
        /\ Cardinality(ivs) <= MaxIntervals
        /\ asked \subseteq 0 .. (recv.total - 1)
        /\ \A iv, jv \in ivs : iv # jv => Bytes(iv) \cap Bytes(jv) = {}
        /\ \A iv \in ivs : Bytes(iv) # {}
        /\ missing # {} => /\ asked \subseteq missing
                           /\ Cardinality(ivs) < MaxIntervals => asked = missing

\* svu_client_run returns, whatever the link and the server do.
Termination == <>(pc = "done")

\* Blocks a packet of Pay bytes touches at most, wherever it lands.
BlocksTouched == (Pay + BlockSize - 2) \div BlockSize + 1

\* Rounds one fault can cost: a damaged packet leaves its own range open, ends in
\* the middle of another hole and spoils the blocks it falls on.
RoundCost == BlocksTouched + 2

\* When time-outs are honest, a round is only ever repeated because of a fault,
\* however few ranges a request may carry: each round repairs the first hole or the
\* first bad block for good, and svu_client_run gives up for want of rounds only
\* when faults made as many of them.
RoundsBounded ==
  /\ round <= RoundCost * faults + 1
  /\ result = "gave_up" => round <= RoundCost * faults

\* With fewer faults than retries the transfer ends with a verified buffer that
\* reaches the fopen: the client runs out of neither attempts nor rounds, also
\* when SVU_MAX_INTERVALS cuts every request short.
DeliveredWithinBudget == <>(result \in {"ok", "no_outfile"})

\* "it never reports success on wrong bytes": when svu_client_run returns 0 the
\* outfile holds the verified bytes.
OkMeansFileWritten ==
  result = "ok" => out = [size |-> recv.total, bytes |-> recv.data]

=============================================================================
