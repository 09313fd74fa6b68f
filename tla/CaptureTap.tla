----------------------------- MODULE CaptureTap -----------------------------
(***************************************************************************)
(* What the monitor's drainer does with each RDP frame it captures         *)
(* (apm/csp_monitor_apm.c:101-126): its number goes to the tracker of      *)
(* MeterTap, and the RTT ring of lib/ci_meas.c remembers the data frames   *)
(* and pairs an acknowledgement number with the newest of them that has    *)
(* that number.                                                            *)
(*                                                                         *)
(* The frames of the connection go one way, "fwd".  When every port is     *)
(* captured (-d -1) the second sequence of numbers of MeterTap is the      *)
(* other way, "rev", and both share one tracker and one ring; when one     *)
(* port is, the rev frames pass unseen.  The clock counts captured frames. *)
(***************************************************************************)
EXTENDS MeterTap, Sequences, FiniteSetsExt

CONSTANTS
  Ring,     \* CI_RTT_RING (256)
  Unseen    \* rev positions acknowledged in a capture of one port

ASSUME RingAssumption == Ring \in Nat \ {0} /\ Unseen \subseteq Nat

VARIABLES
  rtt,      \* mon_rtt
  sent,     \* every data frame captured, oldest first, and whether it was paired
  pair      \* the last frame: what it acknowledged, what was found, what should be

cvars == <<mvars, rtt, sent, pair>>

Frame(dir, pos) == [dir |-> dir, pos |-> pos]
NoFrame == Frame("none", 0)
Now == t.n_seen

RttInit ==
  [slot |-> [i \in 0 .. (Ring - 1) |-> [seq |-> 0, t_ms |-> 0, valid |-> FALSE]],
   head |-> 0]

OnData(p, seq) ==
  [slot |-> [p.slot EXCEPT ![p.head % Ring] = [seq |-> seq, t_ms |-> Now, valid |-> TRUE]],
   head |-> p.head + 1]

\* Mutant: the search starts at the slot to be overwritten next.
NewestOldest(p, ack) ==
  LET age == {k \in 0 .. (Ring - 1) : LET s == p.slot[(p.head + k) % Ring]
                                      IN  s.valid /\ s.seq = ack}
  IN  IF age = {} THEN -1 ELSE (p.head + Min(age)) % Ring

\* The slot of the newest data frame with this number, -1 if there is none.
Newest(p, ack) ==
  LET age == {k \in 0 .. (Ring - 1) : LET s == p.slot[(p.head - 1 - k) % Ring]
                                      IN  s.valid /\ s.seq = ack}
  IN  IF age = {} THEN -1 ELSE (p.head - 1 - Min(age)) % Ring

OnAck(p, ack) ==
  LET i == Newest(p, ack)
  IN  IF i = -1 THEN p ELSE [p EXCEPT !.slot[i].valid = FALSE]

\* The reference: the last Ring data frames, as a plain list.
Candidates(s, ack) ==
  {i \in DOMAIN s : i > Len(s) - Ring /\ ~s[i].paired /\ SeqOf(s[i].frame.pos) = ack}

\* The data frame captured at a time.
Captured(s, time) ==
  LET at == {i \in DOMAIN s : s[i].t = time}
  IN  IF at = {} THEN NoFrame ELSE s[Max(at)].frame

\* Mutant: frames without payload are recorded too.
RecordsAny(payload) == TRUE

\* Only frames longer than the trailer are data.
Records(payload) == payload

\* One captured frame: after the tracker, the ring learns its number, then its
\* acknowledgement is looked up.
Pairing(frame, payload, acked) ==
  LET seq  == SeqOf(frame.pos)
      ack  == SeqOf(acked.pos)
      r    == IF Records(payload) THEN OnData(rtt, seq) ELSE rtt
      s    == IF payload THEN Append(sent, [frame |-> frame, t |-> Now, paired |-> FALSE])
              ELSE sent
      i    == Newest(r, ack)
      j    == Max(Candidates(s, ack) \cup {0})
  IN  /\ rtt' = OnAck(r, ack)
      /\ sent' = IF j = 0 THEN s ELSE [s EXCEPT ![j].paired = TRUE]
      /\ pair' = [from |-> frame.dir, acked |-> acked,
                  rtt |-> IF i = -1 THEN -1 ELSE Now - r.slot[i].t_ms,
                  want |-> IF j = 0 THEN -1 ELSE Now - s[j].t,
                  found |-> IF i = -1 THEN NoFrame ELSE Captured(s, r.slot[i].t_ms)]

-----------------------------------------------------------------------------
CInit ==
  /\ MInit
  /\ rtt = RttInit
  /\ sent = <<>>
  /\ pair = [from |-> "none", acked |-> NoFrame, rtt |-> -1, want |-> -1, found |-> NoFrame]

\* What a fwd frame acknowledges.
RevAcked == IF other = -1 THEN Unseen ELSE {other - 1}

\* A frame without payload carries the number of a packet sent or of the next.
FwdFrame(p) ==
  /\ Begin(p) \/ Observe(p)
  /\ \E payload \in BOOLEAN, q \in RevAcked :
       /\ payload \/ p <= high + 1
       /\ Pairing(Frame("fwd", p), payload, Frame("rev", q))

\* The peer acknowledges a recent position.
RevFrame ==
  /\ ObserveOther
  /\ \E payload \in BOOLEAN, q \in (high - Depth) .. high :
       /\ q >= 0
       /\ Pairing(Frame("rev", other), payload, Frame("fwd", q))

CNext ==
  \/ \E p \in Starts \cup ((high - Depth) .. (high + Jump)) : FwdFrame(p)
  \/ RevFrame

CSpec == CInit /\ [][CNext]_cvars

-----------------------------------------------------------------------------
(* Properties.                                                             *)

\* "Search newest-first so an ACK pairs with the most recent matching data": the
\* interval the ring reports is the one a search of the last Ring data frames
\* gives, each used once, however often the cursor went round.
PairingIsSearch == pair.rtt = pair.want

\* "match a data packet's seq to the ACK whose ack_nr names it": a pairing of two
\* frames that go opposite ways is with a data frame of the very packet that is
\* acknowledged, not of the one a whole sequence space earlier.  (A number may
\* also be found among the frames of the acknowledging side itself.)
PairNamesPacket ==
  pair.rtt # -1 /\ pair.found.dir # pair.from => pair.found = pair.acked

=============================================================================
