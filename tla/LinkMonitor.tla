----------------------------- MODULE LinkMonitor ----------------------------
(***************************************************************************)
(* The promiscuous link monitor (apm/csp_monitor_apm.c): the csh thread    *)
(* that runs `csp_monitor start` and `csp_monitor stop`, the drainer       *)
(* thread, and the libcsp router that clones every frame into the promisc  *)
(* queue, from a buffer pool it shares with everybody else.                *)
(*                                                                         *)
(* A sender numbers the frames of one flow with positions 1, 2, ...; the   *)
(* link may lose any of them.  Frames the monitor does not feed to its     *)
(* tracker (another port, DTP, too short) have position 0.  They take room *)
(* in the queue and the pool all the same.                                 *)
(***************************************************************************)
EXTENDS SeqMeter, Sequences

CONSTANTS
  QueueLen,     \* CSP_CONN_RXQUEUE_LEN
  PoolSize,     \* buffers in the CSP pool
  LowWater,     \* mon_buffer_low_water
  U8,           \* the debug counters wrap here (256)
  Failures,     \* subset of {"open", "create"}: what may fail in a start
  MaxFrames,    \* bound: frames of the flow sent
  MaxOther,     \* bound: other frames sent and failures of other users
  MaxSessions   \* bound: start commands

ASSUME MonitorAssumption ==
  /\ QueueLen \in Nat \ {0}
  /\ PoolSize \in Nat
  /\ LowWater \in Nat
  /\ U8 \in Nat \ {0}
  /\ Failures \subseteq {"open", "create"}
  /\ MaxFrames \in 0 .. (Half - 1)
  /\ MaxOther \in Nat
  /\ MaxSessions \in Nat

VARIABLES
  main,         \* where the csh thread is
  running,      \* mon_running
  csv,          \* mon_csv: 0 when NULL, else the start that opened it
  sess,         \* start commands so far
  pc,           \* where the drainer thread is
  pk,           \* the clone it holds, or NoClone
  mon_seq,      \* the tracker
  prev,         \* prev_ovf, prev_bout
  suspect,      \* the verdict sampled for the row being written
  promisc,      \* libcsp: clone into the queue
  queue,        \* libcsp: the promisc queue
  free,         \* libcsp: csp_buffer_remaining()
  dbg,          \* libcsp: csp_dbg_conn_ovf and csp_dbg_buffer_out
  users,        \* buffers other users hold
  sent, others, \* frames of the flow sent so far; other frames and failures
  linklost,     \* positions the link lost
  row,          \* last #WINDOW row of this start, or NoRow
  flagged,      \* some row of this start was suspect
  unseen,       \* a clone was lost, or a counter moved, where no window looks
  failed        \* some start command has failed

thread == <<pc, pk, mon_seq, prev, suspect, row, flagged>>
cmd == <<main, running, csv, sess>>
link == <<sent, others, linklost>>
pool == <<free, dbg, users>>
lib == <<promisc, queue, pool>>
ghost == <<unseen, failed>>
vars == <<cmd, thread, lib, link, ghost>>

NoClone == [pos |-> 0, sess |-> 0]
NoRow == [suspect |-> FALSE, inferred |-> 0, max |-> 0]

Init ==
  /\ main = "idle" /\ running = FALSE /\ csv = 0 /\ sess = 0
  /\ pc = "none" /\ pk = NoClone /\ mon_seq = NewMeter
  /\ prev = [ovf |-> 0, out |-> 0] /\ suspect = FALSE
  /\ row = NoRow /\ flagged = FALSE /\ unseen = FALSE /\ failed = FALSE
  /\ promisc = FALSE /\ queue = <<>> /\ free = PoolSize
  /\ dbg = [ovf |-> 0, out |-> 0] /\ users = 0
  /\ sent = 0 /\ others = 0 /\ linklost = {}

-----------------------------------------------------------------------------
(* csp_monitor start.  A start with bad options, one whose promisc enable  *)
(* fails, and one while running return without touching this state.        *)

StartEnable ==
  /\ main = "idle"
  /\ ~running
  /\ sess < MaxSessions
  /\ sess' = sess + 1
  /\ promisc' = TRUE
  /\ main' = "open"
  /\ row' = NoRow
  /\ flagged' = FALSE
  /\ unseen' = FALSE
  /\ UNCHANGED <<running, csv, pc, pk, mon_seq, prev, suspect, queue, pool, link, failed>>

\* fopen fails: the command returns and promisc stays enabled.
OpenFails ==
  /\ main = "open"
  /\ "open" \in Failures
  /\ main' = "idle"
  /\ failed' = TRUE
  /\ UNCHANGED <<running, csv, sess, thread, lib, link, unseen>>

Open ==
  /\ main = "open"
  /\ csv' = sess
  /\ main' = "create"
  /\ UNCHANGED <<running, sess, thread, lib, link, ghost>>

\* pthread_create fails: promisc is disabled and the file closed.
CreateFails ==
  /\ main = "create"
  /\ "create" \in Failures
  /\ promisc' = FALSE
  /\ csv' = 0
  /\ main' = "idle"
  /\ failed' = TRUE
  /\ UNCHANGED <<running, sess, thread, queue, pool, link, unseen>>

Create ==
  /\ main = "create"
  /\ running' = TRUE
  /\ pc' = "init"
  /\ main' = "idle"
  /\ UNCHANGED <<csv, sess, pk, mon_seq, prev, suspect, row, flagged, lib, link, ghost>>

-----------------------------------------------------------------------------
(* csp_monitor stop.                                                       *)

StopCmd ==
  /\ main = "idle"
  /\ running
  /\ running' = FALSE
  /\ main' = "join"
  /\ UNCHANGED <<csv, sess, thread, lib, link, ghost>>

JoinAs(ended) ==
  /\ main = "join"
  /\ ended
  /\ pc' = IF pc = "done" THEN "none" ELSE pc
  /\ main' = "disable"
  /\ UNCHANGED <<running, csv, sess, pk, mon_seq, prev, suspect, row, flagged, lib, link, ghost>>

\* Mutant: the drainer is not waited for.
JoinEarly == JoinAs(TRUE)

Join == JoinAs(pc = "done")

DisableAs(on) ==
  /\ main = "disable"
  /\ promisc' = on
  /\ main' = "drain"
  /\ UNCHANGED <<running, csv, sess, thread, queue, pool, link, ghost>>

\* Mutant: the queue is drained while the router still clones.
DisableLate == DisableAs(promisc)

Disable == DisableAs(FALSE)

\* One turn of mon_drain_residual.
DrainResidual ==
  /\ main = "drain"
  /\ queue # <<>>
  /\ queue' = Tail(queue)
  /\ free' = free + 1
  /\ UNCHANGED <<cmd, thread, promisc, dbg, users, link, ghost>>

\* Mutant: what the drainer left in the queue stays there.
DrainedEarly == TRUE

Drained == queue = <<>>

StopClose ==
  /\ main = "drain"
  /\ Drained
  /\ csv' = 0
  /\ main' = "idle"
  /\ UNCHANGED <<running, sess, thread, lib, link, ghost>>

-----------------------------------------------------------------------------
(* The drainer.                                                            *)

DrainerInit ==
  /\ pc = "init"
  /\ mon_seq' = NewMeter
  /\ prev' = dbg
  /\ pc' = "loop"
  /\ UNCHANGED <<pk, suspect, row, flagged, cmd, lib, link, ghost>>

DrainerExit ==
  /\ pc = "loop"
  /\ ~running
  /\ pc' = "done"
  /\ UNCHANGED <<pk, mon_seq, prev, suspect, row, flagged, cmd, lib, link, ghost>>

\* csp_promisc_read: a clone, or NULL, after which the drainer goes on at `at`.
ReadOr(at) ==
  /\ pc = "loop"
  /\ running
  /\ IF queue = <<>>
       THEN pc' = at /\ UNCHANGED <<pk, queue>>
       ELSE pc' = "feed" /\ pk' = Head(queue) /\ queue' = Tail(queue)
  /\ UNCHANGED <<mon_seq, prev, suspect, row, flagged, cmd, promisc, pool, link, ghost>>

\* Mutant: the read waits for a clone without a time-out.
ReadForever == ReadOr("blocked")

\* After 100 ms without a clone the window is looked at.
Read == ReadOr("clock")

\* Mutant: the clone is freed twice.
FreeCloneTwice == free' = free + 2

FreeClone == free' = free + 1

\* The clone is parsed, fed to the tracker if it is a frame of the flow, logged
\* and freed.
FeedClone ==
  /\ pc = "feed"
  /\ mon_seq' = IF pk.pos = 0 THEN mon_seq ELSE Feed(mon_seq, SeqOf(pk.pos))
  /\ pk' = NoClone
  /\ FreeClone
  /\ pc' = "clock"
  /\ UNCHANGED <<prev, suspect, row, flagged, cmd, promisc, queue, dbg, users, link, ghost>>

\* The window is not over yet.
NotDue ==
  /\ pc = "clock"
  /\ pc' = "loop"
  /\ UNCHANGED <<pk, mon_seq, prev, suspect, row, flagged, cmd, lib, link, ghost>>

Delta(was, is) == (is - was) % U8

\* Mutant: only the counted instrument loss is looked at.
SuspectCounted == Delta(prev.ovf, dbg.ovf) > 0 \/ free < LowWater

MeasurementSuspect ==
  \/ Delta(prev.ovf, dbg.ovf) > 0
  \/ Delta(prev.out, dbg.out) > 0
  \/ free < LowWater

Sample ==
  /\ pc = "clock"
  /\ suspect' = (MeasurementSuspect \/ ~Trustworthy(mon_seq))
  /\ pc' = "store"
  /\ UNCHANGED <<pk, mon_seq, prev, row, flagged, cmd, lib, link, ghost>>

\* The row is written and the counters are read again as the next baseline.
WriteRow ==
  /\ pc = "store"
  /\ row' = [suspect |-> suspect, inferred |-> Loss(mon_seq), max |-> mon_seq.max]
  /\ flagged' = (flagged \/ suspect)
  /\ prev' = dbg
  /\ pc' = "loop"
  /\ UNCHANGED <<pk, mon_seq, suspect, cmd, lib, link, ghost>>

-----------------------------------------------------------------------------
(* libcsp: the router and the other users of the pool.                     *)

\* A clone is lost where no delta will show it: before the drainer took its
\* first baseline, or between a row's sample and the next baseline.
OutsideWindows == promisc /\ pc \in {"none", "init", "store", "done"}

\* A counter is back at its baseline: U8 losses in one window look like none.
FullTurn(was, is) == Delta(was, (is + 1) % U8) = 0

\* csp_promisc_add: a full queue and an empty pool each lose the clone and count
\* it; nothing happens while promisc is off.
PromiscAdd(pos) ==
  IF ~promisc THEN UNCHANGED <<queue, free, dbg, unseen>>
  ELSE IF free = 0
    THEN /\ dbg' = [dbg EXCEPT !.out = (@ + 1) % U8]
         /\ unseen' = (unseen \/ OutsideWindows \/ FullTurn(prev.out, dbg.out))
         /\ UNCHANGED <<queue, free>>
  ELSE IF Len(queue) = QueueLen
    THEN /\ dbg' = [dbg EXCEPT !.ovf = (@ + 1) % U8]
         /\ unseen' = (unseen \/ OutsideWindows \/ FullTurn(prev.ovf, dbg.ovf))
         /\ UNCHANGED <<queue, free>>
  ELSE   /\ queue' = Append(queue, [pos |-> pos, sess |-> sess])
         /\ free' = free - 1
         /\ UNCHANGED <<dbg, unseen>>

FlowFrame ==
  /\ sent < MaxFrames
  /\ sent' = sent + 1
  /\ PromiscAdd(sent + 1)
  /\ UNCHANGED <<others, linklost, cmd, thread, promisc, users, failed>>

LinkLoss ==
  /\ sent < MaxFrames
  /\ sent' = sent + 1
  /\ linklost' = linklost \cup {sent + 1}
  /\ UNCHANGED <<others, cmd, thread, lib, ghost>>

OtherFrame ==
  /\ others < MaxOther
  /\ others' = others + 1
  /\ PromiscAdd(0)
  /\ UNCHANGED <<sent, linklost, cmd, thread, promisc, users, failed>>

UserTakes ==
  /\ free > 0
  /\ free' = free - 1
  /\ users' = users + 1
  /\ UNCHANGED <<cmd, thread, promisc, queue, dbg, link, ghost>>

\* The counters are everybody's: a csp_buffer_get of another user that finds the
\* pool empty and a full queue of another connection move them too, and a window
\* cannot tell.  No clone is lost; but such a move may end a full turn, or come
\* between a row's sample and the next baseline.
OtherFails ==
  /\ others < MaxOther
  /\ others' = others + 1
  /\ \/ /\ free = 0
        /\ dbg' = [dbg EXCEPT !.out = (@ + 1) % U8]
        /\ unseen' = (unseen \/ pc = "store" \/ FullTurn(prev.out, dbg.out))
     \/ /\ dbg' = [dbg EXCEPT !.ovf = (@ + 1) % U8]
        /\ unseen' = (unseen \/ pc = "store" \/ FullTurn(prev.ovf, dbg.ovf))
  /\ UNCHANGED <<cmd, thread, promisc, queue, free, users, sent, linklost, failed>>

UserReturns ==
  /\ users > 0
  /\ users' = users - 1
  /\ free' = free + 1
  /\ UNCHANGED <<cmd, thread, promisc, queue, dbg, link, ghost>>

-----------------------------------------------------------------------------
Command ==
  Open \/ OpenFails \/ Create \/ CreateFails \/ Join \/ Disable \/ DrainResidual \/ StopClose

Drainer ==
  DrainerInit \/ DrainerExit \/ Read \/ FeedClone \/ NotDue \/ Sample \/ WriteRow

Libcsp == FlowFrame \/ LinkLoss \/ OtherFrame \/ UserTakes \/ OtherFails \/ UserReturns

Next == StartEnable \/ StopCmd \/ Command \/ Drainer \/ Libcsp

\* A command that was begun goes on and the drainer thread is scheduled; the
\* operator and the traffic promise nothing.
Spec == Init /\ [][Next]_vars /\ WF_vars(Command) /\ WF_vars(Drainer)

-----------------------------------------------------------------------------
(* Properties.                                                             *)

TypeOK ==
  /\ main \in {"idle", "open", "create", "join", "disable", "drain"}
  /\ running \in BOOLEAN
  /\ csv \in 0 .. sess
  /\ sess \in 0 .. MaxSessions
  /\ pc \in {"none", "init", "loop", "feed", "clock", "store", "done"}
  /\ free \in 0 .. PoolSize
  /\ users \in 0 .. PoolSize
  /\ Len(queue) <= QueueLen
  /\ dbg \in [ovf : 0 .. (U8 - 1), out : 0 .. (U8 - 1)]
  /\ sent \in 0 .. MaxFrames

\* "race-free: no writes to mon_csv after this": as long as there is a drainer
\* thread, mon_csv is the file its own start opened.
CsvOutlivesDrainer == pc \notin {"none", "done"} => csv = sess /\ csv # 0

\* No clone is lost sight of: every buffer is free, queued, held by the drainer
\* or with another user, and after a stop the monitor holds none (a start that
\* could not create its thread leaves some).
LeakFree ==
  /\ free + Len(queue) + users + (IF pc = "feed" THEN 1 ELSE 0) = PoolSize
  /\ main = "idle" /\ ~running /\ ~failed => queue = <<>>

\* The tracker of a capture is fed only frames of that capture, never what was
\* queued before it: the mon_drain_residual comment.
NoStaleIngest == pc = "feed" => pk.sess = sess

\* The same for captures that no failed start precedes.
FreshCaptures == ~failed => NoStaleIngest

\* As long as no row of the capture was flagged, the loss a row claims is what
\* the link itself lost between the first and the highest frame fed, provided
\* no clone was lost outside the windows, none of the two 8-bit counters went
\* all the way round in one window or moved between a row's sample and the next
\* baseline, and no failed start came before.
CleanRowsAreLinkLoss ==
  ~flagged /\ ~unseen /\ ~failed =>
    row.inferred = Cardinality({p \in linklost : mon_seq.first <= p /\ p <= row.max})

\* A command always returns to the prompt: the drainer sees mon_running within a
\* read time-out and the residual drain ends because nothing is added any more.
CommandReturns == main # "idle" ~> main = "idle"

=============================================================================
