------------------------- MODULE LinkMonitor_proofs -------------------------
(***************************************************************************)
(* The life cycle of the link monitor (apm/csp_monitor_apm.c), for every   *)
(* queue length, pool size and number of sessions: the CSV file outlives   *)
(* the drainer, no clone of the shared pool is lost sight of, no clone of  *)
(* an earlier capture is fed to a later one, and the loss that unflagged   *)
(* rows claim is the link's.                                               *)
(***************************************************************************)
EXTENDS LinkMonitor, SeqMeter_proofs, FiniteSetTheorems, SequenceTheorems

Clone == [pos : Nat, sess : Nat]

Held == IF pc = "feed" THEN 1 ELSE 0

\* The rest of the types.
MoreTypes ==
  /\ queue \in Seq(Clone)
  /\ pk \in Clone
  /\ promisc \in BOOLEAN
  /\ failed \in BOOLEAN
  /\ others \in 0 .. MaxOther
  /\ prev \in [ovf : 0 .. (U8 - 1), out : 0 .. (U8 - 1)]

\* Every buffer of the pool is somewhere.
Conserved == free + Len(queue) + users + Held = PoolSize

\* Which states of the two threads go together: a drainer exists exactly from
\* the end of a start to the join of the stop, and the router clones meanwhile.
Phases ==
  /\ running \/ main \in {"open", "create", "join"} => promisc
  /\ running => main = "idle" /\ pc \notin {"none", "done"}
  /\ main = "join" => pc # "none"
  /\ pc # "none" => running \/ main = "join"

\* The file of the current start is open as long as a stop has not closed it.
FileOpen ==
  /\ main # "idle" \/ running => sess # 0
  /\ main \in {"create", "join", "disable", "drain"} \/ running => csv = sess

\* While no start has failed, the queue holds clones of the current capture
\* only, and none at all between captures.
Fresh ==
  /\ main = "drain" => ~promisc
  /\ ~failed =>
       /\ \A i \in 1 .. Len(queue) : queue[i].sess = sess
       /\ pc = "feed" => pk.sess = sess
       /\ main = "idle" /\ ~running => ~promisc /\ queue = <<>>

MonInv == TypeOK /\ MoreTypes /\ Conserved /\ Phases /\ FileOpen /\ Fresh

LEMMA InitMon == Init => MonInv
<1> SUFFICES ASSUME Init PROVE MonInv
  OBVIOUS
<1>1. TypeOK
  <2>1. /\ 0 \in 0 .. (U8 - 1) /\ Len(queue) = 0
        /\ csv \in 0 .. sess /\ sess \in 0 .. MaxSessions /\ sent \in 0 .. MaxFrames
        /\ free \in 0 .. PoolSize /\ users \in 0 .. PoolSize /\ Len(queue) <= QueueLen
    BY MonitorAssumption, SeqAssumption DEF Init
  <2>2. dbg \in [ovf : 0 .. (U8 - 1), out : 0 .. (U8 - 1)]
    BY <2>1 DEF Init
  <2> QED BY <2>1, <2>2, MonitorAssumption DEF Init, TypeOK
<1>2. MoreTypes
  <2>1. 0 \in 0 .. (U8 - 1) /\ 0 \in 0 .. MaxOther /\ queue \in Seq(Clone)
    BY MonitorAssumption, EmptySeq DEF Init
  <2>2. prev \in [ovf : 0 .. (U8 - 1), out : 0 .. (U8 - 1)] /\ pk \in Clone
    BY <2>1 DEF Init, NoClone, Clone
  <2> QED BY <2>1, <2>2 DEF Init, MoreTypes
<1>3. Conserved
  BY MonitorAssumption DEF Init, Conserved, Held
<1>4. Phases /\ FileOpen /\ Fresh
  BY DEF Init, Phases, FileOpen, Fresh
<1> QED BY <1>1, <1>2, <1>3, <1>4 DEF MonInv

\* The operator's commands.
LEMMA CommandMon ==
  ASSUME MonInv, StartEnable \/ StopCmd \/ Command
  PROVE  MonInv'
<1> USE MonitorAssumption DEF MonInv
<1>1. CASE StartEnable
  BY <1>1 DEF StartEnable, TypeOK, MoreTypes, Conserved, Phases, FileOpen, Fresh, Held, link, pool
<1>2. CASE StopCmd
  BY <1>2 DEF StopCmd, TypeOK, MoreTypes, Conserved, Phases, FileOpen, Fresh, Held, thread, lib, link, ghost, pool
<1>3. CASE Open
  BY <1>3 DEF Open, TypeOK, MoreTypes, Conserved, Phases, FileOpen, Fresh, Held, thread, lib, link, ghost, pool
<1>4. CASE OpenFails
  BY <1>4 DEF OpenFails, TypeOK, MoreTypes, Conserved, Phases, FileOpen, Fresh, Held, thread, lib, link, pool
<1>5. CASE Create
  BY <1>5 DEF Create, TypeOK, MoreTypes, Conserved, Phases, FileOpen, Fresh, Held, lib, link, ghost, pool
<1>6. CASE CreateFails
  <2>1. TypeOK' /\ MoreTypes'
    <3>1. 0 \in 0 .. sess
      BY DEF TypeOK
    <3> QED BY <1>6, <3>1 DEF CreateFails, TypeOK, MoreTypes, thread, link, pool
  <2>2. Conserved' /\ Phases' /\ FileOpen' /\ Fresh'
    BY <1>6 DEF CreateFails, Conserved, Phases, FileOpen, Fresh, Held, thread, pool
  <2> QED BY <2>1, <2>2
<1>7. CASE Join
  BY <1>7 DEF Join, JoinAs, TypeOK, MoreTypes, Conserved, Phases, FileOpen, Fresh, Held, lib, link, ghost, pool
<1>8. CASE Disable
  BY <1>8 DEF Disable, DisableAs, TypeOK, MoreTypes, Conserved, Phases, FileOpen, Fresh, Held, thread, link, ghost, pool
<1>9. CASE DrainResidual
  <2>1. /\ Tail(queue) \in Seq(Clone) /\ Len(Tail(queue)) = Len(queue) - 1
        /\ Len(queue) \in Nat \ {0}
        /\ \A i \in 1 .. Len(Tail(queue)) : Tail(queue)[i] = queue[i + 1] /\ i + 1 \in 1 .. Len(queue)
    BY <1>9 DEF DrainResidual, MoreTypes
  <2>2. Conserved' /\ free' \in 0 .. PoolSize
    BY <1>9, <2>1 DEF DrainResidual, TypeOK, Conserved, Held, cmd, thread
  <2>3. TypeOK' /\ MoreTypes'
    BY <1>9, <2>1, <2>2 DEF DrainResidual, TypeOK, MoreTypes, cmd, thread, link, ghost
  <2>4. Phases' /\ FileOpen' /\ Fresh'
    BY <1>9, <2>1 DEF DrainResidual, Phases, FileOpen, Fresh, cmd, thread, ghost
  <2> QED BY <2>2, <2>3, <2>4
<1>10. CASE StopClose
  BY <1>10 DEF StopClose, Drained, TypeOK, MoreTypes, Conserved, Phases, FileOpen, Fresh, Held, thread, lib, link, ghost, pool
<1> QED BY <1>1, <1>2, <1>3, <1>4, <1>5, <1>6, <1>7, <1>8, <1>9, <1>10 DEF Command

\* A clone leaves the queue.
LEMMA TailClone ==
  ASSUME NEW q \in Seq(Clone), q # <<>>
  PROVE  /\ Len(q) \in Nat \ {0}
         /\ Head(q) = q[1] /\ Head(q) \in Clone
         /\ Tail(q) \in Seq(Clone) /\ Len(Tail(q)) = Len(q) - 1
         /\ \A i \in 1 .. Len(Tail(q)) : Tail(q)[i] = q[i + 1] /\ i + 1 \in 1 .. Len(q)
OBVIOUS

\* The drainer thread.
LEMMA DrainerMon ==
  ASSUME MonInv, Drainer
  PROVE  MonInv'
<1> USE MonitorAssumption DEF MonInv
<1>1. CASE DrainerInit
  BY <1>1 DEF DrainerInit, TypeOK, MoreTypes, Conserved, Phases, FileOpen, Fresh, Held, cmd, lib, link, ghost, pool
<1>2. CASE DrainerExit
  BY <1>2 DEF DrainerExit, TypeOK, MoreTypes, Conserved, Phases, FileOpen, Fresh, Held, cmd, lib, link, ghost, pool
<1>3. CASE Read
  <2>1. CASE queue = <<>>
    BY <1>3, <2>1 DEF Read, ReadOr, TypeOK, MoreTypes, Conserved, Phases, FileOpen, Fresh, Held, cmd, pool, link, ghost
  <2>2. CASE queue # <<>>
    <3>1. pc = "loop" /\ pc' = "feed" /\ pk' = Head(queue) /\ queue' = Tail(queue) /\ running
      BY <1>3, <2>2 DEF Read, ReadOr
    <3>2. UNCHANGED <<cmd, promisc, pool, link, ghost, prev>>
      BY <1>3 DEF Read, ReadOr
    <3>3. /\ Len(queue) \in Nat \ {0} /\ Head(queue) = queue[1] /\ Head(queue) \in Clone
          /\ Tail(queue) \in Seq(Clone) /\ Len(Tail(queue)) = Len(queue) - 1
          /\ \A i \in 1 .. Len(Tail(queue)) :
               Tail(queue)[i] = queue[i + 1] /\ i + 1 \in 1 .. Len(queue)
      BY <2>2, TailClone DEF MoreTypes
    <3>4. TypeOK' /\ MoreTypes'
      BY <3>1, <3>2, <3>3 DEF TypeOK, MoreTypes, cmd, pool, link, ghost
    <3>5. Conserved'
      BY <3>1, <3>2, <3>3 DEF Conserved, Held, pool, TypeOK
    <3>6. Phases' /\ FileOpen' /\ Fresh'
      BY <3>1, <3>2, <3>3 DEF Phases, FileOpen, Fresh, cmd, ghost
    <3> QED BY <3>4, <3>5, <3>6
  <2> QED BY <2>1, <2>2
<1>4. CASE FeedClone
  <2>1. Conserved' /\ free' \in 0 .. PoolSize
    BY <1>4 DEF FeedClone, FreeClone, TypeOK, MoreTypes, Conserved, Held
  <2>2. TypeOK' /\ MoreTypes'
    BY <1>4, <2>1 DEF FeedClone, TypeOK, MoreTypes, NoClone, Clone, cmd, link, ghost
  <2>3. Phases' /\ FileOpen' /\ Fresh'
    BY <1>4 DEF FeedClone, Phases, FileOpen, Fresh, cmd, ghost
  <2> QED BY <2>1, <2>2, <2>3
<1>5. CASE NotDue
  BY <1>5 DEF NotDue, TypeOK, MoreTypes, Conserved, Phases, FileOpen, Fresh, Held, cmd, lib, link, ghost, pool
<1>6. CASE Sample
  BY <1>6 DEF Sample, TypeOK, MoreTypes, Conserved, Phases, FileOpen, Fresh, Held, cmd, lib, link, ghost, pool
<1>7. CASE WriteRow
  BY <1>7 DEF WriteRow, TypeOK, MoreTypes, Conserved, Phases, FileOpen, Fresh, Held, cmd, lib, link, ghost, pool
<1> QED BY <1>1, <1>2, <1>3, <1>4, <1>5, <1>6, <1>7 DEF Drainer

LEMMA WrapType ==
  ASSUME NEW x \in 0 .. (U8 - 1)
  PROVE  (x + 1) % U8 \in 0 .. (U8 - 1)
BY MonitorAssumption

\* csp_promisc_add, in each of its four cases.
LEMMA PromiscAddCases ==
  ASSUME MonInv, NEW pos \in Nat, PromiscAdd(pos)
  PROVE  \/ UNCHANGED <<queue, free, dbg, unseen>>
         \/ /\ UNCHANGED <<queue, free>>
            /\ dbg' \in [ovf : 0 .. (U8 - 1), out : 0 .. (U8 - 1)]
         \/ /\ promisc /\ free' = free - 1 /\ free > 0
            /\ UNCHANGED <<dbg, unseen>>
            /\ queue' = Append(queue, [pos |-> pos, sess |-> sess])
            /\ queue' \in Seq(Clone)
            /\ Len(queue') = Len(queue) + 1 /\ Len(queue') <= QueueLen
            /\ \A i \in 1 .. Len(queue') :
                 queue'[i] = IF i <= Len(queue) THEN queue[i] ELSE [pos |-> pos, sess |-> sess]
<1> USE MonitorAssumption
<1>1. CASE ~promisc
  BY <1>1 DEF PromiscAdd
<1>2. CASE promisc /\ free = 0
  <2>1. dbg' = [dbg EXCEPT !.out = (@ + 1) % U8] /\ UNCHANGED <<queue, free>>
    BY <1>2 DEF PromiscAdd
  <2> QED BY <2>1, WrapType DEF MonInv, TypeOK
<1>3. CASE promisc /\ free # 0 /\ Len(queue) = QueueLen
  <2>1. dbg' = [dbg EXCEPT !.ovf = (@ + 1) % U8] /\ UNCHANGED <<queue, free>>
    BY <1>3 DEF PromiscAdd
  <2> QED BY <2>1, WrapType DEF MonInv, TypeOK
<1>4. CASE promisc /\ free # 0 /\ Len(queue) # QueueLen
  <2> DEFINE c == [pos |-> pos, sess |-> sess]
  <2>1. /\ queue' = Append(queue, c) /\ free' = free - 1
        /\ UNCHANGED <<dbg, unseen>>
    BY <1>4 DEF PromiscAdd
  <2>2. c \in Clone /\ queue \in Seq(Clone)
    BY DEF MonInv, TypeOK, MoreTypes, Clone
  <2>3. /\ queue' \in Seq(Clone) /\ Len(queue') = Len(queue) + 1 /\ Len(queue) \in Nat
        /\ \A i \in 1 .. Len(queue') : queue'[i] = IF i <= Len(queue) THEN queue[i] ELSE c
    BY <2>1, <2>2
  <2>4. Len(queue) < QueueLen /\ free > 0
    BY <1>4, <2>3 DEF MonInv, TypeOK
  <2> QED BY <1>4, <2>1, <2>3, <2>4
<1> QED BY <1>1, <1>2, <1>3, <1>4

\* A frame reaches the router.
LEMMA RoutedMon ==
  ASSUME MonInv, NEW pos \in Nat, PromiscAdd(pos),
         UNCHANGED <<linklost, cmd, thread, promisc, users, failed>>,
         sent' \in 0 .. MaxFrames, others' \in 0 .. MaxOther
  PROVE  MonInv'
<1> USE MonitorAssumption DEF MonInv
<1>1. CASE UNCHANGED <<queue, free, dbg, unseen>>
  BY <1>1 DEF TypeOK, MoreTypes, Conserved, Phases, FileOpen, Fresh, Held, cmd, thread
<1>2. CASE /\ UNCHANGED <<queue, free>>
           /\ dbg' \in [ovf : 0 .. (U8 - 1), out : 0 .. (U8 - 1)]
  BY <1>2 DEF TypeOK, MoreTypes, Conserved, Phases, FileOpen, Fresh, Held, cmd, thread
<1>3. CASE /\ promisc /\ free' = free - 1 /\ free > 0
           /\ UNCHANGED <<dbg, unseen>>
           /\ queue' \in Seq(Clone)
           /\ Len(queue') = Len(queue) + 1 /\ Len(queue') <= QueueLen
           /\ \A i \in 1 .. Len(queue') :
                queue'[i] = IF i <= Len(queue) THEN queue[i] ELSE [pos |-> pos, sess |-> sess]
  <2>0. Len(queue) \in Nat
    BY DEF MoreTypes
  <2>1. Conserved' /\ free' \in 0 .. PoolSize
    <3>1. Len(queue') = Len(queue) + 1 /\ free' = free - 1 /\ users' = users /\ Held' = Held
      BY <1>3 DEF Held, thread
    <3>2. free' \in 0 .. PoolSize /\ users \in Nat /\ Held \in Nat
      BY <1>3 DEF TypeOK, Held
    <3> QED BY <2>0, <3>1, <3>2 DEF TypeOK, Conserved
  <2>2. TypeOK' /\ MoreTypes'
    BY <1>3, <2>1 DEF TypeOK, MoreTypes, cmd, thread
  <2>3. Phases' /\ FileOpen'
    BY DEF Phases, FileOpen, cmd, thread
  <2>4. Fresh'
    <3>1. ~failed => ~(main = "idle" /\ ~running) /\ main # "drain"
      BY <1>3 DEF Fresh
    <3>2. ~failed => \A i \in 1 .. Len(queue') : queue'[i].sess = sess
      BY <1>3, <2>0 DEF Fresh
    <3> QED BY <1>3, <3>1, <3>2 DEF Fresh, cmd, thread
  <2> QED BY <2>1, <2>2, <2>3, <2>4
<1> QED BY <1>1, <1>2, <1>3, PromiscAddCases

\* The router, the link and the other users of the pool.
LEMMA LibcspMon ==
  ASSUME MonInv, Libcsp
  PROVE  MonInv'
<1> USE MonitorAssumption DEF MonInv
<1>1. CASE FlowFrame
  <2>1. sent + 1 \in Nat /\ sent' \in 0 .. MaxFrames /\ others' \in 0 .. MaxOther
    BY <1>1, SeqAssumption DEF FlowFrame, TypeOK, MoreTypes
  <2> QED BY <1>1, <2>1, RoutedMon DEF FlowFrame
<1>2. CASE LinkLoss
  <2>1. sent' \in 0 .. MaxFrames
    BY <1>2, SeqAssumption DEF LinkLoss, TypeOK
  <2> QED BY <1>2, <2>1
          DEF LinkLoss, TypeOK, MoreTypes, Conserved, Phases, FileOpen, Fresh, Held, cmd, thread, lib, ghost, pool
<1>3. CASE OtherFrame
  <2>1. 0 \in Nat /\ sent' \in 0 .. MaxFrames /\ others' \in 0 .. MaxOther
    BY <1>3 DEF OtherFrame, TypeOK, MoreTypes
  <2> QED BY <1>3, <2>1, RoutedMon DEF OtherFrame
<1>4. CASE UserTakes
  <2>1. Len(queue) \in Nat
    BY DEF MoreTypes
  <2>2. Conserved' /\ free' \in 0 .. PoolSize /\ users' \in 0 .. PoolSize
    BY <1>4, <2>1 DEF UserTakes, TypeOK, Conserved, Held, thread
  <2> QED BY <1>4, <2>2 DEF UserTakes, TypeOK, MoreTypes, Phases, FileOpen, Fresh, cmd, thread, link, ghost
<1>5. CASE UserReturns
  <2>1. Len(queue) \in Nat
    BY DEF MoreTypes
  <2>2. Conserved' /\ free' \in 0 .. PoolSize /\ users' \in 0 .. PoolSize
    BY <1>5, <2>1 DEF UserReturns, TypeOK, Conserved, Held, thread
  <2> QED BY <1>5, <2>2 DEF UserReturns, TypeOK, MoreTypes, Phases, FileOpen, Fresh, cmd, thread, link, ghost
<1>6. CASE OtherFails
  <2>1. dbg' \in [ovf : 0 .. (U8 - 1), out : 0 .. (U8 - 1)]
    BY <1>6, WrapType DEF OtherFails, TypeOK
  <2>2. others' \in 0 .. MaxOther
    BY <1>6 DEF OtherFails, MoreTypes
  <2> QED BY <1>6, <2>1, <2>2
          DEF OtherFails, TypeOK, MoreTypes, Conserved, Phases, FileOpen, Fresh, Held, cmd, thread
<1> QED BY <1>1, <1>2, <1>3, <1>4, <1>5, <1>6 DEF Libcsp

LEMMA NextMon == MonInv /\ [Next]_vars => MonInv'
<1> SUFFICES ASSUME MonInv, [Next]_vars PROVE MonInv'
  OBVIOUS
<1>1. CASE UNCHANGED vars
  BY <1>1 DEF vars, cmd, thread, lib, pool, link, ghost, MonInv, TypeOK, MoreTypes, Conserved, Phases,
              FileOpen, Fresh, Held
<1> QED BY <1>1, CommandMon, DrainerMon, LibcspMon DEF Next

LEMMA MonInvariance == Spec => []MonInv
BY InitMon, NextMon, PTL DEF Spec

\* Every variable of the monitor keeps its type; in particular neither the queue
\* nor the shared pool is ever overdrawn.
THEOREM MonitorTypes == Spec => []TypeOK
<1>1. MonInv => TypeOK
  BY DEF MonInv
<1> QED BY <1>1, MonInvariance, PTL

\* The drainer never writes to a CSV file that is closed or another start's.
THEOREM CsvIsOpen == Spec => []CsvOutlivesDrainer
<1>1. MonInv => CsvOutlivesDrainer
  BY DEF MonInv, Phases, FileOpen, CsvOutlivesDrainer
<1> QED BY <1>1, MonInvariance, PTL

\* csp_monitor stop gives every clone back to the pool.
THEOREM NoCloneLeaks == Spec => []LeakFree
<1>1. MonInv => LeakFree
  BY DEF MonInv, Conserved, Held, Fresh, LeakFree
<1> QED BY <1>1, MonInvariance, PTL

\* As long as no start has failed, a capture is fed its own frames only.
THEOREM CapturesAreFresh == Spec => []FreshCaptures
<1>1. MonInv => FreshCaptures
  BY DEF MonInv, Fresh, FreshCaptures, NoStaleIngest
<1> QED BY <1>1, MonInvariance, PTL

-----------------------------------------------------------------------------
(* The loss a clean row claims.                                            *)

\* The drainer is in its loop, and its tracker is the one of this capture.
Live == pc \in {"loop", "feed", "clock", "store"}
Seen == Live /\ mon_seq.have

\* Position p is captured and will be fed.
Pending(p) ==
  /\ p # 0
  /\ (\E i \in 1 .. Len(queue) : queue[i].pos = p) \/ (pc = "feed" /\ pk.pos = p)

LossTypes ==
  /\ linklost \subseteq 1 .. sent
  /\ Balanced(mon_seq)
  /\ row.max \in Int
  /\ flagged \in BOOLEAN /\ suspect \in BOOLEAN /\ unseen \in BOOLEAN

\* Captured frames wait in the order they were sent, ahead of the tracker.
InOrder ==
  ~failed =>
    /\ \A i, j \in 1 .. Len(queue) :
         i < j /\ queue[i].pos # 0 /\ queue[j].pos # 0 => queue[i].pos < queue[j].pos
    /\ pc = "feed" /\ pk.pos # 0 =>
         \A i \in 1 .. Len(queue) : queue[i].pos # 0 => pk.pos < queue[i].pos
    /\ \A p \in Nat : Pending(p) => p <= sent /\ p \notin linklost /\ (Seen => mon_seq.max < p)

MeterRange ==
  ~failed =>
    /\ mon_seq.have => 1 <= mon_seq.first /\ mon_seq.first <= mon_seq.max /\ mon_seq.max <= sent
    /\ ~mon_seq.have => mon_seq.max = 0

\* Nothing but the link has cost a frame since the capture's first one: nothing
\* was lost where no window looks, no row was flagged, and in the window that is
\* open now the counters stand where it began.
Clean ==
  /\ ~flagged /\ ~unseen /\ ~failed
  /\ main \in {"open", "create"} \/ pc = "init" \/ (Live /\ dbg = prev)

\* Then every position beyond the first one captured is the link's loss or waits.
Complete ==
  Clean =>
    \A p \in 1 .. sent :
      (Seen /\ mon_seq.max < p) \/ (\E q \in 1 .. (p - 1) : Pending(q)) =>
        p \in linklost \/ Pending(p)

LostIn(a, b) == {p \in linklost : a <= p /\ p <= b}

\* And the tracker's arithmetic is the link's.
Counted ==
  Clean /\ Seen =>
    Span(mon_seq) - mon_seq.n_distinct = Cardinality(LostIn(mon_seq.first, mon_seq.max))

\* A sample that found nothing stays true until its row is written.
Sampled == pc = "store" /\ ~suspect /\ ~unseen => dbg = prev

\* The last row is about positions sent; there is none before the first frame.
RowRange ==
  ~failed =>
    /\ row.max <= sent
    /\ pc = "init" \/ main \in {"open", "create"} \/ (Live /\ ~mon_seq.have) => row.max = 0

LossInv ==
  /\ LossTypes /\ InOrder /\ MeterRange /\ Complete /\ Counted /\ Sampled /\ RowRange
  /\ CleanRowsAreLinkLoss

LEMMA InitLoss == Init => LossInv
<1> SUFFICES ASSUME Init PROVE LossInv
  OBVIOUS
<1>0. NoRow.max \in Int
  BY DEF NoRow
<1>1. LossTypes
  BY <1>0, NewBalanced DEF Init, LossTypes
<1>2. Len(queue) = 0
  BY DEF Init
<1>3. InOrder /\ MeterRange /\ Complete /\ Counted /\ Sampled /\ RowRange
  BY <1>2 DEF Init, InOrder, MeterRange, Complete, Counted, Sampled, RowRange, Clean, Pending, Live, Seen,
              NewMeter, NoRow
<1>4. {p \in linklost : mon_seq.first <= p /\ p <= row.max} = {}
  BY DEF Init
<1>5. CleanRowsAreLinkLoss
  BY <1>4, FS_EmptySet DEF Init, CleanRowsAreLinkLoss, NoRow
<1> QED BY <1>1, <1>3, <1>5 DEF LossInv

\* Everything the loss depends on.
data == <<queue, pk, mon_seq, sent, linklost, dbg, prev, suspect, row, flagged, unseen, failed>>

\* A step of a thread that touches none of it.
LEMMA QuietLoss ==
  ASSUME MonInv, LossInv, UNCHANGED data,
         pc' = "feed" <=> pc = "feed",
         pc' = "store" => pc = "store",
         Live' => Live,
         Clean' => Clean,
         pc' = "init" \/ main' \in {"open", "create"} => pc = "init" \/ main \in {"open", "create"}
  PROVE  LossInv'
<1> USE DEF LossInv, data
<1>1. LossTypes'
  BY DEF LossTypes
<1>2. \A p : Pending(p)' <=> Pending(p)
  BY DEF Pending
<1>3. Seen' => Seen
  BY DEF Seen
<1>4. InOrder'
  BY <1>2, <1>3 DEF InOrder
<1>5. MeterRange' /\ Sampled' /\ RowRange'
  BY DEF MeterRange, Sampled, RowRange
<1>6. Complete'
  BY <1>2, <1>3 DEF Complete
<1>7. Counted'
  BY <1>3 DEF Counted, LostIn
<1>8. CleanRowsAreLinkLoss'
  BY DEF CleanRowsAreLinkLoss
<1> QED BY <1>1, <1>4, <1>5, <1>6, <1>7, <1>8

\* A failed start ends every claim.
LEMMA FailedLoss ==
  ASSUME MonInv, LossInv, UNCHANGED <<pc, mon_seq, sent, linklost, dbg, prev, suspect, row, flagged, unseen>>,
         failed'
  PROVE  LossInv'
BY DEF LossInv, LossTypes, InOrder, MeterRange, Complete, Counted, Sampled, RowRange, Clean, CleanRowsAreLinkLoss

\* The operator's commands.
LEMMA CommandLoss ==
  ASSUME MonInv, LossInv, StartEnable \/ StopCmd \/ Command
  PROVE  LossInv'
<1>1. CASE StartEnable
  <2>1. /\ main = "idle" /\ ~running /\ pc = "none" /\ main' = "open"
        /\ ~failed => queue = <<>>
    BY <1>1 DEF StartEnable, MonInv, Phases, Fresh
  <2>2. UNCHANGED <<pc, pk, mon_seq, prev, suspect, queue, dbg, sent, linklost, failed>>
    BY <1>1 DEF StartEnable, pool, link
  <2>3. row' = NoRow /\ ~flagged' /\ ~unseen'
    BY <1>1 DEF StartEnable
  <2>4. ~failed => \A p : ~Pending(p)'
    BY <2>1, <2>2 DEF Pending
  <2>5. LossTypes'
    <3>1. NoRow.max \in Int
      BY DEF NoRow
    <3> QED BY <1>1, <2>2, <3>1 DEF StartEnable, LossInv, LossTypes
  <2>6. InOrder' /\ MeterRange'
    BY <2>1, <2>2, <2>4 DEF LossInv, InOrder, MeterRange
  <2>7. ~Seen' /\ ~Live'
    BY <2>1, <2>2 DEF Seen, Live
  <2>8. Complete' /\ Counted' /\ Sampled'
    BY <2>1, <2>2, <2>4, <2>7 DEF Complete, Counted, Sampled, Clean
  <2>9. RowRange'
    BY <2>2, <2>3 DEF RowRange, NoRow, MonInv, TypeOK
  <2>10. CleanRowsAreLinkLoss'
    <3>1. row'.inferred = 0 /\ row'.max = 0
      BY <2>3 DEF NoRow
    <3>2. \A p \in linklost' : p \in Nat /\ p > 0
      BY <2>2 DEF LossInv, LossTypes, MonInv, TypeOK
    <3>3. {p \in linklost' : mon_seq'.first <= p /\ p <= row'.max} = {}
      BY <3>1, <3>2
    <3> QED BY <3>1, <3>3, FS_EmptySet DEF CleanRowsAreLinkLoss
  <2> QED BY <2>5, <2>6, <2>8, <2>9, <2>10 DEF LossInv
<1>2. CASE StopCmd
  BY <1>2, QuietLoss DEF StopCmd, data, thread, lib, pool, link, ghost, Live, Clean
<1>3. CASE Open
  BY <1>3, QuietLoss DEF Open, data, thread, lib, pool, link, ghost, Live, Clean
<1>4. CASE OpenFails
  BY <1>4, FailedLoss DEF OpenFails, thread, lib, pool, link
<1>5. CASE Create
  <2>1. pc = "none"
    BY <1>5 DEF Create, MonInv, Phases
  <2> QED BY <1>5, <2>1, QuietLoss DEF Create, data, lib, pool, link, ghost, Live, Clean
<1>6. CASE CreateFails
  BY <1>6, FailedLoss DEF CreateFails, thread, pool, link
<1>7. CASE Join
  BY <1>7, QuietLoss DEF Join, JoinAs, data, lib, pool, link, ghost, Live, Clean
<1>8. CASE Disable
  <2>1. ~Clean'
    BY <1>8 DEF Disable, DisableAs, Clean, Live, MonInv, Phases, thread
  <2> QED BY <1>8, <2>1, QuietLoss DEF Disable, DisableAs, data, thread, pool, link, ghost, Live
<1>9. CASE DrainResidual
  <2>1. pc = "none" /\ pc' = "none" /\ main' = "drain"
    BY <1>9 DEF DrainResidual, MonInv, Phases, cmd, thread
  <2>2. UNCHANGED <<pk, mon_seq, sent, linklost, dbg, prev, suspect, row, flagged, unseen, failed>>
    BY <1>9 DEF DrainResidual, thread, link, ghost
  <2>3. /\ Len(queue') = Len(queue) - 1 /\ Len(queue) \in Nat
        /\ \A i \in 1 .. Len(queue') : queue'[i] = queue[i + 1] /\ i + 1 \in 1 .. Len(queue)
    BY <1>9, TailClone DEF DrainResidual, MonInv, MoreTypes
  <2>4. \A p : Pending(p)' => Pending(p)
    BY <2>1, <2>3 DEF Pending
  <2>5. ~Seen' /\ ~Live' /\ ~Clean'
    BY <2>1 DEF Seen, Live, Clean
  <2>6. LossTypes' /\ MeterRange' /\ Sampled' /\ CleanRowsAreLinkLoss' /\ Complete' /\ Counted'
    BY <2>1, <2>2, <2>5 DEF LossInv, LossTypes, MeterRange, Sampled, CleanRowsAreLinkLoss, Complete, Counted
  <2>7. RowRange'
    BY <2>1, <2>2, <2>5 DEF LossInv, RowRange
  <2>8. InOrder'
    <3>1. SUFFICES ASSUME ~failed
                   PROVE  /\ \A i, j \in 1 .. Len(queue') :
                               i < j /\ queue'[i].pos # 0 /\ queue'[j].pos # 0 => queue'[i].pos < queue'[j].pos
                          /\ \A p \in Nat : Pending(p)' => p <= sent /\ p \notin linklost
      BY <2>1, <2>2, <2>5 DEF InOrder
    <3>2. \A i, j \in 1 .. Len(queue') : i < j => i + 1 < j + 1
      BY <2>3
    <3> QED BY <2>3, <2>4, <3>1, <3>2 DEF LossInv, InOrder
  <2> QED BY <2>6, <2>7, <2>8 DEF LossInv
<1>10. CASE StopClose
  BY <1>10, QuietLoss DEF StopClose, data, thread, lib, pool, link, ghost, Live, Clean
<1> QED BY <1>1, <1>2, <1>3, <1>4, <1>5, <1>6, <1>7, <1>8, <1>9, <1>10 DEF Command

LEMMA DeltaZero ==
  ASSUME NEW x \in 0 .. (U8 - 1), NEW y \in 0 .. (U8 - 1), ~(Delta(x, y) > 0)
  PROVE  x = y
<1>1. U8 \in Nat \ {0} /\ y - x \in Int
  BY MonitorAssumption
<1>2. (y - x) % U8 = 0
  BY <1>1, IntMod DEF Delta
<1>3. PICK q \in Int : y - x = U8 * q + 0
  BY <1>1, <1>2, IntMod
<1>4. -U8 < U8 * q /\ U8 * q < U8
  <2> DEFINE z == U8 * q
  <2>1. z \in Int /\ y - x = z
    BY <1>1, <1>3
  <2> HIDE DEF z
  <2>2. -U8 < z /\ z < U8
    BY <1>1, <2>1
  <2> QED BY <2>2 DEF z
<1>5. q = 0
  BY <1>1, <1>4, SmallMultiple
<1> QED BY <1>1, <1>3, <1>5

\* An increment that brings a counter back to its baseline is a full turn.
LEMMA TurnSeen ==
  ASSUME NEW x \in 0 .. (U8 - 1), NEW y \in 0 .. (U8 - 1), (y + 1) % U8 = x
  PROVE  FullTurn(x, y)
<1>1. U8 \in Nat \ {0} /\ x - x = U8 * 0 + 0 /\ x - x \in Int /\ 0 \in 0 .. (U8 - 1)
  BY MonitorAssumption
<1>2. (x - x) % U8 = 0
  BY <1>1, ModUnique
<1> QED BY <1>2 DEF FullTurn, Delta

LEMMA NoneBelowFirst ==
  ASSUME NEW S, NEW m \in Nat, S \subseteq 1 .. m, NEW a
  PROVE  Cardinality({p \in S : a <= p /\ p <= 0}) = 0
<1>1. \A p \in S : ~(p <= 0)
  OBVIOUS
<1>2. {p \in S : a <= p /\ p <= 0} = {}
  BY <1>1
<1> QED BY <1>2, FS_EmptySet

\* A read moves the head of the queue into the drainer's hands.
LEMMA ReadLoss ==
  ASSUME MonInv, LossInv, Read
  PROVE  LossInv'
<1>0. /\ pc = "loop" /\ running
      /\ UNCHANGED <<mon_seq, prev, suspect, row, flagged, main, promisc, dbg, sent, linklost, unseen, failed>>
  BY DEF Read, ReadOr, cmd, pool, link, ghost
<1>1. CASE queue = <<>>
  <2>1. pc' = "clock" /\ UNCHANGED <<pk, queue>>
    BY <1>1 DEF Read, ReadOr
  <2> QED BY <1>0, <2>1, QuietLoss DEF data, Live, Clean
<1>2. CASE queue # <<>>
  <2>1. pc' = "feed" /\ pk' = queue[1] /\ queue' = Tail(queue)
    BY <1>2, TailClone DEF Read, ReadOr, MonInv, MoreTypes
  <2>2. /\ Len(queue') = Len(queue) - 1 /\ Len(queue) \in Nat \ {0}
        /\ \A i \in 1 .. Len(queue') : queue'[i] = queue[i + 1] /\ i + 1 \in 1 .. Len(queue)
    BY <1>2, <2>1, TailClone DEF MonInv, MoreTypes
  <2>3. \A p : Pending(p)' <=> Pending(p)
    <3> SUFFICES ASSUME NEW p PROVE Pending(p)' <=> Pending(p)
      OBVIOUS
    <3>1. ASSUME Pending(p) PROVE Pending(p)'
      <4>1. PICK i \in 1 .. Len(queue) : queue[i].pos = p
        BY <1>0, <3>1 DEF Pending
      <4>2. CASE i = 1
        BY <2>1, <3>1, <4>1, <4>2 DEF Pending
      <4>3. CASE i # 1
        <5>1. i - 1 \in 1 .. Len(queue') /\ (i - 1) + 1 = i
          BY <2>2, <4>3
        <5> QED BY <2>2, <3>1, <4>1, <5>1 DEF Pending
      <4> QED BY <4>2, <4>3
    <3>2. ASSUME Pending(p)' PROVE Pending(p)
      BY <2>1, <2>2, <3>2 DEF Pending
    <3> QED BY <3>1, <3>2
  <2>4. (Seen' <=> Seen) /\ (Clean' <=> Clean) /\ Live /\ Live'
    BY <1>0, <2>1 DEF Seen, Live, Clean
  <2>5. LossTypes' /\ MeterRange' /\ Sampled' /\ RowRange' /\ CleanRowsAreLinkLoss'
    BY <1>0, <2>1, <2>4
       DEF LossInv, LossTypes, MeterRange, Sampled, RowRange, CleanRowsAreLinkLoss
  <2>6. Complete' /\ Counted'
    BY <1>0, <2>3, <2>4 DEF LossInv, Complete, Counted, LostIn
  <2>7. InOrder'
    <3>1. ASSUME ~failed, NEW i \in 1 .. Len(queue'), NEW j \in 1 .. Len(queue'),
                 i < j, queue'[i].pos # 0, queue'[j].pos # 0
          PROVE  queue'[i].pos < queue'[j].pos
      <4>1. i + 1 < j + 1
        BY <3>1
      <4> QED BY <2>2, <3>1, <4>1 DEF LossInv, InOrder
    <3>2. ASSUME ~failed, pk'.pos # 0, NEW i \in 1 .. Len(queue'), queue'[i].pos # 0
          PROVE  pk'.pos < queue'[i].pos
      <4>1. 1 < i + 1 /\ 1 \in 1 .. Len(queue)
        BY <2>2
      <4> QED BY <2>1, <2>2, <3>2, <4>1 DEF LossInv, InOrder
    <3> QED BY <1>0, <2>3, <2>4, <3>1, <3>2 DEF LossInv, InOrder
  <2> QED BY <2>5, <2>6, <2>7 DEF LossInv
<1> QED BY <1>1, <1>2

\* The drainer begins: nothing is fed yet and the first window opens.
LEMMA BeginLoss ==
  ASSUME MonInv, LossInv, DrainerInit
  PROVE  LossInv'
<1>1. /\ pc = "init" /\ pc' = "loop" /\ mon_seq' = NewMeter
      /\ UNCHANGED <<pk, suspect, row, flagged, main, queue, dbg, sent, linklost, unseen, failed>>
  BY DEF DrainerInit, cmd, lib, pool, link, ghost
<1>2. \A p : Pending(p)' <=> Pending(p)
  BY <1>1 DEF Pending
<1>3. ~Seen' /\ (Clean' => Clean) /\ ~Seen
  BY <1>1 DEF Seen, Live, Clean, NewMeter
<1>4. LossTypes'
  BY <1>1, NewBalanced DEF LossInv, LossTypes
<1>5. InOrder'
  BY <1>1, <1>2, <1>3 DEF LossInv, InOrder
<1>6. MeterRange' /\ Sampled' /\ RowRange' /\ Counted'
  BY <1>1, <1>3 DEF LossInv, MeterRange, Sampled, RowRange, Counted, NewMeter
<1>7. Complete'
  BY <1>1, <1>2, <1>3 DEF LossInv, Complete
<1>8. CleanRowsAreLinkLoss'
  <2> SUFFICES ASSUME ~flagged, ~unseen, ~failed
               PROVE  row.inferred = Cardinality({p \in linklost : mon_seq'.first <= p /\ p <= row.max})
    BY <1>1 DEF CleanRowsAreLinkLoss
  <2>1. row.max = 0 /\ linklost \subseteq 1 .. sent /\ sent \in Nat
    BY <1>1, SeqAssumption, MonitorAssumption DEF LossInv, RowRange, LossTypes, MonInv, TypeOK
  <2>2. Cardinality({p \in linklost : mon_seq'.first <= p /\ p <= 0}) = 0
    BY <2>1, NoneBelowFirst
  <2>3. Cardinality({p \in linklost : mon_seq.first <= p /\ p <= 0}) = 0
    BY <2>1, NoneBelowFirst
  <2>4. row.inferred = 0
    BY <2>1, <2>3 DEF LossInv, CleanRowsAreLinkLoss
  <2> QED BY <2>1, <2>2, <2>4
<1> QED BY <1>4, <1>5, <1>6, <1>7, <1>8 DEF LossInv

\* A sample that is not suspect has found the counters at their baseline.
LEMMA SampleLoss ==
  ASSUME MonInv, LossInv, Sample
  PROVE  LossInv'
<1>1. /\ pc = "clock" /\ pc' = "store" /\ suspect' = (MeasurementSuspect \/ ~Trustworthy(mon_seq))
      /\ UNCHANGED <<pk, mon_seq, prev, row, flagged, main, queue, dbg, sent, linklost, unseen, failed>>
  BY DEF Sample, cmd, lib, pool, link, ghost
<1>2. \A p : Pending(p)' <=> Pending(p)
  BY <1>1 DEF Pending
<1>3. (Seen' <=> Seen) /\ (Clean' <=> Clean)
  BY <1>1 DEF Seen, Live, Clean
<1>4. LossTypes'
  <2>1. suspect' \in BOOLEAN
    BY <1>1
  <2> QED BY <1>1, <2>1 DEF LossInv, LossTypes
<1>5. InOrder'
  BY <1>1, <1>2, <1>3 DEF LossInv, InOrder
<1>6. MeterRange' /\ RowRange' /\ CleanRowsAreLinkLoss'
  BY <1>1 DEF LossInv, MeterRange, RowRange, CleanRowsAreLinkLoss, Live
<1>7. Complete' /\ Counted'
  BY <1>1, <1>2, <1>3 DEF LossInv, Complete, Counted, LostIn
<1>8. Sampled'
  <2> SUFFICES ASSUME ~suspect' PROVE dbg = prev
    BY <1>1 DEF Sampled
  <2>1. ~(Delta(prev.ovf, dbg.ovf) > 0) /\ ~(Delta(prev.out, dbg.out) > 0)
    BY <1>1 DEF MeasurementSuspect
  <2>2. /\ dbg \in [ovf : 0 .. (U8 - 1), out : 0 .. (U8 - 1)]
        /\ prev \in [ovf : 0 .. (U8 - 1), out : 0 .. (U8 - 1)]
    BY DEF MonInv, TypeOK, MoreTypes
  <2>3. prev.ovf = dbg.ovf /\ prev.out = dbg.out
    BY <2>1, <2>2, DeltaZero
  <2> QED BY <2>2, <2>3
<1> QED BY <1>4, <1>5, <1>6, <1>7, <1>8 DEF LossInv

\* A row that is not flagged claims what the tracker has counted.
LEMMA WriteLoss ==
  ASSUME MonInv, LossInv, WriteRow
  PROVE  LossInv'
<1>1. /\ pc = "store" /\ pc' = "loop" /\ prev' = dbg /\ flagged' = (flagged \/ suspect)
      /\ row' = [suspect |-> suspect, inferred |-> Loss(mon_seq), max |-> mon_seq.max]
      /\ UNCHANGED <<pk, mon_seq, suspect, main, queue, dbg, sent, linklost, unseen, failed>>
  BY DEF WriteRow, cmd, lib, pool, link, ghost
<1>2. \A p : Pending(p)' <=> Pending(p)
  BY <1>1 DEF Pending
<1>3. (Seen' <=> Seen) /\ (Seen <=> mon_seq.have)
  BY <1>1 DEF Seen, Live
<1>4. ~flagged' /\ ~unseen' /\ ~failed' => Clean
  BY <1>1 DEF LossInv, Sampled, Clean, Live
<1>5. Clean' => Clean
  BY <1>4 DEF Clean
<1>6. row'.max = mon_seq.max /\ row'.inferred = Loss(mon_seq)
  BY <1>1
<1>7. LossTypes'
  <2>1. mon_seq.max \in Int
    BY DEF LossInv, LossTypes, Balanced
  <2> QED BY <1>1, <1>6, <2>1 DEF LossInv, LossTypes
<1>8. InOrder'
  BY <1>1, <1>2, <1>3 DEF LossInv, InOrder
<1>9. MeterRange' /\ Sampled'
  BY <1>1 DEF LossInv, MeterRange, Sampled
<1>10. RowRange'
  <2>1. main \notin {"open", "create"}
    BY <1>1 DEF MonInv, Phases
  <2>2. 0 <= sent
    BY DEF MonInv, TypeOK
  <2> QED BY <1>1, <1>6, <2>1, <2>2 DEF LossInv, MeterRange, RowRange
<1>11. Complete'
  BY <1>1, <1>2, <1>3, <1>5 DEF LossInv, Complete
<1>12. Counted'
  BY <1>1, <1>3, <1>5 DEF LossInv, Counted, LostIn
<1>13. CleanRowsAreLinkLoss'
  <2> SUFFICES ASSUME Clean, ~failed
               PROVE  Loss(mon_seq) = Cardinality({p \in linklost : mon_seq.first <= p /\ p <= mon_seq.max})
    BY <1>1, <1>4, <1>6 DEF CleanRowsAreLinkLoss
  <2>1. linklost \subseteq 1 .. sent /\ sent \in Nat
    BY SeqAssumption, MonitorAssumption DEF LossInv, LossTypes, MonInv, TypeOK
  <2>2. CASE ~mon_seq.have
    <3>1. mon_seq.max = 0 /\ Loss(mon_seq) = 0
      BY <2>2 DEF LossInv, MeterRange, Loss
    <3> QED BY <2>1, <3>1, NoneBelowFirst
  <2>3. CASE mon_seq.have
    <3> DEFINE c == Cardinality(LostIn(mon_seq.first, mon_seq.max))
    <3>0. IsFiniteSet(1 .. sent)
      BY <2>1, FS_Interval
    <3>1. IsFiniteSet(linklost) /\ LostIn(mon_seq.first, mon_seq.max) \subseteq linklost
      BY <2>1, <3>0, FS_Subset DEF LostIn
    <3>2. c \in Nat
      BY <3>1, FS_Subset, FS_CardinalityType
    <3>3. Span(mon_seq) - mon_seq.n_distinct = c
      BY <1>3, <2>3 DEF LossInv, Counted
    <3>4. Span(mon_seq) \in Int /\ mon_seq.n_distinct \in Int
      BY DEF LossInv, LossTypes, Balanced, Span
    <3> HIDE DEF c
    <3>5. Loss(mon_seq) = c
      BY <2>3, <3>2, <3>3, <3>4 DEF Loss
    <3> QED BY <3>5 DEF c, LostIn
  <2> QED BY <2>2, <2>3
<1> QED BY <1>7, <1>8, <1>9, <1>10, <1>11, <1>12, <1>13 DEF LossInv

\* A position of the flow lies far below the wrap of the sequence number.
LEMMA PosSmall ==
  ASSUME MonInv, NEW p \in Nat, p <= sent
  PROVE  p < Half /\ SeqOf(p) = p
<1>1. p \in Nat /\ p < Half /\ p \in 0 .. (SeqMod - 1)
  BY MonitorAssumption, SeqAssumption DEF MonInv, TypeOK, SeqMod
<1> QED BY <1>1, SeqSmall

LEMMA Singleton ==
  ASSUME NEW S, NEW p \in Nat, p \notin S, S \subseteq Nat
  PROVE  Cardinality({x \in S : p <= x /\ x <= p}) = 0
<1>1. \A x \in S : ~(p <= x /\ x <= p)
  <2> SUFFICES ASSUME NEW x \in S, p <= x, x <= p PROVE FALSE
    OBVIOUS
  <2>1. x \in Nat /\ x = p
    OBVIOUS
  <2> QED BY <2>1
<1>2. {x \in S : p <= x /\ x <= p} = {}
  BY <1>1
<1> QED BY <1>2, FS_EmptySet

\* The members of S between a and b.
Part(S, a, b) == {x \in S : a <= x /\ x <= b}

\* Part(S, a, p) has p - 1 - b members more than Part(S, a, b).
Grown(S, a, b, p) ==
  Cardinality(Part(S, a, p)) = Cardinality(Part(S, a, b)) + (p - 1 - b)

\* Positions a .. b grow by the b+1 .. p-1 that the link lost, all of them.
LEMMA LossGrows ==
  ASSUME NEW S, NEW m \in Nat, S \subseteq 1 .. m,
         NEW a \in Nat, NEW b \in Nat, NEW p \in Nat, a <= b, b < p, p \notin S,
         (b + 1) .. (p - 1) \subseteq S
  PROVE  Grown(S, a, b, p)
<1> DEFINE A == {x \in S : a <= x /\ x <= b}
           B == (b + 1) .. (p - 1)
           C == {x \in S : a <= x /\ x <= p}
<1>1. IsFiniteSet(1 .. m)
  BY FS_Interval
<1>2. IsFiniteSet(A) /\ IsFiniteSet(B)
  BY <1>1, FS_Subset, FS_Interval
<1>3. C = A \cup B /\ A \cap B = {}
  <2>1. \A x \in S : x \in Nat
    OBVIOUS
  <2>2. ASSUME NEW x \in C PROVE x \in A \cup B
    <3>1. x \in Nat /\ x # p
      BY <2>1
    <3> QED BY <3>1
  <2>3. ASSUME NEW x \in A PROVE x \in C /\ x \notin B
    BY <2>1
  <2>4. ASSUME NEW x \in B PROVE x \in C
    OBVIOUS
  <2> QED BY <2>2, <2>3, <2>4
<1>4. Cardinality(B) = p - 1 - b
  BY FS_Interval
<1>5. Cardinality(A) \in Nat
  BY <1>2, FS_CardinalityType
<1>6. Cardinality(C) = Cardinality(A) + Cardinality(B) - Cardinality(A \cap B)
  BY <1>2, <1>3, FS_Union
<1>7. Cardinality(A \cap B) = 0
  BY <1>3, FS_EmptySet
<1> HIDE DEF A, B, C
<1> QED BY <1>4, <1>5, <1>6, <1>7 DEF A, C, Part, Grown

\* The frame that is fed first is the capture's baseline.
LEMMA FirstMeter ==
  ASSUME NEW m, Balanced(m), ~m.have, NEW p \in Nat, SeqOf(p) = p
  PROVE  LET r == Feed(m, SeqOf(p))
         IN  r.have /\ r.first = p /\ r.max = p /\ r.n_distinct = 1
BY DEF Feed, FirstFeed, Balanced, Record, Fields

\* A frame ahead of the head moves the head by exactly the positions between.
LEMMA ForwardMeter ==
  ASSUME NEW m, Balanced(m), m.have, NEW p \in Nat, m.max < p, p - m.max < Half
  PROVE  LET r == Feed(m, SeqOf(p))
         IN  /\ r.have /\ r.first = m.first /\ r.max = p
             /\ r.n_distinct = m.n_distinct + 1
<1> DEFINE d == SignedDiff(SeqOf(p), m.max)
<1>1. m.max \in Int /\ p - m.max >= -Half
  BY SeqAssumption DEF Balanced
<1>2. d = p - m.max
  BY <1>1, DiffExact
<1> HIDE DEF d
<1>3. d \in Int /\ d > 0 /\ m.max + d = p
  BY <1>1, <1>2
<1>4. Feed(m, SeqOf(p)) = Forward(m, d)
  BY <1>3 DEF Feed, d
<1> QED BY <1>3, <1>4 DEF Forward, Balanced, Record, Fields

\* The drainer feeds the clone it holds.
LEMMA FeedLoss ==
  ASSUME MonInv, LossInv, FeedClone
  PROVE  LossInv'
<1> DEFINE p == pk.pos
<1>1. /\ pc = "feed" /\ pc' = "clock" /\ pk' = NoClone
      /\ mon_seq' = IF p = 0 THEN mon_seq ELSE Feed(mon_seq, SeqOf(p))
      /\ UNCHANGED <<prev, suspect, row, flagged, main, queue, dbg, sent, linklost, unseen, failed>>
  BY DEF FeedClone, cmd, link, ghost
<1>2. p \in Nat /\ sent \in Nat /\ linklost \subseteq 1 .. sent /\ Balanced(mon_seq)
  BY SeqAssumption, MonitorAssumption DEF LossInv, LossTypes, MonInv, TypeOK, MoreTypes, Clone
<1>3. Live /\ Live' /\ (Clean' <=> Clean) /\ (Seen <=> mon_seq.have) /\ (Seen' <=> mon_seq'.have)
  BY <1>1 DEF Live, Clean, Seen
<1>4. \A x \in Nat : Pending(x)' <=> x # 0 /\ \E i \in 1 .. Len(queue) : queue[i].pos = x
  BY <1>1 DEF Pending
<1>5. \A x \in Nat : Pending(x) <=> Pending(x)' \/ (x # 0 /\ x = p)
  BY <1>1, <1>4 DEF Pending
<1>p. pk.pos = p
  OBVIOUS
<1> HIDE DEF p
<1>6. CASE p = 0
  <2>1. mon_seq' = mon_seq /\ \A x \in Nat : Pending(x)' <=> Pending(x)
    BY <1>1, <1>5, <1>6
  <2>2. LossTypes' /\ MeterRange' /\ Sampled' /\ RowRange' /\ CleanRowsAreLinkLoss'
    BY <1>1, <1>3, <2>1 DEF LossInv, LossTypes, MeterRange, Sampled, RowRange, CleanRowsAreLinkLoss
  <2>3. InOrder'
    BY <1>1, <1>3, <2>1 DEF LossInv, InOrder
  <2>4. Complete' /\ Counted'
    <3>1. \A x \in 1 .. sent : x \in Nat /\ \A q \in 1 .. (x - 1) : q \in Nat
      BY <1>2
    <3> QED BY <1>1, <1>3, <2>1, <3>1 DEF LossInv, Complete, Counted, LostIn
  <2> QED BY <2>2, <2>3, <2>4 DEF LossInv
<1>7. CASE p # 0
  <2> DEFINE r == Feed(mon_seq, SeqOf(p))
  <2>1. mon_seq' = r
    BY <1>1, <1>7
  <2> HIDE DEF r
  <2>2. LossTypes'
    <3>1. Balanced(mon_seq')
      BY <1>2, <2>1, FeedBalanced, SeqOfType DEF r
    <3> QED BY <1>1, <3>1 DEF LossInv, LossTypes
  <2>3. CASE failed
    <3>1. ~Clean' /\ pc' # "store"
      BY <1>1, <2>3 DEF Clean
    <3> QED BY <1>1, <2>2, <2>3, <3>1
            DEF LossInv, InOrder, MeterRange, Complete, Counted, Sampled, RowRange, CleanRowsAreLinkLoss
  <2>4. CASE ~failed
    <3>1. Pending(p)
      BY <1>2, <1>5, <1>7
    <3>2. p <= sent /\ p \notin linklost /\ (mon_seq.have => mon_seq.max < p) /\ 1 <= p
      BY <1>2, <1>3, <1>7, <2>4, <3>1 DEF LossInv, InOrder
    <3>3. \A x \in Nat : Pending(x)' => p < x
      BY <1>1, <1>4, <1>7, <1>p, <2>4 DEF LossInv, InOrder
    <3>4. p < Half /\ SeqOf(p) = p
      BY <1>2, <3>2, PosSmall
    <3>5. mon_seq'.have /\ mon_seq'.max = p
      <4>1. CASE ~mon_seq.have
        BY <1>2, <2>1, <3>4, <4>1, FirstMeter DEF r
      <4>2. CASE mon_seq.have
        <5>1. p - mon_seq.max < Half
          <6>1. mon_seq.max >= 1 /\ mon_seq.max \in Int
            BY <1>2, <2>4, <4>2 DEF LossInv, MeterRange, Balanced
          <6> QED BY <1>2, <3>4, <6>1, SeqAssumption
        <5> QED BY <1>2, <2>1, <3>2, <4>2, <5>1, ForwardMeter DEF r
      <4> QED BY <4>1, <4>2
    <3>6. InOrder'
      BY <1>1, <1>5, <2>4, <3>3, <3>5 DEF LossInv, InOrder
    <3>7. Complete'
      <4> SUFFICES ASSUME Clean, NEW x \in 1 .. sent,
                          p < x \/ \E q \in 1 .. (x - 1) : Pending(q)'
                   PROVE  x \in linklost \/ Pending(x)'
        BY <1>1, <1>3, <3>5 DEF Complete
      <4>1. x \in Nat /\ \A q \in 1 .. (x - 1) : q \in Nat /\ q < x
        BY <1>2
      <4>2. p < x
        BY <1>2, <3>3, <4>1
      <4>3. p \in 1 .. (x - 1)
        BY <1>2, <3>2, <4>1, <4>2
      <4>4. x \in linklost \/ Pending(x)
        BY <3>1, <4>3 DEF LossInv, Complete
      <4> QED BY <1>2, <1>5, <4>1, <4>2, <4>4
    <3>8. Sampled' /\ RowRange'
      BY <1>1, <3>5, <1>3 DEF LossInv, Sampled, RowRange
    <3>9. MeterRange' /\ Counted' /\ CleanRowsAreLinkLoss'
      <4>1. CASE ~mon_seq.have
        <5>1. mon_seq'.first = p /\ mon_seq'.n_distinct = 1
          BY <1>2, <2>1, <3>4, <4>1, FirstMeter DEF r
        <5>2. MeterRange'
          BY <1>1, <1>2, <3>2, <3>5, <5>1 DEF MeterRange
        <5>3. Counted'
          <6>1. linklost \subseteq Nat
            BY <1>2
          <6>2. Cardinality({x \in linklost : p <= x /\ x <= p}) = 0
            BY <1>2, <3>2, <6>1, Singleton
          <6>3. Span(mon_seq') - mon_seq'.n_distinct = 0
            BY <1>2, <3>5, <5>1 DEF Span
          <6> QED BY <1>1, <3>5, <5>1, <6>2, <6>3 DEF Counted, LostIn
        <5>4. CleanRowsAreLinkLoss'
          <6>1. row.max = 0
            BY <1>3, <2>4, <4>1 DEF LossInv, RowRange
          <6>2. Cardinality({x \in linklost : mon_seq.first <= x /\ x <= 0}) = 0
            BY <1>2, NoneBelowFirst
          <6>3. Cardinality({x \in linklost : mon_seq'.first <= x /\ x <= 0}) = 0
            BY <1>2, NoneBelowFirst
          <6> QED BY <1>1, <6>1, <6>2, <6>3 DEF LossInv, CleanRowsAreLinkLoss
        <5> QED BY <5>2, <5>3, <5>4
      <4>2. CASE mon_seq.have
        <5>0. /\ 1 <= mon_seq.first /\ mon_seq.first <= mon_seq.max /\ mon_seq.max <= sent
              /\ mon_seq.first \in Nat /\ mon_seq.max \in Nat /\ mon_seq.n_distinct \in Int
              /\ mon_seq.max < p /\ p - mon_seq.max < Half
          <6>1. mon_seq.first \in Int /\ mon_seq.max \in Int /\ mon_seq.n_distinct \in Int
            BY <1>2 DEF Balanced
          <6>2. 1 <= mon_seq.first /\ mon_seq.first <= mon_seq.max /\ mon_seq.max <= sent
            BY <2>4, <4>2 DEF LossInv, MeterRange
          <6> QED BY <1>2, <3>2, <3>4, <4>2, <6>1, <6>2, SeqAssumption
        <5>1. mon_seq'.first = mon_seq.first /\ mon_seq'.n_distinct = mon_seq.n_distinct + 1
          BY <1>2, <2>1, <4>2, <5>0, ForwardMeter DEF r
        <5>2. MeterRange'
          BY <1>1, <1>2, <3>2, <3>5, <5>0, <5>1 DEF MeterRange
        <5>3. Counted'
          <6> SUFFICES ASSUME Clean
                       PROVE  Span(mon_seq') - mon_seq'.n_distinct = Cardinality({x \in linklost : mon_seq.first <= x /\ x <= p})
            BY <1>1, <1>3, <3>5, <5>1 DEF Counted, LostIn
          <6>1. \A x \in (mon_seq.max + 1) .. (p - 1) : x \in linklost
            <7> SUFFICES ASSUME NEW x \in (mon_seq.max + 1) .. (p - 1) PROVE x \in linklost
              OBVIOUS
            <7>1. x \in 1 .. sent /\ mon_seq.max < x /\ x < p /\ x \in Nat
              BY <1>2, <3>2, <5>0
            <7>2. x \in linklost \/ Pending(x)
              BY <1>3, <4>2, <7>1 DEF LossInv, Complete
            <7>3. ~Pending(x)'
              BY <1>2, <3>3, <7>1
            <7>4. ~Pending(x)
              BY <1>2, <1>5, <7>1, <7>3
            <7> QED BY <7>2, <7>4
          <6>2. Cardinality({x \in linklost : mon_seq.first <= x /\ x <= p})
                  = Cardinality({x \in linklost : mon_seq.first <= x /\ x <= mon_seq.max}) + (p - 1 - mon_seq.max)
            <7>1. /\ sent \in Nat /\ linklost \subseteq 1 .. sent
                  /\ mon_seq.first \in Nat /\ mon_seq.max \in Nat /\ p \in Nat
                  /\ mon_seq.first <= mon_seq.max /\ mon_seq.max < p /\ p \notin linklost
              BY <1>2, <3>2, <5>0
            <7>2. (mon_seq.max + 1) .. (p - 1) \subseteq linklost
              BY <6>1
            <7>3. Grown(linklost, mon_seq.first, mon_seq.max, p)
              BY <7>1, <7>2, LossGrows, Zenon
            <7> QED BY <7>3 DEF Part, Grown
          <6> DEFINE c == Cardinality({x \in linklost : mon_seq.first <= x /\ x <= mon_seq.max})
          <6>3. Span(mon_seq) - mon_seq.n_distinct = c
            BY <1>3, <4>2 DEF LossInv, Counted, LostIn
          <6> HIDE DEF c
          <6>4. Span(mon_seq') - mon_seq'.n_distinct = c + (p - 1 - mon_seq.max)
            BY <1>2, <3>5, <5>0, <5>1, <6>3 DEF Span
          <6> QED BY <6>2, <6>4 DEF c
        <5>4. CleanRowsAreLinkLoss'
          BY <1>1, <5>1 DEF LossInv, CleanRowsAreLinkLoss
        <5> QED BY <5>2, <5>3, <5>4
      <4> QED BY <4>1, <4>2
    <3> QED BY <2>2, <3>6, <3>7, <3>8, <3>9 DEF LossInv
  <2> QED BY <2>3, <2>4
<1> QED BY <1>6, <1>7

\* What csp_promisc_add does to the counters: a clone that is lost is counted,
\* and the loss shows in the open window or is marked as one that cannot.
LEMMA PromiscLoss ==
  ASSUME MonInv, NEW pos \in Nat, PromiscAdd(pos), promisc, UNCHANGED <<pc, main, prev>>
  PROVE  \/ /\ UNCHANGED <<dbg, unseen>>
            /\ queue' = Append(queue, [pos |-> pos, sess |-> sess])
         \/ /\ UNCHANGED queue
            /\ unseen => unseen'
            /\ pc \in {"none", "init", "store", "done"} => unseen'
            /\ dbg' = prev => unseen'
            /\ unseen' \in BOOLEAN
<1>0. /\ dbg \in [ovf : 0 .. (U8 - 1), out : 0 .. (U8 - 1)]
      /\ prev \in [ovf : 0 .. (U8 - 1), out : 0 .. (U8 - 1)]
  BY DEF MonInv, TypeOK, MoreTypes
<1>1. CASE free = 0
  <2>1. /\ dbg' = [dbg EXCEPT !.out = (@ + 1) % U8] /\ UNCHANGED queue
        /\ unseen' = (unseen \/ OutsideWindows \/ FullTurn(prev.out, dbg.out))
    BY <1>1 DEF PromiscAdd
  <2>2. dbg' = prev => (dbg.out + 1) % U8 = prev.out
    BY <1>0, <2>1
  <2>3. dbg' = prev => FullTurn(prev.out, dbg.out)
    BY <1>0, <2>2, TurnSeen
  <2> QED BY <2>1, <2>3 DEF OutsideWindows
<1>2. CASE free # 0 /\ Len(queue) = QueueLen
  <2>1. /\ dbg' = [dbg EXCEPT !.ovf = (@ + 1) % U8] /\ UNCHANGED queue
        /\ unseen' = (unseen \/ OutsideWindows \/ FullTurn(prev.ovf, dbg.ovf))
    BY <1>2 DEF PromiscAdd
  <2>2. dbg' = prev => (dbg.ovf + 1) % U8 = prev.ovf
    BY <1>0, <2>1
  <2>3. dbg' = prev => FullTurn(prev.ovf, dbg.ovf)
    BY <1>0, <2>2, TurnSeen
  <2> QED BY <2>1, <2>3 DEF OutsideWindows
<1>3. CASE free # 0 /\ Len(queue) # QueueLen
  BY <1>3 DEF PromiscAdd
<1> QED BY <1>1, <1>2, <1>3

\* A step that moves only the highest position sent.
LEMMA SentLoss ==
  ASSUME MonInv, LossInv, sent' \in Nat, sent <= sent', sent' <= sent + 1, sent \in Nat,
         UNCHANGED <<pc, main, queue, pk, mon_seq, prev, suspect, row, flagged, linklost, failed>>,
         unseen' \in BOOLEAN, unseen => unseen',
         Sampled', Clean' => sent' = sent /\ Clean
  PROVE  LossInv'
<1>1. /\ \A p : Pending(p)' <=> Pending(p)
      /\ Seen' <=> Seen
  BY DEF Pending, Seen, Live
<1>2. LossTypes'
  <2>1. linklost' \subseteq 1 .. sent'
    BY DEF LossInv, LossTypes
  <2> QED BY <2>1 DEF LossInv, LossTypes
<1>3. InOrder'
  <2>1. \A p \in Nat : p <= sent => p <= sent'
    OBVIOUS
  <2> QED BY <1>1, <2>1 DEF LossInv, InOrder
<1>4. MeterRange' /\ RowRange'
  <2>1. mon_seq.max \in Int /\ row.max \in Int
    BY DEF LossInv, LossTypes, Balanced
  <2>2. (mon_seq.max <= sent => mon_seq.max <= sent') /\ (row.max <= sent => row.max <= sent')
    BY <2>1
  <2> QED BY <2>2 DEF LossInv, MeterRange, RowRange, Live
<1>5. Complete' /\ Counted'
  BY <1>1 DEF LossInv, Complete, Counted, LostIn
<1>6. CleanRowsAreLinkLoss'
  BY DEF LossInv, CleanRowsAreLinkLoss
<1> QED BY <1>2, <1>3, <1>4, <1>5, <1>6 DEF LossInv

\* A clone joins the queue.
LEMMA AppendClone ==
  ASSUME NEW q \in Seq(Clone), NEW c \in Clone
  PROVE  LET n == Len(q)
         IN  /\ n \in Nat /\ Len(Append(q, c)) = n + 1
             /\ \A i \in 1 .. n : Append(q, c)[i] = q[i]
             /\ Append(q, c)[n + 1] = c
OBVIOUS

\* A clone joins the queue behind everything sent before it.
LEMMA QueuedLoss ==
  ASSUME MonInv, LossInv, NEW pos \in Nat, sent \in Nat,
         (pos = 0 /\ sent' = sent) \/ (pos = sent + 1 /\ sent' = sent + 1),
         queue' = Append(queue, [pos |-> pos, sess |-> sess]),
         UNCHANGED <<pc, main, pk, mon_seq, prev, dbg, suspect, row, flagged, linklost, unseen, failed>>
  PROVE  LossInv'
<1> DEFINE n == Len(queue)
<1>1. sent' \in Nat /\ sent <= sent' /\ sent' <= sent + 1
  OBVIOUS
<1>2. /\ n \in Nat /\ Len(queue') = n + 1
      /\ \A i \in 1 .. n : queue'[i] = queue[i] /\ i \in 1 .. (n + 1)
      /\ queue'[n + 1].pos = pos /\ n + 1 \in 1 .. (n + 1)
      /\ \A i \in 1 .. (n + 1) : i \in 1 .. n \/ i = n + 1
      /\ \A i \in 1 .. n : queue[i].pos \in Nat
  <2>1. queue \in Seq(Clone) /\ [pos |-> pos, sess |-> sess] \in Clone
    BY DEF MonInv, MoreTypes, TypeOK, Clone
  <2>2. /\ n \in Nat /\ Len(queue') = n + 1
        /\ \A i \in 1 .. n : queue'[i] = queue[i]
        /\ queue'[n + 1] = [pos |-> pos, sess |-> sess]
    BY <2>1, AppendClone
  <2>3. \A i \in 1 .. n : queue[i] \in Clone
    BY <2>1
  <2>4. \A i \in 1 .. n : queue[i].pos \in Nat
    BY <2>3 DEF Clone
  <2> HIDE DEF n
  <2> QED BY <2>2, <2>4
<1> HIDE DEF n
<1>3. /\ (Seen' <=> Seen) /\ (Clean' <=> Clean) /\ (Live' <=> Live)
  BY DEF Seen, Live, Clean
<1>4. \A p : Pending(p)' <=> Pending(p) \/ (p # 0 /\ p = pos)
  BY <1>2 DEF Pending, n
<1>5. LossTypes'
  <2>1. linklost' \subseteq 1 .. sent'
    BY <1>1 DEF LossInv, LossTypes
  <2> QED BY <2>1 DEF LossInv, LossTypes
<1>6. MeterRange' /\ RowRange'
  <2>1. mon_seq.max \in Int /\ row.max \in Int
    BY DEF LossInv, LossTypes, Balanced
  <2>2. (mon_seq.max <= sent => mon_seq.max <= sent') /\ (row.max <= sent => row.max <= sent')
    BY <1>1, <2>1
  <2> QED BY <1>3, <2>2 DEF LossInv, MeterRange, RowRange
<1>7. Counted' /\ Sampled' /\ CleanRowsAreLinkLoss'
  BY <1>3 DEF LossInv, Counted, LostIn, Sampled, CleanRowsAreLinkLoss
<1>8. InOrder'
  <2> SUFFICES ASSUME ~failed
               PROVE  /\ \A i, j \in 1 .. Len(queue') :
                           i < j /\ queue'[i].pos # 0 /\ queue'[j].pos # 0 => queue'[i].pos < queue'[j].pos
                      /\ pc = "feed" /\ pk.pos # 0 =>
                           \A i \in 1 .. Len(queue') : queue'[i].pos # 0 => pk.pos < queue'[i].pos
                      /\ \A p \in Nat :
                           Pending(p)' => p <= sent' /\ p \notin linklost /\ (Seen => mon_seq.max < p)
    BY <1>3 DEF InOrder
  <2>1. \A p \in Nat : Pending(p) => p <= sent
    BY DEF LossInv, InOrder
  <2>2. \A i \in 1 .. n : queue[i].pos # 0 => Pending(queue[i].pos)
    BY <1>2 DEF Pending, n
  <2>3. \A i \in 1 .. n : queue[i].pos # 0 /\ pos # 0 => queue[i].pos < pos
    BY <1>2, <2>1, <2>2
  <2>4. ASSUME NEW i \in 1 .. Len(queue'), NEW j \in 1 .. Len(queue'), i < j,
               queue'[i].pos # 0, queue'[j].pos # 0
        PROVE  queue'[i].pos < queue'[j].pos
    <3>1. i \in 1 .. n
      BY <1>2, <2>4
    <3>2. CASE j = n + 1
      BY <1>2, <2>3, <2>4, <3>1, <3>2
    <3>3. CASE j \in 1 .. n
      BY <1>2, <2>4, <3>1, <3>3 DEF LossInv, InOrder, n
    <3> QED BY <1>2, <3>2, <3>3
  <2>5. ASSUME pc = "feed", pk.pos # 0, NEW i \in 1 .. Len(queue'), queue'[i].pos # 0
        PROVE  pk.pos < queue'[i].pos
    <3>0. pk.pos \in Nat
      BY DEF MonInv, MoreTypes, Clone
    <3>1. CASE i = n + 1
      <4>1. Pending(pk.pos)
        BY <2>5 DEF Pending
      <4> QED BY <1>2, <2>1, <2>5, <3>0, <3>1, <4>1
    <3>2. CASE i \in 1 .. n
      BY <1>2, <2>5, <3>2 DEF LossInv, InOrder, n
    <3> QED BY <1>2, <3>1, <3>2
  <2>6. ASSUME NEW p \in Nat, Pending(p)'
        PROVE  p <= sent' /\ p \notin linklost /\ (Seen => mon_seq.max < p)
    <3>1. CASE Pending(p)
      BY <1>1, <3>1 DEF LossInv, InOrder
    <3>2. CASE p # 0 /\ p = pos
      <4>1. p = sent + 1 /\ p <= sent'
        BY <3>2
      <4>2. p \notin linklost
        BY <4>1 DEF LossInv, LossTypes
      <4>3. Seen => mon_seq.max <= sent /\ mon_seq.max \in Int
        BY DEF LossInv, LossTypes, Balanced, MeterRange, Seen
      <4> QED BY <4>1, <4>2, <4>3
    <3> QED BY <1>4, <2>6, <3>1, <3>2
  <2> QED BY <2>4, <2>5, <2>6
<1>9. Complete'
  <2> SUFFICES ASSUME Clean, NEW p \in 1 .. sent',
                      (Seen /\ mon_seq.max < p) \/ (\E q \in 1 .. (p - 1) : Pending(q)')
               PROVE  p \in linklost \/ Pending(p)'
    BY <1>3 DEF Complete
  <2>1. CASE p = sent + 1
    <3>1. pos = p /\ p # 0
      BY <1>1, <2>1
    <3> QED BY <1>4, <3>1
  <2>2. CASE p # sent + 1
    <3>1. p \in 1 .. sent
      BY <1>1, <2>2
    <3>2. \A q \in 1 .. (p - 1) : Pending(q)' => Pending(q)
      BY <1>4, <3>1
    <3> QED BY <1>4, <3>1, <3>2 DEF LossInv, Complete
  <2> QED BY <2>1, <2>2
<1> QED BY <1>5, <1>6, <1>7, <1>8, <1>9 DEF LossInv

\* A frame reaches the router.
LEMMA RoutedLoss ==
  ASSUME MonInv, LossInv, NEW pos \in Nat, PromiscAdd(pos),
         (pos = 0 /\ sent' = sent) \/ (pos = sent + 1 /\ sent' = sent + 1),
         UNCHANGED <<linklost, cmd, thread, promisc, users, failed>>
  PROVE  LossInv'
<1>1. sent \in Nat /\ sent' \in Nat /\ sent <= sent' /\ sent' <= sent + 1
  BY SeqAssumption, MonitorAssumption DEF MonInv, TypeOK
<1>2. UNCHANGED <<pc, main, pk, mon_seq, prev, suspect, row, flagged, linklost, failed>>
  BY DEF cmd, thread
<1>3. CASE ~promisc
  <2>1. UNCHANGED <<queue, dbg, unseen>>
    BY <1>3 DEF PromiscAdd
  <2>2. pc = "none" /\ main \notin {"open", "create"}
    BY <1>3 DEF MonInv, Phases
  <2>3. ~Clean' /\ Sampled' /\ unseen' \in BOOLEAN
    BY <1>2, <2>1, <2>2 DEF Clean, Sampled, Live, LossInv, LossTypes
  <2> QED BY <1>1, <1>2, <2>1, <2>3, SentLoss
<1>4. CASE promisc
  <2>1. CASE /\ UNCHANGED <<dbg, unseen>>
             /\ queue' = Append(queue, [pos |-> pos, sess |-> sess])
    BY <1>1, <1>2, <2>1, QueuedLoss
  <2>2. CASE /\ UNCHANGED queue
             /\ unseen => unseen'
             /\ pc \in {"none", "init", "store", "done"} => unseen'
             /\ dbg' = prev => unseen'
             /\ unseen' \in BOOLEAN
    <3>1. main \in {"open", "create"} => pc = "none"
      BY DEF MonInv, Phases
    <3>2. ~Clean' /\ Sampled'
      BY <1>2, <2>2, <3>1 DEF Clean, Sampled
    <3> QED BY <1>1, <1>2, <2>2, <3>2, SentLoss
  <2> QED BY <1>2, <1>4, <2>1, <2>2, PromiscLoss
<1> QED BY <1>3, <1>4

\* The link loses a frame: it is ahead of everything counted so far.
LEMMA LinkLossLoss ==
  ASSUME MonInv, LossInv, LinkLoss
  PROVE  LossInv'
<1>1. /\ sent \in Nat /\ sent' = sent + 1 /\ linklost' = linklost \cup {sent + 1}
      /\ UNCHANGED <<pc, main, queue, pk, mon_seq, prev, dbg, suspect, row, flagged, unseen, failed>>
  BY SeqAssumption, MonitorAssumption DEF LinkLoss, MonInv, TypeOK, cmd, thread, lib, pool, ghost
<1>2. /\ (Seen' <=> Seen) /\ (Clean' <=> Clean) /\ (Live' <=> Live)
      /\ \A p : Pending(p)' <=> Pending(p)
  BY <1>1 DEF Seen, Live, Clean, Pending
<1>3. linklost \subseteq 1 .. sent /\ mon_seq.max \in Int /\ row.max \in Int
  BY DEF LossInv, LossTypes, Balanced
<1>4. LossTypes'
  <2>1. linklost' \subseteq 1 .. sent'
    BY <1>1, <1>3
  <2> QED BY <1>1, <2>1 DEF LossInv, LossTypes
<1>5. InOrder'
  <2>1. \A p \in Nat : p <= sent => p <= sent' /\ p # sent + 1
    BY <1>1
  <2> QED BY <1>1, <1>2, <2>1 DEF LossInv, InOrder
<1>6. MeterRange' /\ RowRange' /\ Sampled'
  <2>1. (mon_seq.max <= sent => mon_seq.max <= sent') /\ (row.max <= sent => row.max <= sent')
    BY <1>1, <1>3
  <2> QED BY <1>1, <1>2, <2>1 DEF LossInv, MeterRange, RowRange, Sampled
<1>7. Complete'
  <2> SUFFICES ASSUME Clean, NEW p \in 1 .. sent',
                      (Seen /\ mon_seq.max < p) \/ (\E q \in 1 .. (p - 1) : Pending(q))
               PROVE  p \in linklost' \/ Pending(p)
    BY <1>1, <1>2 DEF Complete
  <2>1. p \in 1 .. sent \/ p = sent + 1
    BY <1>1
  <2> QED BY <1>1, <2>1 DEF LossInv, Complete
<1>8. \A a, b : b \in Int /\ b <= sent =>
        {p \in linklost' : a <= p /\ p <= b} = {p \in linklost : a <= p /\ p <= b}
  <2> SUFFICES ASSUME NEW a, NEW b \in Int, b <= sent
               PROVE  {p \in linklost' : a <= p /\ p <= b} = {p \in linklost : a <= p /\ p <= b}
    OBVIOUS
  <2>1. ~(sent + 1 <= b)
    BY <1>1
  <2> QED BY <1>1, <2>1
<1>9. Counted'
  <2> SUFFICES ASSUME Clean, Seen
               PROVE  Span(mon_seq) - mon_seq.n_distinct
                        = Cardinality({p \in linklost' : mon_seq.first <= p /\ p <= mon_seq.max})
    BY <1>1, <1>2 DEF Counted, LostIn
  <2>1. mon_seq.max <= sent
    BY DEF LossInv, MeterRange, Clean, Seen
  <2>2. {p \in linklost' : mon_seq.first <= p /\ p <= mon_seq.max} = LostIn(mon_seq.first, mon_seq.max)
    BY <1>3, <1>8, <2>1 DEF LostIn
  <2> QED BY <2>2 DEF LossInv, Counted
<1>10. CleanRowsAreLinkLoss'
  <2> SUFFICES ASSUME ~flagged, ~unseen, ~failed
               PROVE  row.inferred = Cardinality({p \in linklost' : mon_seq.first <= p /\ p <= row.max})
    BY <1>1 DEF CleanRowsAreLinkLoss
  <2>1. row.max <= sent
    BY DEF LossInv, RowRange
  <2>2. {p \in linklost' : mon_seq.first <= p /\ p <= row.max}
          = {p \in linklost : mon_seq.first <= p /\ p <= row.max}
    BY <1>3, <1>8, <2>1
  <2> QED BY <2>2 DEF LossInv, CleanRowsAreLinkLoss
<1> QED BY <1>4, <1>5, <1>6, <1>7, <1>9, <1>10 DEF LossInv

\* A counter moves on another user's account: in an open window the row will be
\* flagged or the turn was noticed, and outside it is marked.
LEMMA OthersLoss ==
  ASSUME MonInv, LossInv, OtherFails
  PROVE  LossInv'
<1>0. /\ dbg \in [ovf : 0 .. (U8 - 1), out : 0 .. (U8 - 1)]
      /\ prev \in [ovf : 0 .. (U8 - 1), out : 0 .. (U8 - 1)]
  BY DEF MonInv, TypeOK, MoreTypes
<1>1. sent \in Nat /\ sent' = sent
  BY SeqAssumption, MonitorAssumption DEF MonInv, TypeOK, OtherFails
<1>2. UNCHANGED <<pc, main, queue, pk, mon_seq, prev, suspect, row, flagged, linklost, failed>>
  BY DEF OtherFails, cmd, thread
<1>3. /\ unseen' \in BOOLEAN /\ (unseen => unseen') /\ (pc = "store" => unseen')
  BY DEF OtherFails, LossInv, LossTypes
<1>4. dbg' = prev => unseen'
  <2>1. CASE /\ dbg' = [dbg EXCEPT !.out = (@ + 1) % U8]
             /\ unseen' = (unseen \/ pc = "store" \/ FullTurn(prev.out, dbg.out))
    <3>1. dbg' = prev => (dbg.out + 1) % U8 = prev.out
      BY <1>0, <2>1
    <3> QED BY <1>0, <2>1, <3>1, TurnSeen
  <2>2. CASE /\ dbg' = [dbg EXCEPT !.ovf = (@ + 1) % U8]
             /\ unseen' = (unseen \/ pc = "store" \/ FullTurn(prev.ovf, dbg.ovf))
    <3>1. dbg' = prev => (dbg.ovf + 1) % U8 = prev.ovf
      BY <1>0, <2>2
    <3> QED BY <1>0, <2>2, <3>1, TurnSeen
  <2> QED BY <2>1, <2>2 DEF OtherFails
<1>5. Sampled' /\ (Clean' => Clean)
  BY <1>2, <1>3, <1>4 DEF Sampled, Clean, Live
<1>6. sent' \in Nat /\ sent <= sent' /\ sent' <= sent + 1
  BY ONLY <1>1
<1> QED BY <1>1, <1>2, <1>3, <1>5, <1>6, SentLoss

LEMMA NextLoss == MonInv /\ LossInv /\ [Next]_vars => LossInv'
<1> SUFFICES ASSUME MonInv, LossInv, [Next]_vars PROVE LossInv'
  OBVIOUS
<1>1. CASE UNCHANGED vars
  BY <1>1, QuietLoss DEF vars, cmd, thread, lib, pool, link, ghost, data, Live, Clean
<1>2. CASE Drainer
  <2>1. CASE DrainerExit
    BY <2>1, QuietLoss DEF DrainerExit, cmd, lib, pool, link, ghost, data, Live, Clean
  <2>2. CASE NotDue
    BY <2>2, QuietLoss DEF NotDue, cmd, lib, pool, link, ghost, data, Live, Clean
  <2> QED BY <1>2, <2>1, <2>2, BeginLoss, ReadLoss, FeedLoss, SampleLoss, WriteLoss DEF Drainer
<1>3. CASE Libcsp
  <2>0. sent \in Nat /\ sent + 1 \in Nat
    BY SeqAssumption, MonitorAssumption DEF MonInv, TypeOK
  <2>1. CASE FlowFrame
    BY <2>0, <2>1, RoutedLoss DEF FlowFrame
  <2>2. CASE OtherFrame
    <3>1. PromiscAdd(0) /\ 0 \in Nat /\ sent' = sent
          /\ UNCHANGED <<linklost, cmd, thread, promisc, users, failed>>
      BY <2>2 DEF OtherFrame
    <3> QED BY <3>1, RoutedLoss
  <2>3. CASE UserTakes
    BY <2>3, QuietLoss DEF UserTakes, cmd, thread, link, ghost, data, Live, Clean
  <2>4. CASE UserReturns
    BY <2>4, QuietLoss DEF UserReturns, cmd, thread, link, ghost, data, Live, Clean
  <2> QED BY <1>3, <2>1, <2>2, <2>3, <2>4, LinkLossLoss, OthersLoss DEF Libcsp
<1> QED BY <1>1, <1>2, <1>3, CommandLoss DEF Next

\* The measurement itself: as long as no row was flagged, every row of a capture
\* claims exactly the positions the link lost, whatever the queue, the pool, the
\* readers of the pool and the windows do in between.
THEOREM CleanRowsExact == Spec => []CleanRowsAreLinkLoss
<1>1. LossInv => CleanRowsAreLinkLoss
  BY DEF LossInv
<1> QED BY <1>1, InitLoss, NextLoss, MonInvariance, PTL DEF Spec

=============================================================================
