---------------------------- MODULE SvuPush_proofs --------------------------
(***************************************************************************)
(* The verdict a push reports is about its own file (svu/svu_push.c,       *)
(* svu/svu_apm.c, svu/svu_daemon.c), for every set of files, paths and     *)
(* ports, every backlog and every number of pushes.                        *)
(***************************************************************************)
EXTENDS SvuPush, SequenceTheorems, TLAPS

SomeFile == Files \cup {NoFile}
Announced == [port : Ports, path : Paths, perm : Perms, want : Files]
Busy == cmd \in {"serve", "wait", "stop", "verified", "failed"}

PTypes ==
  /\ cmd \in {"idle", "serve", "wait", "stop", "verified", "failed"}
  /\ push \in [file : SomeFile, path : Paths \cup {0}, perm : Perms \cup {0},
               port : Ports \cup {0}, csh : BOOLEAN, ok : BOOLEAN, fresh : BOOLEAN]
  /\ Busy => push.file \in Files /\ push.path \in Paths /\ push.port \in Ports /\ push.perm \in Perms
  /\ srv \in SomeFile
  /\ answer \in {-1, 0, 1}
  /\ queue \in Seq(Announced)
  /\ dpc \in {"accept", "pull", "reply"}
  /\ dpc # "accept" => conn \in Announced
  /\ locked \in SomeFile
  /\ rc \in {0, 1}
  /\ disk \in [Paths -> [file : SomeFile, whole : BOOLEAN, perm : Perms \cup {0}]]
  /\ cut \in BOOLEAN

\* While a command runs, the port is bound for its file or not at all; between
\* commands it is not bound.
ServesOwnFile ==
  /\ srv \in {NoFile, push.file}
  /\ cmd \in {"idle", "verified", "failed"} => srv = NoFile

\* The daemon has a promise before it writes, and what it wrote is on disk.
DaemonWrote ==
  dpc = "reply" /\ rc = 0 => locked # NoFile /\ disk[conn.path].file = locked

\* Nothing at the daemon carries the port of a waiting command that was fresh but
\* its own announce, and the pull for that announce locks its file.
OwnAnnounce ==
  cmd = "wait" /\ push.fresh =>
    /\ \A i \in 1 .. Len(queue) : queue[i].port = push.port => queue[i].path = WirePath(push.path)
    /\ dpc # "accept" /\ conn.port = push.port =>
         conn.path = WirePath(push.path) /\ locked \in {NoFile, push.file}

\* A command that has its good verdict, read or not.
Good ==
  /\ push.fresh
  /\ WirePath(push.path) = push.path
  /\ \/ cmd = "wait" /\ answer = 0
     \/ cmd \in {"stop", "verified"} /\ push.ok

\* Its file is at its path, and whatever the daemon pulls from now on until the
\* report is that file too.
GoodStays == Good => disk[push.path].file = push.file /\ locked \in {NoFile, push.file}

\* Only the disk cuts files.
CutByDisk == ~cut => \A p \in Paths : disk[p].whole

Reported ==
  /\ push.ok => cmd \in {"stop", "verified"}
  /\ cmd = "verified" => push.ok

PInv ==
  PTypes /\ ServesOwnFile /\ DaemonWrote /\ OwnAnnounce /\ GoodStays /\ CutByDisk /\ Reported

LEMMA InitPush == PInit => PInv
<1> SUFFICES ASSUME PInit PROVE PInv
  OBVIOUS
<1>1. PTypes
  BY EmptySeq DEF PInit, PTypes, NoPush, SomeFile, Busy
<1>2. ServesOwnFile /\ DaemonWrote /\ OwnAnnounce /\ GoodStays /\ CutByDisk /\ Reported
  BY DEF PInit, ServesOwnFile, DaemonWrote, OwnAnnounce, GoodStays, CutByDisk, Reported, Good, NoPush
<1> QED BY <1>1, <1>2 DEF PInv

\* A new command: nothing is announced yet, so no verdict is its own.
LEMMA StartInv ==
  ASSUME PInv, NEW csh \in BOOLEAN, StartServing(csh)
  PROVE  PInv'
<1>1. PICK f \in Files, p \in Paths, m \in Perms, q \in Ports :
        /\ push' = [NoPush EXCEPT !.file = f, !.path = p, !.perm = m, !.port = q, !.csh = csh]
        /\ srv' \in IF srv = NoFile THEN {f, NoFile} ELSE {srv}
  BY DEF StartServing
<1>2. cmd = "idle" /\ cmd' = "serve" /\ UNCHANGED <<answer, daemon>>
  BY DEF StartServing
<1>3. push' = [file |-> f, path |-> p, perm |-> m, port |-> q, csh |-> csh, ok |-> FALSE, fresh |-> FALSE]
  BY <1>1 DEF NoPush
<1>4. srv' \in {f, NoFile}
  BY <1>1, <1>2 DEF PInv, ServesOwnFile
<1>5. PTypes'
  BY <1>2, <1>3, <1>4 DEF PInv, PTypes, daemon, Busy, SomeFile
<1>6. ServesOwnFile' /\ OwnAnnounce' /\ GoodStays' /\ Reported'
  BY <1>2, <1>3, <1>4 DEF ServesOwnFile, OwnAnnounce, GoodStays, Good, Reported
<1>7. DaemonWrote' /\ CutByDisk'
  BY <1>2 DEF PInv, DaemonWrote, CutByDisk, daemon
<1> QED BY <1>5, <1>6, <1>7 DEF PInv

LEMMA AnnounceInv ==
  ASSUME PInv, Announce
  PROVE  PInv'
<1>1. /\ cmd = "serve" /\ cmd' = "wait" /\ answer' = -1
      /\ push' = [push EXCEPT !.fresh = ~PortTaken]
      /\ UNCHANGED <<srv, n, dpc, conn, locked, rc, disk, cut>>
  BY DEF Announce
<1> DEFINE a == [port |-> push.port, path |-> WirePath(push.path), perm |-> push.perm, want |-> push.file]
<1>2. queue' = queue \/ queue' = Append(queue, a)
  BY DEF Announce
<1>3. /\ push'.file = push.file /\ push'.path = push.path /\ push'.port = push.port /\ push'.perm = push.perm
      /\ push'.ok = push.ok /\ push'.fresh = ~PortTaken /\ push.ok \in BOOLEAN
      /\ push' \in [file : SomeFile, path : Paths \cup {0}, perm : Perms \cup {0},
                    port : Ports \cup {0}, csh : BOOLEAN, ok : BOOLEAN, fresh : BOOLEAN]
  <2>1. PortTaken \in BOOLEAN
    BY DEF PortTaken
  <2> QED BY <1>1, <2>1 DEF PInv, PTypes
<1>4. queue \in Seq(Announced) /\ a \in Announced /\ a.port = push.port /\ a.path = WirePath(push.path)
  BY <1>1, PushAssumption DEF PInv, PTypes, Busy, Announced, WirePath
<1> HIDE DEF a
<1>5. /\ queue' \in Seq(Announced) /\ Len(queue) \in Nat
      /\ \A i \in 1 .. Len(queue') : queue'[i] = a \/ (i \in 1 .. Len(queue) /\ queue'[i] = queue[i])
  BY <1>2, <1>4
<1>6. PTypes'
  BY <1>1, <1>3, <1>5 DEF PInv, PTypes, Busy
<1>7. ~push.ok /\ ~push'.ok
  BY <1>1, <1>3 DEF PInv, Reported
<1>8. ServesOwnFile' /\ DaemonWrote' /\ GoodStays' /\ CutByDisk' /\ Reported'
  BY <1>1, <1>3, <1>7 DEF PInv, ServesOwnFile, DaemonWrote, GoodStays, CutByDisk, Good, Reported
<1>9. OwnAnnounce'
  <2> SUFFICES ASSUME ~PortTaken
               PROVE  /\ \A i \in 1 .. Len(queue') : queue'[i].port = push.port => queue'[i].path = WirePath(push.path)
                      /\ ~(dpc # "accept" /\ conn.port = push.port)
    BY <1>1, <1>3 DEF OwnAnnounce, WirePath
  <2>1. \A i \in 1 .. Len(queue) : queue[i].port # push.port
    BY <1>4 DEF PortTaken
  <2> QED BY <1>4, <1>5, <2>1 DEF PortTaken
<1> QED BY <1>6, <1>8, <1>9 DEF PInv

\* The other steps of the command and of its serve thread.
LEMMA CommandInv ==
  ASSUME PInv,
         ConnectFails \/ ReadVerdict \/ WaitTimeout \/ PushExits \/ ServeSeesStop \/ JoinServing
  PROVE  PInv'
<1> USE DEF PInv
<1>0. UNCHANGED daemon
  BY DEF ConnectFails, ReadVerdict, WaitTimeout, PushExits, ServeSeesStop, JoinServing
<1>1. UNCHANGED <<queue, dpc, conn, locked, rc, disk, cut>>
  BY <1>0 DEF daemon
<1>2. DaemonWrote' /\ CutByDisk'
  BY <1>1 DEF DaemonWrote, CutByDisk
<1>3. CASE ReadVerdict
  <2>1. /\ push' = [push EXCEPT !.ok = (answer = 0)] /\ cmd = "wait" /\ cmd' = "stop"
        /\ UNCHANGED <<srv, n, answer>>
    BY <1>3 DEF ReadVerdict
  <2>2. /\ push'.file = push.file /\ push'.path = push.path /\ push'.port = push.port /\ push'.perm = push.perm
        /\ push'.fresh = push.fresh /\ push'.ok = (answer = 0)
        /\ push' \in [file : SomeFile, path : Paths \cup {0}, perm : Perms \cup {0},
                      port : Ports \cup {0}, csh : BOOLEAN, ok : BOOLEAN, fresh : BOOLEAN]
    BY <2>1 DEF PTypes
  <2>3. PTypes'
    BY <1>1, <2>1, <2>2 DEF PTypes, Busy
  <2>4. Good' => Good
    BY <2>1, <2>2 DEF Good, WirePath
  <2>5. ServesOwnFile' /\ OwnAnnounce' /\ GoodStays' /\ Reported'
    BY <1>1, <2>1, <2>2, <2>4 DEF ServesOwnFile, OwnAnnounce, GoodStays, Reported
  <2> QED BY <1>2, <2>3, <2>5
<1>4. CASE ConnectFails \/ WaitTimeout
  <2>1. cmd \in {"serve", "wait"} /\ cmd' = "stop" /\ UNCHANGED <<push, srv, n, answer>>
    BY <1>4 DEF ConnectFails, WaitTimeout
  <2>2. ~push.ok
    BY <2>1 DEF Reported
  <2> QED BY <1>1, <1>2, <2>1, <2>2
          DEF PTypes, Busy, ServesOwnFile, OwnAnnounce, GoodStays, Good, Reported
<1>5. CASE PushExits \/ JoinServing
  <2>1. /\ cmd = "stop" /\ cmd' = (IF push.ok THEN "verified" ELSE "failed") /\ srv' = NoFile
        /\ UNCHANGED <<push, n, answer>>
    BY <1>5 DEF PushExits, JoinServing
  <2>2. push.ok \in BOOLEAN
    BY DEF PTypes
  <2>3. PTypes'
    BY <1>1, <2>1 DEF PTypes, Busy, SomeFile
  <2>4. Good' => Good
    BY <2>1 DEF Good, WirePath
  <2>5. ServesOwnFile' /\ OwnAnnounce' /\ GoodStays' /\ Reported'
    BY <1>1, <2>1, <2>2, <2>4 DEF ServesOwnFile, OwnAnnounce, GoodStays, Reported
  <2> QED BY <1>2, <2>3, <2>5
<1>6. CASE ServeSeesStop
  <2>1. cmd = "stop" /\ srv' = NoFile /\ UNCHANGED <<cmd, push, n, answer>>
    BY <1>6 DEF ServeSeesStop
  <2> QED BY <1>1, <1>2, <2>1
          DEF PTypes, Busy, SomeFile, ServesOwnFile, OwnAnnounce, GoodStays, Good, Reported
<1> QED BY <1>3, <1>4, <1>5, <1>6

\* The prompt is back, after the report or because the program was killed.
LEMMA EndInv ==
  ASSUME PInv, Prompt \/ Kill
  PROVE  PInv'
<1> USE DEF PInv
<1>1. /\ cmd' = "idle" /\ push' = NoPush /\ srv' = NoFile /\ answer' = -1
      /\ UNCHANGED <<queue, dpc, conn, locked, rc, disk, cut>>
  BY DEF Prompt, Kill, daemon, ServesOwnFile
<1>2. PTypes'
  BY <1>1 DEF PTypes, Busy, SomeFile, NoPush
<1> QED BY <1>1, <1>2 DEF ServesOwnFile, DaemonWrote, OwnAnnounce, GoodStays, CutByDisk, Good, Reported, NoPush

\* The daemon.
LEMMA DaemonInv ==
  ASSUME PInv, DaemonStep
  PROVE  PInv'
<1> USE DEF PInv
<1>1. CASE Accept
  <2>1. /\ dpc = "accept" /\ dpc' = "pull" /\ queue # <<>> /\ conn' = Head(queue) /\ queue' = Tail(queue)
        /\ locked' = NoFile /\ UNCHANGED <<rc, disk, cut, cmd, push, srv, n, answer>>
    BY <1>1 DEF Accept, source
  <2>2. /\ Len(queue) \in Nat \ {0} /\ Head(queue) = queue[1] /\ Head(queue) \in Announced
        /\ Tail(queue) \in Seq(Announced)
        /\ \A i \in 1 .. Len(Tail(queue)) : Tail(queue)[i] = queue[i + 1] /\ i + 1 \in 1 .. Len(queue)
        /\ 1 \in 1 .. Len(queue)
    BY <2>1 DEF PTypes
  <2>3. PTypes'
    BY <2>1, <2>2 DEF PTypes, Busy, SomeFile
  <2>4. OwnAnnounce'
    BY <2>1, <2>2 DEF OwnAnnounce, WirePath
  <2> QED BY <2>1, <2>3, <2>4 DEF ServesOwnFile, DaemonWrote, GoodStays, CutByDisk, Good, WirePath, Reported
<1>2. CASE PullLock
  <2>1. dpc = "pull" /\ locked' = srv /\ UNCHANGED <<queue, dpc, conn, rc, disk, cut, cmd, push, srv, n, answer>>
    BY <1>2 DEF PullLock, source
  <2> QED BY <2>1
          DEF PTypes, Busy, ServesOwnFile, DaemonWrote, OwnAnnounce, GoodStays, CutByDisk, Good, WirePath, Reported
<1>3. CASE PullOk
  <2>1. /\ dpc = "pull" /\ dpc' = "reply" /\ locked # NoFile /\ rc' = 0
        /\ UNCHANGED <<queue, conn, locked, cmd, push, srv, n, answer>>
    BY <1>3 DEF PullOk, source
  <2>2. PICK whole \in BOOLEAN, m \in {conn.perm, disk[conn.path].perm} :
          /\ disk' = [disk EXCEPT ![conn.path] = [file |-> locked, whole |-> whole, perm |-> m]]
          /\ cut' = (cut \/ ~whole)
    BY <1>3 DEF PullOk
  <2>3. conn.path \in Paths /\ conn.perm \in Perms /\ m \in Perms \cup {0}
    BY <2>1, <2>2 DEF PTypes, Announced
  <2>4. disk' \in [Paths -> [file : SomeFile, whole : BOOLEAN, perm : Perms \cup {0}]] /\ cut' \in BOOLEAN
    BY <2>2, <2>3 DEF PTypes
  <2>5. \A p \in Paths : /\ disk'[p].file = IF p = conn.path THEN locked ELSE disk[p].file
                         /\ disk'[p].whole = IF p = conn.path THEN whole ELSE disk[p].whole
    BY <2>2, <2>3 DEF PTypes
  <2>9. CutByDisk'
    BY <2>2, <2>5 DEF CutByDisk
  <2>6. PTypes'
    BY <2>1, <2>4 DEF PTypes, Busy
  <2>7. ServesOwnFile' /\ OwnAnnounce' /\ Reported' /\ DaemonWrote'
    BY <2>1, <2>3, <2>5 DEF ServesOwnFile, OwnAnnounce, WirePath, Reported, DaemonWrote
  <2>8. GoodStays'
    <3> SUFFICES ASSUME Good
                 PROVE  disk'[push.path].file = push.file /\ locked \in {NoFile, push.file}
      BY <2>1 DEF GoodStays, Good, WirePath
    <3>1. push.path \in Paths
      BY DEF Good, PTypes, Busy
    <3> QED BY <2>1, <2>5, <3>1 DEF GoodStays
  <2> QED BY <2>6, <2>7, <2>8, <2>9
<1>4. CASE PullFails
  <2>1. dpc' = "reply" /\ dpc = "pull" /\ rc' = 1 /\ UNCHANGED <<queue, conn, locked, disk, cut, cmd, push, srv, n, answer>>
    BY <1>4 DEF PullFails, source
  <2> QED BY <2>1
          DEF PTypes, Busy, ServesOwnFile, DaemonWrote, OwnAnnounce, GoodStays, CutByDisk, Good, WirePath, Reported
<1>5. CASE Reply
  <2>1. /\ dpc = "reply" /\ dpc' = "accept" /\ UNCHANGED <<cmd, push, srv, n, queue, locked, rc, disk, cut>>
        /\ \/ cmd = "wait" /\ push.port = conn.port /\ answer = -1 /\ answer' = rc
           \/ answer' = answer
    BY <1>5 DEF Reply
  <2>2. PTypes'
    BY <2>1 DEF PTypes, Busy
  <2>3. ServesOwnFile' /\ DaemonWrote' /\ OwnAnnounce' /\ CutByDisk' /\ Reported'
    BY <2>1 DEF ServesOwnFile, DaemonWrote, OwnAnnounce, CutByDisk, WirePath, Reported
  <2>4. GoodStays'
    <3>1. CASE answer' = answer
      BY <2>1, <3>1 DEF GoodStays, Good, WirePath
    <3>2. CASE cmd = "wait" /\ push.port = conn.port /\ answer = -1 /\ answer' = rc
      <4> SUFFICES ASSUME Good' PROVE disk[push.path].file = push.file /\ locked \in {NoFile, push.file}
        BY <2>1 DEF GoodStays
      <4>1. rc = 0 /\ push.fresh /\ WirePath(push.path) = push.path
        BY <2>1, <3>2 DEF Good, WirePath
      <4>2. conn.path = push.path /\ locked \in {NoFile, push.file}
        BY <2>1, <3>2, <4>1 DEF OwnAnnounce
      <4> QED BY <2>1, <4>1, <4>2 DEF DaemonWrote
    <3> QED BY <2>1, <3>1, <3>2
  <2> QED BY <2>2, <2>3, <2>4
<1> QED BY <1>1, <1>2, <1>3, <1>4, <1>5 DEF DaemonStep

LEMMA NextPush == PInv /\ [PNext]_pvars => PInv'
<1> SUFFICES ASSUME PInv, [PNext]_pvars PROVE PInv'
  OBVIOUS
<1>1. CASE UNCHANGED pvars
  BY <1>1 DEF pvars, source, daemon, PInv, PTypes, Busy, ServesOwnFile, DaemonWrote, OwnAnnounce, GoodStays,
              CutByDisk, Good, WirePath, Reported
<1>2. CASE StartPush \/ SvuCmd
  BY <1>2, StartInv DEF StartPush, SvuCmd
<1> QED BY <1>1, <1>2, AnnounceInv, CommandInv, EndInv, DaemonInv DEF PNext, CommandStep

\* A push that reports VERIFIED has its own file at its own path, the whole of it
\* unless the disk has cut a write short, although other pushes, killed and timed
\* out, have announces and pulls of theirs under way.
THEOREM PushVerdictHonest == PSpec => []VerdictHonest
<1>1. PInv => VerdictHonest
  <2> SUFFICES ASSUME PInv, cmd = "verified", push.fresh, WirePath(push.path) = push.path
               PROVE  disk[push.path].file = push.file /\ (disk[push.path].whole \/ cut)
    BY DEF VerdictHonest
  <2>1. Good
    BY DEF PInv, Reported, Good
  <2>2. push.path \in Paths
    BY DEF PInv, PTypes, Busy
  <2> QED BY <2>1, <2>2 DEF PInv, GoodStays, CutByDisk
<1> QED BY <1>1, InitPush, NextPush, PTL DEF PSpec

=============================================================================
