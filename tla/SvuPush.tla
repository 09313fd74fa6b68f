------------------------------- MODULE SvuPush ------------------------------
(***************************************************************************)
(* `svu <file> <node>:<path>`: the push command (svu/svu_push.c, and the   *)
(* csh command svu/svu_apm.c) and the receiver daemon (svu/svu_daemon.c).  *)
(* The command serves its file, announces the destination path on a        *)
(* connection to the daemon and waits for one status byte; the daemon      *)
(* handles one announce at a time: it pulls from the announcing node,      *)
(* writes the path and answers on the same connection.                     *)
(*                                                                         *)
(* One source node issues pushes one after the other, each by either       *)
(* program; the operator may kill one.  svu_push ends its serve thread by  *)
(* exiting; csh sets stop and joins the thread, which looks at stop only   *)
(* when no request came for 2 s.  A pull (svu_client_run) appears by what  *)
(* SvuTransfer shows of it: it locks the manifest of whatever file the     *)
(* node serves at that time and then writes that file, or gives up.  The   *)
(* write itself is not checked: a full disk leaves only a beginning of the *)
(* file (finding transfer_disk), and the daemon does not notice.           *)
(***************************************************************************)
EXTENDS Integers, Sequences

CONSTANTS
  Files,      \* files pushed
  Paths,      \* destination paths
  CutTo,      \* what is left of each path in the 250 bytes of an announce
  Perms,      \* permission bits handed over with -p; 0 is no -p
  Ports,      \* ephemeral source ports of the node
  Backlog,    \* csp_listen backlog of the daemon (10)
  MaxPushes   \* bound: pushes issued

ASSUME PushAssumption ==
  /\ Files \subseteq Nat \ {0}
  /\ CutTo \in [Paths -> Paths]
  /\ Perms \subseteq Nat
  /\ Backlog \in Nat
  /\ MaxPushes \in Nat

VARIABLES
  cmd,       \* where the push command is
  push,      \* its arguments: file, path, perm; its port; csh: which program;
             \* ok; and fresh: the daemon had no connection from that port when
             \* it announced
  srv,       \* the file the node's serve thread has bound the port for, or NoFile
  n,         \* pushes so far
  queue,     \* announces the daemon has not accepted yet
  dpc,       \* where the daemon is
  conn,      \* the announce it handles
  locked,    \* the file whose manifest the pull locked, or NoFile
  rc,        \* the pull's result: 0 or 1
  answer,    \* verdict waiting at the command's connection: 0, 1, or -1 for none
  disk,      \* the destination's files: path -> file, whether it is whole, mode
  cut        \* the disk has cut a write short

source == <<cmd, push, srv, n, answer>>
daemon == <<queue, dpc, conn, locked, rc, disk, cut>>
pvars == <<source, daemon>>

NoFile == 0
NoConn == [port |-> 0, path |-> 0, perm |-> 0, want |-> 0]
NoPush == [file |-> NoFile, path |-> 0, perm |-> 0, port |-> 0, csh |-> FALSE,
           ok |-> FALSE, fresh |-> FALSE]

PInit ==
  /\ cmd = "idle" /\ push = NoPush /\ srv = NoFile /\ n = 0 /\ answer = -1
  /\ queue = <<>> /\ dpc = "accept" /\ conn = NoConn
  /\ locked = NoFile /\ rc = 1
  /\ disk = [p \in Paths |-> [file |-> NoFile, whole |-> TRUE, perm |-> 0]]
  /\ cut = FALSE

-----------------------------------------------------------------------------
(* The command.                                                            *)

\* Splits the target into node and path, loads the file and starts the serve
\* thread; a command that fails before that leaves nothing behind.  The thread
\* cannot bind a port that is bound already, which goes unnoticed.
StartServing(csh) ==
  /\ cmd = "idle"
  /\ n < MaxPushes
  /\ n' = n + 1
  /\ \E f \in Files, p \in Paths, m \in Perms, q \in Ports :
       /\ push' = [NoPush EXCEPT !.file = f, !.path = p, !.perm = m, !.port = q,
                                 !.csh = csh]
       /\ srv' \in IF srv = NoFile THEN {f, NoFile} ELSE {srv}
  /\ cmd' = "serve"
  /\ UNCHANGED <<answer, daemon>>

StartPush == StartServing(FALSE)

SvuCmd == StartServing(TRUE)

\* csp_connect or csp_buffer_get returns NULL.
ConnectFails ==
  /\ cmd = "serve"
  /\ cmd' = "stop"
  /\ UNCHANGED <<push, srv, n, answer, daemon>>

\* The daemon's stack already has a connection from this port: the announce is
\* queued there and freed when that connection is closed.
PortTaken ==
  \/ dpc # "accept" /\ conn.port = push.port
  \/ \E i \in DOMAIN queue : queue[i].port = push.port

WirePath(p) == CutTo[p]

\* The announce is sent.  It may be lost, swallowed or refused by a full backlog.
Announce ==
  /\ cmd = "serve"
  /\ cmd' = "wait"
  /\ answer' = -1
  /\ push' = [push EXCEPT !.fresh = ~PortTaken]
  /\ \/ /\ ~PortTaken
        /\ Len(queue) < Backlog
        /\ queue' = Append(queue, [port |-> push.port, path |-> WirePath(push.path),
                                   perm |-> push.perm, want |-> push.file])
     \/ UNCHANGED queue
  /\ UNCHANGED <<srv, n, dpc, conn, locked, rc, disk, cut>>

ReadVerdict ==
  /\ cmd = "wait"
  /\ answer # -1
  /\ push' = [push EXCEPT !.ok = (answer = 0)]
  /\ cmd' = "stop"
  /\ UNCHANGED <<srv, n, answer, daemon>>

\* Mutant: the wait for the verdict has no time-out.
WaitTimeoutNever ==
  /\ cmd = "wait"
  /\ answer # -1
  /\ cmd' = "stop"
  /\ UNCHANGED <<push, srv, n, answer, daemon>>

\* The 600 s are over, whatever the daemon is doing.
WaitTimeout ==
  /\ cmd = "wait"
  /\ cmd' = "stop"
  /\ UNCHANGED <<push, srv, n, answer, daemon>>

\* svu_push reports and exits, and its detached serve thread with it.
PushExits ==
  /\ cmd = "stop"
  /\ ~push.csh
  /\ cmd' = IF push.ok THEN "verified" ELSE "failed"
  /\ srv' = NoFile
  /\ UNCHANGED <<push, n, answer, daemon>>

\* csp_accept of the serve loop returns nothing for 2 s, and only then does the
\* loop see stop: it closes its socket.  Requests of a pull may come further
\* apart than that, but nothing is sure while the daemon pulls.
ServeSeesStop ==
  /\ cmd = "stop"
  /\ push.csh
  /\ srv # NoFile
  /\ srv' = NoFile
  /\ UNCHANGED <<cmd, push, n, answer, daemon>>

\* Mutant: the command reports without waiting for its serve thread.
JoinServingNot ==
  /\ cmd = "stop"
  /\ push.csh
  /\ cmd' = IF push.ok THEN "verified" ELSE "failed"
  /\ UNCHANGED <<push, srv, n, answer, daemon>>

\* The serve thread has ended, or never got its port: csh reports.
JoinServing ==
  /\ cmd = "stop"
  /\ push.csh
  /\ srv = NoFile
  /\ cmd' = IF push.ok THEN "verified" ELSE "failed"
  /\ UNCHANGED <<push, srv, n, answer, daemon>>

\* The report is out and the prompt is back.
Prompt ==
  /\ cmd \in {"verified", "failed"}
  /\ cmd' = "idle"
  /\ push' = NoPush
  /\ answer' = -1
  /\ UNCHANGED <<srv, n, daemon>>

\* The operator kills the program.
Kill ==
  /\ cmd \in {"serve", "wait", "stop"}
  /\ cmd' = "idle"
  /\ push' = NoPush
  /\ srv' = NoFile
  /\ answer' = -1
  /\ UNCHANGED <<n, daemon>>

-----------------------------------------------------------------------------
(* The daemon.                                                             *)

Accept ==
  /\ dpc = "accept"
  /\ queue # <<>>
  /\ conn' = Head(queue)
  /\ queue' = Tail(queue)
  /\ locked' = NoFile
  /\ dpc' = "pull"
  /\ UNCHANGED <<rc, disk, cut, source>>

\* The first complete manifest is the one of the file the node serves now.
PullLock ==
  /\ dpc = "pull"
  /\ locked = NoFile
  /\ srv # NoFile
  /\ locked' = srv
  /\ UNCHANGED <<queue, dpc, conn, rc, disk, cut, source>>

\* The pull verified: the path holds the promised file, or a beginning of it when
\* the disk took no more; the result is the same.  The mode is set when the
\* announce has one; chmod may fail.
PullOk ==
  /\ dpc = "pull"
  /\ locked # NoFile
  /\ rc' = 0
  /\ \E whole \in BOOLEAN, m \in {conn.perm, disk[conn.path].perm} :
       /\ conn.perm = 0 => m = disk[conn.path].perm
       /\ disk' = [disk EXCEPT ![conn.path] = [file |-> locked, whole |-> whole, perm |-> m]]
       /\ cut' = (cut \/ ~whole)
  /\ dpc' = "reply"
  /\ UNCHANGED <<queue, conn, locked, source>>

\* Mutant: the pull waits until the node serves a file.
PullFailsLocked ==
  /\ dpc = "pull"
  /\ locked # NoFile
  /\ rc' = 1
  /\ dpc' = "reply"
  /\ UNCHANGED <<queue, conn, locked, disk, cut, source>>

PullFails ==
  /\ dpc = "pull"
  /\ rc' = 1
  /\ dpc' = "reply"
  /\ UNCHANGED <<queue, conn, locked, disk, cut, source>>

\* One status byte on the connection of the announce, which reaches whatever
\* command has that port open now; it may be lost.  The connection is closed.
Reply ==
  /\ dpc = "reply"
  /\ dpc' = "accept"
  /\ conn' = NoConn
  /\ \/ cmd = "wait" /\ push.port = conn.port /\ answer = -1 /\ answer' = rc
     \/ UNCHANGED answer
  /\ UNCHANGED <<cmd, push, srv, n, queue, locked, rc, disk, cut>>

-----------------------------------------------------------------------------
CommandStep ==
  \/ ConnectFails \/ Announce \/ ReadVerdict \/ WaitTimeout
  \/ PushExits \/ JoinServing \/ Prompt

DaemonStep == Accept \/ PullLock \/ PullOk \/ PullFails \/ Reply

PNext == StartPush \/ SvuCmd \/ CommandStep \/ ServeSeesStop \/ Kill \/ DaemonStep

\* The waits of the command and of the daemon are bounded, and so is a pull
\* (Termination of SvuTransfer), so both go on.  The serve loop is only sure to
\* idle for 2 s while nobody pulls.
PSpec ==
  /\ PInit /\ [][PNext]_pvars
  /\ WF_pvars(CommandStep) /\ WF_pvars(DaemonStep)
  /\ WF_pvars(ServeSeesStop /\ dpc # "pull")

-----------------------------------------------------------------------------
(* Properties.                                                             *)

\* A push that reports VERIFIED has its own file at its own destination path,
\* whatever earlier pushes left behind at the daemon, provided its path fits the
\* announce and the daemon did not still have a connection from the same port.  It
\* is the whole file as long as the disk takes what is written; with a disk that
\* does not, VERIFIED may stand for a beginning of the file (finding
\* transfer_disk), but never for bytes of another one.
VerdictHonest ==
  cmd = "verified" /\ push.fresh /\ WirePath(push.path) = push.path =>
    /\ disk[push.path].file = push.file
    /\ disk[push.path].whole \/ cut

\* "A source ... hands over a destination path; the daemon pulls the file from
\* that source": what the daemon writes to a path is the file of the push that
\* handed over the path, cut short or not.
DaemonWritesWhatWasPushed ==
  dpc = "reply" /\ rc = 0 => disk[conn.path].file = conn.want

\* A push returns to the operator whatever happens to the announce, the answer
\* and the daemon, although csh waits for a serve thread that the daemon's pull
\* may keep from ever looking at stop.
PushReturns == cmd # "idle" ~> cmd = "idle"

\* The daemon gets through its backlog: every announce it took in is handled and
\* it is back at csp_accept.
DaemonReturns == []<>(dpc = "accept" /\ queue = <<>>)

=============================================================================
