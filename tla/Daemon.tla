------------------------------- MODULE Daemon -------------------------------
(***************************************************************************)
(* Starting, finding and stopping the program: main of cmd/proxy/main.go   *)
(* and pkg/core/daemon.go. The processes share two files in ~/.ihpp, the   *)
(* Unix socket and the pid file, and have no lock: each looks for a daemon *)
(* that answers, removes both files and makes its own.                     *)
(*                                                                         *)
(* A step is one operation on the file system or the socket. Any process   *)
(* may be killed at any point. What a merge command does in the daemon is  *)
(* modelled in ProxyRegistry.                                              *)
(***************************************************************************)
CONSTANTS
  Procs,  \* processes, a child made by Daemonize included
  NoProc

ASSUME DaemonAssumption == NoProc \notin Procs

VARIABLES
  mainAt,      \* where main is
  background,  \* the processes started with --daemon that have yet to fork
  socket,      \* the process that made the file ihpp.sock, or NoProc: no file
  pidfile,     \* the process named in ihpp.pid, or NoProc: no file
  overlapped,  \* history: processes that started while another was starting
  noPid,       \* history: processes that could not write the pid file
  noSocket,    \* history: processes that could not listen
  failed       \* history: processes that were killed or whose fork or database failed

daemonVars == <<mainAt, background, socket, pidfile, overlapped, noPid, noSocket, failed>>

\* From the search for a daemon to the listener of its own.
Starting == {"check", "removeSocket", "removePid", "fork", "writePid", "initDb",
             "removeOld", "listen"}

\* From the listener to the end of the process.
Up == {"serving", "stopping", "leaving"}

Ended == {"exited", "killed"}

\* A command sent to the socket is answered: the process that made the file
\* accepts connections until it ends. Nothing removes the file of a dead one.
Answers(p) == socket = p /\ mainAt[p] \in Up

DaemonInit ==
  /\ mainAt = [p \in Procs |-> "none"]
  /\ background = {}
  /\ socket = NoProc
  /\ pidfile = NoProc
  /\ overlapped = {}
  /\ noPid = {} /\ noSocket = {}
  /\ failed = {}

\* A process starts while the others are starting.
Overlap(p, others) ==
  overlapped' = IF others = {} THEN overlapped ELSE overlapped \cup others \cup {p}

-----------------------------------------------------------------------------
(* main.                                                                   *)

\* The user runs ihpp, with or without --daemon.
Start(p) ==
  /\ mainAt[p] = "none"
  /\ mainAt' = [mainAt EXCEPT ![p] = "check"]
  /\ background' \in {background, background \cup {p}}
  /\ Overlap(p, {q \in Procs : mainAt[q] \in Starting})
  /\ UNCHANGED <<socket, pidfile, noPid, noSocket, failed>>

\* Mutants of CheckDaemon: the pid file decides; a socket file is taken for a
\* daemon; the pid file is removed first.
CheckDaemonByPid(p) ==
  /\ mainAt[p] = "check"
  /\ mainAt' = [mainAt EXCEPT ![p] = IF \E q \in Procs : pidfile = q /\ mainAt[q] \in Up
                                    THEN "exited" ELSE "removeSocket"]
  /\ UNCHANGED <<background, socket, pidfile, overlapped, noPid, noSocket, failed>>
CheckDaemonByFile(p) ==
  /\ mainAt[p] = "check"
  /\ mainAt' = [mainAt EXCEPT ![p] = IF socket # NoProc THEN "exited" ELSE "removeSocket"]
  /\ UNCHANGED <<background, socket, pidfile, overlapped, noPid, noSocket, failed>>
CheckDaemonCleansPid(p) ==
  /\ mainAt[p] = "check"
  /\ mainAt' = [mainAt EXCEPT ![p] = IF \E q \in Procs : Answers(q)
                                    THEN "exited" ELSE "removeSocket"]
  /\ pidfile' = NoProc
  /\ UNCHANGED <<background, socket, overlapped, noPid, noSocket, failed>>

\* CheckDaemonAndGetNewProxies: if a daemon answers, main exits, with or without
\* a merge command.
CheckDaemon(p) ==
  /\ mainAt[p] = "check"
  /\ mainAt' = [mainAt EXCEPT ![p] = IF \E q \in Procs : Answers(q)
                                    THEN "exited" ELSE "removeSocket"]
  /\ UNCHANGED <<background, socket, pidfile, overlapped, noPid, noSocket, failed>>

\* CleanupStaleSocket.
CleanupSocket(p) ==
  /\ mainAt[p] = "removeSocket"
  /\ socket' = NoProc
  /\ mainAt' = [mainAt EXCEPT ![p] = "removePid"]
  /\ UNCHANGED <<background, pidfile, overlapped, noPid, noSocket, failed>>

CleanupPid(p) ==
  /\ mainAt[p] = "removePid"
  /\ pidfile' = NoProc
  /\ mainAt' = [mainAt EXCEPT ![p] = IF p \in background THEN "fork" ELSE "writePid"]
  /\ UNCHANGED <<background, socket, overlapped, noPid, noSocket, failed>>

\* Daemonize: the child c runs main from the beginning and does not fork again;
\* the parent exits.
Daemonize(p, c) ==
  /\ mainAt[p] = "fork" /\ mainAt[c] = "none"
  /\ mainAt' = [mainAt EXCEPT ![p] = "exited", ![c] = "check"]
  /\ Overlap(c, {q \in Procs \ {p} : mainAt[q] \in Starting})
  /\ UNCHANGED <<background, socket, pidfile, noPid, noSocket, failed>>

\* The child cannot be started.
DaemonizeFails(p) ==
  /\ mainAt[p] = "fork"
  /\ mainAt' = [mainAt EXCEPT ![p] = "exited"]
  /\ failed' = failed \cup {p}
  /\ UNCHANGED <<background, socket, pidfile, overlapped, noPid, noSocket>>

WritePIDFile(p) ==
  /\ mainAt[p] = "writePid"
  /\ \/ pidfile' = p /\ UNCHANGED noPid
     \/ noPid' = noPid \cup {p} /\ UNCHANGED pidfile
  /\ mainAt' = [mainAt EXCEPT ![p] = "initDb"]
  /\ UNCHANGED <<background, socket, overlapped, noSocket, failed>>

\* InitDatabase and the start of the servers; the deferred removal of the pid
\* file does not run when log.Fatal ends the process.
InitDatabase(p) ==
  /\ mainAt[p] = "initDb"
  /\ \/ mainAt' = [mainAt EXCEPT ![p] = "removeOld"] /\ UNCHANGED failed
     \/ mainAt' = [mainAt EXCEPT ![p] = "exited"] /\ failed' = failed \cup {p}
  /\ UNCHANGED <<background, socket, pidfile, overlapped, noPid, noSocket>>

\* StartDaemonListener removes the file again and listens. That fails when the
\* file is there again or for a reason of its own; the failure is logged and the
\* program goes on without a listener.
RemoveSocket(p) ==
  /\ mainAt[p] = "removeOld"
  /\ socket' = NoProc
  /\ mainAt' = [mainAt EXCEPT ![p] = "listen"]
  /\ UNCHANGED <<background, pidfile, overlapped, noPid, noSocket, failed>>

Listen(p) ==
  /\ mainAt[p] = "listen"
  /\ \/ socket = NoProc /\ socket' = p /\ UNCHANGED noSocket
     \/ noSocket' = noSocket \cup {p} /\ UNCHANGED socket
  /\ mainAt' = [mainAt EXCEPT ![p] = "serving"]
  /\ UNCHANGED <<background, pidfile, overlapped, noPid, failed>>

-----------------------------------------------------------------------------
(* The end of a process.                                                   *)

\* ihpp stop: handleIPCConnection answers and then calls onStop.
StopCommand(p) ==
  /\ Answers(p) /\ mainAt[p] = "serving"
  /\ mainAt' = [mainAt EXCEPT ![p] = "stopping"]
  /\ UNCHANGED <<background, socket, pidfile, overlapped, noPid, noSocket, failed>>

\* SIGINT or SIGTERM, once main has called signal.Notify.
Signal(p) ==
  /\ mainAt[p] = "serving"
  /\ mainAt' = [mainAt EXCEPT ![p] = "stopping"]
  /\ UNCHANGED <<background, socket, pidfile, overlapped, noPid, noSocket, failed>>

\* The deferred RemovePIDFile, whoever is named in the file.
RemovePIDFile(p) ==
  /\ mainAt[p] = "stopping"
  /\ pidfile' = NoProc
  /\ mainAt' = [mainAt EXCEPT ![p] = "leaving"]
  /\ UNCHANGED <<background, socket, overlapped, noPid, noSocket, failed>>

\* Mutant of Exit: the listener is closed, which removes whatever file is there.
ExitUnlinks(p) ==
  /\ mainAt[p] = "leaving"
  /\ mainAt' = [mainAt EXCEPT ![p] = "exited"]
  /\ socket' = NoProc
  /\ UNCHANGED <<background, pidfile, overlapped, noPid, noSocket, failed>>

\* main returns; the listener is never closed, so its file stays.
Exit(p) ==
  /\ mainAt[p] = "leaving"
  /\ mainAt' = [mainAt EXCEPT ![p] = "exited"]
  /\ UNCHANGED <<background, socket, pidfile, overlapped, noPid, noSocket, failed>>

\* A kill, a panic or an early signal: both files stay.
Kill(p) ==
  /\ mainAt[p] \in Starting \cup Up
  /\ mainAt' = [mainAt EXCEPT ![p] = "killed"]
  /\ failed' = failed \cup {p}
  /\ UNCHANGED <<background, socket, pidfile, overlapped, noPid, noSocket>>

-----------------------------------------------------------------------------
MainStep(p) ==
  \/ CheckDaemon(p) \/ CleanupSocket(p) \/ CleanupPid(p) \/ WritePIDFile(p)
  \/ InitDatabase(p) \/ RemoveSocket(p) \/ Listen(p) \/ RemovePIDFile(p) \/ Exit(p)
  \/ DaemonizeFails(p) \/ \E c \in Procs : Daemonize(p, c)

DaemonNext ==
  \E p \in Procs : Start(p) \/ MainStep(p) \/ StopCommand(p) \/ Signal(p) \/ Kill(p)

DaemonSpec == DaemonInit /\ [][DaemonNext]_daemonVars

\* A process that can run does run; nobody need start, stop or kill one.
DaemonFairness == \A p \in Procs : WF_daemonVars(MainStep(p))

FairDaemonSpec == DaemonSpec /\ DaemonFairness

-----------------------------------------------------------------------------
(* Correctness.                                                            *)

\* Every variable has its type.
DaemonTypeOK ==
  /\ mainAt \in [Procs -> {"none"} \cup Starting \cup Up \cup Ended]
  /\ background \subseteq Procs
  /\ socket \in Procs \cup {NoProc} /\ pidfile \in Procs \cup {NoProc}
  /\ overlapped \subseteq Procs /\ failed \subseteq Procs
  /\ noPid \subseteq Procs /\ noSocket \subseteq Procs

\* A daemon whose start overlapped with no other and that could listen is found
\* by every command as long as it runs, whatever starts, stops or dies: nobody
\* removes or takes over its socket.
DaemonIsFound ==
  \A p \in Procs : mainAt[p] \in Up /\ p \notin overlapped \cup noSocket => Answers(p)

\* No second daemon beside it: of two running daemons one started while another
\* one was starting, or has no listener.
OneDaemon ==
  \A p, q \in Procs : mainAt[p] \in Up /\ mainAt[q] \in Up /\ p # q
    => {p, q} \cap (overlapped \cup noSocket) # {}

\* As long as starts do not overlap and files can be made, the pid file names
\* the daemon while it serves, also after daemons that were killed or stopped.
PidNamesDaemon ==
  overlapped \cup noSocket \cup noPid = {} =>
    \A p \in Procs : mainAt[p] = "serving" => pidfile = p

\* Whoever starts, and however many start at once and remove each other's files,
\* a daemon answers in the end, unless a process is killed, a fork or a database
\* fails, or a socket cannot be made.
SomeDaemonAnswers ==
  \A p \in Procs :
    mainAt[p] = "check" ~> (\E q \in Procs : Answers(q)) \/ failed \cup noSocket # {}
=============================================================================
