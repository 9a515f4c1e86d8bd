---------------------------- MODULE DaemonLifecycle ----------------------------
(***************************************************************************)
(* Several invocations of `lz4_gpu --daemon' and `lz4_gpu --stop-daemon'   *)
(* over the two paths they share, /tmp/lz4_gpu_daemon.pid and SOCKET_PATH: *)
(* create_pidfile, run_daemon, cleanup_resources and remove_pidfile of     *)
(* lz4_gpu_daemon.c and stop_daemon_cmd of lz4_gpu.c, one system call per  *)
(* step.  What a running daemon does for its clients is module Daemon.     *)
(***************************************************************************)
EXTENDS FiniteSets

CONSTANTS
    Daemons,        \* invocations of --daemon; also their process ids and files
    Stops,          \* invocations of --stop-daemon
    None

VARIABLES
    pidPath,        \* the file at the pid path, named by the daemon that created it
    content,        \* what each such file holds
    flocked,        \* who holds the lock of each such file
    sockPath,       \* whose socket is at SOCKET_PATH
    stage, fd,      \* each daemon's progress; the pid file it has open
    handler, running,   \* is its signal handler installed; g_state.running
    stop, target,   \* each stop command's progress; the process id it read
    overlapped      \* history: the daemons that were alive together with another

pathVars == <<pidPath, content, flocked, sockPath>>
vars == <<pathVars, stage, fd, handler, running, stop, target, overlapped>>

Stages == {"new", "open", "locked", "init", "unlinkSock", "bind", "run", "serve", "cleanup", "unlock",
           "unlinkPid", "refused", "failed", "exited", "killed"}
Over == {"refused", "failed", "exited", "killed"}

TypeOK ==
    /\ pidPath \in Daemons \cup {None} /\ sockPath \in Daemons \cup {None}
    /\ content \in [Daemons -> Daemons \cup {None}]
    /\ flocked \in [Daemons -> Daemons \cup {None}]
    /\ stage \in [Daemons -> Stages] /\ fd \in [Daemons -> Daemons \cup {None}]
    /\ handler \in [Daemons -> BOOLEAN] /\ running \in [Daemons -> BOOLEAN]
    /\ stop \in [Stops -> {"new", "kill", "unlinkPid", "unlinkSock", "done"}]
    /\ target \in [Stops -> Daemons \cup {None}]
    /\ \A s \in Stops : stop[s] \in {"new", "done"} \/ target[s] # None
    /\ overlapped \subseteq Daemons

Init ==
    /\ pidPath = None /\ sockPath = None
    /\ content = [d \in Daemons |-> None] /\ flocked = [d \in Daemons |-> None]
    /\ stage = [d \in Daemons |-> "new"] /\ fd = [d \in Daemons |-> None]
    /\ handler = [d \in Daemons |-> FALSE] /\ running = [d \in Daemons |-> FALSE]
    /\ stop = [s \in Stops |-> "new"] /\ target = [s \in Stops |-> None]
    /\ overlapped = {}

Alive(d) == stage[d] \notin Over \cup {"new"}

At(d, from, to) == stage[d] = from /\ stage' = [stage EXCEPT ![d] = to]

\* The kernel closes a process's files: its lock goes, the paths stay.
End(d, how) ==
    /\ stage' = [stage EXCEPT ![d] = how]
    /\ fd' = [fd EXCEPT ![d] = None]
    /\ flocked' = [i \in Daemons |-> IF flocked[i] = d THEN None ELSE flocked[i]]

-----------------------------------------------------------------------------
(* create_pidfile                                                          *)

\* open(O_RDWR | O_CREAT)
Open(d) ==
    /\ At(d, "new", "open")
    /\ pidPath' = IF pidPath = None THEN d ELSE pidPath
    /\ fd' = [fd EXCEPT ![d] = pidPath']
    /\ overlapped' = LET others == {e \in Daemons : Alive(e)}
                     IN overlapped \cup others \cup (IF others = {} THEN {} ELSE {d})
    /\ UNCHANGED <<content, flocked, sockPath, handler, running, stop, target>>

\* Mutant: the pid file is taken for a running daemon's, whoever wrote it.
FlockExists(d) ==
    /\ stage[d] = "open"
    /\ IF content[fd[d]] # None THEN End(d, "refused")
       ELSE /\ flocked' = [flocked EXCEPT ![fd[d]] = d]
            /\ stage' = [stage EXCEPT ![d] = "locked"] /\ UNCHANGED fd
    /\ UNCHANGED <<pidPath, content, sockPath, handler, running, stop, target, overlapped>>

\* flock(LOCK_EX | LOCK_NB); when it is held, "Daemon already running"
Flock(d) ==
    /\ stage[d] = "open"
    /\ IF flocked[fd[d]] # None THEN End(d, "refused")
       ELSE /\ flocked' = [flocked EXCEPT ![fd[d]] = d]
            /\ stage' = [stage EXCEPT ![d] = "locked"] /\ UNCHANGED fd
    /\ UNCHANGED <<pidPath, content, sockPath, handler, running, stop, target, overlapped>>

\* ftruncate() and write() of the process id, then the signal handlers
WritePid(d) ==
    /\ At(d, "locked", "init")
    /\ content' = [content EXCEPT ![fd[d]] = d]
    /\ handler' = [handler EXCEPT ![d] = TRUE]
    /\ UNCHANGED <<pidPath, flocked, sockPath, fd, running, stop, target, overlapped>>

-----------------------------------------------------------------------------
(* run_daemon                                                              *)

\* init_resources may fail, and run_daemon then returns at once.
InitResources(d) ==
    /\ stage[d] = "init"
    /\ \/ At(d, "init", "unlinkSock") /\ UNCHANGED <<fd, flocked>>
       \/ End(d, "failed")
    /\ UNCHANGED <<pidPath, content, sockPath, handler, running, stop, target, overlapped>>

UnlinkSocket(d) ==
    /\ At(d, "unlinkSock", "bind")
    /\ sockPath' = None
    /\ UNCHANGED <<pidPath, content, flocked, fd, handler, running, stop, target, overlapped>>

\* bind() fails when there is a file at the path.
Bind(d) ==
    /\ stage[d] = "bind"
    /\ IF sockPath # None THEN End(d, "failed") /\ UNCHANGED sockPath
       ELSE At(d, "bind", "run") /\ sockPath' = d /\ UNCHANGED <<fd, flocked>>
    /\ UNCHANGED <<pidPath, content, handler, running, stop, target, overlapped>>

\* listen(); g_state.running = 1
Run(d) ==
    /\ At(d, "run", "serve")
    /\ running' = [running EXCEPT ![d] = TRUE]
    /\ UNCHANGED <<pathVars, fd, handler, stop, target, overlapped>>

\* The accept loop ends; cleanup_resources closes the socket,
Leave(d) ==
    /\ At(d, "serve", "cleanup") /\ ~running[d]
    /\ UNCHANGED <<pathVars, fd, handler, running, stop, target, overlapped>>

\* unlinks SOCKET_PATH, and waits for the workers;
Cleanup(d) ==
    /\ At(d, "cleanup", "unlock")
    /\ sockPath' = None
    /\ UNCHANGED <<pidPath, content, flocked, fd, handler, running, stop, target, overlapped>>

\* remove_pidfile unlocks and closes the pid file,
Unlock(d) ==
    /\ At(d, "unlock", "unlinkPid")
    /\ flocked' = [flocked EXCEPT ![fd[d]] = None]
    /\ fd' = [fd EXCEPT ![d] = None]
    /\ UNCHANGED <<pidPath, content, sockPath, handler, running, stop, target, overlapped>>

\* and removes what is at its path by then.
UnlinkPid(d) ==
    /\ At(d, "unlinkPid", "exited")
    /\ pidPath' = None
    /\ UNCHANGED <<content, flocked, sockPath, fd, handler, running, stop, target, overlapped>>

Daemon(d) == \/ Open(d) \/ Flock(d) \/ WritePid(d) \/ InitResources(d) \/ UnlinkSocket(d)
             \/ Bind(d) \/ Run(d) \/ Leave(d) \/ Cleanup(d) \/ Unlock(d) \/ UnlinkPid(d)

\* SIGTERM or SIGINT: the handler clears `running'.  signal() gives it for one
\* signal only: without it, or after it, the process is killed.
Term(d) ==
    IF ~Alive(d) THEN UNCHANGED <<stage, fd, flocked, handler, running>>
    ELSE IF handler[d]
    THEN /\ running' = [running EXCEPT ![d] = FALSE]
         /\ handler' = [handler EXCEPT ![d] = FALSE]
         /\ UNCHANGED <<stage, fd, flocked>>
    ELSE End(d, "killed") /\ UNCHANGED <<handler, running>>

\* A signal from the terminal.
Interrupt(d) ==
    /\ Alive(d)
    /\ Term(d)
    /\ UNCHANGED <<pidPath, content, sockPath, stop, target, overlapped>>

-----------------------------------------------------------------------------
(* stop_daemon_cmd                                                         *)

\* fopen and fscanf of the pid file: no file, or no process id in it, ends here.
ReadPid(s) ==
    /\ stop[s] = "new"
    /\ IF pidPath = None \/ content[pidPath] = None
       THEN stop' = [stop EXCEPT ![s] = "done"] /\ UNCHANGED target
       ELSE /\ stop' = [stop EXCEPT ![s] = "kill"]
            /\ target' = [target EXCEPT ![s] = content[pidPath]]
    /\ UNCHANGED <<pathVars, stage, fd, handler, running, overlapped>>

Kill(s) ==
    /\ stop[s] = "kill" /\ stop' = [stop EXCEPT ![s] = "unlinkPid"]
    /\ Term(target[s])
    /\ UNCHANGED <<pidPath, content, sockPath, target, overlapped>>

StopUnlinkPid(s) ==
    /\ stop[s] = "unlinkPid" /\ stop' = [stop EXCEPT ![s] = "unlinkSock"]
    /\ pidPath' = None
    /\ UNCHANGED <<content, flocked, sockPath, stage, fd, handler, running, target, overlapped>>

StopUnlinkSocket(s) ==
    /\ stop[s] = "unlinkSock" /\ stop' = [stop EXCEPT ![s] = "done"]
    /\ sockPath' = None
    /\ UNCHANGED <<pidPath, content, flocked, stage, fd, handler, running, target, overlapped>>

Stop(s) == ReadPid(s) \/ Kill(s) \/ StopUnlinkPid(s) \/ StopUnlinkSocket(s)

Next == \/ \E d \in Daemons : Daemon(d) \/ Interrupt(d)
        \/ \E s \in Stops : Stop(s)

Spec == Init /\ [][Next]_vars

-----------------------------------------------------------------------------
(* Properties                                                              *)

Started(d) == stage[d] \in {"init", "unlinkSock", "bind", "run", "serve", "cleanup", "unlock"}

\* A daemon that says "Daemon already running" and exits is right: another one
\* is alive.  A pid file or a lock left by a killed daemon stops nobody.
RefusalIsRight == \A d \in Daemons :
    stage[d] = "open" /\ stage'[d] = "refused" => \E e \in Daemons \ {d} : Alive(e)

\* A daemon that was never alive together with another gets its socket, whatever
\* killed, failed or stopped ones left at the two paths.
RestartWorks == \A d \in Daemons :
    stage[d] = "bind" /\ stage'[d] = "failed" => d \in overlapped

\* A lock on a pid file is held by a live daemon that has that file open, so it
\* outlives no process.
LocksAreLive == \A i \in Daemons :
    flocked[i] # None => Alive(flocked[i]) /\ fd[flocked[i]] = i

\* Somebody has removed the pid file: remove_pidfile of a daemon that ended, after it
\* gave the lock back, or a stop command, while the daemon it signalled still ran.
PidFileRemoved ==
    \/ \E d \in Daemons : stage[d] \in {"unlinkPid", "exited"}
    \/ \E s \in Stops : stop[s] = "unlinkSock" \/ (stop[s] = "done" /\ target[s] # None)

\* "Daemon already running": as long as nobody has removed the pid file, at most one
\* daemon runs, however many are started and killed, and one that serves and got no
\* signal is the one that clients reach.
OneDaemon ==
    PidFileRemoved \/
        /\ \A d, e \in Daemons : Started(d) /\ Started(e) => d = e
        /\ \A d \in Daemons : stage[d] = "serve" /\ running[d] /\ handler[d] => sockPath = d

\* The lock on the pid file is what keeps daemons apart.
LockGuardsDaemon == TypeOK /\ LocksAreLive /\ OneDaemon
=============================================================================
