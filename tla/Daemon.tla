-------------------------------- MODULE Daemon --------------------------------
(***************************************************************************)
(* One process of lz4_gpu/lz4_gpu_daemon.c and its clients                 *)
(* (lz4_gpu_client.c): the main thread accepts connections and hands each  *)
(* to a worker; a worker serves it holding its own lock; SIGTERM asks the  *)
(* main thread to stop.                                                    *)
(*                                                                         *)
(* A worker's lock is held from the wait on its condition variable to the  *)
(* end of the request, so the main thread, which only tries the lock,      *)
(* takes it for busy.  Main's own use of the lock is one step.             *)
(***************************************************************************)
EXTENDS Integers, Sequences, FiniteSets

CONSTANTS
    MAX_WORKERS_CAP,
    Clients,
    Loads,          \* how many workers are active, and each client's request
    None

Requests == [mode : {"compress", "decompress"}, block : {"small", "large"}, valid : BOOLEAN, raw : BOOLEAN]

ASSUME DaemonAssumption ==
    /\ MAX_WORKERS_CAP \in Nat \ {0}
    /\ Loads \subseteq [workers : 1..MAX_WORKERS_CAP, req : [Clients -> Requests]]
    /\ None \notin Clients \cup {"small", "large"}

Workers == 0..(MAX_WORKERS_CAP - 1)
Modes == {"clear16", "epoch32"}

VARIABLES
    running,        \* g_state.running, written by the signal handler too
    signals,        \* SIGTERMs delivered
    active_workers,
    main, client, next,     \* the main thread; the connection it holds; worker it tries
    backlog,        \* connections not yet accepted, oldest first; None once closed
    pc, client_fd, has_work, lock, asleep,  \* the workers; `lock': is it held
    program,        \* program_comp: the block size each program was built for
    kernel,         \* each worker's kernels
    used,           \* the kernel a worker's request was run with
    conn,           \* each client's connection, seen from the daemon
    req, sent,      \* each client's request; how much of it was sent
    reply,          \* what was sent back
    cstate          \* what the client is doing

mainVars == <<main, client, next, backlog>>
workVars == <<pc, client_fd, has_work, lock, asleep>>
gpuVars == <<program, kernel, used>>
clientVars == <<conn, req, sent, reply, cstate>>
vars == <<running, signals, active_workers, mainVars, workVars, gpuVars, clientVars>>

TypeOK ==
    /\ running \in BOOLEAN /\ signals \in 0..1 /\ active_workers \in 1..MAX_WORKERS_CAP
    /\ main \in {"init", "loop", "call", "accept", "assign", "wake", "join", "stopped", "killed"}
    /\ client \in Clients \cup {None} /\ next \in 0..active_workers
    /\ backlog \in Seq(Clients) \cup {None}
    /\ pc \in [Workers -> {"none", "top", "lock", "wait", "read", "payload", "process",
                           "reply", "data", "close", "exited"}]
    /\ client_fd \in [Workers -> Clients \cup {None}]
    /\ has_work \in [Workers -> BOOLEAN] /\ lock \in [Workers -> BOOLEAN]
    /\ asleep \subseteq Workers
    /\ program \in [Modes -> {None, "small", "large"}]
    /\ kernel \in [Workers -> [Modes \X {"compress", "decompress"} -> {None, "small", "large"}]]
    /\ used \in [Workers -> {None, "small", "large", "failed"}]
    /\ conn \in [Clients -> {"none", "backlog", "open", "closed"}]
    /\ req \in [Clients -> Requests] /\ sent \in [Clients -> {"nothing", "request", "all"}]
    /\ reply \in [Clients -> {"none", "ok", "failed", "data"}]
    /\ cstate \in [Clients -> {"idle", "send", "receive", "done", "error", "gone"}]

Init ==
    /\ running = FALSE /\ signals = 0
    /\ main = "init" /\ client = None /\ next = 0 /\ backlog = <<>>
    /\ pc = [w \in Workers |-> "none"]
    /\ client_fd = [w \in Workers |-> None]
    /\ has_work = [w \in Workers |-> FALSE] /\ lock = [w \in Workers |-> FALSE]
    /\ asleep = {}
    /\ program = [m \in Modes |-> None]
    /\ kernel = [w \in Workers |-> [m \in Modes \X {"compress", "decompress"} |-> None]]
    /\ used = [w \in Workers |-> None]
    /\ conn = [c \in Clients |-> "none"]
    /\ \E load \in Loads : active_workers = load.workers /\ req = load.req
    /\ sent = [c \in Clients |-> "nothing"]
    /\ reply = [c \in Clients |-> "none"] /\ cstate = [c \in Clients |-> "idle"]

Alive == main \notin {"stopped", "killed"}

-----------------------------------------------------------------------------
(* The main thread: run_daemon and cleanup_resources                       *)

\* The handlers were installed before; the workers start with `running' set.
Start ==
    /\ main = "init"
    /\ running' = TRUE /\ pc' = [w \in Workers |-> IF w < active_workers THEN "top" ELSE "none"]
    /\ main' = "loop"
    /\ UNCHANGED <<signals, active_workers, client, next, backlog, client_fd, has_work, lock, asleep, gpuVars, clientVars>>

\* Every close() of a connection on the daemon's side.
Closed(cs) == conn' = [c \in Clients |-> IF c \in cs THEN "closed" ELSE conn[c]]

\* `while (g_state.running)', then on to accept(), or to cleanup_resources: the
\* listening socket is closed with the connections that wait on it.
TestRunning ==
    /\ main = "loop"
    /\ IF running
       THEN main' = "call" /\ UNCHANGED <<backlog, conn, next>>
       ELSE /\ main' = "wake" /\ next' = 0 /\ backlog' = None
            /\ Closed({backlog[i] : i \in DOMAIN backlog})
    /\ UNCHANGED <<running, signals, active_workers, client, workVars, gpuVars, req, sent, reply, cstate>>

CallAccept ==
    /\ main = "call" /\ main' = "accept"
    /\ UNCHANGED <<running, signals, active_workers, client, next, backlog, workVars, gpuVars, clientVars>>

Accept ==
    /\ main = "accept" /\ backlog # <<>>
    /\ client' = Head(backlog) /\ backlog' = Tail(backlog)
    /\ conn' = [conn EXCEPT ![Head(backlog)] = "open"]
    /\ main' = "assign" /\ next' = 0
    /\ UNCHANGED <<running, signals, active_workers, workVars, gpuVars, req, sent, reply, cstate>>

\* Mutant: a busy worker is given the connection.
TryWorkerBusy ==
    /\ main = "assign" /\ next < active_workers
    /\ IF lock[next]
       THEN next' = next + 1 /\ UNCHANGED <<main, client, client_fd, has_work, asleep>>
       ELSE /\ client_fd' = [client_fd EXCEPT ![next] = client]
            /\ has_work' = [has_work EXCEPT ![next] = TRUE]
            /\ asleep' = asleep \ {next}
            /\ main' = "loop" /\ client' = None /\ UNCHANGED next
    /\ UNCHANGED <<running, signals, active_workers, backlog, pc, lock, gpuVars, clientVars>>

\* Mutant: the condition variable is not signalled.
TryWorkerQuietly ==
    /\ main = "assign" /\ next < active_workers
    /\ IF lock[next] \/ has_work[next]
       THEN next' = next + 1 /\ UNCHANGED <<main, client, client_fd, has_work>>
       ELSE /\ client_fd' = [client_fd EXCEPT ![next] = client]
            /\ has_work' = [has_work EXCEPT ![next] = TRUE]
            /\ main' = "loop" /\ client' = None /\ UNCHANGED next
    /\ UNCHANGED <<running, signals, active_workers, backlog, pc, lock, asleep, gpuVars, clientVars>>

\* pthread_mutex_trylock of the next worker; an idle one gets the connection.
TryWorker ==
    /\ main = "assign" /\ next < active_workers
    /\ IF lock[next] \/ has_work[next]
       THEN next' = next + 1 /\ UNCHANGED <<main, client, client_fd, has_work, asleep>>
       ELSE /\ client_fd' = [client_fd EXCEPT ![next] = client]
            /\ has_work' = [has_work EXCEPT ![next] = TRUE]
            /\ asleep' = asleep \ {next}
            /\ main' = "loop" /\ client' = None /\ UNCHANGED next
    /\ UNCHANGED <<running, signals, active_workers, backlog, pc, lock, gpuVars, clientVars>>

\* All are busy: sleep 1 ms and try again, unless a signal has come.
Retry ==
    /\ main = "assign" /\ next = active_workers
    /\ IF running
       THEN next' = 0 /\ UNCHANGED <<main, client, conn>>
       ELSE main' = "loop" /\ client' = None /\ Closed({client}) /\ UNCHANGED next
    /\ UNCHANGED <<running, signals, active_workers, backlog, workVars, gpuVars, req, sent, reply, cstate>>

\* Mutant: the sleeping workers are not woken.
WakeNone ==
    /\ main = "wake" /\ main' = "join" /\ next' = 0
    /\ UNCHANGED <<running, signals, active_workers, client, backlog, workVars, gpuVars, clientVars>>

\* Each worker in turn is locked and signalled,
WakeWorker ==
    /\ main = "wake"
    /\ ~lock[next]
    /\ asleep' = asleep \ {next}
    /\ IF next = active_workers - 1 THEN main' = "join" /\ next' = 0
       ELSE next' = next + 1 /\ UNCHANGED main
    /\ UNCHANGED <<running, signals, active_workers, client, backlog, pc, client_fd, has_work, lock, gpuVars, clientVars>>

\* and each in turn joined, and the connection it was given but did not serve
\* closed; then the pid file goes and the process ends.
JoinWorker ==
    /\ main = "join" /\ pc[next] = "exited"
    /\ Closed({client_fd[next]})
    /\ client_fd' = [client_fd EXCEPT ![next] = None]
    /\ IF next = active_workers - 1 THEN main' = "stopped" /\ UNCHANGED next
       ELSE next' = next + 1 /\ UNCHANGED main
    /\ UNCHANGED <<running, signals, active_workers, client, backlog, pc, has_work, lock, asleep, gpuVars, req, sent, reply, cstate>>

\* SIGTERM: the handler clears `running'; accept() returns EINTR if it was
\* blocked at that moment.
Signal ==
    /\ Alive /\ signals = 0
    /\ signals' = 1 /\ running' = FALSE
    /\ main' = IF main = "accept" THEN "loop" ELSE main
    /\ UNCHANGED <<active_workers, client, next, backlog, workVars, gpuVars, clientVars>>

Main == \/ Start \/ TestRunning \/ CallAccept \/ Accept \/ TryWorker \/ Retry
        \/ WakeWorker \/ JoinWorker

-----------------------------------------------------------------------------
(* The workers: worker_thread and process_request                          *)

wRest == <<running, signals, active_workers, mainVars, gpuVars, clientVars>>

Top(w) ==
    /\ pc[w] = "top"
    /\ pc' = [pc EXCEPT ![w] = IF running THEN "lock" ELSE "exited"]
    /\ UNCHANGED <<client_fd, has_work, lock, asleep, wRest>>

\* The lock is taken, also on return from pthread_cond_wait, and the `while'
\* and `if' that follow decide: wait, leave, or serve.
Lock(w) ==
    /\ pc[w] = "lock" \/ (pc[w] = "wait" /\ w \notin asleep)
    /\ IF ~running THEN pc' = [pc EXCEPT ![w] = "exited"] /\ UNCHANGED <<lock, asleep>>
       ELSE IF has_work[w]
       THEN pc' = [pc EXCEPT ![w] = "read"] /\ lock' = [lock EXCEPT ![w] = TRUE] /\ UNCHANGED asleep
       ELSE pc' = [pc EXCEPT ![w] = "wait"] /\ asleep' = asleep \cup {w} /\ UNCHANGED lock
    /\ UNCHANGED <<client_fd, has_work, wRest>>

Peer(w) == client_fd[w]
Gone(w) == cstate[Peer(w)] = "gone"
Goto(w, where) == pc' = [pc EXCEPT ![w] = where]
keep == <<client_fd, has_work, lock, asleep, running, signals, active_workers, mainVars, gpuVars,
          conn, req, sent, cstate>>

\* daemon_read_full of the request blocks until it is there or the peer leaves.
Read(w) ==
    /\ pc[w] = "read"
    /\ \/ /\ sent[Peer(w)] # "nothing"
          /\ Goto(w, IF ~req[Peer(w)].valid THEN "reply"
                     ELSE IF req[Peer(w)].raw THEN "payload" ELSE "process")
       \/ sent[Peer(w)] = "nothing" /\ Gone(w) /\ Goto(w, "close")
    /\ UNCHANGED <<keep, reply>>

\* A raw request's payload: read, and written to a memfd.  Any failure is answered.
ReadPayload(w) ==
    /\ pc[w] = "payload"
    /\ \/ sent[Peer(w)] = "all" /\ Goto(w, "process")
       \/ (sent[Peer(w)] = "all" \/ Gone(w)) /\ Goto(w, "reply")
    /\ UNCHANGED <<keep, reply>>

daemon_kernel_mode_for_block(b) == IF b = "small" THEN "clear16" ELSE "epoch32"

\* Under compile_lock the program for the block size is loaded, once for all
\* workers, and the worker's kernel created from it; either may fail.  Then the
\* kernel is run on the files, and may fail.
process_request(w) ==
    /\ pc[w] = "process"
    /\ LET r == req[Peer(w)]
           m == daemon_kernel_mode_for_block(r.block)
           k == <<m, r.mode>>
       IN \E loaded \in {program[m]} \cup (IF program[m] = None THEN {r.block} ELSE {}),
             created, ok \in BOOLEAN :
            /\ program' = [program EXCEPT ![m] = loaded]
            /\ kernel' = [kernel EXCEPT ![w][k] = IF @ = None /\ created THEN loaded ELSE @]
            /\ used' = [used EXCEPT ![w] = IF ok /\ kernel'[w][k] # None THEN kernel'[w][k] ELSE "failed"]
    /\ Goto(w, "reply")
    /\ UNCHANGED <<client_fd, has_work, lock, asleep, running, signals, active_workers, mainVars, clientVars>>

Succeeded(w) == used[w] \in {"small", "large"}

\* The response.  send() to a peer that has left raises SIGPIPE, which nothing
\* ignores or handles.
Reply(w) ==
    /\ pc[w] = "reply" /\ ~Gone(w)
    /\ reply' = [reply EXCEPT ![Peer(w)] = IF Succeeded(w) THEN "ok" ELSE "failed"]
    /\ Goto(w, IF Succeeded(w) /\ req[Peer(w)].raw THEN "data" ELSE "close")
    /\ UNCHANGED keep

\* daemon_send_fd_payload, which may also fail to read what it is to send.
SendData(w) ==
    /\ pc[w] = "data" /\ ~Gone(w)
    /\ \E whole \in {"data", "ok"} : reply' = [reply EXCEPT ![Peer(w)] = whole]
    /\ Goto(w, "close")
    /\ UNCHANGED keep

Sigpipe(w) ==
    /\ pc[w] \in {"reply", "data"} /\ Gone(w)
    /\ main' = "killed" /\ backlog' = None
    /\ Closed({c \in Clients : conn[c] # "none"})
    /\ UNCHANGED <<running, signals, active_workers, client, next, workVars, gpuVars, req, sent, reply, cstate>>

CloseClient(w) ==
    /\ pc[w] = "close"
    /\ Closed({Peer(w)})
    /\ client_fd' = [client_fd EXCEPT ![w] = None]
    /\ has_work' = [has_work EXCEPT ![w] = FALSE] /\ lock' = [lock EXCEPT ![w] = FALSE]
    /\ used' = [used EXCEPT ![w] = None]
    /\ Goto(w, "top")
    /\ UNCHANGED <<asleep, running, signals, active_workers, mainVars, program, kernel, req, sent, reply, cstate>>

Worker(w) == \/ Top(w) \/ Lock(w) \/ Read(w) \/ ReadPayload(w) \/ process_request(w)
             \/ Reply(w) \/ SendData(w) \/ Sigpipe(w) \/ CloseClient(w)

-----------------------------------------------------------------------------
(* The clients: do_daemon_op and do_daemon_raw_op                          *)

cRest == <<running, signals, active_workers, main, client, next, workVars, gpuVars, req>>

Connect(c) ==
    /\ cstate[c] = "idle" /\ main # "init"
    /\ IF backlog = None
       THEN cstate' = [cstate EXCEPT ![c] = "error"] /\ UNCHANGED <<backlog, conn>>
       ELSE /\ cstate' = [cstate EXCEPT ![c] = "send"]
            /\ backlog' = Append(backlog, c) /\ conn' = [conn EXCEPT ![c] = "backlog"]
    /\ UNCHANGED <<cRest, sent, reply>>

\* The request, then for a raw operation the payload; a closed connection is an
\* error to the client.
Send(c) ==
    /\ cstate[c] = "send"
    /\ IF conn[c] = "closed"
       THEN cstate' = [cstate EXCEPT ![c] = "error"] /\ UNCHANGED sent
       ELSE LET last == sent[c] = "request" \/ ~req[c].raw IN
            /\ sent' = [sent EXCEPT ![c] = IF last THEN "all" ELSE "request"]
            /\ cstate' = [cstate EXCEPT ![c] = IF last THEN "receive" ELSE "send"]
    /\ UNCHANGED <<cRest, backlog, conn, reply>>

\* The response, and for a raw operation the output, or the end of the connection.
Receive(c) ==
    /\ cstate[c] = "receive"
    /\ reply[c] \in {"failed", "data"} \/ (reply[c] = "ok" /\ ~req[c].raw) \/ conn[c] = "closed"
    /\ cstate' = [cstate EXCEPT ![c] =
            IF reply[c] = (IF req[c].raw THEN "data" ELSE "ok") THEN "done" ELSE "error"]
    /\ UNCHANGED <<cRest, backlog, conn, sent, reply>>

\* The client is interrupted; its end of the connection is closed.
Leave(c) ==
    /\ cstate[c] \in {"send", "receive"}
    /\ cstate' = [cstate EXCEPT ![c] = "gone"]
    /\ UNCHANGED <<cRest, backlog, conn, sent, reply>>

Client(c) == Connect(c) \/ Send(c) \/ Receive(c)

-----------------------------------------------------------------------------
Terminated == ~Alive /\ UNCHANGED vars

Next ==
    \/ Alive /\ (Main \/ Signal \/ \E w \in Workers : Worker(w))
    \/ \E c \in Clients : Client(c) \/ Leave(c)
    \/ Terminated

Spec == Init /\ [][Next]_vars

\* Threads keep running, and a connected client sends its request or leaves.
Fairness ==
    /\ WF_vars(Alive /\ Main)
    /\ \A w \in Workers : WF_vars(Alive /\ Worker(w))
    /\ \A c \in Clients : WF_vars(Send(c) \/ Receive(c))

FairSpec == Spec /\ Fairness

-----------------------------------------------------------------------------
(* Properties                                                              *)

Owned == {client_fd[w] : w \in Workers} \cup {client}

\* Every accepted connection is held by the main thread or by exactly one worker
\* until it is closed: none is overwritten in client_fd, served twice or leaked,
\* although has_work, client_fd and the lock are used by two threads.
OneOwner ==
    Alive =>
        /\ {c \in Clients : conn[c] = "open"} = Owned \ {None}
        /\ \A v, w \in Workers : v # w /\ client_fd[v] # None => client_fd[v] # client_fd[w]
        /\ client # None => \A w \in Workers : client_fd[w] # client

\* A worker that serves holds its lock and has work; an idle one that sleeps has
\* none: a connection cannot be given to a worker that will not look at it.
NoWorkMissed == \A w \in Workers :
    /\ w \in asleep => pc[w] = "wait" /\ ~has_work[w] /\ ~lock[w]
    /\ lock[w] => has_work[w] /\ client_fd[w] # None

\* "program_comp[clear16/epoch32] is built lazily by block size": a kernel is
\* never one that was built for the other dictionary mode.
KernelFitsBlock == \A w \in Workers :
    used[w] \in {"small", "large"} => used[w] = req[client_fd[w]].block

\* A client that reports success got the answer to a request that was run; for
\* a raw operation it got the output too.
SuccessMeansDone == \A c \in Clients :
    cstate[c] = "done" => req[c].valid /\ reply[c] = (IF req[c].raw THEN "data" ELSE "ok")

\* Every answer comes from a kernel of the right mode, and reaches its client whole.
AnswersRight == KernelFitsBlock /\ SuccessMeansDone

\* cleanup_resources closes every connection it was given.
StoppedMeansClosed ==
    main = "stopped" => \A c \in Clients : conn[c] \in {"none", "closed"}

\* A connection has one owner from accept() to close(), the shutdown included, and
\* its owner knows of it.
ConnectionsOwned == TypeOK /\ OneOwner /\ NoWorkMissed /\ StoppedMeansClosed

\* Every connection run_daemon accepts has one owner that will serve and close it, and an
\* answer comes from the right kernel.
ServiceRight == ConnectionsOwned /\ AnswersRight

\* As long as nobody stops the daemon, every client that connected and stays gets
\* its answer or an error, however many wait for the workers.
ClientsAnswered == \A c \in Clients :
    cstate[c] \in {"send", "receive"} ~> cstate[c] \in {"done", "error", "gone"} \/ signals = 1

\* Once a SIGTERM has cleared `running', and run_daemon has not set it after that, the
\* daemon ends: workers that serve, sleep or were just given a connection are joined.
\* Only a main thread that was about to call accept() waits for one more connection.
StopEnds == main # "init" /\ ~running ~> ~Alive \/ (main = "accept" /\ backlog = <<>>)
=============================================================================
