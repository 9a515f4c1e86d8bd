----------------------------- MODULE DaemonProofs -----------------------------
(***************************************************************************)
(* The GPU daemon loses no connection and serves none twice, and answers   *)
(* with the right kernel, for any number of workers and clients and any    *)
(* requests: the invariant, that the steps of the main thread, the signal  *)
(* handler, the clients and the workers keep it, and that it implies this. *)
(***************************************************************************)
EXTENDS Daemon, TLAPS

\* The provers of a leaf that names none.
USE ZenonT(60), SMTT(60)

-----------------------------------------------------------------------------
(* The inductive invariant                                                 *)

Listening == main \in {"init", "loop", "call", "accept", "assign"}
Serving == {"read", "payload", "process", "reply", "data", "close"}

\* The main thread holds a connection while it looks for a worker, and the socket
\* listens until cleanup_resources.
MainInv ==
    /\ Alive => (client # None <=> main = "assign")
    /\ IF Listening THEN backlog \in Seq(Clients) ELSE backlog = None
    /\ main \in {"wake", "join"} => next < active_workers

\* The connections that wait are those in the backlog, each once.
BacklogInv ==
    /\ ~Listening => \A c \in Clients : conn[c] # "backlog"
    /\ Listening =>
          /\ \A i \in DOMAIN backlog : conn[backlog[i]] = "backlog"
          /\ \A i, j \in DOMAIN backlog : backlog[i] = backlog[j] => i = j
          /\ \A c \in Clients : conn[c] = "backlog" => \E i \in DOMAIN backlog : backlog[i] = c

\* A worker has a connection exactly when it has work, but for one that was joined;
\* it holds its lock while it serves.
WorkerInv == \A w \in Workers :
    /\ lock[w] <=> pc[w] \in Serving
    /\ lock[w] => has_work[w]
    /\ client_fd[w] # None => has_work[w]
    /\ has_work[w] /\ pc[w] # "exited" => client_fd[w] # None
    /\ w \in asleep => pc[w] = "wait" /\ ~has_work[w]
    /\ main = "init" => pc[w] = "none" /\ ~has_work[w]
    /\ w >= active_workers => pc[w] = "none" /\ client_fd[w] = None
    /\ main = "join" /\ w < next => client_fd[w] = None
    /\ main = "stopped" => client_fd[w] = None

\* A program and its kernels are for one block size.
KernelInv == \A m \in Modes :
    /\ program[m] \in {None, IF m = "clear16" THEN "small" ELSE "large"}
    /\ \A w \in Workers, x \in {"compress", "decompress"} :
          kernel[w][<<m, x>>] \in {None, IF m = "clear16" THEN "small" ELSE "large"}

\* What the steps of a request say about it.
RequestInv == \A w \in Workers :
    /\ pc[w] \in {"payload", "process", "data"} => req[client_fd[w]].valid
    /\ used[w] \in {"small", "large"} =>
          /\ pc[w] \in {"reply", "data", "close"} /\ req[client_fd[w]].valid
          /\ used[w] = req[client_fd[w]].block

\* A connection is answered by the worker that has it, and by nobody before it does.
ReplyInv ==
    /\ \A c \in Clients :
          /\ cstate[c] = "idle" => conn[c] = "none"
          /\ conn[c] \in {"none", "backlog"} => reply[c] = "none"
          /\ reply[c] \in {"ok", "data"} => req[c].valid
    /\ client # None => reply[client] = "none"
    /\ \A w \in Workers : client_fd[w] # None =>
          /\ pc[w] \notin {"data", "close"} => reply[client_fd[w]] = "none"
          /\ pc[w] = "data" => reply[client_fd[w]] = "ok" /\ req[client_fd[w]].raw

\* All of it, with the properties that are inductive beside it.
Inv == /\ TypeOK /\ OneOwner /\ MainInv /\ BacklogInv /\ WorkerInv /\ KernelInv
       /\ RequestInv /\ ReplyInv /\ SuccessMeansDone /\ StoppedMeansClosed

PcType == [Workers -> {"none", "top", "lock", "wait", "read", "payload", "process",
                       "reply", "data", "close", "exited"}]

\* Each conjunct is about some of the variables; a step that leaves them alone keeps it.
LEMMA Frames ==
    ASSUME Inv
    PROVE  /\ UNCHANGED <<main, client, client_fd, conn>> => OneOwner'
           /\ UNCHANGED <<main, client, next, backlog, active_workers>> => MainInv'
           /\ UNCHANGED <<main, backlog, conn>> => BacklogInv'
           /\ UNCHANGED <<program, kernel>> => KernelInv'
           /\ UNCHANGED <<pc, client_fd, used, req>> => RequestInv'
           /\ UNCHANGED <<pc, client_fd, client, conn, req, reply, cstate>> => ReplyInv'
           /\ UNCHANGED <<req, reply, cstate>> => SuccessMeansDone'
           /\ UNCHANGED <<main, conn>> => StoppedMeansClosed'
<1>1. UNCHANGED <<main, client, client_fd, conn>> => OneOwner'
  BY SMTT(60) DEF Inv, OneOwner, Owned, Alive
<1>2. UNCHANGED <<main, client, next, backlog, active_workers>> => MainInv'
  BY DEF Inv, MainInv, Alive, Listening
<1>3. UNCHANGED <<main, backlog, conn>> => BacklogInv'
  BY DEF Inv, BacklogInv, Listening
<1>4. UNCHANGED <<program, kernel>> => KernelInv'
  BY DEF Inv, KernelInv
<1>5. UNCHANGED <<pc, client_fd, used, req>> => RequestInv'
  BY DEF Inv, RequestInv
<1>6. UNCHANGED <<pc, client_fd, client, conn, req, reply, cstate>> => ReplyInv'
  BY DEF Inv, ReplyInv
<1>7. UNCHANGED <<req, reply, cstate>> => SuccessMeansDone'
  BY DEF Inv, SuccessMeansDone
<1>8. UNCHANGED <<main, conn>> => StoppedMeansClosed'
  BY DEF Inv, StoppedMeansClosed
<1> QED BY <1>1, <1>2, <1>3, <1>4, <1>5, <1>6, <1>7, <1>8

\* The elements of a backlog and of its tail, for accept().
LEMMA HeadAndTail ==
    ASSUME NEW s \in Seq(Clients), s # <<>>
    PROVE  /\ Head(s) = s[1] /\ 1 \in DOMAIN s /\ Head(s) \in Clients /\ Tail(s) \in Seq(Clients)
           /\ \A i \in DOMAIN Tail(s) : i + 1 \in DOMAIN s /\ i + 1 # 1 /\ Tail(s)[i] = s[i + 1]
           /\ \A i \in DOMAIN s : i # 1 => i - 1 \in DOMAIN Tail(s) /\ Tail(s)[i - 1] = s[i]
OBVIOUS

\* The elements of a backlog and of a longer one, for connect().
LEMMA Appended ==
    ASSUME NEW s \in Seq(Clients), NEW c \in Clients
    PROVE  /\ Append(s, c) \in Seq(Clients)
           /\ Len(s) + 1 \in DOMAIN Append(s, c) /\ Append(s, c)[Len(s) + 1] = c
           /\ \A i \in DOMAIN Append(s, c) :
                 i # Len(s) + 1 => i \in DOMAIN s /\ Append(s, c)[i] = s[i]
           /\ \A i \in DOMAIN s :
                 i # Len(s) + 1 /\ i \in DOMAIN Append(s, c) /\ Append(s, c)[i] = s[i]
OBVIOUS

\* Before run_daemon starts its workers.
LEMMA InitInv == Init => Inv
<1> SUFFICES ASSUME Init PROVE Inv
  OBVIOUS
<1>1. PICK load \in Loads : active_workers = load.workers /\ req = load.req
  BY DEF Init
<1>2. active_workers \in 1..MAX_WORKERS_CAP /\ req \in [Clients -> Requests]
  BY <1>1, DaemonAssumption
<1>3. TypeOK
  <2>1. backlog \in Seq(Clients)
    BY DEF Init
  <2>2. has_work \in [Workers -> BOOLEAN] /\ lock \in [Workers -> BOOLEAN]
    BY DEF Init
  <2>3. kernel \in [Workers -> [Modes \X {"compress", "decompress"} -> {None, "small", "large"}]]
    BY DEF Init
  <2>4. signals \in 0..1 /\ next \in 0..active_workers
    BY <1>2 DEF Init
  <2>5. /\ pc \in [Workers -> {"none", "top", "lock", "wait", "read", "payload", "process",
                             "reply", "data", "close", "exited"}]
        /\ client_fd \in [Workers -> Clients \cup {None}]
        /\ used \in [Workers -> {None, "small", "large", "failed"}]
        /\ program \in [Modes -> {None, "small", "large"}]
    BY DEF Init
  <2>6. /\ conn \in [Clients -> {"none", "backlog", "open", "closed"}]
        /\ sent \in [Clients -> {"nothing", "request", "all"}]
        /\ reply \in [Clients -> {"none", "ok", "failed", "data"}]
        /\ cstate \in [Clients -> {"idle", "send", "receive", "done", "error", "gone"}]
    BY DEF Init
  <2>7. main = "init" /\ client = None /\ running = FALSE /\ asleep = {}
    BY DEF Init
  <2> QED BY <1>2, <2>1, <2>2, <2>3, <2>4, <2>5, <2>6, <2>7 DEF TypeOK
<1>4. OneOwner /\ MainInv /\ BacklogInv
  BY SMTT(60) DEF Init, OneOwner, Owned, MainInv, BacklogInv, Listening
<1>5. WorkerInv
  BY DEF Init, WorkerInv, Serving
<1>6. KernelInv
  BY DEF Init, KernelInv
<1>7. RequestInv
  BY DaemonAssumption DEF Init, RequestInv
<1>8. ReplyInv /\ SuccessMeansDone /\ StoppedMeansClosed
  BY DEF Init, ReplyInv, SuccessMeansDone, StoppedMeansClosed
<1> QED BY <1>3, <1>4, <1>5, <1>6, <1>7, <1>8 DEF Inv

-----------------------------------------------------------------------------
(* Every step keeps it: the main thread                                    *)

\* The workers start.
LEMMA StartStep ==
    ASSUME Inv, Alive, Start
    PROVE  Inv'
<1>1. TypeOK'
  BY DEF Inv, TypeOK, Start, gpuVars, clientVars
<1>2. OneOwner'
  BY DEF Inv, OneOwner, Start, gpuVars, clientVars, Alive, Owned
<1>3. MainInv'
  BY DEF Inv, MainInv, Start, gpuVars, clientVars, Alive, Listening
<1>4. BacklogInv'
  BY DEF Inv, BacklogInv, Start, gpuVars, clientVars, Listening
<1>5. WorkerInv'
  BY SMTT(60) DEF Inv, WorkerInv, Start, gpuVars, clientVars, Serving, TypeOK, Workers
<1>6. RequestInv'
  BY DEF Inv, RequestInv, Start, gpuVars, clientVars, WorkerInv, Serving
<1>7. ReplyInv'
  BY DEF Inv, ReplyInv, Start, gpuVars, clientVars, WorkerInv, Serving
<1>8. StoppedMeansClosed'
  BY DEF Inv, StoppedMeansClosed, Start, gpuVars, clientVars
<1>9. KernelInv' /\ SuccessMeansDone'
  BY DEF Inv, KernelInv, SuccessMeansDone, Start, gpuVars, clientVars
<1> QED BY <1>1, <1>2, <1>3, <1>4, <1>5, <1>6, <1>7, <1>8, <1>9 DEF Inv

\* The main thread goes on to accept(), or closes the socket with all that waits on it.
LEMMA TestRunningStep ==
    ASSUME Inv, Alive, TestRunning
    PROVE  Inv'
<1>1. TypeOK'
  <2>1. main' \in {"call", "wake"} /\ next' \in 0..active_workers
    BY SMTT(60) DEF Inv, TypeOK, TestRunning
  <2>2. backlog' \in {backlog, None} /\ conn' \in [Clients -> {"none", "backlog", "open", "closed"}]
    BY SMTT(60) DEF Inv, TypeOK, TestRunning, Closed
  <2> QED BY <2>1, <2>2 DEF Inv, TypeOK, TestRunning, workVars, gpuVars
<1>2. OneOwner'
  <2>1. \A c \in Clients : conn'[c] = "open" <=> conn[c] = "open"
    <3> SUFFICES ASSUME NEW c \in Clients PROVE conn'[c] = "open" <=> conn[c] = "open"
      OBVIOUS
    <3>1. CASE running
      BY <3>1 DEF TestRunning
    <3>2. CASE ~running
      BY <3>2, SMTT(60) DEF TestRunning, Closed, Inv, Listening, BacklogInv
    <3> QED BY <3>1, <3>2
  <2> QED BY <2>1, SMTT(60) DEF Inv, OneOwner, Alive, Owned, TestRunning, workVars
<1>3. MainInv'
  BY SMTT(60) DEF Inv, MainInv, TestRunning, Closed, workVars, gpuVars, Alive, Listening, TypeOK
<1>4. BacklogInv'
  <2>1. CASE running
    BY <2>1 DEF Inv, Listening, BacklogInv, TestRunning
  <2>2. CASE ~running
    <3>1. ASSUME NEW c \in Clients PROVE conn'[c] # "backlog"
      <4>1. CASE \E i \in DOMAIN backlog : backlog[i] = c
        BY <4>1, <2>2 DEF TestRunning, Closed
      <4>2. CASE ~ \E i \in DOMAIN backlog : backlog[i] = c
        BY <4>2, <2>2 DEF TestRunning, Closed, Inv, Listening, BacklogInv
      <4> QED BY <4>1, <4>2
    <3> QED BY <2>2, <3>1 DEF TestRunning, Listening, BacklogInv
  <2> QED BY <2>1, <2>2
<1>5. WorkerInv'
  BY DEF Inv, WorkerInv, TestRunning, Closed, workVars, gpuVars, Serving
<1>6. ReplyInv'
  BY SMTT(60) DEF Inv, ReplyInv, TestRunning, Closed, workVars, gpuVars, BacklogInv, Listening
<1>7. StoppedMeansClosed'
  BY DEF Inv, StoppedMeansClosed, TestRunning, Closed, workVars, gpuVars
<1>8. KernelInv' /\ RequestInv' /\ SuccessMeansDone'
  BY DEF Inv, KernelInv, RequestInv, SuccessMeansDone, TestRunning, Closed, workVars, gpuVars
<1> QED BY <1>1, <1>2, <1>3, <1>4, <1>5, <1>6, <1>7, <1>8 DEF Inv

\* The main thread is about to call accept().
LEMMA CallAcceptStep ==
    ASSUME Inv, Alive, CallAccept
    PROVE  Inv'
<1>1. TypeOK'
  BY DEF Inv, TypeOK, CallAccept, workVars, gpuVars, clientVars
<1>2. OneOwner'
  BY DEF Inv, OneOwner, CallAccept, workVars, gpuVars, clientVars, Alive, Owned
<1>3. MainInv'
  BY DEF Inv, MainInv, CallAccept, workVars, gpuVars, clientVars, Alive, Listening
<1>4. BacklogInv'
  BY DEF Inv, BacklogInv, CallAccept, workVars, gpuVars, clientVars, Listening
<1>5. WorkerInv'
  BY DEF Inv, WorkerInv, CallAccept, workVars, gpuVars, clientVars, Serving
<1>6. StoppedMeansClosed'
  BY DEF Inv, StoppedMeansClosed, CallAccept, workVars, gpuVars, clientVars
<1>7. KernelInv' /\ RequestInv' /\ ReplyInv' /\ SuccessMeansDone'
  BY DEF Inv, KernelInv, RequestInv, ReplyInv, SuccessMeansDone, CallAccept, workVars,
    gpuVars, clientVars
<1> QED BY <1>1, <1>2, <1>3, <1>4, <1>5, <1>6, <1>7 DEF Inv

\* The oldest connection passes from the backlog to the main thread.
LEMMA AcceptStep ==
    ASSUME Inv, Alive, Accept
    PROVE  Inv'
<1>1. TypeOK'
  <2>1. backlog \in Seq(Clients) /\ backlog # <<>>
    BY DEF Inv, MainInv, Listening, Accept
  <2>2. client' \in Clients /\ backlog' \in Seq(Clients)
    BY <2>1, HeadAndTail DEF Accept
  <2>3. conn' \in [Clients -> {"none", "backlog", "open", "closed"}]
    BY DEF Inv, TypeOK, Accept
  <2>4. main' = "assign" /\ next' = 0 /\ 0 \in 0..active_workers
    BY SMTT(60) DEF Inv, TypeOK, Accept
  <2> QED BY <2>2, <2>3, <2>4 DEF Inv, TypeOK, Accept, workVars, gpuVars
<1>2. OneOwner'
  <2>1. backlog \in Seq(Clients) /\ backlog # <<>>
    BY DEF Inv, Listening, MainInv, Accept
  <2>2. Head(backlog) \in Clients /\ conn[Head(backlog)] = "backlog" /\ Head(backlog) # None
    BY <2>1, HeadAndTail, DaemonAssumption, SMTT(60) DEF Inv, Listening, BacklogInv, Accept
  <2>3. client = None
    BY DEF Inv, Listening, MainInv, Accept
  <2>4. \A w \in Workers : client_fd[w] # Head(backlog)
    BY <2>2, SMTT(60) DEF Inv, OneOwner, Owned, TypeOK, Accept, workVars
  <2> QED BY <2>2, <2>3, <2>4, SMTT(60) DEF Inv, OneOwner, Owned, Alive, Accept, workVars, TypeOK
<1>3. MainInv'
  BY DaemonAssumption, SMTT(60) DEF Inv, MainInv, Accept, workVars, gpuVars, Alive, Listening
<1>4. BacklogInv'
  <2> DEFINE b == backlog
             t == Tail(backlog)
  <2>1. b \in Seq(Clients) /\ b # <<>>
    BY DEF Inv, Listening, MainInv, Accept
  <2>2. /\ \A i \in DOMAIN b : conn[b[i]] = "backlog"
        /\ \A i, j \in DOMAIN b : b[i] = b[j] => i = j
        /\ \A c \in Clients : conn[c] = "backlog" => \E i \in DOMAIN b : b[i] = c
    BY DEF Inv, Listening, BacklogInv, Accept
  <2>3. \A i \in DOMAIN t : i + 1 \in DOMAIN b /\ i + 1 # 1 /\ t[i] = b[i + 1] /\ i \in Nat
    BY <2>1, HeadAndTail, SMTT(60)
  <2>4. \A i \in DOMAIN b : i # 1 => i - 1 \in DOMAIN t /\ t[i - 1] = b[i]
    BY <2>1, HeadAndTail
  <2>5. Head(b) = b[1] /\ 1 \in DOMAIN b /\ Head(b) \in Clients
    BY <2>1, HeadAndTail
  <2>6. \A c \in Clients : conn'[c] = IF c = b[1] THEN "open" ELSE conn[c]
    BY <2>5 DEF Accept, Inv, TypeOK
  <2>7. backlog' = t /\ main' = "assign"
    BY DEF Accept
  <2> HIDE DEF b, t
  <2>8. \A i \in DOMAIN t : conn'[t[i]] = "backlog"
    <3> SUFFICES ASSUME NEW i \in DOMAIN t PROVE conn'[t[i]] = "backlog"
      OBVIOUS
    <3>1. t[i] \in Clients /\ t[i] # b[1] /\ conn[t[i]] = "backlog"
      BY <2>1, <2>2, <2>3, <2>5, SMTT(60)
    <3> QED BY <3>1, <2>6
  <2>9. \A i, j \in DOMAIN t : t[i] = t[j] => i = j
    BY <2>2, <2>3, SMTT(60)
  <2>10. \A c \in Clients : conn'[c] = "backlog" => \E i \in DOMAIN t : t[i] = c
    BY <2>2, <2>4, <2>6, SMTT(60)
  <2> QED BY <2>7, <2>8, <2>9, <2>10 DEF Listening, BacklogInv
<1>5. WorkerInv'
  BY DEF Inv, WorkerInv, Accept, workVars, gpuVars, Serving
<1>6. ReplyInv'
  BY SMTT(60) DEF Inv, ReplyInv, Accept, workVars, gpuVars, MainInv, Alive, Listening, BacklogInv
<1>7. StoppedMeansClosed'
  BY DEF Inv, StoppedMeansClosed, Accept, workVars, gpuVars
<1>8. KernelInv' /\ RequestInv' /\ SuccessMeansDone'
  BY DEF Inv, KernelInv, RequestInv, SuccessMeansDone, Accept, workVars, gpuVars
<1> QED BY <1>1, <1>2, <1>3, <1>4, <1>5, <1>6, <1>7, <1>8 DEF Inv

\* The connection passes from the main thread to an idle worker, whose lock is free and
\* who has no other.
LEMMA TryWorkerStep ==
    ASSUME Inv, Alive, TryWorker
    PROVE  Inv'
<1>1. TypeOK'
  <2>1. next \in Workers /\ next + 1 \in 0..active_workers /\ active_workers \in 1..MAX_WORKERS_CAP
    BY DaemonAssumption, SMTT(60) DEF Inv, TypeOK, TryWorker, Workers
  <2>2. next' \in 0..active_workers
    BY <2>1 DEF Inv, TypeOK, TryWorker
  <2>3. client_fd' \in [Workers -> Clients \cup {None}]
    BY <2>1, SMTT(60) DEF Inv, TypeOK, TryWorker
  <2>6. asleep' \subseteq Workers /\ client' \in Clients \cup {None}
    BY DEF Inv, TypeOK, TryWorker
  <2>4. has_work' \in [Workers -> BOOLEAN]
    BY <2>1 DEF Inv, TypeOK, TryWorker
  <2>5. main' \in {"assign", "loop"}
    BY DEF TryWorker
  <2> QED BY <2>2, <2>3, <2>4, <2>5, <2>6 DEF Inv, TypeOK, TryWorker, gpuVars, clientVars
<1>2. OneOwner'
  <2>1. CASE lock[next] \/ has_work[next]
    BY <2>1, SMTT(60) DEF Inv, OneOwner, Owned, Alive, TryWorker, clientVars
  <2>2. CASE ~(lock[next] \/ has_work[next])
    <3>1. next \in Workers /\ client_fd[next] = None /\ client # None
      BY <2>2, DaemonAssumption, SMTT(60) DEF Inv, TypeOK, WorkerInv, Listening, MainInv, TryWorker,
          Workers, Alive
    <3>2. \A w \in Workers : client_fd'[w] = IF w = next THEN client ELSE client_fd[w]
      BY <2>2, <3>1, SMTT(60) DEF Inv, TypeOK, TryWorker
    <3>3. client' = None /\ conn' = conn /\ Alive'
      BY <2>2 DEF TryWorker, clientVars, Alive
    <3>4. /\ {c \in Clients : conn[c] = "open"} = Owned \ {None}
          /\ \A v, w \in Workers : v # w /\ client_fd[v] # None => client_fd[v] # client_fd[w]
          /\ \A w \in Workers : client_fd[w] # client
      BY <3>1 DEF Inv, OneOwner
    <3>5. Owned' \ {None} = Owned \ {None}
      BY <3>1, <3>2, <3>3 DEF Owned
    <3> QED BY <3>1, <3>2, <3>3, <3>4, <3>5 DEF OneOwner
  <2> QED BY <2>1, <2>2
<1>3. MainInv'
  BY DEF Inv, MainInv, TryWorker, gpuVars, clientVars, Alive, Listening
<1>4. BacklogInv'
  BY DEF Inv, BacklogInv, TryWorker, gpuVars, clientVars, Listening
<1>5. WorkerInv'
  BY SMTT(60) DEF Inv, WorkerInv, TryWorker, gpuVars, clientVars, Serving, TypeOK, MainInv, Alive,
    Listening
<1>6. RequestInv'
  BY SMTT(60) DEF Inv, RequestInv, TryWorker, gpuVars, clientVars, TypeOK, WorkerInv, Serving,
    OneOwner, Alive, Owned
<1>7. ReplyInv'
  BY SMTT(60) DEF Inv, ReplyInv, TryWorker, gpuVars, clientVars, TypeOK, WorkerInv, Serving
<1>8. StoppedMeansClosed'
  BY DEF Inv, StoppedMeansClosed, TryWorker, gpuVars, clientVars
<1>9. KernelInv' /\ SuccessMeansDone'
  BY DEF Inv, KernelInv, SuccessMeansDone, TryWorker, gpuVars, clientVars
<1> QED BY <1>1, <1>2, <1>3, <1>4, <1>5, <1>6, <1>7, <1>8, <1>9 DEF Inv

\* All workers are busy; at shutdown the connection is closed.
LEMMA RetryStep ==
    ASSUME Inv, Alive, Retry
    PROVE  Inv'
<1>1. TypeOK'
  <2>1. main' \in {main, "loop"} /\ client' \in {client, None} /\ next' \in 0..active_workers
    BY SMTT(60) DEF Inv, TypeOK, Retry
  <2>2. conn' \in [Clients -> {"none", "backlog", "open", "closed"}]
    BY SMTT(60) DEF Inv, TypeOK, Retry, Closed
  <2> QED BY <2>1, <2>2 DEF Inv, TypeOK, Retry, workVars, gpuVars
<1>2. OneOwner'
  BY SMTT(60) DEF Inv, OneOwner, Retry, Closed, workVars, gpuVars, Alive, Owned
<1>3. MainInv'
  BY DEF Inv, MainInv, Retry, Closed, workVars, gpuVars, Alive, Listening
<1>4. BacklogInv'
  <2>1. CASE running
    BY <2>1 DEF Inv, Listening, BacklogInv, Retry
  <2>2. CASE ~running
    <3>1. client \in Clients /\ conn[client] = "open"
      BY SMTT(60) DEF Inv, Listening, MainInv, OneOwner, Owned, TypeOK, Retry, Alive
    <3> QED BY <2>2, <3>1, SMTT(60) DEF Inv, Listening, BacklogInv, MainInv, Retry, Closed, TypeOK
  <2> QED BY <2>1, <2>2
<1>5. WorkerInv'
  BY DEF Inv, WorkerInv, Retry, Closed, workVars, gpuVars, Serving
<1>6. ReplyInv'
  BY SMTT(60) DEF Inv, ReplyInv, Retry, Closed, workVars, gpuVars, MainInv, Alive, Listening, OneOwner,
    Owned
<1>7. StoppedMeansClosed'
  BY DEF Inv, StoppedMeansClosed, Retry, Closed, workVars, gpuVars
<1>8. KernelInv' /\ RequestInv' /\ SuccessMeansDone'
  BY DEF Inv, KernelInv, RequestInv, SuccessMeansDone, Retry, Closed, workVars, gpuVars
<1> QED BY <1>1, <1>2, <1>3, <1>4, <1>5, <1>6, <1>7, <1>8 DEF Inv

\* A worker is woken for shutdown.
LEMMA WakeWorkerStep ==
    ASSUME Inv, Alive, WakeWorker
    PROVE  Inv'
<1>1. TypeOK'
  <2>1. main' \in {main, "join"} /\ next' \in 0..active_workers /\ asleep' \subseteq Workers
    BY SMTT(60) DEF Inv, TypeOK, MainInv, WakeWorker
  <2> QED BY <2>1 DEF Inv, TypeOK, WakeWorker, gpuVars, clientVars
<1>2. OneOwner'
  BY DEF Inv, OneOwner, WakeWorker, gpuVars, clientVars, Alive, Owned
<1>3. MainInv'
  BY SMTT(60) DEF Inv, MainInv, WakeWorker, gpuVars, clientVars, Alive, Listening, TypeOK
<1>4. BacklogInv'
  BY DEF Inv, BacklogInv, WakeWorker, gpuVars, clientVars, Listening
<1>5. WorkerInv'
  BY DEF Inv, WorkerInv, WakeWorker, gpuVars, clientVars, Serving, Workers
<1>6. StoppedMeansClosed'
  BY DEF Inv, StoppedMeansClosed, WakeWorker, gpuVars, clientVars
<1>7. KernelInv' /\ RequestInv' /\ ReplyInv' /\ SuccessMeansDone'
  BY DEF Inv, KernelInv, RequestInv, ReplyInv, SuccessMeansDone, WakeWorker, gpuVars,
    clientVars
<1> QED BY <1>1, <1>2, <1>3, <1>4, <1>5, <1>6, <1>7 DEF Inv

\* A worker is joined; with the last of them no connection is left open.
LEMMA JoinWorkerStep ==
    ASSUME Inv, Alive, JoinWorker
    PROVE  Inv'
<1>1. TypeOK'
  <2>1. main' \in {main, "stopped"} /\ next' \in 0..active_workers
    BY SMTT(60) DEF Inv, TypeOK, MainInv, JoinWorker
  <2>2. /\ client_fd' \in [Workers -> Clients \cup {None}]
        /\ conn' \in [Clients -> {"none", "backlog", "open", "closed"}]
    BY DEF Inv, TypeOK, JoinWorker, Closed
  <2> QED BY <2>1, <2>2 DEF Inv, TypeOK, JoinWorker, gpuVars
<1>2. OneOwner'
  BY DaemonAssumption, SMTT(60) DEF Inv, OneOwner, JoinWorker, Closed, gpuVars, Alive, Owned, TypeOK,
    MainInv, Listening, Workers
<1>3. MainInv'
  BY SMTT(60) DEF Inv, MainInv, JoinWorker, Closed, gpuVars, Alive, Listening, TypeOK
<1>4. BacklogInv'
  BY DEF Inv, BacklogInv, JoinWorker, Closed, gpuVars, Listening
<1>5. WorkerInv'
  BY SMTT(60) DEF Inv, WorkerInv, JoinWorker, Closed, gpuVars, Serving, TypeOK, Workers
<1>6. RequestInv'
  BY SMTT(60) DEF Inv, TypeOK, RequestInv, JoinWorker, Closed, gpuVars
<1>7. ReplyInv'
  <2>1. next \in Workers
    BY DaemonAssumption, SMTT(60) DEF Inv, TypeOK, Listening, MainInv, JoinWorker, Workers
  <2>2. \A c \in Clients : conn'[c] \in {"none", "backlog"} => conn'[c] = conn[c]
    BY DEF JoinWorker, Closed, Inv, TypeOK
  <2>3. ASSUME NEW c \in Clients, conn[c] = "none" PROVE conn'[c] = "none"
    <3>1. c # client_fd[next]
      BY <2>1, <2>3, DaemonAssumption DEF Inv, OneOwner, Owned
    <3> QED BY <2>3, <3>1 DEF JoinWorker, Closed
  <2> QED BY <2>1, <2>2, <2>3, SMTT(60) DEF Inv, ReplyInv, JoinWorker, TypeOK
<1>8. StoppedMeansClosed'
  <2> SUFFICES ASSUME main' = "stopped", NEW c \in Clients
               PROVE  conn'[c] \in {"none", "closed"}
    BY DEF StoppedMeansClosed
  <2>1. next = active_workers - 1 /\ main = "join"
    BY DEF JoinWorker
  <2>2. CASE conn[c] = "open"
    <3>1. client = None
      BY <2>1 DEF Inv, MainInv
    <3>2. PICK w \in Workers : client_fd[w] = c
      BY <2>2, <3>1, DaemonAssumption, SMTT(60) DEF Inv, OneOwner, Owned
    <3>3. ~(w < next) /\ ~(w >= active_workers)
      BY <2>1, <3>2, DaemonAssumption DEF Inv, WorkerInv
    <3>4. w = next
      BY <2>1, <3>3, SMTT(60) DEF Workers, Inv, TypeOK
    <3> QED BY <3>2, <3>4 DEF JoinWorker, Closed
  <2>3. CASE conn[c] # "open"
    <3>1. conn[c] \in {"none", "closed"}
      BY <2>1, <2>3, SMTT(60) DEF Inv, BacklogInv, TypeOK, Listening
    <3> QED BY <3>1 DEF JoinWorker, Closed
  <2> QED BY <2>2, <2>3
<1>9. KernelInv' /\ SuccessMeansDone'
  BY DEF Inv, KernelInv, SuccessMeansDone, JoinWorker, Closed, gpuVars
<1> QED BY <1>1, <1>2, <1>3, <1>4, <1>5, <1>6, <1>7, <1>8, <1>9 DEF Inv

\* SIGTERM.
LEMMA SignalStep ==
    ASSUME Inv, Alive, Signal
    PROVE  Inv'
<1>1. TypeOK'
  <2>1. running' \in BOOLEAN
    BY DEF Signal
  <2>2. signals' \in 0..1
    BY DEF Signal
  <2>3. main' \in {main, "loop"}
    BY DEF Signal
  <2> QED BY <2>1, <2>2, <2>3 DEF Inv, TypeOK, Signal, workVars, gpuVars, clientVars
<1>2. OneOwner'
  BY DEF Inv, OneOwner, Signal, Alive, workVars, gpuVars, clientVars, Owned
<1>3. MainInv'
  BY DEF Inv, MainInv, Signal, Alive, workVars, gpuVars, clientVars, Listening
<1>4. BacklogInv'
  BY DEF Inv, BacklogInv, Signal, Alive, workVars, gpuVars, clientVars, Listening
<1>5. WorkerInv'
  BY DEF Inv, WorkerInv, Signal, Alive, workVars, gpuVars, clientVars, Serving
<1>6. StoppedMeansClosed'
  BY DEF Inv, StoppedMeansClosed, Signal, Alive, workVars, gpuVars, clientVars
<1>7. KernelInv' /\ RequestInv' /\ ReplyInv' /\ SuccessMeansDone'
  BY DEF Inv, KernelInv, RequestInv, ReplyInv, SuccessMeansDone, Signal, Alive, workVars,
    gpuVars, clientVars
<1> QED BY <1>1, <1>2, <1>3, <1>4, <1>5, <1>6, <1>7 DEF Inv

-----------------------------------------------------------------------------
(* Every step keeps it: the clients                                        *)

\* A client goes on to `to'; it reports success only when it has the whole answer.
LEMMA ClientMoves ==
    ASSUME Inv, NEW c \in Clients, NEW to \in {"send", "receive", "done", "error", "gone"},
           cstate' = [cstate EXCEPT ![c] = to], UNCHANGED <<req, reply>>,
           to = "done" => req[c].valid /\ reply[c] = (IF req[c].raw THEN "data" ELSE "ok")
    PROVE  /\ cstate' \in [Clients -> {"idle", "send", "receive", "done", "error", "gone"}]
           /\ cstate'[c] = to /\ \A d \in Clients : d # c => cstate'[d] = cstate[d]
           /\ SuccessMeansDone'
           /\ UNCHANGED <<pc, client_fd, client, conn>> => ReplyInv'
<1>1. /\ cstate' \in [Clients -> {"idle", "send", "receive", "done", "error", "gone"}]
      /\ cstate'[c] = to /\ \A d \in Clients : d # c => cstate'[d] = cstate[d]
  BY DEF Inv, TypeOK
<1>2. SuccessMeansDone'
  BY <1>1 DEF Inv, SuccessMeansDone
<1>3. ASSUME UNCHANGED <<pc, client_fd, client, conn>> PROVE ReplyInv'
  BY <1>1, <1>3 DEF Inv, ReplyInv
<1> QED BY <1>1, <1>2, <1>3

\* A connection enters the backlog.
LEMMA ConnectStep ==
    ASSUME Inv, NEW c \in Clients, Connect(c)
    PROVE  Inv'
<1>1. /\ cstate[c] = "idle" /\ conn[c] = "none" /\ reply[c] = "none" /\ main # "init"
      /\ UNCHANGED <<running, signals, active_workers, main, client, next>>
      /\ UNCHANGED <<pc, client_fd, has_work, lock, asleep, program, kernel, used>>
      /\ UNCHANGED <<req, sent, reply>>
  BY DEF Inv, ReplyInv, Connect, cRest, workVars, gpuVars
<1>2. WorkerInv'
  BY <1>1 DEF Inv, WorkerInv
<1>3. CASE backlog = None
  <2>1. cstate' = [cstate EXCEPT ![c] = "error"] /\ UNCHANGED <<backlog, conn>>
    BY <1>3 DEF Connect
  <2>2. /\ cstate' \in [Clients -> {"idle", "send", "receive", "done", "error", "gone"}]
        /\ SuccessMeansDone' /\ ReplyInv'
    BY <1>1, <2>1, ClientMoves
  <2>3. TypeOK'
    BY <1>1, <2>1, <2>2 DEF Inv, TypeOK
  <2> QED BY <1>1, <1>2, <2>1, <2>2, <2>3, Frames DEF Inv
<1>4. CASE backlog # None
  <2> DEFINE b == backlog
             a == Append(backlog, c)
  <2>1. /\ cstate' = [cstate EXCEPT ![c] = "send"] /\ backlog' = a
        /\ conn' = [conn EXCEPT ![c] = "backlog"]
    BY <1>4 DEF Connect
  <2>2. Listening /\ Listening' /\ Alive /\ Alive' /\ b \in Seq(Clients)
    BY <1>1, <1>4 DEF Inv, MainInv, Listening, Alive
  <2>3. /\ cstate' \in [Clients -> {"idle", "send", "receive", "done", "error", "gone"}]
        /\ cstate'[c] = "send" /\ \A d \in Clients : d # c => cstate'[d] = cstate[d]
        /\ SuccessMeansDone'
    BY <1>1, <2>1, ClientMoves
  <2>4. /\ conn' \in [Clients -> {"none", "backlog", "open", "closed"}]
        /\ conn'[c] = "backlog" /\ \A d \in Clients : d # c => conn'[d] = conn[d]
    BY <2>1 DEF Inv, TypeOK
  <2>5. /\ a \in Seq(Clients) /\ Len(b) + 1 \in DOMAIN a /\ a[Len(b) + 1] = c
        /\ \A i \in DOMAIN a : i # Len(b) + 1 => i \in DOMAIN b /\ a[i] = b[i]
        /\ \A i \in DOMAIN b : b[i] \in Clients /\ i \in DOMAIN a /\ a[i] = b[i]
    BY <2>2, Appended, SMTT(60)
  <2>6. TypeOK'
    BY <1>1, <2>1, <2>3, <2>4, <2>5 DEF Inv, TypeOK
  <2>7. OneOwner'
    <3>1. \A d \in Clients : conn'[d] = "open" <=> conn[d] = "open"
      BY <1>1, <2>4
    <3> QED BY <1>1, <2>2, <3>1, SMTT(60) DEF Inv, OneOwner, Owned
  <2>8. MainInv'
    BY <1>1, <2>1, <2>2, <2>5 DEF Inv, MainInv
  <2>9. BacklogInv'
    <3>1. /\ \A i \in DOMAIN b : conn[b[i]] = "backlog"
          /\ \A i, j \in DOMAIN b : b[i] = b[j] => i = j
          /\ \A x \in Clients : conn[x] = "backlog" => \E i \in DOMAIN b : b[i] = x
      BY <2>2 DEF Inv, BacklogInv
    <3>2. \A i \in DOMAIN b : b[i] # c
      BY <1>1, <3>1
    <3> HIDE DEF a, b
    <3>3. \A i \in DOMAIN a : conn'[a[i]] = "backlog"
      BY <2>4, <2>5, <3>1, SMTT(60)
    <3>4. \A i, j \in DOMAIN a : a[i] = a[j] => i = j
      <4> SUFFICES ASSUME NEW i \in DOMAIN a, NEW j \in DOMAIN a, a[i] = a[j] PROVE i = j
        OBVIOUS
      <4>1. CASE i \in DOMAIN b /\ j \in DOMAIN b
        BY <2>5, <3>1, <4>1
      <4>2. CASE ~(i \in DOMAIN b /\ j \in DOMAIN b)
        BY <2>5, <3>2, <4>2
      <4> QED BY <4>1, <4>2
    <3>5. \A x \in Clients : conn'[x] = "backlog" => \E i \in DOMAIN a : a[i] = x
      BY <2>4, <2>5, <3>1, SMTT(60)
    <3> QED BY <2>1, <2>2, <3>3, <3>4, <3>5 DEF BacklogInv
  <2>10. ReplyInv'
    BY <1>1, <2>3, <2>4 DEF Inv, ReplyInv
  <2>11. StoppedMeansClosed'
    BY <2>2 DEF StoppedMeansClosed, Alive
  <2> QED BY <1>1, <1>2, <2>3, <2>6, <2>7, <2>8, <2>9, <2>10, <2>11, Frames DEF Inv
<1> QED BY <1>3, <1>4

\* What a client does with an open connection is nobody else's state.
LEMMA ClientFrame ==
    ASSUME Inv, UNCHANGED cRest, UNCHANGED <<backlog, conn>>
    PROVE  /\ OneOwner' /\ MainInv' /\ BacklogInv' /\ WorkerInv' /\ KernelInv'
           /\ RequestInv' /\ StoppedMeansClosed'
<1>1. /\ UNCHANGED <<running, signals, active_workers, main, client, next>>
      /\ UNCHANGED <<pc, client_fd, has_work, lock, asleep, program, kernel, used, req>>
  BY DEF cRest, workVars, gpuVars
<1>2. WorkerInv'
  BY <1>1 DEF Inv, WorkerInv
<1> QED BY <1>1, <1>2, Frames

\* A client sends.
LEMMA SendStep ==
    ASSUME Inv, NEW c \in Clients, Send(c)
    PROVE  Inv'
<1>1. UNCHANGED cRest /\ UNCHANGED <<backlog, conn, reply>>
  BY DEF Send
<1>2. PICK to \in {"send", "receive", "error"} : cstate' = [cstate EXCEPT ![c] = to]
  BY DEF Send
<1>3. sent' \in [Clients -> {"nothing", "request", "all"}]
  <2>1. CASE conn[c] = "closed"
    BY <2>1 DEF Inv, TypeOK, Send
  <2>2. CASE conn[c] # "closed"
    <3>1. PICK part \in {"request", "all"} : sent' = [sent EXCEPT ![c] = part]
      BY <2>2 DEF Send
    <3> QED BY <3>1 DEF Inv, TypeOK
  <2> QED BY <2>1, <2>2
<1>4. /\ UNCHANGED <<running, signals, active_workers, main, client, next>>
      /\ UNCHANGED <<pc, client_fd, has_work, lock, asleep, program, kernel, used, req>>
  BY <1>1 DEF cRest, workVars, gpuVars
<1>5. /\ cstate' \in [Clients -> {"idle", "send", "receive", "done", "error", "gone"}]
      /\ SuccessMeansDone' /\ ReplyInv'
  BY <1>1, <1>2, <1>4, ClientMoves
<1>6. TypeOK'
  BY <1>1, <1>3, <1>4, <1>5 DEF Inv, TypeOK
<1> QED BY <1>1, <1>5, <1>6, ClientFrame DEF Inv

\* A client receives.
LEMMA ReceiveStep ==
    ASSUME Inv, NEW c \in Clients, Receive(c)
    PROVE  Inv'
<1>1. UNCHANGED cRest /\ UNCHANGED <<backlog, conn, sent, reply>>
  BY DEF Receive
<1> DEFINE whole == reply[c] = (IF req[c].raw THEN "data" ELSE "ok")
           to == IF whole THEN "done" ELSE "error"
<1>2. cstate' = [cstate EXCEPT ![c] = to]
  BY DEF Receive
<1>3. to = "done" => req[c].valid /\ whole
  BY DEF Inv, ReplyInv
<1>4. /\ UNCHANGED <<running, signals, active_workers, main, client, next>>
      /\ UNCHANGED <<pc, client_fd, has_work, lock, asleep, program, kernel, used, req>>
  BY <1>1 DEF cRest, workVars, gpuVars
<1>5. /\ cstate' \in [Clients -> {"idle", "send", "receive", "done", "error", "gone"}]
      /\ SuccessMeansDone' /\ ReplyInv'
  BY <1>1, <1>2, <1>3, <1>4, ClientMoves
<1>6. TypeOK'
  BY <1>1, <1>4, <1>5 DEF Inv, TypeOK
<1> QED BY <1>1, <1>5, <1>6, ClientFrame DEF Inv

\* A client leaves.
LEMMA LeaveStep ==
    ASSUME Inv, NEW c \in Clients, Leave(c)
    PROVE  Inv'
<1>1. /\ cstate' = [cstate EXCEPT ![c] = "gone"]
      /\ UNCHANGED cRest /\ UNCHANGED <<backlog, conn, sent, reply>>
  BY DEF Leave
<1>2. /\ UNCHANGED <<running, signals, active_workers, main, client, next>>
      /\ UNCHANGED <<pc, client_fd, has_work, lock, asleep, program, kernel, used, req>>
  BY <1>1 DEF cRest, workVars, gpuVars
<1>3. /\ cstate' \in [Clients -> {"idle", "send", "receive", "done", "error", "gone"}]
      /\ SuccessMeansDone' /\ ReplyInv'
  BY <1>1, <1>2, ClientMoves
<1>4. TypeOK'
  BY <1>1, <1>2, <1>3 DEF Inv, TypeOK
<1> QED BY <1>1, <1>3, <1>4, ClientFrame DEF Inv

-----------------------------------------------------------------------------
(* Every step keeps it: the workers                                        *)

\* A worker goes on to `to': what the program counters are then.
LEMMA Moves ==
    ASSUME Inv, NEW w \in Workers, NEW to, pc' = [pc EXCEPT ![w] = to],
           to \in {"none", "top", "lock", "wait", "read", "payload", "process",
                   "reply", "data", "close", "exited"}
    PROVE  /\ pc' \in PcType /\ pc'[w] = to
           /\ \A v \in Workers : v # w => pc'[v] = pc[v]
BY DEF Inv, TypeOK, PcType

\* While a worker serves a request, the connection is its own.
LEMMA ServingMoves ==
    ASSUME Inv, NEW w \in Workers, pc[w] \in Serving, NEW to \in Serving,
           pc' = [pc EXCEPT ![w] = to],
           UNCHANGED <<client_fd, has_work, lock, asleep, main, next, active_workers>>
    PROVE  /\ pc' \in PcType /\ pc'[w] = to
           /\ \A v \in Workers : v # w => pc'[v] = pc[v]
           /\ WorkerInv'
<1>1. /\ pc' \in PcType /\ pc'[w] = to
      /\ \A v \in Workers : v # w => pc'[v] = pc[v]
  BY Moves DEF Serving
<1>2. lock[w] /\ main # "init" /\ ~(w >= active_workers) /\ w \notin asleep
  BY DEF Inv, WorkerInv, Serving
<1>3. ASSUME NEW v \in Workers PROVE WorkerInv!(v)'
  <2>1. CASE v = w
    BY <1>1, <1>2, <2>1 DEF Inv, WorkerInv, Serving
  <2>2. CASE v # w
    BY <1>1, <2>2 DEF Inv, WorkerInv
  <2> QED BY <2>1, <2>2
<1> QED BY <1>1, <1>3 DEF WorkerInv

\* The connection of a worker that serves is open, and nobody else has it.
LEMMA ServingOwns ==
    ASSUME Inv, Alive, NEW w \in Workers, pc[w] \in Serving
    PROVE  /\ Peer(w) \in Clients /\ Peer(w) # None /\ conn[Peer(w)] = "open"
           /\ client # Peer(w) /\ \A v \in Workers : v # w => client_fd[v] # Peer(w)
<1>1. Peer(w) \in Clients /\ Peer(w) # None
  BY SMTT(60) DEF Inv, TypeOK, WorkerInv, Serving, Peer
<1>2. conn[Peer(w)] = "open"
  BY <1>1 DEF Inv, OneOwner, Owned, Peer
<1> QED BY <1>1, <1>2 DEF Inv, OneOwner, Peer

\* A worker tests `running'.
LEMMA TopStep ==
    ASSUME Inv, Alive, NEW w \in Workers, Top(w)
    PROVE  Inv'
<1> DEFINE to == IF running THEN "lock" ELSE "exited"
<1>1. /\ pc[w] = "top" /\ pc' = [pc EXCEPT ![w] = to]
      /\ UNCHANGED <<client_fd, has_work, lock, asleep, running, signals, active_workers>>
      /\ UNCHANGED <<main, client, next, backlog, program, kernel, used>>
      /\ UNCHANGED <<conn, req, sent, reply, cstate>>
  BY DEF Top, wRest, mainVars, gpuVars, clientVars
<1>2. /\ pc' \in PcType /\ pc'[w] = to
      /\ \A v \in Workers : v # w => pc'[v] = pc[v]
  BY <1>1, Moves
<1>3. TypeOK'
  BY <1>1, <1>2 DEF Inv, TypeOK, PcType
<1>4. WorkerInv'
  BY <1>1, <1>2, SMTT(60) DEF Inv, WorkerInv, Serving
<1>5. RequestInv'
  BY <1>1, <1>2, SMTT(60) DEF Inv, RequestInv
<1>6. ReplyInv'
  BY <1>1, <1>2, SMTT(60) DEF Inv, ReplyInv
<1> QED BY <1>1, <1>3, <1>4, <1>5, <1>6, Frames DEF Inv

\* A worker looks at its slot: it sleeps only when it has no work.
LEMMA LockStep ==
    ASSUME Inv, Alive, NEW w \in Workers, Lock(w)
    PROVE  Inv'
<1> DEFINE to == IF ~running THEN "exited" ELSE IF has_work[w] THEN "read" ELSE "wait"
<1>1. /\ pc[w] \in {"lock", "wait"} /\ (pc[w] = "wait" => w \notin asleep)
      /\ pc' = [pc EXCEPT ![w] = to]
      /\ lock' = IF running /\ has_work[w] THEN [lock EXCEPT ![w] = TRUE] ELSE lock
      /\ asleep' = IF running /\ ~has_work[w] THEN asleep \cup {w} ELSE asleep
      /\ UNCHANGED <<client_fd, has_work, running, signals, active_workers>>
      /\ UNCHANGED <<main, client, next, backlog, program, kernel, used>>
      /\ UNCHANGED <<conn, req, sent, reply, cstate>>
  BY DEF Lock, wRest, mainVars, gpuVars, clientVars
<1>2. /\ pc' \in PcType /\ pc'[w] = to
      /\ \A v \in Workers : v # w => pc'[v] = pc[v]
  BY <1>1, Moves
<1>3. TypeOK'
  <2>1. lock' \in [Workers -> BOOLEAN]
    BY <1>1 DEF Inv, TypeOK
  <2>2. asleep' \subseteq Workers
    BY <1>1 DEF Inv, TypeOK
  <2> QED BY <1>1, <1>2, <2>1, <2>2 DEF Inv, TypeOK, PcType
<1>4. WorkerInv'
  <2>1. ~lock[w] /\ w \notin asleep /\ main # "init" /\ ~(w >= active_workers)
    BY <1>1 DEF Inv, WorkerInv, Serving
  <2>2. \A v \in Workers : v # w => lock'[v] = lock[v] /\ (v \in asleep' <=> v \in asleep)
    BY <1>1 DEF Inv, TypeOK
  <2>3. lock'[w] <=> running /\ has_work[w]
    <3>1. lock \in [Workers -> BOOLEAN]
      BY DEF Inv, TypeOK
    <3> QED BY <1>1, <2>1, <3>1
  <2>4. /\ has_work[w] => client_fd[w] # None
        /\ client_fd[w] # None => has_work[w]
        /\ main \in {"join", "stopped"} => WorkerInv!(w)
    BY <1>1 DEF Inv, WorkerInv
  <2>5. ASSUME NEW v \in Workers PROVE WorkerInv!(v)'
    <3>1. CASE v = w
      BY <1>1, <1>2, <2>1, <2>3, <2>4, <3>1, SMTT(60) DEF WorkerInv, Serving
    <3>2. CASE v # w
      <4>1. WorkerInv!(v)
        BY DEF Inv, WorkerInv
      <4> QED BY <1>1, <1>2, <2>2, <3>2, <4>1
    <3> QED BY <3>1, <3>2
  <2> QED BY <2>5 DEF WorkerInv
<1>5. RequestInv'
  BY <1>1, <1>2, SMTT(60) DEF Inv, RequestInv
<1>6. ReplyInv'
  BY <1>1, <1>2, SMTT(60) DEF Inv, ReplyInv
<1> QED BY <1>1, <1>3, <1>4, <1>5, <1>6, Frames DEF Inv

\* The request is read.
LEMMA ReadStep ==
    ASSUME Inv, Alive, NEW w \in Workers, Read(w)
    PROVE  Inv'
<1>1. PICK to \in {"payload", "process", "reply", "close"} :
            /\ pc' = [pc EXCEPT ![w] = to]
            /\ to \in {"payload", "process"} => req[client_fd[w]].valid
  BY DEF Read, Goto, Peer
<1>2. /\ pc[w] = "read"
      /\ UNCHANGED <<client_fd, has_work, lock, asleep, running, signals, active_workers>>
      /\ UNCHANGED <<main, client, next, backlog, program, kernel, used>>
      /\ UNCHANGED <<conn, req, sent, reply, cstate>>
  BY DEF Read, keep, mainVars, gpuVars
<1>3. /\ pc' \in PcType /\ pc'[w] = to /\ WorkerInv'
      /\ \A v \in Workers : v # w => pc'[v] = pc[v]
  BY <1>1, <1>2, ServingMoves DEF Serving
<1>4. TypeOK'
  BY <1>2, <1>3 DEF Inv, TypeOK, PcType
<1>5. RequestInv'
  BY <1>1, <1>2, <1>3 DEF Inv, RequestInv
<1>6. ReplyInv'
  BY <1>2, <1>3 DEF Inv, ReplyInv
<1> QED BY <1>2, <1>3, <1>4, <1>5, <1>6, Frames DEF Inv

\* The payload is read.
LEMMA ReadPayloadStep ==
    ASSUME Inv, Alive, NEW w \in Workers, ReadPayload(w)
    PROVE  Inv'
<1>1. PICK to \in {"process", "reply"} : pc' = [pc EXCEPT ![w] = to]
  BY DEF ReadPayload, Goto
<1>2. /\ pc[w] = "payload"
      /\ UNCHANGED <<client_fd, has_work, lock, asleep, running, signals, active_workers>>
      /\ UNCHANGED <<main, client, next, backlog, program, kernel, used>>
      /\ UNCHANGED <<conn, req, sent, reply, cstate>>
  BY DEF ReadPayload, keep, mainVars, gpuVars
<1>3. /\ pc' \in PcType /\ pc'[w] = to /\ WorkerInv'
      /\ \A v \in Workers : v # w => pc'[v] = pc[v]
  BY <1>1, <1>2, ServingMoves DEF Serving
<1>4. TypeOK'
  BY <1>2, <1>3 DEF Inv, TypeOK, PcType
<1>5. RequestInv'
  BY <1>2, <1>3 DEF Inv, RequestInv
<1>6. ReplyInv'
  BY <1>2, <1>3 DEF Inv, ReplyInv
<1> QED BY <1>2, <1>3, <1>4, <1>5, <1>6, Frames DEF Inv

\* A program is loaded and a kernel created for the block size of the request, and
\* whatever kernel the worker had before was for the same block size.
LEMMA ProcessRequestStep ==
    ASSUME Inv, Alive, NEW w \in Workers, process_request(w)
    PROVE  Inv'
<1> DEFINE r == req[Peer(w)]
           m == daemon_kernel_mode_for_block(r.block)
           k == <<m, r.mode>>
           size(n) == IF n = "clear16" THEN "small" ELSE "large"
<1>1. Peer(w) \in Clients
  BY ServingOwns DEF process_request, Serving
<1>2. /\ m \in Modes /\ r.mode \in {"compress", "decompress"} /\ r.block = size(m)
      /\ k \in Modes \X {"compress", "decompress"} /\ r.block \in {"small", "large"}
  BY <1>1 DEF Inv, TypeOK, Requests, Modes, daemon_kernel_mode_for_block
<1>3. PICK loaded \in {program[m], r.block}, created \in BOOLEAN, ok \in BOOLEAN :
            /\ program' = [program EXCEPT ![m] = loaded]
            /\ kernel' = [kernel EXCEPT ![w][k] = IF @ = None /\ created THEN loaded ELSE @]
            /\ used' = [used EXCEPT ![w] = IF ok /\ kernel'[w][k] # None THEN kernel'[w][k]
                                           ELSE "failed"]
  BY DEF process_request
<1>4. loaded \in {None, size(m)}
  BY <1>2 DEF Inv, KernelInv
<1>5. KernelInv'
  <2>1. ASSUME NEW n \in Modes PROVE program'[n] \in {None, size(n)}
    <3>1. program'[n] = IF n = m THEN loaded ELSE program[n]
      <4> HIDE DEF m
      <4> QED BY <1>2, <1>3, SMTT(60) DEF Inv, TypeOK
    <3>2. program[n] \in {None, size(n)}
      BY DEF Inv, KernelInv
    <3>3. CASE n = m
      BY <1>4, <3>1, <3>3
    <3>4. CASE n # m
      BY <3>1, <3>2, <3>4
    <3> QED BY <3>3, <3>4
  <2>2. ASSUME NEW n \in Modes, NEW v \in Workers, NEW x \in {"compress", "decompress"}
        PROVE  kernel'[v][<<n, x>>] \in {None, size(n)}
    <3>1. kernel[v][<<n, x>>] \in {None, size(n)}
      BY DEF Inv, KernelInv
    <3>2. CASE v = w /\ <<n, x>> = k
      <4>1. kernel'[v][<<n, x>>] \in {kernel[v][<<n, x>>], loaded}
        BY <1>2, <1>3, <3>2, SMTT(60) DEF Inv, TypeOK
      <4>2. n = m
        BY <3>2
      <4> QED BY <1>4, <3>1, <4>1, <4>2
    <3>3. CASE ~(v = w /\ <<n, x>> = k)
      <4>1. kernel'[v][<<n, x>>] = kernel[v][<<n, x>>]
        <5> HIDE DEF k
        <5> QED BY <1>2, <1>3, <3>3, SMTT(60) DEF Inv, TypeOK
      <4> QED BY <3>1, <4>1
    <3> QED BY <3>2, <3>3
  <2> QED BY <2>1, <2>2 DEF KernelInv
<1>6. /\ used'[w] \in {"failed", r.block}
      /\ \A v \in Workers : v # w => used'[v] = used[v]
      /\ used' \in [Workers -> {None, "small", "large", "failed"}]
  <2>1. kernel'[w][k] \in {None, r.block}
    BY <1>2, <1>5 DEF KernelInv
  <2> HIDE DEF k, r
  <2> QED BY <1>2, <1>3, <2>1, SMTT(60) DEF Inv, TypeOK
<1>7. /\ pc[w] = "process" /\ pc' = [pc EXCEPT ![w] = "reply"]
      /\ UNCHANGED <<client_fd, has_work, lock, asleep, running, signals, active_workers>>
      /\ UNCHANGED <<main, client, next, backlog, conn, req, sent, reply, cstate>>
  BY DEF process_request, Goto, mainVars, clientVars
<1>8. /\ pc' \in PcType /\ pc'[w] = "reply" /\ WorkerInv'
      /\ \A v \in Workers : v # w => pc'[v] = pc[v]
  BY <1>7, ServingMoves DEF Serving
<1>9. TypeOK'
  <2>1. program' \in [Modes -> {None, "small", "large"}]
    <3> HIDE DEF m
    <3> QED BY <1>2, <1>3, <1>4 DEF Inv, TypeOK
  <2>2. kernel' \in [Workers -> [Modes \X {"compress", "decompress"} -> {None, "small", "large"}]]
    <3>1. loaded \in {None, "small", "large"}
      BY <1>4
    <3> HIDE DEF m, k
    <3> QED BY <1>2, <1>3, <3>1, SMTT(60) DEF Inv, TypeOK
  <2> QED BY <1>6, <1>7, <1>8, <2>1, <2>2 DEF Inv, TypeOK, PcType
<1>10. RequestInv'
  <2>1. req[client_fd[w]].valid
    BY <1>7 DEF Inv, RequestInv
  <2> QED BY <1>6, <1>7, <1>8, <2>1 DEF Inv, RequestInv, Peer
<1>11. ReplyInv'
  BY <1>7, <1>8 DEF Inv, ReplyInv
<1> QED BY <1>5, <1>7, <1>8, <1>9, <1>10, <1>11, Frames DEF Inv

\* The response is sent.
LEMMA ReplyStep ==
    ASSUME Inv, Alive, NEW w \in Workers, Reply(w)
    PROVE  Inv'
<1> DEFINE c == Peer(w)
           answer == IF Succeeded(w) THEN "ok" ELSE "failed"
           to == IF Succeeded(w) /\ req[c].raw THEN "data" ELSE "close"
<1>1. /\ pc[w] = "reply" /\ pc' = [pc EXCEPT ![w] = to] /\ reply' = [reply EXCEPT ![c] = answer]
      /\ UNCHANGED <<client_fd, has_work, lock, asleep, running, signals, active_workers>>
      /\ UNCHANGED <<main, client, next, backlog, program, kernel, used>>
      /\ UNCHANGED <<conn, req, sent, cstate>>
  BY DEF Reply, Goto, keep, mainVars, gpuVars
<1>2. /\ pc' \in PcType /\ pc'[w] = to /\ WorkerInv'
      /\ \A v \in Workers : v # w => pc'[v] = pc[v]
  BY <1>1, ServingMoves DEF Serving
<1>3. /\ c \in Clients /\ c # None /\ conn[c] = "open" /\ client # c
      /\ \A v \in Workers : v # w => client_fd[v] # c
  BY <1>1, ServingOwns DEF Serving
<1>4. /\ reply' \in [Clients -> {"none", "ok", "failed", "data"}] /\ reply'[c] = answer
      /\ \A d \in Clients : d # c => reply'[d] = reply[d]
  BY <1>1, <1>3 DEF Inv, TypeOK
<1>5. reply[c] = "none" /\ (Succeeded(w) => req[c].valid)
  BY <1>1, <1>3 DEF Inv, ReplyInv, RequestInv, Succeeded, Peer
<1>6. TypeOK'
  BY <1>1, <1>2, <1>4 DEF Inv, TypeOK, PcType
<1>7. RequestInv'
  BY <1>1, <1>2, <1>5, SMTT(60) DEF Inv, RequestInv, Succeeded, Peer
<1>8. ReplyInv'
  <2>0. client_fd \in [Workers -> Clients \cup {None}] /\ client \in Clients \cup {None}
    BY DEF Inv, TypeOK
  <2>1. ASSUME NEW d \in Clients PROVE ReplyInv!1!(d)'
    <3>1. CASE d = c
      BY <1>1, <1>3, <1>4, <1>5, <3>1 DEF Inv, ReplyInv
    <3>2. CASE d # c
      BY <1>1, <1>4, <3>2 DEF Inv, ReplyInv
    <3> QED BY <3>1, <3>2
  <2>2. client' # None => reply'[client'] = "none"
    BY <1>1, <1>3, <1>4, <2>0 DEF Inv, ReplyInv
  <2>3. ASSUME NEW v \in Workers, client_fd[v] # None PROVE ReplyInv!3!(v)!2'
    <3>1. CASE v = w
      BY <1>1, <1>2, <1>4, <3>1, SMTT(60) DEF Peer
    <3>2. CASE v # w
      <4>1. ReplyInv!3!(v)!2 /\ client_fd[v] \in Clients
        BY <2>0, <2>3 DEF Inv, ReplyInv
      <4> QED BY <1>1, <1>2, <1>3, <1>4, <2>3, <3>2, <4>1
    <3> QED BY <3>1, <3>2
  <2> QED BY <1>1, <2>1, <2>2, <2>3 DEF ReplyInv
<1>9. SuccessMeansDone'
  BY <1>1, <1>3, <1>4, <1>5 DEF Inv, SuccessMeansDone
<1> QED BY <1>1, <1>2, <1>6, <1>7, <1>8, <1>9, Frames DEF Inv

\* The output is sent.
LEMMA SendDataStep ==
    ASSUME Inv, Alive, NEW w \in Workers, SendData(w)
    PROVE  Inv'
<1> DEFINE c == Peer(w)
<1>1. PICK whole \in {"data", "ok"} : reply' = [reply EXCEPT ![c] = whole]
  BY DEF SendData
<1>2. /\ pc[w] = "data" /\ pc' = [pc EXCEPT ![w] = "close"]
      /\ UNCHANGED <<client_fd, has_work, lock, asleep, running, signals, active_workers>>
      /\ UNCHANGED <<main, client, next, backlog, program, kernel, used>>
      /\ UNCHANGED <<conn, req, sent, cstate>>
  BY DEF SendData, Goto, keep, mainVars, gpuVars
<1>3. /\ pc' \in PcType /\ pc'[w] = "close" /\ WorkerInv'
      /\ \A v \in Workers : v # w => pc'[v] = pc[v]
  BY <1>2, ServingMoves DEF Serving
<1>4. /\ c \in Clients /\ c # None /\ conn[c] = "open" /\ client # c
      /\ \A v \in Workers : v # w => client_fd[v] # c
  BY <1>2, ServingOwns DEF Serving
<1>5. /\ reply' \in [Clients -> {"none", "ok", "failed", "data"}] /\ reply'[c] = whole
      /\ \A d \in Clients : d # c => reply'[d] = reply[d]
  BY <1>1, <1>4 DEF Inv, TypeOK
<1>6. reply[c] = "ok" /\ req[c].valid /\ req[c].raw
  BY <1>2, <1>4 DEF Inv, ReplyInv, RequestInv, Peer
<1>7. TypeOK'
  BY <1>2, <1>3, <1>5 DEF Inv, TypeOK, PcType
<1>8. RequestInv'
  BY <1>2, <1>3 DEF Inv, RequestInv
<1>9. ReplyInv'
  <2>0. client_fd \in [Workers -> Clients \cup {None}] /\ client \in Clients \cup {None}
    BY DEF Inv, TypeOK
  <2>1. ASSUME NEW d \in Clients PROVE ReplyInv!1!(d)'
    <3>1. CASE d = c
      BY <1>2, <1>4, <1>5, <1>6, <3>1 DEF Inv, ReplyInv
    <3>2. CASE d # c
      BY <1>2, <1>5, <3>2 DEF Inv, ReplyInv
    <3> QED BY <3>1, <3>2
  <2>2. client' # None => reply'[client'] = "none"
    BY <1>2, <1>4, <1>5, <2>0 DEF Inv, ReplyInv
  <2>3. ASSUME NEW v \in Workers, client_fd[v] # None PROVE ReplyInv!3!(v)!2'
    <3>1. CASE v = w
      BY <1>2, <1>3, <3>1
    <3>2. CASE v # w
      <4>1. ReplyInv!3!(v)!2 /\ client_fd[v] \in Clients
        BY <2>0, <2>3 DEF Inv, ReplyInv
      <4> QED BY <1>2, <1>3, <1>4, <1>5, <2>3, <3>2, <4>1
    <3> QED BY <3>1, <3>2
  <2> QED BY <1>2, <2>1, <2>2, <2>3 DEF ReplyInv
<1>10. SuccessMeansDone'
  <2>1. cstate[c] = "done" => reply[c] = "data"
    BY <1>4, <1>6 DEF Inv, SuccessMeansDone
  <2> QED BY <1>2, <1>5, <1>6, <2>1 DEF Inv, SuccessMeansDone
<1> QED BY <1>2, <1>3, <1>7, <1>8, <1>9, <1>10, Frames DEF Inv

\* The process is killed: nobody owns anything.
LEMMA SigpipeStep ==
    ASSUME Inv, Alive, NEW w \in Workers, Sigpipe(w)
    PROVE  Inv'
<1>1. /\ main' = "killed" /\ backlog' = None
      /\ conn' = [c \in Clients |-> IF c \in {d \in Clients : conn[d] # "none"} THEN "closed"
                                    ELSE conn[c]]
      /\ UNCHANGED <<running, signals, active_workers, client, next>>
      /\ UNCHANGED <<pc, client_fd, has_work, lock, asleep, program, kernel, used>>
      /\ UNCHANGED <<req, sent, reply, cstate>>
  BY DEF Sigpipe, Closed, workVars, gpuVars
<1>2. /\ conn' \in [Clients -> {"none", "backlog", "open", "closed"}]
      /\ \A c \in Clients : conn'[c] \in {"none", "closed"} /\ (conn[c] = "none" => conn'[c] = "none")
  BY <1>1 DEF Inv, TypeOK
<1>3. TypeOK'
  BY <1>1, <1>2 DEF Inv, TypeOK
<1>4. OneOwner' /\ MainInv' /\ BacklogInv' /\ StoppedMeansClosed'
  BY <1>1, <1>2 DEF OneOwner, MainInv, BacklogInv, StoppedMeansClosed, Alive, Listening
<1>5. WorkerInv'
  BY <1>1 DEF Inv, WorkerInv
<1>6. ReplyInv'
  BY <1>1, <1>2 DEF Inv, ReplyInv
<1> QED BY <1>1, <1>3, <1>4, <1>5, <1>6, Frames DEF Inv

\* The worker closes its connection.
LEMMA CloseClientStep ==
    ASSUME Inv, Alive, NEW w \in Workers, CloseClient(w)
    PROVE  Inv'
<1> DEFINE c == Peer(w)
<1>1. /\ pc[w] = "close" /\ pc' = [pc EXCEPT ![w] = "top"]
      /\ conn' = [d \in Clients |-> IF d \in {c} THEN "closed" ELSE conn[d]]
      /\ client_fd' = [client_fd EXCEPT ![w] = None]
      /\ has_work' = [has_work EXCEPT ![w] = FALSE] /\ lock' = [lock EXCEPT ![w] = FALSE]
      /\ used' = [used EXCEPT ![w] = None]
      /\ UNCHANGED <<asleep, running, signals, active_workers, main, client, next, backlog>>
      /\ UNCHANGED <<program, kernel, req, sent, reply, cstate>>
  BY DEF CloseClient, Closed, Goto, mainVars
<1>2. /\ pc' \in PcType /\ pc'[w] = "top"
      /\ \A v \in Workers : v # w => pc'[v] = pc[v]
  BY <1>1, Moves
<1>3. /\ c \in Clients /\ c # None /\ conn[c] = "open" /\ client # c
      /\ \A v \in Workers : v # w => client_fd[v] # c
  BY <1>1, ServingOwns DEF Serving
<1>4. /\ conn' \in [Clients -> {"none", "backlog", "open", "closed"}]
      /\ conn'[c] = "closed" /\ \A d \in Clients : d # c => conn'[d] = conn[d]
  BY <1>1, <1>3 DEF Inv, TypeOK
<1>5. /\ client_fd' \in [Workers -> Clients \cup {None}] /\ client_fd'[w] = None
      /\ used' \in [Workers -> {None, "small", "large", "failed"}] /\ used'[w] = None
      /\ \A v \in Workers : v # w => client_fd'[v] = client_fd[v] /\ used'[v] = used[v]
  BY <1>1 DEF Inv, TypeOK
<1>6. /\ has_work' \in [Workers -> BOOLEAN] /\ has_work'[w] = FALSE
      /\ lock' \in [Workers -> BOOLEAN] /\ lock'[w] = FALSE
      /\ \A v \in Workers : v # w => has_work'[v] = has_work[v] /\ lock'[v] = lock[v]
  BY <1>1 DEF Inv, TypeOK
<1>7. TypeOK'
  BY <1>1, <1>2, <1>4, <1>5, <1>6 DEF Inv, TypeOK, PcType
<1>8. OneOwner'
  <2>1. \A d \in Clients : conn'[d] = "open" <=> conn[d] = "open" /\ d # c
    BY <1>3, <1>4
  <2>2. (Owned \ {None})' = (Owned \ {None}) \ {c}
    BY <1>1, <1>3, <1>5, SMTT(60) DEF Owned, Peer
  <2>3. {d \in Clients : conn[d] = "open"} = Owned \ {None}
    BY DEF Inv, OneOwner
  <2>4. {d \in Clients : conn'[d] = "open"} = (Owned \ {None})'
    BY <2>1, <2>2, <2>3
  <2> QED BY <1>1, <1>5, <2>4, SMTT(60) DEF Inv, OneOwner, Alive
<1>9. BacklogInv'
  <2>1. Listening => \A i \in DOMAIN backlog : backlog[i] \in Clients /\ backlog[i] # c
    <3> SUFFICES ASSUME Listening PROVE \A i \in DOMAIN backlog : backlog[i] \in Clients /\ backlog[i] # c
      OBVIOUS
    <3>1. backlog \in Seq(Clients)
      BY DEF Inv, MainInv
    <3>2. \A i \in DOMAIN backlog : conn[backlog[i]] = "backlog"
      BY DEF Inv, BacklogInv
    <3> QED BY <1>3, <3>1, <3>2
  <2>2. BacklogInv
    BY DEF Inv
  <2>3. CASE Listening
    <3>1. Listening' /\ backlog' = backlog
      BY <1>1, <2>3 DEF Listening
    <3>2. \A d \in Clients : conn'[d] = "backlog" => conn[d] = "backlog"
      BY <1>4
    <3>3. \A i \in DOMAIN backlog : conn'[backlog[i]] = "backlog"
      <4>1. \A i \in DOMAIN backlog : conn[backlog[i]] = "backlog"
        BY <2>2, <2>3 DEF BacklogInv
      <4> QED BY <1>4, <2>1, <2>3, <4>1
    <3>4. \A i, j \in DOMAIN backlog : backlog[i] = backlog[j] => i = j
      BY <2>2, <2>3 DEF BacklogInv
    <3>5. \A d \in Clients : conn'[d] = "backlog" => \E i \in DOMAIN backlog : backlog[i] = d
      BY <2>2, <2>3, <3>2 DEF BacklogInv
    <3> QED BY <3>1, <3>3, <3>4, <3>5 DEF BacklogInv
  <2>4. CASE ~Listening
    BY <1>1, <1>4, <2>2, <2>4 DEF BacklogInv, Listening
  <2> QED BY <2>3, <2>4
<1>10. WorkerInv'
  <2>1. w \notin asleep /\ main # "init" /\ ~(w >= active_workers)
    BY <1>1 DEF Inv, WorkerInv
  <2>2. ASSUME NEW v \in Workers PROVE WorkerInv!(v)'
    <3>1. CASE v = w
      BY <1>1, <1>2, <1>5, <1>6, <2>1, <3>1 DEF Serving
    <3>2. CASE v # w
      <4>1. WorkerInv!(v)
        BY DEF Inv, WorkerInv
      <4> QED BY <1>1, <1>2, <1>5, <1>6, <3>2, <4>1
    <3> QED BY <3>1, <3>2
  <2> QED BY <2>2 DEF WorkerInv
<1>11. RequestInv'
  BY <1>1, <1>2, <1>5, DaemonAssumption DEF Inv, RequestInv
<1>12. ReplyInv'
  <2>1. ReplyInv
    BY DEF Inv
  <2>2. \A d \in Clients : ReplyInv!1!(d)'
    BY <1>1, <1>3, <1>4, <2>1 DEF ReplyInv
  <2>3. ReplyInv!2'
    BY <1>1, <2>1 DEF ReplyInv
  <2>4. \A v \in Workers : ReplyInv!3!(v)'
    BY <1>1, <1>2, <1>5, <2>1, SMTT(60) DEF ReplyInv
  <2> QED BY <2>2, <2>3, <2>4 DEF ReplyInv
<1>13. StoppedMeansClosed'
  BY <1>1 DEF StoppedMeansClosed, Alive
<1> QED BY <1>1, <1>7, <1>8, <1>9, <1>10, <1>11, <1>12, <1>13, Frames DEF Inv

-----------------------------------------------------------------------------
(* The theorem                                                             *)

\* Every step keeps the invariant.
LEMMA NextInv == Inv /\ [Next]_vars => Inv'
<1> SUFFICES ASSUME Inv, [Next]_vars PROVE Inv'
  OBVIOUS
<1>1. CASE Alive /\ (Main \/ Signal)
  BY <1>1, StartStep, TestRunningStep, CallAcceptStep, AcceptStep, TryWorkerStep, RetryStep,
     WakeWorkerStep, JoinWorkerStep, SignalStep DEF Main
<1>2. ASSUME Alive, NEW w \in Workers, Worker(w) PROVE Inv'
  BY <1>2, TopStep, LockStep, ReadStep, ReadPayloadStep, ProcessRequestStep, ReplyStep,
     SendDataStep, SigpipeStep, CloseClientStep DEF Worker
<1>3. ASSUME NEW c \in Clients, Client(c) \/ Leave(c) PROVE Inv'
  BY <1>3, ConnectStep, SendStep, ReceiveStep, LeaveStep DEF Client
<1>4. CASE UNCHANGED vars
  <2> USE <1>4 DEF vars, mainVars, clientVars
  <2>1. TypeOK'
    BY DEF Inv, TypeOK, workVars, gpuVars
  <2>2. ReplyInv' /\ SuccessMeansDone'
    BY DEF Inv, ReplyInv, SuccessMeansDone, workVars
  <2>3. UNCHANGED cRest /\ UNCHANGED <<backlog, conn>>
    BY DEF cRest
  <2> QED BY <2>1, <2>2, <2>3, ClientFrame DEF Inv
<1> QED BY <1>1, <1>2, <1>3, <1>4 DEF Next, Terminated

\* What the invariant says of a worker gives what the properties say of it.
LEMMA InvServes == Inv => ServiceRight
<1> SUFFICES ASSUME Inv PROVE ServiceRight
  OBVIOUS
<1>1. NoWorkMissed
  BY DEF Inv, WorkerInv, NoWorkMissed, Serving
<1>2. KernelFitsBlock
  BY DEF Inv, RequestInv, KernelFitsBlock
<1> QED BY <1>1, <1>2 DEF Inv, ServiceRight, ConnectionsOwned, AnswersRight

\* For any number of workers and clients and any requests, in every state of the daemon:
\* an accepted connection has exactly one owner until it is closed, no worker sleeps on a
\* connection it was given, a daemon that has stopped has closed them all, a kernel is used
\* only for the block size it was built for, and a client that reports success got the whole
\* answer to a valid request (run_daemon, worker_thread, process_request, cleanup_resources).
THEOREM DaemonServes == Spec => []ServiceRight
<1>1. Init => Inv
  BY InitInv
<1>2. Inv /\ [Next]_vars => Inv'
  BY NextInv
<1>3. Inv => ServiceRight
  BY InvServes
<1> QED BY <1>1, <1>2, <1>3, PTL DEF Spec
===============================================================================
