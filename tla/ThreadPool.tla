------------------------------ MODULE ThreadPool ------------------------------
(***************************************************************************)
(* The POSIX thread pool of programs/threadpool.c: one pool, its workers,  *)
(* its circular job queue and its two condition variables.                 *)
(*                                                                         *)
(* Everything between pthread_mutex_lock and the next unlock or cond_wait  *)
(* is one action.  A condition variable is the set of threads asleep on    *)
(* it: signal removes any one of them (POSIX leaves the choice open),      *)
(* broadcast empties it, and a thread that is no longer in the set is      *)
(* awake and evaluates its `while' condition again.                        *)
(*                                                                         *)
(* The actions take the calling thread as a parameter; who calls what, and *)
(* when, is decided by the modules that use a pool.                        *)
(***************************************************************************)
EXTENDS Integers, Sequences, FiniteSets

CONSTANTS
    Workers,    \* the nbThreads threads TPool_create starts
    Callers,    \* the threads that call TPool_submitJob, TPool_jobsCompleted
    Jobs,       \* job descriptors
    QueueSize,  \* TPool_create's queueSize
    NoJob

ASSUME PoolAssumption ==
    /\ IsFiniteSet(Workers) /\ Workers # {}
    /\ QueueSize \in Nat \ {0}
    /\ NoJob \notin Jobs

VARIABLES
    queue, queueHead, queueTail, queueEmpty,    \* the circular buffer
    numThreadsBusy, threadLimit, threadCapacity, shutdown,
    pushWaiters,    \* threads asleep on queuePushCond
    popWaiters,     \* workers asleep on queuePopCond
    pc,             \* where each worker is in TPool_thread
    job,            \* the worker's local `job'
    owner           \* where the pool's owner is in TPool_create / TPool_free

queueVars == <<queue, queueHead, queueTail, queueEmpty>>
limits == <<threadLimit, threadCapacity>>
waiters == <<pushWaiters, popWaiters>>
poolVars == <<queue, queueHead, queueTail, queueEmpty, numThreadsBusy,
              threadLimit, threadCapacity, shutdown, pushWaiters, popWaiters,
              pc, job, owner>>

nbThreads == Cardinality(Workers)

\* "one space is wasted to differentiate empty and full queues"
RingSize == QueueSize + 1

TypeOK ==
    /\ queue \in [0..QueueSize -> Jobs \cup {NoJob}]
    /\ queueHead \in 0..QueueSize
    /\ queueTail \in 0..QueueSize
    /\ queueEmpty \in BOOLEAN
    /\ numThreadsBusy \in 0..nbThreads
    /\ threadLimit \in {0, nbThreads}
    /\ threadCapacity \in 0..nbThreads
    /\ shutdown \in BOOLEAN
    /\ pushWaiters \subseteq Callers
    /\ popWaiters \subseteq Workers
    /\ pc \in [Workers -> {"none", "loop", "run", "exited"}]
    /\ job \in [Workers -> Jobs \cup {NoJob}]
    /\ owner \in {"create", "ready", "free", "broadcast", "join", "freed"}

Fresh(at, limit, stage) ==
    /\ queue = [i \in 0..QueueSize |-> NoJob]
    /\ queueHead = 0 /\ queueTail = 0 /\ queueEmpty = TRUE
    /\ numThreadsBusy = 0 /\ threadLimit = limit /\ threadCapacity = limit
    /\ shutdown = FALSE
    /\ pushWaiters = {} /\ popWaiters = {}
    /\ pc = [w \in Workers |-> at]
    /\ job = [w \in Workers |-> NoJob]
    /\ owner = stage

\* The context TPool_create allocates, before it starts the first thread.
PoolInit == Fresh("none", 0, "create")

\* The pool as TPool_create returns it, no worker having run yet.
PoolCreated == Fresh("loop", nbThreads, "ready")

-----------------------------------------------------------------------------
(* TPool_create                                                            *)

\* The next pthread_create succeeds; the thread runs from then on, although
\* threadLimit is still 0.
CreateThread(w) ==
    /\ owner = "create" /\ pc[w] = "none"
    /\ pc' = [pc EXCEPT ![w] = "loop"]
    /\ UNCHANGED <<queueVars, numThreadsBusy, limits, shutdown, waiters, job,
                   owner>>

\* All threads run: the limits are set (without the mutex) and the pool returned.
CreateReturns ==
    /\ owner = "create" /\ \A w \in Workers : pc[w] # "none"
    /\ threadCapacity' = nbThreads /\ threadLimit' = nbThreads
    /\ owner' = "ready"
    /\ UNCHANGED <<queueVars, numThreadsBusy, shutdown, waiters, pc, job>>

\* A pthread_create fails: the threads started so far are to be joined.
CreateFails ==
    /\ owner = "create" /\ \E w \in Workers : pc[w] = "none"
    /\ threadCapacity' = Cardinality({w \in Workers : pc[w] # "none"})
    /\ owner' = "free"
    /\ UNCHANGED <<queueVars, numThreadsBusy, threadLimit, shutdown, waiters,
                   pc, job>>

-----------------------------------------------------------------------------
(* TPool_thread                                                            *)

\* The wait sets pthread_cond_signal may leave behind.
Signal(asleep) ==
    IF asleep = {} THEN {{}} ELSE {asleep \ {t} : t \in asleep}

\* Mutant: the queue is not looked at.
MustWaitForThread == numThreadsBusy >= threadLimit

MustWait == queueEmpty \/ numThreadsBusy >= threadLimit

Awake(w) == pc[w] = "loop" /\ w \notin popWaiters

WorkerWaits(w) ==
    /\ Awake(w) /\ MustWait /\ ~shutdown
    /\ popWaiters' = popWaiters \cup {w}
    /\ UNCHANGED <<queueVars, numThreadsBusy, limits, shutdown, pushWaiters,
                   pc, job, owner>>

\* Mutant: shutdown is tested outside the wait loop, so queued jobs are left.
WorkerExitsAtOnce(w) ==
    /\ Awake(w) /\ shutdown
    /\ pc' = [pc EXCEPT ![w] = "exited"]
    /\ UNCHANGED <<queueVars, numThreadsBusy, limits, shutdown, waiters, job,
                   owner>>

WorkerExits(w) ==
    /\ Awake(w) /\ MustWait /\ shutdown
    /\ pc' = [pc EXCEPT ![w] = "exited"]
    /\ UNCHANGED <<queueVars, numThreadsBusy, limits, shutdown, waiters, job,
                   owner>>

WorkerPops(w) ==
    /\ Awake(w) /\ ~MustWait
    /\ job' = [job EXCEPT ![w] = queue[queueHead]]
    /\ queueHead' = (queueHead + 1) % RingSize
    /\ numThreadsBusy' = numThreadsBusy + 1
    /\ queueEmpty' = (queueHead' = queueTail)
    /\ pushWaiters' \in Signal(pushWaiters)
    /\ pc' = [pc EXCEPT ![w] = "run"]
    /\ UNCHANGED <<queue, queueTail, limits, shutdown, popWaiters, owner>>

\* Mutant: no pthread_cond_signal.
WorkerFinishesSilently(w) ==
    /\ pc[w] = "run"
    /\ numThreadsBusy' = numThreadsBusy - 1
    /\ pc' = [pc EXCEPT ![w] = "loop"]
    /\ job' = [job EXCEPT ![w] = NoJob]
    /\ UNCHANGED <<queueVars, limits, shutdown, waiters, owner>>

\* job_function has returned.
WorkerFinishes(w) ==
    /\ pc[w] = "run"
    /\ numThreadsBusy' = numThreadsBusy - 1
    /\ pushWaiters' \in Signal(pushWaiters)
    /\ pc' = [pc EXCEPT ![w] = "loop"]
    /\ job' = [job EXCEPT ![w] = NoJob]
    /\ UNCHANGED <<queueVars, limits, shutdown, popWaiters, owner>>

\* POSIX lets pthread_cond_wait return without a signal.
SpuriousWakeup ==
    /\ \/ /\ \E w \in popWaiters : popWaiters' = popWaiters \ {w}
          /\ UNCHANGED pushWaiters
       \/ /\ \E t \in pushWaiters : pushWaiters' = pushWaiters \ {t}
          /\ UNCHANGED popWaiters
    /\ UNCHANGED <<queueVars, numThreadsBusy, limits, shutdown, pc, job,
                   owner>>

-----------------------------------------------------------------------------
(* TPool_submitJob, by thread t.  A call that blocks is made again when t  *)
(* has been woken.                                                         *)

\* queueSize > 1 always holds: TPool_create refuses a requested size below 1.
isQueueFull == queueHead = (queueTail + 1) % RingSize

SubmitBlocks(t) ==
    /\ isQueueFull /\ ~shutdown
    /\ pushWaiters' = pushWaiters \cup {t}
    /\ UNCHANGED <<queueVars, numThreadsBusy, limits, shutdown, popWaiters,
                   pc, job, owner>>

\* Mutant: no pthread_cond_signal.
SubmitEnqueuesSilently(j) ==
    /\ ~isQueueFull /\ ~shutdown
    /\ queueEmpty' = FALSE
    /\ queue' = [queue EXCEPT ![queueTail] = j]
    /\ queueTail' = (queueTail + 1) % RingSize
    /\ UNCHANGED <<queueHead, numThreadsBusy, limits, shutdown, waiters,
                   pc, job, owner>>

SubmitEnqueues(j) ==
    /\ ~isQueueFull /\ ~shutdown
    /\ queueEmpty' = FALSE
    /\ queue' = [queue EXCEPT ![queueTail] = j]
    /\ queueTail' = (queueTail + 1) % RingSize
    /\ popWaiters' \in Signal(popWaiters)
    /\ UNCHANGED <<queueHead, numThreadsBusy, limits, shutdown, pushWaiters,
                   pc, job, owner>>

\* TPool_submitJob_internal returns without queueing the job.
SubmitDrops ==
    /\ shutdown
    /\ UNCHANGED poolVars

(* TPool_jobsCompleted, by thread t                                        *)

JobsRemain == ~queueEmpty \/ numThreadsBusy > 0

CompletedBlocks(t) ==
    /\ JobsRemain
    /\ pushWaiters' = pushWaiters \cup {t}
    /\ UNCHANGED <<queueVars, numThreadsBusy, limits, shutdown, popWaiters,
                   pc, job, owner>>

CompletedReturns ==
    /\ ~JobsRemain
    /\ UNCHANGED poolVars

-----------------------------------------------------------------------------
(* TPool_free                                                              *)

FreeCalled ==
    /\ owner = "ready"
    /\ owner' = "free"
    /\ UNCHANGED <<queueVars, numThreadsBusy, limits, shutdown, waiters, pc,
                   job>>

ShutdownSet ==
    /\ owner = "free"
    /\ shutdown' = TRUE
    /\ owner' = "broadcast"
    /\ UNCHANGED <<queueVars, numThreadsBusy, limits, waiters, pc, job>>

\* Both broadcasts; the mutex is not held.
ShutdownBroadcasts ==
    /\ owner = "broadcast"
    /\ pushWaiters' = {} /\ popWaiters' = {}
    /\ owner' = "join"
    /\ UNCHANGED <<queueVars, numThreadsBusy, limits, shutdown, pc, job>>

\* pthread_join has returned for threads[0 .. threadCapacity-1]; the
\* context is freed.
ShutdownJoins ==
    /\ owner = "join"
    /\ Cardinality({w \in Workers : pc[w] = "exited"}) >= threadCapacity
    /\ owner' = "freed"
    /\ UNCHANGED <<queueVars, numThreadsBusy, limits, shutdown, waiters, pc,
                   job>>

-----------------------------------------------------------------------------
\* The jobs in the circular buffer, oldest first.
QueueLen == (queueTail - queueHead + RingSize) % RingSize
PendingJobs == [i \in 1..QueueLen |-> queue[(queueHead + i - 1) % RingSize]]

Busy == {w \in Workers : pc[w] = "run"}
Idle == {w \in Workers : pc[w] = "loop" /\ w \notin popWaiters}
=============================================================================
