----------------------------- MODULE ThreadPoolUse -----------------------------
(***************************************************************************)
(* One pool of programs/threadpool.c in the hands of its most general      *)
(* user: client threads that submit jobs and wait for completion in any    *)
(* order, jobs that submit further jobs to the pool they run in (as        *)
(* LZ4IO_readAndProcess does), and an owner that creates and frees it.     *)
(***************************************************************************)
EXTENDS ThreadPool, Functions

CONSTANTS
    Clients,    \* threads outside the pool
    Spawns      \* the job a job submits while it runs, or NoJob

ASSUME UseAssumption ==
    /\ Callers = Clients \cup Workers
    /\ Clients \cap Workers = {}
    /\ Spawns \in [Jobs -> Jobs \cup {NoJob}]

VARIABLES
    call,       \* the pool function each thread is inside
    arg,        \* the job it submits
    requested,  \* jobs some submitJob was called with
    accepted,   \* jobs that were queued, in order
    finished    \* jobs whose job_function returned

useVars == <<call, arg, requested, accepted, finished>>
vars == <<poolVars, useVars>>

UseTypeOK ==
    /\ TypeOK
    /\ call \in [Callers -> {"none", "submit", "completed"}]
    /\ arg \in [Callers -> Jobs \cup {NoJob}]
    /\ requested \subseteq Jobs
    /\ accepted \in Seq(requested)
    /\ finished \subseteq requested

Init ==
    /\ PoolInit
    /\ call = [t \in Callers |-> "none"]
    /\ arg = [t \in Callers |-> NoJob]
    /\ requested = {} /\ accepted = <<>> /\ finished = {}

-----------------------------------------------------------------------------
\* A client may call while the pool is open; a worker calls from its job.
Roots == {j \in Jobs : \A k \in Jobs : Spawns[k] # j}
MaySubmit(t, j) ==
    \/ t \in Clients /\ owner = "ready" /\ j \in Roots
    \/ t \in Workers /\ pc[t] = "run" /\ Spawns[job[t]] = j

CallSubmit(t, j) ==
    /\ call[t] = "none" /\ j \notin requested /\ MaySubmit(t, j)
    /\ call' = [call EXCEPT ![t] = "submit"]
    /\ arg' = [arg EXCEPT ![t] = j]
    /\ requested' = requested \cup {j}
    /\ UNCHANGED <<poolVars, accepted, finished>>

CallCompleted(t) ==
    /\ t \in Clients /\ owner = "ready" /\ call[t] = "none"
    /\ call' = [call EXCEPT ![t] = "completed"]
    /\ UNCHANGED <<poolVars, arg, requested, accepted, finished>>

Inside(t, f) == call[t] = f /\ t \notin pushWaiters

Return(t) ==
    /\ call' = [call EXCEPT ![t] = "none"]
    /\ arg' = [arg EXCEPT ![t] = NoJob]

Submit(t) ==
    /\ Inside(t, "submit")
    /\ \/ SubmitBlocks(t) /\ UNCHANGED useVars
       \/ /\ SubmitEnqueues(arg[t]) /\ Return(t)
          /\ accepted' = Append(accepted, arg[t])
          /\ UNCHANGED <<requested, finished>>
       \/ SubmitDrops /\ Return(t) /\ UNCHANGED <<requested, accepted, finished>>

Completed(t) ==
    /\ Inside(t, "completed")
    /\ \/ CompletedBlocks(t) /\ UNCHANGED useVars
       \/ CompletedReturns /\ Return(t) /\ UNCHANGED <<requested, accepted, finished>>

\* The owner is one of the clients; TPool_free destroys the context, so it is
\* called when no other thread outside the pool is inside a call.
Free ==
    /\ \A c \in Clients : call[c] = "none"
    /\ FreeCalled
    /\ UNCHANGED useVars

\* The job returns once it has submitted its successor.
Finish(w) ==
    /\ pc[w] = "run" /\ call[w] = "none"
    /\ Spawns[job[w]] \in requested \cup {NoJob}
    /\ WorkerFinishes(w)
    /\ finished' = finished \cup {job[w]}
    /\ UNCHANGED <<call, arg, requested, accepted>>

Create == \/ \E w \in Workers : CreateThread(w)
          \/ CreateReturns
          \/ CreateFails

Worker(w) == \/ (WorkerWaits(w) \/ WorkerExits(w) \/ WorkerPops(w)) /\ UNCHANGED useVars
             \/ Finish(w)

Shutdown == ShutdownSet \/ ShutdownBroadcasts \/ ShutdownJoins

Next ==
    \/ Create /\ UNCHANGED useVars
    \/ \E w \in Workers : Worker(w)
    \/ \E t \in Callers : Submit(t) \/ Completed(t) \/ CallCompleted(t)
    \/ \E t \in Callers, j \in Jobs : CallSubmit(t, j)
    \/ Free
    \/ Shutdown /\ UNCHANGED useVars
    \/ SpuriousWakeup /\ UNCHANGED useVars

Spec == Init /\ [][Next]_vars

\* Every thread that can run eventually does: the mutex is held only for the
\* length of an action, and a worker's job always submits its successor.
\* Nothing makes a client call, and nothing makes a wait end spuriously.
Fairness ==
    /\ WF_vars(Create /\ UNCHANGED useVars)
    /\ \A w \in Workers : WF_vars(Worker(w))
    /\ \A t \in Callers : WF_vars(Submit(t) \/ Completed(t))
    /\ \A w \in Workers : WF_vars(\E j \in Jobs : CallSubmit(w, j))
    /\ WF_vars(Shutdown /\ UNCHANGED useVars)

FairSpec == Spec /\ Fairness

-----------------------------------------------------------------------------
(* Safety                                                                  *)

Started == SubSeq(accepted, 1, Len(accepted) - QueueLen)

\* The circular buffer is a FIFO of the accepted jobs: what it holds between
\* queueHead and queueTail is exactly the jobs not yet popped, oldest first,
\* and the queueEmpty flag agrees (TPool_thread's pop, submitJob_internal).
QueueIsFifo ==
    /\ QueueLen <= Len(accepted)
    /\ PendingJobs = SubSeq(accepted, Len(accepted) - QueueLen + 1, Len(accepted))
    /\ queueEmpty <=> QueueLen = 0

\* Each accepted job runs on one worker at a time and exactly once: a popped
\* job is either running on a single worker or finished, never both.
ExactlyOnce ==
    /\ Range(Started) = {job[w] : w \in Busy} \cup finished
    /\ \A w \in Busy : job[w] \notin finished
    /\ \A v, w \in Busy : job[v] = job[w] => v = w
    /\ numThreadsBusy = Cardinality(Busy)

\* No worker sleeps through a job: while some worker is asleep on queuePopCond
\* there are at least as many workers on their way to the queue as jobs in it,
\* so the single pthread_cond_signal per submission is enough.
NoSleeperMissesAJob ==
    popWaiters # {} => QueueLen <= Cardinality(Idle)

\* TPool_free returns only when the pool is quiet: every started thread has
\* exited, and every job that was accepted has run (the drain that the comment
\* in TPool_thread's shutdown branch argues for).
FreedMeansDrained ==
    owner = "freed" =>
        /\ \A w \in Workers : pc[w] \in {"none", "exited"}
        /\ \A t \in Callers : call[t] = "none"
        /\ Range(accepted) = finished

\* Every accepted job is run exactly once: it waits in the ring in order of submission,
\* is popped by one worker, and has finished when TPool_free destroys the pool.
JobsRunOnce == QueueIsFifo /\ ExactlyOnce /\ FreedMeansDrained

\* TPool_jobsCompleted returns only in a state where all the jobs accepted so
\* far have finished, including those that jobs submitted themselves.
CompletionIsQuiescent ==
    \A c \in Clients : call[c] = "completed" /\ call'[c] = "none" => Range(accepted) = finished

\* TPool_submitJob's jobs run once each, and TPool_jobsCompleted returns when they all
\* have.
JobsComplete == [][JobsRunOnce' /\ CompletionIsQuiescent]_vars

\* The pool is what threadpool.h promises: with the circular buffer read as a
\* FIFO and the workers' local jobs as the active ones, every step is a
\* submission, the start of the oldest job, the end of one, or invisible.
Promise == INSTANCE JobPool WITH pending <- PendingJobs, active <- job
ImplementsJobPool == Promise!Spec

-----------------------------------------------------------------------------
(* Liveness                                                                *)

\* A completer and another thread asleep on queuePushCond together: the one
\* pthread_cond_signal per popped job, or at the end of the last, may wake the
\* wrong one of them, and the other then sleeps on.
MixedSleepers == \E s, t \in pushWaiters : s # t /\ call[t] = "completed"

\* Every accepted job is eventually run to completion, including one that submits
\* another to the pool it runs in, in a use of the pool in which nobody else sleeps
\* on queuePushCond beside a caller of TPool_jobsCompleted.
AcceptedJobsFinish ==
    []~MixedSleepers => \A j \in Jobs : j \in Range(accepted) ~> j \in finished

\* In the same uses, a thread that calls TPool_submitJob or TPool_jobsCompleted
\* returns.
CallsReturn ==
    []~MixedSleepers => \A t \in Callers : call[t] # "none" ~> call[t] = "none"

\* TPool_free, once called (by the owner or by a failing TPool_create), ends.
FreeReturns == owner = "free" ~> owner = "freed"

\* Together: nothing waits for ever in the pool or for it.
PoolProgresses == AcceptedJobsFinish /\ CallsReturn /\ FreeReturns
=============================================================================
