----------------------------- MODULE WinThreadPool -----------------------------
(***************************************************************************)
(* The Windows thread pool of programs/threadpool.c: a completion port     *)
(* carries the jobs, a semaphore bounds them, an auto-reset event tells    *)
(* TPool_jobsCompleted that nbPendingJobs came down to zero.  There is no  *)
(* lock: each Win32 call is an action of its own.                          *)
(*                                                                         *)
(* Client threads use the pool created by TPool_create; jobs may submit a  *)
(* further job, as LZ4IO_readAndProcess does.                              *)
(***************************************************************************)
EXTENDS Integers, Sequences, FiniteSets, Functions

CONSTANTS
    Workers, Clients, Jobs, NoJob,
    QueueSize,              \* TPool_create's queueSize
    Spawns,                 \* the job a job submits, or NoJob
    MAXIMUM_WAIT_OBJECTS    \* what WaitForMultipleObjects accepts: 64

WinAssumption ==
    /\ IsFiniteSet(Workers) /\ Workers # {} /\ IsFiniteSet(Clients) /\ Workers \cap Clients = {}
    /\ NoJob \notin Jobs
    /\ QueueSize \in Nat \ {0}
    /\ Spawns \in [Jobs -> Jobs \cup {NoJob}]
    /\ MAXIMUM_WAIT_OBJECTS \in Nat

Threads == Clients \cup Workers
nbWorkers == Cardinality(Workers)

VARIABLES
    port,           \* completion packets: jobs, or NoJob for the NULL packet
    nbPendingJobs,
    jobSlotAvail,   \* the semaphore's count
    allJobsCompleted,   \* the event
    pc, job,        \* WorkerThread
    call, arg,      \* the pool function a thread is inside, and its job
    owner, nulls,   \* TPool_free's progress: NULL packets posted
    requested, posted, finished,    \* jobs: submission begun; in the port; returned
    fresh           \* clients that submitted since their last jobsCompleted

poolVars == <<port, nbPendingJobs, jobSlotAvail, allJobsCompleted>>
history == <<requested, posted, finished, fresh>>
vars == <<poolVars, pc, job, call, arg, owner, nulls, history>>

TypeOK ==
    /\ port \in Seq(Jobs \cup {NoJob})
    /\ nbPendingJobs \in Nat
    /\ jobSlotAvail \in 0..(QueueSize + nbWorkers)
    /\ allJobsCompleted \in BOOLEAN
    /\ pc \in [Workers -> {"get", "run", "set", "release", "exited"}]
    /\ job \in [Workers -> Jobs \cup {NoJob}]
    /\ call \in [Threads -> {"none", "slot", "reset", "increment", "post", "completed"}]
    /\ arg \in [Threads -> Jobs \cup {NoJob}]
    /\ owner \in {"ready", "free", "freed"} /\ nulls \in 0..nbWorkers
    /\ finished \subseteq posted /\ posted \subseteq requested /\ requested \subseteq Jobs
    /\ fresh \subseteq Clients

Init ==
    /\ port = <<>> /\ nbPendingJobs = 0
    /\ jobSlotAvail = QueueSize + nbWorkers
    /\ allJobsCompleted = FALSE
    /\ pc = [w \in Workers |-> "get"] /\ job = [w \in Workers |-> NoJob]
    /\ call = [t \in Threads |-> "none"] /\ arg = [t \in Threads |-> NoJob]
    /\ owner = "ready" /\ nulls = 0
    /\ requested = {} /\ posted = {} /\ finished = {} /\ fresh = {}

-----------------------------------------------------------------------------
(* WorkerThread                                                            *)

\* GetQueuedCompletionStatus; the NULL packet ends the thread.
GetPacket(w) ==
    /\ pc[w] = "get" /\ port # <<>>
    /\ port' = Tail(port)
    /\ job' = [job EXCEPT ![w] = Head(port)]
    /\ pc' = [pc EXCEPT ![w] = IF Head(port) = NoJob THEN "exited" ELSE "run"]
    /\ UNCHANGED <<nbPendingJobs, jobSlotAvail, allJobsCompleted, call, arg, owner, nulls, history>>

\* Mutant: the result of InterlockedDecrement is taken for the old value.
DecrementOld(w) ==
    /\ pc[w] = "run" /\ call[w] = "none"
    /\ Spawns[job[w]] \in requested \cup {NoJob}
    /\ nbPendingJobs' = nbPendingJobs - 1
    /\ pc' = [pc EXCEPT ![w] = IF nbPendingJobs = 0 THEN "set" ELSE "release"]
    /\ finished' = finished \cup {job[w]}
    /\ UNCHANGED <<port, jobSlotAvail, allJobsCompleted, job, call, arg, owner, nulls,
                   requested, posted, fresh>>

\* The job has returned; InterlockedDecrement.
Decrement(w) ==
    /\ pc[w] = "run" /\ call[w] = "none"
    /\ Spawns[job[w]] \in requested \cup {NoJob}
    /\ nbPendingJobs' = nbPendingJobs - 1
    /\ pc' = [pc EXCEPT ![w] = IF nbPendingJobs = 1 THEN "set" ELSE "release"]
    /\ finished' = finished \cup {job[w]}
    /\ UNCHANGED <<port, jobSlotAvail, allJobsCompleted, job, call, arg, owner, nulls,
                   requested, posted, fresh>>

Set(w) ==
    /\ pc[w] = "set"
    /\ allJobsCompleted' = TRUE
    /\ pc' = [pc EXCEPT ![w] = "release"]
    /\ UNCHANGED <<port, nbPendingJobs, jobSlotAvail, job, call, arg, owner, nulls, history>>

\* Mutant: the slot is not given back.
KeepSlot(w) ==
    /\ pc[w] = "release"
    /\ pc' = [pc EXCEPT ![w] = "get"]
    /\ job' = [job EXCEPT ![w] = NoJob]
    /\ UNCHANGED <<poolVars, call, arg, owner, nulls, history>>

Release(w) ==
    /\ pc[w] = "release"
    /\ jobSlotAvail' = jobSlotAvail + 1
    /\ pc' = [pc EXCEPT ![w] = "get"]
    /\ job' = [job EXCEPT ![w] = NoJob]
    /\ UNCHANGED <<port, nbPendingJobs, allJobsCompleted, call, arg, owner, nulls, history>>

-----------------------------------------------------------------------------
(* TPool_submitJob                                                         *)

Roots == {j \in Jobs : \A k \in Jobs : Spawns[k] # j}
MaySubmit(t, j) ==
    \/ t \in Clients /\ owner = "ready" /\ j \in Roots
    \/ t \in Workers /\ pc[t] = "run" /\ Spawns[job[t]] = j

CallSubmit(t, j) ==
    /\ call[t] = "none" /\ j \notin requested /\ MaySubmit(t, j)
    /\ call' = [call EXCEPT ![t] = "slot"] /\ arg' = [arg EXCEPT ![t] = j]
    /\ requested' = requested \cup {j} /\ fresh' = fresh \cup ({t} \cap Clients)
    /\ UNCHANGED <<poolVars, pc, job, owner, nulls, posted, finished>>

TakeSlot(t) ==
    /\ call[t] = "slot" /\ jobSlotAvail > 0
    /\ jobSlotAvail' = jobSlotAvail - 1
    /\ call' = [call EXCEPT ![t] = "reset"]
    /\ UNCHANGED <<port, nbPendingJobs, allJobsCompleted, pc, job, arg, owner, nulls, history>>

Reset(t) ==
    /\ call[t] = "reset"
    /\ allJobsCompleted' = FALSE
    /\ call' = [call EXCEPT ![t] = "increment"]
    /\ UNCHANGED <<port, nbPendingJobs, jobSlotAvail, pc, job, arg, owner, nulls, history>>

Increment(t) ==
    /\ call[t] = "increment"
    /\ nbPendingJobs' = nbPendingJobs + 1
    /\ call' = [call EXCEPT ![t] = "post"]
    /\ UNCHANGED <<port, jobSlotAvail, allJobsCompleted, pc, job, arg, owner, nulls, history>>

Post(t) ==
    /\ call[t] = "post"
    /\ port' = Append(port, arg[t]) /\ posted' = posted \cup {arg[t]}
    /\ call' = [call EXCEPT ![t] = "none"] /\ arg' = [arg EXCEPT ![t] = NoJob]
    /\ UNCHANGED <<nbPendingJobs, jobSlotAvail, allJobsCompleted, pc, job, owner, nulls,
                   requested, finished, fresh>>

(* TPool_jobsCompleted                                                     *)

CallCompleted(c) ==
    /\ call[c] = "none" /\ owner = "ready"
    /\ call' = [call EXCEPT ![c] = "completed"]
    /\ UNCHANGED <<poolVars, pc, job, arg, owner, nulls, history>>

\* The event is an auto-reset one: the wait that succeeds clears it.
Completed(c) ==
    /\ call[c] = "completed" /\ allJobsCompleted
    /\ allJobsCompleted' = FALSE
    /\ call' = [call EXCEPT ![c] = "none"]
    /\ fresh' = fresh \ {c}
    /\ UNCHANGED <<port, nbPendingJobs, jobSlotAvail, pc, job, arg, owner, nulls,
                   requested, posted, finished>>

-----------------------------------------------------------------------------
(* TPool_free, called when no client is inside a call                      *)

\* One NULL packet for each worker, one call at a time.
PostNull ==
    /\ owner \in {"ready", "free"} /\ nulls < nbWorkers
    /\ \A c \in Clients : call[c] = "none"
    /\ port' = Append(port, NoJob) /\ nulls' = nulls + 1
    /\ owner' = "free"
    /\ UNCHANGED <<nbPendingJobs, jobSlotAvail, allJobsCompleted, pc, job, call, arg, history>>

\* WaitForMultipleObjects returns WAIT_FAILED at once when it is given more
\* handles than it accepts; the result is not looked at.
WaitThreads ==
    /\ owner = "free" /\ nulls = nbWorkers
    /\ nbWorkers <= MAXIMUM_WAIT_OBJECTS => \A w \in Workers : pc[w] = "exited"
    /\ owner' = "freed"
    /\ UNCHANGED <<poolVars, nulls, pc, job, call, arg, history>>

-----------------------------------------------------------------------------
WorkerStep(w) == GetPacket(w) \/ Decrement(w) \/ Set(w) \/ Release(w)
SubmitStep(t) == TakeSlot(t) \/ Reset(t) \/ Increment(t) \/ Post(t)

Next ==
    \/ \E w \in Workers : WorkerStep(w)
    \/ \E t \in Threads : SubmitStep(t) \/ (\E j \in Jobs : CallSubmit(t, j))
    \/ \E c \in Clients : CallCompleted(c) \/ Completed(c)
    \/ PostNull \/ WaitThreads

Spec == Init /\ [][Next]_vars

\* Threads inside the pool's code keep running, a semaphore slot is granted to
\* every waiter in turn, and jobs submit their successor; no client has to call.
Fairness ==
    /\ \A w \in Workers : WF_vars(WorkerStep(w))
    /\ \A t \in Threads : SF_vars(TakeSlot(t)) /\ WF_vars(SubmitStep(t))
    /\ \A c \in Clients : WF_vars(Completed(c))
    /\ \A w \in Workers : WF_vars(\E j \in Jobs : CallSubmit(w, j))

FairSpec == Spec /\ Fairness

-----------------------------------------------------------------------------
(* Safety                                                                  *)

InPort == {port[i] : i \in 1..Len(port)} \ {NoJob}
Running == {w \in Workers : pc[w] = "run"}

Posting == {t \in Threads : call[t] = "post"}

\* Who has taken a slot: threads on their way to the port, and workers with a job.
Holders == {w \in Workers : pc[w] \in {"run", "set", "release"}}
Submitting == {t \in Threads : call[t] \in {"reset", "increment", "post"}}

\* Every job runs once: it is in the port, on one worker, or finished.
OneCopy ==
    /\ posted = InPort \cup {job[w] : w \in Running} \cup finished
    /\ InPort \cap finished = {}
    /\ \A w \in Running : job[w] \notin InPort \cup finished
    /\ \A v, w \in Running : job[v] = job[w] => v = w

\* nbPendingJobs counts it from InterlockedIncrement to InterlockedDecrement.
PendingCounted == nbPendingJobs = Cardinality(posted \ finished) + Cardinality(Posting)

\* The semaphore bounds the jobs that wait: at most QueueSize of them when all
\* workers are busy, and slots are neither lost nor created.
SlotsConserved ==
    jobSlotAvail + Cardinality(InPort) + Cardinality(Holders) + Cardinality(Submitting)
        = QueueSize + nbWorkers

\* nbPendingJobs, the completion port and the semaphore agree, although they are three
\* kernel objects changed in separate steps: no job is lost, run twice or miscounted.
JobsAndSlots == TypeOK /\ OneCopy /\ PendingCounted /\ SlotsConserved

\* "Waits for the completion of running jobs before freeing resources."
\* (threadpool.h, TPool_free).
FreedMeansStopped ==
    owner = "freed" => \A w \in Workers : pc[w] = "exited"

\* "Blocks until all queued jobs are completed." (threadpool.h,
\* TPool_jobsCompleted): at its return every job submitted before has finished.
CompletionIsQuiescent ==
    \A c \in Clients : call[c] = "completed" /\ call'[c] = "none" => posted = finished

-----------------------------------------------------------------------------
(* Liveness                                                                *)

\* TPool_jobsCompleted returns to a client that has submitted a job since it
\* last returned.
FreshCompletionReturns ==
    \A c \in Clients : call[c] = "completed" /\ c \in fresh ~> call[c] = "none"
=============================================================================
