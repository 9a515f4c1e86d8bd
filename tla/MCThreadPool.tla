---------------------------- MODULE MCThreadPool ----------------------------
(***************************************************************************)
(* The two thread pools: that of POSIX (ThreadPoolUse) and that of Windows *)
(* (WinThreadPool).  `part' says which of them a behaviour is of; the      *)
(* other stays as it is.                                                   *)
(***************************************************************************)
EXTENDS ThreadPoolUse

CONSTANTS Parts, w1, w2, c1, c2, j1, j2, j3, j4

VARIABLES part,
    port, nbPendingJobs, jobSlotAvail, allJobsCompleted, wPc, wJob, wCall, wArg,    \* WinThreadPool
    wOwner, nulls, wRequested, posted, wFinished, fresh

-----------------------------------------------------------------------------
(* Two clients, and a chain of jobs in which the first submits the second  *)
(* from inside the pool.                                                   *)

TwoClientCallers == {c1, c2, w1, w2}
ChainSpawns == [j \in Jobs |-> IF j = j1 THEN j2 ELSE NoJob]

(* On Windows one client, as in lz4io.c.                                   *)

WindowsJobs == {j1, j2, j3}
WindowsSpawns == [j \in WindowsJobs |-> IF j = j1 THEN j2 ELSE NoJob]

W == INSTANCE WinThreadPool WITH Clients <- {c1}, Jobs <- WindowsJobs, Spawns <- WindowsSpawns,
        MAXIMUM_WAIT_OBJECTS <- 2, pc <- wPc, job <- wJob, call <- wCall, arg <- wArg, owner <- wOwner,
        requested <- wRequested, finished <- wFinished

ASSUME W!WinAssumption

-----------------------------------------------------------------------------
windows == <<port, nbPendingJobs, jobSlotAvail, allJobsCompleted, wPc, wJob, wCall, wArg, wOwner, nulls,
             wRequested, posted, wFinished, fresh>>
all == <<part, vars, windows>>

NoWindows == /\ port = 0 /\ nbPendingJobs = 0 /\ jobSlotAvail = 0 /\ allJobsCompleted = 0 /\ wPc = 0
             /\ wJob = 0 /\ wCall = 0 /\ wArg = 0 /\ wOwner = 0 /\ nulls = 0 /\ wRequested = 0
             /\ posted = 0 /\ wFinished = 0 /\ fresh = 0

InitAll == part \in Parts /\ Init /\ IF part = "posix" THEN NoWindows ELSE W!Init

Posix(A) == part = "posix" /\ A /\ UNCHANGED <<part, windows>>
Windows(A) == part = "windows" /\ A /\ UNCHANGED <<part, vars>>

NextAll == Posix(Next) \/ Windows(W!Next)

SpecAll == InitAll /\ [][NextAll]_all

\* The fairness of each pool, in its part.
FairSpecAll ==
    /\ SpecAll
    /\ WF_all(Posix(Create /\ UNCHANGED useVars))
    /\ \A w \in Workers : WF_all(Posix(Worker(w)))
    /\ \A t \in Callers : WF_all(Posix(Submit(t) \/ Completed(t)))
    /\ \A w \in Workers : WF_all(Posix(\E j \in Jobs : CallSubmit(w, j)))
    /\ WF_all(Posix(Shutdown /\ UNCHANGED useVars))
    /\ \A w \in Workers : WF_all(Windows(W!WorkerStep(w)))
    /\ \A t \in {c1, w1, w2} : SF_all(Windows(W!TakeSlot(t))) /\ WF_all(Windows(W!SubmitStep(t)))
    /\ WF_all(Windows(W!Completed(c1)))
    /\ \A w \in Workers : WF_all(Windows(\E j \in WindowsJobs : W!CallSubmit(w, j)))

-----------------------------------------------------------------------------
\* The Windows pool's count, port and semaphore agree, and TPool_free leaves no worker
\* behind: JobsAndSlots and FreedMeansStopped of WinThreadPool.
WindowsPoolSound == part = "windows" => W!JobsAndSlots /\ W!FreedMeansStopped

\* "Blocks until all queued jobs are completed." (threadpool.h, TPool_jobsCompleted), on
\* Windows: CompletionIsQuiescent of WinThreadPool.
WindowsCompletionIsQuiescent == [][part = "windows" => W!CompletionIsQuiescent]_all

WaitsForFresh == IF part = "windows" THEN wCall[c1] = "completed" /\ c1 \in fresh ELSE FALSE
Returned == IF part = "windows" THEN wCall[c1] = "none" ELSE FALSE

\* On Windows TPool_jobsCompleted returns to a client that has submitted a job since it
\* last returned.
FreshCompletionReturns == WaitsForFresh ~> Returned
=============================================================================
