------------------------------- MODULE JobPool -------------------------------
(***************************************************************************)
(* What programs/threadpool.h promises of a pool: jobs wait in a FIFO of   *)
(* at most QueueSize, a worker runs one job at a time and runs it once,    *)
(* TPool_submitJob blocks while the FIFO is full (here: its action is not  *)
(* enabled) and TPool_jobsCompleted blocks until no job waits or runs.     *)
(*                                                                         *)
(* ThreadPoolUse implements this module; the compression and decompression *)
(* pipelines of lz4io.c are composed from it.                              *)
(***************************************************************************)
EXTENDS Integers, Sequences

CONSTANTS Workers, Jobs, QueueSize, NoJob

VARIABLES
    pending,    \* jobs submitted and not started, oldest first
    active      \* the job each worker runs, or NoJob

poolVars == <<pending, active>>

TypeOK ==
    /\ pending \in Seq(Jobs)
    /\ Len(pending) <= QueueSize
    /\ active \in [Workers -> Jobs \cup {NoJob}]

Init ==
    /\ pending = <<>>
    /\ active = [w \in Workers |-> NoJob]

\* TPool_submitJob goes through.
Submit(j) ==
    /\ Len(pending) < QueueSize
    /\ pending' = Append(pending, j)
    /\ UNCHANGED active

\* A worker takes the oldest job.
Start(w) ==
    /\ active[w] = NoJob /\ pending # <<>>
    /\ active' = [active EXCEPT ![w] = Head(pending)]
    /\ pending' = Tail(pending)

\* Its job_function returns.
Finish(w) ==
    /\ active[w] # NoJob
    /\ active' = [active EXCEPT ![w] = NoJob]
    /\ UNCHANGED pending

\* TPool_jobsCompleted may return.
AllCompleted == pending = <<>> /\ \A w \in Workers : active[w] = NoJob

Next ==
    \/ \E j \in Jobs : Submit(j)
    \/ \E w \in Workers : Start(w) \/ Finish(w)

Spec == Init /\ [][Next]_poolVars
=============================================================================
