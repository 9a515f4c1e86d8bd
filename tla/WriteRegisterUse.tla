--------------------------- MODULE WriteRegisterUse ---------------------------
(* The write register fed by compression jobs that complete in any order,  *)
(* each block number once (LZ4IO_compressChunk submits one write job).     *)
EXTENDS WriteRegister

VARIABLE arrived        \* ranks whose write job has been started

useVars == <<wrVars, arrived>>

UseInit == WR_init /\ arrived = {}

Arrive(rank) ==
    /\ rank \notin arrived
    /\ checkWriteOrder(rank)
    /\ arrived' = arrived \cup {rank}

Drain == (DrainBlock \/ DrainEnds) /\ UNCHANGED arrived

UseNext == (\E rank \in Ranks : Arrive(rank)) \/ Drain

UseSpec == UseInit /\ [][UseNext]_useVars

UseTypeOK == RegisterTypeOK /\ arrived \subseteq Ranks

\* The output file holds blocks 0, 1, 2, ... without gap or repetition,
\* whatever the order in which LZ4IO_checkWriteOrder receives them.
WrittenInOrder ==
    /\ Len(out) = expectedRank
    /\ \A i \in 1..Len(out) : out[i] = i - 1

\* No block is lost or kept twice: an arrived block is either written or held
\* in one descriptor, and the free descriptors are all at the end, where the
\* scans of WR_isPresent, WR_getBufID and WR_removeBuffID expect them.
NothingLost ==
    /\ arrived = (0..(expectedRank - 1)) \cup Stored
    /\ \A n \in Stored : n >= expectedRank
    /\ \A m, n \in 1..Len(buffers) :
          /\ buffers[m] = buffers[n] /\ buffers[m] # NULL => m = n
          /\ m < n /\ buffers[n] # NULL => buffers[m] # NULL

\* When the writer is between jobs, the block it expects has not arrived: a
\* stored block is never left behind once its predecessor has been written,
\* so after the last arrival the whole file is written.
NothingStranded == ~draining => expectedRank \notin arrived
=============================================================================
