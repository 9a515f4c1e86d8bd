---------------------------- MODULE WriteRegister ----------------------------
(***************************************************************************)
(* The write register of programs/lz4io.c (WR_* and LZ4IO_checkWriteOrder):*)
(* compressed blocks arrive at the writer thread in any order; a block     *)
(* that is not the next one expected is stored, and an arrival that closes *)
(* the gap releases the stored blocks that follow it.                      *)
(*                                                                         *)
(* Only the single thread of wPool runs LZ4IO_checkWriteOrder, so the      *)
(* iterations of its `while' loop are the actions between two arrivals.    *)
(***************************************************************************)
EXTENDS Integers, Sequences

CONSTANTS
    Ranks,              \* block numbers, 0 .. n-1 or all of Nat
    WR_INITIAL_BUFFER_POOL_SIZE,
    NULL

ASSUME RegisterAssumption ==
    /\ WR_INITIAL_BUFFER_POOL_SIZE \in Nat \ {0}
    /\ Ranks \subseteq Nat
    /\ NULL \notin Nat

VARIABLES
    expectedRank,
    buffers,    \* the capacity descriptors: a rank, or NULL when buf == NULL
    out,        \* ranks written to the output file, in order
    draining    \* the writer is in the `while (WR_isPresent(...))' loop

wrVars == <<expectedRank, buffers, out, draining>>

RegisterTypeOK ==
    /\ expectedRank \in Nat
    /\ buffers \in Seq(Ranks \cup {NULL}) /\ buffers # <<>>
    /\ out \in Seq(Nat)
    /\ draining \in BOOLEAN

Nulls(n) == [i \in 1..n |-> NULL]

WR_init ==
    /\ expectedRank = 0
    /\ buffers = Nulls(WR_INITIAL_BUFFER_POOL_SIZE)
    /\ out = <<>>
    /\ draining = FALSE

AddedCapacity(capacity) == IF capacity < 256 THEN capacity ELSE 256

\* buffers after WR_addBufDesc: in the first free descriptor, after the array
\* has been extended when its last descriptor is taken.
WR_addBufDesc(rank) ==
    LET capacity == Len(buffers)
        free == {n \in 1..capacity : buffers[n] = NULL}
    IN  IF buffers[capacity] # NULL
        THEN [n \in 1..(capacity + AddedCapacity(capacity)) |->
                IF n <= capacity THEN buffers[n]
                ELSE IF n = capacity + 1 THEN rank ELSE NULL]
        ELSE [buffers EXCEPT ![CHOOSE n \in free : \A m \in free : n <= m] = rank]

\* The scans of WR_isPresent, WR_getBufID and WR_removeBuffID stop at the
\* first free descriptor.
WR_find(rank) ==
    {n \in 1..Len(buffers) : /\ buffers[n] = rank
                             /\ \A m \in 1..n : buffers[m] # NULL}
WR_isPresent(rank) == WR_find(rank) # {}

\* buffers after WR_removeBuffID: the descriptors behind it move down.
WR_removeBuffID(rank) ==
    LET at == CHOOSE n \in WR_find(rank) : TRUE
    IN  [n \in 1..Len(buffers) |->
            IF n < at THEN buffers[n]
            ELSE IF n < Len(buffers) THEN buffers[n + 1] ELSE NULL]

\* LZ4IO_checkWriteOrder, the block being too early.
StoreBlock(rank) ==
    /\ ~draining /\ rank # expectedRank
    /\ buffers' = WR_addBufDesc(rank)
    /\ UNCHANGED <<expectedRank, out, draining>>

\* Mutant: blocks are written as they come.
WriteBlockAnyRank(rank) ==
    /\ ~draining
    /\ out' = Append(out, rank)
    /\ expectedRank' = expectedRank + 1
    /\ draining' = TRUE
    /\ UNCHANGED buffers

\* LZ4IO_checkWriteOrder, the block being the expected one, up to the loop.
WriteBlock(rank) ==
    /\ ~draining /\ rank = expectedRank
    /\ out' = Append(out, rank)
    /\ expectedRank' = expectedRank + 1
    /\ draining' = TRUE
    /\ UNCHANGED buffers

checkWriteOrder(rank) == StoreBlock(rank) \/ WriteBlock(rank)

\* One iteration of the loop.
DrainBlock ==
    /\ draining /\ WR_isPresent(expectedRank)
    /\ out' = Append(out, expectedRank)
    /\ buffers' = WR_removeBuffID(expectedRank)
    /\ expectedRank' = expectedRank + 1
    /\ UNCHANGED draining

\* The loop ends and the write job returns.
DrainEnds ==
    /\ draining /\ ~WR_isPresent(expectedRank)
    /\ draining' = FALSE
    /\ UNCHANGED <<expectedRank, buffers, out>>

Stored == {buffers[n] : n \in 1..Len(buffers)} \ {NULL}
=============================================================================
