----------------------------- MODULE SparseWrite -----------------------------
(***************************************************************************)
(* The writer of decompressed data, LZ4IO_fwriteSparse and                 *)
(* LZ4IO_fwriteSparseEnd of programs/lz4io.c: runs of zeros are not        *)
(* written but remembered in the caller's `storedSkips' and skipped over   *)
(* with fseek before the next data, across buffers.                        *)
(*                                                                         *)
(* A step is one round of the loop over segments, or the tail that is not  *)
(* a whole word.  A byte is 0 or any other value.                          *)
(***************************************************************************)
EXTENDS Integers, Sequences

CONSTANTS
    sizeT,          \* sizeof(size_t)
    segmentSizeT,   \* words in a segment, (32 KB) / sizeT
    GB,             \* what is skipped at once, 1 GB
    MaxBuffer,      \* the largest buffer a caller passes
    UnsignedMax,    \* UINT_MAX
    MaxData         \* bound on the data written, for model checking

ASSUME SparseAssumption ==
    /\ sizeT \in Nat \ {0} /\ segmentSizeT \in Nat \ {0} /\ GB \in Nat
    /\ MaxBuffer \in Nat /\ UnsignedMax \in Nat /\ MaxData \in Nat
    /\ MaxBuffer <= GB
    /\ GB + MaxBuffer <= UnsignedMax

Byte == {0, 1}

VARIABLES
    sparse,         \* sparseMode
    file, pos,      \* the output file and the position in it
    storedSkips,
    data,           \* everything the callers wanted written
    handled,        \* how much of it was dealt with
    pc
vars == <<sparse, file, pos, storedSkips, data, handled, pc>>

TypeOK ==
    /\ sparse \in BOOLEAN
    /\ file \in Seq(Byte) /\ pos \in Nat
    /\ storedSkips \in 0..UnsignedMax
    /\ data \in Seq(Byte) /\ handled \in 0..Len(data)
    /\ pc \in {"idle", "writing"}

Init ==
    /\ sparse \in BOOLEAN
    /\ file = <<>> /\ pos = 0 /\ storedSkips = 0
    /\ data = <<>> /\ handled = 0 /\ pc = "idle"

\* unsigned arithmetic
U(n) == n % (UnsignedMax + 1)

\* fwrite at `at', with the hole before it filled with zeros
WriteAt(f, at, s) ==
    [i \in 1..(at + Len(s)) |-> IF i > at THEN s[i - at] ELSE IF i <= Len(f) THEN f[i] ELSE 0]

Slice(from, to) == [i \in 1..(to - from) |-> data[from + i]]
ZeroFrom(from, to) == \A i \in (from + 1)..to : data[i] = 0

Left == Len(data) - handled

\* Mutant: the position is not moved by the skip that is subtracted.
CallForgetful(b) ==
    /\ pc = "idle" /\ Len(data) + Len(b) <= MaxData
    /\ data' = data \o b
    /\ IF ~sparse
       THEN /\ file' = WriteAt(file, pos, b) /\ pos' = pos + Len(b)
            /\ handled' = Len(data') /\ storedSkips' = 0 /\ UNCHANGED pc
       ELSE /\ IF storedSkips > GB
               THEN storedSkips' = storedSkips - GB /\ UNCHANGED pos
               ELSE UNCHANGED <<pos, storedSkips>>
            /\ pc' = "writing" /\ UNCHANGED <<file, handled>>
    /\ UNCHANGED sparse

\* A call with buffer `b': a normal write, or the first part of a sparse one.
Call(b) ==
    /\ pc = "idle" /\ Len(data) + Len(b) <= MaxData
    /\ data' = data \o b
    /\ IF ~sparse
       THEN /\ file' = WriteAt(file, pos, b) /\ pos' = pos + Len(b)
            /\ handled' = Len(data') /\ storedSkips' = 0 /\ UNCHANGED pc
       ELSE /\ IF storedSkips > GB
               THEN pos' = pos + GB /\ storedSkips' = storedSkips - GB
               ELSE UNCHANGED <<pos, storedSkips>>
            /\ pc' = "writing" /\ UNCHANGED <<file, handled>>
    /\ UNCHANGED sparse

\* `zeros' leading bytes of the next `size' are added to the skips; what follows
\* them, if anything, is written behind the skips.
SkipOrWrite(size, zeros) ==
    LET skips == U(storedSkips + zeros) IN
    /\ ZeroFrom(handled, handled + zeros)
    /\ IF zeros = size
       THEN storedSkips' = skips /\ UNCHANGED <<file, pos>>
       ELSE /\ file' = WriteAt(file, pos + skips, Slice(handled + zeros, handled + size))
            /\ pos' = pos + skips + (size - zeros)
            /\ storedSkips' = 0
    /\ handled' = handled + size

\* A segment: only whole words of zeros count.
Segment ==
    /\ pc = "writing" /\ Left >= sizeT
    /\ \E segT \in 1..segmentSizeT, nb0T \in 0..segmentSizeT :
        /\ segT * sizeT <= Left
        /\ segT < segmentSizeT => segT = Left \div sizeT
        /\ nb0T <= segT
        /\ nb0T < segT => ~ZeroFrom(handled + nb0T * sizeT, handled + (nb0T + 1) * sizeT)
        /\ SkipOrWrite(segT * sizeT, nb0T * sizeT)
    /\ UNCHANGED <<sparse, data, pc>>

\* The tail of fewer than sizeT bytes, possibly empty, ends the call.
Rest ==
    /\ pc = "writing" /\ Left < sizeT
    /\ \E zeros \in 0..Left :
        /\ zeros < Left => data[handled + zeros + 1] # 0
        /\ SkipOrWrite(Left, zeros)
    /\ pc' = "idle"
    /\ UNCHANGED <<sparse, data>>

\* Mutant: the file ends with a hole.
FlushHole ==
    /\ pc = "idle" /\ storedSkips > 0
    /\ pos' = pos + storedSkips /\ storedSkips' = 0
    /\ UNCHANGED <<sparse, file, data, handled, pc>>

\* LZ4IO_fwriteSparseEnd: the last zero is written, so that the file has its size.
\* It ends a frame; the next one starts without skips.
Flush ==
    /\ pc = "idle" /\ storedSkips > 0
    /\ file' = WriteAt(file, pos + storedSkips - 1, <<0>>)
    /\ pos' = pos + storedSkips /\ storedSkips' = 0
    /\ UNCHANGED <<sparse, data, handled, pc>>

Buffers == UNION {[1..n -> Byte] : n \in 1..MaxBuffer}

Next == (\E b \in Buffers : Call(b)) \/ Segment \/ Rest \/ Flush

Spec == Init /\ [][Next]_vars

-----------------------------------------------------------------------------
(* Properties                                                              *)

\* The skips never wrap around and stay in the range fseek is given: however long
\* the zeros, the 1 GB step keeps up with the callers' buffers.
SkipsBounded == storedSkips + Left <= GB + MaxBuffer

\* At any moment the file, with its hole and the skips read as zeros, is the data
\* handled so far: no run of zeros across words, segments, buffers and frames
\* is lost, doubled or misplaced.
FileIsData ==
    /\ pos + storedSkips = handled
    /\ Len(file) <= pos
    /\ \A i \in 1..handled : data[i] = (IF i <= Len(file) THEN file[i] ELSE 0)

\* When no skip is pending, as after LZ4IO_fwriteSparseEnd and in normal mode, the
\* file is the data, its size included: a file that ends in zeros is not short.
CompleteAtEnd ==
    pc = "idle" /\ storedSkips = 0 => file = data
=============================================================================
