------------------------------ MODULE FrameHistory ------------------------------
(***************************************************************************)
(* How LZ4F_decompress keeps the last 64 KB of a frame of linked blocks,   *)
(* which the next block may refer to: LZ4F_updateDict, the choice between  *)
(* decoding to the caller's buffer and to tmpOut, flushing, and what is    *)
(* saved at the end of a call (lib/lz4frame.c).                            *)
(*                                                                         *)
(* Memory is one array of cells: the predefined dictionary, tmpOutBuffer   *)
(* and the caller's memory, apart from each other.  A cell holds the       *)
(* position in the decoded frame of the byte that is there (negative: of   *)
(* the predefined dictionary), so that pointers, sizes and copies are the  *)
(* code's and the history is right when it holds the right positions.      *)
(***************************************************************************)
EXTENDS Integers, FiniteSets

CONSTANTS
    W,                  \* 64 KB
    maxBlockSize,
    maxBufferSize,      \* of tmpOutBuffer; may be left from an earlier frame
    DictSizes,          \* sizes of the predefined dictionary
    MaxRoom,            \* the largest output buffer
    MaxOutput           \* how much of a frame is decoded

HistoryAssumption ==
    /\ W \in Nat \ {0} /\ maxBlockSize \in Nat /\ maxBlockSize >= W
    /\ maxBufferSize \in Nat /\ maxBufferSize >= maxBlockSize + 2 * W
    /\ DictSizes \subseteq Nat /\ IsFiniteSet(DictSizes) /\ MaxRoom \in Nat /\ MaxOutput \in Nat

Null == 0
Garbage == -1000        \* not a position
MinOf(a, b) == IF a <= b THEN a ELSE b

Cells(a, n) == a..(a + n - 1)
Dictionary == 1         \* where the areas start
DictionarySize == CHOOSE n \in DictSizes : \A m \in DictSizes : m <= n
tmpOutBuffer == Dictionary + DictionarySize + 1
Buffer == tmpOutBuffer + maxBufferSize + 1
BufferSize == MaxOutput + MaxRoom
Memory == Cells(Dictionary, Buffer + BufferSize)

VARIABLES
    mem, predefined,    \* the cells; the size of the predefined dictionary
    dict, dictSize, tmpOut, tmpOutStart, tmpOutSize,
    stage,              \* "block" between blocks, or "flushOut"
    busy, stableDst, dstStart, dstPtr, dstEnd,      \* a call
    pinned,             \* does the caller keep all output, in one piece
    delivered,          \* how much of the frame is with the caller
    faults              \* copies out of bounds or of overlapping areas, failed asserts

call == <<busy, stableDst, dstStart, dstEnd>>
tmp == <<tmpOut, tmpOutStart, tmpOutSize>>
vars == <<mem, predefined, dict, dictSize, tmp, stage, call, dstPtr, pinned, delivered, faults>>

Init ==
    /\ predefined \in DictSizes
    /\ mem = [a \in Memory |-> IF a \in Cells(Dictionary, predefined) THEN a - Dictionary - predefined ELSE Garbage]
    /\ dict = (IF predefined = 0 THEN Null ELSE Dictionary) /\ dictSize = predefined
    /\ tmpOut = tmpOutBuffer /\ tmpOutStart = 0 /\ tmpOutSize = 0
    /\ stage = "block" /\ busy = FALSE /\ stableDst = FALSE
    /\ dstStart = Null /\ dstPtr = Null /\ dstEnd = Null
    /\ pinned \in BOOLEAN /\ delivered = 0 /\ faults = {}

-----------------------------------------------------------------------------
(* The history h: mem, dict, dictSize, tmpOut and faults                   *)

Now == [mem |-> mem, dict |-> dict, dictSize |-> dictSize, tmpOut |-> tmpOut, faults |-> faults]
Becomes(h) ==
    /\ mem' = h.mem /\ dict' = h.dict /\ dictSize' = h.dictSize /\ tmpOut' = h.tmpOut
    /\ faults' = h.faults

Assert(h, name, p) == IF p THEN h ELSE [h EXCEPT !.faults = @ \cup {name}]

Inside(a, n) == \E area \in {Cells(Dictionary, predefined), Cells(tmpOutBuffer, maxBufferSize),
                             Cells(Buffer, BufferSize)} : Cells(a, n) \subseteq area

\* The next n bytes of the frame appear at a.
Put(h, a, n) == [h EXCEPT !.mem = [c \in Memory |-> IF c \in Cells(a, n) THEN delivered + c - a ELSE @[c]]]

Memcpy(h, to, from, n) ==
    IF n = 0 THEN h
    ELSE IF ~(Inside(to, n) /\ Inside(from, n)) THEN Assert(h, "bounds", FALSE)
    ELSE [Assert(h, "overlap", Cells(to, n) \cap Cells(from, n) = {}) EXCEPT
             !.mem = [c \in Memory |-> IF c \in Cells(to, n) THEN @[from + c - to] ELSE @[c]]]

\* LZ4_decompress_safe_usingDict of a block of n bytes to a: it may write all of
\* maxBlockSize, which must be there and hold no byte of the history.
Decode(h, a, n) ==
    LET history == Cells(h.dict + h.dictSize - MinOf(h.dictSize, W), MinOf(h.dictSize, W))
        ok == Assert(Assert(h, "bounds", Inside(a, maxBlockSize)),
                     "overlap", history \cap Cells(a, maxBlockSize) = {})
    IN Put([ok EXCEPT !.mem = [c \in Memory |-> IF c \in Cells(a, maxBlockSize) THEN Garbage ELSE @[c]]], a, n)

\* When `flushed' bytes of a block were flushed, the history before it is copied in front
\* of tmpOut.
CopyBeforeTmpOut(h, flushed) ==
    LET preserveSize == h.tmpOut - tmpOutBuffer
        copySize == MinOf(IF tmpOutSize > W THEN 0 ELSE W - tmpOutSize, preserveSize)
        oldDictEnd == h.dict + h.dictSize - flushed
    IN [Memcpy(h, tmpOutBuffer + preserveSize - copySize, oldDictEnd - copySize, copySize) EXCEPT
           !.dict = tmpOutBuffer, !.dictSize = preserveSize + flushed]

\* LZ4F_updateDict: n bytes were written at the caller's dstPtr, and were flushed from
\* tmpOut if withinTmp.
UpdateDict(h0, n, withinTmp) ==
    LET h == IF h0.dictSize = 0 THEN [h0 EXCEPT !.dict = dstPtr] ELSE h0
        inBuffer == dstPtr - dstStart + n
        keep(size) == Memcpy(h, tmpOutBuffer, h.dict + h.dictSize - size, size)
        append(t, size) == [Memcpy(t, tmpOutBuffer + size, dstPtr, n) EXCEPT
                               !.dict = tmpOutBuffer, !.dictSize = size + n]
    IN
    IF h.dict + h.dictSize = dstPtr THEN [h EXCEPT !.dictSize = @ + n]
    ELSE IF inBuffer >= W THEN [h EXCEPT !.dict = dstStart, !.dictSize = inBuffer]
    ELSE IF withinTmp /\ h.dict = tmpOutBuffer
    THEN [Assert(h, "assert", h.dict + h.dictSize = h.tmpOut + tmpOutStart) EXCEPT !.dictSize = @ + n]
    ELSE IF withinTmp THEN [CopyBeforeTmpOut(h, tmpOutStart) EXCEPT !.dictSize = @ + n]
    ELSE IF h.dict # tmpOutBuffer
    THEN append(keep(MinOf(W - n, h.dictSize)), MinOf(W - n, h.dictSize))
    ELSE IF h.dictSize + n > maxBufferSize THEN append(keep(W - n), W - n)
    ELSE append(h, h.dictSize)

\* Before a block is decoded to tmpOut, its place is chosen behind the history.
PlaceTmpOut(h) ==
    IF h.dict # tmpOutBuffer THEN [h EXCEPT !.tmpOut = tmpOutBuffer + MinOf(h.dictSize, W)]
    ELSE IF h.dictSize > 2 * W
    THEN [Memcpy(h, tmpOutBuffer, h.dict + h.dictSize - W, W) EXCEPT !.dictSize = W, !.tmpOut = tmpOutBuffer + W]
    ELSE [h EXCEPT !.tmpOut = tmpOutBuffer + h.dictSize]

\* Mutant: a block that is still being flushed is not looked after.
PreserveBetweenBlocks(h, flushing, flushed) ==
    IF h.dict \in {tmpOutBuffer, Null} \/ stableDst THEN h
    ELSE LET newDictSize == MinOf(h.dictSize, W) IN
         [Memcpy(h, tmpOutBuffer, h.dict + h.dictSize - newDictSize, newDictSize) EXCEPT
             !.dict = tmpOutBuffer, !.dictSize = newDictSize, !.tmpOut = tmpOutBuffer + newDictSize]

\* The end of a call: unless the caller's buffer stays, the history is saved.
Preserve(h, flushing, flushed) ==
    IF h.dict \in {tmpOutBuffer, Null} \/ stableDst THEN h
    ELSE IF flushing THEN CopyBeforeTmpOut(h, flushed)
    ELSE LET newDictSize == MinOf(h.dictSize, W) IN
         [Memcpy(h, tmpOutBuffer, h.dict + h.dictSize - newDictSize, newDictSize) EXCEPT
             !.dict = tmpOutBuffer, !.dictSize = newDictSize, !.tmpOut = tmpOutBuffer + newDictSize]

-----------------------------------------------------------------------------
Room == dstEnd - dstPtr

\* A call, with or without a buffer.  The next output of a caller that keeps it follows
\* the last; any other caller's memory holds something else by now.
Begin(room, null, stable) ==
    /\ ~busy /\ busy' = TRUE
    /\ (stable => pinned) /\ stableDst' = stable
    /\ IF null THEN room = 0 /\ dstStart' = Null ELSE dstStart' = Buffer + (IF pinned THEN delivered ELSE 0)
    /\ dstPtr' = dstStart' /\ dstEnd' = dstStart' + room
    /\ mem' = IF pinned THEN mem ELSE [c \in Memory |-> IF c >= Buffer THEN Garbage ELSE mem[c]]
    /\ UNCHANGED <<predefined, dict, dictSize, tmp, stage, pinned, delivered, faults>>

\* Some of an uncompressed block goes straight to the caller.
CopyDirect(n) ==
    /\ busy /\ stage = "block" /\ n <= Room
    /\ IF dstPtr = Null THEN UNCHANGED <<mem, dict, dictSize, tmpOut, faults>>
       ELSE Becomes(UpdateDict(Put(Now, dstPtr, n), n, FALSE))
    /\ dstPtr' = dstPtr + n /\ delivered' = delivered + n
    /\ UNCHANGED <<predefined, tmpOutStart, tmpOutSize, stage, call, pinned>>

Direct == Room >= maxBlockSize /\ ~(dict # Null /\ dict + dictSize = tmpOut)

\* A block of n bytes, decoded to the caller's buffer
DecodeDirect(n) ==
    /\ busy /\ stage = "block" /\ Direct
    /\ Becomes(UpdateDict(Decode(Now, dstPtr, n), n, FALSE))
    /\ dstPtr' = dstPtr + n /\ delivered' = delivered + n
    /\ UNCHANGED <<predefined, tmpOutStart, tmpOutSize, stage, call, pinned>>

\* or to tmpOut, from where it is flushed
DecodeTmp(n) ==
    /\ busy /\ stage = "block" /\ ~Direct
    /\ LET h == PlaceTmpOut(Now) IN Becomes(Decode(h, h.tmpOut, n))
    /\ tmpOutSize' = n /\ tmpOutStart' = 0 /\ stage' = "flushOut"
    /\ UNCHANGED <<predefined, call, dstPtr, pinned, delivered>>

EndCall == busy' = FALSE /\ stableDst' = FALSE /\ dstStart' = Null /\ dstPtr' = Null /\ dstEnd' = Null

\* A call ends when there is no more input,
Return ==
    /\ busy /\ stage = "block" /\ EndCall
    /\ Becomes(Preserve(Now, FALSE, 0))
    /\ UNCHANGED <<predefined, tmpOutStart, tmpOutSize, stage, pinned, delivered>>

\* or when not all of a block could be flushed.
FlushOut ==
    /\ busy /\ stage = "flushOut"
    /\ LET n == MinOf(tmpOutSize - tmpOutStart, Room)
           copied == Memcpy(Now, dstPtr, tmpOut + tmpOutStart, n)
           h == IF dstPtr = Null THEN Now ELSE UpdateDict(copied, n, TRUE)
       IN /\ tmpOutStart' = tmpOutStart + n /\ delivered' = delivered + n
          /\ IF tmpOutStart + n = tmpOutSize
             THEN stage' = "block" /\ dstPtr' = dstPtr + n /\ Becomes(h) /\ UNCHANGED call
             ELSE Becomes(Preserve(h, TRUE, tmpOutStart + n)) /\ EndCall /\ UNCHANGED stage
    /\ UNCHANGED <<predefined, tmpOutSize, pinned>>

Block(n) == CopyDirect(n) \/ DecodeDirect(n) \/ DecodeTmp(n)
Finished == stage = "block" /\ delivered = MaxOutput /\ ~busy /\ UNCHANGED vars

Next ==
    \/ \E room \in 0..MaxRoom, null, stable \in BOOLEAN : Begin(room, null, stable)
    \/ \E n \in 0..MinOf(maxBlockSize, MaxOutput - delivered) : Block(n)
    \/ FlushOut \/ Return \/ Finished

Spec == Init /\ [][Next]_vars

-----------------------------------------------------------------------------
TypeOK ==
    /\ dict \in Memory \cup {Null} /\ dictSize \in Nat
    /\ tmpOut \in Cells(tmpOutBuffer, maxBufferSize + 1) /\ tmpOutStart \in 0..tmpOutSize
    /\ stage \in {"block", "flushOut"} /\ delivered \in 0..MaxOutput
    /\ (busy /\ dstStart # Null) => dstPtr \in dstStart..dstEnd

\* Whenever a block is decoded, the dictionary ends with the last 64 KB of what came
\* before, or all of it, however it was delivered and wherever it is kept.
HistoryRight == stage = "block" =>
    LET need == MinOf(W, delivered + predefined) IN
    /\ dictSize >= need
    /\ \A i \in 1..need : mem[dict + dictSize - i] = delivered - i

\* What is not flushed yet is not overwritten.
PendingRight == stage = "flushOut" =>
    \A i \in tmpOutStart..(tmpOutSize - 1) : mem[tmpOut + i] = delivered + i - tmpOutStart

\* A call's output is what the frame holds, and stays so up to the end of the call.
OutputRight == busy =>
    \A c \in dstStart..(dstPtr - 1) : mem[c] = delivered - (dstPtr - c)

\* No byte is overwritten between its decoding and its delivery.
BytesDelivered == TypeOK /\ PendingRight /\ OutputRight

\* Every copy stays within its buffers, and memcpy is never called for areas that
\* overlap; "[dict+dictSize] is same as dstPtr" when history continues in tmpOutBuffer.
CopiesSafe == faults = {}
=============================================================================
