------------------------------ MODULE BlockStream ------------------------------
(***************************************************************************)
(* LZ4_stream_t and the functions that compress with it (lib/lz4.c): the   *)
(* dictionary loaded, attached or saved, blocks that follow each other in  *)
(* a ring buffer or elsewhere, the table kept from one stream to the next, *)
(* and the offset that is renormalised before it overflows.                *)
(*                                                                         *)
(* The caller decodes every block with all of the stream before it; when a *)
(* block does not fit, it stores the data and goes on (as LZ4F_makeBlock   *)
(* does).  4 KB, 64 KB, 1 GB and 0x80000000 are constants.                 *)
(***************************************************************************)
EXTENDS BlockCompress

CONSTANTS
    KB4, GB1, RenormLimit,  \* 4 KB, 1 GB, 0x80000000
    RingSize,               \* the ring buffer the input is in
    AnyRing,                \* may a block overwrite all of the data before it
    Texts,                  \* what the input may be, as tuples
    Dictionaries,           \* what a dictionary may be
    Sizes,                  \* of the blocks
    Capacities,             \* of the output; 0: what LZ4_compressBound says
    Targets,                \* of LZ4_compress_destSize
    MaxCalls                \* bound on the number of calls

HASH_UNIT == 8              \* sizeof(reg_t)
LZ4_64Klimit == KB64 + MFLIMIT - 1

StreamAssumption ==
    /\ KB4 \in Nat /\ GB1 \in Nat /\ RenormLimit \in Nat /\ GB1 < RenormLimit /\ 2 * KB64 < GB1
    /\ RingSize \in Nat /\ AnyRing \in BOOLEAN /\ MaxCalls \in Nat

\* Where the caller's memory is: the ring buffer, a dictionary, and a place
\* where the last 64 KB can be saved.
DictAt == RingSize + 1
SafeAt == DictAt + KB64 + 1
MemorySize == SafeAt + KB64

VARIABLES
    mem,        \* the memory
    lz4,        \* LZ4_stream_t: [tbl, currentOffset, tableType, dictionary, dictSize, dictCtx]
    dictStream, \* the stream LZ4_attach_dictionary may attach
    stream,     \* the data of the stream so far, its dictionary first
    pos,        \* where the last block ends in the ring buffer
    phase,      \* "stream"; or "single" after a block of its own, which must be followed by a
                \* reset; or "gpu" for the module that extends this one
    calls,
    last        \* the last call: [right, sound]

vars == <<mem, lz4, dictStream, stream, pos, phase, calls, last>>

NoStream == [tbl |-> EmptyTable, currentOffset |-> 0, tableType |-> "clearedTable", dictionary |-> NULL,
             dictSize |-> 0, dictCtx |-> FALSE]

-----------------------------------------------------------------------------
(* What the functions do to the stream *)

LZ4_prepareTable(s, inputSize, tableType) ==
    LET reset == /\ s.tableType # "clearedTable"
                 /\ \/ s.tableType # tableType
                    \/ tableType = "byU16" /\ s.currentOffset + inputSize >= KB64 - 1
                    \/ tableType = "byU32" /\ s.currentOffset > GB1
                    \/ inputSize >= KB4
        t == IF reset THEN NoStream ELSE s
    IN  [t EXCEPT !.currentOffset = IF @ # 0 /\ tableType = "byU32" THEN @ + KB64 ELSE @,
                  !.dictCtx = FALSE, !.dictionary = NULL, !.dictSize = 0]

\* LZ4_loadDict_internal: every third position is hashed, with slow the others
\* too where the table has nothing newer.
RECURSIVE HashDict(_, _, _, _, _, _)
HashDict(m, tbl, p, idx, end, slow) ==
    IF p > end - HASH_UNIT THEN tbl
    ELSE LET h == LZ4_hashPosition(m, p, "byU32")
         IN  HashDict(m, IF slow /\ tbl[h] > 0 THEN tbl ELSE [tbl EXCEPT ![h] = idx],
                      p + (IF slow THEN 1 ELSE 3), idx + (IF slow THEN 1 ELSE 3), end, slow)

LZ4_loadDict_internal(m, dictionary, size, slow) ==
    LET end == dictionary + size
        n == MinOf(size, KB64)
        fast == HashDict(m, EmptyTable, end - n, KB64 - n, end, FALSE)
        empty == [NoStream EXCEPT !.currentOffset = KB64]
    IN  IF size < HASH_UNIT THEN empty
        ELSE [empty EXCEPT !.dictionary = end - n, !.dictSize = n, !.tableType = "byU32",
                           !.tbl = IF slow THEN HashDict(m, fast, end - n, KB64 - n, end, TRUE) ELSE fast]

LZ4_attach_dictionary(s, d) ==
    [s EXCEPT !.currentOffset = IF @ = 0 THEN KB64 ELSE @, !.dictCtx = d.dictSize # 0]

\* Mutant: the entries are not rescaled with the offset.
RenormOffsetOnly(s, nextSize) ==
    IF s.currentOffset + nextSize <= RenormLimit THEN s ELSE [s EXCEPT !.currentOffset = KB64]

LZ4_renormDictT(s, nextSize) ==
    IF s.currentOffset + nextSize <= RenormLimit THEN s
    ELSE LET delta == s.currentOffset - KB64
             n == MinOf(s.dictSize, KB64)
         IN  [s EXCEPT !.tbl = [h \in DOMAIN @ |-> IF @[h] < delta THEN 0 ELSE @[h] - delta], !.currentOffset = KB64,
                       !.dictionary = s.dictionary + s.dictSize - n, !.dictSize = n]

\* The call of LZ4_compress_generic for n bytes at src with stream s.
Call(m, s, src, n, out, limit, tt, dir, small) ==
    LET d == IF dir = "usingDictCtx" THEN dictStream ELSE s IN
    [m |-> m, src |-> src, n |-> n, startIndex |-> s.currentOffset, dir |-> dir, dictionary |-> d.dictionary,
     dictSize |-> d.dictSize, dictTable |-> dictStream.tbl, dictOffset |-> dictStream.currentOffset, small |-> small,
     out |-> out, limit |-> limit, tt |-> tt, acc |-> 1, tbl |-> s.tbl]

\* The stream once LZ4_compress_generic returned r; an empty block leaves it alone.
Updated(s, n, tt, dir, r) ==
    IF n = 0 THEN s ELSE
    [s EXCEPT !.tbl = r.tbl, !.currentOffset = @ + n, !.tableType = tt,
              !.dictSize = IF dir = "usingDictCtx" THEN n ELSE @ + n,
              !.dictCtx = IF dir = "usingDictCtx" THEN FALSE ELSE @]

\* Mutant: the part of the dictionary that the input overwrote is kept.
KeepOverwritten(s, sourceEnd, dictEnd) == s

\* Only the dictionary behind the input is left when the input overlaps it.
DropOverwritten(s, sourceEnd, dictEnd) ==
    LET kept == MinOf(dictEnd - sourceEnd, KB64)
        size == IF kept < 4 THEN 0 ELSE kept
    IN  IF sourceEnd > s.dictionary /\ sourceEnd < dictEnd
        THEN [s EXCEPT !.dictSize = size, !.dictionary = dictEnd - size] ELSE s

\* LZ4_compress_fast_continue: the stream before LZ4_compress_generic, and how that is
\* called.  end0 is where the dictionary ended before the stream was renormalised.
Small(s) == s.dictSize < KB64 /\ s.dictSize < s.currentOffset

ForBlock(s, src, n, dictEnd) ==
    IF dictEnd = src THEN [s |-> s, dir |-> "withPrefix64k", small |-> Small(s)]
    ELSE IF ~s.dictCtx THEN [s |-> s, dir |-> "usingExtDict", small |-> Small(s)]
    ELSE IF n > KB4 THEN [s |-> dictStream, dir |-> "usingExtDict", small |-> FALSE]
    ELSE [s |-> s, dir |-> "usingDictCtx", small |-> FALSE]

Renormalised(s, src, n, end0) ==
    IF s.dictSize < 4 /\ end0 # src /\ n > 0 /\ ~s.dictCtx
    THEN ForBlock(DropOverwritten([s EXCEPT !.dictSize = 0, !.dictionary = src], src + n, src), src, n, src)
    ELSE ForBlock(DropOverwritten(s, src + n, end0), src, n, end0)

Prepared(s, src, n) ==
    Renormalised(LZ4_renormDictT(s, n), src, n, IF s.dictSize = 0 THEN NULL ELSE s.dictionary + s.dictSize)

\* LZ4_compress_generic returned r to a function that had prepared p; unless the block
\* follows its history, it is the history of the next one.
Continued(p, src, n, r) ==
    LET t == Updated(p.s, n, "byU32", p.dir, r)
    IN  [r |-> r, s |-> IF p.dir = "withPrefix64k" THEN t ELSE [t EXCEPT !.dictionary = src, !.dictSize = n]]

ContinueFrom(m, p, src, n, out, cap) ==
    Continued(p, src, n, LZ4_compress_generic(Call(m, p.s, src, n, out, cap, "byU32", p.dir, p.small)))

LZ4_compress_fast_continue(m, s, src, n, cap) == ContinueFrom(m, Prepared(s, src, n), src, n, "limitedOutput", cap)

ExtDict(s) == [s |-> s, dir |-> "usingExtDict", small |-> Small(s)]

LZ4_compress_forceExtDict(m, s, src, n) == ContinueFrom(m, ExtDict(LZ4_renormDictT(s, n)), src, n, "notLimited", 0)

\* LZ4_compress_fast_extState_fastReset; p is the stream with its table prepared.
Single(p, n, tt, r) == [r |-> r, s |-> Updated(p, n, tt, "noDict", r)]

SingleFrom(m, p, src, n, out, cap, tt) ==
    Single(p, n, tt,
           LZ4_compress_generic(Call(m, p, src, n, out, cap, tt, "noDict", tt = "byU16" /\ p.currentOffset # 0)))

FastReset(m, s, src, n, cap) ==
    LET tt == IF n < LZ4_64Klimit THEN "byU16" ELSE "byU32"
        out == IF cap >= LZ4_compressBound(n) THEN "notLimited" ELSE "limitedOutput"
    IN  SingleFrom(m, LZ4_prepareTable(s, n, tt), src, n, out, cap, tt)

\* LZ4_compress_destSize: the state is thrown away.
LZ4_compress_destSize(m, src, n, target) ==
    LET out == IF target >= LZ4_compressBound(n) THEN "notLimited" ELSE "fillOutput"
    IN  LZ4_compress_generic(Call(m, NoStream, src, n, out, target, IF n < LZ4_64Klimit THEN "byU16" ELSE "byU32", "noDict", FALSE))

-----------------------------------------------------------------------------
(* What a decoder makes of a block *)

\* Do the matches of seqs, from position p of t on, repeat what is at their distance?
RECURSIVE Repeats(_, _, _)
Repeats(t, p, seqs) ==
    seqs # <<>> =>
       LET q == Head(seqs)
           at == p + q.ll
       IN  /\ q.off \in 1..MinOf(LZ4_DISTANCE_MAX, at) /\ q.ml >= MINMATCH /\ at + q.ml <= Len(t)
           /\ SubSeq(t, at + 1, at + q.ml) = SubSeq(t, at + 1 - q.off, at + q.ml - q.off)
           /\ Repeats(t, at + q.ml, Tail(seqs))

\* Does block b, decoded after the history, give data?
DecodesTo(history, b, data) ==
    /\ Decoded(b) = Len(data)
    /\ Repeats(history \o data, Len(history), b.seqs)
    /\ b.seqs # <<>> => b.last >= LASTLITERALS /\ b.last + b.seqs[Len(b.seqs)].ml >= MFLIMIT

\* What is checked of a call that returned r, for data with room for cap bytes.
Checked(history, data, r, cap) ==
    [right |-> r.size > 0 => DecodesTo(history, r.b, SubSeq(data, 1, r.consumed)),
     fits |-> r.size <= cap /\ (r.size > 0 => r.size = Encoded(r.b)),
     sound |-> r.sound]

Window(t) == SubSeq(t, MaxOf(1, Len(t) - KB64 + 1), Len(t))
Put(m, a, bytes) == SubSeq(m, 1, a) \o bytes \o SubSeq(m, a + Len(bytes) + 1, Len(m))
Room(n, cap) == IF cap = 0 THEN LZ4_compressBound(n) ELSE cap

-----------------------------------------------------------------------------
InitIn(p) ==
    /\ mem = [a \in 1..MemorySize |-> 0]
    /\ lz4 = NoStream /\ dictStream = NoStream
    /\ stream = <<>> /\ pos = 0 /\ phase = p /\ calls = 0
    /\ last = [right |-> TRUE, fits |-> TRUE, sound |-> TRUE]

Init == InitIn("stream")

Called == calls < MaxCalls /\ calls' = calls + 1

\* A function returned c: what LZ4_compress_generic did, and the stream.
Returned(m, history, data, c, cap) ==
    mem' = m /\ lz4' = c.s /\ last' = Checked(history, data, c.r, cap)

\* The caller loads a dictionary into the stream, or into the stream to attach.
LoadDict(d, slow) ==
    /\ Called
    /\ mem' = Put(mem, DictAt, d)
    /\ lz4' = LZ4_loadDict_internal(mem', DictAt, Len(d), slow)
    /\ stream' = IF Len(d) < HASH_UNIT THEN <<>> ELSE Window(d)
    /\ phase' = "stream"
    /\ dictStream' = NoStream
    /\ UNCHANGED <<pos, last>>

AttachDictionary(d, slow) ==
    /\ Called
    /\ mem' = Put(mem, DictAt, d)
    /\ dictStream' = LZ4_loadDict_internal(mem', DictAt, Len(d), slow)
    /\ lz4' = LZ4_attach_dictionary(LZ4_prepareTable(lz4, 0, "byU32"), dictStream')
    /\ stream' = IF Len(d) < HASH_UNIT THEN <<>> ELSE Window(d)
    /\ phase' = "stream"
    /\ UNCHANGED <<pos, last>>

\* LZ4_resetStream_fast
ResetFast ==
    /\ Called
    /\ lz4' = LZ4_prepareTable(lz4, 0, "byU32")
    /\ stream' = <<>> /\ phase' = "stream"
    /\ UNCHANGED <<mem, dictStream, pos, last>>

\* May the caller put n bytes at src: in a ring buffer where only part of the
\* data before them is overwritten, which the stream then gives up.
MayPut(src, n) ==
    LET dictEnd == lz4.dictionary + lz4.dictSize IN
    /\ src + n <= RingSize
    /\ AnyRing \/ lz4.dictSize = 0 \/ src + n <= lz4.dictionary \/ dictEnd <= src \/ src + n < dictEnd

\* The next block of the stream: text of n bytes, behind the last one, at the
\* start of the ring buffer, or somewhere else.
Continue(text, n, src, cap) ==
    /\ Called /\ phase = "stream"
    /\ MayPut(src, n)
    /\ LET data == SubSeq(text, 1, n)
           m == Put(mem, src, data)
       IN  /\ Returned(m, stream, data, LZ4_compress_fast_continue(m, lz4, src, n, Room(n, cap)), Room(n, cap))
           /\ stream' = Window(stream \o data)
    /\ pos' = src + n
    /\ UNCHANGED <<dictStream, phase>>

\* LZ4_compress_forceExtDict leaves it to its caller (a test) that the
\* dictionary is not tiny, not attached and not overwritten.
ForceExtDict(text, n, src) ==
    /\ Called /\ phase = "stream" /\ ~lz4.dictCtx /\ lz4.dictSize \notin 1..(MINMATCH - 1)
    /\ MayPut(src, n) /\ (lz4.dictSize = 0 \/ src + n <= lz4.dictionary \/ lz4.dictionary + lz4.dictSize <= src)
    /\ LET data == SubSeq(text, 1, n)
           m == Put(mem, src, data)
       IN  /\ Returned(m, stream, data, LZ4_compress_forceExtDict(m, lz4, src, n), LZ4_compressBound(n))
           /\ stream' = Window(stream \o data)
    /\ pos' = src + n
    /\ UNCHANGED <<dictStream, phase>>

\* LZ4_saveDict: the last bytes of the stream move to a safe place.
SaveDict(size) ==
    /\ Called /\ phase = "stream" /\ lz4.dictSize > 0
    /\ LET n == MinOf(MinOf(size, KB64), lz4.dictSize)
       IN  /\ mem' = Put(mem, SafeAt, Bytes(mem, lz4.dictionary + lz4.dictSize - n, n))
           /\ lz4' = [lz4 EXCEPT !.dictionary = SafeAt, !.dictSize = n]
    /\ UNCHANGED <<dictStream, stream, pos, phase, last>>

\* A block of its own, with a fresh state or one that was used before.
CompressOne(text, n, cap, fresh) ==
    /\ Called
    /\ LET data == SubSeq(text, 1, n)
           m == Put(mem, 0, data)
       IN  Returned(m, <<>>, data, FastReset(m, IF fresh THEN NoStream ELSE lz4, 0, n, Room(n, cap)), Room(n, cap))
    /\ stream' = <<>> /\ pos' = 0 /\ phase' = "single"
    /\ UNCHANGED dictStream

\* As much of text as fits; the state is clean afterwards.
CompressDestSize(text, n, target) ==
    /\ Called
    /\ LET data == SubSeq(text, 1, n)
           m == Put(mem, 0, data)
       IN  mem' = m /\ last' = Checked(<<>>, data, LZ4_compress_destSize(m, 0, n, target), target)
    /\ lz4' = NoStream /\ stream' = <<>> /\ pos' = 0 /\ phase' = "stream"
    /\ UNCHANGED dictStream

Next ==
    \/ \E d \in Dictionaries, slow \in BOOLEAN : LoadDict(d, slow) \/ AttachDictionary(d, slow)
    \/ ResetFast
    \/ \E text \in Texts, n \in Sizes :
          \/ \E src \in {0, pos, pos + 1}, cap \in Capacities : Continue(text, n, src, cap)
          \/ \E src \in {0, pos} : ForceExtDict(text, n, src)
          \/ \E cap \in Capacities, fresh \in BOOLEAN : CompressOne(text, n, cap, fresh)
          \/ \E target \in Targets : CompressDestSize(text, n, target)
    \/ \E size \in {3, KB64} : SaveDict(size)

Spec == Init /\ [][Next]_vars

-----------------------------------------------------------------------------
TypeOK ==
    /\ Len(mem) = MemorySize /\ Len(stream) <= KB64 /\ pos \in 0..RingSize
    /\ phase \in {"stream", "single", "gpu"} /\ calls \in 0..MaxCalls
    /\ \A s \in {lz4, dictStream} :
          /\ s.currentOffset \in Nat /\ s.tableType \in {"clearedTable", "byU16", "byU32"}
          /\ phase # "gpu" => \A h \in DOMAIN s.tbl : s.tbl[h] \in 0..s.currentOffset
          /\ phase = "stream" /\ s.dictSize > 0 => InMemory(mem, s.dictionary, s.dictSize)

\* Every block decodes, after all of the stream before it, to the data that was
\* compressed - wherever the blocks lie in memory, whatever dictionary was
\* loaded, attached or saved, however often the offset was renormalised and the
\* table reused - and its size is the one returned and within the capacity.
BlocksRight == last.right /\ last.fits

\* LZ4_compress_generic reads a candidate only where the dictionary or the input
\* before the current position still is: an index left in the table by an
\* earlier block or stream never leads outside.
CandidatesReadable == TypeOK /\ last.sound
=============================================================================
