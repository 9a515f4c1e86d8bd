---------------------------- MODULE FrameCompress -----------------------------
(***************************************************************************)
(* The compression half of lib/lz4frame.c: LZ4F_compressBegin,             *)
(* LZ4F_compressUpdate, LZ4F_uncompressedUpdate, LZ4F_flush,               *)
(* LZ4F_compressEnd and LZ4F_compressFrame on one LZ4F_cctx.               *)
(*                                                                         *)
(* Input is cut into blocks, some of them gathered in tmpBuff.  In linked  *)
(* frames a block may refer to the 64 KB before it, which the stream finds *)
(* where the last block was: in the caller's buffer, which is theirs again *)
(* after the call unless they promise that it is stable, or in tmpBuff.    *)
(*                                                                         *)
(* A byte of input is its position in all the input there ever was, 0 is a *)
(* byte that may be anything, and a negative number is a dictionary's.     *)
(***************************************************************************)
EXTENDS HcState, FiniteSets

CONSTANTS BlockSizes,   \* of LZ4F_getBlockSize
          Tiny,         \* dictionaries smaller than this are not used
          Sizes,        \* of the input of a call
          ModeSwitch,   \* LZ4F_uncompressedUpdate may be called with data still buffered
          Prefs,        \* LZ4F_preferences_t, and the kind of dictionary
          MaxInput, MaxFrames

VARIABLES cctx,         \* LZ4F_cctx, and the frame it has written
          call          \* the last call: what it wrote over its capacity, and whether it was refused

vars == <<cctx, call>>

BHSize == 4
BFSize == 4
B(b) == IF b THEN 1 ELSE 0

-----------------------------------------------------------------------------
(* Memory: tmpBuff, the dictionary, a buffer that the caller uses again,   *)
(* and one that has all the input                                          *)

Largest == CHOOSE b \in BlockSizes : \A x \in BlockSizes : x <= b
TmpSize == Largest + 2 * KB64
UserAt == DictAt + DictSize + 1
StableAt == UserAt + 2 * Largest + 1

\* Byte a of memory, while the caller's buffer has the input after position pos.
Cell(c, pos, a) ==
    IF a <= TmpSize THEN c.tmp[a]
    ELSE IF a >= StableAt THEN a - StableAt + 1
    ELSE IF a >= UserAt THEN (IF pos = -1 THEN 0 ELSE pos + (a - UserAt) + 1)
    ELSE DictAt - a - 1

Mem(c, pos) == [a \in 1..(StableAt + MaxInput) |-> Cell(c, pos, a)]

Dictionary == [i \in 1..DictSize |-> -i]
Recent(s) == SubSeq(s, Most(1, Len(s) - KB64 + 1), Len(s))
Copied(c, m, to, from, n) ==
    [c EXCEPT !.tmp = [a \in 1..TmpSize |-> IF a \in to..(to + n - 1) THEN m[from + a - to] ELSE c.tmp[a]]]

-----------------------------------------------------------------------------
(* The fast stream: where its history is (lib/lz4.c)                       *)

FastNew == [dictionary |-> NULL, dictSize |-> 0, dictCtx |-> FALSE]

\* LZ4_compress_fast_continue, up to the compression: tiny and overwritten
\* dictionaries are given up.
FastPrepared(f, src, n) ==
    LET end(g) == IF g.dictSize = 0 THEN NULL ELSE g.dictionary + g.dictSize
        tiny == f.dictSize < Tiny /\ end(f) # src /\ ~f.dictCtx
        g == IF tiny THEN [f EXCEPT !.dictSize = 0, !.dictionary = src] ELSE f
        gEnd == IF tiny THEN src ELSE end(f)
        left == Least(gEnd - (src + n), KB64)
        size == IF left < Tiny THEN 0 ELSE left
    IN  [prefix |-> gEnd = src,
         s |-> IF src + n > g.dictionary /\ src + n < gEnd
               THEN [g EXCEPT !.dictSize = size, !.dictionary = gEnd - size] ELSE g]

\* What the block may refer to: the byte at each distance.
FastWindow(m, p, src) ==
    LET f == p.s IN
    IF f.dictCtx /\ ~p.prefix
    THEN [d \in 1..Least(KB64, DictSize) |-> Dictionary[DictSize + 1 - d]]
    ELSE [d \in 1..Least(KB64, f.dictSize) |->
             IF p.prefix THEN m[src - d] ELSE m[f.dictionary + f.dictSize - d]]

FastAfter(p, src, n) ==
    IF p.prefix THEN [p.s EXCEPT !.dictSize = @ + n]
    ELSE [dictionary |-> src, dictSize |-> n, dictCtx |-> FALSE]

-----------------------------------------------------------------------------
(* Blocks                                                                  *)

\* LZ4F_initStream
LZ4F_initStream(c, linked) ==
    LET cdict == c.prefs.dict = "cdict" IN
    IF c.prefs.hc THEN [c EXCEPT !.hc = [LZ4_resetStreamHC_fast(@, FALSE) EXCEPT !.dictCtx = cdict]]
    ELSE IF cdict \/ linked THEN [c EXCEPT !.fast = [FastNew EXCEPT !.dictCtx = cdict]]
    ELSE c

\* The history the decoder will have for the next block.
History(c) == IF c.prefs.linked THEN c.hist
              ELSE IF c.prefs.dict # "none" THEN Recent(Dictionary) ELSE <<>>

\* The distances at which the compressor and the decoder have different bytes.
Odd(window, hist) ==
    {d \in DOMAIN window : d > Len(hist) \/ window[d] # hist[Len(hist) + 1 - d]}

\* A block that is written: n bytes at src, which may refer to a window.
Emitted(c, m, src, n, window, ok) ==
    LET bytes == [x \in 1..n |-> m[src + x - 1]] IN
    [c EXCEPT !.odd = @ \cup Odd(window, History(c)),
              !.misplaced = @ \/ bytes # [x \in 1..n |-> c.emitted + x] \/ n > c.prefs.bs,
              !.emitted = @ + n, !.hist = Recent(@ \o bytes),
              !.written = @ + BHSize + n - B(ok) + BFSize * B(c.prefs.blockChecksum)]

\* The functions LZ4F_selectCompression chooses from: the stream before the block is h or p.
Alone(c) == ~c.prefs.linked /\ c.prefs.dict # "cdict"
HcBlock(c, h, m, src, n, ok) == [Emitted(c, m, src, n, Window(m, h), ok) EXCEPT !.hc = Compressed(h, n, ok)]
FastBlock(c, p, m, src, n, ok) ==
    [Emitted(c, m, src, n, FastWindow(m, p, src), ok) EXCEPT !.fast = FastAfter(p, src, n)]

SelectedBlock(c, m, src, n, ok) ==
    IF c.prefs.hc
    THEN HcBlock(c, IF Alone(c) THEN LZ4HC_init_internal(LZ4_resetStreamHC_fast(c.hc, FALSE), src)
                    ELSE Prepared(c.hc, src, n), m, src, n, ok)
    ELSE IF Alone(c) THEN Emitted(c, m, src, n, <<>>, ok)
    ELSE FastBlock(c, FastPrepared(c.fast, src, n), m, src, n, ok)

\* LZ4F_makeBlock.  A block that does not become smaller is stored; ok is whether it does.
LZ4F_makeBlock(c, m, src, n, mode, ok) ==
    IF mode = "uncompressed" THEN Emitted(c, m, src, n, <<>>, ok)
    ELSE SelectedBlock(IF c.prefs.linked THEN c ELSE LZ4F_initStream(c, FALSE), m, src, n, ok)

\* LZ4F_localSaveDict: the history is moved to the start of tmpBuff.
LZ4F_localSaveDict(c, m) ==
    LET h == LZ4_saveDictHC(c.hc, 1, KB64)
        d == IF c.prefs.hc THEN h.size ELSE Least(KB64, c.fast.dictSize)
        from == IF c.prefs.hc THEN c.hc.end - d ELSE c.fast.dictionary + c.fast.dictSize - d
        moved == [Copied(c, m, 1, from, d) EXCEPT !.tmpIn = 1 + d]
    IN  IF c.prefs.hc THEN [moved EXCEPT !.hc = h.state]
        ELSE [moved EXCEPT !.fast.dictionary = 1, !.fast.dictSize = d]

\* LZ4F_compressBound_internal
LZ4F_compressBound_internal(srcSize, p, alreadyBuffered) ==
    LET maxSrcSize == srcSize + Least(alreadyBuffered, p.bs - 1)
        full == maxSrcSize \div p.bs
        lastSize == IF p.autoFlush \/ srcSize = 0 THEN maxSrcSize % p.bs ELSE 0
        nbBlocks == full + B(lastSize > 0)
    IN  (BHSize + BFSize * B(p.blockChecksum)) * nbBlocks + p.bs * full + lastSize
            + BHSize + BFSize * B(p.contentChecksum)

\* Mutant: what may be buffered is not counted.
BoundOfSource(srcSize, p) == LZ4F_compressBound_internal(srcSize, p, 0)

LZ4F_compressBound(srcSize, p) ==
    LZ4F_compressBound_internal(srcSize, p, IF p.autoFlush THEN 0 ELSE p.bs)

-----------------------------------------------------------------------------
(* The calls                                                               *)

Error(c) == [c EXCEPT !.result = "error"]
Erred(c) == c.result = "error"

\* Without room for another block, the history moves to the start of tmpBuff.
KeepRoom(c, pos) ==
    IF c.tmpIn + c.prefs.bs > c.maxBufferSize + 1 THEN LZ4F_localSaveDict(c, Mem(c, pos)) ELSE c

\* LZ4F_flush.  The caller's buffer has the input after pos.
LZ4F_flush(c, pos, capacity, ok) ==
    IF c.tmpInSize = 0 THEN c
    ELSE IF c.cStage # 1 \/ capacity < c.tmpInSize + BHSize + BFSize THEN Error(c)
    ELSE LET b == LZ4F_makeBlock(c, Mem(c, pos), c.tmpIn, c.tmpInSize, c.blockCompressMode, ok)
         IN  KeepRoom([b EXCEPT !.tmpIn = IF c.prefs.linked THEN @ + c.tmpInSize ELSE @, !.tmpInSize = 0], pos)

\* The blocks that are cut from the caller's buffer, and what is left of it.
RECURSIVE FromSource(_, _, _, _, _, _)
FromSource(c, pos, src, n, mode, ok) ==
    IF n >= c.prefs.bs \/ (c.prefs.autoFlush /\ n > 0)
    THEN LET k == Least(n, c.prefs.bs)
         IN  FromSource([LZ4F_makeBlock(c, Mem(c, pos), src, k, mode, ok) EXCEPT !.from = "src"],
                        pos, src + k, n - k, mode, ok)
    ELSE [c |-> c, src |-> src, n |-> n]

\* Mutant: a block that is just complete is left for the next call.
CompleteTmpLate(c, pos, src, n, mode, ok) ==
    LET need == c.prefs.bs - c.tmpInSize
        k == Least(need, n)
        t == Copied(c, Mem(c, pos), c.tmpIn + c.tmpInSize, src, k)
    IN  IF c.tmpInSize = 0 THEN [c |-> c, src |-> src, n |-> n]
        ELSE IF need >= n THEN [c |-> [t EXCEPT !.tmpInSize = @ + n], src |-> src + n, n |-> 0]
        ELSE LET b == LZ4F_makeBlock(t, Mem(t, pos), c.tmpIn, c.prefs.bs, mode, ok)
             IN  [c |-> [b EXCEPT !.tmpIn = IF c.prefs.linked THEN @ + c.prefs.bs ELSE @, !.tmpInSize = 0,
                                  !.from = "tmp"],
                  src |-> src + k, n |-> n - k]

\* The block in tmpBuff is completed.
CompleteTmp(c, pos, src, n, mode, ok) ==
    LET need == c.prefs.bs - c.tmpInSize
        k == Least(need, n)
        t == Copied(c, Mem(c, pos), c.tmpIn + c.tmpInSize, src, k)
    IN  IF c.tmpInSize = 0 THEN [c |-> c, src |-> src, n |-> n]
        ELSE IF need > n THEN [c |-> [t EXCEPT !.tmpInSize = @ + n], src |-> src + n, n |-> 0]
        ELSE LET b == LZ4F_makeBlock(t, Mem(t, pos), c.tmpIn, c.prefs.bs, mode, ok)
             IN  [c |-> [b EXCEPT !.tmpIn = IF c.prefs.linked THEN @ + c.prefs.bs ELSE @, !.tmpInSize = 0,
                                  !.from = "tmp"],
                  src |-> src + k, n |-> n - k]

\* Mutant: the history is left in a buffer that is not stable.
LeaveHistory(c, pos, stableSrc) ==
    IF c.prefs.linked /\ c.from = "src" THEN [c EXCEPT !.tmpIn = 1] ELSE c

\* Linked blocks from a buffer that is not stable: the history is saved.
PreserveHistory(c, pos, stableSrc) ==
    IF ~(c.prefs.linked /\ c.from = "src") THEN c
    ELSE IF stableSrc THEN [c EXCEPT !.tmpIn = 1]
    ELSE LZ4F_localSaveDict(c, Mem(c, pos))

\* What is less than a block stays in tmpBuff.
Gathered(c, pos, src, n) ==
    IF n > 0 THEN [Copied(c, Mem(c, pos), c.tmpIn, src, n) EXCEPT !.tmpInSize = n] ELSE c

\* The input once tmpBuff is completed, and once the blocks are cut from it.
AfterTmp(t, pos, mode, ok) == FromSource(t.c, pos, t.src, t.n, mode, ok)
AfterBlocks(b, pos, stableSrc) ==
    LET c == PreserveHistory(b.c, pos, stableSrc)
    IN  Gathered(IF b.c.prefs.autoFlush THEN c ELSE KeepRoom(c, pos), pos, b.src, b.n)

Consumed(c, n, stableSrc, mode, ok) ==
    LET source == IF stableSrc THEN StableAt + c.pos ELSE UserAt
        t == CompleteTmp([c EXCEPT !.from = "none"], c.pos, source, n, mode, ok)
    IN  IF Erred(c) THEN c
        ELSE [AfterBlocks(AfterTmp(t, c.pos, mode, ok), c.pos, stableSrc)
                EXCEPT !.pos = @ + n, !.totalInSize = @ + n, !.hashed = @ + n]

\* LZ4F_compressUpdateImpl: n bytes of the caller's.
LZ4F_compressUpdateImpl(c, n, capacity, stableSrc, mode, ok) ==
    IF \/ c.cStage # 1
       \/ capacity < LZ4F_compressBound_internal(n, c.prefs, c.tmpInSize)
       \/ mode = "uncompressed" /\ capacity < n
    THEN Error(c)
    ELSE Consumed(IF c.blockCompressMode = mode THEN c
                  ELSE [LZ4F_flush(c, c.pos, capacity, ok) EXCEPT !.blockCompressMode = mode],
                  n, stableSrc, mode, ok)

\* LZ4F_compressEnd: after the flush, the end mark and the checksum.
EndMark(c, capacity) ==
    LET tail == BHSize + BFSize * B(c.prefs.contentChecksum)
    IN  IF Erred(c) THEN c
        ELSE IF capacity - c.written < tail THEN Error(c)
        ELSE IF c.prefs.contentSize # 0 /\ c.prefs.contentSize # c.totalInSize
        THEN Error([c EXCEPT !.cStage = 0, !.written = @ + tail])
        ELSE [c EXCEPT !.cStage = 0, !.written = @ + tail, !.ended = TRUE]

LZ4F_compressEnd(c, capacity, ok) == EndMark(LZ4F_flush(c, -1, capacity, ok), capacity)

\* The stream of the kind the level asks for: a new one, one of the other kind that is
\* initialised again, or the one there is.
Managed(c, p) ==
    LET id == IF p.hc THEN 2 ELSE 1 IN
    IF c.lz4CtxAlloc >= id /\ c.lz4CtxType = id THEN c
    ELSE [c EXCEPT !.lz4CtxAlloc = Most(@, id), !.lz4CtxType = id,
                   !.fast = IF p.hc THEN @ ELSE FastNew,
                   !.hc = IF p.hc THEN LZ4_initStreamHC(FALSE) ELSE @]

\* LZ4F_compressBegin_internal.  fits: tmpBuff can be allocated.
LZ4F_compressBegin_internal(c, p, fits) ==
    LET m == [Managed(c, p) EXCEPT !.prefs = p]
        required == IF p.autoFlush THEN (IF p.linked THEN KB64 ELSE 0)
                    ELSE p.bs + (IF p.linked THEN 2 * KB64 ELSE 0)
        grown == IF m.maxBufferSize >= required THEN m
                 ELSE [m EXCEPT !.maxBufferSize = required, !.tmp = [a \in 1..TmpSize |-> 0]]
        reset == [grown EXCEPT !.tmpIn = 1, !.tmpInSize = 0, !.hashed = 0, !.ended = FALSE, !.frames = @ + 1,
                               !.start = c.pos, !.emitted = c.pos,
                               !.hist = IF p.dict = "none" THEN <<>> ELSE Recent(Dictionary)]
        begun == IF p.linked THEN LZ4F_initStream(reset, TRUE) ELSE reset
        loaded == IF p.dict # "buffer" THEN begun
                  ELSE IF p.hc THEN [begun EXCEPT !.hc = LZ4_loadDictHC(@, DictAt, DictSize)]
                  ELSE [begun EXCEPT !.fast = [dictionary |-> DictAt + DictSize - Least(DictSize, KB64),
                                               dictSize |-> Least(DictSize, KB64), dictCtx |-> FALSE]]
    IN  IF m.maxBufferSize < required /\ ~fits THEN Error([m EXCEPT !.maxBufferSize = 0, !.frames = @ + 1])
        ELSE [loaded EXCEPT !.cStage = 1, !.totalInSize = IF p.contentSize # 0 THEN 0 ELSE @]

\* LZ4F_optimalBSID
OptimalBlockSize(requested, n) ==
    CHOOSE b \in BlockSizes : /\ b <= requested /\ (b = requested \/ n <= b)
                              /\ \A x \in BlockSizes : x < b => n > x

\* LZ4F_compressFrame_usingCDict: a whole frame, from a source that is stable.  Each call
\* is made unless the one before it failed.
FrameEnded(c, bound, ok) == IF Erred(c) THEN c ELSE LZ4F_compressEnd(c, bound, ok)
FrameFilled(c, n, bound, ok) ==
    IF Erred(c) THEN c
    ELSE FrameEnded(LZ4F_compressUpdateImpl(c, n, bound, TRUE, "compressed", ok), bound, ok)

LZ4F_compressFrame_usingCDict(c, p, n, fits, ok) ==
    LET bs == OptimalBlockSize(p.bs, n)
        q == [p EXCEPT !.bs = bs, !.autoFlush = TRUE, !.linked = @ /\ n > bs,
                       !.contentSize = IF @ # 0 THEN n ELSE 0]
    IN  FrameFilled(LZ4F_compressBegin_internal(c, q, fits), n, LZ4F_compressBound_internal(n, q, 0), ok)

Fresh(c) == [c EXCEPT !.result = "ok"]
NoLimit == -1
Called(c, capacity) ==
    /\ cctx' = [c EXCEPT !.written = 0, !.from = "none"]
    /\ call' = [over |-> IF capacity = NoLimit THEN 0 ELSE Most(0, c.written - capacity),
                refused |-> capacity # NoLimit /\ Erred(c) /\ c.cStage = 1]

\* Whether blocks become smaller: it makes a difference for the dirty flag of HC streams.
Outcomes == IF cctx.prefs.hc THEN BOOLEAN ELSE {FALSE}

\* After an error the caller begins again.
CanGoOn == cctx.result = "ok" /\ cctx.cStage = 1

Begin == \E p \in Prefs, fits \in BOOLEAN :
    /\ cctx.pos < MaxInput /\ cctx.frames < MaxFrames
    /\ Called(LZ4F_compressBegin_internal(Fresh(cctx), p, fits), NoLimit)

\* LZ4F_compressUpdate and LZ4F_uncompressedUpdate, with the capacity the documentation
\* asks for.
Update == \E n \in Sizes, stableSrc \in BOOLEAN, ok \in Outcomes, mode \in {"compressed", "uncompressed"} :
    /\ CanGoOn /\ cctx.pos + n <= MaxInput
    /\ mode = "uncompressed" => ~cctx.prefs.linked
    /\ ~ModeSwitch => cctx.tmpInSize = 0 \/ cctx.blockCompressMode = mode
    /\ LET capacity == LZ4F_compressBound(n, cctx.prefs)
       IN  Called(LZ4F_compressUpdateImpl(Fresh(cctx), n, capacity, stableSrc, mode, ok), capacity)

Flush == \E ok \in Outcomes :
    /\ CanGoOn
    /\ LET capacity == LZ4F_compressBound(0, cctx.prefs)
       IN  Called(LZ4F_flush(Fresh(cctx), -1, capacity, ok), capacity)

End == \E ok \in Outcomes :
    /\ CanGoOn
    /\ LET capacity == LZ4F_compressBound(0, cctx.prefs)
       IN  Called(LZ4F_compressEnd(Fresh(cctx), capacity, ok), capacity)

CompressFrame == \E p \in Prefs, n \in Sizes, fits \in BOOLEAN, ok \in BOOLEAN :
    /\ cctx.pos + n <= MaxInput /\ cctx.frames < MaxFrames /\ p.dict # "buffer"
    /\ Called(LZ4F_compressFrame_usingCDict(Fresh(cctx), p, n, fits, ok), NoLimit)

\* LZ4F_createCompressionContext
NewContext ==
    [cStage |-> 0, prefs |-> CHOOSE p \in Prefs : TRUE, lz4CtxAlloc |-> 0, lz4CtxType |-> 0, maxBufferSize |-> 0,
     tmp |-> [a \in 1..TmpSize |-> 0], tmpIn |-> 1, tmpInSize |-> 0, totalInSize |-> 0, hashed |-> 0,
     blockCompressMode |-> "compressed", fast |-> FastNew, hc |-> LZ4_initStreamHC(FALSE),
     from |-> "none", written |-> 0, result |-> "ok",
     pos |-> 0, start |-> 0, emitted |-> 0, hist |-> <<>>, odd |-> {}, misplaced |-> FALSE, ended |-> FALSE,
     frames |-> 0]

Init == cctx = NewContext /\ call = [over |-> 0, refused |-> FALSE]

Next == Begin \/ Update \/ Flush \/ End \/ CompressFrame

Spec == Init /\ [][Next]_vars

-----------------------------------------------------------------------------
(* Properties                                                              *)

TypeOK == /\ cctx.prefs.bs \in BlockSizes /\ cctx.cStage \in {0, 1}
          /\ cctx.tmpIn >= 1 /\ cctx.tmpInSize >= 0

\* Whatever a block may refer to, the compressor finds there the byte the decoder will
\* have: the history was saved before the caller used the buffer again, was not
\* overwritten in tmpBuff by the input gathered there, and is not another frame's.
HistoryKept == cctx.odd = {}

\* The blocks have the input, in order and none of it twice; what is not in a block yet
\* is in tmpBuff, within its bounds; and a frame that ended without error has it all.
FrameWhole ==
    /\ TypeOK /\ ~cctx.misplaced
    /\ CanGoOn =>
        /\ cctx.emitted + cctx.tmpInSize = cctx.pos /\ cctx.hashed = cctx.pos - cctx.start
        /\ cctx.tmpInSize < cctx.prefs.bs /\ cctx.tmpIn + cctx.tmpInSize <= cctx.maxBufferSize + 1
        /\ \A i \in 1..cctx.tmpInSize : cctx.tmp[cctx.tmpIn + i - 1] = cctx.emitted + i
    /\ cctx.ended => cctx.emitted = cctx.pos

\* LZ4F_compressBound is enough: a call with that capacity is not refused, and does not
\* write more.
BoundSuffices == call.over = 0 /\ ~call.refused
=============================================================================
