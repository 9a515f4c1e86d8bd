------------------------------ MODULE FrameDecode ------------------------------
(***************************************************************************)
(* LZ4F_decompress, LZ4F_decodeHeader, LZ4F_getFrameInfo and               *)
(* LZ4F_resetDecompressionContext of lib/lz4frame.c: the state machine     *)
(* that decodes frames from input that comes in pieces of any size into    *)
(* output buffers of any capacity.                                         *)
(*                                                                         *)
(* A stream is a sequence of frames; a frame is what its fields say, with  *)
(* a length for each, and whether its checksums are right.  What a field   *)
(* says is known to the decoder only when it reads the bytes where that    *)
(* field lies; a read anywhere else is out of sync.  What the blocks       *)
(* decode to, and their history, is module FrameHistory.                   *)
(***************************************************************************)
EXTENDS Integers, Sequences

CONSTANTS
    Streams,        \* sequences of frames
    MaxChunk, MaxRoom,      \* the most a call offers and has room for
    Magic, minFHSize, ContentSizeField, DictIDField, BHSize, BFSize,  \* field sizes
    History         \* 64 KB: buffers of linked blocks are 2 * History larger

Null == -1          \* a field that is absent
Error == -1         \* a result for which LZ4F_isError is true
NoInfo == [bChk |-> FALSE, cChk |-> FALSE, linked |-> FALSE, blockSize |-> 0, contentSize |-> 0]
SFrameHeader == minFHSize + 1
maxFHSize == minFHSize + ContentSizeField + DictIDField

VARIABLES
    stream, k, pos,     \* the input; the current frame; what was consumed of it
    dStage, tmpInSize, tmpInTarget, frameInfo, blk, frameRemainingSize,
    tmpOutSize, tmpOutStart,
    xxh, blockChecksum,     \* how many bytes each digest has seen
    skipChecksum,
    tmpInCap, maxBufferSize,    \* capacities of tmpIn and tmpOutBuffer
    src, dst, busy, ret,    \* a call: input left, room left, in progress; result
    out,            \* bytes of this frame delivered
    done,           \* the frames that were reported complete
    asked,          \* did the caller ask to skip the checksums of this frame
    inSync

ctx == <<dStage, tmpInSize, tmpInTarget, frameInfo, blk, frameRemainingSize, tmpOutSize, tmpOutStart,
         xxh, blockChecksum, skipChecksum, tmpInCap, maxBufferSize>>
vars == <<stream, k, pos, ctx, src, dst, busy, ret, out, done, asked, inSync>>

-----------------------------------------------------------------------------
(* Frames                                                                  *)

Frame == stream[k]
HeaderSize(f) == minFHSize + (IF f.contentSize # Null THEN ContentSizeField ELSE 0)
                           + (IF f.dictID THEN DictIDField ELSE 0)
CrcSize(f) == IF f.bChk THEN BFSize ELSE 0

\* Where the i-th block's header, or the end mark behind the last block, lies
BlockOff(f, i) ==
    LET off[j \in 1..(Len(f.blocks) + 1)] ==
            IF j = 1 THEN HeaderSize(f)
            ELSE off[j - 1] + BHSize + f.blocks[j - 1].csize + CrcSize(f)
    IN off[i]

\* How much the blocks before the i-th decode to
ContentBefore(f, i) ==
    LET sum[j \in 1..(Len(f.blocks) + 1)] ==
            IF j = 1 THEN 0 ELSE sum[j - 1] + f.blocks[j - 1].dsize
    IN sum[i]

Content(f) == IF f.type = "lz4" THEN ContentBefore(f, Len(f.blocks) + 1) ELSE 0

FrameSize(f) ==
    IF f.type = "lz4"
    THEN BlockOff(f, Len(f.blocks) + 1) + BHSize + (IF f.cChk THEN BFSize ELSE 0)
    ELSE IF f.type = "skippable" THEN SFrameHeader + f.skip ELSE maxFHSize

StreamLeft ==
    LET size[j \in 1..(Len(stream) + 1)] ==
            IF j > Len(stream) THEN 0 ELSE FrameSize(stream[j]) + size[j + 1]
    IN size[k] - pos

Intact(f) == f.type = "skippable" \/
    /\ f.type = "lz4" /\ f.header = "ok"
    /\ \A i \in DOMAIN f.blocks : f.blocks[i].good /\ f.blocks[i].csize <= f.blockSize
    /\ f.contentSize \in {Null, 0, Content(f)}
ChecksumsRight(f) == f.type = "lz4" =>
    /\ f.cChk => f.crcOk
    /\ f.bChk => \A i \in DOMAIN f.blocks : f.blocks[i].crcOk

-----------------------------------------------------------------------------
Init ==
    /\ stream \in Streams /\ k = 1 /\ pos = 0
    /\ dStage = "getFrameHeader" /\ tmpInSize = 0 /\ tmpInTarget = 0
    /\ frameInfo = NoInfo /\ blk = 0 /\ frameRemainingSize = 0
    /\ tmpOutSize = 0 /\ tmpOutStart = 0 /\ xxh = 0 /\ blockChecksum = 0
    /\ skipChecksum = FALSE /\ tmpInCap = 0 /\ maxBufferSize = 0
    /\ src = 0 /\ dst = 0 /\ busy = FALSE /\ ret = minFHSize
    /\ out = 0 /\ done = <<>> /\ asked = FALSE /\ inSync = TRUE

MinOf(a, b) == IF a <= b THEN a ELSE b

Take(n) == src' = src - n /\ pos' = pos + n
Return(r) == busy' = FALSE /\ ret' = r
Go(stage) == dStage' = stage /\ UNCHANGED <<busy, ret>>

\* What a stage does not write, by the group it belongs to
still == <<stream, k, done, asked>>
sizes == <<tmpInSize, tmpInTarget>>
output == <<dst, out, tmpOutSize, tmpOutStart>>
digests == <<xxh, blockChecksum>>
header == <<frameInfo, frameRemainingSize>>
buffers == <<tmpInCap, maxBufferSize>>
other == <<still, output, digests, header, buffers, blk, skipChecksum, inSync>>

Fail ==
    /\ Return(Error)
    /\ UNCHANGED <<still, pos, ctx, src, dst, out, inSync>>

\* LZ4F_decodeHeader clears frameInfo before it looks at the header.
FailHeader ==
    /\ Return(Error) /\ frameInfo' = NoInfo
    /\ UNCHANGED <<still, pos, dStage, sizes, blk, frameRemainingSize, output, digests, skipChecksum, buffers,
                   src, inSync>>

OutOfSync ==
    /\ inSync' = FALSE /\ Return(Error)
    /\ UNCHANGED <<still, pos, ctx, src, dst, out>>

\* Mutant: a context is reused with what is left of the last frame's size.
ResetStale ==
    /\ dStage' = "getFrameHeader"
    /\ skipChecksum' = FALSE
    /\ UNCHANGED <<frameRemainingSize, sizes, frameInfo, blk, tmpOutSize, tmpOutStart, digests, buffers>>

\* LZ4F_resetDecompressionContext
Reset ==
    /\ dStage' = "getFrameHeader"
    /\ skipChecksum' = FALSE /\ frameRemainingSize' = 0
    /\ UNCHANGED <<sizes, frameInfo, blk, tmpOutSize, tmpOutStart, digests, buffers>>

\* The frame is complete: the context is reset and 0 returned.
Complete(taken) ==
    /\ Reset /\ Return(0)
    /\ done' = Append(done, [frame |-> k, out |-> out, size |-> pos + taken, skip |-> asked])
    /\ k' = k + 1 /\ pos' = 0 /\ out' = 0 /\ asked' = FALSE /\ src' = src - taken
    /\ UNCHANGED <<stream, dst, inSync>>

-----------------------------------------------------------------------------
(* The stages                                                              *)

\* LZ4F_decodeHeader with `n' bytes, in place or in the context's header buffer
DecodeHeader(n, buffered) ==
    LET f == Frame
        used(m) == IF buffered THEN UNCHANGED <<src, pos>> ELSE Take(m)
    IN
    IF (IF buffered THEN pos - tmpInSize ELSE pos) # 0 THEN OutOfSync
    ELSE IF f.type = "skippable"
    THEN /\ frameInfo' = NoInfo
         /\ IF buffered
            THEN /\ tmpInSize' = n /\ tmpInTarget' = SFrameHeader
                 /\ Go("storeSFrameSize") /\ UNCHANGED <<src, pos>>
            ELSE Take(Magic) /\ Go("getSFrameSize") /\ UNCHANGED sizes
         /\ UNCHANGED <<still, output, digests, frameRemainingSize, buffers, blk, skipChecksum, inSync>>
    ELSE IF f.type = "unknown" \/ f.header = "badFLG" THEN FailHeader
    ELSE IF n < HeaderSize(f)
    THEN /\ tmpInSize' = n /\ tmpInTarget' = HeaderSize(f)
         /\ Go("storeFrameHeader") /\ used(n) /\ frameInfo' = NoInfo
         /\ UNCHANGED <<still, output, digests, frameRemainingSize, buffers, blk, skipChecksum, inSync>>
    ELSE IF f.header = "badBD" THEN FailHeader
    ELSE /\ frameInfo' = [bChk |-> f.bChk, cChk |-> f.cChk, linked |-> f.linked, blockSize |-> f.blockSize,
                          contentSize |-> IF f.contentSize = Null THEN 0 ELSE f.contentSize]
         /\ frameRemainingSize' = IF f.contentSize = Null THEN frameRemainingSize ELSE f.contentSize
         /\ used(HeaderSize(f)) /\ Go("init")
         /\ UNCHANGED <<still, sizes, output, digests, buffers, blk, skipChecksum, inSync>>

GetFrameHeader ==
    /\ dStage = "getFrameHeader"
    /\ IF src >= maxFHSize THEN DecodeHeader(src, FALSE)
       ELSE /\ tmpInSize' = 0
            /\ IF src = 0 THEN Return(minFHSize) /\ UNCHANGED <<dStage, tmpInTarget>>
               ELSE Go("storeFrameHeader") /\ tmpInTarget' = minFHSize
            /\ UNCHANGED <<other, src, pos>>

\* The stages that collect a field in the context, and how much they want
Wanted == CASE dStage \in {"storeFrameHeader", "storeCBlock", "storeSFrameSize"} -> tmpInTarget
            [] dStage = "storeBlockHeader" -> BHSize
            [] dStage \in {"storeSuffix", "getBlockChecksum"} -> BFSize
            [] OTHER -> 0

Collect ==
    /\ tmpInSize < Wanted /\ src > 0
    /\ LET n == MinOf(Wanted - tmpInSize, src) IN
       Take(n) /\ tmpInSize' = tmpInSize + n
    /\ UNCHANGED <<other, dStage, tmpInTarget, busy, ret>>

\* Not enough input: the hint is what is still wanted, and the next header
Starve ==
    /\ tmpInSize < Wanted /\ src = 0
    /\ Return(CASE dStage = "storeFrameHeader" -> Wanted - tmpInSize + BHSize
                [] dStage = "storeCBlock" -> Wanted - tmpInSize + (IF frameInfo.bChk THEN BFSize ELSE 0) + BHSize
                [] dStage = "getBlockChecksum" -> 1
                [] OTHER -> Wanted - tmpInSize)
    /\ UNCHANGED <<other, dStage, sizes, src, pos>>

\* A stage whose field is complete in the context's buffer
Collected(stage) == dStage = stage /\ tmpInSize = Wanted

StoreFrameHeader == Collected("storeFrameHeader") /\ DecodeHeader(tmpInTarget, TRUE)

\* dstage_init: digest and buffers; an allocation may fail
InitFrame ==
    /\ dStage = "init"
    /\ LET needed == frameInfo.blockSize + (IF frameInfo.linked THEN 2 * History ELSE 0) IN
       \/ /\ Go("getBlockHeader")
          /\ xxh' = IF frameInfo.cChk THEN 0 ELSE xxh
          /\ tmpInSize' = 0 /\ tmpInTarget' = 0 /\ tmpOutStart' = 0 /\ tmpOutSize' = 0
          /\ IF needed > maxBufferSize
             THEN tmpInCap' = frameInfo.blockSize + BFSize /\ maxBufferSize' = needed
             ELSE UNCHANGED buffers
          /\ UNCHANGED <<still, pos, src, dst, out, blockChecksum, header, blk, skipChecksum, inSync>>
       \/ /\ needed > maxBufferSize
          /\ Return(Error) /\ maxBufferSize' = 0
          /\ \E allocated \in BOOLEAN : tmpInCap' = IF allocated THEN frameInfo.blockSize + BFSize ELSE 0
          /\ UNCHANGED <<still, pos, dStage, sizes, output, digests, header, blk, skipChecksum, src, inSync>>

\* The header of the block that starts at offset `o'; `left' input follows
BlockHeader(o, left) ==
    IF \A i \in 1..(Len(Frame.blocks) + 1) : BlockOff(Frame, i) # o THEN OutOfSync
    ELSE LET i == CHOOSE j \in 1..(Len(Frame.blocks) + 1) : BlockOff(Frame, j) = o IN
         IF i > Len(Frame.blocks)
         THEN /\ Go("getSuffix") /\ src' = left /\ pos' = o + BHSize
              /\ UNCHANGED <<other, sizes>>
         ELSE LET b == Frame.blocks[i] IN
         IF b.csize > frameInfo.blockSize THEN Fail
         ELSE /\ blk' = i /\ src' = left /\ pos' = o + BHSize
              /\ IF b.raw
                 THEN /\ tmpInTarget' = b.csize
                      /\ blockChecksum' = IF frameInfo.bChk THEN 0 ELSE blockChecksum
                      /\ Go("copyDirect")
                 ELSE /\ tmpInTarget' = b.csize + CrcSize(frameInfo)
                      /\ dStage' = "getCBlock" /\ UNCHANGED blockChecksum
                      /\ IF dst = 0 \/ left = 0
                         THEN Return(BHSize + b.csize + CrcSize(frameInfo)) ELSE UNCHANGED <<busy, ret>>
              /\ UNCHANGED <<still, tmpInSize, output, xxh, header, buffers, skipChecksum, inSync>>

GetBlockHeader ==
    /\ dStage = "getBlockHeader"
    /\ IF src >= BHSize THEN BlockHeader(pos, src - BHSize)
       ELSE tmpInSize' = 0 /\ Go("storeBlockHeader") /\ UNCHANGED <<other, tmpInTarget, src, pos>>

StoreBlockHeader == Collected("storeBlockHeader") /\ BlockHeader(pos - BHSize, src)

\* An uncompressed block goes straight to the output.
CopyDirect ==
    /\ dStage = "copyDirect"
    /\ LET n == MinOf(tmpInTarget, MinOf(src, dst)) IN
       /\ Take(n) /\ dst' = dst - n /\ out' = out + n
       /\ blockChecksum' = IF frameInfo.bChk /\ ~skipChecksum THEN blockChecksum + n ELSE blockChecksum
       /\ xxh' = IF frameInfo.cChk /\ ~skipChecksum THEN xxh + n ELSE xxh
       /\ frameRemainingSize' = frameRemainingSize - (IF frameInfo.contentSize # 0 THEN n ELSE 0)
       /\ IF n = tmpInTarget
          THEN /\ tmpInSize' = IF frameInfo.bChk THEN 0 ELSE tmpInSize
               /\ Go(IF frameInfo.bChk THEN "getBlockChecksum" ELSE "getBlockHeader")
               /\ UNCHANGED tmpInTarget
          ELSE /\ tmpInTarget' = tmpInTarget - n
               /\ Return(tmpInTarget' + CrcSize(frameInfo) + BHSize)
               /\ UNCHANGED <<dStage, tmpInSize>>
    /\ UNCHANGED <<still, tmpOutSize, tmpOutStart, frameInfo, buffers, blk, skipChecksum, inSync>>

GetBlockChecksum ==
    /\ Collected("getBlockChecksum")
    /\ LET b == Frame.blocks[blk] IN
       IF pos # BlockOff(Frame, blk) + BHSize + b.csize + BFSize THEN OutOfSync
       ELSE IF ~skipChecksum /\ ~(b.crcOk /\ blockChecksum = b.csize) THEN Fail
       ELSE Go("getBlockHeader") /\ UNCHANGED <<other, sizes, src, pos>>

\* A whole compressed block, at offset `o': its checksum, which skipChecksum does not
\* skip, then its content, to the output if there is room for any block, or else, or
\* if a linked block's history is there, to tmpOut.
DecodeBlock(o, left) ==
    LET b == Frame.blocks[blk] IN
    IF o # BlockOff(Frame, blk) + BHSize THEN OutOfSync
    ELSE IF (frameInfo.bChk /\ ~b.crcOk) \/ ~b.good THEN Fail
    ELSE /\ src' = left /\ pos' = o + tmpInTarget
         /\ tmpInTarget' = tmpInTarget - CrcSize(frameInfo)
         /\ xxh' = IF frameInfo.cChk /\ ~skipChecksum THEN xxh + b.dsize ELSE xxh
         /\ frameRemainingSize' = frameRemainingSize - (IF frameInfo.contentSize # 0 THEN b.dsize ELSE 0)
         /\ \/ /\ dst >= frameInfo.blockSize
               /\ dst' = dst - b.dsize /\ out' = out + b.dsize
               /\ Go("getBlockHeader") /\ UNCHANGED <<tmpOutSize, tmpOutStart>>
            \/ /\ dst < frameInfo.blockSize \/ frameInfo.linked
               /\ tmpOutSize' = b.dsize /\ tmpOutStart' = 0
               /\ Go("flushOut") /\ UNCHANGED <<dst, out>>
         /\ UNCHANGED <<still, tmpInSize, blockChecksum, frameInfo, buffers, blk, skipChecksum, inSync>>

GetCBlock ==
    /\ dStage = "getCBlock"
    /\ IF src < tmpInTarget
       THEN tmpInSize' = 0 /\ Go("storeCBlock") /\ UNCHANGED <<other, tmpInTarget, src, pos>>
       ELSE DecodeBlock(pos, src - tmpInTarget)

StoreCBlock == Collected("storeCBlock") /\ DecodeBlock(pos - tmpInTarget, src)

\* Mutant: flushing starts over at each call.
FlushOutAgain ==
    /\ dStage = "flushOut"
    /\ LET n == MinOf(tmpOutSize, dst) IN
       /\ dst' = dst - n /\ out' = out + n
       /\ IF n = tmpOutSize THEN Go("getBlockHeader")
          ELSE Return(BHSize) /\ UNCHANGED dStage
    /\ UNCHANGED <<still, sizes, src, pos, tmpOutStart, tmpOutSize, digests, header, buffers, blk, skipChecksum, inSync>>

\* Mutant: what does not fit is not flushed.
FlushOutWhole ==
    /\ dStage = "flushOut"
    /\ LET n == IF tmpOutSize - tmpOutStart <= dst THEN tmpOutSize - tmpOutStart ELSE 0 IN
       /\ dst' = dst - n /\ out' = out + n /\ tmpOutStart' = tmpOutStart + n
       /\ IF tmpOutStart + n = tmpOutSize THEN Go("getBlockHeader")
          ELSE Return(BHSize) /\ UNCHANGED dStage
    /\ UNCHANGED <<still, sizes, src, pos, tmpOutSize, digests, header, buffers, blk, skipChecksum, inSync>>

FlushOut ==
    /\ dStage = "flushOut"
    /\ LET n == MinOf(tmpOutSize - tmpOutStart, dst) IN
       /\ dst' = dst - n /\ out' = out + n /\ tmpOutStart' = tmpOutStart + n
       /\ IF tmpOutStart + n = tmpOutSize THEN Go("getBlockHeader")
          ELSE Return(BHSize) /\ UNCHANGED dStage
    /\ UNCHANGED <<still, sizes, src, pos, tmpOutSize, digests, header, buffers, blk, skipChecksum, inSync>>

CheckSuffix(o, taken) ==
    IF o + BFSize # FrameSize(Frame) THEN OutOfSync
    ELSE IF ~skipChecksum /\ ~(Frame.crcOk /\ xxh = Content(Frame)) THEN Fail
    ELSE Complete(taken)

GetSuffix ==
    /\ dStage = "getSuffix"
    /\ IF frameRemainingSize # 0 THEN Fail
       ELSE IF ~frameInfo.cChk THEN Complete(0)
       ELSE IF src < BFSize
       THEN tmpInSize' = 0 /\ Go("storeSuffix") /\ UNCHANGED <<other, tmpInTarget, src, pos>>
       ELSE CheckSuffix(pos, BFSize)

StoreSuffix == Collected("storeSuffix") /\ CheckSuffix(pos - BFSize, 0)

\* A skippable frame's size, in the bytes before `p'
SFrameSize(p, left) ==
    IF p # SFrameHeader THEN OutOfSync
    ELSE /\ frameInfo' = [frameInfo EXCEPT !.contentSize = Frame.skip]
         /\ tmpInTarget' = Frame.skip /\ src' = left /\ pos' = p
         /\ Go("skipSkippable")
         /\ UNCHANGED <<still, tmpInSize, output, digests, frameRemainingSize, buffers, blk, skipChecksum, inSync>>

GetSFrameSize ==
    /\ dStage = "getSFrameSize"
    /\ LET n == SFrameHeader - Magic IN
       IF src >= n THEN SFrameSize(pos + n, src - n)
       ELSE /\ tmpInSize' = Magic /\ tmpInTarget' = SFrameHeader /\ Go("storeSFrameSize")
            /\ UNCHANGED <<other, src, pos>>

StoreSFrameSize == Collected("storeSFrameSize") /\ SFrameSize(pos, src)

SkipSkippable ==
    /\ dStage = "skipSkippable"
    /\ LET n == MinOf(tmpInTarget, src) IN
       IF n = tmpInTarget THEN Complete(n)
       ELSE /\ Take(n) /\ tmpInTarget' = tmpInTarget - n /\ Return(tmpInTarget')
            /\ UNCHANGED <<other, dStage, tmpInSize>>

Stage == busy /\
    \/ GetFrameHeader \/ Collect \/ Starve \/ StoreFrameHeader \/ InitFrame \/ GetBlockHeader
    \/ StoreBlockHeader \/ CopyDirect \/ GetBlockChecksum \/ GetCBlock \/ StoreCBlock \/ FlushOut
    \/ GetSuffix \/ StoreSuffix \/ GetSFrameSize \/ StoreSFrameSize \/ SkipSkippable

-----------------------------------------------------------------------------
(* The caller                                                              *)

More == ~busy /\ ret # Error /\ k <= Len(stream)

\* LZ4F_decompress with `n' bytes and room for `room'
Call(n, room, skip) ==
    /\ More /\ n <= StreamLeft
    /\ src' = n /\ dst' = room /\ busy' = TRUE
    /\ skipChecksum' = (skipChecksum \/ skip) /\ asked' = (asked \/ skip)
    /\ UNCHANGED <<stream, k, done, pos, dStage, sizes, header, buffers, blk, tmpOutSize, tmpOutStart, digests, ret, out, inSync>>

\* LZ4F_getFrameInfo: the header of a new frame, given whole, or the state of a frame
\* in progress, by a call without input or room.  In all other cases it fails and
\* changes nothing.
GetFrameInfo ==
    /\ More
    /\ \/ dStage \notin {"getFrameHeader", "storeFrameHeader"} /\ Call(0, 0, FALSE)
       \/ /\ dStage = "getFrameHeader" /\ Frame.type # "unknown" /\ Frame.header = "ok"
          /\ LET n == IF Frame.type = "skippable" THEN Magic ELSE HeaderSize(Frame) IN
             /\ dStage' = IF Frame.type = "skippable" THEN "getSFrameSize" ELSE "init"
             /\ pos' = pos + n /\ ret' = BHSize
             /\ IF Frame.type = "skippable" THEN frameInfo' = NoInfo /\ UNCHANGED frameRemainingSize
                ELSE /\ frameInfo' = [bChk |-> Frame.bChk, cChk |-> Frame.cChk, linked |-> Frame.linked,
                                      blockSize |-> Frame.blockSize,
                                      contentSize |-> IF Frame.contentSize = Null THEN 0 ELSE Frame.contentSize]
                     /\ frameRemainingSize' = IF Frame.contentSize = Null THEN frameRemainingSize
                                              ELSE Frame.contentSize
          /\ UNCHANGED <<still, sizes, output, digests, buffers, blk, skipChecksum, src, busy, inSync>>

\* After an error, or to give a frame up, the context is reset for the next frame.
Abandon ==
    /\ ~busy /\ k <= Len(stream)
    /\ Reset
    /\ k' = k + 1 /\ pos' = 0 /\ out' = 0 /\ asked' = FALSE /\ ret' = minFHSize
    /\ UNCHANGED <<stream, done, src, dst, busy, inSync>>

Finished == k > Len(stream) /\ UNCHANGED vars

Next == \/ Stage
        \/ \E n \in 0..MaxChunk, room \in 0..MaxRoom, skip \in BOOLEAN : Call(n, room, skip)
        \/ GetFrameInfo \/ Abandon \/ Finished

Spec == Init /\ [][Next]_vars

-----------------------------------------------------------------------------
(* Properties                                                              *)

Stages == {"getFrameHeader", "storeFrameHeader", "init", "getBlockHeader", "storeBlockHeader", "copyDirect",
           "getBlockChecksum", "getCBlock", "storeCBlock", "flushOut", "getSuffix", "storeSuffix",
           "getSFrameSize", "storeSFrameSize", "skipSkippable"}
TypeOK ==
    /\ k \in 1..(Len(stream) + 1) /\ pos \in Nat /\ dStage \in Stages
    /\ tmpInSize \in Nat /\ tmpInTarget \in Nat /\ frameRemainingSize \in Int
    /\ tmpOutStart \in 0..tmpOutSize /\ xxh \in Nat /\ blockChecksum \in Nat
    /\ src \in 0..MaxChunk /\ dst \in 0..MaxRoom
    /\ busy \in BOOLEAN /\ skipChecksum \in BOOLEAN /\ asked \in BOOLEAN /\ inSync \in BOOLEAN
    /\ ret \in Nat \cup {Error} /\ out \in Nat

\* However the input is cut, every field is read where it lies.
InSync == inSync

\* What was delivered and what waits in tmpOut is exactly what the blocks before the
\* current position decode to: nothing is lost, repeated or flushed twice when the
\* output is full.
OutputMatchesInput ==
    dStage \in {"getBlockHeader", "flushOut", "copyDirect"} /\ ret # Error /\ (busy \/ dStage = "flushOut") =>
        out + (IF dStage = "flushOut" THEN tmpOutSize - tmpOutStart ELSE 0)
              + (IF dStage = "copyDirect" THEN tmpInTarget ELSE 0)
            = (IF dStage = "getBlockHeader"
               THEN LET i == CHOOSE j \in 1..(Len(Frame.blocks) + 1) : BlockOff(Frame, j) = pos
                    IN ContentBefore(Frame, i)
               ELSE ContentBefore(Frame, blk + 1))

\* The decoder's own state describes where it is in its input and output.
DecoderInStep == TypeOK /\ InSync /\ OutputMatchesInput

\* "0: The current frame is fully decoded": it was consumed to its last byte, all its
\* content was delivered, its sizes agree, and its checksums are right unless the
\* caller asked to skip them in this very frame.
CompleteMeansDecoded == \A i \in DOMAIN done :
    LET f == stream[done[i].frame] IN
    /\ Intact(f) /\ (done[i].skip \/ ChecksumsRight(f))
    /\ done[i].out = Content(f) /\ done[i].size = FrameSize(f)

\* An error is a defect of the frame or a failed allocation, whatever came before in
\* the same context; with skipChecksums, a wrong checksum counts only on a compressed
\* block, which the option does not reach.
ErrorsAreRight ==
    ret = Error =>
        \/ ~Intact(Frame) \/ dStage = "init"
        \/ ~skipChecksum /\ ~ChecksumsRight(Frame)
        \/ Frame.bChk /\ \E i \in DOMAIN Frame.blocks : ~Frame.blocks[i].raw /\ ~Frame.blocks[i].crcOk

\* "a hint of how many srcSize bytes LZ4F_decompress() expects for next call": it does
\* not reach behind the frame, except that inside a compressed block the block's
\* checksum is counted twice, which only a content checksum makes up for.
HintStaysInFrame ==
    ~busy /\ ret # Error /\ k <= Len(stream) /\ Frame.type = "lz4" =>
        \/ pos + ret <= FrameSize(Frame)
        \/ dStage = "storeCBlock" /\ frameInfo.bChk /\ ~frameInfo.cChk

\* The buffers fit the frame, also those that an earlier frame left: a block with its
\* checksum fits tmpIn, a block and its history fit tmpOutBuffer.
BuffersFit ==
    (dStage \notin {"getFrameHeader", "storeFrameHeader", "init", "getSFrameSize", "storeSFrameSize",
                    "skipSkippable"}) =>
        /\ tmpInCap >= frameInfo.blockSize + BFSize
        /\ maxBufferSize >= frameInfo.blockSize + (IF frameInfo.linked THEN 2 * History ELSE 0)
=============================================================================
