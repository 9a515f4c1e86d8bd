------------------------------- MODULE DecodeMT -------------------------------
(***************************************************************************)
(* Multi-threaded decompression of one stream in programs/lz4io.c:         *)
(* LZ4IO_decompressLZ4F (frame format) and LZ4IO_decodeLegacyStream.       *)
(*                                                                         *)
(* The main thread reads input chunks into a ring of NB_BUFFSETS buffers   *)
(* and submits them to tPool, whose one thread decodes them into output    *)
(* buffers and submits these to wPool, whose one thread writes them.  No   *)
(* lock protects the buffers: only the depth of the two queues keeps a     *)
(* buffer from being reused too early.                                     *)
(*                                                                         *)
(* A legacy chunk is one block and has an output buffer of its own index;  *)
(* a frame chunk is decoded piece by piece into the buffers of BufferPool. *)
(***************************************************************************)
EXTENDS Integers, Sequences

CONSTANTS
    MaxChunks,      \* bound: chunks in the input
    MaxPieces,      \* bound: output buffers a frame chunk fills
    decoder, writer,    \* the threads of tPool and of wPool
    NoJob

ASSUME DecodeAssumption ==
    /\ MaxChunks \in Nat \ {0} /\ MaxPieces \in Nat \ {0}
    /\ NoJob \notin Nat

\* Mutants: one buffer less than the threads can hold at a time.
TwoBuffSets == 2
TwoBuffers == 2

NB_BUFFSETS == 4    \* input buffers, and legacy output buffers
PBUFFERS_NB == 3    \* buffers of BufferPool
QueueDepth == 1     \* both pools are TPool_create(1, 1)

VARIABLES
    tPending, tActive, wPending, wActive,
    input,      \* format; pieces of each chunk; does the data end a frame
    main, nextChunk,            \* the main thread, and the chunk it handles
    inBuff,                     \* the chunk each input buffer holds
    at, piece,                  \* the decoder, and the piece it is at
    decoded,                    \* pieces decoded so far, as they should be
    outBuff,                    \* the piece each output buffer holds
    availNext, usedIdx,         \* BufferPool
    bufOut,                     \* the output buffer the decoder holds
    lastStatus,                 \* zero: the frame is complete
    written,                    \* what the output file holds
    flushed                     \* LZ4IO_fwriteSparseEnd was called

T == INSTANCE JobPool WITH Workers <- {decoder}, Jobs <- 0..(MaxChunks - 1),
        QueueSize <- QueueDepth, pending <- tPending, active <- tActive
W == INSTANCE JobPool WITH Workers <- {writer}, Jobs <- 0..(NB_BUFFSETS - 1),
        QueueSize <- QueueDepth, pending <- wPending, active <- wActive

tVars == <<tPending, tActive>>
wVars == <<wPending, wActive>>
decVars == <<at, piece, decoded, availNext, bufOut, lastStatus>>
outVars == <<usedIdx, written>>
vars == <<tVars, wVars, input, main, nextChunk, inBuff, decVars, outBuff,
          outVars, flushed>>

\* The input: a frame's last chunk may be empty, when the size is a multiple of
\* the buffer's; a legacy block is one piece, and there may be no block.
Inputs ==
    {i \in [format : {"frame", "legacy"}, complete : BOOLEAN,
            pieces : UNION {[0..n -> 0..MaxPieces] : n \in -1..(MaxChunks - 1)}] :
        LET last == CHOOSE n \in DOMAIN i.pieces : n + 1 \notin DOMAIN i.pieces
        IN  /\ i.format = "frame" => 0 \in DOMAIN i.pieces
            /\ \A n \in DOMAIN i.pieces : i.pieces[n] = 0 =>
                  i.format = "frame" /\ n = last
            /\ i.format = "legacy" =>
                  i.complete /\ \A n \in DOMAIN i.pieces : i.pieces[n] = 1}

IsChunk(n) == n \in DOMAIN input.pieces
Pieces == [chunk : 0..(MaxChunks - 1), no : 1..MaxPieces]
Empty == [chunk |-> 0, no |-> 0]

TypeOK ==
    /\ T!TypeOK /\ W!TypeOK
    /\ input \in Inputs
    /\ main \in {"read", "submit", "waitT", "waitW", "flush", "done", "exit"}
    /\ nextChunk \in 0..MaxChunks
    /\ inBuff \in [0..(NB_BUFFSETS - 1) -> 0..(MaxChunks - 1)]
    /\ at \in {"begin", "decode", "submit"} /\ piece \in 0..MaxPieces
    /\ decoded \in Seq(Pieces)
    /\ outBuff \in [0..(NB_BUFFSETS - 1) -> Pieces \cup {Empty}]
    /\ availNext \in Nat /\ usedIdx \in Nat
    /\ bufOut \in 0..(NB_BUFFSETS - 1)
    /\ lastStatus \in {0, 1}
    /\ written \in Seq(Pieces)
    /\ flushed \in BOOLEAN

Init ==
    /\ T!Init /\ W!Init
    /\ input \in Inputs
    /\ main = "read" /\ nextChunk = 0
    /\ inBuff = [b \in 0..(NB_BUFFSETS - 1) |-> 0]
    /\ at = "begin" /\ piece = 0 /\ decoded = <<>>
    /\ outBuff = [b \in 0..(NB_BUFFSETS - 1) |-> Empty]
    /\ availNext = 0 /\ usedIdx = 0 /\ bufOut = 0
    /\ lastStatus = 1
    /\ written = <<>> /\ flushed = FALSE

-----------------------------------------------------------------------------
(* The main thread                                                         *)

mainRest == <<wVars, input, decVars, outBuff, outVars, flushed>>

\* fread overwrites the buffer, whoever may still be using it.
ReadChunk ==
    /\ main = "read" /\ IsChunk(nextChunk)
    /\ inBuff' = [inBuff EXCEPT ![nextChunk % NB_BUFFSETS] = nextChunk]
    /\ main' = "submit"
    /\ UNCHANGED <<tVars, nextChunk, mainRest>>

SubmitChunk ==
    /\ main = "submit"
    /\ T!Submit(nextChunk)
    /\ nextChunk' = nextChunk + 1
    /\ main' = IF input.format = "frame" /\ ~IsChunk(nextChunk + 1)
               THEN "waitT" ELSE "read"
    /\ UNCHANGED <<inBuff, mainRest>>

\* Mutant: the end of the file does not end the loop.
NoMoreBlocksIgnored ==
    /\ main = "read" /\ ~IsChunk(nextChunk)
    /\ UNCHANGED <<main, tVars, nextChunk, inBuff, mainRest>>

\* Legacy format: end of file, or the magic number of another frame, where a
\* block header was expected.
NoMoreBlocks ==
    /\ main = "read" /\ ~IsChunk(nextChunk)
    /\ main' = "waitT"
    /\ UNCHANGED <<tVars, nextChunk, inBuff, mainRest>>

\* The frame path checks lastStatus before it waits for the writer.
WaitT ==
    /\ main = "waitT" /\ T!AllCompleted
    /\ main' = IF input.format = "frame" /\ lastStatus # 0 THEN "exit" ELSE "waitW"
    /\ UNCHANGED <<tVars, nextChunk, inBuff, mainRest>>

WaitW ==
    /\ main = "waitW" /\ W!AllCompleted
    /\ main' = "flush"
    /\ UNCHANGED <<tVars, nextChunk, inBuff, mainRest>>

\* LZ4IO_fwriteSparseEnd, then the pools and the buffers are freed.
Flush ==
    /\ main = "flush"
    /\ flushed' = TRUE /\ main' = "done"
    /\ UNCHANGED <<tVars, nextChunk, inBuff, wVars, input, decVars, outBuff, outVars>>

\* fread fails: ferror is tested, END_PROCESS.
ReadFails ==
    /\ main = "read"
    /\ main' = "exit"
    /\ UNCHANGED <<tVars, nextChunk, inBuff, mainRest>>

Main == ReadChunk \/ SubmitChunk \/ NoMoreBlocks \/ WaitT \/ WaitW \/ Flush

-----------------------------------------------------------------------------
(* The decoder: LZ4IO_decompressLZ4FChunk, LZ4IO_decompressBlockLegacy     *)

decRest == <<input, main, nextChunk, inBuff, outVars, flushed>>

StartChunk ==
    /\ T!Start(decoder)
    /\ at' = "begin" /\ piece' = 0
    /\ UNCHANGED <<wVars, decoded, availNext, bufOut, lastStatus, outBuff, decRest>>

\* More input in the chunk: a frame chunk takes the next buffer of the pool
\* (BufPool_getBuffer), a legacy block the one with its input's index.
GetBuffer ==
    /\ tActive[decoder] # NoJob /\ at = "begin"
    /\ piece < input.pieces[tActive[decoder]]
    /\ IF input.format = "frame"
       THEN bufOut' = availNext % PBUFFERS_NB /\ availNext' = availNext + 1
       ELSE bufOut' = tActive[decoder] % NB_BUFFSETS /\ UNCHANGED availNext
    /\ at' = "decode" /\ piece' = piece + 1
    /\ UNCHANGED <<tVars, wVars, decoded, lastStatus, outBuff, decRest>>

\* What is decoded is what the input buffer holds now.
DecodePiece ==
    /\ at = "decode"
    /\ LET n == tActive[decoder] IN
       /\ outBuff' = [outBuff EXCEPT ![bufOut] =
                        [chunk |-> inBuff[n % NB_BUFFSETS], no |-> piece]]
       /\ decoded' = Append(decoded, [chunk |-> n, no |-> piece])
       /\ lastStatus' = IF /\ input.complete /\ piece = input.pieces[n]
                           /\ \A m \in DOMAIN input.pieces : m > n => input.pieces[m] = 0
                        THEN 0 ELSE 1
    /\ at' = "submit"
    /\ UNCHANGED <<tVars, wVars, piece, availNext, bufOut, decRest>>

SubmitPiece ==
    /\ at = "submit"
    /\ W!Submit(bufOut)
    /\ at' = "begin"
    /\ UNCHANGED <<tVars, piece, decoded, availNext, bufOut, lastStatus, outBuff, decRest>>

FinishChunk ==
    /\ tActive[decoder] # NoJob /\ at = "begin"
    /\ piece = input.pieces[tActive[decoder]]
    /\ T!Finish(decoder)
    /\ UNCHANGED <<wVars, decVars, outBuff, decRest>>

\* LZ4F_decompress or LZ4_decompress_safe reports an error.
DecodeFails ==
    /\ at = "decode" /\ main' = "exit"
    /\ UNCHANGED <<tVars, wVars, decVars, outBuff, input, nextChunk, inBuff, outVars, flushed>>

Decoder == StartChunk \/ GetBuffer \/ DecodePiece \/ SubmitPiece \/ FinishChunk

-----------------------------------------------------------------------------
(* The writer: LZ4IO_writeDecodedLZ4FChunk, LZ4IO_writeDecodedChunk        *)

wRest == <<tVars, input, main, nextChunk, inBuff, decVars, outBuff, flushed>>

StartWrite == W!Start(writer) /\ UNCHANGED <<outVars, wRest>>

\* The buffer is written out and, in the frame path, released.
WritePiece ==
    /\ wActive[writer] # NoJob
    /\ written' = Append(written, outBuff[wActive[writer]])
    /\ usedIdx' = IF input.format = "frame" THEN usedIdx + 1 ELSE usedIdx
    /\ W!Finish(writer)
    /\ UNCHANGED wRest

Writer == StartWrite \/ WritePiece

-----------------------------------------------------------------------------
Terminated == main \in {"done", "exit"} /\ UNCHANGED vars

Next ==
    \/ main # "exit" /\ (Main \/ Decoder \/ Writer \/ ReadFails \/ DecodeFails)
    \/ Terminated

Spec == Init /\ [][Next]_vars

FairSpec ==
    /\ Spec
    /\ WF_vars(main # "exit" /\ Main)
    /\ WF_vars(main # "exit" /\ Decoder)
    /\ WF_vars(main # "exit" /\ Writer)

-----------------------------------------------------------------------------
(* Safety                                                                  *)

\* The output file holds the decoded pieces of the chunks in order, although
\* three threads share the input and output buffers without a lock: no buffer
\* is overwritten while a queued or running job still needs it.
OutputIsDecodedInput ==
    /\ Len(written) <= Len(decoded)
    /\ \A i \in 1..Len(written) : written[i] = decoded[i]

\* The asserts of BufPool_getBuffer and BufPool_releaseBuffer: a buffer is
\* free when it is handed out, and buffers come back in the order they left.
BufferPoolAsserts ==
    input.format = "frame" =>
        /\ usedIdx <= availNext /\ availNext <= usedIdx + PBUFFERS_NB
        /\ wActive[writer] # NoJob => /\ usedIdx < availNext
                                      /\ wActive[writer] = usedIdx % PBUFFERS_NB

\* The rings are used within their bounds.
RingsSound == TypeOK /\ BufferPoolAsserts

\* Success means everything was written before the last zeroes are flushed and
\* the buffers freed, and that the frame was complete.
DoneMeansWritten ==
    flushed =>
        /\ T!AllCompleted /\ W!AllCompleted
        /\ Len(written) = Len(decoded)
        /\ {written[i].chunk : i \in 1..Len(written)}
             = {n \in DOMAIN input.pieces : input.pieces[n] > 0}
        /\ input.complete

\* Three threads that share buffers without a lock (LZ4IO_decompressLZ4F and
\* LZ4IO_decodeLegacyStream) write the decoded input, in order, and all of it before success
\* is reported.
DecodedRight == OutputIsDecodedInput /\ RingsSound /\ DoneMeansWritten

-----------------------------------------------------------------------------
(* Liveness                                                                *)

\* Decompression ends: main, decoder and writer never all wait on one another.
Terminates == <>(main \in {"done", "exit"})
=============================================================================
