------------------------------ MODULE FrameReader ------------------------------
(***************************************************************************)
(* The single-threaded LZ4IO_decompressLZ4F of programs/lz4io.c over the   *)
(* frame decoder: each fread asks for as many bytes as the last call of    *)
(* LZ4F_decompress hinted, as far as srcBuffer is large enough.  The magic *)
(* number was read before by selectDecoder and is fed first.  Beside this  *)
(* caller there is the free one of FrameDecode, which does whatever the    *)
(* interface allows.                                                       *)
(***************************************************************************)
EXTENDS FrameDecode

CONSTANTS
    FreeStreams, ReaderStreams,     \* what each of the two callers decodes
    srcBufferSize, dstBufferSize,
    MaxCut          \* how many bytes may be missing at the end of the file

VARIABLES
    cut,            \* the bytes that are missing
    loop,           \* where the loop is; or "free": another caller
    lost            \* was input read and not decoded
rvars == <<vars, cut, loop, lost>>

RInit ==
    /\ Init /\ lost = FALSE
    /\ \/ loop = "free" /\ stream \in FreeStreams /\ cut = 0
       \/ loop = "magic" /\ stream \in ReaderStreams /\ cut \in 0..MaxCut

\* LZ4IO_writeLE32(LZ4IO_MAGICNUMBER) and the first call, with no room for output; --no-crc
\* skips the checksums
FeedMagic ==
    /\ loop = "magic" /\ \E skip \in BOOLEAN : Call(Magic, 0, skip)
    /\ loop' = "fed" /\ UNCHANGED <<cut, lost>>

\* Header errors end the process; the main loop starts with fread.
Fed ==
    /\ loop = "fed" /\ ~busy /\ ret # Error
    /\ loop' = "read" /\ UNCHANGED <<vars, cut, lost>>

Decode == Stage /\ UNCHANGED <<cut, loop, lost>>

\* Mutant: input the decoder left is not presented again.
AgainNever ==
    /\ loop = "decode" /\ ~busy /\ ret \notin {0, Error}
    /\ loop' = "read" /\ UNCHANGED <<vars, cut, lost>>

\* `while (pos < readSize || decodedBytes == dstBufferSize)': call again, or read
Again ==
    /\ loop = "decode" /\ ~busy /\ ret \notin {0, Error}
    /\ IF src > 0 \/ dst = 0
       THEN Call(src, dstBufferSize, FALSE) /\ UNCHANGED loop
       ELSE loop' = "read" /\ UNCHANGED vars
    /\ UNCHANGED <<cut, lost>>

\* fread of nextToLoad bytes, and the first call with them
Read ==
    /\ loop = "read" /\ StreamLeft > cut
    /\ Call(MinOf(MinOf(ret, srcBufferSize), StreamLeft - cut), dstBufferSize, FALSE)
    /\ loop' = "decode"
    /\ lost' = (lost \/ src > 0) /\ UNCHANGED cut

\* nextToLoad is 0: what is left in srcBuffer is dropped, and selectDecoder reads the
\* magic number of the next frame.
EndFrame ==
    /\ loop = "decode" /\ ~busy /\ ret = 0
    /\ lost' = (lost \/ src > 0) /\ loop' = "magic"
    /\ UNCHANGED <<vars, cut>>

\* fread finds nothing: "Unfinished stream"
Unfinished ==
    /\ loop = "read" /\ StreamLeft = cut
    /\ loop' = "unfinished" /\ UNCHANGED <<vars, cut, lost>>

EndStream ==
    /\ \/ loop = "magic" /\ k > Len(stream)
       \/ loop = "unfinished"
       \/ ~busy /\ ret = Error
    /\ UNCHANGED rvars

Other == loop = "free" /\ Next /\ UNCHANGED <<cut, loop, lost>>

Reader == loop # "free" /\
    (FeedMagic \/ Fed \/ Decode \/ Again \/ Read \/ EndFrame \/ Unfinished \/ EndStream)

RNext == Other \/ Reader
RSpec == RInit /\ [][RNext]_rvars /\ WF_rvars(Reader)

\* "It is possible to concatenate .lz4 files as is": nothing of the next frame is read
\* with the last bytes of this one and dropped, although the hint decides how much
\* is read.
NoInputLost == ~lost

\* The loop never waits for input that was consumed or output that was delivered: the
\* file is decoded to its end, and only then is it a success; a file that is cut short
\* is reported as unfinished; or an allocation fails.
ReaderFinishes ==
    loop # "free" ~>
        ((IF cut = 0 THEN loop = "magic" /\ k > Len(stream) ELSE loop = "unfinished") \/ ret = Error)
=============================================================================
