---------------------------- MODULE MCCompression ----------------------------
(***************************************************************************)
(* Compression above the level of blocks, each part on its own: frames and *)
(* files of frames (FrameCompress, FrameFile), the state of a stream of    *)
(* the HC compressor (HcStream), its parsers (HcParse) and its search      *)
(* (HcSearch); and the history that the decoder of frames keeps            *)
(* (FrameHistory).  `part' says which of them a behaviour is of; the       *)
(* variables of the others are not used.                                   *)
(***************************************************************************)
EXTENDS FrameFile

CONSTANT Parts

VARIABLES part,
    mem, last, dict,                                                        \* of several
    ctx, hist, clock, rest, calls,                                          \* HcStream
    job, s,                                                                 \* HcParse
    byte, prefix, attached, tables, nextToUpdate, dictCtx,                  \* HcSearch
    predefined, dictSize, tmpOut, tmpOutStart, tmpOutSize, stage,           \* FrameHistory
    busy, stableDst, dstStart, dstPtr, dstEnd, pinned, delivered, faults

-----------------------------------------------------------------------------
(* Frames: 64 KB is three bytes, and so is a block, or it is one more.     *)

Preferences(linked, autoFlush, hcs, dicts) ==
    [bs : {3}, linked : {linked}, autoFlush : {autoFlush}, hc : hcs, blockChecksum : {TRUE},
     contentChecksum : {TRUE}, dict : dicts, contentSize : {0}]

MCPrefs == Preferences(TRUE, FALSE, BOOLEAN, {"none", "cdict", "buffer"})
    \cup Preferences(TRUE, TRUE, BOOLEAN, {"cdict"})
    \cup Preferences(FALSE, FALSE, BOOLEAN, {"cdict"})
    \cup {[p EXCEPT !.bs = 4, !.contentSize = 5] : p \in Preferences(TRUE, FALSE, {FALSE}, {"none"})}

(* Streams: indices reach 2 GB, and start again, within four calls.        *)

S == INSTANCE HcStream WITH KB64 <- 5, KB4 <- 3, OneGB <- 10, TwoGB <- 14, HashSize <- 4, Memory <- 6, DictAt <- 7,
        DictSize <- 5, Sizes <- {3, 5}, AnyRest <- FALSE, AnySave <- FALSE, MaxCalls <- 4

(* Parsers: inputs just long enough for several matches that overlap, and  *)
(* outputs that are too small for them.                                    *)

J(ps, ns, ls, cs, fs) == [parser : ps, n : ns, limit : ls, cap : cs, full : fs, fav : fs]
ParserCalls ==
    J({"hc"}, {28}, {"notLimited"}, {0}, {FALSE})
    \cup J({"hc"}, {24}, {"fillOutput", "limitedOutput"}, {11, 13, 16}, {FALSE})
    \cup J({"mid"}, {12, 13, 18}, {"notLimited", "fillOutput", "limitedOutput"}, {1, 12, 15, 17, 19}, {FALSE})
    \cup J({"opt"}, {19}, {"notLimited"}, {0}, BOOLEAN)
    \cup J({"opt"}, {19}, {"fillOutput", "limitedOutput"}, {11, 13}, {FALSE})

P == INSTANCE HcParse WITH Jobs <- ParserCalls, OPTIMAL_ML <- 6, sufficient_len <- 9, LZ4_OPT_NUM <- 12

(* Searches: all texts of nine bytes, each zero or one.                     *)

M == INSTANCE HcSearch WITH MINMATCH <- 3, LZ4_DISTANCE_MAX <- 7, Alphabet <- {0, 1}, Length <- 9,
        Layouts <- {<<0, 4>>, <<2, 5>>, <<3, 3>>}, LASTLITERALS <- 1, Near <- 2, Attempts <- {1, 20}

(* The decoder's history: 64 KB is three cells, blocks are larger, and a   *)
(* frame is some windows long.                                             *)

H == INSTANCE FrameHistory WITH W <- 3, maxBlockSize <- 4, maxBufferSize <- 10, DictSizes <- {0, 4},
        MaxRoom <- 5, MaxOutput <- 6

ASSUME P!ParseAssumption /\ M!SearchAssumption /\ H!HistoryAssumption

-----------------------------------------------------------------------------
streaming == <<ctx, hist, clock, rest, calls>>
parsing == <<job, s>>
searching == <<byte, prefix, attached, tables, nextToUpdate, dictCtx>>
decoding == <<predefined, dictSize, tmpOut, tmpOutStart, tmpOutSize, stage, busy, stableDst,
              dstStart, dstPtr, dstEnd, pinned, delivered, faults>>
all == <<part, fvars, mem, last, dict, streaming, parsing, searching, decoding>>

NoFrame == cctx = 0 /\ call = 0 /\ wf = 0
NoStream == ctx = 0 /\ hist = 0 /\ clock = 0 /\ rest = 0 /\ calls = 0
NoParse == job = 0 /\ s = 0
NoSearch == byte = 0 /\ prefix = 0 /\ attached = 0 /\ tables = 0 /\ nextToUpdate = 0 /\ dictCtx = 0
NoHistory == /\ predefined = 0 /\ dictSize = 0 /\ tmpOut = 0 /\ tmpOutStart = 0 /\ tmpOutSize = 0 /\ stage = 0
             /\ busy = 0 /\ stableDst = 0 /\ dstStart = 0 /\ dstPtr = 0 /\ dstEnd = 0 /\ pinned = 0
             /\ delivered = 0 /\ faults = 0

InitAll ==
    /\ part \in Parts
    /\ \/ /\ part = "frame" /\ FileInit /\ mem = 0 /\ last = 0 /\ dict = 0
          /\ NoStream /\ NoParse /\ NoSearch /\ NoHistory
       \/ /\ part = "stream" /\ S!Init /\ dict = 0
          /\ NoFrame /\ NoParse /\ NoSearch /\ NoHistory
       \/ /\ part = "parse" /\ P!Init /\ mem = 0 /\ last = 0 /\ dict = 0
          /\ NoFrame /\ NoStream /\ NoSearch /\ NoHistory
       \/ /\ part = "search" /\ M!Init /\ mem = 0
          /\ NoFrame /\ NoStream /\ NoParse /\ NoHistory
       \/ /\ part = "history" /\ H!Init /\ last = 0
          /\ NoFrame /\ NoStream /\ NoParse /\ NoSearch

NextAll ==
    /\ UNCHANGED part
    /\ \/ /\ part = "frame" /\ FileNext
          /\ UNCHANGED <<mem, last, dict, streaming, parsing, searching, decoding>>
       \/ /\ part = "stream" /\ S!Next
          /\ UNCHANGED <<fvars, dict, parsing, searching, decoding>>
       \/ /\ part = "parse" /\ P!Next
          /\ UNCHANGED <<fvars, mem, last, dict, streaming, searching, decoding>>
       \/ /\ part = "search" /\ M!Next
          /\ UNCHANGED <<fvars, mem, streaming, parsing, decoding>>
       \/ /\ part = "history" /\ H!Next
          /\ UNCHANGED <<fvars, last, streaming, parsing, searching>>
       \/ part # "history" /\ UNCHANGED all     \* callers may stop; a decoder may not before the frame ends

SpecAll == InitAll /\ [][NextAll]_all

-----------------------------------------------------------------------------
\* The compressor of frames finds the byte the decoder will have wherever a block may
\* refer to (LZ4F_compressUpdate, LZ4F_localSaveDict): HistoryKept of FrameCompress.
EncoderHistoryKept == part = "frame" => HistoryKept

\* The blocks of a frame hold the input, once and in order, and LZ4F_writeOpen, LZ4F_write
\* and LZ4F_writeClose without an error make a whole frame: FrameWhole of FrameCompress and
\* FileIsFrame of FrameFile.
FramesWhole == part = "frame" => FrameWhole /\ FileIsFrame

\* LZ4F_compressBound is enough ("it's guaranteed that @dstCapacity ... is enough"):
\* BoundSuffices of FrameCompress.
BoundEnough == part = "frame" => BoundSuffices

\* LZ4_compress_HC_continue refers to what the decoder has, and its tables hold no index
\* that is still to come: WindowsRight and IndicesPast of HcStream.
HcStreamsRight == part = "stream" => S!WindowsRight /\ S!IndicesPast

\* The three parsers (LZ4MID_compress, LZ4HC_compress_hashChain, LZ4HC_compress_optimal)
\* write only real matches, and end blocks as the format asks: SequencesReal and
\* BlockEndsWell of HcParse.
ParsersRight == part = "parse" => P!SequencesReal /\ P!BlockEndsWell

\* What LZ4HC_InsertAndGetWiderMatch reports is a match: MatchReal of HcSearch.
MatchReal == part = "search" => M!MatchReal

\* It finds the longest match, its shortcuts notwithstanding: LongestFound of HcSearch.
LongestFound == part = "search" => M!LongestFound

\* LZ4F_decompress keeps the last 64 KB where the next block finds them, delivers every
\* byte, and copies within its buffers: HistoryRight, BytesDelivered and CopiesSafe of
\* FrameHistory.
DecoderHistoryKept == part = "history" => H!HistoryRight /\ H!BytesDelivered /\ H!CopiesSafe
=============================================================================
