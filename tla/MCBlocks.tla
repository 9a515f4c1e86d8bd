------------------------------- MODULE MCBlocks -------------------------------
(***************************************************************************)
(* Blocks, on the CPU and on the GPU: compression (BlockStream and         *)
(* GpuCompress) and decompression (BlockDecode), each on its own.  `part'  *)
(* says which of them a behaviour is of; the variables of the other are    *)
(* not used.                                                               *)
(***************************************************************************)
EXTENDS GpuCompress

CONSTANTS Parts, Builds

VARIABLES part, build, lz4sd, dNext, blocks

-----------------------------------------------------------------------------
(* Compression with a window of 32 bytes.  Texts with a short period, with *)
(* a long one, and two that agree at first and differ later: an index that *)
(* is stale then leads to bytes that are similar and wrong.                *)

Letter(i) == <<1, 2, 3, 4, 5, 1, 2, 3, 4, 6>>[(i % 10) + 1]
MCTexts == {[i \in 1..40 |-> Letter(i)], [i \in 1..40 |-> IF i % 20 < 9 THEN Letter(i) ELSE 7 + (i % 4)]}
MCDictionaries == {[i \in 1..12 |-> Letter(i + 3)]}
MCHashOf(b) == (b[1] + 2 * b[2] + b[4]) % HashSize
MCSizes == {0, 14, 37}

-----------------------------------------------------------------------------
(* Decompression: blocks of literals, which move the stream to a place,    *)
(* and blocks with a match, so that every path of the decoder meets every  *)
(* distance between what it copies and where.                              *)

Matching(L, O, M, T) ==
    {[seqs |-> <<[ll |-> l, off |-> o, ml |-> n]>>, last |-> t] : l \in L, o \in O, n \in M, t \in T}
Literal == {[seqs |-> <<>>, last |-> n] : n \in {23, 38, 120}}
MCDecodeBlocks == <<Literal, Literal, Matching({0, 15, 33}, {1, 3, 7, 8, 127}, {4, 19, 34}, {5, 12, 66}),
                    Matching({0, 33}, {127}, {20}, {66})>>
MCGpuBlocks ==
    {[seqs |-> <<[ll |-> l, off |-> o, ml |-> n], [ll |-> k, off |-> q, ml |-> i]>>, last |-> t] :
        l \in {9, 33}, o \in {1, 4, 9}, n \in {8, 19}, k \in {0, 14, 17}, q \in {2, 3, 6, 11, 33}, i \in {5, 17, 18, 30}, t \in {5, 8, 21}}

\* The safe loop alone with the documented margin, and the fast loop with one that is large enough.
MCBuilds == {[fast |-> FALSE, margin |-> 14], [fast |-> TRUE, margin |-> 29]}
Documented == {[fast |-> TRUE, margin |-> 14]}

D == INSTANCE BlockDecode WITH KB64 <- 128, MaxBlock <- 120, Blocks <- MCDecodeBlocks, GpuBlocks <- MCGpuBlocks

ASSUME WindowAssumption /\ StreamAssumption /\ GpuAssumption /\ D!DecodeAssumption

-----------------------------------------------------------------------------
compression == <<lz4, dictStream, pos, phase>>
decompression == <<build, lz4sd, dNext, blocks>>
all == <<part, mem, stream, calls, last, compression, decompression>>
NoCompression == lz4 = 0 /\ dictStream = 0 /\ pos = 0 /\ phase = 0
NoDecompression == build = 0 /\ lz4sd = 0 /\ dNext = 0 /\ blocks = 0

InitAll ==
    /\ part \in Parts
    /\ \/ part = "compress" /\ GpuInit /\ NoDecompression
       \/ part = "decode" /\ D!Init /\ calls = 0 /\ NoCompression

NextAll ==
    \/ part = "compress" /\ GpuNext /\ UNCHANGED <<part, decompression>>
    \/ part = "decode" /\ D!Next /\ UNCHANGED <<part, calls, compression>>

SpecAll == InitAll /\ [][NextAll]_all

-----------------------------------------------------------------------------
\* Whatever the blocks lie on in memory and whatever dictionary was loaded, attached or
\* saved, each block LZ4_compress_fast_continue and its relatives write decodes to the
\* data compressed: BlocksRight of BlockStream, on the CPU and on the GPU.
CompressedRight == part = "compress" => BlocksRight

\* LZ4_compress_generic never reads a candidate outside of the data that is still
\* there: CandidatesReadable of BlockStream, tables renormalised and reused.
CandidatesInReach == part = "compress" => CandidatesReadable

\* LZ4_decompress_safe_continue and its relatives decode each block to what the
\* format says: BlocksDecode of BlockDecode.
BlocksDecode == part = "decode" => D!BlocksDecode

\* They write only between the destination and its end: DestinationRespected of BlockDecode.
DestinationRespected == part = "decode" => D!DestinationRespected
=============================================================================
