------------------------------- MODULE MCFiles -------------------------------
(***************************************************************************)
(* What the programs do with files, each on its own: the sparse writer     *)
(* (SparseWrite), lz4's compression, decompression and listing of files    *)
(* (FileCompress, DecodeFiles, FileList), the files of the GPU codec       *)
(* (GpuCore), and the pid file and socket of its daemon (DaemonLifecycle). *)
(* `part' says which of them a behaviour is of; the others stay as they    *)
(* are.                                                                    *)
(***************************************************************************)
EXTENDS SparseWrite, SequencesExt

CONSTANTS Parts, CloseMayFail, Daemons, Stops, None, Junk

VARIABLES part,
    prefs, files, out, stage,                                               \* of several
    list, i, had, left, missed_files, allowed, dict,                        \* FileCompress
    multithread, idx, fpos, nbFrames, g_magicRead, result, missingFiles, removed,   \* DecodeFiles
    frames, words, at, frameInfo, cfinfo,                                   \* FileList
    tool, bench, standardCopy, disk, ws, args, bound, prev, job, lane, answer, calls, \* GpuCore
    pidPath, content, flocked, sockPath, fd, handler, running, stop, target, overlapped

-----------------------------------------------------------------------------
(* Compression: a list may name a file twice, and a file and what it is    *)
(* compressed to; b goes to stdout.                                        *)

NamesOnDisk == {"a", "a.lz4", "a.lz4.lz4", "b"}
DstOf(n) == CASE n = "a" -> "a.lz4" [] n = "a.lz4" -> "a.lz4.lz4" [] n = "b" -> "stdout"
BlocksOf(n) == IF n = "b" THEN [full |-> 0, part |-> TRUE] ELSE [full |-> 1, part |-> n = "a"]
CommandLines == {<<"a">>, <<"a", "a">>, <<"a", "a.lz4">>, <<"a.lz4", "a">>, <<"b", "b">>}

C == INSTANCE FileCompress WITH Lists <- CommandLines, Dst <- DstOf, Files <- NamesOnDisk, Blocks <- BlocksOf,
        LZ4_MAX_DICT_SIZE <- 3, DictSizes <- {0, 2, 3, 5, 7}

(* Decompression: two files of up to two frames, so that the second is     *)
(* met with whatever the first has left in nbFrames and g_magicRead.       *)

D == INSTANCE DecodeFiles WITH MaxFiles <- 2, MaxFrames <- 2

(* Listing: up to three frames of each type.                               *)

Lz4(block, size, more, bsum, csum, blocks) ==
    [type |-> "lz4", block |-> block, size |-> size, more |-> more, bsum |-> bsum, csum |-> csum, blocks |-> blocks]
Other(type, blocks) ==
    [type |-> type, block |-> "-", size |-> 0, more |-> 0, bsum |-> FALSE, csum |-> FALSE, blocks |-> blocks]
ListedFrames ==
    {Lz4(b, 0, 0, sum, ~sum, <<1, 2>>) : b \in {"B4D", "B7I"}, sum \in BOOLEAN}
    \cup {Lz4("B4D", 5, 2, FALSE, FALSE, <<>>), Lz4("B4D", 7, 3, TRUE, TRUE, <<1>>), Lz4("B7I", 7, 2, TRUE, TRUE, <<1>>)}
    \cup {Other("legacy", <<1, 1>>), Other("skippable", <<2>>), Other("skippable", <<0>>)}
ListedFiles == SeqOf(ListedFrames, 3)

L == INSTANCE FileList WITH file <- words, pos <- at, FrameTables <- ListedFiles, Cut <- TRUE

(* The GPU codec: files of no, one or three blocks, one lane or two.       *)

GpuFileSize == [a |-> 2, b |-> 5, e |-> 0]

G == INSTANCE GpuCore WITH Slack <- 1, FileSize <- GpuFileSize, BlockSizes <- {2, 5}, KB64 <- 2, Epochs <- 7,
        CompWorkers <- 2, DecompWorkers <- 1, DictBudget <- 4, LocalSizes <- {1, 2}, CompressedSizes <- {1, 2},
        MaxRequests <- 3

(* Three daemons started in turn or together, and one stop command.        *)

P == INSTANCE DaemonLifecycle

Symmetry == Permutations(Daemons)

ASSUME D!FilesAssumption /\ G!SlackAssumption /\ G!GpuCoreAssumption /\ None \notin Daemons

-----------------------------------------------------------------------------
shared == <<prefs, files, out, stage>>
compressing == <<list, i, had, left, missed_files, allowed, dict>>
decompressing == <<multithread, idx, fpos, nbFrames, g_magicRead, missingFiles, removed>>
listing == <<frames, words, at, frameInfo, cfinfo>>
gpu == <<tool, bench, standardCopy, disk, ws, args, bound, prev, job, lane, answer, calls>>
daemon == <<pidPath, content, flocked, sockPath, fd, handler, running, stop, target, overlapped>>
all == <<part, vars, shared, result, compressing, decompressing, listing, gpu, daemon>>

NoWriting == Init /\ ~sparse
NoCompressing == list = 0 /\ i = 0 /\ had = 0 /\ left = 0 /\ missed_files = 0 /\ allowed = 0 /\ dict = 0
NoDecompressing == /\ multithread = 0 /\ idx = 0 /\ fpos = 0 /\ nbFrames = 0 /\ g_magicRead = 0
                   /\ missingFiles = 0 /\ removed = 0
NoListing == frames = 0 /\ words = 0 /\ at = 0 /\ frameInfo = 0 /\ cfinfo = 0
NoGpu == /\ tool = 0 /\ bench = 0 /\ standardCopy = 0 /\ disk = 0 /\ ws = 0 /\ args = 0 /\ bound = 0
         /\ prev = 0 /\ job = 0 /\ lane = 0 /\ answer = 0 /\ calls = 0
NoDaemon == /\ pidPath = 0 /\ content = 0 /\ flocked = 0 /\ sockPath = 0 /\ fd = 0 /\ handler = 0
            /\ running = 0 /\ stop = 0 /\ target = 0 /\ overlapped = 0

InitAll ==
    /\ part \in Parts
    /\ \/ /\ part = "write" /\ Init /\ prefs = 0 /\ files = 0 /\ out = 0 /\ stage = 0 /\ result = 0
          /\ NoCompressing /\ NoDecompressing /\ NoListing /\ NoGpu /\ NoDaemon
       \/ /\ part = "compress" /\ C!Init /\ result = 0
          /\ NoWriting /\ NoDecompressing /\ NoListing /\ NoGpu /\ NoDaemon
       \/ /\ part = "decompress" /\ D!Init
          /\ NoWriting /\ NoCompressing /\ NoListing /\ NoGpu /\ NoDaemon
       \/ /\ part = "list" /\ L!Init /\ prefs = 0 /\ files = 0 /\ out = 0
          /\ NoWriting /\ NoCompressing /\ NoDecompressing /\ NoGpu /\ NoDaemon
       \/ /\ part = "gpu" /\ G!Init /\ prefs = 0 /\ files = 0 /\ out = 0 /\ stage = 0 /\ result = 0
          /\ NoWriting /\ NoCompressing /\ NoDecompressing /\ NoListing /\ NoDaemon
       \/ /\ part = "daemon" /\ P!Init /\ prefs = 0 /\ files = 0 /\ out = 0 /\ result = 0
          /\ NoWriting /\ NoCompressing /\ NoDecompressing /\ NoListing /\ NoGpu

NextAll ==
    /\ UNCHANGED part
    /\ \/ /\ part = "write" /\ Next
          /\ UNCHANGED <<shared, result, compressing, decompressing, listing, gpu, daemon>>
       \/ /\ part = "compress" /\ C!Next
          /\ UNCHANGED <<vars, result, decompressing, listing, gpu, daemon>>
       \/ /\ part = "decompress" /\ D!Next
          /\ UNCHANGED <<vars, compressing, listing, gpu, daemon>>
       \/ /\ part = "list" /\ L!Next
          /\ UNCHANGED <<vars, prefs, files, out, compressing, decompressing, gpu, daemon>>
       \/ /\ part = "gpu" /\ G!Next
          /\ UNCHANGED <<vars, shared, result, compressing, decompressing, listing, daemon>>
       \/ /\ part = "daemon" /\ P!Next
          /\ UNCHANGED <<vars, prefs, files, out, result, compressing, decompressing, listing, gpu>>

SpecAll == InitAll /\ [][NextAll]_all

-----------------------------------------------------------------------------
\* LZ4IO_fwriteSparse keeps its skips in the range fseek is given, and the file is
\* complete once none is pending: SkipsBounded and CompleteAtEnd of SparseWrite.
WriterComplete == SkipsBounded /\ CompleteAtEnd

\* Compression loses no source (LZ4IO_compressFilename_extRess_ST, --rm included), exit
\* status 0 means whole frames, and the dictionary LZ4IO_createDict loads is the end of
\* its file: FilesKept and DictIsTail of FileCompress.
CompressedFilesRight == part = "compress" => C!FilesKept /\ C!DictIsTail

\* --rm deletes a source "after successful de/compression" (lz4cli.c): what a source held
\* is still on disk, as it was or compressed: SourcesKept of FileCompress.
SourcesKept == part = "compress" => C!SourcesKept

\* Files LZ4IO_decompressSrcFile reports as decompressed are, concatenated frames are
\* decoded, and a file starts without what an earlier one left in static variables:
\* ReportedFilesAreDecoded, ConcatenationDecodes and CarriedState of DecodeFiles.
DecompressedFilesRight ==
    part = "decompress" => D!ReportedFilesAreDecoded /\ D!ConcatenationDecodes /\ D!CarriedState

\* --list says what a file's frames are, walking over their blocks (LZ4IO_getCompressedFileInfo):
\* ListingRight of FileList.
ListingRight == part = "list" => L!ListingRight

\* An answer of 0 of lz4_compress_core and lz4_decompress_core can be relied on:
\* AnswersHold of GpuCore.
AnswersHold == part = "gpu" => G!AnswersHold

\* The lanes' buffers, arguments and tables are those of the request: LanesSound of GpuCore.
LanesSound == part = "gpu" => G!LanesSound

\* The lock on the pid file (create_pidfile of the daemon) keeps daemons apart, one that
\* is refused is refused rightly, and one started alone gets its socket:
\* LockGuardsDaemon, RefusalIsRight and RestartWorks of DaemonLifecycle.
OneDaemonServes ==
    [][part = "daemon" => P!LockGuardsDaemon' /\ P!RefusalIsRight /\ P!RestartWorks]_all
=============================================================================
