------------------------------ MODULE DecodeFiles ------------------------------
(***************************************************************************)
(* Decompression of a list of files in programs/lz4io.c:                   *)
(* LZ4IO_decompressMultipleFilenames, LZ4IO_decompressSrcFile and          *)
(* selectDecoder, with the state they keep between frames and files: the   *)
(* static nbFrames and the global g_magicRead.                             *)
(*                                                                         *)
(* A file is a sequence of frames, possibly followed by data that is none. *)
(* Decoding a frame appends it to the output.                              *)
(***************************************************************************)
EXTENDS Integers, Sequences, SequencesExt

CONSTANTS
    MaxFiles,       \* bound: files on the command line
    MaxFrames,      \* bound: frames in a file
    None

FilesAssumption ==
    MaxFiles \in Nat \ {0} /\ MaxFrames \in Nat

Frames == {"lz4", "legacy", "skippable"}    \* recognised and well-formed
\* Not a frame: a recognised one that cannot be decoded; an unknown magic number,
\* above or within the range of a legacy block size; and less than 4 bytes.
Trailers == {"corrupt", "unknown", "unknownSmall", "short"}

Contents == {s \in SeqOf(Frames \cup Trailers, MaxFrames) :
                \A i \in 1..(Len(s) - 1) : s[i] \in Frames}

VARIABLES
    multithread,    \* LZ4IO_MULTITHREAD: which LZ4IO_decompressLZ4F is built
    prefs,      \* --rm; pass-through with overwrite, as lz4cat sets them; test mode
    files,      \* what is on disk; None: not processed, because the name has another
                \* extension or the source or destination cannot be opened
    idx,        \* the file being decompressed
    fpos,       \* the frame at the read position
    nbFrames, g_magicRead,
    stage,
    out,        \* what each file added to the output
    result,     \* what LZ4IO_decompressSrcFile returned for it
    missingFiles,   \* missingFiles + skippedFiles, the exit status
    removed     \* the sources --rm has removed

vars == <<multithread, prefs, files, idx, fpos, nbFrames, g_magicRead, stage, out, result,
          missingFiles, removed>>

File == files[idx]
AtEnd == fpos > Len(File)
Rest == SubSeq(File, fpos, Len(File))

TypeOK ==
    /\ multithread \in BOOLEAN
    /\ prefs \in [rm : BOOLEAN, passThrough : BOOLEAN, test : BOOLEAN]
    /\ files \in Seq(Contents \cup {None}) /\ Len(files) <= MaxFiles
    /\ idx \in 1..(MaxFiles + 1) /\ fpos \in 1..(MaxFrames + 1)
    /\ nbFrames \in Nat
    /\ g_magicRead \in Frames \cup Trailers \cup {None}
    /\ stage \in {"open", "select", "close", "done", "exit"}
    /\ \A i \in DOMAIN out : out[i] \in Seq(Frames \cup {"raw"})
    /\ result \in [DOMAIN files -> {None, 0, 1}]
    /\ missingFiles \in 0..MaxFiles
    /\ removed \subseteq DOMAIN files

Init ==
    /\ multithread \in BOOLEAN
    /\ prefs \in [rm : BOOLEAN, passThrough : BOOLEAN, test : BOOLEAN]
    /\ files \in UNION {[1..n -> Contents \cup {None}] : n \in 1..MaxFiles}
    /\ idx = 1 /\ fpos = 1
    /\ nbFrames = 0 /\ g_magicRead = None
    /\ stage = "open"
    /\ out = [i \in DOMAIN files |-> <<>>]
    /\ result = [i \in DOMAIN files |-> None]
    /\ missingFiles = 0 /\ removed = {}

-----------------------------------------------------------------------------
(* LZ4IO_decompressSrcFile                                                 *)

NextFile(status) ==
    /\ result' = [result EXCEPT ![idx] = status]
    /\ missingFiles' = missingFiles + status
    /\ idx' = idx + 1 /\ fpos' = 1
    /\ stage' = IF idx = Len(files) THEN "done" ELSE "open"

Open ==
    /\ stage = "open"
    /\ IF File = None
       THEN NextFile(1)
       ELSE stage' = "select" /\ UNCHANGED <<result, missingFiles, idx, fpos>>
    /\ UNCHANGED <<multithread, prefs, files, nbFrames, g_magicRead, out, removed>>

\* The stream has ended, or selectDecoder returned DECODING_ERROR; --rm does
\* not look at which.
Close ==
    /\ stage = "close"
    /\ removed' = IF prefs.rm THEN removed \cup {idx} ELSE removed
    /\ NextFile(IF AtEnd THEN 0 ELSE 1)
    /\ UNCHANGED <<multithread, prefs, files, nbFrames, g_magicRead, out>>

-----------------------------------------------------------------------------
(* selectDecoder: one call.  `magic' is the magic number it has read.      *)

magic == IF g_magicRead # None THEN g_magicRead ELSE File[fpos]
Write(frames) == out' = [out EXCEPT ![idx] = @ \o frames]

\* Every call starts with nbFrames++ and consumes g_magicRead.
Selecting == stage = "select" /\ (g_magicRead # None \/ ~AtEnd)
Selected == nbFrames' = nbFrames + 1
files0 == <<multithread, prefs, files, idx, result, missingFiles, removed>>

\* Mutant: nbFrames is not reset.
EndOfStreamCounted ==
    /\ stage = "select" /\ g_magicRead = None /\ AtEnd
    /\ Selected /\ stage' = "close"
    /\ UNCHANGED <<files0, fpos, g_magicRead, out>>

EndOfStream ==
    /\ stage = "select" /\ g_magicRead = None /\ AtEnd
    /\ nbFrames' = 0 /\ stage' = "close"
    /\ UNCHANGED <<files0, fpos, g_magicRead, out>>

\* The single-threaded LZ4IO_decompressLZ4F stops after one frame.
DecodeOneLZ4F ==
    /\ Selecting /\ magic = "lz4" /\ ~multithread
    /\ Selected /\ g_magicRead' = None
    /\ Write(<<"lz4">>) /\ fpos' = fpos + 1
    /\ UNCHANGED <<files0, stage>>

\* The multi-threaded one feeds the whole rest of the file to LZ4F_decompress,
\* which knows LZ4 and skippable frames only.
DecodeAllLZ4F ==
    /\ Selecting /\ magic = "lz4" /\ multithread
    /\ Selected /\ g_magicRead' = None
    /\ LET known == \A i \in 1..Len(Rest) : Rest[i] \in {"lz4", "skippable"} IN
       IF known
       THEN /\ Write(SelectSeq(Rest, LAMBDA f : f = "lz4"))
            /\ fpos' = Len(File) + 1 /\ UNCHANGED stage
       ELSE stage' = "exit" /\ UNCHANGED <<out, fpos>>
    /\ UNCHANGED files0

\* LZ4IO_decodeLegacyStream ends at the end of the file, or at a word that is
\* too large for a block size: the magic number of the next frame, perhaps.
DecodeLegacy ==
    /\ Selecting /\ magic = "legacy"
    /\ Selected
    /\ Write(<<"legacy">>) /\ fpos' = fpos + 1
    /\ IF fpos < Len(File) /\ File[fpos + 1] \in {"unknownSmall", "short"}
       THEN stage' = "exit" ELSE UNCHANGED stage
    /\ g_magicRead' = IF fpos < Len(File) THEN File[fpos + 1] ELSE None
    /\ UNCHANGED files0

SkipFrame ==
    /\ Selecting /\ magic = "skippable"
    /\ Selected /\ g_magicRead' = None
    /\ fpos' = fpos + 1
    /\ UNCHANGED <<files0, out, stage>>

\* END_PROCESS: the frame cannot be decoded, or the magic number not be read.
Fail ==
    /\ Selecting /\ magic \in {"corrupt", "short"}
    /\ Selected /\ g_magicRead' = None /\ stage' = "exit"
    /\ UNCHANGED <<files0, fpos, out>>

Unrecognised == Selecting /\ magic \in {"unknown", "unknownSmall"}

\* An unknown magic number "at the beginning of 1st stream".
PassThrough ==
    /\ Unrecognised /\ nbFrames = 0
    /\ IF prefs.passThrough /\ ~prefs.test
       THEN Write(<<"raw">>) /\ fpos' = Len(File) + 1 /\ UNCHANGED stage
       ELSE stage' = "exit" /\ UNCHANGED <<fpos, out>>
    /\ nbFrames' = 0 /\ g_magicRead' = None
    /\ UNCHANGED files0

\* An unknown one later: DECODING_ERROR, with nbFrames left as it is.
DecodingError ==
    /\ Unrecognised /\ nbFrames # 0
    /\ Selected /\ g_magicRead' = None /\ stage' = "close"
    /\ UNCHANGED <<files0, fpos, out>>

selectDecoder ==
    \/ EndOfStream \/ DecodeOneLZ4F \/ DecodeAllLZ4F \/ DecodeLegacy \/ SkipFrame
    \/ Fail \/ PassThrough \/ DecodingError

-----------------------------------------------------------------------------
Terminated == stage \in {"done", "exit"} /\ UNCHANGED vars

Next == Open \/ Close \/ selectDecoder \/ Terminated

Spec == Init /\ [][Next]_vars

-----------------------------------------------------------------------------
Decoded(content) == SelectSeq(content, LAMBDA f : f \in {"lz4", "legacy"})

\* A file reported as decompressed has all of its frames in the output, in
\* order; or it starts with no frame at all and was passed through untouched.
\* --rm leaves the source alone when decoding ends the process in the middle of it.
ReportedFilesAreDecoded ==
    /\ \A i \in DOMAIN files : result[i] = 0 =>
        \/ out[i] = Decoded(files[i]) /\ \A k \in 1..Len(files[i]) : files[i][k] \in Frames
        \/ /\ prefs.passThrough /\ ~prefs.test /\ out[i] = <<"raw">>
           /\ files[i][1] \in {"unknown", "unknownSmall"}
    /\ \A i \in removed : result[i] # None

\* g_magicRead, the out-parameter of LZ4IO_decodeLegacyStream, is consumed in
\* the file it was read from and names the frame at the read position; when
\* LZ4IO_passThrough copies the four bytes of MNstore they have been read.
MagicOfThisFile ==
    g_magicRead # None =>
        /\ stage \in {"select", "exit"} /\ ~AtEnd /\ File[fpos] = g_magicRead
        /\ nbFrames > 0

\* "lz4 will decompress such files as if they were a single .lz4 file" (lz4.1.md,
\* concatenation): a sequence of well-formed frames is decoded.  The multi-threaded
\* build does so only when no legacy frame comes after an LZ4 frame.
ConcatenationDecodes ==
    (\A i \in DOMAIN files :
        /\ files[i] # None /\ \A k \in 1..Len(files[i]) : files[i][k] \in Frames
        /\ multithread => \A k, l \in 1..Len(files[i]) :
                              k < l /\ files[i][k] = "lz4" => files[i][l] # "legacy")
    => stage # "exit" /\ missingFiles = 0

\* nbFrames tells if decoding has "just started" (selectDecoder's comment): at
\* the first frame of a file nothing has been counted yet, unless an earlier file
\* ended in DECODING_ERROR, which leaves the count behind.
JustStarted ==
    stage = "select" /\ fpos = 1 /\ g_magicRead = None =>
        nbFrames = 0 \/ \E i \in 1..(idx - 1) : files[i] # None /\ result[i] = 1

\* What one file leaves behind in static and global variables does not reach the next.
CarriedState == TypeOK /\ MagicOfThisFile /\ JustStarted
=============================================================================
