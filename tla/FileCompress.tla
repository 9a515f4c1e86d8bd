----------------------------- MODULE FileCompress -----------------------------
(***************************************************************************)
(* Compression of a list of files in programs/lz4io.c: the resources and   *)
(* the dictionary (LZ4IO_createCResources, LZ4IO_createDict), the opening  *)
(* of source and destination, the frame written block by block             *)
(* (LZ4IO_compressFilename_extRess_ST; LZ4IO_compressLegacy_internal), the *)
(* closing of the files and --rm, and the count of missed files.  How the  *)
(* threads of the _MT variant write the same frame is CompressMT's.        *)
(***************************************************************************)
EXTENDS Integers, Sequences

CONSTANTS Lists,                \* the sequences of source names of a command line
          Dst(_),               \* a source's destination: its name and the suffix, or stdout
          Files,                \* the names on disk
          Blocks(_),            \* full blocks of a file, and whether a shorter one follows
          CloseMayFail,         \* may the bytes a stream still holds be lost when it is closed?
          LZ4_MAX_DICT_SIZE, DictSizes

VARIABLES prefs,                \* overwrite, rm, quiet (display level <= 1), legacy
          list, i,              \* the command line, and the file being compressed
          had, files,           \* the files there were, and what each name holds now
          out,                  \* what went to stdout
          stage, left,          \* of the file: blocks read and not written
          missed_files,
          allowed,              \* what the user let go: contents whose file may be overwritten
          dict                  \* the dictionary file, the circular buffer, the dictionary

vars == <<prefs, list, i, had, files, out, stage, left, missed_files, allowed, dict>>

NoFile == [id |-> "none", depth |-> 0, whole |-> FALSE]
Frame(c, whole) == [id |-> c.id, depth |-> c.depth + 1, whole |-> whole]
stdoutmark == "stdout"

src == list[i]
dst == Dst(src)

Init ==
    /\ prefs \in [overwrite : BOOLEAN, rm : BOOLEAN, quiet : BOOLEAN, legacy : BOOLEAN]
    /\ list \in Lists /\ i = 1
    /\ had \in SUBSET Files
    /\ files = [n \in Files |-> IF n \in had THEN [id |-> n, depth |-> 0, whole |-> TRUE] ELSE NoFile]
    /\ out = <<>> /\ stage = (IF prefs.legacy THEN "open" ELSE "dict") /\ left = 0 /\ missed_files = 0 /\ allowed = {}
    /\ \E n \in DictSizes : \E pos \in {0, IF n >= LZ4_MAX_DICT_SIZE THEN n - LZ4_MAX_DICT_SIZE ELSE 0} :
           dict = [size |-> n, pos |-> pos, buf |-> [k \in 0..(LZ4_MAX_DICT_SIZE - 1) |-> 0], end |-> 0, len |-> 0,
                   ready |-> <<>>]

-----------------------------------------------------------------------------
(* LZ4IO_createDict: byte k of the file is k                               *)

ReadDict ==
    LET n == dict.size - dict.pos
        readSize == IF n < LZ4_MAX_DICT_SIZE - dict.end THEN n ELSE LZ4_MAX_DICT_SIZE - dict.end
    IN  /\ stage = "dict" /\ readSize > 0
        /\ dict' = [dict EXCEPT !.pos = @ + readSize, !.len = @ + readSize,
                                !.end = (@ + readSize) % LZ4_MAX_DICT_SIZE,
                                !.buf = [k \in DOMAIN dict.buf |-> IF k \in dict.end..(dict.end + readSize - 1)
                                             THEN dict.pos + (k - dict.end) + 1 ELSE dict.buf[k]]]
        /\ UNCHANGED <<prefs, list, i, had, files, out, stage, left, missed_files, allowed>>

DictStart(end, len) == (LZ4_MAX_DICT_SIZE + end - len) % LZ4_MAX_DICT_SIZE

\* The end of the file: the bytes from dictStart on, then those before it.
LZ4IO_createDict ==
    LET len == IF dict.len > LZ4_MAX_DICT_SIZE THEN LZ4_MAX_DICT_SIZE ELSE dict.len
        start == DictStart(dict.end, len)
    IN  /\ stage = "dict" /\ dict.pos = dict.size
        /\ dict' = [dict EXCEPT !.len = len,
                                !.ready = [k \in 1..len |-> dict.buf[(start + k - 1) % LZ4_MAX_DICT_SIZE]]]
        /\ stage' = "open"
        /\ UNCHANGED <<prefs, list, i, had, files, out, left, missed_files, allowed>>

-----------------------------------------------------------------------------
(* Opening                                                                 *)

Exists(n) == n # stdoutmark /\ files[n] # NoFile

\* The source cannot be opened, or the destination exists and may not be replaced, or cannot be created.
Missed ==
    /\ stage = "open" /\ i <= Len(list)
    /\ i' = i + 1 /\ missed_files' = missed_files + 1
    /\ UNCHANGED <<prefs, list, had, files, out, stage, left, allowed, dict>>

\* LZ4IO_openDstFile's check: a destination that exists is replaced with -f, or if the user says so.
MayOpenDst(answer) == ~prefs.overwrite /\ Exists(dst) => ~prefs.quiet /\ answer

\* What the user answered, or said beforehand with -f: the content that goes.
LetGo(answer) == IF Exists(dst) /\ (prefs.overwrite \/ (~prefs.quiet /\ answer)) THEN {files[dst].id} ELSE {}

Opened(answer) ==
    /\ stage = "open" /\ i <= Len(list) /\ Exists(src)
    /\ MayOpenDst(answer)
    /\ allowed' = allowed \cup LetGo(answer)
    /\ files' = IF dst = stdoutmark THEN files ELSE [files EXCEPT ![dst] = Frame(files[src], FALSE)]
    /\ stage' = "first"
    /\ UNCHANGED <<prefs, list, i, had, out, left, missed_files, dict>>

-----------------------------------------------------------------------------
(* The frame                                                               *)

\* END_PROCESS: the dictionary cannot be opened, a read or a write failed, the source cannot be removed.
Exit ==
    /\ stage \in {"dict", "first", "blocks", "remove"}
    /\ stage' = "exit"
    /\ UNCHANGED <<prefs, list, i, had, files, out, left, missed_files, allowed, dict>>

\* The first block is read: all there is goes in one frame, or the header is written.
ReadFirst ==
    /\ stage = "first"
    /\ LET b == Blocks(files[src].id)
       IN  IF b.full = 0 /\ ~prefs.legacy THEN stage' = "close" /\ left' = 0
           ELSE stage' = "blocks" /\ left' = b.full + (IF b.part THEN 1 ELSE 0)
    /\ UNCHANGED <<prefs, list, i, had, files, out, missed_files, allowed, dict>>

\* A block is compressed and written, and the next one read.
CompressBlock ==
    /\ stage = "blocks" /\ left > 0
    /\ left' = left - 1
    /\ UNCHANGED <<prefs, list, i, had, files, out, stage, missed_files, allowed, dict>>

\* Mutant: a read that fails is taken for the end of the file.
NoMoreBlocksOrError == stage = "blocks"

\* fread returned 0, and not because of an error.
NoMoreBlocks == stage = "blocks" /\ left = 0

WriteEnd ==
    /\ NoMoreBlocks
    /\ stage' = "close"
    /\ UNCHANGED <<prefs, list, i, had, files, out, left, missed_files, allowed, dict>>

\* The chain of read jobs of the legacy format ends at a read that fails, as at the end of the file.
LegacyReadFails ==
    /\ stage = "blocks" /\ prefs.legacy /\ left > 0
    /\ stage' = "close"
    /\ UNCHANGED <<prefs, list, i, had, files, out, left, missed_files, allowed, dict>>

\* The files are closed.  Nobody looks at what fclose answers.
Close ==
    /\ stage = "close"
    /\ \E lost \in {FALSE, CloseMayFail} :
           LET frame == Frame(files[src], files[src].whole /\ left = 0 /\ ~lost)
           IN  IF dst = stdoutmark THEN out' = Append(out, frame) /\ files' = files
               ELSE files' = [files EXCEPT ![dst] = frame] /\ out' = out
    /\ IF prefs.rm /\ ~prefs.legacy THEN stage' = "remove" /\ i' = i ELSE stage' = "open" /\ i' = i + 1
    /\ UNCHANGED <<prefs, list, had, left, missed_files, allowed, dict>>

\* remove(srcFileName)
RemoveSrc ==
    /\ stage = "remove"
    /\ files' = [files EXCEPT ![src] = NoFile]
    /\ stage' = "open" /\ i' = i + 1
    /\ UNCHANGED <<prefs, list, had, out, left, missed_files, allowed, dict>>

Return ==
    /\ stage = "open" /\ i > Len(list)
    /\ stage' = "done"
    /\ UNCHANGED <<prefs, list, i, had, files, out, left, missed_files, allowed, dict>>

Next ==
    \/ ReadDict \/ LZ4IO_createDict
    \/ Missed \/ (\E answer \in BOOLEAN : Opened(answer))
    \/ ReadFirst \/ CompressBlock \/ WriteEnd \/ LegacyReadFails \/ Exit \/ Close \/ RemoveSrc \/ Return

Spec == Init /\ [][Next]_vars

-----------------------------------------------------------------------------
TypeOK ==
    /\ i \in 1..(Len(list) + 1) /\ left \in Nat /\ missed_files \in 0..Len(list)
    /\ stage \in {"dict", "open", "first", "blocks", "close", "remove", "done", "exit"}
    /\ \A n \in Files : files[n] = NoFile \/ files[n].id \in had

Holds(n, depth) ==
    \/ \E f \in Files : files[f].id = n /\ files[f].whole /\ files[f].depth >= depth
    \/ \E k \in DOMAIN out : out[k].id = n /\ out[k].whole

\* Whatever fails, in whichever order the names come and whichever of them is
\* another's destination, the content of every file there was is still in a
\* file or in a whole frame (with --rm, the source goes only then), unless the
\* user let its file be overwritten.
SourcesKept == \A n \in had : n \in allowed \/ Holds(n, 0)

\* Nothing is lost, and exit status 0 means that every source named has its
\* whole frame (not in the legacy format, where a failed read goes unnoticed).
FilesKept ==
    /\ TypeOK
    /\ SourcesKept
    /\ stage = "done" /\ missed_files = 0 /\ ~prefs.legacy => \A k \in DOMAIN list : list[k] \in had \ allowed => Holds(list[k], 1)

\* However the file is read into the circular buffer, from its beginning or
\* from where the seek went, the dictionary is its last 64 KB, in order.
DictIsTail ==
    stage = "open" /\ ~prefs.legacy =>
        LET n == IF dict.size < LZ4_MAX_DICT_SIZE THEN dict.size ELSE LZ4_MAX_DICT_SIZE
        IN  dict.ready = [k \in 1..n |-> dict.size - n + k]

=============================================================================
