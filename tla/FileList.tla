------------------------------- MODULE FileList -------------------------------
(***************************************************************************)
(* lz4 --list in programs/lz4io.c: LZ4IO_getCompressedFileInfo walks over  *)
(* the frames of a file, reading headers and seeking over the data, and    *)
(* LZ4IO_displayCompressedFilesInfo prints the summary.                    *)
(*                                                                         *)
(* A file is a sequence of words: magic numbers, headers, block sizes,     *)
(* data, end marks and checksums.  A size n stands for n words of data.    *)
(***************************************************************************)
EXTENDS Integers, Sequences, SequencesExt, FiniteSetsExt

CONSTANTS FrameTables,          \* the files there are, as sequences of frames
          Cut                   \* may a file end before its last frame does?

VARIABLES frames, file,         \* what was written, and its words
          pos,                  \* the read position, in words
          stage,                \* magic, blocks, legacy, end
          frameInfo,            \* of the frame being read
          cfinfo,               \* the summary
          result

vars == <<frames, file, pos, stage, frameInfo, cfinfo, result>>

-----------------------------------------------------------------------------
(* Files                                                                   *)

Data(n) == [k \in 1..n |-> [word |-> "data"]]
Block(f, n) == <<[word |-> "size", n |-> n]>> \o Data(n) \o (IF f.bsum THEN <<[word |-> "sum"]>> ELSE <<>>)

\* Two words of header (LZ4F_HEADER_SIZE_MIN, the magic number included), and those with a
\* content size and a dictionary ID: f.more.
Words(f) ==
    CASE f.type = "lz4" -> <<[word |-> "lz4"], [word |-> "header", of |-> f]>> \o Data(f.more)
                           \o FlattenSeq([k \in DOMAIN f.blocks |-> Block(f, f.blocks[k])])
                           \o <<[word |-> "size", n |-> 0]>> \o (IF f.csum THEN <<[word |-> "sum"]>> ELSE <<>>)
      [] f.type = "legacy" -> <<[word |-> "legacy"]>> \o FlattenSeq([k \in DOMAIN f.blocks |-> Block(f, f.blocks[k])])
      [] f.type = "skippable" -> <<[word |-> "skippable"]>> \o Block(f, f.blocks[1])

Info(f) == [type |-> f.type, block |-> f.block, size |-> f.size, more |-> f.more, bsum |-> f.bsum, csum |-> f.csum, some |-> FALSE]
LZ4IO_INIT_FRAMEINFO == [type |-> "lz4", block |-> "none", size |-> 0, more |-> 0, bsum |-> FALSE, csum |-> FALSE, some |-> FALSE]

Init ==
    /\ frames \in FrameTables
    /\ LET whole == FlattenSeq([k \in DOMAIN frames |-> Words(frames[k])])
       IN  \E n \in {Len(whole)} \cup (IF Cut THEN 0..Len(whole) ELSE {}) : file = SubSeq(whole, 1, n)
    /\ pos = 1 /\ stage = "magic" /\ frameInfo = LZ4IO_INIT_FRAMEINFO
    /\ cfinfo = [summary |-> LZ4IO_INIT_FRAMEINFO, frameCount |-> 0,
                 eqFrameTypes |-> TRUE, eqBlockTypes |-> TRUE, allContentSize |-> TRUE]
    /\ result = "format_not_known"

-----------------------------------------------------------------------------
(* The walk                                                                *)

AtEnd == pos > Len(file)
Here == IF AtEnd THEN [word |-> "eof"] ELSE file[pos]
Magic(m) == stage = "magic" /\ Here.word = m

Fail(r) == stage' = "end" /\ result' = r /\ UNCHANGED <<frames, file, pos, frameInfo, cfinfo>>

\* The frame is counted: contentSize has become the sum.
Counted(info, c, at) ==
    /\ cfinfo' = [c EXCEPT !.summary = info, !.frameCount = @ + 1]
    /\ pos' = at /\ stage' = "magic" /\ result' = "OK"
    /\ frameInfo' = LZ4IO_INIT_FRAMEINFO
    /\ UNCHANGED <<frames, file>>

EndOfFile ==
    /\ Magic("eof")
    /\ stage' = "end" /\ UNCHANGED <<frames, file, pos, frameInfo, cfinfo, result>>

\* Mutant: the types of the first frame's blocks are compared with the defaults.
SameBlocksAlways(info) == cfinfo.summary.block = info.block

SameBlocks(info) == cfinfo.summary.block = info.block \/ cfinfo.frameCount = 0

\* LZ4IO_MAGICNUMBER: the header, read whole unless one word is missing.
ReadHeader ==
    /\ Magic("lz4")
    /\ IF pos + 1 > Len(file) THEN Fail("exit")
       ELSE LET f == file[pos + 1].of
            IN  IF f.more > 1 /\ pos + 2 > Len(file) THEN Fail("exit")
                ELSE IF f.more = 1 \/ pos + 1 + f.more > Len(file) THEN Fail("format_not_known")
                ELSE /\ frameInfo' = Info(f)
                     /\ cfinfo' = [cfinfo EXCEPT !.eqFrameTypes = @ /\ cfinfo.summary.type = "lz4",
                                                 !.eqBlockTypes = @ /\ SameBlocks(f)]
                     /\ pos' = pos + 2 + f.more /\ stage' = "blocks"
                     /\ UNCHANGED <<frames, file, result>>

\* LZ4IO_skipBlocksData: a block, then the end mark; a file that ends is as good.
SkipBlock ==
    /\ stage = "blocks" /\ Here.word = "size" /\ Here.n > 0
    /\ pos' = pos + 1 + Here.n + (IF frameInfo.bsum THEN 1 ELSE 0)
    /\ frameInfo' = [frameInfo EXCEPT !.some = TRUE]       \* totalBlocksSize > 0
    /\ UNCHANGED <<frames, file, stage, cfinfo, result>>

\* "Now we've consumed frameInfo we can use it to store the total contentSize"
Total(info) == IF info.size = 0 THEN info ELSE [info EXCEPT !.size = @ + cfinfo.summary.size]

EndBlocks ==
    /\ stage = "blocks" /\ (AtEnd \/ (Here.word = "size" /\ Here.n = 0))
    /\ IF AtEnd /\ ~frameInfo.some THEN Fail("format_not_known")
       ELSE Counted(Total(frameInfo), [cfinfo EXCEPT !.allContentSize = @ /\ frameInfo.size # 0],
                    IF AtEnd THEN pos ELSE pos + 1 + (IF frameInfo.csum THEN 1 ELSE 0))

NotLZ4(type) ==
    [cfinfo EXCEPT !.eqFrameTypes = @ /\ (cfinfo.summary.type = type \/ cfinfo.frameCount = 0),
                   !.eqBlockTypes = FALSE, !.allContentSize = FALSE]

ReadLegacy ==
    /\ Magic("legacy")
    /\ frameInfo' = [LZ4IO_INIT_FRAMEINFO EXCEPT !.type = "legacy"]
    /\ cfinfo' = NotLZ4("legacy")
    /\ pos' = pos + 1 /\ stage' = "legacy"
    /\ UNCHANGED <<frames, file, result>>

\* LZ4IO_skipLegacyBlocksData: a block, up to the next magic number or the end of the file.
SkipLegacyBlock ==
    /\ stage = "legacy" /\ Here.word = "size"
    /\ pos' = pos + 1 + Here.n
    /\ frameInfo' = [frameInfo EXCEPT !.some = TRUE]
    /\ UNCHANGED <<frames, file, stage, cfinfo, result>>

EndLegacy ==
    /\ stage = "legacy" /\ Here.word \in {"eof", "lz4", "legacy", "skippable"}
    /\ IF frameInfo.some THEN Counted(frameInfo, cfinfo, pos) ELSE Fail("format_not_known")

SkipSkippable ==
    /\ Magic("skippable")
    /\ IF pos + 1 > Len(file) THEN Fail("exit")
       ELSE Counted([LZ4IO_INIT_FRAMEINFO EXCEPT !.type = "skippable"], NotLZ4("skippable"), pos + 2 + file[pos + 1].n)

Next ==
    \/ EndOfFile \/ ReadHeader \/ SkipBlock \/ EndBlocks
    \/ ReadLegacy \/ SkipLegacyBlock \/ EndLegacy \/ SkipSkippable

Spec == Init /\ [][Next]_vars

-----------------------------------------------------------------------------
\* The line LZ4IO_displayCompressedFilesInfo prints.
Summary ==
    [frames |-> cfinfo.frameCount,
     type |-> IF cfinfo.eqFrameTypes THEN cfinfo.summary.type ELSE "-",
     block |-> IF cfinfo.eqBlockTypes THEN cfinfo.summary.block ELSE "-",
     size |-> IF cfinfo.allContentSize THEN cfinfo.summary.size ELSE -1]

TypeOK ==
    /\ pos >= 1 /\ stage \in {"magic", "blocks", "legacy", "end"}
    /\ cfinfo.frameCount \in 0..Len(frames) /\ result \in {"OK", "format_not_known", "exit"}

\* What is in the file, looking at its frames and not at its words.
Same(field(_)) == \A j, k \in DOMAIN frames : field(frames[j]) = field(frames[k])
Reference ==
    [frames |-> Len(frames),
     type |-> IF Same(LAMBDA f : f.type) THEN frames[1].type ELSE "-",
     block |-> IF Same(LAMBDA f : f.block) /\ \A k \in DOMAIN frames : frames[k].type = "lz4" THEN frames[1].block ELSE "-",
     size |-> IF \A k \in DOMAIN frames : frames[k].type = "lz4" /\ frames[k].size # 0
              THEN FoldSet(LAMBDA k, sum : sum + frames[k].size, 0, DOMAIN frames) ELSE -1]

\* Walking from size to size, over blocks with and without checksums, legacy
\* frames that end where the next magic number is and skippable ones, the
\* listing of a whole file says what its frames are: how many, of one type,
\* with one kind of blocks, and how much they hold if each says so.
ListingRight ==
    /\ TypeOK
    /\ stage = "end" /\ frames # <<>> /\ file = FlattenSeq([k \in DOMAIN frames |-> Words(frames[k])]) =>
        result = "OK" /\ Summary = Reference

=============================================================================
