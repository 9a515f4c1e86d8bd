------------------------------- MODULE HcState --------------------------------
(***************************************************************************)
(* LZ4HC_CCtx_internal (lib/lz4hc.c): the up to 64 KB of history that a     *)
(* high-compression stream may refer to, as blocks come from anywhere in   *)
(* memory.                                                                 *)
(*                                                                         *)
(* The history has two segments: the prefix, which ends where the last     *)
(* block did, and before it an external dictionary.  Tables name its bytes *)
(* by index: [lowLimit, dictLimit) is at dictStart, and from dictLimit on  *)
(* at prefixStart.                                                         *)
(***************************************************************************)
EXTENDS Integers, Sequences

CONSTANTS KB64, KB4,    \* the window, and the least block for which a dictionary is copied
          OneGB, TwoGB, \* indices at which the tables are cleared, and a stream restarted
          HashSize,     \* LZ4HC_HASHSIZE
          DictAt, DictSize  \* where the dictionary of an attached stream is

Least(a, b) == IF a < b THEN a ELSE b
Most(a, b) == IF a > b THEN a ELSE b
NULL == 0

\* LZ4_initStreamHC.  `top' is above every index in the tables.
LZ4_initStreamHC(mid) ==
    [prefixStart |-> NULL, end |-> NULL, dictStart |-> NULL, dictLimit |-> 0, lowLimit |-> 0,
     dictCtx |-> FALSE, dirty |-> FALSE, mid |-> mid, top |-> 0]

PrefixSize(c) == c.end - c.prefixStart
EndIndex(c) == PrefixSize(c) + c.dictLimit

\* The indices go on from where they were, with a gap of a window.
LZ4HC_init_internal(c, start) ==
    LET offset == (IF EndIndex(c) > OneGB THEN 0 ELSE EndIndex(c)) + KB64
    IN  [c EXCEPT !.prefixStart = start, !.end = start, !.dictStart = start,
                  !.dictLimit = offset, !.lowLimit = offset,
                  !.top = IF EndIndex(c) > OneGB THEN 0 ELSE @]

LZ4_resetStreamHC_fast(c, mid) ==
    IF c.dirty THEN LZ4_initStreamHC(mid)
    ELSE [c EXCEPT !.dictLimit = EndIndex(c), !.prefixStart = NULL, !.end = NULL, !.dictCtx = FALSE, !.mid = mid]

LZ4_loadDictHC(c, dict, size) ==
    LET n == Least(size, KB64)
        i == LZ4HC_init_internal(LZ4_initStreamHC(c.mid), dict + size - n)
    IN  [i EXCEPT !.end = dict + size, !.top = EndIndex(i) + n]

\* The prefix becomes the external dictionary; the one there was is lost.
LZ4HC_setExternalDict(c, newBlock) ==
    [c EXCEPT !.lowLimit = c.dictLimit, !.dictStart = c.prefixStart, !.dictLimit = EndIndex(c),
              !.prefixStart = newBlock, !.end = newBlock, !.dictCtx = FALSE]

\* Mutant: of an external dictionary that the block overlaps, what is before the
\* block is kept.
TrimKeepingHead(c, src, n) ==
    LET dictEnd == c.dictStart + (c.dictLimit - c.lowLimit)
        cut == Least(src + n, dictEnd) - src
    IN  IF src + n > c.dictStart /\ src < dictEnd
        THEN [c EXCEPT !.lowLimit = @ + cut, !.dictStart = @ + cut]
        ELSE c

\* The part of the external dictionary up to the end of the block that overlaps it
\* is dropped, and all of it if too little is left.
TrimOverlap(c, src, n) ==
    LET dictEnd == c.dictStart + (c.dictLimit - c.lowLimit)
        cut == Least(src + n, dictEnd) - c.dictStart
    IN  IF ~(src + n > c.dictStart /\ src < dictEnd) THEN c
        ELSE IF c.dictLimit - (c.lowLimit + cut) < HashSize
        THEN [c EXCEPT !.lowLimit = c.dictLimit, !.dictStart = c.prefixStart]
        ELSE [c EXCEPT !.lowLimit = @ + cut, !.dictStart = @ + cut]

\* The dictionary stream others are attached to: created for the hash chains.
DictCtx == LZ4_loadDictHC(LZ4_initStreamHC(FALSE), DictAt, DictSize)

\* LZ4HC_compress_generic_dictCtx: an attached dictionary is out of reach after 64 KB;
\* for a large first block its tables are copied.
LZ4HC_compress_generic_dictCtx(c, src, n) ==
    LET position == PrefixSize(c) + (c.dictLimit - c.lowLimit) IN
    IF ~c.dictCtx THEN c
    ELSE IF position >= KB64 THEN [c EXCEPT !.dictCtx = FALSE]
    ELSE IF position = 0 /\ n > KB4 /\ ~c.mid THEN LZ4HC_setExternalDict(DictCtx, src)
    ELSE c

\* LZ4_compressHC_continue_generic, up to the compression: a stream is started at its
\* first block; with indices beyond 2 GB it starts again, its prefix the dictionary; and
\* a block that does not follow the last one makes the prefix an external dictionary.
StartedAt(c, src) == IF c.prefixStart = NULL THEN LZ4HC_init_internal(c, src) ELSE c
Restarted(c) ==
    LET d == Least(PrefixSize(c), KB64) IN
    IF EndIndex(c) > TwoGB THEN LZ4_loadDictHC(c, c.end - d, d) ELSE c
JoinedAt(c, src) == IF src # c.end THEN LZ4HC_setExternalDict(c, src) ELSE c

Prepared(c, src, n) ==
    LZ4HC_compress_generic_dictCtx(TrimOverlap(JoinedAt(Restarted(StartedAt(c, src)), src), src, n), src, n)

\* LZ4HC_compress_generic_internal: the whole input becomes part of the prefix, also
\* when the block fails, or takes only the start of it.
Compressed(c, n, ok) ==
    IF n = 0 THEN c
    ELSE [c EXCEPT !.end = @ + n, !.top = EndIndex(c) + n, !.dirty = @ \/ ~ok]

\* The state, and how much was saved.
LZ4_saveDictHC(c, safeBuffer, size) ==
    LET d == Least(IF Least(size, KB64) < 4 THEN 0 ELSE Least(size, KB64), PrefixSize(c))
    IN  [state |-> [c EXCEPT !.end = safeBuffer + d, !.prefixStart = safeBuffer, !.dictStart = safeBuffer,
                             !.dictLimit = EndIndex(c) - d, !.lowLimit = EndIndex(c) - d],
         size |-> d]

\* The byte an index names.
Byte(m, c, i) == IF i >= c.dictLimit THEN m[c.prefixStart + i - c.dictLimit]
                 ELSE m[c.dictStart + i - c.lowLimit]

\* What a block that starts now can refer to: a byte for each distance.  Beyond its
\* own history a stream with an attached dictionary has the dictionary's.
Window(m, c) ==
    LET own == EndIndex(c) - c.lowLimit
        reach == Least(KB64, own + (IF c.dictCtx THEN DictSize ELSE 0))
    IN  [d \in 1..reach |-> IF d <= own THEN Byte(m, c, EndIndex(c) - d)
                            ELSE Byte(m, DictCtx, EndIndex(DictCtx) - (d - own))]
=============================================================================
