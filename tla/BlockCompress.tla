----------------------------- MODULE BlockCompress -----------------------------
(***************************************************************************)
(* LZ4_compress_generic of lib/lz4.c: the block that is made of n bytes at *)
(* src, given the hash table and what precedes them, the table it leaves,  *)
(* and whether everything it compared with was there to be read.           *)
(*                                                                         *)
(* Memory is a sequence of bytes, of which address a is element a + 1; an  *)
(* index is the code's: a position counted from currentOffset.  The hash   *)
(* of a position is any function of the bytes there.                       *)
(***************************************************************************)
EXTENDS BlockFormat

CONSTANTS
    LZ4_skipTrigger,
    HashSize,           \* of the table
    HashOf(_)           \* the hash of a tuple of bytes, below HashSize

NULL == -1000000        \* no address
ByteAt(m, a) == m[a + 1]
Bytes(m, a, n) == SubSeq(m, a + 1, a + n)
InMemory(m, a, n) == a >= 0 /\ a + n <= Len(m)

\* LZ4_hashPosition: of 4 bytes for a table of 16-bit entries, else of 5.
LZ4_hashPosition(m, a, tableType) == HashOf(Bytes(m, a, IF tableType = "byU16" THEN 4 ELSE 5))

\* The index of address a in call c.
IndexOf(c, a) == a - c.src + c.startIndex

\* LZ4_putIndexOnHash: an entry has 16 bits, or 32.
PutIndex(c, tbl, h, a) ==
    [tbl EXCEPT ![h] = IF c.tt = "byU16" THEN IndexOf(c, a) % KB64 ELSE IndexOf(c, a)]

EmptyTable == [h \in 0..(HashSize - 1) |-> 0]

\* LZ4_count: how many bytes agree at p and q, before p reaches limit.
RECURSIVE LZ4_count(_, _, _, _)
LZ4_count(m, p, q, limit) ==
    IF p >= limit THEN 0 ELSE IF ByteAt(m, p) # ByteAt(m, q) THEN 0 ELSE 1 + LZ4_count(m, p + 1, q + 1, limit)

RECURSIVE CatchUp(_, _, _, _, _)
CatchUp(m, ip, match, anchor, lowLimit) ==
    IF ip <= anchor \/ match <= lowLimit THEN 0
    ELSE IF ByteAt(m, ip - 1) # ByteAt(m, match - 1) THEN 0
    ELSE 1 + CatchUp(m, ip - 1, match - 1, anchor, lowLimit)

-----------------------------------------------------------------------------
(* c is the call: [m, src, n, startIndex, dir, dictionary, dictSize,       *)
(* dictTable, dictOffset (of the attached dictionary), small, out, limit,  *)
(* tt, acc].  s is where it is: [ip, anchor, op, tbl, seqs, last, ret,     *)
(* sound], sound: no candidate lay outside of what may be read.            *)

mflimitPlusOne(c) == c.src + c.n - MFLIMIT + 1
matchlimit(c) == c.src + c.n - LASTLITERALS
MaybeExtMem(c) == c.dir \in {"usingExtDict", "usingDictCtx"}

\* The candidate that the tables have for hash h: its index, its address and
\* the low end of the segment it is in.
Candidate(c, tbl, h) ==
    LET mi == tbl[h] IN
    IF c.dir = "usingDictCtx" /\ mi < c.startIndex THEN
            [idx |-> c.dictTable[h] + (c.startIndex - c.dictOffset),
             match |-> c.dictionary + c.dictSize - c.dictOffset + c.dictTable[h], low |-> c.dictionary]
    ELSE IF c.dir = "usingExtDict" /\ mi < c.startIndex THEN
            [idx |-> mi, match |-> c.dictionary + c.dictSize - c.startIndex + mi, low |-> c.dictionary]
    ELSE
            [idx |-> mi, match |-> c.src - c.startIndex + mi,
             low |-> c.src - (IF c.dir = "withPrefix64k" THEN c.dictSize ELSE 0)]

\* Is the candidate near enough for its bytes to be compared with those at ip?
Near(c, k, current) ==
    /\ ~(c.small /\ k.idx < c.startIndex - c.dictSize)
    /\ c.tt = "byU16" \/ k.idx + LZ4_DISTANCE_MAX >= current

\* May the bytes of the candidate be read: are they of the dictionary, or of the segment before ip?
Readable(c, k, ip) ==
    /\ k.match >= k.low /\ InMemory(c.m, k.match, MINMATCH)
    /\ IF MaybeExtMem(c) /\ k.low = c.dictionary /\ k.idx < c.startIndex
       THEN k.match + MINMATCH <= c.dictionary + c.dictSize
       ELSE k.match < ip

Accepted(c, k, ip) ==
    /\ Near(c, k, IndexOf(c, ip))
    /\ InMemory(c.m, k.match, MINMATCH) /\ Bytes(c.m, k.match, MINMATCH) = Bytes(c.m, ip, MINMATCH)

\* Position p, of hash h, takes the place of candidate k in the table.
Tried(c, s, p, h, k) ==
    [s |-> [s EXCEPT !.tbl = PutIndex(c, @, h, p), !.sound = @ /\ (Near(c, k, IndexOf(c, p)) => Readable(c, k, p))],
     found |-> Accepted(c, k, p), ip |-> p, k |-> k]
TryHash(c, s, p, h) == Tried(c, s, p, h, Candidate(c, s.tbl, h))
Try(c, s, p) == TryHash(c, s, p, LZ4_hashPosition(c.m, p, c.tt))

\* The search for a match from ip on: forwardIp advances by step, which grows with the failures.
RECURSIVE Search(_, _, _, _, _), SearchOn(_, _, _, _)
SearchOn(c, r, p, searchMatchNb) ==
    IF r.found THEN r ELSE Search(c, r.s, p, searchMatchNb \div 2 ^ LZ4_skipTrigger, searchMatchNb + 1)
Search(c, s, p, step, searchMatchNb) ==
    IF p + step > mflimitPlusOne(c) THEN [s |-> s, found |-> FALSE]
    ELSE SearchOn(c, Try(c, s, p), p + step, searchMatchNb)

\* From label _last_literals.
LastLiterals(c, s) ==
    LET run == c.src + c.n - s.anchor
        full == c.out # "notLimited" /\ s.op + run + 1 + (run + 255 - RUN_MASK) \div 255 > c.limit
        room == c.limit - s.op - 1
        lastRun == IF full THEN room - (room + 256 - RUN_MASK) \div 256 ELSE run
    IN  IF full /\ c.out = "limitedOutput" THEN [s EXCEPT !.ret = "fail"]
        ELSE [s EXCEPT !.ret = "done", !.last = lastRun, !.ip = s.anchor + lastRun,
                       !.op = @ + 1 + ExtBytes(lastRun, RUN_MASK) + lastRun]

\* The length of the match at ip with match, which may run from the dictionary into the input.
MatchLength(c, ip, match, low) ==
    IF MaybeExtMem(c) /\ low = c.dictionary
    THEN LET limit == MinOf(ip + (c.dictionary + c.dictSize - match), matchlimit(c))
             n == MINMATCH + LZ4_count(c.m, ip + MINMATCH, match + MINMATCH, limit)
         IN  IF ip + n = limit THEN n + LZ4_count(c.m, limit, c.src, matchlimit(c)) ELSE n
    ELSE MINMATCH + LZ4_count(c.m, ip + MINMATCH, match + MINMATCH, matchlimit(c))

\* Positions that were hashed beyond the end of a match cut short.
ClearFrom(c, tbl, ip, filledIp) ==
    LET hs == {LZ4_hashPosition(c.m, p, c.tt) : p \in ip..filledIp} IN [h \in DOMAIN tbl |-> IF h \in hs THEN 0 ELSE tbl[h]]

\* From label _next_match; f is [ip, match, low, off, ll, token, filledIp], and
\* the literals are written.  Then the end of the chunk, the next position, or
\* the next search.
RECURSIVE NextMatch(_, _, _), MatchWritten(_, _, _, _), AfterMatch(_, _, _), MatchTried(_, _, _), MainLoop(_, _)
NextMatch(c, s, f) ==
    IF c.out = "fillOutput" /\ s.op + 2 + 1 + MFLIMIT - MINMATCH > c.limit THEN LastLiterals(c, [s EXCEPT !.op = f.token])
    ELSE MatchWritten(c, [s EXCEPT !.op = @ + 2], f, MatchLength(c, f.ip, f.match, f.low))

\* The match of length ml, cut to what there is room for.
MatchWritten(c, s, f, ml) ==
    LET over == c.out # "notLimited" /\ s.op + 1 + LASTLITERALS + (ml - MINMATCH + 240) \div 255 > c.limit
        cut == IF over THEN MINMATCH + 14 + (c.limit - s.op - 1 - LASTLITERALS) * 255 ELSE ml
        ip == f.ip + cut
    IN  IF c.out = "limitedOutput" /\ over THEN [s EXCEPT !.ret = "fail"]
        ELSE AfterMatch(c, [s EXCEPT !.seqs = Append(@, [ll |-> f.ll, off |-> f.off, ml |-> cut]),
                                     !.tbl = IF over /\ ip <= f.filledIp THEN ClearFrom(c, @, ip, f.filledIp) ELSE @,
                                     !.op = @ + ExtBytes(cut - MINMATCH, ML_MASK), !.anchor = ip, !.ip = ip],
                        f.filledIp)

\* The end of the chunk, or the position after the match, which a match may start at.
AfterMatch(c, s, filledIp) ==
    LET filled == [s EXCEPT !.tbl = PutIndex(c, @, LZ4_hashPosition(c.m, s.ip - 2, c.tt), s.ip - 2)]
    IN  IF s.ip >= mflimitPlusOne(c) THEN LastLiterals(c, s)
        ELSE MatchTried(c, Try(c, filled, s.ip), filledIp)

MatchTried(c, r, filledIp) ==
    IF r.found THEN NextMatch(c, [r.s EXCEPT !.op = @ + 1],
                              [ip |-> r.ip, match |-> r.k.match, low |-> r.k.low, off |-> IndexOf(c, r.ip) - r.k.idx,
                               ll |-> 0, token |-> r.s.op, filledIp |-> filledIp])
    ELSE MainLoop(c, [r.s EXCEPT !.ip = @ + 1])

\* A search found f, which begins `back' bytes before: literals, then the match.
AfterSearch(c, s, f, back) ==
    LET ll == f.ip - back - s.anchor
    IN  IF c.out = "limitedOutput" /\ s.op + 1 + ll + (2 + 1 + LASTLITERALS) + ll \div 255 > c.limit THEN
                [f.s EXCEPT !.ret = "fail"]
        ELSE IF c.out = "fillOutput" /\ s.op + 1 + (ll + 240) \div 255 + ll + 2 + 1 + MFLIMIT - MINMATCH > c.limit THEN
                LastLiterals(c, f.s)
        ELSE NextMatch(c, [f.s EXCEPT !.op = s.op + 1 + ExtBytes(ll, RUN_MASK) + ll],
                                [ip |-> f.ip - back, match |-> f.k.match - back, low |-> f.k.low,
                                 off |-> IndexOf(c, f.ip) - f.k.idx, ll |-> ll, token |-> s.op, filledIp |-> f.ip])
Searched(c, s, f) ==
    IF ~f.found THEN LastLiterals(c, f.s)
    ELSE AfterSearch(c, s, f, CatchUp(c.m, f.ip, f.k.match, s.anchor, f.k.low))

MainLoop(c, s) == Searched(c, s, Search(c, s, s.ip, 1, c.acc * 2 ^ LZ4_skipTrigger))

\* LZ4_compress_generic: the block, its size (0: it does not fit), how much of
\* the input is in it, and the table.  Nothing happens to the table for an empty
\* input, or when there is no room for a single byte.
Made(c, r) ==
    [b |-> [seqs |-> r.seqs, last |-> r.last], size |-> IF r.ret = "done" THEN r.op ELSE 0,
     consumed |-> r.ip - c.src, tbl |-> r.tbl, sound |-> r.sound]

LZ4_compress_generic(c) ==
    LET s == [ip |-> c.src, anchor |-> c.src, op |-> 0, tbl |-> c.tbl, seqs |-> <<>>, last |-> 0, ret |-> "go", sound |-> TRUE]
        first == [s EXCEPT !.tbl = PutIndex(c, @, LZ4_hashPosition(c.m, c.src, c.tt), c.src), !.ip = c.src + 1]
    IN  Made(c, IF c.out # "notLimited" /\ c.limit < 1 /\ (c.n = 0 \/ c.out = "fillOutput") THEN s
                ELSE IF c.n < MFLIMIT + 1 THEN LastLiterals(c, s)
                ELSE MainLoop(c, first))

\* LZ4_COMPRESSBOUND
LZ4_compressBound(n) == n + n \div 255 + 16
=============================================================================
