------------------------------ MODULE BlockDecode ------------------------------
(***************************************************************************)
(* Decoding of LZ4 blocks (lib/lz4.c): LZ4_decompress_generic with its     *)
(* fast and its safe loop, LZ4_decompress_unsafe_generic, the choice of    *)
(* the dictionary mode by the *_continue() and *_usingDict() functions,    *)
(* and a caller that decodes a stream of linked blocks into a ring buffer; *)
(* and the decoder of the OpenCL kernels (lz4_gpu/lz4_gpu.cl).             *)
(*                                                                         *)
(* The decoder never looks at the data it copies.  A cell of memory holds  *)
(* the position in the stream of the literal that is there, so a decoded   *)
(* block is right when its cells hold the right positions.  The copies     *)
(* that write more than they were asked for write what the code writes.    *)
(* All the constants of the code keep their values, but for the 64 KB.     *)
(***************************************************************************)
EXTENDS BlockFormat, FiniteSets

CONSTANTS
    MaxBlock,           \* maxBlockSize: no block decodes to more
    Builds,             \* how it is built and used: [fast, margin], with LZ4_FAST_DEC_LOOP or
                        \* not, and with a ring buffer of KB64 + margin + MaxBlock bytes
    Blocks,             \* for the first block of the stream, the second...: what it may be
    GpuBlocks           \* blocks that are decoded on the GPU

WILDCOPYLENGTH == 8
MATCH_SAFEGUARD_DISTANCE == 2 * WILDCOPYLENGTH - MINMATCH
FASTLOOP_SAFE_DISTANCE == 64
Junk == -1              \* not a position

DecodeAssumption ==
    /\ MaxBlock \in Nat
    /\ Builds \subseteq [fast : BOOLEAN, margin : 0..KB64]

RoundUp(n, unit) == ((n + unit - 1) \div unit) * unit

-----------------------------------------------------------------------------

VARIABLES
    build,          \* one of Builds
    mem,            \* the memory
    stream,         \* the decoded stream: for every byte the literal it is
    lz4sd,          \* LZ4_streamDecode_t
    dNext,          \* where the last block ends in the ring buffer
    blocks,         \* how many blocks were decoded
    last            \* the last call: did it return, decode and write what it should

-----------------------------------------------------------------------------
(* Memory: the ring buffer, a buffer apart from it, and a safe place for the last 64 KB *)

Scratch == 2 * KB64 + MaxBlock + 1              \* the ring buffer is before it
Safe == Scratch + MaxBlock + 1
Memory == 0..(Safe + KB64 + MaxBlock)           \* address a is element a + 1

Read(m, a) == IF a \in Memory THEN m[a + 1] ELSE Junk

\* n bytes from a; bytes to a.
Slice(m, a, n) == IF a >= 0 /\ a + n <= Len(m) THEN SubSeq(m, a + 1, a + n) ELSE [i \in 1..n |-> Read(m, a + i - 1)]
Put(m, a, bytes) == SubSeq(m, 1, a) \o bytes \o SubSeq(m, a + Len(bytes) + 1, Len(m))

\* memcpy, memmove: n bytes at once.
Copy(m, dst, src, n) == Put(m, dst, Slice(m, src, n))

\* Byte by byte, or in pieces no longer than the distance: a byte may be one just written.
Forward(m, dst, src, n) ==
    LET d == MinOf(n, dst - src)
        s == Slice(m, src, d)
    IN  Put(m, dst, IF d = n THEN s ELSE [i \in 1..n |-> s[1 + ((i - 1) % d)]])

\* ll literals, of which the first has position p, by a copy of n bytes of the
\* input: what follows them there is no data.
Literals(m, dst, p, ll, n) == Put(m, dst, [i \in 1..n |-> IF i <= ll THEN p + i - 1 ELSE Junk])

-----------------------------------------------------------------------------
(* LZ4_decompress_generic.  c is the call: [b, dst, oend, iend, partial,   *)
(* dict, lowPrefix, dictStart, dictSize, p], p the position of the first   *)
(* byte of the block in the stream.  x is where it is: [k, ip, op, m, hi,  *)
(* loop, ret], k the next sequence, hi the end of what was written.        *)

SeqAt(c, k) == IF k <= Len(c.b.seqs) THEN c.b.seqs[k] ELSE [ll |-> c.b.last, off |-> 0, ml |-> MINMATCH]

Store(x, m, end) == [x EXCEPT !.m = m, !.hi = MaxOf(@, end)]
Fail(x) == [x EXCEPT !.ret = "error"]
End(x) == [x EXCEPT !.ret = "end"]
NextSeq(x, op) == [x EXCEPT !.op = op, !.k = @ + 1]

\* read_variable_length of a length whose bytes are ip..ip2-1: does it report an error?
RvlError(ip, ip2, ilimit, initial_check) == (initial_check /\ ip >= ilimit) \/ ip2 > ilimit

inc32table == [o \in 0..7 |-> <<0, 1, 2, 1, 0, 4, 4, 4>>[o + 1]]
\* Mutant: the distance 7 is treated as 6.
dec64tableOff == [o \in 0..7 |-> <<0, 0, 0, -1, -4, 1, 2, 2>>[o + 1]]
dec64table == [o \in 0..7 |-> <<0, 0, 0, -1, -4, 1, 2, 3>>[o + 1]]

\* The first 8 bytes of a match, and where the copy goes on from.
FirstEight(m, op, off) ==
    IF off >= 8
    THEN [m |-> Copy(m, op, op - off, 8), match |-> op - off + 8]
    ELSE LET four == Forward(m, op, op - off, 4)
             match == op - off + inc32table[off]
         IN  [m |-> Copy(four, op + 4, match, 4), match |-> match - dec64table[off]]

\* LZ4_memcpy_using_offset, of len bytes.
UsingOffset(x, off, len) ==
    IF off \in {1, 2, 4}
    THEN Store(x, Forward(x.m, x.op, x.op - off, RoundUp(len, 8)), x.op + RoundUp(len, 8))
    ELSE LET f == FirstEight(x.m, x.op, off)
             n == MaxOf(8, RoundUp(len - 8, 8))
         IN  Store(x, Forward(f.m, x.op + 8, f.match, n), x.op + 8 + n)

\* A match that starts in the external dictionary.
ExtDictMatch(c, x, off, ml) ==
    LET near == x.op + ml > c.oend - LASTLITERALS
        len == IF near /\ c.partial THEN MinOf(ml, c.oend - x.op) ELSE ml
        lack == c.lowPrefix - (x.op - off)
        dictEnd == c.dictStart + c.dictSize
        part == Copy(x.m, x.op, dictEnd - lack, MinOf(len, lack))
        all == IF len <= lack THEN part ELSE Forward(part, x.op + lack, c.lowPrefix, len - lack)
    IN  IF near /\ ~c.partial THEN Fail(x) ELSE NextSeq(Store(x, all, x.op + len), x.op + len)

OutsideBuffers(c, x, off) == c.dictSize < KB64 /\ x.op - off + c.dictSize < c.lowPrefix
InExtDict(c, x, off) == c.dict = "usingExtDict" /\ x.op - off < c.lowPrefix

\* The rest of a match whose first eight bytes are f: up to cpy, near the end of the
\* destination in whole steps of eight only as far as oCopyLimit.
CopyNearEnd(x, f, op, cpy, oCopyLimit) ==
    LET wild == MaxOf(0, RoundUp(oCopyLimit - op, 8))
        from == MaxOf(op, oCopyLimit)
        toLimit == IF wild = 0 THEN f.m ELSE Forward(f.m, op, f.match, wild)
        m == IF cpy <= from THEN toLimit ELSE Forward(toLimit, from, f.match + (from - op), cpy - from)
    IN  NextSeq(Store(x, m, MaxOf(op + wild, cpy)), cpy)

CopyRest(c, x, f, ml) ==
    LET op == x.op + 8
        cpy == x.op + ml
        n == IF ml > 16 THEN 8 + RoundUp(ml - 16, 8) ELSE 8
    IN  IF cpy > c.oend - LASTLITERALS THEN Fail(Store(x, f.m, op))
        ELSE IF cpy > c.oend - MATCH_SAFEGUARD_DISTANCE THEN CopyNearEnd(x, f, op, cpy, c.oend - (WILDCOPYLENGTH - 1))
        ELSE NextSeq(Store(x, Forward(f.m, op, f.match, n), op + n), cpy)

\* Partial decoding ends a match where the destination ends.
CopyPartial(c, x, off, mlen) ==
    LET z == NextSeq(Store(x, Forward(x.m, x.op, x.op - off, mlen), x.op + mlen), x.op + mlen)
    IN  IF x.op + mlen = c.oend THEN End(z) ELSE z

\* From label safe_match_copy; the length is known.
SafeMatchCopy(c, y, off, ml) ==
    LET x == [y EXCEPT !.loop = "safe"]
    IN  IF OutsideBuffers(c, x, off) THEN Fail(x)
        ELSE IF InExtDict(c, x, off) THEN ExtDictMatch(c, x, off, ml)
        ELSE IF c.partial /\ x.op + ml > c.oend - MATCH_SAFEGUARD_DISTANCE
        THEN CopyPartial(c, x, off, MinOf(ml, c.oend - x.op))
        ELSE CopyRest(c, x, FirstEight(x.m, x.op, off), ml)

\* From label _copy_match: ip is after the offset.
CopyMatch(c, x, s) ==
    LET ip2 == x.ip + ExtBytes(s.ml - MINMATCH, ML_MASK)
    IN  IF ip2 > x.ip /\ RvlError(x.ip, ip2, c.iend - LASTLITERALS + 1, FALSE) THEN Fail(x)
        ELSE SafeMatchCopy(c, [x EXCEPT !.ip = ip2], s.off, s.ml)

\* From label safe_literal_copy: ip is at the literals.
SafeLiteralCopy(c, y, s) ==
    LET x == [y EXCEPT !.loop = "safe"]
        close == x.op + s.ll > c.oend - MFLIMIT \/ x.ip + s.ll > c.iend - (2 + 1 + LASTLITERALS)
        len == IF c.partial THEN MinOf(MinOf(s.ll, c.iend - x.ip), c.oend - x.op) ELSE s.ll
        n == IF close THEN len ELSE MaxOf(8, RoundUp(len, 8))
        z == [Store(x, Literals(x.m, x.op, c.p + (x.op - c.dst), len, n), x.op + n) EXCEPT !.ip = @ + len, !.op = @ + len]
    IN  IF close /\ ~c.partial /\ (x.ip + s.ll # c.iend \/ x.op + s.ll > c.oend) THEN Fail(x)
        ELSE IF close /\ (~c.partial \/ z.op = c.oend \/ z.ip >= c.iend - 2) THEN End(z)
        ELSE CopyMatch(c, [z EXCEPT !.ip = @ + 2], s)

\* The fast loop once the literals are copied: ip is at the offset.
FastMatch(c, y, s) ==
    LET x == [y EXCEPT !.ip = @ + 2]
        ip2 == x.ip + ExtBytes(s.ml - MINMATCH, ML_MASK)
        long == ip2 > x.ip
        z == [x EXCEPT !.ip = ip2]
        match == z.op - s.off
    IN  IF long /\ RvlError(x.ip, ip2, c.iend - LASTLITERALS + 1, FALSE) THEN Fail(x)
        ELSE IF z.op + s.ml >= c.oend - FASTLOOP_SAFE_DISTANCE THEN SafeMatchCopy(c, z, s.off, s.ml)
        ELSE IF ~long /\ s.off >= 8 /\ (c.dict = "withPrefix64k" \/ match >= c.lowPrefix) THEN
                NextSeq(Store(z, Forward(z.m, z.op, match, 18), z.op + 18), z.op + s.ml)
        ELSE IF OutsideBuffers(c, z, s.off) THEN Fail(z)
        ELSE IF InExtDict(c, z, s.off) THEN ExtDictMatch(c, z, s.off, s.ml)
        ELSE IF s.off < 16 THEN NextSeq(UsingOffset(z, s.off, s.ml), z.op + s.ml)
        ELSE NextSeq(Store(z, Forward(z.m, z.op, match, RoundUp(s.ml, 32)), z.op + RoundUp(s.ml, 32)),
                              z.op + s.ml)

\* Literals by a copy of n bytes.
PutLiterals(c, x, ll, n) ==
    [Store(x, Literals(x.m, x.op, c.p + (x.op - c.dst), ll, n), x.op + n) EXCEPT !.ip = @ + ll, !.op = @ + ll]

\* One turn of the fast loop.
FastLoop(c, y) ==
    LET s == SeqAt(c, y.k)
        long == s.ll >= RUN_MASK
        ip == y.ip + 1
        x == [y EXCEPT !.ip = ip + ExtBytes(s.ll, RUN_MASK)]
    IN  IF long /\ RvlError(ip, x.ip, c.iend - RUN_MASK, TRUE) THEN Fail(x)
        ELSE IF long /\ (x.op + s.ll > c.oend - 32 \/ x.ip + s.ll > c.iend - 32) THEN SafeLiteralCopy(c, x, s)
        ELSE IF long THEN FastMatch(c, PutLiterals(c, x, s.ll, RoundUp(s.ll, 32)), s)
        ELSE IF x.ip <= c.iend - (16 + 1) THEN FastMatch(c, PutLiterals(c, x, s.ll, 16), s)
        ELSE SafeLiteralCopy(c, x, s)

\* Mutant: the shortcut looks at the input alone.
ShortcutInputFits(c, ip, op) == ip < c.iend - 14 - 2

\* May the shortcut copy 16 literals and 18 bytes of match?
ShortcutFits(c, ip, op) == ip < c.iend - 14 - 2 /\ op <= c.oend - 14 - 18

\* One turn of the safe loop, with its shortcut.
SafeLoop(c, y) ==
    LET s == SeqAt(c, y.k)
        long == s.ll >= RUN_MASK
        ip == y.ip + 1
        x == [y EXCEPT !.ip = ip + ExtBytes(s.ll, RUN_MASK)]
        lit == PutLiterals(c, x, s.ll, 16)
        z == [lit EXCEPT !.ip = @ + 2]
        match == z.op - s.off
    IN  IF ~long /\ ShortcutFits(c, ip, x.op)
        THEN IF s.ml - MINMATCH < ML_MASK /\ s.off >= 8 /\ (c.dict = "withPrefix64k" \/ match >= c.lowPrefix)
             THEN NextSeq(Store(z, Forward(z.m, z.op, match, 18), z.op + 18), z.op + s.ml)
             ELSE CopyMatch(c, z, s)
        ELSE IF long /\ RvlError(ip, x.ip, c.iend - RUN_MASK, TRUE) THEN Fail(x)
             ELSE SafeLiteralCopy(c, x, s)

RECURSIVE DecodeLoop(_, _)
DecodeLoop(c, x) ==
    IF x.ret # "go" THEN x ELSE DecodeLoop(c, IF x.loop = "fast" THEN FastLoop(c, x) ELSE SafeLoop(c, x))

\* how is [dict, lowPrefix, dictStart, dictSize].
LZ4_decompress_generic(m, b, p, dst, outputSize, partial, how) ==
    LET c == [b |-> b, p |-> p, dst |-> dst, oend |-> dst + outputSize, iend |-> Encoded(b), partial |-> partial,
              dict |-> how.dict, lowPrefix |-> how.lowPrefix, dictStart |-> how.dictStart, dictSize |-> how.dictSize]
        x == [k |-> 1, ip |-> 0, op |-> dst, m |-> m, hi |-> dst, ret |-> "go",
              loop |-> IF build.fast /\ outputSize >= FASTLOOP_SAFE_DISTANCE THEN "fast" ELSE "safe"]
    IN  IF outputSize = 0
        THEN [x EXCEPT !.ret = IF partial \/ (b.seqs = <<>> /\ b.last = 0) THEN "end" ELSE "error"]
        ELSE DecodeLoop(c, x)

\* LZ4_decompress_unsafe_generic: copies what it must, byte by byte.
RECURSIVE UnsafeLoop(_, _)
UnsafeLoop(c, x) ==
    LET s == SeqAt(c, x.k)
        op == x.op + s.ll
        l == Store(x, Literals(x.m, x.op, c.p + (x.op - c.dst), s.ll, s.ll), op)
        lack == s.off - (op - c.lowPrefix)
        extml == MinOf(lack, s.ml)
        part == Copy(l.m, op, c.dictStart + c.dictSize - lack, extml)
        all == IF lack <= 0 THEN Forward(l.m, op, op - s.off, s.ml)
               ELSE IF s.ml <= lack THEN part ELSE Forward(part, op + lack, c.lowPrefix, s.ml - lack)
    IN  IF op > c.oend THEN Fail(x)
        ELSE IF c.oend - op < MFLIMIT THEN IF op = c.oend THEN End([l EXCEPT !.op = op]) ELSE Fail(l)
        ELSE IF op + s.ml > c.oend \/ lack > c.dictSize THEN Fail(l)
        ELSE IF c.oend - (op + s.ml) < LASTLITERALS THEN Fail(Store(l, all, op + s.ml))
        ELSE UnsafeLoop(c, NextSeq(Store(l, all, op + s.ml), op + s.ml))

LZ4_decompress_unsafe_generic(m, b, p, dst, decompressedSize, how) ==
    UnsafeLoop([b |-> b, p |-> p, dst |-> dst, oend |-> dst + decompressedSize, lowPrefix |-> how.lowPrefix,
                dictStart |-> how.dictStart, dictSize |-> how.dictSize],
               [k |-> 1, op |-> dst, m |-> m, hi |-> dst, ret |-> "go"])

-----------------------------------------------------------------------------
(* The decoding functions: which directive, prefix and dictionary they use *)

NULL == -KB64 - 1
How(dict, lowPrefix, dictStart, dictSize) ==
    [dict |-> dict, lowPrefix |-> lowPrefix, dictStart |-> dictStart, dictSize |-> dictSize]
NoDict(dst) == How("noDict", dst, NULL, 0)
WithPrefix64k(dst) == How("withPrefix64k", dst - KB64, NULL, 0)
WithSmallPrefix(dst, prefixSize) == How("noDict", dst - prefixSize, NULL, 0)
ForceExtDict(dst, dictStart, dictSize) == How("usingExtDict", dst, dictStart, dictSize)
DoubleDict(dst, prefixSize, dictStart, dictSize) == How("usingExtDict", dst - prefixSize, dictStart, dictSize)

\* LZ4_decompress_safe_usingDict and its partial variant.
UsingDict(m, b, p, dst, cap, partial, dictStart, dictSize) ==
    LZ4_decompress_generic(m, b, p, dst, cap, partial,
        IF dictSize = 0 THEN NoDict(dst)
        ELSE IF dictStart + dictSize # dst THEN ForceExtDict(dst, dictStart, dictSize)
        ELSE IF dictSize >= KB64 - 1 THEN WithPrefix64k(dst)
        ELSE WithSmallPrefix(dst, dictSize))

LZ4_decompress_fast_usingDict(m, b, p, dst, n, dictStart, dictSize) ==
    LZ4_decompress_unsafe_generic(m, b, p, dst, n,
        IF dictSize = 0 \/ dictStart + dictSize = dst THEN WithSmallPrefix(dst, dictSize)
        ELSE ForceExtDict(dst, dictStart, dictSize))

\* What a call of LZ4_decompress_safe_continue decodes with stream state s.
SafeContinueCall(s, m, b, p, dst, cap) ==
    LZ4_decompress_generic(m, b, p, dst, cap, FALSE,
        IF s.prefixSize = 0 THEN NoDict(dst)
        ELSE IF s.prefixEnd # dst THEN ForceExtDict(dst, s.prefixEnd - s.prefixSize, s.prefixSize)
        ELSE IF s.prefixSize >= KB64 - 1 THEN WithPrefix64k(dst)
        ELSE IF s.extDictSize = 0 THEN WithSmallPrefix(dst, s.prefixSize)
        ELSE DoubleDict(dst, s.prefixSize, s.externalDict, s.extDictSize))

FastContinueCall(s, m, b, p, dst, n) ==
    LZ4_decompress_unsafe_generic(m, b, p, dst, n,
        IF s.prefixSize = 0 THEN NoDict(dst)
        ELSE IF s.prefixEnd = dst THEN DoubleDict(dst, s.prefixSize, s.externalDict, s.extDictSize)
        ELSE ForceExtDict(dst, s.prefixEnd - s.prefixSize, s.prefixSize))

\* The stream state after a call that decoded n bytes to dst.
Continued(s, dst, n) ==
    IF s.prefixSize = 0 THEN [s EXCEPT !.prefixSize = n, !.prefixEnd = dst + n]
    ELSE IF s.prefixEnd = dst THEN [s EXCEPT !.prefixSize = @ + n, !.prefixEnd = @ + n]
    ELSE [extDictSize |-> s.prefixSize, externalDict |-> s.prefixEnd - s.prefixSize,
          prefixSize |-> n, prefixEnd |-> dst + n]

LZ4_setStreamDecode(dictionary, dictSize) ==
    [prefixSize |-> dictSize, prefixEnd |-> dictionary + dictSize, externalDict |-> NULL, extDictSize |-> 0]

-----------------------------------------------------------------------------
(* A stream decoded into a ring buffer *)

vars == <<build, mem, stream, lz4sd, dNext, blocks, last>>

Init ==
    /\ build \in Builds
    /\ mem = [i \in 1..Cardinality(Memory) |-> Junk] /\ stream = <<>> /\ dNext = 0 /\ blocks = 0
    /\ lz4sd = LZ4_setStreamDecode(NULL, 0)
    /\ last = [right |-> TRUE, inside |-> TRUE]

DecoderRingSize == KB64 + build.margin + MaxBlock      \* LZ4_DECODER_RING_BUFFER_SIZE
Dest == IF DecoderRingSize - dNext < MaxBlock THEN 0 ELSE dNext

\* Call x decoded the first n bytes of block b to dst, and wrote nothing from dst + cap on.
Outcome(x, b, n, dst, cap) ==
    LET t == Expand(stream, b) IN
    [right |-> /\ x.ret = "end" /\ x.op = dst + n
               /\ Slice(x.m, dst, n) = SubSeq(t, Len(stream) + 1, Len(stream) + n),
     inside |-> x.hi <= dst + cap]

\* Call x did not fit in cap bytes.
Refusal(x, dst, cap) == [right |-> x.ret = "error", inside |-> x.hi <= dst + cap]

\* The caller decodes the next block of the stream.
Decode(b, cap, x) ==
    /\ build' = build /\ mem' = x.m /\ stream' = Expand(stream, b)
    /\ lz4sd' = Continued(lz4sd, Dest, Decoded(b))
    /\ dNext' = Dest + Decoded(b) /\ blocks' = blocks + 1
    /\ last' = Outcome(x, b, Decoded(b), Dest, cap)

LZ4_decompress_safe_continue ==
    /\ blocks < Len(Blocks)
    /\ \E b \in Blocks[blocks + 1] : Valid(Len(stream), b) /\ Decoded(b) <= MaxBlock /\ \E cap \in {Decoded(b), MaxBlock} :
          Decode(b, cap, SafeContinueCall(lz4sd, mem, b, Len(stream) + 1, Dest, cap))

LZ4_decompress_fast_continue ==
    /\ blocks < Len(Blocks)
    /\ \E b \in Blocks[blocks + 1] : Valid(Len(stream), b) /\ Decoded(b) <= MaxBlock /\
          Decode(b, Decoded(b), FastContinueCall(lz4sd, mem, b, Len(stream) + 1, Dest, Decoded(b)))

\* The caller saves the last 64 KB in a safe place, and the ring starts over.
SaveHistory ==
    /\ blocks < Len(Blocks) /\ lz4sd.prefixSize > 0 /\ lz4sd.prefixEnd < Scratch
    /\ lz4sd.prefixSize >= MinOf(KB64, Len(stream))
    /\ LET n == MinOf(KB64, lz4sd.prefixSize) IN
       /\ mem' = Copy(mem, Safe, lz4sd.prefixEnd - n, n)
       /\ lz4sd' = LZ4_setStreamDecode(Safe, n)
    /\ dNext' = 0 /\ UNCHANGED <<build, stream, blocks, last>>

\* A block decoded apart from the stream, in a copy of its memory, with the last
\* segment as dictionary: wholly or up to a target size, behind the dictionary
\* or elsewhere.
DecodeApart ==
    /\ blocks < Len(Blocks)
    /\ \E b \in Blocks[blocks + 1], dst \in {Scratch, lz4sd.prefixEnd} :
          LET size == MinOf(KB64, lz4sd.prefixSize)
              start == lz4sd.prefixEnd - size
              p == Len(stream) + 1
              n == Decoded(b)
          IN  /\ Valid(size, b) /\ n <= MaxBlock /\ dst >= 0 /\ dst # Safe + size /\ (dst # Scratch => dst + MaxBlock <= DecoderRingSize)
              /\ \/ \E cap \in {n, MaxBlock} :
                       last' = Outcome(UsingDict(mem, b, p, dst, cap, FALSE, start, size), b, n, dst, cap)
                 \/ last' = Refusal(UsingDict(mem, b, p, dst, n - 1, FALSE, start, size), dst, n - 1)
                 \/ \E target \in {0, 1, n \div 2, n - LASTLITERALS, n, n + 1} \cap 0..MaxBlock :
                       last' = Outcome(UsingDict(mem, b, p, dst, target, TRUE, start, size), b, MinOf(target, n), dst, target)
                 \/ last' = Outcome(LZ4_decompress_fast_usingDict(mem, b, p, dst, n, start, size), b, n, dst, n)
    /\ UNCHANGED <<build, mem, stream, lz4sd, dNext, blocks>>

-----------------------------------------------------------------------------
(* The decoder of the OpenCL kernels (lz4_gpu/lz4_gpu.cl), in the same memory: one  *)
(* block, without history, decoded to its own place                              *)

\* LZ4_COPY_MATCH: patterns for the distances 1, 2 and 4, else pieces that are not longer than the distance.
RECURSIVE ByPieces(_, _, _, _)
ByPieces(m, op, off, len) ==
    LET n == IF off >= 16 /\ len >= 16 THEN 16 ELSE IF off >= 8 /\ len >= 8 THEN 8
             ELSE IF off >= 4 /\ len >= 4 THEN 4 ELSE 1
    IN  IF len = 0 THEN m ELSE ByPieces(Copy(m, op, op - off, n), op + n, off, len - n)

LZ4_COPY_MATCH(m, op, off, len) ==
    IF off < len /\ off \in {1, 2, 4} THEN Forward(m, op, op - off, len) ELSE ByPieces(m, op, off, len)

\* How much LZ4_lit_wildCopy8 copies, and the match copies of the fast path.
LZ4_lit_wildCopy8(ll) == IF ll <= 8 THEN 8 ELSE IF ll <= 16 THEN 16 ELSE ll
FastCopied(ml) == IF ml <= 8 THEN 8 ELSE IF ml <= 16 THEN 16 ELSE ml

\* From label _copy_match: ip is after the offset.
GpuCopyMatch(c, x, s) ==
    LET ip2 == x.ip + ExtBytes(s.ml - MINMATCH, ML_MASK)
    IN  IF ip2 > x.ip /\ ip2 > c.iend - LASTLITERALS THEN Fail(x)
        ELSE NextSeq([Store(x, LZ4_COPY_MATCH(x.m, x.op, s.off, s.ml), x.op + s.ml) EXCEPT !.ip = ip2], x.op + s.ml)

\* Is there room in the input and the output for the copies of the fast path?
FastPath(c, x, s) == s.ll < RUN_MASK /\ x.ip + 1 < c.iend - 16 /\ c.oend - c.dst >= 32 /\ x.op <= c.oend - 32

RECURSIVE GpuLoop(_, _)
GpuLoop(c, y) ==
    LET s == SeqAt(c, y.k)
        short == s.ml - MINMATCH < ML_MASK
        fast == FastPath(c, y, s)
        x == [y EXCEPT !.ip = @ + 1 + ExtBytes(s.ll, RUN_MASK)]
        final == x.op + s.ll > c.oend - MFLIMIT \/ x.ip + s.ll > c.iend - (2 + 1 + LASTLITERALS)
        n == IF fast THEN (IF s.ll <= 8 THEN 8 ELSE 16) ELSE LZ4_lit_wildCopy8(s.ll)
        z == [PutLiterals(c, x, s.ll, n) EXCEPT !.ip = @ + 2]
        m == IF s.ml <= 8 THEN Copy(z.m, z.op, z.op - s.off, 8) ELSE Forward(z.m, z.op, z.op - s.off, FastCopied(s.ml))
    IN  IF y.ret # "go" THEN y
        ELSE IF ~fast /\ x.ip > c.iend THEN Fail(x)
        ELSE IF ~fast /\ final
        THEN IF x.ip + s.ll # c.iend \/ x.op + s.ll > c.oend THEN Fail(x) ELSE End(PutLiterals(c, x, s.ll, s.ll))
        ELSE IF s.off > z.op - c.dst THEN Fail(z)
        ELSE IF fast /\ short /\ (s.off >= s.ml \/ s.off >= 8)
        THEN GpuLoop(c, NextSeq(Store(z, m, z.op + FastCopied(s.ml)), z.op + s.ml))
        ELSE GpuLoop(c, GpuCopyMatch(c, z, s))

lz4_decompress_generic(m, b, p, dst, outputSize) ==
    GpuLoop([b |-> b, p |-> p, dst |-> dst, oend |-> dst + outputSize, iend |-> Encoded(b)],
            [k |-> 1, ip |-> 0, op |-> dst, m |-> m, hi |-> dst, ret |-> "go"])

\* A block decoded on the GPU: to its place of MaxBlock bytes, or as the last one of the output.
DecodeOnGpu ==
    /\ blocks = 0 /\ stream = <<>>
    /\ \E b \in GpuBlocks : /\ Valid(0, b)
                            /\ \E cap \in {Decoded(b), MaxBlock} :
                                  last' = Outcome(lz4_decompress_generic(mem, b, 1, Scratch, cap), b, Decoded(b), Scratch, cap)
    /\ UNCHANGED <<build, mem, stream, lz4sd, dNext, blocks>>

-----------------------------------------------------------------------------
Next ==
    \/ LZ4_decompress_safe_continue
    \/ LZ4_decompress_fast_continue
    \/ SaveHistory
    \/ DecodeApart
    \/ DecodeOnGpu

Spec == Init /\ [][Next]_vars

-----------------------------------------------------------------------------

TypeOK ==
    /\ build \in Builds /\ mem \in Seq(Int) /\ Len(mem) = Cardinality(Memory) /\ stream \in Seq(Nat)
    /\ dNext \in 0..DecoderRingSize /\ blocks \in 0..Len(Blocks)
    /\ lz4sd \in [prefixSize : Nat, prefixEnd : Int, externalDict : Int, extDictSize : Nat]
    /\ last \in [right : BOOLEAN, inside : BOOLEAN]

\* Every call returns what it should: a whole block of the stream, byte for
\* byte, the first bytes of it when fewer are asked for, and an error when
\* it does not fit - whatever the blocks before it, wherever the caller
\* decodes it to, and although both loops write beyond what they decode
\* (LZ4_decompress_generic, LZ4_decompress_safe_continue).
BlocksDecode == last.right

\* No call writes beyond the size it was given, however far its copies
\* overshoot (the distances kept by LZ4_decompress_generic).
DestinationRespected == TypeOK /\ last.inside
====
