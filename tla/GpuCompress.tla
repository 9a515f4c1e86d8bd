------------------------------ MODULE GpuCompress ------------------------------
(***************************************************************************)
(* The compressor of the OpenCL kernels (lz4_gpu/lz4_gpu.cl): one lane     *)
(* with its hash table, which it reuses for one block after the other.     *)
(* The table is cleared for every block when its entries have 16 bits;     *)
(* else an entry is tagged with the low bits of the block's epoch, and has *)
(* room for the low bits of the position only.                             *)
(*                                                                         *)
(* Whatever epochs the host asks for, a stale entry costs compression,     *)
(* never data: that the tags are fresh is GpuCore's matter.                *)
(***************************************************************************)
EXTENDS BlockStream

CONSTANTS
    Epochs,     \* the number of tags; 2^12
    Positions   \* the number of positions in an entry; 2^20

GpuAssumption == Epochs \in Nat \ {0} /\ Positions \in Nat \ {0}

\* c is the call: [m, src, n, cap, clear, epoch]; s is as in BlockCompress.
LZ4_putIndexOnHashMasked(c, tbl, h, idx) ==
    [tbl EXCEPT ![h] = IF c.clear THEN (idx + 1) % KB64 ELSE (c.epoch % Epochs) * Positions + (idx % Positions)]

\* The candidates for position current: none, or one.
LZ4_getIndexOnHashMasked(c, tbl, h, current) ==
    LET e == tbl[h]
        at == (current \div Positions) * Positions + (e % Positions)
    IN  IF c.clear THEN IF e = 0 THEN {} ELSE {e - 1}
        ELSE IF e \div Positions # c.epoch % Epochs THEN {}
        ELSE {IF at > current THEN at - Positions ELSE at}

\* Is the candidate before current, near enough, and the same four bytes?
Match(c, current, k) ==
    /\ k \in 0..(current - 1) /\ current - k < LZ4_DISTANCE_MAX
    /\ Bytes(c.m, c.src + k, MINMATCH) = Bytes(c.m, c.src + current, MINMATCH)

Hash(c, p) == LZ4_hashPosition(c.m, c.src + p, "byU16")

\* Position p takes the place of the candidate for its hash.
GpuTry(c, s, p) ==
    [s |-> [s EXCEPT !.tbl = LZ4_putIndexOnHashMasked(c, @, Hash(c, p), p)], at |-> p,
     ks |-> {k \in LZ4_getIndexOnHashMasked(c, s.tbl, Hash(c, p), p) : Match(c, p, k)}]

RECURSIVE GpuSearch(_, _, _, _, _), GpuSearchOn(_, _, _, _)
GpuSearchOn(c, r, p, searchMatchNb) ==
    IF r.ks # {} THEN r ELSE GpuSearch(c, r.s, p, searchMatchNb \div 2 ^ LZ4_skipTrigger, searchMatchNb + 1)
GpuSearch(c, s, p, step, searchMatchNb) ==
    IF p + step > c.n - MFLIMIT + 1 THEN [s |-> s, at |-> p, ks |-> {}]
    ELSE GpuSearchOn(c, GpuTry(c, s, p), p + step, searchMatchNb)

GpuLastLiterals(c, s) ==
    LET run == c.n - s.anchor
    IN  IF s.op + run + 1 + (run + 255 - RUN_MASK) \div 255 > c.cap THEN [s EXCEPT !.ret = "fail"]
        ELSE [s EXCEPT !.ret = "done", !.last = run, !.op = @ + 1 + ExtBytes(run, RUN_MASK) + run]

\* From label _next_match_g: a match of ip with k, behind ll literals.
RECURSIVE GpuNextMatch(_, _, _, _, _), GpuAfterMatch(_, _), GpuTried(_, _), GpuMainLoop(_, _, _)
GpuNextMatch(c, s, ip, k, ll) ==
    LET ml == MINMATCH + LZ4_count(c.m, c.src + ip + MINMATCH, c.src + k + MINMATCH, c.src + c.n - LASTLITERALS)
    IN  GpuAfterMatch(c, [s EXCEPT !.seqs = Append(@, [ll |-> ll, off |-> ip - k, ml |-> ml]), !.anchor = ip + ml,
                                   !.op = @ + 2 + ExtBytes(ml - MINMATCH, ML_MASK)])

\* The end of the block, or the position after the match, which a match may start at.
GpuAfterMatch(c, s) ==
    LET at == s.anchor
        filled == [s EXCEPT !.tbl = LZ4_putIndexOnHashMasked(c, @, Hash(c, at - 2), at - 2)]
    IN  IF at >= c.n - MFLIMIT + 1 THEN GpuLastLiterals(c, s) ELSE GpuTried(c, GpuTry(c, filled, at))

GpuTried(c, r) ==
    IF r.ks # {} THEN GpuNextMatch(c, [r.s EXCEPT !.op = @ + 1], r.at, CHOOSE j \in r.ks : TRUE, 0)
    ELSE GpuMainLoop(c, r.s, r.at + 1)

\* A search found f, which begins `back' bytes before: literals, then the match.
GpuAfterSearch(c, s, f, k, back) ==
    LET ll == f.at - back - s.anchor
    IN  IF s.op + 1 + ll + (2 + 1 + LASTLITERALS) + ll \div 255 > c.cap THEN [f.s EXCEPT !.ret = "fail"]
        ELSE GpuNextMatch(c, [f.s EXCEPT !.op = @ + 1 + ExtBytes(ll, RUN_MASK) + ll], f.at - back, k - back, ll)
GpuSearched(c, s, f) ==
    LET k == CHOOSE j \in f.ks : TRUE
    IN  IF f.ks = {} THEN GpuLastLiterals(c, f.s)
        ELSE GpuAfterSearch(c, s, f, k, CatchUp(c.m, c.src + f.at, c.src + k, c.src + s.anchor, c.src))

GpuMainLoop(c, s, ip) == GpuSearched(c, s, GpuSearch(c, s, ip, 1, 2 ^ LZ4_skipTrigger))

GpuMade(c, r) ==
    [b |-> [seqs |-> r.seqs, last |-> r.last], size |-> IF r.ret = "done" THEN r.op ELSE 0,
     consumed |-> c.n, tbl |-> r.tbl, sound |-> r.ret = "done"]

lz4_compress_core_accelerated(c, tbl) ==
    LET s == [anchor |-> 0, op |-> 0, tbl |-> IF c.clear THEN EmptyTable ELSE tbl, seqs |-> <<>>, last |-> 0, ret |-> "go"]
        first == [s EXCEPT !.tbl = LZ4_putIndexOnHashMasked(c, @, Hash(c, 0), 0)]
    IN  GpuMade(c, IF c.n < MFLIMIT + 1 THEN GpuLastLiterals(c, s) ELSE GpuMainLoop(c, first, 1))

\* single_block_max_out
MaxOut(n) == (n * 11) \div 10 + 64

-----------------------------------------------------------------------------
OnLane(r) == [r |-> r, s |-> [NoStream EXCEPT !.tbl = r.tbl]]

\* The lane's next block: its table is in lz4.tbl, of either kind, and the host chose the epoch.
CompressOnGpu(text, n, epoch, clear) ==
    /\ Called
    /\ LET data == SubSeq(text, 1, n)
           m == Put(mem, 0, data)
           call == [m |-> m, src |-> 0, n |-> n, cap |-> MaxOut(n), clear |-> clear, epoch |-> epoch]
       IN  Returned(m, <<>>, data, OnLane(lz4_compress_core_accelerated(call, lz4.tbl)), MaxOut(n))
    /\ UNCHANGED <<dictStream, stream, pos, phase>>

GpuNext ==
    \/ phase # "gpu" /\ Next
    \/ phase = "gpu" /\ \E text \in Texts, n \in Sizes \ {0}, epoch \in 1..Epochs, clear \in BOOLEAN : CompressOnGpu(text, n, epoch, clear)

GpuInit == Init \/ InitIn("gpu")
GpuSpec == GpuInit /\ [][GpuNext]_vars
=============================================================================
