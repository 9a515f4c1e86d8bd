------------------------------ MODULE BlockFormat ------------------------------
(***************************************************************************)
(* LZ4 blocks as the compressors and the decoders of lib/ see them.  A     *)
(* block is a sequence of [ll, off, ml] - ll literals, then a match of ml  *)
(* bytes at distance off - and the length of its last literals; its size   *)
(* in bytes is the format's.  The constants of the code keep their values, *)
(* but for the 64 KB of the window.                                        *)
(***************************************************************************)
EXTENDS Integers, Sequences

CONSTANT KB64           \* the window; 64 KB in the code
WindowAssumption == KB64 \in Nat \ {0}

MINMATCH == 4
LASTLITERALS == 5
MFLIMIT == 12
RUN_MASK == 15
ML_MASK == 15
LZ4_DISTANCE_MAX == KB64 - 1

MinOf(a, b) == IF a <= b THEN a ELSE b
MaxOf(a, b) == IF a >= b THEN a ELSE b

RECURSIVE SumSizes(_)
SumSizes(seqs) == IF seqs = <<>> THEN 0 ELSE Head(seqs).ll + Head(seqs).ml + SumSizes(Tail(seqs))

\* How many bytes a block decodes to.
Decoded(b) == SumSizes(b.seqs) + b.last

ExtBytes(len, mask) == IF len < mask THEN 0 ELSE (len - mask) \div 255 + 1

RECURSIVE SumBytes(_)
SumBytes(seqs) ==
    IF seqs = <<>> THEN 0
    ELSE 1 + ExtBytes(Head(seqs).ll, RUN_MASK) + Head(seqs).ll + 2
         + ExtBytes(Head(seqs).ml - MINMATCH, ML_MASK) + SumBytes(Tail(seqs))

\* How many bytes a block is.
Encoded(b) == SumBytes(b.seqs) + 1 + ExtBytes(b.last, RUN_MASK) + b.last

RECURSIVE Extend(_, _)
Extend(s, seqs) ==
    IF seqs = <<>> THEN s
    ELSE LET q == Head(seqs)
             l == s \o [i \in 1..q.ll |-> Len(s) + i]
             w == SubSeq(l, Len(l) - q.off + 1, Len(l))
         IN  Extend(l \o [i \in 1..q.ml |-> w[1 + ((i - 1) % q.off)]], Tail(seqs))

\* What the block format says: the stream after block b.
Expand(s, b) == LET t == Extend(s, b.seqs) IN t \o [i \in 1..b.last |-> Len(t) + i]

\* May block b follow h bytes of stream: offsets reach back at most to the
\* start of the stream and of the window, and the block ends as a block must.
RECURSIVE OffsetsFit(_, _)
OffsetsFit(h, seqs) ==
    seqs # <<>> =>
       LET q == Head(seqs) IN
       /\ q.off \in 1..MinOf(KB64 - 1, h + q.ll) /\ q.ml >= MINMATCH
       /\ OffsetsFit(h + q.ll + q.ml, Tail(seqs))
Valid(h, b) ==
    /\ OffsetsFit(h, b.seqs) /\ Decoded(b) > 0
    /\ b.seqs # <<>> => /\ b.last >= LASTLITERALS
                        /\ b.last + b.seqs[Len(b.seqs)].ml >= MFLIMIT

=============================================================================
