------------------------------- MODULE HcStream -------------------------------
(***************************************************************************)
(* The calls on an LZ4_streamHC_t, by a caller who puts blocks anywhere.   *)
(*                                                                         *)
(* A byte is a stamp: no two bytes of all the streams are the same.  A     *)
(* match at a distance d is right if the byte the compressor reads there   *)
(* is the one the decoder has d bytes before.                              *)
(***************************************************************************)
EXTENDS HcState

CONSTANTS Memory,       \* addresses 1..Memory are the caller's buffers; the dictionary follows
          Sizes,        \* of a block
          AnyRest,      \* callers need not go on with all of what was not consumed
          AnySave,      \* callers may save a part of a prefix that follows an attached dictionary
          MaxCalls

VARIABLES ctx,          \* LZ4HC_CCtx_internal
          mem,          \* the stamp at each address
          hist,         \* the decoder's history
          clock,        \* the last stamp of the stream
          rest,         \* what the last call did not consume: where and how much
          last,         \* the last block: what it could refer to, and the history then
          calls

vars == <<ctx, mem, hist, clock, rest, last, calls>>

-----------------------------------------------------------------------------
(* The calls                                                               *)

Recent(s) == SubSeq(s, Most(1, Len(s) - KB64 + 1), Len(s))
Stamps(first, n) == [i \in 1..n |-> first + i]
Store(m, a, s) == [x \in DOMAIN m |-> IF x \in a..(a + Len(s) - 1) THEN s[x - a + 1] ELSE m[x]]
Done == calls' = calls + 1
NoRest == [at |-> 0, size |-> 0]

\* LZ4_compress_HC_continue and LZ4_compress_HC_continue_destSize: n bytes are put at
\* src and given to the stream, of which it takes m.  A block that fails is stored
\* by the caller as it is, as LZ4F_makeBlock does.
Continue ==
    \E n \in Sizes, src \in 1..Memory, m \in 0..Memory, ok \in BOOLEAN :
        /\ src + n <= Memory + 1 /\ m <= n
        /\ IF AnyRest THEN m > 0
           ELSE /\ m = n \/ (ok /\ m = n - 1)
                /\ rest.size > 0 => src = rest.at /\ n > rest.size
        /\ ~ok => m = n
        /\ LET now == Store(mem, src, Stamps(clock, n))
               c == Prepared(ctx, src, n)
           IN  /\ mem' = now
               /\ ctx' = Compressed(c, n, ok)
               /\ last' = [window |-> Window(now, c), hist |-> hist, top |-> c.top, from |-> EndIndex(c)]
               /\ hist' = Recent(hist \o Stamps(clock, m))
               /\ clock' = clock + m
               /\ rest' = IF m = n THEN NoRest ELSE [at |-> src + m, size |-> n - m]
        /\ Done

\* LZ4_saveDictHC: the history is moved to a buffer of the caller's.
SaveDict ==
    \E a \in 1..Memory, size \in {3, KB64} :
        /\ rest = NoRest
        /\ LET s == LZ4_saveDictHC(ctx, a, size) IN
           /\ ctx.prefixStart # NULL /\ a + s.size <= Memory + 1
           /\ (ctx.dictCtx /\ ~AnySave) => s.size = PrefixSize(ctx)
           /\ ctx' = s.state
           /\ mem' = Store(mem, a, [i \in 1..s.size |-> mem[ctx.end - s.size + i - 1]])
        /\ UNCHANGED <<hist, clock, rest, last>> /\ Done

\* LZ4_resetStreamHC_fast, and perhaps LZ4_attach_HC_dictionary.
Reset ==
    \E mid, attach \in BOOLEAN :
        /\ ctx' = [LZ4_resetStreamHC_fast(ctx, mid) EXCEPT !.dictCtx = attach]
        /\ hist' = IF attach THEN Recent([i \in 1..DictSize |-> mem[Memory + i]]) ELSE <<>>
        /\ clock' = clock + Memory /\ rest' = NoRest
        /\ UNCHANGED <<mem, last>> /\ Done

\* LZ4_loadDictHC, of something in the caller's memory.
LoadDict ==
    \E a \in 1..Memory, n \in Sizes :
        /\ a + n <= Memory + 1
        /\ ctx' = LZ4_loadDictHC(ctx, a, n)
        /\ mem' = Store(mem, a, Stamps(clock + Memory, n))
        /\ hist' = Recent(Stamps(clock + Memory, n))
        /\ clock' = clock + Memory + n /\ rest' = NoRest
        /\ UNCHANGED last /\ Done

Init ==
    /\ ctx \in {LZ4_initStreamHC(mid) : mid \in BOOLEAN}
    /\ DictAt = Memory + 1
    /\ mem = [x \in 1..(Memory + DictSize) |-> IF x > Memory THEN -x ELSE 0]
    /\ hist = <<>> /\ clock = 0 /\ rest = NoRest /\ calls = 0
    /\ last = [window |-> <<>>, hist |-> <<>>, top |-> 0, from |-> 0]

Next == calls < MaxCalls /\ (Continue \/ SaveDict \/ Reset \/ LoadDict)

Spec == Init /\ [][Next]_vars

-----------------------------------------------------------------------------
(* Properties                                                              *)

TypeOK ==
    /\ ctx.lowLimit <= ctx.dictLimit /\ ctx.prefixStart <= ctx.end
    /\ ctx.end <= Memory + DictSize + 1 /\ Len(hist) <= KB64

\* Whatever distance a block may refer to, the byte the compressor compares with is
\* the one the decoder will copy: although blocks follow one another in memory, overlap
\* the history, replace it or are elsewhere, and dictionaries are loaded, attached,
\* saved and dropped.
WindowsRight == \A d \in DOMAIN last.window :
    d <= Len(last.hist) /\ last.window[d] = last.hist[Len(last.hist) + 1 - d]

\* No index in the tables is that of a byte still to come, also after the indices
\* have started again, and they start again before they overflow.
IndicesPast == TypeOK /\ last.top <= last.from /\ EndIndex(ctx) <= TwoGB + 2 * KB64 + 2 * Memory
=============================================================================
