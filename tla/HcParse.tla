------------------------------- MODULE HcParse --------------------------------
(***************************************************************************)
(* The three parsers of lib/lz4hc.c (LZ4MID_compress, LZ4HC_compress_      *)
(* hashChain and LZ4HC_compress_optimal): how they choose, from the        *)
(* matches the searches report, the sequences of a block.                  *)
(*                                                                         *)
(* The data are abstracted to the matches.  A search may report any        *)
(* repetition, as long as its promise holds; a repetition is the interval  *)
(* lo..hi - 1 of positions that it covers, and stays one when it is        *)
(* shortened at either end.  Positions count from the start of the block.  *)
(***************************************************************************)
EXTENDS Integers, Sequences

CONSTANTS Jobs,             \* the calls: see `job'
          OPTIMAL_ML,       \* the longest match whose length fits the token
          sufficient_len, LZ4_OPT_NUM

VARIABLES job,              \* a call: [parser, n (bytes of input), limit, cap (of the output), full, fav]
          s                 \* its local variables

vars == <<job, s>>

MINMATCH == 4
LASTLITERALS == 5
MFLIMIT == 12
LZ4_minLength == MFLIMIT + 1
RUN_MASK == 15
ML_MASK == 15
TRAILING_LITERALS == 3

ParseAssumption == /\ OPTIMAL_ML \in Nat /\ OPTIMAL_ML > MINMATCH
                   /\ \A j \in Jobs : j.limit \in {"notLimited", "limitedOutput", "fillOutput"}

iend == job.n
mflimit == job.n - MFLIMIT
matchlimit == job.n - LASTLITERALS
oend == job.cap - (IF job.limit = "fillOutput" THEN LASTLITERALS ELSE 0)

Shorter(a, b) == IF a < b THEN a ELSE b

-----------------------------------------------------------------------------
(* The searches                                                            *)

NoMatch == [len |-> 0, lo |-> 0, hi |-> 0]
Match(lo, hi) == [len |-> hi - lo, lo |-> lo, hi |-> hi]

\* LZ4HC_InsertAndGetWiderMatch: the matches around p it may report, that start no
\* earlier than `low' and are longer than `longest'.
WiderMatches(p, low, longest) ==
    {Match(x[1], x[2]) : x \in {y \in (low..p) \X ((p + MINMATCH)..matchlimit) : y[2] - y[1] > longest}}

\* LZ4HC_InsertAndFindBestMatch, LZ4HC_FindLongerMatch and the searches of LZ4MID_compress.
MatchesAt(p, longest) == WiderMatches(p, p, longest)

-----------------------------------------------------------------------------
(* The output                                                              *)

Extra(n, mask) == IF n >= mask THEN 1 + (n - mask) \div 255 ELSE 0

Limited == job.limit # "notLimited"

\* LZ4HC_encodeSequence: the match m, cut to start at ip and be m.len long.  If it does
\* not fit, nothing but `ok' is different.
Encoded(st, m, limited) ==
    LET lit == st.ip - st.anchor
        op1 == st.op + 1
        op2 == op1 + Extra(lit, RUN_MASK) + lit + 2
        mlCode == m.len - MINMATCH
    IN  IF \/ limited /\ op1 + lit \div 255 + lit + (2 + 1 + LASTLITERALS) > oend
           \/ limited /\ op2 + mlCode \div 255 + (1 + LASTLITERALS) > oend
        THEN [st EXCEPT !.ok = FALSE]
        ELSE [st EXCEPT !.ok = TRUE, !.op = op2 + Extra(mlCode, ML_MASK),
                        !.ip = @ + m.len, !.anchor = st.ip + m.len, !.at = st.ip,
                        !.out = Append(@, [lit |-> lit, at |-> st.ip, len |-> m.len, lo |-> m.lo, hi |-> m.hi])]

Finished(st, consumed, op) == [st EXCEPT !.pc = "done", !.ip = consumed, !.op = op]
Failed(st) == [st EXCEPT !.pc = "failed", !.op = 0]

\* _last_literals, in each of the three.
LastLiterals(st) ==
    LET all == iend - st.anchor
        room == job.cap - st.op - 1
        fits == st.op + 1 + (all + 255 - RUN_MASK) \div 255 + all <= job.cap
        run == IF fits \/ ~Limited THEN all ELSE room - (room + 256 - RUN_MASK) \div 256
    IN  IF ~fits /\ job.limit = "limitedOutput" THEN Failed(st)
        ELSE Finished(st, st.anchor + run, st.op + 1 + Extra(run, RUN_MASK) + run)

\* _dest_overflow: what is left of the output takes a shorter match, or only literals.
DestOverflow(st, m) ==
    LET ll == st.ip - st.anchor
        cost == 1 + (ll + 240) \div 255 + ll
        left == oend - 3 - (st.op + cost)
        cut == [m EXCEPT !.len = Shorter(@, MINMATCH + (ML_MASK - 1) + left * 255)]
    IN  IF job.limit # "fillOutput" THEN Failed(st)
        ELSE IF left >= 0 /\ job.cap - (st.op + cost + 2) - 1 + cut.len >= MFLIMIT
        THEN LastLiterals(Encoded(st, cut, FALSE))
        ELSE LastLiterals(st)

\* A sequence, and what comes after it.
Then(st, m, After(_)) ==
    LET e == Encoded(st, m, Limited) IN IF e.ok THEN After(e) ELSE DestOverflow(st, m)

-----------------------------------------------------------------------------
(* LZ4MID_compress                                                         *)

\* One round of the loop: nothing found; or a match, or a longer one a byte later, that
\* is extended backwards over the literals.
MidStep ==
    /\ job.parser = "mid" /\ s.pc = "main" /\ s.ip <= mflimit
    /\ \/ s' = [s EXCEPT !.ip = @ + 1 + (@ - s.anchor) \div 512, !.out = <<>>]
       \/ \E m \in MatchesAt(s.ip, MINMATCH - 1) :
          \E best \in {m} \cup (IF s.ip < mflimit THEN MatchesAt(s.ip + 1, m.len) ELSE {}) :
          \E lo \in s.anchor..best.lo :
             s' = Then([s EXCEPT !.ip = lo, !.out = <<>>], Match(lo, best.hi), LAMBDA e : e)

-----------------------------------------------------------------------------
(* LZ4HC_compress_hashChain: up to three matches that overlap are weighed  *)

Goto(st, pc) == [st EXCEPT !.pc = pc]

HcSearch1 ==
    /\ job.parser = "hc" /\ s.pc = "main" /\ s.ip <= mflimit
    /\ \/ s' = [s EXCEPT !.ip = @ + 1, !.out = <<>>]
       \/ \E m \in MatchesAt(s.ip, MINMATCH - 1) :
             s' = [s EXCEPT !.pc = "search2", !.m1 = m, !.start0 = s.ip, !.m0 = m, !.out = <<>>]

\* A second match that is longer; or the first is written.
HcSearch2 ==
    /\ s.pc = "search2"
    /\ \/ s' = Then([s EXCEPT !.out = <<>>], s.m1, LAMBDA e : Goto(e, "main"))
       \/ /\ s.ip + s.m1.len <= mflimit
          /\ \E m \in WiderMatches(s.ip + s.m1.len - 2, s.ip, s.m1.len) :
             LET back == s.start0 < s.ip /\ m.lo < s.ip + s.m0.len
                 t == IF back THEN [s EXCEPT !.ip = s.start0, !.m1 = s.m0] ELSE s
             IN  s' = IF m.lo - t.ip < 3
                      THEN [t EXCEPT !.ip = m.lo, !.m1 = m, !.out = <<>>]
                      ELSE [t EXCEPT !.pc = "search3", !.start2 = m.lo, !.m2 = m, !.out = <<>>]

\* The start of the second match is moved on, by the bytes the first one had better keep.
Shifted(t, ml) ==
    LET new == Shorter(Shorter(ml, OPTIMAL_ML), (t.start2 - t.ip) + t.m2.len - MINMATCH)
        correction == new - (t.start2 - t.ip)
    IN  IF correction > 0
        THEN [t EXCEPT !.start2 = @ + correction, !.m2.len = @ - correction]
        ELSE t

\* Mutant: the first match keeps its length although the second one begins inside it.
CutFirstNot(t) == t

\* The first match is cut to end where the second begins.
CutFirst(t) == IF t.start2 < t.ip + t.m1.len THEN [t EXCEPT !.m1.len = t.start2 - t.ip] ELSE t

\* No third match is longer: the two are written.
WriteTwo(t) ==
    LET first == CutFirst(t) IN
    Then(first, first.m1,
         LAMBDA e : Then([e EXCEPT !.ip = t.start2], t.m2, LAMBDA f : Goto(f, "main")))

\* There is no room for the second match before the third.
DropSecond(t, m3) ==
    IF m3.lo < t.ip + t.m1.len THEN [t EXCEPT !.start2 = m3.lo, !.m2 = m3]
    ELSE LET over == t.ip + t.m1.len - t.start2
             u == IF over <= 0 THEN t
                  ELSE IF t.m2.len - over < MINMATCH THEN [t EXCEPT !.start2 = m3.lo, !.m2 = m3]
                  ELSE [t EXCEPT !.start2 = @ + over, !.m2.len = @ - over]
         IN  Then(u, t.m1, LAMBDA e : [e EXCEPT !.pc = "search2", !.ip = m3.lo, !.m1 = m3,
                                                !.start0 = u.start2, !.m0 = u.m2])

\* Three matches one after the other: the first is written.
WriteFirst(t, m3) ==
    LET near == t.start2 < t.ip + t.m1.len /\ t.start2 - t.ip < OPTIMAL_ML
        ml == Shorter(Shorter(t.m1.len, OPTIMAL_ML), (t.start2 - t.ip) + t.m2.len - MINMATCH)
        u == IF near THEN [Shifted(t, t.m1.len) EXCEPT !.m1.len = ml] ELSE CutFirst(t)
    IN  Then(u, u.m1, LAMBDA e : [e EXCEPT !.ip = u.start2, !.m1 = u.m2, !.start2 = m3.lo, !.m2 = m3])

HcSearch3 ==
    /\ s.pc = "search3"
    /\ LET r == [s EXCEPT !.out = <<>>]
           t == IF r.start2 - r.ip < OPTIMAL_ML THEN Shifted(r, r.m1.len) ELSE r
       IN  \/ s' = WriteTwo(t)
           \/ /\ t.start2 + t.m2.len <= mflimit
              /\ \E m3 \in WiderMatches(t.start2 + t.m2.len - 3, t.start2, t.m2.len) :
                 s' = IF m3.lo < t.ip + t.m1.len + 3 THEN DropSecond(t, m3) ELSE WriteFirst(t, m3)

-----------------------------------------------------------------------------
(* LZ4HC_compress_optimal: the cheapest way to each of the next positions  *)

LZ4HC_literalsPrice(litlen) == litlen + Extra(litlen, RUN_MASK)
LZ4HC_sequencePrice(litlen, mlen) == 1 + 2 + LZ4HC_literalsPrice(litlen) + Extra(mlen - MINMATCH, ML_MASK)

\* LZ4HC_FindLongerMatch
LongerMatches(p, longest) ==
    {[m EXCEPT !.len = IF job.fav /\ @ \in (OPTIMAL_ML + 1)..(2 * OPTIMAL_ML) THEN OPTIMAL_ML ELSE @]
        : m \in MatchesAt(p, longest)}

Literal(litlen, price) == [m |-> [NoMatch EXCEPT !.len = 1], litlen |-> litlen, price |-> price]

\* The three positions after the last one that a match reaches.
Trailing(opt, last) ==
    [p \in DOMAIN opt \cup ((last + 1)..(last + TRAILING_LITERALS)) |->
        IF p > last /\ p <= last + TRAILING_LITERALS
        THEN Literal(p - last, opt[last].price + LZ4HC_literalsPrice(p - last)) ELSE opt[p]]

FirstPrices(llen, m) ==
    Trailing([p \in 0..m.len |-> IF p < MINMATCH THEN Literal(llen + p, LZ4HC_literalsPrice(llen + p))
                                ELSE [m |-> [m EXCEPT !.len = p], litlen |-> llen,
                                      price |-> LZ4HC_sequencePrice(llen, p)]], m.len)

\* The prices with a match at cur, and how far they now reach.
NewPrices(opt, cur, last, m) ==
    LET base == opt[cur].litlen
        lit(p) == opt[cur].price - LZ4HC_literalsPrice(base) + LZ4HC_literalsPrice(base + p - cur)
        before == [p \in DOMAIN opt |-> IF p \in (cur + 1)..(cur + MINMATCH - 1) /\ lit(p) < opt[p].price
                                        THEN Literal(base + p - cur, lit(p)) ELSE opt[p]]
        ll == IF opt[cur].m.len = 1 THEN base ELSE 0
        from == IF opt[cur].m.len # 1 THEN opt[cur].price ELSE IF cur > ll THEN opt[cur - ll].price ELSE 0
        price(p) == from + LZ4HC_sequencePrice(ll, p - cur)
        better(p) == IF p > last + TRAILING_LITERALS THEN TRUE
                     ELSE price(p) <= before[p].price - (IF job.fav THEN 1 ELSE 0)
        reach == (cur + MINMATCH)..(cur + m.len)
        far == IF better(cur + m.len) /\ last < cur + m.len THEN cur + m.len ELSE last
    IN  [last |-> far,
         opt |-> Trailing([p \in DOMAIN opt \cup reach |->
                              IF p \in reach /\ better(p)
                              THEN [m |-> [m EXCEPT !.len = p - cur], litlen |-> ll, price |-> price(p)]
                              ELSE before[p]], far)]

\* From the end to the beginning, each match is put where it starts.
RECURSIVE Traversed(_, _, _)
Traversed(opt, p, selected) ==
    LET next == opt[p].m
        o == [opt EXCEPT ![p].m = selected]
    IN  IF next.len > p THEN o ELSE Traversed(o, p - next.len, next)

\* The sequences, in order.
RECURSIVE WriteAll(_, _, _, _)
WriteAll(st, opt, r, last) ==
    IF r >= last THEN [st EXCEPT !.pc = "main", !.opt = <<>>, !.last = 0, !.cur = 0]
    ELSE IF opt[r].m.len = 1 THEN WriteAll([st EXCEPT !.ip = @ + 1], opt, r + 1, last)
    ELSE Then(st, opt[r].m, LAMBDA e : WriteAll(e, opt, r + opt[r].m.len, last))

EncodePath(st, cur, last, best) == WriteAll(st, Traversed(st.opt, cur, best), 0, last)

OptFirst ==
    /\ job.parser = "opt" /\ s.pc = "main" /\ s.ip <= mflimit
    /\ \/ s' = [s EXCEPT !.ip = @ + 1, !.out = <<>>]
       \/ \E m \in LongerMatches(s.ip, MINMATCH - 1) :
             s' = IF m.len > Shorter(sufficient_len, LZ4_OPT_NUM - 1)
                  THEN Then([s EXCEPT !.out = <<>>], m, LAMBDA e : e)
                  ELSE [s EXCEPT !.pc = "opt", !.opt = FirstPrices(s.ip - s.anchor, m),
                                 !.last = m.len, !.cur = 1, !.out = <<>>]

\* One round of the loop over the positions the matches reach.
OptPosition ==
    /\ s.pc = "opt" /\ s.cur < s.last /\ s.ip + s.cur <= mflimit
    /\ LET opt == s.opt
           cur == s.cur
           dear == /\ opt[cur + 1].price <= opt[cur].price
                   /\ job.full => opt[cur + MINMATCH].price < opt[cur].price + 3
           on == [s EXCEPT !.cur = @ + 1]
       IN  \/ s' = on
           \/ /\ ~dear
              /\ \E m \in LongerMatches(s.ip + cur, IF job.full THEN MINMATCH - 1 ELSE s.last - cur) :
                 s' = IF m.len > Shorter(sufficient_len, LZ4_OPT_NUM - 1) \/ m.len + cur >= LZ4_OPT_NUM
                      THEN EncodePath(s, cur, cur + 1, m)
                      ELSE LET n == NewPrices(opt, cur, s.last, m)
                           IN  [on EXCEPT !.opt = n.opt, !.last = n.last]

OptEncode ==
    /\ s.pc = "opt" /\ (s.cur >= s.last \/ s.ip + s.cur > mflimit)
    /\ s' = EncodePath(s, s.last - s.opt[s.last].m.len, s.last, s.opt[s.last].m)

-----------------------------------------------------------------------------

Literals ==
    /\ s.pc = "main" /\ s.ip > mflimit
    /\ s' = LastLiterals([s EXCEPT !.out = <<>>])

Init ==
    /\ job \in Jobs
    /\ s = [pc |-> "main", ok |-> TRUE, op |-> 0, anchor |-> 0, at |-> 0, out |-> <<>>,
            ip |-> IF job.parser # "opt" /\ job.n < LZ4_minLength THEN job.n ELSE 0,
            start0 |-> 0, m0 |-> NoMatch, m1 |-> NoMatch, start2 |-> 0, m2 |-> NoMatch,
            opt |-> <<>>, last |-> 0, cur |-> 0]

Next == (MidStep \/ HcSearch1 \/ HcSearch2 \/ HcSearch3 \/ OptFirst \/ OptPosition \/ OptEncode \/ Literals)
        /\ UNCHANGED job

Spec == Init /\ [][Next]_vars

-----------------------------------------------------------------------------
(* Properties                                                              *)

TypeOK == /\ s.pc \in {"main", "search2", "search3", "opt", "done", "failed"}
          /\ s.ip \in 0..job.n /\ s.anchor \in 0..job.n

\* However the parsers weigh, cut, shift and drop matches that overlap, each sequence they
\* write starts where the literals before it end, is at least MINMATCH long, and lies
\* within a repetition that a search reported for its offset.
SequencesReal == TypeOK /\ \A i \in DOMAIN s.out :
    LET e == s.out[i] IN e.lit >= 0 /\ e.len >= MINMATCH /\ e.lo <= e.at /\ e.at + e.len <= e.hi

\* The output has room for what is written, also in the calls that fill it; the last match
\* starts at least MFLIMIT before the end of what was consumed and at least LASTLITERALS
\* literals follow it; and without a limit all the input is consumed.
BlockEndsWell == (s.pc = "done") =>
    /\ Limited => s.op <= job.cap
    /\ job.limit # "fillOutput" => s.ip = job.n
    /\ s.anchor <= s.ip
    /\ s.anchor > 0 => s.ip - s.anchor >= LASTLITERALS
    /\ s.anchor > 0 => s.at + MFLIMIT <= s.ip
=============================================================================
