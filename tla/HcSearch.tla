------------------------------- MODULE HcSearch -------------------------------
(***************************************************************************)
(* The search of lib/lz4hc.c over hash chains: LZ4HC_Insert and            *)
(* LZ4HC_InsertAndGetWiderMatch, with its two shortcuts, the choice of a   *)
(* better chain (chainSwap) and the jumps over repeated bytes (pattern     *)
(* analysis).                                                              *)
(*                                                                         *)
(* Positions are indices.  The history is [old, dict), which is either     *)
(* the dictionary of an attached stream or data the stream gave up but     *)
(* still has in its tables, then [dict, prefix), the external dictionary,  *)
(* and from prefix on the prefix and the block.                            *)
(***************************************************************************)
EXTENDS Integers, FiniteSetsExt, TLC

CONSTANTS MINMATCH, LZ4_DISTANCE_MAX,
          Alphabet, Length,     \* the bytes there are, and how many the history and the block have
          Layouts,              \* where the dictionary and the prefix begin
          LASTLITERALS,         \* no match covers the last bytes of a block
          Near,                 \* favorDecSpeed skips offsets less than this
          Attempts              \* values of maxNbAttempts

SearchAssumption == MINMATCH \in Nat \ {0, 1} /\ LZ4_DISTANCE_MAX \in Nat \ {0}

VARIABLES byte,                 \* the history and the block
          dict, prefix,         \* lowLimit and dictLimit
          attached,             \* is [old, dict) the dictionary of an attached stream?
          tables, nextToUpdate, \* hashTable and chainTable
          dictCtx,              \* the tables of the attached stream
          last                  \* the last search and what it found

vars == <<byte, dict, prefix, attached, tables, nextToUpdate, dictCtx, last>>

old == LZ4_DISTANCE_MAX + 1     \* indices start at 64 KB
iend == old + Length
iHighLimit == iend - LASTLITERALS

-----------------------------------------------------------------------------
(* The tables                                                              *)

Word(p) == [k \in 0..(MINMATCH - 1) |-> byte[p + k]]
LZ4HC_hashPtr(p) == FoldSet(LAMBDA k, sum : sum + byte[p + k], 0, 0..(MINMATCH - 1))
DELTANEXTU16(t, p) == t.chain[p % (LZ4_DISTANCE_MAX + 1)]

NoTables == [hash |-> [h \in 0..(MINMATCH * Max(Alphabet)) |-> 0], chain |-> [i \in 0..LZ4_DISTANCE_MAX |-> 0]]

\* LZ4HC_Insert: the positions from idx on, up to ip.
RECURSIVE LZ4HC_Insert(_, _, _)
LZ4HC_Insert(t, idx, ip) ==
    IF idx >= ip THEN t
    ELSE LET h == LZ4HC_hashPtr(idx)
             delta == Min({idx - t.hash[h], LZ4_DISTANCE_MAX})
         IN  LZ4HC_Insert([hash |-> [t.hash EXCEPT ![h] = idx],
                           chain |-> [t.chain EXCEPT ![idx % (LZ4_DISTANCE_MAX + 1)] = delta]], idx + 1, ip)

-----------------------------------------------------------------------------
(* One search.  q is what is asked: ip, low (iLowLimit), longest,          *)
(* attempts, pa, swap, fav, and the tables; r is where the search is: the  *)
(* candidate at, the attempts left, the chain pos and the best match.      *)

lowest(q) == Max({dict, q.ip - LZ4_DISTANCE_MAX})

\* LZ4_count: how far p and m agree, p not beyond limit; LZ4HC_countBack: how far they do backwards.
LZ4_count(p, m, limit) == Max({n \in 0..(limit - p) : \A k \in 0..(n - 1) : byte[p + k] = byte[m + k]})
LZ4HC_countBack(p, m, iMin, mMin) ==
    Max({n \in 0..Min({p - iMin, m - mMin}) : \A k \in 1..n : byte[p - k] = byte[m - k]})

\* LZ4HC_countPattern and LZ4HC_reverseCountPattern, of one byte.  Segments follow one another.
Forward(p, c, limit) == Max({n \in 0..(limit - p) : \A k \in 0..(n - 1) : byte[p + k] = c})
Backward(p, c, limit) == Max({n \in 0..(p - limit) : \A k \in 1..n : byte[p - k] = c})

\* The last bytes of a dictionary are too few for a match.
LZ4HC_protectDictEnd(p) == p >= prefix \/ p + MINMATCH <= prefix

\* The length of the match at m, as far as it goes back and forth.
MatchLength(q, m) ==
    LET back == LZ4HC_countBack(q.ip, m, q.low, IF m >= prefix THEN prefix ELSE dict)
    IN  [back |-> back, len |-> back + LZ4_count(q.ip, m, iHighLimit)]

Better(q, r, m, length, back) ==
    IF length > r.longest THEN [r EXCEPT !.longest = length, !.offset = q.ip - m, !.back = back] ELSE r

\* The candidate is compared, if two bytes at the end of a longer match are the same.
Tried(q, r) ==
    LET m == r.at
        far == IF m >= prefix THEN {r.longest - 1, r.longest} ELSE {}
        same == \A k \in far : byte[q.low + k] = byte[m - (q.ip - q.low) + k]
        l == MatchLength(q, m)
    IN  IF (q.fav /\ q.ip - m < Near) \/ ~LZ4HC_protectDictEnd(m) \/ ~same \/ Word(m) # Word(q.ip)
        THEN [r EXCEPT !.length = 0]
        ELSE Better(q, [r EXCEPT !.length = l.len], m, l.len, l.back)

\* chainSwap: of the chains the match is on, the one whose next link is farthest (every link of
\* a match this short is looked at).
Links(q, r) == [pos \in 0..(r.longest - MINMATCH) |-> DELTANEXTU16(q.tables, r.at + pos)]
Swapped(q, r) ==
    LET far == Max({Links(q, r)[pos] : pos \in DOMAIN Links(q, r)})
        first == Min({pos \in DOMAIN Links(q, r) : Links(q, r)[pos] = far})
    IN  IF q.swap /\ r.length = r.longest /\ r.at + r.longest <= q.ip /\ far > 1
        THEN IF far > r.at THEN [r EXCEPT !.next = "stop"]
             ELSE [r EXCEPT !.next = "again", !.at = @ - far, !.pos = first]
        ELSE [r EXCEPT !.next = "on"]

\* Mutant: a jump to the beginning of the run reports it as long as the run.
JumpToStartWhole(q, r, new, segment, source) ==
    LET b == Better(q, r, new, segment, 0)
        dist == DELTANEXTU16(q.tables, new)
    IN  IF q.low < q.ip THEN [r EXCEPT !.next = "again", !.at = new]
        ELSE IF dist > new THEN [b EXCEPT !.next = "stop"]
        ELSE [b EXCEPT !.next = "again", !.at = new - dist]

\* The run of bytes is too short, or was passed already: on to where it begins.
JumpToStart(q, r, new, segment, source) ==
    LET b == Better(q, r, new, Min({segment, source}), 0)
        dist == DELTANEXTU16(q.tables, new)
    IN  IF q.low < q.ip THEN [r EXCEPT !.next = "again", !.at = new]
        ELSE IF dist > new THEN [b EXCEPT !.next = "stop"]
        ELSE [b EXCEPT !.next = "again", !.at = new - dist]

\* Mutant: a run that was passed already is jumped into again.
EndOfRunAgain(back, forward, source) == back + forward >= source

\* Is the whole run of the block in the candidate's run, at a place not passed yet?
EndOfRun(back, forward, source) == back + forward >= source /\ forward <= source

\* Pattern analysis: where the block repeats one byte, and the candidate before this one does too.
Jumped(q, r) ==
    LET c == byte[q.ip]
        cand == r.at - 1
        source == Forward(q.ip, c, iHighLimit)
        forward == Forward(cand, c, iHighLimit)
        back == Backward(cand, c, lowest(q))
        protected(p) == IF LZ4HC_protectDictEnd(p) THEN p ELSE prefix
    IN  IF ~(q.pa /\ r.pos = 0 /\ DELTANEXTU16(q.tables, r.at) = 1 /\ source >= MINMATCH
             /\ cand >= lowest(q) /\ LZ4HC_protectDictEnd(cand) /\ Word(cand) = Word(q.ip))
        THEN r
        ELSE IF EndOfRun(back, forward, source)
        THEN [r EXCEPT !.next = "again", !.at = protected(cand + forward - source)]
        ELSE IF ~LZ4HC_protectDictEnd(cand - back) THEN [r EXCEPT !.next = "again", !.at = prefix]
        ELSE JumpToStart(q, r, cand - back, back + forward, source)

\* The loop over the candidates.
JumpedUnlessSwapped(q, r) == IF r.next = "on" THEN Jumped(q, r) ELSE r
FollowChain(q, r) == IF r.next = "on" THEN [r EXCEPT !.at = @ - DELTANEXTU16(q.tables, r.at + r.pos)] ELSE r

RECURSIVE Search(_, _)
Search(q, r) ==
    IF r.at < lowest(q) \/ r.left = 0 \/ r.next = "stop" THEN r
    ELSE Search(q, FollowChain(q, JumpedUnlessSwapped(q, Swapped(q, Tried(q, [r EXCEPT !.left = @ - 1])))))

\* The chain of the attached stream, whose dictionary ends where the history begins.
RECURSIVE SearchDictCtx(_, _)
SearchDictCtx(q, r) ==
    LET m == r.at
        back == LZ4HC_countBack(q.ip, m, q.low, old)
        n == LZ4_count(q.ip, m, Min({q.ip + (dict - m), iHighLimit}))
        b == IF Word(m) = Word(q.ip) THEN Better(q, r, m, back + n, back) ELSE r
    IN  IF q.ip - r.at > LZ4_DISTANCE_MAX \/ r.left = 0 THEN r
        ELSE SearchDictCtx(q, [b EXCEPT !.at = @ - DELTANEXTU16(dictCtx, m), !.left = @ - 1])

\* LZ4HC_InsertAndGetWiderMatch, the positions before ip inserted.
InDictCtx(q, h, r) ==
    IF attached /\ r.left > 0 /\ dict + LZ4_DISTANCE_MAX + 1 > q.ip
    THEN SearchDictCtx(q, [r EXCEPT !.at = dictCtx.hash[h]]) ELSE r
Reported(r) == [len |-> r.longest, off |-> r.offset, back |-> r.back]

LZ4HC_InsertAndGetWiderMatch(q) ==
    LET h == LZ4HC_hashPtr(q.ip)
    IN  Reported(InDictCtx(q, h, Search(q, [at |-> q.tables.hash[h], left |-> q.attempts, longest |-> q.longest,
                                            offset |-> 0, back |-> 0, length |-> 0, pos |-> 0, next |-> "on"])))

-----------------------------------------------------------------------------
(* The parsers' calls                                                      *)

\* The best match at ip (hash chains, with and without analysis), a longer one than the best so
\* far (optimal), and one that may begin before ip, near the end of the match at hand.
Queries(ip, n) ==
    {[low |-> ip, longest |-> MINMATCH - 1, attempts |-> n, pa |-> pa, swap |-> FALSE, fav |-> FALSE] : pa \in BOOLEAN}
    \cup {[low |-> ip, longest |-> l, attempts |-> n, pa |-> TRUE, swap |-> TRUE, fav |-> fav] :
              l \in (MINMATCH - 1)..Min({MINMATCH + 1, iHighLimit - ip}), fav \in BOOLEAN}
    \cup {[low |-> low, longest |-> ip - low + k, attempts |-> n, pa |-> pa, swap |-> FALSE, fav |-> FALSE] :
              low \in Max({prefix, ip - 2})..(ip - 1), k \in {2, 3}, pa \in BOOLEAN}

\* LZ4HC_setExternalDict inserted what it could of the segments there were.
Inserted(t, from, end) == IF end >= from + MINMATCH THEN LZ4HC_Insert(t, from, end - (MINMATCH - 1)) ELSE t

Init ==
    /\ byte \in [old..(iend - 1) -> Alphabet]
    /\ \E l \in Layouts : dict = old + l[1] /\ prefix = old + l[2]
    /\ attached \in BOOLEAN
    /\ dictCtx = IF attached THEN Inserted(NoTables, old, dict) ELSE NoTables
    /\ tables = Inserted(IF attached THEN NoTables ELSE Inserted(NoTables, old, dict), dict, prefix)
    /\ nextToUpdate = prefix
    /\ last = <<>>

LZ4HC_Search(ip, n) ==
    LET t == LZ4HC_Insert(tables, nextToUpdate, ip)
    IN  /\ last = <<>>
        /\ \E q \in Queries(ip, n) :
            /\ tables' = t /\ nextToUpdate' = ip
            /\ last' = [ip |-> ip] @@ q @@ LZ4HC_InsertAndGetWiderMatch([ip |-> ip, tables |-> t] @@ q)
            /\ UNCHANGED <<byte, dict, prefix, attached, dictCtx>>

\* The parser goes on with what was found.
Take == last # <<>> /\ last' = <<>> /\ UNCHANGED <<byte, dict, prefix, attached, tables, nextToUpdate, dictCtx>>

Next == Take \/ \E ip \in nextToUpdate..(iHighLimit - MINMATCH), n \in Attempts : LZ4HC_Search(ip, n)

Spec == Init /\ [][Next]_vars

-----------------------------------------------------------------------------
TypeOK ==
    /\ byte \in [old..(iend - 1) -> Alphabet]
    /\ old <= dict /\ dict <= prefix /\ prefix <= nextToUpdate /\ nextToUpdate <= iHighLimit
    /\ tables.chain \in [0..LZ4_DISTANCE_MAX -> 0..LZ4_DISTANCE_MAX]

Longer == last.len > last.longest

\* Whatever the tables hold, whichever chain is followed and however far a
\* jump over a repeated byte goes, a match longer than the one at hand is a
\* repetition of the history the decoder will have: it begins no earlier than
\* the caller allows, ends before the last literals, and its bytes are those
\* at its offset, all of them in the window.
MatchReal ==
    /\ TypeOK
    /\ last # <<>> => (Longer =>
        LET start == last.ip - last.back
        IN  /\ last.off \in 1..LZ4_DISTANCE_MAX
            /\ start >= last.low /\ start + last.len <= iHighLimit
            /\ start - last.off >= IF attached THEN old ELSE dict
            /\ \A k \in start..(start + last.len - 1) : byte[k] = byte[k - last.off])

\* The shortcuts lose nothing: with attempts enough for every candidate, the
\* match found is as long as the longest there is, comparing every position of
\* the window at which a match may begin.
Candidates(q) == {m \in lowest(q)..(q.ip - 1) : LZ4HC_protectDictEnd(m) /\ Word(m) = Word(q.ip)}
DictCandidates(q) ==
    IF attached THEN {m \in Max({old, q.ip - LZ4_DISTANCE_MAX})..(dict - MINMATCH) : Word(m) = Word(q.ip)} ELSE {}
DictLength(q, m) == LZ4HC_countBack(q.ip, m, q.low, old) + LZ4_count(q.ip, m, Min({q.ip + (dict - m), iHighLimit}))

LongestFound ==
    last # <<>> => (last.attempts = Max(Attempts) /\ ~last.fav =>
        last.len = Max({last.longest} \cup {MatchLength(last, m).len : m \in Candidates(last)}
                       \cup {DictLength(last, m) : m \in DictCandidates(last)}))

=============================================================================
