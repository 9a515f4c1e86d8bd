-------------------------- MODULE WriteRegisterProofs --------------------------
(***************************************************************************)
(* What each step of LZ4IO_checkWriteOrder does to the write register; and *)
(* that the register keeps blocks in order, loses none and strands none,   *)
(* for any set of block numbers, any initial capacity and any user that    *)
(* hands over each block once.                                             *)
(***************************************************************************)
EXTENDS WriteRegisterUse, TLAPS

\* The provers of a leaf that names none.
USE ZenonT(60), SMTT(60)

\* The descriptors in use hold distinct ranks and come before the free ones:
\* they are the first so many of the array.
CompactArray(b) ==
    /\ \A m, n \in 1..Len(b) : /\ b[m] = b[n] /\ b[m] # NULL => m = n
                               /\ m < n /\ b[n] # NULL => b[m] # NULL
    /\ \E used \in 0..Len(b) : \A n \in 1..Len(b) : n <= used <=> b[n] # NULL
Compact == CompactArray(buffers)

\* WR_addBufDesc stores the rank behind the descriptors in use, in an array that
\* is at least as long, and moves none of them.
LEMMA AddBufDesc ==
    ASSUME RegisterTypeOK, Compact, NEW rank \in Ranks, rank \notin Stored
    PROVE  LET b == WR_addBufDesc(rank) IN
           /\ b \in Seq(Ranks \cup {NULL}) /\ b # <<>>
           /\ {b[n] : n \in 1..Len(b)} \ {NULL} = Stored \cup {rank}
           /\ CompactArray(b)
<1> DEFINE c == Len(buffers)
           b == WR_addBufDesc(rank)
<1>1. /\ c \in Nat \ {0} /\ buffers \in [1..c -> Ranks \cup {NULL}]
      /\ rank \in Nat /\ rank # NULL /\ NULL \notin Ranks
  <2>1. buffers \in Seq(Ranks \cup {NULL}) /\ buffers # <<>>
    BY DEF RegisterTypeOK
  <2>2. c \in Nat \ {0} /\ buffers \in [1..c -> Ranks \cup {NULL}]
    BY <2>1
  <2> QED BY <2>2, RegisterAssumption
<1>2. \A m, n \in 1..c : /\ buffers[m] = buffers[n] /\ buffers[m] # NULL => m = n
                         /\ m < n /\ buffers[n] # NULL => buffers[m] # NULL
  BY DEF Compact, CompactArray
<1>3. \A n \in 1..c : buffers[n] # rank
  BY <1>1 DEF Stored
<1>4. PICK at \in Nat, len \in Nat \ {0} :
        /\ at \in 1..len /\ c <= len /\ at <= c + 1
        /\ b \in [1..len -> Ranks \cup {NULL}]
        /\ \A n \in 1..len : b[n] = IF n = at THEN rank
                                    ELSE IF n <= c THEN buffers[n] ELSE NULL
        /\ \A n \in 1..c : n < at <=> buffers[n] # NULL
  <2>1. CASE buffers[c] # NULL
    <3> DEFINE len == c + AddedCapacity(c)
    <3>1. len \in Nat \ {0} /\ len >= c + 1
      BY <1>1 DEF AddedCapacity
    <3>2. b = [n \in 1..len |-> IF n <= c THEN buffers[n]
                                ELSE IF n = c + 1 THEN rank ELSE NULL]
      BY <2>1 DEF WR_addBufDesc
    <3>3. \A n \in 1..c : n < c + 1 /\ buffers[n] # NULL
      BY <1>1, <1>2, <2>1, SMTT(60)
    <3> HIDE DEF len, b, c
    <3>4. /\ b \in [1..len -> Ranks \cup {NULL}]
          /\ \A n \in 1..len : b[n] = IF n = c + 1 THEN rank
                                      ELSE IF n <= c THEN buffers[n] ELSE NULL
      BY <3>2, <1>1, <3>1, SMTT(60)
    <3>5. c + 1 \in Nat /\ c + 1 \in 1..len /\ c <= len /\ c + 1 <= c + 1
      BY <3>1, <1>1
    <3>6. \A n \in 1..c : n < c + 1 <=> buffers[n] # NULL
      BY <3>3
    <3> QED BY <3>1, <3>4, <3>5, <3>6
  <2>2. CASE buffers[c] = NULL
    <3> DEFINE free == {n \in 1..c : buffers[n] = NULL}
               first == CHOOSE n \in free : \A m \in free : n <= m
    <3>1. PICK used \in 0..c : \A n \in 1..c : n <= used <=> buffers[n] # NULL
      BY DEF Compact, CompactArray
    <3>2. used + 1 \in free /\ \A m \in free : used + 1 <= m
      BY <3>1, <2>2, <1>1, SMTT(60)
    <3>3. first \in free /\ \A m \in free : first <= m
      BY <3>2
    <3>4. b = [buffers EXCEPT ![first] = rank]
      BY <2>2 DEF WR_addBufDesc
    <3>5. \A n \in 1..c : n < first <=> buffers[n] # NULL
      BY <3>3, <1>1, <1>2, SMTT(60)
    <3>6. first \in 1..c
      BY <3>3
    <3> HIDE DEF first, b, c
    <3>7. /\ b \in [1..c -> Ranks \cup {NULL}]
          /\ \A n \in 1..c : b[n] = IF n = first THEN rank
                                    ELSE IF n <= c THEN buffers[n] ELSE NULL
      BY <3>4, <3>6, <1>1, SMTT(60)
    <3> QED BY <3>5, <3>6, <3>7, <1>1, SMTT(60)
  <2> QED BY <2>1, <2>2
<1> HIDE DEF b
<1>5. b \in Seq(Ranks \cup {NULL}) /\ Len(b) = len /\ b # <<>>
  BY <1>4
<1>6. \A m, n \in 1..len : /\ b[m] = b[n] /\ b[m] # NULL => m = n
                           /\ m < n /\ b[n] # NULL => b[m] # NULL
  BY <1>1, <1>2, <1>3, <1>4, SMTT(60)
<1>7. at \in 0..len /\ \A n \in 1..len : n <= at <=> b[n] # NULL
  BY <1>1, <1>4, SMTT(60)
<1>8. {b[n] : n \in 1..len} \ {NULL} = Stored \cup {rank}
  <2>1. ASSUME NEW x \in {b[n] : n \in 1..len} \ {NULL} PROVE x \in Stored \cup {rank}
    BY <2>1, <1>1, <1>4, SMTT(60) DEF Stored
  <2>2. ASSUME NEW x \in Stored PROVE x \in {b[n] : n \in 1..len} \ {NULL}
    <3>1. PICK n \in 1..c : x = buffers[n] /\ x # NULL
      BY DEF Stored
    <3>2. n \in 1..len /\ n # at /\ b[n] = x
      BY <3>1, <1>1, <1>4, SMTT(60)
    <3> QED BY <3>1, <3>2
  <2>3. rank \in {b[n] : n \in 1..len} \ {NULL}
    BY <1>1, <1>4
  <2> QED BY <2>1, <2>2, <2>3
<1>9. CompactArray(b)
  BY <1>5, <1>6, <1>7 DEF CompactArray
<1> QED BY <1>5, <1>8, <1>9 DEF b

\* WR_removeBuffID takes out the one descriptor of a stored rank and keeps the
\* others, in an array of the same length.
LEMMA RemoveBuffID ==
    ASSUME RegisterTypeOK, Compact, NEW rank \in Nat, WR_isPresent(rank)
    PROVE  LET b == WR_removeBuffID(rank) IN
           /\ b \in Seq(Ranks \cup {NULL}) /\ b # <<>>
           /\ rank \in Stored
           /\ {b[n] : n \in 1..Len(b)} \ {NULL} = Stored \ {rank}
           /\ CompactArray(b)
<1> DEFINE c == Len(buffers)
           at == CHOOSE n \in WR_find(rank) : TRUE
           b == WR_removeBuffID(rank)
<1>1. /\ c \in Nat \ {0} /\ buffers \in [1..c -> Ranks \cup {NULL}]
      /\ rank # NULL
  BY RegisterAssumption, SMTT(60) DEF RegisterTypeOK
<1>2. \A m, n \in 1..c : /\ buffers[m] = buffers[n] /\ buffers[m] # NULL => m = n
                         /\ m < n /\ buffers[n] # NULL => buffers[m] # NULL
  BY DEF Compact, CompactArray
<1>3. at \in 1..c /\ buffers[at] = rank
  BY DEF WR_isPresent, WR_find
<1>4. b = [n \in 1..c |-> IF n < at THEN buffers[n]
                          ELSE IF n < c THEN buffers[n + 1] ELSE NULL]
  BY DEF WR_removeBuffID
<1> HIDE DEF c, at, b
<1>5. b \in Seq(Ranks \cup {NULL}) /\ Len(b) = c /\ b # <<>>
  <2>1. b \in [1..c -> Ranks \cup {NULL}]
    BY <1>1, <1>3, <1>4, SMTT(60)
  <2> QED BY <2>1, <1>1
<1>6. \A n \in 1..c : \/ n < at /\ b[n] = buffers[n]
                      \/ n >= at /\ n < c /\ n + 1 \in 1..c /\ b[n] = buffers[n + 1]
                      \/ n = c /\ b[n] = NULL
  BY <1>1, <1>3, <1>4
<1>7. \A m, n \in 1..c : /\ b[m] = b[n] /\ b[m] # NULL => m = n
                         /\ m < n /\ b[n] # NULL => b[m] # NULL
  BY <1>1, <1>2, <1>3, <1>6, SMTT(60)
<1>8. rank \in Stored
  BY <1>1, <1>3 DEF Stored, c
<1>9. \E used \in 0..c : \A n \in 1..c : n <= used <=> b[n] # NULL
  <2>1. PICK used \in 0..c : \A n \in 1..c : n <= used <=> buffers[n] # NULL
    BY DEF Compact, CompactArray, c
  <2>2. at <= used
    BY <2>1, <1>1, <1>3
  <2>3. used - 1 \in 0..c /\ \A n \in 1..c : n <= used - 1 <=> b[n] # NULL
    BY <2>1, <2>2, <1>1, <1>3, <1>6, SMTT(60)
  <2> QED BY <2>3
<1>10. {b[n] : n \in 1..c} \ {NULL} = Stored \ {rank}
  <2>1. ASSUME NEW n \in 1..c, b[n] # NULL PROVE b[n] \in Stored \ {rank}
    <3>1. PICK m \in 1..c : m # at /\ b[n] = buffers[m]
      BY <2>1, <1>1, <1>3, <1>6, SMTT(60)
    <3> QED BY <2>1, <3>1, <1>1, <1>2, <1>3 DEF Stored, c
  <2>2. ASSUME NEW m \in 1..c, buffers[m] # NULL, buffers[m] # rank
        PROVE  \E n \in 1..c : b[n] = buffers[m]
    <3>1. CASE m < at
      BY <3>1, <1>4
    <3>2. CASE m > at
      <4>1. m - 1 \in 1..c /\ m - 1 >= at /\ m - 1 < c /\ (m - 1) + 1 = m
        BY <3>2, <1>1, <1>3
      <4>2. b[m - 1] = buffers[m]
        BY <4>1, <1>1, <1>3, <1>4
      <4> QED BY <4>1, <4>2
    <3> QED BY <3>1, <3>2, <2>2, <1>1, <1>3
  <2>3. ASSUME NEW x \in Stored \ {rank} PROVE x \in {b[n] : n \in 1..c} \ {NULL}
    <3>1. PICK m \in 1..c : x = buffers[m]
      BY DEF Stored, c
    <3>2. buffers[m] # NULL /\ buffers[m] # rank
      BY <3>1 DEF Stored
    <3> QED BY <2>2, <3>1, <3>2
  <2>4. ASSUME NEW x \in {b[n] : n \in 1..c} \ {NULL} PROVE x \in Stored \ {rank}
    BY <2>1
  <2> QED BY <2>3, <2>4
<1>11. CompactArray(b)
  BY <1>5, <1>7, <1>9 DEF CompactArray
<1> QED BY <1>5, <1>8, <1>10, <1>11 DEF b

\* The register holds block numbers.
LEMMA StoredRanks ==
    ASSUME RegisterTypeOK
    PROVE  Stored \subseteq Ranks /\ Stored \subseteq Nat
<1> SUFFICES ASSUME NEW n \in 1..Len(buffers), buffers[n] # NULL
             PROVE  buffers[n] \in Ranks
  BY RegisterAssumption DEF Stored
<1>1. buffers[n] \in Ranks \cup {NULL}
  BY DEF RegisterTypeOK
<1> QED BY <1>1

\* WR_init: an array of free descriptors.
LEMMA RegisterInit ==
    ASSUME WR_init
    PROVE  RegisterTypeOK /\ Compact /\ Stored = {}
<1> DEFINE k == WR_INITIAL_BUFFER_POOL_SIZE
<1> USE DEF WR_init
<1>1. /\ buffers \in [1..k -> Ranks \cup {NULL}] /\ k \in Nat \ {0}
      /\ \A n \in 1..k : buffers[n] = NULL
  BY RegisterAssumption DEF Nulls
<1>2. buffers \in Seq(Ranks \cup {NULL}) /\ Len(buffers) = k /\ buffers # <<>>
  <2> HIDE DEF WR_init, k
  <2> QED BY <1>1
<1>3. Stored = {}
  BY <1>1, <1>2 DEF Stored
<1>4. RegisterTypeOK
  <2>1. expectedRank \in Nat /\ out \in Seq(Nat)
    OBVIOUS
  <2>2. draining \in BOOLEAN
    OBVIOUS
  <2> HIDE DEF WR_init, k
  <2> QED BY <1>2, <2>1, <2>2 DEF RegisterTypeOK
<1>5. Compact
  <2>1. 0 \in 0..Len(buffers) /\ \A n \in 1..Len(buffers) : n <= 0 <=> buffers[n] # NULL
    <3> HIDE DEF WR_init, k
    <3> QED BY <1>1, <1>2
  <2>2. \A n \in 1..Len(buffers) : buffers[n] = NULL
    <3> HIDE DEF WR_init, k
    <3> QED BY <1>1, <1>2
  <2> HIDE DEF WR_init, k
  <2> QED BY <2>1, <2>2 DEF Compact, CompactArray
<1> HIDE DEF WR_init, k
<1> QED BY <1>3, <1>4, <1>5

\* A block that arrives early is added to those stored.
LEMMA StoreEffect ==
    ASSUME RegisterTypeOK, Compact, NEW rank \in Ranks, rank \notin Stored, StoreBlock(rank)
    PROVE  RegisterTypeOK' /\ Compact' /\ Stored' = Stored \cup {rank}
<1>1. buffers' = WR_addBufDesc(rank) /\ UNCHANGED <<expectedRank, out, draining>>
  BY DEF StoreBlock
<1>2. /\ buffers' \in Seq(Ranks \cup {NULL}) /\ buffers' # <<>>
      /\ Stored' = Stored \cup {rank} /\ Compact'
  <2> DEFINE b == WR_addBufDesc(rank)
  <2>1. /\ b \in Seq(Ranks \cup {NULL}) /\ b # <<>>
        /\ {b[n] : n \in 1..Len(b)} \ {NULL} = Stored \cup {rank}
        /\ CompactArray(b)
    BY AddBufDesc
  <2>2. buffers' = b
    BY <1>1
  <2> HIDE DEF b
  <2>3. Stored' = Stored \cup {rank} /\ Compact'
    BY <2>1, <2>2 DEF Stored, Compact
  <2> QED BY <2>1, <2>2, <2>3
<1> QED BY <1>1, <1>2 DEF RegisterTypeOK

\* The expected block is written past those stored.
LEMMA WriteEffect ==
    ASSUME RegisterTypeOK, Compact, NEW rank, WriteBlock(rank)
    PROVE  RegisterTypeOK' /\ Compact' /\ Stored' = Stored
<1>1. /\ buffers' = buffers /\ rank = expectedRank /\ out' = Append(out, rank)
      /\ expectedRank' = expectedRank + 1 /\ draining' = TRUE
  BY DEF WriteBlock
<1>2. RegisterTypeOK'
  BY <1>1 DEF RegisterTypeOK
<1> QED BY <1>1, <1>2 DEF Stored, Compact

\* One iteration of the loop takes out the expected block.
LEMMA DrainEffect ==
    ASSUME RegisterTypeOK, Compact, DrainBlock
    PROVE  /\ RegisterTypeOK' /\ Compact'
           /\ expectedRank \in Stored /\ Stored' = Stored \ {expectedRank}
<1>1. /\ WR_isPresent(expectedRank) /\ draining' = draining
      /\ out' = Append(out, expectedRank) /\ buffers' = WR_removeBuffID(expectedRank)
      /\ expectedRank' = expectedRank + 1 /\ expectedRank \in Nat
  BY DEF DrainBlock, RegisterTypeOK
<1>2. /\ buffers' \in Seq(Ranks \cup {NULL}) /\ buffers' # <<>> /\ Compact'
      /\ expectedRank \in Stored /\ Stored' = Stored \ {expectedRank}
  <2> DEFINE b == WR_removeBuffID(expectedRank)
  <2>1. /\ b \in Seq(Ranks \cup {NULL}) /\ b # <<>>
        /\ expectedRank \in Stored
        /\ {b[n] : n \in 1..Len(b)} \ {NULL} = Stored \ {expectedRank}
        /\ CompactArray(b)
    BY <1>1, RemoveBuffID
  <2>2. buffers' = b
    BY <1>1
  <2> HIDE DEF b
  <2>3. Stored' = Stored \ {expectedRank} /\ Compact'
    BY <2>1, <2>2 DEF Stored, Compact
  <2> QED BY <2>1, <2>2, <2>3
<1>3. out' \in Seq(Nat) /\ expectedRank' \in Nat /\ draining' \in BOOLEAN
  BY <1>1 DEF RegisterTypeOK
<1> QED BY <1>2, <1>3 DEF RegisterTypeOK

\* The loop ends: the scan stops at the first free descriptor, and because the
\* free descriptors are all at the end it has then seen every stored block.
LEMMA DrainEndEffect ==
    ASSUME RegisterTypeOK, Compact, DrainEnds
    PROVE  RegisterTypeOK' /\ Compact' /\ expectedRank \notin Stored /\ Stored' = Stored
<1>1. /\ ~WR_isPresent(expectedRank) /\ draining' = FALSE /\ out' = out
      /\ expectedRank' = expectedRank /\ buffers' = buffers /\ expectedRank \in Nat
  BY DEF DrainEnds, RegisterTypeOK
<1>2. RegisterTypeOK'
  BY <1>1 DEF RegisterTypeOK
<1>3. expectedRank \notin Stored
  <2>1. SUFFICES ASSUME NEW n \in 1..Len(buffers), buffers[n] = expectedRank
                 PROVE  FALSE
    BY DEF Stored
  <2>2. expectedRank # NULL /\ Len(buffers) \in Nat
    BY <1>1, RegisterAssumption, SMTT(60) DEF RegisterTypeOK
  <2>3. \A m \in 1..n : buffers[m] # NULL
    BY <2>1, <2>2, SMTT(60) DEF Compact, CompactArray
  <2> QED BY <1>1, <2>1, <2>3 DEF WR_isPresent, WR_find
<1> QED BY <1>1, <1>2, <1>3 DEF Stored, Compact

-----------------------------------------------------------------------------
(* Any user of the register                                                *)

\* The descriptors form a prefix of the array, hold distinct ranks that are still
\* to be written, and out is 0 .. expectedRank-1: inductive as it stands once the
\* three properties are taken together.
UseInv == UseTypeOK /\ Compact /\ WrittenInOrder /\ NothingLost /\ NothingStranded

\* The register's invariant holds initially.
LEMMA UseInitInv == UseInit => UseInv
<1> SUFFICES ASSUME UseInit PROVE UseInv
  OBVIOUS
<1>1. RegisterTypeOK /\ Compact /\ Stored = {}
  BY RegisterInit DEF UseInit
<1>2. expectedRank = 0 /\ out = <<>> /\ arrived = {}
  BY DEF UseInit, WR_init
<1>3. UseTypeOK /\ WrittenInOrder /\ NothingStranded
  BY <1>1, <1>2 DEF UseTypeOK, WrittenInOrder, NothingStranded
<1>4. NothingLost
  <2>1. 0..(expectedRank - 1) = {}
    BY <1>2
  <2> QED BY <1>1, <1>2, <2>1 DEF NothingLost, Compact, CompactArray
<1> QED BY <1>1, <1>3, <1>4 DEF UseInv

\* What the register's lemmas need.
LEMMA UseFacts ==
    ASSUME UseInv
    PROVE  RegisterTypeOK /\ Compact /\ expectedRank \in Nat /\ Stored \subseteq Nat
BY StoredRanks DEF UseInv, UseTypeOK, RegisterTypeOK

\* A block that arrives early is added to the register.
LEMMA UseStoreStep ==
    ASSUME UseInv, NEW rank \in Ranks, rank \notin arrived, StoreBlock(rank),
           arrived' = arrived \cup {rank}
    PROVE  UseInv'
<1> USE DEF UseInv
<1>1. rank \notin Stored /\ rank \in Nat /\ expectedRank \in Nat
  BY RegisterAssumption, UseFacts DEF NothingLost
<1>2. ~draining /\ rank # expectedRank
      /\ expectedRank' = expectedRank /\ out' = out /\ draining' = draining
  BY DEF StoreBlock
<1>3. rank > expectedRank
  <2>1. rank \notin 0..(expectedRank - 1)
    BY DEF NothingLost
  <2> QED BY <1>1, <1>2, <2>1
<1>4. RegisterTypeOK' /\ Compact' /\ Stored' = Stored \cup {rank}
  BY <1>1, UseFacts, StoreEffect
<1>5. UseTypeOK'
  BY <1>4 DEF UseTypeOK
<1>6. WrittenInOrder'
  BY <1>2 DEF WrittenInOrder
<1>7. NothingLost'
  BY <1>1, <1>2, <1>3, <1>4, SMTT(60) DEF NothingLost, Compact, CompactArray
<1>8. NothingStranded'
  BY <1>2 DEF NothingStranded
<1> QED BY <1>4, <1>5, <1>6, <1>7, <1>8

\* Appending the expected rank keeps the file in order.
LEMMA AppendInOrder ==
    ASSUME UseTypeOK, WrittenInOrder, out' = Append(out, expectedRank),
           expectedRank' = expectedRank + 1
    PROVE  WrittenInOrder'
BY DEF UseTypeOK, RegisterTypeOK, WrittenInOrder

\* The expected block is written and the loop entered.
LEMMA UseWriteStep ==
    ASSUME UseInv, NEW rank \in Ranks, rank \notin arrived, WriteBlock(rank),
           arrived' = arrived \cup {rank}
    PROVE  UseInv'
<1> USE DEF UseInv
<1>1. /\ rank = expectedRank /\ out' = Append(out, expectedRank) /\ draining' = TRUE
      /\ expectedRank' = expectedRank + 1 /\ expectedRank \in Nat /\ Stored \subseteq Nat
  BY UseFacts DEF WriteBlock
<1>2. RegisterTypeOK' /\ Compact' /\ Stored' = Stored
  BY UseFacts, WriteEffect
<1>3. UseTypeOK' /\ WrittenInOrder'
  BY <1>1, <1>2, AppendInOrder DEF UseTypeOK
<1>4. NothingLost'
  <2>1. 0..(expectedRank' - 1) = (0..(expectedRank - 1)) \cup {rank}
    BY <1>1
  <2>2. \A n \in Stored : n >= expectedRank + 1
    <3>1. rank \notin Stored
      BY DEF NothingLost
    <3> QED BY <3>1, <1>1 DEF NothingLost
  <2> QED BY <1>1, <1>2, <2>1, <2>2 DEF NothingLost, Compact, CompactArray
<1>5. NothingStranded'
  BY <1>1 DEF NothingStranded
<1> QED BY <1>2, <1>3, <1>4, <1>5

\* One iteration of the loop.
LEMMA UseDrainStep ==
    ASSUME UseInv, DrainBlock, UNCHANGED arrived
    PROVE  UseInv'
<1> USE DEF UseInv
<1>1. /\ draining' = draining /\ draining /\ out' = Append(out, expectedRank)
      /\ expectedRank' = expectedRank + 1 /\ expectedRank \in Nat /\ Stored \subseteq Nat
  BY UseFacts DEF DrainBlock
<1>2. /\ RegisterTypeOK' /\ Compact'
      /\ expectedRank \in Stored /\ Stored' = Stored \ {expectedRank}
  BY UseFacts, DrainEffect
<1>3. UseTypeOK' /\ WrittenInOrder'
  BY <1>1, <1>2, AppendInOrder DEF UseTypeOK
<1>4. NothingLost'
  <2>1. 0..(expectedRank' - 1) = (0..(expectedRank - 1)) \cup {expectedRank}
    BY <1>1
  <2>2. \A n \in Stored' : n >= expectedRank'
    BY <1>1, <1>2 DEF NothingLost
  <2> QED BY <1>2, <2>1, <2>2, SMTT(60) DEF NothingLost, Compact, CompactArray
<1>5. NothingStranded'
  BY <1>1 DEF NothingStranded
<1> QED BY <1>2, <1>3, <1>4, <1>5

\* The loop ends with the next block expected from the compressors.
LEMMA UseDrainEndStep ==
    ASSUME UseInv, DrainEnds, UNCHANGED arrived
    PROVE  UseInv'
<1> USE DEF UseInv
<1>1. out' = out /\ expectedRank' = expectedRank /\ expectedRank \in Nat
  BY UseFacts DEF DrainEnds
<1>2. RegisterTypeOK' /\ Compact' /\ expectedRank \notin Stored /\ Stored' = Stored
  BY UseFacts, DrainEndEffect
<1>3. UseTypeOK' /\ WrittenInOrder'
  BY <1>1, <1>2 DEF UseTypeOK, WrittenInOrder
<1>4. NothingLost'
  BY <1>1, <1>2 DEF NothingLost, Compact, CompactArray
<1>5. NothingStranded'
  <2>1. expectedRank \notin 0..(expectedRank - 1)
    BY <1>1
  <2> QED BY <1>1, <1>2, <2>1 DEF NothingStranded, NothingLost
<1> QED BY <1>2, <1>3, <1>4, <1>5

\* LZ4IO_checkWriteOrder, whatever the order in which the compressors finish:
\* the file holds blocks 0, 1, 2, ... (WrittenInOrder), an arrived block is either
\* written or held in exactly one descriptor (NothingLost), and none is left in
\* the register once its turn has come (NothingStranded).
THEOREM RegisterCorrect ==
    UseSpec => [](UseTypeOK /\ WrittenInOrder /\ NothingLost /\ NothingStranded)
<1>1. UseInv /\ [UseNext]_useVars => UseInv'
  <2> SUFFICES ASSUME UseInv, [UseNext]_useVars PROVE UseInv'
    OBVIOUS
  <2>1. ASSUME NEW rank \in Ranks, Arrive(rank) PROVE UseInv'
    BY <2>1, UseStoreStep, UseWriteStep DEF Arrive, checkWriteOrder
  <2>2. CASE Drain
    BY <2>2, UseDrainStep, UseDrainEndStep DEF Drain
  <2>3. CASE UNCHANGED useVars
    <3> USE <2>3 DEF useVars, wrVars
    <3>1. UseTypeOK' /\ WrittenInOrder'
      BY DEF UseInv, UseTypeOK, RegisterTypeOK, WrittenInOrder
    <3>2. NothingLost' /\ NothingStranded'
      BY DEF UseInv, NothingLost, Stored, NothingStranded
    <3>3. Compact'
      BY DEF UseInv, Compact
    <3> QED BY <3>1, <3>2, <3>3 DEF UseInv
  <2> QED BY <2>1, <2>2, <2>3 DEF UseNext
<1>2. UseInv => UseTypeOK /\ WrittenInOrder /\ NothingLost /\ NothingStranded
  BY DEF UseInv
<1> QED BY UseInitInv, <1>1, <1>2, PTL DEF UseSpec
================================================================================
