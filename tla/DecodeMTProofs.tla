--------------------------- MODULE DecodeMTProofs ---------------------------
(***************************************************************************)
(* Multi-threaded decompression writes the decoded input, in order and     *)
(* whole, for any number of chunks and of pieces in a chunk: the depth of  *)
(* the two queues keeps the three threads apart in buffers that no lock    *)
(* protects.                                                               *)
(***************************************************************************)
EXTENDS DecodeMT, TLAPS

\* The provers of a leaf that names none.
USE ZenonT(60), SMTT(60)

-----------------------------------------------------------------------------
(* The inductive invariant                                                 *)

NbChunks == CHOOSE k \in 0..MaxChunks : DOMAIN input.pieces = 0..(k - 1)

Chunk == tActive[decoder]
Started == nextChunk - Len(tPending)    \* chunks the decoder has begun with
Block == wActive[writer]

\* Pieces in a hand: one the decoder has a buffer for, has decoded, or one that is written.
Taken == IF at = "decode" THEN 1 ELSE 0
Held == IF at = "submit" THEN 1 ELSE 0
Writing == IF Block # NoJob THEN 1 ELSE 0

\* The output buffer of the i-th piece, in both formats.
Slot(i) == IF input.format = "frame" THEN (i - 1) % PBUFFERS_NB ELSE (i - 1) % NB_BUFFSETS

WasDecoded(n) == \E i \in 1..Len(decoded) : decoded[i].chunk = n

\* The main thread reads the chunks in order, and waits for the decoder and then the writer.
MainInv ==
    /\ nextChunk <= NbChunks
    /\ main = "submit" => nextChunk < NbChunks /\ inBuff[nextChunk % NB_BUFFSETS] = nextChunk
    /\ main \in {"waitT", "waitW", "flush", "done"} => nextChunk = NbChunks
    /\ main \in {"waitW", "flush", "done"} => T!AllCompleted /\ input.complete
    /\ main \in {"flush", "done"} => W!AllCompleted
    /\ flushed => main = "done"

\* The decoder follows at most two chunks behind, and finds each where it was read to.
ChunkInv ==
    /\ tPending # <<>> => /\ tPending[1] = nextChunk - 1
                          /\ inBuff[(nextChunk - 1) % NB_BUFFSETS] = nextChunk - 1
    /\ Chunk # NoJob => Chunk = Started - 1 /\ inBuff[Chunk % NB_BUFFSETS] = Chunk

\* It decodes every piece of every chunk, in order.
PieceInv ==
    /\ Chunk = NoJob => at = "begin"
    /\ Chunk # NoJob => piece <= input.pieces[Chunk]
    /\ at # "begin" => piece >= 1
    /\ \A n \in 0..(NbChunks - 1) :
          n < Started /\ n # Chunk /\ input.pieces[n] > 0 => WasDecoded(n)
    /\ Chunk # NoJob /\ piece > Taken => WasDecoded(Chunk)
    /\ \A i \in 1..Len(decoded) :
          IsChunk(decoded[i].chunk) /\ input.pieces[decoded[i].chunk] > 0
    /\ lastStatus = 0 => input.complete
    /\ input.format = "frame" => availNext = Len(decoded) + Taken
    /\ input.format = "legacy" =>
          Len(decoded) = IF Chunk = NoJob THEN Started ELSE Chunk + piece - Taken

\* The writer follows at most three pieces behind, and each is still in its buffer.
WriteInv ==
    /\ Len(decoded) = Len(written) + Writing + Len(wPending) + Held
    /\ Block # NoJob => Block = Slot(Len(written) + 1)
    /\ wPending # <<>> => wPending[1] = Slot(Len(written) + Writing + 1)
    /\ at = "decode" => bufOut = Slot(Len(decoded) + 1)
    /\ at = "submit" => bufOut = Slot(Len(decoded))
    /\ \A i \in (Len(written) + 1)..Len(decoded) : outBuff[Slot(i)] = decoded[i]
    /\ \A i \in 1..Len(written) : written[i] = decoded[i]
    /\ input.format = "frame" => usedIdx = Len(written)

Inv == TypeOK /\ MainInv /\ ChunkInv /\ PieceInv /\ WriteInv

-----------------------------------------------------------------------------
(* Helpers                                                                 *)

\* The chunks are numbered from 0.
LEMMA InputShape ==
    ASSUME input \in Inputs
    PROVE  /\ NbChunks \in 0..MaxChunks /\ DOMAIN input.pieces = 0..(NbChunks - 1)
           /\ input.pieces \in [0..(NbChunks - 1) -> 0..MaxPieces]
           /\ input.format \in {"frame", "legacy"} /\ input.complete \in BOOLEAN
           /\ input.format = "frame" => NbChunks > 0
           /\ input.format = "legacy" =>
                 input.complete /\ \A n \in 0..(NbChunks - 1) : input.pieces[n] = 1
<1>1. /\ input \in [format : {"frame", "legacy"}, complete : BOOLEAN,
                    pieces : UNION {[0..n -> 0..MaxPieces] : n \in -1..(MaxChunks - 1)}]
      /\ input.format = "frame" => 0 \in DOMAIN input.pieces
      /\ input.format = "legacy" =>
            input.complete /\ \A n \in DOMAIN input.pieces : input.pieces[n] = 1
  BY DEF Inputs
<1>2. PICK n \in -1..(MaxChunks - 1) : input.pieces \in [0..n -> 0..MaxPieces]
  BY <1>1
<1>3. n + 1 \in 0..MaxChunks /\ DOMAIN input.pieces = 0..((n + 1) - 1)
  BY <1>2, DecodeAssumption, SMTT(60)
<1>4. NbChunks \in 0..MaxChunks /\ DOMAIN input.pieces = 0..(NbChunks - 1)
  BY <1>3 DEF NbChunks
<1>5. input.pieces \in [0..(NbChunks - 1) -> 0..MaxPieces]
  BY <1>2, <1>4
<1>6. input.format = "frame" => NbChunks > 0
  BY <1>1, <1>4, SMTT(60)
<1> QED BY <1>1, <1>4, <1>5, <1>6

LEMMA EmptyQueue ==
    ASSUME NEW S
    PROVE  /\ <<>> \in Seq(S) /\ Len(<<>>) = 0
           /\ \A s \in Seq(S) : Len(s) \in Nat /\ (Len(s) = 0 => s = <<>>)
OBVIOUS

LEMMA Appended ==
    ASSUME NEW S, NEW s \in Seq(S), NEW e \in S
    PROVE  /\ Append(s, e) \in Seq(S) /\ Append(s, e) # <<>> /\ Len(Append(s, e)) = Len(s) + 1
           /\ \A i \in 1..Len(s) : Append(s, e)[i] = s[i]
           /\ Append(s, e)[Len(s) + 1] = e
OBVIOUS

LEMMA HeadTaken ==
    ASSUME NEW S, NEW s \in Seq(S), s # <<>>
    PROVE  /\ Head(s) \in S /\ Tail(s) \in Seq(S) /\ Len(Tail(s)) = Len(s) - 1
           /\ \A i \in 1..Len(Tail(s)) : Tail(s)[i] = s[i + 1]
OBVIOUS

\* Places in a ring are distinct as long as they are not a whole round apart.
LEMMA RingPlaces ==
    ASSUME NEW k \in Nat
    PROVE  /\ k % 4 \in 0..3 /\ k % 3 \in 0..2
           /\ \A i \in Nat : i < k /\ k <= i + 2 => i % 4 # k % 4 /\ i % 3 # k % 3
OBVIOUS

\* A queue of depth one is empty or one job.
LEMMA ShortQueue ==
    ASSUME NEW S, NEW p \in Seq(S), Len(p) \in {0, 1}
    PROVE  /\ p = <<>> <=> Len(p) = 0
           /\ Len(p) = 1 => p[1] \in S /\ Head(p) = p[1] /\ Tail(p) = <<>>
           /\ Len(p) = 0 => \A j \in S : Append(p, j) \in Seq(S) /\ Len(Append(p, j)) = 1
                                         /\ Append(p, j)[1] = j /\ Append(p, j) # <<>>
<1>1. p = <<>> <=> Len(p) = 0
  BY EmptyQueue
<1>2. Len(p) = 1 => p[1] \in S /\ Head(p) = p[1] /\ Tail(p) = <<>>
  <2> SUFFICES ASSUME Len(p) = 1 PROVE p[1] \in S /\ Head(p) = p[1] /\ Tail(p) = <<>>
    OBVIOUS
  <2>1. Tail(p) \in Seq(S) /\ Len(Tail(p)) = 0
    BY <1>1, HeadTaken, SMTT(60)
  <2>2. Tail(p) = <<>>
    BY <2>1, EmptyQueue
  <2>3. p[1] \in S /\ Head(p) = p[1]
    OBVIOUS
  <2> QED BY <2>2, <2>3
<1>3. Len(p) = 0 => \A j \in S : Append(p, j) \in Seq(S) /\ Len(Append(p, j)) = 1
                                 /\ Append(p, j)[1] = j /\ Append(p, j) # <<>>
  <2> SUFFICES ASSUME Len(p) = 0, NEW j \in S
               PROVE  Append(p, j) \in Seq(S) /\ Len(Append(p, j)) = 1
                      /\ Append(p, j)[1] = j /\ Append(p, j) # <<>>
    OBVIOUS
  <2>1. /\ Append(p, j) \in Seq(S) /\ Append(p, j) # <<>> /\ Len(Append(p, j)) = Len(p) + 1
        /\ Append(p, j)[Len(p) + 1] = j
    BY ONLY p \in Seq(S), j \in S, Appended
  <2>2. Len(p) + 1 = 1
    OBVIOUS
  <2> QED BY <2>1, <2>2
<1> QED BY <1>1, <1>2, <1>3

\* What the types say.
LEMMA Facts ==
    ASSUME TypeOK
    PROVE  /\ tPending \in Seq(0..(MaxChunks - 1)) /\ Len(tPending) \in {0, 1}
           /\ wPending \in Seq(0..3) /\ Len(wPending) \in {0, 1}
           /\ tPending = <<>> <=> Len(tPending) = 0
           /\ wPending = <<>> <=> Len(wPending) = 0
           /\ tActive \in [{decoder} -> (0..(MaxChunks - 1)) \cup {NoJob}]
           /\ wActive \in [{writer} -> (0..3) \cup {NoJob}]
           /\ Chunk \in (0..(MaxChunks - 1)) \cup {NoJob} /\ Block \in (0..3) \cup {NoJob}
           /\ nextChunk \in Nat /\ piece \in Nat /\ availNext \in Nat /\ usedIdx \in Nat
           /\ MaxChunks \in Nat \ {0} /\ MaxPieces \in Nat \ {0}
           /\ \A n \in Nat : n # NoJob
           /\ Len(decoded) \in Nat /\ Len(written) \in Nat
           /\ tPending # <<>> => Len(tPending) = 1 /\ tPending[1] \in 0..(MaxChunks - 1)
           /\ wPending # <<>> => Len(wPending) = 1 /\ wPending[1] \in 0..3
<1>1. MaxChunks \in Nat \ {0} /\ MaxPieces \in Nat \ {0} /\ \A n \in Nat : n # NoJob
  BY DecodeAssumption
<1>2. /\ tPending \in Seq(0..(MaxChunks - 1)) /\ Len(tPending) <= 1
      /\ wPending \in Seq(0..3) /\ Len(wPending) <= 1
      /\ tActive \in [{decoder} -> (0..(MaxChunks - 1)) \cup {NoJob}]
      /\ wActive \in [{writer} -> (0..3) \cup {NoJob}]
  BY SMTT(60) DEF TypeOK, T!TypeOK, W!TypeOK, NB_BUFFSETS, QueueDepth
<1>6. Len(tPending) \in {0, 1} /\ Len(wPending) \in {0, 1}
  <2>1. Len(tPending) \in Nat /\ Len(wPending) \in Nat
    BY <1>2, EmptyQueue
  <2>2. Len(tPending) <= 1 /\ Len(wPending) <= 1
    BY <1>2
  <2>3. \A n \in Nat : n <= 1 => n \in {0, 1}
    OBVIOUS
  <2> QED BY <2>1, <2>2, <2>3
<1>3. /\ tPending = <<>> <=> Len(tPending) = 0
      /\ tPending # <<>> => Len(tPending) = 1 /\ tPending[1] \in 0..(MaxChunks - 1)
  BY <1>2, <1>6, ShortQueue
<1>4. /\ wPending = <<>> <=> Len(wPending) = 0
      /\ wPending # <<>> => Len(wPending) = 1 /\ wPending[1] \in 0..3
  BY <1>2, <1>6, ShortQueue
<1>5. /\ nextChunk \in Nat /\ piece \in Nat /\ availNext \in Nat /\ usedIdx \in Nat
      /\ Len(decoded) \in Nat /\ Len(written) \in Nat
  BY <1>1, SMTT(60) DEF TypeOK
<1> QED BY <1>1, <1>2, <1>3, <1>4, <1>5, <1>6 DEF Chunk, Block

\* What the pools' operations do with queues of depth one.
LEMMA PoolSteps ==
    ASSUME TypeOK
    PROVE  /\ \A j \in 0..(MaxChunks - 1) : T!Submit(j) =>
                 /\ Len(tPending) = 0 /\ Len(tPending') = 1 /\ tPending'[1] = j /\ tActive' = tActive
                 /\ tPending' \in Seq(0..(MaxChunks - 1))
           /\ T!Start(decoder) =>
                 /\ Chunk = NoJob /\ Len(tPending) = 1 /\ tPending' = <<>> /\ Len(tPending') = 0
                 /\ Chunk' = tPending[1] /\ Chunk' \in 0..(MaxChunks - 1)
                 /\ tActive' \in [{decoder} -> (0..(MaxChunks - 1)) \cup {NoJob}]
           /\ T!Finish(decoder) =>
                 /\ Chunk # NoJob /\ Chunk' = NoJob /\ tPending' = tPending
                 /\ tActive' \in [{decoder} -> (0..(MaxChunks - 1)) \cup {NoJob}]
           /\ \A j \in 0..3 : W!Submit(j) =>
                 /\ Len(wPending) = 0 /\ Len(wPending') = 1 /\ wPending'[1] = j /\ wActive' = wActive
                 /\ wPending' \in Seq(0..3)
           /\ W!Start(writer) =>
                 /\ Block = NoJob /\ Len(wPending) = 1 /\ wPending' = <<>> /\ Len(wPending') = 0
                 /\ Block' = wPending[1] /\ Block' \in 0..3
                 /\ wActive' \in [{writer} -> (0..3) \cup {NoJob}]
           /\ W!Finish(writer) =>
                 /\ Block # NoJob /\ Block' = NoJob /\ wPending' = wPending
                 /\ wActive' \in [{writer} -> (0..3) \cup {NoJob}]
<1> DEFINE C == 0..(MaxChunks - 1)
           B == 0..3
<1>1. /\ tPending \in Seq(C) /\ Len(tPending) \in {0, 1} /\ (tPending = <<>> <=> Len(tPending) = 0)
      /\ wPending \in Seq(B) /\ Len(wPending) \in {0, 1} /\ (wPending = <<>> <=> Len(wPending) = 0)
      /\ tActive \in [{decoder} -> C \cup {NoJob}] /\ wActive \in [{writer} -> B \cup {NoJob}]
  BY Facts
<1> HIDE DEF C, B
<1>2. Len(<<>>) = 0
  BY EmptyQueue
<1>3. /\ Len(tPending) = 1 => tPending[1] \in C /\ Head(tPending) = tPending[1] /\ Tail(tPending) = <<>>
      /\ Len(tPending) = 0 => \A j \in C : /\ Append(tPending, j) \in Seq(C)
                                           /\ Len(Append(tPending, j)) = 1 /\ Append(tPending, j)[1] = j
  BY <1>1, ShortQueue, SMTT(60)
<1>4. /\ Len(wPending) = 1 => wPending[1] \in B /\ Head(wPending) = wPending[1] /\ Tail(wPending) = <<>>
      /\ Len(wPending) = 0 => \A j \in B : /\ Append(wPending, j) \in Seq(B)
                                           /\ Len(Append(wPending, j)) = 1 /\ Append(wPending, j)[1] = j
  BY <1>1, ShortQueue, SMTT(60)
<1>5. \A j \in C : T!Submit(j) =>
         /\ Len(tPending) = 0 /\ Len(tPending') = 1 /\ tPending'[1] = j /\ tActive' = tActive
         /\ tPending' \in Seq(C)
  BY <1>1, <1>3, SMTT(60) DEF T!Submit, QueueDepth
<1>6. T!Start(decoder) =>
         /\ Chunk = NoJob /\ Len(tPending) = 1 /\ tPending' = <<>> /\ Len(tPending') = 0
         /\ Chunk' = tPending[1] /\ Chunk' \in C /\ tActive' \in [{decoder} -> C \cup {NoJob}]
  BY <1>1, <1>2, <1>3 DEF T!Start, Chunk
<1>7. T!Finish(decoder) =>
         /\ Chunk # NoJob /\ Chunk' = NoJob /\ tPending' = tPending
         /\ tActive' \in [{decoder} -> C \cup {NoJob}]
  BY <1>1 DEF T!Finish, Chunk
<1>8. \A j \in B : W!Submit(j) =>
         /\ Len(wPending) = 0 /\ Len(wPending') = 1 /\ wPending'[1] = j /\ wActive' = wActive
         /\ wPending' \in Seq(B)
  BY <1>1, <1>4, SMTT(60) DEF W!Submit, QueueDepth
<1>9. W!Start(writer) =>
         /\ Block = NoJob /\ Len(wPending) = 1 /\ wPending' = <<>> /\ Len(wPending') = 0
         /\ Block' = wPending[1] /\ Block' \in B /\ wActive' \in [{writer} -> B \cup {NoJob}]
  BY <1>1, <1>2, <1>4 DEF W!Start, Block
<1>10. W!Finish(writer) =>
         /\ Block # NoJob /\ Block' = NoJob /\ wPending' = wPending
         /\ wActive' \in [{writer} -> B \cup {NoJob}]
  BY <1>1 DEF W!Finish, Block
<1> QED BY <1>5, <1>6, <1>7, <1>8, <1>9, <1>10 DEF C, B

\* TPool_jobsCompleted for one thread.
LEMMA Idle ==
    /\ T!AllCompleted <=> tPending = <<>> /\ Chunk = NoJob
    /\ W!AllCompleted <=> wPending = <<>> /\ Block = NoJob
    /\ T!AllCompleted' <=> tPending' = <<>> /\ Chunk' = NoJob
    /\ W!AllCompleted' <=> wPending' = <<>> /\ Block' = NoJob
BY DEF T!AllCompleted, W!AllCompleted, Chunk, Block

-----------------------------------------------------------------------------
(* What a step leaves alone                                                *)

\* Each conjunct is about few variables.
LEMMA Frames ==
    ASSUME Inv, input' = input
    PROVE  /\ UNCHANGED <<nextChunk, main, inBuff, flushed>>
                /\ (main \in {"waitW", "flush", "done"} => T!AllCompleted')
                /\ (main \in {"flush", "done"} => W!AllCompleted') => MainInv'
           /\ UNCHANGED <<tPending, tActive, nextChunk, inBuff>> => ChunkInv'
           /\ UNCHANGED <<at, piece, decoded, availNext, lastStatus, tActive, nextChunk>>
                /\ Len(tPending') = Len(tPending) => PieceInv'
           /\ UNCHANGED <<decoded, written, wPending, wActive, at, bufOut, outBuff, usedIdx>>
                => WriteInv'
           /\ NbChunks' = NbChunks /\ \A i : Slot(i)' = Slot(i)
<1>1. NbChunks' = NbChunks /\ \A i : Slot(i)' = Slot(i)
  BY DEF NbChunks, Slot
<1>2. UNCHANGED <<nextChunk, main, inBuff, flushed>>
        /\ (main \in {"waitW", "flush", "done"} => T!AllCompleted')
        /\ (main \in {"flush", "done"} => W!AllCompleted') => MainInv'
  BY <1>1 DEF Inv, MainInv
<1>3. UNCHANGED <<tPending, tActive, nextChunk, inBuff>> => ChunkInv'
  BY DEF Inv, ChunkInv, Chunk, Started
<1>4. UNCHANGED <<at, piece, decoded, availNext, lastStatus, tActive, nextChunk>>
        /\ Len(tPending') = Len(tPending) => PieceInv'
  BY <1>1 DEF Inv, PieceInv, Chunk, Started, Taken, WasDecoded, IsChunk
<1>5. UNCHANGED <<decoded, written, wPending, wActive, at, bufOut, outBuff, usedIdx>>
        => WriteInv'
  BY <1>1 DEF Inv, WriteInv, Block, Writing, Held
<1> QED BY <1>1, <1>2, <1>3, <1>4, <1>5

-----------------------------------------------------------------------------
(* The main thread                                                         *)

\* fread goes to a buffer that neither the decoder's chunk nor the waiting one is in.
LEMMA ReadStep ==
    ASSUME Inv, ReadChunk
    PROVE  Inv'
<1>1. /\ main = "read" /\ nextChunk \in DOMAIN input.pieces /\ main' = "submit"
      /\ inBuff' = [inBuff EXCEPT ![nextChunk % NB_BUFFSETS] = nextChunk]
      /\ UNCHANGED <<tPending, tActive, nextChunk, wPending, wActive, input, at, piece, decoded,
                     availNext, bufOut, lastStatus, outBuff, usedIdx, written, flushed>>
  BY DEF ReadChunk, IsChunk, tVars, mainRest, wVars, decVars, outVars
<1>2. TypeOK /\ NbChunks \in 0..MaxChunks /\ DOMAIN input.pieces = 0..(NbChunks - 1)
  BY InputShape DEF Inv, TypeOK
<1>3. /\ nextChunk \in Nat /\ nextChunk < NbChunks /\ nextChunk \in 0..(MaxChunks - 1)
      /\ nextChunk % NB_BUFFSETS \in 0..3
      /\ inBuff \in [0..3 -> 0..(MaxChunks - 1)]
  <2>1. nextChunk \in Nat /\ MaxChunks \in Nat
    BY <1>2, Facts
  <2>2. nextChunk < NbChunks /\ nextChunk \in 0..(MaxChunks - 1)
    BY <1>1, <1>2, <2>1
  <2>3. nextChunk % 4 \in 0..3
    BY <2>1, RingPlaces
  <2> QED BY <1>2, <2>1, <2>2, <2>3, SMTT(60) DEF TypeOK, NB_BUFFSETS
<1>4. TypeOK'
  <2>1. inBuff' \in [0..(NB_BUFFSETS - 1) -> 0..(MaxChunks - 1)]
    BY <1>1, <1>3, SMTT(60) DEF NB_BUFFSETS
  <2> QED BY <1>1, <1>2, <2>1 DEF TypeOK, T!TypeOK, W!TypeOK
<1>5. MainInv'
  <2>1. NbChunks' = NbChunks
    BY <1>1, Frames
  <2>2. inBuff'[nextChunk % NB_BUFFSETS] = nextChunk
    BY <1>1, <1>3
  <2>3. ~flushed
    BY <1>1 DEF Inv, MainInv
  <2> QED BY <1>1, <1>2, <1>3, <2>1, <2>2, <2>3 DEF MainInv, Inv
<1>6. ChunkInv'
  <2>1. \A n \in {nextChunk - 1, nextChunk - 2} : n \in Nat =>
           /\ n % NB_BUFFSETS # nextChunk % NB_BUFFSETS
           /\ n % NB_BUFFSETS \in 0..3
    <3>1. \A n \in Nat : n < nextChunk /\ nextChunk <= n + 2 =>
             n % 4 # nextChunk % 4 /\ n % 4 \in 0..3
      BY <1>3, RingPlaces
    <3> QED BY <1>3, <3>1, SMTT(60) DEF NB_BUFFSETS
  <2>2. \A n \in {nextChunk - 1, nextChunk - 2} : n \in Nat =>
           inBuff'[n % NB_BUFFSETS] = inBuff[n % NB_BUFFSETS]
    BY <1>1, <1>3, <2>1
  <2>3. tPending # <<>> => tPending[1] = nextChunk - 1 /\ nextChunk - 1 \in Nat
                           /\ inBuff[(nextChunk - 1) % NB_BUFFSETS] = nextChunk - 1
    BY <1>2, Facts, SMTT(60) DEF Inv, ChunkInv
  <2>4. Chunk # NoJob => /\ Chunk \in {nextChunk - 1, nextChunk - 2} /\ Chunk \in Nat
                         /\ Chunk = Started - 1 /\ inBuff[Chunk % NB_BUFFSETS] = Chunk
    <3>1. Chunk # NoJob => Chunk \in Nat /\ Len(tPending) \in {0, 1}
      BY <1>2, Facts, SMTT(60)
    <3>2. Chunk # NoJob => Chunk = nextChunk - Len(tPending) - 1
                           /\ inBuff[Chunk % NB_BUFFSETS] = Chunk
      BY DEF Inv, ChunkInv, Started
    <3>3. nextChunk - 0 - 1 = nextChunk - 1 /\ nextChunk - 1 - 1 = nextChunk - 2
      BY <1>3
    <3> QED BY <3>1, <3>2, <3>3 DEF Started
  <2>5. Chunk' = Chunk /\ Started' = Started
    BY <1>1 DEF Chunk, Started
  <2> QED BY <1>1, <2>2, <2>3, <2>4, <2>5 DEF ChunkInv
<1>7. PieceInv' /\ WriteInv'
  BY <1>1, Frames
<1> QED BY <1>4, <1>5, <1>6, <1>7 DEF Inv

\* The chunk that was read is handed to the decoder.
LEMMA SubmitStep ==
    ASSUME Inv, SubmitChunk
    PROVE  Inv'
<1>1. /\ main = "submit" /\ T!Submit(nextChunk) /\ nextChunk' = nextChunk + 1
      /\ main' = IF input.format = "frame" /\ ~IsChunk(nextChunk + 1) THEN "waitT" ELSE "read"
      /\ UNCHANGED <<inBuff, wPending, wActive, input, at, piece, decoded, availNext, bufOut,
                     lastStatus, outBuff, usedIdx, written, flushed>>
  BY DEF SubmitChunk, mainRest, wVars, decVars, outVars
<1>2. TypeOK /\ NbChunks \in 0..MaxChunks /\ DOMAIN input.pieces = 0..(NbChunks - 1)
  BY InputShape DEF Inv, TypeOK
<1>3. /\ nextChunk \in Nat /\ nextChunk < NbChunks /\ nextChunk \in 0..(MaxChunks - 1)
      /\ inBuff[nextChunk % NB_BUFFSETS] = nextChunk /\ ~flushed
  <2>1. /\ nextChunk < NbChunks /\ inBuff[nextChunk % NB_BUFFSETS] = nextChunk /\ ~flushed
    BY <1>1 DEF Inv, MainInv
  <2>2. nextChunk \in Nat /\ MaxChunks \in Nat \ {0}
    BY <1>2, Facts
  <2> QED BY <1>2, <2>1, <2>2, SMTT(60)
<1>4. /\ Len(tPending) = 0 /\ Len(tPending') = 1 /\ tPending'[1] = nextChunk /\ tActive' = tActive
      /\ tPending' \in Seq(0..(MaxChunks - 1))
  BY <1>1, <1>2, <1>3, PoolSteps
<1>5. TypeOK'
  <2>1. T!TypeOK'
    BY <1>2, <1>4, Facts, SMTT(60) DEF T!TypeOK, QueueDepth
  <2>2. nextChunk + 1 \in 0..MaxChunks
    BY <1>2, <1>3, Facts, SMTT(60)
  <2>3. nextChunk' \in 0..MaxChunks /\ main' \in {"read", "waitT"}
    BY <1>1, <2>2
  <2> QED BY <1>1, <1>2, <2>1, <2>3 DEF TypeOK, W!TypeOK
<1>6. MainInv'
  <2>1. NbChunks' = NbChunks
    BY <1>1, Frames
  <2>2. main' = "waitT" => nextChunk + 1 = NbChunks
    BY <1>1, <1>2, <1>3 DEF IsChunk
  <2> QED BY <1>1, <1>2, <1>3, <2>1, <2>2 DEF MainInv
<1>7. Chunk' = Chunk /\ Started' = Started /\ Started = nextChunk
  BY <1>1, <1>3, <1>4 DEF Chunk, Started
<1>8. ChunkInv'
  BY <1>1, <1>3, <1>4, <1>7 DEF ChunkInv, Inv
<1>9. PieceInv'
  BY <1>1, <1>7, Frames DEF PieceInv, Inv, Taken, WasDecoded, IsChunk
<1>10. WriteInv'
  BY <1>1, Frames
<1> QED BY <1>5, <1>6, <1>8, <1>9, <1>10 DEF Inv

\* The other steps of the main thread move it on, when what it waits for has happened.
LEMMA WaitStep ==
    ASSUME Inv, NoMoreBlocks \/ WaitT \/ WaitW \/ Flush \/ ReadFails
    PROVE  Inv'
<1>1. UNCHANGED <<tPending, tActive, nextChunk, inBuff, wPending, wActive, input, at, piece,
                  decoded, availNext, bufOut, lastStatus, outBuff, usedIdx, written>>
  BY DEF NoMoreBlocks, WaitT, WaitW, Flush, ReadFails, tVars, mainRest, wVars, decVars, outVars
<1>2. TypeOK /\ NbChunks \in 0..MaxChunks /\ DOMAIN input.pieces = 0..(NbChunks - 1)
      /\ input.format \in {"frame", "legacy"} /\ (input.format = "legacy" => input.complete)
      /\ NbChunks' = NbChunks
  BY <1>1, InputShape, Frames DEF Inv, TypeOK
<1>3. TypeOK'
  <2>1. /\ main' \in {"waitT", "waitW", "flush", "done", "exit"}
        /\ flushed' \in BOOLEAN
    BY <1>2 DEF TypeOK, NoMoreBlocks, WaitT, WaitW, Flush, ReadFails, mainRest
  <2> QED BY <1>1, <1>2, <2>1 DEF TypeOK, T!TypeOK, W!TypeOK
<1>4. T!AllCompleted' = T!AllCompleted /\ W!AllCompleted' = W!AllCompleted
  BY <1>1 DEF T!AllCompleted, W!AllCompleted
<1>5. MainInv'
  <2>1. CASE NoMoreBlocks
    <3>1. nextChunk = NbChunks
      <4>1. nextChunk <= NbChunks /\ ~IsChunk(nextChunk)
        BY <2>1 DEF NoMoreBlocks, Inv, MainInv
      <4>2. nextChunk \in Nat /\ NbChunks \in Nat
        BY <1>2, Facts
      <4>3. DOMAIN input.pieces = 0..(NbChunks - 1)
        BY <1>2
      <4> QED BY <4>1, <4>2, <4>3, SMTT(60) DEF IsChunk
    <3> QED BY <1>1, <1>2, <2>1, <3>1 DEF NoMoreBlocks, Inv, MainInv, mainRest
  <2>2. CASE WaitT
    <3>1. lastStatus = 0 => input.complete
      BY DEF Inv, PieceInv
    <3>2. main' = "exit" \/ (main' = "waitW" /\ input.complete)
      BY <1>2, <2>2, <3>1 DEF WaitT
    <3> QED BY <1>1, <1>2, <1>4, <2>2, <3>2 DEF WaitT, Inv, MainInv, mainRest
  <2>3. CASE WaitW
    BY <1>1, <1>2, <1>4, <2>3 DEF WaitW, Inv, MainInv, mainRest
  <2>4. CASE Flush
    BY <1>1, <1>2, <1>4, <2>4 DEF Flush, Inv, MainInv
  <2>5. CASE ReadFails
    BY <1>1, <1>2, <2>5 DEF ReadFails, Inv, MainInv, mainRest
  <2> QED BY <2>1, <2>2, <2>3, <2>4, <2>5
<1>6. ChunkInv' /\ PieceInv' /\ WriteInv'
  BY <1>1, Frames
<1> QED BY <1>3, <1>5, <1>6 DEF Inv

-----------------------------------------------------------------------------
(* The decoder                                                             *)

\* It takes the chunk that waits.
LEMMA StartStep ==
    ASSUME Inv, StartChunk
    PROVE  Inv'
<1>1. /\ T!Start(decoder) /\ at' = "begin" /\ piece' = 0
      /\ UNCHANGED <<wPending, wActive, decoded, availNext, bufOut, lastStatus, outBuff, input, main,
                     nextChunk, inBuff, usedIdx, written, flushed>>
  BY DEF StartChunk, wVars, decRest, outVars
<1>2. TypeOK /\ NbChunks \in 0..MaxChunks /\ DOMAIN input.pieces = 0..(NbChunks - 1)
      /\ input.pieces \in [0..(NbChunks - 1) -> 0..MaxPieces] /\ NbChunks' = NbChunks
      /\ input.format \in {"frame", "legacy"} /\ nextChunk \in Nat /\ nextChunk <= NbChunks
  BY <1>1, InputShape, Frames, Facts DEF Inv, TypeOK, MainInv
<1>3. /\ Chunk = NoJob /\ Len(tPending) = 1 /\ tPending # <<>> /\ tPending' = <<>> /\ Len(tPending') = 0
      /\ Chunk' = tPending[1] /\ Chunk' \in 0..(MaxChunks - 1)
      /\ tActive' \in [{decoder} -> (0..(MaxChunks - 1)) \cup {NoJob}]
  <2>1. /\ Chunk = NoJob /\ Len(tPending) = 1 /\ tPending' = <<>> /\ Len(tPending') = 0
        /\ Chunk' = tPending[1] /\ Chunk' \in 0..(MaxChunks - 1)
        /\ tActive' \in [{decoder} -> (0..(MaxChunks - 1)) \cup {NoJob}]
    BY <1>1, <1>2, PoolSteps
  <2>2. tPending # <<>>
    BY <1>2, <2>1, Facts, SMTT(60)
  <2> QED BY <2>1, <2>2
<1>4. /\ Chunk' = nextChunk - 1 /\ inBuff[Chunk' % NB_BUFFSETS] = Chunk' /\ at = "begin"
      /\ Started = nextChunk - 1 /\ Started' = nextChunk /\ Chunk' # NoJob
  <2>1. Chunk' = nextChunk - 1 /\ inBuff[Chunk' % NB_BUFFSETS] = Chunk' /\ at = "begin"
    BY <1>3 DEF Inv, ChunkInv, PieceInv
  <2>2. Chunk' \in Nat
    BY <1>3, SMTT(60)
  <2> QED BY <1>1, <1>2, <1>3, <2>1, <2>2, Facts, SMTT(60) DEF Started
<1>5. TypeOK'
  <2>1. T!TypeOK'
    <3>1. tPending' \in Seq(0..(MaxChunks - 1)) /\ Len(tPending') <= QueueDepth
      BY <1>3 DEF QueueDepth
    <3> QED BY <1>3, <3>1 DEF T!TypeOK
  <2>2. piece' \in 0..MaxPieces
    BY <1>1, DecodeAssumption
  <2> QED BY <1>1, <1>2, <2>1, <2>2 DEF TypeOK, W!TypeOK
<1>6. MainInv'
  <2>1. main \notin {"waitW", "flush", "done"}
    BY <1>3, Idle DEF Inv, MainInv
  <2> QED BY <1>1, <2>1, Frames
<1>7. ChunkInv'
  BY <1>1, <1>3, <1>4 DEF ChunkInv
<1>8. PieceInv'
  <2>1. /\ Taken = 0 /\ Taken' = 0 /\ piece' <= input.pieces[Chunk'] /\ piece' = 0
    <3>1. Chunk' \in 0..(NbChunks - 1)
      BY <1>2, <1>3, <1>4, SMTT(60)
    <3>2. input.pieces[Chunk'] \in 0..MaxPieces
      BY <1>2, <3>1
    <3>3. 0 <= input.pieces[Chunk']
      BY <3>2
    <3> QED BY <1>1, <1>4, <3>3 DEF Taken
  <2>2. \A n \in 0..(NbChunks - 1) : n < Started' /\ n # Chunk' => n < Started /\ n # Chunk
    BY <1>2, <1>3, <1>4, Facts, SMTT(60)
  <2>3. input.format = "legacy" => Len(decoded) = Chunk' + piece' - Taken'
    <3>1. input.format = "legacy" => Len(decoded) = Started
      BY <1>3 DEF Inv, PieceInv
    <3> QED BY <1>2, <1>4, <2>1, <3>1
  <2>4. \A n : WasDecoded(n)' <=> WasDecoded(n)
    BY <1>1 DEF WasDecoded
  <2>5. /\ \A n \in 0..(NbChunks - 1) :
              n < Started' /\ n # Chunk' /\ input.pieces[n] > 0 => WasDecoded(n)'
        /\ ~(piece' > Taken')
    BY <2>1, <2>2, <2>4 DEF Inv, PieceInv
  <2> QED BY <1>1, <1>2, <1>4, <2>1, <2>3, <2>5 DEF Inv, PieceInv, IsChunk
<1>9. WriteInv'
  <2>1. at' = at
    BY <1>1, <1>4
  <2> QED BY <1>1, <2>1, Frames
<1> QED BY <1>5, <1>6, <1>7, <1>8, <1>9 DEF Inv

\* The chunk it is at is one of the input, in its buffer.
LEMMA ChunkNumber ==
    ASSUME Inv, Chunk # NoJob
    PROVE  /\ Chunk \in Nat /\ Chunk \in 0..(NbChunks - 1) /\ Chunk \in 0..(MaxChunks - 1)
           /\ Chunk = Started - 1 /\ input.pieces[Chunk] \in 0..MaxPieces
           /\ inBuff[Chunk % NB_BUFFSETS] = Chunk
<1>1. TypeOK /\ NbChunks \in 0..MaxChunks /\ input.pieces \in [0..(NbChunks - 1) -> 0..MaxPieces]
  BY InputShape DEF Inv, TypeOK
<1>2. Chunk \in 0..(MaxChunks - 1) /\ nextChunk \in Nat /\ Len(tPending) \in {0, 1}
  BY <1>1, Facts
<1>3. /\ Chunk = Started - 1 /\ Chunk = nextChunk - Len(tPending) - 1 /\ nextChunk <= NbChunks
      /\ inBuff[Chunk % NB_BUFFSETS] = Chunk
  BY DEF Inv, ChunkInv, Started, MainInv
<1>4. Chunk \in Nat /\ Chunk \in 0..(NbChunks - 1)
  BY <1>1, <1>2, <1>3, SMTT(60)
<1> QED BY <1>1, <1>2, <1>3, <1>4

\* It takes an output buffer: the next of the pool, or the one of its chunk.
LEMMA GetBufferStep ==
    ASSUME Inv, GetBuffer
    PROVE  Inv'
<1>1. /\ Chunk # NoJob /\ at = "begin" /\ piece < input.pieces[Chunk] /\ at' = "decode"
      /\ piece' = piece + 1
      /\ IF input.format = "frame"
         THEN bufOut' = availNext % PBUFFERS_NB /\ availNext' = availNext + 1
         ELSE bufOut' = Chunk % NB_BUFFSETS /\ availNext' = availNext
      /\ UNCHANGED <<tPending, tActive, wPending, wActive, decoded, lastStatus, outBuff, input, main,
                     nextChunk, inBuff, usedIdx, written, flushed>>
  BY DEF GetBuffer, Chunk, tVars, wVars, decRest, outVars
<1>2. TypeOK /\ NbChunks \in 0..MaxChunks /\ DOMAIN input.pieces = 0..(NbChunks - 1)
      /\ input.pieces \in [0..(NbChunks - 1) -> 0..MaxPieces] /\ NbChunks' = NbChunks
      /\ input.format \in {"frame", "legacy"}
      /\ (input.format = "legacy" => \A n \in 0..(NbChunks - 1) : input.pieces[n] = 1)
  BY <1>1, InputShape, Frames DEF Inv, TypeOK
<1>3. /\ Chunk \in Nat /\ Chunk \in 0..(NbChunks - 1) /\ piece \in Nat /\ availNext \in Nat
      /\ Len(decoded) \in Nat /\ input.pieces[Chunk] \in 0..MaxPieces
  BY <1>1, <1>2, ChunkNumber, Facts
<1>4. /\ input.format = "frame" => availNext = Len(decoded)
      /\ input.format = "legacy" => piece = 0 /\ Len(decoded) = Chunk
  <2>1. Taken = 0
    BY <1>1 DEF Taken
  <2>2. input.format = "frame" => availNext = Len(decoded) + 0
    BY <2>1 DEF Inv, PieceInv
  <2>3. input.format = "legacy" => piece < 1 /\ Len(decoded) = Chunk + piece - 0
    BY <1>1, <1>2, <1>3, <2>1 DEF Inv, PieceInv
  <2> QED BY <1>3, <2>2, <2>3
<1>5. bufOut' = Slot(Len(decoded) + 1) /\ bufOut' \in 0..3
  <2>1. /\ Len(decoded) + 1 - 1 = Len(decoded)
        /\ Len(decoded) % 4 \in 0..3 /\ Len(decoded) % 3 \in 0..3
    BY <1>3, RingPlaces, SMTT(60)
  <2>2. CASE input.format = "frame"
    <3>1. bufOut' = Len(decoded) % 3
      BY <1>1, <1>4, <2>2 DEF PBUFFERS_NB
    <3>2. Slot(Len(decoded) + 1) = Len(decoded) % 3
      BY <2>1, <2>2 DEF Slot, PBUFFERS_NB
    <3> QED BY <2>1, <3>1, <3>2
  <2>3. CASE input.format # "frame"
    <3>1. bufOut' = Chunk % 4
      BY <1>1, <2>3 DEF NB_BUFFSETS
    <3>2. Chunk = Len(decoded)
      BY <1>2, <1>4, <2>3
    <3>3. Slot(Len(decoded) + 1) = Len(decoded) % 4
      BY <2>1, <2>3 DEF Slot, NB_BUFFSETS
    <3> QED BY <2>1, <3>1, <3>2, <3>3
  <2> QED BY <2>2, <2>3
<1>6. TypeOK'
  <2>1. piece' \in 0..MaxPieces /\ availNext' \in Nat
    BY <1>1, <1>3, DecodeAssumption
  <2> QED BY <1>1, <1>2, <1>5, <2>1, SMTT(60) DEF TypeOK, T!TypeOK, W!TypeOK, NB_BUFFSETS
<1>7. MainInv'
  <2>1. main \notin {"waitW", "flush", "done"}
    BY <1>1, Idle DEF Inv, MainInv
  <2> QED BY <1>1, <2>1, Frames
<1>8. ChunkInv'
  BY <1>1, Frames
<1>9. Chunk' = Chunk /\ Started' = Started /\ Taken = 0 /\ Taken' = 1
  BY <1>1 DEF Chunk, Started, Taken
<1>10. PieceInv'
  <2>1. /\ piece' <= input.pieces[Chunk] /\ piece' >= 1
        /\ piece' > Taken' => piece > Taken
        /\ input.format = "frame" => availNext' = Len(decoded) + Taken'
        /\ input.format = "legacy" => Len(decoded) = Chunk + piece' - Taken'
    <3>1. piece' <= input.pieces[Chunk] /\ piece' >= 1 /\ (piece' > Taken' => piece > Taken)
      BY <1>1, <1>3, <1>9
    <3>2. /\ input.format = "frame" => availNext' = Len(decoded) + Taken'
          /\ input.format = "legacy" => Len(decoded) = Chunk + piece' - Taken'
      <4>1. \A n \in Nat : n + (0 + 1) - 1 = n
        OBVIOUS
      <4>2. input.format = "frame" => availNext' = Len(decoded) + 1
        BY <1>1, <1>4
      <4>3. input.format = "legacy" => piece' = 0 + 1 /\ Len(decoded) = Chunk
        BY <1>1, <1>4
      <4> QED BY <1>3, <1>9, <4>1, <4>2, <4>3
    <3> QED BY <3>1, <3>2
  <2>2. \A n : WasDecoded(n)' <=> WasDecoded(n)
    BY <1>1 DEF WasDecoded
  <2>3. /\ \A n \in 0..(NbChunks - 1) :
              n < Started' /\ n # Chunk' /\ input.pieces[n] > 0 => WasDecoded(n)'
        /\ piece' > Taken' => WasDecoded(Chunk)'
    BY <1>1, <1>9, <2>1 DEF Inv, PieceInv, WasDecoded
  <2> QED BY <1>1, <1>2, <1>9, <2>1, <2>3 DEF Inv, PieceInv, IsChunk
<1>11. WriteInv'
  BY <1>1, <1>5, Frames DEF Inv, WriteInv, Block, Writing, Held
<1> QED BY <1>6, <1>7, <1>8, <1>10, <1>11 DEF Inv

\* It decodes what the input buffer holds into a buffer that no piece on its way is in.
LEMMA DecodeStep ==
    ASSUME Inv, DecodePiece
    PROVE  Inv'
<1> DEFINE x == [chunk |-> Chunk, no |-> piece]
           m == Len(decoded)
<1>1. /\ at = "decode" /\ at' = "submit"
      /\ outBuff' = [outBuff EXCEPT ![bufOut] = [chunk |-> inBuff[Chunk % NB_BUFFSETS], no |-> piece]]
      /\ decoded' = Append(decoded, x) /\ lastStatus' \in {0, 1} /\ (lastStatus' = 0 => input.complete)
      /\ UNCHANGED <<tPending, tActive, wPending, wActive, piece, availNext, bufOut, input, main,
                     nextChunk, inBuff, usedIdx, written, flushed>>
  <2>1. /\ at = "decode" /\ at' = "submit"
        /\ outBuff' = [outBuff EXCEPT ![bufOut] = [chunk |-> inBuff[Chunk % NB_BUFFSETS], no |-> piece]]
        /\ decoded' = Append(decoded, x)
        /\ UNCHANGED <<tVars, wVars, piece, availNext, bufOut, decRest>>
    BY DEF DecodePiece, Chunk
  <2>2. lastStatus' \in {0, 1} /\ (lastStatus' = 0 => input.complete)
    BY DEF DecodePiece
  <2> QED BY <2>1, <2>2 DEF tVars, wVars, decRest, outVars
<1>2. /\ Chunk # NoJob /\ Chunk \in Nat /\ Chunk \in 0..(NbChunks - 1) /\ Chunk \in 0..(MaxChunks - 1)
      /\ input.pieces[Chunk] \in 0..MaxPieces /\ inBuff[Chunk % NB_BUFFSETS] = Chunk
  <2>1. Chunk # NoJob
    BY <1>1 DEF Inv, PieceInv
  <2> QED BY <2>1, ChunkNumber
<1>3. /\ TypeOK /\ NbChunks \in 0..MaxChunks /\ DOMAIN input.pieces = 0..(NbChunks - 1)
      /\ NbChunks' = NbChunks /\ (\A i : Slot(i)' = Slot(i))
      /\ input.format \in {"frame", "legacy"}
  BY <1>1, InputShape, Frames DEF Inv, TypeOK
<1>4. /\ piece \in Nat /\ piece >= 1 /\ piece <= input.pieces[Chunk] /\ piece \in 1..MaxPieces
      /\ input.pieces[Chunk] > 0
  <2>1. piece \in Nat /\ piece >= 1 /\ piece <= input.pieces[Chunk] /\ MaxPieces \in Nat
    BY <1>1, <1>2, <1>3, Facts DEF Inv, PieceInv
  <2> QED BY <1>2, <2>1
<1>5. x \in Pieces
  BY <1>2, <1>4 DEF Pieces
<1>6. /\ m \in Nat /\ Len(decoded') = m + 1 /\ decoded'[m + 1] = x /\ decoded' \in Seq(Pieces)
      /\ \A i \in 1..m : decoded'[i] = decoded[i]
  <2>1. decoded \in Seq(Pieces) /\ m \in Nat
    BY <1>3, Facts DEF TypeOK
  <2> HIDE DEF x
  <2> QED BY <1>1, <1>5, <2>1, Appended, SMTT(60)
<1>7. /\ outBuff \in [0..3 -> Pieces \cup {Empty}] /\ bufOut \in 0..3 /\ bufOut = Slot(m + 1)
      /\ outBuff' = [outBuff EXCEPT ![bufOut] = x]
  BY <1>1, <1>2, <1>3, SMTT(60) DEF Inv, WriteInv, TypeOK, NB_BUFFSETS
<1>8. Chunk' = Chunk /\ Started' = Started /\ Taken = 1 /\ Taken' = 0 /\ Held = 0 /\ Held' = 1
      /\ Block' = Block /\ Writing' = Writing
  BY <1>1 DEF Chunk, Started, Taken, Held, Block, Writing
<1> HIDE DEF x, m
<1>9. TypeOK'
  <2>1. outBuff' \in [0..(NB_BUFFSETS - 1) -> Pieces \cup {Empty}]
    BY <1>5, <1>7, SMTT(60) DEF NB_BUFFSETS
  <2> QED BY <1>1, <1>3, <1>6, <2>1 DEF TypeOK, T!TypeOK, W!TypeOK
<1>10. MainInv' /\ ChunkInv'
  <2>1. main \notin {"waitW", "flush", "done"}
    BY <1>2, Idle DEF Inv, MainInv
  <2> QED BY <1>1, <2>1, Frames
<1>11. PieceInv'
  <2>1. /\ \A n : WasDecoded(n) => WasDecoded(n)'
        /\ WasDecoded(Chunk)'
    <3>1. m + 1 \in 1..Len(decoded') /\ decoded'[m + 1].chunk = Chunk' /\ 1..m \subseteq 1..Len(decoded')
      BY <1>6, <1>8 DEF x
    <3> QED BY <1>6, <3>1 DEF WasDecoded, m
  <2>2. \A i \in 1..Len(decoded') :
           decoded'[i].chunk \in 0..(NbChunks - 1) /\ input.pieces[decoded'[i].chunk] > 0
    <3>1. \A i \in 1..m : decoded[i].chunk \in 0..(NbChunks - 1) /\ input.pieces[decoded[i].chunk] > 0
      BY <1>3 DEF Inv, PieceInv, IsChunk, m
    <3>2. x.chunk = Chunk
      BY DEF x
    <3>3. \A i \in 1..(m + 1) : i = m + 1 \/ i \in 1..m
      BY <1>6
    <3> QED BY <1>2, <1>4, <1>6, <3>1, <3>2, <3>3
  <2>3. /\ input.format = "frame" => availNext = m + 1
        /\ input.format = "legacy" => m + 1 = Chunk + piece - 0
    <3>1. /\ input.format = "frame" => availNext = m + 1
          /\ input.format = "legacy" => m = Chunk + piece - 1
      BY <1>2, <1>8 DEF Inv, PieceInv, m
    <3> QED BY <1>2, <1>4, <3>1
  <2>4. \A n \in 0..(NbChunks - 1) :
           n < Started' /\ n # Chunk' /\ input.pieces[n] > 0 => WasDecoded(n)'
    BY <1>8, <2>1 DEF Inv, PieceInv
  <2>5. availNext' = availNext /\ (availNext \in Nat => availNext = availNext + 0)
    BY <1>1
  <2>6. availNext \in Nat /\ m + 1 = m + 1 + 0
    BY <1>3, <1>6, Facts, SMTT(60)
  <2> QED BY <1>1, <1>2, <1>3, <1>4, <1>6, <1>8, <2>1, <2>2, <2>3, <2>4, <2>6 DEF PieceInv, IsChunk
<1>12. WriteInv'
  <2>1. /\ Len(written) \in Nat /\ Writing \in {0, 1} /\ Len(wPending) \in {0, 1}
        /\ m = Len(written) + Writing + Len(wPending) + 0
    BY <1>3, <1>8, Facts DEF Inv, WriteInv, Writing, m
  <2>2. m + 1 = Len(written) + Writing + Len(wPending) + 1 /\ Len(written) <= m /\ m <= Len(written) + 2
    <3>1. \A k, a, b, c \in Nat : b <= 1 /\ c <= 1 /\ k = a + b + c + 0 =>
             k + 1 = a + b + c + 1 /\ a <= k /\ k <= a + 2
      BY ONLY TRUE
    <3>2. \A b \in {0, 1} : b \in Nat /\ b <= 1
      BY ONLY TRUE
    <3>3. /\ m \in Nat /\ Len(written) \in Nat /\ Writing \in Nat /\ Len(wPending) \in Nat
          /\ Writing <= 1 /\ Len(wPending) <= 1 /\ m = Len(written) + Writing + Len(wPending) + 0
      BY <1>6, <2>1, <3>2
    <3> QED BY <3>1, <3>3, SMT
  <2>3. ASSUME NEW i \in (Len(written) + 1)..(m + 1)
        PROVE  outBuff'[Slot(i)] = decoded'[i]
    <3>1. CASE i = m + 1
      BY <1>6, <1>7, <3>1
    <3>2. CASE i # m + 1
      <4>1. i - 1 \in Nat /\ i - 1 < m /\ m <= (i - 1) + 2 /\ i \in 1..m /\ (m + 1) - 1 = m
        <5>1. \A a, k \in Nat : \A j \in (a + 1)..(k + 1) : j # k + 1 /\ k <= a + 2 =>
                 j - 1 \in Nat /\ j - 1 < k /\ k <= (j - 1) + 2 /\ j \in 1..k /\ (k + 1) - 1 = k
          BY ONLY TRUE
        <5>2. m \in Nat /\ Len(written) \in Nat /\ m <= Len(written) + 2
          BY <1>6, <2>1, <2>2
        <5> QED BY <3>2, <5>1, <5>2, SMT
      <4>2. (i - 1) % 4 # m % 4 /\ (i - 1) % 3 # m % 3 /\ (i - 1) % 4 \in 0..3 /\ (i - 1) % 3 \in 0..2
        BY <1>6, <4>1, RingPlaces
      <4>3. Slot(i) # Slot(m + 1) /\ Slot(i) \in 0..3
        <5>1. CASE input.format = "frame"
          BY <4>1, <4>2, <5>1 DEF Slot, PBUFFERS_NB
        <5>2. CASE input.format # "frame"
          BY <4>1, <4>2, <5>2 DEF Slot, NB_BUFFSETS
        <5> QED BY <5>1, <5>2
      <4>4. outBuff'[Slot(i)] = outBuff[Slot(i)]
        BY <1>7, <4>3
      <4>5. i \in (Len(written) + 1)..m
        BY <1>6, <2>1, <3>2
      <4> QED BY <1>6, <4>1, <4>4, <4>5 DEF Inv, WriteInv, m
    <3> QED BY <3>1, <3>2
  <2>4. \A i \in 1..Len(written) : written[i] = decoded'[i]
    <3>1. \A i \in 1..Len(written) : i \in 1..m
      BY <1>6, <2>1, <2>2
    <3> QED BY <1>6, <3>1 DEF Inv, WriteInv
  <2> QED BY <1>1, <1>3, <1>6, <1>7, <1>8, <2>2, <2>3, <2>4 DEF Inv, WriteInv
<1> QED BY <1>9, <1>10, <1>11, <1>12 DEF Inv

\* The piece is handed to the writer: a place further back, and in the same buffer.
LEMMA SubmitPieceStep ==
    ASSUME Inv, SubmitPiece
    PROVE  Inv'
<1>1. /\ at = "submit" /\ W!Submit(bufOut) /\ at' = "begin"
      /\ UNCHANGED <<tPending, tActive, piece, decoded, availNext, bufOut, lastStatus, outBuff, input,
                     main, nextChunk, inBuff, usedIdx, written, flushed>>
  BY DEF SubmitPiece, tVars, decRest, outVars
<1>2. TypeOK /\ Chunk # NoJob /\ bufOut \in 0..3 /\ NbChunks' = NbChunks /\ (\A i : Slot(i)' = Slot(i))
  <2>1. Chunk # NoJob /\ NbChunks' = NbChunks /\ (\A i : Slot(i)' = Slot(i))
    BY <1>1, Frames DEF Inv, PieceInv
  <2> QED BY <2>1, SMTT(60) DEF Inv, TypeOK, NB_BUFFSETS
<1>3. /\ Len(wPending) = 0 /\ Len(wPending') = 1 /\ wPending'[1] = bufOut /\ wActive' = wActive
      /\ wPending' \in Seq(0..3)
  BY <1>1, <1>2, PoolSteps
<1>4. TypeOK'
  <2>1. W!TypeOK'
    BY <1>2, <1>3, Facts, SMTT(60) DEF W!TypeOK, QueueDepth, NB_BUFFSETS
  <2> QED BY <1>1, <1>2, <2>1 DEF TypeOK, T!TypeOK
<1>5. MainInv' /\ ChunkInv'
  <2>1. main \notin {"waitW", "flush", "done"}
    BY <1>2, Idle DEF Inv, MainInv
  <2> QED BY <1>1, <2>1, Frames
<1>6. PieceInv'
  <2>1. Chunk' = Chunk /\ Started' = Started /\ Taken' = Taken
    BY <1>1 DEF Chunk, Started, Taken
  <2> QED BY <1>1, <1>2, <2>1 DEF Inv, PieceInv, WasDecoded, IsChunk
<1>7. WriteInv'
  <2>1. Held = 1 /\ Held' = 0 /\ Block' = Block /\ Writing' = Writing
    BY <1>1, <1>3 DEF Held, Block, Writing
  <2>2. Len(written) \in Nat /\ Writing \in Nat /\ Len(decoded) \in Nat
    BY <1>2, Facts DEF Writing
  <2>3. Len(decoded) = Len(written) + Writing + 0 + 1 /\ bufOut = Slot(Len(decoded))
    BY <1>1, <1>3, <2>1 DEF Inv, WriteInv
  <2>4. Len(decoded) = Len(written) + Writing + 1 /\ Len(decoded) = Len(written) + Writing + 1 + 0
    BY <2>2, <2>3
  <2> QED BY <1>1, <1>2, <1>3, <2>1, <2>3, <2>4 DEF Inv, WriteInv
<1> QED BY <1>4, <1>5, <1>6, <1>7 DEF Inv

\* A chunk is finished when its last piece was decoded.
LEMMA FinishStep ==
    ASSUME Inv, FinishChunk
    PROVE  Inv'
<1>1. /\ at = "begin" /\ piece = input.pieces[Chunk] /\ T!Finish(decoder) /\ Chunk # NoJob
      /\ UNCHANGED <<wPending, wActive, at, piece, decoded, availNext, bufOut, lastStatus, outBuff, input,
                     main, nextChunk, inBuff, usedIdx, written, flushed>>
  BY DEF FinishChunk, Chunk, wVars, decVars, decRest, outVars
<1>2. /\ TypeOK /\ NbChunks' = NbChunks /\ Chunk \in Nat /\ Chunk \in 0..(NbChunks - 1)
      /\ Chunk = Started - 1 /\ Started \in Int /\ DOMAIN input.pieces = 0..(NbChunks - 1)
      /\ (input.format = "legacy" => input.pieces[Chunk] = 1)
  <2>1. TypeOK /\ NbChunks' = NbChunks /\ Chunk \in Nat /\ Chunk \in 0..(NbChunks - 1)
        /\ Chunk = Started - 1
    BY <1>1, ChunkNumber, Frames DEF Inv
  <2>2. Started \in Int
    BY <2>1, Facts, SMTT(60) DEF Started
  <2> QED BY <2>1, <2>2, InputShape DEF TypeOK
<1>3. /\ Chunk' = NoJob /\ tPending' = tPending
      /\ tActive' \in [{decoder} -> (0..(MaxChunks - 1)) \cup {NoJob}]
  BY <1>1, <1>2, PoolSteps
<1>4. TypeOK'
  <2>1. T!TypeOK'
    BY <1>2, <1>3 DEF TypeOK, T!TypeOK
  <2> QED BY <1>1, <1>2, <2>1 DEF TypeOK, W!TypeOK
<1>5. MainInv' /\ ChunkInv'
  <2>1. main \notin {"waitW", "flush", "done"}
    BY <1>1, Idle DEF Inv, MainInv
  <2>2. ChunkInv'
    BY <1>1, <1>3 DEF Inv, ChunkInv
  <2> QED BY <1>1, <2>1, <2>2, Frames
<1>6. PieceInv'
  <2>1. Started' = Started /\ Taken = 0 /\ Taken' = 0
    BY <1>1, <1>3 DEF Started, Taken
  <2>2. \A n : WasDecoded(n)' <=> WasDecoded(n)
    BY <1>1 DEF WasDecoded
  <2>3. \A n \in 0..(NbChunks - 1) : n < Started /\ input.pieces[n] > 0 => WasDecoded(n)
    BY <1>1, <2>1 DEF Inv, PieceInv
  <2>4. input.format = "legacy" => Len(decoded) = Started
    <3>1. input.format = "legacy" => Len(decoded) = Chunk + 1 - 0
      BY <1>1, <1>2, <2>1 DEF Inv, PieceInv
    <3> QED BY <1>2, <3>1
  <2> QED BY <1>1, <1>2, <1>3, <2>1, <2>2, <2>3, <2>4 DEF Inv, PieceInv, IsChunk
<1>7. WriteInv'
  BY <1>1, Frames
<1> QED BY <1>4, <1>5, <1>6, <1>7 DEF Inv

\* A decoding error ends the program before it reports success.
LEMMA FailsStep ==
    ASSUME Inv, DecodeFails
    PROVE  Inv'
<1>1. /\ at = "decode" /\ main' = "exit"
      /\ UNCHANGED <<tPending, tActive, wPending, wActive, at, piece, decoded, availNext, bufOut,
                     lastStatus, outBuff, input, nextChunk, inBuff, usedIdx, written, flushed>>
  BY DEF DecodeFails, tVars, wVars, decVars, outVars
<1>2. ~flushed /\ NbChunks' = NbChunks
  BY <1>1, Idle, Frames DEF Inv, MainInv, PieceInv
<1>3. TypeOK'
  BY <1>1 DEF Inv, TypeOK, T!TypeOK, W!TypeOK
<1>4. MainInv'
  BY <1>1, <1>2 DEF Inv, MainInv
<1>5. ChunkInv' /\ PieceInv' /\ WriteInv'
  BY <1>1, Frames
<1> QED BY <1>3, <1>4, <1>5 DEF Inv

-----------------------------------------------------------------------------
(* The writer                                                              *)

\* It takes the piece that waits.
LEMMA StartWriteStep ==
    ASSUME Inv, StartWrite
    PROVE  Inv'
<1>1. /\ W!Start(writer)
      /\ UNCHANGED <<tPending, tActive, at, piece, decoded, availNext, bufOut, lastStatus, outBuff, input,
                     main, nextChunk, inBuff, usedIdx, written, flushed>>
  BY DEF StartWrite, wRest, tVars, decVars, outVars
<1>2. TypeOK /\ NbChunks' = NbChunks /\ (\A i : Slot(i)' = Slot(i))
  BY <1>1, Frames DEF Inv
<1>3. /\ Block = NoJob /\ Len(wPending) = 1 /\ wPending' = <<>> /\ Len(wPending') = 0
      /\ Block' = wPending[1] /\ Block' \in 0..3 /\ Block' # NoJob /\ wPending # <<>>
      /\ wActive' \in [{writer} -> (0..3) \cup {NoJob}]
  <2>1. /\ Block = NoJob /\ Len(wPending) = 1 /\ wPending' = <<>> /\ Len(wPending') = 0
        /\ Block' = wPending[1] /\ Block' \in 0..3
        /\ wActive' \in [{writer} -> (0..3) \cup {NoJob}]
    BY <1>1, <1>2, PoolSteps
  <2>2. Block' \in Nat
    BY <2>1, SMTT(60)
  <2> QED BY <1>2, <2>1, <2>2, Facts, SMTT(60)
<1>4. TypeOK'
  <2>1. W!TypeOK'
    <3>1. wPending' \in Seq(0..3) /\ Len(wPending') <= QueueDepth
      BY <1>3, SMTT(60) DEF QueueDepth
    <3> QED BY <1>3, <3>1, SMTT(60) DEF W!TypeOK, NB_BUFFSETS
  <2> QED BY <1>1, <1>2, <2>1 DEF TypeOK, T!TypeOK
<1>5. MainInv' /\ ChunkInv' /\ PieceInv'
  <2>1. main \notin {"flush", "done"}
    BY <1>3, Idle DEF Inv, MainInv
  <2>2. T!AllCompleted' = T!AllCompleted
    BY <1>1 DEF T!AllCompleted
  <2>3. main \in {"waitW", "flush", "done"} => T!AllCompleted'
    BY <2>2 DEF Inv, MainInv
  <2> QED BY <1>1, <2>1, <2>3, Frames
<1>6. WriteInv'
  <2>1. Writing = 0 /\ Writing' = 1 /\ Held' = Held /\ Held \in Nat /\ Len(written) \in Nat
    BY <1>1, <1>2, <1>3, Facts, SMTT(60) DEF Writing, Held
  <2>2. /\ Len(decoded) = Len(written) + 0 + 1 + Held
        /\ Block' = Slot(Len(written) + 0 + 1)
    BY <1>3, <2>1 DEF Inv, WriteInv
  <2>3. Len(decoded) = Len(written) + 1 + 0 + Held /\ Block' = Slot(Len(written) + 1)
    BY <2>1, <2>2
  <2> QED BY <1>1, <1>2, <1>3, <2>1, <2>3 DEF Inv, WriteInv
<1> QED BY <1>4, <1>5, <1>6 DEF Inv

\* What it writes is the next piece that was decoded.
LEMMA WriteStep ==
    ASSUME Inv, WritePiece
    PROVE  Inv'
<1> DEFINE y == outBuff[Block]
           k == Len(written)
<1>1. /\ Block # NoJob /\ written' = Append(written, y) /\ W!Finish(writer)
      /\ usedIdx' = (IF input.format = "frame" THEN usedIdx + 1 ELSE usedIdx)
      /\ UNCHANGED <<tPending, tActive, at, piece, decoded, availNext, bufOut, lastStatus, outBuff, input,
                     main, nextChunk, inBuff, flushed>>
  BY DEF WritePiece, Block, wRest, tVars, decVars
<1>2. /\ TypeOK /\ NbChunks' = NbChunks /\ (\A i : Slot(i)' = Slot(i))
      /\ decoded \in Seq(Pieces) /\ written \in Seq(Pieces) /\ usedIdx \in Nat
  BY <1>1, Frames DEF Inv, TypeOK
<1>3. /\ Block' = NoJob /\ wPending' = wPending
      /\ wActive' \in [{writer} -> (0..3) \cup {NoJob}]
  BY <1>1, <1>2, PoolSteps
<1>4. /\ Writing = 1 /\ Writing' = 0 /\ Held' = Held /\ Held \in Nat /\ k \in Nat
      /\ Len(wPending) \in Nat /\ Len(decoded) \in Nat
  BY <1>1, <1>2, <1>3, Facts, SMTT(60) DEF Writing, Held
<1>5. Len(decoded) = k + 1 + Len(wPending) + Held
  BY <1>4 DEF Inv, WriteInv
<1>6. k + 1 \in 1..Len(decoded) /\ k + 1 \in (k + 1)..Len(decoded)
  BY <1>4, <1>5
<1>7. y = decoded[k + 1] /\ y \in Pieces
  BY <1>1, <1>2, <1>6, SMTT(60) DEF Inv, WriteInv
<1>8. /\ Len(written') = k + 1 /\ written'[k + 1] = y /\ written' \in Seq(Pieces)
      /\ \A i \in 1..k : written'[i] = written[i]
  <2> HIDE DEF y
  <2> QED BY <1>1, <1>2, <1>7, Appended, SMTT(60)
<1> HIDE DEF y
<1>9. TypeOK'
  <2>1. W!TypeOK' /\ usedIdx' \in Nat
    BY <1>1, <1>2, <1>3, SMTT(60) DEF TypeOK, W!TypeOK, NB_BUFFSETS
  <2> QED BY <1>1, <1>2, <1>8, <2>1 DEF TypeOK, T!TypeOK
<1>10. MainInv' /\ ChunkInv' /\ PieceInv'
  <2>1. main \notin {"flush", "done"}
    BY <1>1, Idle DEF Inv, MainInv
  <2>2. T!AllCompleted' = T!AllCompleted
    BY <1>1 DEF T!AllCompleted
  <2>3. main \in {"waitW", "flush", "done"} => T!AllCompleted'
    BY <2>2 DEF Inv, MainInv
  <2> QED BY <1>1, <2>1, <2>3, Frames
<1>11. WriteInv'
  <2>1. Len(decoded) = Len(written') + 0 + Len(wPending) + Held
    BY <1>4, <1>5, <1>8
  <2>2. wPending # <<>> => wPending[1] = Slot(Len(written') + 0 + 1)
    <3>1. wPending # <<>> => wPending[1] = Slot(k + 1 + 1)
      BY <1>4 DEF Inv, WriteInv
    <3>2. Len(written') + 0 + 1 = k + 1 + 1
      BY <1>4, <1>8
    <3> QED BY <3>1, <3>2
  <2>3. \A i \in (Len(written') + 1)..Len(decoded) : outBuff[Slot(i)] = decoded[i]
    <3>1. \A i \in (Len(written') + 1)..Len(decoded) : i \in (k + 1)..Len(decoded)
      BY <1>4, <1>8
    <3> QED BY <3>1 DEF Inv, WriteInv
  <2>4. \A i \in 1..Len(written') : written'[i] = decoded[i]
    <3>1. \A i \in 1..Len(written') : i = k + 1 \/ i \in 1..k
      BY <1>4, <1>8
    <3>2. \A i \in 1..k : written[i] = decoded[i]
      BY DEF Inv, WriteInv
    <3> QED BY <1>7, <1>8, <3>1, <3>2
  <2>5. input.format = "frame" => usedIdx' = Len(written')
    BY <1>1, <1>8 DEF Inv, WriteInv
  <2> QED BY <1>1, <1>2, <1>3, <1>4, <2>1, <2>2, <2>3, <2>4, <2>5 DEF Inv, WriteInv
<1> QED BY <1>9, <1>10, <1>11 DEF Inv

-----------------------------------------------------------------------------
(* The theorem                                                             *)

\* Nothing is read, decoded or written yet.
LEMMA InitInv ==
    ASSUME Init
    PROVE  Inv
<1>1. /\ tPending = <<>> /\ wPending = <<>> /\ Chunk = NoJob /\ Block = NoJob /\ decoded = <<>>
      /\ written = <<>> /\ Len(<<>>) = 0
      /\ tActive = [w \in {decoder} |-> NoJob] /\ wActive = [w \in {writer} |-> NoJob]
  BY EmptyQueue DEF Init, T!Init, W!Init, Chunk, Block
<1>2. NbChunks \in 0..MaxChunks /\ MaxChunks \in Nat \ {0} /\ MaxPieces \in Nat \ {0}
  BY InputShape, DecodeAssumption DEF Init
<1>3. TypeOK
  <2>1. T!TypeOK /\ W!TypeOK
    BY <1>1 DEF T!TypeOK, W!TypeOK, QueueDepth
  <2>2. decoded \in Seq(Pieces) /\ written \in Seq(Pieces)
    BY <1>1
  <2>3. /\ inBuff \in [0..(NB_BUFFSETS - 1) -> 0..(MaxChunks - 1)]
        /\ outBuff \in [0..(NB_BUFFSETS - 1) -> Pieces \cup {Empty}]
        /\ nextChunk \in 0..MaxChunks /\ piece \in 0..MaxPieces /\ bufOut \in 0..(NB_BUFFSETS - 1)
    BY <1>2 DEF Init, NB_BUFFSETS
  <2> QED BY <2>1, <2>2, <2>3 DEF Init, TypeOK
<1>4. MainInv /\ ChunkInv
  BY <1>1, <1>2 DEF Init, MainInv, ChunkInv
<1>5. PieceInv /\ WriteInv
  <2>1. Started = 0 /\ Taken = 0 /\ Held = 0 /\ Writing = 0
    <3>1. nextChunk = 0 /\ Len(tPending) = 0 /\ at = "begin" /\ Block = NoJob
      BY <1>1 DEF Init
    <3> QED BY <3>1 DEF Started, Taken, Held, Writing
  <2>2. PieceInv
    <3>1. \A n \in 0..(NbChunks - 1) : ~(n < Started)
      BY <1>2, <2>1
    <3>2. \A i \in 1..0 : FALSE
      OBVIOUS
    <3>3. /\ at = "begin" /\ lastStatus = 1 /\ availNext = 0 + 0 /\ Len(decoded) = 0
          /\ Chunk = NoJob /\ Started = 0 /\ Taken = 0 /\ 0 # 1
      BY <1>1, <2>1 DEF Init
    <3> QED BY <3>1, <3>2, <3>3 DEF PieceInv
  <2>3. WriteInv
    <3>1. \A i \in 1..0 : FALSE
      OBVIOUS
    <3> QED BY <1>1, <2>1, <3>1 DEF Init, WriteInv
  <2> QED BY <2>2, <2>3
<1> QED BY <1>3, <1>4, <1>5 DEF Inv

\* Nothing happens.
LEMMA Stutters ==
    ASSUME Inv, UNCHANGED vars
    PROVE  Inv'
<1>1. UNCHANGED <<tPending, tActive, wPending, wActive, input, main, nextChunk, inBuff, at, piece,
                  decoded, availNext, bufOut, lastStatus, outBuff, usedIdx, written, flushed>>
  BY DEF vars, tVars, wVars, decVars, outVars
<1>2. TypeOK'
  BY <1>1 DEF Inv, TypeOK, T!TypeOK, W!TypeOK
<1>3. T!AllCompleted' = T!AllCompleted /\ W!AllCompleted' = W!AllCompleted
  BY <1>1 DEF T!AllCompleted, W!AllCompleted
<1>4. MainInv'
  BY <1>1, <1>3, Frames DEF Inv, MainInv
<1> QED BY <1>1, <1>2, <1>4, Frames DEF Inv

\* BufPool's asserts: the buffers in use are those of at most three pieces in three hands.
LEMMA BuffersInUse ==
    ASSUME Inv
    PROVE  OutputIsDecodedInput /\ BufferPoolAsserts
<1>1. /\ Len(written) \in Nat /\ Len(decoded) \in Nat /\ Len(wPending) \in Nat /\ Len(wPending) <= 1
      /\ Writing \in Nat /\ Writing <= 1 /\ Held + Taken <= 1 /\ Held \in Nat /\ Taken \in Nat
  <2>1. Len(written) \in Nat /\ Len(decoded) \in Nat /\ Len(wPending) \in {0, 1}
    BY Facts DEF Inv
  <2>2. /\ Writing \in {0, 1}
        /\ (Held = 0 /\ Taken = 0) \/ (Held = 1 /\ Taken = 0) \/ (Held = 0 /\ Taken = 1)
    BY DEF Writing, Held, Taken
  <2>3. \A b \in {0, 1} : b \in Nat /\ b <= 1
    OBVIOUS
  <2>4. Held + Taken <= 1 /\ Held \in Nat /\ Taken \in Nat
    BY <2>2
  <2> QED BY <2>1, <2>2, <2>3, <2>4
<1>2. Len(decoded) = Len(written) + Writing + Len(wPending) + Held
  BY DEF Inv, WriteInv
<1>3. Len(written) <= Len(decoded) /\ Len(decoded) + Taken <= Len(written) + 3
      /\ (Writing = 1 => Len(written) < Len(decoded) + Taken)
      /\ Len(written) <= Len(decoded) + Taken /\ (Len(written) + 1) - 1 = Len(written)
  BY <1>1, <1>2
<1>4. OutputIsDecodedInput
  BY <1>3 DEF Inv, WriteInv, OutputIsDecodedInput
<1>5. BufferPoolAsserts
  <2>1. input.format = "frame" => usedIdx = Len(written) /\ availNext = Len(decoded) + Taken
    BY DEF Inv, WriteInv, PieceInv
  <2>2. Block # NoJob => Writing = 1 /\ Block = Slot(Len(written) + 1)
    BY DEF Inv, WriteInv, Writing
  <2>3. input.format = "frame" => Slot(Len(written) + 1) = Len(written) % PBUFFERS_NB
    BY <1>3 DEF Slot
  <2> QED BY <1>3, <2>1, <2>2, <2>3 DEF BufferPoolAsserts, Block, PBUFFERS_NB
<1> QED BY <1>4, <1>5

\* When both pools are idle after the last chunk, every piece has gone all the way.
LEMMA AllWritten ==
    ASSUME Inv
    PROVE  DoneMeansWritten
<1> SUFFICES ASSUME flushed
             PROVE  /\ T!AllCompleted /\ W!AllCompleted /\ Len(written) = Len(decoded) /\ input.complete
                    /\ {written[i].chunk : i \in 1..Len(written)}
                         = {n \in DOMAIN input.pieces : input.pieces[n] > 0}
  BY DEF DoneMeansWritten
<1>1. T!AllCompleted /\ W!AllCompleted /\ input.complete /\ nextChunk = NbChunks
  BY DEF Inv, MainInv
<1>2. /\ Chunk = NoJob /\ Len(tPending) = 0 /\ Len(wPending) = 0 /\ Block = NoJob /\ at = "begin"
      /\ Len(written) \in Nat /\ Len(decoded) \in Nat /\ \A n \in Nat : n # NoJob
  BY <1>1, Idle, Facts DEF Inv, PieceInv
<1>3. NbChunks \in 0..MaxChunks /\ DOMAIN input.pieces = 0..(NbChunks - 1)
  BY InputShape DEF Inv, TypeOK
<1>4. Started = NbChunks /\ Writing = 0 /\ Held = 0
  BY <1>1, <1>2, <1>3 DEF Started, Writing, Held
<1>5. Len(written) = Len(decoded)
  BY <1>2, <1>4, SMTT(60) DEF Inv, WriteInv
<1>6. ASSUME NEW n \in DOMAIN input.pieces, input.pieces[n] > 0
      PROVE  \E i \in 1..Len(written) : n = written[i].chunk
  <2>1. n \in 0..(NbChunks - 1) /\ n < Started /\ n # Chunk
    BY <1>2, <1>3, <1>4
  <2>2. WasDecoded(n)
    BY <1>6, <2>1 DEF Inv, PieceInv
  <2> QED BY <1>5, <2>2 DEF WasDecoded, Inv, WriteInv
<1>7. ASSUME NEW i \in 1..Len(written)
      PROVE  written[i].chunk \in DOMAIN input.pieces /\ input.pieces[written[i].chunk] > 0
  BY <1>5 DEF Inv, WriteInv, PieceInv, IsChunk
<1> QED BY <1>1, <1>5, <1>6, <1>7

\* Whatever the interleaving of the main thread, the decoder and the writer, which share the
\* input and output buffers without a lock, the output file is a prefix of the decoded input,
\* BufPool_getBuffer's and BufPool_releaseBuffer's asserts hold, and success is reported only
\* when every piece of every chunk was written: for any number of chunks and of pieces.
THEOREM DecompressionWritesInput == Spec => []DecodedRight
<1>1. Init => Inv
  BY InitInv
<1>2. Inv /\ [Next]_vars => Inv'
  <2> SUFFICES ASSUME Inv, [Next]_vars PROVE Inv'
    OBVIOUS
  <2>1. CASE Main
    BY <2>1, ReadStep, SubmitStep, WaitStep DEF Main
  <2>2. CASE Decoder
    BY <2>2, StartStep, GetBufferStep, DecodeStep, SubmitPieceStep, FinishStep DEF Decoder
  <2>3. CASE Writer
    BY <2>3, StartWriteStep, WriteStep DEF Writer
  <2>4. CASE ReadFails \/ DecodeFails
    BY <2>4, WaitStep, FailsStep
  <2>5. CASE Terminated \/ UNCHANGED vars
    BY <2>5, Stutters DEF Terminated
  <2> QED BY <2>1, <2>2, <2>3, <2>4, <2>5 DEF Next
<1>3. Inv => DecodedRight
  BY BuffersInUse, AllWritten DEF DecodedRight, RingsSound, Inv
<1> QED BY <1>1, <1>2, <1>3, PTL DEF Spec
=============================================================================
