--------------------------- MODULE CompressMTProofs ---------------------------
(***************************************************************************)
(* Multi-threaded compression writes the file, whole and in order, for any *)
(* number of workers, any file and any queues that take two jobs in tPool: *)
(* the chain of read jobs is one reader at a time, no worker waits for     *)
(* room in its own pool, and each block goes through the register once.    *)
(* (The variable arrived of WriteRegisterProofs, whose lemmas are used     *)
(* here, belongs to an arbitrary user of the register; the pipeline has no *)
(* such variable.)                                                         *)
(***************************************************************************)
EXTENDS CompressMT, WriteRegisterProofs

\* The provers of a leaf that names none.
USE ZenonT(60), SMTT(60)

-----------------------------------------------------------------------------
(* The inductive invariant                                                 *)

Total == file.full + (IF file.tail THEN 1 ELSE 0)
Block == wActive[writer]
ReadQueued == tPending # <<>> /\ tPending[Len(tPending)] = ReadJob
Compressing(w) == tActive[w] # NoJob /\ tActive[w] # ReadJob
Holders == {w \in TWorkers : Compressing(w) /\ at[w] # "return"}

\* A block's way: taken from the file, queued, compressed, handed to the writer, in its
\* hand, at the register.
Unsent == IF main = "first" \/ \E w \in Readers : at[w] = "submitC" THEN {fpos - 1} ELSE {}
Queued == IF tPending # <<>> /\ tPending[1] # ReadJob THEN {tPending[1].blk} ELSE {}
Held == {tActive[w].blk : w \in Holders}
Handed == {wPending[i] : i \in 1..Len(wPending)}
InHand == IF Block # NoJob /\ ~draining THEN {Block} ELSE {}
Arrived == (0..(expectedRank - 1)) \cup Stored

\* Those that have come at least as far.
AtWriter == Arrived \cup InHand
Sent == AtWriter \cup Handed
Begun == Sent \cup Held
Given == Begun \cup Queued

\* A worker is in its own job.
WorkerInv ==
    \A w \in TWorkers :
        /\ at[w] = "submitW" => Compressing(w)
        /\ Compressing(w) => at[w] \in {"begin", "submitW", "return"}

\* The queue of tPool is a compression job, a read job, both in this order, or empty.
QueueShape ==
    /\ Len(tPending) <= 2
    /\ Len(tPending) = 2 => tPending[1] # ReadJob /\ tPending[2] = ReadJob

\* There is one reader, and room for what it submits.
ChainInv ==
    /\ QueueShape
    /\ \A v, w \in Readers : v = w
    /\ ReadQueued => Readers = {}
    /\ main \in {"open", "first", "chain"} => Readers = {} /\ ~ReadQueued
    /\ \A w \in Readers : at[w] \in {"begin", "submitC"} => tPending = <<>>

\* What has been read: the chunks in order, each with the end of the one before.
TakenInv ==
    /\ file.full = MaxChunks => ~file.tail
    /\ fpos <= Total
    /\ Len(hashed) = fpos
    /\ \A i \in 1..fpos : hashed[i] = i - 1
    /\ prefix = IF file.linked THEN fpos - 1 ELSE -1
    /\ \A k \in 0..(fpos - 1) :
          /\ content[k].chunk = k
          /\ content[k].prefix = IF file.linked THEN k - 1 ELSE -1

\* The reader's block number, and why the chain ends.
ReadInv ==
    /\ main = "open" => fpos = 0 /\ blockNb = 0
    /\ main = "first" => fpos = 1
    /\ main = "chain" \/ ReadQueued => blockNb = fpos
    /\ \A w \in Readers : IF at[w] = "submitC"
                          THEN fpos = blockNb + 1 /\ (content[blockNb].cut => readErr)
                          ELSE blockNb = fpos
    /\ main \in {"waitT", "waitW", "close", "done"} /\ ~ReadQueued /\ Readers = {} =>
          readErr \/ fpos = Total

\* No block is held or handed twice.
DistinctInv ==
    /\ \A v, w \in Holders : tActive[v].blk = tActive[w].blk => v = w
    /\ \A i, k \in 1..Len(wPending) : wPending[i] = wPending[k] => i = k

\* Each block is in one place.
PlaceInv ==
    /\ InHand \cap Arrived = {}
    /\ Handed \cap AtWriter = {}
    /\ Held \cap Sent = {}
    /\ Queued \cap Begun = {}
    /\ Unsent \cap Given = {}
    /\ Given \cup Unsent \subseteq 0..(fpos - 1)
    /\ main \notin {"close", "done"} => 0..(fpos - 1) \subseteq Given \cup Unsent

\* The writer, between and in its jobs.
WriterInv ==
    /\ Compact
    /\ \A n \in Stored : n >= expectedRank
    /\ draining => Block # NoJob
    /\ ~draining => expectedRank \notin Stored
    /\ \A i \in 1..Len(out) : out[i] = i - 1
    /\ main \notin {"close", "done"} => Len(out) = expectedRank

\* The main thread goes on when the pools are idle, and writes the end mark then.
MainInv ==
    /\ main \in {"open", "first", "waitW", "close", "done"} => T!AllCompleted
    /\ main \in {"open", "first", "close", "done"} => W!AllCompleted
    /\ main \in {"close", "done"} => Stored = {} /\ Len(out) = fpos
    /\ endMark # NULL => main \in {"close", "done"} /\ endMark = hashed
    /\ removed => main = "done"

Inv == /\ TypeOK /\ WorkerInv /\ ChainInv /\ TakenInv /\ ReadInv
       /\ DistinctInv /\ PlaceInv /\ WriterInv /\ MainInv

-----------------------------------------------------------------------------
(* Helpers                                                                 *)

\* Queues.
LEMMA EmptyQueue ==
    ASSUME NEW S
    PROVE  /\ <<>> \in Seq(S) /\ Len(<<>>) = 0
           /\ \A s \in Seq(S) : Len(s) \in Nat /\ (Len(s) = 0 <=> s = <<>>)
OBVIOUS

LEMMA Appended ==
    ASSUME NEW S, NEW s \in Seq(S), NEW e \in S
    PROVE  /\ Append(s, e) \in Seq(S) /\ Append(s, e) # <<>> /\ Len(Append(s, e)) = Len(s) + 1
           /\ \A i \in 1..Len(s) : Append(s, e)[i] = s[i]
           /\ Append(s, e)[Len(s) + 1] = e
OBVIOUS

LEMMA HeadTaken ==
    ASSUME NEW S, NEW s \in Seq(S), s # <<>>
    PROVE  /\ Head(s) = s[1] /\ s[1] \in S /\ Tail(s) \in Seq(S) /\ Len(Tail(s)) = Len(s) - 1
           /\ \A i \in 1..(Len(s) - 1) : Tail(s)[i] = s[i + 1]
OBVIOUS

\* A job of tPool is the read job or a block's compression.
LEMMA JobFacts ==
    /\ Ranks = 0..MaxChunks /\ MaxChunks \in Nat /\ Ranks \subseteq Nat
    /\ NoJob \notin Ranks /\ NoJob \notin TJobs
    /\ ReadJob \in TJobs /\ ReadJob.op = "read"
    /\ \A k \in Ranks : /\ CompressJob(k) \in TJobs /\ CompressJob(k) # ReadJob
                        /\ CompressJob(k).blk = k
    /\ \A j \in TJobs : j # ReadJob => j.blk \in Ranks /\ j = CompressJob(j.blk) /\ j.op = "compress"
<1>1. /\ Ranks = 0..MaxChunks /\ MaxChunks \in Nat /\ NoJob \notin Ranks
      /\ NoJob \notin [op : {"read", "compress"}, blk : Ranks]
  BY PipelineAssumption
<1>2. 0 \in Ranks /\ Ranks \subseteq Nat
  BY <1>1
<1>3. ReadJob \in [op : {"read", "compress"}, blk : Ranks] /\ ReadJob.op = "read"
  BY <1>2 DEF ReadJob
<1>4. ASSUME NEW k \in Ranks
      PROVE  /\ CompressJob(k) \in [op : {"read", "compress"}, blk : Ranks]
             /\ CompressJob(k) # ReadJob /\ CompressJob(k).blk = k /\ CompressJob(k).op = "compress"
  BY <1>3 DEF CompressJob, ReadJob
<1> QED BY <1>1, <1>2, <1>3, <1>4, SMTT(60) DEF TJobs

\* The types in use.
LEMMA Types ==
    ASSUME TypeOK
    PROVE  /\ tPending \in Seq(TJobs) /\ Len(tPending) \in Nat
           /\ tActive \in [TWorkers -> TJobs \cup {NoJob}]
           /\ wPending \in Seq(Ranks) /\ Len(wPending) \in Nat
           /\ wActive \in [{writer} -> Ranks \cup {NoJob}] /\ Block \in Ranks \cup {NoJob}
           /\ fpos \in Nat /\ blockNb \in Nat /\ expectedRank \in Nat /\ Stored \subseteq Ranks
           /\ file.full \in Nat /\ file.tail \in BOOLEAN /\ file.linked \in BOOLEAN
           /\ Total \in Nat /\ Total = IF file.tail THEN file.full + 1 ELSE file.full
           /\ out \in Seq(Nat) /\ Len(out) \in Nat /\ hashed \in Seq(Ranks) /\ Len(hashed) \in Nat
<1>1. tPending \in Seq(TJobs) /\ tActive \in [TWorkers -> TJobs \cup {NoJob}]
  BY DEF TypeOK, T!TypeOK
<1>2. wPending \in Seq(Ranks) /\ wActive \in [{writer} -> Ranks \cup {NoJob}]
  BY DEF TypeOK, W!TypeOK
<1>3. Block \in Ranks \cup {NoJob}
  BY <1>2 DEF Block
<1>4. RegisterTypeOK /\ expectedRank \in Nat /\ out \in Seq(Nat) /\ hashed \in Seq(Ranks)
  BY DEF TypeOK, RegisterTypeOK
<1>5. file \in Requests /\ fpos \in 0..(MaxChunks + 1) /\ blockNb \in 0..(MaxChunks + 1)
  BY DEF TypeOK
<1>6. file.full \in 0..MaxChunks /\ file.tail \in BOOLEAN /\ file.linked \in BOOLEAN
  BY <1>5 DEF Requests
<1>7. file.full \in Nat /\ fpos \in Nat /\ blockNb \in Nat
  BY <1>5, <1>6, JobFacts, SMTT(60)
<1>8. Total \in Nat /\ Total = IF file.tail THEN file.full + 1 ELSE file.full
  BY <1>7 DEF Total
<1>9. /\ Len(tPending) \in Nat /\ Len(wPending) \in Nat
      /\ Len(out) \in Nat /\ Len(hashed) \in Nat
  BY <1>1, <1>2, <1>4, SMTT(60)
<1> QED BY <1>1, <1>2, <1>3, <1>4, <1>6, <1>7, <1>8, <1>9, StoredRanks

\* The queue of tPool.
LEMMA QueueCases ==
    ASSUME TypeOK, QueueShape
    PROVE  \/ tPending = <<>> /\ Len(tPending) = 0 /\ ~ReadQueued
           \/ /\ tPending # <<>> /\ Len(tPending) = 1
              /\ ReadQueued <=> tPending[1] = ReadJob
           \/ /\ tPending # <<>> /\ Len(tPending) = 2
              /\ tPending[1] # ReadJob /\ tPending[2] = ReadJob /\ ReadQueued
<1> DEFINE n == Len(tPending)
<1>1. n \in Nat /\ (n = 0 <=> tPending = <<>>)
  BY Types, EmptyQueue
<1>2. n <= 2 /\ (n = 2 => tPending[1] # ReadJob /\ tPending[2] = ReadJob)
  BY DEF QueueShape
<1>3. ReadQueued <=> tPending # <<>> /\ tPending[n] = ReadJob
  BY DEF ReadQueued
<1> HIDE DEF n
<1>4. n = 0 \/ n = 1 \/ n = 2
  BY <1>1, <1>2
<1>5. CASE n = 0
  BY <1>1, <1>3, <1>5 DEF n
<1>6. CASE n = 1
  BY <1>1, <1>3, <1>6 DEF n
<1>7. CASE n = 2
  BY <1>1, <1>2, <1>3, <1>7 DEF n
<1> QED BY <1>4, <1>5, <1>6, <1>7

\* Which variables each of the derived values is about.
LEMMA Same ==
    /\ UNCHANGED tPending => /\ Queued' = Queued /\ (ReadQueued' <=> ReadQueued)
                             /\ (QueueShape' <=> QueueShape)
    /\ UNCHANGED <<tActive, at>> => /\ Readers' = Readers /\ Holders' = Holders /\ Held' = Held
                                    /\ (WorkerInv' <=> WorkerInv)
    /\ UNCHANGED wPending => Handed' = Handed
    /\ UNCHANGED wActive => Block' = Block
    /\ UNCHANGED <<wActive, draining>> => InHand' = InHand
    /\ UNCHANGED buffers => Stored' = Stored /\ (Compact' <=> Compact)
    /\ UNCHANGED <<expectedRank, buffers>> => Arrived' = Arrived
    /\ UNCHANGED <<tActive, at, main, fpos>> => Unsent' = Unsent
    /\ UNCHANGED file => Total' = Total
    /\ UNCHANGED tVars => (T!AllCompleted' <=> T!AllCompleted)
    /\ UNCHANGED wVars => (W!AllCompleted' <=> W!AllCompleted)
<1>1. UNCHANGED tPending => /\ Queued' = Queued /\ (ReadQueued' <=> ReadQueued)
                            /\ (QueueShape' <=> QueueShape)
  BY DEF Queued, ReadQueued, QueueShape
<1>2. UNCHANGED <<tActive, at>> => /\ Readers' = Readers /\ Holders' = Holders /\ Held' = Held
                                   /\ (WorkerInv' <=> WorkerInv)
  BY DEF Readers, Holders, Held, Compressing, WorkerInv
<1>3. UNCHANGED wPending => Handed' = Handed
  BY DEF Handed
<1>4. UNCHANGED wActive => Block' = Block
  BY DEF Block
<1>5. UNCHANGED <<wActive, draining>> => InHand' = InHand
  BY <1>4 DEF InHand
<1>6. UNCHANGED buffers => Stored' = Stored /\ (Compact' <=> Compact)
  BY DEF Stored, Compact
<1>7. UNCHANGED <<expectedRank, buffers>> => Arrived' = Arrived
  BY <1>6 DEF Arrived
<1>8. UNCHANGED <<tActive, at, main, fpos>> => Unsent' = Unsent
  BY <1>2 DEF Unsent
<1>9. UNCHANGED file => Total' = Total
  BY DEF Total
<1>10. /\ UNCHANGED tVars => (T!AllCompleted' <=> T!AllCompleted)
       /\ UNCHANGED wVars => (W!AllCompleted' <=> W!AllCompleted)
  BY DEF tVars, wVars, T!AllCompleted, W!AllCompleted
<1> QED BY <1>1, <1>2, <1>3, <1>4, <1>5, <1>6, <1>7, <1>8, <1>9, <1>10

\* Which variables each conjunct is about.
LEMMA Frames ==
    ASSUME Inv, UNCHANGED file
    PROVE  /\ UNCHANGED <<tActive, at>> => WorkerInv'
           /\ UNCHANGED <<tPending, tActive, at, main>> => ChainInv'
           /\ UNCHANGED <<fpos, hashed, prefix, content>> => TakenInv'
           /\ UNCHANGED <<main, fpos, blockNb, tPending, tActive, at, content, readErr>> => ReadInv'
           /\ UNCHANGED <<tActive, at, wPending>> => DistinctInv'
           /\ UNCHANGED <<wActive, wrVars, main>> => WriterInv'
           /\ UNCHANGED <<main, tVars, wVars, buffers, out, fpos, endMark, hashed, removed>>
                 => MainInv'
<1>1. UNCHANGED <<tActive, at>> => WorkerInv'
  BY Same DEF Inv
<1>2. UNCHANGED <<tPending, tActive, at, main>> => ChainInv'
  BY Same DEF Inv, ChainInv
<1>3. UNCHANGED <<fpos, hashed, prefix, content>> => TakenInv'
  BY Same DEF Inv, TakenInv
<1>4. UNCHANGED <<main, fpos, blockNb, tPending, tActive, at, content, readErr>> => ReadInv'
  BY Same DEF Inv, ReadInv
<1>5. UNCHANGED <<tActive, at, wPending>> => DistinctInv'
  BY Same DEF Inv, DistinctInv
<1>6. UNCHANGED <<wActive, wrVars, main>> => WriterInv'
  BY Same DEF Inv, WriterInv, wrVars
<1>7. UNCHANGED <<main, tVars, wVars, buffers, out, fpos, endMark, hashed, removed>> => MainInv'
  BY Same DEF Inv, MainInv
<1> QED BY <1>1, <1>2, <1>3, <1>4, <1>5, <1>6, <1>7

\* The blocks stay where they are.
LEMMA PlaceSame ==
    ASSUME Inv, Queued' = Queued, Held' = Held, Handed' = Handed, InHand' = InHand,
           Arrived' = Arrived, Unsent' = Unsent, fpos' = fpos,
           main' \notin {"close", "done"} => main \notin {"close", "done"}
    PROVE  PlaceInv'
<1>1. PlaceInv
  BY DEF Inv
<1>2. Given' = Given /\ Begun' = Begun /\ Sent' = Sent /\ AtWriter' = AtWriter
  BY DEF Given, Begun, Sent, AtWriter
<1> QED BY <1>1, <1>2 DEF PlaceInv

\* An idle pool has no block and no reader.
LEMMA Idle ==
    /\ T!AllCompleted => /\ tPending = <<>> /\ Queued = {} /\ ~ReadQueued
                         /\ Readers = {} /\ Holders = {} /\ Held = {}
                         /\ \A w \in TWorkers : tActive[w] = NoJob
    /\ W!AllCompleted => wPending = <<>> /\ Handed = {} /\ Block = NoJob /\ InHand = {}
<1>1. ASSUME T!AllCompleted
      PROVE  /\ tPending = <<>> /\ Queued = {} /\ ~ReadQueued
             /\ Readers = {} /\ Holders = {} /\ Held = {}
             /\ \A w \in TWorkers : tActive[w] = NoJob
  <2>1. tPending = <<>> /\ \A w \in TWorkers : tActive[w] = NoJob
    BY <1>1 DEF T!AllCompleted
  <2>2. Queued = {} /\ ~ReadQueued
    BY <2>1 DEF Queued, ReadQueued
  <2>3. Readers = {}
    BY <2>1, JobFacts DEF Readers
  <2>4. Holders = {}
    BY <2>1 DEF Holders, Compressing
  <2> QED BY <2>1, <2>2, <2>3, <2>4 DEF Held
<1>2. ASSUME W!AllCompleted
      PROVE  wPending = <<>> /\ Handed = {} /\ Block = NoJob /\ InHand = {}
  BY <1>2 DEF W!AllCompleted, Handed, Block, InHand
<1> QED BY <1>1, <1>2

\* A chunk is taken as the next block.
LEMMA TakeEffect ==
    ASSUME Inv, NEW err \in BOOLEAN, fpos < Total, Take(fpos, err), UNCHANGED file
    PROVE  /\ TakenInv' /\ fpos' = fpos + 1 /\ fpos \in Ranks
           /\ fpos' \in 0..(MaxChunks + 1) /\ prefix' \in -1..MaxChunks /\ hashed' \in Seq(Ranks)
           /\ content' \in [Ranks -> Contents \cup {NULL}] /\ content'[fpos].cut = err
           /\ content'[fpos].chunk = fpos
<1>1. /\ content' = [content EXCEPT ![fpos] = [chunk |-> fpos, cut |-> err, prefix |-> prefix]]
      /\ hashed' = Append(hashed, fpos) /\ prefix' = (IF file.linked THEN fpos ELSE -1)
      /\ fpos' = fpos + 1
  BY DEF Take
<1>2. TakenInv /\ TypeOK
  BY DEF Inv
<1>3. /\ fpos \in Nat /\ file.full \in 0..MaxChunks /\ file.tail \in BOOLEAN
      /\ file.linked \in BOOLEAN /\ MaxChunks \in Nat /\ Total \in Nat
      /\ Total = IF file.tail THEN file.full + 1 ELSE file.full
  <2>1. file.full \in 0..MaxChunks
    BY <1>2 DEF TypeOK, Requests
  <2> QED BY <1>2, <2>1, Types, JobFacts
<1>4. fpos \in 0..MaxChunks
  BY <1>2, <1>3, SMTT(60) DEF TakenInv
<1>5. fpos \in Ranks
  BY <1>4, JobFacts
<1>6. hashed' \in Seq(Ranks) /\ Len(hashed') = fpos + 1 /\ \A i \in 1..(fpos + 1) : hashed'[i] = i - 1
  <2>1. hashed \in Seq(Ranks) /\ Len(hashed) = fpos /\ \A i \in 1..fpos : hashed[i] = i - 1
    BY <1>2 DEF TypeOK, TakenInv
  <2>2. /\ hashed' \in Seq(Ranks) /\ Len(hashed') = fpos + 1 /\ hashed'[fpos + 1] = fpos
        /\ \A i \in 1..fpos : hashed'[i] = hashed[i]
    BY <2>1, <1>1, <1>5, Appended, SMTT(60)
  <2> QED BY <2>1, <2>2, <1>3
<1>7. /\ prefix' \in -1..MaxChunks /\ prefix \in -1..MaxChunks
      /\ prefix' = IF file.linked THEN fpos' - 1 ELSE -1
  BY <1>1, <1>2, <1>3, <1>4, SMTT(60) DEF TypeOK
<1>8. /\ content' \in [Ranks -> Contents \cup {NULL}] /\ content'[fpos].cut = err
      /\ content'[fpos].chunk = fpos /\ content'[fpos].prefix = prefix
      /\ \A k \in Ranks : k # fpos => content'[k] = content[k]
  <2>1. content \in [Ranks -> Contents \cup {NULL}]
    BY <1>2 DEF TypeOK
  <2>2. [chunk |-> fpos, cut |-> err, prefix |-> prefix] \in Contents
    BY <1>5, <1>7 DEF Contents
  <2> QED BY <2>1, <2>2, <1>1, <1>5
<1>9. \A k \in 0..fpos : /\ content'[k].chunk = k
                         /\ content'[k].prefix = IF file.linked THEN k - 1 ELSE -1
  <2> SUFFICES ASSUME NEW k \in 0..fpos
               PROVE  /\ content'[k].chunk = k
                      /\ content'[k].prefix = IF file.linked THEN k - 1 ELSE -1
    OBVIOUS
  <2>1. CASE k = fpos
    BY <2>1, <1>2, <1>8 DEF TakenInv
  <2>2. CASE k # fpos
    <3>1. k \in 0..(fpos - 1) /\ k \in Ranks
      BY <2>2, <1>3, <1>4, JobFacts, SMTT(60)
    <3> QED BY <2>2, <3>1, <1>2, <1>8 DEF TakenInv
  <2> QED BY <2>1, <2>2
<1>10. TakenInv'
  <2>1. Total' = Total /\ fpos' - 1 = fpos
    BY Same, <1>1, <1>3
  <2>2. (file.full = MaxChunks => ~file.tail)' /\ fpos' <= Total'
    BY <2>1, <1>1, <1>2, <1>3, SMTT(60) DEF TakenInv
  <2> QED BY <2>1, <2>2, <1>1, <1>6, <1>7, <1>9 DEF TakenInv
<1>11. fpos' \in 0..(MaxChunks + 1)
  BY <1>1, <1>3, <1>4
<1> QED BY <1>1, <1>5, <1>6, <1>7, <1>8, <1>10, <1>11

\* fread returns nothing only at the end or on an error.
LEMMA FreadFacts ==
    ASSUME Inv, NEW size, NEW err \in BOOLEAN, Fread(size, err)
    PROVE  /\ size \in {"whole", "part", "none"}
           /\ size # "none" => fpos < Total
           /\ size = "none" => err \/ fpos = Total
           /\ size = "whole" => ~err /\ fpos < file.full
           /\ size # "whole" /\ ~err => file.full <= fpos
<1>1. /\ fpos \in Nat /\ file.full \in Nat /\ file.tail \in BOOLEAN /\ fpos <= Total
      /\ Total = IF file.tail THEN file.full + 1 ELSE file.full
  BY Types DEF Inv, TakenInv
<1>2. /\ Left \in {"whole", "part", "none"} /\ (Left # "none" => fpos < Total)
      /\ (Left = "none" => fpos = Total) /\ (Left = "whole" <=> fpos < file.full)
  BY <1>1 DEF Left
<1> QED BY <1>1, <1>2 DEF Fread

-----------------------------------------------------------------------------
(* The main thread                                                         *)

\* Before the first chunk is read nothing is anywhere.
LEMMA OpenFacts ==
    ASSUME Inv, main = "open"
    PROVE  /\ fpos = 0 /\ blockNb = 0 /\ expectedRank = 0 /\ Stored = {} /\ out = <<>>
           /\ T!AllCompleted /\ W!AllCompleted /\ endMark = NULL /\ ~removed
           /\ Arrived = {} /\ Unsent = {}
<1>1. /\ fpos = 0 /\ blockNb = 0 /\ T!AllCompleted /\ W!AllCompleted /\ ~removed /\ endMark = NULL
      /\ Len(out) = expectedRank
  BY DEF Inv, ReadInv, MainInv, WriterInv
<1>2. Arrived \subseteq 0..(fpos - 1)
  BY DEF Inv, PlaceInv, Given, Begun, Sent, AtWriter
<1>3. Arrived = {}
  BY <1>1, <1>2
<1>4. expectedRank \in Nat /\ out \in Seq(Nat)
  BY Types DEF Inv
<1>5. expectedRank = 0 /\ Stored = {}
  <2>1. 0 \notin 0..(expectedRank - 1) /\ Stored = {}
    BY <1>3 DEF Arrived
  <2> QED BY <2>1, <1>4
<1>6. out = <<>>
  BY <1>1, <1>4, <1>5, EmptyQueue
<1>7. Unsent = {}
  BY <1>1, Idle DEF Unsent
<1> QED BY <1>1, <1>3, <1>5, <1>6, <1>7

\* LZ4IO_compressFilename_extRess_MT up to the first submission: the file cannot be
\* read, is a chunk or more, or is compressed at once.
LEMMA OpenFrameStep ==
    ASSUME Inv, NEW size, NEW err \in BOOLEAN, OpenFrame(size, err)
    PROVE  Inv'
<1>1. /\ main = "open" /\ Fread(size, err) /\ readErr' = err
      /\ UNCHANGED <<tPending, tActive, wPending, wActive, expectedRank, buffers, draining,
                     file, blockNb, at, removed>>
      /\ UNCHANGED <<tVars, wVars>>
  BY DEF OpenFrame, tailVars, tVars, wVars
<1>2. /\ \/ err /\ main' = "exit" /\ UNCHANGED <<fpos, prefix, hashed, content, endMark, out>>
         \/ size = "whole" /\ main' = "first" /\ Take(0, FALSE) /\ UNCHANGED <<endMark, out>>
         \/ ~err /\ size = "part" /\ main' = "close" /\ out' = <<0>> /\ Take(0, FALSE)
            /\ endMark' = hashed'
         \/ ~err /\ size \notin {"whole", "part"} /\ main' = "close" /\ out' = <<>>
            /\ endMark' = hashed' /\ UNCHANGED <<fpos, prefix, hashed, content>>
  BY DEF OpenFrame, tailVars
<1>3. /\ fpos = 0 /\ blockNb = 0 /\ expectedRank = 0 /\ Stored = {} /\ out = <<>>
      /\ T!AllCompleted /\ W!AllCompleted /\ endMark = NULL /\ ~removed
      /\ Arrived = {} /\ Unsent = {}
  BY <1>1, OpenFacts
<1>4. /\ tPending = <<>> /\ Queued = {} /\ ~ReadQueued /\ Readers = {} /\ Holders = {}
      /\ Held = {} /\ Handed = {} /\ Block = NoJob /\ InHand = {}
  BY <1>3, Idle
<1>5. /\ T!AllCompleted' /\ W!AllCompleted' /\ Queued' = {} /\ ~ReadQueued' /\ Readers' = {}
      /\ Holders' = {} /\ Held' = {} /\ Handed' = {} /\ Block' = NoJob /\ InHand' = {}
      /\ Stored' = {} /\ Arrived' = {} /\ Total' = Total
      /\ (QueueShape' <=> QueueShape) /\ (Compact' <=> Compact)
  BY <1>1, <1>3, <1>4, Same
<1>6. WorkerInv' /\ DistinctInv'
  BY <1>1, Frames
<1>7. ChainInv'
  <2>1. QueueShape
    BY DEF Inv, ChainInv
  <2> QED BY <2>1, <1>5 DEF ChainInv
<1>8. TypeOK /\ Compact /\ TakenInv
  BY DEF Inv, WriterInv
<1>9. ~draining /\ ~draining'
  <2>1. draining => Block # NoJob
    BY DEF Inv, WriterInv
  <2> QED BY <2>1, <1>1, <1>4
<1>10. /\ size \in {"whole", "part", "none"} /\ (size # "none" => fpos < Total)
       /\ (size = "none" => err \/ fpos = Total) /\ (size = "whole" => ~err)
       /\ (size # "whole" /\ ~err => file.full <= fpos)
       /\ fpos <= Total /\ Total \in Nat /\ file.full \in Nat
       /\ Total = IF file.tail THEN file.full + 1 ELSE file.full
  BY <1>1, <1>8, FreadFacts, Types DEF TakenInv
<1>11. CASE err /\ main' = "exit" /\ UNCHANGED <<fpos, prefix, hashed, content, endMark, out>>
  <2>1. TypeOK'
    BY <1>1, <1>8, <1>11 DEF TypeOK, RegisterTypeOK, T!TypeOK, W!TypeOK
  <2>2. TakenInv'
    BY <1>1, <1>11, Frames
  <2>3. ReadInv'
    BY <1>5, <1>11 DEF ReadInv
  <2>4. Unsent' = {}
    BY <1>5, <1>11 DEF Unsent
  <2>5. PlaceInv'
    BY <1>3, <1>5, <1>11, <2>4 DEF PlaceInv, Given, Begun, Sent, AtWriter
  <2>6. WriterInv'
    BY <1>1, <1>3, <1>5, <1>8, <1>9, <1>11 DEF WriterInv
  <2>7. MainInv'
    BY <1>1, <1>3, <1>11 DEF MainInv
  <2> QED BY <2>1, <2>2, <2>3, <2>5, <2>6, <2>7, <1>6, <1>7 DEF Inv
<1>12. CASE size = "whole" /\ main' = "first" /\ Take(0, FALSE) /\ UNCHANGED <<endMark, out>>
  <2>1. /\ TakenInv' /\ fpos' = 1
        /\ fpos' \in 0..(MaxChunks + 1) /\ prefix' \in -1..MaxChunks /\ hashed' \in Seq(Ranks)
        /\ content' \in [Ranks -> Contents \cup {NULL}]
    <3>1. Take(fpos, FALSE) /\ fpos < Total /\ file' = file /\ FALSE \in BOOLEAN
      BY <1>1, <1>3, <1>10, <1>12
    <3>2. /\ TakenInv' /\ fpos' = fpos + 1
          /\ fpos' \in 0..(MaxChunks + 1) /\ prefix' \in -1..MaxChunks /\ hashed' \in Seq(Ranks)
          /\ content' \in [Ranks -> Contents \cup {NULL}]
      BY <3>1, TakeEffect
    <3> QED BY <3>2, <1>3
  <2>2. TypeOK'
    BY <1>1, <1>8, <1>12, <2>1 DEF TypeOK, RegisterTypeOK, T!TypeOK, W!TypeOK
  <2>3. ReadInv'
    BY <1>5, <1>12, <2>1 DEF ReadInv
  <2>4. Unsent' = {0}
    BY <1>12, <2>1 DEF Unsent
  <2>5. PlaceInv'
    BY <1>5, <2>1, <2>4, SMTT(60) DEF PlaceInv, Given, Begun, Sent, AtWriter
  <2>6. WriterInv'
    BY <1>1, <1>3, <1>5, <1>8, <1>9, <1>12 DEF WriterInv
  <2>7. MainInv'
    BY <1>1, <1>3, <1>5, <1>12 DEF MainInv
  <2> QED BY <2>1, <2>2, <2>3, <2>5, <2>6, <2>7, <1>6, <1>7 DEF Inv
<1>13. CASE /\ ~err /\ size = "part" /\ main' = "close" /\ out' = <<0>> /\ Take(0, FALSE)
            /\ endMark' = hashed'
  <2>1. /\ TakenInv' /\ fpos' = 1
        /\ fpos' \in 0..(MaxChunks + 1) /\ prefix' \in -1..MaxChunks /\ hashed' \in Seq(Ranks)
        /\ content' \in [Ranks -> Contents \cup {NULL}]
    <3>1. Take(fpos, FALSE) /\ fpos < Total /\ file' = file /\ FALSE \in BOOLEAN
      BY <1>1, <1>3, <1>10, <1>13
    <3>2. /\ TakenInv' /\ fpos' = fpos + 1
          /\ fpos' \in 0..(MaxChunks + 1) /\ prefix' \in -1..MaxChunks /\ hashed' \in Seq(Ranks)
          /\ content' \in [Ranks -> Contents \cup {NULL}]
      BY <3>1, TakeEffect
    <3> QED BY <3>2, <1>3
  <2>2. out' \in Seq(Nat) /\ Len(out') = 1 /\ \A i \in 1..Len(out') : out'[i] = i - 1
    BY <1>13
  <2>3. TypeOK'
    BY <1>1, <1>8, <1>13, <2>1, <2>2 DEF TypeOK, RegisterTypeOK, T!TypeOK, W!TypeOK
  <2>4. Total' = 1
    BY <1>3, <1>5, <1>10, <1>13
  <2>5. ReadInv'
    BY <1>5, <1>13, <2>1, <2>4 DEF ReadInv
  <2>6. Unsent' = {}
    BY <1>5, <1>13 DEF Unsent
  <2>7. PlaceInv'
    BY <1>5, <1>13, <2>6 DEF PlaceInv, Given, Begun, Sent, AtWriter
  <2>8. WriterInv'
    BY <1>5, <1>8, <1>9, <1>13, <2>2 DEF WriterInv
  <2>9. MainInv'
    BY <1>1, <1>3, <1>5, <1>13, <2>1, <2>2 DEF MainInv
  <2> QED BY <2>1, <2>3, <2>5, <2>7, <2>8, <2>9, <1>6, <1>7 DEF Inv
<1>14. CASE /\ ~err /\ size \notin {"whole", "part"} /\ main' = "close" /\ out' = <<>>
            /\ endMark' = hashed' /\ UNCHANGED <<fpos, prefix, hashed, content>>
  <2>1. TakenInv'
    BY <1>1, <1>14, Frames
  <2>2. out' \in Seq(Nat) /\ Len(out') = 0
    BY <1>14
  <2>3. TypeOK'
    BY <1>1, <1>8, <1>14, <2>2 DEF TypeOK, RegisterTypeOK, T!TypeOK, W!TypeOK
  <2>4. fpos' = Total'
    BY <1>5, <1>10, <1>14
  <2>5. ReadInv'
    BY <1>5, <1>14, <2>4 DEF ReadInv
  <2>6. Unsent' = {}
    BY <1>5, <1>14 DEF Unsent
  <2>7. PlaceInv'
    BY <1>5, <1>14, <2>6 DEF PlaceInv, Given, Begun, Sent, AtWriter
  <2>8. WriterInv'
    BY <1>5, <1>8, <1>9, <1>14, <2>2 DEF WriterInv
  <2>9. MainInv'
    BY <1>1, <1>3, <1>5, <1>14, <2>2 DEF MainInv
  <2> QED BY <2>1, <2>3, <2>5, <2>7, <2>8, <2>9, <1>6, <1>7 DEF Inv
<1> QED BY <1>2, <1>11, <1>12, <1>13, <1>14

\* LZ4IO_compressLegacy_internal starts with the chain.
LEMMA OpenLegacyStep ==
    ASSUME Inv, OpenLegacy
    PROVE  Inv'
<1>1. /\ main = "open" /\ main' = "chain"
      /\ UNCHANGED <<tPending, tActive, wPending, wActive, wrVars, file, fpos, readErr, blockNb,
                     prefix, hashed, content, at, endMark, removed>>
      /\ UNCHANGED <<expectedRank, buffers, out, draining>> /\ UNCHANGED <<tVars, wVars>>
  BY DEF OpenLegacy, tVars, wVars, wrVars, readVars, tailVars
<1>2. /\ fpos = 0 /\ blockNb = 0 /\ T!AllCompleted /\ W!AllCompleted /\ Unsent = {}
      /\ endMark = NULL /\ ~removed
  BY <1>1, OpenFacts
<1>3. /\ Queued' = Queued /\ (ReadQueued' <=> ReadQueued) /\ Readers' = Readers /\ Held' = Held
      /\ Handed' = Handed /\ InHand' = InHand /\ Arrived' = Arrived /\ (QueueShape' <=> QueueShape)
      /\ Stored' = Stored /\ Block' = Block /\ (Compact' <=> Compact)
  BY <1>1, Same
<1>4. Readers = {} /\ ~ReadQueued /\ Unsent' = {}
  BY <1>1, <1>2, <1>3, Idle DEF Unsent
<1>5. TypeOK'
  BY <1>1 DEF Inv, TypeOK, RegisterTypeOK, T!TypeOK, W!TypeOK
<1>6. WorkerInv' /\ DistinctInv' /\ TakenInv'
  BY <1>1, Frames
<1>7. ChainInv' /\ ReadInv'
  BY <1>1, <1>2, <1>3, <1>4 DEF Inv, ChainInv, ReadInv
<1>8. PlaceInv'
  BY <1>1, <1>2, <1>3, <1>4 DEF Inv, PlaceInv, Given, Begun, Sent, AtWriter
<1>9. WriterInv' /\ MainInv'
  BY <1>1, <1>2, <1>3 DEF Inv, WriterInv, MainInv
<1> QED BY <1>5, <1>6, <1>7, <1>8, <1>9 DEF Inv

\* What TPool_submitJob does to the queue of tPool.
LEMMA SubmitReadEffect ==
    ASSUME TypeOK, QueueShape, ~ReadQueued, T!Submit(ReadJob)
    PROVE  /\ tActive' = tActive /\ T!TypeOK' /\ QueueShape' /\ ReadQueued' /\ Queued' = Queued
           /\ tPending' # <<>>
<1>1. /\ tActive' = tActive /\ tPending' = Append(tPending, ReadJob)
      /\ Len(tPending) < TQueueSize
  BY DEF T!Submit
<1>2. /\ tPending \in Seq(TJobs) /\ Len(tPending) \in Nat /\ ReadJob \in TJobs
      /\ tActive \in [TWorkers -> TJobs \cup {NoJob}] /\ TQueueSize \in Nat
  BY Types, JobFacts, PipelineAssumption
<1>3. /\ tPending' \in Seq(TJobs) /\ tPending' # <<>> /\ Len(tPending') = Len(tPending) + 1
      /\ \A i \in 1..Len(tPending) : tPending'[i] = tPending[i]
      /\ tPending'[Len(tPending) + 1] = ReadJob
  BY <1>1, <1>2, Appended, SMTT(60)
<1>4. /\ (Len(tPending) = 0 /\ tPending = <<>>) \/ (Len(tPending) = 1 /\ tPending # <<>>)
      /\ Len(tPending) = 1 => tPending[1] # ReadJob
  BY QueueCases
<1>5. T!TypeOK'
  BY <1>1, <1>2, <1>3 DEF T!TypeOK
<1>6. QueueShape' /\ ReadQueued'
  BY <1>2, <1>3, <1>4, SMTT(60) DEF QueueShape, ReadQueued
<1>7. CASE Len(tPending) = 0
  <2>1. tPending = <<>> /\ tPending'[1] = ReadJob
    BY <1>3, <1>4, <1>7, SMTT(60)
  <2>2. Queued = {} /\ Queued' = {}
    BY <2>1 DEF Queued
  <2> QED BY <2>2, <1>1, <1>5, <1>6
<1>8. CASE Len(tPending) = 1
  <2>1. tPending # <<>> /\ tPending[1] # ReadJob /\ tPending'[1] = tPending[1]
    BY <1>3, <1>4, <1>8, SMTT(60)
  <2>2. Queued' = Queued
    BY <2>1, <1>3 DEF Queued
  <2> QED BY <2>2, <1>1, <1>5, <1>6
<1> QED BY <1>4, <1>7, <1>8

LEMMA SubmitCompressEffect ==
    ASSUME TypeOK, tPending = <<>>, NEW k \in Ranks, T!Submit(CompressJob(k))
    PROVE  /\ tActive' = tActive /\ T!TypeOK' /\ QueueShape' /\ ~ReadQueued' /\ Queued' = {k}
           /\ Queued = {} /\ ~ReadQueued
<1>1. /\ tActive' = tActive /\ tPending' = Append(tPending, CompressJob(k))
      /\ Len(tPending) < TQueueSize
  BY DEF T!Submit
<1>2. /\ tPending \in Seq(TJobs) /\ CompressJob(k) \in TJobs /\ CompressJob(k) # ReadJob
      /\ CompressJob(k).blk = k
      /\ tActive \in [TWorkers -> TJobs \cup {NoJob}] /\ TQueueSize \in Nat
  BY Types, JobFacts, PipelineAssumption
<1>3. Len(tPending) = 0
  BY <1>2, EmptyQueue
<1>4. /\ tPending' \in Seq(TJobs) /\ tPending' # <<>> /\ Len(tPending') = 1
      /\ tPending'[1] = CompressJob(k)
  BY <1>1, <1>2, <1>3, Appended, SMTT(60)
<1>5. T!TypeOK'
  BY <1>1, <1>2, <1>3, <1>4, SMTT(60) DEF T!TypeOK
<1> QED BY <1>1, <1>2, <1>4, <1>5, SMTT(60) DEF QueueShape, ReadQueued, Queued

\* The first chunk is submitted.
LEMMA SubmitFirstStep ==
    ASSUME Inv, SubmitFirst
    PROVE  Inv'
<1>1. /\ main = "first" /\ main' = "chain" /\ T!Submit(CompressJob(0)) /\ blockNb' = 1
      /\ UNCHANGED <<wPending, wActive, wrVars, file, fpos, readErr, prefix, hashed, content,
                     at, endMark, removed>>
      /\ UNCHANGED <<expectedRank, buffers, out, draining>> /\ UNCHANGED wVars
  BY DEF SubmitFirst, wVars, wrVars, tailVars
<1>2. /\ TypeOK /\ T!AllCompleted /\ W!AllCompleted /\ endMark = NULL /\ ~removed /\ fpos = 1
      /\ Readers = {} /\ 0 \in Ranks
  BY <1>1, JobFacts, SMTT(60) DEF Inv, MainInv, ReadInv, ChainInv
<1>3. /\ tActive' = tActive /\ T!TypeOK' /\ QueueShape' /\ ~ReadQueued' /\ Queued' = {0}
      /\ Queued = {} /\ ~ReadQueued
  BY <1>1, <1>2, Idle, SubmitCompressEffect
<1>4. /\ Readers' = {} /\ Holders' = Holders /\ Held' = Held /\ Handed' = Handed
      /\ InHand' = InHand /\ Arrived' = Arrived /\ Block' = Block /\ Stored' = Stored
      /\ (Compact' <=> Compact)
  BY <1>1, <1>2, <1>3, Same
<1>5. Unsent = {0} /\ Unsent' = {}
  BY <1>1, <1>2, <1>4 DEF Unsent
<1>6. TypeOK'
  BY <1>1, <1>2, <1>3, JobFacts DEF TypeOK, RegisterTypeOK, W!TypeOK
<1>7. WorkerInv' /\ DistinctInv' /\ TakenInv'
  BY <1>1, <1>3, Frames
<1>8. ChainInv' /\ ReadInv'
  BY <1>1, <1>2, <1>3, <1>4 DEF ChainInv, ReadInv
<1>9. PlaceInv'
  BY <1>1, <1>2, <1>3, <1>4, <1>5 DEF Inv, PlaceInv, Given, Begun, Sent, AtWriter
<1>10. WriterInv' /\ MainInv'
  BY <1>1, <1>2, <1>4 DEF Inv, WriterInv, MainInv
<1> QED BY <1>6, <1>7, <1>8, <1>9, <1>10 DEF Inv

\* The chain is started, behind the first chunk.
LEMMA StartChainStep ==
    ASSUME Inv, StartChain
    PROVE  Inv'
<1>1. /\ main = "chain" /\ main' = "waitT" /\ T!Submit(ReadJob)
      /\ UNCHANGED <<wPending, wActive, wrVars, file, fpos, readErr, blockNb, prefix, hashed,
                     content, at, endMark, removed>>
      /\ UNCHANGED <<expectedRank, buffers, out, draining>> /\ UNCHANGED wVars
  BY DEF StartChain, wVars, wrVars, readVars, tailVars
<1>2. /\ TypeOK /\ QueueShape /\ ~ReadQueued /\ Readers = {} /\ blockNb = fpos
      /\ endMark = NULL /\ ~removed
  BY <1>1 DEF Inv, MainInv, ReadInv, ChainInv
<1>3. /\ tActive' = tActive /\ T!TypeOK' /\ QueueShape' /\ ReadQueued' /\ Queued' = Queued
  BY <1>1, <1>2, SubmitReadEffect
<1>4. /\ Readers' = {} /\ Holders' = Holders /\ Held' = Held /\ Handed' = Handed
      /\ InHand' = InHand /\ Arrived' = Arrived /\ Block' = Block /\ Stored' = Stored
      /\ (Compact' <=> Compact)
  BY <1>1, <1>2, <1>3, Same
<1>5. Unsent = {} /\ Unsent' = {}
  BY <1>1, <1>2, <1>4 DEF Unsent
<1>6. TypeOK'
  BY <1>1, <1>2, <1>3 DEF TypeOK, RegisterTypeOK, W!TypeOK
<1>7. WorkerInv' /\ DistinctInv' /\ TakenInv'
  BY <1>1, <1>3, Frames
<1>8. ChainInv' /\ ReadInv'
  BY <1>1, <1>2, <1>3, <1>4 DEF ChainInv, ReadInv
<1>9. PlaceInv'
  BY <1>1, <1>3, <1>4, <1>5 DEF Inv, PlaceInv, Given, Begun, Sent, AtWriter
<1>10. WriterInv' /\ MainInv'
  BY <1>1, <1>2, <1>4 DEF Inv, WriterInv, MainInv
<1> QED BY <1>6, <1>7, <1>8, <1>9, <1>10 DEF Inv

\* When both pools are idle every block taken is in the file.
LEMMA AllWritten ==
    ASSUME Inv, T!AllCompleted, W!AllCompleted, main \notin {"first", "close", "done"}
    PROVE  expectedRank = fpos /\ Stored = {} /\ Len(out) = fpos
<1>1. /\ Queued = {} /\ Held = {} /\ Handed = {} /\ InHand = {} /\ Readers = {} /\ Block = NoJob
  BY Idle
<1>2. Unsent = {}
  BY <1>1 DEF Unsent
<1>3. Arrived = 0..(fpos - 1)
  BY <1>1, <1>2 DEF Inv, PlaceInv, Given, Begun, Sent, AtWriter
<1>4. /\ fpos \in Nat /\ expectedRank \in Nat /\ Stored \subseteq Nat
      /\ expectedRank \notin Stored /\ Len(out) = expectedRank
      /\ \A n \in Stored : n >= expectedRank
  BY <1>1, Types, JobFacts DEF Inv, WriterInv
<1>5. expectedRank = fpos
  <2>1. expectedRank \notin Arrived
    BY <1>4 DEF Arrived
  <2>2. expectedRank >= fpos
    BY <2>1, <1>3, <1>4
  <2>3. expectedRank > fpos => fpos \in Arrived
    BY <1>4 DEF Arrived
  <2> QED BY <2>2, <2>3, <1>3, <1>4
<1>6. Stored = {}
  <2>1. \A n \in Stored : n \in 0..(fpos - 1)
    BY <1>3 DEF Arrived
  <2> QED BY <2>1, <1>4, <1>5
<1> QED BY <1>4, <1>5, <1>6

\* The two waits and the end.
LEMMA WaitStep ==
    ASSUME Inv, WaitT \/ WaitW \/ \E rm \in BOOLEAN : Close(rm)
    PROVE  Inv'
<1>1. /\ UNCHANGED <<tPending, tActive, wPending, wActive, wrVars, file, fpos, readErr, blockNb,
                     prefix, hashed, content, at>>
      /\ UNCHANGED <<expectedRank, buffers, out, draining>> /\ UNCHANGED <<tVars, wVars>>
  BY DEF WaitT, WaitW, Close, tVars, wVars, wrVars, readVars
<1>2. \/ /\ main = "waitT" /\ main' = "waitW" /\ T!AllCompleted /\ UNCHANGED <<endMark, removed>>
      \/ /\ main = "waitW" /\ main' = "close" /\ W!AllCompleted /\ UNCHANGED removed
         /\ endMark' \in {hashed, endMark}
      \/ /\ main = "close" /\ main' = "done" /\ removed' \in BOOLEAN /\ UNCHANGED endMark
  BY DEF WaitT, WaitW, Close, tailVars
<1>3. T!AllCompleted
  BY <1>2 DEF Inv, MainInv
<1>4. /\ Queued' = Queued /\ ~ReadQueued' /\ Readers' = {} /\ Held' = Held
      /\ Handed' = Handed /\ InHand' = InHand /\ Arrived' = Arrived /\ (QueueShape' <=> QueueShape)
      /\ Stored' = Stored /\ Block' = Block /\ (Compact' <=> Compact) /\ Total' = Total
      /\ T!AllCompleted' /\ (W!AllCompleted' <=> W!AllCompleted)
      /\ Readers = {} /\ ~ReadQueued
  BY <1>1, <1>3, Same, Idle
<1>5. Unsent = {} /\ Unsent' = {}
  BY <1>2, <1>4 DEF Unsent
<1>6. TypeOK'
  BY <1>1, <1>2 DEF Inv, TypeOK, RegisterTypeOK, T!TypeOK, W!TypeOK
<1>7. WorkerInv' /\ DistinctInv' /\ TakenInv'
  BY <1>1, Frames
<1>8. ChainInv' /\ ReadInv'
  BY <1>1, <1>2, <1>4 DEF Inv, ChainInv, ReadInv
<1>9. PlaceInv'
  BY <1>1, <1>2, <1>4, <1>5 DEF Inv, PlaceInv, Given, Begun, Sent, AtWriter
<1>10. WriterInv'
  BY <1>1, <1>2, <1>4 DEF Inv, WriterInv
<1>11. MainInv'
  <2>1. main = "waitW" /\ W!AllCompleted => Stored = {} /\ Len(out) = fpos
    BY <1>3, AllWritten
  <2> QED BY <1>1, <1>2, <1>3, <1>4, <2>1 DEF Inv, MainInv
<1> QED BY <1>6, <1>7, <1>8, <1>9, <1>10, <1>11 DEF Inv

-----------------------------------------------------------------------------
(* The read job                                                            *)

\* As long as a read job may submit it is the only one, and the main thread waits.
LEMMA ReaderFacts ==
    ASSUME Inv, NEW w \in TWorkers, tActive[w] = ReadJob, at[w] # "return"
    PROVE  /\ Readers = {w} /\ ~ReadQueued /\ main \in {"waitT", "exit"} /\ endMark = NULL /\ ~removed
           /\ at[w] \in {"begin", "submitC"} => tPending = <<>>
           /\ at[w] = "submitC" => fpos = blockNb + 1 /\ (content[blockNb].cut => readErr)
           /\ at[w] # "submitC" => blockNb = fpos
           /\ Unsent = IF at[w] = "submitC" THEN {fpos - 1} ELSE {}
<1>1. w \in Readers
  BY DEF Readers
<1>2. Readers = {w} /\ ~ReadQueued /\ main \notin {"open", "first", "chain"}
  BY <1>1 DEF Inv, ChainInv
<1>3. main \notin {"waitW", "close", "done"}
  BY <1>1, Idle DEF Inv, MainInv
<1>4. main \in {"open", "first", "chain", "waitT", "waitW", "close", "done", "exit"}
  BY DEF Inv, TypeOK
<1>5. main \in {"waitT", "exit"}
  BY <1>2, <1>3, <1>4
<1>6. endMark = NULL /\ ~removed
  BY <1>5 DEF Inv, MainInv
<1>7. at[w] \in {"begin", "submitC"} => tPending = <<>>
  BY <1>1 DEF Inv, ChainInv
<1>8. /\ at[w] = "submitC" => fpos = blockNb + 1 /\ (content[blockNb].cut => readErr)
      /\ at[w] # "submitC" => blockNb = fpos
  BY <1>1 DEF Inv, ReadInv
<1>9. Unsent = IF at[w] = "submitC" THEN {fpos - 1} ELSE {}
  BY <1>2, <1>5 DEF Unsent
<1> QED BY <1>2, <1>5, <1>6, <1>7, <1>8, <1>9

\* Its steps are of no concern to the compressors.
LEMMA ReaderMoves ==
    ASSUME Inv, NEW w \in TWorkers, tActive[w] = ReadJob, at[w] # "return",
           NEW x \in {"begin", "submitC", "submitR", "return"},
           at' = [at EXCEPT ![w] = x], UNCHANGED tActive, UNCHANGED wPending
    PROVE  /\ Holders' = Holders /\ Held' = Held /\ WorkerInv' /\ DistinctInv'
           /\ at'[w] = x /\ at' \in [TWorkers -> {"begin", "submitC", "submitR", "submitW", "return"}]
           /\ Readers' = IF x = "return" THEN {} ELSE {w}
<1>1. at \in [TWorkers -> {"begin", "submitC", "submitR", "submitW", "return"}]
  BY DEF Inv, TypeOK
<1>2. /\ at' \in [TWorkers -> {"begin", "submitC", "submitR", "submitW", "return"}]
      /\ at'[w] = x /\ \A v \in TWorkers : v # w => at'[v] = at[v]
  BY <1>1
<1>3. ~Compressing(w) /\ \A v : Compressing(v)' <=> Compressing(v)
  BY DEF Compressing
<1>4. Holders' = Holders
  BY <1>2, <1>3 DEF Holders
<1>5. Held' = Held /\ DistinctInv'
  BY <1>4 DEF Held, Inv, DistinctInv
<1>6. WorkerInv'
  BY <1>2, <1>3 DEF Inv, WorkerInv
<1>7. Readers' = IF x = "return" THEN {} ELSE {w}
  <2>1. Readers = {w}
    BY ReaderFacts
  <2> QED BY <2>1, <1>2 DEF Readers
<1> QED BY <1>2, <1>4, <1>5, <1>6, <1>7

\* LZ4IO_readAndProcess reads.
LEMMA ReadStep ==
    ASSUME Inv, NEW w \in TWorkers, NEW size, NEW err \in BOOLEAN, ReadAndProcess(w, size, err)
    PROVE  Inv'
<1>1. /\ tActive[w] = ReadJob /\ at[w] = "begin" /\ Fread(size, err) /\ readErr' = err
      /\ UNCHANGED <<tPending, tActive, wPending, wActive, wrVars, file, blockNb, main,
                     endMark, removed>>
      /\ UNCHANGED <<expectedRank, buffers, out, draining>> /\ UNCHANGED <<tVars, wVars>>
  BY DEF ReadAndProcess, tVars, wVars, wrVars, tailVars
<1>2. \/ /\ size = "none" /\ at' = [at EXCEPT ![w] = "return"]
         /\ UNCHANGED <<fpos, prefix, hashed, content>>
      \/ size # "none" /\ at' = [at EXCEPT ![w] = "submitC"] /\ Take(blockNb, err)
  BY DEF ReadAndProcess
<1>3. /\ Readers = {w} /\ ~ReadQueued /\ main \in {"waitT", "exit"} /\ endMark = NULL /\ ~removed
      /\ tPending = <<>> /\ blockNb = fpos /\ Unsent = {}
  BY <1>1, ReaderFacts
<1>4. /\ Queued' = Queued /\ ~ReadQueued' /\ (QueueShape' <=> QueueShape) /\ Handed' = Handed
      /\ Block' = Block /\ InHand' = InHand /\ Stored' = Stored /\ Arrived' = Arrived
      /\ (Compact' <=> Compact) /\ Total' = Total
  BY <1>1, <1>3, Same
<1>5. QueueShape /\ TypeOK
  BY DEF Inv, ChainInv
<1>6. /\ size # "none" => fpos < Total
      /\ size = "none" => err \/ fpos = Total
  BY <1>1, FreadFacts
<1>7. WriterInv'
  BY <1>1, <1>4 DEF Inv, WriterInv
<1>8. MainInv'
  BY <1>1, <1>3 DEF MainInv
<1>9. CASE /\ size = "none" /\ at' = [at EXCEPT ![w] = "return"]
           /\ UNCHANGED <<fpos, prefix, hashed, content>>
  <2>1. /\ Holders' = Holders /\ Held' = Held /\ WorkerInv' /\ DistinctInv' /\ Readers' = {}
        /\ at' \in [TWorkers -> {"begin", "submitC", "submitR", "submitW", "return"}]
    BY <1>1, <1>9, ReaderMoves
  <2>2. TypeOK'
    BY <1>1, <1>5, <1>9, <2>1 DEF TypeOK, RegisterTypeOK, T!TypeOK, W!TypeOK
  <2>3. TakenInv'
    BY <1>1, <1>9, Frames
  <2>4. ChainInv' /\ ReadInv'
    BY <1>1, <1>3, <1>4, <1>5, <1>6, <1>9, <2>1 DEF ChainInv, ReadInv
  <2>5. Unsent' = {}
    BY <1>1, <1>3, <2>1 DEF Unsent
  <2>6. PlaceInv'
    BY <1>1, <1>3, <1>4, <1>9, <2>1, <2>5, PlaceSame
  <2> QED BY <2>1, <2>2, <2>3, <2>4, <2>6, <1>7, <1>8 DEF Inv
<1>10. CASE size # "none" /\ at' = [at EXCEPT ![w] = "submitC"] /\ Take(blockNb, err)
  <2>1. /\ Holders' = Holders /\ Held' = Held /\ WorkerInv' /\ DistinctInv' /\ Readers' = {w}
        /\ at' \in [TWorkers -> {"begin", "submitC", "submitR", "submitW", "return"}]
        /\ at'[w] = "submitC"
    BY <1>1, <1>10, ReaderMoves
  <2>2. /\ TakenInv' /\ fpos' = fpos + 1 /\ fpos \in Ranks
        /\ fpos' \in 0..(MaxChunks + 1) /\ prefix' \in -1..MaxChunks /\ hashed' \in Seq(Ranks)
        /\ content' \in [Ranks -> Contents \cup {NULL}] /\ content'[fpos].cut = err
    BY <1>1, <1>3, <1>6, <1>10, TakeEffect
  <2>3. TypeOK'
    BY <1>1, <1>5, <2>1, <2>2 DEF TypeOK, RegisterTypeOK, T!TypeOK, W!TypeOK
  <2>4. ChainInv'
    BY <1>1, <1>3, <1>4, <1>5, <2>1 DEF ChainInv
  <2>5. ReadInv'
    <3>1. fpos' = blockNb' + 1 /\ content'[blockNb'].cut = err
      BY <1>1, <1>3, <2>2
    <3> QED BY <1>1, <1>3, <1>4, <2>1, <3>1 DEF ReadInv
  <2>6. Unsent' = {fpos}
    <3>1. fpos' - 1 = fpos
      BY <2>2, JobFacts, SMTT(60)
    <3> QED BY <1>1, <1>3, <2>1, <3>1 DEF Unsent
  <2>7. PlaceInv'
    <3>1. /\ fpos \in Nat /\ 0..(fpos' - 1) = 0..(fpos - 1) \cup {fpos} /\ fpos \notin 0..(fpos - 1)
      BY <2>2, JobFacts, SMTT(60)
    <3>2. PlaceInv /\ Given \subseteq 0..(fpos - 1) /\ Unsent = {}
      BY <1>3 DEF Inv, PlaceInv
    <3>3. Given' = Given /\ Begun' = Begun /\ Sent' = Sent /\ AtWriter' = AtWriter
      BY <1>4, <2>1 DEF Given, Begun, Sent, AtWriter
    <3>4. Queued' = Queued /\ Handed' = Handed /\ InHand' = InHand /\ Arrived' = Arrived /\ main' = main
      BY <1>1, <1>4
    <3> QED BY <2>1, <2>6, <3>1, <3>2, <3>3, <3>4 DEF PlaceInv
  <2> QED BY <2>1, <2>2, <2>3, <2>4, <2>5, <2>7, <1>7, <1>8 DEF Inv
<1> QED BY <1>2, <1>9, <1>10

\* It submits the chunk's compression, into an empty queue.
LEMMA SubmitCompressStep ==
    ASSUME Inv, NEW w \in TWorkers, SubmitCompress(w)
    PROVE  Inv'
<1>1. /\ tActive[w] = ReadJob /\ at[w] = "submitC" /\ T!Submit(CompressJob(blockNb))
      /\ at' = [at EXCEPT ![w] = IF ReadMore THEN "submitR" ELSE "return"]
      /\ blockNb' = IF ReadMore THEN blockNb + 1 ELSE blockNb
      /\ UNCHANGED <<wPending, wActive, wrVars, file, fpos, readErr, prefix, hashed, content, main,
                     endMark, removed>>
      /\ UNCHANGED <<expectedRank, buffers, out, draining>> /\ UNCHANGED wVars
  BY DEF SubmitCompress, wVars, wrVars, tailVars
<1>2. /\ Readers = {w} /\ ~ReadQueued /\ main \in {"waitT", "exit"} /\ endMark = NULL /\ ~removed
      /\ tPending = <<>> /\ fpos = blockNb + 1 /\ (content[blockNb].cut => readErr)
      /\ Unsent = {fpos - 1}
  BY <1>1, ReaderFacts
<1>3. /\ TypeOK /\ fpos \in 0..(MaxChunks + 1) /\ blockNb \in Nat /\ MaxChunks \in Nat
      /\ fpos \in Nat /\ file.full \in Nat /\ fpos <= Total
      /\ Total = IF file.tail THEN file.full + 1 ELSE file.full
  BY Types, JobFacts DEF Inv, TypeOK, TakenInv
<1>4. blockNb \in 0..MaxChunks /\ blockNb \in Ranks /\ fpos - 1 = blockNb
  BY <1>2, <1>3, JobFacts, SMTT(60)
<1>5. /\ tActive' = tActive /\ T!TypeOK' /\ QueueShape' /\ ~ReadQueued' /\ Queued' = {blockNb}
      /\ Queued = {}
  BY <1>1, <1>2, <1>3, <1>4, SubmitCompressEffect
<1>6. /\ Handed' = Handed /\ Block' = Block /\ InHand' = InHand /\ Stored' = Stored
      /\ Arrived' = Arrived /\ (Compact' <=> Compact) /\ Total' = Total
  BY <1>1, Same
<1>7. PICK x \in {"submitR", "return"} : at' = [at EXCEPT ![w] = x] /\ (x = "submitR" <=> ReadMore)
  BY <1>1
<1>8. /\ Holders' = Holders /\ Held' = Held /\ WorkerInv' /\ DistinctInv' /\ at'[w] = x
      /\ at' \in [TWorkers -> {"begin", "submitC", "submitR", "submitW", "return"}]
      /\ Readers' = IF x = "return" THEN {} ELSE {w}
  BY <1>1, <1>5, <1>7, ReaderMoves
<1>9. blockNb' \in 0..(MaxChunks + 1)
  BY <1>1, <1>3, <1>4
<1>10. TypeOK'
  BY <1>1, <1>3, <1>5, <1>8, <1>9 DEF TypeOK, RegisterTypeOK, W!TypeOK
<1>11. TakenInv'
  BY <1>1, Frames
<1>12. ChainInv'
  BY <1>1, <1>2, <1>5, <1>7, <1>8 DEF ChainInv
<1>13. ReadInv'
  <2>1. CASE x = "submitR"
    BY <2>1, <1>1, <1>2, <1>5, <1>7, <1>8 DEF ReadInv
  <2>2. CASE x = "return"
    <3>1. content[blockNb].cut \/ ~(content[blockNb].chunk < file.full)
      BY <2>2, <1>7 DEF ReadMore
    <3>2. content[blockNb].chunk = blockNb
      BY <1>3, <1>4, SMTT(60) DEF Inv, TakenInv
    <3>3. readErr \/ fpos = Total
      BY <3>1, <3>2, <1>2, <1>3
    <3> QED BY <3>3, <2>2, <1>1, <1>2, <1>5, <1>6, <1>8 DEF ReadInv
  <2> QED BY <2>1, <2>2, <1>7
<1>14. Unsent' = {}
  BY <1>1, <1>2, <1>7, <1>8 DEF Unsent
<1>15. PlaceInv'
  BY <1>1, <1>2, <1>4, <1>5, <1>6, <1>8, <1>14 DEF Inv, PlaceInv, Given, Begun, Sent, AtWriter
<1>16. WriterInv'
  BY <1>1, <1>6 DEF Inv, WriterInv
<1>17. MainInv'
  BY <1>1, <1>2 DEF MainInv
<1> QED BY <1>8, <1>10, <1>11, <1>12, <1>13, <1>15, <1>16, <1>17 DEF Inv

\* It submits itself, behind at most that.
LEMMA SubmitReadStep ==
    ASSUME Inv, NEW w \in TWorkers, SubmitRead(w)
    PROVE  Inv'
<1>1. /\ tActive[w] = ReadJob /\ at[w] = "submitR" /\ T!Submit(ReadJob)
      /\ at' = [at EXCEPT ![w] = "return"]
      /\ UNCHANGED <<wPending, wActive, wrVars, file, fpos, readErr, blockNb, prefix, hashed,
                     content, main, endMark, removed>>
      /\ UNCHANGED <<expectedRank, buffers, out, draining>> /\ UNCHANGED wVars
  BY DEF SubmitRead, wVars, wrVars, readVars, tailVars
<1>2. /\ Readers = {w} /\ ~ReadQueued /\ main \in {"waitT", "exit"} /\ endMark = NULL /\ ~removed
      /\ blockNb = fpos /\ Unsent = {}
  BY <1>1, ReaderFacts
<1>3. TypeOK /\ QueueShape
  BY DEF Inv, ChainInv
<1>4. tActive' = tActive /\ T!TypeOK' /\ QueueShape' /\ ReadQueued' /\ Queued' = Queued
  BY <1>1, <1>2, <1>3, SubmitReadEffect
<1>5. /\ Handed' = Handed /\ Block' = Block /\ InHand' = InHand /\ Stored' = Stored
      /\ Arrived' = Arrived /\ (Compact' <=> Compact) /\ Total' = Total
  BY <1>1, Same
<1>6. /\ Holders' = Holders /\ Held' = Held /\ WorkerInv' /\ DistinctInv' /\ Readers' = {}
      /\ at' \in [TWorkers -> {"begin", "submitC", "submitR", "submitW", "return"}]
  BY <1>1, <1>4, ReaderMoves
<1>7. TypeOK'
  BY <1>1, <1>3, <1>4, <1>6 DEF TypeOK, RegisterTypeOK, W!TypeOK
<1>8. TakenInv'
  BY <1>1, Frames
<1>9. ChainInv' /\ ReadInv'
  BY <1>1, <1>2, <1>4, <1>6 DEF ChainInv, ReadInv
<1>10. Unsent' = {}
  BY <1>1, <1>2, <1>6 DEF Unsent
<1>11. PlaceInv'
  BY <1>1, <1>2, <1>4, <1>5, <1>6, <1>10 DEF Inv, PlaceInv, Given, Begun, Sent, AtWriter
<1>12. WriterInv'
  BY <1>1, <1>5 DEF Inv, WriterInv
<1>13. MainInv'
  BY <1>1, <1>2 DEF MainInv
<1> QED BY <1>6, <1>7, <1>8, <1>9, <1>11, <1>12, <1>13 DEF Inv

-----------------------------------------------------------------------------
(* Jobs start and end; the compression job                                 *)

\* What taking the oldest job does to the queue of tPool.
LEMMA StartEffect ==
    ASSUME TypeOK, QueueShape, NEW w \in TWorkers, T!Start(w)
    PROVE  /\ tActive[w] = NoJob /\ T!TypeOK' /\ QueueShape' /\ tPending # <<>>
           /\ Queued' = {}
           /\ \/ /\ tActive' = [tActive EXCEPT ![w] = ReadJob] /\ tPending' = <<>>
                 /\ ReadQueued /\ ~ReadQueued' /\ Queued = {}
              \/ \E k \in Ranks : /\ tActive' = [tActive EXCEPT ![w] = CompressJob(k)]
                                  /\ Queued = {k} /\ (ReadQueued' <=> ReadQueued)
<1>1. /\ tActive[w] = NoJob /\ tPending # <<>> /\ tPending' = Tail(tPending)
      /\ tActive' = [tActive EXCEPT ![w] = Head(tPending)]
  BY DEF T!Start
<1>2. /\ tPending \in Seq(TJobs) /\ Len(tPending) \in Nat
      /\ tActive \in [TWorkers -> TJobs \cup {NoJob}] /\ TQueueSize \in Nat
      /\ Len(tPending) <= TQueueSize
  BY Types, PipelineAssumption DEF TypeOK, T!TypeOK
<1>3. /\ Head(tPending) = tPending[1] /\ tPending[1] \in TJobs /\ tPending' \in Seq(TJobs)
      /\ Len(tPending') = Len(tPending) - 1
      /\ \A i \in 1..(Len(tPending) - 1) : tPending'[i] = tPending[i + 1]
  BY <1>1, <1>2, HeadTaken
<1>4. /\ Len(tPending) = 1 \/ Len(tPending) = 2
      /\ tPending' = <<>> <=> Len(tPending') = 0
  BY <1>1, <1>3, QueueCases, EmptyQueue
<1>5. T!TypeOK'
  BY <1>1, <1>2, <1>3 DEF T!TypeOK
<1>6. QueueShape' /\ Queued' = {}
  BY <1>3, <1>4, SMTT(60) DEF QueueShape, Queued
<1>7. CASE tPending[1] = ReadJob
  <2>1. Len(tPending) = 1 /\ tPending' = <<>>
    BY <1>3, <1>4, <1>7, SMTT(60) DEF QueueShape
  <2> QED BY <2>1, <1>1, <1>3, <1>5, <1>6, <1>7 DEF ReadQueued, Queued
<1>8. CASE tPending[1] # ReadJob
  <2>1. /\ tPending[1].blk \in Ranks /\ tPending[1] = CompressJob(tPending[1].blk)
    BY <1>3, <1>8, JobFacts
  <2>2. Queued = {tPending[1].blk}
    BY <1>1, <1>8 DEF Queued
  <2>3. ReadQueued' <=> ReadQueued
    <3>1. CASE Len(tPending) = 1
      BY <3>1, <1>3, <1>4, <1>8 DEF ReadQueued
    <3>2. CASE Len(tPending) = 2
      <4>1. Len(tPending') = 1 /\ 1 \in 1..(Len(tPending) - 1) /\ tPending[2] = ReadJob /\ ReadQueued
        BY <3>2, <1>3, QueueCases, SMTT(60)
      <4>2. tPending'[1] = tPending[1 + 1] /\ tPending' # <<>>
        BY <4>1, <1>3, <1>4
      <4> QED BY <4>1, <4>2 DEF ReadQueued
    <3> QED BY <3>1, <3>2, <1>4
  <2>4. tActive' = [tActive EXCEPT ![w] = CompressJob(tPending[1].blk)]
    BY <2>1, <1>1, <1>3
  <2> QED BY <2>1, <2>2, <2>3, <2>4, <1>1, <1>5, <1>6
<1> QED BY <1>7, <1>8

\* A thread of tPool takes a job: it becomes the reader, or holds the block that was queued.
LEMMA StartStep ==
    ASSUME Inv, NEW w \in TWorkers, TStart(w)
    PROVE  Inv'
<1>1. /\ T!Start(w) /\ at' = [at EXCEPT ![w] = "begin"]
      /\ UNCHANGED <<wPending, wActive, wrVars, file, fpos, readErr, blockNb, prefix, hashed,
                     content, main, endMark, removed>>
      /\ UNCHANGED <<expectedRank, buffers, out, draining>> /\ UNCHANGED wVars
  BY DEF TStart, wVars, wrVars, readVars, tailVars
<1>2. TypeOK /\ QueueShape
  BY DEF Inv, ChainInv
<1>3. /\ tActive[w] = NoJob /\ T!TypeOK' /\ QueueShape' /\ tPending # <<>> /\ Queued' = {}
      /\ \/ /\ tActive' = [tActive EXCEPT ![w] = ReadJob] /\ tPending' = <<>>
            /\ ReadQueued /\ ~ReadQueued' /\ Queued = {}
         \/ \E k \in Ranks : /\ tActive' = [tActive EXCEPT ![w] = CompressJob(k)]
                             /\ Queued = {k} /\ (ReadQueued' <=> ReadQueued)
  BY <1>1, <1>2, StartEffect
<1>4. /\ tActive \in [TWorkers -> TJobs \cup {NoJob}] /\ fpos \in Nat
      /\ at \in [TWorkers -> {"begin", "submitC", "submitR", "submitW", "return"}]
  BY <1>2, Types DEF TypeOK
<1>5. /\ at' \in [TWorkers -> {"begin", "submitC", "submitR", "submitW", "return"}]
      /\ at'[w] = "begin" /\ \A v \in TWorkers : v # w => at'[v] = at[v]
  BY <1>1, <1>4
<1>6. w \notin Readers /\ w \notin Holders
  BY <1>3, JobFacts DEF Readers, Holders, Compressing
<1>7. /\ Handed' = Handed /\ Block' = Block /\ InHand' = InHand /\ Stored' = Stored
      /\ Arrived' = Arrived /\ (Compact' <=> Compact) /\ Total' = Total
      /\ (W!AllCompleted' <=> W!AllCompleted)
  BY <1>1, Same
<1>8. main \notin {"open", "first", "waitW", "close", "done"}
  BY <1>3, Idle DEF Inv, MainInv
<1>9. TypeOK'
  BY <1>1, <1>2, <1>3, <1>5 DEF TypeOK, RegisterTypeOK, W!TypeOK
<1>10. TakenInv'
  BY <1>1, Frames
<1>11. WriterInv'
  BY <1>1, <1>7 DEF Inv, WriterInv
<1>12. MainInv'
  BY <1>1, <1>7, <1>8 DEF Inv, MainInv
<1>13. CASE /\ tActive' = [tActive EXCEPT ![w] = ReadJob] /\ tPending' = <<>>
            /\ ReadQueued /\ ~ReadQueued' /\ Queued = {}
  <2>1. tActive'[w] = ReadJob /\ \A v \in TWorkers : v # w => tActive'[v] = tActive[v]
    BY <1>4, <1>13
  <2>2. Readers = {} /\ main # "chain" /\ blockNb = fpos
    BY <1>13 DEF Inv, ChainInv, ReadInv
  <2>3. Readers' = {w}
    BY <2>1, <2>2, <1>5 DEF Readers
  <2>4. Holders' = Holders
    BY <2>1, <1>5, <1>6 DEF Holders, Compressing
  <2>5. \A v \in Holders : v \in TWorkers /\ v # w /\ tActive'[v] = tActive[v]
    BY <2>1, <1>6 DEF Holders
  <2>6. Held' = Held /\ DistinctInv'
    BY <2>4, <2>5, <1>1, SMTT(60) DEF Held, Inv, DistinctInv
  <2>7. WorkerInv'
    BY <2>1, <1>5, JobFacts DEF Inv, WorkerInv, Compressing
  <2>8. ChainInv' /\ ReadInv'
    BY <2>2, <2>3, <1>1, <1>3, <1>5, <1>8, <1>13 DEF ChainInv, ReadInv
  <2>9. Unsent = {} /\ Unsent' = {}
    BY <2>2, <2>3, <1>1, <1>5, <1>8 DEF Unsent
  <2>10. PlaceInv'
    BY <2>6, <2>9, <1>1, <1>3, <1>7, <1>13 DEF Inv, PlaceInv, Given, Begun, Sent, AtWriter
  <2> QED BY <2>6, <2>7, <2>8, <2>10, <1>9, <1>10, <1>11, <1>12 DEF Inv
<1>14. ASSUME NEW k \in Ranks, tActive' = [tActive EXCEPT ![w] = CompressJob(k)],
              Queued = {k}, ReadQueued' <=> ReadQueued
       PROVE  Inv'
  <2>1. /\ tActive'[w] = CompressJob(k) /\ \A v \in TWorkers : v # w => tActive'[v] = tActive[v]
        /\ CompressJob(k) # ReadJob /\ CompressJob(k) # NoJob /\ CompressJob(k).blk = k
    BY <1>4, <1>14, JobFacts
  <2>2. Readers' = Readers /\ \A v \in Readers : v # w /\ at'[v] = at[v]
    BY <2>1, <1>5, <1>6 DEF Readers
  <2>3. Holders' = Holders \cup {w}
    BY <2>1, <1>5, <1>6 DEF Holders, Compressing
  <2>4. \A v \in Holders : v # w /\ tActive'[v] = tActive[v]
    BY <2>1, <1>6 DEF Holders
  <2>5. Held' = Held \cup {k}
    BY <2>1, <2>3, <2>4 DEF Held
  <2>6. k \notin Held
    BY <1>14 DEF Inv, PlaceInv, Begun
  <2>7. DistinctInv'
    BY <2>1, <2>3, <2>4, <2>6, <1>1, SMTT(60) DEF Held, Inv, DistinctInv
  <2>8. WorkerInv'
    BY <2>1, <1>5 DEF Inv, WorkerInv, Compressing
  <2>9. ChainInv' /\ ReadInv'
    BY <2>2, <1>1, <1>3, <1>7, <1>14 DEF Inv, ChainInv, ReadInv
  <2>10. Unsent' = Unsent
    BY <2>2, <1>1 DEF Unsent
  <2>11. PlaceInv'
    BY <2>5, <2>10, <1>1, <1>3, <1>7, <1>14 DEF Inv, PlaceInv, Given, Begun, Sent, AtWriter
  <2> QED BY <2>7, <2>8, <2>9, <2>11, <1>9, <1>10, <1>11, <1>12 DEF Inv
<1> QED BY <1>3, <1>13, <1>14

\* LZ4IO_compressChunk compresses.
LEMMA CompressStep ==
    ASSUME Inv, NEW w \in TWorkers, CompressChunk(w)
    PROVE  Inv'
<1>1. /\ tActive[w] # NoJob /\ tActive[w].op = "compress" /\ at[w] = "begin"
      /\ at' = [at EXCEPT ![w] = "submitW"]
      /\ UNCHANGED <<tPending, tActive, wPending, wActive, wrVars, file, fpos, readErr, blockNb,
                     prefix, hashed, content, main, endMark, removed>>
      /\ UNCHANGED <<expectedRank, buffers, out, draining>> /\ UNCHANGED <<tVars, wVars>>
  BY DEF CompressChunk, tVars, wVars, wrVars, readVars, tailVars
<1>2. /\ at \in [TWorkers -> {"begin", "submitC", "submitR", "submitW", "return"}]
      /\ Compressing(w)
  BY <1>1, JobFacts DEF Inv, TypeOK, Compressing
<1>3. /\ at' \in [TWorkers -> {"begin", "submitC", "submitR", "submitW", "return"}]
      /\ at'[w] = "submitW" /\ \A v \in TWorkers : v # w => at'[v] = at[v]
  BY <1>1, <1>2
<1>4. \A v : Compressing(v)' <=> Compressing(v)
  BY <1>1 DEF Compressing
<1>5. Readers' = Readers /\ w \notin Readers /\ \A v \in Readers : at'[v] = at[v]
  BY <1>1, <1>2, <1>3 DEF Readers, Compressing
<1>6. Holders' = Holders
  BY <1>1, <1>2, <1>3, <1>4 DEF Holders
<1>7. Held' = Held /\ DistinctInv'
  BY <1>1, <1>6 DEF Held, Inv, DistinctInv
<1>8. WorkerInv'
  BY <1>2, <1>3, <1>4 DEF Inv, WorkerInv
<1>9. /\ Queued' = Queued /\ (ReadQueued' <=> ReadQueued) /\ (QueueShape' <=> QueueShape)
      /\ Handed' = Handed /\ InHand' = InHand /\ Arrived' = Arrived /\ Total' = Total
  BY <1>1, Same
<1>10. ChainInv' /\ ReadInv'
  BY <1>1, <1>5, <1>9 DEF Inv, ChainInv, ReadInv
<1>11. Unsent' = Unsent
  BY <1>1, <1>5 DEF Unsent
<1>12. PlaceInv'
  BY <1>1, <1>7, <1>9, <1>11, PlaceSame
<1>13. TypeOK'
  BY <1>1, <1>3 DEF Inv, TypeOK, RegisterTypeOK, T!TypeOK, W!TypeOK
<1>14. TakenInv' /\ WriterInv' /\ MainInv'
  BY <1>1, Frames
<1> QED BY <1>7, <1>8, <1>10, <1>12, <1>13, <1>14 DEF Inv

\* It hands the block to the writer.
LEMMA SubmitWriteStep ==
    ASSUME Inv, NEW w \in TWorkers, SubmitWrite(w)
    PROVE  Inv'
<1> DEFINE k == tActive[w].blk
<1>1. /\ at[w] = "submitW" /\ Len(wPending) < WQueueSize /\ wPending' = Append(wPending, k)
      /\ wActive' = wActive /\ at' = [at EXCEPT ![w] = "return"]
      /\ UNCHANGED <<tPending, tActive, wrVars, file, fpos, readErr, blockNb,
                     prefix, hashed, content, main, endMark, removed>>
      /\ UNCHANGED <<expectedRank, buffers, out, draining>> /\ UNCHANGED tVars
  BY DEF SubmitWrite, W!Submit, tVars, wrVars, readVars, tailVars
<1>2. /\ at \in [TWorkers -> {"begin", "submitC", "submitR", "submitW", "return"}]
      /\ tActive \in [TWorkers -> TJobs \cup {NoJob}] /\ wPending \in Seq(Ranks)
      /\ Len(wPending) \in Nat /\ wActive \in [{writer} -> Ranks \cup {NoJob}]
      /\ WQueueSize \in Nat /\ Compressing(w)
  BY <1>1, Types, PipelineAssumption DEF Inv, TypeOK, WorkerInv
<1>3. k \in Ranks
  BY <1>2, JobFacts DEF Compressing
<1> HIDE DEF k
<1>4. /\ at' \in [TWorkers -> {"begin", "submitC", "submitR", "submitW", "return"}]
      /\ at'[w] = "return" /\ \A v \in TWorkers : v # w => at'[v] = at[v]
  BY <1>1, <1>2
<1>5. \A v : Compressing(v)' <=> Compressing(v)
  BY <1>1 DEF Compressing
<1>6. Readers' = Readers /\ w \notin Readers /\ \A v \in Readers : at'[v] = at[v]
  BY <1>1, <1>2, <1>4 DEF Readers, Compressing
<1>7. w \in Holders /\ Holders' = Holders \ {w}
  BY <1>1, <1>2, <1>4, <1>5 DEF Holders
<1>8. \A v, u \in Holders : tActive[v].blk = tActive[u].blk => v = u
  BY DEF Inv, DistinctInv
<1>9. k \in Held /\ Held' = Held \ {k}
  BY <1>1, <1>7, <1>8 DEF Held, k
<1>10. /\ wPending' \in Seq(Ranks) /\ Len(wPending') = Len(wPending) + 1 /\ wPending' # <<>>
       /\ \A i \in 1..Len(wPending) : wPending'[i] = wPending[i]
       /\ wPending'[Len(wPending) + 1] = k
  BY <1>1, <1>2, <1>3, Appended, SMTT(60)
<1>11. Handed' = Handed \cup {k}
  <2>1. \A i \in 1..Len(wPending') : i \in 1..Len(wPending) \/ i = Len(wPending) + 1
    BY <1>2, <1>10, SMTT(60)
  <2>2. Len(wPending) + 1 \in 1..Len(wPending') /\ 1..Len(wPending) \subseteq 1..Len(wPending')
    BY <1>2, <1>10, SMTT(60)
  <2> QED BY <2>1, <2>2, <1>10 DEF Handed
<1>12. k \notin Handed
  BY <1>9 DEF Inv, PlaceInv, Sent
<1>13. DistinctInv'
  <2>1. \A v, u \in Holders' : tActive'[v].blk = tActive'[u].blk => v = u
    BY <1>1, <1>7, <1>8
  <2>2. \A i, j \in 1..Len(wPending') : wPending'[i] = wPending'[j] => i = j
    <3>1. \A i, j \in 1..Len(wPending) : wPending[i] = wPending[j] => i = j
      BY DEF Inv, DistinctInv
    <3>2. \A i \in 1..Len(wPending) : wPending[i] # k
      BY <1>12 DEF Handed
    <3> QED BY <3>1, <3>2, <1>2, <1>10, SMTT(60)
  <2> QED BY <2>1, <2>2 DEF DistinctInv
<1>14. WorkerInv'
  BY <1>2, <1>4, <1>5 DEF Inv, WorkerInv
<1>15. /\ Queued' = Queued /\ (ReadQueued' <=> ReadQueued) /\ (QueueShape' <=> QueueShape)
       /\ InHand' = InHand /\ Arrived' = Arrived /\ Total' = Total /\ Block' = Block
       /\ (T!AllCompleted' <=> T!AllCompleted)
  BY <1>1, Same
<1>16. ChainInv' /\ ReadInv'
  BY <1>1, <1>6, <1>15 DEF Inv, ChainInv, ReadInv
<1>17. Unsent' = Unsent
  BY <1>1, <1>6 DEF Unsent
<1>18. PlaceInv'
  BY <1>1, <1>9, <1>11, <1>15, <1>17, SMTT(60) DEF Inv, PlaceInv, Given, Begun, Sent, AtWriter
<1>19. TypeOK'
  <2>1. W!TypeOK'
    BY <1>1, <1>2, <1>10, SMTT(60) DEF W!TypeOK
  <2> QED BY <2>1, <1>1, <1>4 DEF Inv, TypeOK, RegisterTypeOK, T!TypeOK
<1>20. TakenInv' /\ WriterInv'
  BY <1>1, Frames
<1>21. MainInv'
  <2>1. main \notin {"open", "first", "close", "done"}
    BY <1>7, Idle DEF Inv, MainInv
  <2> QED BY <2>1, <1>1, <1>15 DEF Inv, MainInv
<1> QED BY <1>13, <1>14, <1>16, <1>18, <1>19, <1>20, <1>21 DEF Inv

\* The job returns; it has neither a block nor the file.
LEMMA FinishStep ==
    ASSUME Inv, NEW w \in TWorkers, TFinish(w)
    PROVE  Inv'
<1>1. /\ at[w] = "return" /\ tActive[w] # NoJob /\ tActive' = [tActive EXCEPT ![w] = NoJob]
      /\ UNCHANGED <<tPending, wPending, wActive, wrVars, file, fpos, readErr, blockNb,
                     prefix, hashed, content, at, main, endMark, removed>>
      /\ UNCHANGED <<expectedRank, buffers, out, draining>> /\ UNCHANGED wVars
  BY DEF TFinish, T!Finish, wVars, wrVars, readVars, tailVars
<1>2. tActive \in [TWorkers -> TJobs \cup {NoJob}]
  BY Types DEF Inv
<1>3. /\ tActive' \in [TWorkers -> TJobs \cup {NoJob}] /\ tActive'[w] = NoJob
      /\ \A v \in TWorkers : v # w => tActive'[v] = tActive[v]
  BY <1>1, <1>2
<1>4. Readers' = Readers
  BY <1>1, <1>3, JobFacts DEF Readers
<1>5. Holders' = Holders /\ \A v \in Holders : tActive'[v] = tActive[v]
  BY <1>1, <1>3 DEF Holders, Compressing
<1>6. Held' = Held /\ DistinctInv'
  <2>1. Held' = Held
    BY <1>5 DEF Held
  <2>2. DistinctInv /\ wPending' = wPending
    BY <1>1 DEF Inv
  <2> QED BY <2>1, <2>2, <1>5, SMTT(60) DEF DistinctInv
<1>7. WorkerInv'
  BY <1>1, <1>3 DEF Inv, WorkerInv, Compressing
<1>8. /\ Queued' = Queued /\ (ReadQueued' <=> ReadQueued) /\ (QueueShape' <=> QueueShape)
      /\ Handed' = Handed /\ InHand' = InHand /\ Arrived' = Arrived /\ Total' = Total
      /\ Stored' = Stored /\ (W!AllCompleted' <=> W!AllCompleted)
  BY <1>1, Same
<1>9. ChainInv' /\ ReadInv'
  BY <1>1, <1>4, <1>8 DEF Inv, ChainInv, ReadInv
<1>10. Unsent' = Unsent
  BY <1>1, <1>4 DEF Unsent
<1>11. PlaceInv'
  BY <1>1, <1>6, <1>8, <1>10, PlaceSame
<1>12. TypeOK'
  <2>1. T!TypeOK'
    BY <1>1, <1>3 DEF Inv, TypeOK, T!TypeOK
  <2> QED BY <2>1, <1>1 DEF Inv, TypeOK, RegisterTypeOK, W!TypeOK
<1>13. TakenInv' /\ WriterInv'
  BY <1>1, Frames
<1>14. MainInv'
  <2>1. main \notin {"open", "first", "waitW", "close", "done"}
    BY <1>1, Idle DEF Inv, MainInv
  <2> QED BY <2>1, <1>1, <1>8 DEF Inv, MainInv
<1> QED BY <1>6, <1>7, <1>9, <1>11, <1>12, <1>13, <1>14 DEF Inv

-----------------------------------------------------------------------------
(* The writer                                                              *)

\* Its steps are of no concern to tPool and the main thread.
LEMMA WriterFrame ==
    ASSUME Inv, UNCHANGED otherVars
    PROVE  /\ WorkerInv' /\ ChainInv' /\ TakenInv' /\ ReadInv'
           /\ Queued' = Queued /\ Held' = Held /\ Holders' = Holders /\ Unsent' = Unsent
           /\ UNCHANGED <<tPending, tActive, file, fpos, readErr, blockNb, prefix, hashed, content,
                          at, main, endMark, removed>>
           /\ (T!AllCompleted' <=> T!AllCompleted)
<1>1. /\ UNCHANGED <<tPending, tActive, file, fpos, readErr, blockNb, prefix, hashed, content,
                     at, main, endMark, removed>>
      /\ UNCHANGED tVars
  BY DEF otherVars, tVars, readVars, tailVars
<1>2. WorkerInv' /\ ChainInv' /\ TakenInv' /\ ReadInv'
  BY <1>1, Frames
<1>3. /\ Queued' = Queued /\ Held' = Held /\ Holders' = Holders /\ Unsent' = Unsent
      /\ (T!AllCompleted' <=> T!AllCompleted)
  BY <1>1, Same
<1> QED BY <1>1, <1>2, <1>3

\* While it has a job the main thread is not done, and the file is what it has written.
LEMMA WriterBusy ==
    ASSUME Inv, Block # NoJob \/ wPending # <<>>
    PROVE  main \notin {"open", "first", "close", "done"} /\ Len(out) = expectedRank
<1>1. main \notin {"open", "first", "close", "done"}
  BY Idle DEF Inv, MainInv
<1> QED BY <1>1 DEF Inv, WriterInv

\* It takes the oldest of the blocks handed to it.
LEMMA StartWriteStep ==
    ASSUME Inv, W!Start(writer), UNCHANGED <<wrVars, otherVars>>
    PROVE  Inv'
<1>1. /\ WorkerInv' /\ ChainInv' /\ TakenInv' /\ ReadInv'
      /\ Queued' = Queued /\ Held' = Held /\ Holders' = Holders /\ Unsent' = Unsent
      /\ UNCHANGED <<tPending, tActive, file, fpos, readErr, blockNb, prefix, hashed, content,
                     at, main, endMark, removed>>
      /\ (T!AllCompleted' <=> T!AllCompleted)
  BY WriterFrame
<1>2. /\ Block = NoJob /\ wPending # <<>> /\ wPending' = Tail(wPending)
      /\ wActive' = [wActive EXCEPT ![writer] = Head(wPending)]
      /\ UNCHANGED <<expectedRank, buffers, out, draining>>
  BY DEF W!Start, Block, wrVars
<1>3. /\ TypeOK /\ wPending \in Seq(Ranks) /\ Len(wPending) \in Nat
      /\ wActive \in [{writer} -> Ranks \cup {NoJob}] /\ WQueueSize \in Nat
      /\ Len(wPending) <= WQueueSize
  BY Types, PipelineAssumption DEF Inv, TypeOK, W!TypeOK
<1>4. /\ Head(wPending) = wPending[1] /\ wPending[1] \in Ranks /\ wPending' \in Seq(Ranks)
      /\ Len(wPending') = Len(wPending) - 1 /\ Len(wPending) > 0
      /\ \A i \in 1..(Len(wPending) - 1) : wPending'[i] = wPending[i + 1]
  BY <1>2, <1>3, HeadTaken, EmptyQueue
<1>5. wActive' \in [{writer} -> Ranks \cup {NoJob}] /\ Block' = wPending[1] /\ Block' # NoJob
  BY <1>2, <1>3, <1>4, JobFacts DEF Block
<1>6. ~draining /\ InHand = {} /\ InHand' = {wPending[1]}
  BY <1>2, <1>5 DEF Inv, WriterInv, InHand
<1>7. \A i, j \in 1..Len(wPending) : wPending[i] = wPending[j] => i = j
  BY DEF Inv, DistinctInv
<1>8. DistinctInv'
  <2>1. \A i, j \in 1..Len(wPending') : wPending'[i] = wPending'[j] => i = j
    BY <1>3, <1>4, <1>7, SMTT(60)
  <2>2. \A v, u \in Holders' : tActive'[v].blk = tActive'[u].blk => v = u
    BY <1>1 DEF Inv, DistinctInv
  <2> QED BY <2>1, <2>2 DEF DistinctInv
<1>9. wPending[1] \notin Handed' /\ Handed = Handed' \cup {wPending[1]}
  <2>1. \A i \in 1..Len(wPending') : /\ i + 1 \in 1..Len(wPending) /\ i + 1 # 1
                                     /\ wPending'[i] = wPending[i + 1]
    BY <1>3, <1>4
  <2>2. 1 \in 1..Len(wPending)
    BY <1>3, <1>4, SMTT(60)
  <2>3. \A i \in 1..Len(wPending) : i = 1 \/ (i - 1 \in 1..Len(wPending') /\ wPending'[i - 1] = wPending[i])
    BY <1>3, <1>4, SMTT(60)
  <2>4. Handed' \subseteq Handed /\ wPending[1] \notin Handed'
    <3>1. Handed' = {wPending'[i] : i \in 1..Len(wPending')}
      BY DEF Handed
    <3>2. ASSUME NEW i \in 1..Len(wPending')
          PROVE  wPending'[i] \in Handed /\ wPending'[i] # wPending[1]
      BY <2>1, <2>2, <1>7 DEF Handed
    <3> QED BY <3>1, <3>2
  <2>5. Handed \subseteq Handed' \cup {wPending[1]} /\ wPending[1] \in Handed
    BY <2>2, <2>3, SMTT(60) DEF Handed
  <2> QED BY <2>4, <2>5
<1>10. Arrived' = Arrived /\ Stored' = Stored /\ (Compact' <=> Compact)
  BY <1>2, Same
<1>11. PlaceInv'
  BY <1>1, <1>6, <1>9, <1>10, SMTT(60) DEF Inv, PlaceInv, Given, Begun, Sent, AtWriter
<1>12. TypeOK'
  <2>1. W!TypeOK'
    BY <1>3, <1>4, <1>5, SMTT(60) DEF W!TypeOK
  <2> QED BY <2>1, <1>1, <1>2, <1>3 DEF TypeOK, RegisterTypeOK, T!TypeOK
<1>13. WriterInv'
  BY <1>1, <1>2, <1>5, <1>10 DEF Inv, WriterInv
<1>14. MainInv'
  <2>1. main \notin {"open", "first", "close", "done"}
    BY <1>2, WriterBusy
  <2> QED BY <2>1, <1>1 DEF Inv, MainInv
<1> QED BY <1>1, <1>8, <1>11, <1>12, <1>13, <1>14 DEF Inv

\* A write makes the file one block longer.
LEMMA OutGrows ==
    ASSUME Inv, Len(out) = expectedRank, out' = Append(out, expectedRank)
    PROVE  /\ Len(out') = expectedRank + 1 /\ \A i \in 1..Len(out') : out'[i] = i - 1
<1>1. out \in Seq(Nat) /\ expectedRank \in Nat /\ \A i \in 1..Len(out) : out[i] = i - 1
  BY Types DEF Inv, WriterInv
<1>2. /\ Len(out') = expectedRank + 1 /\ out'[expectedRank + 1] = expectedRank
      /\ \A i \in 1..expectedRank : out'[i] = out[i]
  BY <1>1, Appended, SMTT(60)
<1> QED BY <1>1, <1>2, SMTT(60)

\* LZ4IO_checkWriteOrder writes the block that is expected.
LEMMA WriteStep ==
    ASSUME Inv, Block # NoJob, WriteBlock(Block), UNCHANGED <<wVars, otherVars>>
    PROVE  Inv' /\ Arrived' = Arrived \cup {Block} /\ Block \notin Arrived
<1>1. /\ WorkerInv' /\ ChainInv' /\ TakenInv' /\ ReadInv'
      /\ Queued' = Queued /\ Held' = Held /\ Holders' = Holders /\ Unsent' = Unsent
      /\ UNCHANGED <<tPending, tActive, file, fpos, readErr, blockNb, prefix, hashed, content,
                     at, main, endMark, removed>>
      /\ (T!AllCompleted' <=> T!AllCompleted)
  BY WriterFrame
<1>2. /\ ~draining /\ Block = expectedRank /\ out' = Append(out, expectedRank)
      /\ expectedRank' = expectedRank + 1 /\ draining' = TRUE
      /\ UNCHANGED <<wPending, wActive>>
  BY DEF WriteBlock, wVars
<1>3. /\ TypeOK /\ RegisterTypeOK /\ Compact /\ expectedRank \in Nat /\ Stored \subseteq Nat
      /\ \A n \in Stored : n >= expectedRank
  BY Types, JobFacts DEF Inv, WriterInv, TypeOK
<1>4. RegisterTypeOK' /\ Compact' /\ Stored' = Stored
  BY <1>3, WriteEffect
<1>5. main \notin {"open", "first", "close", "done"} /\ Len(out) = expectedRank
  BY WriterBusy
<1>6. Len(out') = expectedRank + 1 /\ \A i \in 1..Len(out') : out'[i] = i - 1
  BY <1>2, <1>5, OutGrows
<1>7. Handed' = Handed /\ Block' = Block /\ InHand = {Block} /\ InHand' = {}
  BY <1>2, Same DEF InHand
<1>8. Arrived' = Arrived \cup {Block}
  <2>1. 0..(expectedRank' - 1) = 0..(expectedRank - 1) \cup {expectedRank}
    BY <1>2, <1>3
  <2> QED BY <2>1, <1>2, <1>4 DEF Arrived
<1>9. Block \notin Arrived
  BY <1>7 DEF Inv, PlaceInv
<1>10. DistinctInv'
  BY <1>1, <1>2, Frames
<1>11. PlaceInv'
  BY <1>1, <1>7, <1>8 DEF Inv, PlaceInv, Given, Begun, Sent, AtWriter
<1>12. TypeOK'
  BY <1>1, <1>2, <1>3, <1>4 DEF TypeOK, T!TypeOK, W!TypeOK
<1>13. WriterInv'
  <2>1. \A n \in Stored' : n >= expectedRank'
    <3>1. expectedRank \notin Stored
      BY <1>2, <1>9 DEF Arrived
    <3> QED BY <3>1, <1>2, <1>3, <1>4
  <2> QED BY <2>1, <1>2, <1>4, <1>6, <1>7 DEF WriterInv
<1>14. MainInv'
  BY <1>1, <1>5 DEF Inv, MainInv
<1> QED BY <1>1, <1>8, <1>9, <1>10, <1>11, <1>12, <1>13, <1>14 DEF Inv

\* The job of the single writer ends.
LEMMA FinishWriteEffect ==
    ASSUME TypeOK, W!Finish(writer)
    PROVE  W!TypeOK' /\ wPending' = wPending /\ Block' = NoJob /\ InHand' = {} /\ Handed' = Handed
           /\ Block # NoJob
<1>1. wActive[writer] # NoJob /\ wActive' = [wActive EXCEPT ![writer] = NoJob] /\ wPending' = wPending
  BY DEF W!Finish
<1>2. W!TypeOK /\ wActive \in [{writer} -> Ranks \cup {NoJob}]
  BY DEF TypeOK, W!TypeOK
<1>3. wActive' \in [{writer} -> Ranks \cup {NoJob}] /\ wActive'[writer] = NoJob
  BY <1>1, <1>2
<1> QED BY <1>1, <1>2, <1>3 DEF W!TypeOK, Block, InHand, Handed

\* A block that is early goes into the register.
LEMMA StoreStep ==
    ASSUME Inv, Block # NoJob, StoreBlock(Block), W!Finish(writer), UNCHANGED otherVars
    PROVE  Inv' /\ Arrived' = Arrived \cup {Block} /\ Block \notin Arrived
<1>1. /\ WorkerInv' /\ ChainInv' /\ TakenInv' /\ ReadInv'
      /\ Queued' = Queued /\ Held' = Held /\ Holders' = Holders /\ Unsent' = Unsent
      /\ UNCHANGED <<tPending, tActive, file, fpos, readErr, blockNb, prefix, hashed, content,
                     at, main, endMark, removed>>
      /\ (T!AllCompleted' <=> T!AllCompleted)
  BY WriterFrame
<1>2. ~draining /\ Block # expectedRank /\ UNCHANGED <<expectedRank, out, draining>>
  BY DEF StoreBlock
<1>3. /\ TypeOK /\ RegisterTypeOK /\ Compact /\ expectedRank \in Nat /\ Block \in Ranks
      /\ Block \in Nat /\ Stored \subseteq Nat /\ \A n \in Stored : n >= expectedRank
  BY Types, JobFacts DEF Inv, WriterInv, TypeOK
<1>4. InHand = {Block}
  BY <1>2 DEF InHand
<1>5. Block \notin Arrived
  BY <1>4 DEF Inv, PlaceInv
<1>6. Block \notin Stored /\ Block > expectedRank
  <2>1. Block \notin Stored /\ Block \notin 0..(expectedRank - 1)
    BY <1>5 DEF Arrived
  <2> QED BY <2>1, <1>2, <1>3
<1>7. RegisterTypeOK' /\ Compact' /\ Stored' = Stored \cup {Block}
  BY <1>3, <1>6, StoreEffect
<1>8. /\ W!TypeOK' /\ wPending' = wPending /\ Block' = NoJob /\ InHand' = {} /\ Handed' = Handed
  BY <1>3, FinishWriteEffect
<1>9. Arrived' = Arrived \cup {Block}
  BY <1>2, <1>7 DEF Arrived
<1>10. DistinctInv'
  BY <1>1, <1>8, Frames
<1>11. PlaceInv'
  BY <1>1, <1>4, <1>8, <1>9 DEF Inv, PlaceInv, Given, Begun, Sent, AtWriter
<1>12. TypeOK'
  BY <1>1, <1>3, <1>7, <1>8 DEF TypeOK, T!TypeOK
<1>13. main \notin {"open", "first", "close", "done"} /\ Len(out) = expectedRank
  BY WriterBusy
<1>14. WriterInv'
  <2>1. \A n \in Stored' : n >= expectedRank'
    BY <1>2, <1>3, <1>6, <1>7
  <2>2. expectedRank \notin Stored
    BY <1>2 DEF Inv, WriterInv
  <2>3. expectedRank' \notin Stored'
    BY <2>2, <1>2, <1>7
  <2> QED BY <2>1, <2>3, <1>2, <1>7, <1>13 DEF Inv, WriterInv
<1>15. MainInv'
  BY <1>1, <1>13 DEF Inv, MainInv
<1> QED BY <1>1, <1>5, <1>9, <1>10, <1>11, <1>12, <1>14, <1>15 DEF Inv

\* One iteration of the loop: a stored block is written.
LEMMA DrainStep ==
    ASSUME Inv, DrainBlock, UNCHANGED <<wVars, otherVars>>
    PROVE  Inv' /\ Arrived' = Arrived
<1>1. /\ WorkerInv' /\ ChainInv' /\ TakenInv' /\ ReadInv'
      /\ Queued' = Queued /\ Held' = Held /\ Holders' = Holders /\ Unsent' = Unsent
      /\ UNCHANGED <<tPending, tActive, file, fpos, readErr, blockNb, prefix, hashed, content,
                     at, main, endMark, removed>>
      /\ (T!AllCompleted' <=> T!AllCompleted)
  BY WriterFrame
<1>2. /\ draining /\ draining' = draining /\ out' = Append(out, expectedRank)
      /\ expectedRank' = expectedRank + 1 /\ UNCHANGED <<wPending, wActive>>
  BY DEF DrainBlock, wVars
<1>3. /\ TypeOK /\ RegisterTypeOK /\ Compact /\ expectedRank \in Nat /\ Stored \subseteq Nat
      /\ Block # NoJob /\ \A n \in Stored : n >= expectedRank
  BY <1>2, Types, JobFacts DEF Inv, WriterInv, TypeOK
<1>4. /\ RegisterTypeOK' /\ Compact'
      /\ expectedRank \in Stored /\ Stored' = Stored \ {expectedRank}
  BY <1>3, DrainEffect
<1>5. main \notin {"open", "first", "close", "done"} /\ Len(out) = expectedRank
  BY <1>3, WriterBusy
<1>6. Len(out') = expectedRank + 1 /\ \A i \in 1..Len(out') : out'[i] = i - 1
  BY <1>2, <1>5, OutGrows
<1>7. Handed' = Handed /\ Block' = Block /\ InHand' = InHand
  BY <1>2, Same
<1>8. Arrived' = Arrived
  <2>1. 0..(expectedRank' - 1) = 0..(expectedRank - 1) \cup {expectedRank}
    BY <1>2, <1>3
  <2> QED BY <2>1, <1>4 DEF Arrived
<1>9. DistinctInv'
  BY <1>1, <1>2, Frames
<1>10. PlaceInv'
  BY <1>1, <1>7, <1>8 DEF Inv, PlaceInv, Given, Begun, Sent, AtWriter
<1>11. TypeOK'
  BY <1>1, <1>2, <1>3, <1>4 DEF TypeOK, T!TypeOK, W!TypeOK
<1>12. WriterInv'
  <2>1. \A n \in Stored' : n >= expectedRank'
    BY <1>2, <1>3, <1>4
  <2> QED BY <2>1, <1>2, <1>3, <1>4, <1>6, <1>7 DEF WriterInv
<1>13. MainInv'
  BY <1>1, <1>5 DEF Inv, MainInv
<1> QED BY <1>1, <1>8, <1>9, <1>10, <1>11, <1>12, <1>13 DEF Inv

\* The loop ends, and the job with it.
LEMMA DrainEndStep ==
    ASSUME Inv, DrainEnds, W!Finish(writer), UNCHANGED otherVars
    PROVE  Inv' /\ Arrived' = Arrived
<1>1. /\ WorkerInv' /\ ChainInv' /\ TakenInv' /\ ReadInv'
      /\ Queued' = Queued /\ Held' = Held /\ Holders' = Holders /\ Unsent' = Unsent
      /\ UNCHANGED <<tPending, tActive, file, fpos, readErr, blockNb, prefix, hashed, content,
                     at, main, endMark, removed>>
      /\ (T!AllCompleted' <=> T!AllCompleted)
  BY WriterFrame
<1>2. draining /\ draining' = FALSE /\ UNCHANGED <<expectedRank, buffers, out>>
  BY DEF DrainEnds
<1>3. TypeOK /\ RegisterTypeOK /\ Compact
  BY DEF Inv, WriterInv, TypeOK
<1>4. RegisterTypeOK' /\ Compact' /\ expectedRank \notin Stored /\ Stored' = Stored
  BY <1>3, DrainEndEffect
<1>5. /\ W!TypeOK' /\ wPending' = wPending /\ Block' = NoJob /\ InHand' = {} /\ Handed' = Handed
      /\ Block # NoJob
  BY <1>3, FinishWriteEffect
<1>6. Arrived' = Arrived /\ InHand = {}
  BY <1>2, <1>4 DEF Arrived, InHand
<1>7. DistinctInv'
  BY <1>1, <1>5, Frames
<1>8. PlaceInv'
  BY <1>1, <1>5, <1>6 DEF Inv, PlaceInv, Given, Begun, Sent, AtWriter
<1>9. TypeOK'
  BY <1>1, <1>3, <1>4, <1>5 DEF TypeOK, T!TypeOK
<1>10. WriterInv'
  BY <1>1, <1>2, <1>4 DEF Inv, WriterInv
<1>11. MainInv'
  <2>1. main \notin {"open", "first", "close", "done"}
    BY <1>5, WriterBusy
  <2> QED BY <2>1, <1>1 DEF Inv, MainInv
<1> QED BY <1>1, <1>6, <1>7, <1>8, <1>9, <1>10, <1>11 DEF Inv

\* A failing write ends the program, wherever everyone is.
LEMMA WriteFailsStep ==
    ASSUME Inv, WriteFails
    PROVE  Inv'
<1>1. /\ Block # NoJob /\ main' = "exit"
      /\ UNCHANGED <<tPending, tActive, wPending, wActive, wrVars, file, fpos, readErr, blockNb,
                     prefix, hashed, content, at, endMark, removed>>
      /\ UNCHANGED <<expectedRank, buffers, out, draining>> /\ UNCHANGED <<tVars, wVars>>
  BY DEF WriteFails, Block, tVars, wVars, wrVars, readVars, tailVars
<1>2. main \notin {"open", "first", "close", "done"} /\ Len(out) = expectedRank
  BY <1>1, WriterBusy
<1>3. /\ Queued' = Queued /\ (ReadQueued' <=> ReadQueued) /\ Readers' = Readers /\ Held' = Held
      /\ Handed' = Handed /\ InHand' = InHand /\ Arrived' = Arrived /\ (QueueShape' <=> QueueShape)
      /\ Stored' = Stored /\ Block' = Block /\ (Compact' <=> Compact) /\ Total' = Total
  BY <1>1, Same
<1>4. Unsent' = Unsent
  BY <1>1, <1>2, <1>3 DEF Unsent
<1>5. TypeOK'
  BY <1>1 DEF Inv, TypeOK, RegisterTypeOK, T!TypeOK, W!TypeOK
<1>6. WorkerInv' /\ DistinctInv' /\ TakenInv'
  BY <1>1, Frames
<1>7. ChainInv' /\ ReadInv'
  BY <1>1, <1>2, <1>3 DEF Inv, ChainInv, ReadInv
<1>8. PlaceInv'
  BY <1>1, <1>2, <1>3, <1>4, PlaceSame
<1>9. WriterInv' /\ MainInv'
  BY <1>1, <1>2, <1>3 DEF Inv, WriterInv, MainInv
<1> QED BY <1>5, <1>6, <1>7, <1>8, <1>9 DEF Inv

-----------------------------------------------------------------------------
(* The frame is right                                                      *)

\* The invariant holds initially.
LEMMA InitInv == Init => Inv
<1> SUFFICES ASSUME Init PROVE Inv
  OBVIOUS
<1>1. /\ T!Init /\ W!Init /\ WR_init /\ file \in Requests /\ (file.full = MaxChunks => ~file.tail)
      /\ fpos = 0 /\ readErr = FALSE /\ blockNb = 0 /\ prefix = -1 /\ hashed = <<>>
      /\ content = [k \in Ranks |-> NULL] /\ at = [w \in TWorkers |-> "begin"]
      /\ main = "open" /\ endMark = NULL /\ removed = FALSE
  BY DEF Init
<1>2. RegisterTypeOK /\ Compact /\ Stored = {}
  BY <1>1, RegisterInit
<1>3. expectedRank = 0 /\ out = <<>> /\ draining = FALSE
  BY <1>1 DEF WR_init
<1>4. tPending = <<>> /\ tActive = [w \in TWorkers |-> NoJob]
  BY <1>1 DEF T!Init
<1>5. wPending = <<>> /\ wActive = [w \in {writer} |-> NoJob]
  BY <1>1 DEF W!Init
<1>6. T!AllCompleted /\ W!AllCompleted
  BY <1>4, <1>5 DEF T!AllCompleted, W!AllCompleted
<1>7. /\ Queued = {} /\ ~ReadQueued /\ Readers = {} /\ Holders = {} /\ Held = {} /\ Handed = {}
      /\ Block = NoJob /\ InHand = {}
  BY <1>6, Idle
<1>8. T!TypeOK
  BY <1>4, EmptyQueue, PipelineAssumption DEF T!TypeOK
<1>9. W!TypeOK
  BY <1>5, EmptyQueue, PipelineAssumption DEF W!TypeOK
<1>10. TypeOK
  <2>1. fpos \in 0..(MaxChunks + 1) /\ blockNb \in 0..(MaxChunks + 1) /\ prefix \in -1..MaxChunks
    BY <1>1, JobFacts, SMTT(60)
  <2>2. hashed \in Seq(Ranks) /\ content \in [Ranks -> Contents \cup {NULL}]
    BY <1>1
  <2>3. at \in [TWorkers -> {"begin", "submitC", "submitR", "submitW", "return"}]
    BY <1>1
  <2>4. readErr \in BOOLEAN /\ removed \in BOOLEAN
    BY <1>1
  <2> QED BY <2>1, <2>2, <2>3, <2>4, <1>1, <1>2, <1>8, <1>9 DEF TypeOK
<1>11. WorkerInv
  BY <1>1, <1>4 DEF WorkerInv, Compressing
<1>12. ChainInv
  BY <1>4, <1>7, EmptyQueue DEF ChainInv, QueueShape
<1>13. TakenInv
  <2>1. Total \in Nat /\ Len(hashed) = 0
    BY <1>1, <1>10, Types
  <2> QED BY <2>1, <1>1 DEF TakenInv
<1>14. ReadInv
  BY <1>1, <1>7 DEF ReadInv
<1>15. DistinctInv
  BY <1>5, <1>7, SMTT(60) DEF DistinctInv
<1>16. PlaceInv
  <2>1. Arrived = {} /\ Unsent = {} /\ 0..(fpos - 1) = {}
    BY <1>1, <1>2, <1>3, <1>7 DEF Arrived, Unsent
  <2> QED BY <2>1, <1>7 DEF PlaceInv, Given, Begun, Sent, AtWriter
<1>17. WriterInv
  BY <1>1, <1>2, <1>3 DEF WriterInv
<1>18. MainInv
  BY <1>1, <1>6 DEF MainInv
<1> QED BY <1>10, <1>11, <1>12, <1>13, <1>14, <1>15, <1>16, <1>17, <1>18 DEF Inv

LEMMA Stutters == ASSUME Inv, UNCHANGED vars PROVE Inv'
<1>1. /\ UNCHANGED <<tPending, tActive, wPending, wActive, wrVars, file, fpos, readErr, blockNb,
                     prefix, hashed, content, at, main, endMark, removed>>
      /\ UNCHANGED <<expectedRank, buffers, out, draining>> /\ UNCHANGED <<tVars, wVars>>
  BY DEF vars, tVars, wVars, wrVars, readVars, tailVars
<1>2. TypeOK'
  BY <1>1 DEF Inv, TypeOK, RegisterTypeOK, T!TypeOK, W!TypeOK
<1>3. /\ WorkerInv' /\ ChainInv' /\ TakenInv' /\ ReadInv' /\ DistinctInv' /\ WriterInv' /\ MainInv'
  BY <1>1, Frames
<1>4. PlaceInv'
  BY <1>1, Same, PlaceSame
<1> QED BY <1>2, <1>3, <1>4 DEF Inv

\* Every step keeps the invariant.
LEMMA NextInv == ASSUME Inv, [Next]_vars PROVE Inv'
<1>1. CASE Main
  BY <1>1, OpenFrameStep, OpenLegacyStep, SubmitFirstStep, StartChainStep, WaitStep DEF Main
<1>2. ASSUME NEW w \in TWorkers, TWorker(w) PROVE Inv'
  BY <1>2, StartStep, SubmitCompressStep, SubmitReadStep, ReadStep, CompressStep, SubmitWriteStep,
     FinishStep DEF TWorker
<1>3. CASE Writer
  BY <1>3, StartWriteStep, WriteStep, StoreStep, DrainStep, DrainEndStep
     DEF Writer, CheckWriteOrder, Block
<1>4. CASE WriteFails
  BY <1>4, WriteFailsStep
<1>5. CASE UNCHANGED vars
  BY <1>5, Stutters
<1> QED BY <1>1, <1>2, <1>3, <1>4, <1>5 DEF Next, Terminated

\* No block is written before it has been read.
LEMMA WrittenTaken == ASSUME Inv PROVE Len(out) <= fpos /\ expectedRank <= fpos
<1>1. fpos \in Nat /\ expectedRank \in Nat /\ Len(out) \in Nat
  BY Types DEF Inv
<1>2. 0..(expectedRank - 1) \subseteq 0..(fpos - 1)
  BY DEF Inv, PlaceInv, Given, Begun, Sent, AtWriter, Arrived
<1>3. expectedRank <= fpos
  BY <1>1, <1>2
<1> QED BY <1>1, <1>3 DEF Inv, WriterInv, MainInv

LEMMA InOrder == ASSUME Inv PROVE BlocksInOrder
<1> SUFFICES ASSUME NEW i \in 1..Len(out)
             PROVE  /\ out[i] = i - 1 /\ content[i - 1].chunk = i - 1
                    /\ content[i - 1].prefix = IF file.linked THEN i - 2 ELSE -1
  BY DEF BlocksInOrder
<1>1. i - 1 \in 0..(fpos - 1) /\ (i - 1) - 1 = i - 2
  BY WrittenTaken, Types, SMTT(60) DEF Inv
<1> QED BY <1>1 DEF Inv, WriterInv, TakenInv

LEMMA Chained == ASSUME Inv PROVE ReadersChained
<1>1. TypeOK /\ ChainInv /\ QueueShape /\ Len(tPending) \in Nat /\ (tPending = <<>> <=> Len(tPending) = 0)
  BY Types, EmptyQueue DEF Inv, ChainInv
<1>2. \A i \in 1..Len(tPending) : tPending[i] = ReadJob => i = Len(tPending) /\ ReadQueued
  BY <1>1 DEF QueueShape, ReadQueued
<1>3. OneReader
  BY <1>1, <1>2 DEF OneReader, ChainInv
<1>4. ASSUME NEW w \in TWorkers, at[w] \in {"submitC", "submitR"}, tActive[w] # NoJob
      PROVE  Len(tPending) < TQueueSize
  <2>1. w \in Readers
    BY <1>4 DEF Inv, WorkerInv, Compressing, Readers
  <2>2. ~ReadQueued
    BY <2>1, <1>1 DEF ChainInv
  <2>3. Len(tPending) <= 1
    BY <2>2, <1>1, QueueCases
  <2> QED BY <2>3, <1>1, PipelineAssumption
<1>5. main = "waitW" => \A w \in TWorkers : tActive[w] = NoJob
  BY Idle DEF Inv, MainInv
<1> QED BY <1>1, <1>3, <1>4, <1>5 DEF ReadersChained, NoSelfBlocking

LEMMA Complete == ASSUME Inv PROVE FrameComplete
<1>1. /\ \A i \in 1..Len(out) : out[i] = i - 1
      /\ \A i \in 1..Len(out) : content[out[i]].chunk = i - 1
  BY InOrder DEF BlocksInOrder
<1>2. main \in {"close", "done"} =>
         /\ T!AllCompleted /\ W!AllCompleted /\ Stored = {} /\ ~draining /\ Len(out) = fpos
         /\ readErr \/ fpos = Total
  <2>1. main \in {"close", "done"} => Readers = {} /\ ~ReadQueued /\ Block = NoJob
    BY Idle DEF Inv, MainInv
  <2> QED BY <2>1 DEF Inv, MainInv, WriterInv, ReadInv
<1>3. /\ fpos \in Nat /\ file.full \in Nat /\ Total \in Nat
      /\ Total = IF file.tail THEN file.full + 1 ELSE file.full
  BY Types DEF Inv
<1>4. EndMarkSealsFrame
  <2> SUFFICES ASSUME endMark # NULL
               PROVE  /\ T!AllCompleted /\ W!AllCompleted /\ Stored = {} /\ ~draining
                      /\ Len(out) = Len(endMark)
                      /\ \A i \in 1..Len(out) : content[out[i]].chunk = endMark[i]
    BY DEF EndMarkSealsFrame
  <2>1. main \in {"close", "done"} /\ endMark = hashed
    BY DEF Inv, MainInv
  <2>2. Len(hashed) = fpos /\ \A i \in 1..fpos : hashed[i] = i - 1
    BY DEF Inv, TakenInv
  <2> QED BY <2>1, <2>2, <1>1, <1>2
<1>5. WholeFileWritten
  <2> SUFFICES ASSUME main = "done" \/ removed, ~readErr
               PROVE  {content[out[i]].chunk : i \in 1..Len(out)} = Chunks
    BY DEF WholeFileWritten
  <2>1. Len(out) = Total
    BY <1>2 DEF Inv, MainInv
  <2>2. Chunks = 0..(Total - 1)
    BY <1>3 DEF Chunks
  <2>3. {content[out[i]].chunk : i \in 1..Total} = {i - 1 : i \in 1..Total}
    BY <2>1, <1>1
  <2>4. {i - 1 : i \in 1..Total} = 0..(Total - 1)
    <3>1. \A k \in 0..(Total - 1) : k + 1 \in 1..Total /\ k = (k + 1) - 1
      BY <1>3
    <3>2. \A i \in 1..Total : i - 1 \in 0..(Total - 1)
      BY <1>3
    <3> QED BY <3>1, <3>2
  <2> QED BY <2>1, <2>2, <2>3, <2>4
<1> QED BY <1>4, <1>5 DEF FrameComplete

\* LZ4IO_compressFilename_extRess_MT and LZ4IO_compressLegacy_internal, for any number of
\* threads, any file and queues of at least two jobs in tPool and one in wPool: the
\* blocks are written in order, each made from its chunk with the right dictionary; read
\* jobs never overlap and tPool never waits for itself; the end mark is written behind
\* the last block, with the checksum of what was written; without a read error that is
\* the whole file.
THEOREM CompressionWritesFrame == Spec => []FrameRight
<1>1. Inv /\ [Next]_vars => Inv'
  BY NextInv
<1>2. Inv => FrameRight
  BY InOrder, Chained, Complete DEF FrameRight
<1> QED BY InitInv, <1>1, <1>2, PTL DEF Spec

-----------------------------------------------------------------------------
(* The use of the register                                                 *)

\* The register of the refinement is the pipeline's.
LEMMA RegisterSame ==
    \A rank : /\ Register!WR_addBufDesc(rank) = WR_addBufDesc(rank)
              /\ Register!WR_removeBuffID(rank) = WR_removeBuffID(rank)
              /\ Register!WR_isPresent(rank) <=> WR_isPresent(rank)
<1>1. \A rank : Register!WR_addBufDesc(rank) = WR_addBufDesc(rank)
  BY DEF Register!WR_addBufDesc, WR_addBufDesc, Register!AddedCapacity, AddedCapacity
<1>2. \A rank : Register!WR_find(rank) = WR_find(rank)
  BY DEF Register!WR_find, WR_find
<1>3. \A rank : Register!WR_removeBuffID(rank) = WR_removeBuffID(rank)
  BY <1>2 DEF Register!WR_removeBuffID, WR_removeBuffID
<1>4. \A rank : Register!WR_isPresent(rank) <=> WR_isPresent(rank)
  BY <1>2 DEF Register!WR_isPresent, WR_isPresent
<1> QED BY <1>1, <1>3, <1>4

\* A sequence up to its end, and up to its beginning.
LEMMA Cut ==
    ASSUME NEW s \in Seq(Nat)
    PROVE  SubSeq(s, 1, Len(s)) = s /\ SubSeq(s, 1, 0) = <<>>
OBVIOUS

\* Steps that leave the register alone.
LEMMA RegisterAlone == ASSUME UNCHANGED wrVars PROVE UNCHANGED Register!useVars
<1>1. UNCHANGED <<expectedRank, buffers, out, draining>>
  BY DEF wrVars
<1>2. Arrived' = Arrived
  BY <1>1, Same
<1> QED BY <1>1, <1>2 DEF Register!useVars, Register!wrVars, Arrived

\* The block of a small file does not go through it.
LEMMA OpenAlone ==
    ASSUME Inv, NEW size, NEW err, OpenFrame(size, err), Inv'
    PROVE  UNCHANGED Register!useVars
<1>1. UNCHANGED <<expectedRank, buffers, draining>> /\ main = "open"
  BY DEF OpenFrame
<1>2. expectedRank = 0
  BY <1>1, WrittenTaken, Types, SMTT(60) DEF Inv, ReadInv
<1>3. out \in Seq(Nat) /\ out' \in Seq(Nat)
  BY Types DEF Inv, TypeOK, RegisterTypeOK
<1>4. SubSeq(out, 1, expectedRank) = <<>> /\ SubSeq(out', 1, expectedRank') = <<>>
  BY <1>1, <1>2, <1>3, Cut
<1>5. Arrived' = Arrived
  BY <1>1 DEF Arrived, Stored
<1> QED BY <1>1, <1>4, <1>5 DEF Register!useVars, Register!wrVars, Arrived

\* A write job begins with the arrival of its block.
LEMMA Arrives ==
    ASSUME Inv, Block # NoJob, CheckWriteOrder
    PROVE  Register!Arrive(Block)
<1>1. Block \in Ranks /\ out \in Seq(Nat) /\ expectedRank \in Nat /\ Len(out) = expectedRank
  BY Types, JobFacts, WriterBusy DEF Inv
<1>2. SubSeq(out, 1, expectedRank) = out
  BY <1>1, Cut
<1>3. CASE WriteBlock(Block) /\ UNCHANGED <<wVars, otherVars>>
  <2>1. Inv' /\ Arrived' = Arrived \cup {Block} /\ Block \notin Arrived
    BY <1>3, WriteStep
  <2>2. /\ ~draining /\ Block = expectedRank /\ out' = Append(out, Block)
        /\ expectedRank' = expectedRank + 1 /\ draining' = TRUE /\ buffers' = buffers
    BY <1>3 DEF WriteBlock
  <2>3. Len(out') = expectedRank' /\ out' \in Seq(Nat)
    BY <2>1, <2>2, <1>1, OutGrows, Types DEF Inv, TypeOK, RegisterTypeOK
  <2>4. SubSeq(out', 1, expectedRank') = out'
    BY <2>3, Cut
  <2>5. Register!WriteBlock(Block)
    BY <2>2, <2>4, <1>2 DEF Register!WriteBlock
  <2> QED BY <2>1, <2>5 DEF Register!Arrive, Register!checkWriteOrder, Arrived
<1>4. CASE StoreBlock(Block) /\ W!Finish(writer) /\ UNCHANGED otherVars
  <2>1. Inv' /\ Arrived' = Arrived \cup {Block} /\ Block \notin Arrived
    BY <1>4, StoreStep
  <2>2. /\ ~draining /\ Block # expectedRank /\ buffers' = WR_addBufDesc(Block)
        /\ UNCHANGED <<expectedRank, out, draining>>
    BY <1>4 DEF StoreBlock
  <2>3. Register!StoreBlock(Block)
    BY <2>2, RegisterSame DEF Register!StoreBlock
  <2> QED BY <2>1, <2>3 DEF Register!Arrive, Register!checkWriteOrder, Arrived
<1> QED BY <1>3, <1>4 DEF CheckWriteOrder, Block

\* The rest of the job drains the register.
LEMMA Drains ==
    ASSUME Inv, \/ DrainBlock /\ UNCHANGED <<wVars, otherVars>>
                \/ DrainEnds /\ W!Finish(writer) /\ UNCHANGED otherVars
    PROVE  Register!Drain
<1>1. CASE DrainBlock /\ UNCHANGED <<wVars, otherVars>>
  <2>1. Inv' /\ Arrived' = Arrived
    BY <1>1, DrainStep
  <2>2. /\ draining /\ WR_isPresent(expectedRank) /\ out' = Append(out, expectedRank)
        /\ buffers' = WR_removeBuffID(expectedRank) /\ expectedRank' = expectedRank + 1
        /\ draining' = draining
    BY <1>1 DEF DrainBlock
  <2>3. out \in Seq(Nat) /\ out' \in Seq(Nat) /\ Len(out) = expectedRank
    BY <2>1, <2>2, Types, WriterBusy DEF Inv, WriterInv, TypeOK, RegisterTypeOK
  <2>4. Len(out') = expectedRank'
    BY <2>2, <2>3, OutGrows
  <2>5. SubSeq(out, 1, expectedRank) = out /\ SubSeq(out', 1, expectedRank') = out'
    BY <2>3, <2>4, Cut
  <2>6. Register!DrainBlock
    BY <2>2, <2>5, RegisterSame DEF Register!DrainBlock
  <2> QED BY <2>1, <2>6 DEF Register!Drain, Arrived
<1>2. CASE DrainEnds /\ W!Finish(writer) /\ UNCHANGED otherVars
  <2>1. Arrived' = Arrived
    BY <1>2, DrainEndStep
  <2>2. Register!DrainEnds
    BY <1>2, RegisterSame DEF DrainEnds, Register!DrainEnds
  <2> QED BY <2>1, <2>2 DEF Register!Drain, Arrived
<1> QED BY <1>1, <1>2

\* Every step is a step of the register's user, or leaves the register alone.
LEMMA NextUses == ASSUME Inv, [Next]_vars, Inv' PROVE [Register!UseNext]_(Register!useVars)
<1>1. CASE Main
  <2>1. ASSUME NEW size, NEW err, OpenFrame(size, err) PROVE UNCHANGED Register!useVars
    BY <2>1, OpenAlone
  <2>2. ASSUME OpenLegacy \/ SubmitFirst \/ StartChain \/ WaitT \/ WaitW \/ \E rm \in BOOLEAN : Close(rm)
        PROVE  UNCHANGED wrVars
    BY <2>2 DEF OpenLegacy, SubmitFirst, StartChain, WaitT, WaitW, Close
  <2> QED BY <1>1, <2>1, <2>2, RegisterAlone DEF Main
<1>2. ASSUME NEW w \in TWorkers, TWorker(w) PROVE UNCHANGED wrVars
  BY <1>2 DEF TWorker, TStart, SubmitCompress, SubmitRead, ReadAndProcess, CompressChunk,
                          SubmitWrite, TFinish
<1>3. CASE Writer
  <2>1. ASSUME UNCHANGED <<wrVars, otherVars>> PROVE UNCHANGED wrVars
    BY <2>1
  <2>2. ASSUME CheckWriteOrder PROVE Register!UseNext
    <3>1. Block # NoJob /\ Block \in Ranks
      BY <2>2, Types, JobFacts DEF CheckWriteOrder, Block, Inv
    <3> QED BY <2>2, <3>1, Arrives DEF Register!UseNext
  <2> QED BY <1>3, <2>1, <2>2, Drains, RegisterAlone DEF Writer, Register!UseNext
<1>4. CASE WriteFails
  BY <1>4, RegisterAlone DEF WriteFails
<1>5. CASE UNCHANGED vars
  <2>1. UNCHANGED wrVars
    BY <1>5 DEF vars
  <2> QED BY <2>1, RegisterAlone
<1> QED BY <1>1, <1>2, <1>3, <1>4, <1>5, RegisterAlone DEF Next, Terminated

\* Of the register the pipeline sees to what WriteRegisterUse asks for: each block number
\* arrives once, one at a time, between two drains.  What RegisterCorrect proves of
\* every such use therefore holds of LZ4IO_checkWriteOrder in the pipeline.
THEOREM PipelineUsesRegister == Spec => ImplementsRegisterUse
<1>1. Init => Register!UseInit
  <2> SUFFICES ASSUME Init PROVE Register!UseInit
    OBVIOUS
  <2>1. WR_init /\ Stored = {}
    BY RegisterInit DEF Init
  <2>2. expectedRank = 0 /\ out = <<>> /\ draining = FALSE
        /\ buffers = Nulls(WR_INITIAL_BUFFER_POOL_SIZE)
    BY <2>1 DEF WR_init
  <2>3. SubSeq(out, 1, expectedRank) = <<>> /\ (0..(expectedRank - 1)) \cup Stored = {}
    BY <2>1, <2>2, Cut
  <2> QED BY <2>2, <2>3 DEF Register!UseInit, Register!WR_init, Register!Nulls, Nulls
<1>2. Inv /\ [Next]_vars => Inv' /\ [Register!UseNext]_(Register!useVars)
  BY NextInv, NextUses
<1> QED BY InitInv, <1>1, <1>2, PTL DEF Spec, ImplementsRegisterUse, Register!UseSpec
=============================================================================
