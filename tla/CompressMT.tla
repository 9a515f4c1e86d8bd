------------------------------ MODULE CompressMT ------------------------------
(***************************************************************************)
(* Multi-threaded compression of one file in programs/lz4io.c:             *)
(* LZ4IO_compressFilename_extRess_MT (frame format) and                    *)
(* LZ4IO_compressLegacy_internal (legacy format).                          *)
(*                                                                         *)
(* The main thread starts a chain of LZ4IO_readAndProcess jobs in tPool;   *)
(* each reads a chunk, submits its compression to tPool and then itself    *)
(* again.  Compression jobs submit LZ4IO_checkWriteOrder jobs to wPool,    *)
(* whose single thread writes the blocks through the write register.       *)
(***************************************************************************)
EXTENDS WriteRegister

CONSTANTS
    TWorkers,       \* nbWorkers threads of tPool
    TQueueSize,     \* 4 in the code, like wPool's
    WQueueSize,
    writer,         \* the thread of wPool
    MaxChunks,      \* bound: whole chunks in the source file
    NoJob

ASSUME PipelineAssumption ==
    /\ TQueueSize \in Nat /\ TQueueSize >= 2
    /\ WQueueSize \in Nat \ {0}
    /\ MaxChunks \in Nat
    /\ Ranks = 0..MaxChunks
    /\ NoJob \notin Ranks /\ NoJob \notin [op : {"read", "compress"}, blk : Ranks]

VARIABLES
    tPending, tActive, wPending, wActive,   \* the two pools
    file,       \* the request: format, linked blocks; and the source file:
                \* its whole chunks, and if a short one follows
    fpos,       \* chunks read from it
    readErr,    \* an fread has failed (ferror)
    blockNb, prefix, hashed,    \* ReadTracker: next block, 64 KB prefix, xxh32
    content,    \* what each block was made from
    at,         \* where each tPool worker is in its job
    main,       \* where the main thread is
    endMark,    \* the end mark's checksum, once written
    removed     \* --rm has removed the source

ReadJob == [op |-> "read", blk |-> 0]
CompressJob(k) == [op |-> "compress", blk |-> k]
TJobs == {ReadJob} \cup {CompressJob(k) : k \in Ranks}

T == INSTANCE JobPool WITH Workers <- TWorkers, Jobs <- TJobs,
        QueueSize <- TQueueSize, pending <- tPending, active <- tActive
W == INSTANCE JobPool WITH Workers <- {writer}, Jobs <- Ranks,
        QueueSize <- WQueueSize, pending <- wPending, active <- wActive

tVars == <<tPending, tActive>>
wVars == <<wPending, wActive>>
readVars == <<fpos, readErr, blockNb, prefix, hashed, content>>
tailVars == <<endMark, removed>>
vars == <<tVars, wVars, wrVars, file, readVars, at, main, tailVars>>

\* The block's source chunk, whether it was cut short by a read error, and the
\* chunk whose tail serves as its dictionary (-1: none).
Contents == [chunk : Ranks, cut : BOOLEAN, prefix : -1..MaxChunks]

Requests == [format : {"frame", "legacy"}, linked : BOOLEAN, full : 0..MaxChunks, tail : BOOLEAN]

TypeOK ==
    /\ T!TypeOK /\ W!TypeOK /\ RegisterTypeOK
    /\ file \in Requests
    /\ fpos \in 0..(MaxChunks + 1) /\ readErr \in BOOLEAN
    /\ blockNb \in 0..(MaxChunks + 1) /\ prefix \in -1..MaxChunks
    /\ hashed \in Seq(Ranks)
    /\ content \in [Ranks -> Contents \cup {NULL}]
    /\ at \in [TWorkers -> {"begin", "submitC", "submitR", "submitW", "return"}]
    /\ main \in {"open", "first", "chain", "waitT", "waitW", "close", "done", "exit"}
    /\ endMark \in Seq(Ranks) \cup {NULL}
    /\ removed \in BOOLEAN

Init ==
    /\ T!Init /\ W!Init /\ WR_init
    /\ file \in Requests
    /\ file.full = MaxChunks => ~file.tail
    /\ file.format = "legacy" => ~file.linked
    /\ fpos = 0 /\ readErr = FALSE
    /\ blockNb = 0 /\ prefix = -1 /\ hashed = <<>>
    /\ content = [k \in Ranks |-> NULL]
    /\ at = [w \in TWorkers |-> "begin"]
    /\ main = "open" /\ endMark = NULL /\ removed = FALSE

-----------------------------------------------------------------------------
(* fread of one chunk: the size class of what it returns                   *)

Left == IF fpos < file.full THEN "whole"
        ELSE IF fpos = file.full /\ file.tail THEN "part" ELSE "none"

Fread(size, err) == \/ size = Left /\ ~err
                    \/ size \in {"none", IF Left = "none" THEN "none" ELSE "part"} /\ err

\* The chunk just read becomes block n: it is hashed, and its tail becomes the
\* prefix of the next block in linked mode.
Take(n, err) ==
    /\ content' = [content EXCEPT ![n] = [chunk |-> fpos, cut |-> err,
                                          prefix |-> prefix]]
    /\ hashed' = Append(hashed, fpos)
    /\ prefix' = IF file.linked THEN fpos ELSE -1
    /\ fpos' = fpos + 1

-----------------------------------------------------------------------------
(* The main thread                                                         *)

\* Frame format: the first chunk is read before anything is compressed, and
\* this fread is followed by an ferror test.
OpenFrame(size, err) ==
    /\ main = "open" /\ file.format = "frame" /\ Fread(size, err)
    /\ readErr' = err
    /\ \/ err /\ main' = "exit" /\ UNCHANGED <<fpos, prefix, hashed, content, tailVars, out>>
       \/ ~err /\ size = "whole" /\ main' = "first" /\ Take(0, FALSE)
          /\ UNCHANGED <<tailVars, out>>
       \* less than one chunk: LZ4F_compressFrame writes the frame at once
       \/ /\ ~err /\ size # "whole" /\ main' = "close"
          /\ out' = IF size = "part" THEN <<0>> ELSE <<>>
          /\ IF size = "part" THEN Take(0, FALSE)
             ELSE UNCHANGED <<fpos, prefix, hashed, content>>
          /\ endMark' = hashed' /\ UNCHANGED removed
    /\ UNCHANGED <<tVars, wVars, expectedRank, buffers, draining,
                   file, blockNb, at>>

OpenLegacy ==
    /\ main = "open" /\ file.format = "legacy"
    /\ main' = "chain"
    /\ UNCHANGED <<tVars, wVars, wrVars, file, readVars, at, tailVars>>

SubmitFirst ==
    /\ main = "first"
    /\ T!Submit(CompressJob(0))
    /\ blockNb' = 1 /\ main' = "chain"
    /\ UNCHANGED <<wVars, wrVars, file, fpos, readErr, prefix, hashed,
                   content, at, tailVars>>

StartChain ==
    /\ main = "chain"
    /\ T!Submit(ReadJob)
    /\ main' = "waitT"
    /\ UNCHANGED <<wVars, wrVars, file, readVars, at, tailVars>>

WaitT ==
    /\ main = "waitT" /\ T!AllCompleted
    /\ main' = "waitW"
    /\ UNCHANGED <<tVars, wVars, wrVars, file, readVars, at, tailVars>>

\* wPool is done too: the frame's end mark and checksum are written.
WaitW ==
    /\ main = "waitW" /\ W!AllCompleted
    /\ main' = "close"
    /\ endMark' = IF file.format = "frame" THEN hashed ELSE endMark
    /\ UNCHANGED <<tVars, wVars, wrVars, file, readVars, at, removed>>

\* The files are closed; only the frame path looks at --rm.
Close(rm) ==
    /\ main = "close"
    /\ main' = "done" /\ removed' = (rm /\ file.format = "frame")
    /\ UNCHANGED <<tVars, wVars, wrVars, file, readVars, at, endMark>>

Main == \/ \E size \in {"whole", "part", "none"}, err \in BOOLEAN : OpenFrame(size, err)
        \/ OpenLegacy \/ SubmitFirst \/ StartChain \/ WaitT \/ WaitW
        \/ \E rm \in BOOLEAN : Close(rm)

-----------------------------------------------------------------------------
(* The threads of tPool                                                    *)

TStart(w) ==
    /\ T!Start(w)
    /\ at' = [at EXCEPT ![w] = "begin"]
    /\ UNCHANGED <<wVars, wrVars, file, readVars, main, tailVars>>

\* LZ4IO_readAndProcess up to its first submission.  ferror is not tested: a
\* failed fread is taken for the end of the file.
ReadAndProcess(w, size, err) ==
    /\ tActive[w] = ReadJob /\ at[w] = "begin" /\ Fread(size, err)
    /\ readErr' = err
    /\ IF size = "none"
       THEN /\ at' = [at EXCEPT ![w] = "return"]
            /\ UNCHANGED <<fpos, prefix, hashed, content>>
       ELSE /\ at' = [at EXCEPT ![w] = "submitC"]
            /\ Take(blockNb, err)
    /\ UNCHANGED <<tVars, wVars, wrVars, file, blockNb, main, tailVars>>

\* A full chunk means there is likely more.
ReadMore == ~content[blockNb].cut /\ content[blockNb].chunk < file.full

\* Mutant: the block number is not advanced.
SubmitCompressSameNb(w) ==
    /\ tActive[w] = ReadJob /\ at[w] = "submitC"
    /\ T!Submit(CompressJob(blockNb))
    /\ at' = [at EXCEPT ![w] = IF ReadMore THEN "submitR" ELSE "return"]
    /\ UNCHANGED <<wVars, wrVars, file, readVars, main, tailVars>>

SubmitCompress(w) ==
    /\ tActive[w] = ReadJob /\ at[w] = "submitC"
    /\ T!Submit(CompressJob(blockNb))
    /\ at' = [at EXCEPT ![w] = IF ReadMore THEN "submitR" ELSE "return"]
    /\ blockNb' = IF ReadMore THEN blockNb + 1 ELSE blockNb
    /\ UNCHANGED <<wVars, wrVars, file, fpos, readErr, prefix, hashed,
                   content, main, tailVars>>

SubmitRead(w) ==
    /\ tActive[w] = ReadJob /\ at[w] = "submitR"
    /\ T!Submit(ReadJob)
    /\ at' = [at EXCEPT ![w] = "return"]
    /\ UNCHANGED <<wVars, wrVars, file, readVars, main, tailVars>>

\* LZ4IO_compressChunk: compress, then hand the block to the writer.
CompressChunk(w) ==
    /\ tActive[w] # NoJob /\ tActive[w].op = "compress" /\ at[w] = "begin"
    /\ at' = [at EXCEPT ![w] = "submitW"]
    /\ UNCHANGED <<tVars, wVars, wrVars, file, readVars, main, tailVars>>

SubmitWrite(w) ==
    /\ at[w] = "submitW"
    /\ W!Submit(tActive[w].blk)
    /\ at' = [at EXCEPT ![w] = "return"]
    /\ UNCHANGED <<tVars, wrVars, file, readVars, main, tailVars>>

TFinish(w) ==
    /\ at[w] = "return" /\ T!Finish(w)
    /\ UNCHANGED <<wVars, wrVars, file, readVars, at, main, tailVars>>

TWorker(w) ==
    \/ TStart(w) \/ SubmitCompress(w) \/ SubmitRead(w)
    \/ \E size \in {"whole", "part", "none"}, err \in BOOLEAN : ReadAndProcess(w, size, err)
    \/ CompressChunk(w) \/ SubmitWrite(w) \/ TFinish(w)

-----------------------------------------------------------------------------
(* The thread of wPool                                                     *)

otherVars == <<tVars, file, readVars, at, main, tailVars>>

\* Mutant: the writer waits for the expected block.
CheckWriteOrderWaits ==
    /\ wActive[writer] # NoJob
    /\ WriteBlock(wActive[writer])
    /\ UNCHANGED <<wVars, otherVars>>

\* A stored block ends the job; the expected one starts the drain loop.
CheckWriteOrder ==
    /\ wActive[writer] # NoJob
    /\ \/ WriteBlock(wActive[writer]) /\ UNCHANGED wVars
       \/ StoreBlock(wActive[writer]) /\ W!Finish(writer)
    /\ UNCHANGED otherVars

Writer ==
    \/ W!Start(writer) /\ UNCHANGED <<wrVars, otherVars>>
    \/ CheckWriteOrder
    \/ DrainBlock /\ UNCHANGED <<wVars, otherVars>>
    \/ DrainEnds /\ W!Finish(writer) /\ UNCHANGED otherVars

\* LZ4IO_writeBuffer fails: END_PROCESS(38).
WriteFails ==
    /\ wActive[writer] # NoJob
    /\ main' = "exit"
    /\ UNCHANGED <<tVars, wVars, wrVars, file, readVars, at, tailVars>>

-----------------------------------------------------------------------------
Terminated == main \in {"done", "exit"} /\ UNCHANGED vars

Next ==
    \/ /\ main # "exit"
       /\ Main \/ (\E w \in TWorkers : TWorker(w)) \/ Writer \/ WriteFails
    \/ Terminated

Spec == Init /\ [][Next]_vars

\* Each thread keeps running while it can: blocking calls are the disabled
\* actions.  Nothing makes a write fail.
Fairness ==
    /\ WF_vars(main # "exit" /\ Main)
    /\ \A w \in TWorkers : WF_vars(main # "exit" /\ TWorker(w))
    /\ WF_vars(main # "exit" /\ Writer)

FairSpec == Spec /\ Fairness

-----------------------------------------------------------------------------
(* Safety                                                                  *)

Chunks == 0..(file.full - (IF file.tail THEN 0 ELSE 1))
Readers == {w \in TWorkers : tActive[w] = ReadJob /\ at[w] # "return"}

\* Whatever the interleaving of compressors, the file holds blocks 0, 1, ...
\* in order, block k was made from chunk k, and in linked mode its dictionary
\* is the end of chunk k-1 (LZ4IO_readAndProcess's prefix copy).
BlocksInOrder ==
    \A i \in 1..Len(out) :
        /\ out[i] = i - 1
        /\ content[i - 1].chunk = i - 1
        /\ content[i - 1].prefix = IF file.linked THEN i - 2 ELSE -1

\* There is at most one read job queued, or running and not past its last
\* submission: the ReadTracker, the checksum state, the prefix and the input
\* FILE are shared by successive read jobs without a lock.
OneReader ==
    LET queued == {i \in 1..Len(tPending) : tPending[i] = ReadJob} IN
    /\ \A v, w \in Readers : v = w
    /\ \A i, k \in queued : i = k
    /\ Readers = {} \/ queued = {}
    /\ main \in {"first", "chain"} => Readers = {}

\* A tPool worker never waits for room in tPool's own queue, so the pool cannot
\* block on itself, and queuePushCond of tPool has no sleeper but the main
\* thread; wPool's has either compressors or the main thread, never both.  A
\* pthread_cond_signal therefore never wakes the wrong kind of waiter.
NoSelfBlocking ==
    /\ \A w \in TWorkers : at[w] \in {"submitC", "submitR"} /\ tActive[w] # NoJob
                             => Len(tPending) < TQueueSize
    /\ main = "waitW" => \A w \in TWorkers : tActive[w] = NoJob

\* The pool is used without locks of its own and without blocking on itself: what the
\* order of the two submissions at the end of LZ4IO_readAndProcess is for.
ReadersChained == TypeOK /\ OneReader /\ NoSelfBlocking

\* The end mark is written after the last block, over a quiet pipeline: no
\* job is queued or running (block 0's descriptor lives on the main thread's
\* stack), the register holds nothing back, and the checksum covers exactly
\* the chunks that were written, in order.
EndMarkSealsFrame ==
    endMark # NULL =>
        /\ T!AllCompleted /\ W!AllCompleted /\ Stored = {} /\ ~draining
        /\ Len(out) = Len(endMark)
        /\ \A i \in 1..Len(out) : content[out[i]].chunk = endMark[i]

\* Without a read error the whole source is in the output when the function
\* returns, and when --rm removes it, for sizes that are a multiple of the chunk
\* and for those that are not.
WholeFileWritten ==
    (main = "done" \/ removed) /\ ~readErr =>
        {content[out[i]].chunk : i \in 1..Len(out)} = Chunks

\* The frame that is left behind is the whole source, sealed.
FrameComplete == EndMarkSealsFrame /\ WholeFileWritten

\* LZ4IO_compressFilename_extRess_MT writes the frame of the file: blocks in order, one
\* reader at a time, the end mark behind all of them.
FrameRight == BlocksInOrder /\ ReadersChained /\ FrameComplete

\* The pipeline uses the write register the way it is made for: one arrival per
\* block number, one at a time.  What WriteRegisterProofs proves of every such use
\* therefore holds here.
Register == INSTANCE WriteRegisterUse WITH
    out <- SubSeq(out, 1, expectedRank),    \* a small file's block bypasses the register
    arrived <- (0..(expectedRank - 1)) \cup Stored
ImplementsRegisterUse == Register!UseSpec

-----------------------------------------------------------------------------
(* Liveness                                                                *)

\* Compression ends: the two waits of the main thread are not circular with
\* the workers' submissions to the two bounded queues.
Terminates == <>(main \in {"done", "exit"})
=============================================================================
