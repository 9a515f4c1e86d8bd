------------------------------ MODULE FrameFile -------------------------------
(***************************************************************************)
(* The writing half of lib/lz4file.c: a file that is one frame, written    *)
(* with a context of its own and one output buffer.                        *)
(***************************************************************************)
EXTENDS FrameCompress

VARIABLE wf     \* LZ4_writeFile_t, what its caller was told, and what reached the file

fvars == <<cctx, call, wf>>

NoFile == [state |-> "none", null |-> FALSE, maxWriteSize |-> 0, dstBufMaxSize |-> 0, errCode |-> FALSE,
           told |-> FALSE, ioError |-> FALSE, lost |-> FALSE]

\* LZ4F_INIT_PREFERENCES, and what LZ4F_compressBound makes of no preferences.
DefaultPrefs ==
    [bs |-> CHOOSE b \in BlockSizes : \A x \in BlockSizes : b <= x, linked |-> TRUE, autoFlush |-> FALSE,
     hc |-> FALSE, blockChecksum |-> FALSE, contentChecksum |-> FALSE, dict |-> "none", contentSize |-> 0]
WorstPrefs == [DefaultPrefs EXCEPT !.blockChecksum = TRUE, !.contentChecksum = TRUE]

\* LZ4F_writeOpen, with preferences or without
WriteOpen == \E p \in Prefs, null, written \in BOOLEAN :
    LET q == IF null THEN DefaultPrefs ELSE p
        c == LZ4F_compressBegin_internal([NewContext EXCEPT !.pos = cctx.pos, !.frames = cctx.frames], q, TRUE)
    IN  /\ wf.state # "open" /\ cctx.frames < MaxFrames /\ p.dict = "none" /\ p.contentSize = 0
        /\ cctx' = c /\ UNCHANGED call
        /\ wf' = [NoFile EXCEPT !.state = IF written THEN "open" ELSE "closed", !.null = null,
                                !.maxWriteSize = q.bs,
                                !.dstBufMaxSize = LZ4F_compressBound(0, IF null THEN WorstPrefs ELSE p),
                                !.told = ~written, !.ioError = ~written]

\* fwrite of the n bytes a chunk became: a short write loses them.
Fwritten(w, n, fail) == IF fail /\ n > 0 THEN [w EXCEPT !.ioError = TRUE, !.lost = TRUE] ELSE w

\* One round of the loop of LZ4F_write: a chunk of k bytes is compressed, and written.
ChunkWritten(c, w, fail) ==
    LET f == Erred(c) \/ (fail /\ c.written > 0)
        x == IF Erred(c) THEN w ELSE Fwritten(w, c.written, fail)
    IN  [c |-> [c EXCEPT !.written = 0, !.from = "none"], failed |-> f,
         w |-> [x EXCEPT !.errCode = @ \/ f, !.told = @ \/ f]]

Chunk(c, w, k, fail) ==
    ChunkWritten(LZ4F_compressUpdateImpl(Fresh(c), k, w.dstBufMaxSize, FALSE, "compressed", FALSE), w, fail)

\* The loop, after a round that ended with r; in which of its rounds fwrite fails is given.
RECURSIVE WriteChunks(_, _, _)
WriteChunks(r, n, fail) ==
    LET k == Least(n, r.w.maxWriteSize)
    IN  IF n = 0 \/ r.failed THEN r ELSE WriteChunks(Chunk(r.c, r.w, k, fail = 1), n - k, fail - 1)

\* LZ4F_write.  An error of an earlier call does not keep it from going on.
LZ4F_write(r) == cctx' = r.c /\ wf' = r.w
Write == \E n \in Sizes, fail \in 0..3 :
    /\ wf.state = "open" /\ cctx.pos + n <= MaxInput
    /\ LZ4F_write(WriteChunks([c |-> cctx, w |-> wf, failed |-> FALSE], n, fail))
    /\ UNCHANGED call

\* LZ4F_writeClose: after an error the frame is not ended.
WriteClose == \E written \in BOOLEAN :
    LET e == LZ4F_compressEnd(Fresh(cctx), wf.dstBufMaxSize, FALSE) IN
    /\ wf.state = "open" /\ UNCHANGED call
    /\ IF wf.errCode THEN cctx' = cctx /\ wf' = [wf EXCEPT !.state = "closed"]
       ELSE /\ cctx' = [e EXCEPT !.written = 0, !.from = "none"]
            /\ wf' = [wf EXCEPT !.state = "closed", !.told = @ \/ Erred(e) \/ ~written,
                                !.ioError = @ \/ ~written, !.lost = @ \/ ~written]

FileInit == Init /\ wf = NoFile

FileNext == \/ wf.state # "open" /\ Next /\ wf' = NoFile
            \/ WriteOpen
            \/ Write
            \/ WriteClose

FileSpec == FileInit /\ [][FileNext]_fvars

-----------------------------------------------------------------------------

\* A file that was opened, written and closed without an error is a whole frame of what
\* was written; and with default preferences only a failed write makes an error.
FileIsFrame ==
    /\ (wf.state = "closed" /\ ~wf.told) => cctx.ended /\ ~wf.lost /\ cctx.emitted = cctx.pos
    /\ wf.null /\ wf.told => wf.ioError
=============================================================================
