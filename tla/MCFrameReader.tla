---------------------------- MODULE MCFrameReader ----------------------------
(* Fields of 1 to 3 bytes with the proportions of the format: a skippable   *)
(* frame's header is one byte longer than the shortest frame header, blocks *)
(* are at most 1, 4 or 5 units, and a free caller's input comes in chunks   *)
(* from nothing to the longest header, more than the largest block.  The    *)
(* reader's buffers are smaller than the largest block, as the ones of      *)
(* LZ4IO_createDResources are, and its frames have every combination of     *)
(* checksums.                                                               *)
EXTENDS FrameReader

Block(raw, csize, dsize, crcOk, good) ==
    [raw |-> raw, csize |-> csize, dsize |-> dsize, crcOk |-> crcOk, good |-> good]
Small == Block(FALSE, 3, 4, TRUE, TRUE)
Raw == Block(TRUE, 2, 2, TRUE, TRUE)

F(bChk, cChk, contentSize, blocks) ==
    [type |-> "lz4", header |-> "ok", contentSize |-> contentSize, dictID |-> FALSE,
     bChk |-> bChk, cChk |-> cChk, linked |-> FALSE, blockSize |-> 4, blocks |-> blocks,
     crcOk |-> TRUE, skip |-> 0]
Skippable(n) == [F(FALSE, FALSE, Null, <<>>) EXCEPT !.type = "skippable", !.skip = n]
Unknown == [F(FALSE, FALSE, Null, <<>>) EXCEPT !.type = "unknown"]
Tiny(linked) == [F(FALSE, FALSE, Null, <<Block(TRUE, 1, 1, TRUE, TRUE)>>) EXCEPT !.blockSize = 1, !.linked = linked]

Sound == {F(TRUE, TRUE, 6, <<Small, Raw>>), [F(FALSE, TRUE, Null, <<Small>>) EXCEPT !.linked = TRUE],
          Tiny(TRUE), Skippable(0), Skippable(3)}
Defective ==
    {[F(TRUE, FALSE, 5, <<Raw>>) EXCEPT !.dictID = TRUE], F(TRUE, TRUE, Null, <<Block(FALSE, 3, 4, FALSE, TRUE)>>),
     [F(FALSE, TRUE, Null, <<Raw>>) EXCEPT !.crcOk = FALSE], F(TRUE, FALSE, Null, <<Block(TRUE, 2, 2, FALSE, TRUE)>>),
     F(FALSE, FALSE, Null, <<Block(FALSE, 3, 4, TRUE, FALSE)>>), F(FALSE, FALSE, Null, <<Block(TRUE, 5, 5, TRUE, TRUE)>>),
     [F(FALSE, FALSE, Null, <<>>) EXCEPT !.header = "badFLG"], [F(FALSE, FALSE, 0, <<>>) EXCEPT !.header = "badBD"],
     Unknown}

Usable == F(FALSE, TRUE, Null, <<Small>>)
Second == {Usable, [F(FALSE, TRUE, Null, <<Raw>>) EXCEPT !.crcOk = FALSE], Skippable(1)}
Pairs == {<<f, Usable>> : f \in Sound \cup Defective} \cup {<<f, g>> : f \in {Tiny(TRUE), Skippable(3)}, g \in Second}

Sized(f) == [f EXCEPT !.blockSize = 5]
Good(raw, csize, dsize) == Block(raw, csize, dsize, TRUE, TRUE)
Bodies == {<<>>} \cup {<<Good(FALSE, c, d)>> : c \in 1..5, d \in {0, 3, 5}} \cup {<<Good(TRUE, c, c)>> : c \in 0..5}
               \cup {<<Good(FALSE, 4, 5), Good(TRUE, 3, 3)>>, <<Good(TRUE, 4, 4), Good(FALSE, 5, 2)>>}
Files(bChk, cChk) == {<<Sized(F(bChk, cChk, size, body)), F(FALSE, TRUE, Null, <<>>)>> : size \in {Null, 0}, body \in Bodies}

Usual == Files(TRUE, TRUE) \cup Files(FALSE, TRUE) \cup Files(FALSE, FALSE)
BlockChecksumOnly == Files(TRUE, FALSE)
All == Pairs \cup Usual \cup BlockChecksumOnly

\* LZ4F_decompress knows where it is: its state agrees with its input and output, its hint
\* stays in the frame, and its buffers fit the frame: DecoderInStep, HintStaysInFrame and
\* BuffersFit of FrameDecode.
DecoderSound == DecoderInStep /\ HintStaysInFrame /\ BuffersFit

\* Its verdicts are right: 0 means that the frame was decoded, an error that it is
\* defective: CompleteMeansDecoded and ErrorsAreRight of FrameDecode.
VerdictsRight == CompleteMeansDecoded /\ ErrorsAreRight
=============================================================================
