----------------------------- MODULE MCHybridDaemon -----------------------------
(* HybridDaemon with two workers and two clients.                          *)
EXTENDS HybridDaemon

CONSTANTS c1, c2

MCFileSize == [a |-> 3, e |-> 0]

\* A container of a, of blocks of one byte, one that lacks its last byte, and one
\* with a byte that is not its own.
MCContainer ==
    LET block(i) == <<[file |-> "a", at |-> i]>>
    IN  Written(1, <<1, 2, 1>>, Packed(block(1), 1) \o Packed(block(2), 2) \o Packed(block(3), 1))
MCOthers == [z |-> MCContainer, cut |-> [MCContainer EXCEPT !.payload = Front(@)],
             bad |-> [MCContainer EXCEPT !.payload[4] = Junk],
             o1 |-> Plain(<<>>), o2 |-> Plain(<<>>)]

Request(mode, src, dst, share, threads, block) ==
    [mode |-> mode, src |-> src, dst |-> dst, share |-> share, threads |-> threads, block |-> block]

\* A compression before or after a decompression on the same devices, with other
\* sizes; shares that round to nothing; refused inputs; requests that are not split.
MCLoads ==
    {(c1 :> x[1] @@ c2 :> x[2]) : x \in {
        <<Request("compress", "a", "o1", 50, 1, 1), Request("decompress", "z", "o2", 50, 0, 1)>>,
        <<Request("compress", "a", "o1", 1, 0, 2), Request("compress", "a", "o2", 100, 2, 1)>>,
        <<Request("compress", "a", "o1", 99, 0, 1), Request("decompress", "bad", "o2", 50, 0, 1)>>,
        <<Request("compress", "a", "o1", 0, 0, 2), Request("decompress", "cut", "o2", 50, 0, 1)>>,
        <<Request("compress", "e", "o1", 50, 0, 2), Request("decompress", "z", "o2", 0, 0, 1)>>}}

FairSpec == Spec /\ Fairness

ASSUME SlackAssumption

\* A request split between two devices is answered 0 only if it was done, with its own
\* options (the daemon's worker_thread of lz4_hybrid): SplitAnswersRight and OwnParameters.
SplitRequestsRight == SplitAnswersRight /\ OwnParameters
=============================================================================
