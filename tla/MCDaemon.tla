------------------------------ MODULE MCDaemon ------------------------------
(* Two clients, and either two workers, or one, so that a connection waits *)
(* for a busy worker, with requests of all kinds.                          *)
EXTENDS Daemon

CONSTANTS c1, c2

Request(mode, block, valid, raw) ==
    [mode |-> mode, block |-> block, valid |-> valid, raw |-> raw]
Path == Request("compress", "large", TRUE, FALSE)
Raw == Request("decompress", "small", TRUE, TRUE)
Invalid == Request("compress", "small", FALSE, FALSE)

Load(n, r1, r2) == [workers |-> n, req |-> [c \in Clients |-> IF c = c1 THEN r1 ELSE r2]]
MixedLoads == {Load(1, Path, Raw), Load(1, Raw, Invalid), Load(2, Path, Invalid)}
=============================================================================
