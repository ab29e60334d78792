----------------------------- MODULE MCTCPClient -----------------------------
(* NPDTCPClient with small numbers of threads, messages and retries. *)
EXTENDS TCPClient

CONSTANTS a, b, c

Bytes256 == 0..255
Lengths == {21, -1024}      \* bytes of a frame; -1024: rmem_max could not be read
Fds == {-1, 0, 3}
=============================================================================
