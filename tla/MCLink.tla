------------------------------- MODULE MCLink -------------------------------
(* Small instances of Link for TLC. *)
EXTENDS Link

CONSTANTS a1, n1, n2

MCPid == 1 .. 3
MCHandler == {0, 1, a1}
MCForker == {1}
=============================================================================
