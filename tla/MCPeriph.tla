------------------------------ MODULE MCPeriph ------------------------------
(* Small instances of Periph for TLC. *)
EXTENDS Periph, TLC

CONSTANTS i1, i2

MCFd == 3 .. 4
MCOneFd == {3}
MCTwoPids == 101 .. 102
MCSymmetry == Permutations(Item)
=============================================================================
