----------------------------- MODULE MCTreeRun -----------------------------
(* A tree of two scenarios, with the flags that change the walk. *)
EXTENDS TreeRun

MCTree == [up |-> <<0, 1, 2, 1>>, case |-> {3, 4},
           brkIf |-> {}, abtIf |-> {3},
           pre |-> [c \in {3, 4} |->
                      IF c = 4 THEN {<<TRUE, PASSED>>} ELSE {}]]
MCAck == {-3, -2}
MCMarked == {3}
MCResults == {PASSED, FAILED, INCONCLUSIVE}
=============================================================================
