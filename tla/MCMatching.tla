---------------------------- MODULE MCMatching ----------------------------
(* Small instances of Matching for TLC. *)
EXTENDS Matching

Whole2 == {1, 2}
MCModes == {{"appear", "retrigger"}}

(* A frame with or without a filter, another one below it, a pattern. *)
MCFrame(lazy) == AddFrame(Blank, "A", Root, Whole2, lazy)
MCFiltered(s) == LET t == AddFilter(s, 1)
                 IN  UpdateNext([t EXCEPT !.asks = <<>>,
                       !.fr[1].buf = [c \in Cell |-> [v |-> 0, n |-> 1]]], 1)
MCTree(s, win) == AddFrame(s, "B", 1, win, FALSE)
MCAtRest(s) == IF s.jobs[1].pat = None THEN s ELSE ImageReply(ImageReply(s, 1), 2)
MCOn(s, f, mode) == MCAtRest(AddPattern(s, f, "image", mode, s.fr[f].win, TRUE))
MCRead(s) == TextReply([s EXCEPT !.ocr[1].asks = <<>>], 1, 0, 0)
MCText(s, mode) == MCRead(AddPattern(s, 1, "text", mode, {1}, TRUE))
MCFilteredTree == MCTree(MCFiltered(MCFrame(FALSE)), {2})
MCLazyTree == MCTree(MCFrame(TRUE), Whole2)
MCSetups == {MCOn(MCFilteredTree, 1, {"appear"}),
             MCOn(MCFilteredTree, 2, {"appear", "retrigger"}),
             MCOn(MCLazyTree, 2, {"appear", "disappear"}),
             MCText(MCFrame(FALSE), {"appear"})}
MCTextSetups == {MCText(MCFrame(FALSE), {"appear", "retrigger"})}
=============================================================================
