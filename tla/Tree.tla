-------------------------------- MODULE Tree --------------------------------
(***************************************************************************)
(* A test tree once it is loaded (core/codegen/codegen_tree.c).  A node is *)
(* the rank of its definition in the item table, which tree_scan fills     *)
(* before the node's children: node 1 is the head, and the nodes below a   *)
(* sequence follow it without a gap.  A tree is a record                    *)
(*   up    : up[i] is parent_seq of node i, 0 for the head                  *)
(*   case  : the nodes of type TYPE_CASE, the others being TYPE_SEQ         *)
(*   brkIf : the cases with FLAG_BREAK_IF_FAILED                            *)
(*   abtIf : the cases with FLAG_ABORT_IF_FAILED                            *)
(*   pre   : pre[c] is the set of preconditions <<neq, verdict>> of case c  *)
(* and NULL is 0.                                                           *)
(***************************************************************************)
EXTENDS Integers, FiniteSets, Sequences, FiniteSetsExt, Functions

(* The values of tree_verdict_t. *)
UNEXECUTED == -1
PASSED == 0
FAILED == 1
INCONCLUSIVE == 2
SKIP == 3
EXECUTED == 4
Verdict == UNEXECUTED .. EXECUTED

Node(t) == DOMAIN t.up
Children(t, s) == {i \in Node(t) : t.up[i] = s}

(* The chain of parent_seq links above a node, nearest first: the loops    *)
(* `obj = obj->parent_seq' of the code.                                    *)
Above(t, i) ==
  LET chain[j \in 0 .. Len(t.up)] ==
        IF j = 0 THEN <<>>
        ELSE IF t.up[j] = 0 THEN <<>> ELSE <<t.up[j]>> \o chain[t.up[j]]
  IN  chain[i]
Inside(t, s) == {i \in Node(t) : s \in Range(Above(t, i))}

(* What tree_scan can build: each node hangs below the sequence being      *)
(* scanned, and a sequence that got no node was removed.                   *)
IsTree(t) ==
  /\ t.up \in Seq(Nat) /\ t.up # <<>> /\ t.up[1] = 0
  /\ \A i \in Node(t) \ {1} :
       /\ t.up[i] \in 1 .. i - 1
       /\ \A k \in t.up[i] + 1 .. i - 1 : k \in Inside(t, t.up[i])
  /\ t.case = {i \in Node(t) : Children(t, i) = {}}
  /\ 1 \notin t.case

-----------------------------------------------------------------------------
(* The walk over the tree. *)

NextSibling(t, i) ==
  LET later == {j \in Children(t, t.up[i]) : j > i}
  IN  IF later = {} THEN 0 ELSE Min(later)

(* tree_object_link_seq gives each node the sibling that follows it, or    *)
(* what follows its parent; break_jump is what follows the parent.         *)
BugEndJump(t, i) == IF t.up[i] = 0 THEN 0 ELSE NextSibling(t, i)
EndJump(t, i) ==
  LET jump[j \in 0 .. Len(t.up)] ==
        IF j = 0 \/ (j > 0 /\ t.up[j] = 0) THEN 0
        ELSE IF NextSibling(t, j) # 0 THEN NextSibling(t, j)
        ELSE jump[t.up[j]]
  IN  jump[i]
BugBreakJump(t, i) == EndJump(t, i)
BreakJump(t, i) == EndJump(t, t.up[i])

(* Down to the first case of a sequence: nodes[0], the node that follows   *)
(* it in the table, again and again.                                       *)
FirstCase(t, i) == IF i = 0 THEN 0 ELSE Min({c \in t.case : c >= i})

(* The case that tree_object_executed sends the walk to after a verdict. *)
BugNextCase(t, c, v) ==
  FirstCase(t, IF v \in {FAILED, INCONCLUSIVE} /\ c \in t.brkIf
               THEN BreakJump(t, c)
               ELSE IF v \in {FAILED, INCONCLUSIVE} /\ c \in t.abtIf THEN 0
               ELSE EndJump(t, c))
NextCase(t, c, v) ==
  FirstCase(t, IF v \in {FAILED, INCONCLUSIVE} /\ c \in t.abtIf THEN 0
               ELSE IF v \in {FAILED, INCONCLUSIVE} /\ c \in t.brkIf
               THEN BreakJump(t, c)
               ELSE EndJump(t, c))

(* tree_precond_evaluate: every precondition is evaluated on the verdict   *)
(* that the caller gives, whatever case it names.                          *)
Evaluate(pre, v) == \A p \in pre : (v = p[2]) # p[1]

(* tree_object_precond. *)
Precond(t, c, skip, verdict) == c \notin skip /\ Evaluate(t.pre[c], verdict[c])
=============================================================================
