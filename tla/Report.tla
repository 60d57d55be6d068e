------------------------------- MODULE Report -------------------------------
(***************************************************************************)
(* The output manager (core/output/output.c) and the XML document that it  *)
(* writes (core/output/output_xml.c).  Its operations run inside the       *)
(* handlers of the runner, so each one is an operator from a report to the *)
(* report it leaves.  A report is a record                                 *)
(*   open   : file.f is not NULL                                           *)
(*   cur    : cur_obj, the case whose element was begun last, 0 for NULL   *)
(*   path   : the elements of the document that are begun and not ended,   *)
(*            outermost first: nodes of the tree, and STDIO                *)
(*   broken : an end tag did not match the element it ends, or a verdict   *)
(*            was written outside the element of a case                    *)
(*   xml    : the verdicts written in the last element of each case        *)
(*   logs   : the engine logs merged into the file, each "part" or "all"   *)
(*   exists : the file has been created                                    *)
(*   mem    : out->cases, the verdict in memory of each case, ABSENT if    *)
(*            the case has no entry                                        *)
(*   case   : out->cur_case                                                *)
(***************************************************************************)
EXTENDS Tree, SequencesExt

STDIO == 0                  \* in path: the element <STDIO>
ABSENT == -2                \* in mem: no entry

NewReport(t) ==
  [open |-> FALSE, cur |-> 0, path |-> <<>>, broken |-> FALSE,
   xml |-> [c \in t.case |-> <<>>], logs |-> <<>>, exists |-> FALSE,
   mem |-> [c \in t.case |-> ABSENT], case |-> 0]

-----------------------------------------------------------------------------
(* Elements. *)

StdioClose(r) ==
  IF r.path # <<>> /\ Last(r.path) = STDIO
  THEN [r EXCEPT !.path = Front(@)] ELSE r

Begin(r, i) == [r EXCEPT !.path = Append(@, i)]
End(r, i) ==
  LET s == StdioClose(r)
  IN  IF s.path # <<>> /\ Last(s.path) = i
      THEN [s EXCEPT !.path = Front(@)] ELSE [s EXCEPT !.broken = TRUE]

BeginAll(r, nodes) == [r EXCEPT !.path = @ \o nodes]
EndAll(r, nodes) ==
  LET ended[k \in 0 .. Len(nodes)] ==
        IF k = 0 THEN r ELSE End(ended[k - 1], nodes[k])
  IN  ended[Len(nodes)]

(* The elements of a node and of those above it, outermost first. *)
Line(t, i) == Append(Reverse(Above(t, i)), i)

(* output_xml_common_ancestor, and output_xml_case's default for it; a     *)
(* node comes after those above it.                                        *)
CommonAncestor(t, i, j) ==
  LET both == Range(Above(t, i)) \cap Range(Above(t, j))
  IN  IF i = 0 \/ both = {} THEN 1 ELSE Max(both)
(* The nodes above i before anc is reached. *)
Below(t, i, anc) ==
  LET up == Above(t, i)
  IN  SubSeq(up, 1, (CHOOSE k \in DOMAIN up : up[k] = anc) - 1)

BugXmlCase(t, r, c) ==
  IF ~ r.open THEN r
  ELSE LET anc == CommonAncestor(t, r.cur, c)
           ended == IF r.cur = 0 THEN StdioClose(r)
                    ELSE End(StdioClose(r), r.cur)
       IN  [Begin(BeginAll(ended, Reverse(Below(t, c, anc))), c)
              EXCEPT !.cur = c, !.xml[c] = <<>>]
XmlCase(t, r, c) ==
  IF ~ r.open THEN r
  ELSE LET anc == CommonAncestor(t, r.cur, c)
           ended == IF r.cur = 0 THEN StdioClose(r)
                    ELSE EndAll(StdioClose(r),
                                <<r.cur>> \o Below(t, r.cur, anc))
       IN  [Begin(BeginAll(ended, Reverse(Below(t, c, anc))), c)
              EXCEPT !.cur = c, !.xml[c] = <<>>]

XmlVerdict(r, v) ==
  IF ~ r.open THEN r
  ELSE LET s == StdioClose(r)
       IN  IF s.path # <<>> /\ s.cur # 0 /\ Last(s.path) = s.cur
           THEN [s EXCEPT !.xml[s.cur] = Append(@, v)]
           ELSE [s EXCEPT !.broken = TRUE]

-----------------------------------------------------------------------------
(* Operations of the output manager. *)

WriteOpen(t) ==               \* what the last report left is cleared
  [NewReport(t) EXCEPT !.open = TRUE, !.exists = TRUE, !.path = <<1>>]

WriteStdio(r) ==
  IF r.open /\ (r.path = <<>> \/ Last(r.path) # STDIO)
  THEN Begin(r, STDIO) ELSE r

WriteCase(t, r, c) ==
  XmlCase(t, [r EXCEPT !.mem[c] = UNEXECUTED, !.case = c], c)

WriteVerdict(r, v) ==
  XmlVerdict(IF r.case = 0 THEN r ELSE [r EXCEPT !.mem[r.case] = v], v)

(* The elements left open are ended from the current case up to the head. *)
WriteClose(t, r) ==
  IF ~ r.open THEN r
  ELSE LET s == EndAll(StdioClose(r), IF r.cur = 0 THEN <<1>>
                                      ELSE <<r.cur>> \o Above(t, r.cur))
       IN  [s EXCEPT !.open = FALSE, !.cur = 0]

(* output_xml_merge appends the log of the engine to a finished document   *)
(* whose last lines do not end a log.  A log that is not finished yet is   *)
(* appended each time: its copies count for one.                            *)
BugMerge(r, log) ==
  IF ~ r.exists \/ r.open \/ log = "none" \/ Len(r.logs) > 2 THEN r
  ELSE [r EXCEPT !.logs = Append(@, log)]
Merge(r, log) ==
  IF ~ r.exists \/ r.open \/ log = "none" THEN r
  ELSE IF r.logs # <<>> /\ Last(r.logs) \in {"all", log} THEN r
  ELSE [r EXCEPT !.logs = Append(@, log)]
=============================================================================
