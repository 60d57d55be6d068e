----------------------------- MODULE FrameTree -----------------------------
(***************************************************************************)
(* The frames of the virtual user (vu/client/frame.c), the agent of their  *)
(* external filters (filter_ext.c), the patterns searched in them          *)
(* (match.c, match_image.c, match_text.c) and the agents that read text    *)
(* (ocr.c).                                                                *)
(*                                                                         *)
(* Functions of the code that call each other are operators from a state   *)
(* of the program to the next one.  Images are rows of Cells, each half of *)
(* what a search scans and a line of text: a cell shows nothing that is    *)
(* searched (0), the picture and a line that matches (1), or another line  *)
(* that matches (2); it also has the number of filters it went through.    *)
(* An address is used once, so that a use of freed memory shows: it ends   *)
(* the program.                                                            *)
(* A filter leaves a pixel as it is when the pixel went through it already *)
(* (see README.md for the filters that do not).  Definitions that begin    *)
(* with Bug are mistakes for the properties to find.                       *)
(***************************************************************************)
EXTENDS Integers, Sequences, FiniteSets
LOCAL INSTANCE FiniteSetsExt
LOCAL INSTANCE SequencesExt

CONSTANTS None,
          NCells,
          NFrames,        \* frames that are ever created
          NPatterns       \* patterns that are ever created

ASSUME FrameTreeAssumption ==
  NCells \in Nat \ {0} /\ NFrames \in Nat /\ NPatterns \in Nat

Root == 0
Nowhere == -1           \* where a picture was matched: at no place,
Null == 0               \* or in the empty window, which passes for a place
Frame == 0 .. NFrames
Pattern == 1 .. NPatterns
Cell == 1 .. NCells
Job == 1 .. NPatterns * NCells    \* the code adds descriptors when it needs them

NoFrame == [st |-> "none", id |-> None, parent |-> None, win |-> {}, kids |-> <<>>,
            chain |-> 0, live |-> {}, next |-> 0, lazy |-> FALSE, locked |-> FALSE,
            upd |-> {}, ref |-> {}, buf |-> [c \in Cell |-> [v |-> 0, n |-> 0]]]
NoPattern == [st |-> "none", text |-> FALSE, str |-> 0, frame |-> None, win |-> {}, mode |-> {},
              busy |-> FALSE, request |-> FALSE, state |-> 0,
              matched |-> Null, matched0 |-> Null]
NoJob == [pat |-> None, cell |-> None, frame |-> None,
          done |-> FALSE, hit |-> FALSE, aborted |-> FALSE]
NoOcr == [agent |-> "off", asks |-> <<>>, out |-> <<>>]

(* The program as it starts, with its root frame. *)
Blank == [fr |-> [f \in Frame |-> IF f = Root
                    THEN [NoFrame EXCEPT !.st = "idle", !.win = Cell] ELSE NoFrame],
          pt |-> [q \in Pattern |-> NoPattern],
          jobs |-> [j \in Job |-> NoJob], pipe |-> <<>>,
          ocr |-> [f \in Frame |-> NoOcr],
          agent |-> "off", asks |-> <<>>, answers |-> <<>>, died |-> FALSE,
          crash |-> "no"]

(* The call of op for each item of a list, and for each item of a set. *)
RECURSIVE Each(_, _, _)
Each(op(_, _), s, l) == IF l = <<>> THEN s ELSE Each(op, op(s, Head(l)), Tail(l))
ForEach(op(_, _), s, S) == Each(op, s, SetToSeq(S))

Crash(s, why) == [s EXCEPT !.crash = IF @ = "no" THEN why ELSE @]

(* frame_geometry_union: the smallest row of cells around two. *)
Hull(C) == IF C = {} THEN {} ELSE Min(C) .. Max(C)

(* What the cell shows once the filters of the frame have worked. *)
Look(s, f, c) == IF s.fr[f].buf[c].n = s.fr[f].chain THEN s.fr[f].buf[c].v ELSE 0

InTree(s, f) == s.fr[f].st \in {"idle", "update"}
Freed(s, f) == s.fr[f].st = "freed"

-----------------------------------------------------------------------------
(* The agent of the filters: "on", "off" (no descriptor), or "dead" before *)
(* its end is read.                                                        *)

DisableAgent(s) == [s EXCEPT !.agent = "off", !.asks = <<>>, !.answers = <<>>]

(* filter_ext_enable_agent: a new agent knows none of the filters. *)
EnableAgent(s) ==
  IF s.agent # "off" THEN s
  ELSE ForEach(LAMBDA t, f : [t EXCEPT !.fr[f].live = {}],
               [s EXCEPT !.agent = "on"], Frame)

(* agent_request, with a request that is not answered if m is None. *)
AgentRequest(s, m) ==
  CASE s.agent = "off"  -> Crash(s, "agent")
    [] s.agent = "dead" -> DisableAgent(s)
    [] OTHER            -> IF m = None THEN s ELSE [s EXCEPT !.asks = Append(@, m)]

(* filter_ext_destroy, for each filter of the frame.  The agent of no      *)
(* filter at all is killed.                                                *)
DestroyFilters(s, f) ==
  LET d == ForEach(LAMBDA t, k : AgentRequest(t, None), s, 1 .. s.fr[f].chain)
      e == [d EXCEPT !.fr[f].chain = 0]
  IN  IF s.fr[f].chain > 0 /\ \A g \in Frame : e.fr[g].chain = 0
      THEN DisableAgent(e) ELSE e

-----------------------------------------------------------------------------
(* The end of a frame. *)

RECURSIVE FrameFree(_, _)
FrameFree(s, f) ==
  LET up == s.fr[f].parent
      s1 == IF Freed(s, up) THEN Crash(s, "parent")
            ELSE [s EXCEPT !.fr[up].kids = Remove(@, f)]
      s2 == Each(FrameFree, s1, s1.fr[f].kids)
      s3 == [s2 EXCEPT !.fr[f].kids = <<>>]
  IN  IF s3.fr[f].st # "idle" THEN [s3 EXCEPT !.fr[f].st = "deleted"]
      ELSE [DestroyFilters(s3, f) EXCEPT !.fr[f] = [NoFrame EXCEPT !.st = "freed"],
                                         !.ocr[f] = NoOcr]

(* frame_check_deleted *)
CheckDeleted(s, f) == FrameFree([s EXCEPT !.fr[f].st = "idle"], f)

(* frame_pattern_done.  No frame is in the state PROCESS when a pattern is *)
(* done: it enters this state after the patterns and leaves it at once.    *)
PatternDone(s, f) == CASE Freed(s, f)              -> Crash(s, "frame")
                       [] s.fr[f].st = "deleted"   -> CheckDeleted(s, f)
                       [] OTHER                    -> s

-----------------------------------------------------------------------------
(* The search of a pattern. *)

InList(s, q) == s.pt[q].st = "list"
OnFrame(s, f) == {q \in Pattern : InList(s, q) /\ s.pt[q].frame = f}

Showing(s, q) == \E c \in s.pt[q].win :
  IF s.pt[q].text THEN Look(s, s.pt[q].frame, c) # 0 ELSE Look(s, s.pt[q].frame, c) = 1

(* The result of a search: whether the state changes, and is reported. *)
Verdict(s, q, result) ==
  LET p == s.pt[q]
      moved == p.state < 0 \/ p.matched # p.matched0
      new == CASE result /\ moved           -> 1
               [] ~ result /\ p.state > 0   -> -1
               [] OTHER                     -> p.state
  IN  [s EXCEPT !.pt[q].busy = FALSE, !.pt[q].matched0 = p.matched, !.pt[q].state = new]

PatternFree(s, q) == [s EXCEPT !.pt[q] = [NoPattern EXCEPT !.st = "freed"]]

(* match_process_request and match_process_reply call each other. *)
RECURSIVE ProcessRequest(_, _), ProcessReply(_, _, _)

(* An appearance, or a disappearance, that was found is not searched for   *)
(* again until a reset.                                                    *)
SettledNow(p) == /\ "retrigger" \notin p.mode
                 /\ IF "disappear" \in p.mode THEN p.state < 0
                    ELSE "appear" \in p.mode /\ p.state > 0

FreeJobs(s) == {j \in Job : s.jobs[j].pat = None}

PushJob(s, q, c) ==
  [s EXCEPT !.jobs[Min(FreeJobs(s))] =
     [NoJob EXCEPT !.pat = q, !.cell = c, !.frame = s.pt[q].frame]]

(* match_image_request: a narrow window is searched at once, a wide one by *)
(* a thread for each part.                                                 *)
Narrow(p) == Cardinality(p.win) = 1
ImageRequest(s, q) ==
  LET p == s.pt[q]
  IN  IF Narrow(p)
      THEN ProcessReply([s EXCEPT !.pt[q].matched =
                           IF Showing(s, q) THEN Min(p.win) ELSE Nowhere],
                        q, Showing(s, q))
      ELSE ForEach(LAMBDA t, c : PushJob(t, q, c), s, p.win)

(* match_text_request: an OCR agent that is gone is found out by writing.  *)
TextRequest(s, q) ==
  LET f == s.pt[q].frame
  IN  CASE s.ocr[f].agent = "off"  -> Crash(s, "ocr")
        [] s.ocr[f].agent = "dead" -> [s EXCEPT !.ocr[f] = NoOcr]
        [] OTHER                   -> [s EXCEPT !.ocr[f].asks = Append(@, q)]

ProcessRequest(s, q) ==
  IF SettledNow(s.pt[q])
  THEN PatternDone([s EXCEPT !.pt[q].busy = FALSE], s.pt[q].frame)
  ELSE IF s.pt[q].text
  THEN TextRequest([s EXCEPT !.pt[q].busy = TRUE, !.pt[q].matched = Null], q)
  ELSE ImageRequest([s EXCEPT !.pt[q].busy = TRUE, !.pt[q].matched = Nowhere], q)

ProcessReply(s, q, result) ==
  LET d == Verdict(s, q, result)
  IN  IF s.pt[q].st = "removed" THEN PatternFree(s, q)
      ELSE IF d.pt[q].request
           THEN ProcessRequest([d EXCEPT !.pt[q].request = FALSE], q)
           ELSE PatternDone(d, d.pt[q].frame)

(* match_process: windows that only touch are taken as intersecting. *)
Process(s, q, area) ==
  LET p == s.pt[q]
  IN  CASE Freed(s, p.frame) -> Crash(s, "frame")
        [] ~ \E a \in area, c \in p.win : a - c \in -1 .. 1 -> s
        [] p.busy -> [s EXCEPT !.pt[q].request = TRUE]
        [] OTHER  -> ProcessRequest(s, q)

(* match_image_reply: the jobs that are left are aborted by a match. *)
BugLastJob(s, q) == TRUE
LastJob(s, q) == \A j \in Job : s.jobs[j].pat # q
ImageReply(s, j) ==
  LET job == s.jobs[j]
      q == job.pat
      d == [s EXCEPT !.jobs[j] = NoJob]
      e == IF job.aborted \/ ~ job.hit THEN d
           ELSE ForEach(LAMBDA t, i : [t EXCEPT !.jobs[i].aborted = TRUE],
                        [d EXCEPT !.pt[q].matched = job.cell],
                        {i \in Job : d.jobs[i].pat = q})
  IN  IF LastJob(d, q) THEN ProcessReply(e, q, e.pt[q].matched # Nowhere) ELSE e

(* match_text_reply: a line that was read, or the end of the text (0).  A  *)
(* removed pattern is not found, and a line that is not the one of the last*)
(* match ends the search before the text does.                             *)
TextReply(s, q, str, c) ==
  LET p == s.pt[q]
      changed == IF p.str \notin {0, str} THEN ProcessReply(s, q, FALSE) ELSE s
  IN  CASE ~ InList(s, q)     -> s
        [] str = 0            -> ProcessReply(s, q, p.matched # Null)
        [] p.matched # Null   -> s
        [] OTHER              -> [changed EXCEPT !.pt[q].str = str, !.pt[q].matched = c]

(* frame_setup_ocr: the agent runs as long as the frame has text patterns. *)
SetupOcr(s, f) ==
  [s EXCEPT !.ocr[f] =
     IF ~ \E q \in OnFrame(s, f) : s.pt[q].text THEN NoOcr
     ELSE IF @.agent = "off" THEN [NoOcr EXCEPT !.agent = "on"] ELSE @]

(* match_remove_pattern_guts *)
RemovePattern(s, q) ==
  LET f == s.pt[q].frame
  IN  CASE Freed(s, f)     -> Crash(s, "frame")
        [] s.pt[q].busy    -> SetupOcr([s EXCEPT !.pt[q].st = "removed"], f)
        [] OTHER           -> SetupOcr(PatternFree(s, q), f)

-----------------------------------------------------------------------------
(* The update of a frame, its patterns and its children. *)

RECURSIVE UpdateStart(_, _), UpdateNext(_, _)

(* The cell of the parent that is read: its buffer starts at its own       *)
(* window, but the code counts from the corner of the root.                *)
Source(s, f, c) == c + Min(s.fr[s.fr[f].parent].win) - 1

(* The area is pasted as the parent has it, not filtered yet. *)
Pasted(s, f, area) ==
  IF f = Root THEN s.fr[f].buf
  ELSE [c \in Cell |-> IF c \notin area THEN s.fr[f].buf[c]
        ELSE [v |-> Look(s, s.fr[f].parent, Source(s, f, c)), n |-> 0]]

BugUpdateStart(s, f) ==
  LET r == s.fr[f]
  IN  IF r.upd \cap r.win = {} \/ r.locked \/ r.st # "idle"
      THEN [s EXCEPT !.fr[f].upd = {}]
      ELSE UpdateNext([s EXCEPT
             !.fr[f].upd = {}, !.fr[f].st = "update",
             !.fr[f].ref = IF r.chain > 0 THEN r.win ELSE r.upd \cap r.win,
             !.fr[f].buf = Pasted(s, f, r.upd \cap r.win),
             !.fr[f].next = IF r.chain > 0 THEN 1 ELSE 0], f)
UpdateStart(s, f) ==
  LET r == s.fr[f]
      area == r.upd \cap r.win
  IN  IF area = {} \/ r.locked \/ r.st # "idle" THEN s
      ELSE UpdateNext([s EXCEPT
             !.fr[f].upd = {}, !.fr[f].st = "update",
             !.fr[f].ref = IF r.chain > 0 THEN r.win ELSE area,
             !.fr[f].buf = Pasted(s, f, area),
             !.fr[f].next = IF r.chain > 0 THEN 1 ELSE 0], f)

Update(s, f, area) == UpdateStart([s EXCEPT !.fr[f].upd = Hull(@ \cup area)], f)

UpdateAll(s, f) ==
  UpdateStart([s EXCEPT !.fr[f].locked = FALSE, !.fr[f].upd = s.fr[f].win], f)

(* frame_process_start and frame_process_completed: the frame does not     *)
(* wait for the patterns, nor for the children.                            *)
ProcessStart(s, f) ==
  LET area == s.fr[f].ref
      s1 == ForEach(LAMBDA t, q : Process(t, q, area), s, OnFrame(s, f))
      s2 == Each(LAMBDA t, g : Update(t, g, area), s1, s1.fr[f].kids)
  IN  UpdateStart([s2 EXCEPT !.fr[f].st = "idle"], f)

UpdateCompleted(s, f) ==
  ProcessStart([s EXCEPT !.fr[f].locked = @ \/ s.fr[f].lazy], f)

UpdateNext(s, f) ==
  LET r == s.fr[f]
  IN  IF r.next = 0 THEN UpdateCompleted(s, f)
      ELSE AgentRequest([s EXCEPT !.fr[f].next = IF @ < r.chain THEN @ + 1 ELSE 0],
                        [frame |-> f, filter |-> r.next])
=============================================================================
