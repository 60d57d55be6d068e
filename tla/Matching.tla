------------------------------ MODULE Matching ------------------------------
(***************************************************************************)
(* The virtual user at work on its frames: the main loop with its commands *)
(* (vu/client/frame_command.c, match_command.c), the capture that changes  *)
(* the root frame, the agent of the filters (vu/filters/main.c) and the    *)
(* threads that search images.  FrameTree has what a handler does, and    *)
(* BugAnswered is a mistake for a property to find.                        *)
(***************************************************************************)
EXTENDS FrameTree
LOCAL INSTANCE FiniteSetsExt
LOCAL INSTANCE SequencesExt

CONSTANTS Ids,            \* names of frames
          Modes,          \* detection modes of patterns
          Types,          \* types of the patterns that are added
          Looks,          \* what a cell of the screen may show
          Setups,         \* the states the main loop starts from
          MaxShots,       \* bound on the changes of the screen
          MaxCmds,        \* bound on the commands
          MayDie          \* the agent of the filters may die

VARIABLES vu,             \* the program
          pend,           \* cells that changed and are not announced yet
          shots, cmds
vars == <<vu, pend, shots, cmds>>

Up == vu.crash = "no"

-----------------------------------------------------------------------------
(* The commands, as operators from a state to the next. *)

Blanks(s) == {f \in Frame : s.fr[f].st = "none"}
Named(s, id) == {f \in Frame \ {Root} : InTree(s, f) /\ s.fr[f].id = id}

(* frame_command_filter *)
AddFilter(s, f) ==
  LET k == s.fr[f].chain + 1
      e == AgentRequest(EnableAgent(s), None)
  IN  UpdateAll([e EXCEPT !.fr[f].chain = k,
                          !.fr[f].live = IF e.agent = "on" THEN @ \cup {k} ELSE @], f)

(* frame_command_remove_guts: the patterns of the frames below stay. *)
RemoveGuts(s, f) ==
  FrameFree(ForEach(RemovePattern, s, OnFrame(s, f)), f)

(* frame_foreach_child goes on with a node of the list that it just freed, *)
(* which usually has no next one.                                          *)
RECURSIVE RemoveChildren(_, _)
RemoveChildren(s, f) ==
  IF s.fr[f].kids = <<>> THEN s
  ELSE LET g == Head(s.fr[f].kids) IN RemoveGuts(RemoveChildren(s, g), g)

(* frame_command_add: the parent was looked up before a frame with the     *)
(* same name was removed.                                                  *)
AddFrame(s, id, parent, win, lazy) ==
  LET s1 == ForEach(RemoveGuts, s, Named(s, id))
      f == Min(Blanks(s))
  IN  IF Freed(s1, parent) THEN Crash(s1, "parent")
      ELSE UpdateAll([s1 EXCEPT
             !.fr[f] = [NoFrame EXCEPT !.st = "idle", !.id = id, !.parent = parent,
                                       !.win = win, !.lazy = lazy],
             !.fr[parent].kids = Append(@, f)], f)

Unused(s) == {q \in Pattern : s.pt[q].st = "none"}
Listed(s) == {q \in Pattern : InList(s, q)}

(* match_command_add: the pattern with the same name is removed even when  *)
(* the new one has an error.  All patterns have the same name here.        *)
AddPattern(s, f, type, mode, win, ok) ==
  LET s1 == ForEach(RemovePattern, s, Listed(s))
      q == Min(Unused(s))
      s2 == [s1 EXCEPT !.pt[q] = [NoPattern EXCEPT !.st = "list", !.frame = f,
               !.text = (type = "text"), !.win = win, !.mode = mode]]
  IN  IF ~ ok THEN s1 ELSE Process(SetupOcr(s2, f), q, Cell)

(* match_reset_item *)
ResetPattern(s, q) ==
  Process([s EXCEPT !.pt[q].state = 0, !.pt[q].matched = Null,
                    !.pt[q].matched0 = Null], q, Cell)

-----------------------------------------------------------------------------
(* What runs beside the main loop. *)

(* The capture writes an image in the shared frame; several of its         *)
(* announcements are read as one.                                          *)
Shoot ==
  \E img \in [Cell -> Looks] :
    LET changed == {c \in Cell : vu.fr[Root].buf[c].v # img[c]}
    IN  /\ Up /\ shots < MaxShots /\ changed # {}
        /\ vu' = [vu EXCEPT !.fr[Root].buf = [c \in Cell |-> [v |-> img[c], n |-> 0]]]
        /\ pend' = pend \cup changed
        /\ shots' = shots + 1
        /\ UNCHANGED cmds

(* main of the agent: a filter it does not know is answered all the same. *)
FilterApply ==
  /\ Up /\ vu.agent = "on" /\ vu.asks # <<>>
  /\ LET ask == Head(vu.asks)
         f == ask.frame
         k == ask.filter
         Filtered(c) == IF c \in vu.fr[f].win /\ vu.fr[f].buf[c].n = k - 1
                        THEN [vu.fr[f].buf[c] EXCEPT !.n = k] ELSE vu.fr[f].buf[c]
     IN  vu' = [vu EXCEPT !.asks = Tail(@), !.answers = Append(@, ask),
                          !.fr[f].buf = IF k \in vu.fr[f].live
                                        THEN [c \in Cell |-> Filtered(c)] ELSE @]
  /\ UNCHANGED <<pend, shots, cmds>>

AgentDies ==
  /\ Up /\ MayDie /\ vu.agent = "on" /\ ~ vu.died
  /\ vu' = [vu EXCEPT !.agent = "dead", !.asks = <<>>, !.died = TRUE]
  /\ UNCHANGED <<pend, shots, cmds>>

(* The OCR agent reads the lines of the window of a pattern, those that do *)
(* not match left out, and the end of the text.                            *)
Line(q, c) == [pat |-> q, str |-> Look(vu, vu.pt[q].frame, c), cell |-> c]
OcrRead(f) ==
  /\ Up /\ vu.ocr[f].agent = "on" /\ vu.ocr[f].asks # <<>>
  /\ LET q == Head(vu.ocr[f].asks)
         lines == [c \in 1 .. NCells |-> Line(q, c)]
         text == SelectSeq(lines, LAMBDA l : l.cell \in vu.pt[q].win /\ l.str # 0)
     IN  vu' = [vu EXCEPT !.ocr[f].asks = Tail(@),
                          !.ocr[f].out = @ \o Append(text, [pat |-> q, str |-> 0, cell |-> 0])]
  /\ UNCHANGED <<pend, shots, cmds>>

OcrDies(f) ==
  /\ Up /\ MayDie /\ vu.ocr[f].agent = "on" /\ ~ vu.died
  /\ vu' = [vu EXCEPT !.ocr[f].agent = "dead", !.ocr[f].asks = <<>>, !.died = TRUE]
  /\ UNCHANGED <<pend, shots, cmds>>

(* match_image_thread, on a part of the window. *)
Scan(j) ==
  /\ Up /\ vu.jobs[j].pat # None /\ ~ vu.jobs[j].done
  /\ LET job == vu.jobs[j]
     IN  vu' = IF Freed(vu, job.frame) THEN Crash(vu, "unmapped")
               ELSE [vu EXCEPT !.pipe = Append(@, j), !.jobs[j].done = TRUE,
                               !.jobs[j].hit = ~ job.aborted /\ Look(vu, job.frame, job.cell) = 1]
  /\ UNCHANGED <<pend, shots, cmds>>

-----------------------------------------------------------------------------
(* The handlers of the main loop. *)

(* update_handler *)
Updated ==
  /\ Up /\ pend # {}
  /\ vu' = Update(vu, Root, Hull(pend))
  /\ pend' = {}
  /\ UNCHANGED <<shots, cmds>>

(* frame_update_next, as the callback of a filter. *)
BugAnswered(s, f) == IF Freed(s, f) \/ s.fr[f].st = "deleted" THEN s ELSE UpdateNext(s, f)
Answered(s, f) ==
  CASE Freed(s, f)               -> s
    [] s.fr[f].st = "deleted"    -> CheckDeleted(s, f)
    [] OTHER                     -> UpdateNext(s, f)

(* filter_ext_event *)
FilterAnswer ==
  /\ Up /\ vu.answers # <<>>
  /\ vu' = Answered([vu EXCEPT !.answers = Tail(@)], Head(vu.answers).frame)
  /\ UNCHANGED <<pend, shots, cmds>>

AgentHup ==
  /\ Up /\ vu.agent = "dead" /\ vu.answers = <<>>
  /\ vu' = DisableAgent(vu)
  /\ UNCHANGED <<pend, shots, cmds>>

(* match_image_reply_read *)
JobReply ==
  /\ Up /\ vu.pipe # <<>>
  /\ vu' = ImageReply([vu EXCEPT !.pipe = Tail(@)], Head(vu.pipe))
  /\ UNCHANGED <<pend, shots, cmds>>

(* ocr_callback, each element of the page calling match_text_reply. *)
OcrEvent(f) ==
  /\ Up /\ vu.ocr[f].out # <<>>
  /\ LET l == Head(vu.ocr[f].out)
     IN  vu' = TextReply([vu EXCEPT !.ocr[f].out = Tail(@)], l.pat, l.str, l.cell)
  /\ UNCHANGED <<pend, shots, cmds>>

OcrHup(f) ==
  /\ Up /\ vu.ocr[f].agent = "dead" /\ vu.ocr[f].out = <<>>
  /\ vu' = [vu EXCEPT !.ocr[f] = NoOcr]
  /\ UNCHANGED <<pend, shots, cmds>>

-----------------------------------------------------------------------------
Command == /\ Up /\ cmds < MaxCmds
           /\ cmds' = cmds + 1
           /\ UNCHANGED <<pend, shots>>

Present == {f \in Frame \ {Root} : InTree(vu, f)}

FrameRefresh == Command /\ \E f \in Present \cup {Root} : vu' = UpdateAll(vu, f)
FrameFilter == Command /\ \E f \in Present : vu' = AddFilter(vu, f)
FrameRemove == Command /\ \E f \in Present : vu' = RemoveGuts(vu, f)
FrameRemoveAll ==
  /\ Command /\ Present # {}
  /\ vu' \in {RemoveChildren(vu, Root), Crash(vu, "list")}

(* A frame below one that is not at the corner of the root is left out.    *)
FrameAdd ==
  /\ Command /\ Blanks(vu) # {}
  /\ \E id \in Ids, parent \in Present \cup {Root}, lazy \in BOOLEAN :
       \E win \in {w \in SUBSET vu.fr[parent].win : w # {} /\ w = Hull(w)} :
          /\ Min(vu.fr[parent].win) = 1
          /\ vu' = AddFrame(vu, id, parent, win, lazy)

MatchAdd ==
  /\ Command /\ Unused(vu) # {}
  /\ \E f \in Present \cup {Root}, type \in Types, mode \in Modes,
        ok \in BOOLEAN :
       \E win \in {w \in SUBSET vu.fr[f].win : w # {} /\ w = Hull(w)} :
          vu' = AddPattern(vu, f, type, mode, win, ok)

MatchRemove == Command /\ \E q \in Listed(vu) : vu' = RemovePattern(vu, q)
MatchReset == Command /\ \E q \in Listed(vu) : vu' = ResetPattern(vu, q)

-----------------------------------------------------------------------------
Init == vu \in Setups /\ pend = {} /\ shots = 0 /\ cmds = 0

Next == \/ Shoot \/ FilterApply \/ AgentDies \/ \E j \in Job : Scan(j)
        \/ Updated \/ FilterAnswer \/ AgentHup \/ JobReply
        \/ \E f \in Frame : OcrRead(f) \/ OcrDies(f) \/ OcrEvent(f) \/ OcrHup(f)
        \/ FrameRefresh \/ FrameFilter \/ FrameRemove \/ FrameRemoveAll \/ FrameAdd
        \/ MatchAdd \/ MatchRemove \/ MatchReset

(* The main loop serves each of its descriptors; the agent and the threads *)
(* are processes of the system.  A fair handler runs again and again, or   *)
(* has nothing to do again and again.                                      *)
Fairness ==
  /\ []<>(~ Up \/ pend = {}) \/ []<><<Updated>>_vars
  /\ []<>(~ Up \/ vu.answers = <<>>) \/ []<><<FilterAnswer>>_vars
  /\ []<>(~ Up \/ vu.agent # "dead") \/ []<><<AgentHup>>_vars
  /\ []<>(~ Up \/ vu.pipe = <<>>) \/ []<><<JobReply>>_vars
  /\ []<>(~ Up \/ vu.asks = <<>>) \/ []<><<FilterApply>>_vars
  /\ []<>(~ Up \/ \A f \in Frame : vu.ocr[f].asks = <<>>) \/ []<><<\E f \in Frame : OcrRead(f)>>_vars
  /\ []<>(~ Up \/ \A f \in Frame : vu.ocr[f].out = <<>> /\ vu.ocr[f].agent # "dead")
       \/ []<><<\E f \in Frame : OcrEvent(f) \/ OcrHup(f)>>_vars
  /\ \A j \in Job : []<>(~ Up \/ vu.jobs[j].pat = None \/ vu.jobs[j].done) \/ []<><<Scan(j)>>_vars

Spec == Init /\ [][Next]_vars /\ Fairness

-----------------------------------------------------------------------------
JobsOf(q) == {j \in Job : vu.jobs[j].pat = q}

(* The replies that a text pattern will get from the agent of its frame.   *)
TextsOf(q) == LET o == vu.ocr[vu.pt[q].frame]
              IN  {k \in DOMAIN o.asks : o.asks[k] = q}
                  \cup {k \in DOMAIN o.out : o.out[k].pat = q /\ o.out[k].str = 0}

(* An image pattern is busy as long as threads search for it and no longer,*)
(* its descriptor outlives them when it is removed, and each search that   *)
(* ended is once in the pipe: no search is lost, none is answered twice,   *)
(* and none is credited to another pattern.  A text pattern that is busy   *)
(* will get an end of text, unless its agent died.                         *)
PatternsOwned ==
  Up => /\ \A q \in Pattern : ~ vu.pt[q].text =>
             /\ vu.pt[q].busy <=> JobsOf(q) # {}
             /\ vu.pt[q].st = "removed" => vu.pt[q].busy
        /\ \A q \in Pattern :
             JobsOf(q) # {} => vu.pt[q].st \in {"list", "removed"} /\ ~ vu.pt[q].text
        /\ \A j \in Job : Cardinality({i \in DOMAIN vu.pipe : vu.pipe[i] = j})
                            = IF vu.jobs[j].done THEN 1 ELSE 0
        /\ \A q \in Listed(vu) :
             vu.pt[q].text /\ vu.pt[q].busy /\ InTree(vu, vu.pt[q].frame) =>
               TextsOf(q) # {} \/ vu.died

(* A text pattern that is removed while it is busy stays so for ever, and  *)
(* so does one below a frame that is removed.                              *)
Forsaken(q) == vu.pt[q].text /\ ~ (InList(vu, q) /\ InTree(vu, vu.pt[q].frame))

Quiet == /\ pend = {} /\ vu.asks = <<>> /\ vu.answers = <<>>
         /\ \A f \in Frame : /\ vu.fr[f].st \notin {"update", "deleted"}
                              /\ vu.ocr[f].asks = <<>> /\ vu.ocr[f].out = <<>>
         /\ \A q \in Pattern : vu.pt[q].busy => Forsaken(q)

Whole(f) == vu.fr[f].live = 1 .. vu.fr[f].chain /\ ~ vu.fr[f].lazy
Judged(q) == SettledNow(vu.pt[q]) \/ (Showing(vu, q) <=> vu.pt[q].state > 0)

(* When nothing is left to do, every frame that is not lazy shows what its *)
(* parent shows, filtered, and every verdict on an image agrees with the   *)
(* frame: no change of the screen is lost, however many come during filters*)
(* and searches, and a picture that stays is reported.                     *)
Settled ==
  Up /\ Quiet =>
    /\ \A f \in Present : Whole(f) =>
         \A c \in vu.fr[f].win :
            vu.fr[f].buf[c] = [v |-> Look(vu, vu.fr[f].parent, Source(vu, f, c)),
                               n |-> vu.fr[f].chain]
    /\ \A q \in Listed(vu) :
         ~ vu.pt[q].text /\ InTree(vu, vu.pt[q].frame) => Judged(q)

(* The verdict on a text agrees with the frame when nothing is left to do: *)
(* a job "matches display frames with <source> specification (image file   *)
(* or text)" (match_command.c:380), also a change that came during a search*)
(* ("re-issue a pattern matching request", match.c:507).                   *)
TextSettled ==
  Up /\ Quiet /\ ~ vu.died =>
    \A q \in Listed(vu) : vu.pt[q].text /\ InTree(vu, vu.pt[q].frame) => Judged(q)

(* Unless an agent dies, the program comes to rest: no frame stays busy   *)
(* with its filters, what was removed meanwhile is freed, no search hangs. *)
FramesServed == <>[](Quiet \/ vu.died \/ ~ Up)
=============================================================================
