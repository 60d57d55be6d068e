------------------------------ MODULE TreeRun ------------------------------
(***************************************************************************)
(* The execution of a loaded test tree by the runner: the state machine of *)
(* core/gui/tree_run.c, the control of the script executor in              *)
(* core/gui/perl_run.c and the executor's main loop, core/perl/Exec.pm.    *)
(*                                                                         *)
(* The runner is one thread: each handler (a button, a reply, the end of   *)
(* file of the reply pipe, a line of the "terminated" pipe) runs to its    *)
(* end, and only the SIGCHLD handler, the executor and the test engine     *)
(* move between two of them.  Handlers call one another, so that each is   *)
(* an operator from the state it finds to the state it leaves; the actions *)
(* at the end of the module apply them to the variable st, a record:       *)
(*   state, stepping, current, verdict, brk, skip : fields of tree_run_t   *)
(*          and of the cases of its tree (current is 0 for NULL)           *)
(*   child, ctl : pg->child is set; the control pipes are open and watched *)
(*   rep  : the report, see Report                                         *)
(*   req, reply : what the two control pipes hold                          *)
(*   ex, exCase : the executor process and the case it serves              *)
(*   eng : the test engine that the executor started                       *)
(*   term : the "terminated" pipe holds a message                          *)
(*   alive : the runner has not been killed by SIGPIPE                     *)
(*   going : inside a handler, tree_run_go is still to be called           *)
(*   panics : the *PANIC* messages printed                                 *)
(*   byStep, started : the last start was a step, and the executions       *)
(*          requested since                                                *)
(***************************************************************************)
EXTENDS Report

CONSTANTS Tr,              \* the tree
          Marked,          \* the cases whose flags the operator changes
          Results,         \* the verdicts that scripts and the operator give
          MaxReq,          \* bound: the messages the request pipe may hold
                           \* when the operator or a client acts
          Ack              \* -3 if the tree has a system definition, -2 if
                           \* it has none (a set: several trees)

ASSUME TrAssumption == IsTree(Tr)
ASSUME RunAssumption == /\ Marked \subseteq Tr.case /\ MaxReq \in Nat
                        /\ Results \subseteq Verdict \ {UNEXECUTED}
                        /\ Ack \subseteq {-3, -2}

VARIABLE st

Case == Tr.case
Ended == {"none", "dead", "reaped"}
Execution == {"SPAWN", "RUN", "INPUT"}
State == Execution \cup {"RESET", "WAIT", "FINISHED"}

Init ==
  st = [state |-> "RESET", stepping |-> 0, current |-> 0,
        verdict |-> [c \in Case |-> UNEXECUTED],
        brk |-> [c \in Case |-> 0], skip |-> {},
        child |-> FALSE, ctl |-> FALSE, rep |-> NewReport(Tr),
        req |-> <<>>, reply |-> <<>>, ex |-> "none", exCase |-> 0,
        eng |-> "none", term |-> FALSE, alive |-> TRUE,
        going |-> FALSE, panics |-> {},
        byStep |-> FALSE, started |-> 0]

-----------------------------------------------------------------------------
(* perl_run.c: the control of the executor. *)

(* Nobody waits for the engine: it is no child of the runner, and waitpid  *)
(* fails at once.  It may have ended on its own by the time of the merge.  *)
EngineEnd(s) == IF s.eng = "up" THEN [s EXCEPT !.eng = "gone"]
                ELSE s
Log(s) == CASE s.eng = "none" -> "none"
            [] s.eng = "up" -> "part"
            [] s.eng = "gone" -> "all"

Kill(s) ==
  [s EXCEPT !.child = FALSE, !.ctl = FALSE, !.req = <<>>, !.reply = <<>>,
            !.ex = "none", !.rep = Merge(WriteClose(Tr, s.rep), Log(s))]

(* SIGPIPE ends the runner: sig_init() installs main_terminate for it. *)
Write(s, m) ==
  IF ~ s.ctl THEN s
  ELSE IF s.ex \in Ended /\ s.eng # "up" THEN [s EXCEPT !.alive = FALSE]
  ELSE [s EXCEPT !.req = Append(@, m)]

(* perl_run_request: a new element for the case, its verdict at once if it *)
(* is known, and the request itself.                                        *)
Request(s, c, v) ==
  LET r == WriteCase(Tr, s.rep, c)
  IN  Write([s EXCEPT !.rep = IF v >= 0 THEN WriteVerdict(r, v) ELSE r,
                      !.started = IF v < 0 THEN @ + 1 ELSE @],
            [kind |-> IF v < 0 THEN "run" ELSE "record", case |-> c])

(* perl_run_request_input, with a verdict that ManualInput understands;   *)
(* the verdict, or the text, is shown as an input of the script.           *)
RequestInput(s) ==
  Write([s EXCEPT !.rep = WriteStdio(@)], [kind |-> "input", case |-> 0])

(* perl_run_spawn: the directory or the pipes may fail, then the fork. *)
Spawn(s) ==
  [s EXCEPT !.rep = WriteOpen(Tr), !.child = TRUE, !.ctl = TRUE,
            !.req = <<>>, !.reply = <<>>, !.ex = "start", !.exCase = 0,
            !.eng = "none"]

(* perl_run_backup renames the directory of the last report, if any. *)
Backup(s) ==
  IF s.rep.exists
  THEN [s EXCEPT !.rep = NewReport(Tr)]    \* WriteClear, and another file
  ELSE s

-----------------------------------------------------------------------------
(* tree_run.c: verdicts and the walk over the tree. *)

Finished(s) == Kill([s EXCEPT !.current = 0, !.state = "FINISHED"])

(* tree_run_verdict; with stepping 2 the current case stays. *)
BugTreeVerdict(s, v) ==
  IF s.current = 0 THEN s
  ELSE LET next == NextCase(Tr, s.current, v)
       IN  [s EXCEPT !.current = IF next = 0 THEN @ ELSE next,
                     !.verdict[IF next = 0 THEN s.current ELSE next] = v]
TreeVerdict(s, v) ==
  IF s.current = 0 THEN s
  ELSE LET next == NextCase(Tr, s.current, v)
       IN  [s EXCEPT !.verdict[s.current] = v,
                     !.current = IF s.stepping = 2 \/ next = 0 THEN @
                                 ELSE next]
Last_(s, v) == s.stepping # 2 /\ NextCase(Tr, s.current, v) = 0

(* tree_run_next. *)
BugNextMove(s) ==
  [s EXCEPT !.stepping = 0, !.going = TRUE]
NextMove(s) ==
  IF s.stepping # 0
  THEN [s EXCEPT !.stepping = 0, !.state = "WAIT", !.going = FALSE]
  ELSE [s EXCEPT !.going = TRUE]

(* tree_run_continue. *)
Continue(s, v) ==
  IF s.current = 0 THEN [s EXCEPT !.going = FALSE]
  ELSE IF Last_(s, v)
  THEN Finished([TreeVerdict(s, v) EXCEPT !.going = FALSE])
  ELSE NextMove(TreeVerdict(s, v))

Simulate(s, v) ==
  IF s.current = 0 THEN [s EXCEPT !.going = FALSE]
  ELSE Continue(Request(s, s.current, v), v)

(* One call of tree_run_go: it stops at a breakpoint met for the first     *)
(* time, requests the execution of the case, or skips it and goes on.      *)
GoOnce(s) ==
  LET c == IF s.current = 0 THEN FirstCase(Tr, 1) ELSE s.current
      o == [s EXCEPT !.current = c, !.going = FALSE]
  IN  IF s.brk[c] = 1
      THEN [o EXCEPT !.brk[c] = 2, !.state = "WAIT"]
      ELSE IF Precond(Tr, c, s.skip, s.verdict)
      THEN Request([o EXCEPT !.state = "RUN"], c, -1)
      ELSE Simulate(o, SKIP)

(* tree_run_go and tree_run_next call each other once for each case that   *)
(* is skipped, and the walk only goes forward.                             *)
BugFinish(s) == IF s.going THEN GoOnce(s) ELSE s
Finish(s) ==
  LET move[k \in 0 .. Cardinality(Case)] ==
        IF k = 0 THEN s
        ELSE IF move[k - 1].going THEN GoOnce(move[k - 1]) ELSE move[k - 1]
  IN  move[Cardinality(Case)]
Go(s) == Finish([s EXCEPT !.going = TRUE])

-----------------------------------------------------------------------------
(* tree_run.c: the commands of the operator. *)

AbortGuts(s) ==
  LET busy == s.state \in {"RUN", "INPUT"}
      k == Kill(IF busy
                THEN [s EXCEPT !.rep = WriteVerdict(@, INCONCLUSIVE)] ELSE s)
  IN  Finished(IF busy THEN TreeVerdict(k, INCONCLUSIVE) ELSE k)

ResetGuts(s) ==
  [s EXCEPT !.stepping = 0, !.current = 0, !.state = "RESET",
            !.brk = [c \in Case |-> IF @[c] = 0 THEN 0 ELSE 1],
            !.verdict = [c \in Case |-> UNEXECUTED]]

Jump(s, c) == IF c = 0 THEN s ELSE [s EXCEPT !.current = c]

(* tree_run_start_0; "how" is what becomes of the fork. *)
Start0(s, how) ==
  IF s.state # "RESET" THEN Go(s)
  ELSE LET b == [Backup(s) EXCEPT !.state = "SPAWN"]
       IN  CASE how = "ok" -> Spawn(b)
             [] how = "early" -> ResetGuts(b)
             [] how = "late" -> ResetGuts(Kill(Spawn(b)))

(* tree_run_input. *)
Input(s, v) ==
  CASE s.state = "INPUT" -> RequestInput([s EXCEPT !.state = "RUN"])
    [] s.state = "WAIT" -> Finish(Simulate([s EXCEPT !.stepping = 1], v))
    [] OTHER -> [s EXCEPT !.panics = @ \cup {"reply"}]

(* tree_run_input_request. *)
InputRequest(s) ==
  IF s.state # "RUN" THEN [s EXCEPT !.panics = @ \cup {"request"}]
  ELSE IF s.current = 0
  THEN Write([s EXCEPT !.panics = @ \cup {"unknown"}],
             [kind |-> "bad", case |-> 0])
  ELSE [s EXCEPT !.state = "INPUT", !.rep = WriteStdio(@)]

(* perl_run_reply, then tree_run_reply.  99 asks for an input, -2 and -3   *)
(* acknowledge the start; -1 is an end of file.                            *)
BugReply(s, v) ==
  IF v = 99 THEN InputRequest(s)
  ELSE IF v >= 0 THEN Finish(Continue(s, v))
  ELSE IF v = -1 THEN AbortGuts(s)
  ELSE LET o == [s EXCEPT !.current = IF @ = 0 THEN FirstCase(Tr, 1) ELSE @]
       IN  IF v = -2 THEN Go(o) ELSE Finish(NextMove(o))
Reply(s, v) ==
  IF v = 99 THEN InputRequest(s)
  ELSE IF v >= 0
  THEN Finish(Continue([s EXCEPT !.rep = WriteVerdict(@, v)], v))
  ELSE IF v = -1 THEN AbortGuts(s)
  ELSE LET o == [s EXCEPT !.current = IF @ = 0 THEN FirstCase(Tr, 1) ELSE @]
       IN  IF v = -2 THEN Go(o) ELSE Finish(NextMove(o))

-----------------------------------------------------------------------------
(* Actions of the runner.  A button acts when tree_gui_sensitivity_exec    *)
(* leaves it enabled; the engine may have ended when the handler merges    *)
(* its log, or not.                                                        *)

Handle(F(_)) == \E e \in {st, EngineEnd(st)} :
                   st' = F([e EXCEPT !.going = FALSE])
Command(F(_)) == /\ st.alive /\ Len(st.req) <= MaxReq
                 /\ Handle(F)

GuiReset ==
  /\ st.state \notin {"SPAWN", "RUN"}
  /\ LET F(s) == ResetGuts(Kill(s)) IN Command(F)

Start(s, step, c, how) ==
  Start0([Jump(s, c) EXCEPT !.stepping = step, !.byStep = (step = 1),
                            !.started = 0], how)
BugGuiStart(step, c, how) ==
  /\ st.state # "FINISHED" /\ (st.state = "RESET" => c = 0)
  /\ LET F(s) == Start(s, step, c, how) IN Command(F)
GuiStart(step, c, how) ==
  /\ st.state \in {"RESET", "WAIT"} /\ (st.state = "RESET" => c = 0)
  /\ LET F(s) == Start(s, step, c, how) IN Command(F)

GuiAbort ==
  /\ st.state \in Execution
  /\ LET F(s) == AbortGuts(IF s.state = "SPAWN" THEN s
                           ELSE [s EXCEPT !.rep = WriteStdio(@)])
     IN  Command(F)

BugGuiInput(v, c) ==
  LET F(s) == Input(Jump(s, c), v) IN Command(F)
GuiInput(v, c) ==
  /\ st.state \in {"WAIT", "INPUT"} /\ (st.state = "INPUT" => c = 0)
  /\ LET F(s) == Input(Jump(s, c), v) IN Command(F)

GuiBreakpoint(c) ==
  /\ st.alive
  /\ st' = [st EXCEPT !.brk[c] = IF @ = 0 THEN 1 ELSE 0]

GuiSkip(c) ==
  /\ st.alive
  /\ st' = [st EXCEPT !.skip = IF c \in @ THEN @ \ {c} ELSE @ \cup {c}]

(* One read takes all that the reply pipe holds; only the first reply of   *)
(* it is looked at.                                                        *)
ReplyReady == st.alive /\ st.ctl /\ st.reply # <<>>
ReplyRead ==
  /\ ReplyReady
  /\ LET F(s) == Reply([s EXCEPT !.reply = <<>>], Head(s.reply).v)
     IN  Handle(F)

(* The engine and its children inherit the write end of the reply pipe. *)
BugEofReady == /\ st.alive /\ st.ctl /\ st.reply = <<>>
               /\ st.ex = "dead" /\ st.eng # "up"
EofReady == /\ st.alive /\ st.ctl /\ st.reply = <<>>
            /\ st.ex \in Ended /\ st.eng # "up"
ReplyEof ==
  /\ EofReady
  /\ LET F(s) == Reply(s, -1) IN Handle(F)

(* perl_run_terminated. *)
TermReady == st.alive /\ st.term
Terminated ==
  /\ TermReady
  /\ LET F(s) == Reply(Kill([s EXCEPT !.term = FALSE,
                                      !.rep = WriteStdio(@)]), -1)
     IN  Handle(F)

(* perl_run_sigchld, in the signal handler. *)
Sigchld ==
  /\ st.alive /\ st.ex = "dead"
  /\ st' = [st EXCEPT !.ex = "reaped", !.child = FALSE,
                      !.term = @ \/ st.child]

(* The executor dies before child_spawn has returned: the handler finds    *)
(* pg->child empty, or child_spawn has not stored the pid yet.             *)
SigchldMissed ==
  /\ st.alive /\ st.ex = "start"
  /\ st' = [st EXCEPT !.ex = "reaped"]

-----------------------------------------------------------------------------
(* Actions of the executor and of the engine. *)

Send(s, v) == [s EXCEPT !.reply = Append(@, [v |-> v, case |-> s.exCase])]

ExBegin ==                                  \* MainInit starts the engine
  /\ st.ex = "start"
  /\ st' = [st EXCEPT !.ex = "init", !.eng = "up"]

ExReady(v) ==
  /\ st.ex = "init"
  /\ st' = Send([st EXCEPT !.ex = "idle"], v)

ExTake ==                                   \* MainLoop reads a request
  /\ st.ex = "idle" /\ st.req # <<>>
  /\ LET m == Head(st.req)
     IN  st' = [st EXCEPT !.req = Tail(@),
                          !.ex = IF m.kind = "run" THEN "run" ELSE "idle",
                          !.exCase = IF m.kind = "run" THEN m.case ELSE @]

ExAsk ==                                    \* ManualInput asks
  /\ st.ex = "run"
  /\ st' = Send([st EXCEPT !.ex = "input"], 99)

ExInput ==                                  \* ManualInput reads
  /\ st.ex = "input" /\ st.req # <<>>
  /\ st' = IF Head(st.req).kind = "input"
           THEN [st EXCEPT !.req = Tail(@), !.ex = "run"]
           ELSE [st EXCEPT !.req = Tail(@), !.ex = "dead",
                           !.panics = @ \cup {"unexpected"}]

ExDone(v) ==
  /\ st.ex = "run"
  /\ st' = Send([st EXCEPT !.ex = "idle"], v)

ExOutput ==                                 \* shown and written at once
  /\ st.alive /\ st.ex \in {"init", "run"}
  /\ st' = [st EXCEPT !.rep = WriteStdio(@)]

ExDie ==
  /\ st.ex \notin Ended
  /\ st' = [st EXCEPT !.ex = "dead"]

EngineEnds ==                               \* its input is at end of file
  /\ st.ex \in Ended /\ st.eng = "up"
  /\ st' = EngineEnd(st)

-----------------------------------------------------------------------------
Operator ==
  \/ GuiReset \/ GuiAbort
  \/ \E step \in {0, 1}, c \in Case \cup {0}, how \in {"ok", "early", "late"} :
       GuiStart(step, c, how)
  \/ \E v \in Results, c \in Case \cup {0} :
       GuiInput(v, c)
  \/ \E c \in Marked : GuiBreakpoint(c) \/ GuiSkip(c)

Runner == ReplyRead \/ ReplyEof \/ Terminated \/ Sigchld
Executor == ExBegin \/ (\E v \in Ack : ExReady(v)) \/ ExTake \/ ExInput
Script == \E v \in Results : ExDone(v)

Next == Operator \/ Runner \/ Executor \/ Script \/ SigchldMissed
        \/ ExAsk \/ ExOutput \/ ExDie \/ EngineEnds

Spec == Init /\ [][Next]_st

(* The main loop of the runner serves every descriptor that stays ready,   *)
(* the kernel delivers signals, and the processes run.  A script returns,  *)
(* but nothing makes the operator act.  For the handlers, weak fairness is *)
(* written out: one that is ready always has a step that changes st.       *)
FairSpec ==
  /\ Spec
  /\ []<>(~ ReplyReady) \/ []<><<ReplyRead>>_st
  /\ []<>(~ EofReady) \/ []<><<ReplyEof>>_st
  /\ []<>(~ TermReady) \/ []<><<Terminated>>_st
  /\ WF_st(Sigchld) /\ WF_st(EngineEnds) /\ WF_st(Executor) /\ WF_st(Script)

-----------------------------------------------------------------------------
(* Properties. *)

TypeOK ==
  /\ st.state \in State /\ st.stepping \in 0 .. 2
  /\ st.current \in Case \cup {0} /\ st.skip \subseteq Case
  /\ st.verdict \in [Case -> Verdict] /\ st.brk \in [Case -> 0 .. 2]
  /\ st.ex \in Ended \cup {"start", "init", "idle", "run", "input"}
  /\ st.exCase \in Case \cup {0}
  /\ st.rep.mem \in [Case -> Verdict \cup {ABSENT}]
  /\ ~ st.going

(* The executions on their way: requested, being done, or answered. *)
Asked == {k \in DOMAIN st.req : st.req[k].kind = "run"}
Done == {k \in DOMAIN st.reply : st.reply[k].v \in Verdict}
InFlight == Cardinality(Asked) + Cardinality(Done)
            + IF st.ex \in {"run", "input"} THEN 1 ELSE 0

(* A case is on its way exactly when the runner waits for it, it is the    *)
(* current one, and a living executor has it in one place only: two        *)
(* replies never meet in the pipe, of which perl_run_reply would lose one. *)
(* The messages that announce a broken dialogue, "*PANIC*" of tree_run.c   *)
(* and of Exec.pm, are never printed.                                      *)
OneInFlight ==
  /\ TypeOK /\ st.panics = {}
  /\ InFlight <= 1 /\ Len(st.reply) <= 1
  /\ InFlight = 1 => st.state \in {"RUN", "INPUT"}
  /\ st.state \in {"RUN", "INPUT"} /\ st.ex \notin Ended => InFlight = 1
  /\ \A k \in Asked : st.req[k].case = st.current
  /\ \A k \in Done : st.reply[k].case = st.current
  /\ st.ex \in {"run", "input"} => st.exCase = st.current

(* Elements of the report end in the order they were begun, verdicts are   *)
(* inside the element of a case, one at most in each, and a closed report  *)
(* has no element left open.  However many times the runner shuts down an  *)
(* executor, the whole log of an engine that has ended is merged once.     *)
ReportNested ==
  /\ Cardinality({k \in DOMAIN st.rep.logs : st.rep.logs[k] = "all"}) <= 1
  /\ ~ st.rep.broken
  /\ ~ st.rep.open => st.rep.path = <<>>
  /\ \A c \in Case : Len(st.rep.xml[c]) <= 1
  /\ st.rep.open =>
       StdioClose(st.rep).path = IF st.rep.cur = 0 THEN <<1>>
                                 ELSE Line(Tr, st.rep.cur)

(* The verdict of a case is the same in the tree, in the memory of the     *)
(* output manager and in the report, except that the report may lack it.   *)
VerdictsAgree ==
  \A c \in Case :
    /\ st.verdict[c] # UNEXECUTED
         /\ ~ (st.state \in {"RUN", "INPUT"} /\ c = st.current)
         => st.rep.mem[c] = st.verdict[c]
    /\ st.rep.xml[c] # <<>> => st.rep.mem[c] = Head(st.rep.xml[c])

(* A start in step mode requests one execution at most, whatever is        *)
(* skipped, however the tree was set up and the executor started.          *)
StepsOnce == st.byStep => st.started <= 1

(* The executor's death never leaves the runner waiting for it. *)
DeathSettles ==
  (st.ex \in {"dead", "reaped"}) ~> (st.state \notin Execution \/ ~ st.alive)

(* What is started or requested comes to an end: the operator is asked, or *)
(* the tree is paused, finished or reset.                                  *)
RunSettles ==
  (st.state \in {"SPAWN", "RUN"})
    ~> (st.state \notin {"SPAWN", "RUN"} \/ ~ st.alive)

(* The verdicts follow CaseRuns; the case being executed is the one that   *)
(* the executor, or a message to or from it, holds.                        *)
Phase == CASE st.state = "RESET" -> "off"
           [] st.state = "SPAWN" -> "starting"
           [] st.state = "WAIT" -> "paused"
           [] st.state \in {"RUN", "INPUT"} -> "running"
           [] st.state = "FINISHED" -> "over"
Carried == IF st.state \notin {"RUN", "INPUT"} THEN 0
           ELSE IF Asked # {} THEN st.req[CHOOSE k \in Asked : TRUE].case
           ELSE IF Done # {} THEN st.reply[1].case
           ELSE IF st.ex \in {"run", "input"} THEN st.exCase
           ELSE st.current
Runs == INSTANCE CaseRuns
  WITH Unexecuted <- UNEXECUTED, Skipped <- SKIP,
       Inconclusive <- INCONCLUSIVE,
       phase <- Phase, at <- Carried, result <- st.verdict
RunsSpec == Runs!Spec
=============================================================================
