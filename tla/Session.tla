------------------------------ MODULE Session ------------------------------
(***************************************************************************)
(* A test session: the script with its library (core/perl/Engine.pm,       *)
(* Interface.pm, Trig.pm), the engine, and the peripherals, which answer   *)
(* the commands that they get one after the other, as late as they like.   *)
(***************************************************************************)
EXTENDS Engine

CONSTANTS
  Calls,         \* the functions of the library that the script calls
  Wrong,         \* may the script misuse the procedural functions?
  MayDie,        \* may a peripheral die by itself?
  MaxCalls,      \* bound on the number of calls
  MaxEvents      \* bound on the lines that peripherals print by themselves

ASSUME SessionAssumption ==
  /\ Wrong \in BOOLEAN /\ MayDie \in BOOLEAN
  /\ MaxCalls \in Nat /\ MaxEvents \in Nat
  /\ {"TCMD", "TECHO", "TOPEN", "USER"} \subseteq Trig

VARIABLES
  script,        \* "runs", "reads" the synchronization output, "stopped", "dead"
  made,          \* the peripherals that have an Interface object
  todo,          \* what is left of the current call
  call, job,     \* the number of calls made, and the current one
  sync,          \* SyncCount of each interface
  want,          \* the request that the script waits for
  \* history
  result,        \* what the last "keep" or "info" step returned
  served,        \* calls whose answer the engine has read
  owed,          \* peripherals that may still answer a command given up
  events         \* number of lines printed spontaneously

scriptVars == <<script, made, todo, call, job, sync, want, result, owed>>
vars == <<engineVars, scriptVars, served, events>>

NoJob == [name |-> "none", periph |-> None, trusted |-> FALSE]
NoResult == [job |-> NoJob, call |-> 0, info |-> None]

Init ==
  /\ EngineInit
  /\ script = "runs" /\ made = {} /\ todo = <<>> /\ call = 0 /\ job = NoJob
  /\ sync = [p \in Periph |-> 1]
  /\ want = None /\ result = NoResult
  /\ served = {} /\ owed = {} /\ events = 0

-----------------------------------------------------------------------------
(* The steps of a call.  Post sends a command; Ask sends one and reads its *)
(* answer, and "then" says what the library does with it.                  *)

Post(c) == [cmd |-> c, then |-> "post"]
Ask(c, then) == [cmd |-> c, then |-> then]

Plain(op)      == [op |-> op, call |-> 0]
OnPeriph(op, p) == [op |-> op, call |-> 0, periph |-> p]
OnTrig(op, t)  == [op |-> op, call |-> 0, id |-> t]
OnTrigs(op, S) == [op |-> op, call |-> 0, ids |-> S]
Define(t, p, pat) == [op |-> "trigdef", call |-> 0, id |-> t, src |-> p, pat |-> pat]
WaitFor(e, timed) == [op |-> "wait", call |-> 0, expr |-> e, timed |-> timed]
Send(p, kind, n)  == [op |-> "do", call |-> 0, periph |-> p, kind |-> kind, n |-> n]

Kind == {"boot", "ans", "echo"}
Pattern == [kind : Kind, n : Nat]
Operand == [id : Trig, neg : BOOLEAN, n : Nat]
Commands ==
  [op : {"timeout", "local", "case", "verdict", "done"}, call : Nat]
  \cup [op : {"periph", "open", "close"}, call : Nat, periph : Periph]
  \cup [op : {"info", "count"}, call : Nat, id : Trig]
  \cup [op : {"undef", "clear"}, call : Nat, ids : SUBSET Trig]
  \cup [op : {"trigdef"}, call : Nat, id : Trig, src : Periph \cup {None},
        pat : Pattern \cup {None}]
  \cup [op : {"wait"}, call : Nat, expr : SUBSET SUBSET Operand, timed : BOOLEAN]
  \cup [op : {"do"}, call : Nat, periph : Periph, kind : Kind, n : Nat]

Line == [kind : Kind, n : Nat, call : Nat]
Triggers == [src : Periph \cup {None}, pat : Pattern \cup {None},
             n : Nat, info : Line \cup {None}]

ASSUME NoneAssumption == None \notin Pattern \cup Commands \cup Triggers

Raise(t) == [id |-> t, neg |-> FALSE, n |-> 1]
Not(t)   == [id |-> t, neg |-> TRUE, n |-> 1]

BugSendFirst(p, t, msg, pat, timed) ==
  << Post(Send(p, msg.kind, msg.n)),
     Post(Define(t, p, pat)),
     Ask(WaitFor({{Raise(t)}}, timed), "info"),
     Post(OnTrigs("undef", {t})) >>
BugUndefFirst(p, t, msg, pat, timed) ==
  << Post(Define(t, p, pat)),
     Post(Send(p, msg.kind, msg.n)),
     Post(OnTrigs("undef", {t})),
     Ask(WaitFor({{Raise(t)}}, timed), "info") >>
(* Interface::command with a regular expression; its timeout is optional.  *)
CommandSteps(p, t, msg, pat, timed) ==
  << Post(Define(t, p, pat)),
     Post(Send(p, msg.kind, msg.n)),
     Ask(WaitFor({{Raise(t)}}, timed), "info"),
     Post(OnTrigs("undef", {t})) >>

(* Interface::open with a regular expression for the initialization.       *)
OpenSteps(p, t, pat) ==
  << Post(Define(t, p, pat)),
     Post(OnPeriph("open", p)),
     Ask(WaitFor({{Raise(t)}}, TRUE), "open"),
     Post(OnTrigs("undef", {t})) >>

(* What a peripheral prints, and the regular expressions for it.           *)
Boot    == [kind |-> "boot", n |-> 0]
Ans     == [kind |-> "ans", n |-> 0]
Echo(n) == [kind |-> "echo", n |-> n]

Start(name, p, steps) ==
  /\ script = "runs" /\ todo = <<>> /\ call < MaxCalls /\ name \in Calls
  /\ todo' = steps
  /\ call' = call + 1
  /\ job' = [name |-> name, periph |-> p, trusted |-> p \notin owed]
  /\ UNCHANGED <<engineVars, script, want, result, served, events>>

Keep == UNCHANGED <<made, sync, owed>>
Count(p) == sync' = [sync EXCEPT ![p] = @ + 1] /\ UNCHANGED <<made, owed>>

CallNew(p) ==
  /\ Start("new", p, <<Ask(OnPeriph("periph", p), "ignore")>>)
  /\ sync' = [sync EXCEPT ![p] = 1]
  /\ made' = made \cup {p} /\ owed' = owed \ {p}

CallOpen(p) ==
  /\ p \in made
  /\ \/ Start("open", p, <<Post(OnPeriph("open", p))>>) /\ Keep
     \/ Start("openwait", p, OpenSteps(p, "TOPEN", Boot)) /\ Count(p)
     \/ Start("illegal", p, OpenSteps(p, "TOPEN", None)) /\ Count(p)

CallClose(p) ==
  /\ p \in made
  /\ Start("close", p, <<Ask(OnPeriph("close", p), "ignore")>>)
  /\ owed' = owed \ {p} /\ UNCHANGED <<made, sync>>

CallCommand(p) ==                   \* a regular expression may be an illegal one
  /\ p \in made
  /\ \/ /\ \/ Start("post", p, <<Post(Send(p, "ans", 0))>>)
           \/ Start("illegal", p, CommandSteps(p, "TCMD", Ans, None, TRUE))
        /\ owed' = owed \cup {p} /\ UNCHANGED <<made, sync>>
     \/ Start("command", p, CommandSteps(p, "TCMD", Ans, Ans, TRUE)) /\ Keep
     \/ Start("untimed", p, CommandSteps(p, "TCMD", Ans, Ans, FALSE)) /\ Keep

BugSameNumber(p) == 1
SyncNumber(p) == sync[p]
CallSync(p) ==
  /\ p \in made
  /\ Start("sync", p, CommandSteps(p, "TECHO", Echo(SyncNumber(p)), Echo(SyncNumber(p)), TRUE))
  /\ Count(p)

(* The procedural functions.                                               *)
User == "USER"

CallTrig ==
  /\ Keep
  /\ \/ \E p \in Periph \cup {None}, pat \in {Boot} \cup
                                             (IF Wrong THEN {None} ELSE {}) :
          Start("trigdef", p, <<Post(Define(User, p, pat))>>)
     \/ \E e \in {{{Raise(User)}}, {{Not(User)}}}, timed \in BOOLEAN :
          Start("trigwait", None, <<Ask(WaitFor(e, timed), "keep")>>)
     \/ \E op \in {"info", "count"} :
          Start("trigask", None, <<Ask(OnTrig(op, User), "keep")>>)
     \/ \E op \in {"undef", "clear"}, S \in SUBSET {User} :
          Start("trigdrop", None, <<Post(OnTrigs(op, S))>>)
     \/ Start("timeout", None, <<Post(Plain("timeout"))>>)

CallCase ==
  /\ Keep
  /\ \/ \E op \in {"local", "case", "verdict"} : Start("case", None, <<Post(Plain(op))>>)
     \/ Start("case", None, <<Ask(Plain("done"), "ignore")>>)

CallDo(p) ==                        \* do_with on a name that is not declared
  Wrong /\ p \notin made /\ Keep /\ Start("do", p, <<Post(Send(p, "ans", 0))>>)

-----------------------------------------------------------------------------
(* The script runs the steps of its call.                                  *)

Sent == cmds' = Append(cmds, [Head(todo).cmd EXCEPT !.call = call])

ScriptPost ==
  /\ script = "runs" /\ todo # <<>> /\ epc # "exit"
  /\ Head(todo).then = "post"
  /\ Sent
  /\ todo' = Tail(todo)
  /\ UNCHANGED <<epc, eof, replies, linkVars, trigs, timeout, waitVars, serveVars, caseVars,
                 script, made, call, job, sync, want, result, owed, served, events>>

ScriptAsk ==
  /\ script = "runs" /\ todo # <<>> /\ epc # "exit"
  /\ Head(todo).then # "post"
  /\ Sent
  /\ script' = "reads" /\ want' = cmds'[Len(cmds')]
  /\ UNCHANGED <<epc, eof, replies, linkVars, trigs, timeout, waitVars, serveVars, caseVars,
                 made, todo, call, job, sync, result, owed, served, events>>

(* What follows an answer a, a set of trigger names for WAIT.              *)
Follow(then, a) ==
  CASE then = "info" /\ a # {} -> {<<Ask(OnTrig("info", t), "keep")>> : t \in a}
    [] then = "open" /\ a = {} -> {<<Ask(OnPeriph("close", job.periph), "ignore")>>}
    [] OTHER -> {<<>>}

Returned(then, a) ==
  /\ result' = CASE then = "keep" -> [job |-> job, call |-> call, info |-> a]
                 [] then = "info" /\ a = {} -> [job |-> job, call |-> call, info |-> None]
                 [] OTHER -> result
  /\ owed' = IF then = "info" /\ a = {} THEN owed \cup {job.periph} ELSE owed
  /\ \E next \in Follow(then, a) : todo' = next \o Tail(todo)
  /\ script' = "runs" /\ want' = None
  /\ UNCHANGED <<epc, cmds, eof, linkVars, trigs, timeout, waitVars, serveVars, caseVars,
                 made, call, job, sync, served, events>>

ScriptRead ==
  /\ script = "reads" /\ replies # <<>>
  /\ replies' = Tail(replies)
  /\ Returned(Head(todo).then, Head(replies).val)

ScriptEof ==                        \* the engine closed the synchronization output
  /\ script = "reads" /\ replies = <<>> /\ epc \in {"quit", "exit"}
  /\ UNCHANGED replies
  /\ Returned(Head(todo).then, IF Head(todo).then = "keep" THEN None ELSE {})

ScriptDies ==                       \* SIGCHLD or SIGPIPE: the engine is gone
  /\ script \in {"runs", "reads"} /\ epc = "exit"
  /\ script' = "dead" /\ todo' = <<>> /\ want' = None /\ replies' = <<>>
  /\ UNCHANGED <<epc, cmds, eof, linkVars, trigs, timeout, waitVars, serveVars, caseVars,
                 made, call, job, sync, result, owed, served, events>>

ScriptStop ==                       \* Engine::stop, when the script ends
  /\ script = "runs" /\ todo = <<>>
  /\ script' = "stopped" /\ eof' = TRUE
  /\ UNCHANGED <<epc, cmds, replies, linkVars, trigs, timeout, waitVars, serveVars, caseVars,
                 made, todo, call, job, sync, want, result, owed, served, events>>

-----------------------------------------------------------------------------
(* The peripherals.                                                        *)

Printed(p, line) ==
  /\ out' = [out EXCEPT ![p] = Append(@, line)]
  /\ UNCHANGED <<epc, pipeVars, declared, conn, alive, trigs, timeout, waitVars, serveVars,
                 caseVars, scriptVars, served>>

PeriphReply(p) ==
  /\ p \in alive /\ inp[p] # <<>>
  /\ Printed(p, Head(inp[p]))
  /\ inp' = [inp EXCEPT ![p] = Tail(@)]
  /\ UNCHANGED events

PeriphEvent(p) ==
  /\ p \in alive /\ events < MaxEvents
  /\ Printed(p, [kind |-> "boot", n |-> 0, call |-> 0])
  /\ events' = events + 1
  /\ UNCHANGED inp

PeriphDies(p) ==
  /\ MayDie /\ p \in alive
  /\ alive' = alive \ {p}
  /\ inp' = [inp EXCEPT ![p] = <<>>]
  /\ UNCHANGED <<epc, pipeVars, declared, conn, out, trigs, timeout, waitVars, serveVars,
                 caseVars, scriptVars, served, events>>

-----------------------------------------------------------------------------
Script == ScriptPost \/ ScriptAsk \/ ScriptRead \/ ScriptEof \/ ScriptDies

MakesCall ==
  \/ \E p \in Periph : CallNew(p) \/ CallOpen(p) \/ CallClose(p) \/ CallCommand(p)
                       \/ CallSync(p) \/ CallDo(p)
  \/ CallTrig \/ CallCase

(* The lines read in this step, for the history.                           *)
Read == IF epc = "serve" THEN {Head(out[p]).call : p \in {q \in Periph : out'[q] # out[q]}}
                         ELSE {}

EngineRuns ==
  /\ EngineStep
  /\ served' = served \cup Read
  /\ UNCHANGED <<scriptVars, events>>

TimePasses == Tick /\ UNCHANGED <<scriptVars, served, events>>

Next ==
  \/ EngineRuns \/ TimePasses
  \/ Script \/ MakesCall \/ ScriptStop
  \/ \E p \in Periph : PeriphReply(p) \/ PeriphEvent(p) \/ PeriphDies(p)

Spec == Init /\ [][Next]_vars

(* The engine and the script run, and time passes; nothing is assumed of   *)
(* the peripherals, nor that the script makes another call.                *)
FairSpec == Spec /\ WF_vars(EngineRuns) /\ WF_vars(Script) /\ WF_vars(TimePasses)

-----------------------------------------------------------------------------
TypeOK ==
  /\ epc \in Place /\ back \in {"input", "check"}
  /\ {eof, timeout, timeUp, running, localSet} \subseteq BOOLEAN
  /\ declared \subseteq Periph /\ conn \subseteq declared /\ alive \subseteq conn
  /\ left \subseteq Periph
  /\ out \in [Periph -> Seq(Line)] /\ inp \in [Periph -> Seq(Line)]
  /\ trigs \in [Trig -> Triggers \cup {None}]
  /\ script \in {"runs", "reads", "stopped", "dead"}
  /\ made \subseteq Periph /\ sync \in [Periph -> Nat]
  /\ \A k \in DOMAIN cmds : cmds[k] \in Commands
  /\ (waiting # None) = (epc \in {"check", "select"} \/ (epc = "serve" /\ back = "check"))

(* sync() returns the line that the peripheral printed for this very call: *)
(* no line of an earlier one, be it late, passes for it.                   *)
SyncFresh ==
  result.job.name = "sync" /\ result.info # None => result.info.call = result.call

(* When sync() succeeds the engine has read every line that answers an     *)
(* earlier command: nothing that was asked before is still on its way.     *)
SyncBarrier ==
  result.job.name = "sync" /\ result.info # None =>
    \A p \in {result.job.periph} :
      /\ \A k \in 1 .. Len(out[p]) : out[p][k].call \in {0} \cup result.call .. MaxCalls
      /\ \A k \in 1 .. Len(inp[p]) : inp[p][k].call >= result.call

(* command() returns an answer to this very call, if no earlier command    *)
(* was given up since the peripheral was opened.                           *)
CommandFresh ==
  result.job.name \in {"command", "untimed"} /\ result.job.trusted /\ result.info # None =>
    result.info.call = result.call

(* An answer that the engine read counts, even if it came before WAIT: the *)
(* trigger is defined before the command is sent.                          *)
AnswerCounts ==
  epc \in {"check", "select"} /\ job.name \in {"command", "untimed", "sync"} /\ call \in served
    => Holds(waiting.expr)

(* The engine fails for two reasons only, whatever methods of Interface    *)
(* are called and in whatever order: a WAIT that has no timeout, neither   *)
(* its own nor a default one, and a regular expression that does not       *)
(* compile.  In particular no trigger that a method needs is missing and   *)
(* no peripheral is unknown.                                               *)
Refused(c) == \/ c.op = "wait" /\ ~ c.timed /\ ~ timeout
              \/ c.op = "trigdef" /\ c.pat = None
EngineSurvives == epc = "quit" /\ ~ eof => cmds # <<>> /\ Refused(Head(cmds))

(* A request is answered, or the script learns that the engine is gone.    *)
ScriptNotStuck == script = "reads" ~> script # "reads"

Fits(a, asked) ==
  /\ a.to = asked
  /\ CASE asked.op = "wait"  -> a.val \subseteq {l.id : l \in Operands(asked.expr)}
       [] asked.op = "close" -> a.val \subseteq {asked.periph}
       [] asked.op = "count" -> a.val \in Nat
       [] asked.op = "info"  -> a.val \in Line \cup {None}
       [] OTHER              -> TRUE

Answers == INSTANCE Rpc WITH asked <- want, answer <- replies,
                             up <- epc \notin {"quit", "exit"}

(* Each request gets exactly one answer, its own, before the next one.     *)
AnswersMatch == Answers!Spec
=============================================================================
