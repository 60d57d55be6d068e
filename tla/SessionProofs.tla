--------------------------- MODULE SessionProofs ---------------------------
(***************************************************************************)
(* Proofs about Session for every set of triggers and of peripherals, and  *)
(* for scripts and peripherals that do as much as they like.               *)
(***************************************************************************)
EXTENDS Session, QueueLemmas

Up == epc \notin {"quit", "exit"}

(* The commands that the engine answers, and the steps that read it.       *)
AskOp == {"periph", "close", "wait", "info", "count", "done"}
Steps == {s \in [cmd : Commands, then : {"post", "ignore", "info", "open", "keep"}] :
            /\ s.then # "post" <=> s.cmd.op \in AskOp
            /\ s.then \in {"info", "open"} => s.cmd.op = "wait"}

(* The types of the variables.                                             *)
EngineTypes ==
  /\ epc \in Place /\ back \in {"input", "check"}
  /\ eof \in BOOLEAN /\ timeout \in BOOLEAN /\ timeUp \in BOOLEAN
  /\ running \in BOOLEAN /\ localSet \in BOOLEAN
  /\ declared \subseteq Periph /\ conn \subseteq declared /\ alive \subseteq conn
  /\ left \subseteq Periph
  /\ out \in [Periph -> Seq(Line)] /\ inp \in [Periph -> Seq(Line)]
  /\ trigs \in [Trig -> Triggers \cup {None}]
  /\ cmds \in Seq(Commands)
  /\ waiting \in Commands \cup {None}
  /\ waiting # None <=> (epc \in {"check", "select"} \/ (epc = "serve" /\ back = "check"))
  /\ waiting # None => waiting.op = "wait"
ScriptTypes ==
  /\ script \in {"runs", "reads", "stopped", "dead"}
  /\ made \subseteq Periph /\ sync \in [Periph -> Nat]
  /\ todo \in Seq(Steps) /\ call \in Nat
  /\ job.periph \in Periph \cup {None}
  /\ \A k \in DOMAIN todo : todo[k].then \in {"info", "open"} => job.periph \in Periph
Types == EngineTypes /\ ScriptTypes

(* Where the request of the script is: in the queue of the commands, whose *)
(* others are not answered, in the WAIT in progress, or answered.          *)
Asking ==
  /\ want # None <=> script = "reads"
  /\ script = "reads" => /\ todo # <<>> /\ Head(todo).then # "post"
                         /\ want \in Commands /\ want.op = Head(todo).cmd.op
Answered ==
  replies = <<>> \/ /\ Len(replies) = 1 /\ Tail(replies) = <<>>
                    /\ script = "reads" /\ Fits(Head(replies), want)
Unanswered == script = "reads" /\ replies = <<>>
Pending ==
  Up => /\ \A k \in DOMAIN cmds : cmds[k].op \in AskOp =>
             k = Len(cmds) /\ cmds[k] = want /\ Unanswered /\ waiting = None
        /\ waiting # None => waiting = want /\ Unanswered

IInv == Types /\ Asking /\ Answered /\ Pending

-----------------------------------------------------------------------------

(* A command says what its fields are, whatever call sends it.             *)
LEMMA CommandOf ==
  ASSUME NEW c \in Commands
  PROVE  /\ c.op \in {"periph", "open", "close", "do"} => c.periph \in Periph
         /\ c.op = "trigdef" => /\ c.src \in Periph \cup {None}
                                /\ c.pat \in Pattern \cup {None}
         /\ c.op = "do" => c.kind \in Kind /\ c.n \in Nat
         /\ c.op = "wait" => c.expr \in SUBSET SUBSET Operand
         /\ c.op \in {"info", "count"} => c.id \in Trig
         /\ c.call \in Nat /\ c # None
         /\ \A k \in Nat : [c EXCEPT !.call = k] \in Commands /\ [c EXCEPT !.call = k].op = c.op
<1> USE NoneAssumption
<1>1. c # None
  OBVIOUS
<1> QED BY <1>1 DEF Commands

LEMMA InitInv == Init => IInv
<1> SUFFICES ASSUME Init PROVE IInv
  OBVIOUS
<1> USE EngineAssumption, SessionAssumption DEF Init, EngineInit
<1>1. <<>> \in Seq(Line) /\ <<>> \in Seq(Commands) /\ <<>> \in Seq(Steps)
  BY EmptyOf
<1>2. EngineTypes
  BY <1>1 DEF EngineTypes, Place, Triggers
<1>3. ScriptTypes
  BY <1>1, EmptyOf DEF ScriptTypes, NoJob
<1>4. Asking /\ Answered
  BY DEF Asking, Answered
<1>5. Pending
  BY EmptyOf DEF Pending
<1> QED BY <1>2, <1>3, <1>4, <1>5 DEF IInv, Types

-----------------------------------------------------------------------------
(* The steps of the engine keep the types.                                 *)
LEMMA TakesOf ==
  ASSUME EngineTypes, NEW op, Takes(op)
  PROVE  /\ Command \in Commands /\ Command.op = op /\ Tail(cmds) \in Seq(Commands)
         /\ waiting = None /\ epc = "input"
<1> QED BY TailOf DEF Takes, Command, EngineTypes

LEMMA ClosedOf ==
  ASSUME EngineTypes, NEW S, Closed(S)
  PROVE  /\ conn' \subseteq conn /\ alive' \subseteq conn'
         /\ out' \in [Periph -> Seq(Line)] /\ inp' \in [Periph -> Seq(Line)]
<1> QED BY EmptyOf DEF Closed, EngineTypes

LEMMA FreshOf ==
  ASSUME NEW src \in Periph \cup {None}, NEW pat \in Pattern \cup {None}
  PROVE  Fresh(src, pat) \in Triggers /\ Fresh(src, pat) # None
<1>1. Fresh(src, pat) \in Triggers
  BY DEF Fresh, Triggers
<1> QED BY <1>1, NoneAssumption

LEMMA UpdatedOf ==
  ASSUME EngineTypes, NEW p \in Periph, NEW line \in Line
  PROVE  Updated(p, line) \in [Trig -> Triggers \cup {None}]
<1>1. ASSUME NEW t \in Trig, Hit(t, p, line)
      PROVE  [trigs[t] EXCEPT !.n = @ + 1, !.info = line] \in Triggers
  <2>1. trigs[t] \in Triggers
    BY <1>1 DEF Hit, EngineTypes
  <2>2. [trigs[t] EXCEPT !.n = @ + 1] \in Triggers
    BY <2>1 DEF Triggers
  <2>3. \A y \in Triggers : [y EXCEPT !.info = line] \in Triggers
    BY DEF Triggers
  <2> QED BY <2>2, <2>3
<1> QED BY <1>1 DEF Updated, EngineTypes

LEMMA QuitTypes ==
  ASSUME EngineTypes, Quit, epc = "input"
  PROVE  EngineTypes'
<1> QED BY DEF Quit, EngineTypes, pipeVars, linkVars, waitVars, serveVars, caseVars, Place, Triggers

LEMMA TriggerTypes ==
  ASSUME EngineTypes, Trigger
  PROVE  EngineTypes'
<1> USE DEF pipeVars, linkVars, waitVars, serveVars, caseVars
<1>1. CASE TrigDef
  <2>1. Takes("trigdef")
    BY <1>1 DEF TrigDef
  <2>2. CASE Quit
    BY <2>1, <2>2, QuitTypes DEF Takes
  <2>3. CASE ~ Quit
    <3>1. /\ trigs' = [trigs EXCEPT ![Command.id] = Fresh(Command.src, Command.pat)]
          /\ Done /\ UNCHANGED <<epc, eof, linkVars, timeout, waitVars, serveVars, caseVars>>
      BY <1>1, <2>3 DEF TrigDef
    <3>2. Fresh(Command.src, Command.pat) \in Triggers
      BY <2>1, TakesOf, CommandOf, FreshOf
    <3> QED BY <2>1, <3>1, <3>2, TakesOf DEF EngineTypes, Done
  <2> QED BY <2>2, <2>3
<1>2. CASE TrigUndef
  BY <1>2, TakesOf DEF TrigUndef, EngineTypes, Done, Triggers
<1>3. CASE TrigClear
  <2>1. \A t \in Trig : trigs[t] # None => Fresh(trigs[t].src, trigs[t].pat) \in Triggers
    BY FreshOf DEF EngineTypes, Triggers
  <2>2. trigs' \in [Trig -> Triggers \cup {None}]
    BY <1>3, <2>1 DEF TrigClear, EngineTypes
  <2> QED BY <1>3, <2>2, TakesOf DEF TrigClear, EngineTypes, Done
<1>4. CASE TrigAsk
  <2>1. epc = "input" /\ Tail(cmds) \in Seq(Commands)
    BY <1>4, TakesOf DEF TrigAsk
  <2>2. CASE Quit
    BY <2>1, <2>2, QuitTypes
  <2>3. CASE ~ Quit
    BY <1>4, <2>1, <2>3 DEF TrigAsk, EngineTypes, Done
  <2> QED BY <2>2, <2>3
<1> QED BY <1>1, <1>2, <1>3, <1>4 DEF Trigger

LEMMA LinksTypes ==
  ASSUME EngineTypes, Links
  PROVE  EngineTypes'
<1> USE DEF pipeVars, linkVars, waitVars, serveVars, caseVars
<1>1. CASE PeriphDeclare
  <2>1. Takes("periph") /\ Command.periph \in Periph
    BY <1>1, TakesOf, CommandOf DEF PeriphDeclare
  <2>2. declared' = declared \cup {Command.periph} /\ Closed({Command.periph})
    BY <1>1 DEF PeriphDeclare
  <2> QED BY <1>1, <2>1, <2>2, TakesOf, ClosedOf DEF PeriphDeclare, EngineTypes, Done
<1>2. CASE Open
  <2>1. Takes("open") /\ epc = "input"
    BY <1>2 DEF Open, Takes
  <2>2. CASE Quit
    BY <2>1, <2>2, QuitTypes
  <2>3. CASE ~ Quit
    BY <1>2, <2>1, <2>3, TakesOf DEF Open, EngineTypes, Done
  <2> QED BY <2>2, <2>3
<1>3. CASE Close
  BY <1>3, TakesOf, ClosedOf DEF Close, EngineTypes, Done
<1>4. CASE Do
  <2>1. Takes("do") /\ epc = "input"
    BY <1>4 DEF Do, Takes
  <2>2. CASE Quit
    BY <2>1, <2>2, QuitTypes
  <2>3. CASE ~ Quit
    <3>1. Message \in Line
      BY <2>1, TakesOf, CommandOf DEF Message, Line
    <3>2. \A p \in Periph : Append(inp[p], Message) \in Seq(Line)
      BY <3>1, AppendOf DEF EngineTypes
    <3>3. inp' \in [Periph -> Seq(Line)]
      <4>1. CASE Command.periph \in conn \cap alive
        <5>1. inp' = [inp EXCEPT ![Command.periph] = Append(inp[Command.periph], Message)]
          BY <1>4, <2>3, <4>1 DEF Do
        <5> QED BY <3>2, <4>1, <5>1 DEF EngineTypes
      <4>2. CASE Command.periph \notin conn \cap alive
        BY <1>4, <2>3, <4>2 DEF Do, EngineTypes
      <4> QED BY <4>1, <4>2
    <3> QED BY <1>4, <2>1, <2>3, <3>3, TakesOf DEF Do, EngineTypes, Done
  <2> QED BY <2>2, <2>3
<1> QED BY <1>1, <1>2, <1>3, <1>4 DEF Links

LEMMA CasesTypes ==
  ASSUME EngineTypes, Cases \/ Timeout
  PROVE  EngineTypes'
<1> USE DEF pipeVars, linkVars, waitVars, serveVars, caseVars
<1>1. CASE Quit /\ epc = "input"
  BY <1>1, QuitTypes
<1>2. CASE ~ (Quit /\ epc = "input")
  <2>1. /\ UNCHANGED <<epc, eof, linkVars, trigs, waitVars, serveVars>>
        /\ Done /\ epc = "input" /\ cmds # <<>>
        /\ timeout' \in BOOLEAN /\ running' \in BOOLEAN /\ localSet' \in BOOLEAN
    BY <1>2 DEF Cases, Case, CaseDone, Verdict, Local, Timeout, Takes, EngineTypes
  <2>2. Tail(cmds) \in Seq(Commands)
    BY <2>1, TailOf DEF EngineTypes
  <2> QED BY <2>1, <2>2 DEF EngineTypes, Done
<1> QED BY <1>1, <1>2

LEMMA WaitsTypes ==
  ASSUME EngineTypes, Waits
  PROVE  EngineTypes'
<1> USE DEF pipeVars, linkVars, waitVars, serveVars, caseVars, Place
<1>1. CASE Wait
  <2>1. Takes("wait") /\ epc = "input"
    BY <1>1 DEF Wait, Takes
  <2>2. CASE Quit
    BY <2>1, <2>2, QuitTypes
  <2>3. CASE ~ Quit
    <3>1. Command \in Commands /\ Command # None /\ Command.op = "wait" /\ Tail(cmds) \in Seq(Commands)
      BY <2>1, TakesOf, CommandOf
    <3>2. /\ UNCHANGED <<eof, linkVars, trigs, timeout, serveVars, caseVars>>
          /\ epc' = "check" /\ waiting' = Command /\ timeUp' = FALSE /\ Done
      BY <1>1, <2>3 DEF Wait
    <3> QED BY <3>1, <3>2 DEF EngineTypes, Done
  <2> QED BY <2>2, <2>3
<1>2. ASSUME NEW a, WaitOver(a) PROVE EngineTypes'
  BY <1>2 DEF WaitOver, EngineTypes
<1>3. CASE WaitSelect
  BY <1>3 DEF WaitSelect, EngineTypes
<1>4. CASE WaitServe
  BY <1>4 DEF WaitServe, Serve, EngineTypes
<1> QED BY <1>1, <1>2, <1>3, <1>4 DEF Waits, WaitUnblock, WaitElapsed, WaitTimeout

LEMMA ServesTypes ==
  ASSUME EngineTypes, Serves
  PROVE  EngineTypes'
<1> USE DEF pipeVars, linkVars, waitVars, serveVars, caseVars, Place
<1>1. CASE InputServe
  BY <1>1 DEF InputServe, Serve, EngineTypes
<1>2. CASE ServeEnd
  BY <1>2 DEF ServeEnd, EngineTypes
<1>3. ASSUME NEW p \in Periph, ServeLine(p) PROVE EngineTypes'
  <2>1. Head(out[p]) \in Line /\ Tail(out[p]) \in Seq(Line)
    BY <1>3, TailOf DEF ServeLine, EngineTypes
  <2>2. trigs' \in [Trig -> Triggers \cup {None}]
    BY <1>3, <2>1, UpdatedOf DEF ServeLine
  <2>3. out' \in [Periph -> Seq(Line)]
    BY <1>3, <2>1 DEF ServeLine, EngineTypes
  <2> QED BY <1>3, <2>2, <2>3 DEF ServeLine, EngineTypes
<1>4. ASSUME NEW p \in Periph, ServeEof(p) PROVE EngineTypes'
  BY <1>4, ClosedOf DEF ServeEof, EngineTypes
<1> QED BY <1>1, <1>2, <1>3, <1>4 DEF Serves

LEMMA EngineKeepsTypes ==
  ASSUME EngineTypes, EngineStep
  PROVE  EngineTypes'
<1> USE DEF pipeVars, linkVars, waitVars, serveVars, caseVars, Place
<1>1. CASE InputEnd
  BY <1>1, QuitTypes DEF InputEnd
<1>2. CASE Exit
  BY <1>2, EmptyOf DEF Exit, EngineTypes
<1> QED BY <1>1, <1>2, TriggerTypes, LinksTypes, CasesTypes, WaitsTypes, ServesTypes
        DEF EngineStep

-----------------------------------------------------------------------------
(* What a step of the engine means for the dialogue with the script.       *)
Taking == /\ epc = "input" /\ cmds # <<>> /\ cmds' = Tail(cmds)
Giving(c) == \E a : /\ replies' = Append(replies, a) /\ Fits(a, c)

Effect ==
  \/ Taking /\ epc' = "input" /\ Head(cmds).op \notin AskOp /\ UNCHANGED <<replies, waiting>>
  \/ Taking /\ epc' = "input" /\ Head(cmds).op \in AskOp /\ Giving(Head(cmds))
     /\ UNCHANGED waiting
  \/ Taking /\ epc' = "check" /\ waiting' = Head(cmds) /\ UNCHANGED replies
     /\ Head(cmds).op = "wait"
  \/ Up /\ Up' /\ waiting # None /\ waiting' = None /\ Giving(waiting) /\ UNCHANGED cmds
  \/ Up' = Up /\ UNCHANGED <<cmds, replies, waiting>>
  \/ Up /\ ~ Up' /\ UNCHANGED <<cmds, replies, waiting>>
  \/ ~ Up /\ ~ Up' /\ cmds' = <<>> /\ UNCHANGED <<replies, waiting>>

LEMMA QuitEffect ==
  ASSUME epc = "input", Quit
  PROVE  Effect
<1> QED BY DEF Quit, Effect, Up, pipeVars, waitVars

LEMMA FitsOther ==
  ASSUME NEW c, NEW v, c.op \notin {"wait", "close", "count", "info"}
  PROVE  Fits([to |-> c, val |-> v], c)
<1> QED BY DEF Fits

LEMMA EngineEffect ==
  ASSUME EngineTypes, EngineStep
  PROVE  Effect
<1> USE DEF pipeVars, linkVars, waitVars, serveVars, caseVars
<1> SUFFICES ASSUME ~ (epc = "input" /\ Quit) PROVE Effect
  BY QuitEffect
<1>1. CASE Trigger
  <2>1. CASE TrigDef \/ TrigUndef \/ TrigClear
    BY <2>1 DEF TrigDef, TrigUndef, TrigClear, Takes, Done, Silent, Effect, Taking, AskOp
  <2>2. CASE TrigAsk
    <3>1. /\ epc = "input" /\ epc' = "input" /\ cmds # <<>> /\ Command.op \in {"info", "count"}
          /\ trigs[Command.id] # None /\ cmds' = Tail(cmds) /\ waiting' = waiting
          /\ Answer(Command, IF Command.op = "info" THEN trigs[Command.id].info
                                                    ELSE trigs[Command.id].n)
      BY <2>2 DEF TrigAsk, Takes, Done, Command
    <3>2. Command.id \in Trig
      BY <2>2, <3>1, TakesOf, CommandOf DEF TrigAsk
    <3>3. trigs[Command.id].info \in Line \cup {None} /\ trigs[Command.id].n \in Nat
      BY <3>1, <3>2 DEF EngineTypes, Triggers
    <3>4. Giving(Command)
      <4>1. CASE Command.op = "info"
        BY <3>1, <3>3, <4>1 DEF Giving, Fits, Answer
      <4>2. CASE Command.op = "count"
        BY <3>1, <3>3, <4>2 DEF Giving, Fits, Answer
      <4> QED BY <3>1, <4>1, <4>2
    <3> QED BY <3>1, <3>4 DEF Effect, Taking, AskOp, Command
  <2> QED BY <1>1, <2>1, <2>2 DEF Trigger
<1>2. CASE Links
  <2>1. CASE PeriphDeclare
    <3>1. Giving(Command) /\ Command.op = "periph"
      BY <2>1, FitsOther DEF PeriphDeclare, Answer, Giving, Takes, Command
    <3> QED BY <2>1, <3>1 DEF PeriphDeclare, Takes, Done, Effect, Taking, AskOp, Command
  <2>2. CASE Close
    <3>1. Giving(Command) /\ Command.op = "close"
      BY <2>2 DEF Close, Answer, Giving, Takes, Command, Fits
    <3> QED BY <2>2, <3>1 DEF Close, Takes, Done, Effect, Taking, AskOp, Command
  <2>3. CASE Open \/ Do
    BY <2>3 DEF Open, Do, Takes, Done, Silent, Effect, Taking, AskOp
  <2> QED BY <1>2, <2>1, <2>2, <2>3 DEF Links
<1>3. CASE Cases \/ Timeout
  <2>1. CASE CaseDone
    <3>1. Giving(Command) /\ Command.op = "done"
      BY <2>1, FitsOther DEF CaseDone, Answer, Giving, Takes, Command
    <3> QED BY <2>1, <3>1 DEF CaseDone, Takes, Done, Effect, Taking, AskOp, Command
  <2>2. CASE Case \/ Verdict \/ Local \/ Timeout
    BY <2>2 DEF Case, Verdict, Local, Timeout, Takes, Done, Silent, Effect, Taking, AskOp
  <2> QED BY <1>3, <2>1, <2>2 DEF Cases
<1>4. CASE Waits
  <2>1. CASE Wait
    BY <2>1 DEF Wait, Takes, Done, Silent, Effect, Taking, Command
  <2>2. ASSUME NEW a, WaitOver(a), epc \in {"check", "select"},
               a \subseteq {l.id : l \in Operands(waiting.expr)}
        PROVE  Effect
    <3>1. waiting # None /\ waiting.op = "wait" /\ Up
      BY <2>2 DEF EngineTypes, Up
    <3>2. Giving(waiting)
      BY <2>2, <3>1 DEF WaitOver, Answer, Giving, Fits
    <3> QED BY <2>2, <3>1, <3>2 DEF WaitOver, Effect, Up
  <2>3. Raised(waiting.expr) \subseteq {l.id : l \in Operands(waiting.expr)}
    BY DEF Raised
  <2>4. CASE WaitSelect \/ WaitServe
    BY <2>4 DEF WaitSelect, WaitServe, Serve, Effect, Up
  <2> QED BY <1>4, <2>1, <2>2, <2>3, <2>4 DEF Waits, WaitUnblock, WaitElapsed, WaitTimeout
<1>5. CASE Serves
  <2>1. UNCHANGED <<cmds, replies, waiting>> /\ Up' = Up
    BY <1>5 DEF Serves, InputServe, Serve, ServeEnd, ServeLine, ServeEof, EngineTypes, Up
  <2> QED BY <2>1 DEF Effect
<1>6. CASE InputEnd
  BY <1>6 DEF InputEnd
<1>7. CASE Exit
  BY <1>7 DEF Exit, Effect, Up
<1> QED BY <1>1, <1>2, <1>3, <1>4, <1>5, <1>6, <1>7 DEF EngineStep

-----------------------------------------------------------------------------
(* The calls of the script are made of well-formed steps.                  *)
LEMMA StepOf ==
  ASSUME NEW c \in Commands
  PROVE  /\ c.op \notin AskOp => Post(c) \in Steps /\ Post(c).then = "post" /\ Post(c).cmd = c
         /\ \A then \in {"ignore", "keep"} :
              c.op \in AskOp => Ask(c, then) \in Steps /\ Ask(c, then).then = then
                                /\ Ask(c, then).cmd = c
         /\ \A then \in {"info", "open"} :
              c.op = "wait" => Ask(c, then) \in Steps /\ Ask(c, then).then = then
                                /\ Ask(c, then).cmd = c
<1> QED BY DEF Post, Ask, Steps, AskOp

LEMMA PostedOf ==
  /\ \A op \in {"timeout", "local", "case", "verdict"} :
       Plain(op) \in Commands /\ Post(Plain(op)) \in Steps
  /\ \A p \in Periph : Post(OnPeriph("open", p)) \in Steps
  /\ \A op \in {"undef", "clear"}, S \in SUBSET Trig : Post(OnTrigs(op, S)) \in Steps
  /\ \A t \in Trig, p \in Periph \cup {None}, pat \in Pattern \cup {None} :
       Post(Define(t, p, pat)) \in Steps
  /\ \A p \in Periph, kind \in Kind, n \in Nat : Post(Send(p, kind, n)) \in Steps
<1> USE StepOf DEF Commands, AskOp
<1>1. ASSUME NEW op \in {"timeout", "local", "case", "verdict"}
      PROVE  Plain(op) \in Commands /\ Post(Plain(op)) \in Steps
  <2>1. Plain(op) \in Commands /\ Plain(op).op \notin AskOp
    BY DEF Plain
  <2> QED BY <2>1
<1>2. ASSUME NEW p \in Periph PROVE Post(OnPeriph("open", p)) \in Steps
  <2>1. OnPeriph("open", p) \in Commands /\ OnPeriph("open", p).op \notin AskOp
    BY DEF OnPeriph
  <2> QED BY <2>1
<1>3. ASSUME NEW op \in {"undef", "clear"}, NEW S \in SUBSET Trig
      PROVE  Post(OnTrigs(op, S)) \in Steps
  <2>1. OnTrigs(op, S) \in Commands /\ OnTrigs(op, S).op \notin AskOp
    BY DEF OnTrigs
  <2> QED BY <2>1
<1>4. ASSUME NEW t \in Trig, NEW p \in Periph \cup {None},
             NEW pat \in Pattern \cup {None}
      PROVE  Post(Define(t, p, pat)) \in Steps
  <2>1. Define(t, p, pat) \in Commands /\ Define(t, p, pat).op \notin AskOp
    BY DEF Define
  <2> QED BY <2>1
<1>5. ASSUME NEW p \in Periph, NEW kind \in Kind, NEW n \in Nat
      PROVE  Post(Send(p, kind, n)) \in Steps
  <2>1. Send(p, kind, n) \in Commands /\ Send(p, kind, n).op \notin AskOp
    BY DEF Send
  <2> QED BY <2>1
<1> QED BY <1>1, <1>2, <1>3, <1>4, <1>5

LEMMA AskedOf ==
  /\ \A op \in {"periph", "close"}, p \in Periph :
       /\ Ask(OnPeriph(op, p), "ignore") \in Steps
       /\ Ask(OnPeriph(op, p), "ignore").then = "ignore"
  /\ \A e \in SUBSET SUBSET Operand, timed \in BOOLEAN, then \in {"info", "open", "keep"} :
       Ask(WaitFor(e, timed), then) \in Steps /\ Ask(WaitFor(e, timed), then).then = then
  /\ \A op \in {"info", "count"}, t \in Trig :
       Ask(OnTrig(op, t), "keep") \in Steps /\ Ask(OnTrig(op, t), "keep").then = "keep"
  /\ Ask(Plain("done"), "ignore") \in Steps /\ Ask(Plain("done"), "ignore").then = "ignore"
<1> USE StepOf DEF Commands, AskOp
<1>1. ASSUME NEW op \in {"periph", "close"}, NEW p \in Periph
      PROVE  /\ Ask(OnPeriph(op, p), "ignore") \in Steps
             /\ Ask(OnPeriph(op, p), "ignore").then = "ignore"
  <2>1. OnPeriph(op, p) \in Commands /\ OnPeriph(op, p).op \in AskOp
    BY DEF OnPeriph
  <2> QED BY <2>1
<1>2. ASSUME NEW e \in SUBSET SUBSET Operand, NEW timed \in BOOLEAN,
             NEW then \in {"info", "open", "keep"}
      PROVE  Ask(WaitFor(e, timed), then) \in Steps /\ Ask(WaitFor(e, timed), then).then = then
  <2>1. WaitFor(e, timed) \in Commands /\ WaitFor(e, timed).op = "wait"
    BY DEF WaitFor
  <2> QED BY <2>1
<1>3. ASSUME NEW op \in {"info", "count"}, NEW t \in Trig
      PROVE  Ask(OnTrig(op, t), "keep") \in Steps /\ Ask(OnTrig(op, t), "keep").then = "keep"
  <2>1. OnTrig(op, t) \in Commands /\ OnTrig(op, t).op \in AskOp
    BY DEF OnTrig
  <2> QED BY <2>1
<1>4. Ask(Plain("done"), "ignore") \in Steps /\ Ask(Plain("done"), "ignore").then = "ignore"
  <2>1. Plain("done") \in Commands /\ Plain("done").op \in AskOp
    BY DEF Plain
  <2> QED BY <2>1
<1> QED BY <1>1, <1>2, <1>3, <1>4

LEMMA OperandOf ==
  ASSUME NEW t \in Trig
  PROVE  {{Raise(t)}} \in SUBSET SUBSET Operand /\ {{Not(t)}} \in SUBSET SUBSET Operand
<1>1. Raise(t) \in Operand /\ Not(t) \in Operand
  BY DEF Raise, Not, Operand
<1> QED BY <1>1

(* What the peripherals print are patterns too.                            *)
LEMMA PatternsOf ==
  /\ Boot \in Pattern /\ Ans \in Pattern /\ \A n \in Nat : Echo(n) \in Pattern
  /\ \A msg \in Pattern : msg.kind \in Kind /\ msg.n \in Nat
<1> QED BY DEF Boot, Ans, Echo, Pattern, Kind

LEMMA CommandStepsOf ==
  ASSUME NEW p \in Periph, NEW t \in Trig, NEW msg \in Pattern,
         NEW pat \in Pattern \cup {None}, NEW timed \in BOOLEAN
  PROVE  CommandSteps(p, t, msg, pat, timed) \in Seq(Steps)
<1>1. Post(Define(t, p, pat)) \in Steps
  BY PostedOf
<1>2. Post(Send(p, msg.kind, msg.n)) \in Steps
  BY PostedOf, PatternsOf
<1>3. Ask(WaitFor({{Raise(t)}}, timed), "info") \in Steps
  BY AskedOf, OperandOf
<1>4. Post(OnTrigs("undef", {t})) \in Steps
  BY PostedOf
<1> QED BY <1>1, <1>2, <1>3, <1>4, FourOf DEF CommandSteps

LEMMA OpenStepsOf ==
  ASSUME NEW p \in Periph, NEW t \in Trig, NEW pat \in Pattern \cup {None}
  PROVE  OpenSteps(p, t, pat) \in Seq(Steps)
<1>1. Post(Define(t, p, pat)) \in Steps
  BY PostedOf
<1>2. Post(OnPeriph("open", p)) \in Steps
  BY PostedOf
<1>3. Ask(WaitFor({{Raise(t)}}, TRUE), "open") \in Steps
  BY AskedOf, OperandOf
<1>4. Post(OnTrigs("undef", {t})) \in Steps
  BY PostedOf
<1> QED BY <1>1, <1>2, <1>3, <1>4, FourOf DEF OpenSteps

LEMMA StartTypes ==
  ASSUME Types, NEW name, NEW p \in Periph \cup {None}, NEW steps \in Seq(Steps),
         Start(name, p, steps),
         p \in Periph \/ \A k \in DOMAIN steps : steps[k].then \notin {"info", "open"}
  PROVE  /\ todo' \in Seq(Steps) /\ call' \in Nat /\ script' = script
         /\ job'.periph \in Periph \cup {None}
         /\ \A k \in DOMAIN todo' : todo'[k].then \in {"info", "open"} => job'.periph \in Periph
<1>1. job'.periph = p /\ todo' = steps /\ call' = call + 1 /\ script' = script
  BY DEF Start
<1> QED BY <1>1 DEF Types, ScriptTypes

(* A call that is made keeps the types and the dialogue.                   *)
LEMMA CallTypes ==
  ASSUME Types, MakesCall
  PROVE  /\ ScriptTypes'
         /\ UNCHANGED <<engineVars, script, want>> /\ script = "runs" /\ todo = <<>>
<1> USE EngineAssumption, SessionAssumption
<1> DEFINE Shape(name, p, steps) ==
             /\ Start(name, p, steps) /\ steps \in Seq(Steps) /\ p \in Periph \cup {None}
             /\ p \in Periph \/ \A k \in DOMAIN steps : steps[k].then \notin {"info", "open"}
<1>1. \A x \in Steps : <<x>> \in Seq(Steps) /\ \A k \in DOMAIN <<x>> : <<x>>[k] = x
  OBVIOUS
<1>2. ASSUME NEW name, NEW p, NEW steps, Shape(name, p, steps),
             made' \subseteq Periph, sync' \in [Periph -> Nat]
      PROVE  /\ ScriptTypes'
             /\ UNCHANGED <<engineVars, script, want>> /\ script = "runs" /\ todo = <<>>
  <2>1. /\ todo' \in Seq(Steps) /\ call' \in Nat /\ script' = script
        /\ job'.periph \in Periph \cup {None}
        /\ \A k \in DOMAIN todo' : todo'[k].then \in {"info", "open"} => job'.periph \in Periph
    BY <1>2, StartTypes
  <2> QED BY <1>2, <2>1 DEF ScriptTypes, Types, Start
<1>3. made \subseteq Periph /\ sync \in [Periph -> Nat]
  BY DEF Types, ScriptTypes
<1>4. Keep => made' \subseteq Periph /\ sync' \in [Periph -> Nat]
  BY <1>3 DEF Keep
<1>5. ASSUME NEW p \in Periph, Count(p) PROVE made' \subseteq Periph /\ sync' \in [Periph -> Nat]
  BY <1>3, <1>5 DEF Count
<1>6. ASSUME NEW p \in Periph, CallNew(p)
      PROVE  made' \subseteq Periph /\ sync' \in [Periph -> Nat] /\ \E name, steps : Shape(name, p, steps)
  <2>1. Shape("new", p, <<Ask(OnPeriph("periph", p), "ignore")>>)
    BY <1>1, <1>6, AskedOf DEF CallNew
  <2> QED BY <1>3, <1>6, <2>1 DEF CallNew
<1>7. ASSUME NEW p \in Periph, CallOpen(p)
      PROVE  made' \subseteq Periph /\ sync' \in [Periph -> Nat] /\ \E name, steps : Shape(name, p, steps)
  <2>1. CASE Start("open", p, <<Post(OnPeriph("open", p))>>) /\ Keep
    <3>1. Shape("open", p, <<Post(OnPeriph("open", p))>>)
      BY <1>1, <2>1, PostedOf
    <3> QED BY <1>4, <2>1, <3>1
  <2>2. ASSUME NEW name, NEW pat \in Pattern \cup {None},
               Start(name, p, OpenSteps(p, "TOPEN", pat)) /\ Count(p)
        PROVE  /\ made' \subseteq Periph /\ sync' \in [Periph -> Nat]
               /\ Shape(name, p, OpenSteps(p, "TOPEN", pat))
    <3>1. Shape(name, p, OpenSteps(p, "TOPEN", pat))
      BY <2>2, OpenStepsOf
    <3> QED BY <1>5, <2>2, <3>1
  <2>3. Boot \in Pattern \cup {None} /\ None \in Pattern \cup {None}
    BY PatternsOf
  <2> HIDE DEF Shape
  <2>4. CASE Start("openwait", p, OpenSteps(p, "TOPEN", Boot)) /\ Count(p)
    BY <2>2, <2>3, <2>4
  <2>5. CASE Start("illegal", p, OpenSteps(p, "TOPEN", None)) /\ Count(p)
    BY <2>2, <2>3, <2>5
  <2> QED BY <1>7, <2>1, <2>4, <2>5 DEF CallOpen
<1>8. ASSUME NEW p \in Periph, CallClose(p)
      PROVE  made' \subseteq Periph /\ sync' \in [Periph -> Nat] /\ \E name, steps : Shape(name, p, steps)
  <2>1. Shape("close", p, <<Ask(OnPeriph("close", p), "ignore")>>)
    BY <1>1, <1>8, AskedOf DEF CallClose
  <2> QED BY <1>3, <1>8, <2>1 DEF CallClose
<1>9. ASSUME NEW p \in Periph, CallCommand(p)
      PROVE  made' \subseteq Periph /\ sync' \in [Periph -> Nat] /\ \E name, steps : Shape(name, p, steps)
  <2>1. CASE Start("post", p, <<Post(Send(p, "ans", 0))>>) /\ UNCHANGED <<made, sync>>
    <3>1. Shape("post", p, <<Post(Send(p, "ans", 0))>>)
      BY <1>1, <2>1, PostedOf DEF Kind
    <3> QED BY <1>3, <2>1, <3>1
  <2>2. ASSUME NEW name, NEW pat \in Pattern \cup {None}, NEW timed \in BOOLEAN,
               Start(name, p, CommandSteps(p, "TCMD", Ans, pat, timed)),
               UNCHANGED <<made, sync>>
        PROVE  /\ made' \subseteq Periph /\ sync' \in [Periph -> Nat]
               /\ Shape(name, p, CommandSteps(p, "TCMD", Ans, pat, timed))
    <3>1. Shape(name, p, CommandSteps(p, "TCMD", Ans, pat, timed))
      BY <2>2, CommandStepsOf, PatternsOf
    <3> QED BY <1>3, <2>2, <3>1
  <2>3. Ans \in Pattern \cup {None} /\ None \in Pattern \cup {None}
    BY PatternsOf
  <2> HIDE DEF Shape
  <2>4. CASE Start("command", p, CommandSteps(p, "TCMD", Ans, Ans, TRUE)) /\ Keep
    BY <2>2, <2>3, <2>4 DEF Keep
  <2>5. CASE Start("untimed", p, CommandSteps(p, "TCMD", Ans, Ans, FALSE)) /\ Keep
    BY <2>2, <2>3, <2>5 DEF Keep
  <2>6. CASE /\ Start("illegal", p, CommandSteps(p, "TCMD", Ans, None, TRUE))
             /\ UNCHANGED <<made, sync>>
    BY <2>2, <2>3, <2>6
  <2> QED BY <1>9, <2>1, <2>4, <2>5, <2>6 DEF CallCommand
<1>10. ASSUME NEW p \in Periph, CallSync(p)
       PROVE  made' \subseteq Periph /\ sync' \in [Periph -> Nat] /\ \E name, steps : Shape(name, p, steps)
  <2>1. SyncNumber(p) \in Nat
    BY <1>3 DEF SyncNumber
  <2>2. Shape("sync", p, CommandSteps(p, "TECHO", Echo(SyncNumber(p)),
                                      Echo(SyncNumber(p)), TRUE))
    BY <1>10, <2>1, CommandStepsOf, PatternsOf DEF CallSync
  <2> QED BY <1>5, <1>10, <2>2 DEF CallSync
<1>11. ASSUME NEW p \in Periph, CallDo(p)
       PROVE  made' \subseteq Periph /\ sync' \in [Periph -> Nat] /\ \E name, steps : Shape(name, p, steps)
  <2>1. Shape("do", p, <<Post(Send(p, "ans", 0))>>)
    BY <1>1, <1>11, PostedOf DEF CallDo, Kind
  <2> QED BY <1>4, <1>11, <2>1 DEF CallDo
<1>12. ASSUME NEW name, NEW p \in Periph \cup {None}, NEW x \in Steps,
              Start(name, p, <<x>>), x.then \notin {"info", "open"}
       PROVE  Shape(name, p, <<x>>)
  BY <1>1, <1>12
<1>13. \A x \in Steps : x.cmd.op \notin AskOp => x.then = "post"
  BY DEF Steps
<1>14. ASSUME CallTrig PROVE Keep /\ \E name, p, steps : Shape(name, p, steps)
  <2>1. User \in Trig
    BY DEF User
  <2>2. ASSUME NEW p \in Periph \cup {None}, NEW pat \in Pattern \cup {None},
               Start("trigdef", p, <<Post(Define(User, p, pat))>>)
        PROVE  Shape("trigdef", p, <<Post(Define(User, p, pat))>>)
    <3>1. Post(Define(User, p, pat)) \in Steps
      BY <2>1, PostedOf
    <3>2. Post(Define(User, p, pat)).then = "post"
      BY DEF Post
    <3> QED BY <1>12, <2>2, <3>1, <3>2
  <2>3. ASSUME NEW e \in {{{Raise(User)}}, {{Not(User)}}}, NEW timed \in BOOLEAN,
               Start("trigwait", None, <<Ask(WaitFor(e, timed), "keep")>>)
        PROVE  Shape("trigwait", None, <<Ask(WaitFor(e, timed), "keep")>>)
    <3>1. e \in SUBSET SUBSET Operand
      BY <2>1, OperandOf
    <3> QED BY <1>12, <2>3, <3>1, AskedOf
  <2>4. ASSUME NEW op \in {"info", "count"}, Start("trigask", None, <<Ask(OnTrig(op, User), "keep")>>)
        PROVE  Shape("trigask", None, <<Ask(OnTrig(op, User), "keep")>>)
    BY <1>12, <2>1, <2>4, AskedOf
  <2>5. ASSUME NEW op \in {"undef", "clear"}, NEW S \in SUBSET {User},
               Start("trigdrop", None, <<Post(OnTrigs(op, S))>>)
        PROVE  Shape("trigdrop", None, <<Post(OnTrigs(op, S))>>)
    <3>1. S \in SUBSET Trig
      BY <2>1
    <3>2. Post(OnTrigs(op, S)).then = "post"
      BY DEF Post
    <3> QED BY <1>12, <2>5, <3>1, <3>2, PostedOf
  <2>6. ASSUME Start("timeout", None, <<Post(Plain("timeout"))>>)
        PROVE  Shape("timeout", None, <<Post(Plain("timeout"))>>)
    <3>1. Post(Plain("timeout")).then = "post"
      BY DEF Post
    <3> QED BY <1>12, <2>6, <3>1, PostedOf
  <2>7. {Boot} \cup (IF Wrong THEN {None} ELSE {}) \subseteq Pattern \cup {None}
    BY PatternsOf
  <2> HIDE DEF Shape
  <2> QED BY <1>14, <2>2, <2>3, <2>4, <2>5, <2>6, <2>7 DEF CallTrig
<1>15. ASSUME CallCase PROVE Keep /\ \E name, p, steps : Shape(name, p, steps)
  <2>1. ASSUME NEW op \in {"local", "case", "verdict"}, Start("case", None, <<Post(Plain(op))>>)
        PROVE  Shape("case", None, <<Post(Plain(op))>>)
    <3>1. Post(Plain(op)).then = "post"
      BY DEF Post
    <3> QED BY <1>12, <2>1, <3>1, PostedOf
  <2>2. ASSUME Start("case", None, <<Ask(Plain("done"), "ignore")>>)
        PROVE  Shape("case", None, <<Ask(Plain("done"), "ignore")>>)
    BY <1>12, <2>2, AskedOf
  <2> HIDE DEF Shape
  <2> QED BY <1>15, <2>1, <2>2 DEF CallCase
<1> HIDE DEF Shape
<1> QED BY <1>2, <1>4, <1>6, <1>7, <1>8, <1>9, <1>10, <1>11, <1>14, <1>15 DEF MakesCall

-----------------------------------------------------------------------------
(* Each action keeps the invariant.                                        *)
LEMMA EngineKeeps ==
  ASSUME IInv, EngineRuns
  PROVE  IInv'
<1>1. EngineTypes' /\ Effect
  BY EngineKeepsTypes, EngineEffect DEF IInv, Types, EngineRuns
<1>2. UNCHANGED <<script, made, todo, call, job, sync, want>>
  BY DEF EngineRuns, scriptVars
<1>3. ScriptTypes' /\ Asking'
  BY <1>2 DEF IInv, Types, ScriptTypes, Asking
<1>4. replies = <<>> => \A a : Append(replies, a) = <<a>>
  OBVIOUS
<1>5. \A a : Len(<<a>>) = 1 /\ Head(<<a>>) = a /\ Tail(<<a>>) = <<>>
  OBVIOUS
<1>6. cmds \in Seq(Commands)
  BY DEF IInv, Types, EngineTypes
<1>7. CASE /\ Taking /\ epc' = "input" /\ Head(cmds).op \notin AskOp
           /\ UNCHANGED <<replies, waiting>>
  <2>1. Answered'
    BY <1>2, <1>7 DEF IInv, Answered
  <2>2. Pending'
    BY <1>2, <1>6, <1>7, TailOf DEF IInv, Pending, Taking, Up, Unanswered
  <2> QED BY <1>1, <1>3, <2>1, <2>2 DEF IInv, Types
<1>8. CASE /\ Taking /\ epc' = "input" /\ Head(cmds).op \in AskOp /\ Giving(Head(cmds))
           /\ UNCHANGED waiting
  <2>1. /\ Head(cmds) = cmds[1] /\ 1 \in DOMAIN cmds
        /\ Len(cmds) \in Nat /\ Len(Tail(cmds)) = Len(cmds) - 1 /\ Tail(cmds) \in Seq(Commands)
    BY <1>6, <1>8, TailOf DEF Taking
  <2>2. Len(cmds) = 1 /\ Head(cmds) = want /\ replies = <<>> /\ script = "reads" /\ waiting = None
    BY <1>8, <2>1 DEF IInv, Pending, Up, Taking, Unanswered
  <2>3. cmds' = <<>>
    BY <1>8, <2>1, <2>2 DEF Taking
  <2>4. PICK a : replies' = <<a>> /\ Fits(a, want)
    BY <1>4, <1>8, <2>2 DEF Giving
  <2>5. Fits(a, want')
    BY <1>2, <2>4
  <2>6. Answered'
    BY <1>2, <1>5, <2>2, <2>4, <2>5 DEF Answered
  <2>7. Pending'
    BY <1>8, <2>2, <2>3, EmptyOf DEF Pending
  <2> QED BY <1>1, <1>3, <2>6, <2>7 DEF IInv, Types
<1>9. CASE /\ Taking /\ epc' = "check" /\ waiting' = Head(cmds) /\ UNCHANGED replies
           /\ Head(cmds).op = "wait"
  <2>1. /\ Head(cmds) = cmds[1] /\ 1 \in DOMAIN cmds
        /\ Len(cmds) \in Nat /\ Len(Tail(cmds)) = Len(cmds) - 1 /\ Tail(cmds) \in Seq(Commands)
    BY <1>6, <1>9, TailOf DEF Taking
  <2>2. Len(cmds) = 1 /\ Head(cmds) = want /\ Unanswered
    BY <1>9, <2>1 DEF IInv, Pending, Up, Taking, AskOp
  <2>3. cmds' = <<>>
    BY <1>9, <2>1, <2>2 DEF Taking
  <2>4. Answered'
    BY <1>9, <2>2 DEF Answered, Unanswered
  <2>5. Pending'
    BY <1>2, <1>9, <2>2, <2>3, EmptyOf DEF Pending, Unanswered
  <2> QED BY <1>1, <1>3, <2>4, <2>5 DEF IInv, Types
<1>10. CASE /\ Up /\ Up' /\ waiting # None /\ waiting' = None /\ Giving(waiting)
            /\ UNCHANGED cmds
  <2>1. waiting = want /\ replies = <<>> /\ script = "reads"
    BY <1>10 DEF IInv, Pending, Unanswered
  <2>2. PICK a : replies' = <<a>> /\ Fits(a, want)
    BY <1>4, <1>10, <2>1 DEF Giving
  <2>3. Fits(a, want')
    BY <1>2, <2>2
  <2>4. Answered'
    BY <1>2, <1>5, <2>1, <2>2, <2>3 DEF Answered
  <2>5. \A k \in DOMAIN cmds : cmds[k].op \notin AskOp
    BY <1>10 DEF IInv, Pending
  <2>6. Pending'
    BY <1>10, <2>5 DEF Pending
  <2> QED BY <1>1, <1>3, <2>4, <2>6 DEF IInv, Types
<1>11. CASE UNCHANGED <<cmds, replies, waiting>>
  <2>1. Answered'
    BY <1>2, <1>11 DEF IInv, Answered
  <2>2. CASE Up'=> Up
    BY <1>1, <1>2, <1>3, <1>11, <2>1, <2>2 DEF IInv, Types, Pending, Unanswered
  <2>3. CASE ~ (Up' => Up)
    BY <1>1, <1>11, <2>3 DEF Effect, Up, Taking
  <2> QED BY <2>2, <2>3
<1>12. CASE ~ Up' /\ UNCHANGED <<replies, waiting>>
  BY <1>1, <1>2, <1>3, <1>12 DEF IInv, Types, Answered, Pending
<1> QED BY <1>1, <1>7, <1>8, <1>9, <1>10, <1>11, <1>12 DEF Effect

LEMMA ScriptSendKeeps ==
  ASSUME IInv, ScriptPost \/ ScriptAsk
  PROVE  IInv'
<1> DEFINE m == [Head(todo).cmd EXCEPT !.call = call]
<1>1. script = "runs" /\ todo # <<>> /\ cmds' = Append(cmds, m)
  BY DEF ScriptPost, ScriptAsk, Sent
<1>2. /\ UNCHANGED <<epc, eof, replies, declared, conn, out, inp, alive, trigs, timeout, waiting,
                     timeUp, left, back, running, localSet, made, call, job, sync>>
  BY DEF ScriptPost, ScriptAsk, linkVars, waitVars, serveVars, caseVars
<1>3. /\ Head(todo) \in Steps /\ Tail(todo) \in Seq(Steps)
      /\ \A k \in DOMAIN Tail(todo) : k + 1 \in DOMAIN todo /\ Tail(todo)[k] = todo[k + 1]
  BY <1>1, TailOf DEF IInv, Types, ScriptTypes
<1>4. /\ m \in Commands /\ m.op = Head(todo).cmd.op /\ m # None
      /\ Head(todo).then # "post" <=> m.op \in AskOp
  BY <1>3, CommandOf DEF Steps, IInv, Types, ScriptTypes
<1> HIDE DEF m
<1>5. /\ cmds' \in Seq(Commands) /\ Len(cmds') = Len(cmds) + 1
      /\ Len(cmds) \in Nat /\ cmds'[Len(cmds')] = m
      /\ \A k \in DOMAIN cmds' :
           k = Len(cmds') \/ (k \in DOMAIN cmds /\ cmds'[k] = cmds[k])
  BY <1>1, <1>4, AppendOf DEF IInv, Types, EngineTypes
<1>6. EngineTypes'
  BY <1>2, <1>5 DEF IInv, Types, EngineTypes
<1>7. want = None /\ replies = <<>> /\ (Up => waiting = None /\ \A k \in DOMAIN cmds : cmds[k].op \notin AskOp)
  BY <1>1 DEF IInv, Asking, Answered, Pending, Unanswered
<1>8. CASE ScriptPost
  <2>1. todo' = Tail(todo) /\ m.op \notin AskOp /\ UNCHANGED <<script, want>>
    BY <1>4, <1>8 DEF ScriptPost
  <2>2. ScriptTypes'
    BY <1>2, <1>3, <2>1 DEF IInv, Types, ScriptTypes
  <2>3. Asking' /\ Answered'
    BY <1>1, <1>2, <1>7, <2>1 DEF Asking, Answered
  <2>4. Pending'
    BY <1>2, <1>5, <1>7, <2>1 DEF Pending, Up
  <2> QED BY <1>6, <2>2, <2>3, <2>4 DEF IInv, Types
<1>9. CASE ScriptAsk
  <2>1. todo' = todo /\ m.op \in AskOp /\ script' = "reads" /\ want' = m
    BY <1>4, <1>5, <1>9 DEF ScriptAsk
  <2>2. ScriptTypes'
    BY <1>2, <2>1 DEF IInv, Types, ScriptTypes
  <2>3. Asking'
    BY <1>1, <1>4, <2>1 DEF Asking, AskOp
  <2>4. Answered'
    BY <1>2, <1>7 DEF Answered
  <2>5. Pending'
    BY <1>2, <1>5, <1>7, <2>1 DEF Pending, Up, Unanswered
  <2> QED BY <1>6, <2>2, <2>3, <2>4, <2>5 DEF IInv, Types
<1> QED BY <1>8, <1>9

(* What the script does with an answer, or without one.                    *)
LEMMA ReturnedKeeps ==
  ASSUME IInv, script = "reads", NEW a, Returned(Head(todo).then, a),
         Head(todo).then = "info" => a = {} \/ Fits([to |-> want, val |-> a], want),
         replies' = <<>>, Up => replies # <<>>
  PROVE  IInv'
<1>1. /\ UNCHANGED <<epc, cmds, eof, declared, conn, out, inp, alive, trigs, timeout, waiting,
                     timeUp, left, back, running, localSet, made, call, job, sync>>
      /\ script' = "runs" /\ want' = None
  BY DEF Returned, linkVars, waitVars, serveVars, caseVars
<1>2. PICK next \in Follow(Head(todo).then, a) : todo' = next \o Tail(todo)
  BY DEF Returned
<1>3. /\ todo \in Seq(Steps) /\ todo # <<>> /\ want.op = Head(todo).cmd.op
  BY DEF IInv, Types, ScriptTypes, Asking
<1>4. /\ Head(todo) \in Steps /\ Tail(todo) \in Seq(Steps) /\ Head(todo) = todo[1]
      /\ \A k \in DOMAIN Tail(todo) : k + 1 \in DOMAIN todo /\ Tail(todo)[k] = todo[k + 1]
      /\ 1 \in DOMAIN todo
  BY <1>3, TailOf
<1>5. next = <<>> \/ \E x \in Steps : next = <<x>> /\ x.then \notin {"info", "open"}
  <2>1. CASE Head(todo).then = "info" /\ a # {}
    <3>1. want.op = "wait" /\ want \in Commands
      BY <1>3, <1>4, <2>1 DEF Steps, IInv, Asking
    <3>2. a \subseteq {l.id : l \in Operands(want.expr)}
      BY <2>1, <3>1 DEF Fits
    <3>3. want.expr \in SUBSET SUBSET Operand
      BY <3>1, CommandOf
    <3>4. a \subseteq Trig
      BY <3>2, <3>3 DEF Operands, Operand
    <3>5. PICK t \in a : next = <<Ask(OnTrig("info", t), "keep")>>
      BY <1>2, <2>1 DEF Follow
    <3> QED BY <3>4, <3>5, AskedOf
  <2>2. CASE Head(todo).then = "open"
    <3>1. job.periph \in Periph
      BY <1>4, <2>2 DEF IInv, Types, ScriptTypes
    <3>2. next = <<Ask(OnPeriph("close", job.periph), "ignore")>> \/ next = <<>>
      BY <1>2, <2>2 DEF Follow
    <3> QED BY <3>1, <3>2, AskedOf
  <2>3. CASE ~ (Head(todo).then = "info" /\ a # {}) /\ Head(todo).then # "open"
    BY <1>2, <2>3 DEF Follow
  <2> QED BY <2>1, <2>2, <2>3
<1>6. todo' \in Seq(Steps)
      /\ \A k \in DOMAIN todo' : \/ todo'[k].then \notin {"info", "open"}
                                 \/ \E j \in DOMAIN todo : todo'[k] = todo[j]
  <2>1. CASE next = <<>>
    <3>1. todo' = Tail(todo)
      BY <1>2, <1>4, <2>1
    <3> QED BY <1>4, <3>1
  <2>2. ASSUME NEW x \in Steps, next = <<x>>, x.then \notin {"info", "open"}
        PROVE  /\ todo' \in Seq(Steps)
               /\ \A k \in DOMAIN todo' : \/ todo'[k].then \notin {"info", "open"}
                                          \/ \E j \in DOMAIN todo : todo'[k] = todo[j]
    <3>1. todo' = <<x>> \o Tail(todo)
      BY <1>2, <2>2
    <3>2. /\ todo' \in Seq(Steps)
          /\ \A k \in DOMAIN todo' :
               \/ k = 1 /\ todo'[k] = x
               \/ k - 1 \in DOMAIN Tail(todo) /\ todo'[k] = Tail(todo)[k - 1]
      BY <1>4, <3>1, PushOf
    <3> QED BY <1>4, <2>2, <3>2
  <2> QED BY <1>5, <2>1, <2>2
<1>7. EngineTypes'
  BY <1>1 DEF IInv, Types, EngineTypes
<1>8. ScriptTypes'
  BY <1>1, <1>6 DEF IInv, Types, ScriptTypes
<1>9. Asking' /\ Answered'
  BY <1>1 DEF Asking, Answered
<1>10. Pending'
  BY <1>1 DEF IInv, Pending, Up, Unanswered
<1> QED BY <1>7, <1>8, <1>9, <1>10 DEF IInv, Types

LEMMA ScriptKeeps ==
  ASSUME IInv, Script \/ ScriptStop
  PROVE  IInv'
<1>1. CASE ScriptRead
  <2>1. replies # <<>> /\ replies' = <<>> /\ script = "reads" /\ Fits(Head(replies), want)
    BY <1>1 DEF ScriptRead, IInv, Answered
  <2>2. Returned(Head(todo).then, Head(replies).val)
    BY <1>1 DEF ScriptRead
  <2>3. Fits([to |-> want, val |-> Head(replies).val], want)
    BY <2>1 DEF Fits
  <2> QED BY <2>1, <2>2, <2>3, ReturnedKeeps
<1>2. CASE ScriptEof
  <2> DEFINE a == IF Head(todo).then = "keep" THEN None ELSE {}
  <2>1. replies' = <<>> /\ ~ Up /\ script = "reads" /\ Returned(Head(todo).then, a)
    BY <1>2 DEF ScriptEof, Up
  <2>2. Head(todo).then = "info" => a = {}
    OBVIOUS
  <2> HIDE DEF a
  <2> QED BY <2>1, <2>2, ReturnedKeeps
<1>3. CASE ScriptDies
  <2>1. /\ UNCHANGED <<epc, cmds, eof, declared, conn, out, inp, alive, trigs, timeout, waiting,
                       timeUp, left, back, running, localSet, made, call, job, sync>>
        /\ script' = "dead" /\ todo' = <<>> /\ want' = None /\ replies' = <<>> /\ ~ Up
    BY <1>3 DEF ScriptDies, linkVars, waitVars, serveVars, caseVars, Up
  <2>2. EngineTypes'
    BY <2>1 DEF IInv, Types, EngineTypes
  <2>3. ScriptTypes'
    BY <2>1, EmptyOf DEF IInv, Types, ScriptTypes
  <2>4. Asking' /\ Answered' /\ Pending'
    BY <2>1 DEF Asking, Answered, Pending, Up
  <2> QED BY <2>2, <2>3, <2>4 DEF IInv, Types
<1>4. CASE ScriptStop
  <2>1. /\ UNCHANGED <<epc, cmds, replies, declared, conn, out, inp, alive, trigs, timeout, waiting,
                       timeUp, left, back, running, localSet, made, todo, call, job, sync, want>>
        /\ script = "runs" /\ script' = "stopped" /\ eof' = TRUE
    BY <1>4 DEF ScriptStop, linkVars, waitVars, serveVars, caseVars
  <2>2. EngineTypes'
    BY <2>1 DEF IInv, Types, EngineTypes
  <2>3. ScriptTypes'
    BY <2>1 DEF IInv, Types, ScriptTypes
  <2>4. Asking' /\ Answered' /\ Pending'
    BY <2>1 DEF IInv, Asking, Answered, Pending, Up, Unanswered
  <2> QED BY <2>2, <2>3, <2>4 DEF IInv, Types
<1> QED BY <1>1, <1>2, <1>3, <1>4, ScriptSendKeeps DEF Script

LEMMA DialogueKept ==
  ASSUME IInv, EngineTypes', ScriptTypes', UNCHANGED <<epc, cmds, replies, waiting, script, want>>,
         script = "reads" => todo' = todo
  PROVE  IInv'
<1> QED BY DEF IInv, Types, Asking, Answered, Pending, Up, Unanswered

LEMMA OthersKeep ==
  ASSUME IInv,
         \/ MakesCall \/ TimePasses \/ UNCHANGED vars
         \/ \E p \in Periph : PeriphReply(p) \/ PeriphEvent(p) \/ PeriphDies(p)
  PROVE  IInv'
<1> USE DEF pipeVars, linkVars, waitVars, serveVars, caseVars
<1>1. CASE MakesCall
  <2>1. /\ ScriptTypes' /\ UNCHANGED <<engineVars, script, want>> /\ script = "runs"
    BY <1>1, CallTypes DEF IInv
  <2>2. EngineTypes'
    BY <2>1 DEF IInv, Types, EngineTypes, engineVars
  <2> QED BY <2>1, <2>2, DialogueKept DEF engineVars
<1>2. CASE TimePasses \/ UNCHANGED vars
  <2>1. /\ UNCHANGED <<epc, eof, cmds, replies, declared, conn, out, inp, alive, trigs, timeout,
                       waiting, left, back, running, localSet>>
        /\ timeUp' \in {timeUp, TRUE}
        /\ UNCHANGED <<script, made, todo, call, job, sync, want>>
    BY <1>2 DEF TimePasses, Tick, vars, engineVars, scriptVars
  <2>2. EngineTypes'
    BY <2>1 DEF IInv, Types, EngineTypes
  <2>3. ScriptTypes'
    BY <2>1 DEF IInv, Types, ScriptTypes
  <2> QED BY <2>1, <2>2, <2>3, DialogueKept
<1>3. ASSUME NEW p \in Periph, PeriphReply(p) \/ PeriphEvent(p) \/ PeriphDies(p) PROVE IInv'
  <2>1. /\ UNCHANGED <<epc, eof, cmds, replies, declared, conn, trigs, timeout, waiting, timeUp,
                       left, back, running, localSet>>
        /\ UNCHANGED scriptVars
    BY <1>3 DEF PeriphReply, PeriphEvent, PeriphDies, Printed
  <2>2. ScriptTypes' /\ UNCHANGED <<script, want, todo>>
    BY <2>1 DEF scriptVars, IInv, Types, ScriptTypes
  <2>3. /\ out' \in [Periph -> Seq(Line)] /\ inp' \in [Periph -> Seq(Line)]
        /\ alive' \subseteq alive
    <3>1. out \in [Periph -> Seq(Line)] /\ inp \in [Periph -> Seq(Line)]
      BY DEF IInv, Types, EngineTypes
    <3>2. ASSUME NEW line \in Line, Printed(p, line) PROVE out' \in [Periph -> Seq(Line)]
      <4>1. Append(out[p], line) \in Seq(Line)
        BY <3>1, AppendOf
      <4> QED BY <3>1, <3>2, <4>1 DEF Printed
    <3>3. CASE PeriphReply(p)
      <4>1. Head(inp[p]) \in Line /\ Tail(inp[p]) \in Seq(Line)
        BY <3>1, <3>3, TailOf DEF PeriphReply
      <4> QED BY <3>1, <3>2, <3>3, <4>1 DEF PeriphReply, Printed
    <3>4. CASE PeriphEvent(p)
      <4>1. [kind |-> "boot", n |-> 0, call |-> 0] \in Line
        BY DEF Line, Kind
      <4> QED BY <3>1, <3>2, <3>4, <4>1 DEF PeriphEvent, Printed
    <3>5. CASE PeriphDies(p)
      BY <3>1, <3>5, EmptyOf DEF PeriphDies
    <3> QED BY <1>3, <3>3, <3>4, <3>5
  <2>4. EngineTypes'
    BY <2>1, <2>3 DEF IInv, Types, EngineTypes
  <2> QED BY <2>1, <2>2, <2>4, DialogueKept
<1> QED BY <1>1, <1>2, <1>3

LEMMA NextInv == IInv /\ [Next]_vars => IInv'
<1> QED BY EngineKeeps, ScriptKeeps, OthersKeep DEF Next

(* Whatever the script calls and whatever the peripherals do, the queues   *)
(* hold what they should, and a request that the script waits for is in    *)
(* one place: the last command of the queue, the WAIT in progress, or the  *)
(* answer.                                                                 *)
THEOREM SessionInvariant == Spec => []IInv
<1> QED BY InitInv, NextInv, PTL DEF Spec

(* The state of the engine and of the script is well formed: no command is *)
(* malformed, an open peripheral is declared, and WAIT is in progress in   *)
(* the places of its loop only.                                            *)
THEOREM SessionTypes == Spec => []TypeOK
<1>1. IInv => TypeOK
  <2>1. IInv => \A k \in DOMAIN cmds : cmds[k] \in Commands
    BY DEF IInv, Types, EngineTypes
  <2> QED BY <2>1 DEF IInv, Types, EngineTypes, ScriptTypes, TypeOK
<1> QED BY SessionInvariant, <1>1, PTL

(* A step of the engine gives the answer, ends the service or stutters.    *)
LEMMA EngineAnswers ==
  ASSUME IInv, EngineRuns
  PROVE  [Answers!Next]_<<want, replies, Up>>
<1>1. Effect /\ want' = want
  BY EngineEffect DEF IInv, Types, EngineRuns, scriptVars
<1>2. replies = <<>> => \A a : /\ Append(replies, a) = <<a>> /\ Len(<<a>>) = 1
                               /\ <<a>>[1] = a
  OBVIOUS
<1>3. ASSUME NEW c, Giving(c), Up, Up', c = want, want # None, replies = <<>>
      PROVE  Answers!Give
  <2>1. PICK a : replies' = Append(replies, a) /\ Fits(a, c)
    BY <1>3 DEF Giving
  <2>2. replies' = <<a>> /\ Len(replies') = 1 /\ replies'[1] = a
    BY <1>2, <1>3, <2>1
  <2> QED BY <1>1, <1>3, <2>1, <2>2 DEF Answers!Give, Up
<1>4. CASE Up /\ ~ Up' /\ UNCHANGED replies
  BY <1>1, <1>4 DEF Answers!Next, Answers!Leave, Up
<1>5. CASE Up' = Up /\ UNCHANGED replies
  BY <1>1, <1>5
<1>6. CASE /\ Taking /\ epc' = "input" /\ Head(cmds).op \in AskOp /\ Giving(Head(cmds))
  <2>1. Head(cmds) = cmds[1] /\ 1 \in DOMAIN cmds
    BY <1>6, TailOf DEF Taking, IInv, Types, EngineTypes
  <2>2. Up /\ Up' /\ Head(cmds) = want /\ replies = <<>> /\ want # None
    BY <1>6, <2>1 DEF IInv, Pending, Up, Taking, Unanswered, Asking
  <2> QED BY <1>3, <1>6, <2>2 DEF Answers!Next
<1>7. CASE Up /\ Up' /\ waiting # None /\ Giving(waiting)
  <2>1. waiting = want /\ replies = <<>>
    BY <1>7 DEF IInv, Pending, Unanswered
  <2> QED BY <1>3, <1>7, <2>1 DEF Answers!Next
<1> QED BY <1>1, <1>4, <1>5, <1>6, <1>7 DEF Effect, Up, Taking

(* A step of the script asks, takes the answer or gives up an engine that  *)
(* has ended; the other steps do not touch the dialogue.                   *)
LEMMA OthersAnswer ==
  ASSUME IInv, [Next]_vars, ~ EngineRuns
  PROVE  [Answers!Next]_<<want, replies, Up>>
<1> USE DEF pipeVars, linkVars, waitVars, serveVars, caseVars
<1>1. CASE ScriptAsk
  <2>1. /\ want = None /\ want' = cmds'[Len(cmds')] /\ UNCHANGED <<epc, replies>>
        /\ cmds' = Append(cmds, [Head(todo).cmd EXCEPT !.call = call])
        /\ todo # <<>>
    BY <1>1 DEF ScriptAsk, Sent, IInv, Asking
  <2>2. Head(todo) \in Steps
    BY <2>1, TailOf DEF IInv, Types, ScriptTypes
  <2>3. [Head(todo).cmd EXCEPT !.call = call] \in Commands
    BY <2>2, CommandOf DEF Steps, IInv, Types, ScriptTypes
  <2>4. want' \in Commands
    BY <2>1, <2>3, AppendOf DEF IInv, Types, EngineTypes
  <2> QED BY <2>1, <2>4, NoneAssumption DEF Answers!Next, Answers!Ask, Up
<1>2. CASE ScriptRead
  <2>1. replies # <<>> /\ replies' = <<>> /\ want' = None /\ UNCHANGED epc
    BY <1>2 DEF ScriptRead, Returned, IInv, Answered
  <2> QED BY <2>1 DEF Answers!Next, Answers!Take, Up
<1>3. CASE ScriptEof \/ ScriptDies
  <2>1. ~ Up /\ replies' = <<>> /\ want' = None /\ UNCHANGED epc
    BY <1>3 DEF ScriptEof, ScriptDies, Returned, Up
  <2> QED BY <2>1 DEF Answers!Next, Answers!Abort, Up
<1>4. CASE MakesCall
  BY <1>4, CallTypes DEF IInv, engineVars, Up
<1>5. CASE \/ TimePasses \/ ScriptPost \/ ScriptStop \/ UNCHANGED vars
           \/ \E p \in Periph : PeriphReply(p) \/ PeriphEvent(p) \/ PeriphDies(p)
  <2>1. UNCHANGED <<want, replies, epc>>
    BY <1>5 DEF TimePasses, Tick, ScriptPost, ScriptStop, vars, engineVars, scriptVars,
                PeriphReply, PeriphEvent, PeriphDies, Printed
  <2> QED BY <2>1 DEF Up
<1> QED BY <1>1, <1>2, <1>3, <1>4, <1>5 DEF Next, Script

(* The engine implements the abstract service of Rpc: each request of the  *)
(* script gets exactly one answer, its own, before the next request, or    *)
(* the engine ends.                                                        *)
THEOREM EngineImplementsRpc == Spec => AnswersMatch
<1>1. Init => Answers!Init
  BY DEF Init, EngineInit, Answers!Init
<1>2. IInv /\ [Next]_vars => [Answers!Next]_<<want, replies, epc \notin {"quit", "exit"}>>
  BY EngineAnswers, OthersAnswer DEF Up
<1> QED BY <1>1, <1>2, SessionInvariant, PTL DEF Spec, AnswersMatch, Answers!Spec

-----------------------------------------------------------------------------
(* The methods of Interface, and the default timeout.                      *)
Methods == {"new", "open", "openwait", "close", "post", "command", "untimed", "illegal",
            "sync", "timeout"}

(* The commands that need trigger t, give it and take it away, and those   *)
(* that declare peripheral q.                                              *)
Needs == [t \in Trig |-> {c \in Commands :
            \/ c.op = "wait" /\ t \in {l.id : l \in Operands(c.expr)}
            \/ c.op = "info" /\ c.id = t}]
Gives == [t \in Trig |-> {c \in Commands : c.op = "trigdef" /\ c.id = t}]
Drops == [t \in Trig |-> {c \in Commands : c.op = "undef" /\ t \in Named(c.ids)}]
Asks  == [q \in Periph |-> {c \in Commands : c.op = "periph" /\ c.periph = q}]

(* The commands of the methods that name declared peripherals only: such a *)
(* command fails because it is refused, or because its trigger is missing. *)
Safe == {c \in Commands :
  /\ c.op \in {"periph", "open", "close", "do", "trigdef", "undef", "wait", "info", "timeout"}
  /\ c.op \in {"open", "do"} => c.periph \in declared
  /\ c.op = "trigdef" => c.src \in declared}

(* Trigger t will be defined when the engine has taken the whole queue.    *)
Kept(t) ==
  \/ trigs[t] # None /\ \A j \in DOMAIN cmds : cmds[j] \notin Drops[t]
  \/ \E i \in DOMAIN cmds :
       /\ cmds[i] \in Gives[t]
       /\ \A j \in DOMAIN cmds : j > i => cmds[j] \notin Drops[t]

Declaring ==
  /\ \A q \in made : q \in declared \/ (todo # <<>> /\ Head(todo).cmd \in Asks[q])
  /\ script = "reads" => want = [Head(todo).cmd EXCEPT !.call = call]
  /\ \A q \in Periph : replies # <<>> /\ want \in Asks[q] => q \in declared
Sure ==
  /\ cmds \in Seq(Safe)
  /\ \A k \in DOMAIN todo : todo[k].cmd \in Safe /\ (todo[k].cmd.op = "undef" => k = Len(todo))
  /\ \A t \in Trig : \A k \in DOMAIN todo : todo[k].cmd \in Needs[t] =>
       Kept(t) \/ \E i \in DOMAIN todo : i < k /\ todo[i].cmd \in Gives[t]
SInv == EngineSurvives /\ (Up /\ ~ eof => Declaring /\ Sure)

-----------------------------------------------------------------------------
LEMMA RelabelOf ==
  ASSUME NEW c \in Commands, NEW k \in Nat, NEW m, m = [c EXCEPT !.call = k]
  PROVE  /\ m \in Commands /\ m.op = c.op
         /\ c \in Safe => m \in Safe
         /\ \A t \in Trig : /\ m \in Needs[t] <=> c \in Needs[t]
                            /\ m \in Gives[t] <=> c \in Gives[t]
                            /\ m \in Drops[t] <=> c \in Drops[t]
         /\ \A q \in Periph : m \in Asks[q] <=> c \in Asks[q]
<1>1. m \in Commands /\ m.op = c.op
  BY CommandOf
<1>2. /\ c.op \in {"open", "do", "periph"} => m.periph = c.periph
      /\ c.op = "trigdef" => m.src = c.src /\ m.id = c.id
      /\ c.op = "info" => m.id = c.id
      /\ c.op = "undef" => m.ids = c.ids
      /\ c.op = "wait" => m.expr = c.expr
  BY DEF Commands
<1> QED BY <1>1, <1>2 DEF Safe, Needs, Gives, Drops, Asks

(* A queue of commands that follow one another: what keeps a trigger.      *)
LEMMA KeptByTaking ==
  ASSUME EngineTypes, Taking, NEW t \in Trig, Kept(t),
         (trigs[t] # None /\ Head(cmds) \notin Drops[t]) \/ Head(cmds) \in Gives[t]
           => trigs'[t] # None
  PROVE  Kept(t)'
<1>1. /\ cmds' = Tail(cmds) /\ Head(cmds) = cmds[1] /\ 1 \in DOMAIN cmds
      /\ \A j \in DOMAIN cmds' : j + 1 \in DOMAIN cmds /\ cmds'[j] = cmds[j + 1]
      /\ \A j \in DOMAIN cmds : j # 1 => j - 1 \in DOMAIN cmds' /\ cmds'[j - 1] = cmds[j]
      /\ DOMAIN cmds \subseteq Nat /\ DOMAIN cmds' \subseteq Nat
  BY TailOf DEF Taking, EngineTypes
<1> DEFINE D == Drops[t]
           G == Gives[t]
<1> HIDE DEF D, G
<1>2. CASE trigs[t] # None /\ \A j \in DOMAIN cmds : cmds[j] \notin D
  <2>1. trigs'[t] # None
    BY <1>1, <1>2 DEF D
  <2>2. \A j \in DOMAIN cmds' : cmds'[j] \notin D
    BY <1>1, <1>2
  <2> QED BY <2>1, <2>2 DEF Kept, D
<1>3. ASSUME NEW i \in DOMAIN cmds, cmds[i] \in G, \A j \in DOMAIN cmds : j > i => cmds[j] \notin D
      PROVE  Kept(t)'
  <2>1. CASE i = 1
    <3>1. trigs'[t] # None
      BY <1>1, <1>3, <2>1 DEF G
    <3>2. \A j \in DOMAIN cmds' : cmds'[j] \notin D
      BY <1>1, <1>3, <2>1
    <3> QED BY <3>1, <3>2 DEF Kept, D
  <2>2. CASE i # 1
    <3>1. /\ i - 1 \in DOMAIN cmds' /\ cmds'[i - 1] \in G
          /\ \A j \in DOMAIN cmds' : j > i - 1 => cmds'[j] \notin D
      BY <1>1, <1>3, <2>2
    <3> QED BY <3>1 DEF Kept, D, G
  <2> QED BY <2>1, <2>2
<1> QED BY <1>2, <1>3 DEF Kept, D, G

LEMMA KeptBySending ==
  ASSUME EngineTypes, NEW m \in Commands, cmds' = Append(cmds, m), trigs' = trigs,
         NEW t \in Trig, m \in Gives[t] \/ (Kept(t) /\ m \notin Drops[t])
  PROVE  Kept(t)'
<1>1. /\ Len(cmds') \in DOMAIN cmds' /\ cmds'[Len(cmds')] = m
      /\ \A j \in DOMAIN cmds' : j = Len(cmds') \/ (j \in DOMAIN cmds /\ cmds'[j] = cmds[j])
      /\ \A j \in DOMAIN cmds : j \in DOMAIN cmds' /\ cmds'[j] = cmds[j]
      /\ \A j \in DOMAIN cmds' : j <= Len(cmds') /\ j \in Nat
      /\ Len(cmds') \in Nat
  BY AppendOf DEF EngineTypes
<1> DEFINE D == Drops[t]
           G == Gives[t]
<1>2. m \in G => m \notin D
  BY DEF Gives, Drops
<1> HIDE DEF D, G
<1>3. CASE m \in G
  <2>1. \A j \in DOMAIN cmds' : j > Len(cmds') => cmds'[j] \notin D
    BY <1>1
  <2> QED BY <1>1, <1>3, <2>1 DEF Kept, D, G
<1>4. CASE m \notin D /\ trigs[t] # None /\ \A j \in DOMAIN cmds : cmds[j] \notin D
  <2>1. \A j \in DOMAIN cmds' : cmds'[j] \notin D
    BY <1>1, <1>4
  <2> QED BY <1>4, <2>1 DEF Kept, D
<1>5. ASSUME m \notin D, NEW i \in DOMAIN cmds, cmds[i] \in G,
             \A j \in DOMAIN cmds : j > i => cmds[j] \notin D
      PROVE  Kept(t)'
  <2>1. /\ i \in DOMAIN cmds' /\ cmds'[i] \in G
        /\ \A j \in DOMAIN cmds' : j > i => cmds'[j] \notin D
    BY <1>1, <1>5
  <2> QED BY <2>1 DEF Kept, D, G
<1> QED BY <1>3, <1>4, <1>5 DEF Kept, D, G

(* What a step of the engine does to the triggers and to the declarations, *)
(* while its queue holds safe commands only: it fails if the command is    *)
(* refused, and for no other reason.                                       *)
Granting ==
  /\ epc' \notin {"quit", "exit"} /\ eof' = eof /\ declared \subseteq declared'
  /\ \/ /\ Taking
        /\ \A t \in Trig : (trigs[t] # None /\ Head(cmds) \notin Drops[t])
                           \/ Head(cmds) \in Gives[t] => trigs'[t] # None
        /\ \A q \in Periph : Head(cmds) \in Asks[q] => q \in declared'
     \/ /\ cmds' = cmds
        /\ \A t \in Trig : trigs[t] # None => trigs'[t] # None

Refusing ==
  /\ epc' = "quit" /\ eof' = eof /\ cmds' = cmds
  /\ cmds # <<>> /\ Refused(Head(cmds))'

LEMMA FreshUpdated ==
  ASSUME EngineTypes, NEW p \in Periph, NEW line \in Line, NEW t \in Trig, trigs[t] # None
  PROVE  Updated(p, line)[t] # None
<1>1. ASSUME Hit(t, p, line) PROVE [trigs[t] EXCEPT !.n = @ + 1, !.info = line] # None
  <2>1. trigs[t] \in Triggers
    BY DEF EngineTypes
  <2>2. [trigs[t] EXCEPT !.n = @ + 1] \in Triggers
    BY <2>1 DEF Triggers
  <2>3. \A y \in Triggers : [y EXCEPT !.info = line] \in Triggers
    BY DEF Triggers
  <2> QED BY <2>2, <2>3, NoneAssumption
<1> QED BY <1>1 DEF Updated

LEMMA EngineGrants ==
  ASSUME ~ OpenMayFail, EngineTypes, EngineStep, ~ eof, epc \notin {"quit", "exit"},
         \A k \in DOMAIN cmds : cmds[k] \in Safe,
         cmds # <<>> => \A t \in Trig : Head(cmds) \in Needs[t] => trigs[t] # None
  PROVE  Granting \/ Refusing
<1> USE DEF pipeVars, linkVars, waitVars, serveVars, caseVars
<1>1. ASSUME NEW op, Takes(op)
      PROVE  /\ Command \in Safe /\ Command.op = op /\ epc = "input" /\ cmds # <<>>
             /\ Command = Head(cmds)
             /\ \A t \in Trig : Command \in Needs[t] => trigs[t] # None
             /\ Command \in Commands
  <2>1. Head(cmds) = cmds[1] /\ 1 \in DOMAIN cmds
    BY <1>1, TailOf DEF Takes, EngineTypes
  <2> QED BY <1>1, <2>1, TakesOf DEF Takes, Command
<1>2. ASSUME NEW op, Takes(op), op \notin {"trigdef", "undef", "periph"}, Done,
             trigs' = trigs, epc' \in {"input", "check"}, eof' = eof, declared' = declared
      PROVE  Granting
  <2>1. \A t \in Trig : Command \notin Gives[t]
    BY <1>1, <1>2 DEF Gives
  <2>2. \A q \in Periph : Command \notin Asks[q]
    BY <1>1, <1>2 DEF Asks
  <2> QED BY <1>1, <1>2, <2>1, <2>2 DEF Granting, Taking, Done
<1>3. ASSUME cmds' = cmds, trigs' = trigs, epc' \notin {"quit", "exit"}, eof' = eof,
             declared' = declared
      PROVE  Granting
  BY <1>3 DEF Granting
<1>a. ASSUME NEW op, Takes(op), Quit, Refused(Command) PROVE Refusing
  BY <1>1, <1>a DEF Refusing, Refused, Quit
<1>b. ASSUME TrigDef, Command.pat = None PROVE Refusing
  <2>1. Takes("trigdef") /\ Quit
    BY <1>b DEF TrigDef
  <2> QED BY <1>1, <1>a, <1>b, <2>1 DEF Refused
<1>4. CASE TrigDef /\ Command.pat # None
  <2>1. Takes("trigdef") /\ Command.pat # None /\ Command.src \in declared
    BY <1>1, <1>4 DEF TrigDef, Safe
  <2>2. /\ Done /\ UNCHANGED <<epc, eof, declared>>
        /\ trigs' = [trigs EXCEPT ![Command.id] = Fresh(Command.src, Command.pat)]
    BY <1>4, <2>1 DEF TrigDef
  <2>3. Fresh(Command.src, Command.pat) # None
    BY <1>1, <2>1, CommandOf, FreshOf
  <2>4. \A t \in Trig : trigs[t] # None \/ Command \in Gives[t] => trigs'[t] # None
    BY <1>1, <2>1, <2>2, <2>3 DEF Gives, EngineTypes
  <2>5. \A q \in Periph : Command \notin Asks[q]
    BY <1>1, <2>1 DEF Asks
  <2> QED BY <1>1, <2>1, <2>2, <2>4, <2>5 DEF Granting, Taking, Done
<1>5. CASE TrigUndef
  <2>1. /\ Takes("undef") /\ Done /\ UNCHANGED <<epc, eof, declared>>
        /\ trigs' = [t \in Trig |-> IF t \in Named(Command.ids) THEN None ELSE trigs[t]]
    BY <1>5 DEF TrigUndef
  <2>2. \A t \in Trig : Command \notin Gives[t] /\ (Command \notin Drops[t] => t \notin Named(Command.ids))
    BY <1>1, <2>1 DEF Gives, Drops
  <2>3. \A q \in Periph : Command \notin Asks[q]
    BY <1>1, <2>1 DEF Asks
  <2> QED BY <1>1, <2>1, <2>2, <2>3 DEF Granting, Taking, Done
<1>6. CASE TrigClear
  BY <1>1, <1>6 DEF TrigClear, Safe
<1>7. CASE TrigAsk
  <2>1. Takes("info")
    BY <1>1, <1>7 DEF TrigAsk, Safe
  <2>2. Command.id \in Trig
    BY <1>1, <2>1, CommandOf
  <2>3. trigs[Command.id] # None
    BY <1>1, <2>1, <2>2 DEF Needs
  <2> QED BY <1>1, <1>2, <1>7, <2>1, <2>3 DEF TrigAsk
<1>8. CASE PeriphDeclare
  <2>1. /\ Takes("periph") /\ Done /\ UNCHANGED <<epc, eof, trigs>>
        /\ declared' = declared \cup {Command.periph}
    BY <1>8 DEF PeriphDeclare
  <2>2. \A t \in Trig : Command \notin Gives[t]
    BY <1>1, <2>1 DEF Gives
  <2>3. \A q \in Periph : Command \in Asks[q] => q \in declared'
    BY <2>1 DEF Asks
  <2> QED BY <1>1, <2>1, <2>2, <2>3 DEF Granting, Taking, Done
<1>9. CASE Open
  <2>1. Takes("open") /\ Command.periph \in declared
    BY <1>1, <1>9 DEF Open, Safe
  <2> QED BY <1>1, <1>2, <1>9, <2>1 DEF Open
<1>10. CASE Close
  BY <1>1, <1>2, <1>10 DEF Close
<1>11. CASE Do
  <2>1. Takes("do") /\ Command.periph \in declared
    BY <1>1, <1>11 DEF Do, Safe
  <2> QED BY <1>1, <1>2, <1>11, <2>1 DEF Do
<1>12. CASE Cases
  BY <1>1, <1>12 DEF Cases, Case, CaseDone, Verdict, Local, Safe
<1>c. CASE Timeout
  BY <1>1, <1>2, <1>c DEF Timeout
<1>13. CASE Wait
  <2>1. Takes("wait")
    BY <1>13 DEF Wait
  <2>2. \A l \in Operands(Command.expr) : trigs[l.id] # None
    <3>1. Command.expr \in SUBSET SUBSET Operand
      BY <1>1, <2>1, CommandOf
    <3>2. \A l \in Operands(Command.expr) : l.id \in Trig
      BY <3>1 DEF Operands, Operand
    <3> QED BY <1>1, <2>1, <3>2 DEF Needs
  <2>3. CASE timeout \/ Command.timed
    BY <1>1, <1>2, <1>13, <2>1, <2>2, <2>3 DEF Wait
  <2>4. CASE ~ (timeout \/ Command.timed)
    <3>1. Quit /\ timeout' = timeout
      BY <1>13, <2>4 DEF Wait, Quit
    <3> QED BY <1>1, <2>1, <2>4, <3>1 DEF Refusing, Refused, Quit
  <2> QED BY <2>3, <2>4
<1>14. CASE WaitUnblock \/ WaitElapsed \/ WaitSelect \/ WaitTimeout \/ WaitServe
            \/ InputServe \/ ServeEnd \/ \E p \in Periph : ServeEof(p)
  <2>1. /\ cmds' = cmds /\ trigs' = trigs /\ eof' = eof /\ declared' = declared
        /\ epc' \notin {"quit", "exit"}
    BY <1>14 DEF WaitUnblock, WaitElapsed, WaitSelect, WaitTimeout, WaitServe, InputServe,
                 ServeEnd, ServeEof, Serve, WaitOver, EngineTypes
  <2> QED BY <1>3, <2>1
<1>15. ASSUME NEW p \in Periph, ServeLine(p) PROVE Granting
  <2>1. Head(out[p]) \in Line
    BY <1>15, TailOf DEF ServeLine, EngineTypes
  <2>2. /\ trigs' = Updated(p, Head(out[p])) /\ cmds' = cmds /\ UNCHANGED <<epc, eof, declared>>
        /\ epc = "serve"
    BY <1>15 DEF ServeLine
  <2> QED BY <2>1, <2>2, FreshUpdated DEF Granting
<1>16. CASE InputEnd \/ Exit
  BY <1>16 DEF InputEnd, Exit
<1> QED BY <1>b, <1>4, <1>5, <1>6, <1>7, <1>8, <1>9, <1>10, <1>11, <1>12, <1>c, <1>13, <1>14,
           <1>15, <1>16 DEF EngineStep, Trigger, Links, Waits, Serves

(* An engine that has failed only ends.                                    *)
LEMMA FailedEnds == EngineStep /\ ~ Up => epc' = "exit"
<1>1. Up \/ ~ Trigger
  BY DEF Up, Trigger, TrigDef, TrigUndef, TrigClear, TrigAsk, Takes
<1>2. Up \/ ~ Links
  BY DEF Up, Links, PeriphDeclare, Open, Close, Do, Takes
<1>3. Up \/ ~ (Cases \/ Timeout)
  BY DEF Up, Cases, Case, CaseDone, Verdict, Local, Timeout, Takes
<1>4. Up \/ ~ Waits
  BY DEF Up, Waits, Wait, WaitUnblock, WaitElapsed, WaitSelect, WaitTimeout, WaitServe,
         Serve, Takes
<1>5. Up \/ ~ Serves
  BY DEF Up, Serves, InputServe, Serve, ServeEnd, ServeLine, ServeEof
<1>6. Up \/ ~ InputEnd
  BY DEF Up, InputEnd
<1>7. Exit => epc' = "exit"
  BY DEF Exit
<1> QED BY <1>1, <1>2, <1>3, <1>4, <1>5, <1>6, <1>7 DEF EngineStep

LEMMA KeepsEof == EngineStep => eof' = eof
<1> USE DEF pipeVars
<1>1. Trigger => eof' = eof
  BY DEF Trigger, TrigDef, TrigUndef, TrigClear, TrigAsk, Quit
<1>2. Links => eof' = eof
  BY DEF Links, PeriphDeclare, Open, Close, Do, Quit
<1>3. Cases \/ Timeout => eof' = eof
  BY DEF Cases, Case, CaseDone, Verdict, Local, Timeout, Quit
<1>4. Waits => eof' = eof
  BY DEF Waits, Wait, WaitUnblock, WaitElapsed, WaitSelect, WaitTimeout, WaitServe, WaitOver,
         Serve, Quit
<1>5. Serves => eof' = eof
  BY DEF Serves, InputServe, Serve, ServeEnd, ServeLine, ServeEof
<1>6. InputEnd \/ Exit => eof' = eof
  BY DEF InputEnd, Exit, Quit
<1> QED BY <1>1, <1>2, <1>3, <1>4, <1>5, <1>6 DEF EngineStep

LEMMA SafeGrows == declared \subseteq declared' => Safe \subseteq Safe'
<1> QED BY DEF Safe

(* A request that needs a trigger finds it.                                *)
LEMMA NeedMet ==
  ASSUME IInv, Declaring, Sure, Up, cmds # <<>>, NEW t \in Trig, Head(cmds) \in Needs[t]
  PROVE  trigs[t] # None
<1>1. Head(cmds) = cmds[1] /\ 1 \in DOMAIN cmds /\ Head(cmds).op \in AskOp
      /\ Head(cmds).op # "trigdef"
  BY TailOf DEF IInv, Types, EngineTypes, Needs, AskOp
<1>2. Len(cmds) = 1 /\ cmds[1] = want /\ script = "reads"
  BY <1>1 DEF IInv, Pending, Unanswered
<1>3. Head(todo) = todo[1] /\ 1 \in DOMAIN todo /\ Head(todo).cmd \in Commands /\ call \in Nat
      /\ DOMAIN todo \subseteq Nat \ {0}
  BY <1>2, TailOf DEF IInv, Types, ScriptTypes, Asking, Steps
<1>4. Head(todo).cmd \in Needs[t]
  BY <1>1, <1>2, <1>3, RelabelOf DEF Declaring
<1>5. Kept(t)
  BY <1>3, <1>4 DEF Sure
<1>6. DOMAIN cmds = {1}
  BY <1>2 DEF IInv, Types, EngineTypes
<1> QED BY <1>1, <1>5, <1>6 DEF Kept, Gives

LEMMA EngineKeepsSafe ==
  ASSUME ~ OpenMayFail, IInv, SInv, EngineRuns
  PROVE  SInv'
<1>1. eof' = eof /\ EngineTypes /\ EngineStep
      /\ UNCHANGED <<script, made, todo, call, job, sync, want>>
  BY KeepsEof DEF EngineRuns, scriptVars, IInv, Types
<1>2. CASE eof \/ ~ Up
  BY <1>1, <1>2, FailedEnds DEF SInv, EngineSurvives, Up
<1>3. CASE ~ eof /\ Up
  <2>1. Declaring /\ Sure /\ Up /\ epc \notin {"quit", "exit"}
    BY <1>3 DEF SInv, Up
  <2>2. \A k \in DOMAIN cmds : cmds[k] \in Safe
    BY <2>1 DEF Sure
  <2>a. CASE Refusing
    <3>1. Head(cmds') = Head(cmds)
      BY <2>a DEF Refusing
    <3> QED BY <2>a, <3>1 DEF Refusing, SInv, EngineSurvives, Up, Refused
  <2> SUFFICES ASSUME ~ Refusing PROVE SInv'
    BY <2>a
  <2>3. Granting
    BY <1>1, <1>3, <2>1, <2>2, NeedMet, EngineGrants
  <2>4. Safe \subseteq Safe' /\ declared \subseteq declared'
    BY <2>3, SafeGrows DEF Granting
  <2>5. ASSUME NEW t \in Trig, Kept(t) PROVE Kept(t)'
    <3>1. CASE Taking
      <4>1. cmds' # cmds
        BY <1>1, <3>1, TailOf DEF Taking, EngineTypes
      <4> QED BY <1>1, <2>3, <2>5, <3>1, <4>1, KeptByTaking DEF Granting
    <3>2. CASE cmds' = cmds /\ (trigs[t] # None => trigs'[t] # None)
      BY <2>5, <3>2 DEF Kept
    <3> QED BY <2>3, <3>1, <3>2 DEF Granting
  <2>6. ASSUME NEW q \in Periph, replies' # <<>>, want \in Asks[q] PROVE q \in declared'
    <3>1. CASE replies' = replies
      BY <2>1, <2>4, <2>6, <3>1 DEF Declaring
    <3>2. CASE Taking /\ Head(cmds).op \in AskOp
      <4>1. Head(cmds) = cmds[1] /\ 1 \in DOMAIN cmds /\ cmds' # cmds
        BY <1>1, <3>2, TailOf DEF Taking, EngineTypes
      <4>2. Head(cmds) = want
        BY <2>1, <3>2, <4>1 DEF IInv, Pending
      <4> QED BY <2>3, <2>6, <4>1, <4>2 DEF Granting
    <3>3. CASE waiting # None
      <4>1. want.op = "wait"
        BY <2>1, <3>3 DEF IInv, Pending, Types, EngineTypes
      <4> QED BY <2>6, <4>1 DEF Asks
    <3> QED BY <1>1, <3>1, <3>2, <3>3, EngineEffect DEF Effect
  <2>7. Declaring'
    BY <1>1, <2>1, <2>4, <2>6 DEF Declaring
  <2>8. cmds' \in Seq(Safe')
    <3>1. cmds \in Seq(Safe)
      BY <2>1 DEF Sure
    <3>2. cmds' \in Seq(Safe)
      BY <2>3, <3>1, TailOf DEF Granting, Taking
    <3> QED BY <2>4, <3>2
  <2>9. Sure'
    BY <1>1, <2>1, <2>4, <2>5, <2>8 DEF Sure
  <2> QED BY <1>1, <2>3, <2>7, <2>9 DEF SInv, EngineSurvives, Granting
<1> QED BY <1>2, <1>3

LEMMA SendKeepsSafe ==
  ASSUME IInv, SInv, ScriptPost \/ ScriptAsk
  PROVE  SInv'
<1> DEFINE m == [Head(todo).cmd EXCEPT !.call = call]
<1>1. /\ UNCHANGED <<epc, eof, declared, trigs, timeout, made, call, replies>>
      /\ cmds' = Append(cmds, m) /\ todo # <<>> /\ script = "runs"
  BY DEF ScriptPost, ScriptAsk, Sent, linkVars
<1>a. EngineSurvives'
  <2>1. ASSUME epc = "quit", ~ eof PROVE cmds' # <<>> /\ Head(cmds') = Head(cmds)
    <3>1. cmds # <<>> /\ cmds \in Seq(Commands)
      BY <2>1 DEF SInv, EngineSurvives, IInv, Types, EngineTypes
    <3>2. m \in Commands
      BY <1>1, TailOf, RelabelOf DEF IInv, Types, ScriptTypes, Steps
    <3> HIDE DEF m
    <3> QED BY <1>1, <3>1, <3>2, AppendOf
  <2> QED BY <1>1, <2>1 DEF SInv, EngineSurvives, Refused
<1>2. CASE eof \/ ~ Up
  BY <1>1, <1>2, <1>a DEF SInv, Up
<1>3. CASE ~ eof /\ Up
  <2>1. Declaring /\ Sure
    BY <1>3 DEF SInv
  <2>2. /\ Head(todo) \in Steps /\ Head(todo) = todo[1] /\ 1 \in DOMAIN todo
        /\ Len(Tail(todo)) = Len(todo) - 1 /\ Len(todo) \in Nat
        /\ \A k \in DOMAIN Tail(todo) : k + 1 \in DOMAIN todo /\ Tail(todo)[k] = todo[k + 1]
        /\ \A k \in DOMAIN todo : k # 1 => k - 1 \in DOMAIN Tail(todo) /\ todo[k] = Tail(todo)[k - 1]
        /\ DOMAIN todo \subseteq Nat \ {0} /\ DOMAIN Tail(todo) \subseteq Nat \ {0}
        /\ call \in Nat /\ Head(todo).cmd \in Commands
    BY <1>1, TailOf DEF IInv, Types, ScriptTypes, Steps
  <2>3. /\ m \in Commands /\ m.op = Head(todo).cmd.op
        /\ Head(todo).cmd \in Safe => m \in Safe
        /\ \A t \in Trig : /\ m \in Needs[t] <=> Head(todo).cmd \in Needs[t]
                           /\ m \in Gives[t] <=> Head(todo).cmd \in Gives[t]
                           /\ m \in Drops[t] <=> Head(todo).cmd \in Drops[t]
    BY <2>2, RelabelOf
  <2> HIDE DEF m
  <2>4. cmds' \in Seq(Safe) /\ cmds' # <<>> /\ cmds'[Len(cmds')] = m
    BY <1>1, <2>1, <2>2, <2>3, AppendOf DEF Sure
  <2>5. Safe' = Safe
    BY <1>1 DEF Safe
  <2>6. ASSUME NEW t \in Trig, m \in Gives[t] \/ (Kept(t) /\ m \notin Drops[t]) PROVE Kept(t)'
    BY <1>1, <2>3, <2>6, KeptBySending DEF IInv, Types
  <2>7. \A t \in Trig : m \in Drops[t] => Len(todo) = 1
    BY <2>1, <2>2, <2>3 DEF Sure, Drops
  <2>8. CASE ScriptPost
    <3>1. todo' = Tail(todo) /\ UNCHANGED <<script, want>> /\ Head(todo).then = "post"
      BY <2>8 DEF ScriptPost
    <3>2. \A q \in Periph : Head(todo).cmd \notin Asks[q]
      BY <2>2, <3>1 DEF Steps, AskOp, Asks
    <3>3. Declaring'
      BY <1>1, <2>1, <3>1, <3>2 DEF Declaring, IInv, Types, ScriptTypes
    <3>4. \A k \in DOMAIN todo' : /\ todo'[k].cmd \in Safe
                                  /\ todo'[k].cmd.op = "undef" => k = Len(todo')
      BY <2>1, <2>2, <3>1 DEF Sure
    <3>5. ASSUME NEW t \in Trig, NEW k \in DOMAIN todo', todo'[k].cmd \in Needs[t]
          PROVE  Kept(t)' \/ \E i \in DOMAIN todo' : i < k /\ todo'[i].cmd \in Gives[t]
      <4>1. k + 1 \in DOMAIN todo /\ todo[k + 1].cmd \in Needs[t] /\ Len(todo) # 1
        BY <2>2, <3>1, <3>5
      <4>2. CASE Kept(t)
        BY <2>6, <2>7, <4>1, <4>2
      <4>3. ASSUME NEW i \in DOMAIN todo, i < k + 1, todo[i].cmd \in Gives[t]
            PROVE  Kept(t)' \/ \E j \in DOMAIN todo' : j < k /\ todo'[j].cmd \in Gives[t]
        <5>1. CASE i = 1
          BY <2>2, <2>3, <2>6, <4>3, <5>1
        <5>2. CASE i # 1
          <6>1. i - 1 \in DOMAIN todo' /\ todo'[i - 1].cmd \in Gives[t]
            BY <2>2, <3>1, <4>3, <5>2
          <6>2. i - 1 < k
            BY <2>2, <3>1, <3>5, <4>3
          <6> QED BY <6>1, <6>2
        <5> QED BY <5>1, <5>2
      <4> QED BY <2>1, <4>1, <4>2, <4>3 DEF Sure
    <3>6. Sure'
      BY <2>4, <2>5, <3>4, <3>5 DEF Sure
    <3> QED BY <1>a, <3>3, <3>6 DEF SInv
  <2>9. CASE ScriptAsk
    <3>1. todo' = todo /\ script' = "reads" /\ want' = m /\ Head(todo).then # "post" /\ replies = <<>>
      BY <1>1, <2>4, <2>9 DEF ScriptAsk, IInv, Answered
    <3>2. \A t \in Trig : m \notin Drops[t]
      BY <2>2, <2>3, <3>1 DEF Steps, AskOp, Drops
    <3>3. Declaring'
      BY <1>1, <2>1, <3>1 DEF Declaring, m
    <3>4. \A t \in Trig : Kept(t) => Kept(t)'
      BY <2>6, <3>2
    <3>5. Sure'
      BY <2>1, <2>4, <2>5, <3>1, <3>4 DEF Sure
    <3> QED BY <1>a, <3>3, <3>5 DEF SInv
  <2> QED BY <2>8, <2>9
<1> QED BY <1>2, <1>3

LEMMA ReturnKeepsSafe ==
  ASSUME IInv, SInv, ScriptRead \/ ScriptEof
  PROVE  SInv'
<1>1. /\ UNCHANGED <<epc, cmds, eof, declared, trigs, timeout, made, call>>
      /\ script' = "runs" /\ want' = None /\ replies' = <<>> /\ script = "reads"
  BY DEF ScriptRead, ScriptEof, Returned, linkVars, IInv, Answered
<1>a. EngineSurvives'
  BY <1>1 DEF SInv, EngineSurvives, Refused
<1>2. CASE eof \/ ~ Up
  BY <1>1, <1>2, <1>a DEF SInv, Up
<1>3. CASE ~ eof /\ Up
  <2>1. Declaring /\ Sure /\ ScriptRead /\ replies # <<>> /\ Fits(Head(replies), want)
    BY <1>3 DEF SInv, Up, ScriptEof, ScriptRead, IInv, Answered
  <2> DEFINE h == Head(todo)
             a == Head(replies).val
  <2>2. PICK next \in Follow(h.then, a) : todo' = next \o Tail(todo)
    BY <2>1 DEF ScriptRead, Returned
  <2>3. /\ todo \in Seq(Steps) /\ todo # <<>> /\ h.then # "post" /\ h \in Steps /\ h = todo[1]
        /\ want = [h.cmd EXCEPT !.call = call] /\ call \in Nat /\ h.cmd \in Commands
        /\ h.cmd.op \in AskOp
    BY <1>1, <2>1, TailOf DEF IInv, Types, ScriptTypes, Asking, Declaring, Steps
  <2>4. /\ 1 \in DOMAIN todo /\ Len(Tail(todo)) = Len(todo) - 1 /\ Len(todo) \in Nat
        /\ \A k \in DOMAIN Tail(todo) : k + 1 \in DOMAIN todo /\ Tail(todo)[k] = todo[k + 1]
        /\ \A k \in DOMAIN todo : k # 1 => k - 1 \in DOMAIN Tail(todo) /\ todo[k] = Tail(todo)[k - 1]
        /\ DOMAIN todo \subseteq Nat \ {0} /\ DOMAIN Tail(todo) \subseteq Nat \ {0}
        /\ Tail(todo) \in Seq(Steps)
    BY <2>3, TailOf
  <2>5. Safe' = Safe /\ \A t \in Trig : Kept(t)' <=> Kept(t)
    BY <1>1 DEF Safe, Kept
  <2> HIDE DEF h, a
  <2>6. Declaring'
    <3>1. \A q \in Periph : want \in Asks[q] <=> h.cmd \in Asks[q]
      BY <2>3, RelabelOf
    <3>2. \A q \in made : q \in declared
      BY <2>1, <3>1 DEF Declaring, IInv, Types, ScriptTypes, h
    <3> QED BY <1>1, <3>2 DEF Declaring
  <2>7. ASSUME NEW k \in DOMAIN Tail(todo), NEW t \in Trig, Tail(todo)[k].cmd \in Needs[t]
        PROVE  Kept(t) \/ \E i \in DOMAIN Tail(todo) : i < k /\ Tail(todo)[i].cmd \in Gives[t]
    <3>1. k + 1 \in DOMAIN todo /\ todo[k + 1].cmd \in Needs[t]
      BY <2>4, <2>7
    <3>2. ASSUME NEW i \in DOMAIN todo, i < k + 1, todo[i].cmd \in Gives[t]
          PROVE  \E j \in DOMAIN Tail(todo) : j < k /\ Tail(todo)[j].cmd \in Gives[t]
      <4>1. i # 1
        BY <2>3, <3>2 DEF Gives, AskOp
      <4>2. i - 1 \in DOMAIN Tail(todo) /\ Tail(todo)[i - 1].cmd \in Gives[t] /\ i - 1 < k
        BY <2>4, <2>7, <3>2, <4>1
      <4> QED BY <4>2
    <3> QED BY <2>1, <3>1, <3>2 DEF Sure
  <2>8. \A k \in DOMAIN Tail(todo) : /\ Tail(todo)[k].cmd \in Safe
                                     /\ Tail(todo)[k].cmd.op = "undef" => k = Len(Tail(todo))
    BY <2>1, <2>4 DEF Sure
  <2>9. CASE todo' = Tail(todo)
    <3>1. Sure'
      BY <1>1, <2>1, <2>5, <2>7, <2>8, <2>9 DEF Sure
    <3> QED BY <1>a, <2>6, <3>1 DEF SInv
  <2>10. ASSUME NEW x \in Steps, todo' = <<x>> \o Tail(todo), x.cmd \in Safe,
                x.cmd.op # "undef", \A t \in Trig : x.cmd \in Needs[t] => Kept(t)
         PROVE  SInv'
    <3>1. \A k \in DOMAIN todo' : \/ k = 1 /\ todo'[k] = x
                                  \/ k - 1 \in DOMAIN Tail(todo) /\ todo'[k] = Tail(todo)[k - 1]
      BY <2>4, <2>10, PushOf
    <3>2. /\ Len(todo') = Len(Tail(todo)) + 1
          /\ \A k \in DOMAIN Tail(todo) : k + 1 \in DOMAIN todo' /\ todo'[k + 1] = Tail(todo)[k]
      <4>1. <<x>> \in Seq(Steps) /\ Len(<<x>>) = 1
        OBVIOUS
      <4> QED BY <2>4, <2>10, <4>1
    <3>3. \A k \in DOMAIN todo' : /\ todo'[k].cmd \in Safe
                                  /\ todo'[k].cmd.op = "undef" => k = Len(todo')
      BY <2>4, <2>8, <2>10, <3>1, <3>2
    <3>4. ASSUME NEW t \in Trig, NEW k \in DOMAIN todo', todo'[k].cmd \in Needs[t]
          PROVE  Kept(t) \/ \E i \in DOMAIN todo' : i < k /\ todo'[i].cmd \in Gives[t]
      <4>1. CASE k = 1 /\ todo'[k] = x
        BY <2>10, <3>4, <4>1
      <4>2. CASE k - 1 \in DOMAIN Tail(todo) /\ todo'[k] = Tail(todo)[k - 1]
        <5>1. ASSUME NEW i \in DOMAIN Tail(todo), i < k - 1, Tail(todo)[i].cmd \in Gives[t]
              PROVE  \E j \in DOMAIN todo' : j < k /\ todo'[j].cmd \in Gives[t]
          <6>1. i + 1 \in DOMAIN todo' /\ todo'[i + 1].cmd \in Gives[t] /\ i + 1 < k
            <7>1. i \in Nat /\ k - 1 \in Nat
              BY <2>4, <4>2, <5>1
            <7>2. todo' \in Seq(Steps)
              BY <2>4, <2>10, PushOf
            <7>3. k \in Nat
              BY <3>4, <7>2
            <7>4. i + 1 < k
              BY <5>1, <7>1, <7>3
            <7>5. i + 1 \in DOMAIN todo' /\ todo'[i + 1] = Tail(todo)[i]
              BY <3>2
            <7> QED BY <5>1, <7>4, <7>5
          <6> QED BY <6>1
        <5> QED BY <2>7, <3>4, <4>2, <5>1
      <4> QED BY <3>1, <4>1, <4>2
    <3>5. Sure'
      BY <1>1, <2>1, <2>5, <3>3, <3>4 DEF Sure
    <3> QED BY <1>a, <2>6, <3>5 DEF SInv
  <2>11. CASE h.then = "info" /\ a # {}
    <3>1. want.op = "wait" /\ h.cmd.op = "wait" /\ want \in Commands /\ Fits(Head(replies), want)
      BY <2>1, <2>3, <2>11, RelabelOf DEF Steps
    <3>2. a \subseteq {l.id : l \in Operands(want.expr)}
      BY <3>1 DEF Fits, a
    <3>3. want.expr \in SUBSET SUBSET Operand
      BY <3>1, CommandOf
    <3>4. a \subseteq Trig
      BY <3>2, <3>3 DEF Operands, Operand
    <3>5. PICK t \in a : next = <<Ask(OnTrig("info", t), "keep")>>
      BY <2>2, <2>11 DEF Follow
    <3>6. want \in Needs[t]
      BY <3>1, <3>2, <3>4, <3>5 DEF Needs
    <3>7. todo[1].cmd \in Needs[t]
      BY <2>3, <3>4, <3>6, RelabelOf
    <3>8. Kept(t)
      BY <2>1, <2>4, <3>4, <3>7 DEF Sure
    <3> DEFINE x == Ask(OnTrig("info", t), "keep")
    <3>9. x \in Steps /\ t \in Trig
      BY <3>4, AskedOf
    <3>10. x.cmd = [op |-> "info", call |-> 0, id |-> t]
      BY DEF Ask, OnTrig
    <3>11. x.cmd \in Commands
      BY <3>9 DEF Steps
    <3>12. x.cmd \in Safe /\ x.cmd.op # "undef"
      BY <3>10, <3>11 DEF Safe
    <3>13. \A u \in Trig : x.cmd \in Needs[u] => u = t
      BY <3>10 DEF Needs
    <3>14. todo' = <<x>> \o Tail(todo)
      BY <2>2, <3>5
    <3> HIDE DEF x
    <3> QED BY <2>10, <3>8, <3>9, <3>12, <3>13, <3>14
  <2>12. CASE h.then = "open" /\ a = {}
    <3> DEFINE x == Ask(OnPeriph("close", job.periph), "ignore")
    <3>1. next = <<x>>
      BY <2>2, <2>12 DEF Follow
    <3>2. job.periph \in Periph
      BY <2>3, <2>4, <2>12 DEF IInv, Types, ScriptTypes
    <3>3. x \in Steps
      BY <3>2, AskedOf
    <3>4. x.cmd = [op |-> "close", call |-> 0, periph |-> job.periph]
      BY DEF Ask, OnPeriph
    <3>5. x.cmd \in Commands
      BY <3>3 DEF Steps
    <3>6. x.cmd \in Safe /\ x.cmd.op # "undef"
      BY <3>4, <3>5 DEF Safe
    <3>7. \A u \in Trig : x.cmd \notin Needs[u]
      BY <3>4 DEF Needs
    <3>8. todo' = <<x>> \o Tail(todo)
      BY <2>2, <3>1
    <3> HIDE DEF x
    <3> QED BY <2>10, <3>3, <3>6, <3>7, <3>8
  <2>13. CASE ~ (h.then = "info" /\ a # {}) /\ ~ (h.then = "open" /\ a = {})
    <3>1. next = <<>>
      BY <2>2, <2>13 DEF Follow
    <3> QED BY <2>2, <2>4, <2>9, <3>1
  <2> QED BY <2>11, <2>12, <2>13
<1> QED BY <1>2, <1>3

(* A call of a method sends safe commands, and defines a trigger before it *)
(* waits for it.                                                           *)
LEMMA DialogueSafe ==
  ASSUME SInv, UNCHANGED <<eof, epc, cmds, timeout>>,
         ~ eof /\ Declaring /\ Sure => Declaring' /\ Sure'
  PROVE  SInv'
<1> QED BY DEF SInv, EngineSurvives, Refused, Up

LEMMA OneSafe ==
  ASSUME Types, Sure, UNCHANGED <<cmds, declared, trigs>>, NEW x, todo' = <<x>>,
         x.cmd \in Safe, \A t \in Trig : x.cmd \notin Needs[t]
  PROVE  Sure'
<1>1. Safe' = Safe /\ cmds' \in Seq(Safe')
  BY DEF Safe, Sure
<1>2. DOMAIN todo' = {1} /\ todo'[1] = x /\ Len(todo') = 1
  OBVIOUS
<1> QED BY <1>1, <1>2 DEF Sure

LEMMA WaitSafe ==
  ASSUME Types, Sure, UNCHANGED <<cmds, declared, trigs>>,
         NEW w, NEW x, NEW y, NEW z, todo' = <<w, x, y, z>>, NEW t \in Trig,
         w.cmd \in Safe \cap Gives[t], x.cmd \in Safe, y.cmd \in Safe, z.cmd \in Safe,
         {w.cmd.op, x.cmd.op, y.cmd.op} \cap {"undef"} = {},
         \A u \in Trig : /\ w.cmd \notin Needs[u] /\ x.cmd \notin Needs[u]
                         /\ z.cmd \notin Needs[u] /\ (y.cmd \in Needs[u] => u = t)
  PROVE  Sure'
<1>1. Safe' = Safe /\ cmds' \in Seq(Safe')
  BY DEF Safe, Sure
<1>2. /\ DOMAIN todo' = {1, 2, 3, 4} /\ Len(todo') = 4
      /\ todo'[1] = w /\ todo'[2] = x /\ todo'[3] = y /\ todo'[4] = z
  OBVIOUS
<1>3. \A k \in DOMAIN todo' : todo'[k].cmd \in Safe /\ (todo'[k].cmd.op = "undef" => k = Len(todo'))
  BY <1>2
<1>4. ASSUME NEW u \in Trig, NEW k \in DOMAIN todo', todo'[k].cmd \in Needs[u]
      PROVE  \E i \in DOMAIN todo' : i < k /\ todo'[i].cmd \in Gives[u]
  BY <1>2, <1>4
<1> QED BY <1>1, <1>3, <1>4 DEF Sure

LEMMA CallKeepsSafe ==
  ASSUME Calls \subseteq Methods, IInv, SInv, MakesCall
  PROVE  SInv'
<1> USE EngineAssumption, SessionAssumption
<1>1. UNCHANGED <<epc, cmds, eof, replies, declared, trigs, timeout, script, want>>
      /\ script = "runs" /\ todo = <<>>
  BY CallTypes DEF IInv, engineVars, pipeVars, linkVars
<1> SUFFICES ASSUME ~ eof, Declaring, Sure PROVE Declaring' /\ Sure'
  BY <1>1, DialogueSafe
<1>2. made \subseteq declared /\ Types
  BY <1>1 DEF Declaring, IInv
<1>3. Declaring' <=> \A q \in made' : q \in declared \/ (todo' # <<>> /\ Head(todo').cmd \in Asks[q])
  BY <1>1 DEF Declaring
<1>4. made' = made => Declaring'
  BY <1>2, <1>3
<1>5. ASSUME NEW p \in Periph, CallNew(p) PROVE Declaring' /\ Sure'
  <2> DEFINE x == Ask(OnPeriph("periph", p), "ignore")
  <2>1. todo' = <<x>> /\ made' = made \cup {p}
    BY <1>5 DEF CallNew, Start
  <2>2. x.cmd = [op |-> "periph", call |-> 0, periph |-> p]
    BY DEF Ask, OnPeriph
  <2>3. x.cmd \in Commands
    BY AskedOf DEF Steps
  <2>4. x.cmd \in Safe /\ x.cmd \in Asks[p] /\ \A t \in Trig : x.cmd \notin Needs[t]
    BY <2>2, <2>3 DEF Safe, Asks, Needs
  <2> HIDE DEF x
  <2>5. Sure'
    BY <1>1, <1>2, <2>1, <2>4, OneSafe
  <2>6. todo' # <<>> /\ Head(todo') = x
    BY <2>1
  <2> QED BY <1>2, <1>3, <2>1, <2>4, <2>5, <2>6
<1>6. ASSUME NEW p \in made, NEW x \in {Post(OnPeriph("open", p)), Post(Send(p, "ans", 0)),
                                       Ask(OnPeriph("close", p), "ignore")},
             todo' = <<x>>, made' = made
      PROVE  Declaring' /\ Sure'
  <2>1. p \in Periph /\ p \in declared
    BY <1>2 DEF Types, ScriptTypes
  <2>2. \/ x.cmd = [op |-> "open", call |-> 0, periph |-> p]
        \/ x.cmd = [op |-> "close", call |-> 0, periph |-> p]
        \/ x.cmd = [op |-> "do", call |-> 0, periph |-> p, kind |-> "ans", n |-> 0]
    BY <1>6 DEF Post, Ask, OnPeriph, Send
  <2>3. x \in Steps
    BY <1>6, <2>1, PostedOf, AskedOf DEF Kind
  <2>4. x.cmd \in Commands
    BY <2>3 DEF Steps
  <2>5. x.cmd \in Safe /\ \A t \in Trig : x.cmd \notin Needs[t]
    BY <2>1, <2>2, <2>4 DEF Safe, Needs
  <2> QED BY <1>1, <1>2, <1>4, <1>6, <2>5, OneSafe
<1>7. ASSUME NEW p \in made, NEW t \in Trig, NEW pat \in Pattern \cup {None}, NEW timed \in BOOLEAN,
             NEW then \in {"info", "open"}, NEW msg \in Pattern,
             NEW x \in {Post(OnPeriph("open", p)), Post(Send(p, msg.kind, msg.n))},
             made' = made,
             todo' = << Post(Define(t, p, pat)), x,
                        Ask(WaitFor({{Raise(t)}}, timed), then), Post(OnTrigs("undef", {t})) >>
      PROVE  Declaring' /\ Sure'
  <2> DEFINE w == Post(Define(t, p, pat))
             y == Ask(WaitFor({{Raise(t)}}, timed), then)
             z == Post(OnTrigs("undef", {t}))
  <2>1. p \in Periph /\ p \in declared
    BY <1>2 DEF Types, ScriptTypes
  <2>2. w.cmd = [op |-> "trigdef", call |-> 0, id |-> t, src |-> p, pat |-> pat]
    BY DEF Post, Define
  <2>3. \/ x.cmd = [op |-> "open", call |-> 0, periph |-> p]
        \/ x.cmd = [op |-> "do", call |-> 0, periph |-> p, kind |-> msg.kind, n |-> msg.n]
    BY <1>7 DEF Post, OnPeriph, Send
  <2>4. y.cmd = [op |-> "wait", call |-> 0, expr |-> {{Raise(t)}}, timed |-> timed]
    BY DEF Ask, WaitFor
  <2>5. z.cmd = [op |-> "undef", call |-> 0, ids |-> {t}]
    BY DEF Post, OnTrigs
  <2>6. w \in Steps /\ x \in Steps /\ y \in Steps /\ z \in Steps
    <3>1. w \in Steps
      BY <2>1, PostedOf
    <3>2. x \in Steps
      BY <1>7, <2>1, PatternsOf, PostedOf
    <3>3. y \in Steps
      BY <1>7, AskedOf, OperandOf
    <3>4. z \in Steps
      BY PostedOf
    <3> QED BY <3>1, <3>2, <3>3, <3>4
  <2>7. w.cmd \in Commands /\ x.cmd \in Commands /\ y.cmd \in Commands /\ z.cmd \in Commands
    BY <2>6 DEF Steps
  <2> HIDE DEF w, y, z
  <2>8. w.cmd \in Safe /\ x.cmd \in Safe /\ y.cmd \in Safe /\ z.cmd \in Safe
    BY <2>1, <2>2, <2>3, <2>4, <2>5, <2>7 DEF Safe
  <2>9. w.cmd \in Gives[t]
    BY <2>2, <2>7 DEF Gives
  <2>10. \A u \in Trig : w.cmd \notin Needs[u] /\ x.cmd \notin Needs[u] /\ z.cmd \notin Needs[u]
    BY <2>2, <2>3, <2>5 DEF Needs
  <2>11. \A u \in Trig : y.cmd \in Needs[u] => u = t
    BY <2>4 DEF Needs, Operands, Raise
  <2>12. {w.cmd.op, x.cmd.op, y.cmd.op} \cap {"undef"} = {}
    BY <2>2, <2>3, <2>4
  <2>13. todo' = <<w, x, y, z>>
    BY <1>7 DEF w, y, z
  <2>14. Sure'
    BY <1>1, <1>2, <2>8, <2>9, <2>10, <2>11, <2>12, <2>13, WaitSafe
  <2> QED BY <1>4, <1>7, <2>14
<1>8. ASSUME NEW p \in Periph, CallOpen(p) PROVE Declaring' /\ Sure'
  <2>1. CASE Start("open", p, <<Post(OnPeriph("open", p))>>) /\ Keep
    BY <1>6, <1>8, <2>1 DEF CallOpen, Start, Keep
  <2>2. ASSUME NEW name, NEW pat \in Pattern \cup {None},
               Start(name, p, OpenSteps(p, "TOPEN", pat)) /\ Count(p)
        PROVE  Declaring' /\ Sure'
    <3>1. todo' = OpenSteps(p, "TOPEN", pat) /\ made' = made
      BY <2>2 DEF Start, Count
    <3> QED BY <1>7, <1>8, <3>1, PatternsOf DEF CallOpen, OpenSteps
  <2> QED BY <1>8, <2>1, <2>2, PatternsOf DEF CallOpen
<1>9. ASSUME NEW p \in Periph, CallClose(p) PROVE Declaring' /\ Sure'
  BY <1>6, <1>9 DEF CallClose, Start
<1>10. ASSUME NEW p \in made, NEW t \in Trig, NEW msg \in Pattern, NEW pat \in Pattern \cup {None},
              NEW timed \in BOOLEAN, todo' = CommandSteps(p, t, msg, pat, timed), made' = made
       PROVE  Declaring' /\ Sure'
  BY <1>7, <1>10 DEF CommandSteps
<1>11. ASSUME NEW p \in Periph, CallCommand(p) PROVE Declaring' /\ Sure'
  <2>1. CASE Start("post", p, <<Post(Send(p, "ans", 0))>>) /\ UNCHANGED <<made, sync>>
    BY <1>6, <1>11, <2>1 DEF CallCommand, Start
  <2>2. ASSUME NEW name, NEW pat \in Pattern \cup {None}, NEW timed \in BOOLEAN,
               Start(name, p, CommandSteps(p, "TCMD", Ans, pat, timed)), made' = made
        PROVE  Declaring' /\ Sure'
    <3>1. todo' = CommandSteps(p, "TCMD", Ans, pat, timed) /\ made' = made
      BY <2>2 DEF Start
    <3> QED BY <1>10, <1>11, <3>1, PatternsOf DEF CallCommand
  <2> QED BY <1>11, <2>1, <2>2, PatternsOf DEF CallCommand, Keep
<1>12. ASSUME NEW p \in Periph, CallSync(p) PROVE Declaring' /\ Sure'
  <2>1. Echo(SyncNumber(p)) \in Pattern
    BY <1>2, PatternsOf DEF SyncNumber, Types, ScriptTypes
  <2>2. /\ todo' = CommandSteps(p, "TECHO", Echo(SyncNumber(p)), Echo(SyncNumber(p)), TRUE)
        /\ made' = made /\ p \in made
    BY <1>12 DEF CallSync, Start, Count
  <2> QED BY <1>10, <2>1, <2>2
<1>13. ASSUME NEW p \in Periph, CallDo(p) PROVE FALSE
  BY <1>13 DEF CallDo, Start, Methods
<1>14. ASSUME CallTrig PROVE Declaring' /\ Sure'
  <2> DEFINE x == Post(Plain("timeout"))
  <2>1. todo' = <<x>> /\ made' = made
    BY <1>14 DEF CallTrig, Start, Methods, Keep
  <2>2. x.cmd = [op |-> "timeout", call |-> 0]
    BY DEF Post, Plain
  <2>3. x.cmd \in Commands
    BY PostedOf DEF Steps
  <2>4. x.cmd \in Safe /\ \A t \in Trig : x.cmd \notin Needs[t]
    BY <2>2, <2>3 DEF Safe, Needs
  <2> HIDE DEF x
  <2> QED BY <1>1, <1>2, <1>4, <2>1, <2>4, OneSafe
<1>15. ~ CallCase
  BY DEF CallCase, Start, Methods
<1> QED BY <1>5, <1>8, <1>9, <1>11, <1>12, <1>13, <1>14, <1>15 DEF MakesCall

LEMMA OthersKeepSafe ==
  ASSUME IInv, SInv,
         \/ ScriptStop \/ ScriptDies \/ TimePasses \/ UNCHANGED vars
         \/ \E p \in Periph : PeriphReply(p) \/ PeriphEvent(p) \/ PeriphDies(p)
  PROVE  SInv'
<1> USE DEF pipeVars, linkVars, waitVars, serveVars, caseVars
<1>1. CASE ScriptStop
  BY <1>1 DEF ScriptStop, SInv, EngineSurvives
<1>2. CASE ScriptDies
  BY <1>2 DEF ScriptDies, SInv, EngineSurvives, Up
<1>3. CASE \/ TimePasses \/ UNCHANGED vars
           \/ \E p \in Periph : PeriphReply(p) \/ PeriphEvent(p) \/ PeriphDies(p)
  <2>1. UNCHANGED <<epc, cmds, eof, replies, declared, trigs, timeout, made, todo, script, want,
                    call>>
    BY <1>3 DEF TimePasses, Tick, vars, engineVars, scriptVars, PeriphReply, PeriphEvent,
                PeriphDies, Printed
  <2>2. Safe' = Safe /\ \A t \in Trig : Kept(t)' <=> Kept(t)
    BY <2>1 DEF Safe, Kept
  <2>3. Declaring' <=> Declaring
    BY <2>1 DEF Declaring
  <2>4. Sure' <=> Sure
    BY <2>1, <2>2 DEF Sure
  <2> QED BY <2>1, <2>3, <2>4, DialogueSafe
<1> QED BY <1>1, <1>2, <1>3

(* Whatever methods of Interface the script calls, in whatever order and   *)
(* however late the engine and the peripherals are, if connections do not  *)
(* fail the engine ends for three reasons only: the script has closed its  *)
(* input, a WAIT has no timeout at all, or a regular expression does not   *)
(* compile.  No trigger that a method needs is missing by then, and no     *)
(* peripheral unknown.                                                     *)
THEOREM MethodsKeepEngine ==
  ASSUME ~ OpenMayFail, Calls \subseteq Methods
  PROVE  Spec => []EngineSurvives
<1>1. Init => SInv
  <2> SUFFICES ASSUME Init PROVE SInv
    OBVIOUS
  <2>1. cmds \in Seq(Safe) /\ DOMAIN todo = {} /\ epc = "input" /\ script = "runs"
        /\ made = {} /\ replies = <<>>
    BY EmptyOf DEF Init, EngineInit
  <2> QED BY <2>1 DEF SInv, EngineSurvives, Declaring, Sure
<1>2. IInv /\ SInv /\ [Next]_vars => SInv'
  BY EngineKeepsSafe, SendKeepsSafe, ReturnKeepsSafe, CallKeepsSafe, OthersKeepSafe
     DEF Next, Script
<1>3. SInv => EngineSurvives
  BY DEF SInv
<1> QED BY <1>1, <1>2, <1>3, SessionInvariant, PTL DEF Spec
=============================================================================
