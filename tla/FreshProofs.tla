---------------------------- MODULE FreshProofs ----------------------------
(***************************************************************************)
(* Proofs that the answers which the script gets are fresh: sync() and     *)
(* command() of Interface return a line printed for this very call, and    *)
(* sync() leaves nothing behind that was asked before.                     *)
(***************************************************************************)
EXTENDS SessionProofs

(* A call of command(), with or without a timeout, or of sync(): its       *)
(* trigger and pattern, its steps, and how far it is.                      *)
Commanding == job.name \in {"command", "untimed"}
Carrying == job.name \in {"command", "untimed", "sync"}
Tokens == {"TCMD", "TECHO"}
Token == IF job.name = "sync" THEN "TECHO" ELSE "TCMD"
Wanted == IF job.name = "sync" THEN [kind |-> "echo", n |-> sync[job.periph] - 1]
                               ELSE Ans
Defining == Post(Define(Token, job.periph, Wanted))
Sending  == Post(Send(job.periph, Wanted.kind, Wanted.n))
Awaiting == Ask(WaitFor({{Raise(Token)}}, job.name # "untimed"), "info")
Fetching == Ask(OnTrig("info", Token), "keep")
Dropping == Post(OnTrigs("undef", {Token}))

ToDefine == todo = <<Defining, Sending, Awaiting, Dropping>>
ToSend   == todo = <<Sending, Awaiting, Dropping>>
ToWait   == todo = <<Awaiting, Dropping>>
ToFetch  == todo = <<Fetching, Dropping>>
ToDrop   == todo = <<Dropping>>
Over     == todo = <<>>
Waited   == ToSend \/ ToWait \/ ToFetch

(* The calls that drop what is on its way to the peripheral and back.      *)
Renewing == IF job.name \in {"new", "close"} /\ todo # <<>> THEN {job.periph} ELSE {}

Staged ==
  /\ Carrying => /\ ToDefine \/ Waited \/ ToDrop \/ Over
                 /\ job.periph \in made /\ job.periph \in Periph
                 /\ sync[job.periph] # 0 \/ job.name # "sync"
  /\ job.name \in {"new", "close"} /\ todo # <<>> =>
       \E op \in {"periph", "close"} : todo = <<Ask(OnPeriph(op, job.periph), "ignore")>>
  /\ Carrying \/ todo # <<>> => call # 0
  /\ script = "reads" => want = [Head(todo).cmd EXCEPT !.call = call]
  /\ result.job.name = "sync" => result.job.periph \in Periph

(* The messages on their way: in the queue of the engine, in the input of  *)
(* each peripheral, and in its output.                                     *)
Does  == {c \in Commands : c.op = "do"}
Defs  == {c \in Commands : c.op = "trigdef" /\ c.id \in Tokens /\ c.pat # None}
Kills == {c \in Commands : c.op \in {"undef", "clear"}}
Msg(q, x) == [periph |-> q, kind |-> x.kind, n |-> x.n, call |-> x.call]
Queued == {Msg(cmds[k].periph, cmds[k]) : k \in {j \in DOMAIN cmds : cmds[j] \in Does}}
Inside  == [q \in Periph |-> {Msg(q, inp[q][k]) : k \in DOMAIN inp[q]}]
Outside == [q \in Periph |-> {Msg(q, out[q][k]) : k \in DOMAIN out[q]}]
Flying == UNION {Inside[q] \cup Outside[q] : q \in Periph}
Msgs == Queued \cup Flying

Known == \A m \in Msgs :
  /\ m.periph \in Periph
  /\ m.call \in 0 .. call /\ (m.call = 0 => m.kind = "boot")
  /\ Carrying /\ m.call = call =>
       m.periph = job.periph /\ m.kind = Wanted.kind /\ m.n = Wanted.n
  /\ Up /\ m.periph \notin Renewing /\ m.kind = "echo" =>
       /\ m.n < sync[m.periph]
       /\ job.name = "sync" /\ job.periph = m.periph /\ m.n = sync[m.periph] - 1 => m.call = call
  /\ Up /\ m.periph \notin Renewing /\ m.kind = "ans" /\ m.periph \in made \ owed =>
       Commanding /\ job.periph = m.periph /\ m.call = call

(* What a call sends, at most one message, and what it defines.            *)
Sends ==
  /\ \A k \in DOMAIN todo : todo[k].cmd \in Does =>
       \/ Carrying
       \/ todo[k].cmd.kind = "ans" /\ todo[k].cmd.periph \in owed \cup (Periph \ made)
  /\ \A j, k \in DOMAIN todo : todo[j].cmd \in Does /\ todo[k].cmd \in Does => j = k
  /\ \A k \in DOMAIN todo : todo[k].cmd \in Defs => Carrying

(* The message of the current call is the last one, wherever it is.        *)
LastSent ==
  /\ \A k \in DOMAIN cmds : cmds[k] \in Does /\ cmds[k].call = call =>
       /\ \A j \in DOMAIN cmds : j > k => cmds[j] \notin Does
       /\ \A m \in Flying : m.call # call
  /\ \A q \in Periph : \A k \in DOMAIN inp[q] : inp[q][k].call = call =>
       k = Len(inp[q]) /\ Queued = {} /\ \A m \in Outside[q] : m.call # call
  /\ \A q \in Periph : \A k \in DOMAIN out[q] : out[q][k].call = call =>
       inp[q] = <<>> /\ Queued = {} /\ \A j \in DOMAIN out[q] : j > k => out[q][j].call = 0
Unsent == \A k \in DOMAIN todo : todo[k].cmd \in Does =>
            call \notin served /\ \A m \in Msgs : m.call # call
Last == Unsent /\ (call # 0 => LastSent)

(* Nothing is left that the peripheral of the call was asked.              *)
Clean == /\ Queued = {} /\ inp[job.periph] = <<>>
         /\ \A k \in DOMAIN out[job.periph] : out[job.periph][k].call = 0

Cleared ==
  /\ \A q \in Periph \ conn : inp[q] = <<>> /\ out[q] = <<>>
  /\ Up /\ replies # <<>> /\ want.op \in {"periph", "close"} => want.periph \notin conn
  /\ Up /\ (replies # <<>> \/ waiting # None) => cmds = <<>>

(* The trigger of the call: its definition is in the queue, or executed.   *)
Undefined == \E k \in DOMAIN cmds : cmds[k] \in Defs
Armed == trigs[Token] # None /\ trigs[Token].src = job.periph /\ trigs[Token].pat = Wanted
Order == Up =>
  /\ \A k \in DOMAIN cmds : cmds[k] \in Defs =>
       /\ Carrying /\ (ToSend \/ ToWait)
       /\ cmds[k].id = Token /\ cmds[k].src = job.periph /\ cmds[k].pat = Wanted
       /\ \A j \in DOMAIN cmds : j > k => cmds[j] \notin Kills \cup Defs
       /\ \A j \in DOMAIN cmds : j < k /\ cmds[j] \in Does => cmds[j].call # call
       /\ call \notin served /\ \A m \in Flying : m.call # call
  /\ Carrying /\ Waited /\ ~ Undefined =>
       Armed /\ \A k \in DOMAIN cmds : cmds[k] \notin Kills

Ready == Up /\ Carrying /\ Waited /\ ~ Undefined
Trusted == job.name = "sync" \/ job.trusted

(* What the trigger of the call says, and the answers about it.            *)
Told ==
  /\ Ready /\ Trusted /\ trigs[Token].n # 0 => trigs[Token].info.call = call /\ Clean
  /\ Ready /\ Trusted /\ ToSend => trigs[Token].n = 0
  /\ Ready /\ call \in served => trigs[Token].n # 0
  /\ Ready /\ ToFetch => trigs[Token].n # 0
  /\ Ready /\ ToWait /\ replies # <<>> => Head(replies).val = {} \/ trigs[Token].n # 0
  /\ Carrying /\ ToFetch /\ Trusted /\ replies # <<>> => Head(replies).val.call = call /\ Clean
  /\ served \subseteq 0 .. call
Owing ==
  /\ Commanding /\ (ToDefine \/ Waited) => (job.trusted <=> job.periph \notin owed)
  /\ Commanding /\ job.periph \notin owed => job.trusted
  /\ Up /\ Commanding /\ (ToFetch \/ ToDrop \/ Over) /\ job.periph \notin owed => Clean

(* What follows a successful sync() only.                                  *)
After ==
  /\ call <= MaxCalls
  /\ result.job.name = "sync" /\ result.info # None =>
       /\ result.info.call = result.call /\ result.call \in 0 .. call
       /\ \A m \in Queued \cup Inside[result.job.periph] : m.call >= result.call
       /\ \A m \in Outside[result.job.periph] : m.call \in {0} \cup result.call .. call

FInv == Staged /\ Known /\ Sends /\ Last /\ Cleared /\ Order /\ Told /\ Owing /\ After /\ CommandFresh

-----------------------------------------------------------------------------
(* What a step of the engine does to the messages and to the triggers.     *)
Taken(c) ==
  \/ /\ c.op = "do" /\ UNCHANGED <<out, conn, trigs, replies, waiting>>
     /\ \/ inp' = inp
        \/ /\ c.periph \in conn
           /\ inp' = [inp EXCEPT ![c.periph] =
                        Append(inp[c.periph], [kind |-> c.kind, n |-> c.n, call |-> c.call])]
  \/ /\ c.op \in {"periph", "close"} /\ Closed({c.periph}) /\ UNCHANGED <<trigs, waiting>>
  \/ /\ c.op = "open" /\ UNCHANGED <<inp, out, trigs, replies, waiting>> /\ conn \subseteq conn'
  \/ /\ c.op = "trigdef" /\ c.pat # None /\ UNCHANGED <<inp, out, conn, replies, waiting>>
     /\ trigs' = [trigs EXCEPT ![c.id] = Fresh(c.src, c.pat)]
  \/ /\ c.op \in {"undef", "clear"} /\ UNCHANGED <<inp, out, conn, replies, waiting>>
  \/ /\ c.op \in {"info", "count"} /\ UNCHANGED <<inp, out, conn, trigs, waiting>>
     /\ c.op = "info" => replies' = Append(replies, [to |-> c, val |-> trigs[c.id].info])
  \/ /\ c.op = "wait" /\ UNCHANGED <<inp, out, conn, trigs, replies>> /\ waiting' = c
  \/ /\ c.op \in {"timeout", "local", "case", "verdict"}
     /\ UNCHANGED <<inp, out, conn, trigs, replies, waiting>>
  \/ /\ c.op = "done" /\ UNCHANGED <<inp, out, conn, trigs, waiting>>

Quits == ~ Up' /\ UNCHANGED <<cmds, inp, out, conn, replies, served>>
Exits == /\ ~ Up' /\ cmds' = <<>> /\ UNCHANGED <<replies, served>>
         /\ \A q \in Periph : inp'[q] = <<>> /\ out'[q] = <<>>
Takes1 == Up /\ Up' /\ Taking /\ UNCHANGED served /\ Taken(Head(cmds))
Answers1 == /\ Up /\ Up' /\ UNCHANGED <<cmds, inp, out, conn, trigs, served>>
            /\ waiting # None /\ waiting' = None
            /\ \E a \in {{}, Raised(waiting.expr)} :
                 replies' = Append(replies, [to |-> waiting, val |-> a])
Idles == Up' = Up /\ UNCHANGED <<cmds, inp, out, conn, trigs, replies, waiting, served>>
Reads(q) == /\ Up /\ Up' /\ out[q] # <<>> /\ out' = [out EXCEPT ![q] = Tail(out[q])]
            /\ served' = served \cup {Head(out[q]).call}
            /\ trigs' = Updated(q, Head(out[q]))
            /\ UNCHANGED <<cmds, inp, conn, replies, waiting>>
Loses(q) == Up /\ Up' /\ Closed({q}) /\ UNCHANGED <<cmds, trigs, replies, waiting, served>>
Moves == \/ Quits \/ Exits \/ Takes1 \/ Answers1 \/ Idles
         \/ \E q \in Periph : Reads(q) \/ Loses(q)

(* Every step of the engine is one of these.                               *)
LEMMA EngineMoves ==
  ASSUME EngineTypes, EngineRuns
  PROVE  Moves
<1> USE DEF pipeVars, linkVars, waitVars, serveVars, caseVars
<1>1. EngineStep /\ served' = served \cup Read
  BY DEF EngineRuns
<1>2. ASSUME epc # "serve" \/ out' = out PROVE served' = served
  BY <1>1, <1>2 DEF Read
<1>3. CASE Quit /\ epc = "input"
  BY <1>2, <1>3 DEF Quit, Moves, Quits, Up
<1>4. ASSUME NEW op, Takes(op), UNCHANGED epc, Done, Taken(Command), ~ (Quit /\ epc = "input")
      PROVE  Moves
  BY <1>2, <1>4 DEF Takes, Done, Command, Moves, Takes1, Taking, Up
<1>5. CASE ~ (Quit /\ epc = "input") /\ Trigger
  <2>1. CASE TrigDef
    BY <1>4, <1>5, <2>1 DEF TrigDef, Takes, Command, Silent, Taken
  <2>2. CASE TrigUndef \/ TrigClear
    BY <1>4, <1>5, <2>2 DEF TrigUndef, TrigClear, Takes, Command, Silent, Taken
  <2>3. CASE TrigAsk
    BY <1>4, <1>5, <2>3 DEF TrigAsk, Takes, Command, Answer, Taken
  <2> QED BY <1>5, <2>1, <2>2, <2>3 DEF Trigger
<1>6. CASE ~ (Quit /\ epc = "input") /\ Links
  <2>1. CASE PeriphDeclare
    BY <1>4, <1>6, <2>1 DEF PeriphDeclare, Takes, Command, Taken
  <2>2. CASE Close
    BY <1>4, <1>6, <2>2 DEF Close, Takes, Command, Taken
  <2>3. CASE Open
    BY <1>4, <1>6, <2>3 DEF Open, Takes, Command, Silent, Taken
  <2>4. CASE Do
    <3>1. /\ Takes("do") /\ Done /\ Command.op = "do"
          /\ UNCHANGED <<epc, out, conn, trigs, replies, waiting>>
      BY <1>6, <2>4 DEF Do, Takes, Command, Silent
    <3>2. inp \in [Periph -> Seq(Line)]
      BY DEF EngineTypes
    <3>3. inp' = [inp EXCEPT ![Command.periph] =
                    IF Command.periph \in conn \cap alive THEN Append(@, Message) ELSE @]
      BY <1>6, <2>4, <3>1 DEF Do, Takes
    <3>4. \/ inp' = inp
          \/ /\ Command.periph \in conn
             /\ inp' = [inp EXCEPT ![Command.periph] =
                  Append(inp[Command.periph],
                         [kind |-> Command.kind, n |-> Command.n, call |-> Command.call])]
      <4>1. CASE Command.periph \in conn \cap alive
        BY <3>3, <4>1 DEF Message
      <4>2. CASE Command.periph \notin conn \cap alive
        <5>1. inp' = [inp EXCEPT ![Command.periph] = inp[Command.periph]]
          BY <3>3, <4>2
        <5> QED BY <3>2, <5>1
      <4> QED BY <4>1, <4>2
    <3>5. Taken(Command)
      BY <3>1, <3>4 DEF Taken
    <3> QED BY <1>4, <1>6, <3>1, <3>5
  <2> QED BY <1>6, <2>1, <2>2, <2>3, <2>4 DEF Links
<1>7. CASE ~ (Quit /\ epc = "input") /\ (Cases \/ Timeout)
  <2>1. CASE CaseDone
    BY <1>4, <1>7, <2>1 DEF CaseDone, Takes, Command, Taken
  <2>2. CASE Case \/ Verdict \/ Local \/ Timeout
    BY <1>4, <1>7, <2>2 DEF Case, Verdict, Local, Timeout, Takes, Command, Silent, Taken
  <2> QED BY <1>7, <2>1, <2>2 DEF Cases
<1>8. CASE ~ (Quit /\ epc = "input") /\ Waits
  <2>1. CASE Wait
    BY <1>2, <1>8, <2>1 DEF Wait, Takes, Done, Command, Silent, Taken, Moves, Takes1, Taking, Up
  <2>2. ASSUME NEW a \in {{}, Raised(waiting.expr)}, WaitOver(a), epc \in {"check", "select"}
        PROVE  Moves
    <3>1. waiting # None
      BY <2>2 DEF EngineTypes
    <3> QED BY <1>2, <2>2, <3>1 DEF WaitOver, Answer, Moves, Answers1, Up
  <2>3. CASE WaitSelect \/ WaitServe
    BY <1>2, <2>3 DEF WaitSelect, WaitServe, Serve, Moves, Idles, Up
  <2> QED BY <1>8, <2>1, <2>2, <2>3 DEF Waits, WaitUnblock, WaitElapsed, WaitTimeout
<1>9. CASE InputServe \/ ServeEnd
  BY <1>2, <1>9 DEF InputServe, ServeEnd, Serve, Moves, Idles, Up, EngineTypes
<1>10. ASSUME NEW p \in Periph, ServeLine(p) PROVE Moves
  <2>1. out \in [Periph -> Seq(Line)] /\ out[p] # <<>> /\ epc = "serve"
    BY <1>10 DEF ServeLine, EngineTypes
  <2>2. out' = [out EXCEPT ![p] = Tail(out[p])] /\ Tail(out[p]) # out[p]
    BY <1>10, <2>1, TailOf DEF ServeLine
  <2>3. {q \in Periph : out'[q] # out[q]} = {p}
    BY <2>1, <2>2
  <2>4. served' = served \cup {Head(out[p]).call}
    BY <1>1, <2>1, <2>3 DEF Read
  <2> QED BY <1>10, <2>1, <2>2, <2>4 DEF ServeLine, Moves, Reads, Up
<1>11. ASSUME NEW p \in Periph, ServeEof(p) PROVE Moves
  <2>1. out' = out
    BY <1>11 DEF ServeEof, Closed, EngineTypes
  <2> QED BY <1>2, <1>11, <2>1 DEF ServeEof, Moves, Loses, Up
<1>12. CASE InputEnd
  BY <1>3, <1>12 DEF InputEnd
<1>13. CASE Exit
  BY <1>2, <1>13 DEF Exit, Moves, Exits, Up
<1> QED BY <1>1, <1>3, <1>5, <1>6, <1>7, <1>8, <1>9, <1>10, <1>11, <1>12, <1>13
        DEF EngineStep, Serves

-----------------------------------------------------------------------------
(* The same for the peripherals and for time.                              *)
Replies(p) ==
  /\ inp[p] # <<>> /\ inp' = [inp EXCEPT ![p] = Tail(inp[p])]
  /\ out' = [out EXCEPT ![p] = Append(out[p], Head(inp[p]))]
Prints(p) ==
  inp' = inp /\ out' = [out EXCEPT ![p] = Append(out[p], [kind |-> "boot", n |-> 0, call |-> 0])]
Dies(p) == inp' = [inp EXCEPT ![p] = <<>>] /\ out' = out
Lives(p) == /\ Replies(p) \/ Prints(p) \/ Dies(p)
            /\ p \in conn
            /\ UNCHANGED <<epc, cmds, conn, trigs, replies, waiting, served>>

Around == \/ EngineRuns \/ TimePasses \/ UNCHANGED vars
          \/ \E p \in Periph : PeriphReply(p) \/ PeriphEvent(p) \/ PeriphDies(p)
Drifts == Moves \/ \E p \in Periph : Lives(p)

(* What happens around the script is one of these moves, and leaves the    *)
(* script alone.                                                           *)
LEMMA Drifting ==
  ASSUME EngineTypes, Around
  PROVE  /\ Drifts
         /\ UNCHANGED <<script, made, todo, call, job, sync, want, result, owed>>
<1> USE DEF pipeVars, linkVars, waitVars, serveVars, caseVars
<1>1. UNCHANGED <<script, made, todo, call, job, sync, want, result, owed>>
  BY DEF Around, EngineRuns, TimePasses, vars, PeriphReply, PeriphEvent, PeriphDies, Printed,
         scriptVars
<1>2. CASE EngineRuns
  BY <1>1, <1>2, EngineMoves DEF Drifts
<1>3. CASE TimePasses \/ UNCHANGED vars
  BY <1>1, <1>3 DEF TimePasses, Tick, vars, engineVars, Drifts, Moves, Idles, Up
<1>4. ASSUME NEW p \in Periph, PeriphReply(p) \/ PeriphEvent(p) \/ PeriphDies(p) PROVE Drifts
  <2>1. /\ UNCHANGED <<epc, cmds, conn, trigs, replies, waiting, served>>
        /\ p \in conn
    BY <1>4 DEF PeriphReply, PeriphEvent, PeriphDies, Printed, EngineTypes
  <2>2. CASE PeriphReply(p)
    BY <2>1, <2>2 DEF Drifts, Lives, Replies, PeriphReply, Printed
  <2>3. CASE PeriphEvent(p)
    BY <2>1, <2>3 DEF Drifts, Lives, Prints, PeriphEvent, Printed
  <2>4. CASE PeriphDies(p)
    BY <2>1, <2>4 DEF Drifts, Lives, Dies, PeriphDies
  <2> QED BY <1>4, <2>2, <2>3, <2>4
<1> QED BY <1>1, <1>2, <1>3, <1>4 DEF Around

-----------------------------------------------------------------------------
(* What may happen to the two queues of a peripheral, and to the commands. *)
LineOf(c) == [kind |-> c.kind, n |-> c.n, call |-> c.call]
Less(q) ==
  /\ inp'[q] = inp[q] \/ inp'[q] = <<>>
  /\ out'[q] = out[q] \/ out'[q] = <<>> \/ (out[q] # <<>> /\ out'[q] = Tail(out[q]))
Gives1(q) ==
  /\ cmds # <<>> /\ cmds' = Tail(cmds) /\ Head(cmds).op = "do" /\ Head(cmds).periph = q
  /\ q \in conn /\ out'[q] = out[q] /\ inp'[q] = Append(inp[q], LineOf(Head(cmds)))
Replied(q) ==
  /\ inp[q] # <<>> /\ inp'[q] = Tail(inp[q]) /\ cmds' = cmds
  /\ q \in conn /\ out'[q] = Append(out[q], Head(inp[q]))
Noisy(q) ==
  /\ q \in conn /\ inp'[q] = inp[q]
  /\ out'[q] = Append(out[q], [kind |-> "boot", n |-> 0, call |-> 0])
Evolves(q) == Less(q) \/ Gives1(q) \/ Replied(q) \/ Noisy(q)

(* What a move does to the queues of each peripheral and to the commands.  *)
LEMMA Evolving ==
  ASSUME EngineTypes, Drifts
  PROVE  /\ \A q \in Periph : Evolves(q)
         /\ cmds' = cmds \/ cmds' = <<>> \/ (cmds # <<>> /\ cmds' = Tail(cmds))
         /\ Up' => Up
         /\ \A q \in conn \ conn' : inp'[q] = <<>> /\ out'[q] = <<>>
         /\ \A n \in served' \ served : \E q \in Periph : out[q] # <<>> /\ Head(out[q]).call = n
<1> USE DEF EngineTypes
<1>1. CASE Quits \/ Idles \/ Answers1
  BY <1>1 DEF Quits, Idles, Answers1, Evolves, Less
<1>2. CASE Exits
  BY <1>2 DEF Exits, Evolves, Less
<1>3. CASE Takes1
  <2> DEFINE c == Head(cmds)
  <2>1. Up /\ Up' /\ cmds # <<>> /\ cmds' = Tail(cmds) /\ Taken(c)
    BY <1>3 DEF Takes1, Taking
  <2> HIDE DEF c
  <2>2. ASSUME NEW q \in Periph PROVE Evolves(q)
    <3>1. CASE inp' = inp /\ out' = out
      BY <3>1 DEF Evolves, Less
    <3>2. CASE Closed({c.periph})
      BY <3>2 DEF Evolves, Less, Closed
    <3>3. CASE /\ c.op = "do" /\ out' = out /\ c.periph \in conn
               /\ inp' = [inp EXCEPT ![c.periph] =
                           Append(inp[c.periph], [kind |-> c.kind, n |-> c.n, call |-> c.call])]
      <4>1. inp'[c.periph] = Append(inp[c.periph], LineOf(c))
        BY <3>3 DEF LineOf
      <4>2. q # c.periph => inp'[q] = inp[q]
        BY <3>3
      <4> QED BY <2>1, <3>3, <4>1, <4>2 DEF Evolves, Less, Gives1, c
    <3> QED BY <2>1, <3>1, <3>2, <3>3 DEF Taken
  <2>3. \A q \in conn \ conn' : inp'[q] = <<>> /\ out'[q] = <<>>
    BY <2>1 DEF Taken, Closed
  <2>4. served' = served
    BY <1>3 DEF Takes1
  <2> QED BY <2>1, <2>2, <2>3, <2>4
<1>4. ASSUME NEW p \in Periph, Reads(p) \/ Loses(p)
      PROVE  /\ \A q \in Periph : Evolves(q)
             /\ cmds' = cmds /\ (Up' => Up)
             /\ \A q \in conn \ conn' : inp'[q] = <<>> /\ out'[q] = <<>>
             /\ \A n \in served' \ served : \E q \in Periph : out[q] # <<>> /\ Head(out[q]).call = n
  <2>1. /\ cmds' = cmds /\ (Up' => Up)
        /\ \A q \in conn \ conn' : inp'[q] = <<>> /\ out'[q] = <<>>
        /\ \A n \in served' \ served : \E q \in Periph : out[q] # <<>> /\ Head(out[q]).call = n
    BY <1>4 DEF Reads, Loses, Closed
  <2> QED BY <1>4, <2>1 DEF Reads, Loses, Closed, Evolves, Less
<1>5. ASSUME NEW p \in Periph, Lives(p)
      PROVE  /\ \A q \in Periph : Evolves(q)
             /\ cmds' = cmds /\ (Up' => Up) /\ conn' = conn /\ served' = served
  <2>1. cmds' = cmds /\ (Up' => Up) /\ p \in conn /\ conn' = conn /\ served' = served
    BY <1>5 DEF Lives, Up
  <2>2. CASE Replies(p)
    BY <2>1, <2>2 DEF Replies, Evolves, Less, Replied
  <2>3. CASE Prints(p)
    BY <2>1, <2>3 DEF Prints, Evolves, Less, Noisy
  <2>4. CASE Dies(p)
    BY <2>1, <2>4 DEF Dies, Evolves, Less
  <2> QED BY <1>5, <2>1, <2>2, <2>3, <2>4 DEF Lives
<1> QED BY <1>1, <1>2, <1>3, <1>4, <1>5 DEF Drifts, Moves, Quits, Exits, Idles, Answers1

Boots == {[periph |-> q, kind |-> "boot", n |-> 0, call |-> 0] : q \in Periph}

(* A message is where a queue says.                                        *)
LEMMA Places ==
  /\ \A m : m \in Queued <=> \E k \in DOMAIN cmds : /\ cmds[k] \in Does
                                                     /\ m = Msg(cmds[k].periph, cmds[k])
  /\ \A q \in Periph : /\ \A m : m \in Inside[q] <=> \E k \in DOMAIN inp[q] : m = Msg(q, inp[q][k])
                       /\ \A m : m \in Outside[q] <=> \E k \in DOMAIN out[q] : m = Msg(q, out[q][k])
<1> QED BY DEF Queued, Inside, Outside
(* The same after the step.                                                *)
LEMMA PlacesNext ==
  /\ \A m : m \in Queued' <=> \E k \in DOMAIN cmds' : /\ cmds'[k] \in Does
                                                       /\ m = Msg(cmds'[k].periph, cmds'[k])
  /\ \A q \in Periph : /\ \A m : m \in Inside'[q] <=> \E k \in DOMAIN inp'[q] : m = Msg(q, inp'[q][k])
                       /\ \A m : m \in Outside'[q] <=> \E k \in DOMAIN out'[q] : m = Msg(q, out'[q][k])
<1> QED BY DEF Queued, Inside, Outside

(* The message that the engine sends when it takes the first command.      *)
FirstOf(m) == /\ cmds # <<>> /\ cmds' = Tail(cmds) /\ cmds[1] \in Does
              /\ 1 \in DOMAIN cmds /\ m = Msg(cmds[1].periph, cmds[1])

(* Messages go from the queue of the engine to the input of a peripheral   *)
(* and from there to its output, or are lost; only spontaneous lines come. *)
LEMMA Flow ==
  ASSUME EngineTypes, Drifts
  PROVE  /\ Queued' \subseteq Queued
         /\ \A q \in Periph :
              /\ \A m \in Inside'[q] : m \in Inside[q] \/ (FirstOf(m) /\ m.periph = q)
              /\ \A m \in Outside'[q] : m \in Outside[q] \cup Inside[q] \cup Boots
<1>1. cmds \in Seq(Commands) /\ \A q \in Periph : inp[q] \in Seq(Line) /\ out[q] \in Seq(Line)
  BY DEF EngineTypes
<1>2. Queued' \subseteq Queued
  <2>1. ASSUME NEW k \in DOMAIN cmds' PROVE \E j \in DOMAIN cmds : cmds[j] = cmds'[k]
    BY <1>1, <2>1, Evolving, TailOf, EmptyOf
  <2> QED BY <2>1, Places, PlacesNext
<1>3. ASSUME NEW q \in Periph, NEW m \in Inside'[q]
      PROVE  m \in Inside[q] \/ (FirstOf(m) /\ m.periph = q)
  <2>1. PICK k \in DOMAIN inp'[q] : m = Msg(q, inp'[q][k])
    BY <1>3, PlacesNext
  <2>2. CASE \E j \in DOMAIN inp[q] : inp'[q][k] = inp[q][j]
    BY <2>1, <2>2, Places
  <2>3. CASE inp'[q] = <<>>
    BY <1>1, <2>1, <2>3, EmptyOf
  <2>4. CASE Gives1(q)
    <3>1. Head(cmds) \in Commands /\ Head(cmds) = cmds[1] /\ 1 \in DOMAIN cmds
      BY <1>1, <2>4, TailOf DEF Gives1
    <3>2. LineOf(Head(cmds)) \in Line
      BY <2>4, <3>1, CommandOf DEF LineOf, Line, Gives1
    <3>3. k = Len(inp[q]) + 1 \/ (k \in DOMAIN inp[q] /\ inp'[q][k] = inp[q][k])
      BY <1>1, <2>1, <2>4, <3>2, AppendOf DEF Gives1
    <3>4. CASE k = Len(inp[q]) + 1
      <4>1. inp'[q][k] = LineOf(Head(cmds))
        BY <1>1, <2>4, <3>2, <3>4, AppendOf DEF Gives1
      <4>2. m = Msg(cmds[1].periph, cmds[1])
        BY <2>1, <2>4, <3>1, <4>1 DEF Gives1, LineOf, Msg
      <4>3. cmds[1] \in Does
        BY <2>4, <3>1 DEF Gives1, Does
      <4> QED BY <2>4, <3>1, <4>2, <4>3 DEF Gives1, Msg, FirstOf
    <3> QED BY <2>2, <3>3, <3>4
  <2>5. CASE Replied(q)
    BY <1>1, <2>1, <2>2, <2>5, TailOf DEF Replied
  <2> QED BY <1>3, <2>1, <2>2, <2>3, <2>4, <2>5, Evolving DEF Evolves, Less, Noisy
<1>4. ASSUME NEW q \in Periph, NEW m \in Outside'[q]
      PROVE  m \in Outside[q] \cup Inside[q] \cup Boots
  <2>1. PICK k \in DOMAIN out'[q] : m = Msg(q, out'[q][k])
    BY <1>4, PlacesNext
  <2>2. CASE \E j \in DOMAIN out[q] : out'[q][k] = out[q][j]
    BY <2>1, <2>2, Places
  <2>3. CASE Less(q)
    <3>1. CASE out'[q] = out[q]
      BY <2>1, <2>2, <3>1
    <3>2. CASE out'[q] = <<>>
      BY <1>1, <2>1, <3>2, EmptyOf
    <3>3. CASE out[q] # <<>> /\ out'[q] = Tail(out[q])
      BY <1>1, <2>1, <2>2, <3>3, TailOf
    <3> QED BY <2>3, <3>1, <3>2, <3>3 DEF Less
  <2>4. CASE Gives1(q)
    BY <2>1, <2>2, <2>4 DEF Gives1
  <2>5. CASE Replied(q)
    <3>1. Head(inp[q]) \in Line /\ Head(inp[q]) = inp[q][1] /\ 1 \in DOMAIN inp[q]
      BY <1>1, <2>5, TailOf DEF Replied
    <3>2. \/ out'[q][k] = Head(inp[q])
          \/ k \in DOMAIN out[q] /\ out'[q][k] = out[q][k]
      BY <1>1, <2>1, <2>5, <3>1, AppendOf DEF Replied
    <3> QED BY <2>1, <2>2, <3>1, <3>2, Places
  <2>6. CASE Noisy(q)
    <3> DEFINE boot == [kind |-> "boot", n |-> 0, call |-> 0]
    <3>1. boot \in Line
      BY DEF Line, Kind
    <3>2. Msg(q, boot) \in Boots
      BY DEF Boots, Msg
    <3>3. out'[q] = Append(out[q], boot)
      BY <2>6 DEF Noisy
    <3> HIDE DEF boot
    <3>4. \/ out'[q][k] = boot
          \/ k \in DOMAIN out[q] /\ out'[q][k] = out[q][k]
      BY <1>1, <2>1, <3>1, <3>3, AppendOf
    <3> QED BY <2>1, <2>2, <3>2, <3>4
  <2> QED BY <1>4, <2>3, <2>4, <2>5, <2>6, Evolving DEF Evolves
<1> QED BY <1>2, <1>3, <1>4

-----------------------------------------------------------------------------
(* A call of command() or sync() goes through its steps one by one.        *)
Rests == UNCHANGED <<script, made, todo, call, job, sync, want, result, owed>>

(* How far the call is depends on the script only.                         *)
LEMMA CallRests ==
  ASSUME UNCHANGED <<todo, job, sync>>
  PROVE  /\ Carrying' = Carrying /\ Token' = Token /\ Wanted' = Wanted /\ Renewing' = Renewing
         /\ Trusted' = Trusted
         /\ ToDefine' = ToDefine /\ ToSend' = ToSend /\ ToWait' = ToWait /\ ToFetch' = ToFetch
         /\ ToDrop' = ToDrop /\ Over' = Over /\ Waited' = Waited
<1>1. Carrying' = Carrying /\ Token' = Token /\ Wanted' = Wanted /\ Renewing' = Renewing
      /\ Trusted' = Trusted
  BY DEF Carrying, Token, Wanted, Renewing, Trusted
<1>2. /\ Defining' = Defining /\ Sending' = Sending /\ Awaiting' = Awaiting
      /\ Fetching' = Fetching /\ Dropping' = Dropping
  BY <1>1 DEF Defining, Sending, Awaiting, Fetching, Dropping, Post, Ask, Define, Send, WaitFor,
              OnTrig, OnTrigs, Raise
<1>3. /\ ToDefine' = ToDefine /\ ToSend' = ToSend /\ ToWait' = ToWait /\ ToFetch' = ToFetch
      /\ ToDrop' = ToDrop /\ Over' = Over
  BY <1>2 DEF ToDefine, ToSend, ToWait, ToFetch, ToDrop, Over
<1> QED BY <1>1, <1>3 DEF Waited

(* A call is at one of its stages at a time, and its first step tells      *)
(* which.                                                                  *)
LEMMA Stages ==
  /\ ToDefine => /\ todo # <<>> /\ Head(todo) = Defining /\ Tail(todo) = <<Sending, Awaiting, Dropping>>
                 /\ ~ Waited /\ ~ ToSend /\ ~ ToWait /\ ~ ToFetch /\ ~ ToDrop /\ ~ Over
  /\ ToSend   => /\ todo # <<>> /\ Head(todo) = Sending /\ Tail(todo) = <<Awaiting, Dropping>>
                 /\ ~ ToDefine /\ ~ ToWait /\ ~ ToFetch /\ ~ ToDrop /\ ~ Over
  /\ ToWait   => /\ todo # <<>> /\ Head(todo) = Awaiting /\ Tail(todo) = <<Dropping>>
                 /\ ~ ToDefine /\ ~ ToSend /\ ~ ToFetch /\ ~ ToDrop /\ ~ Over
  /\ ToFetch  => /\ todo # <<>> /\ Head(todo) = Fetching /\ Tail(todo) = <<Dropping>>
                 /\ ~ ToDefine /\ ~ ToSend /\ ~ ToWait /\ ~ ToDrop /\ ~ Over
  /\ ToDrop   => /\ todo # <<>> /\ Head(todo) = Dropping /\ Tail(todo) = <<>>
                 /\ ~ Waited /\ ~ ToDefine /\ ~ Over
  /\ Over     => todo = <<>> /\ ~ Waited /\ ~ ToDefine /\ ~ ToDrop
<1>1. Awaiting # Fetching
  BY DEF Awaiting, Fetching, Ask
<1>2. Awaiting.then = "info" /\ Fetching.then = "keep"
  BY DEF Awaiting, Fetching, Ask
<1>3. ASSUME NEW a, NEW b, NEW c, NEW d
      PROVE  /\ Head(<<a, b, c, d>>) = a /\ Tail(<<a, b, c, d>>) = <<b, c, d>>
             /\ Head(<<a, b, c>>) = a /\ Tail(<<a, b, c>>) = <<b, c>>
             /\ Head(<<a, b>>) = a /\ Tail(<<a, b>>) = <<b>>
             /\ Head(<<a>>) = a /\ Tail(<<a>>) = <<>>
             /\ Len(<<a, b, c, d>>) = 4 /\ Len(<<a, b, c>>) = 3 /\ Len(<<a, b>>) = 2 /\ Len(<<a>>) = 1
             /\ <<a, b>>[1] = a
  OBVIOUS
<1>4. ASSUME NEW a, NEW b PROVE <<a, b>>[1] = a
  OBVIOUS
<1>5. <<Awaiting, Dropping>> # <<Fetching, Dropping>>
  BY <1>1, <1>4
<1>6. Len(<<>>) = 0 /\ \A q : q = <<>> => Len(q) = 0
  OBVIOUS
<1> HIDE DEF Defining, Sending, Awaiting, Fetching, Dropping
<1>7. /\ ToDefine => Len(todo) = 4 /\ Head(todo) = Defining /\ Tail(todo) = <<Sending, Awaiting, Dropping>>
      /\ ToSend => Len(todo) = 3 /\ Head(todo) = Sending /\ Tail(todo) = <<Awaiting, Dropping>>
      /\ ToWait => Len(todo) = 2 /\ Head(todo) = Awaiting /\ Tail(todo) = <<Dropping>>
      /\ ToFetch => Len(todo) = 2 /\ Head(todo) = Fetching /\ Tail(todo) = <<Dropping>>
      /\ ToDrop => Len(todo) = 1 /\ Head(todo) = Dropping /\ Tail(todo) = <<>>
      /\ Over => Len(todo) = 0
  <2>1. ToDefine => Len(todo) = 4 /\ Head(todo) = Defining /\ Tail(todo) = <<Sending, Awaiting, Dropping>>
    BY <1>3 DEF ToDefine
  <2>2. ToSend => Len(todo) = 3 /\ Head(todo) = Sending /\ Tail(todo) = <<Awaiting, Dropping>>
    BY <1>3 DEF ToSend
  <2>3. ToWait => Len(todo) = 2 /\ Head(todo) = Awaiting /\ Tail(todo) = <<Dropping>>
    BY <1>3 DEF ToWait
  <2>4. ToFetch => Len(todo) = 2 /\ Head(todo) = Fetching /\ Tail(todo) = <<Dropping>>
    BY <1>3 DEF ToFetch
  <2>5. ToDrop => Len(todo) = 1 /\ Head(todo) = Dropping /\ Tail(todo) = <<>>
    BY <1>3 DEF ToDrop
  <2>6. Over => Len(todo) = 0
    BY <1>6 DEF Over
  <2> QED BY <2>1, <2>2, <2>3, <2>4, <2>5, <2>6
<1>8. ~ (ToWait /\ ToFetch)
  BY <1>5 DEF ToWait, ToFetch
<1>9. (todo = <<>> <=> Over) /\ (Over => Len(todo) = 0)
  BY <1>6 DEF Over
<1> QED BY <1>7, <1>8, <1>9 DEF Waited

Apart ==
  /\ ToDefine => ~ Waited /\ ~ ToSend /\ ~ ToWait /\ ~ ToFetch /\ ~ ToDrop /\ ~ Over
  /\ ToSend   => ~ ToDefine /\ ~ ToWait /\ ~ ToFetch /\ ~ ToDrop /\ ~ Over
  /\ ToWait   => ~ ToDefine /\ ~ ToSend /\ ~ ToFetch /\ ~ ToDrop /\ ~ Over
  /\ ToFetch  => ~ ToDefine /\ ~ ToSend /\ ~ ToWait /\ ~ ToDrop /\ ~ Over
  /\ ToDrop   => ~ Waited /\ ~ ToDefine /\ ~ Over
  /\ Over     => ~ Waited /\ ~ ToDefine /\ ~ ToDrop
(* The same after the step.                                                *)
LEMMA StagesNext == Apart'
<1>1. Apart
  BY Stages DEF Apart
<1> QED BY <1>1, PTL

(* What is around the script leaves the stage of its call.                 *)
LEMMA DriftStaged ==
  ASSUME Staged, Rests
  PROVE  Staged'
<1>1. UNCHANGED <<todo, job, sync>>
  BY DEF Rests
<1> QED BY <1>1, CallRests DEF Staged, Rests

(* It leaves what the call has to send.                                    *)
LEMMA DriftSends ==
  ASSUME Sends, Rests
  PROVE  Sends'
<1>1. UNCHANGED <<todo, job, sync>>
  BY DEF Rests
<1> QED BY <1>1, CallRests DEF Sends, Rests

(* The messages after a step of the engine or of a peripheral.             *)
LEMMA Messages ==
  ASSUME EngineTypes, Drifts
  PROVE  /\ \A m \in Flying' : m \in Flying \cup Boots \/ FirstOf(m)
         /\ \A m : FirstOf(m) => m \in Queued
         /\ Msgs' \subseteq Msgs \cup Boots
         /\ \A n \in served' \ served : \E m \in Flying : m.call = n
<1>1. \A m : FirstOf(m) => m \in Queued
  BY Places DEF FirstOf
<1>2. \A m \in Flying' : m \in Flying \cup Boots \/ FirstOf(m)
  BY Flow DEF Flying
<1>3. Msgs' \subseteq Msgs \cup Boots
  BY <1>1, <1>2, Flow DEF Msgs
<1>4. ASSUME NEW n \in served' \ served PROVE \E m \in Flying : m.call = n
  <2>1. PICK q \in Periph : out[q] # <<>> /\ Head(out[q]).call = n
    BY <1>4, Evolving
  <2>2. Head(out[q]) = out[q][1] /\ 1 \in DOMAIN out[q]
    BY <2>1, TailOf DEF EngineTypes
  <2>3. Msg(q, out[q][1]) \in Outside[q] /\ Msg(q, out[q][1]).call = n
    BY <2>1, <2>2, Places DEF Msg
  <2> QED BY <2>3 DEF Flying
<1> QED BY <1>1, <1>2, <1>3, <1>4

(* It brings no message that the script would not account for.             *)
LEMMA DriftKnown ==
  ASSUME IInv, Staged, Known, Drifts, Rests
  PROVE  Known'
<1>1. UNCHANGED <<todo, job, sync>> /\ UNCHANGED <<made, call, owed>>
  BY DEF Rests
<1>2. EngineTypes /\ call \in Nat
  BY DEF IInv, Types, ScriptTypes
<1>3. (Up' => Up) /\ Msgs' \subseteq Msgs \cup Boots
  BY <1>2, Evolving, Messages
<1>4. ASSUME NEW m \in Boots
      PROVE  m.periph \in Periph /\ m.call = 0 /\ m.kind = "boot" /\ m.n = 0
  BY <1>4 DEF Boots
<1>5. Carrying => call # 0
  BY DEF Staged
<1> QED BY <1>1, <1>2, <1>3, <1>4, <1>5, CallRests DEF Known, Commanding

(* The message of the call stays the last one.                             *)
LEMMA DriftLast ==
  ASSUME IInv, Staged, Last, Drifts, Rests
  PROVE  Last'
<1>1. UNCHANGED <<todo, call>>
  BY DEF Rests
<1>2. EngineTypes
  BY DEF IInv, Types
<1>3. cmds \in Seq(Commands) /\ \A q \in Periph : inp[q] \in Seq(Line) /\ out[q] \in Seq(Line)
  BY <1>2 DEF EngineTypes
<1>4. \A m \in Boots : m.call = 0
  BY DEF Boots
<1>5. Unsent'
  <2>1. ASSUME NEW k \in DOMAIN todo, todo[k].cmd \in Does
        PROVE  call \notin served' /\ \A m \in Msgs' : m.call # call
    <3>1. todo # <<>>
      BY <2>1, EmptyOf
    <3>2. call # 0 /\ call \notin served /\ \A m \in Msgs : m.call # call
      BY <2>1, <3>1 DEF Staged, Last, Unsent
    <3>3. \A m \in Msgs' : m.call # call
      BY <1>2, <1>4, <3>2, Messages
    <3>4. call \notin served'
      BY <1>2, <3>2, Messages DEF Msgs
    <3> QED BY <3>3, <3>4
  <2> QED BY <1>1, <2>1 DEF Unsent
<1>6. ASSUME call # 0 PROVE LastSent'
  <2>1. LastSent
    BY <1>6 DEF Last
  <2>2. \A j \in DOMAIN cmds' :
          \/ cmds' = cmds
          \/ cmds # <<>> /\ cmds' = Tail(cmds) /\ j + 1 \in DOMAIN cmds /\ cmds'[j] = cmds[j + 1]
             /\ j \in Nat /\ 1 \in DOMAIN cmds
    BY <1>2, <1>3, Evolving, TailOf, EmptyOf
  <2>3. ASSUME NEW k \in DOMAIN cmds', cmds'[k] \in Does, cmds'[k].call = call
        PROVE  /\ \A j \in DOMAIN cmds' : j > k => cmds'[j] \notin Does
               /\ \A m \in Flying' : m.call # call
    <3>1. CASE cmds' = cmds
      <4>1. \A m : ~ FirstOf(m)
        BY <1>3, <2>3, <3>1, TailOf DEF FirstOf
      <4> QED BY <1>2, <1>4, <1>6, <2>1, <2>3, <3>1, <4>1, Messages DEF LastSent
    <3>2. CASE cmds # <<>> /\ cmds' = Tail(cmds) /\ k \in Nat
      <4>1. /\ k + 1 \in DOMAIN cmds /\ cmds'[k] = cmds[k + 1] /\ 1 \in DOMAIN cmds
            /\ k + 1 > 1
        BY <1>3, <2>3, <3>2, TailOf
      <4>2. /\ \A j \in DOMAIN cmds : j > k + 1 => cmds[j] \notin Does
            /\ \A m \in Flying : m.call # call
        BY <2>1, <2>3, <4>1 DEF LastSent
      <4>3. \A j \in DOMAIN cmds' : j > k => cmds'[j] \notin Does
        <5>1. ASSUME NEW j \in DOMAIN cmds', j > k PROVE cmds'[j] \notin Does
          <6>1. j + 1 \in DOMAIN cmds /\ cmds'[j] = cmds[j + 1] /\ j \in Nat
            BY <1>3, <3>2, <5>1, TailOf
          <6>2. j + 1 > k + 1
            BY <3>2, <5>1, <6>1
          <6> QED BY <4>2, <6>1, <6>2
        <5> QED BY <5>1
      <4>4. \A m : FirstOf(m) => m.call # call
        <5>1. cmds[1] \in Does /\ cmds[1].call = call => cmds[k + 1] \notin Does
          BY <2>1, <4>1 DEF LastSent
        <5> QED BY <2>3, <4>1, <5>1 DEF FirstOf, Msg
      <4> QED BY <1>2, <1>4, <1>6, <4>2, <4>3, <4>4, Messages
    <3> QED BY <2>2, <2>3, <3>1, <3>2
  <2>4. ASSUME NEW q \in Periph, NEW k \in DOMAIN inp'[q], inp'[q][k].call = call
        PROVE  /\ k = Len(inp'[q]) /\ Queued' = {} /\ \A m \in Outside'[q] : m.call # call
    <3>1. CASE \E j \in DOMAIN inp[q] : inp[q][j].call = call
      <4>1. PICK j \in DOMAIN inp[q] : inp[q][j].call = call
        BY <3>1
      <4>2. j = Len(inp[q]) /\ Queued = {} /\ \A m \in Outside[q] : m.call # call
        BY <2>1, <4>1 DEF LastSent
      <4>3. Queued' = {} /\ \A m : ~ FirstOf(m)
        BY <1>2, <4>2, Flow, Messages
      <4>4. \A i \in DOMAIN inp[q] : inp[q][i].call = call => i = Len(inp[q])
        BY <2>1 DEF LastSent
      <4>5. CASE inp'[q] = inp[q]
        <5>1. CASE Noisy(q) \/ Less(q)
          <6>1. \A m \in Outside'[q] : m \in Outside[q] \cup Boots
            <7>1. CASE Less(q)
              <8>1. \A i \in DOMAIN out'[q] : \E l \in DOMAIN out[q] : out'[q][i] = out[q][l]
                <9>1. CASE out[q] # <<>> /\ out'[q] = Tail(out[q])
                  BY <1>3, <9>1, TailOf
                <9> QED BY <1>3, <7>1, <9>1, EmptyOf DEF Less
              <8> QED BY <8>1, Places, PlacesNext
            <7>2. CASE Noisy(q)
              <8> DEFINE boot == [kind |-> "boot", n |-> 0, call |-> 0]
              <8>1. boot \in Line /\ Msg(q, boot) \in Boots
                BY DEF Line, Kind, Boots, Msg
              <8>2. out'[q] = Append(out[q], boot)
                BY <7>2 DEF Noisy
              <8> HIDE DEF boot
              <8>3. \A i \in DOMAIN out'[q] : out'[q][i] = boot
                                              \/ (i \in DOMAIN out[q] /\ out'[q][i] = out[q][i])
                BY <1>3, <8>1, <8>2, AppendOf
              <8> QED BY <8>1, <8>3, Places, PlacesNext
            <7> QED BY <5>1, <7>1, <7>2
          <6> QED BY <1>4, <1>6, <2>4, <4>2, <4>3, <4>4, <4>5, <6>1
        <5>2. CASE Gives1(q) \/ Replied(q)
          <6>1. Len(inp'[q]) # Len(inp[q])
            <7>1. CASE Gives1(q)
              <8>1. Head(cmds) \in Commands /\ Head(cmds).op = "do"
                BY <1>3, <7>1, TailOf DEF Gives1
              <8>2. LineOf(Head(cmds)) \in Line
                BY <8>1, CommandOf DEF LineOf, Line
              <8> QED BY <1>3, <7>1, <8>2, AppendOf DEF Gives1
            <7>2. CASE Replied(q)
              BY <1>3, <7>2, TailOf DEF Replied
            <7> QED BY <5>2, <7>1, <7>2
          <6> QED BY <4>5, <6>1
        <5> QED BY <1>2, <5>1, <5>2, Evolving DEF Evolves
      <4>6. CASE Replied(q)
        <5>1. /\ k + 1 \in DOMAIN inp[q] /\ inp'[q][k] = inp[q][k + 1] /\ k \in Nat \ {0}
              /\ Len(inp'[q]) = Len(inp[q]) - 1 /\ Head(inp[q]) = inp[q][1] /\ 1 \in DOMAIN inp[q]
              /\ Head(inp[q]) \in Line
          BY <1>3, <2>4, <4>6, TailOf DEF Replied
        <5>2. k + 1 = Len(inp[q]) /\ inp[q][1].call # call
          BY <2>4, <4>4, <5>1
        <5>3. \A i \in DOMAIN out'[q] : out'[q][i] = inp[q][1]
                                        \/ (i \in DOMAIN out[q] /\ out'[q][i] = out[q][i])
          BY <1>3, <4>6, <5>1, AppendOf DEF Replied
        <5>4. \A m \in Outside'[q] : m.call = inp[q][1].call \/ m \in Outside[q]
          <6>1. ASSUME NEW m \in Outside'[q] PROVE m.call = inp[q][1].call \/ m \in Outside[q]
            <7>1. PICK i \in DOMAIN out'[q] : m = Msg(q, out'[q][i])
              BY <6>1, PlacesNext
            <7>2. CASE out'[q][i] = inp[q][1]
              BY <7>1, <7>2 DEF Msg
            <7>3. CASE i \in DOMAIN out[q] /\ out'[q][i] = out[q][i]
              BY <7>1, <7>3, Places
            <7> QED BY <5>3, <7>2, <7>3
          <6> QED BY <6>1
        <5> QED BY <1>3, <4>2, <4>3, <5>1, <5>2, <5>4
      <4>7. CASE Gives1(q)
        BY <1>3, <4>3, <4>7, TailOf, PlacesNext DEF Gives1, FirstOf, Does
      <4>8. CASE inp'[q] = <<>>
        BY <2>4, <4>8, EmptyOf
      <4> QED BY <1>2, <4>5, <4>6, <4>7, <4>8, Evolving DEF Evolves, Less, Noisy
    <3>2. CASE \A j \in DOMAIN inp[q] : inp[q][j].call # call
      <4>1. Gives1(q)
        <5>1. CASE Replied(q)
          BY <1>3, <2>4, <3>2, <5>1, TailOf DEF Replied
        <5>2. CASE inp'[q] = <<>>
          BY <2>4, <5>2, EmptyOf
        <5> QED BY <1>2, <2>4, <3>2, <5>1, <5>2, Evolving DEF Evolves, Less, Noisy
      <4>2. /\ Head(cmds) = cmds[1] /\ cmds[1] \in Does /\ 1 \in DOMAIN cmds
            /\ LineOf(cmds[1]) \in Line
        <5>1. Head(cmds) = cmds[1] /\ cmds[1] \in Commands /\ cmds[1].op = "do" /\ 1 \in DOMAIN cmds
          BY <1>3, <4>1, TailOf DEF Gives1
        <5> QED BY <5>1, CommandOf DEF Does, LineOf, Line
      <4>3. k = Len(inp[q]) + 1 /\ Len(inp'[q]) = Len(inp[q]) + 1 /\ inp'[q][k] = LineOf(cmds[1])
        BY <1>3, <2>4, <3>2, <4>1, <4>2, AppendOf DEF Gives1
      <4>4. cmds[1].call = call
        BY <2>4, <4>3 DEF LineOf
      <4>5. /\ \A j \in DOMAIN cmds : j > 1 => cmds[j] \notin Does
            /\ \A m \in Flying : m.call # call
        BY <2>1, <4>2, <4>4 DEF LastSent
      <4>6. Queued' = {}
        <5>1. \A j \in DOMAIN cmds' : cmds'[j] \notin Does
          BY <1>3, <4>1, <4>5, TailOf DEF Gives1
        <5> QED BY <5>1, PlacesNext
      <4>7. \A m \in Outside'[q] : m.call # call
        BY <4>1, <4>5, Places, PlacesNext DEF Flying, Gives1
      <4> QED BY <4>3, <4>6, <4>7
    <3> QED BY <3>1, <3>2
  <2>5. ASSUME NEW q \in Periph, NEW k \in DOMAIN out'[q], out'[q][k].call = call
        PROVE  /\ inp'[q] = <<>> /\ Queued' = {}
               /\ \A j \in DOMAIN out'[q] : j > k => out'[q][j].call = 0
    <3>1. CASE \E j \in DOMAIN out[q] : out[q][j].call = call
      <4>1. inp[q] = <<>> /\ Queued = {}
        BY <2>1, <3>1 DEF LastSent
      <4>2. Queued' = {} /\ \A m : ~ FirstOf(m)
        BY <1>2, <4>1, Flow, Messages
      <4>3. ~ Gives1(q) /\ ~ Replied(q)
        BY <1>3, <4>1, <4>2, TailOf DEF Gives1, Replied, FirstOf, Does
      <4>4. inp'[q] = <<>>
        BY <1>2, <4>1, <4>3, Evolving DEF Evolves, Less, Noisy
      <4>5. CASE Less(q)
        <5>1. CASE out'[q] = out[q]
          BY <2>1, <2>5, <4>2, <4>4, <5>1 DEF LastSent
        <5>2. CASE out[q] # <<>> /\ out'[q] = Tail(out[q])
          <6>1. k + 1 \in DOMAIN out[q] /\ out[q][k + 1].call = call /\ k \in Nat
            BY <1>3, <2>5, <5>2, TailOf
          <6>2. ASSUME NEW j \in DOMAIN out'[q], j > k PROVE out'[q][j].call = 0
            <7>1. j + 1 \in DOMAIN out[q] /\ out'[q][j] = out[q][j + 1] /\ j \in Nat
              BY <1>3, <5>2, <6>2, TailOf
            <7>2. j + 1 > k + 1
              BY <6>1, <6>2, <7>1
            <7> QED BY <2>1, <6>1, <7>1, <7>2 DEF LastSent
          <6> QED BY <4>2, <4>4, <6>2
        <5>3. CASE out'[q] = <<>>
          BY <2>5, <5>3, EmptyOf
        <5> QED BY <4>5, <5>1, <5>2, <5>3 DEF Less
      <4>6. CASE Noisy(q)
        <5> DEFINE boot == [kind |-> "boot", n |-> 0, call |-> 0]
        <5>1. boot \in Line /\ boot.call = 0
          BY DEF Line, Kind
        <5>2. out'[q] = Append(out[q], boot)
          BY <4>6 DEF Noisy
        <5> HIDE DEF boot
        <5>3. \A j \in DOMAIN out'[q] : out'[q][j] = boot
                                        \/ (j \in DOMAIN out[q] /\ out'[q][j] = out[q][j])
          BY <1>3, <5>1, <5>2, AppendOf
        <5>4. k \in DOMAIN out[q] /\ out[q][k].call = call
          BY <1>6, <2>5, <5>1, <5>3
        <5> QED BY <2>1, <4>2, <4>4, <5>1, <5>3, <5>4 DEF LastSent
      <4> QED BY <1>2, <4>3, <4>5, <4>6, Evolving DEF Evolves
    <3>2. CASE \A j \in DOMAIN out[q] : out[q][j].call # call
      <4>1. Replied(q)
        <5>1. CASE Less(q)
          <6>1. CASE out[q] # <<>> /\ out'[q] = Tail(out[q])
            BY <1>3, <2>5, <3>2, <6>1, TailOf
          <6> QED BY <2>5, <3>2, <5>1, <6>1, EmptyOf DEF Less
        <5>2. CASE Noisy(q)
          <6> DEFINE boot == [kind |-> "boot", n |-> 0, call |-> 0]
          <6>1. boot \in Line /\ boot.call = 0
            BY DEF Line, Kind
          <6>2. out'[q] = Append(out[q], boot)
            BY <5>2 DEF Noisy
          <6> HIDE DEF boot
          <6>3. \A j \in DOMAIN out'[q] : out'[q][j] = boot
                                          \/ (j \in DOMAIN out[q] /\ out'[q][j] = out[q][j])
            BY <1>3, <6>1, <6>2, AppendOf
          <6> QED BY <1>6, <2>5, <3>2, <6>1, <6>3
        <5>3. CASE Gives1(q)
          BY <2>5, <3>2, <5>3 DEF Gives1
        <5> QED BY <1>2, <5>1, <5>2, <5>3, Evolving DEF Evolves
      <4>2. /\ Head(inp[q]) = inp[q][1] /\ 1 \in DOMAIN inp[q] /\ inp[q][1] \in Line
            /\ Len(inp'[q]) = Len(inp[q]) - 1 /\ inp'[q] \in Seq(Line)
        BY <1>3, <4>1, TailOf DEF Replied
      <4>3. /\ Len(out[q]) \in Nat /\ DOMAIN out'[q] = 1 .. Len(out[q]) + 1
            /\ out'[q][Len(out[q]) + 1] = inp[q][1]
            /\ \A j \in DOMAIN out[q] : out'[q][j] = out[q][j]
            /\ DOMAIN out[q] = 1 .. Len(out[q])
        BY <1>3, <4>1, <4>2 DEF Replied
      <4>4. k = Len(out[q]) + 1 /\ inp[q][1].call = call
        BY <2>5, <3>2, <4>3
      <4>5. 1 = Len(inp[q]) /\ Queued = {}
        BY <2>1, <4>2, <4>4 DEF LastSent
      <4>6. Len(inp'[q]) = 0
        BY <4>2, <4>5
      <4>7. inp'[q] = <<>>
        BY <4>2, <4>6
      <4>8. Queued' = {}
        BY <1>2, <4>5, Flow
      <4> QED BY <4>3, <4>4, <4>7, <4>8
    <3> QED BY <3>1, <3>2
  <2> QED BY <1>1, <2>3, <2>4, <2>5 DEF LastSent
<1> QED BY <1>1, <1>5, <1>6 DEF Last

(* A peripheral that is closed keeps no message.                           *)
LEMMA DriftCleared ==
  ASSUME IInv, Cleared, Drifts, Rests
  PROVE  Cleared'
<1>1. EngineTypes /\ UNCHANGED <<script, want>>
  BY DEF IInv, Types, Rests
<1>2. cmds \in Seq(Commands) /\ \A q \in Periph : inp[q] \in Seq(Line) /\ out[q] \in Seq(Line)
  BY <1>1 DEF EngineTypes
<1>3. ASSUME NEW q \in Periph \ conn' PROVE inp'[q] = <<>> /\ out'[q] = <<>>
  <2>1. CASE q \in conn
    BY <1>1, <1>3, <2>1, Evolving
  <2>2. CASE q \notin conn
    BY <1>1, <1>3, <2>2, Evolving DEF Evolves, Less, Gives1, Replied, Noisy, Cleared
  <2> QED BY <2>1, <2>2
<1>4. Up' => Up
  BY <1>1, Evolving
<1>5. ASSUME Takes1, Up, NEW c, c = Head(cmds)
      PROVE  /\ replies' # <<>> /\ want.op \in {"periph", "close"} => want.periph \notin conn'
             /\ replies' # <<>> \/ waiting' # None => cmds' = <<>>
  <2>1. cmds # <<>> /\ cmds' = Tail(cmds) /\ Taken(c)
    BY <1>5 DEF Takes1, Taking
  <2>2. replies = <<>> /\ waiting = None
    BY <1>5, <2>1 DEF Cleared
  <2>3. c \in Commands /\ c = cmds[1] /\ 1 \in DOMAIN cmds
    BY <1>2, <1>5, <2>1, TailOf
  <2>4. c.op \in AskOp => cmds' = <<>> /\ c = want
    <3>1. c.op \in AskOp => Len(cmds) = 1 /\ c = want
      BY <1>5, <2>3 DEF IInv, Pending
    <3>2. Len(cmds) = 1 => Tail(cmds) = <<>>
      <4>1. Tail(cmds) \in Seq(Commands) /\ Len(Tail(cmds)) = Len(cmds) - 1
        BY <1>2, <2>1, TailOf
      <4> DEFINE rest == Tail(cmds)
      <4>2. rest \in Seq(Commands) /\ (Len(cmds) = 1 => Len(rest) = 0)
        BY <4>1
      <4> HIDE DEF rest
      <4>3. Len(cmds) = 1 => rest = <<>>
        BY <4>2
      <4> QED BY <4>3 DEF rest
    <3> QED BY <2>1, <3>1, <3>2
  <2>5. c.op \notin AskOp => replies' = replies /\ waiting' = waiting
    BY <2>1 DEF Taken, AskOp
  <2>6. c.op \in {"periph", "close"} => c.periph \notin conn'
    BY <2>1 DEF Taken, Closed
  <2> QED BY <2>2, <2>4, <2>5, <2>6
<1>6. ASSUME Answers1
      PROVE  /\ want.op \in {"periph", "close"} => want.periph \notin conn'
             /\ cmds' = <<>>
  <2>1. Up /\ waiting # None /\ cmds' = cmds
    BY <1>6 DEF Answers1
  <2>2. waiting = want /\ waiting.op = "wait"
    BY <1>1, <2>1 DEF IInv, Pending, EngineTypes
  <2> QED BY <2>1, <2>2 DEF Cleared
<1>7. ASSUME Idles \/ Quits \/ Exits \/ \E q \in Periph : Reads(q) \/ Loses(q) \/ Lives(q), Up'
      PROVE  UNCHANGED <<cmds, replies, waiting>> /\ conn' \subseteq conn
  BY <1>7 DEF Idles, Quits, Exits, Reads, Loses, Lives, Closed
<1> QED BY <1>1, <1>3, <1>4, <1>5, <1>6, <1>7 DEF Cleared, Drifts, Moves

(* An answer stays until the script reads it.                              *)
LEMMA AnswerStays ==
  ASSUME IInv, Cleared, Drifts, replies # <<>>
  PROVE  replies' = replies
<1>1. ASSUME Up PROVE cmds = <<>> /\ waiting = None
  BY <1>1 DEF Cleared, IInv, Pending, Unanswered
<1> QED BY <1>1 DEF Drifts, Moves, Takes1, Taking, Answers1, Quits, Exits, Idles, Reads, Loses, Lives

(* Once clean, the peripheral of the call stays clean.                     *)
LEMMA DriftClean ==
  ASSUME EngineTypes, job.periph \in Periph, Clean, Drifts, UNCHANGED job
  PROVE  Clean'
<1> DEFINE q == job.periph
<1>1. cmds \in Seq(Commands) /\ inp[q] \in Seq(Line) /\ out[q] \in Seq(Line) /\ q \in Periph
  BY DEF EngineTypes
<1>2. Queued' = {} /\ \A m : ~ FirstOf(m)
  BY Flow, Messages DEF Clean
<1>3. ~ Gives1(q) /\ ~ Replied(q)
  BY <1>1, <1>2, TailOf DEF Gives1, Replied, FirstOf, Does, Clean
<1> HIDE DEF q
<1>4. inp[q] = <<>> /\ \A k \in DOMAIN out[q] : out[q][k].call = 0
  BY DEF Clean, q
<1>5. inp'[q] = <<>>
  BY <1>1, <1>3, <1>4, Evolving DEF Evolves, Less, Noisy
<1>6. \A k \in DOMAIN out'[q] : out'[q][k].call = 0
  <2>1. CASE Less(q)
    <3>1. CASE out[q] # <<>> /\ out'[q] = Tail(out[q])
      BY <1>1, <1>4, <3>1, TailOf
    <3> QED BY <1>4, <2>1, <3>1, EmptyOf DEF Less
  <2>2. CASE Noisy(q)
    <3> DEFINE boot == [kind |-> "boot", n |-> 0, call |-> 0]
    <3>1. boot \in Line /\ boot.call = 0
      BY DEF Line, Kind
    <3>2. out'[q] = Append(out[q], boot)
      BY <2>2 DEF Noisy
    <3> HIDE DEF boot
    <3> QED BY <1>1, <1>4, <3>1, <3>2, AppendOf
  <2> QED BY <1>1, <1>3, <2>1, <2>2, Evolving DEF Evolves
<1> QED BY <1>2, <1>5, <1>6 DEF Clean, q

(* While the trigger of the call is defined, only a line that it matches   *)
(* changes it.                                                             *)
Counted(q) ==
  /\ Reads(q) /\ q = job.periph /\ Match(Wanted, Head(out[q]))
  /\ trigs'[Token] # None
  /\ trigs'[Token].src = trigs[Token].src /\ trigs'[Token].pat = trigs[Token].pat
  /\ trigs'[Token].n = trigs[Token].n + 1 /\ trigs'[Token].info = Head(out[q])

(* What a move does to the trigger of the call, once it is defined.        *)
LEMMA TokenSteps ==
  ASSUME IInv, Staged, Order, Ready, Drifts, Up'
  PROVE  /\ Armed /\ trigs[Token] \in Triggers
         /\ \/ /\ trigs'[Token] = trigs[Token]
               /\ \/ served' = served
                  \/ \E q \in Periph : Reads(q) /\ ~ Hit(Token, q, Head(out[q]))
            \/ \E q \in Periph : Counted(q)
<1>1. EngineTypes /\ cmds \in Seq(Commands) /\ Up /\ ~ Undefined /\ Carrying
  BY DEF IInv, Types, EngineTypes, Ready
<1>2. Armed /\ \A k \in DOMAIN cmds : cmds[k] \notin Kills
  BY <1>1 DEF Order, Ready
<1>3. Token \in Trig /\ Token \in Tokens /\ job.periph \in Periph /\ job.periph # None
  BY <1>1, SessionAssumption, EngineAssumption DEF Token, Tokens, Staged
<1>4. trigs[Token] \in Triggers
  BY <1>1, <1>2, <1>3 DEF EngineTypes, Armed
<1>5. ASSUME Takes1, NEW c, c = Head(cmds) PROVE trigs'[Token] = trigs[Token] /\ served' = served
  <2>1. Taken(c) /\ c \in Commands /\ c = cmds[1] /\ 1 \in DOMAIN cmds /\ served' = served
    BY <1>1, <1>5, TailOf DEF Takes1, Taking
  <2>2. c \notin Kills /\ c \notin Defs
    BY <1>1, <1>2, <2>1 DEF Undefined
  <2>3. CASE c.op = "trigdef"
    <3>1. trigs' = [trigs EXCEPT ![c.id] = Fresh(c.src, c.pat)] /\ c.id # Token
      BY <1>3, <2>1, <2>2, <2>3 DEF Taken, Defs
    <3> QED BY <1>1, <1>3, <2>1, <3>1 DEF EngineTypes
  <2>4. CASE c.op # "trigdef"
    BY <2>1, <2>2, <2>4 DEF Taken, Kills
  <2> QED BY <2>3, <2>4
<1>6. ASSUME NEW q \in Periph, Reads(q), Hit(Token, q, Head(out[q])) PROVE Counted(q)
  <2> DEFINE line == Head(out[q])
  <2>1. trigs'[Token] = [trigs[Token] EXCEPT !.n = @ + 1, !.info = line] /\ line \in Line
    BY <1>1, <1>3, <1>6, TailOf DEF Reads, Updated, EngineTypes
  <2>2. [trigs[Token] EXCEPT !.n = @ + 1] \in Triggers
    BY <1>4 DEF Triggers
  <2>3. \A y \in Triggers : [y EXCEPT !.info = line] \in Triggers
    BY <2>1 DEF Triggers
  <2>4. trigs'[Token] \in Triggers /\ trigs'[Token] # None
    BY <2>1, <2>2, <2>3, NoneAssumption
  <2>5. /\ trigs'[Token].src = trigs[Token].src /\ trigs'[Token].pat = trigs[Token].pat
        /\ trigs'[Token].n = trigs[Token].n + 1 /\ trigs'[Token].info = line
    BY <1>4, <2>1 DEF Triggers
  <2>6. q = job.periph /\ Match(Wanted, line)
    BY <1>2, <1>3, <1>6 DEF Hit, Armed
  <2> QED BY <1>6, <2>4, <2>5, <2>6 DEF Counted
<1>7. ASSUME NEW q \in Periph, Reads(q), ~ Hit(Token, q, Head(out[q]))
      PROVE  trigs'[Token] = trigs[Token]
  BY <1>3, <1>7 DEF Reads, Updated
<1>8. ASSUME Idles \/ Quits \/ Exits \/ Answers1 \/ \E q \in Periph : Loses(q) \/ Lives(q)
      PROVE  trigs' = trigs /\ served' = served
  BY <1>8 DEF Idles, Quits, Exits, Answers1, Loses, Lives
<1> QED BY <1>2, <1>4, <1>5, <1>6, <1>7, <1>8 DEF Drifts, Moves

(* The definition that a call sends is executed before what it sends.      *)
LEMMA DriftOrder ==
  ASSUME IInv, Staged, Known, Order, Drifts, Rests
  PROVE  Order'
<1>1. EngineTypes /\ UNCHANGED <<todo, job, sync>> /\ UNCHANGED call
  BY DEF IInv, Types, Rests
<1>2. cmds \in Seq(Commands)
  BY <1>1 DEF EngineTypes
<1>3. Token \in Trig /\ Token \in Tokens
  BY SessionAssumption DEF Token, Tokens
<1> SUFFICES ASSUME Up' PROVE Order'
  BY DEF Order
<1>4. Up
  BY <1>1, Evolving
<1>5. ASSUME NEW k \in DOMAIN cmds', cmds'[k] \in Defs
      PROVE  /\ Carrying /\ (ToSend \/ ToWait)
             /\ cmds'[k].id = Token /\ cmds'[k].src = job.periph /\ cmds'[k].pat = Wanted
             /\ \A j \in DOMAIN cmds' : j > k => cmds'[j] \notin Kills \cup Defs
             /\ \A j \in DOMAIN cmds' : j < k /\ cmds'[j] \in Does => cmds'[j].call # call
             /\ call \notin served' /\ \A m \in Flying' : m.call # call
  <2>1. PICK i \in DOMAIN cmds :
          /\ cmds[i] = cmds'[k]
          /\ \/ cmds' = cmds /\ i = k
             \/ cmds # <<>> /\ cmds' = Tail(cmds) /\ i = k + 1 /\ i > 1
    <3>1. CASE cmds' = cmds
      BY <1>5, <3>1
    <3>2. CASE cmds' = <<>>
      BY <1>5, <3>2, EmptyOf
    <3>3. CASE cmds # <<>> /\ cmds' = Tail(cmds)
      <4>1. k + 1 \in DOMAIN cmds /\ cmds[k + 1] = cmds'[k] /\ k + 1 > 1
        BY <1>2, <1>5, <3>3, TailOf
      <4> QED BY <3>3, <4>1
    <3> QED BY <1>1, <3>1, <3>2, <3>3, Evolving
  <2>2. /\ Carrying /\ (ToSend \/ ToWait)
        /\ cmds[i].id = Token /\ cmds[i].src = job.periph /\ cmds[i].pat = Wanted
        /\ \A j \in DOMAIN cmds : j > i => cmds[j] \notin Kills \cup Defs
        /\ \A j \in DOMAIN cmds : j < i /\ cmds[j] \in Does => cmds[j].call # call
        /\ call \notin served /\ \A m \in Flying : m.call # call
    BY <1>4, <1>5, <2>1 DEF Order
  <2>3. ASSUME NEW j \in DOMAIN cmds'
        PROVE  /\ j > k => cmds'[j] \notin Kills \cup Defs
               /\ j < k /\ cmds'[j] \in Does => cmds'[j].call # call
    <3>1. CASE cmds' = cmds /\ i = k
      BY <2>2, <2>3, <3>1
    <3>2. CASE cmds # <<>> /\ cmds' = Tail(cmds) /\ i = k + 1
      <4>1. j + 1 \in DOMAIN cmds /\ cmds[j + 1] = cmds'[j] /\ j \in Nat /\ k \in Nat
        BY <1>2, <1>5, <2>3, <3>2, TailOf
      <4>2. (j > k => j + 1 > i) /\ (j < k => j + 1 < i)
        BY <3>2, <4>1
      <4> QED BY <2>2, <4>1, <4>2
    <3> QED BY <2>1, <3>1, <3>2
  <2>4. \A m : FirstOf(m) => m.call # call
    <3>1. ASSUME NEW m, FirstOf(m) PROVE m.call # call
      <4>1. cmds[1] \in Does /\ 1 \in DOMAIN cmds /\ m.call = cmds[1].call
        BY <3>1 DEF FirstOf, Msg
      <4>2. i > 1
        <5>1. CASE cmds' = cmds
          BY <1>2, <3>1, <5>1, TailOf DEF FirstOf
        <5> QED BY <2>1, <5>1
      <4> QED BY <2>2, <4>1, <4>2
    <3> QED BY <3>1
  <2>5. call # 0
    BY <2>2 DEF Staged
  <2>6. \A m \in Flying' : m.call # call
    BY <1>1, <2>2, <2>4, <2>5, Messages DEF Boots
  <2>7. call \notin served'
    BY <1>1, <2>2, Messages
  <2> QED BY <2>1, <2>2, <2>3, <2>6, <2>7
<1>6. ASSUME Carrying, Waited, ~ Undefined'
      PROVE  Armed' /\ \A k \in DOMAIN cmds' : cmds'[k] \notin Kills
  <2>1. CASE ~ Undefined
    <3>1. Armed /\ \A k \in DOMAIN cmds : cmds[k] \notin Kills
      BY <1>4, <1>6, <2>1 DEF Order
    <3>2. \A k \in DOMAIN cmds' : cmds'[k] \notin Kills
      <4>1. CASE cmds # <<>> /\ cmds' = Tail(cmds)
        BY <1>2, <3>1, <4>1, TailOf
      <4> QED BY <1>1, <3>1, <4>1, Evolving, EmptyOf
    <3>3. /\ trigs'[Token] # None
          /\ trigs'[Token].src = trigs[Token].src /\ trigs'[Token].pat = trigs[Token].pat
      BY <1>4, <1>6, <2>1, <3>1, TokenSteps DEF Ready, Armed, Counted
    <3> QED BY <1>1, <3>1, <3>2, <3>3, CallRests DEF Armed
  <2>2. CASE Undefined
    <3>1. PICK k \in DOMAIN cmds : cmds[k] \in Defs
      BY <2>2 DEF Undefined
    <3>2. k = 1 /\ cmds # <<>> /\ cmds' = Tail(cmds)
      <4>1. CASE cmds' = <<>>
        <5>1. Takes1
          BY <3>1, <4>1, <1>4, EmptyOf DEF Drifts, Moves, Idles, Quits, Exits, Answers1, Reads, Loses, Lives
        <5>2. cmds' = Tail(cmds) /\ cmds # <<>>
          BY <5>1 DEF Takes1, Taking
        <5>3. k # 1 => k - 1 \in DOMAIN Tail(cmds)
          BY <1>2, <3>1, <5>2, TailOf
        <5> QED BY <4>1, <5>2, <5>3, EmptyOf
      <4>2. CASE cmds' = cmds
        BY <1>6, <3>1, <4>2 DEF Undefined
      <4>3. CASE cmds # <<>> /\ cmds' = Tail(cmds)
        <5>1. k # 1 => k - 1 \in DOMAIN cmds' /\ cmds'[k - 1] = cmds[k]
          BY <1>2, <3>1, <4>3, TailOf
        <5> QED BY <1>6, <3>1, <4>3, <5>1 DEF Undefined
      <4> QED BY <1>1, <4>1, <4>2, <4>3, Evolving
    <3>3. /\ cmds[1].id = Token /\ cmds[1].src = job.periph /\ cmds[1].pat = Wanted
          /\ \A j \in DOMAIN cmds : j > 1 => cmds[j] \notin Kills \cup Defs
      BY <1>4, <3>1, <3>2 DEF Order
    <3>4. \A j \in DOMAIN cmds' : cmds'[j] \notin Kills
      BY <1>2, <3>2, <3>3, TailOf
    <3>5. Takes1
      <4>1. cmds' # cmds
        <5>1. Len(Tail(cmds)) = Len(cmds) - 1 /\ Len(cmds) \in Nat
          BY <1>2, <3>2, TailOf
        <5>2. Len(cmds') = Len(cmds) - 1
          BY <3>2, <5>1
        <5> QED BY <5>1, <5>2
      <4> QED BY <4>1 DEF Drifts, Moves, Idles, Quits, Exits, Answers1, Reads, Loses, Lives
    <3>6. Head(cmds) = cmds[1] /\ cmds[1] \in Commands /\ cmds[1].op = "trigdef"
      BY <1>2, <3>1, <3>2, TailOf DEF Defs
    <3>7. Taken(cmds[1])
      BY <3>5, <3>6 DEF Takes1
    <3>8. trigs' = [trigs EXCEPT ![Token] = Fresh(job.periph, Wanted)]
      BY <3>3, <3>6, <3>7 DEF Taken
    <3>9. trigs'[Token] = Fresh(job.periph, Wanted)
      BY <1>1, <1>3, <3>8 DEF EngineTypes
    <3>10. Fresh(job.periph, Wanted) # None
      BY <3>3, <3>6, CommandOf, FreshOf
    <3> QED BY <1>1, <3>4, <3>9, <3>10, CallRests DEF Armed, Fresh
  <2> QED BY <2>1, <2>2
<1> QED BY <1>1, <1>5, <1>6, CallRests DEF Order

(* A number matches itself, and no smaller one.                            *)
LEMMA PrefixOf ==
  ASSUME NEW n \in Nat, NEW m \in Nat
  PROVE  /\ IsPrefixOf(n, m) => n <= m
         /\ IsPrefixOf(n, n)
<1>1. ASSUME NEW s \in Nat \ {0} PROVE m \div s <= m
  OBVIOUS
<1>2. n \div 1 = n
  OBVIOUS
<1> QED BY <1>1, <1>2, EngineAssumption DEF IsPrefixOf

(* A line that raises the trigger of a call which can be trusted, or which *)
(* answers it, is the answer to that call, and the last one.               *)
LEMMA LineTold ==
  ASSUME IInv, Staged, Known, Last, Owing, Ready, Rests,
         NEW q \in Periph, out[q] # <<>>
  PROVE  /\ q = job.periph /\ Match(Wanted, Head(out[q])) /\ Trusted => Head(out[q]).call = call
         /\ Head(out[q]).call = call => q = job.periph /\ Match(Wanted, Head(out[q]))
         /\ Head(out[q]).call = call /\ Reads(q) => Clean'
         /\ Head(out[q]).call = call => ~ ToSend
<1> DEFINE line == Head(out[q])
           m == Msg(q, line)
<1>1. /\ line \in Line /\ line = out[q][1] /\ 1 \in DOMAIN out[q] /\ out[q] \in Seq(Line)
      /\ \A k \in DOMAIN Tail(out[q]) : k + 1 \in DOMAIN out[q] /\ Tail(out[q])[k] = out[q][k + 1]
                                        /\ k + 1 > 1
  BY TailOf DEF IInv, Types, EngineTypes
<1> HIDE DEF line
<1>2. m \in Msgs /\ m.periph = q /\ m.kind = line.kind /\ m.n = line.n /\ m.call = line.call
  BY <1>1, Places DEF Msgs, Flying, Msg
<1>3. /\ Carrying /\ Up /\ Waited /\ job.periph \in made /\ call # 0
      /\ Renewing = {}
  BY DEF Ready, Staged, Renewing, Carrying
<1> HIDE DEF m
<1>4. ASSUME q = job.periph, Match(Wanted, line), Trusted PROVE line.call = call
  <2>1. line.kind = Wanted.kind /\ IsPrefixOf(Wanted.n, line.n) /\ line.n \in Nat
    BY <1>1, <1>4 DEF Match, Line
  <2>2. CASE job.name = "sync"
    <3>1. sync[q] \in Nat \ {0} /\ Wanted = [kind |-> "echo", n |-> sync[q] - 1]
      BY <1>3, <1>4, <2>2 DEF Wanted, IInv, Types, ScriptTypes, Staged
    <3>2. Wanted.n <= line.n /\ line.kind = "echo" /\ Wanted.n = sync[q] - 1
      BY <2>1, <3>1, PrefixOf
    <3>3. /\ m.n < sync[q]
          /\ m.n = sync[q] - 1 => m.call = call
      BY <1>2, <1>3, <1>4, <2>2, <3>2 DEF Known
    <3> QED BY <1>2, <2>1, <3>1, <3>2, <3>3
  <2>3. CASE Commanding
    <3>1. line.kind = "ans"
      BY <2>1, <2>3 DEF Wanted, Commanding, Ans
    <3>2. q \notin owed
      BY <1>3, <1>4, <2>3 DEF Owing, Trusted, Commanding
    <3> QED BY <1>2, <1>3, <1>4, <2>3, <3>1, <3>2 DEF Known, Commanding
  <2> QED BY <1>3, <2>2, <2>3 DEF Carrying, Commanding
<1>5. ASSUME line.call = call PROVE q = job.periph /\ Match(Wanted, line)
  <2>1. q = job.periph /\ line.kind = Wanted.kind /\ line.n = Wanted.n
    BY <1>2, <1>3, <1>5 DEF Known
  <2>2. IsPrefixOf(line.n, line.n)
    BY <1>1, PrefixOf DEF Line
  <2> QED BY <2>1, <2>2 DEF Match
<1>6. ASSUME line.call = call, Reads(q) PROVE Clean'
  <2>1. LastSent
    BY <1>3 DEF Last
  <2>2. inp[q] = <<>> /\ Queued = {} /\ \A j \in DOMAIN out[q] : j > 1 => out[q][j].call = 0
    BY <1>1, <1>6, <2>1 DEF LastSent
  <2>3. inp'[q] = <<>> /\ out'[q] = Tail(out[q]) /\ cmds' = cmds
    BY <1>6, <2>2 DEF Reads, IInv, Types, EngineTypes
  <2>4. Queued' = {}
    BY <2>2, <2>3, Places, PlacesNext
  <2>5. \A k \in DOMAIN out'[q] : out'[q][k].call = 0
    BY <1>1, <2>2, <2>3
  <2> QED BY <1>5, <1>6, <2>3, <2>4, <2>5 DEF Clean, Rests
<1>7. ASSUME line.call = call, ToSend PROVE FALSE
  <2>1. todo[1] = Sending /\ 1 \in DOMAIN todo
    BY <1>7 DEF ToSend
  <2>2. todo[1] \in Steps
    BY <2>1 DEF IInv, Types, ScriptTypes
  <2>3. todo[1].cmd \in Does
    BY <2>1, <2>2 DEF Does, Steps, Sending, Post, Send
  <2> QED BY <1>2, <1>7, <2>1, <2>3 DEF Last, Unsent
<1> QED BY <1>4, <1>5, <1>6, <1>7 DEF line

(* What the trigger of the call says stays true of the call.               *)
LEMMA DriftTold ==
  ASSUME IInv, Staged, Known, Last, Cleared, Order, Told, Owing, Drifts, Rests
  PROVE  Told'
<1>1. /\ EngineTypes /\ cmds \in Seq(Commands) /\ UNCHANGED <<todo, job, sync>>
      /\ UNCHANGED <<script, call, want>> /\ call \in Nat
  BY DEF IInv, Types, EngineTypes, ScriptTypes, Rests
<1>2. /\ Token' = Token /\ Carrying' = Carrying /\ Waited' = Waited /\ Trusted' = Trusted
      /\ ToSend' = ToSend /\ ToWait' = ToWait /\ ToFetch' = ToFetch
  BY <1>1, CallRests
<1>3. Up' => Up
  BY <1>1, Evolving
<1>4. Clean /\ Carrying => Clean'
  BY <1>1, DriftClean DEF Staged
<1>5. Token \in Trig
  BY SessionAssumption DEF Token
<1>6. ASSUME Ready', Undefined
      PROVE  trigs'[Token].n = 0 /\ served' = served /\ (ToSend \/ ToWait) /\ replies' = replies
             /\ call \notin served
  <2>1. PICK k \in DOMAIN cmds : cmds[k] \in Defs
    BY <1>6 DEF Undefined
  <2>2. /\ cmds[k].id = Token /\ call \notin served /\ (ToSend \/ ToWait)
        /\ cmds[k].op = "trigdef"
    BY <1>3, <1>6, <2>1 DEF Order, Ready, Defs
  <2>3. ~ Undefined' /\ Up'
    BY <1>6 DEF Ready
  <2>4. Takes1
    <3>1. cmds' # cmds
      BY <1>6, <2>3 DEF Undefined
    <3> QED BY <2>3, <3>1 DEF Drifts, Moves, Idles, Quits, Exits, Answers1, Reads, Loses, Lives
  <2>5. cmds # <<>> /\ cmds' = Tail(cmds) /\ Taken(Head(cmds)) /\ served' = served
    BY <2>4 DEF Takes1, Taking
  <2>6. k = 1 /\ Head(cmds) = cmds[1]
    <3>1. k # 1 => k - 1 \in DOMAIN cmds' /\ cmds'[k - 1] = cmds[k]
      BY <1>1, <2>1, <2>5, TailOf
    <3> QED BY <1>1, <2>1, <2>3, <2>5, <3>1, TailOf DEF Undefined
  <2>7. /\ trigs' = [trigs EXCEPT ![Token] = Fresh(cmds[1].src, cmds[1].pat)]
        /\ replies' = replies
    BY <2>2, <2>5, <2>6 DEF Taken
  <2> QED BY <1>1, <1>5, <2>2, <2>5, <2>7 DEF Fresh, EngineTypes
<1>7. ASSUME Ready', ~ Undefined PROVE Ready
  BY <1>2, <1>3, <1>7 DEF Ready
<1>8. ASSUME NEW q \in Periph, Counted(q)
      PROVE  /\ out[q] # <<>> /\ Reads(q) /\ served' = served \cup {Head(out[q]).call}
             /\ replies' = replies
             /\ Ready => trigs[Token].n + 1 # 0
  <2>1. Ready => trigs[Token] \in Triggers
    BY <1>1, <1>5 DEF Ready, Order, Armed, EngineTypes
  <2> QED BY <1>8, <2>1 DEF Counted, Reads, Triggers
<1>9. Ready' /\ Trusted /\ trigs'[Token].n # 0 => trigs'[Token].info.call = call /\ Clean'
  <2> SUFFICES ASSUME Ready', Trusted, trigs'[Token].n # 0
               PROVE  trigs'[Token].info.call = call /\ Clean'
    OBVIOUS
  <2>1. Ready /\ Carrying /\ Up'
    BY <1>6, <1>7, <1>2 DEF Ready
  <2>2. CASE trigs'[Token] = trigs[Token]
    BY <1>4, <2>1, <2>2 DEF Told
  <2>3. ASSUME NEW q \in Periph, Counted(q) PROVE trigs'[Token].info.call = call /\ Clean'
    BY <1>8, <2>1, <2>3, LineTold DEF Counted
  <2> QED BY <2>1, <2>2, <2>3, TokenSteps
<1>10. Ready' /\ Trusted /\ ToSend => trigs'[Token].n = 0
  <2> SUFFICES ASSUME Ready', Trusted, ToSend PROVE trigs'[Token].n = 0
    OBVIOUS
  <2>1. CASE Undefined
    BY <1>6, <2>1
  <2>2. CASE ~ Undefined
    <3>1. Ready /\ Up'
      BY <1>7, <2>2 DEF Ready
    <3>2. ASSUME NEW q \in Periph, Counted(q) PROVE FALSE
      BY <1>8, <3>1, <3>2, LineTold DEF Counted
    <3> QED BY <3>1, <3>2, TokenSteps DEF Told
  <2> QED BY <2>1, <2>2
<1>11. Ready' /\ call \in served' => trigs'[Token].n # 0
  <2> SUFFICES ASSUME Ready', call \in served' PROVE trigs'[Token].n # 0
    OBVIOUS
  <2>1. Ready /\ Up'
    BY <1>6, <1>7 DEF Ready
  <2>2. CASE trigs'[Token] = trigs[Token] /\ served' = served
    BY <2>1, <2>2 DEF Told
  <2>3. ASSUME NEW q \in Periph, Reads(q), ~ Hit(Token, q, Head(out[q])), trigs'[Token] = trigs[Token]
        PROVE  trigs'[Token].n # 0
    <3>1. out[q] # <<>> /\ served' = served \cup {Head(out[q]).call}
      BY <2>3 DEF Reads
    <3>2. Armed
      BY <2>1, TokenSteps
    <3>3. Head(out[q]).call # call
      BY <2>1, <2>3, <3>1, <3>2, LineTold DEF Armed, Hit
    <3> QED BY <2>1, <2>3, <3>1, <3>3 DEF Told
  <2>4. ASSUME NEW q \in Periph, Counted(q) PROVE trigs'[Token].n # 0
    BY <1>8, <2>1, <2>4 DEF Counted
  <2> QED BY <2>1, <2>2, <2>3, <2>4, TokenSteps
<1>12. Ready' /\ ToFetch => trigs'[Token].n # 0
  <2> SUFFICES ASSUME Ready', ToFetch PROVE trigs'[Token].n # 0
    OBVIOUS
  <2>1. ~ ToSend /\ ~ ToWait
    BY Stages
  <2>2. Ready /\ Up'
    BY <1>6, <1>7, <2>1 DEF Ready
  <2>3. ASSUME NEW q \in Periph, Counted(q) PROVE trigs'[Token].n # 0
    BY <1>8, <2>2, <2>3 DEF Counted
  <2> QED BY <2>2, <2>3, TokenSteps DEF Told
<1>13. replies # <<>> => replies' = replies
  BY AnswerStays
<1>14. ASSUME replies = <<>>, replies' # <<>>, ToWait \/ ToFetch
       PROVE  /\ Up /\ ~ Undefined /\ script = "reads"
              /\ ToWait => \E a \in {{}, Raised({{Raise(Token)}})} : Head(replies').val = a /\ trigs' = trigs
              /\ ToFetch => Head(replies').val = trigs[Token].info
  <2> DEFINE c == Head(cmds)
  <2>1. /\ todo # <<>> /\ Head(todo).cmd.op = (IF ToWait THEN "wait" ELSE "info")
        /\ ToWait => Head(todo).cmd = WaitFor({{Raise(Token)}}, job.name # "untimed")
        /\ ToFetch => Head(todo).cmd = OnTrig("info", Token)
    BY <1>14, Stages DEF Awaiting, Fetching, Ask, WaitFor, OnTrig
  <2>2. CASE Answers1
    <3>1. PICK a \in {{}, Raised(waiting.expr)} : replies' = Append(replies, [to |-> waiting, val |-> a])
      BY <2>2 DEF Answers1
    <3>2. waiting = want /\ waiting.op = "wait" /\ script = "reads" /\ cmds = <<>> /\ Up
      BY <1>1, <2>2 DEF IInv, Pending, Unanswered, EngineTypes, Cleared, Answers1
    <3>3. want = [Head(todo).cmd EXCEPT !.call = call] /\ want.op = Head(todo).cmd.op
      BY <3>2 DEF Staged, IInv, Asking
    <3>4. ToWait /\ ~ ToFetch
      BY <1>14, <2>1, <3>2, <3>3, Stages
    <3>5. want.expr = {{Raise(Token)}}
      BY <2>1, <3>3, <3>4 DEF WaitFor
    <3>6. Head(replies').val = a
      BY <1>14, <3>1
    <3> QED BY <2>2, <3>1, <3>2, <3>4, <3>5, <3>6, EmptyOf DEF Answers1, Undefined
  <2>3. CASE Takes1
    <3>1. Up /\ cmds # <<>> /\ Taken(c) /\ c \in Commands /\ c = cmds[1] /\ 1 \in DOMAIN cmds
      BY <1>1, <2>3, TailOf DEF Takes1, Taking
    <3>2. c.op \in AskOp
      BY <1>14, <3>1 DEF Taken, AskOp
    <3>3. c = want /\ script = "reads"
      BY <3>1, <3>2 DEF IInv, Pending, Unanswered
    <3>4. want = [Head(todo).cmd EXCEPT !.call = call] /\ want.op = Head(todo).cmd.op
      BY <3>3 DEF Staged, IInv, Asking
    <3>5. c.op # "wait"
      BY <1>14, <3>1 DEF Taken
    <3>6. ToFetch /\ ~ ToWait /\ ~ ToSend /\ want.op = "info" /\ want.id = Token
      <4>1. ~ ToWait /\ ToFetch
        BY <1>14, <2>1, <3>3, <3>4, <3>5
      <4>2. want = [OnTrig("info", Token) EXCEPT !.call = call]
        BY <2>1, <3>4, <4>1
      <4>3. want.op = "info" /\ want.id = Token
        BY <4>2 DEF OnTrig
      <4> QED BY <4>1, <4>3, Stages
    <3>7. replies' = Append(replies, [to |-> c, val |-> trigs[Token].info])
      BY <3>1, <3>3, <3>6 DEF Taken
    <3>8. Head(replies').val = trigs[Token].info
      BY <1>14, <3>7
    <3>9. ~ Undefined
      BY <3>1, <3>6 DEF Order, Undefined
    <3> QED BY <3>1, <3>3, <3>6, <3>8, <3>9
  <2> QED BY <1>14, <2>2, <2>3 DEF Drifts, Moves, Quits, Exits, Idles, Reads, Loses, Lives
<1>15. Ready' /\ ToWait /\ replies' # <<>> => Head(replies').val = {} \/ trigs'[Token].n # 0
  <2> SUFFICES ASSUME Ready', ToWait, replies' # <<>>
               PROVE  Head(replies').val = {} \/ trigs'[Token].n # 0
    OBVIOUS
  <2>1. CASE replies # <<>>
    <3>1. cmds = <<>> /\ Up'
      BY <1>3, <2>1 DEF Cleared, Ready
    <3>2. Ready
      BY <1>7, <3>1, EmptyOf DEF Undefined
    <3>3. ASSUME NEW q \in Periph, Counted(q) PROVE trigs'[Token].n # 0
      BY <1>8, <3>2, <3>3 DEF Counted
    <3> QED BY <1>13, <2>1, <3>1, <3>2, <3>3, TokenSteps DEF Told
  <2>2. CASE replies = <<>>
    <3>1. PICK a \in {{}, Raised({{Raise(Token)}})} : Head(replies').val = a /\ trigs' = trigs
      BY <1>14, <2>2
    <3>2. a # {} => trigs[Token].n >= 1
      BY DEF Raised, Operands, Reached, Raise
    <3> QED BY <3>1, <3>2
  <2> QED BY <2>1, <2>2
<1>16. Carrying /\ ToFetch /\ Trusted /\ replies' # <<>> => Head(replies').val.call = call /\ Clean'
  <2> SUFFICES ASSUME Carrying, ToFetch, Trusted, replies' # <<>>
               PROVE  Head(replies').val.call = call /\ Clean'
    OBVIOUS
  <2>1. CASE replies # <<>>
    BY <1>4, <1>13, <2>1 DEF Told
  <2>2. CASE replies = <<>>
    <3>1. Up /\ ~ Undefined /\ Head(replies').val = trigs[Token].info
      BY <1>14, <2>2
    <3>2. Ready
      BY <3>1 DEF Ready, Waited
    <3> QED BY <1>4, <3>1, <3>2 DEF Told
  <2> QED BY <2>1, <2>2
<1>17. served' \subseteq 0 .. call
  <2>1. ASSUME NEW n \in served', n \notin served PROVE n \in 0 .. call
    <3>1. PICK m \in Flying : m.call = n
      BY <1>1, <2>1, Messages
    <3> QED BY <3>1 DEF Known, Msgs
  <2> QED BY <2>1 DEF Told
<1> QED BY <1>1, <1>2, <1>9, <1>10, <1>11, <1>12, <1>15, <1>16, <1>17 DEF Told

(* What is around the script keeps the invariant.                          *)
LEMMA DriftKeeps ==
  ASSUME IInv, FInv, Drifts, Rests
  PROVE  FInv'
<1>1. /\ EngineTypes /\ UNCHANGED <<todo, job, sync>> /\ UNCHANGED <<owed, call, result>>
      /\ (Up' => Up) /\ call \in Nat
  BY Evolving DEF IInv, Types, ScriptTypes, Rests
<1>2. /\ Carrying' = Carrying /\ Waited' = Waited /\ ToDefine' = ToDefine
      /\ ToFetch' = ToFetch /\ ToDrop' = ToDrop /\ Over' = Over
  BY <1>1, CallRests
<1>3. Clean /\ Carrying => Clean'
  BY <1>1, DriftClean DEF FInv, Staged
<1>4. Owing'
  BY <1>1, <1>2, <1>3 DEF FInv, Owing, Carrying, Commanding
<1>5. After'
  <2>1. call <= MaxCalls
    BY DEF FInv, After
  <2>2. ASSUME result.job.name = "sync", result.info # None
        PROVE  /\ result.info.call = result.call /\ result.call \in 0 .. call
               /\ \A m \in Queued' \cup Inside'[result.job.periph] : m.call >= result.call
               /\ \A m \in Outside'[result.job.periph] : m.call \in {0} \cup result.call .. call
    <3> DEFINE p == result.job.periph
    <3>1. p \in Periph
      BY <2>2 DEF FInv, Staged
    <3>2. /\ result.info.call = result.call /\ result.call \in 0 .. call
          /\ \A m \in Queued \cup Inside[p] : m.call >= result.call
          /\ \A m \in Outside[p] : m.call \in {0} \cup result.call .. call
      BY <2>2 DEF FInv, After
    <3> HIDE DEF p
    <3>3. \A m \in Inside[p] : m.call \in result.call .. call
      BY <3>1, <3>2 DEF FInv, Known, Msgs, Flying
    <3>4. \A m \in Queued' \cup Inside'[p] : m.call >= result.call
      BY <1>1, <3>1, <3>2, Flow, Messages
    <3>5. \A m \in Outside'[p] : m.call \in {0} \cup result.call .. call
      BY <1>1, <3>1, <3>2, <3>3, Flow DEF Boots
    <3> QED BY <3>2, <3>4, <3>5 DEF p
  <2> QED BY <1>1, <2>1, <2>2 DEF After
<1>6. CommandFresh'
  BY <1>1 DEF FInv, CommandFresh
<1> QED BY <1>4, <1>5, <1>6, DriftStaged, DriftKnown, DriftSends, DriftLast, DriftCleared,
           DriftOrder, DriftTold DEF FInv

-----------------------------------------------------------------------------
(* What the script sends.                                                  *)
LEMMA StagesSay ==
  /\ /\ Defining.then = "post" /\ Defining.cmd.op = "trigdef"
     /\ Defining.cmd.id = Token /\ Defining.cmd.src = job.periph /\ Defining.cmd.pat = Wanted
  /\ /\ Sending.then = "post" /\ Sending.cmd.op = "do" /\ Sending.cmd.periph = job.periph
     /\ Sending.cmd.kind = Wanted.kind /\ Sending.cmd.n = Wanted.n
  /\ Awaiting.then = "info" /\ Awaiting.cmd.op = "wait"
  /\ Fetching.then = "keep" /\ Fetching.cmd.op = "info"
  /\ Dropping.then = "post" /\ Dropping.cmd.op = "undef"
<1> QED BY DEF Defining, Sending, Awaiting, Fetching, Dropping, Post, Ask, Define, Send, WaitFor,
               OnTrig, OnTrigs

(* A command sent keeps its fields, whatever call sends it.                *)
LEMMA LabelOf ==
  ASSUME NEW c \in Commands, NEW k \in Nat, NEW m, m = [c EXCEPT !.call = k]
  PROVE  /\ m \in Commands /\ m.op = c.op /\ m.call = k
         /\ m \in Does <=> c \in Does
         /\ m \in Does => m.periph = c.periph /\ m.kind = c.kind /\ m.n = c.n
         /\ m \in Defs <=> c \in Defs
         /\ m \in Defs => m.id = c.id /\ m.src = c.src /\ m.pat = c.pat
         /\ m \in Kills <=> c \in Kills
<1>1. m \in Commands /\ m.op = c.op
  BY CommandOf
<1>2. /\ m.call = k
      /\ c.op = "do" => m.periph = c.periph /\ m.kind = c.kind /\ m.n = c.n
      /\ c.op = "trigdef" => m.pat = c.pat /\ m.src = c.src /\ m.id = c.id
  BY DEF Commands
<1> QED BY <1>1, <1>2 DEF Does, Defs, Kills

(* A command goes to the end of the queue.                                 *)
Sends1(m) ==
  /\ script = "runs" /\ todo # <<>> /\ cmds' = Append(cmds, m)
  /\ m = [Head(todo).cmd EXCEPT !.call = call]
  /\ UNCHANGED <<epc, replies, conn, out, inp, trigs, waiting, served>>
  /\ UNCHANGED <<made, call, job, sync, result, owed>>

(* What the call waits for is a regular expression the library compiles.   *)
LEMMA WantedOf ==
  ASSUME IInv, Staged, Carrying
  PROVE  Wanted \in Pattern /\ Wanted # None
<1>1. CASE job.name = "sync"
  <2>1. sync[job.periph] \in Nat /\ sync[job.periph] # 0
    BY <1>1 DEF IInv, Types, ScriptTypes, Staged
  <2>2. Wanted = [kind |-> "echo", n |-> sync[job.periph] - 1] /\ sync[job.periph] - 1 \in Nat
    BY <1>1, <2>1 DEF Wanted
  <2> QED BY <2>2, NoneAssumption DEF Pattern, Kind
<1>2. CASE job.name # "sync"
  BY <1>2, PatternsOf, NoneAssumption DEF Wanted
<1> QED BY <1>1, <1>2

(* What sending a command changes.                                         *)
LEMMA SentOf ==
  ASSUME IInv, NEW m, Sends1(m)
  PROVE  /\ m \in Commands /\ cmds \in Seq(Commands) /\ Head(todo).cmd \in Commands
         /\ Len(cmds) \in Nat /\ DOMAIN cmds' = 1 .. Len(cmds) + 1 /\ DOMAIN cmds = 1 .. Len(cmds)
         /\ cmds'[Len(cmds) + 1] = m /\ \A k \in DOMAIN cmds : cmds'[k] = cmds[k]
         /\ Inside' = Inside /\ Outside' = Outside /\ Flying' = Flying
         /\ Queued' = IF m \in Does THEN Queued \cup {Msg(m.periph, m)} ELSE Queued
         /\ want = None /\ replies = <<>> /\ Up' = Up
         /\ Up => waiting = None
<1>1. /\ cmds \in Seq(Commands) /\ Head(todo) \in Steps /\ call \in Nat
      /\ \A q \in Periph : inp'[q] = inp[q] /\ out'[q] = out[q]
  BY TailOf DEF IInv, Types, EngineTypes, ScriptTypes, Sends1
<1>2. m \in Commands /\ Head(todo).cmd \in Commands
  BY <1>1, LabelOf DEF Steps, Sends1
<1>3. /\ Len(cmds) \in Nat /\ DOMAIN cmds' = 1 .. Len(cmds) + 1 /\ DOMAIN cmds = 1 .. Len(cmds)
      /\ cmds'[Len(cmds) + 1] = m /\ \A k \in DOMAIN cmds : cmds'[k] = cmds[k]
  BY <1>1, <1>2 DEF Sends1
<1>4. Inside' = Inside /\ Outside' = Outside
  BY <1>1 DEF Inside, Outside, Sends1
<1>5. Flying' = Flying
  BY <1>4 DEF Flying
<1>6. ASSUME NEW x PROVE x \in Queued' <=> x \in Queued \/ (m \in Does /\ x = Msg(m.periph, m))
  <2>1. \A k \in DOMAIN cmds' : k = Len(cmds) + 1 \/ k \in DOMAIN cmds
    BY <1>3
  <2>2. Len(cmds) + 1 \in DOMAIN cmds' /\ \A k \in DOMAIN cmds : k \in DOMAIN cmds'
    BY <1>3
  <2>3. ASSUME x \in Queued' PROVE x \in Queued \/ (m \in Does /\ x = Msg(m.periph, m))
    BY <1>3, <2>1, <2>3, Places, PlacesNext
  <2>4. ASSUME x \in Queued \/ (m \in Does /\ x = Msg(m.periph, m)) PROVE x \in Queued'
    BY <1>3, <2>2, <2>4, Places, PlacesNext
  <2> QED BY <2>3, <2>4
<1>7. want = None /\ replies = <<>> /\ Up' = Up /\ (Up => waiting = None)
  BY DEF Sends1, IInv, Asking, Answered, Pending, Unanswered, Up
<1> QED BY <1>1, <1>2, <1>3, <1>4, <1>5, <1>6, <1>7

(* What sending keeps, be the command answered or not.                     *)
LEMMA SendsKeepSome ==
  ASSUME IInv, FInv, NEW m, Sends1(m), todo' = todo \/ todo' = Tail(todo),
         todo' = todo => m.op \in AskOp, todo' = Tail(todo) => Head(todo).then = "post"
  PROVE  Known' /\ Sends' /\ Last'
<1>1. todo \in Seq(Steps) /\ call \in Nat /\ Head(todo) = todo[1] /\ 1 \in DOMAIN todo
  BY TailOf DEF IInv, Types, ScriptTypes, Sends1
<1>2. \A k \in DOMAIN todo' : \/ k \in DOMAIN todo /\ todo'[k] = todo[k] /\ todo' = todo
                              \/ k + 1 \in DOMAIN todo /\ todo'[k] = todo[k + 1] /\ todo' = Tail(todo)
                                 /\ k \in Nat \ {0}
  <2>1. todo # <<>>
    BY DEF Sends1
  <2>2. ASSUME NEW k \in DOMAIN Tail(todo)
        PROVE  k + 1 \in DOMAIN todo /\ Tail(todo)[k] = todo[k + 1] /\ k \in Nat \ {0}
    <3>1. Tail(todo) \in Seq(Steps)
      BY <1>1, <2>1, TailOf
    <3> QED BY <1>1, <2>1, <2>2, <3>1, TailOf
  <2> QED BY <2>2
<1>3. m \in Does <=> Head(todo).cmd \in Does
  BY <1>1, SentOf, LabelOf DEF Sends1
<1>4. m \in Does => todo' = Tail(todo)
  BY DEF Does, AskOp
<1>5. UNCHANGED <<job, sync, owed, made, call, served>> /\ call # 0
  BY DEF Sends1, FInv, Staged
<1>6. Carrying' = Carrying /\ Wanted' = Wanted
  BY <1>5 DEF Carrying, Wanted
<1>7. Sends'
  <2>1. ASSUME NEW k \in DOMAIN todo', todo'[k].cmd \in Does
        PROVE  \/ Carrying
               \/ todo'[k].cmd.kind = "ans" /\ todo'[k].cmd.periph \in owed \cup (Periph \ made)
    BY <1>2, <2>1 DEF FInv, Sends
  <2>2. ASSUME NEW j \in DOMAIN todo', NEW k \in DOMAIN todo',
               todo'[j].cmd \in Does, todo'[k].cmd \in Does
        PROVE  j = k
    <3>1. CASE todo' = todo
      BY <2>2, <3>1 DEF FInv, Sends
    <3>2. CASE todo' = Tail(todo)
      <4>1. /\ j + 1 \in DOMAIN todo /\ todo'[j] = todo[j + 1] /\ j \in Nat
            /\ k + 1 \in DOMAIN todo /\ todo'[k] = todo[k + 1] /\ k \in Nat
        BY <1>1, <2>2, <3>2, TailOf, EmptyOf DEF Sends1
      <4>2. j + 1 = k + 1
        BY <2>2, <4>1 DEF FInv, Sends
      <4> QED BY <4>1, <4>2
    <3> QED BY <3>1, <3>2
  <2>3. ASSUME NEW k \in DOMAIN todo', todo'[k].cmd \in Defs PROVE Carrying
    BY <1>2, <2>3 DEF FInv, Sends
  <2> QED BY <1>5, <1>6, <2>1, <2>2, <2>3 DEF Sends
<1>8. Renewing' = Renewing
  <2>1. CASE job.name \in {"new", "close"}
    <3>1. Head(todo).then = "ignore"
      BY <2>1 DEF FInv, Staged, Sends1, Ask
    <3> QED BY <1>5, <3>1 DEF Renewing
  <2> QED BY <1>5, <2>1 DEF Renewing
<1>9. Msgs' = IF m \in Does THEN Msgs \cup {Msg(m.periph, m)} ELSE Msgs
  BY SentOf DEF Msgs
<1>10. ASSUME m \in Does
       PROVE  /\ m.periph \in Periph /\ m.call = call /\ m.n \in Nat
              /\ \/ Carrying /\ m.periph = job.periph /\ m.kind = Wanted.kind /\ m.n = Wanted.n
                 \/ ~ Carrying /\ m.kind = "ans" /\ m.periph \in owed \cup (Periph \ made)
  <2>1. /\ m.periph \in Periph /\ m.call = call /\ m.n \in Nat /\ Head(todo).cmd \in Does
        /\ m.periph = Head(todo).cmd.periph /\ m.kind = Head(todo).cmd.kind /\ m.n = Head(todo).cmd.n
        /\ Head(todo).then = "post"
    BY <1>1, <1>3, <1>4, <1>10, SentOf, LabelOf, CommandOf DEF Sends1, Does
  <2>2. CASE Carrying
    <3>1. Head(todo).cmd.op = "do"
      BY <2>1 DEF Does
    <3>2. ~ Over
      BY DEF Over, Sends1
    <3>3. ToSend
      BY <2>1, <2>2, <3>1, <3>2, Stages, StagesSay DEF FInv, Staged, Waited
    <3> QED BY <2>1, <2>2, <3>3, Stages, StagesSay
  <2>3. CASE ~ Carrying
    BY <1>1, <2>1, <2>3 DEF FInv, Sends
  <2> QED BY <2>1, <2>2, <2>3
<1>11. Known'
  <2>1. \A x \in Msgs' : x \in Msgs \/ (m \in Does /\ x = Msg(m.periph, m))
    BY <1>9
  <2>2. Up' = Up
    BY SentOf
  <2> DEFINE Good(x) ==
        /\ x.periph \in Periph
        /\ x.call \in 0 .. call /\ (x.call = 0 => x.kind = "boot")
        /\ Carrying /\ x.call = call =>
             x.periph = job.periph /\ x.kind = Wanted.kind /\ x.n = Wanted.n
        /\ Up /\ x.periph \notin Renewing /\ x.kind = "echo" =>
             /\ x.n < sync[x.periph]
             /\ job.name = "sync" /\ job.periph = x.periph /\ x.n = sync[x.periph] - 1 => x.call = call
        /\ Up /\ x.periph \notin Renewing /\ x.kind = "ans" /\ x.periph \in made \ owed =>
             Commanding /\ job.periph = x.periph /\ x.call = call
  <2>3. \A x \in Msgs : Good(x)
    BY DEF FInv, Known
  <2>4. ASSUME m \in Does, NEW x, x = Msg(m.periph, m) PROVE Good(x)
    <3>1. x.periph = m.periph /\ x.kind = m.kind /\ x.n = m.n /\ x.call = m.call
      BY <2>4 DEF Msg
    <3>2. CASE Carrying /\ job.name = "sync"
      <4>1. Wanted.kind = "echo" /\ Wanted.n = sync[job.periph] - 1 /\ sync[job.periph] \in Nat
            /\ sync[job.periph] # 0
        BY <3>2 DEF Wanted, FInv, Staged, IInv, Types, ScriptTypes
      <4> QED BY <1>1, <1>5, <1>10, <2>4, <3>1, <3>2, <4>1
    <3>3. CASE Carrying /\ job.name # "sync"
      <4>1. Wanted.kind = "ans" /\ Commanding
        BY <3>3 DEF Wanted, Carrying, Commanding, Ans
      <4> QED BY <1>1, <1>5, <1>10, <2>4, <3>1, <3>3, <4>1
    <3>4. CASE ~ Carrying
      BY <1>1, <1>5, <1>10, <2>4, <3>1, <3>4
    <3> QED BY <3>2, <3>3, <3>4
  <2> QED BY <1>5, <1>6, <1>8, <2>1, <2>2, <2>3, <2>4 DEF Known, Commanding
<1>12. Last'
  <2>1. Unsent /\ LastSent
    BY <1>5 DEF FInv, Last
  <2>2. m \in Does => call \notin served /\ \A x \in Msgs : x.call # call
    BY <1>1, <1>3, <2>1 DEF Unsent
  <2>3. Unsent'
    <3>1. ASSUME NEW k \in DOMAIN todo', todo'[k].cmd \in Does
          PROVE  call \notin served /\ \A x \in Msgs' : x.call # call
      <4>1. PICK j \in DOMAIN todo : todo'[k] = todo[j] /\ (todo' = todo \/ j # 1)
        BY <1>2, <3>1
      <4>2. call \notin served /\ \A x \in Msgs : x.call # call
        BY <2>1, <3>1, <4>1 DEF Unsent
      <4>3. m \notin Does
        BY <1>1, <1>3, <1>4, <3>1, <4>1 DEF FInv, Sends
      <4> QED BY <1>9, <4>2, <4>3
    <3> QED BY <1>5, <3>1 DEF Unsent
  <2>4. /\ DOMAIN cmds' = 1 .. Len(cmds) + 1 /\ DOMAIN cmds = 1 .. Len(cmds) /\ Len(cmds) \in Nat
        /\ cmds'[Len(cmds) + 1] = m /\ \A k \in DOMAIN cmds : cmds'[k] = cmds[k]
        /\ Flying' = Flying /\ Outside' = Outside
    BY SentOf
  <2>5. ASSUME NEW k \in DOMAIN cmds', cmds'[k] \in Does, cmds'[k].call = call
        PROVE  /\ \A j \in DOMAIN cmds' : j > k => cmds'[j] \notin Does
               /\ \A x \in Flying' : x.call # call
    <3>1. CASE k = Len(cmds) + 1
      BY <2>2, <2>4, <2>5, <3>1 DEF Msgs
    <3>2. CASE k \in DOMAIN cmds
      <4>1. m \notin Does
        <5>1. Msg(cmds[k].periph, cmds[k]) \in Msgs /\ Msg(cmds[k].periph, cmds[k]).call = call
          BY <2>4, <2>5, <3>2, Places DEF Msg, Msgs
        <5> QED BY <2>2, <5>1
      <4> QED BY <2>1, <2>4, <2>5, <3>2, <4>1 DEF LastSent
    <3> QED BY <2>4, <2>5, <3>1, <3>2
  <2>6. ASSUME NEW q \in Periph, NEW k \in DOMAIN inp[q], inp[q][k].call = call
        PROVE  /\ k = Len(inp[q]) /\ Queued' = {} /\ \A x \in Outside[q] : x.call # call
    <3>1. Msg(q, inp[q][k]) \in Msgs /\ Msg(q, inp[q][k]).call = call
      BY <2>6, Places DEF Msg, Msgs, Flying
    <3>2. m \notin Does
      BY <2>2, <3>1
    <3> QED BY <2>1, <2>6, <3>2, SentOf DEF LastSent
  <2>7. ASSUME NEW q \in Periph, NEW k \in DOMAIN out[q], out[q][k].call = call
        PROVE  /\ inp[q] = <<>> /\ Queued' = {}
               /\ \A j \in DOMAIN out[q] : j > k => out[q][j].call = 0
    <3>1. Msg(q, out[q][k]) \in Msgs /\ Msg(q, out[q][k]).call = call
      BY <2>7, Places DEF Msg, Msgs, Flying
    <3>2. m \notin Does
      BY <2>2, <3>1
    <3> QED BY <2>1, <2>7, <3>2, SentOf DEF LastSent
  <2>8. inp' = inp /\ out' = out
    BY DEF Sends1
  <2>9. LastSent'
    BY <1>5, <2>4, <2>5, <2>6, <2>7, <2>8 DEF LastSent
  <2> QED BY <2>3, <2>9 DEF Last
<1> QED BY <1>7, <1>11, <1>12

(* A command that is not answered keeps the invariant.                     *)
LEMMA PostKeeps ==
  ASSUME IInv, FInv, ScriptPost
  PROVE  FInv'
<1> DEFINE m == [Head(todo).cmd EXCEPT !.call = call]
<1>1. /\ Sends1(m) /\ todo' = Tail(todo) /\ Head(todo).then = "post" /\ todo # <<>>
      /\ UNCHANGED <<script, want>>
  BY DEF ScriptPost, Sent, Sends1, linkVars, waitVars
<1>2. m.op = Head(todo).cmd.op /\ (m \in Does <=> Head(todo).cmd \in Does)
      /\ (m \in Defs <=> Head(todo).cmd \in Defs)
      /\ (m \in Defs => m.id = Head(todo).cmd.id /\ m.src = Head(todo).cmd.src
                         /\ m.pat = Head(todo).cmd.pat)
      /\ (m \in Kills <=> Head(todo).cmd \in Kills)
  <2>1. Head(todo).cmd \in Commands /\ call \in Nat
    BY <1>1, SentOf DEF IInv, Types, ScriptTypes
  <2> QED BY <2>1, LabelOf
<1> HIDE DEF m
<1>3. /\ m \in Commands /\ Len(cmds) \in Nat
      /\ DOMAIN cmds' = 1 .. Len(cmds) + 1 /\ DOMAIN cmds = 1 .. Len(cmds)
      /\ cmds'[Len(cmds) + 1] = m /\ \A k \in DOMAIN cmds : cmds'[k] = cmds[k]
      /\ Inside' = Inside /\ Outside' = Outside /\ Flying' = Flying
      /\ Queued' = (IF m \in Does THEN Queued \cup {Msg(m.periph, m)} ELSE Queued)
      /\ replies = <<>> /\ Up' = Up /\ (Up => waiting = None) /\ want = None
  BY <1>1, SentOf
<1>4. Known' /\ Sends' /\ Last'
  BY <1>1, <1>2, SendsKeepSome DEF AskOp, IInv, Types, ScriptTypes
<1>5. /\ UNCHANGED <<job, sync, owed, made, call, served, result, trigs, replies, conn, inp, out, epc,
                  waiting>>
      /\ script = "runs" /\ ~ Over
  BY <1>1 DEF Sends1, Over
<1>6. /\ Token' = Token /\ Carrying' = Carrying /\ Wanted' = Wanted /\ Trusted' = Trusted
      /\ Defining' = Defining /\ Sending' = Sending /\ Awaiting' = Awaiting
      /\ Fetching' = Fetching /\ Dropping' = Dropping
  <2>1. Token' = Token /\ Carrying' = Carrying /\ Wanted' = Wanted /\ Trusted' = Trusted
    BY <1>5 DEF Token, Carrying, Wanted, Trusted
  <2> QED BY <1>5, <2>1 DEF Defining, Sending, Awaiting, Fetching, Dropping, Post, Ask, Define, Send,
              WaitFor, OnTrig, OnTrigs, Raise
<1>7. Carrying => \/ /\ ToDefine /\ ToSend' /\ m \in Defs /\ m \notin Kills /\ m \notin Does
                     /\ m.id = Token /\ m.src = job.periph /\ m.pat = Wanted
                  \/ ToSend /\ ToWait' /\ m \in Does /\ m \notin Kills /\ m \notin Defs
                  \/ ToDrop /\ Over' /\ m \in Kills /\ m \notin Does /\ m \notin Defs
  <2> SUFFICES ASSUME Carrying
               PROVE  \/ /\ ToDefine /\ ToSend' /\ m \in Defs /\ m \notin Kills /\ m \notin Does
                         /\ m.id = Token /\ m.src = job.periph /\ m.pat = Wanted
                      \/ ToSend /\ ToWait' /\ m \in Does /\ m \notin Kills /\ m \notin Defs
                      \/ ToDrop /\ Over' /\ m \in Kills /\ m \notin Does /\ m \notin Defs
    OBVIOUS
  <2>1. CASE ToDefine
    <3>1. Head(todo) = Defining /\ todo' = <<Sending, Awaiting, Dropping>>
      BY <1>1, <2>1, Stages
    <3>2. ToSend'
      BY <1>6, <3>1 DEF ToSend
    <3>3. Token \in Tokens
      BY DEF Token, Tokens
    <3>4. /\ m.op = "trigdef" /\ Head(todo).cmd.id = Token /\ Head(todo).cmd.src = job.periph
          /\ Head(todo).cmd.pat = Wanted /\ Head(todo).cmd.op = "trigdef"
      BY <1>2, <3>1, StagesSay
    <3>5. Head(todo).cmd \in Defs
      <4>1. Wanted # None /\ Head(todo).cmd \in Commands
        BY <1>1, SentOf, WantedOf DEF FInv
      <4> QED BY <3>3, <3>4, <4>1 DEF Defs
    <3>6. m \in Defs /\ m.id = Token /\ m.src = job.periph /\ m.pat = Wanted
      BY <1>2, <3>4, <3>5
    <3>7. m \notin Kills /\ m \notin Does
      BY <3>4 DEF Kills, Does
    <3> QED BY <2>1, <3>2, <3>6, <3>7
  <2>2. CASE ToSend
    <3>1. Head(todo) = Sending /\ todo' = <<Awaiting, Dropping>>
      BY <1>1, <2>2, Stages
    <3>2. ToWait'
      BY <1>6, <3>1 DEF ToWait
    <3> QED BY <1>2, <1>3, <2>2, <3>1, <3>2, StagesSay DEF Defs, Kills, Does
  <2>3. CASE ToDrop
    <3>1. Head(todo) = Dropping /\ todo' = <<>>
      BY <1>1, <2>3, Stages
    <3>2. Over'
      BY <1>6, <3>1 DEF Over
    <3> QED BY <1>2, <1>3, <2>3, <3>1, <3>2, StagesSay DEF Defs, Kills, Does
  <2>4. CASE ToWait \/ ToFetch
    BY <1>1, <2>4, Stages, StagesSay
  <2> QED BY <1>5, <2>1, <2>2, <2>3, <2>4 DEF FInv, Staged, Waited
<1>8. job.name \notin {"new", "close"}
  <2>1. CASE job.name \in {"new", "close"}
    BY <1>1, <2>1 DEF FInv, Staged, Ask
  <2> QED BY <2>1
<1>9. Staged'
  BY <1>1, <1>5, <1>6, <1>7, <1>8 DEF FInv, Staged, Waited
<1>10. Cleared'
  BY <1>1, <1>3, <1>5 DEF FInv, Cleared
<1>11. Order'
  <2> SUFFICES ASSUME Up' PROVE Order'
    BY DEF Order
  <2>1. ASSUME NEW k \in DOMAIN cmds', cmds'[k] \in Defs
        PROVE  /\ Carrying /\ (ToSend' \/ ToWait')
               /\ cmds'[k].id = Token /\ cmds'[k].src = job.periph /\ cmds'[k].pat = Wanted
               /\ \A j \in DOMAIN cmds' : j > k => cmds'[j] \notin Kills \cup Defs
               /\ \A j \in DOMAIN cmds' : j < k /\ cmds'[j] \in Does => cmds'[j].call # call
               /\ call \notin served /\ \A x \in Flying' : x.call # call
    <3>1. CASE k = Len(cmds) + 1
      <4>1. Head(todo).cmd \in Defs /\ Head(todo) = todo[1] /\ 1 \in DOMAIN todo
        BY <1>1, <1>2, <1>3, <2>1, <3>1, TailOf DEF IInv, Types, ScriptTypes
      <4>2. Carrying
        BY <4>1 DEF FInv, Sends
      <4>3. ToDefine /\ ToSend' /\ m.id = Token /\ m.src = job.periph /\ m.pat = Wanted
        BY <1>2, <1>7, <4>1, <4>2
      <4>4. 2 \in DOMAIN todo /\ todo[2] = Sending
        BY <4>3 DEF ToDefine
      <4>5. todo[2].cmd \in Does
        BY <4>4, StagesSay DEF Does, IInv, Types, ScriptTypes, Steps
      <4>6. call \notin served /\ \A x \in Msgs : x.call # call
        BY <4>4, <4>5 DEF FInv, Last, Unsent
      <4>7. \A j \in DOMAIN cmds' : j < k /\ cmds'[j] \in Does => cmds'[j].call # call
        <5>1. ASSUME NEW j \in DOMAIN cmds, cmds[j] \in Does PROVE cmds[j].call # call
          <6>1. Msg(cmds[j].periph, cmds[j]) \in Msgs
            BY <5>1, Places DEF Msgs
          <6> QED BY <4>6, <6>1 DEF Msg
        <5> QED BY <1>3, <3>1, <5>1
      <4> QED BY <1>3, <3>1, <4>2, <4>3, <4>6, <4>7 DEF Msgs
    <3>2. CASE k \in DOMAIN cmds
      <4>1. /\ Carrying /\ (ToSend \/ ToWait)
            /\ cmds[k].id = Token /\ cmds[k].src = job.periph /\ cmds[k].pat = Wanted
            /\ \A j \in DOMAIN cmds : j > k => cmds[j] \notin Kills \cup Defs
            /\ \A j \in DOMAIN cmds : j < k /\ cmds[j] \in Does => cmds[j].call # call
            /\ call \notin served /\ \A x \in Flying : x.call # call
        BY <1>3, <2>1, <3>2 DEF FInv, Order
      <4>2. ToWait' /\ m \notin Kills /\ m \notin Defs
        BY <1>7, <4>1, Stages
      <4> QED BY <1>3, <3>2, <4>1, <4>2
    <3> QED BY <1>3, <2>1, <3>1, <3>2
  <2>2. ASSUME Carrying, Waited', ~ Undefined'
        PROVE  Armed /\ \A k \in DOMAIN cmds' : cmds'[k] \notin Kills
    <3>1. m \notin Defs
      BY <1>3, <2>2 DEF Undefined
    <3>2. ~ Over'
      <4>1. todo' # <<>>
        BY <2>2, <1>6 DEF Waited, ToSend, ToWait, ToFetch
      <4> QED BY <4>1 DEF Over
    <3>3. ToSend /\ m \notin Kills
      BY <1>7, <2>2, <3>1, <3>2
    <3>4. ~ Undefined
      BY <1>3, <2>2 DEF Undefined
    <3>5. Armed /\ \A k \in DOMAIN cmds : cmds[k] \notin Kills
      BY <1>3, <2>2, <3>3, <3>4 DEF FInv, Order, Waited
    <3> QED BY <1>3, <3>3, <3>5
  <2>3. Armed' = Armed
    BY <1>5, <1>6 DEF Armed
  <2> QED BY <1>5, <1>6, <2>1, <2>2, <2>3 DEF Order
<1>12. Told'
  <2>1. ASSUME Carrying, Waited' PROVE (ToDefine /\ Undefined') \/ (ToSend /\ ToWait')
    <3>1. ~ Over'
      <4>1. todo' # <<>>
        BY <2>1, <1>6 DEF Waited, ToSend, ToWait, ToFetch
      <4> QED BY <4>1 DEF Over
    <3>2. m \in Defs => Undefined'
      BY <1>3 DEF Undefined
    <3> QED BY <1>7, <2>1, <3>1, <3>2
  <2>2. ASSUME Ready'
        PROVE  /\ ToSend /\ ToWait' /\ Ready
    <3>1. Carrying /\ Waited' /\ ~ Undefined' /\ Up
      BY <1>3, <1>6, <2>2 DEF Ready
    <3>2. ToSend /\ ToWait' /\ ~ Undefined
      BY <1>3, <2>1, <3>1 DEF Undefined
    <3> QED BY <3>1, <3>2 DEF Ready, Waited
  <2>3. ToWait' => ~ ToSend' /\ ~ ToFetch'
    BY StagesNext DEF Apart
  <2>4. Carrying => ~ ToFetch'
    <3>1. ToSend' => ~ ToFetch'
      BY StagesNext DEF Apart
    <3>2. Over' => ~ ToFetch'
      BY StagesNext DEF Apart
    <3> QED BY <1>7, <2>3, <3>1, <3>2
  <2>5. ToSend => call \notin served
    <3>1. ASSUME ToSend PROVE call \notin served
      <4>1. 1 \in DOMAIN todo /\ todo[1] = Sending
        BY <3>1 DEF ToSend
      <4>2. todo[1].cmd \in Does
        BY <4>1, StagesSay DEF Does, IInv, Types, ScriptTypes, Steps
      <4> QED BY <4>1, <4>2 DEF FInv, Last, Unsent
    <3> QED BY <3>1
  <2>6. Ready' /\ Trusted => trigs[Token].n = 0
    BY <2>2 DEF FInv, Told
  <2> QED BY <1>3, <1>5, <1>6, <2>2, <2>3, <2>4, <2>5, <2>6 DEF FInv, Told
<1>13. Owing'
  <2>1. CASE Commanding
    <3>1. Carrying
      BY <2>1 DEF Carrying, Commanding
    <3>2. ToFetch' \/ ToDrop' \/ Over' => ToDrop /\ Over' /\ m \notin Does
      BY <1>7, <3>1, StagesNext DEF Apart, Waited
    <3>3. ToDefine' \/ Waited' => ToDefine \/ Waited
      BY <1>7, <3>1, StagesNext DEF Apart, Waited
    <3>4. m \notin Does /\ Clean => Clean'
      BY <1>3, <1>5 DEF Clean
    <3> QED BY <1>3, <1>5, <3>2, <3>3, <3>4 DEF FInv, Owing, Commanding
  <2>2. CASE ~ Commanding
    BY <1>5, <2>2 DEF Owing, Commanding
  <2> QED BY <2>1, <2>2
<1>14. After'
  <2>1. ASSUME result.job.name = "sync", result.info # None
        PROVE  \A x \in Queued' \cup Inside'[result.job.periph] : x.call >= result.call
    <3>1. result.call \in 0 .. call /\ \A x \in Queued \cup Inside[result.job.periph] : x.call >= result.call
      BY <2>1 DEF FInv, After
    <3>2. m.call = call
      BY <1>1, SentOf, LabelOf DEF Sends1, IInv, Types, ScriptTypes
    <3>3. Msg(m.periph, m).call = call
      BY <3>2 DEF Msg
    <3>4. call >= result.call
      BY <2>1, <3>1 DEF FInv, After
    <3> QED BY <1>3, <3>1, <3>3, <3>4
  <2> QED BY <1>3, <1>5, <2>1 DEF FInv, After
<1>15. CommandFresh'
  BY <1>5 DEF FInv, CommandFresh
<1> QED BY <1>4, <1>9, <1>10, <1>11, <1>12, <1>13, <1>14, <1>15 DEF FInv

(* A request keeps the invariant.                                          *)
LEMMA AskKeeps ==
  ASSUME IInv, FInv, ScriptAsk
  PROVE  FInv'
<1> DEFINE m == [Head(todo).cmd EXCEPT !.call = call]
<1>1. /\ Sends1(m) /\ todo' = todo /\ Head(todo).then # "post" /\ todo # <<>> /\ Sent
      /\ script' = "reads" /\ want' = cmds'[Len(cmds')]
  BY DEF ScriptAsk, Sent, Sends1, linkVars, waitVars
<1>2. m.op = Head(todo).cmd.op /\ m.op \in AskOp
  <2>1. Head(todo) \in Steps /\ Head(todo).cmd \in Commands /\ call \in Nat
    BY <1>1, SentOf, TailOf DEF IInv, Types, ScriptTypes
  <2> QED BY <1>1, <2>1, LabelOf DEF Steps
<1>3. want' = m
  <2>1. Len(cmds') = Len(cmds) + 1 /\ cmds'[Len(cmds) + 1] = m
    BY <1>1, AppendOf, SentOf DEF Sends1
  <2> QED BY <1>1, <2>1
<1> HIDE DEF m
<1>4. /\ m \in Commands /\ Len(cmds) \in Nat /\ m \notin Does \cup Defs \cup Kills
      /\ DOMAIN cmds' = 1 .. Len(cmds) + 1 /\ DOMAIN cmds = 1 .. Len(cmds)
      /\ cmds'[Len(cmds) + 1] = m /\ \A k \in DOMAIN cmds : cmds'[k] = cmds[k]
      /\ Inside' = Inside /\ Outside' = Outside /\ Flying' = Flying /\ Queued' = Queued
      /\ replies = <<>> /\ Up' = Up /\ (Up => waiting = None)
  BY <1>1, <1>2, SentOf DEF Does, Defs, Kills, AskOp
<1>5. Known' /\ Sends' /\ Last'
  <2>1. todo' # Tail(todo)
    <3>1. Len(Tail(todo)) = Len(todo) - 1 /\ Len(todo) \in Nat
      BY <1>1, TailOf DEF IInv, Types, ScriptTypes
    <3>2. Len(todo') = Len(todo)
      BY <1>1
    <3> QED BY <3>1, <3>2
  <2> QED BY <1>1, <1>2, <2>1, SendsKeepSome
<1>6. /\ UNCHANGED <<job, sync, owed, made, call, served, result, trigs, replies, conn, inp, out, epc,
                     waiting, todo>>
  BY <1>1 DEF Sends1
<1>7. /\ Token' = Token /\ Carrying' = Carrying /\ Wanted' = Wanted /\ Trusted' = Trusted
      /\ Waited' = Waited /\ ToDefine' = ToDefine /\ ToSend' = ToSend /\ ToWait' = ToWait
      /\ ToFetch' = ToFetch /\ ToDrop' = ToDrop /\ Over' = Over
  BY <1>6, CallRests
<1>8. Undefined' = Undefined
  BY <1>4 DEF Undefined
<1>9. Staged'
  BY <1>1, <1>3, <1>6, <1>7 DEF FInv, Staged, m
<1>10. Cleared'
  BY <1>4, <1>6 DEF FInv, Cleared
<1>11. Order'
  <2> SUFFICES ASSUME Up' PROVE Order'
    BY DEF Order
  <2>1. ASSUME NEW k \in DOMAIN cmds', cmds'[k] \in Defs
        PROVE  /\ Carrying /\ (ToSend \/ ToWait)
               /\ cmds'[k].id = Token /\ cmds'[k].src = job.periph /\ cmds'[k].pat = Wanted
               /\ \A j \in DOMAIN cmds' : j > k => cmds'[j] \notin Kills \cup Defs
               /\ \A j \in DOMAIN cmds' : j < k /\ cmds'[j] \in Does => cmds'[j].call # call
               /\ call \notin served /\ \A x \in Flying' : x.call # call
    <3>1. k \in DOMAIN cmds
      BY <1>4, <2>1
    <3>2. /\ Carrying /\ (ToSend \/ ToWait)
          /\ cmds[k].id = Token /\ cmds[k].src = job.periph /\ cmds[k].pat = Wanted
          /\ \A j \in DOMAIN cmds : j > k => cmds[j] \notin Kills \cup Defs
          /\ \A j \in DOMAIN cmds : j < k /\ cmds[j] \in Does => cmds[j].call # call
          /\ call \notin served /\ \A x \in Flying : x.call # call
      BY <1>4, <2>1, <3>1 DEF FInv, Order
    <3> QED BY <1>4, <3>1, <3>2
  <2>2. Armed' = Armed
    BY <1>6, <1>7 DEF Armed
  <2>3. ASSUME Carrying, Waited, ~ Undefined
        PROVE  Armed /\ \A k \in DOMAIN cmds' : cmds'[k] \notin Kills
    BY <1>4, <2>3 DEF FInv, Order
  <2> QED BY <1>6, <1>7, <1>8, <2>1, <2>2, <2>3 DEF Order
<1>12. Told'
  <2>1. Ready' = Ready
    BY <1>4, <1>7, <1>8 DEF Ready
  <2>2. Clean' = Clean
    BY <1>4, <1>6 DEF Clean
  <2> QED BY <1>6, <1>7, <2>1, <2>2 DEF FInv, Told
<1>13. Owing'
  <2>1. Clean' = Clean
    BY <1>4, <1>6 DEF Clean
  <2> QED BY <1>4, <1>6, <1>7, <2>1 DEF FInv, Owing, Commanding
<1>14. After'
  BY <1>4, <1>6 DEF FInv, After
<1>15. CommandFresh'
  BY <1>6 DEF FInv, CommandFresh
<1> QED BY <1>5, <1>9, <1>10, <1>11, <1>12, <1>13, <1>14, <1>15 DEF FInv

(* The script takes an answer, or the end of the engine for one.           *)
Gets(a) ==
  /\ script = "reads" /\ replies' = <<>> /\ Returned(Head(todo).then, a)
  /\ \/ Up /\ replies # <<>> /\ a = Head(replies).val
     \/ ~ Up /\ a = (IF Head(todo).then = "keep" THEN None ELSE {})
     \/ ~ Up /\ replies # <<>> /\ a = Head(replies).val

(* What the script does with an answer, or with the end of the engine.     *)
LEMMA GetsSteps ==
  ASSUME IInv, FInv, NEW a, Gets(a)
  PROVE  /\ UNCHANGED <<cmds, conn, inp, out, trigs, waiting, served, epc, made, call, job, sync>>
         /\ script' = "runs" /\ want' = None /\ todo \in Seq(Steps) /\ todo # <<>>
         /\ Head(todo) \in Steps /\ Head(todo).cmd.op \in AskOp
         /\ Tail(todo) \in Seq(Steps)
         /\ \/ todo' = Tail(todo)
            \/ \E x \in Steps : todo' = <<x>> \o Tail(todo) /\ x.cmd.op \in AskOp
         /\ job.name \in {"new", "close"} => todo' = <<>>
         /\ Carrying => \/ ToWait /\ a = {} /\ ToDrop' /\ job.periph \in owed'
                        \/ ToWait /\ a # {} /\ ToFetch' /\ owed' = owed
                        \/ ToFetch /\ ToDrop' /\ owed' = owed
         /\ owed \subseteq owed'
         /\ \/ UNCHANGED result
            \/ result'.info = None /\ result'.job = job
            \/ /\ result' = [job |-> job, call |-> call, info |-> a]
               /\ Carrying => ToFetch
<1>1. /\ UNCHANGED <<cmds, conn, inp, out, trigs, waiting, served, epc, made, call, job, sync>>
      /\ script' = "runs" /\ want' = None
  BY DEF Gets, Returned, linkVars, waitVars, serveVars, caseVars
<1>2. /\ todo \in Seq(Steps) /\ todo # <<>> /\ script = "reads" /\ Head(todo).then # "post"
      /\ want \in Commands /\ want.op = Head(todo).cmd.op
  BY DEF Gets, IInv, Types, ScriptTypes, Asking
<1>3. Head(todo) \in Steps /\ Tail(todo) \in Seq(Steps) /\ Head(todo).cmd.op \in AskOp
  BY <1>2, TailOf DEF Steps
<1>4. PICK next \in Follow(Head(todo).then, a) : todo' = next \o Tail(todo)
  BY DEF Gets, Returned
<1>5. next = <<>> => todo' = Tail(todo)
  BY <1>3, <1>4
<1>6. Head(todo).then = "info" => a = {} \/ a \subseteq {l.id : l \in Operands(want.expr)}
  <2>1. CASE replies # <<>> /\ a = Head(replies).val
    <3>1. Fits(Head(replies), want)
      BY <2>1 DEF IInv, Answered
    <3>2. Head(todo).then = "info" => want.op = "wait"
      BY <1>2, <1>3 DEF Steps
    <3> QED BY <2>1, <3>1, <3>2 DEF Fits
  <2>2. CASE a = (IF Head(todo).then = "keep" THEN None ELSE {})
    BY <2>2
  <2> QED BY <2>1, <2>2 DEF Gets
<1>7. next = <<>> \/ \E x \in Steps : next = <<x>> /\ x.cmd.op \in AskOp
  <2>1. CASE Head(todo).then = "info" /\ a # {}
    <3>1. want.op = "wait" /\ want \in Commands
      BY <1>2, <1>3, <2>1 DEF Steps
    <3>2. want.expr \in SUBSET SUBSET Operand
      BY <3>1, CommandOf
    <3>3. a \subseteq Trig
      BY <1>6, <2>1, <3>2 DEF Operands, Operand
    <3>4. PICK t \in a : next = <<Ask(OnTrig("info", t), "keep")>>
      BY <1>4, <2>1 DEF Follow
    <3>5. Ask(OnTrig("info", t), "keep") \in Steps
      BY <3>3, AskedOf
    <3>6. Ask(OnTrig("info", t), "keep").cmd.op \in AskOp
      BY DEF Ask, OnTrig, AskOp
    <3> QED BY <3>4, <3>5, <3>6
  <2>2. CASE Head(todo).then = "open"
    <3>1. job.periph \in Periph
      BY <1>2, <2>2, TailOf DEF IInv, Types, ScriptTypes
    <3>2. next = <<Ask(OnPeriph("close", job.periph), "ignore")>> \/ next = <<>>
      BY <1>4, <2>2 DEF Follow
    <3>3. Ask(OnPeriph("close", job.periph), "ignore") \in Steps
      BY <3>1, AskedOf
    <3>4. Ask(OnPeriph("close", job.periph), "ignore").cmd.op \in AskOp
      BY DEF Ask, OnPeriph, AskOp
    <3> QED BY <3>2, <3>3, <3>4
  <2>3. CASE ~ (Head(todo).then = "info" /\ a # {}) /\ Head(todo).then # "open"
    BY <1>4, <2>3 DEF Follow
  <2> QED BY <2>1, <2>2, <2>3
<1>8. job.name \in {"new", "close"} => todo' = <<>>
  <2>1. ASSUME job.name \in {"new", "close"} PROVE todo' = <<>>
    <3>1. PICK op \in {"periph", "close"} : todo = <<Ask(OnPeriph(op, job.periph), "ignore")>>
      BY <1>2, <2>1 DEF FInv, Staged
    <3>2. Head(todo) = Ask(OnPeriph(op, job.periph), "ignore") /\ Tail(todo) = <<>>
      BY <3>1
    <3>3. next = <<>>
      BY <1>4, <3>2 DEF Follow, Ask
    <3> QED BY <1>5, <3>2, <3>3
  <2> QED BY <2>1
<1>9. owed' = IF Head(todo).then = "info" /\ a = {} THEN owed \cup {job.periph} ELSE owed
  BY DEF Gets, Returned
<1>10. /\ Token' = Token /\ Carrying' = Carrying
       /\ Awaiting' = Awaiting /\ Fetching' = Fetching /\ Dropping' = Dropping
  BY <1>1 DEF Token, Carrying, Awaiting, Fetching, Dropping, Ask, Post, WaitFor, OnTrig, OnTrigs, Raise
<1>11. Carrying => ToWait \/ ToFetch
  BY <1>2, Stages, StagesSay DEF FInv, Staged, Waited, Over
<1>12. ASSUME Carrying, ToFetch PROVE ToDrop' /\ owed' = owed
  <2>1. Head(todo).then = "keep" /\ Tail(todo) = <<Dropping>>
    BY <1>12, Stages, StagesSay
  <2>2. next = <<>>
    BY <1>4, <2>1 DEF Follow
  <2> QED BY <1>5, <1>9, <1>10, <2>1, <2>2 DEF ToDrop
<1>13. ASSUME Carrying, ToWait
       PROVE  \/ a = {} /\ ToDrop' /\ job.periph \in owed'
              \/ a # {} /\ ToFetch' /\ owed' = owed
  <2>1. Head(todo).then = "info" /\ Tail(todo) = <<Dropping>> /\ Head(todo) = Awaiting
    BY <1>13, Stages, StagesSay
  <2>2. CASE a = {}
    <3>1. next = <<>>
      BY <1>4, <2>1, <2>2 DEF Follow
    <3> QED BY <1>5, <1>9, <1>10, <2>1, <2>2, <3>1 DEF ToDrop
  <2>3. CASE a # {}
    <3>1. want = [Awaiting.cmd EXCEPT !.call = call]
      BY <1>2, <2>1 DEF FInv, Staged
    <3>2. want.expr = {{Raise(Token)}}
      BY <3>1 DEF Awaiting, Ask, WaitFor
    <3>3. a \subseteq {Token}
      BY <1>6, <2>1, <2>3, <3>2 DEF Operands, Raise
    <3>4. PICK t \in a : next = <<Ask(OnTrig("info", t), "keep")>>
      BY <1>4, <2>1, <2>3 DEF Follow
    <3>5. next = <<Fetching>>
      BY <3>3, <3>4 DEF Fetching
    <3>6. todo' = <<Fetching, Dropping>>
      <4>1. ASSUME NEW x, NEW y PROVE <<x>> \o <<y>> = <<x, y>>
        <5>1. <<x>> \in Seq({x, y}) /\ <<y>> \in Seq({x, y}) /\ Len(<<x>>) = 1 /\ Len(<<y>>) = 1
          OBVIOUS
        <5>2. /\ <<x>> \o <<y>> \in Seq({x, y}) /\ Len(<<x>> \o <<y>>) = 2
              /\ (<<x>> \o <<y>>)[1] = x /\ (<<x>> \o <<y>>)[2] = y
          BY <5>1
        <5>3. <<x, y>> \in Seq({x, y}) /\ Len(<<x, y>>) = 2 /\ <<x, y>>[1] = x /\ <<x, y>>[2] = y
          OBVIOUS
        <5>4. ASSUME NEW S, NEW f \in Seq(S), NEW g \in Seq(S), Len(f) = 2, Len(g) = 2,
                     f[1] = g[1], f[2] = g[2]
              PROVE  f = g
          BY <5>4, TwoOf
        <5> QED BY <5>2, <5>3, <5>4
      <4> QED BY <1>4, <2>1, <3>5, <4>1
    <3> QED BY <1>9, <1>10, <2>3, <3>6 DEF ToFetch
  <2> QED BY <2>2, <2>3
<1>14. \/ UNCHANGED result
       \/ result'.info = None /\ result'.job = job
       \/ /\ result' = [job |-> job, call |-> call, info |-> a]
          /\ Carrying => ToFetch
  <2>1. result' = CASE Head(todo).then = "keep" -> [job |-> job, call |-> call, info |-> a]
                    [] Head(todo).then = "info" /\ a = {} -> [job |-> job, call |-> call, info |-> None]
                    [] OTHER -> result
    BY DEF Gets, Returned
  <2>2. ToWait => Head(todo).then = "info"
    BY Stages, StagesSay
  <2> QED BY <1>11, <2>1, <2>2
<1>15. \/ todo' = Tail(todo)
       \/ \E x \in Steps : todo' = <<x>> \o Tail(todo) /\ x.cmd.op \in AskOp
  BY <1>4, <1>5, <1>7
<1> QED BY <1>1, <1>2, <1>3, <1>8, <1>9, <1>11, <1>12, <1>13, <1>14, <1>15

(* An answer keeps the invariant.                                          *)
LEMMA GetsKeeps ==
  ASSUME IInv, FInv, NEW a, Gets(a)
  PROVE  FInv'
<1>1. /\ UNCHANGED <<cmds, conn, inp, out, trigs, waiting, served, epc, made, call, job, sync>>
      /\ script' = "runs" /\ want' = None /\ todo \in Seq(Steps) /\ todo # <<>>
      /\ Tail(todo) \in Seq(Steps) /\ owed \subseteq owed' /\ call \in Nat
      /\ job.name \in {"new", "close"} => todo' = <<>>
      /\ replies' = <<>> /\ script = "reads"
  BY GetsSteps DEF Gets, IInv, Types, ScriptTypes
<1>2. Carrying => \/ ToWait /\ a = {} /\ ToDrop' /\ job.periph \in owed'
                  \/ ToWait /\ a # {} /\ ToFetch' /\ owed' = owed
                  \/ ToFetch /\ ToDrop' /\ owed' = owed
  BY GetsSteps
<1>3. \A k \in DOMAIN todo' :
        \/ todo'[k].cmd.op \in AskOp
        \/ \E j \in DOMAIN todo : j # 1 /\ todo'[k] = todo[j]
  <2>1. \A k \in DOMAIN Tail(todo) : k + 1 \in DOMAIN todo /\ Tail(todo)[k] = todo[k + 1] /\ k + 1 # 1
    BY <1>1, TailOf
  <2>2. CASE todo' = Tail(todo)
    BY <2>1, <2>2
  <2>3. ASSUME NEW x \in Steps, todo' = <<x>> \o Tail(todo), x.cmd.op \in AskOp
        PROVE  \A k \in DOMAIN todo' :
                 \/ todo'[k].cmd.op \in AskOp
                 \/ \E j \in DOMAIN todo : j # 1 /\ todo'[k] = todo[j]
    <3>1. \A k \in DOMAIN todo' : \/ todo'[k] = x
                                  \/ k - 1 \in DOMAIN Tail(todo) /\ todo'[k] = Tail(todo)[k - 1]
      BY <1>1, <2>3, PushOf
    <3> QED BY <2>1, <2>3, <3>1
  <2> QED BY <2>2, <2>3, GetsSteps
<1>4. /\ Inside' = Inside /\ Outside' = Outside /\ Queued' = Queued /\ Flying' = Flying /\ Msgs' = Msgs
      /\ Undefined' = Undefined /\ Up' = Up
  BY <1>1 DEF Inside, Outside, Queued, Flying, Msgs, Undefined, Up
<1>5. /\ Token' = Token /\ Carrying' = Carrying /\ Wanted' = Wanted /\ Trusted' = Trusted
      /\ Armed' = Armed /\ Clean' = Clean
  BY <1>1, <1>4 DEF Token, Carrying, Wanted, Trusted, Armed, Clean
<1>6. Up => /\ replies # <<>> /\ a = Head(replies).val /\ cmds = <<>> /\ waiting = None
  BY DEF Gets, FInv, Cleared, IInv, Pending, Unanswered
<1>7. Staged'
  <2>1. result'.job.name = "sync" => result'.job.periph \in Periph
    <3>1. job.name = "sync" => job.periph \in Periph
      BY DEF FInv, Staged, Carrying
    <3> QED BY <3>1, GetsSteps DEF FInv, Staged
  <2> QED BY <1>1, <1>2, <1>5, <2>1 DEF FInv, Staged, Waited
<1>8. Known'
  <2>1. ASSUME Up PROVE \A m \in Msgs : m.periph \notin Renewing
    <3>1. CASE job.name \in {"new", "close"}
      <4>1. want.op \in {"periph", "close"} /\ want.periph = job.periph
        <5>1. PICK op \in {"periph", "close"} : todo = <<Ask(OnPeriph(op, job.periph), "ignore")>>
          BY <1>1, <3>1 DEF FInv, Staged
        <5>2. want = [OnPeriph(op, job.periph) EXCEPT !.call = call]
          BY <1>1, <5>1 DEF FInv, Staged, Ask
        <5> QED BY <5>2 DEF OnPeriph
      <4>2. job.periph \notin conn
        BY <1>6, <2>1, <4>1 DEF FInv, Cleared
      <4>3. ASSUME NEW m \in Msgs PROVE m.periph # job.periph
        <5>1. m \notin Queued
          BY <1>6, <2>1, Places, EmptyOf
        <5>2. PICK q \in Periph : m \in Inside[q] \cup Outside[q]
          BY <5>1 DEF Msgs, Flying
        <5>3. m.periph = q
          BY <5>2, Places DEF Msg
        <5>4. q \in conn
          <6>1. q \notin conn => inp[q] = <<>> /\ out[q] = <<>>
            BY DEF FInv, Cleared
          <6> QED BY <5>2, <6>1, Places, EmptyOf
        <5> QED BY <4>2, <5>3, <5>4
      <4> QED BY <4>3 DEF Renewing
    <3>2. CASE job.name \notin {"new", "close"}
      BY <3>2 DEF Renewing
    <3> QED BY <3>1, <3>2
  <2> QED BY <1>1, <1>4, <1>5, <2>1 DEF FInv, Known, Commanding
<1>9. Sends'
  <2>1. \A k \in DOMAIN todo' : todo'[k].cmd \in Does \cup Defs =>
          \E j \in DOMAIN todo : todo'[k] = todo[j]
    BY <1>3 DEF Does, Defs, AskOp
  <2>2. ASSUME NEW j \in DOMAIN todo', NEW k \in DOMAIN todo',
               todo'[j].cmd \in Does, todo'[k].cmd \in Does
        PROVE  j = k
    <3>1. \A i \in DOMAIN Tail(todo) : i + 1 \in DOMAIN todo /\ Tail(todo)[i] = todo[i + 1] /\ i \in Nat
      <4>1. Tail(todo) \in Seq(Steps)
        BY <1>1
      <4> QED BY <1>1, <4>1, TailOf
    <3>2. CASE todo' = Tail(todo)
      <4>1. j + 1 = k + 1 /\ j \in Nat /\ k \in Nat
        BY <2>2, <3>1, <3>2 DEF FInv, Sends
      <4> QED BY <4>1
    <3>3. ASSUME NEW x \in Steps, todo' = <<x>> \o Tail(todo), x.cmd.op \in AskOp PROVE j = k
      <4>1. x.cmd \notin Does
        BY <3>3 DEF AskOp, Does
      <4>2. \A i \in DOMAIN todo' : \/ todo'[i] = x
                                    \/ i - 1 \in DOMAIN Tail(todo) /\ todo'[i] = Tail(todo)[i - 1]
        BY <1>1, <3>3, PushOf
      <4>3. /\ j - 1 \in DOMAIN Tail(todo) /\ todo'[j] = Tail(todo)[j - 1]
            /\ k - 1 \in DOMAIN Tail(todo) /\ todo'[k] = Tail(todo)[k - 1]
        BY <2>2, <4>1, <4>2
      <4>4. (j - 1) + 1 = (k - 1) + 1
        BY <2>2, <3>1, <4>3 DEF FInv, Sends
      <4>5. todo' \in Seq(Steps)
        BY <1>1, <3>3, PushOf
      <4>6. j \in Nat /\ k \in Nat
        BY <2>2, <4>5
      <4> QED BY <4>4, <4>6
    <3> QED BY <3>2, <3>3, GetsSteps
  <2>3. ASSUME NEW k \in DOMAIN todo', todo'[k].cmd \in Does
        PROVE  \/ Carrying
               \/ todo'[k].cmd.kind = "ans" /\ todo'[k].cmd.periph \in owed \cup (Periph \ made)
    BY <2>1, <2>3 DEF FInv, Sends
  <2>4. ASSUME NEW k \in DOMAIN todo', todo'[k].cmd \in Defs PROVE Carrying
    BY <2>1, <2>4 DEF FInv, Sends
  <2> QED BY <1>1, <1>5, <2>2, <2>3, <2>4 DEF Sends
<1>10. Last'
  <2>1. Unsent'
    <3>1. \A k \in DOMAIN todo' : todo'[k].cmd \in Does =>
            \E j \in DOMAIN todo : todo'[k] = todo[j]
      BY <1>3 DEF Does, AskOp
    <3> QED BY <1>1, <1>4, <3>1 DEF FInv, Last, Unsent
  <2>2. LastSent => LastSent'
    BY <1>1, <1>4 DEF LastSent
  <2> QED BY <1>1, <2>1, <2>2 DEF FInv, Last
<1>11. Cleared'
  BY <1>1, <1>4, <1>6 DEF FInv, Cleared
<1>12. Order'
  <2> SUFFICES ASSUME Up PROVE Order'
    BY <1>4 DEF Order
  <2>1. cmds' = <<>> /\ ~ Undefined
    BY <1>1, <1>6, EmptyOf DEF Undefined
  <2>2. Carrying /\ Waited' => Armed
    BY <1>2, <2>1, StagesNext DEF FInv, Order, Waited, Apart
  <2> QED BY <1>5, <2>1, <2>2, EmptyOf DEF Order
<1>13. ASSUME Up, Carrying, ToWait, a # {} PROVE trigs[Token].n # 0 /\ Ready
  <2>1. ~ Undefined
    BY <1>6, <1>13, EmptyOf DEF Undefined
  <2>2. Ready
    BY <1>13, <2>1 DEF Ready, Waited
  <2> QED BY <1>6, <1>13, <2>2 DEF FInv, Told
<1>14. Told'
  <2>1. ASSUME Ready' PROVE ToWait /\ a # {} /\ ToFetch' /\ Ready /\ trigs[Token].n # 0
    <3>1. Up /\ Carrying /\ Waited'
      BY <1>4, <1>5, <2>1 DEF Ready
    <3>2. ToWait /\ a # {} /\ ToFetch'
      BY <1>2, <3>1, StagesNext DEF Apart
    <3> QED BY <1>13, <3>1, <3>2
  <2>2. ToFetch' => ~ ToSend' /\ ~ ToWait'
    BY StagesNext DEF Apart
  <2> QED BY <1>1, <1>5, <2>1, <2>2 DEF FInv, Told
<1>15. Owing'
  <2>1. CASE ~ Commanding
    BY <1>1, <2>1 DEF Owing, Commanding
  <2>2. CASE Commanding
    <3>1. Carrying
      BY <2>2 DEF Carrying, Commanding
    <3>2. ToDefine' \/ Waited' => ToWait /\ owed' = owed
      BY <1>2, <3>1, StagesNext DEF Apart, Waited
    <3>3. ASSUME Up, job.periph \notin owed' PROVE Clean
      <4>1. CASE ToFetch
        BY <1>1, <2>2, <3>3, <4>1 DEF FInv, Owing
      <4>2. CASE ToWait /\ a # {}
        <5>1. trigs[Token].n # 0 /\ Ready
          BY <1>13, <3>1, <3>3, <4>2
        <5>2. Trusted
          BY <1>1, <2>2, <3>3 DEF Trusted, FInv, Owing
        <5> QED BY <5>1, <5>2 DEF FInv, Told
      <4> QED BY <1>2, <3>1, <3>3, <4>1, <4>2
    <3>4. ToWait => Waited
      BY DEF Waited
    <3> QED BY <1>1, <1>4, <1>5, <2>2, <3>2, <3>3, <3>4 DEF FInv, Owing
  <2> QED BY <2>1, <2>2
<1>16. ASSUME Carrying, ToFetch, Trusted, a # None
       PROVE  a.call = call /\ Clean
  <2>1. replies # <<>> /\ a = Head(replies).val
    <3>1. Head(todo).then = "keep"
      BY <1>16, Stages, StagesSay
    <3> QED BY <1>16, <3>1 DEF Gets
  <2> QED BY <1>16, <2>1 DEF FInv, Told
<1>17. CommandFresh'
  <2>1. CASE UNCHANGED result
    BY <2>1 DEF FInv, CommandFresh
  <2>2. CASE result'.info = None /\ result'.job = job
    BY <2>2 DEF CommandFresh
  <2>3. CASE result' = [job |-> job, call |-> call, info |-> a] /\ (Carrying => ToFetch)
    BY <1>16, <2>3 DEF CommandFresh, Carrying, Trusted
  <2> QED BY <2>1, <2>2, <2>3, GetsSteps
<1>18. After'
  <2>1. CASE UNCHANGED result
    BY <1>1, <1>4, <2>1 DEF FInv, After
  <2>2. CASE result'.info = None /\ result'.job = job
    BY <1>1, <2>2 DEF FInv, After
  <2>3. CASE result' = [job |-> job, call |-> call, info |-> a] /\ (Carrying => ToFetch)
    <3>1. ASSUME job.name = "sync", a # None
          PROVE  /\ a.call = call /\ job.periph \in Periph
                 /\ \A m \in Queued \cup Inside[job.periph] : m.call >= call
                 /\ \A m \in Outside[job.periph] : m.call \in {0} \cup call .. call
      <4>1. Carrying /\ ToFetch /\ Trusted /\ job.periph \in Periph
        BY <2>3, <3>1 DEF Carrying, Trusted, FInv, Staged
      <4>2. a.call = call /\ Clean
        BY <1>16, <3>1, <4>1
      <4>3. Queued = {} /\ Inside[job.periph] = {}
        BY <4>1, <4>2, Places, EmptyOf DEF Clean
      <4>4. \A m \in Outside[job.periph] : m.call = 0
        <5>1. ASSUME NEW m \in Outside[job.periph] PROVE m.call = 0
          <6>1. PICK k \in DOMAIN out[job.periph] : m = Msg(job.periph, out[job.periph][k])
            BY <4>1, <5>1, Places
          <6> QED BY <4>2, <6>1 DEF Msg, Clean
        <5> QED BY <5>1
      <4> QED BY <4>1, <4>2, <4>3, <4>4
    <3>2. call \in 0 .. call
      BY <1>1
    <3> QED BY <1>1, <1>4, <2>3, <3>1, <3>2 DEF FInv, After
  <2> QED BY <2>1, <2>2, <2>3, GetsSteps
<1> QED BY <1>7, <1>8, <1>9, <1>10, <1>11, <1>12, <1>14, <1>15, <1>17, <1>18 DEF FInv

(* The steps of the script within a call keep the invariant.               *)
LEMMA ScriptKeepsFresh ==
  ASSUME IInv, FInv, Script \/ ScriptStop
  PROVE  FInv'
<1>1. CASE ScriptRead
  <2>1. script = "reads" /\ replies # <<>> /\ replies' = <<>>
    BY <1>1 DEF ScriptRead, IInv, Answered
  <2>2. Gets(Head(replies).val)
    BY <1>1, <2>1 DEF ScriptRead, Gets
  <2> QED BY <2>2, GetsKeeps
<1>2. CASE ScriptEof
  <2>1. script = "reads" /\ replies = <<>> /\ replies' = <<>> /\ ~ Up
    BY <1>2 DEF ScriptEof, Up
  <2>2. Gets(IF Head(todo).then = "keep" THEN None ELSE {})
    BY <1>2, <2>1 DEF ScriptEof, Gets
  <2> QED BY <2>2, GetsKeeps
<1>3. CASE ScriptDies
  <2>1. /\ UNCHANGED <<epc, cmds, conn, out, inp, trigs, waiting, served, made, call, job, sync, result,
                       owed>>
        /\ script' = "dead" /\ todo' = <<>> /\ want' = None /\ replies' = <<>> /\ ~ Up /\ ~ Up'
    BY <1>3 DEF ScriptDies, linkVars, waitVars, serveVars, caseVars, Up
  <2>2. /\ Inside' = Inside /\ Outside' = Outside /\ Queued' = Queued /\ Flying' = Flying /\ Msgs' = Msgs
        /\ Carrying' = Carrying /\ Wanted' = Wanted /\ Token' = Token
    BY <2>1 DEF Inside, Outside, Queued, Flying, Msgs, Carrying, Wanted, Token
  <2>3. Over' /\ ~ Waited' /\ ~ ToDefine' /\ ~ ToFetch' /\ DOMAIN todo' = {}
    <3>1. Over'
      BY <2>1 DEF Over
    <3> QED BY <2>1, <3>1, StagesNext, EmptyOf DEF Apart, Waited
  <2>4. Staged'
    BY <2>1, <2>2, <2>3 DEF FInv, Staged
  <2>5. Known'
    BY <2>1, <2>2 DEF FInv, Known
  <2>6. Sends'
    BY <2>3 DEF Sends
  <2>7. Last'
    <3>1. LastSent => LastSent'
      BY <2>1, <2>2 DEF LastSent
    <3> QED BY <2>1, <2>3, <3>1 DEF FInv, Last, Unsent
  <2>8. Cleared' /\ Order'
    BY <2>1 DEF FInv, Cleared, Order
  <2>9. Told'
    BY <2>1, <2>3 DEF FInv, Told, Ready
  <2>10. Owing' /\ After' /\ CommandFresh'
    BY <2>1, <2>2, <2>3 DEF FInv, Owing, After, CommandFresh, Commanding
  <2> QED BY <2>4, <2>5, <2>6, <2>7, <2>8, <2>9, <2>10 DEF FInv
<1>4. CASE ScriptStop
  <2>1. /\ UNCHANGED <<epc, cmds, conn, out, inp, trigs, waiting, served, made, call, job, sync, result,
                       owed, todo, want, replies>>
        /\ script' = "stopped" /\ script = "runs"
    BY <1>4 DEF ScriptStop, linkVars, waitVars, serveVars, caseVars
  <2>2. /\ Inside' = Inside /\ Outside' = Outside /\ Queued' = Queued /\ Flying' = Flying /\ Msgs' = Msgs
        /\ Undefined' = Undefined /\ Up' = Up
    BY <2>1 DEF Inside, Outside, Queued, Flying, Msgs, Undefined, Up
  <2>3. /\ Carrying' = Carrying /\ Token' = Token /\ Wanted' = Wanted /\ Renewing' = Renewing
        /\ Trusted' = Trusted
        /\ ToDefine' = ToDefine /\ ToSend' = ToSend /\ ToWait' = ToWait /\ ToFetch' = ToFetch
        /\ ToDrop' = ToDrop /\ Over' = Over /\ Waited' = Waited
    BY <2>1, CallRests
  <2>4. Clean' = Clean /\ Armed' = Armed /\ Ready' = Ready
    BY <2>1, <2>2, <2>3 DEF Clean, Armed, Ready
  <2>5. Staged' /\ Known' /\ Sends'
    BY <2>1, <2>2, <2>3 DEF FInv, Staged, Known, Sends, Commanding
  <2>6. Last'
    BY <2>1, <2>2 DEF FInv, Last, Unsent, LastSent
  <2>7. Cleared' /\ Order'
    BY <2>1, <2>2, <2>3, <2>4 DEF FInv, Cleared, Order
  <2>8. Told' /\ Owing'
    BY <2>1, <2>2, <2>3, <2>4 DEF FInv, Told, Owing, Commanding
  <2>9. After' /\ CommandFresh'
    BY <2>1, <2>2 DEF FInv, After, CommandFresh
  <2> QED BY <2>5, <2>6, <2>7, <2>8, <2>9 DEF FInv
<1> QED BY <1>1, <1>2, <1>3, <1>4, PostKeeps, AskKeeps DEF Script

-----------------------------------------------------------------------------
(* A call starts when the one before it is over.                           *)
Begins ==
  /\ script = "runs" /\ todo = <<>> /\ call < MaxCalls /\ call' = call + 1
  /\ UNCHANGED <<engineVars, script, want, result, served>>

(* Interface::new and close, which renew the peripheral.                   *)
BeginsNew(p) ==
  /\ job'.name \in {"new", "close"} /\ job'.periph = p
  /\ \E op \in {"periph", "close"} : todo' = <<Ask(OnPeriph(op, p), "ignore")>>
  /\ made' \subseteq made \cup {p} /\ owed' = owed \ {p}
  /\ \A q \in Periph \ {p} : sync'[q] = sync[q]

(* command and sync.                                                       *)
BeginsCarried(p) ==
  /\ p \in made /\ UNCHANGED <<made, owed>> /\ job'.periph = p
  /\ \/ /\ Commanding' /\ UNCHANGED sync /\ (job'.trusted <=> p \notin owed)
        /\ todo' = CommandSteps(p, "TCMD", Ans, Ans, job'.name # "untimed")
     \/ /\ job'.name = "sync" /\ sync' = [sync EXCEPT ![p] = sync[p] + 1]
        /\ todo' = CommandSteps(p, "TECHO", Echo(sync[p]), Echo(sync[p]), TRUE)

(* The other calls.                                                        *)
BeginsOther ==
  /\ job'.name \notin {"new", "close", "command", "untimed", "sync"} /\ UNCHANGED made
  /\ owed \subseteq owed' /\ \A q \in Periph : sync'[q] \in {sync[q], sync[q] + 1}
  /\ \A k \in DOMAIN todo' : todo'[k].cmd.op = "trigdef" =>
       todo'[k].cmd.id \notin Tokens \/ todo'[k].cmd.pat = None
  /\ \A k \in DOMAIN todo' : todo'[k].cmd.op = "do" =>
       /\ \A j \in DOMAIN todo' : todo'[j].cmd.op = "do" => j = k
       /\ todo'[k].cmd.kind = "ans" /\ todo'[k].cmd.periph \in owed' \cup (Periph \ made)

(* The steps of a short sequence.                                          *)
LEMMA Short ==
  ASSUME NEW a, NEW b, NEW c, NEW d
  PROVE  /\ DOMAIN <<a>> = {1} /\ <<a>>[1] = a
         /\ DOMAIN <<a, b, c, d>> = {1, 2, 3, 4}
         /\ <<a, b, c, d>>[1] = a /\ <<a, b, c, d>>[2] = b
         /\ <<a, b, c, d>>[3] = c /\ <<a, b, c, d>>[4] = d
<1> QED OBVIOUS

(* A call begins in one of these ways.                                     *)
LEMMA BeginOf ==
  ASSUME Types, MakesCall
  PROVE  /\ Begins
         /\ BeginsOther \/ \E p \in Periph : BeginsNew(p) \/ BeginsCarried(p)
<1>1. sync \in [Periph -> Nat] /\ made \subseteq Periph
  BY DEF Types, ScriptTypes
<1>2. ASSUME NEW name, NEW q, NEW steps, Start(name, q, steps)
      PROVE  /\ Begins /\ job'.name = name /\ job'.periph = q /\ todo' = steps
             /\ job'.trusted <=> q \notin owed
  BY <1>2 DEF Start, Begins
<1>3. ASSUME NEW name, NEW q, NEW c, NEW then, Start(name, q, <<[cmd |-> c, then |-> then]>>),
             name \notin {"new", "close", "command", "untimed", "sync"}, Keep,
             c.op = "trigdef" => c.id \notin Tokens,
             c.op = "do" => c.kind = "ans" /\ c.periph \in owed' \cup (Periph \ made)
      PROVE  Begins /\ BeginsOther
  <2>1. Begins /\ job'.name = name /\ todo' = <<[cmd |-> c, then |-> then]>>
    BY <1>2, <1>3
  <2>2. \A k \in DOMAIN todo' : todo'[k].cmd = c /\ DOMAIN todo' = {1}
    BY <2>1, Short
  <2> QED BY <1>1, <1>3, <2>1, <2>2 DEF BeginsOther, Keep
<1>4. ASSUME NEW p \in Periph, CallNew(p) \/ CallClose(p) PROVE Begins /\ BeginsNew(p)
  <2>1. CASE CallNew(p)
    BY <1>1, <1>2, <2>1 DEF CallNew, BeginsNew
  <2>2. CASE CallClose(p)
    BY <1>1, <1>2, <2>2 DEF CallClose, BeginsNew
  <2> QED BY <1>4, <2>1, <2>2
<1>5. ASSUME NEW p \in Periph, CallOpen(p) PROVE Begins /\ BeginsOther
  <2>1. CASE Start("open", p, <<Post(OnPeriph("open", p))>>) /\ Keep
    BY <1>3, <2>1 DEF Post, OnPeriph
  <2>2. ASSUME NEW name \in {"openwait", "illegal"}, NEW pat,
               Start(name, p, OpenSteps(p, "TOPEN", pat)), Count(p)
        PROVE  Begins /\ BeginsOther
    <3>1. Begins /\ job'.name = name /\ todo' = OpenSteps(p, "TOPEN", pat)
      BY <1>2, <2>2
    <3>2. \A k \in DOMAIN todo' :
            /\ todo'[k].cmd.op # "do"
            /\ todo'[k].cmd.op = "trigdef" => todo'[k].cmd.id = "TOPEN"
      <4> DEFINE a == Post(Define("TOPEN", p, pat))
                 b == Post(OnPeriph("open", p))
                 c == Ask(WaitFor({{Raise("TOPEN")}}, TRUE), "open")
                 d == Post(OnTrigs("undef", {"TOPEN"}))
      <4>1. todo' = <<a, b, c, d>>
        BY <3>1 DEF OpenSteps
      <4>2. /\ a.cmd.op = "trigdef" /\ a.cmd.id = "TOPEN"
            /\ b.cmd.op = "open" /\ c.cmd.op = "wait" /\ d.cmd.op = "undef"
        BY DEF Post, Ask, Define, OnPeriph, WaitFor, OnTrigs
      <4> HIDE DEF a, b, c, d
      <4>3. \A k \in DOMAIN todo' : todo'[k] \in {a, b, c, d}
        BY <4>1, Short
      <4> QED BY <4>2, <4>3
    <3>3. UNCHANGED <<made, owed>> /\ \A q \in Periph : sync'[q] \in {sync[q], sync[q] + 1}
      BY <1>1, <2>2 DEF Count
    <3> QED BY <2>2, <3>1, <3>2, <3>3 DEF BeginsOther, Tokens
  <2> QED BY <1>5, <2>1, <2>2 DEF CallOpen
<1>6. ASSUME NEW p \in Periph, CallCommand(p) PROVE Begins /\ (BeginsOther \/ BeginsCarried(p))
  <2>1. CASE /\ Start("post", p, <<Post(Send(p, "ans", 0))>>)
             /\ owed' = owed \cup {p} /\ UNCHANGED <<made, sync>>
    <3>1. Begins /\ job'.name = "post" /\ todo' = <<Post(Send(p, "ans", 0))>>
      BY <1>2, <2>1
    <3>2. \A k \in DOMAIN todo' : todo'[k] = Post(Send(p, "ans", 0)) /\ DOMAIN todo' = {1}
      BY <3>1, Short
    <3>3. /\ Post(Send(p, "ans", 0)).cmd.op = "do" /\ Post(Send(p, "ans", 0)).cmd.kind = "ans"
          /\ Post(Send(p, "ans", 0)).cmd.periph = p
      BY DEF Post, Send
    <3> QED BY <1>1, <2>1, <3>1, <3>2, <3>3 DEF BeginsOther
  <2>2. CASE /\ Start("illegal", p, CommandSteps(p, "TCMD", Ans, None, TRUE))
             /\ owed' = owed \cup {p} /\ UNCHANGED <<made, sync>>
    <3> DEFINE a == Post(Define("TCMD", p, None))
               b == Post(Send(p, Ans.kind, Ans.n))
               c == Ask(WaitFor({{Raise("TCMD")}}, TRUE), "info")
               d == Post(OnTrigs("undef", {"TCMD"}))
    <3>1. Begins /\ job'.name = "illegal" /\ todo' = <<a, b, c, d>>
      BY <1>2, <2>2 DEF CommandSteps
    <3>2. /\ a.cmd.op = "trigdef" /\ a.cmd.pat = None
          /\ b.cmd.op = "do" /\ b.cmd.kind = "ans" /\ b.cmd.periph = p
          /\ c.cmd.op = "wait" /\ d.cmd.op = "undef"
      BY DEF Post, Ask, Define, Send, WaitFor, OnTrigs, Ans
    <3> HIDE DEF a, b, c, d
    <3>3. \A k \in DOMAIN todo' : \/ k = 1 /\ todo'[k] = a
                                  \/ k = 2 /\ todo'[k] = b
                                  \/ todo'[k] = c
                                  \/ todo'[k] = d
      BY <3>1, Short
    <3>4. \A k \in DOMAIN todo' :
            /\ todo'[k].cmd.op = "trigdef" => todo'[k].cmd.pat = None
            /\ todo'[k].cmd.op = "do" => k = 2 /\ todo'[k] = b
      BY <3>2, <3>3
    <3> QED BY <1>1, <2>2, <3>1, <3>2, <3>4 DEF BeginsOther
  <2>3. ASSUME NEW name \in {"command", "untimed"}, NEW timed, timed = (name # "untimed"),
               Start(name, p, CommandSteps(p, "TCMD", Ans, Ans, timed)), Keep
        PROVE  Begins /\ BeginsCarried(p)
    <3>1. Begins /\ job'.name = name /\ job'.periph = p /\ (job'.trusted <=> p \notin owed)
          /\ todo' = CommandSteps(p, "TCMD", Ans, Ans, timed)
      BY <1>2, <2>3
    <3> QED BY <1>6, <2>3, <3>1 DEF CallCommand, BeginsCarried, Keep, Commanding
  <2> QED BY <1>6, <2>1, <2>2, <2>3 DEF CallCommand
<1>7. ASSUME NEW p \in Periph, CallSync(p) PROVE Begins /\ BeginsCarried(p)
  <2>1. Start("sync", p, CommandSteps(p, "TECHO", Echo(sync[p]), Echo(sync[p]), TRUE))
    BY <1>7 DEF CallSync, SyncNumber
  <2>2. /\ Begins /\ job'.name = "sync" /\ job'.periph = p
        /\ todo' = CommandSteps(p, "TECHO", Echo(sync[p]), Echo(sync[p]), TRUE)
    BY <1>2, <2>1
  <2> QED BY <1>7, <2>2 DEF CallSync, BeginsCarried, Count
<1>8. ASSUME NEW p \in Periph, CallDo(p) PROVE Begins /\ BeginsOther
  BY <1>3, <1>8 DEF CallDo, Post, Send
<1>9. CASE CallTrig
  <2>1. ASSUME NEW q, NEW pat, Start("trigdef", q, <<Post(Define(User, q, pat))>>)
        PROVE  Begins /\ BeginsOther
    BY <1>3, <1>9, <2>1 DEF CallTrig, Post, Define, User, Tokens
  <2>2. ASSUME NEW e, NEW timed, Start("trigwait", None, <<Ask(WaitFor(e, timed), "keep")>>)
        PROVE  Begins /\ BeginsOther
    BY <1>3, <1>9, <2>2 DEF CallTrig, Ask, WaitFor
  <2>3. ASSUME NEW op \in {"info", "count"},
               Start("trigask", None, <<Ask(OnTrig(op, User), "keep")>>)
        PROVE  Begins /\ BeginsOther
    BY <1>3, <1>9, <2>3 DEF CallTrig, Ask, OnTrig
  <2>4. ASSUME NEW op \in {"undef", "clear"}, NEW S, Start("trigdrop", None, <<Post(OnTrigs(op, S))>>)
        PROVE  Begins /\ BeginsOther
    BY <1>3, <1>9, <2>4 DEF CallTrig, Post, OnTrigs
  <2>5. CASE Start("timeout", None, <<Post(Plain("timeout"))>>)
    BY <1>3, <1>9, <2>5 DEF CallTrig, Post, Plain
  <2> QED BY <1>9, <2>1, <2>2, <2>3, <2>4, <2>5 DEF CallTrig
<1>10. CASE CallCase
  <2>1. ASSUME NEW op \in {"local", "case", "verdict"}, Start("case", None, <<Post(Plain(op))>>)
        PROVE  Begins /\ BeginsOther
    BY <1>3, <1>10, <2>1 DEF CallCase, Post, Plain
  <2>2. CASE Start("case", None, <<Ask(Plain("done"), "ignore")>>)
    BY <1>3, <1>10, <2>2 DEF CallCase, Ask, Plain
  <2> QED BY <1>10, <2>1, <2>2 DEF CallCase
<1> QED BY <1>4, <1>5, <1>6, <1>7, <1>8, <1>9, <1>10 DEF MakesCall

(* The number of a message is a number.                                    *)
LEMMA MsgTypes ==
  ASSUME EngineTypes
  PROVE  \A m \in Msgs : m.n \in Nat
<1>1. \A m \in Queued : m.n \in Nat
  <2>1. ASSUME NEW m \in Queued PROVE m.n \in Nat
    <3>1. PICK k \in DOMAIN cmds : cmds[k] \in Does /\ m = Msg(cmds[k].periph, cmds[k])
      BY <2>1, Places
    <3> QED BY <3>1, CommandOf DEF Does, Msg
  <2> QED BY <2>1
<1>2. ASSUME NEW q \in Periph, NEW m \in Inside[q] \cup Outside[q] PROVE m.n \in Nat
  <2>1. PICK line \in Line : m = Msg(q, line)
    BY <1>2, Places DEF EngineTypes
  <2> QED BY <2>1 DEF Msg, Line
<1> QED BY <1>1, <1>2 DEF Msgs, Flying

(* command() and sync() begin at their first stage, sync() with the next   *)
(* number.                                                                 *)
LEMMA CarriedStages ==
  ASSUME NEW p \in Periph, sync \in [Periph -> Nat], BeginsCarried(p)
  PROVE  /\ Carrying' /\ ToDefine' /\ sync'[p] \in Nat
         /\ job'.name = "sync" => sync'[p] = sync[p] + 1
         /\ \A q \in Periph \ {p} : sync'[q] = sync[q]
         /\ todo' = <<Defining', Sending', Awaiting', Dropping'>>
<1>1. CASE /\ Commanding' /\ UNCHANGED sync
           /\ todo' = CommandSteps(p, "TCMD", Ans, Ans, job'.name # "untimed")
  <2>1. Token' = "TCMD" /\ Wanted' = Ans /\ job'.periph = p
    BY <1>1 DEF Token, Wanted, BeginsCarried, Commanding
  <2>2. todo' = <<Defining', Sending', Awaiting', Dropping'>>
    BY <1>1, <2>1 DEF CommandSteps, Defining, Sending, Awaiting, Dropping, Post, Ask, Define, Send,
                      WaitFor, OnTrigs, Raise
  <2> QED BY <1>1, <2>2 DEF Carrying, Commanding, ToDefine
<1>2. CASE /\ job'.name = "sync" /\ sync' = [sync EXCEPT ![p] = sync[p] + 1]
           /\ todo' = CommandSteps(p, "TECHO", Echo(sync[p]), Echo(sync[p]), TRUE)
  <2>1. sync'[p] = sync[p] + 1 /\ \A q \in Periph \ {p} : sync'[q] = sync[q]
    BY <1>2
  <2>2. sync'[p] - 1 = sync[p] /\ sync'[p] \in Nat
    BY <2>1
  <2>3. Token' = "TECHO" /\ Wanted' = Echo(sync[p]) /\ job'.periph = p
    BY <1>2, <2>2 DEF Token, Wanted, BeginsCarried, Echo
  <2>4. todo' = <<Defining', Sending', Awaiting', Dropping'>>
    BY <1>2, <2>3 DEF Echo, CommandSteps, Defining, Sending, Awaiting, Dropping, Post, Ask, Define, Send,
                      WaitFor, OnTrigs, Raise
  <2> QED BY <1>2, <2>1, <2>2, <2>4 DEF Carrying, ToDefine
<1> QED BY <1>1, <1>2 DEF BeginsCarried

(* A new call keeps the invariant: whatever is on its way is of an earlier *)
(* call.                                                                   *)
LEMMA BeginsKeepFresh ==
  ASSUME IInv, FInv, Begins, BeginsOther \/ \E p \in Periph : BeginsNew(p) \/ BeginsCarried(p)
  PROVE  FInv'
<1> USE DEF pipeVars, linkVars, waitVars, serveVars, caseVars
<1>1. /\ UNCHANGED <<cmds, conn, inp, out, trigs, waiting, served, epc, script, want, result, replies>>
      /\ call \in Nat /\ call' = call + 1 /\ call' # 0 /\ call < MaxCalls /\ script = "runs" /\ todo = <<>>
      /\ sync \in [Periph -> Nat] /\ made \subseteq Periph /\ replies = <<>>
  BY DEF Begins, engineVars, IInv, Types, ScriptTypes, Answered
<1>2. /\ Inside' = Inside /\ Outside' = Outside /\ Queued' = Queued /\ Flying' = Flying /\ Msgs' = Msgs
      /\ Undefined' = Undefined /\ Up' = Up
  BY <1>1 DEF Inside, Outside, Queued, Flying, Msgs, Undefined, Up
<1>3. Over /\ ~ Waited /\ Renewing = {}
  <2>1. Over
    BY <1>1 DEF Over
  <2> QED BY <1>1, <2>1, Stages DEF Renewing
<1>4. \A m \in Msgs : m.call \in 0 .. call /\ m.call # call' /\ m.call < call'
  BY <1>1 DEF FInv, Known
<1>5. ASSUME Up, NEW m \in Msgs, m.kind = "ans" PROVE m.periph \notin made \ owed
  <2> SUFFICES ASSUME m.periph \in made \ owed PROVE FALSE
    OBVIOUS
  <2>1. Commanding /\ job.periph = m.periph /\ m.call = call
    BY <1>3, <1>5 DEF FInv, Known
  <2>2. Clean /\ call # 0
    BY <1>3, <1>5, <2>1 DEF FInv, Owing, Staged, Carrying, Commanding
  <2>3. PICK q \in Periph : m \in Inside[q] \cup Outside[q]
    BY <2>2 DEF Msgs, Flying, Clean
  <2>4. q = job.periph
    BY <2>1, <2>3, Places DEF Msg
  <2>5. m \notin Inside[q]
    BY <2>2, <2>4, Places, EmptyOf DEF Clean
  <2>6. PICK k \in DOMAIN out[q] : m = Msg(q, out[q][k])
    BY <2>3, <2>5, Places
  <2> QED BY <2>1, <2>2, <2>4, <2>6 DEF Msg, Clean
<1>6. Up => ~ Undefined /\ \A k \in DOMAIN cmds : cmds[k] \notin Defs
  BY <1>3 DEF FInv, Order, Undefined, Waited
<1>7. call' \notin served /\ \A m \in Msgs' : m.call # call'
  BY <1>1, <1>2, <1>4 DEF FInv, Told
<1>8. Cleared'
  BY <1>1 DEF FInv, Cleared, Up
<1>9. After'
  <2>1. call' <= MaxCalls
    BY <1>1, SessionAssumption
  <2>2. ASSUME result.job.name = "sync", result.info # None
        PROVE  /\ result.info.call = result.call /\ result.call \in 0 .. call'
               /\ \A m \in Queued \cup Inside[result.job.periph] : m.call >= result.call
               /\ \A m \in Outside[result.job.periph] : m.call \in {0} \cup result.call .. call'
    <3>1. /\ result.info.call = result.call /\ result.call \in 0 .. call
          /\ \A m \in Queued \cup Inside[result.job.periph] : m.call >= result.call
          /\ \A m \in Outside[result.job.periph] : m.call \in {0} \cup result.call .. call
      BY <2>2 DEF FInv, After
    <3>2. result.call \in 0 .. call' /\ \A x \in result.call .. call : x \in result.call .. call'
      BY <1>1, <3>1
    <3> QED BY <3>1, <3>2
  <2> HIDE DEF pipeVars, linkVars, waitVars, serveVars, caseVars
  <2> QED BY <1>1, <1>2, <2>1, <2>2 DEF After
<1>10. CommandFresh'
  BY <1>1 DEF FInv, CommandFresh
<1>11. LastSent'
  <2>1. ASSUME NEW k \in DOMAIN cmds, cmds[k] \in Does PROVE cmds[k].call # call'
    <3>1. Msg(cmds[k].periph, cmds[k]) \in Msgs
      BY <2>1, Places DEF Msgs
    <3> QED BY <1>4, <3>1 DEF Msg
  <2>2. ASSUME NEW q \in Periph
        PROVE  /\ \A k \in DOMAIN inp[q] : inp[q][k].call # call'
               /\ \A k \in DOMAIN out[q] : out[q][k].call # call'
    <3>1. ASSUME NEW k \in DOMAIN inp[q] PROVE inp[q][k].call # call'
      <4>1. Msg(q, inp[q][k]) \in Msgs
        BY <3>1, Places DEF Msgs, Flying
      <4> QED BY <1>4, <4>1 DEF Msg
    <3>2. ASSUME NEW k \in DOMAIN out[q] PROVE out[q][k].call # call'
      <4>1. Msg(q, out[q][k]) \in Msgs
        BY <3>2, Places DEF Msgs, Flying
      <4> QED BY <1>4, <4>1 DEF Msg
    <3> QED BY <3>1, <3>2
  <2> QED BY <1>1, <2>1, <2>2 DEF LastSent
<1>12. Last'
  BY <1>1, <1>7, <1>11 DEF Last, Unsent
<1>13. ASSUME ~ Carrying' \/ ToDefine' PROVE Order' /\ Told'
  <2>1. Carrying' => ~ Waited' /\ ~ ToFetch'
    BY <1>13, StagesNext DEF Apart
  <2>2. Order'
    BY <1>1, <1>2, <1>6, <2>1 DEF Order
  <2>3. served' \subseteq 0 .. call'
    BY <1>1 DEF FInv, Told
  <2> QED BY <2>1, <2>2, <2>3 DEF Told, Ready
<1>14. ASSUME NEW p \in Periph, BeginsNew(p) PROVE FInv'
  <2>1. /\ ~ Carrying' /\ job'.periph = p /\ made' \subseteq made \cup {p} /\ owed' = owed \ {p}
        /\ \A q \in Periph \ {p} : sync'[q] = sync[q]
        /\ job'.name \in {"new", "close"} /\ job'.name # "sync" /\ ~ Commanding'
    BY <1>14 DEF BeginsNew, Carrying, Commanding
  <2>2. PICK op \in {"periph", "close"} : todo' = <<Ask(OnPeriph(op, p), "ignore")>>
    BY <1>14 DEF BeginsNew
  <2>3. todo' # <<>> /\ \A k \in DOMAIN todo' : todo'[k].cmd.op = op
    BY <2>2, Short DEF Ask, OnPeriph
  <2>4. Renewing' = {p}
    BY <2>1, <2>3 DEF Renewing
  <2>5. Staged'
    BY <1>1, <2>1, <2>2 DEF FInv, Staged
  <2>6. Known'
    <3>1. ASSUME NEW m \in Msgs, Up, m.periph # p, m.kind = "echo" PROVE m.n < sync'[m.periph]
      BY <1>3, <2>1, <3>1 DEF FInv, Known
    <3>2. ASSUME NEW m \in Msgs, Up, m.periph # p, m.kind = "ans" PROVE m.periph \notin made' \ owed'
      BY <1>5, <2>1, <3>2
    <3> QED BY <1>1, <1>2, <1>4, <2>1, <2>4, <3>1, <3>2 DEF FInv, Known
  <2>7. Sends'
    BY <2>3 DEF Sends, Does, Defs
  <2>8. Owing'
    BY <2>1 DEF Owing
  <2> QED BY <1>8, <1>9, <1>10, <1>12, <1>13, <2>1, <2>5, <2>6, <2>7, <2>8 DEF FInv
<1>15. CASE BeginsOther
  <2>1. /\ ~ Carrying' /\ UNCHANGED made /\ owed \subseteq owed' /\ Renewing' = {}
        /\ \A q \in Periph : sync'[q] \in {sync[q], sync[q] + 1}
        /\ job'.name \notin {"new", "close", "sync"} /\ ~ Commanding'
    BY <1>15 DEF BeginsOther, Carrying, Renewing, Commanding
  <2>2. Staged'
    BY <1>1, <2>1 DEF FInv, Staged
  <2>3. Known'
    <3>1. ASSUME NEW m \in Msgs, Up, m.kind = "echo" PROVE m.n < sync'[m.periph]
      <4>1. m.n < sync[m.periph] /\ m.periph \in Periph
        BY <1>3, <3>1 DEF FInv, Known
      <4>2. m.n \in Nat
        BY MsgTypes DEF IInv, Types
      <4> QED BY <1>1, <2>1, <4>1, <4>2
    <3>2. ASSUME NEW m \in Msgs, Up, m.kind = "ans" PROVE m.periph \notin made' \ owed'
      BY <1>5, <2>1, <3>2
    <3> QED BY <1>1, <1>2, <1>4, <2>1, <3>1, <3>2 DEF FInv, Known
  <2>4. Sends'
    <3>1. \A k \in DOMAIN todo' : todo'[k].cmd \in Does =>
            /\ \A j \in DOMAIN todo' : todo'[j].cmd \in Does => j = k
            /\ todo'[k].cmd.kind = "ans" /\ todo'[k].cmd.periph \in owed' \cup (Periph \ made)
      BY <1>15 DEF BeginsOther, Does
    <3>2. \A k \in DOMAIN todo' : todo'[k].cmd \notin Defs
      BY <1>15 DEF BeginsOther, Defs
    <3> QED BY <2>1, <3>1, <3>2 DEF Sends
  <2>5. Owing'
    BY <2>1 DEF Owing
  <2> QED BY <1>8, <1>9, <1>10, <1>12, <1>13, <2>1, <2>2, <2>3, <2>4, <2>5 DEF FInv
<1>16. ASSUME NEW p \in Periph, BeginsCarried(p) PROVE FInv'
  <2>1. /\ p \in made /\ UNCHANGED <<made, owed>> /\ job'.periph = p
        /\ Commanding' \/ job'.name = "sync"
        /\ Commanding' => UNCHANGED sync /\ (job'.trusted <=> p \notin owed)
        /\ Renewing' = {} /\ ~ (Commanding' /\ job'.name = "sync")
    BY <1>16 DEF BeginsCarried, Renewing, Commanding
  <2>2. /\ Carrying' /\ ToDefine' /\ sync'[p] \in Nat
        /\ job'.name = "sync" => sync'[p] = sync[p] + 1
        /\ \A q \in Periph \ {p} : sync'[q] = sync[q]
    BY <1>1, <1>16, CarriedStages
  <2>3. Staged'
    <3>1. job'.name = "sync" => sync'[p] # 0
      BY <1>1, <2>2
    <3> QED BY <1>1, <2>1, <2>2, <3>1 DEF FInv, Staged, Commanding
  <2>4. Known'
    <3>1. ASSUME NEW m \in Msgs, Up, m.kind = "echo"
          PROVE  /\ m.n < sync'[m.periph]
                 /\ job'.name = "sync" /\ m.periph = p => m.n # sync'[p] - 1
      <4>1. m.n < sync[m.periph] /\ m.periph \in Periph
        BY <1>3, <3>1 DEF FInv, Known
      <4>2. m.n \in Nat
        BY MsgTypes DEF IInv, Types
      <4>3. CASE m.periph = p /\ job'.name = "sync"
        BY <1>1, <2>2, <4>1, <4>2, <4>3
      <4>4. CASE m.periph # p \/ Commanding'
        BY <1>1, <2>1, <2>2, <4>1, <4>2, <4>4
      <4> QED BY <2>1, <4>3, <4>4
    <3>2. ASSUME NEW m \in Msgs, Up, m.kind = "ans" PROVE m.periph \notin made' \ owed'
      BY <1>5, <2>1, <3>2
    <3> QED BY <1>1, <1>2, <1>4, <2>1, <3>1, <3>2 DEF FInv, Known
  <2>5. Sends'
    <3>1. Sends
      BY DEF FInv
    <3>2. todo' = <<Defining', Sending', Awaiting', Dropping'>>
      BY <1>1, <1>16, CarriedStages
    <3>3. /\ Defining'.cmd.op = "trigdef" /\ Awaiting'.cmd.op = "wait" /\ Dropping'.cmd.op = "undef"
      BY DEF Defining, Awaiting, Dropping, Post, Ask, Define, WaitFor, OnTrigs
    <3>4. \A k \in DOMAIN todo' : todo'[k].cmd.op = "do" => k = 2
      BY <3>2, <3>3, Short
    <3> QED BY <2>2, <3>4 DEF Sends, Does
  <2>6. Owing'
    <3>1. ~ ToFetch' /\ ~ ToDrop' /\ ~ Over' /\ ~ Waited'
      BY <2>2, StagesNext DEF Apart
    <3> QED BY <2>1, <3>1 DEF Owing
  <2> QED BY <1>8, <1>9, <1>10, <1>12, <1>13, <2>2, <2>3, <2>4, <2>5, <2>6 DEF FInv
<1> QED BY <1>14, <1>15, <1>16

(* Nothing is on its way at first.                                         *)
LEMMA FreshInit == Init => IInv /\ FInv
<1> SUFFICES ASSUME Init PROVE FInv
  BY InitInv
<1>1. /\ cmds = <<>> /\ todo = <<>> /\ call = 0 /\ replies = <<>> /\ served = {} /\ owed = {}
      /\ script = "runs" /\ job.name = "none" /\ result.job.name = "none" /\ waiting = None
      /\ \A q \in Periph : inp[q] = <<>> /\ out[q] = <<>>
  BY DEF Init, EngineInit, NoJob, NoResult
<1>2. DOMAIN cmds = {} /\ DOMAIN todo = {}
  BY <1>1, EmptyOf
<1>3. Queued = {} /\ Flying = {} /\ Msgs = {}
  <2>1. Queued = {}
    BY <1>2 DEF Queued
  <2>2. \A q \in Periph : Inside[q] = {} /\ Outside[q] = {}
    BY <1>1, EmptyOf, Places
  <2> QED BY <2>1, <2>2 DEF Flying, Msgs
<1>4. ~ Carrying /\ Staged
  BY <1>1 DEF Carrying, Staged
<1>5. Known /\ Sends
  BY <1>2, <1>3 DEF Known, Sends
<1>6. Last
  BY <1>1, <1>2, <1>3 DEF Last, Unsent
<1>7. Cleared /\ Order
  BY <1>1, <1>2, <1>4 DEF Cleared, Order
<1>8. Told /\ Owing
  BY <1>1, <1>4 DEF Told, Owing, Ready, Carrying, Commanding
<1>9. After /\ CommandFresh
  BY <1>1, SessionAssumption DEF After, CommandFresh
<1> QED BY <1>4, <1>5, <1>6, <1>7, <1>8, <1>9 DEF FInv

(* The invariant is inductive.                                             *)
LEMMA FreshNext == IInv /\ FInv /\ [Next]_vars => FInv'
<1> SUFFICES ASSUME IInv, FInv, [Next]_vars PROVE FInv'
  OBVIOUS
<1>1. CASE Around
  <2>1. Drifts /\ Rests
    BY <1>1, Drifting DEF IInv, Types, Rests
  <2> QED BY <2>1, DriftKeeps
<1>2. CASE Script \/ ScriptStop
  BY <1>2, ScriptKeepsFresh
<1>3. CASE MakesCall
  BY <1>3, BeginOf, BeginsKeepFresh DEF IInv
<1> QED BY <1>1, <1>2, <1>3 DEF Next, Around

(* What is on its way and what the trigger of the call says always fit the *)
(* call: the invariant of this module.                                     *)
THEOREM FreshInvariant == Spec => [](IInv /\ FInv)
<1>1. IInv /\ FInv /\ [Next]_vars => (IInv /\ FInv)'
  BY NextInv, FreshNext
<1> QED BY FreshInit, <1>1, PTL DEF Spec

(* sync() returns the line that the peripheral printed for this very call, *)
(* whatever lines of earlier calls come late (Interface::sync).            *)
THEOREM SyncIsFresh == Spec => []SyncFresh
<1>1. FInv => SyncFresh
  BY DEF FInv, After, SyncFresh
<1> QED BY <1>1, FreshInvariant, PTL

(* When sync() has succeeded, nothing that was asked of the peripheral     *)
(* before is still on its way to the engine.                               *)
THEOREM SyncLeavesNothing == Spec => []SyncBarrier
<1>1. IInv /\ FInv => SyncBarrier
  <2> SUFFICES ASSUME IInv, FInv, result.job.name = "sync", result.info # None,
                      NEW p \in {result.job.periph}
               PROVE  /\ \A k \in 1 .. Len(out[p]) :
                           out[p][k].call \in {0} \cup result.call .. MaxCalls
                      /\ \A k \in 1 .. Len(inp[p]) : inp[p][k].call >= result.call
    BY DEF SyncBarrier
  <2>1. p \in Periph /\ DOMAIN out[p] = 1 .. Len(out[p]) /\ DOMAIN inp[p] = 1 .. Len(inp[p])
    BY DEF FInv, Staged, IInv, Types, EngineTypes
  <2>2. /\ \A m \in Inside[p] : m.call >= result.call
        /\ \A m \in Outside[p] : m.call \in {0} \cup result.call .. call
        /\ result.call \in 0 .. call /\ call <= MaxCalls
    BY DEF FInv, After
  <2>3. ASSUME NEW k \in DOMAIN inp[p] PROVE inp[p][k].call >= result.call
    <3>1. Msg(p, inp[p][k]) \in Inside[p]
      BY <2>1, <2>3, Places
    <3> QED BY <2>2, <3>1 DEF Msg
  <2>4. ASSUME NEW k \in DOMAIN out[p]
        PROVE  out[p][k].call \in {0} \cup result.call .. MaxCalls
    <3>1. Msg(p, out[p][k]) \in Outside[p]
      BY <2>1, <2>4, Places
    <3>2. out[p][k].call \in {0} \cup result.call .. call
      BY <2>2, <3>1 DEF Msg
    <3>3. call \in Nat /\ MaxCalls \in Nat
      BY SessionAssumption DEF IInv, Types, ScriptTypes
    <3> QED BY <2>2, <3>2, <3>3
  <2> QED BY <2>1, <2>3, <2>4
<1> QED BY <1>1, FreshInvariant, PTL

(* command() returns an answer to this very call, unless an earlier one    *)
(* was given up (Interface::command).                                      *)
THEOREM CommandIsFresh == Spec => []CommandFresh
<1>1. FInv => CommandFresh
  BY DEF FInv
<1> QED BY <1>1, FreshInvariant, PTL

(* A line that the engine read counts for the WAIT of command() and of     *)
(* sync(), even if it came before WAIT: the trigger is defined first.      *)
THEOREM AnswersCount == Spec => []AnswerCounts
<1>1. IInv /\ FInv => AnswerCounts
  <2> SUFFICES ASSUME IInv, FInv, epc \in {"check", "select"}, job.name \in {"command", "untimed", "sync"},
                      call \in served
               PROVE  Holds(waiting.expr)
    BY DEF AnswerCounts
  <2>1. EngineTypes /\ Up /\ Carrying
    BY DEF IInv, Types, Up, Carrying
  <2>2. waiting # None /\ waiting = want /\ script = "reads" /\ waiting.op = "wait"
    BY <2>1 DEF IInv, Pending, Unanswered, EngineTypes
  <2>3. cmds = <<>>
    BY <2>1, <2>2 DEF FInv, Cleared
  <2>4. /\ todo # <<>> /\ Head(todo).then # "post" /\ Head(todo).cmd.op = "wait"
        /\ want = [Head(todo).cmd EXCEPT !.call = call]
    BY <2>2 DEF IInv, Asking, FInv, Staged
  <2>5. ToWait /\ Head(todo) = Awaiting
    BY <2>1, <2>4, Stages, StagesSay DEF FInv, Staged, Waited
  <2>6. waiting.expr = {{Raise(Token)}}
    BY <2>2, <2>4, <2>5 DEF Awaiting, Ask, WaitFor
  <2>7. ~ Undefined /\ Waited
    BY <2>3, <2>5, EmptyOf DEF Undefined, Waited
  <2>8. Armed /\ Ready /\ trigs[Token].n # 0
    BY <2>1, <2>7 DEF FInv, Order, Told, Ready
  <2>9. trigs[Token] \in Triggers
    <3>1. Token \in Trig
      BY SessionAssumption DEF Token
    <3> QED BY <2>1, <2>8, <3>1 DEF EngineTypes, Armed
  <2>10. trigs[Token].n >= 1
    BY <2>8, <2>9 DEF Triggers
  <2>11. Reached(Raise(Token)) /\ Raise(Token).neg = FALSE
    BY <2>10 DEF Reached, Raise
  <2> QED BY <2>6, <2>11 DEF Holds
<1> QED BY <1>1, FreshInvariant, PTL
=============================================================================
