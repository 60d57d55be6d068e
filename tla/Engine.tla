------------------------------- MODULE Engine -------------------------------
(***************************************************************************)
(* The Test Engine as a command server (core/engine/run.c, trig.c,         *)
(* listener.c): one thread that takes commands from its standard input,    *)
(* reads lines from the open peripherals, raises the triggers that they    *)
(* match, and answers some commands with one line on the WAIT              *)
(* synchronization output.  How a peripheral is opened, read and closed is *)
(* the subject of module Periph; here it is one step.                      *)
(***************************************************************************)
EXTENDS Naturals, Sequences, FiniteSets

CONSTANTS
  Trig,          \* trigger names, in upper case
  Periph,        \* names of peripherals
  OpenMayFail,   \* may the connection to a peripheral fail?
  Scale,         \* the powers of the base of the numbers that peripherals print
  None           \* the NULL pointer, and an undefined trigger

ASSUME EngineAssumption ==
  /\ None \notin Periph /\ OpenMayFail \in BOOLEAN
  /\ Scale \subseteq Nat \ {0} /\ 1 \in Scale

VARIABLES
  epc,           \* where the engine is: see Place
  cmds,          \* commands not read yet
  eof,           \* is the writing end of the command pipe closed?
  replies,       \* answers not read yet by the client, each with its command
  declared,      \* peripherals declared with "periph"
  conn,          \* open peripherals
  out,           \* lines of each peripheral that the engine did not read yet
  inp,           \* commands sent to each peripheral, not read by it yet
  alive,         \* peripherals whose process runs
  trigs,         \* the triggers
  timeout,       \* has "timeout" given a default value?
  waiting,       \* the WAIT in progress
  timeUp,        \* has its time elapsed?
  left, back,    \* peripherals that select() reported, and where they are served
  running,       \* is a test case running?
  localSet       \* has "local" named a log file?

pipeVars  == <<cmds, eof, replies>>
linkVars  == <<declared, conn, out, inp, alive>>
waitVars  == <<waiting, timeUp>>
serveVars == <<left, back>>
caseVars  == <<running, localSet>>
engineVars == <<epc, pipeVars, linkVars, trigs, timeout, waitVars, serveVars, caseVars>>

Place == {"input", "check", "select", "serve", "quit", "exit"}

(* A line is a record with a kind, a number and the call that it answers,  *)
(* which no program looks at.  A pattern is a kind and a number, matched   *)
(* as a regular expression without end anchor: as a prefix.                *)
IsPrefixOf(n, m) == \E s \in Scale : m \div s = n
Match(pat, line) == pat.kind = line.kind /\ IsPrefixOf(pat.n, line.n)

EngineInit ==
  /\ epc = "input" /\ cmds = <<>> /\ eof = FALSE /\ replies = <<>>
  /\ declared = {} /\ conn = {} /\ alive = {}
  /\ out = [p \in Periph |-> <<>>] /\ inp = [p \in Periph |-> <<>>]
  /\ trigs = [t \in Trig |-> None]
  /\ timeout = FALSE /\ waiting = None /\ timeUp = FALSE
  /\ left = {} /\ back = "input"
  /\ running = FALSE /\ localSet = FALSE

-----------------------------------------------------------------------------
(* Definitions whose name starts with Bug are the mutants of the definition *)
(* that follows them; no specification uses them.                          *)

(* Triggers.  An expression is a set of alternatives, each a set of        *)
(* operands [id, neg, n]: "trigger id was raised n times", or its negation. *)

Operands(e) == UNION e
Reached(l) == trigs[l.id].n >= l.n
Holds(e) == \E alt \in e : \A l \in alt : Reached(l) # l.neg
Raised(e) == {l.id : l \in {m \in Operands(e) : Reached(m)}}

Fresh(src, pat) == [src |-> src, pat |-> pat, n |-> 0, info |-> None]

(* trig_update: what a line of peripheral p does to the triggers.          *)
BugAnyLine(t, p, line) == trigs[t] # None /\ trigs[t].src \in {None, p}
Hit(t, p, line) ==
  /\ trigs[t] # None
  /\ trigs[t].src \in {None, p}
  /\ Match(trigs[t].pat, line)
Updated(p, line) ==
  [t \in Trig |-> IF Hit(t, p, line)
                    THEN [trigs[t] EXCEPT !.n = @ + 1, !.info = line]
                    ELSE trigs[t]]

-----------------------------------------------------------------------------
(* Commands.  A command that fails ends the engine, which is not           *)
(* interactive: it forgets the triggers and closes the synchronization     *)
(* output, then spends some time closing the peripherals, then exits.      *)

Quit ==
  /\ epc' = "quit"
  /\ trigs' = [t \in Trig |-> None]
  /\ UNCHANGED <<pipeVars, linkVars, timeout, waitVars, serveVars, caseVars>>

Exit ==
  /\ epc = "quit" /\ epc' = "exit"
  /\ conn' = {} /\ alive' = {} /\ cmds' = <<>>
  /\ out' = [p \in Periph |-> <<>>] /\ inp' = [p \in Periph |-> <<>>]
  /\ UNCHANGED <<eof, replies, declared, trigs, timeout, waitVars, serveVars, caseVars>>

Takes(op) == epc = "input" /\ cmds # <<>> /\ Head(cmds).op = op
Command == Head(cmds)
Done == cmds' = Tail(cmds)
Silent == UNCHANGED replies
Answer(c, a) == replies' = Append(replies, [to |-> c, val |-> a])

BugNoKill(S) ==
  /\ conn' = conn \ S /\ UNCHANGED <<alive, inp>>
  /\ out' = [p \in Periph |-> IF p \in S THEN <<>> ELSE out[p]]
Closed(S) ==                        \* periph_close
  /\ conn' = conn \ S /\ alive' = alive \ S
  /\ out' = [p \in Periph |-> IF p \in S THEN <<>> ELSE out[p]]
  /\ inp' = [p \in Periph |-> IF p \in S THEN <<>> ELSE inp[p]]

Named(ids) == IF ids = {} THEN Trig ELSE ids     \* no name stands for all

TrigDef ==                          \* a pattern may be an illegal one: None
  /\ Takes("trigdef")
  /\ LET legal == Command.pat # None /\ Command.src \in declared \cup {None}
     IN  \/ /\ legal /\ Done /\ Silent
            /\ trigs' = [trigs EXCEPT ![Command.id] = Fresh(Command.src, Command.pat)]
            /\ UNCHANGED <<epc, eof, linkVars, timeout, waitVars, serveVars, caseVars>>
         \/ ~ legal /\ Quit

TrigUndef ==
  /\ Takes("undef") /\ Done /\ Silent
  /\ trigs' = [t \in Trig |-> IF t \in Named(Command.ids) THEN None ELSE trigs[t]]
  /\ UNCHANGED <<epc, eof, linkVars, timeout, waitVars, serveVars, caseVars>>

TrigClear ==
  /\ Takes("clear") /\ Done /\ Silent
  /\ trigs' = [t \in Trig |-> IF t \in Named(Command.ids) /\ trigs[t] # None
                                THEN Fresh(trigs[t].src, trigs[t].pat) ELSE trigs[t]]
  /\ UNCHANGED <<epc, eof, linkVars, timeout, waitVars, serveVars, caseVars>>

BugUnknownIgnored ==
  /\ Takes("info") \/ Takes("count")
  /\ Done
  /\ \/ trigs[Command.id] # None /\ Answer(Command, trigs[Command.id].info)
     \/ trigs[Command.id] = None /\ Silent
  /\ UNCHANGED <<epc, eof, linkVars, trigs, timeout, waitVars, serveVars, caseVars>>
TrigAsk ==                          \* trig info, trig count
  /\ Takes("info") \/ Takes("count")
  /\ \/ /\ trigs[Command.id] # None /\ Done
        /\ Answer(Command, IF Command.op = "info" THEN trigs[Command.id].info
                                                  ELSE trigs[Command.id].n)
        /\ UNCHANGED <<epc, eof, linkVars, trigs, timeout, waitVars, serveVars, caseVars>>
     \/ trigs[Command.id] = None /\ Quit

Timeout ==
  /\ Takes("timeout") /\ Done /\ Silent
  /\ timeout' = TRUE
  /\ UNCHANGED <<epc, eof, linkVars, trigs, waitVars, serveVars, caseVars>>

PeriphDeclare ==                    \* periph <name> <address>
  /\ Takes("periph") /\ Done
  /\ Answer(Command, "info")
  /\ declared' = declared \cup {Command.periph}
  /\ Closed({Command.periph})
  /\ UNCHANGED <<epc, eof, trigs, timeout, waitVars, serveVars, caseVars>>

Open ==
  /\ Takes("open")
  /\ \/ /\ Command.periph \in declared /\ Done /\ Silent
        /\ conn' = conn \cup {Command.periph}
        /\ alive' = IF Command.periph \in conn THEN alive
                                               ELSE alive \cup {Command.periph}
        /\ UNCHANGED <<epc, eof, declared, out, inp, trigs, timeout, waitVars, serveVars,
                       caseVars>>
     \/ (OpenMayFail \/ Command.periph \notin declared) /\ Quit

Close ==
  /\ Takes("close") /\ Done
  /\ Answer(Command, {Command.periph} \cap conn)
  /\ Closed({Command.periph})
  /\ UNCHANGED <<epc, eof, declared, trigs, timeout, waitVars, serveVars, caseVars>>

Message == [kind |-> Command.kind, n |-> Command.n, call |-> Command.call]

Do ==                               \* nothing is sent if it is not open
  /\ Takes("do")
  /\ \/ /\ Command.periph \in declared /\ Done /\ Silent
        /\ inp' = [inp EXCEPT ![Command.periph] =
                     IF Command.periph \in conn \cap alive THEN Append(@, Message) ELSE @]
        /\ UNCHANGED <<epc, eof, declared, conn, out, alive, trigs, timeout, waitVars,
                       serveVars, caseVars>>
     \/ Command.periph \notin declared /\ Quit

Case ==
  /\ Takes("case")
  /\ \/ /\ ~ running /\ localSet /\ Done /\ Silent
        /\ running' = TRUE
        /\ UNCHANGED <<epc, eof, linkVars, trigs, timeout, waitVars, serveVars, localSet>>
     \/ (running \/ ~ localSet) /\ Quit

CaseDone ==
  /\ Takes("done")
  /\ \/ /\ running /\ Done /\ Answer(Command, "case")
        /\ running' = FALSE
        /\ UNCHANGED <<epc, eof, linkVars, trigs, timeout, waitVars, serveVars, localSet>>
     \/ ~ running /\ Quit

Verdict ==
  /\ Takes("verdict")
  /\ \/ /\ ~ running /\ Done /\ Silent
        /\ UNCHANGED <<epc, eof, linkVars, trigs, timeout, waitVars, serveVars, caseVars>>
     \/ running /\ Quit

Local ==
  /\ Takes("local") /\ Done /\ Silent
  /\ localSet' = TRUE
  /\ UNCHANGED <<epc, eof, linkVars, trigs, timeout, waitVars, serveVars, running>>

-----------------------------------------------------------------------------
(* WAIT: the expression is checked before the time, and both before each   *)
(* select(); every peripheral that select() reports is served before the   *)
(* next check.                                                             *)

Wait ==
  /\ Takes("wait")
  /\ LET known == \A l \in Operands(Command.expr) : trigs[l.id] # None
         timed == timeout \/ Command.timed
     IN  \/ /\ known /\ timed /\ Done /\ Silent
            /\ epc' = "check" /\ waiting' = Command /\ timeUp' = FALSE
            /\ UNCHANGED <<eof, linkVars, trigs, timeout, serveVars, caseVars>>
         \/ ~ (known /\ timed) /\ Quit

Readable(p) == p \in conn /\ (out[p] # <<>> \/ p \notin alive)

WaitOver(a) ==
  /\ Answer(waiting, a)
  /\ epc' = "input" /\ waiting' = None /\ timeUp' = FALSE
  /\ UNCHANGED <<cmds, eof, linkVars, trigs, timeout, serveVars, caseVars>>

WaitUnblock == epc = "check" /\ Holds(waiting.expr) /\ WaitOver(Raised(waiting.expr))

WaitElapsed == epc = "check" /\ ~ Holds(waiting.expr) /\ timeUp /\ WaitOver({})

WaitSelect ==
  /\ epc = "check" /\ ~ Holds(waiting.expr) /\ ~ timeUp
  /\ epc' = "select"
  /\ UNCHANGED <<pipeVars, linkVars, trigs, timeout, waitVars, serveVars, caseVars>>

WaitTimeout ==
  /\ epc = "select" /\ timeUp /\ \A p \in Periph : ~ Readable(p)
  /\ WaitOver({})

Serve(place, next) ==
  /\ epc = place
  /\ left' = {p \in Periph : Readable(p)}
  /\ left' # {}
  /\ epc' = "serve" /\ back' = next
  /\ UNCHANGED <<pipeVars, linkVars, trigs, timeout, waitVars, caseVars>>

WaitServe == Serve("select", "check")

(* run_wait_input: the command pipe has the lowest descriptor, so that the *)
(* peripherals are served only when it is empty.                           *)
InputServe == cmds = <<>> /\ ~ eof /\ Serve("input", "input")

InputEnd == epc = "input" /\ cmds = <<>> /\ eof /\ Quit

ServeLine(p) ==
  /\ epc = "serve" /\ p \in left /\ out[p] # <<>>
  /\ trigs' = Updated(p, Head(out[p]))
  /\ out' = [out EXCEPT ![p] = Tail(@)]
  /\ left' = left \ {p}
  /\ UNCHANGED <<epc, pipeVars, declared, conn, inp, alive, timeout, waitVars, back, caseVars>>

BugEofAnswers(p) ==
  /\ epc = "serve" /\ p \in left /\ out[p] = <<>>
  /\ Closed({p}) /\ Answer(None, {p})
  /\ left' = left \ {p}
  /\ UNCHANGED <<epc, cmds, eof, declared, trigs, timeout, waitVars, back, caseVars>>
ServeEof(p) ==
  /\ epc = "serve" /\ p \in left /\ out[p] = <<>>
  /\ Closed({p})
  /\ left' = left \ {p}
  /\ UNCHANGED <<epc, pipeVars, declared, trigs, timeout, waitVars, back, caseVars>>

ServeEnd ==
  /\ epc = "serve" /\ left = {}
  /\ epc' = back
  /\ UNCHANGED <<pipeVars, linkVars, trigs, timeout, waitVars, serveVars, caseVars>>

-----------------------------------------------------------------------------
Trigger == TrigDef \/ TrigUndef \/ TrigClear \/ TrigAsk
Links   == PeriphDeclare \/ Open \/ Close \/ Do
Cases   == Case \/ CaseDone \/ Verdict \/ Local
Waits   == Wait \/ WaitUnblock \/ WaitElapsed \/ WaitSelect \/ WaitTimeout \/ WaitServe
Serves  == InputServe \/ ServeEnd \/ \E p \in Periph : ServeLine(p) \/ ServeEof(p)

EngineStep == Trigger \/ Links \/ Timeout \/ Cases \/ Waits \/ Serves \/ InputEnd
              \/ Exit

(* What happens around the engine: time and the peripherals.               *)
Tick ==
  /\ waiting # None /\ ~ timeUp
  /\ timeUp' = TRUE
  /\ UNCHANGED <<epc, pipeVars, linkVars, trigs, timeout, waiting, serveVars, caseVars>>
=============================================================================
