# TestFarm in TLA+

TestFarm runs test suites against hardware and software.  A *tree* of test
cases is compiled into a Perl program; the program drives a *test engine*
(`testfarm-engine`), which owns the connections to the *peripherals* (child
processes, TCP or serial links), watches what they print and tells the script
when the lines it waits for have come.  Graphical programs run the tree, show
logs and build reports.

This directory holds TLA+ models of the parts whose correctness depends on
order and concurrency, TLC configurations that check them on small instances,
and proofs of the safety properties of every module but one for every instance.

| File | Contents |
| --- | --- |
| `Periph.tla` | the peripherals of the engine: processes, pipes, SIGCHLD, the descriptor table |
| `PeriphProofs.tla` | theorems about `Periph`, checked by TLAPS |
| `Engine.tla` | the engine as a command server: triggers, WAIT, its answers |
| `Session.tla`, `Rpc.tla` | a script with its library, the engine and the peripherals (extends `Engine`); what the synchronization pipe promises, which `Session` implements |
| `SessionProofs.tla`, `FreshProofs.tla` | theorems about `Session`: its types, its refinement of `Rpc`, the survival of the engine; that the answers are fresh |
| `Tree.tla`, `Report.tla` | a loaded test tree and the walk over it; the report of a campaign: operators, without state |
| `TreeRun.tla`, `CaseRuns.tla` | the runner, the script executor and the pipes between them (extends `Report`); what a run promises of its verdicts, which `TreeRun` implements |
| `ReportProofs.tla`, `TreeRunProofs.tla` | lemmas about `Tree` and `Report`; theorems about `TreeRun`, its refinement of `CaseRuns` among them |
| `Child.tla`, `Link.tla` | the table of child processes; the subprocess table, the links and the agents of the virtual user above it (extends `Child`) |
| `LinkProofs.tla` | theorems about `Child` and `Link` |
| `Frame.tla`, `Capture.tla` | buffers, device and comparing thread of a capture process; that process and its client (extends `Frame`) |
| `FrameTree.tla`, `Matching.tla` | frames, filters and patterns of the virtual user: operators; its main loop with the screen, the filter agent and the searching threads (extends `FrameTree`) |
| `CaptureProofs.tla` | theorems about `Frame` and `Capture` |
| `QueueLemmas.tla` | what the proofs use of sequences, of least and of greatest elements |
| `MC*.tla`, `MC*.cfg` | instances for TLC, one module per component, one configuration per run |

Definitions whose name begins with `Bug` are plausible mistakes in a definition
of the same module.  Nothing uses them; each replaces its definition to show
that a property of the runs depends on it.

## The system

Paths are relative to `src/`.

**Engine peripherals** (`core/engine/periph.c`, `periph_item.c`, `tengine.c`,
`interface/useful/sig.c`).  State: the items, their descriptors, pid and
partial line; the table from descriptors to items; the list that the SIGCHLD
handler walks.  Operations: open, close, redeclare, read, clean up, hang up,
done.  One thread, interrupted anywhere by SIGCHLD and by termination signals,
facing processes that write, fork and die on their own; a child is a copy of
the engine until it reaches `execvp`.  Correct when: table and descriptors
agree; no panic; deaths and ends of file are noticed; no line is lost or mixed;
only the process of a closed connection is signalled; nobody is left behind.

**Engine commands and WAIT** (`run.c`).  State: the command in progress, the
default peripheral, the timeout, the case that runs.  Operations: the shell
commands.  Commands come on standard input, events on the peripherals, answers
go to the WAIT synchronization output.  Hard: commands starve events; a timeout
races a late line; any failure ends the engine.

**Triggers and expressions** (`trig.c`, `listener.c`, `expr.c`).  State: a
table of patterns with a source, a counter and the last line.  Operations: def,
undef, clear, info, count, update by a line, evaluation of a WAIT condition.

**Session library** (`core/perl/Engine.pm`, `Interface.pm`, `Trig.pm`).  State:
the engine's pid, the synchronization pipe, one counter per interface.
Operations: declare, open, close, command, sync, triggers, cases.  Hard: answers
carry no request number, peripherals answer late, the engine may die.  Correct
when each request gets its own answer, sync and command return fresh lines and
the script never waits for ever.

**Logs** (`result.c`, `run.c`).  State: the global and local logs and whether a
case element is open.  Operations: local, global, case, done.  Correct when the
elements are balanced and each case goes to its local log.

**Timer** (`timer.c`).  Conversion of durations; overflow.

**Script executor** (`core/perl/Exec.pm`, `core/gui/perl_run.c`).  A request pipe
and a reply pipe between the runner and the Perl process: acknowledgement,
verdicts, manual inputs.  Hard: two replies read at once lose the second; the
end of file of the reply pipe and the death of the process are told apart from
each other; the test engine inherits the pipe and is nobody's child.

**Test tree runner** (`core/gui/tree_run.c`, `perl_run.c`, `report_progress.c`).
State: RESET, SPAWN, WAIT, RUN, INPUT or FINISHED, the current case, the step
mode, breakpoints, skips and verdicts.  Operations: start, step, abort, reset,
jump, input.  Correct when one case at most is being executed, a verdict is
credited to the case that gave it, in the tree and in the report, and the
runner never waits for a process that is gone.

**Test tree compiler** (`core/codegen`).  Links, jumps, skips, preconditions of
the tree that the runner walks.

**Result output** (`core/output`).  The XML report: elements begun and ended as
the walk moves through the tree, the log of the engine merged at the end.

**Child supervision and links** (`interface/useful/child.c`,
`interface/link/sub.c`, `link.c`, `tcpip.c`).  Tables of 8 children, 8
subprocesses and 16 links, whose entries are reused, fed by a signal handler
through a control pipe.  Correct when a death is reported once and to its owner,
an end of file disconnects its link, and a kill reaches the process meant.

**Virtual user capture** (`vu/capture`).  An agent process that films a screen:
a device with its buffers, a thread that compares each frame with the one
before, a shared frame buffer, three pipes to the client.  Correct when no
buffer has two owners, every change is announced, and each call gets its answer.

**Virtual user client** (`vu/client`).  A tree of frames, each a part of its
parent passed through filters of another process, and patterns that threads
search in them.  Correct when no change is lost while a filter or a search is
under way, a search is answered once and to its pattern, and what is removed
meanwhile is freed in the end.

**Shell and TCP server** (`interface/shell`, `interface/tcp`).  Command loop with
nested files, aliases and history; a server with a single client.

**Everything else** is user interface (`core/gui/*_gui.c`, `core/logview`,
`vu/display`), batch conversion (`core/output`, `core/report`), image processing
(`vu/filters`, `vu/common`), launchers and wizards: no state that a model would
tell more about than the code.  `PROJECT.json` lists each with its reason.

The engine reads commands written by the library; the library reads answers
written by the engine; the executor runs inside the process that uses the
library; the runner starts the executor through child supervision and learns
the engine's pid from its acknowledgement, to kill it if need be.

## Periph

| State | Code |
| --- | --- |
| `fdTab` | `periph->fd_tab` |
| `fdIn`, `fdOut`, `pid`, `buf` | `item->fd_in`, `fd_out`, `dev.proc.pid`, `buf` with `index` |
| `sigList`, `handlerSet` | `periph_item_sigchld_list`, the `sigaction` at the first open |
| `with` | `run_with` |
| `pc`, `left`, `rd`, `pass` | where the thread is in `periph_fd_set`, `run_wait_event`, `periph_close` |
| `cur`, `curFd`, `curPid`, `ret` | the open or close in progress and its caller |
| `proc`, `heirs`, `pipe`, `fdPipe`, `snap` | the kernel: processes, descendants that hold the output, pipes, descriptors, and the pids copied into a child by `fork` |
| `termed`, `missed`, `rogue`, `cut`, `late` | history, read by properties only, except that `termed` also tells whether a child that has not exec'ed was signalled |

The step of the model is what the SIGCHLD handler cannot split or need not:
`periph_item_open_proc` is `OpenFork`, `OpenPid`, `OpenList`; `periph_item_close`
is `CloseBegin` (the item leaves the list, its descriptors are closed) and
`CloseKill` (the pid is read, erased and signalled, the caller clears the table
and the default peripheral).  `periph_fd_set` takes one step per entry and pass; for
an entry that `periph_item_cleanup` gives up, `ScanDefunct` is its `poll`, and
`ScanClose` the close that follows, so that a descendant of the dead process may
write in between (`late`).  The dispatch of `select` takes one step per descriptor,
the lowest first.  `periph_item_sigchld` may run between any two steps.  When it interrupts
`select`, the code builds the set again (`scan`); when it comes between the scan
and the `select`, the code does not notice, and `SelectReady` may follow from
the old `rd`: the handler then has run while `pc` was still `scan`, just before
`ScanEnd`.

A child between `fork` and `execvp` has the handlers and the exit procedure of
the engine.  `ExecFail` is a failed `execvp`: the child falls out of the switch,
goes on as the engine, fails its own command and exits; `ChildTermed` is a child
that gets SIGTERM too early.  Both end in `ChildEnds`: SIGTERM to every process
the child believes to be its own.

`Terminate` is a termination signal at any step of the engine; it runs the exit
handler, as `CmdQuit` does, and never returns to what it interrupted.  A
termination signal during the exit handler is not modelled.

Bytes are `"chr"` or `"LF"`; `buf` keeps the set of processes whose bytes are in
the partial line, all that `NoMixedLine` needs.  Peripherals are of type PROC:
TCP and SERIAL items have one descriptor and no process, so that they only use
the paths of a PROC whose process never dies.  A `fork` or a `pipe` that fails
leaves everything as it was (`CmdOther`).

### Properties and runs

| Run | Shows | Bounds |
| --- | --- | --- |
| `MCPeriph` | `TypeOK`, `FdTabExact`, `NoPanic`, `DeathsNoticed`, `SigtermOnlyOnClose`, `NoMixedLine`, `DefaultDropped`, `NoLineLost` | 2 items, 2 descriptors, 2 processes, 1 byte each |
| `MCPeriphLive` | `NobodyForgotten`; `EofDisconnects`, `DeathDisconnects` under fairness | 1 item opened twice on 1 descriptor, 2 processes, failing execs, a termination signal |
| `MCPeriphExecFail` | `ConnectedSpared` is violated by a failed exec | 2 items |

Two items are needed for an operation on one to disturb the other, two
processes for an item to be opened twice or for a child to inherit a connection;
a byte without end of line, left by one process, is enough to mix with that of
the next.  The safety properties of the first two runs are also proved for all
bounds.

Fairness (`FairSpec`): the thread of the engine and the handler take the steps
they can, a child reaches `execvp`, and `select` returns if something stays
readable (weak fairness).  Nothing is assumed of the processes.

`select` may return for a command as well as for an output, and `run_wait_input`
serves the command and returns (`run.c:279`): commands that never pause keep the
engine from its peripherals for ever, outside a WAIT, and no fairness of the code
prevents it.  Both liveness properties therefore have `CommandsPause` as a
premise: of all the times that the engine waits while an output is readable it
serves the outputs again and again.  Without the premise TLC finds the endless
commands.  `DeathDisconnects` also assumes that a timeout or a command comes in
the end (weak fairness of `SelectDone`): without it a SIGCHLD that falls between
the scan and `select` leaves the engine asleep on the pipe of a dead process.  It
leaves out the deaths `missed` by the handler, for which the code has no remedy.

### What the code does not do

- `ConnectedSpared`: "close" closes the peripherals it names; a child whose
  `execvp` fails sends SIGTERM to all the others, and so does one that a close
  following its open at once terminates before its `execvp`.
- "Kill process (if it did not by itself)" (`periph_item.c:675`), but the item
  leaves the SIGCHLD list first: a death that is reaped after that, or before the
  item was listed, is followed by a `kill` of a pid that may be another
  process's by then.  The model has such a kill without effect.
- A line that a descendant of a dead process writes after `poll` found the output
  quiet and before the close is lost (`periph_item.c:840`, 681).  `NoLineLost`
  excepts it, by the process (`late`): the lines written before `poll` are kept.
- The exit handler misses the process in hand when a termination signal comes
  between `fork` and the assignment of the pid (`periph_item.c:516`), or between
  the end of the descriptor and the `kill`; `NobodyForgotten` excepts both (`cut`).

### Proofs

`PeriphProofs` proves `TypeOK`, `FdTabExact`, `NoPanic`, `DeathsNoticed`,
`SigtermOnlyOnClose`, `NoMixedLine`, `NobodyForgotten` as invariants of `Spec`, and
`NoLineLost` and `DefaultDropped` as properties of its steps, for any sets of
items, pids and descriptors, under `PeriphAssumption` only (descriptors are
numbers, `None` is none of the values).

None of the invariants is inductive alone.  `Table` is the invariant that the
others rest on: `TypeOK`, `FdTabExact`, `Places` (what `cur`, `curFd` and `curPid`
are at each `pc`, and that the entry being closed has left the loop) and
`LeftOpen` (the descriptors still to visit are in the table).  It is preserved
because `periph_close` clears exactly the entry that the loop has just left.
On top of it come:

- `Deaths`, for `DeathsNoticed`: an item outside the SIGCHLD list has a pid only
  in the steps where the handler counts the death as missed;
- `Signals`, for `SigtermOnlyOnClose`: each process belongs to one item, and a
  process that was signalled to none, as long as no child ran the exit handler;
- `Lines`, for `NoMixedLine`;
- `Orphans`, for `NobodyForgotten`: a living process was signalled, was cut, is
  being opened, or belongs to an item that the exit handler will meet.

Each has the three facts: it holds initially, every action keeps it (one lemma
or step per group of actions), it implies the property.  Liveness and the
violated properties are model-checked only.

## Engine, Session and Rpc

`Engine` is the command server alone: one action per shell command that changes
state or answers, the WAIT loop (`Wait`, `WaitUnblock`, `WaitElapsed`,
`WaitSelect`, `WaitTimeout`, `WaitServe`), the command loop (`InputServe`,
`InputEnd`) and the service of readable peripherals (`ServeLine`, `ServeEof`).
Its actions keep the order of the code: the condition is checked before the
time, and the time before `select`; commands are read before events; a command
that fails makes the engine forget its triggers and close the synchronization
output (`Quit`) some time before it is gone (`Exit`).  Opening and closing a
peripheral is one step here; `Periph` has the detail.

| State | Code |
| --- | --- |
| `cmds`, `eof`, `replies` | the pipe to the standard input, its end, the WAIT synchronization pipe |
| `declared`, `conn`, `alive`, `out`, `inp` | items, open items, their processes, their output and input |
| `trigs` | `trig_hash`: source, pattern, count, last line |
| `timeout`, `waiting`, `timeUp` | `run_timeout`, the WAIT in progress, whether its time elapsed |
| `left`, `back` | the loop over the descriptors that `select` reported |
| `running`, `localSet` | `run_exec_case_buf`, `result_local_path` |

A line is a kind and a number; a pattern matches a line of its kind whose number
it begins, as a regular expression without end anchor does (`Synchronization 1`
matches `Synchronization 10`).  `Scale` holds the powers of the base in which
numbers are written: those of 2 in the instances, so that the first prefixes are
met at 1, 2 and 3.  A WAIT condition is a set of alternatives of possibly negated
operands: what `expr_compile` builds.

`Session` adds the script.  A call of the library is the list of commands that it
sends, with what it does of each answer: `CommandSteps` is `Interface::command`,
with a timeout (`command`) or without (`untimed`), `OpenSteps` `Interface::open`;
either may be given a regular expression that does not compile (`illegal`).  The script runs the steps one at a time while
engine and peripherals run.  A peripheral answers its commands in order, as late
as it likes, may print on its own and may die.  `job.trusted` is what the script
may know: no command of this peripheral was given up, or sent without waiting,
since it was opened.

| Run | Shows | Bounds |
| --- | --- | --- |
| `MCSession` | `TypeOK`, `SyncFresh`, `SyncBarrier`, `CommandFresh`, `AnswerCounts`, `EngineSurvives`, and `AnswersMatch`: `Session` implements `Rpc` | 1 peripheral, 5 calls of methods, 1 spontaneous line |
| `MCSessionLive` | `ScriptNotStuck` under fairness, with the procedural functions, wrong uses and failing opens included | 3 calls |

Five calls are a declaration, an open, two commands or synchronizations that
may be given up, and one that may take their answers.  One peripheral is enough
for the properties: they relate calls to the same peripheral, and a trigger
bound to one peripheral ignores the others.

`Rpc` is the promise of the synchronization pipe: a request gets one answer, its
own, before the next request; or the service ends.  The refinement maps `asked`
to the request the script waits for and `answer` to the pipe.

Fairness: the engine runs, the script runs while it has steps, time passes.
Nothing is assumed of peripherals: a script does not hang because one does.

Two things that a method does end the engine, as any command that fails does:

- the timeout of `Interface::command` is optional, and a WAIT that has none, nor a
  default one, is refused (`run.c:748`).  A timeout that the library does not
  recognize as a number with a unit is taken for the name of a trigger
  (`Engine.pm:226`), which gives a WAIT without timeout too;
- a pattern that does not compile (`trig.c:188`).

`EngineSurvives` says that there is no third one.  A command whose pattern is
illegal is sent to nobody that waits for it, so that it counts as given up
(`owed`).

A condition satisfied by a negation is answered by a blank line (`run.c:158`),
which the code sends for a time-out, and `TrigWaitInfo` takes it for one: the
model does the same, and no property depends on it.

Not modelled in these modules: `help`, `version`, `echo`, `source`, interactive
mode, the contents of logs, the capacity of pipes.

### Proofs

`SessionProofs` and `FreshProofs` prove the six invariants and the refinement
for any sets of peripherals, triggers and calls and any number of calls and
lines, under the assumptions of the modules: the triggers of `Interface.pm` are
among the triggers, `None` is none of the values, 1 is a power of the base.
`ScriptNotStuck` stays with TLC, as all liveness does.

`IInv` is the invariant of the dialogue.  `Types` includes what a queue may hold
and that the engine has a condition exactly when it waits.  `Asking`, `Answered`
and `Pending` follow the request of the script: in the command queue, where it
is the last one and alone of those that are answered, in the WAIT in progress, or
answered, and nowhere else.  This gives `TypeOK`, and `AnswersMatch`: the initial
states map to those of `Rpc`; an action of the engine that answers is `Give`,
the script's are `Ask`, `Take` and `Abort`, a failure is `Leave`, and every other
step stutters.

`MethodsKeepEngine` is about scripts that use the methods of `Interface` only and
connections that do not fail (`~ OpenMayFail`, `Calls \subseteq Methods`; in the
other cases the engine ends, and this is what the code means): if the engine
fails, the command that it was reading is a WAIT without any timeout or the
definition of an illegal pattern (`Refused`).  `SInv` says that
every command to come is `Safe`, that is it is refused for one of these reasons or
names what is declared, and that a
trigger which a command needs will exist when the engine reads that command
(`Kept`), whatever undefinition is still in the queue.

`FInv` follows the message of a call of `command` or `sync` from the steps of the
call to the queue of commands, the input of the peripheral and its output.

- `Staged` is the list of the places in its steps where a call can be.
- `Known`, `Sends`, `Last` and `Cleared`: messages belong to calls made; those of
  the current call are at the end of what is on its way, so that once its answer
  is read, nothing older is left; a closed peripheral has nothing on its way.
- `Order`: the definition of the trigger is in the queue before the message, or
  it is executed, and nothing in the queue undoes it.
- `Told`: a trigger that counted a line while its call waits counted one of this
  call.  For `sync` this holds because of the numbers, of which the new one is
  no prefix of an older one; for `command` only if no answer is owed, which is
  `Owing` and `job.trusted`.
- `After` is what stays true once `sync` has returned.

`SyncFresh`, `SyncBarrier`, `CommandFresh` and `AnswerCounts` follow.  None of the
parts is inductive alone: `Told` needs to know which messages are there, these
need to know how far the call is, and that needs `IInv`.

## Tree, Report, TreeRun and CaseRuns

`Tree` is what `codegen_tree.c` builds and the walk that the runner does over it:
`EndJump` and `BreakJump` are the links of `tree_object_link_seq`, `NextCase` the
case that `tree_object_executed` goes to after a verdict, `Precond` the test before
a case.  `Report` is the output manager and the XML document: each of its
operations is an operator from a report to the next.  `broken` records an end tag
that does not match, or a verdict outside the element of a case.

`TreeRun` is the runner and the executor.  The handlers of `tree_run.c` and
`perl_run.c` call one another, so that each is an operator from the state it
finds to the state it leaves, and an action is one handler with all it calls.
`tree_run_go` and `tree_run_next` call each other once per skipped case; the
flag `going` says that `tree_run_go` is still to be called, and `Finish` calls it.

| State (fields of `st`) | Code |
| --- | --- |
| `state`, `stepping`, `current`, `verdict`, `brk`, `skip` | the fields of `tree_run_t` and of the cases of the tree |
| `child`, `ctl` | `pg->child`; the control pipes and their watches |
| `rep` | the output manager and its file |
| `req`, `reply`, `term` | the two control pipes and the "terminated" pipe |
| `ex`, `exCase`, `eng` | the executor, the case it serves, the test engine |
| `alive` | SIGPIPE has not ended the runner |
| `panics` | `*PANIC*` messages |
| `byStep`, `started` | history, for `StepsOnce` |

A button acts only in the states in which `tree_gui_sensitivity_exec` leaves it
enabled.  The SIGCHLD handler, the executor, the script and the test engine
move between two handlers, and the executor may die at any step, also before
the runner has stored its pid (`SigchldMissed`).

`CaseRuns` is what a run promises: one case at a time, its verdict given to it
and to no other, cases passed over only skipped, verdicts forgotten by a reset
only.  The refinement maps the case being executed to wherever it is: in the
request pipe, with the executor, or in the reply pipe.

| Run | Shows | Bounds |
| --- | --- | --- |
| `MCTreeRun` | `OneInFlight`, `ReportNested`, `VerdictsAgree`, `StepsOnce`, `TreeRun` implements `CaseRuns` (`RunsSpec`); `DeathSettles`, `RunSettles` under fairness | a tree of 4 nodes, two scenarios with a case each, one aborts if failed, the other has a precondition; breakpoints and skips on one case; a request pipe that holds one message when a button is pressed |

Two cases in different sequences are the least for which the walk ends and
begins elements at two levels and for which a verdict can go to the wrong case.

Fairness: the main loop of GTK serves every descriptor that stays ready, signals
are delivered, the executor and its script go on.  Nothing makes the operator
act, nor is a script fair to ask for an input.  For the handlers it is written
as `[]<>(not ready) \/ []<><<handler>>`, which is weak fairness without
`ENABLED`.

### Proofs

`TreeRunProofs` proves the four invariants, and `RunsSpec` step by step, for every
tree (any number of cases, sequences nested at any depth, any preconditions and
reactions to a failure), any verdicts of the scripts and of the operator, and any
bound on the request pipe.  Its assumptions: `TrAssumption` (`IsTree`: the nodes
are numbered in the order of the compiler, each below an earlier one, and the
cases are the nodes without children) and `RunAssumption` (a verdict that is given
is one of `tree_verdict_t` other than UNEXECUTED; an acknowledgement is -2 or -3).

`ReportProofs` has what its operators do.  A node comes after those above it, so
that the chain of the nodes above one is known by induction on the node, written
out with the least number of the set of counterexamples.  From it:

- every link of the walk (`EndJump`, `BreakJump`, `NextCase`) leads to a later
  case or to none (`NextCaseOf`);
- the elements that `output_xml_case` ends and begins are those below the common
  ancestor, so that the path of the document is always the line of the current
  case (`XmlCaseOf`), perhaps with a `<STDIO>` at its end (`Elements`), and closing
  ends them all (`WriteCloseOf`);
- a verdict is written once, in the element of the current case
  (`WriteVerdictOf`), and no log is merged after one that is complete (`MergeOf`).

Together these are `Sound`, which every operation on the report keeps.

`IInv` says that between two handlers a runner is `Typed`, its report sound and in
agreement with the tree except for the case under way (`Agree`), and that it is in
one of four places: `Stopped`, `Opening`, `Waiting` or `Running`.  `Running` says
who has the case: the request pipe, behind records only (`AtQueue`); the executor
(`AtScript`); a manual input, asked, shown, or answered (`AtInput`); the reply
pipe; or an executor that has died.  None of the properties is inductive without
these, since each depends on what the other process finds in the pipes: that a
verdict is for the current case follows from the request being the last
message, and that from the runner not writing another one while it waits.
`StepsOnce` needs that a start by step keeps `stepping` until a case is requested
or the walk pauses.

A handler is a composition of operators, so that its proof is one: lemmas state
what each piece leaves (`KillOf`, `RequestOf`, `ContinueOf`, `GoOnceOf`), in the middle
of a handler the runner satisfies `Walk` or `Judging` instead of the invariant,
and `WalkEnds` shows that the mutual calls of `tree_run_go` and `tree_run_next`
come to an end, in at most as many steps as there are cases; that is the
theorem which justifies that `Finish` counts them.  `Follows` then sums up what
any step may do: nothing to the run, a start, a walk that may give a verdict
first, an abort or a reset.  `StepOf` proves it for each action, and both the
invariant and the steps of `CaseRuns` follow from it (`RunsStep`); the case that
`Carried` finds in the pipes or the executor is the current one (`CarrierOf`).

`DeathSettles` and `RunSettles` are model-checked only.

Seen, and left as they are in the model:

- when the executor dies, the runner closes the report before it writes
  INCONCLUSIVE for the case that was running (`VerdictsAgree` lets the report
  lack it);
- SIGPIPE ends the runner when it writes to an executor that just died
  (`alive`; `DeathSettles` and `RunSettles` except it);
- nobody waits for the test engine, so that its log may be merged before it is
  complete, and once more afterwards (`ReportNested` demands one complete copy);
- a precondition is evaluated on the verdict of the case itself, whatever case
  it names (`Evaluate`);
- a breakpoint that stopped the walk once does not stop it again before a reset.

Not modelled here: the debugging mode of Perl, manual test actions, loading a
tree, the options that start or quit by themselves, the remote control by UDP,
which skips the rules of the buttons and so breaks `OneInFlight`.

## Child and Link

The programs that call `child_use_glib`: `child_sigchld` reaps in a signal
handler, erases the pid and writes the index of the entry to a control pipe; the
main loop reads it and calls the handler, for a subprocess `sub_sigchld`, which
writes to a second pipe, for an agent `agent_terminate`.

| State | Code |
| --- | --- |
| `tab`, `ctl` | `child_tab` (pid and handler), `child_ctrl` |
| `link`, `sub`, `sctl` | `link_tab`, `sub_tab`, `sub_ctrl` |
| `agent` | `agent_t` of the filters, the same code in the capture |
| `proc`, `fds`, `heirs` | the kernel: processes, open descriptors, processes whose output a descendant keeps open |
| `busy` | a spawn between `fork` and the assignment of the pid; `child_waitpid` |
| `signalled` | the processes that were sent SIGTERM |
| `crossed`, `stray`, `missed` | history: a death or kill reached a wrong child; the processes signalled for another; those reaped while no entry told so |

| Run | Shows | Bounds |
| --- | --- | --- |
| `MCLink` | `EntryLive`, `NobodyAdrift`, `OwnDescriptors`, `NoLostEntry`; `EofDisconnects` under fairness | 2 links, 1 agent, 2 child entries, 2 subprocess entries, 3 processes of which the first may leave its output to a descendant |
| `MCLinkKill` | `KillOwn` is violated | the same |

Two entries and three processes make entries be used again, which is where the
hazards are; with three entries and every process a `Forker` the safety
properties hold on the 794 298 states too (not a run: it takes too long with
liveness).

`KillOwn`: an entry is free before its owner has heard of the death, and since
the index that is sent is one more than that of the child found, the owner
never hears of it unless by its end of file.  What follows a kill of a wrong
child is excepted from the other properties by `crossed`.  Fairness is strong for the ends of
file, since a `child_waitpid` may come in between; the main loop polls every
descriptor each time.

`LinkProofs` proves the four invariants, for tables, links, agents and processes
in any number, under `ChildAssumption` and `LinkAssumption` (process identifiers
and entries are numbers, `None` is none of the values, an agent is not a
subprocess).  `Base` holds in every state: the types, what the command in
progress relies on, the processes that nothing names yet (`Fresh`), the fields
that go together (`Shape`), and the parts of `EntryLive` and `NoLostEntry`.
`Uncrossed` holds until a death or a kill reaches a wrong child: entries, items
and links then know each other, and nobody was ever told of a death in
`sctl`.  It needs to be stated with the index in the messages of `ctl`, since
that is where the code names the wrong entry; `FirstHandlerWrong` makes the
consequence a theorem: the first handler that the message of a death ever
reaches is that of another child.  `EofDisconnects` is model-checked only.

Also seen: `child_waitpid` started on a process that just died leaves its entry
in use for ever (`missed`); a TCP link that is killed is shut down and its
descriptor leaks (`tcpip.c:75`).  Not modelled: programs that do not use glib,
codecs, the log file, addresses.

## Frame and Capture

`Frame` is the pipeline of the agent: the device fills a buffer, the main loop
sends its number to the comparing thread, the thread returns the area that
changed and the older of its two buffers, the main loop copies the area to the
shared frame buffer and gives the buffer back.  The devices are V4L2 in
streaming mode (buffers queued to the driver), V4L2 in read/write mode, and a
sequence of files.  An image is a row of `Width` columns of two colours; what a
driver or an allocator may write is `Junk`, so that a read of a buffer that is
not its reader's shows.

| State | Code |
| --- | --- |
| `cap` | `capture_frame_t` and the descriptor of the device: buffers, the one ready, those busy, the processing counter, the pipes to and from the thread, window, period, pending full refresh |
| `thr` | the thread: its current and its previous buffer, the window it compares |
| `client`, `agent` | where the two programs are; what the agent is writing |
| `stdin`, `callback`, `update` | the pipes between them |
| `stale`, `slips` | history: columns changed and not yet seen; what went wrong with answers: `unanswered`, a request that has none; `unasked`, an answer that nobody waits for; `torn`, a message read from its middle |

| Run | Shows | Bounds |
| --- | --- | --- |
| `MCCapture` | `BuffersOwned`, `FrameShown`, `ChangesAnnounced`, `AnswersMatch` | 2 buffers, 2 columns, 2 images, each kind of device, an update pipe that holds one area, input/output errors |
| `MCCaptureLive` | `CallsReturn`, `RefreshServed` under fairness | a camera of 3 buffers in streaming mode and a file, 1 column, 1 image; a period, a refresh, an attribute set to the empty value; the agent may die |

Two buffers are the least with which frames are compared; with two columns an
area may be a part of the window.  With two buffers no third frame can come while
two are under way; `MCCaptureLive` has three, so that the refusal of a frame
(`Overload`) does happen, and `RefreshServed` is about what follows it.  With
three buffers `MCCapture` has more than 5 million states; the proofs are for any
number.  The streaming devices are those whose buffers go round: the read/write
mode is in `MCCapture` only.  `MaxReq` and `MaxAnswers` bound the requests and the
answers that are not read yet when a command of the user begins, `MaxClocks` the
clocks of a sequence of files.  No command begins after a message was read from
its middle (`torn`): what the client would read then is arbitrary.  By hand and without liveness: all the commands on a
sequence of files, with several clocks (5 million states), four images (9.7
million), a dying agent (4.2 million), no error (with commands and attributes
other than the empty one).

Fairness.  A call of the client goes on (weak).  The main loop of the agent serves each
source that is ready again and again (strong: a source is not ready while the
agent is blocked).  The thread is scheduled, the camera goes on, and the period
elapses.  Nothing is assumed of the client's service of updates, nor of the clock
of the files.

Seen, and kept in the model:

- a request for an attribute that the device has not gets no answer, and the
  client waits for ever (`capture_proc_agent.c:329`); V4L2 devices have none.
  `AnswersMatch` and `CallsReturn` except it (`unanswered`);
- `capture attr Loop=` sends an empty value (`frame_command.c:142`), which the agent
  takes for a question and answers (`capture_proc_agent.c:312`).  The client does
  not wait for it: the question for the attribute that the command asks next gets
  this answer, and every call that follows gets the one of the call before.  When the
  types differ, the client reads the header alone and fails
  (`capture_proc_interface.c:164`); the content stays in the pipe, so that the next
  header is read from the middle of a message, and a length found there may make
  the client wait.  `AnswersMatch` says where answers are until the first such one
  (`unasked`), and that it is the only cause;
- a key with a blank, in a question for an attribute, is a key and a value for the
  agent, which sets the attribute and does not answer; the model has it neither
  as a question nor as a set;
- the agent may block on a full update pipe while the client waits for its
  answer: each waits for the other.  `CallsReturn` excepts it;
- an overload is announced by a null pointer, `write` fails with EFAULT, and
  the client is never told;
- a file that changed while no buffer is free is marked as seen, and its frame
  lost (`filedev.c:281`);
- the attribute Restart starts a second clock, and skips the first file in
  synchronous mode;
- a refresh that overloads the pipeline waits for the next frame: without a
  period, and with a file that does not change, for ever.

### Proofs

`CaptureProofs` proves the four invariants for any number of buffers (two at
least), of columns and of requests, and for any images and bounds.  Its
assumptions: `FrameAssumption`; `None` is none of the values (`NoneAssumption`,
`CaptureAssumption`); and `CommandAssumption`, which is what `frame_command.c` does:
it changes the window only in `capture geometry`, where a refresh and a question
for the window follow at once.  The two properties of liveness are model-checked only.

`IInv` has a part for each place where a frame, a request or a change can be:

- `Owned`.  `Kept` says what a device makes of its buffers: those in use have an
  image, and those of a streaming device are each in one place.  `Piped` says
  that the buffers under way differ, that the busy ones are those that the
  pipes and the thread name, and that the counter is their number.  `Chained` is
  what makes it inductive: each message of the thread gives back the buffer
  that the message before brought, so the thread's previous buffer is never
  given back early.
- `Answering` and `Leaving`: as long as there was no answer too many, a request
  that is answered is the last one, and the client waits for it.  The thread, the device and the timer cannot disturb it.
- `Announced`: `ChangesAnnounced` with the area that is being written.
- `Shown`, for `FrameShown`.  `ShowsAt` is what the frame buffer will show in a
  column once the messages of the thread are copied: the column is in none of
  them and is up to date, or the last message that has it brings it.  A
  comparison with an old window breaks this; then a refresh is pending, in the
  descriptor, in the pipe to the thread or as the next request (`Critical`,
  `Windowed`), and it will compare the whole window.

The lemmas go along the calls: what each function does to a descriptor that is
`Kept` (`Feeds`), to one whose pipeline is `Piped` (`Works`), and what a step of
the thread does (`Turns`).  Each action of `Next` is then one of these with its
pipes.

Not modelled: RFB and V4L1 devices, pixel formats, the recorder, an image file
that cannot be loaded or is rewritten in place, two changes of the window during
one comparison, a failed open
(`capture_proc_interface.c:330` frees a descriptor that is still referenced, but
the client ends then).

## FrameTree and Matching

`FrameTree` has the functions of `frame.c`, `match.c`, `match_image.c`,
`match_text.c` and `filter_ext.c` as operators from one state of the program to
the next, since they call each other: an update of a frame pastes the area from
its parent, applies its filters, searches its patterns and updates its children;
the end of a search may start the next one. They are recursive, so that these
modules have no theorem. `Matching` is what calls them: the commands, the update
of the root frame by the capture, the answers of the filter agent, of the
threads and of the OCR agents.

| State (fields of `vu`) | Code |
| --- | --- |
| `fr` | `frame_t`: state, parent, window, children, number of filters and the next one, `updated`, `refresh_window`, lazy and locked, the buffer; `live`, the filters that the agent knows |
| `pt` | `pattern_t`: list or removed, frame, window, mode, the flags BUSY and REQUEST, state, where it was found now and before |
| `jobs`, `pipe` | `match_image_jobs`, `match_image_reply_pipe` |
| `agent`, `asks`, `answers` | the filter agent and its two pipes |
| `ocr` | `frame->ocr`: the OCR agent of each frame, its requests and what it writes |
| `died` | an agent died, of filters or OCR, which happens once at most |
| `crash` | a use of freed memory or of a null pointer: the program ends there |
| `pend` (variable) | what the update pipe of the capture announces |

An image is a row of cells that show nothing that is searched, the picture and a
line of text that matches, or another line that matches, with the number of
filters each went through.  A search of one cell is done at once, a
wider one by a thread per cell, as the code does for scan areas of less than
three columns and more.  A frame or pattern is used once, so that a pointer to
one that was freed shows.

| Run | Shows | Bounds |
| --- | --- | --- |
| `MCMatching` | `PatternsOwned`, `Settled`; `FramesServed` under fairness | 2 cells, 3 frames and 2 patterns ever created, four set-ups (a filtered frame over another, with the pattern on either; a lazy frame over another; a frame with a text pattern), 2 changes of the screen, 1 command at any moment, an agent may die |
| `MCMatchingText` | `TextSettled` is violated | a frame with a text pattern, two lines that match it, 3 changes of the screen, no command, no death |

Two changes are one that starts the filters or the threads and one that comes
meanwhile; one command meets any state of both. By hand, without text patterns
and liveness, 12 set-ups with the three modes: 3.25 million states, no error.
Fairness: the main loop serves each descriptor, the agents answer and the
threads end; nothing is assumed of the screen or of commands.

`TextSettled`: a line that differs from the last match ends the search in the
middle of its page; when a request is pending it begins the next search at once,
and the rest of the page counts for that one.  After a line, another one and
nothing, in this order, the text may stay APPEAR for ever.

The model stops at a crash, and the properties say nothing after it.  What the
code does there, and what the model leaves out:

- "If the frame is not in IDLE state, i.e. if a filter or a pattern matching is
  in progress on it, do not destroy it now" (`frame.c:157`): a frame waits for
  its filters, but it leaves PROCESS as soon as it has entered it, while threads
  still read its buffer (crash `unmapped`);
- removing a frame leaves the patterns of the frames below it with a pointer to
  freed memory (`frame`), a child whose removal was deferred uses its parent after
  that one is freed, and so does `frame add` if the parent is what the new name
  replaces (`parent`);
- `frame remove` without a name goes on with a list node it has freed (`list`);
- a filter agent that died leaves its frame in UPDATE and its requests write to a
  null descriptor (`agent`); started again, it knows none of the filters
  (`live`, which `Settled` asks for);
- a nested frame reads its parent's buffer at the coordinates of the root; the
  model only nests frames below one at the corner of the root (guard of
  `FrameAdd`);
- cells outside the area pasted are filtered again at each update, which shows
  with filters that are not idempotent (dilate); the model's are;
- a forced refresh of a lazy frame that is being updated is lost; `Settled` is
  about frames that are not lazy;
- `match reset` during a search counts the result of the search begun before;
- a text pattern that is removed while busy is never freed: the replies are
  looked up in the list it left (`Forsaken`);
- when an OCR agent dies the patterns it was reading stay busy; it is started
  again only when a pattern is added to the frame or removed from it, and until
  then the request of a pattern that is not busy follows a null pointer (crash
  `ocr`).

Not modelled: the XML that an OCR agent writes (`ocr.c:260` keeps the parser of a
page that its death cuts, while the model drops that page and takes the next one
as readable), the
display tool, pads, the recorder.

## Not modelled

Most of the 70 000 lines of the repository are GTK windows, XML converters,
image processing, pixel filters, Perl wizards and tables of key symbols.  They
are sequential code on data, called by one event at a time; a model of them
would repeat them.  The map therefore covers a small share of all lines, and
the larger part of the files where processes, threads, signals and pipes
meet: `periph_item.c`, `run.c`, `Interface.pm`, `Engine.pm`, `perl_run.c`,
`tree_run.c`, `Exec.pm`, `child.c`, `sub.c`, `link.c`, `agent.c`,
`capture_frame.c`, `capture_proc_*.c`, `frame.c`, `match.c`, `match_image.c`.

Small sequential functions are left to tests: durations (`timer.c`),
expressions (`expr.c`, whose parentheses lose the priority of the operator
before them), shell aliases and history, the nesting of log elements
(`result.c`), the single-client TCP server.

Some of the hazards are met by the models and excepted by the properties that
name them, since the code does not prevent them: a death that nobody waits for
and a child that signals its parent's peripherals (`missed`, `rogue` in
`Periph`), a line written between a `poll` and the close after it (`late`),
entries of the child table that are lost or reused (`crossed`, `missed` in
`Link`), a full pipe and attributes in `Capture` (`AttrSlips`, no answer to a
request), and the crash `unmapped` of `Matching`.  These properties say what
holds as long as it does not happen; `PROJECT.json` says so at each hazard.

The invariants of every module with theorems are proved.  Model-checked only are
the properties of `Matching` (`PatternsOwned`, `Settled`): the functions of
`FrameTree` call each other recursively, which the prover does not support; all
the liveness properties, as neither `ENABLED` nor fairness is within its reach;
and the three violations.

## Plan

1. The display tool and the client: two copies of the frame tree and of the
   patterns kept equal by messages.
2. `FrameTree` without recursive operators, so that `PatternsOwned` can be proved.
3. Liveness stays with TLC.
