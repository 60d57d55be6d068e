------------------------------- MODULE Periph -------------------------------
(***************************************************************************)
(* The peripherals of the Test Engine (core/engine/periph.c,               *)
(* periph_item.c and the event loop of run.c): a peripheral is a child     *)
(* process whose standard output the engine reads through a pipe.  The     *)
(* engine is one thread, interrupted at any step by its SIGCHLD handler,   *)
(* and the processes run, write and die on their own.                      *)
(***************************************************************************)
EXTENDS Naturals, Sequences, FiniteSets

CONSTANTS
  Item,          \* declared peripherals of type PROC
  Fd,            \* file descriptors the kernel may give to an input pipe
  Pid,           \* process identifiers, each used by one spawn (bounds the spawns)
  MaxBytes,      \* bound on the bytes a process writes
  MayFork,       \* may a process leave a descendant that holds its output open?
  ExecMayFail,   \* may execvp() fail?
  MayTerm,       \* may a termination signal reach the engine while it works?
  None           \* the NULL pointer, the fd -1 and the pid -1

ASSUME PeriphAssumption ==
  /\ Fd \subseteq Nat
  /\ None \notin Item /\ None \notin Fd /\ None \notin Pid
  /\ MaxBytes \in Nat
  /\ {MayFork, ExecMayFail, MayTerm} \subseteq BOOLEAN

VARIABLES
  \* the engine
  pc,            \* where the main thread is
  fdTab,         \* periph->fd_tab: the item of each descriptor
  fdIn, fdOut,   \* item->fd_in, and whether item->fd_out is open
  pid,           \* item->dev.proc.pid
  buf,           \* item->buf: the processes whose bytes are in the partial line
  with,          \* run_with, the default peripheral
  sigList,       \* periph_item_sigchld_list
  handlerSet,    \* is the SIGCHLD handler installed?
  pass, left, rd,        \* loops of periph_fd_set and run_wait_event, and the fd set
  cur, curFd, curPid, ret, \* the open or close in progress, and where it returns
  \* the kernel and the processes
  fdPipe,        \* the process whose output pipe each open descriptor reads
  proc,          \* the state of each process
  heirs,         \* processes with a live descendant that holds their output
  snap,          \* pids copied by fork() into a child that has not exec'ed
  pipe, sent,    \* unread bytes, and the number of bytes written
  sigPending,    \* is SIGCHLD pending?
  \* history
  termed,        \* processes sent SIGTERM
  missed,        \* processes reaped while no listed item had their pid
  rogue,         \* children that ran the exit handler of the engine
  cut,           \* processes whose open or close a termination signal cut short
  late           \* processes whose output got bytes after poll() found it quiet

loopVars == <<pass, left, rd>>
jobVars  == <<cur, curFd, curPid, ret>>
itemVars == <<fdTab, fdIn, fdOut, pid, buf, with, sigList>>
procVars == <<proc, heirs, snap, pipe, sent>>
histVars == <<termed, missed, rogue, cut, late>>
vars == <<pc, itemVars, handlerSet, loopVars, jobVars, fdPipe, procVars,
          sigPending, histVars>>

PC == {"scan", "defunct", "select", "dispatch", "cmd", "forked", "listed", "kill",
       "init", "quit", "exit"}
Byte == {"chr", "LF"}
ProcState == {"unborn", "forked", "alive", "zombie", "reaped"}

TypeOK ==
  /\ pc \in PC
  /\ fdTab \in [Fd -> Item \cup {None}]
  /\ fdIn \in [Item -> Fd \cup {None}]
  /\ fdOut \in [Item -> BOOLEAN]
  /\ pid \in [Item -> Pid \cup {None}]
  /\ buf \in [Item -> SUBSET Pid]
  /\ with \in Item \cup {None}
  /\ sigList \subseteq Item
  /\ handlerSet \in BOOLEAN
  /\ pass \in {1, 2} /\ left \subseteq Fd /\ rd \subseteq Fd
  /\ cur \in Item \cup {None} /\ curFd \in Fd \cup {None}
  /\ curPid \in Pid \cup {None} /\ ret \in PC
  /\ fdPipe \in [Fd -> Pid \cup {None}]
  /\ proc \in [Pid -> ProcState]
  /\ heirs \subseteq Pid
  /\ snap \in [Pid -> SUBSET Pid]
  /\ pipe \in [Pid -> Seq(Byte)]
  /\ sent \in [Pid -> Nat]
  /\ sigPending \in BOOLEAN
  /\ termed \subseteq Pid /\ missed \subseteq Pid
  /\ rogue \subseteq Pid /\ cut \subseteq Pid /\ late \subseteq Pid

Init ==
  /\ pc = "scan"
  /\ fdTab = [f \in Fd |-> None]
  /\ fdIn = [i \in Item |-> None] /\ fdOut = [i \in Item |-> FALSE]
  /\ pid = [i \in Item |-> None] /\ buf = [i \in Item |-> {}]
  /\ with = None /\ sigList = {} /\ handlerSet = FALSE
  /\ pass = 1 /\ left = {} /\ rd = {}
  /\ cur = None /\ curFd = None /\ curPid = None /\ ret = "scan"
  /\ fdPipe = [f \in Fd |-> None]
  /\ proc = [p \in Pid |-> "unborn"]
  /\ heirs = {} /\ snap = [p \in Pid |-> {}]
  /\ pipe = [p \in Pid |-> <<>>] /\ sent = [p \in Pid |-> 0]
  /\ sigPending = FALSE
  /\ termed = {} /\ missed = {} /\ rogue = {} /\ cut = {} /\ late = {}

-----------------------------------------------------------------------------
(* The kernel's view of an input pipe. *)

(* Definitions whose name starts with Bug are the mutants of the definition *)
(* that follows them; no specification uses them.                          *)
Writers(p) == proc[p] \in {"forked", "alive"} \/ p \in heirs
Readable(f) == /\ fdPipe[f] # None
               /\ pipe[fdPipe[f]] # <<>> \/ ~ Writers(fdPipe[f])
HasLine(p) == \E k \in 1 .. Len(pipe[p]) : pipe[p][k] = "LF"
Entries == {f \in Fd : fdTab[f] # None}
First(f, S) == f \in S /\ \A g \in S : f <= g

-----------------------------------------------------------------------------
(* The processes.  kill(), the exit of a process and its SIGCHLD. *)

Raised == IF handlerSet THEN TRUE ELSE sigPending

Exec(p) ==                          \* execvp() succeeds in the child
  /\ proc[p] = "forked"
  /\ proc' = [proc EXCEPT ![p] = "alive"]
  /\ snap' = [snap EXCEPT ![p] = {}]
  /\ UNCHANGED <<pc, itemVars, handlerSet, loopVars, jobVars, fdPipe, heirs,
                 pipe, sent, sigPending, histVars>>

(* A child that does not reach execvp() is still a copy of the engine: its  *)
(* exit handler closes the connections that it inherited, which sends      *)
(* SIGTERM to their processes.                                             *)
ChildEnds(p) ==
  /\ proc[p] = "forked"
  /\ proc' = [proc EXCEPT ![p] = "zombie"]
  /\ termed' = termed \cup snap[p]
  /\ snap' = [snap EXCEPT ![p] = {}]
  /\ rogue' = rogue \cup {p}
  /\ sigPending' = Raised
  /\ UNCHANGED <<pc, itemVars, handlerSet, loopVars, jobVars, fdPipe, heirs,
                 pipe, sent, missed, cut, late>>

ExecFail(p) == ExecMayFail /\ ChildEnds(p)   \* it fails its own "open" command
ChildTermed(p) == p \in termed /\ ChildEnds(p)  \* it has the engine's handlers

Write(p) ==
  /\ proc[p] = "alive" \/ p \in heirs
  /\ \E f \in Fd : fdPipe[f] = p
  /\ sent[p] < MaxBytes
  /\ \E b \in Byte : pipe' = [pipe EXCEPT ![p] = Append(@, b)]
  /\ sent' = [sent EXCEPT ![p] = @ + 1]
  /\ late' = IF pc = "defunct" /\ fdPipe[curFd] = p THEN late \cup {p} ELSE late
  /\ UNCHANGED <<pc, itemVars, handlerSet, loopVars, jobVars, fdPipe, proc,
                 heirs, snap, sigPending, termed, missed, rogue, cut>>

Fork(p) ==
  /\ MayFork
  /\ proc[p] = "alive" /\ p \notin heirs
  /\ heirs' = heirs \cup {p}
  /\ UNCHANGED <<pc, itemVars, handlerSet, loopVars, jobVars, fdPipe, proc,
                 snap, pipe, sent, sigPending, histVars>>

HeirExit(p) ==
  /\ p \in heirs
  /\ heirs' = heirs \ {p}
  /\ UNCHANGED <<pc, itemVars, handlerSet, loopVars, jobVars, fdPipe, proc,
                 snap, pipe, sent, sigPending, histVars>>

Die(p) ==
  /\ proc[p] = "alive"
  /\ proc' = [proc EXCEPT ![p] = "zombie"]
  /\ sigPending' = Raised
  /\ UNCHANGED <<pc, itemVars, handlerSet, loopVars, jobVars, fdPipe, heirs,
                 snap, pipe, sent, histVars>>

-----------------------------------------------------------------------------
(* The SIGCHLD handler: reaps every dead child and clears the pid of the   *)
(* listed item that had it.  It interrupts select(), which is then         *)
(* restarted from periph_fd_set.                                           *)

StartScan == pc' = "scan" /\ pass' = 1 /\ left' = Entries' /\ rd' = {}

Dead == {p \in Pid : proc[p] = "zombie"}
Known(p) == \E i \in sigList : pid[i] = p
BugForgetAsZero == [i \in Item |-> IF i \in sigList /\ pid[i] \in Dead THEN 0 ELSE pid[i]]
BugForgetNone   == [i \in Item |-> IF FALSE THEN None ELSE pid[i]]
Forgotten == [i \in Item |-> IF i \in sigList /\ pid[i] \in Dead THEN None ELSE pid[i]]

periph_item_sigchld ==
  /\ sigPending /\ pc # "exit"
  /\ proc' = [p \in Pid |-> IF proc[p] = "zombie" THEN "reaped" ELSE proc[p]]
  /\ pid' = Forgotten
  /\ missed' = missed \cup {p \in Dead : ~ Known(p)}
  /\ sigPending' = FALSE
  /\ UNCHANGED <<fdTab, fdIn, fdOut, buf, with, sigList, handlerSet, jobVars,
                 fdPipe, heirs, snap, pipe, sent, termed, rogue, cut, late>>
  /\ \/ pc = "select" /\ StartScan
     \/ pc # "select" /\ UNCHANGED <<pc, loopVars>>

-----------------------------------------------------------------------------
(* periph_item_close in two steps, between which the handler may run: the  *)
(* item leaves the SIGCHLD list and its descriptors are closed; then the   *)
(* process is signalled, the table entry cleared and the default           *)
(* peripheral forgotten.                                                   *)

CloseBegin(i, r) ==
  /\ sigList' = sigList \ {i}
  /\ fdOut' = [fdOut EXCEPT ![i] = FALSE]
  /\ fdIn' = [fdIn EXCEPT ![i] = None]
  /\ fdPipe' = [fdPipe EXCEPT ![fdIn[i]] = None]
  /\ pipe' = [pipe EXCEPT ![fdPipe[fdIn[i]]] = <<>>]
  /\ cur' = i /\ curFd' = fdIn[i] /\ ret' = r /\ pc' = "kill"
  /\ UNCHANGED <<fdTab, pid, buf, with, handlerSet, curPid, proc, heirs, snap,
                 sent, sigPending, histVars>>

BugForgetKill(p) == UNCHANGED termed
Kill(p) == termed' = termed \cup {p}

BugKeepEntry  == fdTab
Cleared == [fdTab EXCEPT ![curFd] = None]

BugKeepDefault == with
Default == IF with = cur /\ ret # "quit" THEN None ELSE with

CloseKill ==
  /\ pc = "kill"
  /\ \/ pid[cur] # None /\ Kill(pid[cur])
     \/ pid[cur] = None /\ UNCHANGED termed
  /\ pid' = [pid EXCEPT ![cur] = None]
  /\ fdTab' = Cleared
  /\ with' = Default
  /\ pc' = ret /\ ret' = "scan"
  /\ cur' = (IF ret = "init" THEN cur ELSE None) /\ curFd' = None
  /\ UNCHANGED <<fdIn, fdOut, buf, sigList, handlerSet, loopVars, curPid,
                 fdPipe, procVars, sigPending, missed, rogue, cut, late>>

-----------------------------------------------------------------------------
(* periph_fd_set: two passes over the table; the second one collects the   *)
(* descriptors to wait for.  An entry whose process was reaped and whose   *)
(* pipe poll() finds quiet is closed, in a step of its own: a descendant   *)
(* of the process may still write between poll() and close().              *)

BugUnpolled(i) == pid[i] = None
BugNoCleanup(i) == FALSE
Defunct(i) == pid[i] = None /\ ~ Readable(fdIn[i])

ScanDefunct(f) ==                   \* periph_item_cleanup
  /\ pc = "scan" /\ First(f, left)
  /\ Defunct(fdTab[f])
  /\ cur' = fdTab[f] /\ curFd' = f /\ pc' = "defunct"
  /\ left' = left \ {f}
  /\ UNCHANGED <<itemVars, handlerSet, pass, rd, curPid, ret, fdPipe, procVars,
                 sigPending, histVars>>

ScanClose ==                        \* run_disconnect
  /\ pc = "defunct"
  /\ CloseBegin(cur, "scan")
  /\ UNCHANGED loopVars

ScanKeep(f) ==
  /\ pc = "scan" /\ First(f, left)
  /\ ~ Defunct(fdTab[f])
  /\ left' = left \ {f}
  /\ rd' = IF pass = 2 THEN rd \cup {f} ELSE rd
  /\ UNCHANGED <<pc, itemVars, handlerSet, pass, jobVars, fdPipe, procVars,
                 sigPending, histVars>>

ScanEnd ==
  /\ pc = "scan" /\ left = {}
  /\ \/ pass = 1 /\ pass' = 2 /\ left' = Entries /\ rd' = {} /\ UNCHANGED pc
     \/ pass = 2 /\ pc' = "select" /\ UNCHANGED loopVars
  /\ UNCHANGED <<itemVars, handlerSet, jobVars, fdPipe, procVars,
                 sigPending, histVars>>

-----------------------------------------------------------------------------
(* select() and the dispatch of the descriptors it found readable.         *)

SelectReady ==
  /\ pc = "select"
  /\ left' = {f \in rd : Readable(f)}
  /\ left' # {}
  /\ pc' = "dispatch"
  /\ UNCHANGED <<itemVars, handlerSet, pass, rd, jobVars, fdPipe, procVars,
                 sigPending, histVars>>

SelectDone ==                       \* a timeout, or a command to execute
  /\ pc = "select"
  /\ pc' = "cmd"
  /\ UNCHANGED <<itemVars, handlerSet, loopVars, jobVars, fdPipe, procVars,
                 sigPending, histVars>>

(* run_wait_event_process: one read of the item.  A complete line empties  *)
(* the buffer and goes to the triggers; bytes without end of line stay in  *)
(* it; an empty read means that the peer is gone.                          *)
FirstLF(s, n) == s[n] = "LF" /\ \A j \in 1 .. n - 1 : s[j] # "LF"

DispatchLine(f) ==
  /\ pc = "dispatch" /\ First(f, left)
  /\ fdTab[f] # None
  /\ \E n \in 1 .. Len(pipe[fdPipe[f]]) :
       /\ FirstLF(pipe[fdPipe[f]], n)
       /\ pipe' = [pipe EXCEPT ![fdPipe[f]] = SubSeq(@, n + 1, Len(@))]
  /\ buf' = [buf EXCEPT ![fdTab[f]] = {}]
  /\ left' = left \ {f}
  /\ UNCHANGED <<pc, fdTab, fdIn, fdOut, pid, with, sigList, handlerSet, pass,
                 rd, jobVars, fdPipe, proc, heirs, snap, sent, sigPending,
                 histVars>>

DispatchPart(f) ==
  /\ pc = "dispatch" /\ First(f, left)
  /\ fdTab[f] # None /\ pipe[fdPipe[f]] # <<>> /\ ~ HasLine(fdPipe[f])
  /\ pipe' = [pipe EXCEPT ![fdPipe[f]] = <<>>]
  /\ buf' = [buf EXCEPT ![fdTab[f]] = @ \cup {fdPipe[f]}]
  /\ left' = left \ {f}
  /\ UNCHANGED <<pc, fdTab, fdIn, fdOut, pid, with, sigList, handlerSet, pass,
                 rd, jobVars, fdPipe, proc, heirs, snap, sent, sigPending,
                 histVars>>

BugReadAgain(f) ==                  \* reads the same descriptor until nothing comes
  /\ pc = "dispatch" /\ First(f, left)
  /\ fdTab[f] # None /\ pipe[fdPipe[f]] = <<>>
  /\ CloseBegin(fdTab[f], "dispatch")
  /\ UNCHANGED loopVars
BugIgnoreEof(f) ==                  \* takes an empty read for "nothing yet"
  /\ pc = "dispatch" /\ First(f, left)
  /\ fdTab[f] # None /\ pipe[fdPipe[f]] = <<>>
  /\ left' = left \ {f}
  /\ UNCHANGED <<pc, itemVars, handlerSet, pass, rd, jobVars, fdPipe, procVars,
                 sigPending, histVars>>
DispatchEof(f) ==
  /\ pc = "dispatch" /\ First(f, left)
  /\ fdTab[f] # None /\ pipe[fdPipe[f]] = <<>>
  /\ CloseBegin(fdTab[f], "dispatch")
  /\ left' = left \ {f} /\ UNCHANGED <<pass, rd>>

DispatchEnd ==
  /\ pc = "dispatch" /\ left = {}
  /\ UNCHANGED <<itemVars, handlerSet, jobVars, fdPipe, procVars, sigPending,
                 histVars>>
  /\ StartScan

-----------------------------------------------------------------------------
(* The commands open, close, periph, with and the end of the engine.       *)
(* periph_item_open_proc takes three steps: fork, the pid and descriptors, *)
(* and only then the SIGCHLD list and the table.                           *)

OpenFork(i, f, p) ==
  /\ pc = "cmd" /\ fdIn[i] = None
  /\ fdPipe[f] = None /\ proc[p] = "unborn"
  /\ proc' = [proc EXCEPT ![p] = "forked"]
  /\ snap' = [snap EXCEPT ![p] = {pid[j] : j \in {k \in Item : fdIn[k] # None}}
                                   \ {None}]
  /\ fdPipe' = [fdPipe EXCEPT ![f] = p]
  /\ cur' = i /\ curFd' = f /\ curPid' = p /\ pc' = "forked"
  /\ UNCHANGED <<itemVars, handlerSet, loopVars, ret, heirs, pipe, sent,
                 sigPending, histVars>>

OpenPid ==
  /\ pc = "forked"
  /\ pid' = [pid EXCEPT ![cur] = curPid]
  /\ fdIn' = [fdIn EXCEPT ![cur] = curFd]
  /\ fdOut' = [fdOut EXCEPT ![cur] = TRUE]
  /\ pc' = "listed"
  /\ UNCHANGED <<fdTab, buf, with, sigList, handlerSet, loopVars, jobVars,
                 fdPipe, procVars, sigPending, histVars>>

BugKeepBuf == buf
EmptyBuf == [buf EXCEPT ![cur] = {}]

OpenList ==
  /\ pc = "listed"
  /\ handlerSet' = (handlerSet \/ sigList = {})
  /\ sigList' = sigList \cup {cur}
  /\ buf' = EmptyBuf
  /\ fdTab' = [fdTab EXCEPT ![curFd] = cur]
  /\ cur' = None /\ curFd' = None /\ curPid' = None
  /\ UNCHANGED <<fdIn, fdOut, pid, with, ret, fdPipe, procVars, sigPending,
                 histVars>>
  /\ StartScan

CmdClose(i) ==                      \* close <periph>; silent if it is not open
  /\ pc = "cmd" /\ fdIn[i] # None
  /\ CloseBegin(i, "scan")
  /\ pass' = 1 /\ left' = Entries \ {fdIn[i]} /\ rd' = {}

CmdRedeclare(i) ==                  \* periph <periph> <address>: close, then init
  /\ pc = "cmd" /\ fdIn[i] # None
  /\ CloseBegin(i, "init")
  /\ UNCHANGED loopVars

Redeclare(i) ==                     \* periph_item_init on the closed item
  /\ fdIn' = [fdIn EXCEPT ![i] = None]
  /\ fdOut' = [fdOut EXCEPT ![i] = FALSE]
  /\ buf' = [buf EXCEPT ![i] = {}]
  /\ pid' = [pid EXCEPT ![i] = None]
  /\ cur' = None
  /\ UNCHANGED <<fdTab, with, sigList, handlerSet, curFd, curPid, ret, fdPipe,
                 procVars, sigPending, histVars>>
  /\ StartScan

RedeclareInit == pc = "init" /\ Redeclare(cur)

CmdRedeclareClosed(i) == pc = "cmd" /\ fdIn[i] = None /\ Redeclare(i)

CmdWith(i) ==
  /\ pc = "cmd"
  /\ with' = i
  /\ UNCHANGED <<fdTab, fdIn, fdOut, pid, buf, sigList, handlerSet, jobVars,
                 fdPipe, procVars, sigPending, histVars>>
  /\ StartScan

CmdOther ==                         \* another command, WAIT, or an open that fails
  /\ pc = "cmd"
  /\ UNCHANGED <<itemVars, handlerSet, jobVars, fdPipe, procVars, sigPending,
                 histVars>>
  /\ StartScan

Listed(i) == \E f \in Entries : fdTab[f] = i
BugHangupKills ==
  /\ fdOut' = [i \in Item |-> fdOut[i] /\ ~ Listed(i)]
  /\ termed' = termed \cup ({pid[i] : i \in Item} \ {None})
Hangup == fdOut' = [i \in Item |-> fdOut[i] /\ ~ Listed(i)] /\ UNCHANGED termed

(* The end of the engine, a command it fails and a termination signal run  *)
(* the same exit handler: it hangs up everyone, closes the entries of the  *)
(* table, then the items that are still open.  What the signal interrupted *)
(* is not resumed.                                                         *)
Quit ==
  /\ Hangup
  /\ pc' = "quit"
  /\ cur' = None /\ curFd' = None /\ curPid' = None /\ ret' = "scan"
  /\ UNCHANGED <<fdTab, fdIn, pid, buf, with, sigList, handlerSet, loopVars,
                 fdPipe, procVars, sigPending, missed, rogue, late>>

CmdQuit == pc = "cmd" /\ Quit /\ UNCHANGED cut

Ending == pc \in {"quit", "exit"} \/ (pc = "kill" /\ ret = "quit")

InHand == CASE pc = "forked" -> {curPid}
            [] pc = "kill"   -> {pid[cur]} \ {None}
            [] OTHER         -> {}

Terminate ==                        \* SIGTERM, SIGHUP, SIGINT, SIGQUIT
  /\ MayTerm /\ ~ Ending
  /\ Quit
  /\ cut' = cut \cup InHand

QuitClose(f) ==
  /\ pc = "quit" /\ First(f, Entries)
  /\ fdIn[fdTab[f]] # None
  /\ CloseBegin(fdTab[f], "quit")
  /\ UNCHANGED loopVars

QuitSkip(f) ==                      \* its close was interrupted half-way
  /\ pc = "quit" /\ First(f, Entries)
  /\ fdIn[fdTab[f]] = None
  /\ fdTab' = [fdTab EXCEPT ![f] = None]
  /\ UNCHANGED <<pc, fdIn, fdOut, pid, buf, with, sigList, handlerSet, loopVars,
                 jobVars, fdPipe, procVars, sigPending, histVars>>

QuitItem(i) ==                      \* its open was interrupted half-way
  /\ pc = "quit" /\ Entries = {}
  /\ fdIn[i] # None
  /\ CloseBegin(i, "quit")
  /\ UNCHANGED loopVars

QuitEnd ==                          \* the kernel closes what is left
  /\ pc = "quit" /\ Entries = {} /\ \A i \in Item : fdIn[i] = None
  /\ pc' = "exit"
  /\ fdPipe' = [f \in Fd |-> None]
  /\ pipe' = [p \in Pid |-> <<>>]
  /\ UNCHANGED <<itemVars, handlerSet, loopVars, jobVars, proc, heirs, snap, sent,
                 sigPending, histVars>>

-----------------------------------------------------------------------------
Process(p) == \/ Exec(p) \/ ExecFail(p) \/ ChildTermed(p)
              \/ Write(p) \/ Fork(p) \/ HeirExit(p) \/ Die(p)

(* What the main thread does by itself once it has a command to run. *)
Engine ==
  \/ CloseKill \/ ScanClose \/ ScanEnd \/ DispatchEnd \/ OpenPid \/ OpenList \/ CmdOther
  \/ \E f \in Fd : ScanDefunct(f) \/ ScanKeep(f) \/ DispatchLine(f)
                   \/ DispatchPart(f) \/ DispatchEof(f)
                   \/ QuitClose(f) \/ QuitSkip(f)
  \/ \E i \in Item : QuitItem(i)
  \/ RedeclareInit \/ QuitEnd

Command ==
  \/ \E i \in Item, f \in Fd, p \in Pid : OpenFork(i, f, p)
  \/ \E i \in Item : CmdClose(i) \/ CmdRedeclare(i) \/ CmdRedeclareClosed(i)
  \/ \E i \in Item \cup {None} : CmdWith(i)
  \/ CmdQuit

Next ==
  \/ \E p \in Pid : Process(p)
  \/ periph_item_sigchld
  \/ Engine
  \/ SelectReady
  \/ SelectDone
  \/ Command
  \/ Terminate

Spec == Init /\ [][Next]_vars

(* The engine's thread and its handler run; a child reaches execvp();      *)
(* select() returns when a descriptor stays readable.                      *)
Fairness ==
  /\ WF_vars(Engine)
  /\ WF_vars(periph_item_sigchld)
  /\ \A p \in Pid : WF_vars(Exec(p))
  /\ WF_vars(SelectReady)

FairSpec == Spec /\ Fairness

-----------------------------------------------------------------------------
(* The fd table mirrors the descriptors that the items and the kernel hold *)
(* (periph_open, periph_close) until the engine ends: no descriptor leaks, *)
(* none is shared, and an entry outlives its descriptor only inside        *)
(* periph_close.                                                           *)
FdTabExact ==
  \/ Ending
  \/ /\ \A i \in Item : fdIn[i] # None =>
           fdTab[fdIn[i]] = i \/ (pc = "listed" /\ i = cur /\ fdIn[i] = curFd)
     /\ \A f \in Fd : fdTab[f] # None =>
           fdIn[fdTab[f]] = f \/ (pc = "kill" /\ f = curFd /\ fdTab[f] = cur)
     /\ \A f \in Fd : fdPipe[f] # None =>
           (\E i \in Item : fdIn[i] = f) \/ (pc = "forked" /\ f = curFd)
     /\ \A i \in Item : fdIn[i] # None => fdPipe[fdIn[i]] # None

(* The two panics of run.c that "should never occur" do not: every         *)
(* descriptor that select() reported still has its item when it is served, *)
(* and every item being disconnected still has its entry.                  *)
NoPanic ==
  /\ pc = "dispatch" => \A f \in left : fdTab[f] # None
  /\ pc = "kill" /\ ~ Ending => fdTab[curFd] = cur

(* A line handed to the triggers holds bytes of one process only: what a   *)
(* previous process of the peripheral left without end of line is dropped. *)
NoMixedLine ==
  \A i \in Item : fdIn[i] # None /\ ~ (pc = "listed" /\ i = cur) /\ ~ Ending
                    => buf[i] \subseteq {fdPipe[fdIn[i]]}

(* The engine forgets the pid of a process as soon as it reaps it, unless  *)
(* the handler ran while the item was not in the SIGCHLD list.             *)
DeathsNoticed ==
  \A i \in Item : pid[i] # None /\ proc[pid[i]] = "reaped" => pid[i] \in missed

(* When the engine disconnects a peripheral by itself, it has handed over  *)
(* every complete line, but one that a descendant of the dead process      *)
(* wrote after poll() had found the output quiet.                          *)
NoLineLost ==
  [][ \A i \in Item :
        fdIn[i] # None /\ fdIn'[i] = None /\ pc \in {"defunct", "dispatch"}
          => \/ ~ HasLine(fdPipe[fdIn[i]])
             \/ fdPipe[fdIn[i]] \in late /\ proc[fdPipe[fdIn[i]]] = "reaped" ]_vars

(* A peripheral that leaves the table while the engine goes on, whatever   *)
(* closed it, is no longer the default target of "do" and "trig def".      *)
DefaultDropped ==
  [][ \A f \in Fd : fdTab[f] # None /\ fdTab'[f] = None /\ pc' # "quit"
        => with' # fdTab[f] ]_vars

(* As long as a peripheral is open nobody signals its process: SIGTERM is  *)
(* for the connections that the engine closes, or that a child of the      *)
(* engine believed to be its own.                                          *)
ConnectedSpared ==
  \A i \in Item : fdIn[i] # None /\ pid[i] # None => pid[i] \notin termed
SigtermOnlyOnClose == rogue = {} => ConnectedSpared

(* "Abort peripheral links": when the engine is gone, each process that it *)
(* started has died or was signalled, except one that a termination signal *)
(* caught between two steps of its open or of its close.                   *)
NobodyForgotten ==
  pc = "exit" => \A p \in Pid : proc[p] \in {"forked", "alive"} => p \in termed \cup cut

(* Commands are served before peripherals (run_wait_input returns at its   *)
(* descriptor, the lowest one), so nothing is promised under commands      *)
(* without end.  What is promised is for an engine that, of all the times  *)
(* it waits while an output is readable, serves the outputs again and      *)
(* again: the commands pause, or some are WAITs, which look at the         *)
(* peripherals only.                                                       *)
CommandsPause == SF_vars(SelectReady)

(* A peripheral whose output is at end of file is eventually disconnected. *)
EofDisconnects ==
  CommandsPause =>
    \A f \in Fd, p \in Pid :
      fdPipe[f] = p /\ ~ Writers(p) ~> fdPipe[f] # p

(* A process that died is eventually disconnected, even though a           *)
(* descendant keeps its output open, if its death was noticed and select() *)
(* does not block for ever: a timeout or a command comes.                  *)
DeathDisconnects ==
  CommandsPause /\ WF_vars(SelectDone) =>
    \A f \in Fd, p \in Pid :
      fdPipe[f] = p /\ proc[p] = "reaped" /\ p \notin missed ~> fdPipe[f] # p
=============================================================================
