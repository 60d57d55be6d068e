---------------------------- MODULE PeriphProofs ----------------------------
(***************************************************************************)
(* Proofs about Periph for every set of peripherals, descriptors and       *)
(* processes.                                                              *)
(***************************************************************************)
EXTENDS Periph, TLAPS

Loops == {"scan", "dispatch"}

(* Where the main thread is determines what it holds in cur, curFd and     *)
(* curPid, and how far the table lags behind the descriptors.              *)
Places ==
  /\ pc = "kill" =>
       /\ cur \in Item /\ curFd \in Fd
       /\ fdIn[cur] = None
       /\ ret # "quit" => fdTab[curFd] = cur
       /\ ret \in {"scan", "dispatch", "init", "quit"}
       /\ ret \in Loops => curFd \notin left
  /\ pc = "defunct" =>
       /\ cur \in Item /\ curFd \in Fd
       /\ fdIn[cur] = curFd /\ fdTab[curFd] = cur /\ curFd \notin left
  /\ pc \in {"forked", "listed"} => cur \in Item /\ curFd \in Fd /\ curPid \in Pid
  /\ pc = "forked" => /\ fdIn[cur] = None /\ fdPipe[curFd] = curPid
                      /\ \A i \in Item : fdIn[i] # curFd
  /\ pc = "listed" => fdIn[cur] = curFd /\ fdTab[curFd] = None
  /\ pc = "init" => cur \in Item /\ fdIn[cur] = None
  /\ pc = "exit" => \A i \in Item : fdIn[i] = None

(* The descriptors still to visit in a loop are open.                      *)
LeftOpen ==
  pc \in Loops \cup {"defunct"} \/ (pc = "kill" /\ ret \in Loops) => left \subseteq Entries

Table == TypeOK /\ Places /\ LeftOpen /\ FdTabExact

LEMMA InitTable == Init => Table
<1> SUFFICES ASSUME Init PROVE Table
  OBVIOUS
<1> USE PeriphAssumption DEF Init
<1>1. pipe \in [Pid -> Seq(Byte)]
  <2>1. <<>> \in Seq(Byte)
    OBVIOUS
  <2> QED BY <2>1
<1>2. /\ fdTab \in [Fd -> Item \cup {None}] /\ fdIn \in [Item -> Fd \cup {None}]
      /\ fdOut \in [Item -> BOOLEAN] /\ pid \in [Item -> Pid \cup {None}]
      /\ buf \in [Item -> SUBSET Pid] /\ fdPipe \in [Fd -> Pid \cup {None}]
      /\ proc \in [Pid -> ProcState] /\ snap \in [Pid -> SUBSET Pid]
      /\ sent \in [Pid -> Nat]
  BY DEF ProcState
<1>3. TypeOK
  BY <1>1, <1>2 DEF TypeOK, PC
<1>4. Places /\ LeftOpen
  BY DEF Places, LeftOpen, Loops
<1>5. FdTabExact
  BY DEF FdTabExact, Ending
<1> QED BY <1>3, <1>4, <1>5 DEF Table

(* What the processes and the handler do leaves the table alone.           *)
LEMMA ProcessTable ==
  ASSUME Table, NEW p \in Pid, Process(p)
  PROVE  Table'
<1> USE PeriphAssumption DEF procVars, histVars, itemVars, loopVars, jobVars
<1>1. /\ UNCHANGED <<pc, itemVars, handlerSet, loopVars, jobVars, fdPipe, missed, cut>>
      /\ sigPending' \in BOOLEAN
  BY DEF Process, Exec, ExecFail, ChildTermed, ChildEnds, Write, Fork, HeirExit, Die, Raised, Table, TypeOK
<1>2. proc' \in [Pid -> ProcState]
  <2>1. \/ proc' = proc
        \/ \E x \in ProcState : proc' = [proc EXCEPT ![p] = x]
    BY DEF Process, Exec, ExecFail, ChildTermed, ChildEnds, Write, Fork, HeirExit, Die,
           ProcState
  <2>2. proc \in [Pid -> ProcState]
    BY DEF Table, TypeOK
  <2>3. ASSUME NEW x \in ProcState, proc' = [proc EXCEPT ![p] = x]
        PROVE  proc' \in [Pid -> ProcState]
    BY <2>2, <2>3
  <2> QED BY <2>1, <2>2, <2>3
<1>3. heirs' \subseteq Pid
  BY DEF Process, Exec, ExecFail, ChildTermed, ChildEnds, Write, Fork, HeirExit, Die, Table, TypeOK
<1>4. snap' \in [Pid -> SUBSET Pid]
  <2>1. snap' = snap \/ \E S \in SUBSET Pid : snap' = [snap EXCEPT ![p] = S]
    BY DEF Process, Exec, ExecFail, ChildTermed, ChildEnds, Write, Fork, HeirExit, Die
  <2>2. snap \in [Pid -> SUBSET Pid]
    BY DEF Table, TypeOK
  <2> QED BY <2>1, <2>2
<1>5. sent' \in [Pid -> Nat]
  <2>1. sent' = sent \/ sent' = [sent EXCEPT ![p] = sent[p] + 1]
    BY DEF Process, Exec, ExecFail, ChildTermed, ChildEnds, Write, Fork, HeirExit, Die
  <2>2. sent \in [Pid -> Nat] /\ sent[p] + 1 \in Nat
    BY DEF Table, TypeOK
  <2> QED BY <2>1, <2>2
<1>6. pipe' \in [Pid -> Seq(Byte)]
  <2>1. CASE Write(p)
    <3>1. PICK b \in Byte : pipe' = [pipe EXCEPT ![p] = Append(@, b)]
      BY <2>1 DEF Write
    <3>2. Append(pipe[p], b) \in Seq(Byte)
      BY DEF Table, TypeOK
    <3> QED BY <3>1, <3>2 DEF Table, TypeOK
  <2>2. CASE ~ Write(p)
    BY <2>2 DEF Process, Exec, ExecFail, ChildTermed, ChildEnds, Fork, HeirExit, Die, Table, TypeOK
  <2> QED BY <2>1, <2>2
<1>7. termed' \subseteq Pid /\ rogue' \subseteq Pid /\ late' \subseteq Pid
  BY DEF Process, Exec, ExecFail, ChildTermed, ChildEnds, Write, Fork, HeirExit, Die, Table, TypeOK
<1>8. TypeOK'
  BY <1>1, <1>2, <1>3, <1>4, <1>5, <1>6, <1>7 DEF Table, TypeOK
<1>9. Places' /\ LeftOpen' /\ FdTabExact'
  BY <1>1 DEF Table, Places, LeftOpen, FdTabExact, Ending, Entries
<1> QED BY <1>8, <1>9 DEF Table

LEMMA HandlerTable ==
  ASSUME Table, periph_item_sigchld
  PROVE  Table'
<1> USE PeriphAssumption DEF loopVars, jobVars, periph_item_sigchld
<1>1. pid' \in [Item -> Pid \cup {None}] /\ missed' \subseteq Pid
  BY DEF Forgotten, Dead, Table, TypeOK
<1>2. proc' \in [Pid -> ProcState]
  BY DEF Table, TypeOK, ProcState
<1>3. pc' \in PC /\ pass' \in {1, 2} /\ left' \subseteq Fd /\ rd' \subseteq Fd
  BY DEF StartScan, Entries, Table, TypeOK, PC
<1>4. TypeOK'
  BY <1>1, <1>2, <1>3 DEF Table, TypeOK
<1>5. Places' /\ LeftOpen' /\ FdTabExact'
  BY DEF Table, Places, LeftOpen, FdTabExact, Ending, StartScan, Entries
<1> QED BY <1>4, <1>5 DEF Table

(* The first half of a close.                                              *)
LEMMA CloseBeginTable ==
  ASSUME Table, NEW i \in Item, fdIn[i] # None,
         pc \in {"defunct", "dispatch", "cmd", "quit"},
         NEW r \in {"scan", "dispatch", "init", "quit"},
         r = "quit" <=> pc = "quit",
         CloseBegin(i, r),
         pass' = pass \/ pass' = 1, rd' = rd \/ rd' = {},
         left' \subseteq Fd,
         r \in Loops => left' \subseteq Entries \ {fdIn[i]}
  PROVE  Table'
<1> USE PeriphAssumption DEF procVars, histVars, CloseBegin
<1>1. fdIn[i] \in Fd /\ (pc # "quit" => fdTab[fdIn[i]] = i)
  BY DEF Table, TypeOK, FdTabExact, Ending
<1>2. pipe' \in [Pid -> Seq(Byte)]
  <2>1. <<>> \in Seq(Byte)
    OBVIOUS
  <2> QED BY <2>1 DEF Table, TypeOK
<1>3. /\ fdOut' \in [Item -> BOOLEAN] /\ fdIn' \in [Item -> Fd \cup {None}]
      /\ fdPipe' \in [Fd -> Pid \cup {None}]
  BY DEF Table, TypeOK
<1>4. TypeOK'
  <2>1. pc' \in PC /\ pass' \in {1, 2} /\ rd' \subseteq Fd /\ ret' \in PC
    BY DEF Table, TypeOK, PC
  <2>2. cur' \in Item \cup {None} /\ curFd' \in Fd \cup {None} /\ curPid' \in Pid \cup {None}
    BY <1>1 DEF Table, TypeOK
  <2>3. sigList' \subseteq Item /\ heirs' \subseteq Pid
    BY DEF Table, TypeOK
  <2>4. UNCHANGED <<fdTab, pid, buf, with, handlerSet, proc, snap, sent, sigPending, termed, missed,
                    rogue, cut, late>>
    OBVIOUS
  <2> HIDE DEF CloseBegin
  <2> QED BY <1>2, <1>3, <2>1, <2>2, <2>3, <2>4 DEF Table, TypeOK
<1>5. Places' /\ LeftOpen'
  BY <1>1 DEF Table, TypeOK, Places, LeftOpen, Entries, Loops
<1>6. FdTabExact'
  BY <1>1 DEF Table, TypeOK, FdTabExact, Ending
<1> QED BY <1>4, <1>5, <1>6 DEF Table

(* An entry of the table belongs to an open item, when no close is in      *)
(* progress and the engine does not end.                                   *)
LEMMA EntryOpen ==
  ASSUME Table, pc # "kill", ~ Ending, NEW f \in Entries
  PROVE  fdTab[f] \in Item /\ fdIn[fdTab[f]] = f /\ f \in Fd /\ fdPipe[f] \in Pid
<1>1. f \in Fd /\ fdTab[f] \in Item
  BY DEF Table, TypeOK, Entries
<1>2. fdIn[fdTab[f]] = f
  BY <1>1 DEF Table, FdTabExact, Entries
<1>3. fdPipe[f] # None
  BY <1>1, <1>2, PeriphAssumption DEF Table, FdTabExact
<1> QED BY <1>1, <1>2, <1>3 DEF Table, TypeOK

LEMMA CloseKillTable ==
  ASSUME Table, CloseKill
  PROVE  Table'
<1> USE PeriphAssumption DEF loopVars, procVars, CloseKill
<1>1. /\ cur \in Item /\ curFd \in Fd /\ fdIn[cur] = None
      /\ ret # "quit" => fdTab[curFd] = cur
      /\ ret \in {"scan", "dispatch", "init", "quit"}
  BY DEF Table, Places
<1>2. termed' \subseteq Pid
  BY <1>1 DEF Kill, Table, TypeOK
<1>3. fdTab' \in [Fd -> Item \cup {None}] /\ pid' \in [Item -> Pid \cup {None}]
  BY DEF Cleared, Table, TypeOK
<1>4. with' \in Item \cup {None} /\ pc' \in PC /\ ret' \in PC
  BY <1>1 DEF Default, PC, Table, TypeOK
<1>5. TypeOK'
  BY <1>1, <1>2, <1>3, <1>4 DEF Table, TypeOK
<1>6. Places' /\ LeftOpen'
  BY <1>1 DEF Cleared, Table, TypeOK, Places, LeftOpen, Entries, Loops
<1>7. FdTabExact'
  BY <1>1 DEF Cleared, Table, TypeOK, FdTabExact, Ending
<1> QED BY <1>5, <1>6, <1>7 DEF Table

(* The three steps of an open.                                             *)
LEMMA OpenTable ==
  ASSUME Table,
         \/ \E i \in Item, f \in Fd, p \in Pid : OpenFork(i, f, p)
         \/ OpenPid
         \/ OpenList
  PROVE  Table'
<1> USE PeriphAssumption DEF itemVars, loopVars, jobVars, procVars, histVars
<1>1. ASSUME NEW i \in Item, NEW f \in Fd, NEW p \in Pid, OpenFork(i, f, p)
      PROVE  Table'
  <2> USE <1>1 DEF OpenFork
  <2> DEFINE opened == {pid[j] : j \in {k \in Item : fdIn[k] # None}} \ {None}
  <2>1. /\ proc' \in [Pid -> ProcState] /\ fdPipe' \in [Fd -> Pid \cup {None}]
        /\ snap' \in [Pid -> SUBSET Pid]
    <3>1. opened \in SUBSET Pid
      BY DEF Table, TypeOK
    <3>2. snap' = [snap EXCEPT ![p] = opened]
      OBVIOUS
    <3> HIDE DEF opened
    <3> QED BY <3>1, <3>2 DEF Table, TypeOK, ProcState
  <2>2. TypeOK'
    BY <2>1 DEF Table, TypeOK, PC
  <2>3. Places' /\ LeftOpen'
    BY DEF Table, TypeOK, Places, LeftOpen, FdTabExact, Ending, Loops
  <2>4. /\ \A g \in Fd : fdPipe'[g] = IF g = f THEN p ELSE fdPipe[g]
        /\ \A j \in Item : fdIn[j] # None => fdIn[j] \in Fd /\ fdIn[j] # f
        /\ pc = "cmd" /\ pc' = "forked" /\ curFd' = f /\ p # None
        /\ UNCHANGED <<fdTab, fdIn>>
    <3>1. \A g \in Fd : fdPipe'[g] = IF g = f THEN p ELSE fdPipe[g]
      BY DEF Table, TypeOK
    <3>2. \A j \in Item : fdIn[j] # None => fdIn[j] \in Fd /\ fdIn[j] # f
      BY DEF Table, TypeOK, FdTabExact, Ending
    <3>3. p # None
      OBVIOUS
    <3> QED BY <3>1, <3>2, <3>3
  <2>5. FdTabExact'
    BY <2>4 DEF Table, FdTabExact, Ending
  <2> QED BY <2>2, <2>3, <2>5 DEF Table
<1>2. CASE OpenPid
  <2> USE <1>2 DEF OpenPid
  <2>1. cur \in Item /\ curFd \in Fd /\ curPid \in Pid
    BY DEF Table, Places
  <2>2. TypeOK'
    BY <2>1 DEF Table, TypeOK, PC
  <2>3. Places' /\ LeftOpen'
    BY <2>1 DEF Table, TypeOK, Places, LeftOpen, FdTabExact, Ending, Loops
  <2>4. FdTabExact'
    BY <2>1 DEF Table, TypeOK, Places, FdTabExact, Ending
  <2> QED BY <2>2, <2>3, <2>4 DEF Table
<1>3. CASE OpenList
  <2> USE <1>3 DEF OpenList, StartScan
  <2>1. cur \in Item /\ curFd \in Fd /\ curPid \in Pid
    BY DEF Table, Places
  <2>2. TypeOK'
    BY <2>1 DEF Table, TypeOK, PC, EmptyBuf, Entries
  <2>3. Places' /\ LeftOpen'
    BY <2>1 DEF Table, TypeOK, Places, LeftOpen, Entries
  <2>4. FdTabExact'
    BY <2>1 DEF Table, TypeOK, Places, FdTabExact, Ending
  <2> QED BY <2>2, <2>3, <2>4 DEF Table
<1> QED BY <1>1, <1>2, <1>3

(* Everything else the main thread does moves between the loops.           *)
LEMMA LoopTable ==
  ASSUME Table,
         \/ \E f \in Fd : \/ ScanDefunct(f) \/ ScanKeep(f) \/ DispatchLine(f)
                         \/ DispatchPart(f) \/ DispatchEof(f)
         \/ ScanClose \/ ScanEnd \/ DispatchEnd \/ SelectReady \/ SelectDone
  PROVE  Table'
<1> USE PeriphAssumption DEF itemVars, loopVars, jobVars, procVars, histVars
<1>1. ASSUME NEW f \in Fd, DispatchEof(f)
      PROVE  Table'
  <2>1. pc = "dispatch" /\ f \in Entries
    BY <1>1 DEF DispatchEof, First, Table, LeftOpen, Loops
  <2>2. fdTab[f] \in Item /\ fdIn[fdTab[f]] = f /\ f # None
    BY <2>1, EntryOpen DEF Ending
  <2>3. left' \subseteq Fd /\ left' \subseteq Entries \ {f}
    BY <1>1, <2>1 DEF DispatchEof, Table, TypeOK, LeftOpen, Loops
  <2>4. CloseBegin(fdTab[f], pc) /\ UNCHANGED <<pass, rd>>
    BY <1>1 DEF DispatchEof
  <2> QED BY <2>1, <2>2, <2>3, <2>4, CloseBeginTable
<1>6. ASSUME NEW f \in Fd, ScanDefunct(f)
      PROVE  Table'
  <2>1. pc = "scan" /\ f \in Entries
    BY <1>6 DEF ScanDefunct, First, Table, LeftOpen, Loops
  <2>2. fdTab[f] \in Item /\ fdIn[fdTab[f]] = f /\ f # None
    BY <2>1, EntryOpen DEF Ending
  <2>3. TypeOK'
    BY <1>6, <2>2 DEF ScanDefunct, Table, TypeOK, PC
  <2>4. Places' /\ LeftOpen' /\ FdTabExact'
    BY <1>6, <2>1, <2>2 DEF ScanDefunct, Table, Places, LeftOpen, FdTabExact, Ending, Entries,
                            Loops
  <2> QED BY <2>3, <2>4 DEF Table
<1>7. CASE ScanClose
  <2>1. /\ pc = "defunct" /\ cur \in Item /\ curFd \in Fd /\ fdIn[cur] = curFd
        /\ left \subseteq Entries \ {curFd}
    BY <1>7 DEF ScanClose, Table, Places, LeftOpen
  <2>2. CloseBegin(cur, "scan") /\ UNCHANGED <<pass, rd, left>>
    BY <1>7 DEF ScanClose
  <2>3. left' \subseteq Fd /\ left' \subseteq Entries \ {fdIn[cur]} /\ fdIn[cur] # None
    BY <2>1, <2>2 DEF Entries
  <2> QED BY <2>1, <2>2, <2>3, CloseBeginTable
<1>2. ASSUME NEW f \in Fd, DispatchLine(f) \/ DispatchPart(f)
      PROVE  Table'
  <2>1. fdTab[f] \in Item /\ fdIn[fdTab[f]] = f /\ fdPipe[f] \in Pid
    <3>1. f \in Entries /\ pc = "dispatch"
      BY <1>2 DEF DispatchLine, DispatchPart, Entries
    <3> QED BY <3>1, EntryOpen DEF Ending
  <2>2. pipe' \in [Pid -> Seq(Byte)]
    <3>1. CASE DispatchLine(f)
      <4>1. PICK n \in 1 .. Len(pipe[fdPipe[f]]) :
              pipe' = [pipe EXCEPT ![fdPipe[f]] = SubSeq(@, n + 1, Len(@))]
        BY <3>1 DEF DispatchLine
      <4>2. SubSeq(pipe[fdPipe[f]], n + 1, Len(pipe[fdPipe[f]])) \in Seq(Byte)
        BY <2>1 DEF Table, TypeOK
      <4> QED BY <4>1, <4>2 DEF Table, TypeOK
    <3>2. CASE DispatchPart(f)
      <4>1. <<>> \in Seq(Byte)
        OBVIOUS
      <4> QED BY <3>2, <4>1 DEF DispatchPart, Table, TypeOK
    <3> QED BY <1>2, <3>1, <3>2
  <2>3. buf' \in [Item -> SUBSET Pid] /\ left' \subseteq Fd
    <3>1. \E b \in SUBSET Pid : buf' = [buf EXCEPT ![fdTab[f]] = b]
      <4>1. CASE DispatchLine(f)
        BY <4>1 DEF DispatchLine
      <4>2. CASE DispatchPart(f)
        <5>1. buf[fdTab[f]] \cup {fdPipe[f]} \in SUBSET Pid
          BY <2>1 DEF Table, TypeOK
        <5> QED BY <4>2, <5>1 DEF DispatchPart
      <4> QED BY <1>2, <4>1, <4>2
    <3>2. left' = left \ {f}
      BY <1>2 DEF DispatchLine, DispatchPart
    <3>3. buf' \in [Item -> SUBSET Pid]
      <4> DEFINE Sources == SUBSET Pid
      <4>1. buf \in [Item -> Sources]
        BY DEF Table, TypeOK
      <4>2. PICK b \in Sources : buf' = [buf EXCEPT ![fdTab[f]] = b]
        BY <3>1
      <4> HIDE DEF Sources
      <4>3. buf' \in [Item -> Sources]
        BY <4>1, <4>2
      <4> QED BY <4>3 DEF Sources
    <3>4. left' \subseteq Fd
      BY <3>2 DEF Table, TypeOK
    <3> QED BY <3>3, <3>4
  <2>4. TypeOK'
    <3>1. UNCHANGED <<pc, fdTab, fdIn, fdOut, pid, with, sigList, handlerSet,
                      pass, rd, jobVars, fdPipe, proc, heirs, snap, sent,
                      sigPending, histVars>>
      BY <1>2 DEF DispatchLine, DispatchPart
    <3> QED BY <2>2, <2>3, <3>1 DEF Table, TypeOK
  <2>5. Places' /\ LeftOpen' /\ FdTabExact'
    <3>1. UNCHANGED <<pc, fdTab, fdIn, jobVars, fdPipe>> /\ left' \subseteq left
      BY <1>2 DEF DispatchLine, DispatchPart
    <3> QED BY <1>2, <3>1 DEF DispatchLine, DispatchPart, Table, Places, LeftOpen,
                              FdTabExact, Ending, Entries, Loops
  <2> QED BY <2>4, <2>5 DEF Table
<1>3. ASSUME NEW f \in Fd, ScanKeep(f)
      PROVE  Table'
  <2>1. TypeOK'
    BY <1>3 DEF ScanKeep, Table, TypeOK
  <2>2. Places' /\ LeftOpen' /\ FdTabExact'
    BY <1>3 DEF ScanKeep, Table, Places, LeftOpen, FdTabExact, Ending, Entries
  <2> QED BY <2>1, <2>2 DEF Table
<1>4. CASE ScanEnd \/ DispatchEnd \/ SelectDone
  <2>1. TypeOK'
    <3>1. UNCHANGED <<itemVars, handlerSet, jobVars, fdPipe, procVars, sigPending,
                      histVars>>
      BY <1>4 DEF ScanEnd, DispatchEnd, SelectDone
    <3>2. /\ pc' \in PC /\ pass' \in {1, 2}
          /\ left' \subseteq Fd /\ rd' \subseteq Fd
      BY <1>4 DEF ScanEnd, DispatchEnd, SelectDone, StartScan, Entries,
                  Table, TypeOK, PC
    <3> QED BY <3>1, <3>2 DEF Table, TypeOK
  <2>2. Places' /\ LeftOpen' /\ FdTabExact'
    BY <1>4 DEF ScanEnd, DispatchEnd, SelectDone, StartScan, Entries,
                Table, Places, LeftOpen, FdTabExact, Ending, Loops
  <2> QED BY <2>1, <2>2 DEF Table
<1>5. CASE SelectReady
  <2>1. TypeOK'
    <3>1. UNCHANGED <<itemVars, handlerSet, pass, rd, jobVars, fdPipe, procVars, sigPending, histVars>>
      BY <1>5 DEF SelectReady
    <3>2. pc' \in PC /\ left' \subseteq Fd
      BY <1>5 DEF SelectReady, Table, TypeOK, PC
    <3> QED BY <3>1, <3>2 DEF Table, TypeOK
  <2>2. left' \subseteq Entries
    <3> SUFFICES ASSUME NEW f \in left' PROVE f \in Entries
      OBVIOUS
    <3>1. f \in Fd /\ fdPipe[f] # None /\ pc = "select"
      BY <1>5 DEF SelectReady, Readable, Table, TypeOK
    <3>2. PICK i \in Item : fdIn[i] = f
      BY <3>1 DEF Table, FdTabExact, Ending
    <3>3. fdTab'[f] = i
      BY <1>5, <3>1, <3>2, PeriphAssumption DEF SelectReady, Table, FdTabExact, Ending
    <3> QED BY <1>5, <3>1, <3>3 DEF SelectReady, Entries
  <2>3. Places' /\ LeftOpen' /\ FdTabExact'
    BY <1>5, <2>2 DEF SelectReady, Table, Places, LeftOpen, FdTabExact, Ending, Entries
  <2> QED BY <2>1, <2>3 DEF Table
<1> QED BY <1>1, <1>2, <1>3, <1>4, <1>5, <1>6, <1>7

(* The end of the engine, from wherever it comes.                          *)
LEMMA QuitTable ==
  ASSUME Table,
         \/ CmdQuit \/ Terminate \/ QuitEnd
         \/ \E f \in Fd : QuitClose(f) \/ QuitSkip(f)
         \/ \E i \in Item : QuitItem(i)
  PROVE  Table'
<1> USE PeriphAssumption DEF itemVars, loopVars, jobVars, procVars, histVars
<1>1. CASE CmdQuit \/ Terminate
  <2>1. Quit
    BY <1>1 DEF CmdQuit, Terminate
  <2>2. cut' \in SUBSET Pid
    <3>1. pc = "kill" => cur \in Item
      BY DEF Table, Places
    <3>2. pc = "forked" => curPid \in Pid
      BY DEF Table, Places
    <3>3. InHand \subseteq Pid
      BY <3>1, <3>2 DEF InHand, Table, TypeOK
    <3> QED BY <1>1, <3>3 DEF CmdQuit, Terminate, Table, TypeOK
  <2>3. fdOut' \in [Item -> BOOLEAN]
    <3> DEFINE still(i) == fdOut[i] /\ ~ Listed(i)
    <3>1. fdOut' = [i \in Item |-> still(i)]
      BY <2>1 DEF Quit, Hangup
    <3>2. \A i \in Item : still(i) \in BOOLEAN
      OBVIOUS
    <3> HIDE DEF still
    <3> QED BY <3>1, <3>2
  <2>4. pc' = "quit" /\ cur' = None /\ curFd' = None /\ curPid' = None /\ ret' = "scan"
    BY <2>1 DEF Quit
  <2>5. UNCHANGED <<fdTab, fdIn, pid, buf, with, sigList, handlerSet, loopVars,
                    fdPipe, procVars, sigPending, missed, rogue, late, termed>>
    BY <2>1 DEF Quit, Hangup
  <2>6. TypeOK'
    BY <2>2, <2>3, <2>4, <2>5 DEF Table, TypeOK, PC
  <2>7. Places' /\ LeftOpen'
    BY <2>4 DEF Places, LeftOpen, Loops
  <2>8. FdTabExact'
    BY <2>4, <2>5 DEF Table, FdTabExact, Ending
  <2> QED BY <2>6, <2>7, <2>8 DEF Table
<1>2. CASE QuitEnd
  <2>1. <<>> \in Seq(Byte)
    OBVIOUS
  <2>2. TypeOK'
    BY <1>2, <2>1 DEF QuitEnd, Table, TypeOK, PC
  <2>3. Places' /\ LeftOpen' /\ FdTabExact'
    BY <1>2 DEF QuitEnd, Places, LeftOpen, Loops, FdTabExact, Ending
  <2> QED BY <2>2, <2>3 DEF Table
<1>3. ASSUME NEW f \in Fd, QuitClose(f)
      PROVE  Table'
  <2>1. fdTab[f] \in Item
    BY <1>3 DEF QuitClose, First, Entries, Table, TypeOK
  <2>2. left' \subseteq Fd /\ UNCHANGED <<pass, rd>>
    BY <1>3 DEF QuitClose, Table, TypeOK
  <2>3. pc = "quit" /\ fdIn[fdTab[f]] # None /\ CloseBegin(fdTab[f], "quit")
    BY <1>3 DEF QuitClose
  <2> QED BY <2>1, <2>2, <2>3, CloseBeginTable DEF Loops
<1>4. ASSUME NEW f \in Fd, QuitSkip(f)
      PROVE  Table'
  <2>1. fdTab' \in [Fd -> Item \cup {None}]
    BY <1>4 DEF QuitSkip, Table, TypeOK
  <2>2. TypeOK'
    BY <1>4, <2>1 DEF QuitSkip, Table, TypeOK
  <2>3. Places' /\ LeftOpen' /\ FdTabExact'
    BY <1>4 DEF QuitSkip, Places, LeftOpen, Loops, Table, FdTabExact, Ending
  <2> QED BY <2>2, <2>3 DEF Table
<1>5. ASSUME NEW i \in Item, QuitItem(i)
      PROVE  Table'
  <2>1. left' \subseteq Fd /\ UNCHANGED <<pass, rd>>
    BY <1>5 DEF QuitItem, Table, TypeOK
  <2>2. pc = "quit" /\ fdIn[i] # None /\ CloseBegin(i, "quit")
    BY <1>5 DEF QuitItem
  <2> QED BY <2>1, <2>2, CloseBeginTable DEF Loops
<1> QED BY <1>1, <1>2, <1>3, <1>4, <1>5

LEMMA CommandTable ==
  ASSUME Table,
         \/ \E i \in Item : CmdClose(i) \/ CmdRedeclare(i) \/ CmdRedeclareClosed(i)
         \/ \E i \in Item \cup {None} : CmdWith(i)
         \/ CmdOther \/ RedeclareInit
  PROVE  Table'
<1> USE PeriphAssumption DEF itemVars, loopVars, jobVars, procVars, histVars
<1>1. ASSUME NEW i \in Item, CmdClose(i)
      PROVE  Table'
  <2>1. CloseBegin(i, "scan") /\ fdIn[i] # None /\ pc = "cmd"
    BY <1>1 DEF CmdClose
  <2>2. pass' = 1 /\ rd' = {} /\ left' = Entries \ {fdIn[i]} /\ left' \subseteq Fd
    BY <1>1 DEF CmdClose, Entries
  <2> QED BY <2>1, <2>2, CloseBeginTable
<1>2. ASSUME NEW i \in Item, CmdRedeclare(i)
      PROVE  Table'
  <2>1. CloseBegin(i, "init") /\ fdIn[i] # None /\ pc = "cmd" /\ UNCHANGED <<pass, rd>>
    BY <1>2 DEF CmdRedeclare
  <2>2. left' \subseteq Fd
    BY <1>2 DEF CmdRedeclare, Table, TypeOK
  <2> QED BY <2>1, <2>2, CloseBeginTable DEF Loops
<1>3. ASSUME NEW i \in Item, fdIn[i] = None, pc \in {"cmd", "init"}, Redeclare(i)
      PROVE  Table'
  <2>1. TypeOK'
    BY <1>3 DEF Redeclare, StartScan, Entries, Table, TypeOK, PC
  <2>2. Places' /\ LeftOpen' /\ FdTabExact'
    BY <1>3 DEF Redeclare, StartScan, Entries, Table, TypeOK, Places, LeftOpen,
                FdTabExact, Ending
  <2> QED BY <2>1, <2>2 DEF Table
<1>4. ASSUME NEW i \in Item, CmdRedeclareClosed(i)
      PROVE  Table'
  BY <1>3, <1>4 DEF CmdRedeclareClosed
<1>5. CASE RedeclareInit
  BY <1>3, <1>5 DEF RedeclareInit, Table, Places
<1>6. CASE CmdOther \/ \E i \in Item \cup {None} : CmdWith(i)
  <2>1. TypeOK'
    <3>1. UNCHANGED <<fdTab, fdIn, fdOut, pid, buf, sigList, handlerSet, jobVars,
                      fdPipe, procVars, sigPending, histVars>>
      BY <1>6 DEF CmdOther, CmdWith
    <3>2. with' \in Item \cup {None}
      BY <1>6 DEF CmdOther, CmdWith, Table, TypeOK
    <3>3. /\ pc' \in PC /\ pass' \in {1, 2}
          /\ left' \subseteq Fd /\ rd' \subseteq Fd
      BY <1>6 DEF CmdOther, CmdWith, StartScan, Entries, Table, TypeOK, PC
    <3> QED BY <3>1, <3>2, <3>3 DEF Table, TypeOK
  <2>2. Places' /\ LeftOpen' /\ FdTabExact'
    BY <1>6 DEF CmdOther, CmdWith, StartScan, Entries, Table, Places,
                LeftOpen, FdTabExact, Ending, Loops
  <2> QED BY <2>1, <2>2 DEF Table
<1> QED BY <1>1, <1>2, <1>4, <1>5, <1>6

LEMMA NextTable == Table /\ [Next]_vars => Table'
<1> SUFFICES ASSUME Table, [Next]_vars PROVE Table'
  OBVIOUS
<1>1. CASE UNCHANGED vars
  BY <1>1 DEF vars, itemVars, loopVars, jobVars, procVars, histVars, Table, TypeOK,
              Places, LeftOpen, FdTabExact, Ending, Entries
<1>2. CASE \E p \in Pid : Process(p)
  BY <1>2, ProcessTable
<1>3. CASE periph_item_sigchld
  BY <1>3, HandlerTable
<1>4. CASE Engine
  BY <1>4, CloseKillTable, LoopTable, OpenTable, CommandTable, QuitTable DEF Engine
<1>5. CASE SelectReady \/ SelectDone
  BY <1>5, LoopTable
<1>6. CASE Command
  BY <1>6, OpenTable, CommandTable, QuitTable DEF Command
<1>7. CASE Terminate
  BY <1>7, QuitTable
<1> QED BY <1>1, <1>2, <1>3, <1>4, <1>5, <1>6, <1>7 DEF Next

(* In every state that the engine reaches each variable has its type and   *)
(* the table mirrors the descriptors, with what each place of the main     *)
(* thread adds.                                                            *)
THEOREM TableCorrect == Spec => []Table
<1>1. Init => Table
  BY InitTable
<1>2. Table /\ [Next]_vars => Table'
  BY NextTable
<1> QED BY <1>1, <1>2, PTL DEF Spec

(* Every variable of the engine and of the processes keeps its type.       *)
THEOREM TypeCorrect == Spec => []TypeOK
<1>1. Table => TypeOK
  BY DEF Table
<1> QED BY <1>1, TableCorrect, PTL

(* No descriptor leaks and none is shared (periph_open, periph_close).     *)
THEOREM FdTabCorrect == Spec => []FdTabExact
<1>1. Table => FdTabExact
  BY DEF Table
<1> QED BY <1>1, TableCorrect, PTL

(* The panics of run_wait_event_process and run_disconnect are unreachable. *)
THEOREM PanicFree == Spec => []NoPanic
<1>1. Table => NoPanic
  BY DEF Table, Places, LeftOpen, NoPanic, Loops, Entries, Ending
<1> QED BY <1>1, TableCorrect, PTL

-----------------------------------------------------------------------------
(* Processes and the items that remember them.                             *)

(* No two items have the same pid, and none has that of a process that is  *)
(* not started yet.                                                        *)
Pids ==
  /\ \A i \in Item : pid[i] # None => proc[pid[i]] # "unborn"
  /\ \A i, j \in Item : pid[i] # None /\ pid[i] = pid[j] => i = j
  /\ pc = "forked" => proc[curPid] # "unborn" /\ \A i \in Item : pid[i] # curPid

Deaths ==
  /\ Pids
  /\ DeathsNoticed
  /\ pc = "forked" /\ proc[curPid] = "reaped" => curPid \in missed

Signals ==
  rogue = {} =>
    /\ \A p \in termed : proc[p] # "unborn"
    /\ \A i \in Item : pid[i] # None => pid[i] \notin termed
    /\ pc = "forked" => curPid \notin termed

Living(p) == proc[p] \in {"forked", "alive"}

(* The steps that touch neither a pid nor a process.                       *)
Aside ==
  \/ \E f \in Fd : \/ ScanDefunct(f) \/ ScanKeep(f) \/ DispatchLine(f)
                  \/ DispatchPart(f) \/ DispatchEof(f)
                  \/ QuitClose(f) \/ QuitSkip(f)
  \/ ScanClose \/ ScanEnd \/ DispatchEnd \/ SelectReady \/ SelectDone \/ QuitEnd \/ OpenList
  \/ \E i \in Item : CmdClose(i) \/ CmdRedeclare(i) \/ QuitItem(i)
  \/ \E i \in Item \cup {None} : CmdWith(i)
  \/ CmdQuit \/ Terminate \/ CmdOther

LEMMA AsideFrame ==
  ASSUME Aside
  PROVE  UNCHANGED <<pid, proc, termed, missed, rogue>> /\ pc' # "forked"
<1> USE DEF itemVars, procVars, histVars, CloseBegin, StartScan
<1>1. ASSUME NEW f \in Fd,
             \/ ScanDefunct(f) \/ ScanKeep(f) \/ DispatchLine(f)
             \/ DispatchPart(f) \/ DispatchEof(f) \/ QuitClose(f) \/ QuitSkip(f)
      PROVE  UNCHANGED <<pid, proc, termed, missed, rogue>> /\ pc' # "forked"
  BY <1>1 DEF ScanDefunct, ScanKeep, DispatchLine, DispatchPart, DispatchEof, QuitClose,
              QuitSkip
<1>2. CASE \/ ScanClose \/ ScanEnd \/ DispatchEnd \/ SelectReady \/ SelectDone
           \/ QuitEnd \/ OpenList
  BY <1>2 DEF ScanClose, ScanEnd, DispatchEnd, SelectReady, SelectDone, QuitEnd, OpenList
<1>3. ASSUME NEW i \in Item, CmdClose(i) \/ CmdRedeclare(i) \/ QuitItem(i)
      PROVE  UNCHANGED <<pid, proc, termed, missed, rogue>> /\ pc' # "forked"
  BY <1>3 DEF CmdClose, CmdRedeclare, QuitItem
<1>4. ASSUME NEW i \in Item \cup {None}, CmdWith(i)
      PROVE  UNCHANGED <<pid, proc, termed, missed, rogue>> /\ pc' # "forked"
  BY <1>4 DEF CmdWith
<1>5. CASE CmdQuit \/ Terminate \/ CmdOther
  BY <1>5 DEF CmdQuit, Terminate, CmdOther, Quit, Hangup
<1> QED BY <1>1, <1>2, <1>3, <1>4, <1>5 DEF Aside

(* Every step is one of these, or one that the proofs below look at.       *)
LEMMA NextCases ==
  ASSUME Next
  PROVE  \/ \E p \in Pid : Process(p)
         \/ periph_item_sigchld
         \/ CloseKill
         \/ \E i \in Item, f \in Fd, p \in Pid : OpenFork(i, f, p)
         \/ OpenPid
         \/ \E i \in Item : Redeclare(i) /\ pc \in {"cmd", "init"}
         \/ RedeclareInit
         \/ Aside
BY DEF Next, Engine, Command, Aside, CmdRedeclareClosed

LEMMA ProcessFrame ==
  ASSUME Table, NEW p \in Pid, Process(p)
  PROVE  /\ UNCHANGED <<pc, pid, curPid, missed>>
         /\ \A q \in Pid : \/ proc'[q] = proc[q]
                           \/ Living(q) /\ proc'[q] \in {"alive", "zombie"}
         /\ \/ rogue' = rogue /\ termed' = termed
            \/ rogue' # {} /\ termed \subseteq termed'
<1>1. UNCHANGED <<pc, pid, curPid, missed>>
  BY DEF Process, Exec, ExecFail, ChildTermed, ChildEnds, Write, Fork, HeirExit, Die, itemVars, jobVars,
         histVars
<1>2. \/ proc' = proc
      \/ Living(p) /\ proc' = [proc EXCEPT ![p] = "alive"]
      \/ Living(p) /\ proc' = [proc EXCEPT ![p] = "zombie"]
  BY DEF Process, Exec, ExecFail, ChildTermed, ChildEnds, Write, Fork, HeirExit, Die, procVars,
         Living
<1>3. proc \in [Pid -> ProcState]
  BY DEF Table, TypeOK
<1>4. \A q \in Pid : \/ proc'[q] = proc[q]
                     \/ Living(q) /\ proc'[q] \in {"alive", "zombie"}
  <2>1. CASE proc' = proc
    BY <2>1
  <2>2. CASE Living(p) /\ proc' = [proc EXCEPT ![p] = "alive"]
    BY <1>3, <2>2
  <2>3. CASE Living(p) /\ proc' = [proc EXCEPT ![p] = "zombie"]
    BY <1>3, <2>3
  <2> QED BY <1>2, <2>1, <2>2, <2>3
<1>5. \/ rogue' = rogue /\ termed' = termed
      \/ rogue' # {} /\ termed \subseteq termed'
  BY DEF Process, Exec, ExecFail, ChildTermed, ChildEnds, Write, Fork, HeirExit, Die,
         histVars
<1> QED BY <1>1, <1>4, <1>5

LEMMA CloseKillFrame ==
  ASSUME Table, CloseKill
  PROVE  /\ cur \in Item
         /\ \A i \in Item : pid'[i] = IF i = cur THEN None ELSE pid[i]
         /\ termed' = termed \cup ({pid[cur]} \ {None})
         /\ UNCHANGED <<proc, missed, rogue, curPid>>
         /\ pc' # "forked"
<1> USE DEF CloseKill, Table, TypeOK, Places, procVars
<1>1. termed' = termed \cup ({pid[cur]} \ {None})
  BY DEF Kill
<1>2. cur \in Item /\ pc' # "forked" /\ UNCHANGED <<proc, missed, rogue, curPid>>
  OBVIOUS
<1>3. \A i \in Item : pid'[i] = IF i = cur THEN None ELSE pid[i]
  OBVIOUS
<1> QED BY <1>1, <1>2, <1>3

LEMMA RedeclareFrame ==
  ASSUME Table, NEW i \in Item, Redeclare(i)
  PROVE  /\ \A j \in Item : pid'[j] = IF j = i THEN None ELSE pid[j]
         /\ UNCHANGED <<proc, missed, termed, rogue>>
         /\ pc' # "forked"
BY DEF Redeclare, StartScan, Table, TypeOK, procVars, histVars

LEMMA HandlerFrame ==
  ASSUME Table, periph_item_sigchld
  PROVE  /\ UNCHANGED <<curPid, termed, rogue, sigList>>
         /\ pc' = "forked" => pc = "forked"
         /\ \A p \in Pid : proc'[p] = IF proc[p] = "zombie" THEN "reaped" ELSE proc[p]
         /\ \A i \in Item : pid'[i] = IF i \in sigList /\ pid[i] \in Dead
                                    THEN None ELSE pid[i]
         /\ missed' = missed \cup {p \in Dead : ~ Known(p)}
BY DEF periph_item_sigchld, Forgotten, StartScan, jobVars, Table, TypeOK

LEMMA OpenForkFrame ==
  ASSUME Table, NEW i \in Item, NEW f \in Fd, NEW p \in Pid, OpenFork(i, f, p)
  PROVE  /\ proc[p] = "unborn" /\ curPid' = p /\ UNCHANGED <<pid, missed, termed, rogue>>
         /\ \A q \in Pid : proc'[q] = IF q = p THEN "forked" ELSE proc[q]
BY DEF OpenFork, Table, TypeOK, itemVars, histVars

LEMMA OpenPidFrame ==
  ASSUME Table, OpenPid
  PROVE  /\ pc = "forked" /\ pc' = "listed" /\ cur \in Item /\ curPid \in Pid
         /\ \A i \in Item : pid'[i] = IF i = cur THEN curPid ELSE pid[i]
         /\ UNCHANGED <<proc, missed, termed, rogue>>
BY DEF OpenPid, Table, TypeOK, Places, procVars, histVars

LEMMA NextDeaths == Table /\ Deaths /\ [Next]_vars => Deaths'
<1> SUFFICES ASSUME Table, Deaths, [Next]_vars PROVE Deaths'
  OBVIOUS
<1> USE PeriphAssumption DEF Deaths, Pids, DeathsNoticed
<1>1. /\ pid \in [Item -> Pid \cup {None}]
      /\ pc = "forked" => cur \in Item /\ curPid \in Pid
  BY DEF Table, TypeOK, Places
<1>2. CASE UNCHANGED vars
  BY <1>2 DEF vars, itemVars, jobVars, procVars, histVars
<1>3. ASSUME NEW p \in Pid, Process(p)
      PROVE  Deaths'
  BY <1>1, <1>3, ProcessFrame DEF Living
<1>4. CASE periph_item_sigchld
  <2>1. Pids'
    BY <1>1, <1>4, HandlerFrame
  <2>2. DeathsNoticed'
    <3> SUFFICES ASSUME NEW i \in Item, pid'[i] # None, proc'[pid'[i]] = "reaped"
                 PROVE  pid'[i] \in missed'
      OBVIOUS
    <3>1. pid'[i] = pid[i] /\ pid[i] \in Pid
      BY <1>1, <1>4, HandlerFrame
    <3>2. CASE proc[pid[i]] = "reaped"
      BY <1>4, <3>1, <3>2, HandlerFrame
    <3>3. CASE pid[i] \in Dead
      <4>1. i \notin sigList
        BY <1>4, <3>1, <3>3, HandlerFrame
      <4>2. ASSUME NEW j \in sigList PROVE pid[j] # pid[i]
        BY <3>1, <4>1 DEF Table, TypeOK
      <4> QED BY <1>4, <3>1, <3>3, <4>2, HandlerFrame DEF Known
    <3> QED BY <1>4, <3>1, <3>2, <3>3, HandlerFrame DEF Dead
  <2>3. (pc = "forked" /\ proc[curPid] = "reaped" => curPid \in missed)'
    <3> SUFFICES ASSUME pc' = "forked", proc'[curPid'] = "reaped"
                 PROVE  curPid' \in missed'
      OBVIOUS
    <3>1. pc = "forked" /\ curPid' = curPid /\ curPid \in Pid
      BY <1>1, <1>4, HandlerFrame
    <3>2. ~ Known(curPid)
      BY <3>1 DEF Known, Table, TypeOK
    <3> QED BY <1>4, <3>1, <3>2, HandlerFrame DEF Dead
  <2> QED BY <2>1, <2>2, <2>3
<1>5. CASE CloseKill
  BY <1>1, <1>5, CloseKillFrame
<1>6. ASSUME NEW i \in Item, NEW f \in Fd, NEW p \in Pid, OpenFork(i, f, p)
      PROVE  Deaths'
  BY <1>1, <1>6, OpenForkFrame
<1>7. CASE OpenPid
  BY <1>1, <1>7, OpenPidFrame
<1>8. ASSUME NEW i \in Item, Redeclare(i)
      PROVE  Deaths'
  BY <1>1, <1>8, RedeclareFrame
<1>9. CASE RedeclareInit
  BY <1>8, <1>9 DEF RedeclareInit, Table, Places
<1>10. CASE Aside
  BY <1>10, AsideFrame
<1> QED BY <1>2, <1>3, <1>4, <1>5, <1>6, <1>7, <1>8, <1>9, <1>10, NextCases

(* The engine forgets the pid of a process as soon as it reaps it, except  *)
(* when the handler ran before periph_item_sigchld_open.                   *)
THEOREM DeathsAreNoticed == Spec => []DeathsNoticed
<1>1. Init => Table /\ Deaths
  BY InitTable DEF Init, Deaths, Pids, DeathsNoticed
<1>2. (Table /\ Deaths) /\ [Next]_vars => (Table /\ Deaths)'
  BY NextTable, NextDeaths
<1>3. Table /\ Deaths => DeathsNoticed
  BY DEF Deaths
<1> QED BY <1>1, <1>2, <1>3, PTL DEF Spec

LEMMA NextSignals == Table /\ Pids /\ Signals /\ [Next]_vars => Signals'
<1> SUFFICES ASSUME Table, Pids, Signals, [Next]_vars PROVE Signals'
  OBVIOUS
<1> USE PeriphAssumption DEF Pids, Signals
<1>1. /\ pid \in [Item -> Pid \cup {None}] /\ termed \subseteq Pid
      /\ pc = "forked" => cur \in Item /\ curPid \in Pid
  BY DEF Table, TypeOK, Places
<1>2. CASE UNCHANGED vars
  BY <1>2 DEF vars, itemVars, jobVars, procVars, histVars
<1>3. ASSUME NEW p \in Pid, Process(p)
      PROVE  Signals'
  BY <1>1, <1>3, ProcessFrame DEF Living
<1>4. CASE periph_item_sigchld
  BY <1>1, <1>4, HandlerFrame
<1>5. CASE CloseKill
  BY <1>1, <1>5, CloseKillFrame
<1>6. ASSUME NEW i \in Item, NEW f \in Fd, NEW p \in Pid, OpenFork(i, f, p)
      PROVE  Signals'
  BY <1>1, <1>6, OpenForkFrame
<1>7. CASE OpenPid
  BY <1>1, <1>7, OpenPidFrame
<1>8. ASSUME NEW i \in Item, Redeclare(i)
      PROVE  Signals'
  BY <1>1, <1>8, RedeclareFrame
<1>9. CASE RedeclareInit
  BY <1>8, <1>9 DEF RedeclareInit, Table, Places
<1>10. CASE Aside
  BY <1>10, AsideFrame
<1> QED BY <1>2, <1>3, <1>4, <1>5, <1>6, <1>7, <1>8, <1>9, <1>10, NextCases

(* As long as no child ran the exit handler of the engine, the process of  *)
(* an open peripheral is never signalled.                                  *)
THEOREM OnlyCloseSignals == Spec => []SigtermOnlyOnClose
<1>1. Init => Table /\ Deaths /\ Signals
  BY InitTable DEF Init, Deaths, Pids, DeathsNoticed, Signals
<1>2. (Table /\ Deaths /\ Signals) /\ [Next]_vars => (Table /\ Deaths /\ Signals)'
  BY NextTable, NextDeaths, NextSignals DEF Deaths
<1>3. Signals => SigtermOnlyOnClose
  BY DEF Signals, SigtermOnlyOnClose, ConnectedSpared
<1> QED BY <1>1, <1>2, <1>3, PTL DEF Spec

-----------------------------------------------------------------------------
(* The lines that the triggers see.                                        *)

LEMMA CloseBeginLines ==
  ASSUME Table, NoMixedLine, NEW i \in Item, NEW r \in PC, fdIn[i] # None,
         CloseBegin(i, r), pc # "listed", ~ Ending
  PROVE  NoMixedLine'
<1>1. \A j \in Item : fdIn'[j] # None => j # i /\ fdIn'[j] = fdIn[j]
  BY DEF CloseBegin, Table, TypeOK
<1>2. \A j \in Item : fdIn'[j] # None => fdPipe'[fdIn[j]] = fdPipe[fdIn[j]]
  BY <1>1 DEF CloseBegin, Table, TypeOK, FdTabExact
<1>3. buf' = buf
  BY DEF CloseBegin
<1> QED BY <1>1, <1>2, <1>3 DEF NoMixedLine

LEMMA NextLines == Table /\ NoMixedLine /\ [Next]_vars => NoMixedLine'
<1> SUFFICES ASSUME Table, NoMixedLine, [Next]_vars, ~ Ending' PROVE NoMixedLine'
  BY DEF NoMixedLine
<1> USE PeriphAssumption DEF itemVars, loopVars, jobVars, procVars, histVars
<1>1. CASE UNCHANGED <<buf, fdIn, fdPipe, cur>> /\ pc # "listed" /\ ~ Ending
  BY <1>1 DEF NoMixedLine
<1>2. ASSUME NEW p \in Pid, Process(p)
      PROVE  NoMixedLine'
  BY <1>2 DEF Process, Exec, ExecFail, ChildTermed, ChildEnds, Write, Fork, HeirExit, Die,
              NoMixedLine, Ending
<1>3. CASE periph_item_sigchld
  BY <1>3 DEF periph_item_sigchld, StartScan, NoMixedLine, Ending
<1>4. CASE CloseKill
  BY <1>4 DEF CloseKill, NoMixedLine, Ending
<1>5. ASSUME NEW f \in Fd, DispatchEof(f)
      PROVE  NoMixedLine'
  <2>1. pc # "listed" /\ pc # "kill" /\ ~ Ending /\ f \in Entries
    BY <1>5 DEF DispatchEof, First, Table, LeftOpen, Loops, Ending
  <2>2. fdTab[f] \in Item /\ fdIn[fdTab[f]] # None
    BY <2>1, EntryOpen
  <2>3. \E r \in PC : CloseBegin(fdTab[f], r)
    BY <1>5 DEF DispatchEof, PC
  <2> QED BY <2>1, <2>2, <2>3, CloseBeginLines
<1>20. CASE ScanClose
  <2>1. pc = "defunct" /\ CloseBegin(cur, "scan")
    BY <1>20 DEF ScanClose
  <2>2. cur \in Item /\ fdIn[cur] # None
    BY <2>1 DEF Table, Places
  <2>3. pc # "listed" /\ ~ Ending /\ "scan" \in PC
    BY <2>1 DEF Ending, PC
  <2> QED BY <2>1, <2>2, <2>3, CloseBeginLines
<1>6. ASSUME NEW f \in Fd, ScanKeep(f) \/ ScanDefunct(f)
      PROVE  NoMixedLine'
  <2>1. UNCHANGED <<buf, fdIn, fdPipe>> /\ pc = "scan"
    BY <1>6 DEF ScanKeep, ScanDefunct
  <2> QED BY <2>1 DEF NoMixedLine, Ending
<1>7. CASE ScanEnd \/ DispatchEnd \/ SelectReady \/ SelectDone \/ CmdOther
  BY <1>1, <1>7 DEF ScanEnd, DispatchEnd, SelectReady, SelectDone, CmdOther, Ending
<1>8. ASSUME NEW i \in Item \cup {None}, CmdWith(i)
      PROVE  NoMixedLine'
  BY <1>1, <1>8 DEF CmdWith, Ending
<1>9. ASSUME NEW f \in Fd, DispatchLine(f) \/ DispatchPart(f)
      PROVE  NoMixedLine'
  <2>1. UNCHANGED <<pc, fdIn, fdPipe, cur, ret>> /\ pc = "dispatch" /\ f \in Entries
    BY <1>9 DEF DispatchLine, DispatchPart, Entries
  <2>2. fdTab[f] \in Item /\ fdIn[fdTab[f]] = f
    BY <2>1, EntryOpen DEF Ending
  <2>3. \A i \in Item : buf'[i] \subseteq IF i = fdTab[f] THEN buf[i] \cup {fdPipe[f]}
                                                        ELSE buf[i]
    <3>1. CASE DispatchLine(f)
      BY <2>2, <3>1 DEF DispatchLine, Table, TypeOK
    <3>2. CASE DispatchPart(f)
      BY <2>2, <3>2 DEF DispatchPart, Table, TypeOK
    <3> QED BY <1>9, <3>1, <3>2
  <2> QED BY <2>1, <2>2, <2>3 DEF NoMixedLine, Ending
<1>10. ASSUME NEW i \in Item, NEW f \in Fd, NEW p \in Pid, OpenFork(i, f, p)
       PROVE  NoMixedLine'
  <2>1. \A j \in Item : fdIn[j] # None => fdPipe'[fdIn[j]] = fdPipe[fdIn[j]]
    BY <1>10 DEF OpenFork, Table, TypeOK, FdTabExact, Ending
  <2> QED BY <1>10, <2>1 DEF OpenFork, NoMixedLine, Ending
<1>11. CASE OpenPid
  BY <1>11 DEF OpenPid, Table, TypeOK, NoMixedLine, Ending
<1>12. CASE OpenList
  <2>1. /\ pc = "listed" /\ UNCHANGED <<fdIn, fdPipe>>
        /\ \A i \in Item : buf'[i] = IF i = cur THEN {} ELSE buf[i]
    BY <1>12 DEF OpenList, EmptyBuf, Table, TypeOK
  <2> QED BY <2>1 DEF NoMixedLine, Ending
<1>13. ASSUME NEW i \in Item, CmdClose(i) \/ CmdRedeclare(i)
       PROVE  NoMixedLine'
  <2>1. fdIn[i] # None /\ pc # "listed" /\ ~ Ending /\ \E r \in PC : CloseBegin(i, r)
    BY <1>13 DEF CmdClose, CmdRedeclare, PC, Ending
  <2> QED BY <2>1, CloseBeginLines
<1>14. ASSUME NEW i \in Item, Redeclare(i), pc \in {"cmd", "init"}
       PROVE  NoMixedLine'
  <2>1. /\ \A j \in Item : j # i => fdIn'[j] = fdIn[j] /\ buf'[j] = buf[j]
        /\ fdIn'[i] = None /\ fdPipe' = fdPipe
    BY <1>14 DEF Redeclare, Table, TypeOK
  <2> QED BY <1>14, <2>1 DEF NoMixedLine, Ending
<1>15. CASE RedeclareInit
  BY <1>14, <1>15 DEF RedeclareInit, Table, Places
<1>16. CASE UNCHANGED vars
  BY <1>16 DEF vars, NoMixedLine, Ending
<1>17. ASSUME NEW f \in Fd PROVE ~ (QuitClose(f) \/ QuitSkip(f))
  BY DEF QuitClose, QuitSkip, CloseBegin, Ending
<1>18. ASSUME NEW i \in Item PROVE ~ QuitItem(i)
  BY DEF QuitItem, CloseBegin, Ending
<1>19. ~ (QuitEnd \/ CmdQuit \/ Terminate)
  BY DEF QuitEnd, CmdQuit, Terminate, Quit, Ending
<1> QED BY <1>2, <1>3, <1>4, <1>5, <1>6, <1>7, <1>8, <1>9, <1>10, <1>11, <1>12, <1>13,
           <1>14, <1>15, <1>16, <1>17, <1>18, <1>19, <1>20, NextCases DEF Aside

(* No line mixes the bytes of two processes.                               *)
THEOREM LinesAreWhole == Spec => []NoMixedLine
<1>1. Init => Table /\ NoMixedLine
  BY InitTable DEF Init, NoMixedLine
<1>2. (Table /\ NoMixedLine) /\ [Next]_vars => (Table /\ NoMixedLine)'
  BY NextTable, NextLines
<1> QED BY <1>1, <1>2, PTL DEF Spec

-----------------------------------------------------------------------------
(* The lines that nobody reads.                                            *)

(* An open item remembers the process at the other end of its pipe, or has *)
(* forgotten it because it was reaped.                                     *)
Gone ==
  \A i \in Item : fdIn[i] # None /\ ~ Ending =>
    \/ pid[i] = fdPipe[fdIn[i]]
    \/ pid[i] = None /\ proc[fdPipe[fdIn[i]]] = "reaped"

(* What is unread between poll() and close() came in between.              *)
Late ==
  /\ \A p \in late : proc[p] = "reaped"
  /\ pc = "defunct" => /\ pid[cur] = None
                       /\ pipe[fdPipe[curFd]] = <<>> \/ fdPipe[curFd] \in late

LEMMA Ends ==
  ASSUME Table, [Next]_vars, Ending
  PROVE  Ending'
<1> USE DEF Ending
<1>1. CASE pc = "exit"
  BY <1>1 DEF Next, vars, Process, Exec, ExecFail, ChildTermed, ChildEnds, Write, Fork,
              HeirExit, Die, periph_item_sigchld, Engine, Command, CloseKill, ScanClose,
              ScanDefunct, ScanKeep, ScanEnd, DispatchLine, DispatchPart, DispatchEof,
              DispatchEnd, OpenFork, OpenPid, OpenList, CmdClose, CmdRedeclare,
              CmdRedeclareClosed, RedeclareInit, CmdWith, CmdOther, CmdQuit, Terminate,
              QuitClose, QuitSkip, QuitItem, QuitEnd, SelectReady, SelectDone
<1>2. CASE pc = "quit"
  BY <1>2 DEF Next, vars, Process, Exec, ExecFail, ChildTermed, ChildEnds, Write, Fork,
              HeirExit, Die, periph_item_sigchld, Engine, Command, CloseKill, ScanClose,
              ScanDefunct, ScanKeep, ScanEnd, DispatchLine, DispatchPart, DispatchEof,
              DispatchEnd, OpenFork, OpenPid, OpenList, CmdClose, CmdRedeclare,
              CmdRedeclareClosed, RedeclareInit, CmdWith, CmdOther, CmdQuit, Terminate,
              QuitClose, QuitSkip, QuitItem, QuitEnd, SelectReady, SelectDone, CloseBegin
<1>3. CASE pc = "kill" /\ ret = "quit"
  BY <1>3 DEF Next, vars, jobVars, Process, Exec, ExecFail, ChildTermed, ChildEnds, Write,
              Fork, HeirExit, Die, periph_item_sigchld, Engine, Command, CloseKill,
              ScanClose, ScanDefunct, ScanKeep, ScanEnd, DispatchLine, DispatchPart,
              DispatchEof, DispatchEnd, OpenFork, OpenPid, OpenList, CmdClose,
              CmdRedeclare, CmdRedeclareClosed, RedeclareInit, CmdWith, CmdOther, CmdQuit,
              Terminate, QuitClose, QuitSkip, QuitItem, QuitEnd, SelectReady, SelectDone
<1> QED BY <1>1, <1>2, <1>3

(* An item that stays open keeps its pipe, its pid and the state of its    *)
(* process, unless this is one of the steps of the hypothesis.             *)
LEMMA StillGone ==
  ASSUME Gone, ~ Ending,
         \A i \in Item : fdIn'[i] # None =>
           /\ fdIn'[i] = fdIn[i] /\ fdPipe'[fdIn[i]] = fdPipe[fdIn[i]]
           /\ pid'[i] = pid[i]
           /\ proc[fdPipe[fdIn[i]]] = "reaped" => proc'[fdPipe[fdIn[i]]] = "reaped"
  PROVE  Gone'
BY DEF Gone

LEMMA CloseBeginGone ==
  ASSUME Table, Gone, ~ Ending, NEW i \in Item, NEW r \in PC, fdIn[i] # None,
         CloseBegin(i, r), pc # "listed", pc # "kill"
  PROVE  Gone'
<1>1. UNCHANGED <<pid, proc>> /\ \A j \in Item : fdIn'[j] # None => j # i /\ fdIn'[j] = fdIn[j]
  BY DEF CloseBegin, Table, TypeOK
<1>2. \A j \in Item : fdIn'[j] # None => fdIn[j] # fdIn[i]
  BY <1>1, PeriphAssumption DEF Table, TypeOK, FdTabExact
<1>3. \A j \in Item : fdIn'[j] # None => fdPipe'[fdIn[j]] = fdPipe[fdIn[j]]
  BY <1>1, <1>2 DEF CloseBegin, Table, TypeOK
<1> QED BY <1>1, <1>3, StillGone

LEMMA AsideGone ==
  ASSUME Table, Gone, Aside, ~ Ending, ~ Ending'
  PROVE  Gone'
<1> USE DEF itemVars, loopVars, jobVars, procVars, histVars
<1>1. ASSUME NEW f \in Fd, DispatchEof(f)
      PROVE  Gone'
  <2>1. f \in Entries /\ pc = "dispatch"
    BY <1>1 DEF DispatchEof, First, Table, LeftOpen, Loops
  <2>2. fdTab[f] \in Item /\ fdIn[fdTab[f]] # None
    BY <2>1, EntryOpen, PeriphAssumption
  <2>3. CloseBegin(fdTab[f], "dispatch") /\ "dispatch" \in PC
    BY <1>1 DEF DispatchEof, PC
  <2> QED BY <2>1, <2>2, <2>3, CloseBeginGone
<1>2. CASE ScanClose
  <2>1. pc = "defunct" /\ CloseBegin(cur, "scan") /\ "scan" \in PC
    BY <1>2 DEF ScanClose, PC
  <2>2. cur \in Item /\ fdIn[cur] # None
    BY <2>1, PeriphAssumption DEF Table, Places
  <2> QED BY <2>1, <2>2, CloseBeginGone
<1>3. ASSUME NEW i \in Item, CmdClose(i) \/ CmdRedeclare(i)
      PROVE  Gone'
  <2>1. pc = "cmd" /\ fdIn[i] # None /\ \E r \in PC : CloseBegin(i, r)
    BY <1>3 DEF CmdClose, CmdRedeclare, PC
  <2> QED BY <2>1, CloseBeginGone
<1>4. CASE UNCHANGED <<fdIn, fdPipe, pid, proc>>
  BY <1>4, StillGone
<1>5. ASSUME NEW f \in Fd, \/ ScanDefunct(f) \/ ScanKeep(f) \/ DispatchLine(f)
                           \/ DispatchPart(f)
      PROVE  Gone'
  BY <1>4, <1>5 DEF ScanDefunct, ScanKeep, DispatchLine, DispatchPart
<1>6. CASE ScanEnd \/ DispatchEnd \/ SelectReady \/ SelectDone \/ OpenList \/ CmdOther
  BY <1>4, <1>6 DEF ScanEnd, DispatchEnd, SelectReady, SelectDone, OpenList, CmdOther
<1>7. CASE \E i \in Item \cup {None} : CmdWith(i)
  BY <1>4, <1>7 DEF CmdWith
<1>8. ~ (CmdQuit \/ Terminate)
  BY DEF CmdQuit, Terminate, Quit, Ending
<1>9. ASSUME NEW f \in Fd PROVE ~ (QuitClose(f) \/ QuitSkip(f))
  BY DEF QuitClose, QuitSkip, Ending
<1>10. ~ QuitEnd /\ \A i \in Item : ~ QuitItem(i)
  BY DEF QuitEnd, QuitItem, Ending
<1> QED BY <1>1, <1>2, <1>3, <1>5, <1>6, <1>7, <1>8, <1>9, <1>10 DEF Aside

LEMMA NextGone == Table /\ Gone /\ [Next]_vars => Gone'
<1> SUFFICES ASSUME Table, Gone, [Next]_vars, ~ Ending' PROVE Gone'
  BY DEF Gone
<1>0. ~ Ending
  BY Ends
<1> USE PeriphAssumption DEF itemVars, loopVars, jobVars, procVars, histVars
<1>1. CASE UNCHANGED vars
  BY <1>0, <1>1, StillGone DEF vars
<1>2. ASSUME NEW p \in Pid, Process(p)
      PROVE  Gone'
  <2>1. UNCHANGED <<fdIn, fdPipe, pid>>
    BY <1>2 DEF Process, Exec, ExecFail, ChildTermed, ChildEnds, Write, Fork, HeirExit, Die
  <2>2. \A q \in Pid : proc[q] = "reaped" => proc'[q] = "reaped"
    BY <1>2, ProcessFrame DEF Living
  <2>3. \A i \in Item : fdIn[i] # None => fdPipe[fdIn[i]] \in Pid
    BY <1>0 DEF Table, TypeOK, FdTabExact
  <2> QED BY <1>0, <2>1, <2>2, <2>3, StillGone
<1>3. CASE periph_item_sigchld
  <2>1. UNCHANGED <<fdIn, fdPipe>>
    BY <1>3 DEF periph_item_sigchld
  <2>2. \A i \in Item : fdIn[i] # None => fdPipe[fdIn[i]] \in Pid
    BY <1>0 DEF Table, TypeOK, FdTabExact
  <2>3. ASSUME NEW i \in Item, fdIn[i] # None
        PROVE  \/ pid'[i] = fdPipe[fdIn[i]]
               \/ pid'[i] = None /\ proc'[fdPipe[fdIn[i]]] = "reaped"
    BY <1>0, <1>3, <2>2, <2>3, HandlerFrame DEF Gone, Dead
  <2> QED BY <2>1, <2>3 DEF Gone
<1>4. CASE CloseKill
  <2>1. UNCHANGED <<fdIn, fdPipe, proc>> /\ fdIn[cur] = None
    BY <1>4 DEF CloseKill, Table, Places
  <2> QED BY <1>0, <1>4, <2>1, CloseKillFrame, StillGone
<1>5. ASSUME NEW i \in Item, NEW f \in Fd, NEW p \in Pid, OpenFork(i, f, p)
      PROVE  Gone'
  <2>1. UNCHANGED <<fdIn, pid>> /\ \A q \in Pid : proc[q] = "reaped" => proc'[q] = "reaped"
    BY <1>5 DEF OpenFork, Table, TypeOK
  <2>2. \A j \in Item : fdIn[j] # None => fdPipe[fdIn[j]] \in Pid /\ fdPipe'[fdIn[j]] = fdPipe[fdIn[j]]
    BY <1>0, <1>5 DEF OpenFork, Table, TypeOK, FdTabExact
  <2> QED BY <1>0, <2>1, <2>2, StillGone
<1>6. CASE OpenPid
  <2>1. UNCHANGED <<fdPipe, proc>> /\ fdPipe[curFd] = curPid /\ pc = "forked"
    BY <1>6 DEF OpenPid, Table, Places
  <2>2. \A j \in Item : fdIn'[j] = IF j = cur THEN curFd ELSE fdIn[j]
    BY <1>6 DEF OpenPid, Table, TypeOK
  <2> QED BY <1>0, <1>6, <2>1, <2>2, OpenPidFrame DEF Gone
<1>7. ASSUME NEW i \in Item, Redeclare(i)
      PROVE  Gone'
  <2>1. /\ UNCHANGED <<fdPipe, proc>>
        /\ \A j \in Item : fdIn'[j] = IF j = i THEN None ELSE fdIn[j]
    BY <1>7 DEF Redeclare, Table, TypeOK
  <2> QED BY <1>0, <1>7, <2>1, RedeclareFrame, StillGone
<1>8. CASE RedeclareInit
  BY <1>7, <1>8 DEF RedeclareInit, Table, Places
<1>9. CASE Aside
  BY <1>0, <1>9, AsideGone
<1> QED BY <1>1, <1>2, <1>3, <1>4, <1>5, <1>6, <1>7, <1>8, <1>9, NextCases

(* Only a write adds to late, only a poll leads to "defunct".              *)
LEMMA NextLate == Table /\ Gone /\ Late /\ [Next]_vars => Late'
<1> SUFFICES ASSUME Table, Gone, Late, [Next]_vars PROVE Late'
  OBVIOUS
<1> USE PeriphAssumption DEF itemVars, loopVars, jobVars, procVars, histVars
<1>1. \A p \in Pid : proc[p] = "reaped" => proc'[p] = "reaped"
  <2>1. CASE \E p \in Pid : Process(p)
    BY <2>1, ProcessFrame DEF Living
  <2>2. CASE periph_item_sigchld
    BY <2>2, HandlerFrame
  <2>3. CASE \E i \in Item, f \in Fd, p \in Pid : OpenFork(i, f, p)
    BY <2>3, OpenForkFrame
  <2>4. CASE CloseKill \/ OpenPid \/ Aside \/ UNCHANGED vars
    BY <2>4, CloseKillFrame, OpenPidFrame, AsideFrame DEF vars
  <2>5. CASE RedeclareInit \/ \E i \in Item : Redeclare(i)
    BY <2>5 DEF RedeclareInit, Redeclare
  <2> QED BY <2>1, <2>2, <2>3, <2>4, <2>5, NextCases
<1>2. late \subseteq Pid
  BY DEF Table, TypeOK
<1>3. ASSUME NEW p \in Pid, Write(p)
      PROVE  Late'
  <2>1. UNCHANGED <<pc, pid, cur, curFd, fdPipe, proc, fdIn>>
    BY <1>3 DEF Write
  <2>2. CASE pc = "defunct" /\ fdPipe[curFd] = p
    <3>1. cur \in Item /\ fdIn[cur] = curFd /\ curFd # None /\ pid[cur] = None
      BY <2>2 DEF Table, Places, Late
    <3>2. proc[p] = "reaped"
      BY <2>2, <3>1 DEF Gone, Ending
    <3>3. late' = late \cup {p}
      BY <1>3, <2>2 DEF Write
    <3> QED BY <2>1, <2>2, <3>1, <3>2, <3>3 DEF Late
  <2>3. CASE ~ (pc = "defunct" /\ fdPipe[curFd] = p)
    <3>1. late' = late
      BY <1>3, <2>3 DEF Write
    <3>2. pc = "defunct" => pipe'[fdPipe[curFd]] = pipe[fdPipe[curFd]]
      BY <1>3, <2>3 DEF Write, Table, TypeOK
    <3> QED BY <2>1, <3>1, <3>2 DEF Late
  <2> QED BY <2>2, <2>3
<1>4. CASE UNCHANGED <<pc, pid, cur, curFd, fdPipe, pipe, late>>
  BY <1>1, <1>2, <1>4 DEF Late
<1>5. ASSUME NEW p \in Pid, Process(p), ~ Write(p)
      PROVE  Late'
  BY <1>4, <1>5 DEF Process, Exec, ExecFail, ChildTermed, ChildEnds, Fork, HeirExit, Die
<1>6. CASE periph_item_sigchld
  <2>1. UNCHANGED <<cur, curFd, fdPipe, pipe, late>> /\ (pc' = "defunct" => pc = "defunct")
    BY <1>6 DEF periph_item_sigchld, StartScan
  <2>2. pc = "defunct" => pid'[cur] = None
    BY <1>6, HandlerFrame DEF Late, Table, Places
  <2> QED BY <1>1, <1>2, <2>1, <2>2 DEF Late
<1>7. ASSUME NEW f \in Fd, ScanDefunct(f)
      PROVE  Late'
  <2>1. f \in Entries /\ pc = "scan"
    BY <1>7 DEF ScanDefunct, First, Table, LeftOpen, Loops
  <2>2. fdTab[f] \in Item /\ fdIn[fdTab[f]] = f /\ fdPipe[f] \in Pid
    BY <2>1, EntryOpen DEF Ending
  <2>3. pid[fdTab[f]] = None /\ pipe[fdPipe[f]] = <<>>
    BY <1>7, <2>2 DEF ScanDefunct, Defunct, Readable
  <2>4. cur' = fdTab[f] /\ curFd' = f /\ UNCHANGED <<pid, fdPipe, pipe, late, proc>>
    BY <1>7 DEF ScanDefunct
  <2> QED BY <2>3, <2>4 DEF Late
<1>8. CASE pc' # "defunct" /\ late' = late
  BY <1>1, <1>2, <1>8 DEF Late
<1>9. ASSUME NEW f \in Fd, ScanKeep(f) \/ DispatchLine(f) \/ DispatchPart(f)
             \/ DispatchEof(f) \/ QuitClose(f) \/ QuitSkip(f)
      PROVE  pc' # "defunct" /\ late' = late
  BY <1>9 DEF ScanKeep, DispatchLine, DispatchPart, DispatchEof, QuitClose, QuitSkip,
              CloseBegin
<1>10. ASSUME NEW i \in Item, CmdClose(i) \/ CmdRedeclare(i) \/ QuitItem(i)
       PROVE  pc' # "defunct" /\ late' = late
  BY <1>10 DEF CmdClose, CmdRedeclare, QuitItem, CloseBegin
<1>11. CASE \/ ScanClose \/ ScanEnd \/ DispatchEnd \/ SelectReady \/ SelectDone
            \/ QuitEnd \/ OpenList
  BY <1>8, <1>11 DEF ScanClose, ScanEnd, DispatchEnd, SelectReady, SelectDone, QuitEnd,
                     OpenList, CloseBegin, StartScan
<1>12. CASE CmdQuit \/ Terminate \/ CmdOther \/ \E i \in Item \cup {None} : CmdWith(i)
  BY <1>8, <1>12 DEF CmdQuit, Terminate, Quit, Hangup, CmdOther, CmdWith, StartScan
<1>13. CASE Aside
  BY <1>7, <1>8, <1>9, <1>10, <1>11, <1>12, <1>13 DEF Aside
<1>14. CASE CloseKill
  <2>1. pc' # "defunct"
    BY <1>14 DEF CloseKill, Table, Places
  <2> QED BY <1>8, <1>14, <2>1 DEF CloseKill
<1>15. CASE OpenPid \/ \E i \in Item, f \in Fd, p \in Pid : OpenFork(i, f, p)
  BY <1>8, <1>15 DEF OpenPid, OpenFork
<1>16. CASE RedeclareInit \/ \E i \in Item : Redeclare(i)
  BY <1>8, <1>16 DEF RedeclareInit, Redeclare, StartScan
<1>17. CASE UNCHANGED vars
  BY <1>4, <1>17 DEF vars
<1> QED BY <1>3, <1>5, <1>6, <1>13, <1>14, <1>15, <1>16, <1>17, NextCases

LEMMA StepLosesNoLine ==
  ASSUME Table, Late, [Next]_vars, NEW i \in Item, fdIn[i] # None, fdIn'[i] = None,
         pc \in {"defunct", "dispatch"}
  PROVE  \/ ~ HasLine(fdPipe[fdIn[i]])
         \/ fdPipe[fdIn[i]] \in late /\ proc[fdPipe[fdIn[i]]] = "reaped"
<1> USE PeriphAssumption DEF itemVars, loopVars, jobVars, procVars, histVars
<1>1. ScanClose \/ \E f \in Fd : DispatchEof(f)
  <2>1. fdIn' # fdIn
    OBVIOUS
  <2>2. ASSUME NEW p \in Pid PROVE ~ Process(p)
    BY <2>1 DEF Process, Exec, ExecFail, ChildTermed, ChildEnds, Write, Fork, HeirExit, Die
  <2>3. ~ periph_item_sigchld /\ ~ UNCHANGED vars
    BY <2>1 DEF periph_item_sigchld, vars
  <2>4. Aside
    BY <2>2, <2>3, NextCases DEF CloseKill, OpenFork, OpenPid, RedeclareInit
  <2> QED
    BY <2>1, <2>4 DEF Aside, ScanDefunct, ScanKeep, DispatchLine, DispatchPart, QuitClose,
                      QuitSkip, QuitItem, ScanEnd, DispatchEnd, SelectReady, SelectDone,
                      QuitEnd, OpenList, CmdClose, CmdRedeclare, CmdWith, CmdQuit,
                      Terminate, Quit, CmdOther
<1>2. \A p \in Pid : pipe[p] = <<>> => ~ HasLine(p)
  BY DEF HasLine
<1>3. CASE ScanClose
  <2>1. pc = "defunct" /\ cur \in Item /\ fdIn[cur] = curFd /\ curFd \in Fd
    BY <1>3 DEF ScanClose, Table, Places
  <2>2. i = cur
    BY <1>3, <2>1 DEF ScanClose, CloseBegin, Table, TypeOK
  <2>3. fdPipe[curFd] \in Pid
    BY <2>1 DEF Table, TypeOK, FdTabExact, Ending
  <2>4. pipe[fdPipe[curFd]] = <<>> \/ fdPipe[curFd] \in late
    BY <2>1 DEF Late
  <2> QED BY <1>2, <2>1, <2>2, <2>3, <2>4 DEF Late
<1>4. ASSUME NEW f \in Fd, DispatchEof(f)
      PROVE  ~ HasLine(fdPipe[fdIn[i]])
  <2>1. f \in Entries /\ pc = "dispatch"
    BY <1>4 DEF DispatchEof, First, Table, LeftOpen, Loops
  <2>2. fdTab[f] \in Item /\ fdIn[fdTab[f]] = f /\ fdPipe[f] \in Pid
    BY <2>1, EntryOpen DEF Ending
  <2>3. fdTab[f] = i
    BY <1>4, <2>2 DEF DispatchEof, CloseBegin, Table, TypeOK
  <2>4. pipe[fdPipe[f]] = <<>>
    BY <1>4 DEF DispatchEof
  <2> QED BY <1>2, <2>2, <2>3, <2>4
<1> QED BY <1>1, <1>3, <1>4

(* The engine disconnects a peripheral by itself only after it has handed  *)
(* over the complete lines, but those that a descendant of the reaped      *)
(* process writes between the engine's poll() and its close().             *)
THEOREM LinesAreKept == Spec => NoLineLost
<1>1. Init => Table /\ Gone /\ Late
  BY InitTable DEF Init, Gone, Late
<1>2. (Table /\ Gone /\ Late) /\ [Next]_vars => (Table /\ Gone /\ Late)'
  BY NextTable, NextGone, NextLate
<1>3. Table /\ Late /\ [Next]_vars =>
        \A i \in Item :
          fdIn[i] # None /\ fdIn'[i] = None /\ pc \in {"defunct", "dispatch"}
            => \/ ~ HasLine(fdPipe[fdIn[i]])
               \/ fdPipe[fdIn[i]] \in late /\ proc[fdPipe[fdIn[i]]] = "reaped"
  BY StepLosesNoLine
<1> QED BY <1>1, <1>2, <1>3, PTL DEF NoLineLost, Spec

(* Whatever closes a peripheral, it is no longer the default target.       *)
THEOREM DefaultIsDropped == Spec => DefaultDropped
<1>1. ASSUME Table, [Next]_vars, NEW f \in Fd, fdTab[f] # None, fdTab'[f] = None,
             pc' # "quit"
      PROVE  with' # fdTab[f]
  <2> USE PeriphAssumption DEF itemVars, loopVars, jobVars, procVars, histVars
  <2>1. CloseKill
    <3>1. ~ UNCHANGED vars
      BY <1>1 DEF vars
    <3>2. ASSUME NEW p \in Pid PROVE ~ Process(p)
      BY <1>1 DEF Process, Exec, ExecFail, ChildTermed, ChildEnds, Write, Fork, HeirExit,
                  Die
    <3>3. ~ periph_item_sigchld /\ ~ OpenPid /\ ~ OpenList
      BY <1>1 DEF periph_item_sigchld, OpenPid, OpenList, Table, TypeOK, Places
    <3>4. ASSUME NEW i \in Item PROVE ~ Redeclare(i)
      BY <1>1 DEF Redeclare
    <3>5. ~ RedeclareInit
      BY <1>1 DEF RedeclareInit, Redeclare
    <3>6. ~ \E i \in Item, g \in Fd, p \in Pid : OpenFork(i, g, p)
      BY <1>1 DEF OpenFork
    <3>7. ~ Aside
      BY <1>1, <3>3 DEF Aside, ScanDefunct, ScanClose, ScanKeep, DispatchLine,
                        DispatchPart, DispatchEof, QuitClose, QuitSkip, QuitItem, CloseBegin,
                        ScanEnd,
                        DispatchEnd, SelectReady, SelectDone, QuitEnd, CmdClose,
                        CmdRedeclare, CmdWith, CmdQuit, Terminate, Quit, CmdOther
    <3> QED BY <1>1, <3>1, <3>2, <3>3, <3>4, <3>5, <3>6, <3>7, NextCases
  <2>2. f = curFd /\ ret # "quit"
    BY <1>1, <2>1 DEF CloseKill, Cleared, Table, TypeOK
  <2>3. pc = "kill"
    BY <2>1 DEF CloseKill
  <2>4. fdTab[f] = cur /\ cur \in Item
    BY <1>1, <2>2, <2>3 DEF Table, Places
  <2> QED BY <2>1, <2>2, <2>4 DEF CloseKill, Default
<1>2. Table /\ [Next]_vars =>
        \A f \in Fd : fdTab[f] # None /\ fdTab'[f] = None /\ pc' # "quit"
                       => with' # fdTab[f]
  BY <1>1
<1> QED BY <1>2, TableCorrect, PTL DEF DefaultDropped, Spec

-----------------------------------------------------------------------------
(* The processes when the engine is gone.                                  *)

Held(p) ==
  \/ pc = "forked" /\ curPid = p
  \/ \E i \in Item : pid[i] = p /\ (fdIn[i] # None \/ (pc = "kill" /\ cur = i))
Orphans == \A p \in Pid : Living(p) => p \in termed \cup cut \/ Held(p)

LEMMA CloseBeginOrphans ==
  ASSUME Table, Orphans, NEW i \in Item, NEW r \in PC, CloseBegin(i, r),
         pc \notin {"forked", "kill"}
  PROVE  Orphans'
<1>1. /\ UNCHANGED <<pid, proc, termed, cut>> /\ pc' = "kill" /\ cur' = i
      /\ \A j \in Item : j # i => fdIn'[j] = fdIn[j]
  BY DEF CloseBegin, Table, TypeOK, histVars
<1> QED BY <1>1 DEF Orphans, Living, Held

LEMMA StillOrphans ==
  ASSUME Orphans, UNCHANGED <<pid, fdIn, proc>>, pc \notin {"forked", "kill"},
         termed \subseteq termed', cut \subseteq cut'
  PROVE  Orphans'
BY DEF Orphans, Living, Held

LEMMA AsideOrphans ==
  ASSUME Table, Orphans, Aside
  PROVE  Orphans'
<1> USE DEF itemVars, loopVars, jobVars, procVars, histVars
<1>1. ASSUME NEW f \in Fd, DispatchEof(f) \/ QuitClose(f)
      PROVE  Orphans'
  <2>1. fdTab[f] \in Item
    BY <1>1 DEF DispatchEof, QuitClose, First, Entries, Table, TypeOK,
                LeftOpen, Loops
  <2>2. pc \notin {"forked", "kill"} /\ \E r \in PC : CloseBegin(fdTab[f], r)
    BY <1>1 DEF DispatchEof, QuitClose, PC
  <2> QED BY <2>1, <2>2, CloseBeginOrphans
<1>2. ASSUME NEW i \in Item, CmdClose(i) \/ CmdRedeclare(i) \/ QuitItem(i)
      PROVE  Orphans'
  <2>1. pc \notin {"forked", "kill"} /\ \E r \in PC : CloseBegin(i, r)
    BY <1>2 DEF CmdClose, CmdRedeclare, QuitItem, PC
  <2> QED BY <2>1, CloseBeginOrphans
<1>8. CASE ScanClose
  BY <1>8, CloseBeginOrphans DEF ScanClose, Table, Places, PC
<1>3. CASE \E f \in Fd : \/ ScanDefunct(f) \/ ScanKeep(f) \/ DispatchLine(f)
                       \/ DispatchPart(f) \/ QuitSkip(f)
  BY <1>3, StillOrphans DEF ScanDefunct, ScanKeep, DispatchLine, DispatchPart, QuitSkip
<1>4. CASE ScanEnd \/ DispatchEnd \/ SelectReady \/ SelectDone \/ QuitEnd \/ OpenList
  BY <1>4, StillOrphans DEF ScanEnd, DispatchEnd, SelectReady, SelectDone, QuitEnd, OpenList
<1>5. CASE CmdOther \/ \E i \in Item \cup {None} : CmdWith(i)
  BY <1>5, StillOrphans DEF CmdOther, CmdWith
<1>6. CASE CmdQuit
  BY <1>6, StillOrphans DEF CmdQuit, Quit, Hangup
<1>7. CASE Terminate
  <2>1. UNCHANGED <<pid, fdIn, proc, termed>> /\ cut' = cut \cup InHand
    BY <1>7 DEF Terminate, Quit, Hangup
  <2>2. pc = "kill" => \A i \in Item : pid[i] \in Pid /\ cur = i => pid[i] \in InHand
    BY PeriphAssumption DEF InHand
  <2>3. pc = "forked" => curPid \in InHand
    BY DEF InHand
  <2> QED BY <2>1, <2>2, <2>3 DEF Orphans, Living, Held
<1> QED BY <1>1, <1>2, <1>3, <1>4, <1>5, <1>6, <1>7, <1>8 DEF Aside

LEMMA NextOrphans == Table /\ Orphans /\ [Next]_vars => Orphans'
<1> SUFFICES ASSUME Table, Orphans, [Next]_vars PROVE Orphans'
  OBVIOUS
<1> USE PeriphAssumption DEF itemVars, loopVars, jobVars, procVars, histVars
<1>1. CASE UNCHANGED vars
  BY <1>1 DEF vars, Orphans, Living, Held
<1>2. ASSUME NEW p \in Pid, Process(p)
      PROVE  Orphans'
  <2>1. UNCHANGED <<pc, pid, fdIn, cur, curPid, cut>>
    BY <1>2 DEF Process, Exec, ExecFail, ChildTermed, ChildEnds, Write, Fork, HeirExit, Die
  <2>2. termed \subseteq termed'
    BY <1>2, ProcessFrame
  <2>3. \/ proc' = proc
        \/ Living(p) /\ \E x \in {"alive", "zombie"} : proc' = [proc EXCEPT ![p] = x]
    BY <1>2 DEF Process, Exec, ExecFail, ChildTermed, ChildEnds, Write, Fork, HeirExit, Die,
                Living
  <2>4. \A q \in Pid : Living(q)' => Living(q)
    BY <2>3 DEF Living, Table, TypeOK
  <2> QED BY <2>1, <2>2, <2>4 DEF Orphans, Held
<1>3. CASE periph_item_sigchld
  <2>1. UNCHANGED <<fdIn, cur, curPid, termed, cut>>
    BY <1>3 DEF periph_item_sigchld
  <2>2. (pc = "forked" => pc' = "forked") /\ (pc = "kill" => pc' = "kill")
    BY <1>3 DEF periph_item_sigchld, StartScan
  <2>3. \A p \in Pid : Living(p)' => Living(p) /\ p \notin Dead
    BY <1>3, HandlerFrame DEF Living, Dead
  <2>4. \A i \in Item : pid[i] \notin Dead => pid'[i] = pid[i]
    BY <1>3, HandlerFrame
  <2> QED BY <2>1, <2>2, <2>3, <2>4 DEF Orphans, Held
<1>4. CASE CloseKill
  <2>1. UNCHANGED <<fdIn, cut, proc>> /\ pc = "kill"
    BY <1>4 DEF CloseKill
  <2> QED BY <1>4, <2>1, CloseKillFrame DEF Orphans, Living, Held
<1>5. ASSUME NEW i \in Item, NEW f \in Fd, NEW p \in Pid, OpenFork(i, f, p)
      PROVE  Orphans'
  <2>1. UNCHANGED <<fdIn, cut>> /\ pc = "cmd" /\ pc' = "forked"
    BY <1>5 DEF OpenFork
  <2> QED BY <1>5, <2>1, OpenForkFrame DEF Orphans, Living, Held
<1>6. CASE OpenPid
  <2>1. /\ UNCHANGED cut /\ fdIn[cur] = None /\ cur \in Item
        /\ \A i \in Item : fdIn'[i] = IF i = cur THEN curFd ELSE fdIn[i]
        /\ curFd # None
    BY <1>6 DEF OpenPid, Table, TypeOK, Places
  <2> QED BY <1>6, <2>1, OpenPidFrame DEF Orphans, Living, Held
<1>7. ASSUME NEW i \in Item, fdIn[i] = None, pc \in {"cmd", "init"}, Redeclare(i)
      PROVE  Orphans'
  <2>1. UNCHANGED cut /\ \A j \in Item : j # i => fdIn'[j] = fdIn[j]
    BY <1>7 DEF Redeclare, Table, TypeOK
  <2> QED BY <1>7, <2>1, RedeclareFrame DEF Orphans, Living, Held
<1>8. CASE RedeclareInit
  BY <1>7, <1>8 DEF RedeclareInit, Table, Places
<1>9. ASSUME NEW i \in Item, CmdRedeclareClosed(i)
      PROVE  Orphans'
  BY <1>7, <1>9 DEF CmdRedeclareClosed
<1>10. CASE Aside
  BY <1>10, AsideOrphans
<1> QED BY <1>1, <1>2, <1>3, <1>4, <1>5, <1>6, <1>8, <1>9, <1>10
        DEF Next, Engine, Command, Aside

(* When the engine is gone, each process that it started has died or was   *)
(* signalled, except one whose open or close a termination signal cut.     *)
THEOREM NobodyIsForgotten == Spec => []NobodyForgotten
<1>1. Init => Table /\ Orphans
  BY InitTable DEF Init, Orphans, Living
<1>2. (Table /\ Orphans) /\ [Next]_vars => (Table /\ Orphans)'
  BY NextTable, NextOrphans
<1>3. Table /\ Orphans => NobodyForgotten
  BY DEF Table, Places, Orphans, Living, Held, NobodyForgotten
<1> QED BY <1>1, <1>2, <1>3, PTL DEF Spec
=============================================================================
