------------------------------- MODULE Link -------------------------------
(***************************************************************************)
(* The links of the virtual user engine: named connections to              *)
(* subprocesses and TCP peers (interface/link), with the agents that run   *)
(* beside them (vu/client/agent.c: filters; capture_proc_interface.c does  *)
(* the same).  All of them are children of the table of Child.             *)
(*                                                                         *)
(* One thread takes commands and descriptor events, one step each, except  *)
(* that a spawn is split where SIGCHLD matters and that the end of an      *)
(* agent waits.  The pipes, or the socket, of a link are named by the      *)
(* process at their other end.                                             *)
(***************************************************************************)
EXTENDS Child

CONSTANTS Name,            \* the links that may be declared
          SubN,            \* the size of sub_tab
          Agent,           \* the agents, members of Handler
          Forker           \* the processes that may leave their output to another

Sub == 0 .. SubN - 1
ASSUME LinkAssumption == /\ SubN \in Nat \ {0}
                         /\ Handler = Sub \cup Agent /\ Agent \cap Sub = {}
                         /\ None \notin Name /\ Forker \subseteq Pid

VARIABLES link,            \* link_tab: class ("no" entry, "none", "proc",
                           \* "tcp"), fd and ptr
          sub,             \* sub_tab: child, and fd for its two descriptors
          sctl,            \* the numbers in sub_ctrl, and who died
          agent,           \* child, and fd for the descriptors of an agent
          fds,             \* the descriptors that are open
          heirs,           \* the processes whose output is held by another
          busy,            \* the command in progress
          crossed,         \* a death or a kill reached a wrong child
          stray            \* processes signalled for another link

linkVars == <<link, sub, sctl, agent, fds, heirs, busy, crossed, stray>>
vars == <<childVars, linkVars>>

NoLink == [class |-> "no", fd |-> None, ptr |-> None]
Unconnected == [class |-> "none", fd |-> None, ptr |-> None]
Idle == [op |-> "idle"]

Init ==
  /\ ChildInit
  /\ link = [n \in Name |-> NoLink]
  /\ sub = [s \in Sub |-> [child |-> None, fd |-> None]]
  /\ sctl = <<>>
  /\ agent = [a \in Agent |-> [child |-> None, fd |-> None]]
  /\ fds = {} /\ heirs = {}
  /\ busy = Idle
  /\ crossed = FALSE /\ stray = {}

Eof(p) == proc[p] \in {"dead", "reaped"} /\ p \notin heirs
AtEof(n) == link[n].fd \in fds /\ Eof(link[n].fd)

-----------------------------------------------------------------------------
(* sub_item_kill, for the subprocesses S.  sub->child may name an entry    *)
(* that was given to another process since.                                *)

Foreign(S) ==
  {p \in Pid : \E s \in S : /\ sub[s].child # None
                            /\ tab[sub[s].child].pid = p /\ p # sub[s].fd}

BugSubKill(S) ==
  /\ tab' = Detached(tab, {sub[s].child : s \in S})
  /\ UNCHANGED signalled
  /\ stray' = stray \cup Foreign(S)
  /\ crossed' = (crossed \/ Foreign(S) # {})
  /\ fds' = fds \ {sub[s].fd : s \in S}
  /\ sub' = [s \in Sub |-> IF s \in S THEN [child |-> None, fd |-> None]
                           ELSE sub[s]]
SubKill(S) ==
  LET E == {sub[s].child : s \in S} \ {None}
  IN  /\ tab' = Detached(tab, E)
      /\ signalled' = signalled \cup Targets(tab, E)
      /\ stray' = stray \cup Foreign(S)
      /\ crossed' = (crossed \/ Foreign(S) # {})
      /\ fds' = fds \ {sub[s].fd : s \in S}
      /\ sub' = [s \in Sub |-> IF s \in S THEN [child |-> None, fd |-> None]
                               ELSE sub[s]]

(* link_kill.  A TCP peer is shut down; its descriptor stays open. *)
BugLinkKill(n, after) ==
  /\ link' = [link EXCEPT ![n] = after]
  /\ UNCHANGED <<childVars, sub, sctl, agent, fds, heirs, busy, crossed, stray>>
LinkKill(n, after) ==
  /\ link' = [link EXCEPT ![n] = after]
  /\ IF link[n].class = "proc"
     THEN SubKill({link[n].ptr}) /\ UNCHANGED proc
     ELSE /\ proc' = IF link[n].class = "tcp"
                     THEN [proc EXCEPT ![link[n].fd] = "reaped"] ELSE proc
          /\ UNCHANGED <<tab, signalled, stray, crossed, fds, sub>>
  /\ UNCHANGED <<ctl, missed, sctl, agent, heirs, busy>>

-----------------------------------------------------------------------------
(* Commands. *)

CmdLink(n) ==
  /\ busy = Idle /\ link[n].class = "no"
  /\ link' = [link EXCEPT ![n] = Unconnected]
  /\ UNCHANGED <<childVars, sub, sctl, agent, fds, heirs, busy, crossed, stray>>

CmdUnlink(n) == busy = Idle /\ link[n].class # "no" /\ LinkKill(n, NoLink)

CmdKill(n) ==
  busy = Idle /\ link[n].class \in {"proc", "tcp"} /\ LinkKill(n, Unconnected)

(* sub_connect, sub_item_spawn and child_spawn, up to the fork. *)
BugFreeSub == Sub
FreeSub == {s \in Sub : sub[s].child = None}

Fork(command) ==
  /\ Free # {} /\ Unused # {}
  /\ proc' = [proc EXCEPT ![Min(Unused)] = "run"]
  /\ fds' = fds \cup {Min(Unused)}
  /\ busy' = command
  /\ UNCHANGED <<tab, ctl, signalled, missed, link, sub, sctl, agent, heirs,
                 crossed, stray>>

CmdConnect(n) ==
  /\ busy = Idle /\ link[n].class = "none" /\ FreeSub # {}
  /\ Fork([op |-> "connect", name |-> n, num |-> Min(FreeSub),
           entry |-> Min(Free), pid |-> Min(Unused)])

ConnectStore ==
  /\ busy.op = "connect"
  /\ tab' = Store(tab, busy.entry, busy.pid, busy.num)
  /\ sub' = [sub EXCEPT ![busy.num] = [child |-> busy.entry, fd |-> busy.pid]]
  /\ link' = [link EXCEPT ![busy.name] =
                [class |-> "proc", fd |-> busy.pid, ptr |-> busy.num]]
  /\ busy' = Idle
  /\ UNCHANGED <<ctl, proc, signalled, missed, sctl, agent, fds, heirs,
                 crossed, stray>>

CmdConnectTcp(n) ==
  /\ busy = Idle /\ link[n].class = "none" /\ Unused # {}
  /\ proc' = [proc EXCEPT ![Min(Unused)] = "run"]
  /\ fds' = fds \cup {Min(Unused)}
  /\ link' = [link EXCEPT ![n] =
                [class |-> "tcp", fd |-> Min(Unused), ptr |-> None]]
  /\ UNCHANGED <<tab, ctl, signalled, missed, sub, sctl, agent, heirs, busy,
                 crossed, stray>>

AgentCreate(a) ==
  /\ busy = Idle /\ agent[a].child = None
  /\ Fork([op |-> "agent", name |-> a, entry |-> Min(Free), pid |-> Min(Unused)])

AgentStore ==
  /\ busy.op = "agent"
  /\ tab' = Store(tab, busy.entry, busy.pid, busy.name)
  /\ agent' = [agent EXCEPT ![busy.name] =
                 [child |-> busy.entry, fd |-> busy.pid]]
  /\ busy' = Idle
  /\ UNCHANGED <<ctl, proc, signalled, missed, link, sub, sctl, fds, heirs,
                 crossed, stray>>

-----------------------------------------------------------------------------
(* agent_terminate, called by agent_destroy, at the end of the output of   *)
(* the agent, or as the handler of a death.  child_terminate returns at    *)
(* once if the entry is free.                                              *)

AgentEnd(a, wrong) ==
  LET e == agent[a].child
      p == IF e = None THEN None ELSE tab[e].pid
      foreign == p # None /\ p # agent[a].fd
  IN  /\ tab' = Detached(tab, {e} \ {None})
      /\ signalled' = IF p = None THEN signalled ELSE signalled \cup {p}
      /\ busy' = IF p = None THEN Idle
                 ELSE [op |-> "wait", entry |-> e, pid |-> p]
      /\ stray' = IF foreign THEN stray \cup {p} ELSE stray
      /\ crossed' = (crossed \/ foreign \/ wrong)
      /\ fds' = fds \ {agent[a].fd}
      /\ agent' = [agent EXCEPT ![a] = [child |-> None, fd |-> None]]
      /\ UNCHANGED <<link, sub, sctl, heirs, proc, missed>>

AgentDestroy(a) ==
  /\ busy = Idle /\ agent[a].child # None
  /\ AgentEnd(a, FALSE) /\ UNCHANGED ctl

AgentEof(a) ==
  /\ busy = Idle /\ agent[a].fd # None /\ Eof(agent[a].fd)
  /\ AgentEnd(a, FALSE) /\ UNCHANGED ctl

WaitOver ==
  /\ busy.op = "wait"
  /\ \/ WaitJustDead(busy.pid) \/ WaitDeath(busy.entry, busy.pid)
     \/ WaitAlarm(busy.pid)
  /\ busy' = Idle
  /\ UNCHANGED <<link, sub, sctl, agent, fds, heirs, crossed, stray>>

-----------------------------------------------------------------------------
(* Events. *)

(* link_read_event: what a link printed is logged, its end disconnects it. *)
BugLinkEof(n) ==
  /\ busy = Idle /\ AtEof(n)
  /\ proc[link[n].fd] = "dead" /\ LinkKill(n, Unconnected)
LinkEof(n) == busy = Idle /\ AtEof(n) /\ LinkKill(n, Unconnected)

(* child_event_ctrl, with sub_sigchld or agent_terminate as the handler. *)
CtlEvent ==
  /\ busy = Idle /\ ctl # <<>>
  /\ ctl' = Tail(ctl)
  /\ CASE Called = None -> UNCHANGED <<tab, proc, signalled, missed, linkVars>>
       [] Called \in Sub ->
            /\ sctl' = Append(sctl, [num |-> Called, pid |-> Head(ctl).pid])
            /\ crossed' = (crossed \/ sub[Called].fd # Head(ctl).pid)
            /\ UNCHANGED <<tab, proc, signalled, missed, link, sub, agent,
                           fds, heirs, busy, stray>>
       [] Called \in Agent ->
            AgentEnd(Called, agent[Called].fd # Head(ctl).pid)

SubCtlEvent ==                              \* sub_ctrl_read
  /\ busy = Idle /\ sctl # <<>>
  /\ sctl' = Tail(sctl)
  /\ LET s == Head(sctl).num
     IN  /\ sub' = [sub EXCEPT ![s].child = None]
         /\ crossed' = (crossed \/ (/\ sub[s].fd # None
                                   /\ sub[s].fd # Head(sctl).pid))
  /\ UNCHANGED <<childVars, link, agent, fds, heirs, busy, stray>>

(* link_done: sub_done for the whole table, then link_free for each link.  *)
Quit ==
  /\ busy = Idle
  /\ SubKill(Sub)
  /\ link' = [n \in Name |-> NoLink]
  /\ busy' = [op |-> "done"]
  /\ UNCHANGED <<ctl, proc, missed, sctl, agent, heirs>>

-----------------------------------------------------------------------------
(* The processes. *)

SigchldEvent == /\ busy.op # "done"
                /\ \E p \in Pid : Sigchld(p)
                /\ UNCHANGED linkVars

Peer(p) == \E n \in Name : link[n].class = "tcp" /\ link[n].fd = p

ProcDies(p) ==
  /\ ~ Peer(p) /\ Die(p) /\ UNCHANGED linkVars

PeerCloses(p) ==
  /\ Peer(p) /\ proc[p] = "run"
  /\ proc' = [proc EXCEPT ![p] = "reaped"]
  /\ UNCHANGED <<tab, ctl, signalled, missed, linkVars>>

HeirStarts(p) ==
  /\ p \in Forker /\ proc[p] = "run" /\ ~ Peer(p)
  /\ heirs' = heirs \cup {p}
  /\ UNCHANGED <<childVars, link, sub, sctl, agent, fds, busy, crossed, stray>>

HeirEnds(p) ==
  /\ p \in heirs
  /\ heirs' = heirs \ {p}
  /\ UNCHANGED <<childVars, link, sub, sctl, agent, fds, busy, crossed, stray>>

Command == \E n \in Name : \/ CmdLink(n) \/ CmdUnlink(n) \/ CmdKill(n)
                           \/ CmdConnect(n) \/ CmdConnectTcp(n)
Agents == \E a \in Agent : AgentCreate(a) \/ AgentDestroy(a)
Going == ConnectStore \/ AgentStore \/ WaitOver
Loop == \/ CtlEvent \/ SubCtlEvent
        \/ (\E a \in Agent : AgentEof(a)) \/ (\E n \in Name : LinkEof(n))
World == \E p \in Pid : \/ ProcDies(p) \/ PeerCloses(p)
                        \/ HeirStarts(p) \/ HeirEnds(p)

Next == Command \/ Agents \/ Going \/ Loop \/ Quit \/ SigchldEvent \/ World

Spec == Init /\ [][Next]_vars

(* The main loop goes on and serves each descriptor that stays ready, and  *)
(* the kernel delivers SIGCHLD.                                            *)
FairSpec ==
  /\ Spec /\ WF_vars(Going) /\ WF_vars(SigchldEvent)
  /\ WF_vars(CtlEvent) /\ WF_vars(SubCtlEvent)
  /\ (\A n \in Name : SF_vars(LinkEof(n))) /\ (\A a \in Agent : SF_vars(AgentEof(a)))

-----------------------------------------------------------------------------
(* Properties. *)

Started(p) == proc[p] # "none" /\ ~ Peer(p)
Forked(p) == busy.op \in {"connect", "agent"} /\ busy.pid = p

TypeOK ==
  /\ tab \in [Entry -> [pid : Pid \cup {None}, handler : Handler \cup {None}]]
  /\ proc \in [Pid -> {"none", "run", "dead", "reaped"}]
  /\ link \in [Name -> [class : {"no", "none", "proc", "tcp"},
                        fd : Pid \cup {None}, ptr : Sub \cup {None}]]
  /\ sub \in [Sub -> [child : Entry \cup {None}, fd : Pid \cup {None}]]
  /\ agent \in [Agent -> [child : Entry \cup {None}, fd : Pid \cup {None}]]
  /\ \A k \in DOMAIN ctl : ctl[k].index \in 1 .. ChildNB
  /\ \A k \in DOMAIN sctl : sctl[k].num \in Sub
  /\ fds \subseteq Pid /\ busy.op \in {"idle", "connect", "agent", "wait", "done"}

(* The child table follows the processes: an entry is in use only for one  *)
(* that was not reaped yet, but when a death came before the pid was       *)
(* stored or at the start of a wait; no process has two entries; and each  *)
(* one that runs has an entry once it is stored.                           *)
EntryLive ==
  TypeOK /\ (busy.op # "done" =>
  /\ \A e \in Entry : tab[e].pid # None =>
       \/ proc[tab[e].pid] \in {"run", "dead"} \/ tab[e].pid \in missed
  /\ \A e, f \in Entry : tab[e].pid = tab[f].pid /\ tab[e].pid # None => e = f
  /\ \A p \in Pid : Started(p) /\ proc[p] = "run" => Of(p) # {} \/ Forked(p))

(* No subprocess runs on without its link: unless a death or a kill        *)
(* reached a wrong child, a process that nobody signalled is that of a     *)
(* connected link or of an agent, which know its entry.                    *)
NobodyAdrift ==
  ~ crossed /\ busy.op # "done" => \A p \in Pid :
    Started(p) /\ proc[p] = "run" /\ p \notin signalled =>
      \/ Forked(p)
      \/ \E n \in Name : /\ link[n].class = "proc" /\ link[n].fd = p
                         /\ sub[link[n].ptr].fd = p
                         /\ sub[link[n].ptr].child \in Of(p)
      \/ \E a \in Agent : agent[a].fd = p /\ agent[a].child \in Of(p)

(* Two connected links never share a subprocess entry, and the descriptors *)
(* of a connected link are open, unless a death or a kill reached a wrong  *)
(* child.                                                                  *)
OwnDescriptors ==
  ~ crossed => \A n, m \in Name :
    link[n].class = "proc" =>
      /\ link[n].fd \in fds
      /\ n # m /\ link[m].class = "proc" => link[n].ptr # link[m].ptr

(* A subprocess entry is only taken by a connected link: the table does    *)
(* not fill up with subprocesses that ended.                               *)
NoLostEntry ==
  \A s \in Sub : sub[s].child # None => \E n \in Name : link[n].ptr = s

(* The SIGTERM of a link, or of an agent, goes to its own process: `Kill   *)
(* subprocess connection for link <tag>' (link_cmd.c:286).                 *)
KillOwn == stray = {}

(* A link whose subprocess or peer has ended its output is disconnected,   *)
(* unless a death or a kill reached a wrong child.                         *)
EofDisconnects == \A n \in Name : AtEof(n) ~> ~ AtEof(n) \/ crossed
=============================================================================
