----------------------------- MODULE LinkProofs -----------------------------
(***************************************************************************)
(* Proofs about Link for every table of children and of subprocesses, and  *)
(* for every set of processes, links and agents.                           *)
(***************************************************************************)
EXTENDS Link, WellFoundedInduction, TLAPS

Spawning == busy.op \in {"connect", "agent"}

(* The types of the variables, those of the queues included.               *)
Types ==
  /\ tab \in [Entry -> [pid : Pid \cup {None}, handler : Handler \cup {None}]]
  /\ proc \in [Pid -> {"none", "run", "dead", "reaped"}]
  /\ link \in [Name -> [class : {"no", "none", "proc", "tcp"},
                        fd : Pid \cup {None}, ptr : Sub \cup {None}]]
  /\ sub \in [Sub -> [child : Entry \cup {None}, fd : Pid \cup {None}]]
  /\ agent \in [Agent -> [child : Entry \cup {None}, fd : Pid \cup {None}]]
  /\ ctl \in Seq([index : 1 .. ChildNB, pid : Pid])
  /\ sctl \in Seq([num : Sub, pid : Pid])
  /\ fds \subseteq Pid /\ signalled \subseteq Pid /\ missed \subseteq Pid
  /\ crossed \in BOOLEAN

(* What the command in progress relies on.                                 *)
Busy ==
  /\ busy.op \in {"idle", "connect", "agent", "wait", "done"}
  /\ Spawning => /\ busy.entry \in Entry /\ tab[busy.entry].pid = None
                 /\ busy.pid \in Pid /\ busy.pid \in fds
                 /\ proc[busy.pid] \in {"run", "dead"} \/ busy.pid \in missed
                 /\ proc[busy.pid] # "none"
  /\ busy.op = "connect" =>
       /\ busy.name \in Name /\ link[busy.name].class = "none"
       /\ busy.num \in Sub /\ sub[busy.num].child = None
  /\ busy.op = "agent" => busy.name \in Agent /\ agent[busy.name].child = None
  /\ busy.op = "wait" =>
       /\ busy.entry \in Entry /\ busy.pid \in Pid
       /\ tab[busy.entry].pid = busy.pid \/ proc[busy.pid] = "reaped"

(* No variable names the process, which was not started, or not stored yet.*)
Unknown(p) ==
  /\ \A e \in Entry : tab[e].pid # p
  /\ \A n \in Name : link[n].fd # p
  /\ \A s \in Sub : sub[s].fd # p
  /\ \A a \in Agent : agent[a].fd # p
  /\ \A k \in DOMAIN ctl : ctl[k].pid # p
Fresh ==
  /\ \A p \in Pid : proc[p] = "none" => Unknown(p)
  /\ Spawning => Unknown(busy.pid)

(* The fields of a link go with its class, those of an agent with each     *)
(* other, and the process of a TCP link has no entry.                      *)
Shape ==
  /\ \A n \in Name : /\ link[n].class = "proc" <=> link[n].ptr # None
                     /\ link[n].class \in {"proc", "tcp"} <=> link[n].fd # None
                     /\ link[n].class = "tcp" =>
                          \A e \in Entry : tab[e].pid # link[n].fd
  /\ \A a \in Agent : agent[a].child = None <=> agent[a].fd = None

(* The three parts of EntryLive; the last one is about running.            *)
Reapable ==
  \A e \in Entry : tab[e].pid # None =>
    proc[tab[e].pid] \in {"run", "dead"} \/ tab[e].pid \in missed
OneEntry ==
  \A e, f \in Entry : tab[e].pid = tab[f].pid /\ tab[e].pid # None => e = f
Entered ==
  busy.op # "done" =>
    \A p \in Pid : Started(p) /\ proc[p] = "run" => Of(p) # {} \/ Forked(p)

Base == Types /\ Busy /\ Fresh /\ Shape /\ Reapable /\ OneEntry /\ Entered /\ NoLostEntry

(* What the handlers name: the subprocesses and the agents.                *)
Item == [h \in Handler |-> IF h \in Sub THEN sub[h] ELSE agent[h]]

(* Until a death or a kill reaches a wrong child, and no death ever        *)
(* reaches the right one, the items, the entries and the links know each   *)
(* other.                                                                  *)
Linked ==
  /\ sctl = <<>>
  /\ \A n \in Name : link[n].class = "proc" =>
       link[n].fd \in fds /\ sub[link[n].ptr].fd = link[n].fd
  /\ \A n, m \in Name : link[n].class = "proc" /\ link[m].class = "proc"
                          /\ link[n].ptr = link[m].ptr => n = m
Owned ==
  /\ \A h \in Handler : Item[h].child = None <=> Item[h].fd = None
  /\ \A h, g \in Handler : Item[h].fd = Item[g].fd /\ Item[h].fd # None => h = g
  /\ \A e \in Entry : tab[e].handler # None => Item[tab[e].handler].child = e
  /\ \A e \in Entry : tab[e].pid # None =>
       \/ tab[e].pid \in signalled
       \/ \E h \in Handler : Item[h].child = e /\ Item[h].fd = tab[e].pid
  /\ \A e \in Entry, h \in Handler :
       tab[e].pid # None /\ Item[h].fd = tab[e].pid => Item[h].child = e
  /\ \A k \in DOMAIN ctl, h \in Handler :
       Item[h].fd = ctl[k].pid => Item[h].child = ctl[k].index - 1
Uncrossed == ~ crossed => Linked /\ Owned

IInv == Base /\ Uncrossed

-----------------------------------------------------------------------------

(* The least number of a set of numbers is one of them.                    *)
LEMMA MinOf ==
  ASSUME NEW S, S \subseteq Nat, S # {}
  PROVE  Min(S) \in S /\ \A y \in S : Min(S) <= y
<1> DEFINE Less == {ss \in Nat \X Nat : ss[1] < ss[2]}
<1>1. Less = OpToRel(<, Nat)
  BY DEF OpToRel
<1> HIDE DEF Less
<1>2. \E x \in S : \A y \in S : <<y, x>> \notin Less
  BY <1>1, WFMin, NatLessThanWellFounded
<1>3. \E x \in S : \A y \in S : x <= y
  <2>1. PICK x \in S : \A y \in S : <<y, x>> \notin Less
    BY <1>2
  <2>2. ASSUME NEW y \in S PROVE x <= y
    <3>1. <<y, x>> \in Nat \X Nat /\ <<y, x>>[1] = y /\ <<y, x>>[2] = x
      OBVIOUS
    <3>2. ~ (<<y, x>>[1] < <<y, x>>[2])
      BY <3>1, <2>1 DEF Less
    <3> QED BY <3>1, <3>2
  <2> QED BY <2>2
<1> QED BY <1>3 DEF Min

LEMMA InitInv == Init => IInv
<1> SUFFICES ASSUME Init PROVE IInv
  OBVIOUS
<1> USE LinkAssumption, ChildAssumption DEF Init, ChildInit, NoLink, Idle
<1>1. <<>> \in Seq([index : 1 .. ChildNB, pid : Pid]) /\ <<>> \in Seq([num : Sub, pid : Pid])
  OBVIOUS
<1>2. Types
  BY <1>1 DEF Types, Entry
<1>3. Busy /\ Fresh /\ Shape /\ NoLostEntry
  BY DEF Busy, Fresh, Unknown, Shape, NoLostEntry, Spawning, Entry
<1>4. Reapable /\ OneEntry /\ Entered
  BY DEF Reapable, OneEntry, Entered, Started
<1>5. Linked /\ Owned
  <2>1. \A h \in Handler : Item[h].child = None /\ Item[h].fd = None
    BY DEF Item
  <2> QED BY <2>1 DEF Linked, Owned, Entry
<1> QED BY <1>2, <1>3, <1>4, <1>5 DEF IInv, Base, Uncrossed

(* The commands that only touch the table of links.                        *)
LEMMA BaseCmdLink ==
  ASSUME Base, NEW n \in Name, CmdLink(n)
  PROVE  Base'
<1> USE LinkAssumption, ChildAssumption
<1>1. /\ UNCHANGED <<tab, ctl, proc, signalled, missed, sub, sctl, agent, fds, heirs, busy, crossed>>
      /\ link' = [link EXCEPT ![n] = Unconnected] /\ link[n].class = "no" /\ busy.op = "idle"
  BY DEF CmdLink, childVars, Idle
<1>2. Types'
  BY <1>1 DEF Base, Types, Unconnected
<1>3. \A m \in Name : link'[m] = IF m = n THEN Unconnected ELSE link[m]
  BY <1>1 DEF Base, Types
<1>4. Busy'
  BY <1>1 DEF Base, Busy, Spawning
<1>5. Fresh'
  <2>1. ASSUME NEW q \in Pid, Unknown(q) PROVE Unknown(q)'
    <3>1. \A m \in Name : link'[m].fd # q
      BY <1>3, <2>1, ChildAssumption DEF Unknown, Unconnected
    <3> QED BY <1>1, <2>1, <3>1 DEF Unknown
  <2>2. ~ Spawning'
    BY <1>1 DEF Spawning
  <2> QED BY <1>1, <2>1, <2>2 DEF Base, Fresh
<1>6. Shape'
  BY <1>1, <1>3 DEF Base, Shape, Unconnected
<1>7. Reapable' /\ OneEntry'
  BY <1>1 DEF Base, Reapable, OneEntry
<1>8. Entered'
  BY <1>1, <1>3 DEF Base, Entered, Started, Peer, Of, Forked, Unconnected
<1>9. NoLostEntry'
  BY <1>1, <1>3 DEF Base, NoLostEntry, Shape, Unconnected
<1> QED BY <1>2, <1>4, <1>5, <1>6, <1>7, <1>8, <1>9 DEF Base

LEMMA BaseCmdConnectTcp ==
  ASSUME Base, NEW n \in Name, CmdConnectTcp(n)
  PROVE  Base'
<1> USE LinkAssumption, ChildAssumption
<1> DEFINE p == Min(Unused)
           new == [class |-> "tcp", fd |-> p, ptr |-> None]
<1>1. p \in Pid /\ proc[p] = "none"
  BY MinOf DEF CmdConnectTcp, Unused
<1>2. Unknown(p)
  BY <1>1 DEF Base, Fresh
<1>3. /\ UNCHANGED <<tab, ctl, signalled, missed, sub, sctl, agent, heirs, busy, crossed>>
      /\ proc' = [proc EXCEPT ![p] = "run"] /\ fds' = fds \cup {p}
      /\ link' = [link EXCEPT ![n] = new] /\ link[n].class = "none" /\ busy.op = "idle"
  BY DEF CmdConnectTcp, Idle
<1> HIDE DEF p
<1>4. Types'
  BY <1>1, <1>3 DEF Base, Types
<1>5. /\ \A m \in Name : link'[m] = IF m = n THEN new ELSE link[m]
      /\ \A q \in Pid : proc'[q] = IF q = p THEN "run" ELSE proc[q]
  BY <1>3 DEF Base, Types
<1>6. Busy'
  BY <1>3 DEF Base, Busy, Spawning
<1>7. Fresh'
  BY <1>1, <1>3, <1>5 DEF Base, Fresh, Unknown, Spawning
<1>8. Shape'
  BY <1>1, <1>2, <1>3, <1>5 DEF Base, Shape, Unknown
<1>9. Reapable' /\ OneEntry'
  BY <1>2, <1>3, <1>5 DEF Base, Types, Reapable, OneEntry, Unknown
<1>10. Entered'
  BY <1>3, <1>5 DEF Base, Entered, Started, Peer, Of, Forked
<1>11. NoLostEntry'
  BY <1>3, <1>5 DEF Base, NoLostEntry, Shape
<1> QED BY <1>4, <1>6, <1>7, <1>8, <1>9, <1>10, <1>11 DEF Base

(* A fork, whatever is spawned: the process has no entry yet.              *)
LEMMA BaseFork ==
  ASSUME Base, busy = Idle, NEW b, Fork(b),
         b.op \in {"connect", "agent"}, b.entry = Min(Free), b.pid = Min(Unused),
         b.op = "connect" =>
           /\ b.name \in Name /\ link[b.name].class = "none"
           /\ b.num \in Sub /\ sub[b.num].child = None,
         b.op = "agent" => b.name \in Agent /\ agent[b.name].child = None
  PROVE  Base'
<1> USE LinkAssumption, ChildAssumption
<1>1. b.pid \in Pid /\ proc[b.pid] = "none"
  BY MinOf DEF Fork, Unused
<1>2. b.entry \in Entry /\ tab[b.entry].pid = None
  BY MinOf DEF Fork, Free, Entry
<1>3. Unknown(b.pid)
  BY <1>1 DEF Base, Fresh
<1>4. /\ UNCHANGED <<tab, ctl, signalled, missed, link, sub, sctl, agent, heirs, crossed>>
      /\ proc' = [proc EXCEPT ![b.pid] = "run"] /\ fds' = fds \cup {b.pid}
      /\ busy' = b /\ busy.op = "idle"
  BY DEF Fork, Idle
<1>5. Types'
  BY <1>1, <1>4 DEF Base, Types
<1>6. \A q \in Pid : proc'[q] = IF q = b.pid THEN "run" ELSE proc[q]
  BY <1>4 DEF Base, Types
<1>7. Busy'
  <2>1. busy'.op = b.op /\ busy'.entry = b.entry /\ busy'.pid = b.pid /\ busy'.name = b.name /\ busy'.num = b.num
    BY <1>4
  <2>2. /\ b.entry \in Entry /\ tab'[b.entry].pid = None
        /\ b.pid \in Pid /\ proc'[b.pid] = "run" /\ b.pid \in fds'
    BY <1>1, <1>2, <1>4, <1>6
  <2>3. b.op = "connect" => /\ b.name \in Name /\ link'[b.name].class = "none"
                            /\ b.num \in Sub /\ sub'[b.num].child = None
    BY <1>4
  <2>4. b.op = "agent" => b.name \in Agent /\ agent'[b.name].child = None
    BY <1>4
  <2> QED BY <2>1, <2>2, <2>3, <2>4 DEF Busy, Spawning
<1>8. Fresh'
  <2>1. \A q \in Pid : Unknown(q) => Unknown(q)'
    BY <1>4 DEF Unknown
  <2>2. busy'.pid = b.pid
    BY <1>4
  <2> QED BY <1>1, <1>3, <1>6, <2>1, <2>2 DEF Base, Fresh
<1>9. Shape'
  BY <1>4 DEF Base, Shape
<1>10. Reapable' /\ OneEntry'
  BY <1>3, <1>4, <1>6 DEF Base, Types, Reapable, OneEntry, Unknown
<1>11. Entered'
  BY <1>4, <1>6 DEF Base, Entered, Started, Peer, Of, Forked
<1>12. NoLostEntry'
  BY <1>4 DEF Base, NoLostEntry
<1> QED BY <1>5, <1>7, <1>8, <1>9, <1>10, <1>11, <1>12 DEF Base

LEMMA BaseCmdConnect ==
  ASSUME Base, NEW n \in Name, CmdConnect(n)
  PROVE  Base'
<1> USE LinkAssumption, ChildAssumption
<1>1. Min(FreeSub) \in FreeSub
  BY MinOf DEF CmdConnect, FreeSub, Sub
<1> DEFINE b == [op |-> "connect", name |-> n, num |-> Min(FreeSub),
                 entry |-> Min(Free), pid |-> Min(Unused)]
<1>2. busy = Idle /\ Fork(b) /\ link[n].class = "none"
  BY DEF CmdConnect
<1>3. /\ b.op = "connect" /\ b.name = n /\ b.num = Min(FreeSub)
      /\ b.entry = Min(Free) /\ b.pid = Min(Unused)
  OBVIOUS
<1> HIDE DEF b
<1> QED BY <1>1, <1>2, <1>3, BaseFork DEF FreeSub

LEMMA BaseAgentCreate ==
  ASSUME Base, NEW a \in Agent, AgentCreate(a)
  PROVE  Base'
<1> DEFINE b == [op |-> "agent", name |-> a, entry |-> Min(Free), pid |-> Min(Unused)]
<1>1. busy = Idle /\ Fork(b) /\ agent[a].child = None
  BY DEF AgentCreate
<1>2. b.op = "agent" /\ b.name = a /\ b.entry = Min(Free) /\ b.pid = Min(Unused)
  OBVIOUS
<1> HIDE DEF b
<1> QED BY <1>1, <1>2, BaseFork

LEMMA BaseConnectStore ==
  ASSUME Base, ConnectStore
  PROVE  Base'
<1> USE LinkAssumption, ChildAssumption
<1> DEFINE e == busy.entry
           p == busy.pid
           s == busy.num
           n == busy.name
<1>1. /\ e \in Entry /\ tab[e].pid = None /\ p \in Pid /\ proc[p] # "none"
      /\ n \in Name /\ link[n].class = "none" /\ s \in Sub /\ sub[s].child = None
      /\ Unknown(p) /\ (proc[p] \in {"run", "dead"} \/ p \in missed)
  BY DEF ConnectStore, Base, Busy, Spawning, Fresh
<1>2. /\ UNCHANGED <<ctl, proc, signalled, missed, sctl, agent, fds, heirs, crossed>>
      /\ tab' = [tab EXCEPT ![e] = [pid |-> p, handler |-> s]]
      /\ sub' = [sub EXCEPT ![s] = [child |-> e, fd |-> p]]
      /\ link' = [link EXCEPT ![n] = [class |-> "proc", fd |-> p, ptr |-> s]]
      /\ busy'.op = "idle" /\ busy.op = "connect"
  BY DEF ConnectStore, Store, Idle
<1>3. Forked(p) /\ \A q \in Pid : Forked(q) => q = p
  BY <1>2 DEF Forked
<1> HIDE DEF e, p, s, n
<1>4. /\ \A f \in Entry : tab'[f] = IF f = e THEN [pid |-> p, handler |-> s] ELSE tab[f]
      /\ \A t \in Sub : sub'[t] = IF t = s THEN [child |-> e, fd |-> p] ELSE sub[t]
      /\ \A m \in Name : link'[m] = IF m = n THEN [class |-> "proc", fd |-> p, ptr |-> s]
                                    ELSE link[m]
  BY <1>2 DEF Base, Types
<1>5. Types'
  <2>1. tab' \in [Entry -> [pid : Pid \cup {None}, handler : Handler \cup {None}]]
    BY <1>1, <1>2 DEF Base, Types
  <2>2. sub' \in [Sub -> [child : Entry \cup {None}, fd : Pid \cup {None}]]
    BY <1>1, <1>2 DEF Base, Types
  <2>3. link' \in [Name -> [class : {"no", "none", "proc", "tcp"},
                            fd : Pid \cup {None}, ptr : Sub \cup {None}]]
    BY <1>1, <1>2 DEF Base, Types
  <2> QED BY <1>2, <2>1, <2>2, <2>3 DEF Base, Types
<1>6. Busy'
  BY <1>2 DEF Busy, Spawning
<1>7. Fresh'
  BY <1>1, <1>2, <1>4 DEF Base, Fresh, Unknown, Spawning
<1>8. Shape'
  BY <1>1, <1>2, <1>4 DEF Base, Shape, Unknown, Sub
<1>9. Reapable' /\ OneEntry'
  BY <1>1, <1>2, <1>4 DEF Base, Types, Reapable, OneEntry, Unknown
<1>10. Entered'
  <2>1. ASSUME NEW q \in Pid, Started(q)', proc'[q] = "run"
        PROVE  Of(q)' # {}
    <3>1. Started(q)
      BY <1>1, <1>2, <1>4, <2>1 DEF Started, Peer
    <3>2. Of(q) # {} \/ q = p
      BY <1>2, <1>3, <2>1, <3>1 DEF Base, Entered
    <3> QED BY <1>1, <1>4, <3>2 DEF Of
  <2> QED BY <2>1 DEF Entered
<1>11. NoLostEntry'
  BY <1>1, <1>4 DEF Base, NoLostEntry, Shape
<1> QED BY <1>5, <1>6, <1>7, <1>8, <1>9, <1>10, <1>11 DEF Base

LEMMA BaseAgentStore ==
  ASSUME Base, AgentStore
  PROVE  Base'
<1> USE LinkAssumption, ChildAssumption
<1> DEFINE e == busy.entry
           p == busy.pid
           a == busy.name
<1>1. /\ e \in Entry /\ tab[e].pid = None /\ p \in Pid /\ proc[p] # "none"
      /\ a \in Agent /\ agent[a].child = None
      /\ Unknown(p) /\ (proc[p] \in {"run", "dead"} \/ p \in missed)
  BY DEF AgentStore, Base, Busy, Spawning, Fresh
<1>2. /\ UNCHANGED <<ctl, proc, signalled, missed, link, sub, sctl, fds, heirs, crossed>>
      /\ tab' = [tab EXCEPT ![e] = [pid |-> p, handler |-> a]]
      /\ agent' = [agent EXCEPT ![a] = [child |-> e, fd |-> p]]
      /\ busy'.op = "idle" /\ busy.op = "agent"
  BY DEF AgentStore, Store, Idle
<1>3. Forked(p) /\ \A q \in Pid : Forked(q) => q = p
  BY <1>2 DEF Forked
<1> HIDE DEF e, p, a
<1>4. /\ \A f \in Entry : tab'[f] = IF f = e THEN [pid |-> p, handler |-> a] ELSE tab[f]
      /\ \A b \in Agent : agent'[b] = IF b = a THEN [child |-> e, fd |-> p] ELSE agent[b]
  BY <1>2 DEF Base, Types
<1>5. Types'
  BY <1>1, <1>2 DEF Base, Types
<1>6. Busy'
  BY <1>2 DEF Busy, Spawning
<1>7. Fresh'
  BY <1>1, <1>2, <1>4 DEF Base, Fresh, Unknown, Spawning
<1>8. Shape'
  <2>1. e # None
    BY <1>1 DEF Entry
  <2> QED BY <1>1, <1>2, <1>4, <2>1 DEF Base, Shape, Unknown
<1>9. Reapable' /\ OneEntry'
  BY <1>1, <1>2, <1>4 DEF Base, Types, Reapable, OneEntry, Unknown
<1>10. Entered'
  <2>1. ASSUME NEW q \in Pid, Started(q)', proc'[q] = "run"
        PROVE  Of(q)' # {}
    <3>1. Started(q)
      BY <1>1, <1>2, <1>4, <2>1 DEF Started, Peer
    <3>2. Of(q) # {} \/ q = p
      BY <1>2, <1>3, <2>1, <3>1 DEF Base, Entered
    <3> QED BY <1>1, <1>4, <3>2 DEF Of
  <2> QED BY <2>1 DEF Entered
<1>11. NoLostEntry'
  BY <1>1, <1>2 DEF Base, NoLostEntry
<1> QED BY <1>5, <1>6, <1>7, <1>8, <1>9, <1>10, <1>11 DEF Base

(* Detaching the handlers of some entries leaves their processes.          *)
LEMMA DetachedOf ==
  ASSUME Types, NEW E
  PROVE  /\ Detached(tab, E) \in [Entry -> [pid : Pid \cup {None}, handler : Handler \cup {None}]]
         /\ \A e \in Entry :
              /\ Detached(tab, E)[e].pid = tab[e].pid
              /\ Detached(tab, E)[e].handler = IF e \in E THEN None ELSE tab[e].handler
<1> DEFINE T == [pid : Pid \cup {None}, handler : Handler \cup {None}]
<1>1. ASSUME NEW y \in T
      PROVE  /\ [y EXCEPT !.handler = None] \in T /\ [y EXCEPT !.handler = None].pid = y.pid
             /\ [y EXCEPT !.handler = None].handler = None
  OBVIOUS
<1>2. \A e \in Entry : tab[e] \in T
  BY DEF Types
<1> HIDE DEF T
<1>3. \A e \in Entry : Detached(tab, E)[e] = IF e \in E THEN [tab[e] EXCEPT !.handler = None] ELSE tab[e]
  BY DEF Detached
<1>4. Detached(tab, E) \in [Entry -> T]
  BY <1>1, <1>2 DEF Detached
<1> QED BY <1>1, <1>2, <1>3, <1>4 DEF T

(* A killed subprocess keeps its entry until its death is reaped; the link *)
(* table, which the callers change, is left out.                           *)
LEMMA SubKillOf ==
  ASSUME Types, NEW S, S \subseteq Sub, SubKill(S)
  PROVE  /\ tab' \in [Entry -> [pid : Pid \cup {None}, handler : Handler \cup {None}]]
         /\ sub' \in [Sub -> [child : Entry \cup {None}, fd : Pid \cup {None}]]
         /\ signalled' \subseteq Pid /\ signalled \subseteq signalled'
         /\ fds' \subseteq Pid /\ crossed' \in BOOLEAN
         /\ \A e \in Entry : tab'[e].pid = tab[e].pid
         /\ \A s \in Sub : sub'[s] = IF s \in S THEN [child |-> None, fd |-> None]
                                     ELSE sub[s]
<1> USE LinkAssumption, ChildAssumption
<1>1. \E E : tab' = Detached(tab, E)
  BY DEF SubKill
<1>2. /\ tab' \in [Entry -> [pid : Pid \cup {None}, handler : Handler \cup {None}]]
      /\ \A e \in Entry : tab'[e].pid = tab[e].pid
  BY <1>1, DetachedOf
<1>3. sub' \in [Sub -> [child : Entry \cup {None}, fd : Pid \cup {None}]]
      /\ \A s \in Sub : sub'[s] = IF s \in S THEN [child |-> None, fd |-> None] ELSE sub[s]
  BY DEF SubKill, Types
<1>4. Targets(tab, {sub[s].child : s \in S} \ {None}) \subseteq Pid
  BY DEF Targets, Types
<1>5. signalled' \subseteq Pid /\ signalled \subseteq signalled'
  BY <1>4 DEF SubKill, Types
<1>6. fds' \subseteq Pid /\ crossed' \in BOOLEAN
  BY DEF SubKill, Types
<1> QED BY <1>2, <1>3, <1>5, <1>6

LEMMA BaseLinkKill ==
  ASSUME Base, NEW n \in Name, busy = Idle,
         NEW after \in {NoLink, Unconnected}, LinkKill(n, after)
  PROVE  Base'
<1> USE LinkAssumption, ChildAssumption
<1> DEFINE S == IF link[n].class = "proc" THEN {link[n].ptr} ELSE {}
           P == IF link[n].class = "tcp" THEN {link[n].fd} ELSE {}
<1>1. /\ UNCHANGED <<ctl, missed, sctl, agent, heirs, busy>> /\ busy.op = "idle"
      /\ link' = [link EXCEPT ![n] = after]
  BY DEF LinkKill, Idle
<1>2. /\ tab' \in [Entry -> [pid : Pid \cup {None}, handler : Handler \cup {None}]]
      /\ sub' \in [Sub -> [child : Entry \cup {None}, fd : Pid \cup {None}]]
      /\ signalled' \subseteq Pid
      /\ fds' \subseteq Pid /\ crossed' \in BOOLEAN
      /\ \A e \in Entry : tab'[e].pid = tab[e].pid
      /\ \A s \in Sub : sub'[s] = IF s \in S THEN [child |-> None, fd |-> None] ELSE sub[s]
  <2>1. CASE link[n].class = "proc"
    <3>1. S \subseteq Sub /\ SubKill(S)
      BY <2>1 DEF LinkKill, Base, Shape, Types
    <3> HIDE DEF S
    <3> QED BY <3>1, SubKillOf DEF Base
  <2>2. CASE link[n].class # "proc"
    BY <2>2 DEF LinkKill, Base, Types
  <2> QED BY <2>1, <2>2
<1>3. /\ \A p \in Pid : proc'[p] = IF p \in P THEN "reaped" ELSE proc[p]
      /\ proc' \in [Pid -> {"none", "run", "dead", "reaped"}]
  BY DEF LinkKill, Base, Types
<1>4. /\ \A m \in Name : link'[m] = IF m = n THEN after ELSE link[m]
      /\ after.class \in {"no", "none"} /\ after.fd = None /\ after.ptr = None
  BY <1>1 DEF Base, Types, NoLink, Unconnected
<1>5. \A p \in P : p # None /\ proc[p] # "none" /\ (\A e \in Entry : tab[e].pid # p)
                   /\ p \in Pid
  <2>1. SUFFICES ASSUME link[n].class = "tcp"
                 PROVE  /\ link[n].fd # None /\ proc[link[n].fd] # "none"
                        /\ (\A e \in Entry : tab[e].pid # link[n].fd)
                        /\ link[n].fd \in Pid
    OBVIOUS
  <2>2. link[n].fd # None /\ \A e \in Entry : tab[e].pid # link[n].fd
    BY <2>1 DEF Base, Shape
  <2>3. link[n].fd \in Pid
    BY <2>2 DEF Base, Types
  <2>4. ~ Unknown(link[n].fd)
    BY DEF Unknown
  <2> QED BY <2>2, <2>3, <2>4 DEF Base, Fresh
<1>6. \A s \in Sub : s \in S <=> link[n].ptr = s
  BY DEF Base, Shape
<1>7. Types'
  BY <1>1, <1>2, <1>3 DEF Base, Types, NoLink, Unconnected
<1>8. Busy'
  BY <1>1 DEF Busy, Spawning
<1>10. \A q \in Pid : Peer(q) /\ ~ Peer(q)' => q \in P
  BY <1>4 DEF Peer
<1> HIDE DEF S, P
<1>11. Fresh'
  BY <1>1, <1>2, <1>3, <1>4, <1>5 DEF Base, Fresh, Unknown, Spawning
<1>12. Shape'
  BY <1>1, <1>2, <1>4 DEF Base, Shape
<1>13. Reapable' /\ OneEntry'
  <2>1. \A e \in Entry : tab[e].pid # None =>
          tab[e].pid \in Pid /\ proc'[tab[e].pid] = proc[tab[e].pid]
    BY <1>3, <1>5 DEF Base, Types
  <2>2. missed' = missed
    BY <1>1
  <2> QED BY <1>2, <2>1, <2>2 DEF Base, Reapable, OneEntry
<1>14. Entered'
  <2>1. ASSUME NEW q \in Pid, Started(q)', proc'[q] = "run"
        PROVE  Of(q)' # {}
    <3>1. Started(q)
      BY <1>3, <1>10, <2>1 DEF Started
    <3>2. Of(q) # {}
      BY <1>1, <1>3, <2>1, <3>1 DEF Base, Entered, Forked
    <3> QED BY <1>2, <3>2 DEF Of
  <2> QED BY <2>1 DEF Entered
<1>15. NoLostEntry'
  BY <1>2, <1>4, <1>6 DEF Base, NoLostEntry
<1> QED BY <1>7, <1>8, <1>11, <1>12, <1>13, <1>14, <1>15 DEF Base

LEMMA BaseQuit ==
  ASSUME Base, Quit
  PROVE  Base'
<1> USE LinkAssumption, ChildAssumption
<1>1. /\ UNCHANGED <<ctl, proc, missed, sctl, agent, heirs>> /\ busy'.op = "done"
      /\ link' = [n \in Name |-> NoLink]
  BY DEF Quit
<1>2. /\ tab' \in [Entry -> [pid : Pid \cup {None}, handler : Handler \cup {None}]]
      /\ sub' \in [Sub -> [child : Entry \cup {None}, fd : Pid \cup {None}]]
      /\ signalled' \subseteq Pid
      /\ fds' \subseteq Pid /\ crossed' \in BOOLEAN
      /\ \A e \in Entry : tab'[e].pid = tab[e].pid
      /\ \A s \in Sub : sub'[s] = [child |-> None, fd |-> None]
  BY SubKillOf DEF Base, Quit
<1>3. Types'
  BY <1>1, <1>2 DEF Base, Types, NoLink
<1>4. Busy' /\ Entered'
  BY <1>1 DEF Busy, Spawning, Entered
<1>5. Fresh'
  BY <1>1, <1>2 DEF Base, Fresh, Unknown, Spawning, NoLink
<1>6. Shape'
  BY <1>1, <1>2 DEF Base, Shape, NoLink
<1>7. Reapable' /\ OneEntry'
  BY <1>1, <1>2 DEF Base, Reapable, OneEntry, Types
<1>8. NoLostEntry'
  BY <1>2 DEF NoLostEntry
<1> QED BY <1>3, <1>4, <1>5, <1>6, <1>7, <1>8 DEF Base

(* The end of an agent, on any of its ways.                                *)
LEMMA BaseAgentEnd ==
  ASSUME Base, busy = Idle, NEW a \in Agent, NEW wrong \in BOOLEAN,
         AgentEnd(a, wrong), ctl' \in Seq([index : 1 .. ChildNB, pid : Pid]),
         \A k \in DOMAIN ctl' : \E j \in DOMAIN ctl : ctl'[k] = ctl[j]
  PROVE  Base'
<1> USE LinkAssumption, ChildAssumption
<1> DEFINE e == agent[a].child
           p == IF e = None THEN None ELSE tab[e].pid
<1>1. /\ UNCHANGED <<link, sub, sctl, heirs, proc, missed>> /\ busy.op = "idle"
      /\ tab' = Detached(tab, {e} \ {None})
      /\ signalled' = IF p = None THEN signalled ELSE signalled \cup {p}
      /\ busy' = IF p = None THEN Idle ELSE [op |-> "wait", entry |-> e, pid |-> p]
      /\ fds' = fds \ {agent[a].fd}
      /\ agent' = [agent EXCEPT ![a] = [child |-> None, fd |-> None]]
      /\ crossed' \in BOOLEAN
  BY DEF AgentEnd, Idle, Base, Types
<1>2. /\ tab' \in [Entry -> [pid : Pid \cup {None}, handler : Handler \cup {None}]]
      /\ \A f \in Entry : tab'[f].pid = tab[f].pid
  BY <1>1, DetachedOf DEF Base
<1>3. /\ p \in Pid \cup {None}
      /\ p # None => e \in Entry /\ tab[e].pid = p
  BY DEF Base, Types
<1> HIDE DEF e, p
<1>4. \A b \in Agent : agent'[b] = IF b = a THEN [child |-> None, fd |-> None] ELSE agent[b]
  BY <1>1 DEF Base, Types
<1>5. Types'
  BY <1>1, <1>2, <1>3 DEF Base, Types
<1>6. Busy' /\ ~ Spawning' /\ busy'.op # "done"
  BY <1>1, <1>2, <1>3 DEF Busy, Spawning, Idle
<1>7. Fresh'
  <2>1. \A q \in Pid : Unknown(q) => Unknown(q)'
    <3>1. \A b \in Agent, q \in Pid : agent'[b].fd = q => agent[b].fd = q
      BY <1>4
    <3>2. link' = link /\ sub' = sub
      BY <1>1
    <3> QED BY <1>2, <3>1, <3>2 DEF Unknown
  <2> QED BY <1>1, <1>6, <2>1 DEF Base, Fresh
<1>8. Shape'
  <2>1. link' = link
    BY <1>1
  <2> QED BY <1>2, <1>4, <2>1 DEF Base, Shape
<1>9. Reapable' /\ OneEntry'
  <2>1. proc' = proc /\ missed' = missed /\ Reapable /\ OneEntry
    BY <1>1 DEF Base
  <2>2. Reapable'
    BY <1>2, <2>1 DEF Reapable
  <2>3. OneEntry'
    BY <1>2, <2>1 DEF OneEntry
  <2> QED BY <2>2, <2>3
<1>10. Entered'
  <2>1. ASSUME NEW q \in Pid PROVE Started(q)' = Started(q) /\ Of(q)' = Of(q) /\ ~ Forked(q)
    <3>1. link' = link /\ proc' = proc /\ busy.op = "idle"
      BY <1>1
    <3>2. Started(q)' = Started(q)
      BY <3>1 DEF Started, Peer
    <3>3. Of(q)' = Of(q)
      BY <1>2 DEF Of
    <3> QED BY <3>1, <3>2, <3>3 DEF Forked
  <2> QED BY <1>1, <2>1 DEF Base, Entered
<1>11. NoLostEntry'
  BY <1>1 DEF Base, NoLostEntry
<1> QED BY <1>5, <1>6, <1>7, <1>8, <1>9, <1>10, <1>11 DEF Base

(* An entry that is given back.                                            *)
LEMMA FreedOf ==
  ASSUME Types, NEW e \in Entry
  PROVE  [tab EXCEPT ![e].pid = None] \in [Entry -> [pid : Pid \cup {None}, handler : Handler \cup {None}]]
<1>1. tab[e] \in [pid : Pid \cup {None}, handler : Handler \cup {None}]
  BY DEF Types
<1>2. [tab[e] EXCEPT !.pid = None] \in [pid : Pid \cup {None}, handler : Handler \cup {None}]
  BY <1>1
<1> QED BY <1>2 DEF Types

LEMMA BaseWaitOver ==
  ASSUME Base, WaitOver
  PROVE  Base'
<1> USE LinkAssumption, ChildAssumption
<1> DEFINE e == busy.entry
           p == busy.pid
<1>1. /\ e \in Entry /\ p \in Pid /\ (tab[e].pid = p \/ proc[p] = "reaped")
  BY DEF WaitOver, Base, Busy
<1>2. /\ UNCHANGED <<ctl, signalled, link, sub, sctl, agent, fds, heirs, crossed>>
      /\ busy'.op = "idle" /\ busy.op = "wait"
  BY DEF WaitOver, Idle, WaitJustDead, WaitDeath, WaitAlarm
<1>3. \/ /\ proc[p] = "dead" /\ proc' = [proc EXCEPT ![p] = "reaped"]
         /\ missed' = missed \cup {p} /\ tab' = tab
      \/ /\ proc[p] = "dead" /\ proc' = [proc EXCEPT ![p] = "reaped"]
         /\ missed' = missed /\ tab' = [tab EXCEPT ![e].pid = None]
      \/ proc' = proc /\ missed' = missed /\ tab' = tab
      \/ /\ proc[p] = "run" /\ proc' = [proc EXCEPT ![p] = "dead"]
         /\ missed' = missed /\ tab' = tab
  BY DEF WaitOver, WaitJustDead, WaitDeath, WaitAlarm
<1> HIDE DEF e, p
<1>4. Types'
  <2>1. /\ tab' \in [Entry -> [pid : Pid \cup {None}, handler : Handler \cup {None}]]
        /\ proc' \in [Pid -> {"none", "run", "dead", "reaped"}]
        /\ missed' \subseteq Pid
    <3>1. [tab EXCEPT ![e].pid = None] \in [Entry -> [pid : Pid \cup {None}, handler : Handler \cup {None}]]
      BY <1>1, FreedOf DEF Base
    <3>2. /\ [proc EXCEPT ![p] = "reaped"] \in [Pid -> {"none", "run", "dead", "reaped"}]
          /\ [proc EXCEPT ![p] = "dead"] \in [Pid -> {"none", "run", "dead", "reaped"}]
      BY <1>1 DEF Base, Types
    <3>3. missed \cup {p} \subseteq Pid /\ missed \subseteq Pid
      BY <1>1 DEF Base, Types
    <3>4. /\ tab' \in {tab, [tab EXCEPT ![e].pid = None]} /\ missed' \in {missed, missed \cup {p}}
          /\ proc' \in {proc, [proc EXCEPT ![p] = "reaped"], [proc EXCEPT ![p] = "dead"]}
      BY <1>3
    <3>5. /\ tab \in [Entry -> [pid : Pid \cup {None}, handler : Handler \cup {None}]]
          /\ proc \in [Pid -> {"none", "run", "dead", "reaped"}]
      BY DEF Base, Types
    <3> QED BY <3>1, <3>2, <3>3, <3>4, <3>5
  <2> QED BY <1>2, <2>1 DEF Base, Types
<1>5. /\ \A q \in Pid : q # p => proc'[q] = proc[q]
      /\ proc'[p] = proc[p] \/ (proc[p] = "run" /\ proc'[p] = "dead")
         \/ (proc[p] = "dead" /\ proc'[p] = "reaped")
      /\ \A f \in Entry : tab'[f].pid = tab[f].pid \/ (tab'[f].pid = None /\ tab[f].pid = p)
      /\ missed \subseteq missed'
      /\ \A f \in Entry : tab'[f].pid = p =>
           \/ proc'[p] = proc[p] \/ proc'[p] = "dead" \/ p \in missed'
  <2>1. CASE tab' = tab
    BY <1>1, <1>3, <2>1 DEF Base, Types
  <2>2. CASE /\ proc[p] = "dead" /\ proc' = [proc EXCEPT ![p] = "reaped"]
             /\ missed' = missed /\ tab' = [tab EXCEPT ![e].pid = None]
    <3>1. tab[e].pid = p
      BY <1>1, <2>2
    <3>2. \A f \in Entry : tab'[f].pid = IF f = e THEN None ELSE tab[f].pid
      BY <2>2 DEF Base, Types
    <3>3. \A f \in Entry : tab'[f].pid # p
      BY <1>1, <3>1, <3>2 DEF Base, OneEntry
    <3>4. proc'[p] = "reaped" /\ \A q \in Pid : q # p => proc'[q] = proc[q]
      BY <1>1, <2>2 DEF Base, Types
    <3> QED BY <2>2, <3>1, <3>2, <3>3, <3>4
  <2> QED BY <1>3, <2>1, <2>2
<1>6. Busy' /\ ~ Spawning'
  BY <1>2 DEF Busy, Spawning
<1>7. Fresh'
  <2>1. \A q \in Pid : Unknown(q) => Unknown(q)'
    BY <1>2, <1>5 DEF Unknown
  <2>2. \A q \in Pid : proc'[q] = "none" => proc[q] = "none"
    BY <1>5
  <2> QED BY <1>6, <2>1, <2>2 DEF Base, Fresh
<1>8. Shape'
  BY <1>1, <1>2, <1>5 DEF Base, Shape
<1>9. Reapable'
  <2>1. ASSUME NEW f \in Entry, tab'[f].pid # None
        PROVE  proc'[tab'[f].pid] \in {"run", "dead"} \/ tab'[f].pid \in missed'
    <3>1. tab[f].pid = tab'[f].pid /\ tab'[f].pid \in Pid
      BY <1>5, <2>1 DEF Base, Types
    <3>2. proc[tab[f].pid] \in {"run", "dead"} \/ tab[f].pid \in missed
      BY <2>1, <3>1 DEF Base, Reapable
    <3> QED BY <1>5, <3>1, <3>2
  <2> QED BY <2>1 DEF Reapable
<1>10. OneEntry'
  BY <1>5 DEF Base, OneEntry
<1>11. Entered'
  <2>1. ASSUME NEW q \in Pid, Started(q)', proc'[q] = "run"
        PROVE  Of(q)' # {}
    <3>1. proc[q] = "run" /\ Started(q) /\ proc'[q] = proc[q]
      BY <1>1, <1>2, <1>5, <2>1 DEF Started, Peer
    <3>2. Of(q) # {}
      BY <1>2, <3>1 DEF Base, Entered, Forked
    <3>3. q # p \/ tab' = tab
      BY <1>3, <3>1
    <3> QED BY <1>1, <1>3, <1>5, <3>2, <3>3 DEF Of
  <2> QED BY <2>1 DEF Entered
<1>12. NoLostEntry'
  BY <1>2 DEF Base, NoLostEntry
<1> QED BY <1>4, <1>6, <1>7, <1>8, <1>9, <1>10, <1>11, <1>12 DEF Base

(* What a queue of messages holds once one is taken or added.              *)
LEMMA TailOf ==
  ASSUME NEW S, NEW q \in Seq(S), q # <<>>
  PROVE  /\ Tail(q) \in Seq(S) /\ Head(q) \in S
         /\ \A k \in DOMAIN Tail(q) : \E j \in DOMAIN q : Tail(q)[k] = q[j]
         /\ \E j \in DOMAIN q : Head(q) = q[j]
<1>1. Len(q) \in Nat \ {0} /\ Head(q) = q[1] /\ 1 \in DOMAIN q
  OBVIOUS
<1>2. \A k \in DOMAIN Tail(q) : k + 1 \in DOMAIN q /\ Tail(q)[k] = q[k + 1]
  OBVIOUS
<1> QED BY <1>1, <1>2

LEMMA AppendOf ==
  ASSUME NEW S, NEW q \in Seq(S), NEW x \in S
  PROVE  /\ Append(q, x) \in Seq(S) /\ Append(q, x) # <<>>
         /\ \A k \in DOMAIN Append(q, x) :
              Append(q, x)[k] = x \/ \E j \in DOMAIN q : Append(q, x)[k] = q[j]
<1>1. \A k \in DOMAIN Append(q, x) : Append(q, x)[k] = x \/ (k \in DOMAIN q /\ Append(q, x)[k] = q[k])
  OBVIOUS
<1> QED BY <1>1

LEMMA CalledOf ==
  ASSUME Types, ctl # <<>>
  PROVE  /\ Called \in Sub \cup Agent \cup {None}
         /\ Called # None => /\ Head(ctl).index \in Entry
                             /\ tab[Head(ctl).index].handler = Called
<1> USE LinkAssumption, ChildAssumption
<1>1. Head(ctl).index \in 1 .. ChildNB
  <2> DEFINE T == [index : 1 .. ChildNB, pid : Pid]
  <2>1. ctl \in Seq(T)
    BY DEF Types
  <2>2. \A x \in T : x.index \in 1 .. ChildNB
    OBVIOUS
  <2> HIDE DEF T
  <2> QED BY <2>1, <2>2, TailOf
<1>2. Head(ctl).index < ChildNB => Head(ctl).index \in Entry
  BY <1>1 DEF Entry
<1>3. \A e \in Entry : tab[e].handler \in Handler \cup {None}
  BY DEF Types
<1> QED BY <1>2, <1>3 DEF Called

LEMMA BaseCtlEvent ==
  ASSUME Base, CtlEvent
  PROVE  Base'
<1> USE LinkAssumption, ChildAssumption
<1>1. busy = Idle /\ ctl # <<>> /\ ctl' = Tail(ctl) /\ busy.op = "idle"
  BY DEF CtlEvent, Idle
<1>2. /\ ctl' \in Seq([index : 1 .. ChildNB, pid : Pid])
      /\ \A k \in DOMAIN ctl' : \E j \in DOMAIN ctl : ctl'[k] = ctl[j]
      /\ Head(ctl) \in [index : 1 .. ChildNB, pid : Pid]
  <2> DEFINE T == [index : 1 .. ChildNB, pid : Pid]
  <2>1. ctl \in Seq(T)
    BY DEF Base, Types
  <2> HIDE DEF T
  <2>2. /\ ctl' \in Seq(T) /\ Head(ctl) \in T
        /\ \A k \in DOMAIN ctl' : \E j \in DOMAIN ctl : ctl'[k] = ctl[j]
    BY <1>1, <2>1, TailOf
  <2> QED BY <2>2 DEF T
<1>3. Called \in Sub \cup Agent \cup {None}
  BY <1>1, CalledOf DEF Base
<1>4. ASSUME UNCHANGED <<tab, proc, signalled, missed, link, sub, agent, fds, heirs, busy, stray>>,
             crossed' \in BOOLEAN, sctl' \in Seq([num : Sub, pid : Pid])
      PROVE  Base'
  <2>1. Types'
    BY <1>2, <1>4 DEF Base, Types
  <2>2. Busy'
    BY <1>4 DEF Base, Busy, Spawning
  <2>3. Fresh'
    <3>1. \A q \in Pid : Unknown(q) => Unknown(q)'
      BY <1>2, <1>4 DEF Unknown
    <3> QED BY <1>1, <1>4, <3>1 DEF Base, Fresh, Spawning
  <2>4. Shape' /\ Reapable' /\ OneEntry' /\ NoLostEntry'
    BY <1>4 DEF Base, Shape, Reapable, OneEntry, NoLostEntry
  <2>5. Entered'
    BY <1>4 DEF Base, Entered, Started, Peer, Of, Forked
  <2> QED BY <2>1, <2>2, <2>3, <2>4, <2>5 DEF Base
<1>5. CASE Called = None
  BY <1>4, <1>5 DEF CtlEvent, linkVars, Base, Types
<1>6. CASE Called \in Sub
  <2>1. /\ UNCHANGED <<tab, proc, signalled, missed, link, sub, agent, fds, heirs, busy, stray>>
        /\ sctl' = Append(sctl, [num |-> Called, pid |-> Head(ctl).pid])
        /\ crossed' = (crossed \/ sub[Called].fd # Head(ctl).pid)
    BY <1>6 DEF CtlEvent, Sub
  <2>2. sctl' \in Seq([num : Sub, pid : Pid])
    BY <1>2, <1>6, <2>1, AppendOf DEF Base, Types
  <2> QED BY <1>4, <2>1, <2>2 DEF Base, Types
<1>7. CASE Called \in Agent
  <2>1. AgentEnd(Called, agent[Called].fd # Head(ctl).pid)
    BY <1>7 DEF CtlEvent, Sub
  <2> QED BY <1>1, <1>2, <1>7, <2>1, BaseAgentEnd
<1> QED BY <1>3, <1>5, <1>6, <1>7

LEMMA BaseSubCtlEvent ==
  ASSUME Base, SubCtlEvent
  PROVE  Base'
<1> USE LinkAssumption, ChildAssumption
<1> DEFINE s == Head(sctl).num
<1>1. /\ UNCHANGED <<tab, ctl, proc, signalled, missed, link, agent, fds, heirs, busy>>
      /\ sctl # <<>> /\ sctl' = Tail(sctl) /\ sub' = [sub EXCEPT ![s].child = None]
      /\ crossed' \in BOOLEAN /\ busy.op = "idle"
  BY DEF SubCtlEvent, childVars, Idle, Base, Types
<1>2. s \in Sub /\ sctl' \in Seq([num : Sub, pid : Pid])
  <2> DEFINE T == [num : Sub, pid : Pid]
  <2>1. sctl \in Seq(T)
    BY DEF Base, Types
  <2>2. \A x \in T : x.num \in Sub
    OBVIOUS
  <2> HIDE DEF T
  <2>3. sctl' \in Seq(T) /\ Head(sctl) \in T
    BY <1>1, <2>1, TailOf
  <2> QED BY <2>2, <2>3 DEF T
<1> HIDE DEF s
<1>3. \A t \in Sub : /\ sub'[t].fd = sub[t].fd
                     /\ sub'[t].child = IF t = s THEN None ELSE sub[t].child
  BY <1>1, <1>2 DEF Base, Types
<1>4. Types'
  <2>1. sub \in [Sub -> [child : Entry \cup {None}, fd : Pid \cup {None}]]
    BY DEF Base, Types
  <2>2. \A y \in [child : Entry \cup {None}, fd : Pid \cup {None}] :
          [y EXCEPT !.child = None] \in [child : Entry \cup {None}, fd : Pid \cup {None}]
    OBVIOUS
  <2>3. sub' \in [Sub -> [child : Entry \cup {None}, fd : Pid \cup {None}]]
    BY <1>1, <1>2, <2>1, <2>2
  <2> QED BY <1>1, <1>2, <2>3 DEF Base, Types
<1>5. Busy'
  BY <1>1 DEF Base, Busy, Spawning
<1>6. Fresh'
  BY <1>1, <1>3 DEF Base, Fresh, Unknown, Spawning
<1>7. Shape' /\ Reapable' /\ OneEntry'
  BY <1>1 DEF Base, Shape, Reapable, OneEntry
<1>8. Entered'
  BY <1>1 DEF Base, Entered, Started, Peer, Of, Forked
<1>9. NoLostEntry'
  BY <1>1, <1>3 DEF Base, NoLostEntry
<1> QED BY <1>4, <1>5, <1>6, <1>7, <1>8, <1>9 DEF Base

LEMMA BaseSigchld ==
  ASSUME Base, NEW p \in Pid, Sigchld(p), UNCHANGED linkVars
  PROVE  Base'
<1> USE LinkAssumption, ChildAssumption
<1>1. /\ UNCHANGED <<link, sub, sctl, agent, fds, heirs, busy, crossed, signalled>>
      /\ proc[p] = "dead" /\ proc' = [proc EXCEPT ![p] = "reaped"]
  BY DEF Sigchld, linkVars
<1>2. \A q \in Pid : proc'[q] = IF q = p THEN "reaped" ELSE proc[q]
  BY <1>1 DEF Base, Types
<1>3. CASE Of(p) = {}
  <2>1. missed' = missed \cup {p} /\ UNCHANGED <<tab, ctl>>
    BY <1>3 DEF Sigchld
  <2>2. Types'
    BY <1>1, <2>1 DEF Base, Types
  <2>3. Busy'
    <3>1. Spawning => busy.pid \in Pid
      BY DEF Base, Busy
    <3> QED BY <1>1, <1>2, <2>1, <3>1 DEF Base, Busy, Spawning
  <2>4. Fresh'
    BY <1>1, <1>2, <2>1 DEF Base, Fresh, Unknown, Spawning
  <2>5. Reapable'
    <3>1. \A e \in Entry : tab[e].pid # p
      BY <1>3 DEF Of
    <3> QED BY <1>2, <2>1, <3>1 DEF Base, Types, Reapable
  <2>6. Shape' /\ OneEntry' /\ NoLostEntry'
    BY <1>1, <2>1 DEF Base, Shape, OneEntry, NoLostEntry
  <2>7. Entered'
    BY <1>1, <1>2, <2>1 DEF Base, Entered, Started, Peer, Of, Forked
  <2> QED BY <2>2, <2>3, <2>4, <2>5, <2>6, <2>7 DEF Base
<1>4. CASE Of(p) # {}
  <2> DEFINE e == Min(Of(p))
  <2>1. /\ missed' = missed /\ tab' = [tab EXCEPT ![e].pid = None]
        /\ ctl' = Append(ctl, [index |-> e + 1, pid |-> p])
    BY <1>4 DEF Sigchld, Reaped
  <2>2. e \in Entry /\ tab[e].pid = p
    BY <1>4, MinOf DEF Of, Entry
  <2> HIDE DEF e
  <2>3. /\ \A f \in Entry : tab'[f].pid = IF f = e THEN None ELSE tab[f].pid
        /\ \A f \in Entry : tab[f].pid = p <=> f = e
    BY <2>1, <2>2 DEF Base, Types, OneEntry
  <2>4. [index |-> e + 1, pid |-> p] \in [index : 1 .. ChildNB, pid : Pid]
    BY <2>2 DEF Entry
  <2>5. /\ ctl' \in Seq([index : 1 .. ChildNB, pid : Pid])
        /\ \A k \in DOMAIN ctl' : ctl'[k].pid = p \/ \E j \in DOMAIN ctl : ctl'[k] = ctl[j]
    BY <2>1, <2>4, AppendOf DEF Base, Types
  <2>6. Spawning => busy.pid # p
    BY <2>2 DEF Base, Fresh, Unknown
  <2>7. Types'
    <3>1. tab' \in [Entry -> [pid : Pid \cup {None}, handler : Handler \cup {None}]]
      BY <2>1, <2>2, FreedOf DEF Base
    <3>2. proc' \in [Pid -> {"none", "run", "dead", "reaped"}]
      BY <1>1 DEF Base, Types
    <3> QED BY <1>1, <2>1, <2>5, <3>1, <3>2 DEF Base, Types
  <2>8. Busy'
    <3>1. Spawning => /\ busy.entry \in Entry /\ tab'[busy.entry].pid = None
                      /\ busy.pid \in Pid /\ proc'[busy.pid] = proc[busy.pid]
      BY <1>2, <2>3, <2>6 DEF Base, Busy
    <3>2. busy.op = "wait" =>
            /\ busy.entry \in Entry /\ busy.pid \in Pid
            /\ tab'[busy.entry].pid = busy.pid \/ proc'[busy.pid] = "reaped"
      BY <1>2, <2>2, <2>3 DEF Base, Busy
    <3> QED BY <1>1, <2>1, <3>1, <3>2 DEF Base, Busy, Spawning
  <2>9. Fresh'
    <3>1. ASSUME NEW q \in Pid, q # p, Unknown(q) PROVE Unknown(q)'
      <4>1. \A f \in Entry : tab'[f].pid # q
        BY <2>3, <3>1, ChildAssumption DEF Unknown
      <4>2. \A k \in DOMAIN ctl' : ctl'[k].pid # q
        BY <2>5, <3>1 DEF Unknown
      <4>3. UNCHANGED <<link, sub, agent>>
        BY <1>1
      <4> QED BY <3>1, <4>1, <4>2, <4>3 DEF Unknown
    <3>2. Spawning' = Spawning /\ busy' = busy /\ (Spawning => busy.pid \in Pid)
      BY <1>1 DEF Spawning, Base, Busy
    <3> QED BY <1>2, <2>6, <3>1, <3>2 DEF Base, Fresh
  <2>10. Reapable' /\ OneEntry'
    BY <1>2, <2>1, <2>3 DEF Base, Types, Reapable, OneEntry
  <2>11. Shape' /\ NoLostEntry'
    BY <1>1, <2>3 DEF Base, Shape, NoLostEntry
  <2>12. Entered'
    <3>1. ASSUME NEW q \in Pid, Started(q)', proc'[q] = "run", busy.op # "done"
          PROVE  Of(q)' # {} \/ Forked(q)'
      <4>1. q # p /\ Started(q) /\ proc[q] = "run"
        BY <1>1, <1>2, <3>1 DEF Started, Peer
      <4>2. Of(q) # {} \/ Forked(q)
        BY <3>1, <4>1 DEF Base, Entered
      <4>3. Of(q) \subseteq Of(q)'
        BY <2>3, <4>1 DEF Of
      <4>4. Forked(q)' = Forked(q)
        BY <1>1 DEF Forked
      <4> QED BY <4>2, <4>3, <4>4
    <3>2. busy' = busy
      BY <1>1
    <3> QED BY <3>1, <3>2 DEF Entered
  <2> QED BY <2>7, <2>8, <2>9, <2>10, <2>11, <2>12 DEF Base
<1> QED BY <1>3, <1>4

(* A process or a peer that ends, and the processes that hold an output.   *)
LEMMA BaseWorld ==
  ASSUME Base, World
  PROVE  Base'
<1> USE LinkAssumption, ChildAssumption
<1>1. PICK p \in Pid : ProcDies(p) \/ PeerCloses(p) \/ HeirStarts(p) \/ HeirEnds(p)
  BY DEF World
<1>2. UNCHANGED <<tab, ctl, signalled, missed, link, sub, sctl, agent, fds, busy, crossed>>
  BY <1>1 DEF ProcDies, PeerCloses, HeirStarts, HeirEnds, Die, linkVars, childVars
<1>3. /\ proc' \in [Pid -> {"none", "run", "dead", "reaped"}]
      /\ \A q \in Pid : \/ proc'[q] = proc[q]
                        \/ proc[q] = "run" /\ proc'[q] = "dead"
                        \/ proc[q] = "run" /\ proc'[q] = "reaped" /\ Peer(q)
  BY <1>1 DEF ProcDies, PeerCloses, HeirStarts, HeirEnds, Die, childVars, Base, Types
<1>4. \A q \in Pid : Peer(q) => /\ \A e \in Entry : tab[e].pid # q
                                /\ Spawning => busy.pid # q
  BY DEF Peer, Base, Shape, Fresh, Unknown
<1>5. Types'
  BY <1>2, <1>3 DEF Base, Types
<1>6. Busy'
  <2>1. Spawning => /\ busy.pid \in Pid
                    /\ proc'[busy.pid] \in {"run", "dead"} \/ busy.pid \in missed
                    /\ proc'[busy.pid] # "none"
    BY <1>3, <1>4 DEF Base, Busy
  <2>2. busy.op = "wait" => tab[busy.entry].pid = busy.pid \/ proc'[busy.pid] = "reaped"
    BY <1>3 DEF Base, Busy
  <2> QED BY <1>2, <2>1, <2>2 DEF Base, Busy, Spawning
<1>7. Fresh'
  BY <1>2, <1>3 DEF Base, Fresh, Unknown, Spawning
<1>8. Reapable'
  <2>1. \A e \in Entry : tab[e].pid # None => tab[e].pid \in Pid /\ ~ Peer(tab[e].pid)
    BY <1>4 DEF Base, Types
  <2> QED BY <1>2, <1>3, <2>1 DEF Base, Reapable
<1>9. Shape' /\ OneEntry' /\ NoLostEntry'
  BY <1>2 DEF Base, Shape, OneEntry, NoLostEntry
<1>10. Entered'
  BY <1>2, <1>3 DEF Base, Entered, Started, Peer, Of, Forked
<1> QED BY <1>5, <1>6, <1>7, <1>8, <1>9, <1>10 DEF Base

LEMMA BaseNext ==
  ASSUME Base, [Next]_vars
  PROVE  Base'
<1>1. CASE Command
  BY <1>1, BaseCmdLink, BaseLinkKill, BaseCmdConnect, BaseCmdConnectTcp
     DEF Command, CmdUnlink, CmdKill
<1>2. CASE Agents
  <2>1. ASSUME NEW a \in Agent, AgentDestroy(a) PROVE Base'
    <3>1. ctl' = ctl /\ ctl \in Seq([index : 1 .. ChildNB, pid : Pid])
      BY <2>1 DEF AgentDestroy, Base, Types
    <3> QED BY <2>1, <3>1, BaseAgentEnd DEF AgentDestroy
  <2> QED BY <1>2, <2>1, BaseAgentCreate DEF Agents
<1>3. CASE Going
  BY <1>3, BaseConnectStore, BaseAgentStore, BaseWaitOver DEF Going
<1>4. CASE Loop
  <2>1. ASSUME NEW a \in Agent, AgentEof(a) PROVE Base'
    <3>1. ctl' = ctl /\ ctl \in Seq([index : 1 .. ChildNB, pid : Pid])
      BY <2>1 DEF AgentEof, Base, Types
    <3> QED BY <2>1, <3>1, BaseAgentEnd DEF AgentEof
  <2> QED BY <1>4, <2>1, BaseCtlEvent, BaseSubCtlEvent, BaseLinkKill DEF Loop, LinkEof
<1>5. CASE Quit
  BY <1>5, BaseQuit
<1>6. CASE SigchldEvent
  BY <1>6, BaseSigchld DEF SigchldEvent
<1>7. CASE World
  BY <1>7, BaseWorld
<1>8. CASE UNCHANGED vars
  <2>1. /\ UNCHANGED <<tab, ctl, proc, signalled, missed, link, sub, sctl, agent, fds, busy, crossed>>
    BY <1>8 DEF vars, childVars, linkVars
  <2>2. Types' /\ Busy'
    BY <2>1 DEF Base, Types, Busy, Spawning
  <2>3. Fresh' /\ Shape'
    BY <2>1 DEF Base, Fresh, Unknown, Spawning, Shape
  <2>4. Reapable' /\ OneEntry' /\ NoLostEntry'
    BY <2>1 DEF Base, Reapable, OneEntry, NoLostEntry
  <2>5. Entered'
    BY <2>1 DEF Base, Entered, Started, Peer, Of, Forked
  <2> QED BY <2>2, <2>3, <2>4, <2>5 DEF Base
<1> QED BY <1>1, <1>2, <1>3, <1>4, <1>5, <1>6, <1>7, <1>8 DEF Next

-----------------------------------------------------------------------------
(* The items, one by one.                                                  *)
LEMMA ItemOf ==
  /\ \A s \in Sub : Item[s] = sub[s]
  /\ \A a \in Agent : Item[a] = agent[a]
<1> QED BY LinkAssumption DEF Item

LEMMA CtlOf ==
  ASSUME Types
  PROVE  \A k \in DOMAIN ctl : ctl[k].index \in 1 .. ChildNB /\ ctl[k].pid \in Pid
                               /\ ctl[k].pid # None
<1> DEFINE T == [index : 1 .. ChildNB, pid : Pid]
<1>1. ctl \in Seq(T)
  BY DEF Types
<1>2. \A x \in T : x.index \in 1 .. ChildNB /\ x.pid \in Pid
  OBVIOUS
<1> HIDE DEF T
<1>3. \A k \in DOMAIN ctl : ctl[k] \in T
  BY <1>1
<1> QED BY <1>2, <1>3, ChildAssumption

LEMMA ItemKept ==
  ASSUME UNCHANGED <<sub, agent>>
  PROVE  Item' = Item
<1> QED BY DEF Item

(* While nothing new is entered, reported or owned, Owned stands.          *)
LEMMA OwnedKept ==
  ASSUME Types, Owned, UNCHANGED <<sub, agent, ctl>>, signalled \subseteq signalled',
         \A e \in Entry : /\ tab'[e].pid \in {tab[e].pid, None}
                          /\ tab'[e].handler = tab[e].handler
  PROVE  Owned'
<1>1. Item' = Item
  BY ItemKept
<1>2. /\ \A h \in Handler : Item'[h].child = None <=> Item'[h].fd = None
      /\ \A h, g \in Handler : Item'[h].fd = Item'[g].fd /\ Item'[h].fd # None => h = g
  BY <1>1 DEF Owned
<1>3. \A e \in Entry : tab'[e].handler # None => Item'[tab'[e].handler].child = e
  BY <1>1 DEF Owned
<1>4. \A e \in Entry : tab'[e].pid # None =>
        \/ tab'[e].pid \in signalled'
        \/ \E h \in Handler : Item'[h].child = e /\ Item'[h].fd = tab'[e].pid
  BY <1>1 DEF Owned
<1>5. \A e \in Entry, h \in Handler :
        tab'[e].pid # None /\ Item'[h].fd = tab'[e].pid => Item'[h].child = e
  BY <1>1 DEF Owned
<1>6. \A k \in DOMAIN ctl', h \in Handler :
        Item'[h].fd = ctl'[k].pid => Item'[h].child = ctl'[k].index - 1
  BY <1>1 DEF Owned
<1> QED BY <1>2, <1>3, <1>4, <1>5, <1>6 DEF Owned

(* A new child, in a free entry, under a name that nothing knows.          *)
LEMMA OwnedStore ==
  ASSUME Types, Owned, NEW e \in Entry, NEW p \in Pid, NEW g \in Handler,
         Unknown(p), Item[g].child = None, tab[e].pid = None,
         UNCHANGED <<ctl, signalled>>,
         \A f \in Entry : tab'[f] = IF f = e THEN [pid |-> p, handler |-> g] ELSE tab[f],
         \A h \in Handler : Item'[h] = IF h = g THEN [child |-> e, fd |-> p] ELSE Item[h]
  PROVE  Owned'
<1> USE ChildAssumption
<1>1. \A h \in Handler : Item[h].fd # p
  BY LinkAssumption, ItemOf DEF Unknown
<1>2. e # None /\ p # None
  BY DEF Entry
<1>3. /\ \A h \in Handler : Item'[h].child = None <=> Item'[h].fd = None
      /\ \A h, i \in Handler : Item'[h].fd = Item'[i].fd /\ Item'[h].fd # None => h = i
  BY <1>1, <1>2 DEF Owned
<1>4. \A f \in Entry : tab'[f].handler # None => Item'[tab'[f].handler].child = f
  <2>1. ASSUME NEW f \in Entry, f # e, tab[f].handler # None
        PROVE  Item'[tab[f].handler] = Item[tab[f].handler]
    <3>1. tab[f].handler \in Handler /\ Item[tab[f].handler].child = f /\ f # None
      BY <2>1 DEF Types, Owned, Entry
    <3> QED BY <3>1
  <2> QED BY <2>1 DEF Owned
<1>5. \A f \in Entry : tab'[f].pid # None =>
        \/ tab'[f].pid \in signalled'
        \/ \E h \in Handler : Item'[h].child = f /\ Item'[h].fd = tab'[f].pid
  <2>1. ASSUME NEW f \in Entry, f # e, tab[f].pid # None, tab[f].pid \notin signalled
        PROVE  \E h \in Handler : Item'[h].child = f /\ Item'[h].fd = tab[f].pid
    <3>1. PICK h \in Handler : Item[h].child = f /\ Item[h].fd = tab[f].pid
      BY <2>1 DEF Owned
    <3>2. h # g
      BY <3>1 DEF Entry
    <3> QED BY <3>1, <3>2
  <2>2. Item'[g].child = e /\ Item'[g].fd = p /\ tab'[e].pid = p
    OBVIOUS
  <2> QED BY <2>1, <2>2
<1>6. \A f \in Entry, h \in Handler :
        tab'[f].pid # None /\ Item'[h].fd = tab'[f].pid => Item'[h].child = f
  BY <1>1 DEF Owned, Unknown
<1>7. \A k \in DOMAIN ctl', h \in Handler :
        Item'[h].fd = ctl'[k].pid => Item'[h].child = ctl'[k].index - 1
  BY DEF Owned, Unknown
<1> QED BY <1>3, <1>4, <1>5, <1>6, <1>7 DEF Owned

(* The end of some items, of which no child was foreign, that detaches and *)
(* signals their children.                                                 *)
LEMMA OwnedEnd ==
  ASSUME Types, Owned, NEW D, D \subseteq Handler, UNCHANGED ctl,
         signalled \subseteq signalled',
         \A e \in Entry : tab'[e].pid = tab[e].pid,
         \A h \in D, e \in Entry :
           Item[h].child = e => /\ tab'[e].handler = None
                                /\ tab[e].pid # None => tab[e].pid \in signalled',
         \A e \in Entry : tab'[e].handler \in {tab[e].handler, None},
         \A h \in Handler : Item'[h] = IF h \in D THEN [child |-> None, fd |-> None]
                                       ELSE Item[h]
  PROVE  Owned'
<1> USE ChildAssumption
<1>1. /\ \A h \in Handler : Item'[h].child = None <=> Item'[h].fd = None
      /\ \A h, i \in Handler : Item'[h].fd = Item'[i].fd /\ Item'[h].fd # None => h = i
  BY DEF Owned
<1>2. \A e \in Entry : tab'[e].handler # None => Item'[tab'[e].handler].child = e
  <2>1. ASSUME NEW e \in Entry, tab'[e].handler # None
        PROVE  Item'[tab[e].handler].child = e /\ tab'[e].handler = tab[e].handler
    <3>1. tab'[e].handler = tab[e].handler /\ tab[e].handler \in Handler
      BY <2>1 DEF Types
    <3>2. Item[tab[e].handler].child = e
      BY <2>1, <3>1 DEF Owned
    <3>3. tab[e].handler \notin D
      BY <2>1, <3>1, <3>2
    <3> QED BY <3>1, <3>2, <3>3
  <2> QED BY <2>1
<1>3. \A e \in Entry : tab'[e].pid # None =>
        \/ tab'[e].pid \in signalled'
        \/ \E h \in Handler : Item'[h].child = e /\ Item'[h].fd = tab'[e].pid
  <2>1. ASSUME NEW e \in Entry, tab[e].pid # None, tab[e].pid \notin signalled'
        PROVE  \E h \in Handler : Item'[h].child = e /\ Item'[h].fd = tab[e].pid
    <3>1. PICK h \in Handler : Item[h].child = e /\ Item[h].fd = tab[e].pid
      BY <2>1 DEF Owned
    <3>2. h \notin D
      BY <2>1, <3>1
    <3> QED BY <3>1, <3>2
  <2> QED BY <2>1
<1>4. \A e \in Entry, h \in Handler :
        tab'[e].pid # None /\ Item'[h].fd = tab'[e].pid => Item'[h].child = e
  BY DEF Owned
<1>5. \A k \in DOMAIN ctl', h \in Handler :
        Item'[h].fd = ctl'[k].pid => Item'[h].child = ctl'[k].index - 1
  <2>1. \A k \in DOMAIN ctl : ctl[k].pid # None
    BY CtlOf
  <2> QED BY <2>1 DEF Owned
<1> QED BY <1>1, <1>2, <1>3, <1>4, <1>5 DEF Owned

LEMMA UncrossedConnectStore ==
  ASSUME Base, Linked, Owned, ConnectStore
  PROVE  Linked' /\ Owned'
<1> USE LinkAssumption, ChildAssumption
<1> DEFINE e == busy.entry
           p == busy.pid
           s == busy.num
           n == busy.name
<1>1. /\ e \in Entry /\ tab[e].pid = None /\ p \in Pid /\ p \in fds
      /\ n \in Name /\ link[n].class = "none" /\ s \in Sub /\ sub[s].child = None
      /\ Unknown(p)
  BY DEF ConnectStore, Base, Busy, Spawning, Fresh
<1>2. /\ UNCHANGED <<ctl, signalled, sctl, agent, fds>>
      /\ tab' = [tab EXCEPT ![e] = [pid |-> p, handler |-> s]]
      /\ sub' = [sub EXCEPT ![s] = [child |-> e, fd |-> p]]
      /\ link' = [link EXCEPT ![n] = [class |-> "proc", fd |-> p, ptr |-> s]]
  BY DEF ConnectStore, Store
<1> HIDE DEF e, p, s, n
<1>3. /\ \A f \in Entry : tab'[f] = IF f = e THEN [pid |-> p, handler |-> s] ELSE tab[f]
      /\ \A t \in Sub : sub'[t] = IF t = s THEN [child |-> e, fd |-> p] ELSE sub[t]
      /\ \A m \in Name : link'[m] = IF m = n THEN [class |-> "proc", fd |-> p, ptr |-> s]
                                    ELSE link[m]
  BY <1>2 DEF Base, Types
<1>4. Owned'
  <2>1. \A h \in Handler : Item'[h] = IF h = s THEN [child |-> e, fd |-> p] ELSE Item[h]
    BY <1>1, <1>2, <1>3 DEF Item
  <2>2. Item[s].child = None
    BY <1>1, ItemOf
  <2> QED BY <1>1, <1>2, <1>3, <2>1, <2>2, OwnedStore DEF Base
<1>5. Linked'
  <2>1. \A m \in Name : link[m].class = "proc" => link[m].ptr # s
    <3>1. sub[s].fd = None
      BY <1>1, ItemOf DEF Owned
    <3> QED BY <3>1 DEF Linked, Base, Shape
  <2>2. \A m \in Name : link[m].class = "proc" => link[m].ptr \in Sub
    BY DEF Base, Types, Shape
  <2> QED BY <1>1, <1>2, <1>3, <2>1, <2>2 DEF Linked
<1> QED BY <1>4, <1>5

LEMMA UncrossedAgentStore ==
  ASSUME Base, Linked, Owned, AgentStore
  PROVE  Linked' /\ Owned'
<1> USE LinkAssumption, ChildAssumption
<1> DEFINE e == busy.entry
           p == busy.pid
           a == busy.name
<1>1. /\ e \in Entry /\ tab[e].pid = None /\ p \in Pid
      /\ a \in Agent /\ agent[a].child = None /\ Unknown(p)
  BY DEF AgentStore, Base, Busy, Spawning, Fresh
<1>2. /\ UNCHANGED <<ctl, signalled, sctl, link, sub, fds>>
      /\ tab' = [tab EXCEPT ![e] = [pid |-> p, handler |-> a]]
      /\ agent' = [agent EXCEPT ![a] = [child |-> e, fd |-> p]]
  BY DEF AgentStore, Store
<1> HIDE DEF e, p, a
<1>3. /\ \A f \in Entry : tab'[f] = IF f = e THEN [pid |-> p, handler |-> a] ELSE tab[f]
      /\ \A b \in Agent : agent'[b] = IF b = a THEN [child |-> e, fd |-> p] ELSE agent[b]
  BY <1>2 DEF Base, Types
<1>4. Owned'
  <2>1. \A h \in Handler : Item'[h] = IF h = a THEN [child |-> e, fd |-> p] ELSE Item[h]
    BY <1>1, <1>2, <1>3 DEF Item
  <2>2. Item[a].child = None
    BY <1>1, ItemOf
  <2> QED BY <1>1, <1>2, <1>3, <2>1, <2>2, OwnedStore DEF Base
<1>5. Linked'
  BY <1>2 DEF Linked
<1> QED BY <1>4, <1>5

LEMMA OwnedSubKill ==
  ASSUME Types, Owned, NEW S, S \subseteq Sub, SubKill(S), ~ crossed',
         UNCHANGED <<ctl, agent>>
  PROVE  Owned'
<1> USE LinkAssumption, ChildAssumption
<1> DEFINE E == {sub[s].child : s \in S} \ {None}
<1>1. /\ tab' = Detached(tab, E) /\ signalled' = signalled \cup Targets(tab, E)
  BY DEF SubKill
<1>2. \A s \in Sub : sub'[s] = IF s \in S THEN [child |-> None, fd |-> None] ELSE sub[s]
  BY SubKillOf
<1>3. \A h \in Handler : Item'[h] = IF h \in S THEN [child |-> None, fd |-> None]
                                    ELSE Item[h]
  BY <1>2 DEF Item
<1>4. \A s \in S, e \in Entry : Item[s].child = e => e \in E
  BY ItemOf DEF Entry
<1> HIDE DEF E
<1>5. \A e \in Entry :
        /\ tab'[e].pid = tab[e].pid
        /\ tab'[e].handler = IF e \in E THEN None ELSE tab[e].handler
  BY <1>1, DetachedOf
<1>6. \A e \in E : tab[e].pid # None => tab[e].pid \in signalled'
  BY <1>1 DEF Targets
<1> QED BY <1>1, <1>3, <1>4, <1>5, <1>6, OwnedEnd

LEMMA UncrossedLinkKill ==
  ASSUME Base, Linked, Owned, NEW n \in Name,
         NEW after \in {NoLink, Unconnected}, LinkKill(n, after), ~ crossed'
  PROVE  Linked' /\ Owned'
<1> USE LinkAssumption, ChildAssumption
<1>1. UNCHANGED <<ctl, sctl, agent>> /\ link' = [link EXCEPT ![n] = after]
  BY DEF LinkKill
<1>2. /\ \A m \in Name : link'[m] = IF m = n THEN after ELSE link[m]
      /\ after.class # "proc"
  BY <1>1 DEF Base, Types, NoLink, Unconnected
<1>3. \A m \in Name : link[m].class = "proc" => link[m].ptr \in Sub
  BY DEF Base, Types, Shape
<1>4. CASE link[n].class = "proc"
  <2> DEFINE S == {link[n].ptr}
  <2>1. S \subseteq Sub /\ SubKill(S)
    BY <1>3, <1>4 DEF LinkKill
  <2>2. /\ \A s \in Sub : s # link[n].ptr => sub'[s] = sub[s]
        /\ fds' = fds \ {sub[link[n].ptr].fd}
    BY <2>1, SubKillOf DEF Base, SubKill
  <2> HIDE DEF S
  <2>3. Owned'
    BY <1>1, <2>1, OwnedSubKill DEF Base
  <2>4. \A m \in Name : m # n /\ link[m].class = "proc" =>
          /\ link[m].ptr # link[n].ptr
          /\ sub[link[m].ptr].fd # sub[link[n].ptr].fd
    <3>1. \A s, t \in Sub : sub[s].fd = sub[t].fd /\ sub[s].fd # None => s = t
      BY ItemOf DEF Owned
    <3>2. \A m \in Name : link[m].class = "proc" => sub[link[m].ptr].fd # None
      BY DEF Linked, Base, Shape
    <3> QED BY <1>3, <1>4, <3>1, <3>2 DEF Linked
  <2>5. Linked'
    BY <1>1, <1>2, <1>3, <2>2, <2>4 DEF Linked
  <2> QED BY <2>3, <2>5
<1>5. CASE link[n].class # "proc"
  <2>1. UNCHANGED <<tab, signalled, fds, sub>>
    BY <1>5 DEF LinkKill
  <2>2. Owned'
    BY <1>1, <2>1, OwnedKept DEF Base
  <2>3. Linked'
    BY <1>1, <1>2, <2>1 DEF Linked
  <2> QED BY <2>2, <2>3
<1> QED BY <1>4, <1>5

LEMMA UncrossedQuit ==
  ASSUME Base, Linked, Owned, Quit, ~ crossed'
  PROVE  Linked' /\ Owned'
<1>1. SubKill(Sub) /\ UNCHANGED <<ctl, agent, sctl>> /\ link' = [n \in Name |-> NoLink]
  BY DEF Quit
<1>2. Owned'
  BY <1>1, OwnedSubKill DEF Base
<1>3. Linked'
  BY <1>1 DEF Linked, NoLink
<1> QED BY <1>2, <1>3

LEMMA UncrossedAgentEnd ==
  ASSUME Base, Linked, Owned, NEW a \in Agent, AgentEnd(a, FALSE), ctl' = ctl, ~ crossed'
  PROVE  Linked' /\ Owned'
<1> USE LinkAssumption, ChildAssumption
<1> DEFINE e == agent[a].child
           p == IF e = None THEN None ELSE tab[e].pid
<1>1. /\ UNCHANGED <<link, sub, sctl>> /\ tab' = Detached(tab, {e} \ {None})
      /\ signalled' = IF p = None THEN signalled ELSE signalled \cup {p}
      /\ fds' = fds \ {agent[a].fd}
      /\ agent' = [agent EXCEPT ![a] = [child |-> None, fd |-> None]]
  BY DEF AgentEnd
<1>2. \A f \in Entry :
        /\ tab'[f].pid = tab[f].pid
        /\ tab'[f].handler = IF f \in {e} \ {None} THEN None ELSE tab[f].handler
  BY <1>1, DetachedOf DEF Base
<1>3. \A h \in Handler : Item'[h] = IF h \in {a} THEN [child |-> None, fd |-> None]
                                    ELSE Item[h]
  BY <1>1 DEF Item, Base, Types
<1>4. \A f \in Entry : Item[a].child = f => f = e /\ e # None
  BY ItemOf DEF Entry
<1> HIDE DEF e
<1>5. \A h \in {a}, f \in Entry :
        Item[h].child = f => /\ tab'[f].handler = None
                             /\ tab[f].pid # None => tab[f].pid \in signalled'
  <2>1. ASSUME NEW f \in Entry, Item[a].child = f
        PROVE  tab'[f].handler = None /\ (tab[f].pid # None => tab[f].pid \in signalled')
    <3>1. f = e /\ e # None
      BY <1>4, <2>1
    <3>2. tab'[f].handler = None
      BY <1>2, <3>1
    <3>3. p = tab[f].pid
      BY <3>1
    <3> QED BY <1>1, <3>2, <3>3
  <2> QED BY <2>1
<1>6. signalled \subseteq signalled' /\ {a} \subseteq Handler
  BY <1>1
<1>7. \A f \in Entry : /\ tab'[f].pid = tab[f].pid
                       /\ tab'[f].handler \in {tab[f].handler, None}
  BY <1>2
<1>8. Owned'
  BY <1>3, <1>5, <1>6, <1>7, OwnedEnd DEF Base
<1>9. Linked'
  <2>1. \A m \in Name : link[m].class = "proc" =>
          link[m].fd # agent[a].fd
    <3>1. \A s \in Sub : sub[s].fd # None => sub[s].fd # agent[a].fd
      BY ItemOf DEF Owned
    <3> QED BY <3>1 DEF Linked, Base, Types, Shape
  <2> QED BY <1>1, <2>1 DEF Linked
<1> QED BY <1>8, <1>9

(* The message of a death names the entry after that of its process: when  *)
(* it reaches a handler, it is a wrong one.                                *)
LEMMA CalledElsewhere ==
  ASSUME Base, Owned, ctl # <<>>, Called # None
  PROVE  Item[Called].fd # Head(ctl).pid
<1>1. \E j \in DOMAIN ctl : Head(ctl) = ctl[j]
  <2> DEFINE T == [index : 1 .. ChildNB, pid : Pid]
  <2>1. ctl \in Seq(T)
    BY DEF Base, Types
  <2> HIDE DEF T
  <2> QED BY <2>1, TailOf
<1>2. Called \in Handler /\ Head(ctl).index \in Entry /\ tab[Head(ctl).index].handler = Called
  BY LinkAssumption, CalledOf DEF Base
<1>3. Item[Called].child = Head(ctl).index
  BY <1>2 DEF Owned
<1>4. Item[Called].fd = Head(ctl).pid => Item[Called].child = Head(ctl).index - 1
  BY <1>1, <1>2 DEF Owned
<1>5. Head(ctl).index \in Nat
  BY <1>2, ChildAssumption DEF Entry
<1> QED BY <1>3, <1>4, <1>5

LEMMA UncrossedCtlEvent ==
  ASSUME Base, Linked, Owned, CtlEvent, ~ crossed'
  PROVE  Linked' /\ Owned'
<1> USE LinkAssumption, ChildAssumption
<1>1. ctl # <<>> /\ ctl' = Tail(ctl)
  BY DEF CtlEvent
<1>3. \A k \in DOMAIN ctl' : \E j \in DOMAIN ctl : ctl'[k] = ctl[j]
  <2> DEFINE T == [index : 1 .. ChildNB, pid : Pid]
  <2>1. ctl \in Seq(T)
    BY DEF Base, Types
  <2> HIDE DEF T
  <2> QED BY <1>1, <2>1, TailOf
<1>4. Called # None => Item[Called].fd # Head(ctl).pid
  BY <1>1, CalledElsewhere
<1>5. CASE Called = None
  <2>1. UNCHANGED <<tab, signalled, link, sub, sctl, agent, fds>>
    BY <1>5 DEF CtlEvent, linkVars
  <2>2. Linked'
    BY <2>1 DEF Linked
  <2>3. Item' = Item
    BY <2>1, ItemKept
  <2>4. Owned'
    BY <1>3, <2>1, <2>3 DEF Owned
  <2> QED BY <2>2, <2>4
<1>6. CASE Called \in Sub
  <2>1. crossed' = (crossed \/ sub[Called].fd # Head(ctl).pid)
    BY <1>6 DEF CtlEvent, Sub
  <2> QED BY <1>4, <1>6, <2>1, ItemOf DEF Sub
<1>7. CASE Called \in Agent
  <2>1. AgentEnd(Called, agent[Called].fd # Head(ctl).pid)
    BY <1>7 DEF CtlEvent, Sub
  <2>2. agent[Called].fd = Head(ctl).pid
    BY <2>1 DEF AgentEnd
  <2> QED BY <1>4, <1>7, <2>2, ItemOf
<1>8. Called \in Sub \cup Agent \cup {None}
  BY <1>1, CalledOf DEF Base
<1> QED BY <1>5, <1>6, <1>7, <1>8

LEMMA UncrossedSigchld ==
  ASSUME Base, Linked, Owned, NEW p \in Pid, Sigchld(p), UNCHANGED linkVars
  PROVE  Linked' /\ Owned'
<1> USE LinkAssumption, ChildAssumption
<1>1. UNCHANGED <<signalled, link, sub, sctl, agent, fds>>
  BY DEF Sigchld, linkVars
<1>2. Linked'
  BY <1>1 DEF Linked
<1>3. CASE Of(p) = {}
  <2>1. UNCHANGED <<tab, ctl>>
    BY <1>3 DEF Sigchld
  <2> QED BY <1>1, <1>2, <2>1, OwnedKept DEF Base
<1>4. CASE Of(p) # {}
  <2> DEFINE e == Min(Of(p))
             m == [index |-> e + 1, pid |-> p]
  <2>1. tab' = [tab EXCEPT ![e].pid = None] /\ ctl' = Append(ctl, m)
    BY <1>4 DEF Sigchld, Reaped
  <2>2. e \in Entry /\ tab[e].pid = p
    BY <1>4, MinOf DEF Of, Entry
  <2> HIDE DEF e
  <2>3. \A f \in Entry : /\ tab'[f].pid \in {tab[f].pid, None}
                         /\ tab'[f].handler = tab[f].handler
    BY <2>1, <2>2 DEF Base, Types
  <2>4. m \in [index : 1 .. ChildNB, pid : Pid] /\ m.pid = p /\ m.index = e + 1 /\ e \in Nat
    BY <2>2 DEF Entry
  <2> HIDE DEF m
  <2>5. \A k \in DOMAIN ctl' : ctl'[k] = m \/ \E j \in DOMAIN ctl : ctl'[k] = ctl[j]
    <3>1. ctl \in Seq([index : 1 .. ChildNB, pid : Pid])
      BY DEF Base, Types
    <3>2. \A k \in DOMAIN Append(ctl, m) :
            Append(ctl, m)[k] = m \/ \E j \in DOMAIN ctl : Append(ctl, m)[k] = ctl[j]
      BY <2>4, <3>1, AppendOf
    <3> QED BY <2>1, <3>2
  <2>6. Item' = Item
    BY <1>1, ItemKept
  <2>7. \A h \in Handler : Item[h].fd = p => Item[h].child = e
    BY <2>2 DEF Owned
  <2>8. \A k \in DOMAIN ctl', h \in Handler :
          Item'[h].fd = ctl'[k].pid => Item'[h].child = ctl'[k].index - 1
    BY <2>4, <2>5, <2>6, <2>7 DEF Owned
  <2>9. /\ \A f \in Entry : tab'[f].handler # None => Item'[tab'[f].handler].child = f
        /\ \A f \in Entry : tab'[f].pid # None =>
             \/ tab'[f].pid \in signalled'
             \/ \E h \in Handler : Item'[h].child = f /\ Item'[h].fd = tab'[f].pid
        /\ \A f \in Entry, h \in Handler :
             tab'[f].pid # None /\ Item'[h].fd = tab'[f].pid => Item'[h].child = f
    BY <1>1, <2>3, <2>6 DEF Owned
  <2>10. Owned'
    BY <2>6, <2>8, <2>9 DEF Owned
  <2> QED BY <1>2, <2>10
<1> QED BY <1>3, <1>4

LEMMA UncrossedNext ==
  ASSUME IInv, [Next]_vars
  PROVE  Uncrossed'
<1> USE LinkAssumption, ChildAssumption
<1> SUFFICES ASSUME ~ crossed' PROVE Linked' /\ Owned'
  BY DEF Uncrossed
<1>1. Base /\ Types
  BY DEF IInv, Base
(* The steps that leave the items alone, and report nothing. *)
<1>2. ASSUME UNCHANGED <<sub, agent, ctl, sctl, crossed>>, signalled' = signalled,
             fds \subseteq fds',
             \A e \in Entry : /\ tab'[e].pid \in {tab[e].pid, None}
                              /\ tab'[e].handler = tab[e].handler,
             \A n \in Name : link'[n].class = "proc" => link'[n] = link[n]
      PROVE  Linked' /\ Owned'
  <2>1. Linked /\ Owned
    BY <1>2 DEF IInv, Uncrossed
  <2>2. Owned'
    BY <1>1, <1>2, <2>1, OwnedKept
  <2>3. Linked'
    BY <1>2, <2>1 DEF Linked
  <2> QED BY <2>2, <2>3
<1>3. ASSUME NEW n \in Name, CmdLink(n) PROVE Linked' /\ Owned'
  BY <1>1, <1>2, <1>3 DEF CmdLink, childVars, Types, Unconnected
<1>4. ASSUME NEW n \in Name, CmdConnectTcp(n) PROVE Linked' /\ Owned'
  BY <1>1, <1>2, <1>4 DEF CmdConnectTcp, Types
<1>5. ASSUME NEW b, Fork(b) PROVE Linked' /\ Owned'
  BY <1>2, <1>5 DEF Fork
<1>6. ASSUME WaitOver PROVE Linked' /\ Owned'
  <2>1. UNCHANGED <<sub, agent, ctl, sctl, crossed, signalled, fds, link>>
    BY <1>6 DEF WaitOver, WaitJustDead, WaitDeath, WaitAlarm
  <2>2. tab' = tab \/ tab' = [tab EXCEPT ![busy.entry].pid = None]
    BY <1>6 DEF WaitOver, WaitJustDead, WaitDeath, WaitAlarm
  <2>3. busy.entry \in Entry
    BY <1>1, <1>6 DEF WaitOver, Base, Busy
  <2>4. \A e \in Entry : /\ tab'[e].pid \in {tab[e].pid, None}
                         /\ tab'[e].handler = tab[e].handler
    <3>1. CASE tab' = tab
      BY <1>1, <3>1 DEF Types
    <3>2. CASE tab' = [tab EXCEPT ![busy.entry].pid = None]
      BY <1>1, <2>3, <3>2 DEF Types
    <3> QED BY <2>2, <3>1, <3>2
  <2> QED BY <1>2, <2>1, <2>4
<1>7. ASSUME UNCHANGED <<tab, ctl, signalled, link, sub, sctl, agent, fds, crossed>>
      PROVE  Linked' /\ Owned'
  BY <1>2, <1>7
(* The others: a message of sub_ctrl shows that a death was misdirected.   *)
<1>8. ASSUME ~ crossed PROVE Linked /\ Owned
  BY <1>8 DEF IInv, Uncrossed
<1>9. ASSUME NEW n \in Name, NEW after \in {NoLink, Unconnected}, LinkKill(n, after)
      PROVE  Linked' /\ Owned'
  <2>1. ~ crossed
    BY <1>9 DEF LinkKill, SubKill
  <2> QED BY <1>1, <1>8, <1>9, <2>1, UncrossedLinkKill
<1>10. ASSUME NEW a \in Agent, AgentEnd(a, FALSE), ctl' = ctl PROVE Linked' /\ Owned'
  <2>1. ~ crossed
    BY <1>10 DEF AgentEnd
  <2> QED BY <1>1, <1>8, <1>10, <2>1, UncrossedAgentEnd
<1>11. ASSUME CtlEvent PROVE Linked' /\ Owned'
  <2>1. Called \in Sub \cup Agent \cup {None}
    BY <1>1, <1>11, CalledOf DEF CtlEvent
  <2>2. ~ crossed
    BY <1>11, <2>1 DEF CtlEvent, AgentEnd, linkVars, Sub
  <2> QED BY <1>1, <1>8, <1>11, <2>2, UncrossedCtlEvent
<1>12. ASSUME SubCtlEvent PROVE FALSE
  <2>1. ~ crossed /\ sctl # <<>>
    BY <1>12 DEF SubCtlEvent
  <2> QED BY <1>8, <2>1 DEF Linked
<1>13. ASSUME Quit PROVE Linked' /\ Owned'
  <2>1. ~ crossed
    BY <1>13 DEF Quit, SubKill
  <2> QED BY <1>1, <1>8, <1>13, <2>1, UncrossedQuit
<1>14. CASE Command
  BY <1>3, <1>4, <1>5, <1>9, <1>14 DEF Command, CmdUnlink, CmdKill, CmdConnect
<1>15. CASE Agents
  BY <1>5, <1>10, <1>15 DEF Agents, AgentCreate, AgentDestroy
<1>16. CASE Going
  <2>1. ASSUME ConnectStore PROVE Linked' /\ Owned'
    BY <1>1, <1>8, <2>1, UncrossedConnectStore DEF ConnectStore
  <2>2. ASSUME AgentStore PROVE Linked' /\ Owned'
    BY <1>1, <1>8, <2>2, UncrossedAgentStore DEF AgentStore
  <2> QED BY <1>6, <1>16, <2>1, <2>2 DEF Going
<1>17. CASE Loop
  BY <1>9, <1>10, <1>11, <1>12, <1>17 DEF Loop, AgentEof, LinkEof
<1>18. CASE SigchldEvent
  <2>1. ~ crossed
    BY <1>18 DEF SigchldEvent, linkVars
  <2> QED BY <1>1, <1>8, <1>18, <2>1, UncrossedSigchld DEF SigchldEvent
<1>19. CASE World
  BY <1>7, <1>19 DEF World, ProcDies, PeerCloses, HeirStarts, HeirEnds, Die, linkVars, childVars
<1>20. CASE UNCHANGED vars
  BY <1>7, <1>20 DEF vars, linkVars, childVars
<1> QED BY <1>13, <1>14, <1>15, <1>16, <1>17, <1>18, <1>19, <1>20 DEF Next

(* In every state that the engine reaches, with any number of links,       *)
(* subprocesses, agents and processes, the tables, the queues and the      *)
(* command in progress agree as IInv says.                                 *)
THEOREM LinkInvariant == Spec => []IInv
<1>1. IInv /\ [Next]_vars => IInv'
  BY BaseNext, UncrossedNext DEF IInv
<1> QED BY InitInv, <1>1, PTL DEF Spec

(* The child table follows the processes whatever SIGCHLD interrupts: an   *)
(* entry is in use for a process that was not reaped yet, or that was      *)
(* reaped before its pid was stored or at the start of a wait; a process   *)
(* has one entry at most, and a process that runs has one.                 *)
THEOREM ChildTable == Spec => []EntryLive
<1>1. Types /\ Busy => TypeOK
  <2>1. Types => \A k \in DOMAIN ctl : ctl[k].index \in 1 .. ChildNB
    BY CtlOf
  <2>2. Types => \A k \in DOMAIN sctl : sctl[k].num \in Sub
    <3> DEFINE T == [num : Sub, pid : Pid]
    <3>1. \A x \in T : x.num \in Sub
      OBVIOUS
    <3>2. Types => sctl \in Seq(T)
      BY DEF Types
    <3> HIDE DEF T
    <3> QED BY <3>1, <3>2
  <2> QED BY <2>1, <2>2 DEF Types, Busy, TypeOK
<1>2. IInv => EntryLive
  BY <1>1 DEF IInv, Base, Reapable, OneEntry, Entered, EntryLive
<1> QED BY LinkInvariant, <1>2, PTL

(* No subprocess runs on without its link: as long as no death and no kill *)
(* reached a wrong child, each process that nobody signalled is the one of *)
(* a connected link, or of an agent, that knows its entry.                 *)
THEOREM NoneAdrift == Spec => []NobodyAdrift
<1> USE LinkAssumption, ChildAssumption
<1>1. ASSUME IInv, ~ crossed, busy.op # "done", NEW p \in Pid,
             Started(p), proc[p] = "run", p \notin signalled, ~ Forked(p)
      PROVE  \/ \E n \in Name : /\ link[n].class = "proc" /\ link[n].fd = p
                                /\ sub[link[n].ptr].fd = p
                                /\ sub[link[n].ptr].child \in Of(p)
             \/ \E a \in Agent : agent[a].fd = p /\ agent[a].child \in Of(p)
  <2>1. Linked /\ Owned /\ Base
    BY <1>1 DEF IInv, Uncrossed
  <2>2. PICK e \in Entry : tab[e].pid = p
    BY <1>1, <2>1 DEF Base, Entered, Of
  <2>3. PICK h \in Handler : Item[h].child = e /\ Item[h].fd = p
    BY <1>1, <2>1, <2>2 DEF Owned
  <2>4. e \in Of(p) /\ e # None
    BY <2>2 DEF Of, Entry
  <2>5. CASE h \in Sub
    <3>1. sub[h].child = e /\ sub[h].fd = p
      BY <2>3, <2>5, ItemOf
    <3>2. PICK n \in Name : link[n].ptr = h
      BY <2>1, <2>4, <2>5, <3>1 DEF Base, NoLostEntry
    <3>3. link[n].class = "proc"
      BY <2>1, <2>5, <3>2 DEF Base, Shape, Sub
    <3> QED BY <2>1, <2>4, <3>1, <3>2, <3>3 DEF Linked
  <2>6. CASE h \in Agent
    BY <2>3, <2>4, <2>6, ItemOf
  <2> QED BY <2>5, <2>6
<1>2. IInv => NobodyAdrift
  BY <1>1 DEF NobodyAdrift
<1> QED BY LinkInvariant, <1>2, PTL

(* As long as no death and no kill reached a wrong child, a connected link *)
(* has its descriptors open and its subprocess entry to itself.            *)
THEOREM OwnSubprocess == Spec => []OwnDescriptors
<1>1. IInv => OwnDescriptors
  BY DEF IInv, Uncrossed, Linked, OwnDescriptors
<1> QED BY LinkInvariant, <1>1, PTL

(* The message of a death names the entry after that of the process: the   *)
(* first handler that a message ever reaches is that of another child.     *)
THEOREM FirstHandlerWrong ==
  Spec => [][~ crossed /\ CtlEvent /\ Called # None => crossed']_vars
<1>1. ASSUME IInv, ~ crossed, CtlEvent, Called # None, ~ crossed' PROVE FALSE
  <2>1. Linked /\ Owned /\ Base
    BY <1>1 DEF IInv, Uncrossed
  <2>2. ctl # <<>> /\ Called \in Sub \cup Agent
    BY <1>1, <2>1, CalledOf DEF CtlEvent, Base
  <2>3. Item[Called].fd # Head(ctl).pid
    BY <1>1, <2>1, <2>2, CalledElsewhere
  <2>4. CASE Called \in Sub
    <3>1. crossed' = (crossed \/ sub[Called].fd # Head(ctl).pid)
      BY <1>1, <2>4, LinkAssumption, ChildAssumption DEF CtlEvent, Sub
    <3> QED BY <1>1, <2>3, <2>4, <3>1, ItemOf
  <2>5. CASE Called \in Agent /\ Called \notin Sub
    <3>1. AgentEnd(Called, agent[Called].fd # Head(ctl).pid)
      BY <1>1, <2>5 DEF CtlEvent
    <3>2. agent[Called].fd = Head(ctl).pid
      BY <1>1, <3>1 DEF AgentEnd
    <3> QED BY <2>3, <2>5, <3>2, ItemOf
  <2> QED BY <2>2, <2>4, <2>5
<1>2. IInv /\ [Next]_vars => [~ crossed /\ CtlEvent /\ Called # None => crossed']_vars
  BY <1>1
<1> QED BY LinkInvariant, <1>2, PTL DEF Spec

(* The table of subprocesses never keeps an entry without a link, whatever *)
(* was misdirected.                                                        *)
THEOREM NoEntryLost == Spec => []NoLostEntry
<1>1. IInv => NoLostEntry
  BY DEF IInv, Base
<1> QED BY LinkInvariant, <1>1, PTL
=============================================================================
