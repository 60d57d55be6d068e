------------------------------- MODULE Child -------------------------------
(***************************************************************************)
(* The table of child processes (interface/useful/child.c) in a program    *)
(* that called child_use_glib(): deaths are reaped by the handler of       *)
(* SIGCHLD, which may run between any two steps, and reported through the  *)
(* control pipe to the main loop.                                          *)
(***************************************************************************)
EXTENDS Integers, Sequences, FiniteSets, FiniteSetsExt

CONSTANTS Pid,             \* processes, in the order they are started
          Handler,         \* what a child_handler_t and its argument name
          ChildNB,         \* the size of the table
          None

ASSUME ChildAssumption == /\ Pid \subseteq Nat \ {0} /\ ChildNB \in Nat \ {0}
                          /\ None \notin Pid \cup Handler \cup Nat

VARIABLES tab,             \* child_tab: pid (None for -1) and handler
          ctl,             \* the messages in child_ctrl, each an index, and
                           \* the process that it is about
          proc,            \* the kernel: "none", "run", "dead", "reaped"
          signalled,       \* the processes that were sent SIGTERM
          missed           \* reaped while the table did not tell so

childVars == <<tab, ctl, proc, signalled, missed>>

Entry == 0 .. ChildNB - 1

ChildInit ==
  /\ tab = [e \in Entry |-> [pid |-> None, handler |-> None]]
  /\ ctl = <<>>
  /\ proc = [p \in Pid |-> "none"]
  /\ signalled = {} /\ missed = {}

-----------------------------------------------------------------------------
(* Spawning: the entry is chosen, the process forked, and only then its    *)
(* pid stored.                                                             *)

Free == {e \in Entry : tab[e].pid = None}
Unused == {p \in Pid : proc[p] = "none"}

Store(t, e, p, h) == [t EXCEPT ![e] = [pid |-> p, handler |-> h]]

(* child_handler(child, NULL, NULL) and child_kill(child, SIGTERM), for    *)
(* the children of the entries E.                                          *)
Detached(t, E) ==
  [e \in Entry |-> IF e \in E THEN [t[e] EXCEPT !.handler = None] ELSE t[e]]
Targets(t, E) == {t[e].pid : e \in E} \ {None}

-----------------------------------------------------------------------------
(* child_sigchld.  The loop has incremented its index once more when it    *)
(* meets the entry: the message names the entry after it.                  *)

Of(p) == {e \in Entry : tab[e].pid = p}

BugReaped(p) == [tab EXCEPT ![Min(Of(p))].handler = None]
Reaped(p) == [tab EXCEPT ![Min(Of(p))].pid = None]

Sigchld(p) ==
  /\ proc[p] = "dead"
  /\ proc' = [proc EXCEPT ![p] = "reaped"]
  /\ IF Of(p) = {}
     THEN missed' = missed \cup {p} /\ UNCHANGED <<tab, ctl>>
     ELSE /\ tab' = Reaped(p)
          /\ ctl' = Append(ctl, [index |-> Min(Of(p)) + 1, pid |-> p])
          /\ UNCHANGED missed
  /\ UNCHANGED signalled

(* child_event_ctrl: the handler of the index read, if there is one. *)
Called ==
  IF Head(ctl).index < ChildNB THEN tab[Head(ctl).index].handler ELSE None

-----------------------------------------------------------------------------
(* child_waitpid, after SIGTERM. *)

(* The process just died, and is reaped before its SIGCHLD is handled: the *)
(* entry keeps its pid.                                                    *)
WaitJustDead(p) ==
  /\ proc[p] = "dead"
  /\ proc' = [proc EXCEPT ![p] = "reaped"]
  /\ missed' = missed \cup {p}
  /\ UNCHANGED <<tab, ctl, signalled>>

(* The process dies in time, and waitpid sees it before the handler does,  *)
(* or after it (ECHILD).                                                   *)
WaitDeath(e, p) ==
  /\ \/ /\ proc[p] = "dead"
        /\ proc' = [proc EXCEPT ![p] = "reaped"]
        /\ tab' = [tab EXCEPT ![e].pid = None]
     \/ proc[p] = "reaped" /\ UNCHANGED <<proc, tab>>
  /\ UNCHANGED <<ctl, signalled, missed>>

(* The alarm rings first, and SIGKILL follows. *)
WaitAlarm(p) ==
  /\ proc[p] = "run"
  /\ proc' = [proc EXCEPT ![p] = "dead"]
  /\ UNCHANGED <<tab, ctl, signalled, missed>>

Die(p) ==
  /\ proc[p] = "run"
  /\ proc' = [proc EXCEPT ![p] = "dead"]
  /\ UNCHANGED <<tab, ctl, signalled, missed>>
=============================================================================
