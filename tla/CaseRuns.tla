------------------------------ MODULE CaseRuns ------------------------------
(***************************************************************************)
(* What the runner promises of the verdicts of a test tree, whatever pipes *)
(* and processes carry them: one case executes at a time, the verdict that *)
(* its execution ends with is given to that case and to no other, a case   *)
(* that is not executed may be skipped or judged by hand, and verdicts are *)
(* only forgotten by a reset.                                              *)
(***************************************************************************)
EXTENDS Integers

CONSTANTS Case, Unexecuted, Skipped, Inconclusive, Verdict

VARIABLES phase,      \* "off", "starting", "paused", "running", "over"
          at,         \* the case being executed, 0 for none
          result      \* the verdict of each case

vars == <<phase, at, result>>

Init == phase = "off" /\ at = 0 /\ result = [c \in Case |-> Unexecuted]

(* On the way to what follows, cases may be skipped. *)
Proceed(r) ==
  /\ result' \in [Case -> Verdict]
  /\ \A c \in Case : result'[c] \in {r[c], Skipped}
  /\ \/ phase' = "running" /\ at' \in Case /\ result'[at'] = r[at']
     \/ phase' \in {"paused", "over"} /\ at' = 0

Start == phase = "off" /\ phase' = "starting" /\ UNCHANGED <<at, result>>
Resume == phase \in {"starting", "paused"} /\ Proceed(result)
Judge(c, v) == /\ phase = "paused"
               /\ Proceed([result EXCEPT ![c] = v])
Give(v) == /\ phase = "running"
           /\ Proceed([result EXCEPT ![at] = v])
Abort == /\ phase # "running"
         /\ phase' = "over" /\ UNCHANGED <<at, result>>
AbortCase == /\ phase = "running"
             /\ phase' = "over" /\ at' = 0
             /\ result' = [result EXCEPT ![at] = Inconclusive]
Reset == /\ phase' = "off" /\ at' = 0
         /\ result' = [c \in Case |-> Unexecuted]

Next == \/ Start \/ Resume \/ Abort \/ AbortCase \/ Reset
        \/ \E v \in Verdict : Give(v) \/ \E c \in Case : Judge(c, v)

Spec == Init /\ [][Next]_vars
=============================================================================
