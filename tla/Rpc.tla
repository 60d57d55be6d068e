-------------------------------- MODULE Rpc --------------------------------
(***************************************************************************)
(* What the WAIT synchronization output of the engine promises to the test *)
(* script: a request gets exactly one answer, which is its own, before the *)
(* next request is made; or the service ends.                              *)
(***************************************************************************)
EXTENDS Naturals, Sequences

CONSTANTS
  Fits(_, _),    \* may the first argument be the answer to the second?
  None           \* no request

VARIABLES
  asked,         \* the request in progress
  answer,        \* its answer, until it is read: a sequence of one or none
  up             \* is the service up?

Init == asked = None /\ answer = <<>> /\ up = TRUE

Ask ==
  /\ asked = None /\ asked' # None
  /\ UNCHANGED <<answer, up>>

Give ==
  /\ up /\ asked # None /\ answer = <<>>
  /\ Len(answer') = 1 /\ Fits(answer'[1], asked)
  /\ UNCHANGED <<asked, up>>

Take ==
  /\ answer # <<>> /\ answer' = <<>>
  /\ asked' = None
  /\ UNCHANGED up

Leave == up /\ up' = FALSE /\ UNCHANGED <<asked, answer>>

Abort == ~ up /\ asked' = None /\ answer' = <<>> /\ UNCHANGED up

Next == Ask \/ Give \/ Take \/ Leave \/ Abort

Spec == Init /\ [][Next]_<<asked, answer, up>>
=============================================================================
