------------------------------ MODULE Capture ------------------------------
(***************************************************************************)
(* The virtual user engine and its capture process                         *)
(* (vu/capture/capture_proc_interface.c and capture_proc_agent.c).  The    *)
(* client writes requests to the standard input of the agent and waits for *)
(* the answer to some of them in the callback pipe; the agent announces    *)
(* the areas it changed in the shared frame buffer through the update      *)
(* pipe.  Both are loops that serve one event after the other.             *)
(* Definitions that begin with Bug are mistakes for the properties to find.*)
(***************************************************************************)
EXTENDS Frame

CONSTANTS Kinds,          \* the devices
          Commands,       \* the commands of the user, as lists of requests
          UpdCap,         \* the areas that the update pipe holds
          MaxReq,         \* bound: requests not read when a command starts
          MaxAnswers,     \* bound: answers not read when a command starts
          MaxClocks,      \* bound: clocks of a sequence of files
          MayEio, MayDie  \* input/output errors; death of the agent

ASSUME CaptureAssumption == /\ UpdCap \in Nat \ {0} /\ MaxReq \in Nat
                            /\ MaxAnswers \in Nat
                            /\ MaxClocks \in Nat /\ Kinds \subseteq Kind
                            /\ MayEio \in BOOLEAN /\ MayDie \in BOOLEAN
                            /\ None \notin {"OPEN", "WINDOW", "PERIOD", "ATTR"}

VARIABLES client,         \* pc; todo: requests; connected
          stdin, callback, update,              \* the pipes
          agent,          \* pc; area: what it is writing to a full pipe
          stale,          \* columns changed and not seen by the client
          slips           \* what went wrong with answers, see Slip

pipes == <<stdin, callback, update>>
vars == <<frameVars, client, pipes, agent, stale, slips>>

(* A request for attributes that gets no answer, one that gives no         *)
(* attribute and is answered, and a message read from its middle.          *)
Slip == {"unanswered", "unasked", "torn"}

Req(op, arg) == [op |-> op, arg |-> arg]
Awaited(r) == CASE r.op = "window?" -> "WINDOW"
                [] r.op \in {"period", "period?"} -> "PERIOD"
                [] r.op = "attr?" -> "ATTR"
                [] OTHER -> None

(* What frame_command.c asks for; "attr=" sets an attribute to the empty   *)
(* value.  It changes the window only together with a refresh, and asks    *)
(* for the window at once after it.                                        *)
Op == {"window", "window?", "refresh", "period", "period?", "attr", "attr=", "attr?"}

ASSUME CommandAssumption == \A todo \in Commands :
  /\ todo \in Seq({todo[k] : k \in DOMAIN todo})
  /\ \A k \in DOMAIN todo :
       /\ todo[k].op \in Op
       /\ todo[k].op = "window" =>
            /\ todo[k].arg \in Window /\ k + 2 \in DOMAIN todo
            /\ todo[k + 1].op = "refresh" /\ todo[k + 2].op = "window?"

Init ==
  /\ \E kind \in Kinds : FrameInit(kind)
  /\ client = [pc |-> "wait", want |-> "OPEN", todo |-> <<>>, connected |-> TRUE]
  /\ stdin = <<>> /\ callback = <<>> /\ update = <<>>
  /\ agent = [pc |-> "start", area |-> Nothing]
  /\ stale = {} /\ slips = {}

-----------------------------------------------------------------------------
(* The client.  capture_command sends the requests of a command in turn.   *)

Restarts(todo) == \E k \in DOMAIN todo : todo[k].op \in {"attr", "attr=", "attr?"}
                                         /\ todo[k].arg = "Restart"
Command(todo) ==
  /\ client.pc = "idle" /\ client.todo = <<>> /\ Len(stdin) <= MaxReq
  /\ Len(callback) <= MaxAnswers /\ "torn" \notin slips
  /\ cap.clocks < MaxClocks \/ ~ Restarts(todo)
  /\ client' = [client EXCEPT !.todo = todo]
  /\ UNCHANGED <<frameVars, pipes, agent, stale, slips>>

(* proc_request, then proc_callback for those that have an answer.  When   *)
(* the agent was found gone nothing is sent, and the answer is an error.   *)
ClientSend ==
  /\ client.pc = "idle" /\ client.todo # <<>>
  /\ LET r == Head(client.todo)
         waits == client.connected /\ Awaited(r) # None
     IN  /\ stdin' = IF client.connected /\ agent.pc # "gone"
                     THEN Append(stdin, r) ELSE stdin
         /\ client' = [client EXCEPT !.pc = IF waits THEN "wait" ELSE @,
                                     !.want = Awaited(r),
                                     !.todo = Tail(@)]
  /\ UNCHANGED <<frameVars, callback, update, agent, stale, slips>>

(* The answer is of the type that the client waits for.                    *)
Fits == "torn" \notin slips /\ Head(callback) = client.want

(* The first request of the virtual user is a refresh (main.c). *)
ClientAnswer ==
  /\ client.pc = "wait" /\ callback # <<>> /\ Fits
  /\ callback' = Tail(callback)
  /\ client' = [client EXCEPT !.pc = "idle",
                  !.todo = IF client.want = "OPEN"
                           THEN <<Req("refresh", None)>> ELSE @]
  /\ UNCHANGED <<frameVars, stdin, update, agent, stale, slips>>

(* Of an answer of another type the header alone is read, and the call     *)
(* fails; from then on headers are read anywhere.  One may even tell of a  *)
(* content that has still to come.                                         *)
ClientMisread ==
  /\ client.pc = "wait" /\ callback # <<>> /\ ~ Fits
  /\ slips' = slips \cup {"torn"}
  /\ \/ /\ client' = [client EXCEPT !.pc = "idle"]
        /\ \/ UNCHANGED callback
           \/ /\ "torn" \in slips
              /\ \E n \in DOMAIN callback : callback' = SubSeq(callback, n + 1, Len(callback))
     \/ "torn" \in slips /\ callback' = <<>> /\ UNCHANGED client
  /\ UNCHANGED <<frameVars, stdin, update, agent, stale>>

(* End of file of the callback pipe.  A failed open ends the program. *)
ClientEof ==
  /\ client.pc = "wait" /\ callback = <<>> /\ agent.pc = "gone"
  /\ client' = IF client.want = "OPEN"
               THEN [client EXCEPT !.pc = "gone", !.connected = FALSE]
               ELSE [client EXCEPT !.pc = "idle"]
  /\ UNCHANGED <<frameVars, pipes, agent, stale, slips>>

InMainLoop == client.pc = "idle" /\ client.todo = <<>>

(* proc_update: the client looks at the area in the frame buffer. *)
ClientUpdate ==
  /\ InMainLoop /\ client.connected /\ agent.pc # "gone" /\ update # <<>>
  /\ update' = Tail(update) /\ stale' = stale \ Cols(Head(update))
  /\ UNCHANGED <<frameVars, client, stdin, callback, agent, slips>>

(* proc_terminate, when the update pipe is hung up, what it holds lost. *)
ClientHup ==
  /\ InMainLoop /\ client.connected /\ agent.pc = "gone"
  /\ client' = [client EXCEPT !.connected = FALSE]
  /\ stdin' = <<>> /\ update' = <<>> /\ callback' = <<>>
  /\ UNCHANGED <<frameVars, agent, stale, slips>>

ClientQuit ==                                   \* capture_proc_close
  /\ InMainLoop
  /\ client' = [client EXCEPT !.pc = "gone", !.connected = FALSE]
  /\ stdin' = <<>> /\ update' = <<>> /\ callback' = <<>>
  /\ UNCHANGED <<frameVars, agent, stale, slips>>

Client == \/ ClientSend \/ ClientAnswer \/ ClientMisread \/ ClientEof
          \/ ClientUpdate \/ ClientHup

-----------------------------------------------------------------------------
(* The agent. *)

Looping == agent.pc = "loop"

(* update(), at the end of a handler.  The overload of the frame pipeline  *)
(* is announced by a null pointer: write() fails, and the client is never  *)
(* told.                                                                   *)
BugAnnounce(g) ==
  IF g = None \/ ~ client.connected \/ Len(update) >= UpdCap
  THEN UNCHANGED <<update, agent>>
  ELSE update' = Append(update, g) /\ UNCHANGED agent
Announce(g) ==
  IF ~ client.connected THEN UNCHANGED <<update, agent>>
  ELSE IF Len(update) < UpdCap
  THEN update' = (IF g = None THEN update ELSE Append(update, g)) /\ UNCHANGED agent
  ELSE agent' = [pc |-> "write", area |-> g] /\ UNCHANGED update

AnnounceIf(b) == IF b THEN Announce(None) ELSE UNCHANGED <<update, agent>>

AgentWrite ==
  /\ agent.pc = "write" /\ (~ client.connected \/ Len(update) < UpdCap)
  /\ agent' = [pc |-> "loop", area |-> Nothing]
  /\ update' = IF client.connected /\ agent.area # None
               THEN Append(update, agent.area) ELSE update
  /\ UNCHANGED <<frameVars, client, stdin, callback, stale, slips>>

Quiet == UNCHANGED <<thr, client, stale, slips>>

AgentStart ==
  /\ agent.pc = "start"
  /\ \/ agent' = [agent EXCEPT !.pc = "loop"] /\ callback' = <<"OPEN">>
     \/ agent' = [agent EXCEPT !.pc = "gone"] /\ UNCHANGED callback
  /\ UNCHANGED <<cap, stdin, update>> /\ Quiet

(* parse_command *)
Reply(t) == callback' = Append(callback, t)
NoReply == UNCHANGED callback

BugAgentWindow(g) ==
  cap' = SetWindow(cap, g) /\ Reply("WINDOW") /\ UNCHANGED <<update, agent, slips>>
AgentWindow(g) ==
  cap' = SetWindow(cap, g) /\ NoReply /\ UNCHANGED <<update, agent, slips>>

AgentRefresh ==
  LET d == DeviceRead(Refresh(cap))
  IN  /\ cap' = ProcessRefresh(d) /\ AnnounceIf(Overload(d))
      /\ NoReply /\ UNCHANGED slips

BugAgentPeriod(p) ==
  cap' = SetPeriod(cap, p) /\ NoReply /\ UNCHANGED <<update, agent, slips>>
AgentPeriod(p) ==
  cap' = SetPeriod(cap, p) /\ Reply("PERIOD") /\ UNCHANGED <<update, agent, slips>>

SetAttr(c, k) == IF c.kind # "file" THEN c
                 ELSE CASE k \in {"loop", "sync"} -> [c EXCEPT ![k] = ~ @]
                        [] k = "Restart" -> SequenceRestart(c)
                        [] OTHER -> c

(* Only files have attributes; reading Restart restarts the sequence too.  *)
(* The empty value is none for the agent, which reads the attribute.       *)
HasAttr(k) == cap.kind = "file" /\ k # "Unknown"
AttrSlips(op, k) == {slip \in Slip : \/ slip = "unanswered" /\ op = "attr?" /\ ~ HasAttr(k)
                                     \/ slip = "unasked" /\ op = "attr=" /\ HasAttr(k)}
AgentAttr(op, k) ==
  /\ cap' = IF HasAttr(k) /\ k = "Restart" THEN SequenceRestart(cap) ELSE cap
  /\ IF HasAttr(k) THEN Reply("ATTR") ELSE NoReply
  /\ slips' = slips \cup AttrSlips(op, k)
  /\ UNCHANGED <<update, agent>>

AgentRequest ==
  /\ Looping /\ client.connected /\ stdin # <<>>
  /\ stdin' = Tail(stdin)
  /\ LET r == Head(stdin)
     IN  CASE r.op = "window" -> AgentWindow(r.arg)
           [] r.op \in {"window?", "period?"} ->
                Reply(Awaited(r)) /\ UNCHANGED <<cap, update, agent, slips>>
           [] r.op = "refresh" -> AgentRefresh
           [] r.op = "period" -> AgentPeriod(r.arg)
           [] r.op = "attr" ->
                /\ cap' = SetAttr(cap, r.arg) /\ NoReply
                /\ UNCHANGED <<update, agent, slips>>
           [] r.op \in {"attr?", "attr="} -> AgentAttr(r.op, r.arg)
  /\ UNCHANGED <<thr, client, stale>>

AgentTimer ==                                   \* frame_process_refresh
  /\ Looping /\ cap.period
  /\ LET d == DeviceRead(cap)
     IN  cap' = ProcessRefresh(d) /\ AnnounceIf(Overload(d))
  /\ UNCHANGED <<stdin, callback>> /\ Quiet

(* device_read_event *)
Served(d) == /\ cap' = ReadEvent(d) /\ AnnounceIf(d.requested /\ Overload(d))
             /\ UNCHANGED <<stdin, callback>> /\ Quiet

AgentFrame ==
  /\ Looping
  /\ \/ cap.kind = "stream" /\ cap.done # <<>> /\ Served(ReadStream(cap))
     \/ cap.kind = "readwrite" /\ \E im \in Scenes : Served(ReadWrite(cap, im))

AgentEio ==
  /\ MayEio /\ Looping /\ cap.kind = "stream" /\ cap.done # <<>>
  /\ \E taken \in BOOLEAN :
       Served(Checkup(IF taken THEN [cap EXCEPT !.done = Tail(@)] ELSE cap))

AgentClock ==                                   \* sequence_next
  /\ Looping /\ cap.clocks > 0
  /\ cap' = SequenceNext([cap EXCEPT !.clocks = @ - 1])
  /\ UNCHANGED <<pipes, agent>> /\ Quiet

AgentOut ==                                     \* frame_process_out_read
  /\ Looping /\ cap.pout # <<>>
  /\ LET g == Head(cap.pout).area
     IN  /\ cap' = OutRead(cap)
         /\ IF g.w > 0 THEN Announce(g) ELSE UNCHANGED <<update, agent>>
         /\ stale' = stale \cup Cols(g)
  /\ UNCHANGED <<stdin, callback, thr, client, slips>>

(* The hang-up of the standard input, or SIGTERM at any moment; then       *)
(* _frame_close waits for the thread before it detaches the device.        *)
AgentExit ==
  /\ agent.pc \in {"loop", "write"} /\ ~ client.connected
  /\ agent' = [pc |-> "join", area |-> Nothing]
  /\ cap' = [cap EXCEPT !.closed = TRUE, !.period = FALSE]
  /\ UNCHANGED pipes /\ Quiet

AgentDetach ==
  /\ agent.pc = "join" /\ thr.pc = "end"
  /\ agent' = [agent EXCEPT !.pc = "gone"]
  /\ cap' = [cap EXCEPT !.img = [i \in Buf |-> None], !.queued = {}, !.done = <<>>]
  /\ UNCHANGED pipes /\ Quiet

AgentDies ==
  /\ MayDie /\ agent.pc # "gone"
  /\ agent' = [pc |-> "gone", area |-> Nothing]
  /\ thr' = [thr EXCEPT !.pc = "end"]
  /\ UNCHANGED <<cap, client, pipes, stale, slips>>

Agent == \/ AgentStart \/ AgentRequest \/ AgentTimer \/ AgentFrame
         \/ AgentClock \/ AgentOut \/ AgentWrite \/ AgentExit \/ AgentDetach

Rest == UNCHANGED <<client, pipes, agent, stale, slips>>

Next == \/ \E todo \in Commands : Command(todo)
        \/ Client \/ ClientQuit \/ Agent \/ AgentEio \/ AgentDies
        \/ agent.pc # "gone" /\ (Thread \/ DriverFill) /\ Rest

Spec == Init /\ [][Next]_vars

(* The client goes on with its calls; the main loop of the agent serves    *)
(* each event that stays ready, however often other events come first; the *)
(* period elapses, the thread is scheduled and the camera goes on.         *)
(* Nothing is assumed of the updates, nor of the clock of the files.       *)
FairSpec ==
  /\ Spec
  /\ WF_vars(ClientSend \/ ClientAnswer \/ ClientMisread \/ ClientEof \/ ClientHup)
  /\ SF_vars(AgentRequest) /\ SF_vars(AgentTimer) /\ SF_vars(AgentFrame)
  /\ SF_vars(AgentOut)
  /\ WF_vars(AgentStart \/ AgentWrite \/ AgentExit \/ AgentDetach)
  /\ WF_vars(Thread /\ Rest) /\ WF_vars(DriverFill /\ Rest)

-----------------------------------------------------------------------------
(* Properties. *)

Alive == agent.pc # "gone"

Reading ==
  ({thr.cur, thr.prev} \ {None})
  \cup {cap.pin[k].buf : k \in DOMAIN cap.pin}
  \cup {cap.pout[k].in : k \in DOMAIN cap.pout}
  \cup ({cap.pout[k].out : k \in DOMAIN cap.pout} \ {None})

InFlight == Len(cap.pin) + Len(cap.pout) + (IF thr.pc = "compare" THEN 1 ELSE 0)

TypeOK ==
  /\ cap.img \in [Buf -> Image \cup {None}]
  /\ cap.ready \in Buf \cup {None} /\ cap.busy \subseteq Buf
  /\ cap.queued \subseteq Buf /\ cap.win \in Window
  /\ cap.fb \in [Col -> 0 .. 1]
  /\ cap.current \in -1 .. NFiles - 1 /\ cap.seen \in -1 .. NFiles - 1
  /\ thr.pc \in {"idle", "compare", "end"} /\ thr.prev \in Buf \cup {None}
  /\ client.pc \in {"idle", "wait", "gone"}
  /\ agent.pc \in {"start", "loop", "write", "join", "gone"}
  /\ Len(update) <= UpdCap /\ stale \subseteq Col /\ slips \subseteq Slip

(* A buffer that the processing thread or the main loop will still read is *)
(* neither free nor the device's, and it is marked busy.  Those of a       *)
(* streaming device are each in one place: no frame is lost to the driver. *)
(* The counter that tells an overload is the number of frames under way,   *)
(* never more than two.                                                    *)
BuffersOwned ==
  TypeOK /\ (Alive =>
  /\ cap.processing = InFlight /\ InFlight <= 2
  /\ cap.busy = Reading
  /\ \A i \in Reading \cup ({cap.ready} \ {None}) : cap.img[i] # None
  /\ cap.ready \notin cap.busy
  /\ cap.kind = "stream" => \A i \in Buf :
       Cardinality({s \in {"queued", "done", "ready", "busy"} :
                      \/ s = "queued" /\ i \in cap.queued
                      \/ s = "done" /\ i \in Range(cap.done)
                      \/ s = "ready" /\ i = cap.ready
                      \/ s = "busy" /\ i \in cap.busy}) = 1)

RefreshAsked == \/ \E k \in DOMAIN stdin : stdin[k].op = "refresh"
                \/ \E k \in DOMAIN client.todo : client.todo[k].op = "refresh"

(* When no frame is under way and no full refresh is pending, the frame    *)
(* buffer shows the last frame processed in the whole capture window, even *)
(* if the window was changed during a comparison.                          *)
FrameShown ==
  Alive /\ client.connected /\ InFlight = 0 /\ ~ cap.full /\ ~ RefreshAsked /\ thr.prev # None =>
    \A k \in Cols(cap.win) : cap.fb[k] = cap.img[thr.prev][k]

(* A part of the frame buffer that changed since the client looked at it   *)
(* is announced: in the update pipe, or in what the agent is writing.      *)
ChangesAnnounced ==
  Alive /\ client.connected => \A k \in stale :
    \/ \E n \in DOMAIN update : k \in Cols(update[n])
    \/ agent.pc = "write" /\ agent.area # None /\ k \in Cols(agent.area)

(* As long as no attribute of a file was given the empty value, there is   *)
(* at most one answer in the callback pipe, the one that the client waits  *)
(* for, and no message is read from its middle.  A client that waits has   *)
(* its request under way, an answer, or an agent that is gone, but for     *)
(* attributes that the device has not.                                     *)
AnswersMatch ==
  /\ "unasked" \notin slips =>
       /\ "torn" \notin slips
       /\ callback # <<>> => client.pc = "wait" /\ callback = <<client.want>>
  /\ client.pc = "wait" =>
       \/ callback # <<>> \/ agent.pc \in {"start", "gone"}
       \/ slips \cap {"unanswered", "torn"} # {}
       \/ \E k \in DOMAIN stdin : Awaited(stdin[k]) = client.want

(* A call of the client returns, unless the agent is blocked by the update *)
(* pipe that the client does not read meanwhile, the request was one for   *)
(* attributes that the device has not, or a message was read from its      *)
(* middle: an answer that was not asked for makes no call hang by itself.  *)
CallsReturn == []<>(client.pc # "wait" \/ agent.pc = "write"
                    \/ slips \cap {"unanswered", "torn"} # {})

(* While frames are refreshed periodically, a full refresh that was asked  *)
(* for is done, however often the pipeline was overloaded.                 *)
RefreshServed ==
  \/ []<>(~ cap.full) \/ []<>(~ cap.period) \/ <>[](~ Looping)
  \/ <>[](cap.kind = "file")
=============================================================================
