--------------------------- MODULE TreeRunProofs ---------------------------
(***************************************************************************)
(* Proofs about TreeRun, for every tree, whatever its cases answer and the *)
(* operator does: the inductive invariant of the runner, the properties    *)
(* that follow from it, and the implementation of CaseRuns.                *)
(***************************************************************************)
EXTENDS TreeRun, ReportProofs

Fields == {"state", "stepping", "current", "verdict", "brk", "skip", "child", "ctl",
           "rep", "req", "reply", "ex", "exCase", "eng", "term", "alive", "going",
           "panics", "byStep", "started"}
Like(s, d, F) == DOMAIN d = Fields /\ \A f \in Fields \ F : d[f] = s[f]

Given == Verdict \ {UNEXECUTED}
Message == [kind : {"run", "record", "input", "bad"}, case : Case \cup {0}]
Answer == [v : Given \cup {99, -2, -3}, case : Case \cup {0}]

(* The types of the fields of a runner, whose report is sound.             *)
Typed(s) ==
  /\ DOMAIN s = Fields
  /\ s.state \in State /\ s.stepping \in {0, 1}
  /\ s.current \in Case \cup {0} /\ s.skip \subseteq Case
  /\ s.verdict \in [Case -> Verdict] /\ s.brk \in [Case -> 0 .. 2]
  /\ s.child \in BOOLEAN /\ s.ctl \in BOOLEAN /\ s.term \in BOOLEAN
  /\ s.alive \in BOOLEAN /\ s.going \in BOOLEAN /\ s.byStep \in BOOLEAN
  /\ s.req \in Seq(Message) /\ s.reply \in Seq(Answer)
  /\ s.ex \in Ended \cup {"start", "init", "idle", "run", "input"}
  /\ s.exCase \in Case \cup {0} /\ s.eng \in {"none", "up", "gone"}
  /\ s.started \in Nat /\ s.panics = {}
  /\ Sound(Tr, s.rep)

(* The report has the verdicts of the tree, except for the case under way. *)
Busy(s) == s.state \in {"RUN", "INPUT"}
Recorded(s, c) == s.verdict[c] # UNEXECUTED => s.rep.mem[c] = s.verdict[c]
Agree(s) == \A c \in Case : Recorded(s, c) \/ (Busy(s) /\ c = s.current)
Blank(s) == \A c \in Case : s.verdict[c] = UNEXECUTED

(* Where a run is, from its start to its end.                              *)
Stopped(s) ==
  /\ s.state \in {"RESET", "FINISHED"}
  /\ ~ s.ctl /\ ~ s.rep.open /\ s.req = <<>> /\ s.reply = <<>> /\ s.ex = "none"
  /\ s.current = 0 /\ (s.byStep => s.started <= 1)
  /\ s.state = "RESET" => Blank(s)
Opening(s) ==
  /\ s.state = "SPAWN" /\ s.ctl /\ s.rep.open /\ s.req = <<>> /\ s.current = 0
  /\ Blank(s) /\ s.ex \notin {"none", "run", "input"}
  /\ s.byStep => s.stepping = 1 /\ s.started = 0
  /\ Len(s.reply) <= 1 /\ (s.ex \in {"start", "init"} => s.reply = <<>>)
  /\ \A k \in DOMAIN s.reply : s.reply[k].v \in {-2, -3}
  /\ s.ex = "idle" => s.reply # <<>>
Records(s) == \A k \in DOMAIN s.req : s.req[k].kind = "record"
Walking(s) ==
  /\ s.ctl /\ s.rep.open /\ s.reply = <<>> /\ s.current # 0
  /\ s.ex \in {"idle", "dead", "reaped"} /\ Records(s)
  /\ s.byStep => s.started <= 1
Waiting(s) == s.state = "WAIT" /\ Walking(s)

(* Who has the case under way: the request pipe, the executor, which may   *)
(* wait for an input, or the reply pipe; or the executor has died.         *)
AtQueue(s) ==
  /\ s.ex = "idle" /\ s.state = "RUN"
  /\ \A k \in DOMAIN s.req : s.req[k].kind \in {"run", "record"}
  /\ IF s.reply = <<>> THEN s.req # <<>> /\ s.req[Len(s.req)].kind = "run"
     ELSE s.reply[1].v \in Given
AtScript(s) ==
  /\ s.ex = "run" /\ s.state = "RUN" /\ s.exCase = s.current
  /\ s.req = <<>> /\ s.reply = <<>>
AtInput(s) ==
  /\ s.ex = "input" /\ s.exCase = s.current
  /\ \/ s.reply # <<>> /\ s.reply[1].v = 99
     \/ s.state = "INPUT" /\ s.req = <<>> /\ s.reply = <<>>
     \/ /\ s.state = "RUN" /\ Len(s.req) = 1 /\ s.req[1].kind = "input"
        /\ s.reply = <<>>
Serving(s) ==
  /\ Len(s.reply) <= 1 /\ (s.reply # <<>> => s.req = <<>> /\ s.state = "RUN")
  /\ s.state = "INPUT" => s.req = <<>>
  /\ \A k \in DOMAIN s.reply : \/ s.reply[k].v = 99
                               \/ s.reply[k].v \in Given /\ s.reply[k].case = s.current
  /\ \A k \in DOMAIN s.req :
       s.req[k].kind = "run" => k = Len(s.req) /\ s.req[k].case = s.current
  /\ (s.ex \in {"dead", "reaped"} \/ AtQueue(s) \/ AtScript(s) \/ AtInput(s))
Running(s) ==
  /\ Busy(s) /\ s.ctl /\ s.rep.open /\ s.current # 0
  /\ s.rep.cur = s.current /\ s.rep.xml[s.current] = <<>>
  /\ s.byStep => s.stepping = 1 /\ s.started <= 1
  /\ Serving(s)

(* Between two handlers.                                                   *)
Settled(s) == /\ Typed(s) /\ Agree(s) /\ ~ s.going
              /\ (Stopped(s) \/ Opening(s) \/ Waiting(s) \/ Running(s))
IInv == Settled(st)

(* Inside a handler, when the walk goes on; and how far it has come.       *)
Walk(s) ==
  /\ Typed(s) /\ Walking(s) /\ s.going /\ \A c \in Case : Recorded(s, c)
  /\ s.byStep => s.stepping = 1 /\ s.started = 0
Landed(s) == Settled(s) /\ (Waiting(s) \/ Running(s) \/ (Stopped(s) /\ s.state = "FINISHED"))
Passed(v, i, d) ==
  /\ \A c \in Case : d.verdict[c] \in {v[c], SKIP}
  /\ d.current # 0 => /\ d.current >= i
                      /\ \A c \in Case : c >= d.current => d.verdict[c] = v[c]

-----------------------------------------------------------------------------
(* What the pieces of the handlers do.                                     *)

LEMMA CasesOf == /\ IsTree(Tr) /\ 0 \notin Case /\ Case \subseteq Nat /\ IsFiniteSet(Case)
                 /\ \A i \in Case \cup {0} : i \in Nat
<1>1. IsTree(Tr)
  BY TrAssumption
<1>2. 0 \notin Case /\ Case \subseteq 1 .. Len(Tr.up) /\ Len(Tr.up) \in Nat
  BY <1>1, NodesOf DEF Case
<1>3. IsFiniteSet(1 .. Len(Tr.up))
  BY <1>2, FS_Interval
<1>4. IsFiniteSet(Case)
  BY <1>2, <1>3, FS_Subset
<1> QED BY <1>1, <1>2, <1>4

LEMMA KillOf ==
  ASSUME NEW s, Typed(s)
  PROVE  LET k == Kill(s)
         IN  /\ Like(s, k, {"child", "ctl", "req", "reply", "ex", "rep"}) /\ Typed(k)
             /\ k.child = FALSE /\ k.ctl = FALSE /\ k.req = <<>> /\ k.reply = <<>>
             /\ k.ex = "none" /\ ~ k.rep.open
             /\ k.rep.mem = s.rep.mem /\ k.rep.xml = s.rep.xml /\ k.rep.case = s.rep.case
<1> DEFINE a == WriteClose(Tr, s.rep)
           r == Merge(a, Log(s))
           k == Kill(s)
<1>1. Log(s) \in {"none", "part", "all"}
  BY DEF Typed, Log
<1>2. Sound(Tr, a) /\ Same(s.rep, a, {"open", "cur", "path"}) /\ ~ a.open
  BY CasesOf, WriteCloseOf DEF Typed
<1> HIDE DEF a
<1>3. Sound(Tr, r) /\ Same(a, r, {"logs"})
  BY <1>1, <1>2, CasesOf, MergeOf
<1>4. k = [s EXCEPT !.child = FALSE, !.ctl = FALSE, !.req = <<>>, !.reply = <<>>,
                    !.ex = "none", !.rep = r]
  BY DEF Kill, a
<1> HIDE DEF r, k
<1>5. /\ Like(s, k, {"child", "ctl", "req", "reply", "ex", "rep"})
      /\ k.child = FALSE /\ k.ctl = FALSE /\ k.req = <<>> /\ k.reply = <<>>
      /\ k.ex = "none" /\ k.rep = r
  BY <1>4 DEF Like, Typed, Fields
<1>6. ~ r.open /\ r.mem = s.rep.mem /\ r.xml = s.rep.xml /\ r.case = s.rep.case
  BY <1>2, <1>3 DEF Same, RFields
<1>7. <<>> \in Seq(Message) /\ <<>> \in Seq(Answer)
  BY EmptyOf
<1>8. Typed(k)
  BY ZenonT(60), <1>3, <1>5, <1>7 DEF Typed, Like, Fields, Ended
<1> QED BY <1>5, <1>6, <1>8 DEF k

LEMMA WriteOf ==
  ASSUME NEW s, Typed(s), s.ctl, NEW m \in Message
  PROVE  LET w == Write(s, m)
         IN  /\ Like(s, w, {"req", "alive"}) /\ Typed(w)
             /\ \/ w.req = Append(s.req, m)
                \/ w.req = s.req /\ s.ex \in Ended
<1> DEFINE w == Write(s, m)
<1>1. CASE s.ex \in Ended /\ s.eng # "up"
  <2>1. w = [s EXCEPT !.alive = FALSE]
    BY <1>1 DEF Write
  <2> HIDE DEF w
  <2>2. Like(s, w, {"alive"}) /\ w.alive = FALSE
    BY <2>1 DEF Typed, Like, Fields
  <2>3. Like(s, w, {"req", "alive"}) /\ w.req = s.req
    BY <2>2 DEF Like, Fields
  <2>4. Typed(w)
    BY ZenonT(60), <2>2 DEF Typed, Like, Fields
  <2> QED BY <1>1, <2>3, <2>4 DEF w
<1>2. CASE ~ (s.ex \in Ended /\ s.eng # "up")
  <2>1. w = [s EXCEPT !.req = Append(@, m)]
    BY <1>2 DEF Write
  <2> HIDE DEF w
  <2>2. Like(s, w, {"req"}) /\ w.req = Append(s.req, m)
    BY <2>1 DEF Typed, Like, Fields
  <2>3. Append(s.req, m) \in Seq(Message)
    BY AppendOf DEF Typed
  <2>4. Like(s, w, {"req", "alive"})
    BY <2>2 DEF Like
  <2>5. Typed(w)
    BY ZenonT(60), <2>2, <2>3 DEF Typed, Like, Fields
  <2> QED BY <2>2, <2>4, <2>5 DEF w
<1> QED BY <1>1, <1>2

LEMMA RequestOf ==
  ASSUME NEW s, Typed(s), s.ctl, s.rep.open, NEW c \in Case, NEW v \in Verdict
  PROVE  LET q == Request(s, c, v)
             m == [kind |-> IF v < 0 THEN "run" ELSE "record", case |-> c]
         IN  /\ Like(s, q, {"rep", "started", "req", "alive"}) /\ Typed(q)
             /\ q.started = (IF v < 0 THEN s.started + 1 ELSE s.started)
             /\ \/ q.req = Append(s.req, m)
                \/ q.req = s.req /\ s.ex \in Ended
             /\ q.rep.open /\ q.rep.cur = c /\ q.rep.mem = [s.rep.mem EXCEPT ![c] = v]
             /\ v < 0 => q.rep.xml[c] = <<>>
<1> DEFINE m == [kind |-> IF v < 0 THEN "run" ELSE "record", case |-> c]
           r == WriteCase(Tr, s.rep, c)
           p == IF v >= 0 THEN WriteVerdict(r, v) ELSE r
           n == IF v < 0 THEN s.started + 1 ELSE s.started
           b == [s EXCEPT !.rep = p, !.started = n]
           q == Request(s, c, v)
<1>1. IsTree(Tr) /\ c \in Tr.case /\ Sound(Tr, s.rep)
  BY CasesOf DEF Typed, Case
<1>2. /\ Sound(Tr, r) /\ r.open /\ r.cur = c /\ r.case = c
      /\ r.xml = [s.rep.xml EXCEPT ![c] = <<>>]
      /\ r.mem = [s.rep.mem EXCEPT ![c] = UNEXECUTED]
  BY SMTT(30), <1>1, WriteCaseOf
<1>3. /\ s.rep.mem \in [Case -> Verdict \cup {ABSENT}] /\ s.rep.xml \in [Case -> Seq(Verdict)]
  BY <1>1 DEF Sound, Written, Case
<1> HIDE DEF r
<1>4. r.xml[c] = <<>> /\ c # 0
  BY <1>2, <1>3, CasesOf
<1>5. /\ Sound(Tr, p) /\ p.open /\ p.cur = c /\ p.mem = [s.rep.mem EXCEPT ![c] = v]
      /\ v < 0 => p.xml[c] = <<>>
  <2>1. CASE v >= 0
    <3> DEFINE w == WriteVerdict(r, v)
    <3>1. p = w
      BY <2>1
    <3>2. IsTree(Tr) /\ Sound(Tr, r) /\ r.case # 0 /\ r.xml[r.case] = <<>>
      BY <1>1, <1>2, <1>4
    <3>a. /\ Sound(Tr, w) /\ Same(r, w, {"path", "xml", "mem"})
          /\ w.mem = [r.mem EXCEPT ![r.case] = v]
      BY <3>2, WriteVerdictOf
    <3>3. /\ Sound(Tr, p) /\ Same(r, p, {"path", "xml", "mem"})
          /\ p.mem = [r.mem EXCEPT ![r.case] = v]
      BY <3>1, <3>a
    <3>4. [[s.rep.mem EXCEPT ![c] = UNEXECUTED] EXCEPT ![c] = v] = [s.rep.mem EXCEPT ![c] = v]
      BY <1>3
    <3>5. ~ (v < 0)
      BY <2>1 DEF Verdict, UNEXECUTED, EXECUTED
    <3> HIDE DEF p
    <3>6. p.open = r.open /\ p.cur = r.cur
      BY <3>3 DEF Same, RFields
    <3> QED BY <1>2, <3>3, <3>4, <3>5, <3>6
  <2>2. CASE ~ (v >= 0)
    <3>1. p = r /\ v = UNEXECUTED
      BY <2>2 DEF Verdict, UNEXECUTED, EXECUTED
    <3> QED BY <1>2, <1>4, <3>1
  <2> QED BY <2>1, <2>2
<1>6. n \in Nat
  BY DEF Typed
<1>7. q = Write(b, m)
  BY DEF Request, r
<1> HIDE DEF p, n, q
<1>8. Like(s, b, {"rep", "started"}) /\ b.rep = p /\ b.started = n
  BY DEF Typed, Like, Fields
<1> HIDE DEF b
<1>9. Typed(b) /\ b.ctl
  BY ZenonT(60), <1>5, <1>6, <1>8 DEF Typed, Like, Fields
<1>10. m \in Message
  BY DEF Message
<1> HIDE DEF m
<1>11. /\ Like(b, q, {"req", "alive"}) /\ Typed(q)
       /\ \/ q.req = Append(b.req, m)
          \/ q.req = b.req /\ b.ex \in Ended
  BY <1>7, <1>9, <1>10, WriteOf
<1>12. /\ Like(s, q, {"rep", "started", "req", "alive"})
       /\ q.rep = p /\ q.started = n /\ b.req = s.req /\ b.ex = s.ex
  BY <1>8, <1>11 DEF Like, Fields
<1> QED BY <1>5, <1>11, <1>12 DEF m, n, q

(* A verdict for the current case: the walk goes to the next one, pauses,  *)
(* or is at its end.                                                       *)
Judging(s, v) ==
  /\ Typed(s) /\ Walking(s) /\ s.rep.mem[s.current] = v
  /\ \A c \in Case \ {s.current} : Recorded(s, c)
  /\ s.byStep => s.stepping = 1

LEMMA ContinueOf ==
  ASSUME NEW s, NEW v \in Given, Judging(s, v)
  PROVE  LET d == Continue(s, v)
         IN  /\ d.verdict = [s.verdict EXCEPT ![s.current] = v]
             /\ d.current # 0 => d.current > s.current
             /\ IF d.going THEN Walk(d) /\ d.current # 0 ELSE Landed(d)
<1> DEFINE i == s.current
           next == NextCase(Tr, i, v)
           t == TreeVerdict(s, v)
           d == Continue(s, v)
<1>1. Typed(s) /\ Walking(s) /\ i \in Case /\ i # 0 /\ s.stepping # 2 /\ v \in Verdict
  BY DEF Judging, Typed, Walking, Given
<1>2. next = 0 \/ (next \in Case /\ next > i)
  BY <1>1, CasesOf, NextCaseOf DEF Case
<1> HIDE DEF next
<1>3. t = [s EXCEPT !.verdict[i] = v, !.current = IF next = 0 THEN @ ELSE next]
  BY <1>1 DEF TreeVerdict, next
<1> HIDE DEF t
<1>4. /\ Like(s, t, {"verdict", "current"}) /\ t.verdict = [s.verdict EXCEPT ![i] = v]
      /\ t.current = IF next = 0 THEN i ELSE next
  BY <1>1, <1>3 DEF Typed, Like, Fields
<1>5. t.verdict \in [Case -> Verdict] /\ t.current \in Case
  <2>1. s.verdict \in [Case -> Verdict]
    BY <1>1 DEF Typed
  <2> QED BY <1>1, <1>2, <1>4, <2>1
<1>6. Typed(t)
  BY <1>1, <1>4, <1>5 DEF Typed, Like, Fields
<1>7. \A c \in Case : Recorded(t, c)
  <2>1. ASSUME NEW c \in Case PROVE Recorded(t, c)
    <3>1. s.verdict \in [Case -> Verdict] /\ t.rep = s.rep
      BY <1>1, <1>4 DEF Typed, Like, Fields
    <3>2. CASE c = i
      <4>1. t.verdict[c] = v /\ s.rep.mem[c] = v
        BY <1>1, <1>4, <3>1, <3>2 DEF Judging
      <4> QED BY <3>1, <4>1 DEF Recorded
    <3>3. CASE c # i
      <4>1. t.verdict[c] = s.verdict[c]
        BY <1>4, <3>1, <3>3
      <4>2. Recorded(s, c)
        BY <3>3 DEF Judging
      <4> QED BY <3>1, <4>1, <4>2 DEF Recorded
    <3> QED BY <3>2, <3>3
  <2> QED BY <2>1
<1>8. CASE next = 0
  <2> DEFINE b == [t EXCEPT !.going = FALSE]
             e == [b EXCEPT !.current = 0, !.state = "FINISHED"]
  <2>1. d = Kill(e)
    BY <1>1, <1>8 DEF Continue, Last_, Finished, next, t
  <2>2. /\ Like(t, e, {"going", "current", "state"}) /\ e.going = FALSE
        /\ e.current = 0 /\ e.state = "FINISHED"
    BY <1>6 DEF Typed, Like, Fields
  <2> HIDE DEF b, e, d
  <2>3. Typed(e)
    <3>1. e.state \in State /\ e.current \in Case \cup {0} /\ e.going \in BOOLEAN
      BY <2>2 DEF State
    <3> QED BY <1>6, <2>2, <3>1 DEF Typed, Like, Fields
  <2>4. /\ Like(e, d, {"child", "ctl", "req", "reply", "ex", "rep"}) /\ Typed(d)
        /\ d.ctl = FALSE /\ d.req = <<>> /\ d.reply = <<>>
        /\ d.ex = "none" /\ ~ d.rep.open /\ d.rep.mem = e.rep.mem
    BY <2>1, <2>3, KillOf
  <2>5. /\ d.verdict = t.verdict /\ d.rep.mem = t.rep.mem /\ d.current = 0
        /\ d.state = "FINISHED" /\ ~ d.going /\ d.byStep = s.byStep /\ d.started = s.started
    BY <1>4, <2>2, <2>4 DEF Like, Fields
  <2>6. Agree(d)
    BY <1>7, <2>5 DEF Agree, Recorded
  <2>7. Stopped(d)
    BY <1>1, <2>4, <2>5 DEF Stopped, Walking
  <2> QED BY <1>4, <2>4, <2>5, <2>6, <2>7 DEF Landed, Settled, d
<1>9. CASE next # 0
  <2>1. d = NextMove(t)
    BY <1>1, <1>9 DEF Continue, Last_, next, t
  <2>2. t.stepping = s.stepping /\ t.byStep = s.byStep /\ t.current > i /\ t.current # 0
    BY <1>2, <1>4, <1>9 DEF Like, Fields
  <2>3. CASE t.stepping # 0
    <3>1. d = [t EXCEPT !.stepping = 0, !.state = "WAIT", !.going = FALSE]
      BY <2>1, <2>3 DEF NextMove
    <3> HIDE DEF d
    <3>2. /\ Like(t, d, {"stepping", "state", "going"}) /\ d.stepping = 0
          /\ d.state = "WAIT" /\ d.going = FALSE
      BY <1>6, <3>1 DEF Typed, Like, Fields
    <3>3. Typed(d)
      BY ZenonT(60), <1>6, <3>2 DEF Typed, Like, Fields, State
    <3>4. Waiting(d)
      BY <1>1, <1>4, <2>2, <3>2 DEF Waiting, Walking, Records, Like, Fields
    <3>5. Agree(d)
      BY <1>7, <3>2 DEF Agree, Recorded, Like, Fields
    <3>6. d.verdict = t.verdict /\ d.current = t.current
      BY <3>2 DEF Like, Fields
    <3> QED BY <1>4, <2>2, <3>2, <3>3, <3>4, <3>5, <3>6 DEF Landed, Settled, d
  <2>4. CASE t.stepping = 0
    <3>1. d = [t EXCEPT !.going = TRUE]
      BY <2>1, <2>4 DEF NextMove
    <3> HIDE DEF d
    <3>2. Like(t, d, {"going"}) /\ d.going = TRUE
      BY <1>6, <3>1 DEF Typed, Like, Fields
    <3>3. Typed(d)
      BY ZenonT(60), <1>6, <3>2 DEF Typed, Like, Fields
    <3>4. Walking(d)
      BY <1>1, <1>4, <2>2, <3>2 DEF Walking, Records, Like, Fields
    <3>5. \A c \in Case : Recorded(d, c)
      BY <1>7, <3>2 DEF Recorded, Like, Fields
    <3>6. d.verdict = t.verdict /\ d.current = t.current /\ d.byStep = s.byStep
      BY <1>4, <3>2 DEF Like, Fields
    <3>7. ~ s.byStep
      BY <2>2, <2>4 DEF Judging
    <3> QED BY <1>4, <2>2, <3>2, <3>3, <3>4, <3>5, <3>6, <3>7 DEF Walk, d
  <2> QED BY <2>3, <2>4
<1> QED BY <1>8, <1>9

(* The request that records a verdict given without an execution.          *)
LEMMA RecordOf ==
  ASSUME NEW s, Typed(s), Walking(s), NEW v \in Given,
         \A c \in Case : Recorded(s, c), s.byStep => s.stepping = 1
  PROVE  LET q == Request(s, s.current, v)
         IN  Judging(q, v) /\ q.verdict = s.verdict /\ q.current = s.current
<1> DEFINE i == s.current
           m == [kind |-> "record", case |-> i]
           q == Request(s, i, v)
<1>1. i \in Case /\ s.ctl /\ s.rep.open /\ v \in Verdict /\ ~ (v < 0)
  BY DEF Typed, Walking, Given, Verdict, UNEXECUTED, EXECUTED
<1>2. /\ Like(s, q, {"rep", "started", "req", "alive"}) /\ Typed(q)
      /\ q.started = s.started
      /\ (q.req = Append(s.req, m) \/ (q.req = s.req /\ s.ex \in Ended))
      /\ q.rep.open /\ q.rep.cur = i /\ q.rep.mem = [s.rep.mem EXCEPT ![i] = v]
  BY <1>1, RequestOf
<1> HIDE DEF q
<1>3. /\ q.current = i /\ q.verdict = s.verdict /\ q.byStep = s.byStep
      /\ q.stepping = s.stepping /\ q.ctl = s.ctl /\ q.reply = s.reply /\ q.ex = s.ex
  BY <1>2 DEF Like, Fields
<1>4. Records(q)
  <2>1. CASE q.req = Append(s.req, m)
    <3>1. s.req \in Seq(Message)
      BY DEF Typed
    <3>2. m \in Message /\ m.kind = "record"
      BY <1>1 DEF Message
    <3> HIDE DEF m
    <3>3. \A k \in DOMAIN q.req : q.req[k] = m \/ (k \in DOMAIN s.req /\ q.req[k] = s.req[k])
      BY <2>1, <3>1, <3>2, AppendOf
    <3> QED BY <3>2, <3>3 DEF Records, Walking
  <2>2. CASE q.req = s.req
    BY <2>2 DEF Records, Walking
  <2> QED BY <1>2, <2>1, <2>2
<1>5. Walking(q)
  BY <1>2, <1>3, <1>4 DEF Walking
<1>6. s.rep.mem \in [Case -> Verdict \cup {ABSENT}]
  BY DEF Typed, Sound, Written, Case
<1>7. q.rep.mem[i] = v /\ \A c \in Case \ {i} : q.rep.mem[c] = s.rep.mem[c]
  BY <1>1, <1>2, <1>6
<1>8. \A c \in Case \ {i} : Recorded(q, c)
  BY <1>3, <1>7 DEF Recorded
<1> QED BY <1>2, <1>3, <1>5, <1>7, <1>8 DEF Judging, q

(* One step of the walk.                                                   *)
LEMMA GoOnceOf ==
  ASSUME NEW s, Walk(s)
  PROVE  LET d == GoOnce(s)
         IN  /\ Passed(s.verdict, s.current, d)
             /\ IF d.going THEN Walk(d) /\ d.current > s.current ELSE Landed(d)
<1> DEFINE i == s.current
           o == [s EXCEPT !.current = i, !.going = FALSE]
           d == GoOnce(s)
<1>1. Typed(s) /\ Walking(s) /\ i \in Case /\ i # 0 /\ i \in Nat
  BY CasesOf DEF Walk, Typed, Walking
<1>2. Like(s, o, {"going"}) /\ o.going = FALSE
  BY <1>1 DEF Typed, Like, Fields
<1> HIDE DEF o
<1>3. Typed(o) /\ Walking(o) /\ (\A c \in Case : Recorded(o, c)) /\ o.current = i
  <2>1. Typed(o)
    BY ZenonT(60), <1>1, <1>2 DEF Typed, Like, Fields
  <2>2. Walking(o)
    BY <1>1, <1>2 DEF Walking, Records, Like, Fields
  <2>3. \A c \in Case : Recorded(o, c)
    BY <1>2 DEF Walk, Recorded, Like, Fields
  <2>4. o.current = i
    BY <1>2 DEF Like, Fields
  <2> QED BY <2>1, <2>2, <2>3, <2>4
<1>4. /\ o.verdict = s.verdict /\ o.byStep = s.byStep /\ o.stepping = s.stepping
      /\ o.started = s.started /\ o.going = FALSE /\ o.brk = s.brk
      /\ (o.byStep => o.stepping = 1 /\ o.started = 0)
      /\ s.verdict \in [Case -> Verdict]
  BY <1>1, <1>2 DEF Walk, Typed, Like, Fields
<1>5. CASE s.brk[i] = 1
  <2>1. d = [o EXCEPT !.brk[i] = 2, !.state = "WAIT"]
    BY <1>1, <1>5 DEF GoOnce, o
  <2> HIDE DEF d
  <2>2. /\ Like(o, d, {"brk", "state"}) /\ d.brk = [o.brk EXCEPT ![i] = 2]
        /\ d.state = "WAIT"
    BY <1>3, <2>1 DEF Typed, Like, Fields
  <2>3. d.brk \in [Case -> 0 .. 2] /\ d.state \in State
    <3>1. o.brk \in [Case -> 0 .. 2]
      BY <1>3 DEF Typed
    <3>2. [o.brk EXCEPT ![i] = 2] \in [Case -> 0 .. 2]
      BY <1>1, <3>1
    <3> QED BY <2>2, <3>2 DEF State
  <2>4. Typed(d)
    BY <1>3, <2>2, <2>3 DEF Typed, Like, Fields
  <2>5. Waiting(d)
    BY <1>3, <2>2 DEF Waiting, Walking, Records, Like, Fields
  <2>6. Agree(d)
    BY <1>3, <2>2 DEF Agree, Recorded, Like, Fields
  <2>7. d.verdict = s.verdict /\ d.current = i /\ ~ d.going
    BY <1>3, <1>4, <2>2 DEF Like, Fields
  <2>8. Landed(d)
    BY <2>4, <2>5, <2>6, <2>7 DEF Landed, Settled
  <2>9. Passed(s.verdict, i, d)
    BY <1>1, <2>7 DEF Passed
  <2> QED BY <2>7, <2>8, <2>9 DEF d
<1>6. CASE s.brk[i] # 1 /\ Precond(Tr, i, s.skip, s.verdict)
  <2> DEFINE b == [o EXCEPT !.state = "RUN"]
             m == [kind |-> "run", case |-> i]
  <2>1. d = Request(b, i, UNEXECUTED)
    BY <1>1, <1>6 DEF GoOnce, o, UNEXECUTED
  <2>2. Like(o, b, {"state"}) /\ b.state = "RUN"
    BY <1>3 DEF Typed, Like, Fields
  <2> HIDE DEF b, d
  <2>3. Typed(b) /\ Walking(b) /\ b.ctl /\ b.rep.open
    <3>1. b.state \in State
      BY <2>2 DEF State, Execution
    <3>2. Typed(b)
      BY <1>3, <2>2, <3>1 DEF Typed, Like, Fields
    <3>3. Walking(b)
      BY <1>3, <2>2 DEF Walking, Records, Like, Fields
    <3> QED BY <3>2, <3>3 DEF Walking
  <2>4. UNEXECUTED \in Verdict /\ UNEXECUTED < 0
    BY DEF Verdict, UNEXECUTED, EXECUTED
  <2>5. /\ Like(b, d, {"rep", "started", "req", "alive"}) /\ Typed(d)
        /\ d.started = b.started + 1
        /\ (d.req = Append(b.req, m) \/ (d.req = b.req /\ b.ex \in Ended))
        /\ d.rep.open /\ d.rep.cur = i /\ d.rep.mem = [b.rep.mem EXCEPT ![i] = UNEXECUTED]
        /\ d.rep.xml[i] = <<>>
    BY <1>1, <2>1, <2>3, <2>4, RequestOf
  <2>6. /\ d.state = "RUN" /\ d.current = i /\ d.verdict = s.verdict /\ ~ d.going
        /\ (d.byStep => d.stepping = 1 /\ d.started = 1) /\ d.ctl /\ d.reply = <<>>
        /\ d.ex = b.ex /\ b.ex \in {"idle", "dead", "reaped"} /\ b.rep = o.rep
        /\ Records(b) /\ b.req \in Seq(Message)
    <3>1. /\ d.state = "RUN" /\ d.current = i /\ d.verdict = s.verdict /\ ~ d.going
          /\ d.ctl = b.ctl /\ d.reply = b.reply /\ d.ex = b.ex /\ b.rep = o.rep
          /\ d.byStep = o.byStep /\ d.stepping = o.stepping /\ b.started = o.started
      BY <1>3, <1>4, <2>2, <2>5 DEF Like, Fields
    <3>2. b.req \in Seq(Message)
      BY <2>3 DEF Typed
    <3> QED BY <1>4, <2>3, <2>5, <3>1, <3>2 DEF Walking
  <2>7. Agree(d)
    <3>1. o.rep.mem \in [Case -> Verdict \cup {ABSENT}]
      BY <1>3 DEF Typed, Sound, Written, Case
    <3>2. ASSUME NEW c \in Case, c # i PROVE Recorded(d, c)
      <4>1. d.rep.mem[c] = o.rep.mem[c]
        BY <2>5, <2>6, <3>1, <3>2
      <4> QED BY <1>3, <1>4, <2>6, <4>1 DEF Recorded
    <3> QED BY <2>6, <3>2 DEF Agree, Busy
  <2>8. Serving(d)
    <3>1. Len(d.reply) = 0 /\ DOMAIN d.reply = {}
      BY <2>6, EmptyOf
    <3>2. CASE d.req = Append(b.req, m)
      <4>1. /\ d.req # <<>> /\ Len(d.req) = Len(b.req) + 1 /\ d.req[Len(b.req) + 1] = m
            /\ \A k \in DOMAIN d.req :
                 k = Len(b.req) + 1 \/ (k \in DOMAIN b.req /\ d.req[k] = b.req[k])
        <5>1. m \in Message
          BY <1>1 DEF Message
        <5> HIDE DEF m
        <5> QED BY <2>6, <3>2, <5>1, AppendOf
      <4>2. \A k \in DOMAIN d.req : \/ k = Len(d.req) /\ d.req[k] = m
                                    \/ d.req[k].kind = "record"
        BY <2>6, <4>1 DEF Records
      <4>3. d.ex \in {"dead", "reaped"} \/ AtQueue(d)
        <5>1. d.req[Len(d.req)] = m
          BY <4>1
        <5>2. \A k \in DOMAIN d.req : d.req[k].kind \in {"run", "record"}
          BY <4>2
        <5> QED BY <2>6, <4>1, <5>1, <5>2 DEF AtQueue
      <4> QED BY <2>6, <3>1, <4>2, <4>3 DEF Serving
    <3>3. CASE d.req = b.req /\ b.ex \in Ended
      <4>1. d.ex \in {"dead", "reaped"}
        BY <2>6, <3>3 DEF Ended
      <4>2. \A k \in DOMAIN d.req : d.req[k].kind = "record"
        BY <2>6, <3>3 DEF Records
      <4> QED BY <2>6, <3>1, <4>1, <4>2 DEF Serving
    <3> QED BY <2>5, <3>2, <3>3
  <2>9. Running(d)
    BY <1>1, <2>5, <2>6, <2>8 DEF Running, Busy
  <2>10. Landed(d)
    BY <2>5, <2>6, <2>7, <2>9 DEF Landed, Settled
  <2>11. Passed(s.verdict, i, d)
    BY <1>1, <2>6 DEF Passed
  <2> QED BY <2>6, <2>10, <2>11 DEF d
<1>7. CASE s.brk[i] # 1 /\ ~ Precond(Tr, i, s.skip, s.verdict)
  <2> DEFINE q == Request(o, i, SKIP)
  <2>1. d = Continue(q, SKIP)
    BY <1>1, <1>3, <1>7 DEF GoOnce, Simulate, o
  <2>2. SKIP \in Given
    BY DEF Given, Verdict, SKIP, UNEXECUTED, EXECUTED
  <2>3. Judging(q, SKIP) /\ q.verdict = s.verdict /\ q.current = i
    BY <1>3, <1>4, <2>2, RecordOf
  <2> HIDE DEF q, d
  <2>4. /\ d.verdict = [q.verdict EXCEPT ![i] = SKIP]
        /\ d.current # 0 => d.current > i
        /\ IF d.going THEN Walk(d) /\ d.current # 0 ELSE Landed(d)
    BY <2>1, <2>2, <2>3, ContinueOf
  <2>5. d.current \in Case \cup {0}
    BY <2>4 DEF Walk, Landed, Settled, Typed
  <2>6. Passed(s.verdict, i, d)
    <3>1. \A c \in Case : d.verdict[c] \in {s.verdict[c], SKIP}
      BY <1>4, <2>3, <2>4
    <3>2. ASSUME d.current # 0
          PROVE  d.current >= i /\ \A c \in Case : c >= d.current => d.verdict[c] = s.verdict[c]
      <4>1. d.current \in Nat /\ d.current > i
        BY <2>4, <2>5, <3>2, CasesOf
      <4>2. ASSUME NEW c \in Case, c >= d.current PROVE d.verdict[c] = s.verdict[c]
        <5>1. c # i
          BY <1>1, <4>1, <4>2, CasesOf
        <5> QED BY <1>4, <2>3, <2>4, <5>1
      <4> QED BY <1>1, <4>1, <4>2
    <3> QED BY <3>1, <3>2 DEF Passed
  <2> QED BY <2>4, <2>6 DEF d
<1> QED BY <1>5, <1>6, <1>7

(* tree_run_go and tree_run_next call each other no more often than there  *)
(* are cases: each call skips one, and the walk only goes forward.  Where  *)
(* it ends the runner waits for the operator or the executor, or is done.  *)
THEOREM WalkEnds ==
  ASSUME NEW s, IF s.going THEN Walk(s) ELSE Landed(s)
  PROVE  Landed(Finish(s)) /\ Passed(s.verdict, s.current, Finish(s))
<1> DEFINE N == Cardinality(Case)
           E(f, k) == IF k = 0 THEN s ELSE IF f[k - 1].going THEN GoOnce(f[k - 1]) ELSE f[k - 1]
           D(n, f) == f = [k \in 0 .. n |-> E(f, k)]
           T == {n \in 0 .. N : ~ \E f : D(n, f)}
<1>1. N \in Nat
  BY CasesOf, FS_CardinalityType
<1> HIDE DEF N, D
<1>a. \A n \in 0 .. N : n \notin T => \E f : D(n, f)
  OBVIOUS
<1>b. \A n \in T : n \in 0 .. N /\ ~ \E f : D(n, f)
  OBVIOUS
<1> HIDE DEF T
<1>2. T = {}
  <2> SUFFICES ASSUME T # {} PROVE FALSE
    OBVIOUS
  <2>1. PICK m \in T : \A y \in T : m <= y
    <3>1. T \subseteq Nat
      BY <1>1, <1>b
    <3> QED BY <3>1, MinOf
  <2>2. m \in 0 .. N /\ ~ \E f : D(m, f)
    BY <2>1, <1>b
  <2>3. CASE m = 0
    <3> DEFINE f == [k \in 0 .. 0 |-> s]
    <3>1. f = [k \in 0 .. 0 |-> E(f, k)]
      OBVIOUS
    <3> QED BY <2>2, <2>3, <3>1 DEF D
  <2>4. CASE m # 0
    <3>1. m - 1 \in 0 .. N /\ m - 1 \notin T
      <4>1. m - 1 \in 0 .. N /\ ~ (m <= m - 1)
        BY <1>1, <2>2, <2>4
      <4> QED BY <2>1, <4>1
    <3>2. PICK f : D(m - 1, f)
      BY <3>1, <1>a
    <3>3. \A k \in 0 .. m - 1 : f[k] = E(f, k)
      BY <3>2 DEF D
    <3> DEFINE g == [k \in 0 .. m |-> IF k = m THEN E(f, m) ELSE f[k]]
    <3>4. ASSUME NEW k \in 0 .. m PROVE g[k] = E(g, k)
      <4>1. CASE k = 0
        <5>1. 0 \in 0 .. m - 1 /\ 0 # m
          BY <2>2, <2>4
        <5>2. f[0] = s
          BY <3>3, <5>1
        <5> QED BY <2>2, <4>1, <5>1, <5>2
      <4>2. CASE k # 0
        <5>1. k - 1 \in 0 .. m /\ k - 1 # m
          BY <2>2, <4>2
        <5>2. g[k - 1] = f[k - 1]
          BY <5>1
        <5>3. g[k] = E(f, k)
          <6>1. CASE k = m
            BY <6>1
          <6>2. CASE k # m
            <7>1. k \in 0 .. m - 1 /\ g[k] = f[k]
              BY <2>2, <6>2
            <7> QED BY <3>3, <7>1
          <6> QED BY <6>1, <6>2
        <5> HIDE DEF g
        <5> QED BY <4>2, <5>2, <5>3
      <4> QED BY <4>1, <4>2
    <3>5. D(m, g)
      BY <3>4 DEF D
    <3> QED BY <2>2, <3>5
  <2> QED BY <2>3, <2>4
<1>3. \E f : D(N, f)
  BY <1>1, <1>2, <1>a
<1> DEFINE move[k \in 0 .. N] ==
             IF k = 0 THEN s
             ELSE IF move[k - 1].going THEN GoOnce(move[k - 1]) ELSE move[k - 1]
<1>4. D(N, move)
  BY <1>3 DEF D
<1>5. Finish(s) = move[N]
  BY DEF Finish, N
<1> HIDE DEF move
<1>6. \A k \in 0 .. N : move[k] = E(move, k)
  BY <1>4 DEF D
<1> DEFINE Left(d) == {c \in Case : c >= d.current}
           P(k) == LET d == move[k]
                   IN  /\ Passed(s.verdict, s.current, d)
                       /\ IF d.going THEN Walk(d) /\ Cardinality(Left(d)) <= N - k
                          ELSE Landed(d)
<1>7. \A d : IsFiniteSet(Left(d)) /\ Cardinality(Left(d)) \in Nat /\ Cardinality(Left(d)) <= N
  <2>1. ASSUME NEW d
        PROVE  IsFiniteSet(Left(d)) /\ Cardinality(Left(d)) \in Nat /\ Cardinality(Left(d)) <= N
    <3>1. Left(d) \subseteq Case
      OBVIOUS
    <3> HIDE DEF Left
    <3>2. IsFiniteSet(Left(d)) /\ Cardinality(Left(d)) <= Cardinality(Case)
      BY <3>1, CasesOf, FS_Subset
    <3> QED BY <3>2, FS_CardinalityType DEF N
  <2> QED BY <2>1
<1>8. \A d, e : /\ d.current \in Case /\ e.current \in Case /\ e.current > d.current
                => Cardinality(Left(e)) < Cardinality(Left(d))
  <2> SUFFICES ASSUME NEW d, NEW e, d.current \in Case, e.current \in Case,
                      e.current > d.current
               PROVE  Cardinality(Left(e)) < Cardinality(Left(d))
    OBVIOUS
  <2>1. d.current \in Nat /\ e.current \in Nat /\ Case \subseteq Nat
    BY CasesOf
  <2>2. Left(e) \subseteq Left(d) /\ d.current \in Left(d) /\ d.current \notin Left(e)
    <3>1. ASSUME NEW c \in Case, c >= e.current PROVE c >= d.current
      <4>1. c \in Nat
        BY <2>1
      <4> QED BY <2>1, <3>1, <4>1
    <3>2. d.current >= d.current /\ ~ (d.current >= e.current)
      BY <2>1
    <3> QED BY <3>1, <3>2
  <2>3. Left(e) # Left(d)
    BY <2>2
  <2>4. /\ IsFiniteSet(Left(d)) /\ Cardinality(Left(d)) \in Nat
        /\ Cardinality(Left(e)) \in Nat
    BY <1>7
  <2> HIDE DEF Left
  <2>5. /\ Cardinality(Left(e)) <= Cardinality(Left(d))
        /\ Cardinality(Left(d)) = Cardinality(Left(e)) => Left(d) = Left(e)
    BY <2>2, <2>4, FS_Subset
  <2> QED BY <2>3, <2>4, <2>5
<1> HIDE DEF Left
<1>9. P(0)
  <2>1. move[0] = s
    BY <1>1, <1>6
  <2>2. Passed(s.verdict, s.current, s)
    <3>1. s.current \in Nat
      <4>1. s.current \in Case \cup {0}
        BY DEF Walk, Landed, Settled, Typed
      <4> QED BY <4>1, CasesOf
    <3> QED BY <3>1 DEF Passed
  <2>3. Cardinality(Left(s)) <= N - 0
    BY <1>1, <1>7
  <2> QED BY <2>1, <2>2, <2>3
<1>10. ASSUME NEW k \in 1 .. N, P(k - 1) PROVE P(k)
  <2> DEFINE d == move[k - 1]
             e == move[k]
  <2>1. k \in 0 .. N /\ k # 0 /\ e = IF d.going THEN GoOnce(d) ELSE d
    BY <1>6
  <2>2. CASE ~ d.going
    BY <1>10, <2>1, <2>2
  <2>3. CASE d.going
    <3>1. Walk(d) /\ Cardinality(Left(d)) <= N - (k - 1) /\ Passed(s.verdict, s.current, d)
      BY <1>10, <2>3
    <3>2. e = GoOnce(d)
      BY <2>1, <2>3
    <3> HIDE DEF d, e
    <3>3. /\ Passed(d.verdict, d.current, e)
          /\ IF e.going THEN Walk(e) /\ e.current > d.current ELSE Landed(e)
      BY <3>1, <3>2, GoOnceOf
    <3>4. d.current \in Case /\ d.current # 0 /\ e.current \in Case \cup {0}
          /\ d.verdict \in [Case -> Verdict] /\ s.current \in Case \cup {0}
      BY <3>1, <3>3 DEF Walk, Walking, Landed, Settled, Typed
    <3>5. Passed(s.verdict, s.current, e)
      <4>1. \A c \in Case : e.verdict[c] \in {s.verdict[c], SKIP}
        BY <3>1, <3>3 DEF Passed
      <4>2. ASSUME e.current # 0
            PROVE  /\ e.current >= s.current
                   /\ \A c \in Case : c >= e.current => e.verdict[c] = s.verdict[c]
        <5>1. e.current \in Nat /\ d.current \in Nat /\ s.current \in Nat /\ Case \subseteq Nat
          BY <3>4, CasesOf
        <5>2. /\ e.current >= d.current /\ d.current >= s.current
              /\ \A c \in Case : c >= e.current => e.verdict[c] = d.verdict[c]
              /\ \A c \in Case : c >= d.current => d.verdict[c] = s.verdict[c]
          BY <3>1, <3>3, <3>4, <4>2 DEF Passed
        <5>3. ASSUME NEW c \in Case, c >= e.current PROVE e.verdict[c] = s.verdict[c]
          <6>1. c >= d.current
            BY <5>1, <5>2, <5>3
          <6> QED BY <5>2, <5>3, <6>1
        <5> QED BY <5>1, <5>2, <5>3
      <4> QED BY <4>1, <4>2 DEF Passed
    <3>6. CASE e.going
      <4>1. Walk(e) /\ e.current > d.current /\ e.current \in Case
        BY <3>3, <3>4, <3>6 DEF Walk, Walking
      <4>2. Cardinality(Left(e)) < Cardinality(Left(d))
        BY <1>8, <3>4, <4>1
      <4>3. Cardinality(Left(e)) <= N - k
        <5>1. Cardinality(Left(e)) \in Nat /\ Cardinality(Left(d)) \in Nat
          BY <1>7
        <5> QED BY <1>1, <3>1, <4>2, <5>1
      <4> QED BY <3>5, <3>6, <4>1, <4>3 DEF e
    <3>7. CASE ~ e.going
      BY <3>3, <3>5, <3>7 DEF e
    <3> QED BY <3>6, <3>7
  <2> QED BY <2>2, <2>3
<1>11. \A k \in 0 .. N : P(k)
  <2> DEFINE U == {k \in 0 .. N : ~ P(k)}
  <2> HIDE DEF P
  <2> SUFFICES ASSUME U # {} PROVE FALSE
    OBVIOUS
  <2>1. PICK m \in U : \A y \in U : m <= y
    <3>1. U \subseteq Nat
      BY <1>1
    <3> QED BY <3>1, MinOf
  <2>2. m # 0
    BY <1>9, <2>1
  <2>3. m - 1 \in 0 .. N /\ m - 1 \notin U /\ m \in 1 .. N
    <3>1. m - 1 \in 0 .. N /\ ~ (m <= m - 1) /\ m \in 1 .. N
      BY <1>1, <2>1, <2>2
    <3> HIDE DEF U
    <3> QED BY <2>1, <3>1
  <2>4. P(m - 1)
    BY <2>3
  <2> QED BY <1>10, <2>1, <2>3, <2>4
<1>12. P(N)
  <2> HIDE DEF P
  <2> QED BY <1>1, <1>11
<1>13. ~ move[N].going
  <2> SUFFICES ASSUME move[N].going PROVE FALSE
    OBVIOUS
  <2> DEFINE d == move[N]
  <2>1. Walk(d) /\ Cardinality(Left(d)) <= N - N
    BY <1>12
  <2> HIDE DEF d
  <2>2. d.current \in Case /\ d.current \in Nat
    BY <2>1, CasesOf DEF Walk, Walking, Typed
  <2>3. d.current \in Left(d)
    BY <2>2 DEF Left
  <2>4. IsFiniteSet(Left(d)) /\ Cardinality(Left(d)) \in Nat
    BY <1>7
  <2>5. Cardinality(Left(d)) = 0
    BY <1>1, <2>1, <2>4
  <2>6. Left(d) = {}
    BY <2>4, <2>5, FS_EmptySet
  <2> QED BY <2>3, <2>6
<1> QED BY <1>5, <1>12, <1>13

LEMMA FinishedOf ==
  ASSUME NEW s, Typed(s), ~ s.going, \A c \in Case : Recorded(s, c),
         s.byStep => s.started <= 1
  PROVE  LET d == Finished(s)
         IN  /\ Settled(d) /\ Stopped(d) /\ d.state = "FINISHED" /\ d.verdict = s.verdict
<1> DEFINE e == [s EXCEPT !.current = 0, !.state = "FINISHED"]
           d == Finished(s)
<1>1. d = Kill(e)
  BY DEF Finished
<1>2. Like(s, e, {"current", "state"}) /\ e.current = 0 /\ e.state = "FINISHED"
  BY DEF Typed, Like, Fields
<1> HIDE DEF e, d
<1>3. Typed(e)
  <2>1. e.state \in State /\ e.current \in Case \cup {0}
    BY <1>2 DEF State
  <2> QED BY <1>2, <2>1 DEF Typed, Like, Fields
<1>4. /\ Like(e, d, {"child", "ctl", "req", "reply", "ex", "rep"}) /\ Typed(d)
      /\ d.ctl = FALSE /\ d.req = <<>> /\ d.reply = <<>>
      /\ d.ex = "none" /\ ~ d.rep.open /\ d.rep.mem = e.rep.mem
  BY <1>1, <1>3, KillOf
<1>5. /\ d.verdict = s.verdict /\ d.rep.mem = s.rep.mem /\ d.current = 0
      /\ d.state = "FINISHED" /\ ~ d.going /\ d.byStep = s.byStep /\ d.started = s.started
  BY <1>2, <1>4 DEF Like, Fields
<1>6. Agree(d)
  BY <1>5 DEF Agree, Recorded
<1>7. Stopped(d)
  BY <1>4, <1>5 DEF Stopped
<1> QED BY <1>4, <1>5, <1>6, <1>7 DEF Settled, d

(* An abort gives its verdict to the case under way and to no other.       *)
Abortable(s) ==
  /\ Typed(s) /\ Agree(s) /\ ~ s.going /\ (s.byStep => s.started <= 1)
  /\ Busy(s) => s.current # 0 /\ s.rep.case = s.current /\ s.rep.xml[s.current] = <<>>
Aborted(s, d) ==
  /\ Settled(d) /\ Stopped(d) /\ d.state = "FINISHED"
  /\ d.verdict = IF Busy(s) THEN [s.verdict EXCEPT ![s.current] = INCONCLUSIVE]
                 ELSE s.verdict

LEMMA AbortableOf ==
  ASSUME NEW s, Settled(s)
  PROVE  Abortable(s)
<1>1. Typed(s) /\ Agree(s) /\ ~ s.going
  BY DEF Settled
<1>2. CASE Running(s)
  <2>1. s.rep.case = s.rep.cur
    BY <1>1, <1>2 DEF Running, Typed, Sound, Nested
  <2> QED BY <1>1, <1>2, <2>1 DEF Running, Abortable
<1>3. CASE Opening(s)
  <2>1. s.byStep => s.started <= 1
    BY <1>3 DEF Opening
  <2> QED BY <1>1, <1>3, <2>1 DEF Opening, Abortable, Busy
<1>4. CASE Waiting(s) \/ Stopped(s)
  BY <1>1, <1>4 DEF Waiting, Walking, Stopped, Abortable, Busy
<1> QED BY <1>2, <1>3, <1>4 DEF Settled

LEMMA AbortGutsOf ==
  ASSUME NEW s, Abortable(s)
  PROVE  Aborted(s, AbortGuts(s))
<1> DEFINE d == AbortGuts(s)
<1>1. Typed(s) /\ Agree(s) /\ ~ s.going /\ (s.byStep => s.started <= 1)
  BY DEF Abortable
<1>2. CASE ~ Busy(s)
  <2> DEFINE k == Kill(s)
  <2>1. d = Finished(k)
    BY <1>2 DEF AbortGuts, Busy
  <2>2. /\ Like(s, k, {"child", "ctl", "req", "reply", "ex", "rep"}) /\ Typed(k)
        /\ k.rep.mem = s.rep.mem
    BY <1>1, KillOf
  <2> HIDE DEF k
  <2>3. /\ k.verdict = s.verdict /\ ~ k.going /\ (k.byStep => k.started <= 1)
    BY <1>1, <2>2 DEF Like, Fields
  <2>4. \A c \in Case : Recorded(k, c)
    BY <1>1, <1>2, <2>2, <2>3 DEF Agree, Recorded
  <2>5. Settled(d) /\ Stopped(d) /\ d.state = "FINISHED" /\ d.verdict = k.verdict
    BY <2>1, <2>2, <2>3, <2>4, FinishedOf
  <2> QED BY <1>2, <2>3, <2>5 DEF Aborted
<1>3. CASE Busy(s)
  <2> DEFINE i == s.current
             r == WriteVerdict(s.rep, INCONCLUSIVE)
             w == [s EXCEPT !.rep = r]
             k == Kill(w)
             t == TreeVerdict(k, INCONCLUSIVE)
  <2>1. d = Finished(t)
    BY <1>3 DEF AbortGuts, Busy
  <2>2. /\ i \in Case /\ i # 0 /\ s.rep.case = i /\ s.rep.xml[s.rep.case] = <<>>
        /\ s.rep.case # 0 /\ Sound(Tr, s.rep) /\ IsTree(Tr)
    BY <1>1, <1>3, CasesOf DEF Abortable, Typed
  <2>3. INCONCLUSIVE \in Verdict
    BY DEF Verdict, INCONCLUSIVE, UNEXECUTED, EXECUTED
  <2>4. /\ Sound(Tr, r) /\ r.mem = [s.rep.mem EXCEPT ![s.rep.case] = INCONCLUSIVE]
    BY <2>2, <2>3, WriteVerdictOf
  <2> HIDE DEF r
  <2>5. Like(s, w, {"rep"}) /\ w.rep = r
    BY <1>1 DEF Typed, Like, Fields
  <2> HIDE DEF w
  <2>6. Typed(w)
    BY <1>1, <2>4, <2>5 DEF Typed, Like, Fields
  <2>7. /\ Like(w, k, {"child", "ctl", "req", "reply", "ex", "rep"}) /\ Typed(k)
        /\ k.rep.mem = w.rep.mem
    BY <2>6, KillOf
  <2> HIDE DEF k
  <2>8. /\ k.verdict = s.verdict /\ ~ k.going /\ (k.byStep => k.started <= 1)
        /\ k.current = i /\ k.rep.mem = [s.rep.mem EXCEPT ![i] = INCONCLUSIVE]
        /\ k.stepping # 2 /\ s.verdict \in [Case -> Verdict]
    <3>1. /\ k.verdict = s.verdict /\ k.going = s.going /\ k.byStep = s.byStep
          /\ k.started = s.started /\ k.current = i /\ k.rep.mem = r.mem
          /\ k.stepping = s.stepping
      BY <2>5, <2>7 DEF Like, Fields
    <3>2. s.stepping # 2 /\ s.verdict \in [Case -> Verdict]
      BY <1>1 DEF Typed
    <3> QED BY <1>1, <2>2, <2>4, <3>1, <3>2
  <2> DEFINE next == NextCase(Tr, i, INCONCLUSIVE)
  <2>9. next \in Case \cup {0}
    BY <2>2, NextCaseOf DEF Case
  <2> HIDE DEF next
  <2>10. t = [k EXCEPT !.verdict[i] = INCONCLUSIVE, !.current = IF next = 0 THEN @ ELSE next]
    BY <2>2, <2>8 DEF TreeVerdict, next
  <2> HIDE DEF t
  <2>11. /\ Like(k, t, {"verdict", "current"})
         /\ t.verdict = [s.verdict EXCEPT ![i] = INCONCLUSIVE] /\ t.current \in Case \cup {0}
    <3>1. DOMAIN k = Fields
      BY <2>7 DEF Typed
    <3>2. /\ Like(k, t, {"verdict", "current"})
          /\ t.verdict = [k.verdict EXCEPT ![i] = INCONCLUSIVE]
          /\ t.current = IF next = 0 THEN k.current ELSE next
      BY <2>10, <3>1 DEF Like, Fields
    <3> QED BY <2>2, <2>8, <2>9, <3>2
  <2>12. t.verdict \in [Case -> Verdict]
    BY <2>3, <2>8, <2>11
  <2>13. Typed(t)
    BY <2>7, <2>11, <2>12 DEF Typed, Like, Fields
  <2>14. ~ t.going /\ (t.byStep => t.started <= 1) /\ t.rep.mem = k.rep.mem
    BY <2>8, <2>11 DEF Like, Fields
  <2>15. \A c \in Case : Recorded(t, c)
    <3> SUFFICES ASSUME NEW c \in Case PROVE Recorded(t, c)
      OBVIOUS
    <3>1. s.rep.mem \in [Case -> Verdict \cup {ABSENT}]
      BY <1>1 DEF Typed, Sound, Written, Case
    <3>2. CASE c = i
      BY <2>8, <2>11, <2>14, <3>1, <3>2 DEF Recorded
    <3>3. CASE c # i
      <4>1. t.verdict[c] = s.verdict[c] /\ t.rep.mem[c] = s.rep.mem[c]
        BY <2>8, <2>11, <2>14, <3>1, <3>3
      <4>2. Recorded(s, c)
        BY <1>1, <3>3 DEF Agree
      <4> QED BY <4>1, <4>2 DEF Recorded
    <3> QED BY <3>2, <3>3
  <2>16. Settled(d) /\ Stopped(d) /\ d.state = "FINISHED" /\ d.verdict = t.verdict
    BY <2>1, <2>13, <2>14, <2>15, FinishedOf
  <2> QED BY <1>3, <2>11, <2>16 DEF Aborted
<1> QED BY <1>2, <1>3

LEMMA ResetGutsOf ==
  ASSUME NEW s, Typed(s), ~ s.ctl, ~ s.rep.open, s.req = <<>>, s.reply = <<>>,
         s.ex = "none", ~ s.going, s.byStep => s.started <= 1
  PROVE  LET d == ResetGuts(s)
         IN  Settled(d) /\ Stopped(d) /\ d.state = "RESET"
<1> DEFINE b == [c \in Case |-> IF s.brk[c] = 0 THEN 0 ELSE 1]
           v == [c \in Case |-> UNEXECUTED]
           d == ResetGuts(s)
<1>1. d = [s EXCEPT !.stepping = 0, !.current = 0, !.state = "RESET", !.brk = b, !.verdict = v]
  BY DEF ResetGuts
<1>2. b \in [Case -> 0 .. 2] /\ v \in [Case -> Verdict] /\ \A c \in Case : v[c] = UNEXECUTED
  BY DEF Verdict, UNEXECUTED, EXECUTED
<1> HIDE DEF b, v, d
<1>3. /\ Like(s, d, {"stepping", "current", "state", "brk", "verdict"}) /\ d.stepping = 0
      /\ d.current = 0 /\ d.state = "RESET" /\ d.brk = b /\ d.verdict = v
  BY <1>1 DEF Typed, Like, Fields
<1>4. Typed(d)
  <2>1. d.state \in State /\ d.current \in Case \cup {0} /\ d.stepping \in {0, 1}
    BY <1>3 DEF State
  <2> QED BY ZenonT(60), <1>2, <1>3, <2>1 DEF Typed, Like, Fields
<1>5. Blank(d) /\ Agree(d)
  BY <1>2, <1>3 DEF Blank, Agree, Recorded
<1>6. Stopped(d) /\ ~ d.going
  BY <1>3, <1>5 DEF Stopped, Like, Fields
<1> QED BY <1>3, <1>4, <1>5, <1>6 DEF Settled, d

-----------------------------------------------------------------------------
(* The handlers.                                                           *)

(* A handler that ends the walk: cases may have been skipped on the way,   *)
(* and the verdict of the case that it requests is the one it had.         *)
Forth(v, d) ==
  /\ Landed(d) /\ (\A c \in Case : d.verdict[c] \in {v[c], SKIP})
  /\ d.current # 0 => d.verdict[d.current] = v[d.current]

LEMMA ForthOf ==
  ASSUME NEW s, IF s.going THEN Walk(s) ELSE Landed(s)
  PROVE  Forth(s.verdict, Finish(s))
<1> DEFINE d == Finish(s)
<1>1. Landed(d) /\ Passed(s.verdict, s.current, d)
  BY WalkEnds
<1> HIDE DEF d
<1>2. d.current # 0 => d.current \in Case /\ d.current \in Nat
  BY <1>1, CasesOf DEF Landed, Settled, Typed
<1>3. d.current # 0 => d.verdict[d.current] = s.verdict[d.current]
  BY <1>1, <1>2 DEF Passed
<1> QED BY <1>1, <1>3 DEF Forth, Passed, d

LEMMA JudgeOf ==
  ASSUME NEW s, NEW v \in Given, Judging(s, v)
  PROVE  Forth([s.verdict EXCEPT ![s.current] = v], Finish(Continue(s, v)))
<1> DEFINE d == Continue(s, v)
<1>1. /\ d.verdict = [s.verdict EXCEPT ![s.current] = v]
      /\ (IF d.going THEN Walk(d) ELSE Landed(d))
  BY ContinueOf
<1> HIDE DEF d
<1>2. Forth(d.verdict, Finish(d))
  BY <1>1, ForthOf
<1> QED BY <1>1, <1>2 DEF d

LEMMA GoOf ==
  ASSUME NEW s, Typed(s), Walking(s), \A c \in Case : Recorded(s, c),
         s.byStep => s.stepping = 1 /\ s.started = 0
  PROVE  Forth(s.verdict, Go(s))
<1> DEFINE w == [s EXCEPT !.going = TRUE]
<1>1. Like(s, w, {"going"}) /\ w.going = TRUE
  BY DEF Typed, Like, Fields
<1>2. Go(s) = Finish(w)
  BY DEF Go
<1> HIDE DEF w
<1>3. Typed(w)
  BY ZenonT(60), <1>1 DEF Typed, Like, Fields
<1>4. Walking(w)
  BY <1>1 DEF Walking, Records, Like, Fields
<1>5. \A c \in Case : Recorded(w, c)
  BY <1>1 DEF Recorded, Like, Fields
<1>6. w.verdict = s.verdict /\ (w.byStep => w.stepping = 1 /\ w.started = 0)
  BY <1>1 DEF Like, Fields
<1>7. Walk(w)
  BY <1>1, <1>3, <1>4, <1>5, <1>6 DEF Walk
<1> QED BY <1>1, <1>2, <1>6, <1>7, ForthOf

(* The start from RESET: a fork, or none.                                  *)
Opened(s, d) ==
  /\ Settled(d)
  /\ \/ d.state = "SPAWN" /\ d.verdict = s.verdict
     \/ Stopped(d) /\ d.state = "RESET"
LEMMA SpawnOf ==
  ASSUME NEW s, Typed(s), Blank(s), ~ s.going, s.current = 0, s.state = "SPAWN",
         s.byStep => s.stepping = 1 /\ s.started = 0
  PROVE  /\ Settled(Spawn(s)) /\ Opening(Spawn(s)) /\ Spawn(s).verdict = s.verdict
<1> DEFINE r == WriteOpen(Tr)
           d == Spawn(s)
<1>1. Sound(Tr, r) /\ r.open
  BY CasesOf, WriteOpenOf
<1>2. d = [s EXCEPT !.rep = r, !.child = TRUE, !.ctl = TRUE, !.req = <<>>,
                    !.reply = <<>>, !.ex = "start", !.exCase = 0, !.eng = "none"]
  BY DEF Spawn
<1> HIDE DEF r, d
<1>3. /\ Like(s, d, {"rep", "child", "ctl", "req", "reply", "ex", "exCase", "eng"})
      /\ d.rep = r /\ d.child = TRUE /\ d.ctl = TRUE /\ d.req = <<>> /\ d.reply = <<>>
      /\ d.ex = "start" /\ d.exCase = 0 /\ d.eng = "none"
  BY <1>2 DEF Typed, Like, Fields
<1>4. <<>> \in Seq(Message) /\ <<>> \in Seq(Answer) /\ Len(<<>>) = 0 /\ DOMAIN <<>> = {}
  BY EmptyOf
<1>5. Typed(d)
  <2>1. /\ d.child \in BOOLEAN /\ d.ctl \in BOOLEAN /\ d.req \in Seq(Message)
        /\ d.reply \in Seq(Answer) /\ d.exCase \in Case \cup {0} /\ Sound(Tr, d.rep)
        /\ d.ex \in Ended \cup {"start", "init", "idle", "run", "input"}
        /\ d.eng \in {"none", "up", "gone"}
    BY <1>1, <1>3, <1>4
  <2>2. Like(s, d, {"rep", "child", "ctl", "req", "reply", "ex", "exCase", "eng"})
    BY <1>3
  <2> QED BY <2>1, <2>2 DEF Typed, Like, Fields
<1>6. /\ d.state = "SPAWN" /\ d.current = 0 /\ ~ d.going /\ d.verdict = s.verdict
      /\ (d.byStep => d.stepping = 1 /\ d.started = 0)
  BY <1>3 DEF Like, Fields
<1>7. Blank(d)
  BY <1>6 DEF Blank
<1>8. Opening(d)
  BY <1>1, <1>3, <1>4, <1>6, <1>7 DEF Opening
<1>9. Agree(d)
  BY <1>7 DEF Agree, Recorded, Blank
<1> QED BY <1>5, <1>6, <1>8, <1>9 DEF Settled, d

LEMMA StartOf ==
  ASSUME NEW s, Settled(s), s.state \in {"RESET", "WAIT"}, NEW c \in Case \cup {0},
         s.state = "RESET" => c = 0, NEW step \in {0, 1}, NEW how \in {"ok", "early", "late"}
  PROVE  IF s.state = "RESET" THEN Opened(s, Start(s, step, c, how))
         ELSE Forth(s.verdict, Start(s, step, c, how))
<1> DEFINE i == IF c = 0 THEN s.current ELSE c
           j == Jump(s, c)
           n == [j EXCEPT !.stepping = step, !.byStep = (step = 1), !.started = 0]
           d == Start(s, step, c, how)
<1>1. Typed(s) /\ Agree(s) /\ ~ s.going
  BY DEF Settled
<1>2. /\ Like(s, j, {"current"}) /\ j.current = i
  BY <1>1 DEF Jump, Typed, Like, Fields
<1> HIDE DEF j
<1>3. /\ Like(s, n, {"current", "stepping", "byStep", "started"})
      /\ n.current = i /\ n.stepping = step /\ n.byStep = (step = 1) /\ n.started = 0
  BY <1>2 DEF Like, Fields
<1>4. d = Start0(n, how)
  BY DEF Start, j
<1> HIDE DEF n, d
<1>5. Typed(n)
  <2>1. n.current \in Case \cup {0} /\ n.stepping \in {0, 1} /\ n.byStep \in BOOLEAN
        /\ n.started \in Nat
    BY <1>1, <1>3 DEF Typed
  <2>2. Like(s, n, {"current", "stepping", "byStep", "started"})
    BY <1>3
  <2> QED BY <1>1, <2>1, <2>2 DEF Typed, Like, Fields
<1>6. /\ n.state = s.state /\ n.verdict = s.verdict /\ n.rep = s.rep /\ n.ctl = s.ctl
      /\ n.req = s.req /\ n.reply = s.reply /\ n.ex = s.ex /\ ~ n.going
      /\ (n.byStep => n.stepping = 1 /\ n.started = 0)
  BY <1>1, <1>3 DEF Like, Fields
<1>7. CASE s.state = "RESET"
  <2> DEFINE p == IF n.rep.exists THEN [n EXCEPT !.rep = NewReport(Tr)] ELSE n
             b == [p EXCEPT !.state = "SPAWN"]
             o == Spawn(b)
             k == Kill(o)
  <2>1. Stopped(s) /\ c = 0 /\ i = 0
    BY <1>7 DEF Settled, Opening, Waiting, Running, Busy, Stopped
  <2>2. d = CASE how = "ok" -> o [] how = "early" -> ResetGuts(b) [] how = "late" -> ResetGuts(k)
    BY <1>4, <1>6, <1>7 DEF Start0, Backup
  <2>3. /\ Like(n, p, {"rep"}) /\ Sound(Tr, p.rep) /\ ~ p.rep.open
    <3>1. CASE n.rep.exists
      <4>1. Sound(Tr, NewReport(Tr)) /\ ~ NewReport(Tr).open
        BY CasesOf, NewReportOf
      <4> QED BY <1>5, <3>1, <4>1 DEF Typed, Like, Fields
    <3>2. CASE ~ n.rep.exists
      BY <1>5, <1>6, <2>1, <3>2 DEF Typed, Like, Fields, Stopped
    <3> QED BY <3>1, <3>2
  <2> HIDE DEF p
  <2>4. /\ Like(n, b, {"rep", "state"}) /\ b.state = "SPAWN" /\ b.rep = p.rep
    BY <2>3 DEF Like, Fields
  <2> HIDE DEF b
  <2>5. Typed(b)
    <3>1. b.state \in State
      BY <2>4 DEF State, Execution
    <3> QED BY <1>5, <2>3, <2>4, <3>1 DEF Typed, Like, Fields
  <2>6. /\ ~ b.going /\ b.current = 0 /\ (b.byStep => b.stepping = 1 /\ b.started = 0)
        /\ b.verdict = s.verdict /\ ~ b.ctl /\ b.req = <<>> /\ b.reply = <<>> /\ b.ex = "none"
        /\ ~ b.rep.open
    BY <1>3, <1>6, <2>1, <2>3, <2>4 DEF Like, Fields, Stopped
  <2>7. Blank(b)
    BY <1>7, <2>1, <2>6 DEF Stopped, Blank
  <2>8. Settled(o) /\ Opening(o) /\ o.verdict = s.verdict
    BY <2>4, <2>5, <2>6, <2>7, SpawnOf
  <2> HIDE DEF o
  <2>9. /\ Like(o, k, {"child", "ctl", "req", "reply", "ex", "rep"}) /\ Typed(k)
        /\ k.ctl = FALSE /\ k.req = <<>> /\ k.reply = <<>> /\ k.ex = "none" /\ ~ k.rep.open
    BY <2>8, KillOf DEF Settled
  <2> HIDE DEF k
  <2>10. ~ k.going /\ (k.byStep => k.started <= 1)
    BY <2>8, <2>9 DEF Settled, Opening, Like, Fields
  <2>11. CASE how = "ok"
    BY <1>7, <2>2, <2>8, <2>11 DEF Opened, Opening, d
  <2>12. CASE how = "early"
    <3>1. d = ResetGuts(b)
      BY <2>2, <2>12
    <3>2. b.byStep => b.started <= 1
      BY <2>6
    <3>3. Settled(d) /\ Stopped(d) /\ d.state = "RESET"
      BY <2>5, <2>6, <3>1, <3>2, ResetGutsOf
    <3> QED BY <1>7, <3>3 DEF Opened, d
  <2>13. CASE how = "late"
    <3>1. d = ResetGuts(k)
      BY <2>2, <2>13
    <3>2. Settled(d) /\ Stopped(d) /\ d.state = "RESET"
      BY <2>9, <2>10, <3>1, ResetGutsOf
    <3> QED BY <1>7, <3>2 DEF Opened, d
  <2> QED BY <2>11, <2>12, <2>13
<1>8. CASE s.state = "WAIT"
  <2>1. Walking(s)
    BY <1>8 DEF Settled, Stopped, Opening, Waiting, Running, Busy
  <2>2. d = Go(n)
    BY <1>4, <1>6, <1>8 DEF Start0
  <2>3. n.current # 0
    BY <1>3, <2>1 DEF Walking
  <2>4. Walking(n)
    BY <1>6, <2>1, <2>3 DEF Walking, Records
  <2>5. \A x \in Case : Recorded(n, x)
    BY <1>1, <1>6, <1>8 DEF Agree, Busy, Recorded
  <2>6. Forth(n.verdict, d)
    BY <1>5, <1>6, <2>2, <2>4, <2>5, GoOf
  <2> QED BY <1>6, <1>8, <2>6 DEF d
<1> QED BY <1>7, <1>8

(* The execution goes on.                                                  *)
Held(s, d) ==
  Settled(d) /\ Running(d) /\ d.current = s.current /\ d.verdict = s.verdict

LEMMA HeldOf ==
  ASSUME NEW s, Settled(s), Running(s), NEW d, Typed(d), Busy(d),
         Like(s, d, {"state", "rep", "req", "reply", "alive", "ex", "exCase"}),
         Same(s.rep, d.rep, {"path"}), Serving(d)
  PROVE  Held(s, d)
<1>1. Agree(s) /\ ~ s.going /\ Running(s)
  BY DEF Settled
<1>2. /\ d.current = s.current /\ d.verdict = s.verdict /\ ~ d.going /\ d.ctl = s.ctl
      /\ d.byStep = s.byStep /\ d.stepping = s.stepping /\ d.started = s.started
  BY <1>1 DEF Like, Fields
<1>3. /\ d.rep.open = s.rep.open /\ d.rep.cur = s.rep.cur /\ d.rep.xml = s.rep.xml
      /\ d.rep.mem = s.rep.mem
  BY DEF Same, RFields
<1>4. Running(d)
  BY <1>1, <1>2, <1>3 DEF Running
<1>5. Agree(d)
  BY <1>1, <1>2, <1>3 DEF Agree, Recorded
<1> QED BY <1>2, <1>4, <1>5 DEF Held, Settled

LEMMA InputOf ==
  ASSUME NEW s, Settled(s), s.state \in {"WAIT", "INPUT"}, NEW c \in Case \cup {0},
         s.state = "INPUT" => c = 0, NEW v \in Given
  PROVE  IF s.state = "INPUT" THEN Held(s, Input(Jump(s, c), v))
         ELSE \E i \in Case : Forth([s.verdict EXCEPT ![i] = v], Input(Jump(s, c), v))
<1> DEFINE d == Input(Jump(s, c), v)
<1>1. Typed(s) /\ Agree(s) /\ ~ s.going
  BY DEF Settled
<1>2. CASE s.state = "INPUT"
  <2> DEFINE m == [kind |-> "input", case |-> 0]
             r == WriteStdio(s.rep)
             b == [s EXCEPT !.state = "RUN", !.rep = r]
  <2>1. Running(s)
    BY <1>2 DEF Settled, Stopped, Opening, Waiting
  <2>2. d = Write(b, m)
    <3>1. [[s EXCEPT !.state = "RUN"] EXCEPT !.rep = WriteStdio(@)] = b
      BY <1>1 DEF Typed, Fields
    <3> QED BY <1>2, <3>1 DEF Input, Jump, RequestInput
  <2>3. Sound(Tr, r) /\ Same(s.rep, r, {"path"})
    BY <1>1, CasesOf, WriteStdioOf DEF Typed
  <2> HIDE DEF r
  <2>4. Like(s, b, {"state", "rep"}) /\ b.state = "RUN" /\ b.rep = r
    BY <1>1 DEF Typed, Like, Fields
  <2> HIDE DEF b, d
  <2>5. Typed(b) /\ b.ctl
    <3>1. b.state \in State
      BY <2>4 DEF State, Execution
    <3>2. Typed(b)
      BY <1>1, <2>3, <2>4, <3>1 DEF Typed, Like, Fields
    <3> QED BY <2>1, <2>4, <3>2 DEF Running, Like, Fields
  <2>6. m \in Message
    BY DEF Message
  <2>7. /\ Like(b, d, {"req", "alive"}) /\ Typed(d)
        /\ (d.req = Append(b.req, m) \/ (d.req = b.req /\ b.ex \in Ended))
    BY <2>2, <2>5, <2>6, WriteOf
  <2>8. /\ Like(s, d, {"state", "rep", "req", "alive"}) /\ d.state = "RUN" /\ d.rep = r
        /\ b.req = s.req /\ b.ex = s.ex /\ d.ex = s.ex /\ d.reply = s.reply
        /\ d.exCase = s.exCase /\ d.current = s.current
    BY <2>4, <2>7 DEF Like, Fields
  <2>9. Serving(d)
    <3>1. s.reply = <<>> /\ s.req = <<>> /\ (s.ex \in {"dead", "reaped"} \/ AtInput(s))
      BY <1>2, <2>1 DEF Running, Serving, AtQueue, AtScript
    <3>2. Len(d.reply) = 0 /\ DOMAIN d.reply = {}
      BY <2>8, <3>1, EmptyOf
    <3>3. CASE d.req = Append(b.req, m)
      <4>1. d.req = <<m>>
        <5>1. b.req = <<>>
          BY <2>8, <3>1
        <5> HIDE DEF m
        <5>2. Append(<<>>, m) = <<m>>
          OBVIOUS
        <5> QED BY <3>3, <5>1, <5>2
      <4>2. Len(d.req) = 1 /\ d.req[1] = m /\ DOMAIN d.req = {1}
        BY <4>1
      <4>3. d.ex \in {"dead", "reaped"} \/ AtInput(d)
        BY <2>8, <3>1, <4>2 DEF AtInput
      <4> QED BY <2>8, <3>1, <3>2, <4>2, <4>3 DEF Serving
    <3>4. CASE d.req = b.req /\ b.ex \in Ended
      <4>1. d.req = <<>> /\ DOMAIN d.req = {}
        BY <2>8, <3>1, <3>4, EmptyOf
      <4>2. d.ex \in {"dead", "reaped"}
        BY <2>8, <3>1, <3>4 DEF AtInput, Ended
      <4> QED BY <2>8, <3>1, <3>2, <4>1, <4>2 DEF Serving
    <3> QED BY <2>7, <3>3, <3>4
  <2>10. Like(s, d, {"state", "rep", "req", "reply", "alive", "ex", "exCase"})
    BY <2>8 DEF Like
  <2>11. Held(s, d)
    BY <2>1, <2>3, <2>7, <2>8, <2>9, <2>10, HeldOf DEF Busy
  <2> QED BY <1>2, <2>11 DEF d
<1>3. CASE s.state = "WAIT"
  <2> DEFINE i == IF c = 0 THEN s.current ELSE c
             j == Jump(s, c)
             w == [j EXCEPT !.stepping = 1]
             q == Request(w, i, v)
  <2>1. Walking(s)
    BY <1>3 DEF Settled, Stopped, Opening, Waiting, Running, Busy
  <2>2. Like(s, j, {"current"}) /\ j.current = i
    BY <1>1 DEF Jump, Typed, Like, Fields
  <2> HIDE DEF j
  <2>3. Like(s, w, {"current", "stepping"}) /\ w.current = i /\ w.stepping = 1
    BY <2>2 DEF Like, Fields
  <2> HIDE DEF w
  <2>4. i \in Case /\ i # 0
    BY <1>1, <2>1, CasesOf DEF Typed, Walking
  <2> HIDE DEF i
  <2>5. Typed(w)
    <3>1. w.current \in Case \cup {0} /\ w.stepping \in {0, 1}
      BY <2>3, <2>4
    <3> QED BY <1>1, <2>3, <3>1 DEF Typed, Like, Fields
  <2>6. Walking(w)
    BY <2>1, <2>3, <2>4 DEF Walking, Records, Like, Fields
  <2>7. w.verdict = s.verdict /\ w.rep = s.rep /\ j.state = "WAIT"
    BY <1>3, <2>2, <2>3 DEF Like, Fields
  <2>8. \A x \in Case : Recorded(w, x)
    BY <1>1, <1>3, <2>7 DEF Agree, Busy, Recorded
  <2>9. w.byStep => w.stepping = 1
    BY <2>3
  <2>10. Judging(q, v) /\ q.verdict = s.verdict /\ q.current = i
    <3>1. Judging(Request(w, w.current, v), v)
          /\ Request(w, w.current, v).verdict = w.verdict
          /\ Request(w, w.current, v).current = w.current
      BY <2>5, <2>6, <2>8, <2>9, RecordOf
    <3> QED BY <2>3, <2>7, <3>1
  <2>11. d = Finish(Continue(q, v))
    BY <2>3, <2>4, <2>7 DEF Input, Simulate, j, w
  <2> HIDE DEF q
  <2>12. Forth([q.verdict EXCEPT ![q.current] = v], d)
    BY <2>10, <2>11, JudgeOf
  <2> QED BY <1>3, <2>4, <2>10, <2>12
<1> QED BY <1>2, <1>3

LEMMA ReplyOf ==
  ASSUME NEW s, Settled(s), s.ctl, s.reply # <<>>
  PROVE  LET d == Reply([s EXCEPT !.reply = <<>>], Head(s.reply).v)
         IN  \/ s.state = "SPAWN" /\ Forth(s.verdict, d)
             \/ Running(s) /\ Held(s, d)
             \/ /\ Running(s)
                /\ \E v \in Given : Forth([s.verdict EXCEPT ![s.current] = v], d)
<1> DEFINE a == [s EXCEPT !.reply = <<>>]
           x == Head(s.reply).v
           d == Reply(a, x)
<1>1. Typed(s) /\ Agree(s) /\ ~ s.going
  BY DEF Settled
<1>2. x = s.reply[1].v /\ 1 \in DOMAIN s.reply
  BY <1>1, TailOf DEF Typed
<1>3. Like(s, a, {"reply"}) /\ a.reply = <<>>
  BY <1>1 DEF Typed, Like, Fields
<1> HIDE DEF a, x
<1>4. Typed(a)
  <2>1. a.reply \in Seq(Answer)
    BY <1>3, EmptyOf
  <2> QED BY ZenonT(60), <1>1, <1>3, <2>1 DEF Typed, Like, Fields
<1>5. /\ a.state = s.state /\ a.verdict = s.verdict /\ a.rep = s.rep /\ a.ctl = s.ctl
      /\ a.req = s.req /\ a.ex = s.ex /\ a.exCase = s.exCase /\ a.current = s.current
      /\ a.byStep = s.byStep /\ a.stepping = s.stepping /\ a.started = s.started
      /\ a.going = s.going
  BY <1>3 DEF Like, Fields
<1>6. CASE Opening(s)
  <2> DEFINE c == FirstCase(Tr, 1)
             o == [a EXCEPT !.current = IF @ = 0 THEN FirstCase(Tr, 1) ELSE @]
  <2>1. x \in {-2, -3} /\ a.current = 0
    BY <1>2, <1>5, <1>6 DEF Opening
  <2>2. c \in Case /\ c # 0
    <3>1. c \in Case
      BY CasesOf, NodesOf, FirstCaseOf DEF Case
    <3> QED BY <3>1, CasesOf
  <2> HIDE DEF c
  <2>3. Like(a, o, {"current"}) /\ o.current = c
    BY <1>4, <2>1 DEF Typed, Like, Fields, c
  <2>4. d = IF x = -2 THEN Go(o) ELSE Finish(NextMove(o))
    BY <2>1 DEF Reply
  <2> HIDE DEF o, d
  <2>5. Typed(o)
    BY <1>4, <2>2, <2>3 DEF Typed, Like, Fields
  <2>6. /\ o.verdict = s.verdict /\ o.rep = s.rep /\ o.ctl /\ o.rep.open /\ o.req = <<>>
        /\ o.reply = <<>> /\ o.ex = s.ex /\ ~ o.going
        /\ (o.byStep => o.stepping = 1 /\ o.started = 0)
    BY <1>1, <1>3, <1>5, <1>6, <2>3 DEF Like, Fields, Opening
  <2>7. o.ex \in {"idle", "dead", "reaped"}
    BY <1>1, <1>6, <2>6 DEF Opening, Typed, Ended
  <2>8. Walking(o)
    <3>1. Records(o)
      BY <2>6, EmptyOf DEF Records
    <3>2. o.byStep => o.started <= 1
      BY <2>6
    <3> QED BY <2>2, <2>3, <2>6, <2>7, <3>1, <3>2 DEF Walking
  <2>9. \A i \in Case : Recorded(o, i)
    BY <1>6, <2>6 DEF Opening, Blank, Recorded
  <2>10. CASE x = -2
    <3>1. Forth(o.verdict, d)
      BY <2>4, <2>5, <2>6, <2>8, <2>9, <2>10, GoOf
    <3> QED BY <1>6, <2>6, <3>1 DEF Opening, d, a, x
  <2>11. CASE x = -3
    <3> DEFINE n == NextMove(o)
    <3>1. IF n.going THEN Walk(n) ELSE Landed(n)
      <4>1. CASE o.stepping # 0
        <5>1. n = [o EXCEPT !.stepping = 0, !.state = "WAIT", !.going = FALSE]
          BY <4>1 DEF NextMove
        <5> HIDE DEF n
        <5>2. /\ Like(o, n, {"stepping", "state", "going"}) /\ n.stepping = 0
              /\ n.state = "WAIT" /\ n.going = FALSE
          BY <2>5, <5>1 DEF Typed, Like, Fields
        <5>3. Typed(n)
          <6>1. n.state \in State /\ n.stepping \in {0, 1} /\ n.going \in BOOLEAN
            BY <5>2 DEF State
          <6> QED BY <2>5, <5>2, <6>1 DEF Typed, Like, Fields
        <5>4. Waiting(n)
          BY <2>8, <5>2 DEF Waiting, Walking, Records, Like, Fields
        <5>5. Agree(n)
          BY <2>9, <5>2 DEF Agree, Recorded, Like, Fields
        <5> QED BY <5>2, <5>3, <5>4, <5>5 DEF Landed, Settled
      <4>2. CASE o.stepping = 0
        <5>1. n = [o EXCEPT !.going = TRUE]
          BY <4>2 DEF NextMove
        <5> HIDE DEF n
        <5>2. Like(o, n, {"going"}) /\ n.going = TRUE
          BY <2>5, <5>1 DEF Typed, Like, Fields
        <5>3. Typed(n)
          BY ZenonT(60), <2>5, <5>2 DEF Typed, Like, Fields
        <5>4. Walking(n)
          BY <2>8, <5>2 DEF Walking, Records, Like, Fields
        <5>5. \A i \in Case : Recorded(n, i)
          BY <2>9, <5>2 DEF Recorded, Like, Fields
        <5>6. n.byStep => n.stepping = 1 /\ n.started = 0
          BY <2>6, <5>2 DEF Like, Fields
        <5> QED BY <5>2, <5>3, <5>4, <5>5, <5>6 DEF Walk
      <4> QED BY <4>1, <4>2
    <3>2. n.verdict = o.verdict
      BY <2>5 DEF NextMove, Typed, Fields
    <3>3. d = Finish(n)
      BY <2>4, <2>11
    <3> HIDE DEF n
    <3>4. Forth(s.verdict, d)
      BY <2>6, <3>1, <3>2, <3>3, ForthOf
    <3> QED BY <1>6, <3>4 DEF Opening, d, a, x
  <2> QED BY <2>1, <2>10, <2>11
<1>7. CASE Running(s)
  <2>1. s.req = <<>> /\ s.state = "RUN" /\ a.reply = <<>>
    BY <1>3, <1>7 DEF Running, Serving
  <2>2. CASE x = 99
    <3> DEFINE r == WriteStdio(a.rep)
    <3>1. d = [a EXCEPT !.state = "INPUT", !.rep = r]
      <4>1. d = InputRequest(a)
        BY <2>2 DEF Reply
      <4>2. a.state = "RUN" /\ a.current # 0
        BY <1>5, <1>7, <2>1 DEF Running
      <4> QED BY <4>1, <4>2 DEF InputRequest
    <3>2. Sound(Tr, r) /\ Same(s.rep, r, {"path"})
      BY <1>1, <1>5, CasesOf, WriteStdioOf DEF Typed
    <3> HIDE DEF r, d
    <3>3. Like(a, d, {"state", "rep"}) /\ d.state = "INPUT" /\ d.rep = r
      BY <1>4, <3>1 DEF Typed, Like, Fields
    <3>4. Typed(d)
      <4>1. d.state \in State
        BY <3>3 DEF State, Execution
      <4> QED BY <1>4, <3>2, <3>3, <4>1 DEF Typed, Like, Fields
    <3>5. Like(s, d, {"state", "rep", "req", "reply", "alive", "ex", "exCase"})
      BY <1>3, <3>3 DEF Like, Fields
    <3>6. /\ d.req = <<>> /\ d.reply = <<>> /\ d.ex = s.ex /\ d.exCase = s.exCase
          /\ d.current = s.current
      BY <1>5, <2>1, <3>3 DEF Like, Fields
    <3>7. 99 \notin Given
      BY DEF Given, Verdict, UNEXECUTED, EXECUTED
    <3>8. d.ex \in {"dead", "reaped"} \/ AtInput(d)
      <4>1. s.ex \in {"dead", "reaped"} \/ AtInput(s)
        BY <1>2, <1>7, <2>2, <3>7 DEF Running, Serving, AtQueue, AtScript
      <4> QED BY <3>3, <3>6, <4>1 DEF AtInput
    <3>9. Serving(d)
      BY <3>3, <3>6, <3>8, EmptyOf DEF Serving
    <3>10. Held(s, d)
      BY <1>7, <3>2, <3>3, <3>4, <3>5, <3>9, HeldOf DEF Busy
    <3> QED BY <1>7, <3>10 DEF d, a, x
  <2>3. CASE x # 99
    <3> DEFINE r == WriteVerdict(s.rep, x)
               b == [a EXCEPT !.rep = r]
    <3>1. x \in Given /\ x \in Verdict /\ x >= 0
      BY <1>2, <1>7, <2>3 DEF Running, Serving, Given, Verdict, UNEXECUTED, EXECUTED
    <3>2. d = Finish(Continue(b, x))
      BY <1>5, <2>3, <3>1 DEF Reply
    <3>3. /\ s.rep.case = s.current /\ s.rep.case # 0 /\ s.rep.xml[s.rep.case] = <<>>
          /\ Sound(Tr, s.rep) /\ IsTree(Tr) /\ s.rep.open /\ s.current \in Case
      BY <1>1, <1>7, CasesOf DEF Running, Typed, Sound, Nested
    <3>4. /\ Sound(Tr, r) /\ Same(s.rep, r, {"path", "xml", "mem"})
          /\ r.mem = [s.rep.mem EXCEPT ![s.rep.case] = x]
      BY <3>1, <3>3, WriteVerdictOf
    <3>5. r.open
      BY <3>3, <3>4 DEF Same, RFields
    <3> HIDE DEF r, d
    <3>6. Like(a, b, {"rep"}) /\ b.rep = r
      BY <1>4 DEF Typed, Like, Fields
    <3> HIDE DEF b
    <3>7. Typed(b)
      BY <1>4, <3>4, <3>6 DEF Typed, Like, Fields
    <3>8. /\ b.current = s.current /\ b.verdict = s.verdict /\ b.ctl /\ b.rep.open
          /\ b.reply = <<>> /\ b.req = <<>> /\ b.ex = s.ex /\ b.current # 0
          /\ (b.byStep => b.started <= 1) /\ (b.byStep => b.stepping = 1)
      <4>1. /\ b.current = a.current /\ b.verdict = a.verdict /\ b.ctl = a.ctl
            /\ b.reply = a.reply /\ b.req = a.req /\ b.ex = a.ex /\ b.byStep = a.byStep
            /\ b.started = a.started /\ b.stepping = a.stepping /\ b.rep = r
        BY <3>6 DEF Like, Fields
      <4> QED BY <1>5, <1>7, <2>1, <3>5, <4>1 DEF Running
    <3>9. b.ex \in {"idle", "dead", "reaped"}
      <4>1. ~ AtScript(s) /\ ~ AtInput(s)
        BY <1>2, <2>3 DEF AtScript, AtInput
      <4> QED BY <1>7, <3>8, <4>1 DEF Running, Serving, AtQueue
    <3>10. Walking(b)
      <4>1. Records(b)
        BY <3>8, EmptyOf DEF Records
      <4> QED BY <3>8, <3>9, <4>1 DEF Walking
    <3>11. s.rep.mem \in [Case -> Verdict \cup {ABSENT}]
      BY <1>1 DEF Typed, Sound, Written, Case
    <3>12. /\ b.rep.mem[b.current] = x
           /\ \A i \in Case \ {b.current} : b.rep.mem[i] = s.rep.mem[i]
      BY <3>3, <3>4, <3>6, <3>8, <3>11
    <3>13. \A i \in Case \ {b.current} : Recorded(b, i)
      BY <1>1, <3>8, <3>12 DEF Agree, Recorded
    <3>14. Judging(b, x)
      BY <3>7, <3>8, <3>10, <3>12, <3>13 DEF Judging
    <3>15. Forth([b.verdict EXCEPT ![b.current] = x], d)
      BY <3>1, <3>2, <3>14, JudgeOf
    <3>16. Forth([s.verdict EXCEPT ![s.current] = x], d)
      BY <3>8, <3>15
    <3> QED BY <1>7, <3>1, <3>16 DEF d, a, x
  <2> QED BY <2>2, <2>3
<1> QED BY <1>6, <1>7 DEF Settled, Stopped, Waiting, Walking
-----------------------------------------------------------------------------
(* The steps.                                                              *)

(* What a step may do to the run: nothing, a start, a walk over the tree   *)
(* with or without a verdict that is given first, an abort, or a reset.    *)
Kept(s, d) ==
  /\ Settled(d) /\ d.verdict = s.verdict
  /\ IF Busy(s) THEN Busy(d) /\ d.current = s.current ELSE d.state = s.state
Follows(s, d) ==
  \/ Kept(s, d)
  \/ s.state = "RESET" /\ Opened(s, d)
  \/ s.state \in {"SPAWN", "WAIT"} /\ Forth(s.verdict, d)
  \/ s.state = "WAIT" /\ \E i \in Case, v \in Given : Forth([s.verdict EXCEPT ![i] = v], d)
  \/ Busy(s) /\ \E v \in Given : Forth([s.verdict EXCEPT ![s.current] = v], d)
  \/ Aborted(s, d)
  \/ Settled(d) /\ Stopped(d) /\ d.state = "RESET"

(* The engine may have ended when a handler begins.                        *)
LEMMA EngineOf ==
  ASSUME NEW s, Settled(s), NEW e \in {s, EngineEnd(s)}
  PROVE  LET a == [e EXCEPT !.going = FALSE]
         IN  Settled(a) /\ Like(s, a, {"eng"})
<1> DEFINE a == [e EXCEPT !.going = FALSE]
<1>1. Typed(s) /\ Agree(s) /\ s.going = FALSE
  BY DEF Settled, Typed
<1>2. /\ Like(s, e, {"eng"}) /\ e.eng \in {"none", "up", "gone"}
  <2>1. CASE e = s
    BY <1>1, <2>1 DEF Typed, Like
  <2>2. CASE e = [s EXCEPT !.eng = "gone"]
    BY <1>1, <2>2 DEF Typed, Like, Fields
  <2> QED BY <2>1, <2>2 DEF EngineEnd
<1>3. Like(s, a, {"eng"}) /\ a.eng \in {"none", "up", "gone"}
  BY <1>1, <1>2 DEF Like, Fields
<1> HIDE DEF a
<1>4. Typed(a)
  BY <1>1, <1>3 DEF Typed, Like, Fields
<1>5. Settled(a)
  <2>1. \A f \in Fields \ {"eng"} : a[f] = s[f]
    BY <1>3 DEF Like
  <2>2. /\ a.state = s.state /\ a.stepping = s.stepping /\ a.current = s.current
        /\ a.verdict = s.verdict /\ a.ctl = s.ctl /\ a.rep = s.rep /\ a.req = s.req
        /\ a.reply = s.reply /\ a.ex = s.ex /\ a.exCase = s.exCase /\ a.going = s.going
        /\ a.byStep = s.byStep /\ a.started = s.started
    BY <2>1 DEF Fields
  <2>3. Agree(a) /\ ~ a.going
    BY <1>1, <2>2 DEF Agree, Recorded, Busy
  <2>4. Stopped(a) <=> Stopped(s)
    BY <2>2 DEF Stopped, Blank
  <2>5. Opening(a) <=> Opening(s)
    BY <2>2 DEF Opening, Blank
  <2>6. Waiting(a) <=> Waiting(s)
    BY <2>2 DEF Waiting, Walking, Records
  <2>7. Running(a) <=> Running(s)
    BY <2>2 DEF Running, Serving, AtQueue, AtScript, AtInput, Busy
  <2> QED BY <1>4, <2>3, <2>4, <2>5, <2>6, <2>7 DEF Settled
<1> QED BY <1>3, <1>5 DEF a

LEMMA FollowsOf ==
  ASSUME NEW s, NEW a, Like(s, a, {"eng"}), NEW d, Follows(a, d)
  PROVE  Follows(s, d)
<1>1. a.state = s.state /\ a.verdict = s.verdict /\ a.current = s.current
  BY DEF Like, Fields
<1>2. /\ Kept(a, d) <=> Kept(s, d)
      /\ Opened(a, d) <=> Opened(s, d)
      /\ Aborted(a, d) <=> Aborted(s, d)
      /\ Busy(a) <=> Busy(s)
  BY <1>1 DEF Kept, Opened, Aborted, Busy
<1> QED BY <1>1, <1>2 DEF Follows

(* Only writing the output of a script.                                    *)
LEMMA StdioOf ==
  ASSUME NEW s, Settled(s)
  PROVE  LET d == [s EXCEPT !.rep = WriteStdio(@)]
         IN  Kept(s, d) /\ Abortable(d) /\ Like(s, d, {"rep"})
<1> DEFINE r == WriteStdio(s.rep)
           d == [s EXCEPT !.rep = r]
<1>1. Typed(s) /\ Agree(s) /\ ~ s.going
  BY DEF Settled
<1>2. Sound(Tr, r) /\ Same(s.rep, r, {"path"})
  BY <1>1, CasesOf, WriteStdioOf DEF Typed
<1> HIDE DEF r
<1>3. Like(s, d, {"rep"}) /\ d.rep = r
  BY <1>1 DEF Typed, Like, Fields
<1> HIDE DEF d
<1>4. Typed(d)
  BY <1>1, <1>2, <1>3 DEF Typed, Like, Fields
<1>5. /\ d.state = s.state /\ d.stepping = s.stepping /\ d.current = s.current
      /\ d.verdict = s.verdict /\ d.ctl = s.ctl /\ d.req = s.req
      /\ d.reply = s.reply /\ d.ex = s.ex /\ d.exCase = s.exCase /\ d.going = s.going
      /\ d.byStep = s.byStep /\ d.started = s.started
  BY <1>3 DEF Like, Fields
<1>6. /\ d.rep.open = s.rep.open /\ d.rep.cur = s.rep.cur /\ d.rep.xml = s.rep.xml
      /\ d.rep.mem = s.rep.mem
  BY <1>2, <1>3 DEF Same, RFields
<1>7. Settled(d)
  <2>3. Agree(d) /\ ~ d.going
    BY <1>1, <1>5, <1>6 DEF Agree, Recorded, Busy
  <2>4. Stopped(d) <=> Stopped(s)
    BY <1>5, <1>6 DEF Stopped, Blank
  <2>5. Opening(d) <=> Opening(s)
    BY <1>5, <1>6 DEF Opening, Blank
  <2>6. Waiting(d) <=> Waiting(s)
    BY <1>5, <1>6 DEF Waiting, Walking, Records
  <2>7. Running(d) <=> Running(s)
    BY <1>5, <1>6 DEF Running, Serving, AtQueue, AtScript, AtInput, Busy
  <2> QED BY <1>4, <2>3, <2>4, <2>5, <2>6, <2>7 DEF Settled
<1>8. Kept(s, d) /\ Abortable(d)
  BY <1>5, <1>7, AbortableOf DEF Kept, Busy
<1> QED BY <1>3, <1>8 DEF d, r

(* A command of the operator.                                              *)
LEMMA OperatorOf ==
  ASSUME IInv, Operator
  PROVE  Follows(st, st')
<1> USE DEF IInv
<1>1. CASE GuiReset
  <2> DEFINE F(s) == ResetGuts(Kill(s))
  <2>1. PICK e \in {st, EngineEnd(st)} : st' = F([e EXCEPT !.going = FALSE])
    BY <1>1 DEF GuiReset, Command, Handle
  <2> DEFINE a == [e EXCEPT !.going = FALSE]
             k == Kill(a)
  <2>2. Settled(a) /\ Like(st, a, {"eng"})
    BY EngineOf
  <2>3. st' = ResetGuts(k)
    BY <2>1
  <2> HIDE DEF a
  <2>4. Typed(a) /\ Abortable(a)
    BY <2>2, AbortableOf DEF Settled
  <2>5. /\ Like(a, k, {"child", "ctl", "req", "reply", "ex", "rep"}) /\ Typed(k)
        /\ ~ k.ctl /\ ~ k.rep.open /\ k.req = <<>> /\ k.reply = <<>> /\ k.ex = "none"
    BY <2>4, KillOf
  <2> HIDE DEF k
  <2>6. ~ k.going /\ (k.byStep => k.started <= 1)
    BY <2>4, <2>5 DEF Abortable, Like, Fields
  <2>7. Settled(st') /\ Stopped(st') /\ st'.state = "RESET"
    BY <2>3, <2>5, <2>6, ResetGutsOf
  <2> QED BY <2>7 DEF Follows
<1>2. CASE GuiAbort
  <2> DEFINE G(s) == IF s.state = "SPAWN" THEN s ELSE [s EXCEPT !.rep = WriteStdio(@)]
             F(s) == AbortGuts(G(s))
  <2>1. PICK e \in {st, EngineEnd(st)} : st' = F([e EXCEPT !.going = FALSE])
    BY <1>2 DEF GuiAbort, Command, Handle
  <2> DEFINE a == [e EXCEPT !.going = FALSE]
             w == G(a)
  <2>2. Settled(a) /\ Like(st, a, {"eng"})
    BY EngineOf
  <2>3. st' = AbortGuts(w)
    BY <2>1
  <2> HIDE DEF a
  <2>4. Abortable(w) /\ w.verdict = a.verdict /\ w.state = a.state /\ w.current = a.current
    <3>1. CASE a.state = "SPAWN"
      BY <2>2, <3>1, AbortableOf
    <3>2. CASE a.state # "SPAWN"
      <4>1. w = [a EXCEPT !.rep = WriteStdio(@)]
        BY <3>2
      <4> HIDE DEF w
      <4>2. Abortable(w) /\ Like(a, w, {"rep"})
        BY <2>2, <4>1, StdioOf
      <4> QED BY <4>2 DEF Like, Fields
    <3> QED BY <3>1, <3>2
  <2> HIDE DEF w
  <2>5. Aborted(w, st')
    BY <2>3, <2>4, AbortGutsOf
  <2>6. Aborted(a, st')
    BY <2>4, <2>5 DEF Aborted, Busy
  <2>7. Follows(a, st')
    BY <2>6 DEF Follows
  <2> QED BY <2>2, <2>7, FollowsOf
<1>3. ASSUME NEW step \in {0, 1}, NEW c \in Case \cup {0}, NEW how \in {"ok", "early", "late"},
             GuiStart(step, c, how)
      PROVE  Follows(st, st')
  <2> DEFINE F(s) == Start(s, step, c, how)
  <2>1. PICK e \in {st, EngineEnd(st)} : st' = F([e EXCEPT !.going = FALSE])
    BY <1>3 DEF GuiStart, Command, Handle
  <2> DEFINE a == [e EXCEPT !.going = FALSE]
  <2>2. Settled(a) /\ Like(st, a, {"eng"})
    BY EngineOf
  <2>3. st' = Start(a, step, c, how)
    BY <2>1
  <2> HIDE DEF a
  <2>4. a.state \in {"RESET", "WAIT"} /\ (a.state = "RESET" => c = 0)
    BY <1>3, <2>2 DEF GuiStart, Like, Fields
  <2>5. IF a.state = "RESET" THEN Opened(a, st') ELSE Forth(a.verdict, st')
    BY <2>2, <2>3, <2>4, StartOf
  <2>6. Follows(a, st')
    BY <2>4, <2>5 DEF Follows
  <2> QED BY <2>2, <2>6, FollowsOf
<1>4. ASSUME NEW v \in Results, NEW c \in Case \cup {0}, GuiInput(v, c)
      PROVE  Follows(st, st')
  <2> DEFINE F(s) == Input(Jump(s, c), v)
  <2>1. PICK e \in {st, EngineEnd(st)} : st' = F([e EXCEPT !.going = FALSE])
    BY <1>4 DEF GuiInput, Command, Handle
  <2> DEFINE a == [e EXCEPT !.going = FALSE]
  <2>2. Settled(a) /\ Like(st, a, {"eng"})
    BY EngineOf
  <2>3. st' = Input(Jump(a, c), v)
    BY <2>1
  <2> HIDE DEF a
  <2>4. a.state \in {"WAIT", "INPUT"} /\ (a.state = "INPUT" => c = 0)
    BY <1>4, <2>2 DEF GuiInput, Like, Fields
  <2>5. v \in Given
    BY RunAssumption DEF Given
  <2>6. ASSUME a.state = "INPUT" PROVE Follows(a, st')
    <3>1. Held(a, st')
      BY <2>2, <2>3, <2>4, <2>5, <2>6, InputOf
    <3> QED BY <2>6, <3>1 DEF Follows, Kept, Held, Running, Busy
  <2>7. ASSUME a.state = "WAIT" PROVE Follows(a, st')
    <3>1. \E i \in Case : Forth([a.verdict EXCEPT ![i] = v], st')
      BY <2>2, <2>3, <2>4, <2>5, <2>7, InputOf
    <3> QED BY <2>5, <2>7, <3>1 DEF Follows
  <2>8. Follows(a, st')
    BY <2>4, <2>6, <2>7
  <2> QED BY <2>2, <2>8, FollowsOf
<1>5. ASSUME NEW c \in Marked, GuiBreakpoint(c) \/ GuiSkip(c)
      PROVE  Follows(st, st')
  <2>1. Typed(st) /\ Agree(st) /\ ~ st.going /\ c \in Case
    BY RunAssumption DEF Settled, Case
  <2>2. Like(st, st', {"brk", "skip"}) /\ st'.brk \in [Case -> 0 .. 2] /\ st'.skip \subseteq Case
    BY <1>5, <2>1 DEF GuiBreakpoint, GuiSkip, Typed, Like, Fields
  <2>3. Typed(st')
    BY <2>1, <2>2 DEF Typed, Like, Fields
  <2>4. /\ st'.state = st.state /\ st'.stepping = st.stepping /\ st'.current = st.current
        /\ st'.verdict = st.verdict /\ st'.ctl = st.ctl /\ st'.req = st.req
        /\ st'.reply = st.reply /\ st'.ex = st.ex /\ st'.exCase = st.exCase
        /\ st'.going = st.going /\ st'.byStep = st.byStep /\ st'.started = st.started
        /\ st'.rep = st.rep
    BY <2>2 DEF Like, Fields
  <2>5. Agree(st') /\ ~ st'.going
    BY <2>1, <2>4 DEF Agree, Recorded, Busy
  <2>6. /\ Stopped(st') <=> Stopped(st)
        /\ Opening(st') <=> Opening(st)
        /\ Waiting(st') <=> Waiting(st)
    BY <2>4 DEF Stopped, Opening, Waiting, Walking, Records, Blank
  <2>7. Running(st') <=> Running(st)
    BY <2>4 DEF Running, Serving, AtQueue, AtScript, AtInput, Busy
  <2>8. Settled(st')
    BY <2>3, <2>5, <2>6, <2>7 DEF Settled
  <2> QED BY <2>4, <2>8 DEF Follows, Kept, Busy
<1> QED BY <1>1, <1>2, <1>3, <1>4, <1>5 DEF Operator

(* A step of the executor, of the kernel or of the engine moves no case.   *)
LEMMA ProcessOf ==
  ASSUME NEW s, Settled(s), NEW d,
         Like(s, d, {"child", "req", "reply", "ex", "exCase", "eng", "term"}),
         d.child \in BOOLEAN, d.req \in Seq(Message), d.reply \in Seq(Answer),
         d.ex \in Ended \cup {"start", "init", "idle", "run", "input"},
         d.exCase \in Case \cup {0}, d.eng \in {"none", "up", "gone"}, d.term \in BOOLEAN,
         Stopped(s) => Stopped(d), Opening(s) => Opening(d), Waiting(s) => Waiting(d),
         Running(s) => Serving(d)
  PROVE  Follows(s, d)
<1>1. Typed(s) /\ Agree(s) /\ ~ s.going
  BY DEF Settled
<1>2. Typed(d)
  BY <1>1 DEF Typed, Like, Fields
<1>3. /\ d.state = s.state /\ d.stepping = s.stepping /\ d.current = s.current
      /\ d.verdict = s.verdict /\ d.ctl = s.ctl /\ d.going = s.going
      /\ d.byStep = s.byStep /\ d.started = s.started /\ d.rep = s.rep
  BY DEF Like, Fields
<1>4. Agree(d) /\ ~ d.going
  BY <1>1, <1>3 DEF Agree, Recorded, Busy
<1>5. Running(s) => Running(d)
  BY <1>3 DEF Running, Busy
<1>6. Settled(d)
  BY <1>2, <1>4, <1>5 DEF Settled
<1> QED BY <1>3, <1>6 DEF Follows, Kept, Busy

(* A reply that is read, the end of the executor, and its signals.         *)
LEMMA RunnerOf ==
  ASSUME IInv, Runner \/ SigchldMissed
  PROVE  Follows(st, st')
<1> USE DEF IInv
<1>1. CASE ReplyRead
  <2> DEFINE F(s) == Reply([s EXCEPT !.reply = <<>>], Head(s.reply).v)
  <2>1. PICK e \in {st, EngineEnd(st)} : st' = F([e EXCEPT !.going = FALSE])
    BY <1>1 DEF ReplyRead, Handle
  <2> DEFINE a == [e EXCEPT !.going = FALSE]
  <2>2. Settled(a) /\ Like(st, a, {"eng"})
    BY EngineOf
  <2>3. st' = Reply([a EXCEPT !.reply = <<>>], Head(a.reply).v)
    BY <2>1
  <2> HIDE DEF a
  <2>4. a.ctl /\ a.reply # <<>>
    BY <1>1, <2>2 DEF ReplyRead, ReplyReady, Like, Fields
  <2>5. \/ a.state = "SPAWN" /\ Forth(a.verdict, st')
        \/ Running(a) /\ Held(a, st')
        \/ Running(a) /\ \E v \in Given : Forth([a.verdict EXCEPT ![a.current] = v], st')
    BY <2>2, <2>3, <2>4, ReplyOf
  <2>6. Follows(a, st')
    BY <2>5 DEF Follows, Kept, Held, Running
  <2> QED BY <2>2, <2>6, FollowsOf
<1>2. CASE ReplyEof
  <2> DEFINE F(s) == Reply(s, -1)
  <2>1. PICK e \in {st, EngineEnd(st)} : st' = F([e EXCEPT !.going = FALSE])
    BY <1>2 DEF ReplyEof, Handle
  <2> DEFINE a == [e EXCEPT !.going = FALSE]
  <2>2. Settled(a) /\ Like(st, a, {"eng"})
    BY EngineOf
  <2>3. st' = AbortGuts(a)
    BY <2>1 DEF Reply
  <2> HIDE DEF a
  <2>4. Aborted(a, st')
    BY <2>2, <2>3, AbortableOf, AbortGutsOf
  <2> QED BY <2>2, <2>4, FollowsOf DEF Follows
<1>3. CASE Terminated
  <2> DEFINE B(s) == [s EXCEPT !.term = FALSE, !.rep = WriteStdio(@)]
             F(s) == Reply(Kill(B(s)), -1)
  <2>1. PICK e \in {st, EngineEnd(st)} : st' = F([e EXCEPT !.going = FALSE])
    BY <1>3 DEF Terminated, Handle
  <2> DEFINE a == [e EXCEPT !.going = FALSE]
             b == B(a)
             k == Kill(b)
  <2>2. Settled(a) /\ Like(st, a, {"eng"})
    BY EngineOf
  <2>3. st' = AbortGuts(k)
    BY <2>1 DEF Reply
  <2> HIDE DEF a
  <2>4. Abortable(a) /\ Typed(a)
    BY <2>2, AbortableOf DEF Settled
  <2> DEFINE r == WriteStdio(a.rep)
  <2>5. Sound(Tr, r) /\ Same(a.rep, r, {"path"})
    BY <2>4, CasesOf, WriteStdioOf DEF Typed
  <2> HIDE DEF r
  <2>6. Like(a, b, {"term", "rep"}) /\ b.term = FALSE /\ b.rep = r
    BY <2>4 DEF Typed, Like, Fields, r
  <2> HIDE DEF b
  <2>7. Typed(b)
    BY ZenonT(60), <2>4, <2>5, <2>6 DEF Typed, Like, Fields
  <2>8. /\ Like(b, k, {"child", "ctl", "req", "reply", "ex", "rep"}) /\ Typed(k)
        /\ k.rep.mem = b.rep.mem /\ k.rep.xml = b.rep.xml /\ k.rep.case = b.rep.case
    BY <2>7, KillOf
  <2> HIDE DEF k
  <2>9. /\ k.verdict = a.verdict /\ k.state = a.state /\ k.current = a.current
        /\ k.going = a.going /\ k.byStep = a.byStep /\ k.started = a.started
        /\ k.rep.mem = a.rep.mem /\ k.rep.xml = a.rep.xml /\ k.rep.case = a.rep.case
    BY <2>5, <2>6, <2>8 DEF Like, Fields, Same, RFields
  <2>10. Abortable(k)
    BY <2>4, <2>8, <2>9 DEF Abortable, Agree, Recorded, Busy
  <2>11. Aborted(k, st')
    BY <2>3, <2>10, AbortGutsOf
  <2>12. Aborted(a, st')
    BY <2>9, <2>11 DEF Aborted, Busy
  <2> QED BY <2>2, <2>12, FollowsOf DEF Follows
<1>4. CASE Sigchld \/ SigchldMissed
  <2>1. Typed(st)
    BY DEF Settled
  <2>2. /\ Like(st, st', {"child", "ex", "term"}) /\ st'.child \in BOOLEAN
        /\ st'.term \in BOOLEAN /\ st'.ex = "reaped" /\ st.ex \in {"dead", "start"}
    BY <1>4, <2>1 DEF Sigchld, SigchldMissed, Typed, Like, Fields
  <2>3. /\ st'.state = st.state /\ st'.stepping = st.stepping /\ st'.current = st.current
        /\ st'.verdict = st.verdict /\ st'.ctl = st.ctl /\ st'.req = st.req
        /\ st'.reply = st.reply /\ st'.exCase = st.exCase /\ st'.rep = st.rep
        /\ st'.byStep = st.byStep /\ st'.started = st.started /\ st'.eng = st.eng
    BY <2>2 DEF Like, Fields
  <2>4. ~ Stopped(st)
    BY <2>2 DEF Stopped
  <2>5. Opening(st) => Opening(st')
    BY <2>2, <2>3 DEF Opening, Blank
  <2>6. Waiting(st) => Waiting(st')
    BY <2>2, <2>3 DEF Waiting, Walking, Records
  <2>7. Running(st) => Serving(st')
    BY <2>2, <2>3 DEF Running, Serving
  <2>8. Like(st, st', {"child", "req", "reply", "ex", "exCase", "eng", "term"})
    BY <2>2 DEF Like
  <2>9. st'.req \in Seq(Message) /\ st'.reply \in Seq(Answer)
        /\ st'.exCase \in Case \cup {0} /\ st'.eng \in {"none", "up", "gone"}
        /\ st'.ex \in Ended \cup {"start", "init", "idle", "run", "input"}
    BY <2>1, <2>2, <2>3 DEF Typed, Ended
  <2> QED BY <2>2, <2>4, <2>5, <2>6, <2>7, <2>8, <2>9, ProcessOf
<1> QED BY <1>1, <1>2, <1>3, <1>4 DEF Runner

(* The executor, the script and the engine.                                *)
LEMMA ExecutorOf ==
  ASSUME IInv, Executor \/ Script \/ ExAsk \/ ExOutput \/ ExDie \/ EngineEnds
  PROVE  Follows(st, st')
<1> USE DEF IInv
<1> DEFINE X == {"child", "req", "reply", "ex", "exCase", "eng", "term"}
<1>1. Typed(st) /\ DOMAIN st = Fields /\ st.req \in Seq(Message) /\ st.reply \in Seq(Answer)
      /\ st.exCase \in Case \cup {0} /\ st.eng \in {"none", "up", "gone"}
      /\ st.ex \in Ended \cup {"start", "init", "idle", "run", "input"}
      /\ st.child \in BOOLEAN /\ st.term \in BOOLEAN /\ st.panics = {}
  BY DEF Settled, Typed
<1>2. ASSUME Like(st, st', X)
      PROVE  /\ st'.state = st.state /\ st'.stepping = st.stepping /\ st'.current = st.current
             /\ st'.verdict = st.verdict /\ st'.ctl = st.ctl /\ st'.rep = st.rep
             /\ st'.byStep = st.byStep /\ st'.started = st.started
  BY <1>2 DEF Like, Fields
<1>3. ASSUME st.ex \notin {"none", "idle", "dead", "reaped"}
      PROVE  ~ Stopped(st) /\ ~ Waiting(st)
  BY <1>3 DEF Stopped, Waiting, Walking
<1>4. ASSUME st.ex \in {"start", "init"}
      PROVE  ~ Running(st)
  BY <1>4 DEF Running, Serving, AtQueue, AtScript, AtInput
<1>5. CASE ExBegin
  <2>1. Like(st, st', X) /\ st'.ex = "init" /\ st'.eng = "up" /\ st.ex = "start"
        /\ st'.req = st.req /\ st'.reply = st.reply /\ st'.exCase = st.exCase
        /\ st'.child = st.child /\ st'.term = st.term
    BY <1>1, <1>5 DEF ExBegin, Like, Fields
  <2>2. Opening(st) => Opening(st')
    BY <1>2, <2>1 DEF Opening, Blank
  <2> QED BY <1>1, <1>3, <1>4, <2>1, <2>2, ProcessOf
<1>6. ASSUME NEW v \in Ack, ExReady(v)
      PROVE  Follows(st, st')
  <2> DEFINE m == [v |-> v, case |-> st.exCase]
  <2>1. Like(st, st', X) /\ st'.ex = "idle" /\ st'.eng = st.eng /\ st.ex = "init"
        /\ st'.req = st.req /\ st'.reply = Append(st.reply, m) /\ st'.exCase = st.exCase
        /\ st'.child = st.child /\ st'.term = st.term
    BY <1>1, <1>6 DEF ExReady, Send, Like, Fields
  <2>2. m \in Answer /\ m.v \in {-2, -3}
    BY <1>1, RunAssumption DEF Answer
  <2> HIDE DEF m
  <2>3. st'.reply \in Seq(Answer)
    BY <1>1, <2>1, <2>2
  <2>4. Opening(st) => Opening(st')
    <3> SUFFICES ASSUME Opening(st) PROVE Opening(st')
      OBVIOUS
    <3>1. st.reply = <<>>
      BY <2>1 DEF Opening
    <3>2. st'.reply = <<m>>
      <4>1. Append(<<>>, m) = <<m>>
        OBVIOUS
      <4> QED BY <2>1, <3>1, <4>1
    <3>3. Len(st'.reply) = 1 /\ st'.reply # <<>> /\ DOMAIN st'.reply = {1} /\ st'.reply[1] = m
      BY <3>2
    <3>4. /\ st'.state = "SPAWN" /\ st'.ctl /\ st'.rep.open /\ st'.req = <<>>
          /\ st'.current = 0 /\ (st'.byStep => st'.stepping = 1 /\ st'.started = 0)
      BY <1>2, <2>1 DEF Opening
    <3>5. Blank(st')
      BY <1>2, <2>1 DEF Opening, Blank
    <3>6. \A k \in DOMAIN st'.reply : st'.reply[k].v \in {-2, -3}
      BY <2>2, <3>3
    <3> QED BY <2>1, <3>3, <3>4, <3>5, <3>6 DEF Opening
  <2> QED BY <1>1, <1>3, <1>4, <2>1, <2>3, <2>4, ProcessOf
<1>7. CASE ExTake
  <2> DEFINE m == Head(st.req)
  <2>1. Like(st, st', X) /\ st'.ex = (IF m.kind = "run" THEN "run" ELSE "idle")
        /\ st'.exCase = (IF m.kind = "run" THEN m.case ELSE st.exCase)
        /\ st'.req = Tail(st.req) /\ st'.reply = st.reply /\ st'.eng = st.eng
        /\ st'.child = st.child /\ st'.term = st.term /\ st.ex = "idle" /\ st.req # <<>>
    BY <1>1, <1>7 DEF ExTake, Like, Fields
  <2>2. /\ Tail(st.req) \in Seq(Message) /\ m \in Message
        /\ Len(st.req) \in Nat \ {0} /\ 1 \in DOMAIN st.req /\ m = st.req[1]
        /\ Len(Tail(st.req)) = Len(st.req) - 1
        /\ \A k \in DOMAIN Tail(st.req) :
             k + 1 \in DOMAIN st.req /\ Tail(st.req)[k] = st.req[k + 1]
    BY <1>1, <2>1, TailOf
  <2> HIDE DEF m
  <2>3. st'.exCase \in Case \cup {0} /\ st'.ex \in {"run", "idle"}
    BY <1>1, <2>1, <2>2 DEF Message
  <2>4. ~ Stopped(st) /\ ~ Opening(st)
    BY <2>1 DEF Stopped, Opening
  <2>5. Waiting(st) => Waiting(st')
    <3> SUFFICES ASSUME Waiting(st) PROVE Waiting(st')
      OBVIOUS
    <3>1. Records(st) /\ m.kind = "record"
      BY <2>2 DEF Waiting, Walking, Records
    <3>2. Records(st')
      BY <2>1, <2>2, <3>1 DEF Records
    <3> QED BY <1>2, <2>1, <3>1, <3>2 DEF Waiting, Walking
  <2>6. Running(st) => Serving(st')
    <3> SUFFICES ASSUME Running(st) PROVE Serving(st')
      OBVIOUS
    <3>1. AtQueue(st) /\ st.reply = <<>> /\ Serving(st)
      BY <2>1 DEF Running, Serving, AtScript, AtInput
    <3>2. /\ st.state = "RUN" /\ st.req[Len(st.req)].kind = "run"
          /\ \A k \in DOMAIN st.req : st.req[k].kind \in {"run", "record"}
          /\ \A k \in DOMAIN st.req :
               st.req[k].kind = "run" => k = Len(st.req) /\ st.req[k].case = st.current
      BY <3>1 DEF AtQueue, Serving
    <3>3. st'.reply = <<>> /\ Len(st'.reply) = 0 /\ DOMAIN st'.reply = {}
      BY <2>1, <3>1, EmptyOf
    <3>4. CASE m.kind = "run"
      <4>1. Len(st.req) = 1 /\ m.case = st.current
        BY <2>2, <3>2, <3>4
      <4>2. st'.req = <<>> /\ DOMAIN st'.req = {}
        <5>1. Len(Tail(st.req)) = 0
          BY <2>2, <4>1
        <5>2. Tail(st.req) = <<>>
          BY <2>2, <5>1
        <5> QED BY <2>1, <5>2, EmptyOf
      <4>3. AtScript(st')
        BY <1>2, <2>1, <3>2, <3>3, <3>4, <4>1, <4>2 DEF AtScript
      <4> QED BY <1>2, <2>1, <3>2, <3>3, <4>2, <4>3 DEF Serving
    <3>5. CASE m.kind # "run"
      <4>1. Len(st.req) # 1
        BY <2>2, <3>2, <3>5
      <4>2. Len(st'.req) = Len(st.req) - 1 /\ Len(st'.req) \in DOMAIN st'.req
        <5>1. st'.req \in Seq(Message) /\ Len(st'.req) = Len(st.req) - 1
          BY <2>1, <2>2
        <5>2. DOMAIN st'.req = 1 .. Len(st'.req)
          BY <5>1
        <5>3. Len(st.req) \in Nat \ {0}
          BY <2>2
        <5>4. Len(st.req) - 1 \in 1 .. Len(st.req) - 1
          <6>1. \A n \in Nat \ {0} : n # 1 => n - 1 \in 1 .. n - 1
            OBVIOUS
          <6> QED BY <4>1, <5>3, <6>1
        <5> QED BY <5>1, <5>2, <5>4
      <4>3. \A k \in DOMAIN st'.req : k + 1 \in DOMAIN st.req /\ st'.req[k] = st.req[k + 1]
        BY <2>1, <2>2
      <4>4. st'.req[Len(st'.req)] = st.req[Len(st.req)] /\ st'.req # <<>>
        BY <2>2, <4>2, <4>3, EmptyOf
      <4>5. \A k \in DOMAIN st'.req : st'.req[k].kind \in {"run", "record"}
        BY <3>2, <4>3
      <4>6. \A k \in DOMAIN st'.req :
              st'.req[k].kind = "run" => k = Len(st'.req) /\ st'.req[k].case = st.current
        <5> SUFFICES ASSUME NEW k \in DOMAIN st'.req, st'.req[k].kind = "run"
                     PROVE  k = Len(st'.req) /\ st'.req[k].case = st.current
          OBVIOUS
        <5>1. k + 1 = Len(st.req) /\ st.req[k + 1].case = st.current
          BY <3>2, <4>3
        <5>2. k \in Nat
          BY <2>1, <2>2
        <5> QED BY <2>2, <4>2, <4>3, <5>1, <5>2
      <4>7. AtQueue(st')
        BY <1>2, <2>1, <3>2, <3>3, <3>5, <4>4, <4>5 DEF AtQueue
      <4> QED BY <1>2, <2>1, <3>2, <3>3, <4>6, <4>7 DEF Serving
    <3> QED BY <3>4, <3>5
  <2> QED BY <1>1, <2>1, <2>2, <2>3, <2>4, <2>5, <2>6, ProcessOf
<1>8. CASE ExInput
  <2> DEFINE m == Head(st.req)
  <2>1. st.ex = "input" /\ st.req # <<>>
    BY <1>8 DEF ExInput
  <2>2. Running(st)
    BY <2>1 DEF Settled, Stopped, Opening, Waiting, Walking
  <2>3. /\ st.exCase = st.current /\ st.state = "RUN" /\ Len(st.req) = 1
        /\ st.req[1].kind = "input" /\ st.reply = <<>>
    BY <2>1, <2>2 DEF Running, Serving, AtQueue, AtScript, AtInput
  <2>4. m = st.req[1] /\ Tail(st.req) \in Seq(Message) /\ Len(Tail(st.req)) = 0
    BY <1>1, <2>1, <2>3, TailOf
  <2>5. Tail(st.req) = <<>>
    <3>1. \A q \in Seq(Message) : Len(q) = 0 => q = <<>>
      OBVIOUS
    <3> QED BY <2>4, <3>1
  <2>6. Like(st, st', X) /\ st'.ex = "run" /\ st'.req = <<>> /\ st'.reply = st.reply
        /\ st'.exCase = st.exCase /\ st'.eng = st.eng
        /\ st'.child = st.child /\ st'.term = st.term
    BY <1>1, <1>8, <2>3, <2>4, <2>5 DEF ExInput, Like, Fields
  <2>7. Serving(st')
    <3>1. DOMAIN st'.req = {} /\ DOMAIN st'.reply = {} /\ Len(st'.reply) = 0
      BY <2>3, <2>6, EmptyOf
    <3>2. AtScript(st')
      BY <1>2, <2>3, <2>6 DEF AtScript
    <3> QED BY <1>2, <2>3, <2>6, <3>1, <3>2 DEF Serving
  <2>8. ~ Stopped(st) /\ ~ Opening(st) /\ ~ Waiting(st)
    BY <2>1 DEF Stopped, Opening, Waiting, Walking
  <2>9. st'.req \in Seq(Message)
    BY <2>6, EmptyOf
  <2> QED BY <1>1, <2>6, <2>7, <2>8, <2>9, ProcessOf
<1>9. ASSUME NEW v \in Given \cup {99}, st.ex = "run",
             st' = Send([st EXCEPT !.ex = IF v = 99 THEN "input" ELSE "idle"], v)
      PROVE  Follows(st, st')
  <2> DEFINE m == [v |-> v, case |-> st.exCase]
  <2>1. Like(st, st', X) /\ st'.ex = (IF v = 99 THEN "input" ELSE "idle")
        /\ st'.reply = Append(st.reply, m) /\ st'.req = st.req
        /\ st'.exCase = st.exCase /\ st'.eng = st.eng
        /\ st'.child = st.child /\ st'.term = st.term
    BY <1>1, <1>9 DEF Send, Like, Fields
  <2>2. m \in Answer /\ m.v = v /\ m.case = st.exCase
    BY <1>1 DEF Answer
  <2> HIDE DEF m
  <2>3. st'.reply \in Seq(Answer)
    BY <1>1, <2>1, <2>2
  <2>4. ~ Stopped(st) /\ ~ Opening(st) /\ ~ Waiting(st) /\ Running(st)
    BY <1>9 DEF Settled, Stopped, Opening, Waiting, Walking
  <2>5. /\ st.state = "RUN" /\ st.exCase = st.current /\ st.req = <<>> /\ st.reply = <<>>
    BY <1>9, <2>4 DEF Running, Serving, AtQueue, AtScript, AtInput
  <2>6. st'.reply = <<m>>
    <3>1. Append(<<>>, m) = <<m>>
      OBVIOUS
    <3> QED BY <2>1, <2>5, <3>1
  <2>7. /\ Len(st'.reply) = 1 /\ st'.reply # <<>> /\ DOMAIN st'.reply = {1}
        /\ st'.reply[1] = m
    BY <2>6
  <2>8. st'.req = <<>> /\ DOMAIN st'.req = {}
    BY <2>1, <2>5, EmptyOf
  <2>9. v # 99 => v \in Given
    OBVIOUS
  <2>10. AtQueue(st') \/ AtInput(st')
    BY <1>2, <2>1, <2>2, <2>5, <2>7, <2>8, <2>9 DEF AtQueue, AtInput
  <2>11. Serving(st')
    BY <1>2, <2>1, <2>2, <2>5, <2>7, <2>8, <2>9, <2>10 DEF Serving
  <2> QED BY <1>1, <2>1, <2>3, <2>4, <2>11, ProcessOf
<1>10. CASE ExAsk
  <2>1. st.ex = "run" /\ st' = Send([st EXCEPT !.ex = "input"], 99)
    BY <1>10 DEF ExAsk
  <2> QED BY <1>9, <2>1
<1>11. ASSUME NEW v \in Results, ExDone(v)
       PROVE  Follows(st, st')
  <2>1. v \in Given /\ v # 99
    BY RunAssumption DEF Given, Verdict, UNEXECUTED, EXECUTED
  <2>2. st.ex = "run" /\ st' = Send([st EXCEPT !.ex = "idle"], v)
    BY <1>11 DEF ExDone
  <2> QED BY <1>9, <2>1, <2>2
<1>12. CASE ExOutput
  <2>1. st' = [st EXCEPT !.rep = WriteStdio(@)]
    BY <1>12 DEF ExOutput
  <2> QED BY <2>1, StdioOf DEF Follows
<1>13. CASE ExDie
  <2>1. Like(st, st', X) /\ st'.ex = "dead" /\ st.ex # "none" /\ st'.req = st.req
        /\ st'.reply = st.reply /\ st'.exCase = st.exCase /\ st'.eng = st.eng
        /\ st'.child = st.child /\ st'.term = st.term
    BY <1>1, <1>13 DEF ExDie, Like, Fields, Ended
  <2>2. ~ Stopped(st)
    BY <2>1 DEF Stopped
  <2>3. Opening(st) => Opening(st')
    BY <1>2, <2>1 DEF Opening, Blank
  <2>4. Waiting(st) => Waiting(st')
    BY <1>2, <2>1 DEF Waiting, Walking, Records
  <2>5. Running(st) => Serving(st')
    BY <1>2, <2>1 DEF Running, Serving
  <2>6. st'.ex \in Ended \cup {"start", "init", "idle", "run", "input"}
    BY <2>1 DEF Ended
  <2> QED BY <1>1, <2>1, <2>2, <2>3, <2>4, <2>5, <2>6, ProcessOf
<1>14. CASE EngineEnds
  <2>1. Like(st, st', X) /\ st'.ex = st.ex /\ st'.eng = "gone" /\ st'.req = st.req
        /\ st'.reply = st.reply /\ st'.exCase = st.exCase
        /\ st'.child = st.child /\ st'.term = st.term
    BY <1>1, <1>14 DEF EngineEnds, EngineEnd, Like, Fields
  <2>2. /\ Stopped(st) => Stopped(st')
        /\ Opening(st) => Opening(st')
        /\ Waiting(st) => Waiting(st')
    BY <1>2, <2>1 DEF Stopped, Opening, Waiting, Walking, Records, Blank
  <2>3. Running(st) => Serving(st')
    BY <1>2, <2>1 DEF Running, Serving, AtQueue, AtScript, AtInput
  <2> QED BY <1>1, <2>1, <2>2, <2>3, ProcessOf
<1> QED BY <1>5, <1>6, <1>7, <1>8, <1>10, <1>11, <1>12, <1>13, <1>14 DEF Executor, Script

LEMMA StepOf ==
  ASSUME IInv, [Next]_st
  PROVE  Follows(st, st')
<1>1. CASE Operator
  BY <1>1, OperatorOf
<1>2. CASE Runner \/ SigchldMissed
  BY <1>2, RunnerOf
<1>3. CASE Executor \/ Script \/ ExAsk \/ ExOutput \/ ExDie \/ EngineEnds
  BY <1>3, ExecutorOf
<1>4. CASE UNCHANGED st
  BY <1>4 DEF Follows, Kept, IInv, Busy
<1> QED BY <1>1, <1>2, <1>3, <1>4 DEF Next

LEMMA InitOf ==
  ASSUME Init
  PROVE  IInv /\ Stopped(st) /\ st.state = "RESET"
<1> DEFINE r == NewReport(Tr)
           v == [c \in Case |-> UNEXECUTED]
           b == [c \in Case |-> 0]
<1>1. Sound(Tr, r) /\ ~ r.open
  BY CasesOf, NewReportOf
<1>2. <<>> \in Seq(Message) /\ <<>> \in Seq(Answer)
  BY EmptyOf
<1>3. v \in [Case -> Verdict] /\ b \in [Case -> 0 .. 2] /\ \A c \in Case : v[c] = UNEXECUTED
  BY DEF Verdict, UNEXECUTED, EXECUTED
<1> HIDE DEF r, v, b
<1>4. /\ st.state = "RESET" /\ st.stepping = 0 /\ st.current = 0 /\ st.verdict = v
      /\ st.brk = b /\ st.skip = {} /\ st.child = FALSE /\ st.ctl = FALSE /\ st.rep = r
      /\ st.req = <<>> /\ st.reply = <<>> /\ st.ex = "none" /\ st.exCase = 0
      /\ st.eng = "none" /\ st.term = FALSE /\ st.alive = TRUE /\ st.going = FALSE
      /\ st.panics = {} /\ st.byStep = FALSE /\ st.started = 0 /\ DOMAIN st = Fields
  BY DEF Init, r, v, b, Fields
<1>5. Typed(st)
  <2>1. /\ st.state \in State /\ st.stepping \in {0, 1} /\ st.current \in Case \cup {0}
        /\ st.skip \subseteq Case /\ st.exCase \in Case \cup {0} /\ st.started \in Nat
    BY <1>4 DEF State
  <2>2. /\ st.child \in BOOLEAN /\ st.ctl \in BOOLEAN /\ st.term \in BOOLEAN
        /\ st.alive \in BOOLEAN /\ st.going \in BOOLEAN /\ st.byStep \in BOOLEAN
    BY <1>4
  <2>3. /\ st.ex \in Ended \cup {"start", "init", "idle", "run", "input"}
        /\ st.eng \in {"none", "up", "gone"} /\ st.panics = {}
    BY <1>4 DEF Ended
  <2>4. /\ st.req \in Seq(Message) /\ st.reply \in Seq(Answer) /\ Sound(Tr, st.rep)
        /\ st.verdict \in [Case -> Verdict] /\ st.brk \in [Case -> 0 .. 2]
    BY <1>1, <1>2, <1>3, <1>4
  <2> QED BY <1>4, <2>1, <2>2, <2>3, <2>4 DEF Typed
<1>6. Stopped(st)
  BY <1>1, <1>3, <1>4 DEF Stopped, Blank
<1>7. Agree(st)
  BY <1>3, <1>4 DEF Agree, Recorded
<1> QED BY <1>4, <1>5, <1>6, <1>7 DEF IInv, Settled

(* Between two handlers the run is stopped, opening, paused or running, in *)
(* the way that the parts of the invariant say, and stays so.              *)
THEOREM TreeRunInvariant == Spec => []IInv
<1>1. Init => IInv
  BY InitOf
<1>2. IInv /\ [Next]_st => IInv'
  <2> SUFFICES ASSUME IInv, [Next]_st PROVE IInv'
    OBVIOUS
  <2>1. Follows(st, st')
    BY StepOf
  <2>2. Settled(st')
    BY <2>1 DEF Follows, Kept, Opened, Forth, Landed, Aborted
  <2> QED BY <2>2 DEF IInv
<1> QED BY <1>1, <1>2, PTL DEF Spec

-----------------------------------------------------------------------------
(* What follows from the invariant.                                        *)

LEMMA InFlightOf ==
  ASSUME IInv
  PROVE  /\ InFlight \in 0 .. 1
         /\ InFlight = 1 => Busy(st)
         /\ Busy(st) /\ st.ex \notin Ended => InFlight = 1
<1> DEFINE at == IF st.ex \in {"run", "input"} THEN 1 ELSE 0
<1>1. st.req \in Seq(Message) /\ st.reply \in Seq(Answer)
  BY DEF IInv, Settled, Typed
<1>2. \A x \in {99, -2, -3} : x \notin Verdict
  BY DEF Verdict, UNEXECUTED, EXECUTED
<1>3. Cardinality({}) = 0 /\ \A x : Cardinality({x}) = 1
  BY FS_EmptySet, FS_Singleton
<1>4. InFlight = Cardinality(Asked) + Cardinality(Done) + at
  BY DEF InFlight
<1>5. st.req = <<>> => Asked = {}
  BY EmptyOf DEF Asked
<1>6. st.reply = <<>> => Done = {}
  BY EmptyOf DEF Done
<1>7. CASE Stopped(st) \/ Opening(st) \/ Waiting(st)
  <2>1. Asked = {}
    BY <1>5, <1>7 DEF Stopped, Opening, Waiting, Walking, Records, Asked
  <2>2. Done = {}
    BY <1>2, <1>6, <1>7 DEF Stopped, Opening, Waiting, Walking, Done
  <2>3. st.ex \notin {"run", "input"} /\ ~ Busy(st)
    BY <1>7 DEF Stopped, Opening, Waiting, Walking, Busy
  <2>4. InFlight = 0
    BY <1>3, <1>4, <2>1, <2>2, <2>3
  <2> QED BY <2>3, <2>4
<1>8. CASE Running(st)
  <2>1. Busy(st) /\ Serving(st)
    BY <1>8 DEF Running
  <2>2. Asked \subseteq {Len(st.req)} /\ Len(st.reply) <= 1
    BY <2>1 DEF Serving, Asked
  <2>3. Done \subseteq {1}
    BY <1>1, <2>2 DEF Done
  <2>4. Asked = {} \/ Done = {}
    BY <1>5, <1>6, <2>1 DEF Serving
  <2>5. CASE st.ex \in {"dead", "reaped"}
    <3>1. at = 0 /\ st.ex \in Ended
      BY <2>5 DEF Ended
    <3>2. \/ Asked = {} /\ Done = {}
          \/ Asked = {Len(st.req)} /\ Done = {}
          \/ Asked = {} /\ Done = {1}
      BY <2>2, <2>3, <2>4
    <3>3. /\ Cardinality(Asked) \in 0 .. 1 /\ Cardinality(Done) \in 0 .. 1
          /\ Cardinality(Asked) = 0 \/ Cardinality(Done) = 0
      <4>1. ASSUME NEW S, NEW x, S = {} \/ S = {x}
            PROVE  Cardinality(S) \in 0 .. 1
        <5>1. CASE S = {}
          BY <1>3, <5>1
        <5>2. CASE S = {x}
          BY <1>3, <5>2
        <5> QED BY <4>1, <5>1, <5>2
      <4>2. Cardinality(Asked) \in 0 .. 1
        BY <3>2, <4>1
      <4>3. Cardinality(Done) \in 0 .. 1
        BY <3>2, <4>1
      <4> QED BY <1>3, <2>4, <4>2, <4>3
    <3> HIDE DEF at
    <3>4. InFlight \in 0 .. 1
      BY <1>4, <3>1, <3>3
    <3> QED BY <2>1, <3>1, <3>4
  <2>6. CASE AtQueue(st)
    <3>1. at = 0
      BY <2>6 DEF AtQueue
    <3>2. CASE st.reply = <<>>
      <4>1. Len(st.req) \in Asked
        BY <1>1, <2>6, <3>2 DEF AtQueue, Asked
      <4>2. Asked = {Len(st.req)} /\ Done = {}
        BY <1>6, <2>2, <3>2, <4>1
      <4>3. Cardinality(Asked) = 1 /\ Cardinality(Done) = 0
        BY <1>3, <4>2
      <4>4. InFlight = 1
        BY <1>4, <3>1, <4>3
      <4> QED BY <2>1, <4>4
    <3>3. CASE st.reply # <<>>
      <4>1. st.reply[1].v \in Verdict
        BY <2>6, <3>3 DEF AtQueue, Given
      <4>2. 1 \in Done
        BY <1>1, <3>3, <4>1 DEF Done
      <4>3. Done = {1} /\ Asked = {}
        BY <2>3, <2>4, <4>2
      <4> QED BY <1>3, <1>4, <2>1, <3>1, <4>3
    <3> QED BY <3>2, <3>3
  <2>7. CASE AtScript(st) \/ AtInput(st)
    <3>1. at = 1
      BY <2>7 DEF AtScript, AtInput
    <3>2. Asked = {}
      <4>1. st.req = <<>> \/ (Len(st.req) = 1 /\ st.req[1].kind = "input")
        BY <2>1, <2>7 DEF AtScript, AtInput, Serving
      <4>2. Len(st.req) = 1 => DOMAIN st.req = {1}
        BY <1>1
      <4> QED BY <1>5, <4>1, <4>2 DEF Asked
    <3>3. Done = {}
      <4>1. st.reply = <<>> \/ st.reply[1].v = 99
        BY <2>7 DEF AtScript, AtInput
      <4> QED BY <1>2, <1>6, <2>3, <4>1 DEF Done
    <3> QED BY <1>3, <1>4, <2>1, <3>1, <3>2, <3>3
  <2> QED BY <2>1, <2>5, <2>6, <2>7 DEF Serving
<1> QED BY <1>7, <1>8 DEF IInv, Settled

(* TreeRun.OneInFlight: one case is on its way exactly when the runner     *)
(* waits for it, it is the current one, and no dialogue is ever broken.    *)
THEOREM OneInFlightHolds == Spec => []OneInFlight
<1>1. IInv => OneInFlight
  <2> SUFFICES ASSUME IInv PROVE OneInFlight
    OBVIOUS
  <2>1. Typed(st) /\ ~ st.going /\ (Stopped(st) \/ Opening(st) \/ Waiting(st) \/ Running(st))
    BY DEF IInv, Settled
  <2>2. st.rep.mem \in [Case -> Verdict \cup {ABSENT}] /\ st.stepping \in 0 .. 2
    BY <2>1 DEF Typed, Sound, Written, Case
  <2>3. TypeOK /\ st.panics = {}
    BY <2>1, <2>2 DEF TypeOK, Typed
  <2>4. /\ InFlight <= 1
        /\ InFlight = 1 => st.state \in {"RUN", "INPUT"}
        /\ st.state \in {"RUN", "INPUT"} /\ st.ex \notin Ended => InFlight = 1
    BY InFlightOf DEF Busy
  <2>5. Len(st.reply) <= 1
    BY <2>1, EmptyOf DEF Stopped, Opening, Waiting, Walking, Running, Serving
  <2>6. \A k \in Asked : st.req[k].case = st.current
    BY <2>1, EmptyOf DEF Stopped, Opening, Waiting, Walking, Records, Running, Serving, Asked
  <2>7. \A k \in Done : st.reply[k].case = st.current
    <3>1. \A x \in {99, -2, -3} : x \notin Verdict
      BY DEF Verdict, UNEXECUTED, EXECUTED
    <3> QED BY <2>1, <3>1, EmptyOf DEF Stopped, Opening, Waiting, Walking, Running, Serving, Done
  <2>8. st.ex \in {"run", "input"} => st.exCase = st.current
    BY <2>1 DEF Stopped, Opening, Waiting, Walking, Running, Serving, AtQueue, AtScript, AtInput
  <2> QED BY <2>3, <2>4, <2>5, <2>6, <2>7, <2>8 DEF OneInFlight
<1> QED BY <1>1, TreeRunInvariant, PTL

(* TreeRun.ReportNested: the elements of the report end in the order they  *)
(* were begun, and an engine's whole log is in it once.                    *)
THEOREM ReportNestedHolds == Spec => []ReportNested
<1>1. IInv => ReportNested
  <2> SUFFICES ASSUME IInv PROVE ReportNested
    OBVIOUS
  <2> DEFINE r == st.rep
             all == {k \in DOMAIN r.logs : r.logs[k] = "all"}
  <2>1. Written(Tr, r) /\ ~ r.broken /\ Elements(Tr, r) /\ Judged(Tr, r) /\ LogsOnce(r)
    BY DEF IInv, Settled, Typed, Sound, Nested
  <2>2. Cardinality(all) <= 1
    <3>1. all \subseteq {Len(r.logs)}
      BY <2>1 DEF LogsOnce
    <3>2. Cardinality({}) = 0 /\ Cardinality({Len(r.logs)}) = 1
      BY FS_EmptySet, FS_Singleton
    <3> HIDE DEF all
    <3>3. CASE all = {}
      BY <3>2, <3>3
    <3>4. CASE all = {Len(r.logs)}
      BY <3>2, <3>4
    <3> QED BY <3>1, <3>3, <3>4
  <2>3. ~ r.open => r.path = <<>>
    BY <2>1 DEF Elements
  <2>4. \A c \in Case : Len(r.xml[c]) <= 1
    BY <2>1 DEF Judged, Case
  <2>5. r.open => StdioClose(r).path = Trunk(Tr, r)
    BY <2>1, CasesOf, CloseOf
  <2> HIDE DEF all
  <2>6. r.open => StdioClose(r).path = IF r.cur = 0 THEN <<1>> ELSE Line(Tr, r.cur)
    BY <2>5 DEF Trunk
  <2> QED BY <2>1, <2>2, <2>3, <2>4, <2>6 DEF ReportNested, all
<1> QED BY <1>1, TreeRunInvariant, PTL

(* TreeRun.VerdictsAgree: tree, output manager and report have the same    *)
(* verdict of a case, the report possibly none.                            *)
THEOREM VerdictsAgreeHolds == Spec => []VerdictsAgree
<1>1. IInv => VerdictsAgree
  <2> SUFFICES ASSUME IInv, NEW c \in Case
               PROVE  /\ st.verdict[c] # UNEXECUTED
                           /\ ~ (st.state \in {"RUN", "INPUT"} /\ c = st.current)
                           => st.rep.mem[c] = st.verdict[c]
                      /\ st.rep.xml[c] # <<>> => st.rep.mem[c] = Head(st.rep.xml[c])
    BY DEF VerdictsAgree
  <2>1. Agree(st) /\ Written(Tr, st.rep) /\ Judged(Tr, st.rep)
    BY DEF IInv, Settled, Typed, Sound, Nested
  <2>2. st.rep.xml[c] \in Seq(Verdict)
    BY <2>1 DEF Written, Case
  <2>3. st.rep.xml[c] # <<>> => Head(st.rep.xml[c]) = st.rep.xml[c][1]
    BY <2>2
  <2> QED BY <2>1, <2>3 DEF Agree, Recorded, Busy, Judged, Case
<1> QED BY <1>1, TreeRunInvariant, PTL

(* TreeRun.StepsOnce: a start in step mode requests one execution at most. *)
THEOREM StepsOnceHolds == Spec => []StepsOnce
<1>1. IInv => StepsOnce
  <2> SUFFICES ASSUME IInv PROVE StepsOnce
    OBVIOUS
  <2>1. Abortable(st)
    BY AbortableOf DEF IInv
  <2> QED BY <2>1 DEF Abortable, StepsOnce
<1> QED BY <1>1, TreeRunInvariant, PTL

-----------------------------------------------------------------------------
(* The runner implements CaseRuns.                                         *)

Where(s) == IF Busy(s) THEN s.current ELSE 0
Named(s) == CASE s.state = "RESET" -> "off"
              [] s.state = "SPAWN" -> "starting"
              [] s.state = "WAIT" -> "paused"
              [] s.state \in {"RUN", "INPUT"} -> "running"
              [] s.state = "FINISHED" -> "over"
Carrier(s) ==
  LET asked == {k \in DOMAIN s.req : s.req[k].kind = "run"}
      done == {k \in DOMAIN s.reply : s.reply[k].v \in Verdict}
  IN  IF s.state \notin {"RUN", "INPUT"} THEN 0
      ELSE IF asked # {} THEN s.req[CHOOSE k \in asked : TRUE].case
      ELSE IF done # {} THEN s.reply[1].case
      ELSE IF s.ex \in {"run", "input"} THEN s.exCase
      ELSE s.current

(* Whoever has the case under way has the current one.                     *)
LEMMA CarrierOf ==
  ASSUME NEW s, Settled(s)
  PROVE  Carrier(s) = Where(s)
<1> DEFINE asked == {k \in DOMAIN s.req : s.req[k].kind = "run"}
           done == {k \in DOMAIN s.reply : s.reply[k].v \in Verdict}
<1>1. CASE ~ Busy(s)
  BY <1>1 DEF Carrier, Where, Busy
<1>2. CASE Busy(s)
  <2>1. Running(s) /\ Serving(s) /\ s.reply \in Seq(Answer)
    BY <1>2 DEF Settled, Typed, Busy, Stopped, Opening, Waiting, Running
  <2>2. \A k \in asked : s.req[k].case = s.current
    BY <2>1 DEF Serving
  <2>3. \A k \in done : k = 1 /\ s.reply[k].case = s.current
    <3>1. 99 \notin Verdict
      BY DEF Verdict, UNEXECUTED, EXECUTED
    <3> QED BY <2>1, <3>1 DEF Serving
  <2>4. s.ex \in {"run", "input"} => s.exCase = s.current
    BY <2>1 DEF Serving, AtQueue, AtScript, AtInput
  <2>5. Carrier(s) = IF asked # {} THEN s.req[CHOOSE k \in asked : TRUE].case
                     ELSE IF done # {} THEN s.reply[1].case
                     ELSE IF s.ex \in {"run", "input"} THEN s.exCase
                     ELSE s.current
    BY <1>2 DEF Carrier, Busy
  <2> HIDE DEF asked, done
  <2>6. asked # {} => (CHOOSE k \in asked : TRUE) \in asked
    OBVIOUS
  <2> QED BY <1>2, <2>2, <2>3, <2>4, <2>5, <2>6 DEF Where
<1> QED BY <1>1, <1>2

(* The end of a walk over the tree is what CaseRuns calls proceeding.      *)
LEMMA ForthRuns ==
  ASSUME NEW v, NEW d, Forth(v, d)
  PROVE  /\ d.verdict \in [Case -> Verdict]
         /\ \A c \in Case : d.verdict[c] \in {v[c], SKIP}
         /\ \/ /\ Named(d) = "running" /\ Where(d) \in Case
               /\ d.verdict[Where(d)] = v[Where(d)]
            \/ Named(d) \in {"paused", "over"} /\ Where(d) = 0
<1>1. d.verdict \in [Case -> Verdict] /\ \A c \in Case : d.verdict[c] \in {v[c], SKIP}
  BY DEF Forth, Landed, Settled, Typed
<1>2. CASE Running(d)
  <2>1. Busy(d) /\ d.current \in Case /\ d.current # 0
    BY <1>2 DEF Forth, Landed, Settled, Typed, Running
  <2>2. Named(d) = "running" /\ Where(d) = d.current
    BY <2>1 DEF Named, Where, Busy
  <2> QED BY <1>1, <2>1, <2>2 DEF Forth
<1>3. CASE d.state \in {"WAIT", "FINISHED"}
  BY <1>1, <1>3 DEF Named, Where, Busy
<1> QED BY <1>2, <1>3 DEF Forth, Landed, Waiting

LEMMA RunsStep ==
  ASSUME IInv, Follows(st, st')
  PROVE  [Runs!Next]_<<Phase, Carried, st.verdict>>
<1>1. Settled(st) /\ Settled(st')
  BY DEF IInv, Follows, Kept, Opened, Forth, Landed, Aborted
<1>2. Phase = Named(st) /\ Phase' = Named(st')
  BY DEF Phase, Named
<1>3. Carried = Carrier(st) /\ Carried' = Carrier(st')
  BY DEF Carried, Carrier, Asked, Done
<1>4. Carried = Where(st) /\ Carried' = Where(st')
  BY <1>1, <1>3, CarrierOf
<1>5. st.state \in State /\ st.verdict \in [Case -> Verdict] /\ st'.verdict \in [Case -> Verdict]
  BY <1>1 DEF Settled, Typed
<1>6. Named(st) = "running" <=> Busy(st)
  BY <1>5 DEF Named, Busy, State, Execution
<1>7. ASSUME NEW v, Forth(v, st')
      PROVE  Runs!Proceed(v)
  BY <1>2, <1>4, <1>7, ForthRuns DEF Runs!Proceed
<1>8. ASSUME Stopped(st'), st'.state = "RESET"
      PROVE  Runs!Reset
  <2>1. Phase' = "off" /\ Carried' = 0
    BY <1>2, <1>4, <1>8 DEF Named, Where, Busy
  <2>2. st'.verdict = [c \in Case |-> UNEXECUTED]
    BY <1>5, <1>8 DEF Stopped, Blank
  <2> QED BY <2>1, <2>2 DEF Runs!Reset
<1>9. CASE Kept(st, st')
  <2>1. Phase' = Phase /\ Carried' = Carried /\ st'.verdict = st.verdict
    BY <1>2, <1>4, <1>9 DEF Kept, Named, Where, Busy
  <2> QED BY <2>1
<1>10. CASE st.state = "RESET" /\ Opened(st, st')
  <2>1. CASE st'.state = "SPAWN" /\ st'.verdict = st.verdict
    <3>1. Phase = "off" /\ Phase' = "starting" /\ Carried = 0 /\ Carried' = 0
      BY <1>2, <1>4, <1>10, <2>1 DEF Named, Where, Busy
    <3> QED BY <2>1, <3>1 DEF Runs!Start, Runs!Next
  <2>2. CASE Stopped(st') /\ st'.state = "RESET"
    BY <1>8, <2>2 DEF Runs!Next
  <2> QED BY <1>10, <2>1, <2>2 DEF Opened
<1>11. CASE st.state \in {"SPAWN", "WAIT"} /\ Forth(st.verdict, st')
  <2>1. Phase \in {"starting", "paused"}
    BY <1>2, <1>11 DEF Named
  <2> QED BY <1>7, <1>11, <2>1 DEF Runs!Resume, Runs!Next
<1>12. CASE st.state = "WAIT"
            /\ \E i \in Case, v \in Given : Forth([st.verdict EXCEPT ![i] = v], st')
  <2>1. PICK i \in Case, v \in Given : Forth([st.verdict EXCEPT ![i] = v], st')
    BY <1>12
  <2>2. Phase = "paused" /\ v \in Verdict
    BY <1>2, <1>12 DEF Named, Given
  <2>3. Runs!Judge(i, v)
    BY <1>7, <2>1, <2>2 DEF Runs!Judge
  <2> QED BY <2>2, <2>3 DEF Runs!Next
<1>13. CASE Busy(st) /\ \E v \in Given : Forth([st.verdict EXCEPT ![st.current] = v], st')
  <2>1. PICK v \in Given : Forth([st.verdict EXCEPT ![st.current] = v], st')
    BY <1>13
  <2>2. Phase = "running" /\ Carried = st.current /\ v \in Verdict
    BY <1>2, <1>4, <1>6, <1>13 DEF Where, Given
  <2>3. Runs!Give(v)
    BY <1>7, <2>1, <2>2 DEF Runs!Give
  <2> QED BY <2>2, <2>3 DEF Runs!Next
<1>14. CASE Aborted(st, st')
  <2>1. Phase' = "over" /\ Carried' = 0
    BY <1>2, <1>4, <1>14 DEF Aborted, Named, Where, Busy
  <2>2. CASE Busy(st)
    <3>1. Phase = "running" /\ Carried = st.current
          /\ st'.verdict = [st.verdict EXCEPT ![st.current] = INCONCLUSIVE]
      BY <1>2, <1>4, <1>6, <1>14, <2>2 DEF Aborted, Where
    <3> QED BY <2>1, <3>1 DEF Runs!AbortCase, Runs!Next
  <2>3. CASE ~ Busy(st)
    <3>1. Phase # "running" /\ Carried = 0 /\ st'.verdict = st.verdict
      BY <1>2, <1>4, <1>6, <1>14, <2>3 DEF Aborted, Where
    <3> QED BY <2>1, <3>1 DEF Runs!Abort, Runs!Next
  <2> QED BY <2>2, <2>3
<1>15. CASE Settled(st') /\ Stopped(st') /\ st'.state = "RESET"
  BY <1>8, <1>15 DEF Runs!Next
<1> QED BY <1>9, <1>10, <1>11, <1>12, <1>13, <1>14, <1>15 DEF Follows

(* TreeRun.RunsSpec: the verdicts of the tree follow CaseRuns, whatever    *)
(* the operator does and wherever the executor and the engine die.         *)
THEOREM TreeRunsCases == Spec => RunsSpec
<1>1. Init => Runs!Init
  <2> SUFFICES ASSUME Init PROVE Runs!Init
    OBVIOUS
  <2>1. IInv /\ Stopped(st) /\ st.state = "RESET"
    BY InitOf
  <2>2. Phase = "off" /\ Carried = 0
    BY <2>1 DEF Phase, Carried
  <2>3. st.verdict = [c \in Case |-> UNEXECUTED]
    BY <2>1 DEF IInv, Settled, Typed, Stopped, Blank
  <2> QED BY <2>2, <2>3 DEF Runs!Init
<1>2. IInv /\ [Next]_st => [Runs!Next]_<<Phase, Carried, st.verdict>>
  BY StepOf, RunsStep
<1> QED BY <1>1, <1>2, TreeRunInvariant, PTL DEF Spec, RunsSpec, Runs!Spec, Runs!vars

=============================================================================
