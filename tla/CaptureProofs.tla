--------------------------- MODULE CaptureProofs ---------------------------
(***************************************************************************)
(* Proofs about Capture, for devices with any number of buffers, images of *)
(* any width and any commands of the user.                                 *)
(***************************************************************************)
EXTENDS Capture, QueueLemmas, FiniteSetTheorems

Area == [x : Nat, w : Nat]
Asked == [buf : Buf, full : BOOLEAN]
Sent == [in : Buf, out : Buf \cup {None}, area : Area]

(* The types of the fields of a descriptor, and what a device makes of its *)
(* buffers: those which it may fill are not in use.                        *)
Fields == {"kind", "img", "queued", "done", "ready", "busy", "full", "requested",
           "processing", "period", "win", "fb", "pin", "pout", "closed", "current",
           "seen", "clocks", "loop", "sync"}
Descriptor(c) ==
  /\ DOMAIN c = Fields /\ c.kind \in Kind
  /\ c.img \in [Buf -> Image \cup {None}]
  /\ c.queued \subseteq Buf /\ c.done \in Seq(Buf)
  /\ c.ready \in Buf \cup {None} /\ c.busy \subseteq Buf
  /\ c.full \in BOOLEAN /\ c.requested \in BOOLEAN /\ c.processing \in Nat
  /\ c.win \in Window /\ c.fb \in [Col -> 0 .. 1]
  /\ c.pin \in Seq(Asked) /\ c.pout \in Seq(Sent)
  /\ c.current \in -1 .. NFiles - 1 /\ c.seen \in -1 .. NFiles - 1
  /\ c.clocks \in Nat
Comparer(t) ==
  /\ DOMAIN t = {"pc", "cur", "prev", "win"}
  /\ t.pc \in {"idle", "compare", "end"} /\ t.win \in Window
  /\ t.prev \in Buf \cup {None} /\ t.cur \in Buf \cup {None}
  /\ t.pc = "compare" => t.cur # None /\ t.prev # None
  /\ t.pc = "idle" => t.cur = None

InDone(c) == {c.done[k] : k \in DOMAIN c.done}
Kept(c) ==
  /\ c.ready \notin c.busy
  /\ \A i \in c.busy \cup InDone(c) \cup ({c.ready} \ {None}) : c.img[i] # None
  /\ IF c.kind = "stream"
     THEN /\ \A j, k \in DOMAIN c.done : c.done[j] = c.done[k] => j = k
          /\ c.queued \cap InDone(c) = {} /\ c.queued \cap c.busy = {}
          /\ InDone(c) \cap c.busy = {} /\ c.ready \notin c.queued \cup InDone(c)
          /\ Buf \subseteq c.queued \cup InDone(c) \cup c.busy \cup {c.ready}
     ELSE c.queued = {} /\ c.done = <<>>

(* The buffers under way are different ones: those sent to the thread, the *)
(* two that it compares, those that it returned.  What it returns is a     *)
(* chain: each message gives back what the one before brought.             *)
Distinct(c, t) ==
  /\ \A j, k \in DOMAIN c.pin : c.pin[j].buf = c.pin[k].buf => j = k
  /\ \A j, k \in DOMAIN c.pout : c.pout[j].in = c.pout[k].in => j = k
  /\ \A j, k \in DOMAIN c.pout : c.pout[j].in = c.pout[k].out => k = j + 1
  /\ \A k \in DOMAIN c.pin : c.pin[k].buf \notin {t.cur, t.prev}
  /\ \A j \in DOMAIN c.pin, k \in DOMAIN c.pout :
       c.pin[j].buf \notin {c.pout[k].in, c.pout[k].out}
  /\ t.cur # None =>
       /\ t.cur # t.prev
       /\ \A k \in DOMAIN c.pout : t.cur \notin {c.pout[k].in, c.pout[k].out}
Chained(c, t) ==
  /\ c.pout # <<>> => c.pout[Len(c.pout)].in = t.prev
  /\ \A k \in DOMAIN c.pout : k # 1 => c.pout[k].out = c.pout[k - 1].in
Pin(c) == {c.pin[k].buf : k \in DOMAIN c.pin}
Ins(c) == {c.pout[k].in : k \in DOMAIN c.pout}
Outs(c) == {c.pout[k].out : k \in DOMAIN c.pout} \ {None}
Used(c, t) == ({t.cur, t.prev} \ {None}) \cup Pin(c) \cup Ins(c) \cup Outs(c)
Comparing(t) == IF t.pc = "compare" THEN 1 ELSE 0
Number(c, t) == Len(c.pin) + Len(c.pout) + Comparing(t)
Piped(c, t) ==
  /\ Distinct(c, t) /\ Chained(c, t)
  /\ c.busy = Used(c, t) /\ c.processing = Number(c, t) /\ c.processing <= 2

Owned == Alive => Kept(cap) /\ Piped(cap, thr)

(* The requests on their way, those of the command in progress included.   *)
Requests == {Req("refresh", None)} \cup UNION {{todo[k] : k \in DOMAIN todo} : todo \in Commands}
Path == stdin \o client.todo
Types ==
  /\ Descriptor(cap) /\ Comparer(thr)
  /\ client.pc \in {"idle", "wait", "gone"} /\ client.connected \in BOOLEAN
  /\ DOMAIN client = {"pc", "want", "todo", "connected"}
  /\ DOMAIN agent = {"pc", "area"}
  /\ agent.pc \in {"start", "loop", "write", "join", "gone"}
  /\ stdin \in Seq(Requests) /\ client.todo \in Seq(Requests)
  /\ update \in Seq(Area) /\ Len(update) <= UpdCap
  /\ stale \subseteq Col /\ slips \subseteq Slip

Windowed == Alive => \A k \in DOMAIN Path : Path[k].op = "window" =>
              /\ Path[k].arg \in Window /\ k + 2 \in DOMAIN Path
              /\ Path[k + 1].op = "refresh" /\ Path[k + 2].op = "window?"
Leaving == Alive /\ ~ client.connected => client.pc = "gone"

(* A request that is answered is the last one, as long as there was no     *)
(* answer too many.                                                        *)
Answering ==
  /\ client.pc = "wait" => client.want # None
  /\ agent.pc = "start" => /\ client.pc = "wait" /\ client.want = "OPEN"
                           /\ callback = <<>>
  /\ client.pc = "wait" /\ client.want = "OPEN" =>
       stdin = <<>> /\ client.todo = <<>> /\ slips = {}
  /\ Alive /\ "unasked" \notin slips => \A k \in DOMAIN stdin : Awaited(stdin[k]) # None =>
       /\ k = Len(stdin) /\ client.pc = "wait" /\ callback = <<>>
       /\ Awaited(stdin[k]) = client.want

Announced ==
  /\ agent.pc = "write" => agent.area = None \/ agent.area \in Area
  /\ ChangesAnnounced

(* The window was changed, and the refresh that follows was not served.    *)
Critical == /\ {1, 2} \subseteq DOMAIN Path
            /\ Path[1].op = "refresh" /\ Path[2].op = "window?"
Plain(c) == ~ c.full /\ \A k \in DOMAIN c.pin : ~ c.pin[k].full

(* What the frame buffer will show in a column when the messages of the    *)
(* thread are served.                                                      *)
ShowsAt(c, p, k) ==
  \/ /\ \A j \in DOMAIN c.pout : k \notin Cols(c.pout[j].area)
     /\ c.fb[k] = c.img[p][k]
  \/ \E j \in DOMAIN c.pout :
       /\ k \in Cols(c.pout[j].area) /\ c.img[c.pout[j].in][k] = c.img[p][k]
       /\ \A i \in DOMAIN c.pout : i > j => k \notin Cols(c.pout[i].area)
Look(c, t) == /\ t.pc = "compare" => t.win = c.win
              /\ t.prev # None => \A k \in Cols(c.win) : ShowsAt(c, t.prev, k)
Shown == Alive /\ client.connected /\ Plain(cap) /\ ~ Critical => Look(cap, thr)

IInv == Types /\ Owned /\ Windowed /\ Leaving /\ Answering /\ AnswersMatch /\ Announced /\ Shown

-----------------------------------------------------------------------------
(* The devices: what they do to a descriptor, of which they leave the      *)
(* pipeline alone, and the images that are in use.                         *)
Others(c, d, F) == DOMAIN d = Fields /\ \A f \in Fields \ F : d[f] = c[f]
Piping == {"kind", "busy", "full", "processing", "win", "fb", "pin", "pout", "closed"}
Feeds(c, d) ==
  /\ Descriptor(d) /\ Kept(d) /\ \A f \in Piping : d[f] = c[f]
  /\ \A i \in c.busy : d.img[i] = c.img[i]

LEMMA QBufOf ==
  ASSUME NEW c, Descriptor(c), NEW i \in Buf
  PROVE  /\ Others(c, QBuf(c, i), {"img", "queued"})
         /\ QBuf(c, i).img = [c.img EXCEPT ![i] = None]
         /\ QBuf(c, i).queued = IF c.kind = "stream" THEN c.queued \cup {i} ELSE c.queued
<1> QED BY DEF QBuf, Others, Descriptor, Fields

LEMMA RequeueOf ==
  ASSUME NEW c, Descriptor(c)
  PROVE  /\ Others(c, Requeue(c), {"img", "queued"})
         /\ Requeue(c).img \in [Buf -> Image \cup {None}]
         /\ \A i \in Buf : Requeue(c).img[i] = IF i = c.ready THEN None ELSE c.img[i]
         /\ Requeue(c).queued = IF c.kind = "stream" THEN c.queued \cup ({c.ready} \ {None})
                                                    ELSE c.queued
<1>1. CASE c.ready = None
  <2>1. \A i \in Buf : i # None
    BY NoneAssumption
  <2> QED BY <1>1, <2>1 DEF Requeue, Others, Descriptor
<1>2. CASE c.ready # None
  <2>1. c.ready \in Buf /\ Requeue(c) = QBuf(c, c.ready)
    BY <1>2 DEF Requeue, Descriptor
  <2>2. /\ Others(c, Requeue(c), {"img", "queued"})
        /\ Requeue(c).img = [c.img EXCEPT ![c.ready] = None]
        /\ Requeue(c).queued = IF c.kind = "stream" THEN c.queued \cup {c.ready} ELSE c.queued
    BY <2>1, QBufOf
  <2>3. c.img \in [Buf -> Image \cup {None}]
    BY DEF Descriptor
  <2> QED BY <1>2, <2>1, <2>2, <2>3
<1> QED BY <1>1, <1>2

LEMMA ReadStreamOf ==
  ASSUME NEW c, Descriptor(c), Kept(c), c.kind = "stream", c.done # <<>>
  PROVE  Feeds(c, ReadStream(c))
<1> DEFINE e == Requeue(c)
           d == ReadStream(c)
<1>1. /\ Others(c, e, {"img", "queued"}) /\ e.img \in [Buf -> Image \cup {None}]
      /\ \A i \in Buf : e.img[i] = IF i = c.ready THEN None ELSE c.img[i]
      /\ e.queued = c.queued \cup ({c.ready} \ {None})
  BY RequeueOf
<1>2. /\ DOMAIN d = Fields /\ d.ready = Head(c.done) /\ d.done = Tail(c.done)
      /\ \A f \in Fields \ {"ready", "done"} : d[f] = e[f]
  BY <1>1 DEF ReadStream, Others, Fields
<1> HIDE DEF e, d
<1>3. \A f \in Fields \ {"ready", "done", "img", "queued"} : d[f] = c[f]
  BY <1>1, <1>2 DEF Others
<1>4. /\ Tail(c.done) \in Seq(Buf) /\ Head(c.done) \in Buf /\ 1 \in DOMAIN c.done
      /\ Head(c.done) = c.done[1] /\ DOMAIN d.done \subseteq Nat \ {0}
      /\ \A k \in DOMAIN d.done : k + 1 \in DOMAIN c.done /\ d.done[k] = c.done[k + 1]
      /\ \A k \in DOMAIN c.done : k # 1 => k - 1 \in DOMAIN d.done /\ c.done[k] = d.done[k - 1]
  BY <1>2, TailOf DEF Descriptor
<1>5. d.img = e.img /\ d.queued = e.queued
  BY <1>2 DEF Fields
<1>6. \A j, k \in DOMAIN c.done : c.done[j] = c.done[k] => j = k
  BY DEF Kept
<1>7. \A j, k \in DOMAIN d.done : d.done[j] = d.done[k] => j = k
  <2> SUFFICES ASSUME NEW j \in DOMAIN d.done, NEW k \in DOMAIN d.done, d.done[j] = d.done[k]
               PROVE  j = k
    OBVIOUS
  <2>1. c.done[j + 1] = c.done[k + 1] /\ j + 1 \in DOMAIN c.done /\ k + 1 \in DOMAIN c.done
    BY <1>4
  <2>2. j + 1 = k + 1 /\ j \in Nat /\ k \in Nat
    BY <1>4, <1>6, <2>1
  <2> QED BY <2>2
<1>8. d.ready \notin InDone(d)
  BY <1>2, <1>4, <1>6 DEF InDone
<1>9. InDone(c) = InDone(d) \cup {d.ready}
  <2>1. \A k \in DOMAIN c.done : c.done[k] \in InDone(d) \cup {d.ready}
    BY <1>2, <1>4 DEF InDone
  <2>2. \A k \in DOMAIN d.done : d.done[k] \in InDone(c)
    BY <1>4 DEF InDone
  <2>3. d.ready \in InDone(c)
    BY <1>2, <1>4 DEF InDone
  <2> QED BY <2>1, <2>2, <2>3 DEF InDone
<1>10. d.busy = c.busy /\ d.kind = "stream"
  BY <1>3 DEF Fields
<1>11. d.ready \in Buf /\ InDone(d) \subseteq Buf /\ c.busy \subseteq Buf
  BY <1>2, <1>4 DEF InDone, Descriptor
<1>12. Kept(d)
  <2>1. d.ready \notin d.busy
    BY <1>9, <1>10 DEF Kept
  <2>2. \A i \in d.busy \cup InDone(d) \cup ({d.ready} \ {None}) : d.img[i] # None
    BY <1>1, <1>5, <1>9, <1>10, <1>11 DEF Kept
  <2>3. /\ c.queued \cap InDone(c) = {} /\ c.queued \cap c.busy = {}
        /\ InDone(c) \cap c.busy = {} /\ c.ready \notin c.queued \cup InDone(c)
        /\ Buf \subseteq c.queued \cup InDone(c) \cup c.busy \cup {c.ready}
        /\ c.ready \notin c.busy /\ c.ready \in Buf \cup {None}
    BY DEF Kept, Descriptor
  <2>4. d.queued = c.queued \cup ({c.ready} \ {None})
    BY <1>1, <1>5
  <2>5. /\ d.queued \cap InDone(d) = {} /\ d.queued \cap d.busy = {}
        /\ InDone(d) \cap d.busy = {} /\ d.ready \notin d.queued \cup InDone(d)
    BY <1>8, <1>9, <1>10, <2>3, <2>4
  <2>6. Buf \subseteq d.queued \cup InDone(d) \cup d.busy \cup {d.ready}
    BY <1>9, <1>10, <2>3, <2>4, NoneAssumption
  <2> QED BY <1>7, <1>10, <2>1, <2>2, <2>5, <2>6 DEF Kept
<1>13. Descriptor(d)
  BY <1>1, <1>2, <1>3, <1>4, <1>5, <1>11 DEF Descriptor, Fields
<1>14. \A f \in Piping : d[f] = c[f]
  BY <1>3 DEF Piping, Fields
<1>15. \A i \in c.busy : d.img[i] = c.img[i]
  <2>1. c.ready \notin c.busy
    BY DEF Kept
  <2>2. ASSUME NEW i \in c.busy PROVE d.img[i] = c.img[i]
    <3>1. i \in Buf /\ i # c.ready
      BY <1>11, <2>1
    <3> QED BY <1>1, <1>5, <3>1
  <2> QED BY <2>2
<1> QED BY <1>12, <1>13, <1>14, <1>15 DEF Feeds, d
LEMMA ReadWriteOf ==
  ASSUME NEW c, Descriptor(c), Kept(c), c.kind # "stream", NEW im \in Image
  PROVE  Feeds(c, ReadWrite(c, im))
<1>1. CASE FreeBufs(c) = {}
  BY <1>1 DEF ReadWrite, Feeds, Piping
<1>2. CASE FreeBufs(c) # {}
  <2> DEFINE i == Min(FreeBufs(c))
             b == [c EXCEPT !.img[i] = im]
             e == Requeue(b)
             d == ReadWrite(c, im)
  <2>1. i \in Buf /\ c.img[i] = None
    <3>1. FreeBufs(c) \subseteq Nat
      BY FrameAssumption DEF FreeBufs, Buf
    <3> QED BY <1>2, <3>1, MinOf DEF FreeBufs
  <2> HIDE DEF i
  <2>2. c.img \in [Buf -> Image \cup {None}] /\ DOMAIN c = Fields
    BY DEF Descriptor
  <2>3. b.img = [c.img EXCEPT ![i] = im] /\ Others(c, b, {"img"})
    BY <2>2 DEF Others, Fields
  <2>4. Descriptor(b)
    <3>1. b.img \in [Buf -> Image \cup {None}]
      BY <2>1, <2>2, <2>3
    <3> HIDE DEF b
    <3> QED BY <2>3, <3>1 DEF Descriptor, Others, Fields
  <2>5. d = [e EXCEPT !.ready = i]
    BY <1>2 DEF ReadWrite, i
  <2> HIDE DEF b
  <2>6. /\ Others(b, e, {"img", "queued"}) /\ e.img \in [Buf -> Image \cup {None}]
        /\ \A k \in Buf : e.img[k] = IF k = b.ready THEN None ELSE b.img[k]
        /\ e.queued = IF b.kind = "stream" THEN b.queued \cup ({b.ready} \ {None}) ELSE b.queued
    BY <2>4, RequeueOf
  <2> HIDE DEF e, d
  <2>7. /\ DOMAIN d = Fields /\ d.ready = i /\ d.img = e.img /\ d.queued = e.queued
        /\ \A f \in Fields \ {"ready", "img", "queued"} : d[f] = c[f]
    BY <2>3, <2>5, <2>6 DEF Others, Fields
  <2>8. b.ready = c.ready /\ b.kind = c.kind /\ b.queued = c.queued
    BY <2>3 DEF Others, Fields
  <2>9. d.done = c.done /\ d.busy = c.busy /\ d.kind = c.kind /\ d.queued = c.queued
    BY <2>6, <2>7, <2>8 DEF Fields
  <2>10. /\ c.queued = {} /\ c.done = <<>> /\ c.ready \notin c.busy /\ c.busy \subseteq Buf
         /\ \A k \in c.busy : c.img[k] # None
    BY DEF Kept, Descriptor
  <2>11. \A k \in c.busy : d.img[k] = c.img[k]
    <3> SUFFICES ASSUME NEW k \in c.busy PROVE d.img[k] = c.img[k]
      OBVIOUS
    <3>1. k \in Buf /\ k # c.ready /\ k # i
      BY <2>1, <2>10
    <3> QED BY <2>2, <2>3, <2>6, <2>7, <2>8, <3>1
  <2>12. d.img[i] # None
    <3>1. c.ready # i
      <4>1. c.ready # None => c.img[c.ready] # None
        BY DEF Kept
      <4> QED BY <2>1, <4>1, NoneAssumption
    <3> QED BY <2>1, <2>2, <2>3, <2>6, <2>7, <2>8, <3>1, NoneAssumption
  <2>13. Kept(d)
    <3>1. InDone(d) = {} /\ d.ready \notin d.busy
      BY <2>1, <2>7, <2>9, <2>10 DEF InDone
    <3> QED BY <2>7, <2>9, <2>10, <2>11, <2>12, <3>1 DEF Kept
  <2>14. Descriptor(d)
    BY <2>1, <2>6, <2>7, <2>9 DEF Descriptor, Fields
  <2>15. \A f \in Piping : d[f] = c[f]
    BY <2>7 DEF Piping, Fields
  <2> QED BY <2>11, <2>13, <2>14, <2>15 DEF Feeds, d
<1> QED BY <1>1, <1>2

(* A buffer that an error took away from the driver goes back to it.       *)
LEMMA CheckupOf ==
  ASSUME NEW c, Descriptor(c), Kept(c), c.kind = "stream", NEW q \in Seq(Buf),
         NEW b, Others(c, b, {"done"}), b.done = q, InDone(b) \subseteq InDone(c),
         \A j, k \in DOMAIN q : q[j] = q[k] => j = k
  PROVE  Feeds(c, Checkup(b))
<1> DEFINE d == Checkup(b)
           lost == {i \in Buf : /\ i # b.ready /\ i \notin b.busy
                                /\ i \notin b.queued \cup Range(b.done)}
<1>1. b.done = q /\ Others(c, b, {"done"})
  OBVIOUS
<1>2. /\ Others(b, d, {"queued", "img"}) /\ d.queued = b.queued \cup lost
      /\ d.img = [i \in Buf |-> IF i \in lost THEN None ELSE b.img[i]]
  BY <1>1 DEF Checkup, Others, Fields
<1>3. lost \subseteq Buf \ (b.busy \cup b.queued \cup InDone(b) \cup {b.ready})
      /\ Buf \subseteq lost \cup b.busy \cup b.queued \cup InDone(b) \cup {b.ready}
  BY DEF InDone, Range
<1> HIDE DEF d, lost
<1>4. /\ \A f \in Fields \ {"queued", "img", "done"} : d[f] = c[f]
      /\ d.done = q /\ b.img = c.img /\ b.queued = c.queued /\ b.ready = c.ready
      /\ b.busy = c.busy
  BY <1>1, <1>2 DEF Others, Fields
<1>5. d.busy = c.busy /\ d.ready = c.ready /\ d.kind = "stream" /\ InDone(d) = InDone(b)
  BY <1>1, <1>4 DEF Fields, InDone
<1>6. /\ c.queued \cap InDone(c) = {} /\ c.queued \cap c.busy = {}
      /\ InDone(c) \cap c.busy = {} /\ c.ready \notin c.queued \cup InDone(c)
      /\ c.ready \notin c.busy
      /\ \A i \in c.busy \cup InDone(c) \cup ({c.ready} \ {None}) : c.img[i] # None
  BY DEF Kept
<1>7. /\ c.ready \in Buf \cup {None} /\ c.busy \subseteq Buf /\ InDone(c) \subseteq Buf
      /\ c.img \in [Buf -> Image \cup {None}] /\ c.queued \subseteq Buf
  BY DEF Descriptor, InDone
<1>8. \A i \in c.busy \cup InDone(d) \cup ({d.ready} \ {None}) : d.img[i] = c.img[i]
  <2> SUFFICES ASSUME NEW i \in c.busy \cup InDone(d) \cup ({d.ready} \ {None})
               PROVE  d.img[i] = c.img[i]
    OBVIOUS
  <2>1. i \in Buf /\ i \notin lost
    BY <1>3, <1>4, <1>5, <1>7
  <2> QED BY <1>2, <1>4, <2>1
<1>9. Kept(d)
  <2>1. \A i \in d.busy \cup InDone(d) \cup ({d.ready} \ {None}) : d.img[i] # None
    BY <1>5, <1>6, <1>8
  <2>2. \A j, k \in DOMAIN d.done : d.done[j] = d.done[k] => j = k
    BY <1>4
  <2>3. /\ d.queued \cap InDone(d) = {} /\ d.queued \cap d.busy = {}
        /\ InDone(d) \cap d.busy = {} /\ d.ready \notin d.queued \cup InDone(d)
        /\ Buf \subseteq d.queued \cup InDone(d) \cup d.busy \cup {d.ready}
    BY <1>2, <1>3, <1>4, <1>5, <1>6
  <2> QED BY <1>5, <1>6, <2>1, <2>2, <2>3 DEF Kept
<1>10. Descriptor(d)
  <2>1. d.img \in [Buf -> Image \cup {None}]
    BY <1>2, <1>4, <1>7
  <2>2. d.queued \subseteq Buf
    BY <1>2, <1>3, <1>4, <1>7
  <2>3. DOMAIN d = Fields
    BY <1>2 DEF Others
  <2> QED BY <1>4, <2>1, <2>2, <2>3 DEF Descriptor, Fields
<1>11. \A f \in Piping : d[f] = c[f]
  BY <1>4 DEF Piping, Fields
<1>12. \A i \in c.busy : d.img[i] = c.img[i]
  BY <1>8
<1> QED BY <1>9, <1>10, <1>11, <1>12 DEF Feeds, d
(* The sequence of files moves its index and its clocks only.              *)
Moving == {"current", "clocks"}
LEMMA SequenceOf ==
  ASSUME NEW c, Descriptor(c), NEW d, d \in {SequenceNext(c), SequenceRestart(c)}
  PROVE  Others(c, d, Moving) /\ d.current \in -1 .. NFiles - 1 /\ d.clocks \in Nat
<1>1. ASSUME NEW b, DOMAIN b = Fields, b.current \in -1 .. NFiles - 1, b.clocks \in Nat
      PROVE  /\ Others(b, SequenceNext(b), Moving)
             /\ SequenceNext(b).current \in -1 .. NFiles - 1
             /\ SequenceNext(b).clocks \in Nat
  <2> DEFINE cur == IF b.current < NFiles - 1 THEN b.current + 1
                    ELSE IF b.loop THEN 0 ELSE b.current
             clk == IF ~ b.sync /\ (cur < NFiles - 1 \/ b.loop) THEN b.clocks + 1 ELSE b.clocks
  <2>1. SequenceNext(b) = [b EXCEPT !.current = cur, !.clocks = clk]
    BY DEF SequenceNext
  <2>2. cur \in -1 .. NFiles - 1 /\ clk \in Nat
    BY <1>1, FrameAssumption
  <2> HIDE DEF cur, clk
  <2> QED BY <1>1, <2>1, <2>2 DEF Others, Moving, Fields
<1>2. /\ DOMAIN c = Fields /\ c.current \in -1 .. NFiles - 1 /\ c.clocks \in Nat
  BY DEF Descriptor
<1>3. CASE d = SequenceNext(c)
  BY <1>1, <1>2, <1>3
<1>4. CASE d = SequenceRestart(c) /\ c.sync
  BY <1>2, <1>4, FrameAssumption DEF SequenceRestart, Others, Moving, Fields
<1>5. CASE d = SequenceRestart(c) /\ ~ c.sync
  <2> DEFINE b == [c EXCEPT !.current = -1]
  <2>1. /\ DOMAIN b = Fields /\ b.current = -1 /\ b.clocks = c.clocks
        /\ Others(c, b, Moving)
    BY <1>2 DEF Others, Moving, Fields
  <2>2. d = SequenceNext(b)
    BY <1>5 DEF SequenceRestart
  <2> HIDE DEF b
  <2>3. b.current \in -1 .. NFiles - 1
    BY <2>1, FrameAssumption
  <2>4. Others(b, d, Moving) /\ d.current \in -1 .. NFiles - 1 /\ d.clocks \in Nat
    BY <1>1, <1>2, <2>1, <2>2, <2>3
  <2> QED BY <2>1, <2>4 DEF Others
<1> QED BY <1>3, <1>4, <1>5

(* What depends on no other field than those that stay the same.           *)
Private == {"current", "clocks", "seen", "loop", "sync", "period", "requested"}
LEMMA SameFeeds ==
  ASSUME NEW c, Descriptor(c), Kept(c), NEW d, NEW F, Others(c, d, F),
         F \subseteq Private,
         d.current \in -1 .. NFiles - 1, d.seen \in -1 .. NFiles - 1, d.clocks \in Nat, d.requested \in BOOLEAN
  PROVE  Feeds(c, d)
<1>1. \A f \in Fields \ Private : d[f] = c[f]
  BY DEF Others
<1> USE DEF Private
<1>2. DOMAIN d = Fields /\ DOMAIN c = Fields
  BY DEF Others, Descriptor
<1>3. Descriptor(d)
  BY <1>1, <1>2 DEF Descriptor, Fields
<1>4. /\ d.kind = c.kind /\ d.img = c.img /\ d.ready = c.ready /\ d.busy = c.busy
      /\ d.done = c.done /\ d.queued = c.queued
  BY <1>1 DEF Fields
<1>5. Kept(d)
  BY <1>4 DEF Kept, InDone
<1>6. \A f \in Piping : d[f] = c[f]
  BY <1>1 DEF Piping, Fields
<1> QED BY <1>3, <1>4, <1>5, <1>6 DEF Feeds

LEMMA SequenceFeeds ==
  ASSUME NEW c, Descriptor(c), Kept(c), NEW d, d \in {SequenceNext(c), SequenceRestart(c)}
  PROVE  Feeds(c, d)
<1>1. Others(c, d, Moving) /\ d.current \in -1 .. NFiles - 1 /\ d.clocks \in Nat
  BY SequenceOf
<1>2. d.seen \in -1 .. NFiles - 1 /\ d.requested \in BOOLEAN
  BY <1>1 DEF Others, Moving, Fields, Descriptor
<1>3. Moving \subseteq Private
  BY DEF Moving, Private
<1> QED BY <1>1, <1>2, <1>3, SameFeeds

LEMMA FeedsTwice ==
  ASSUME NEW b, NEW c, NEW d, Feeds(b, c), Feeds(c, d)
  PROVE  Feeds(b, d)
<1>1. c.busy = b.busy
  BY DEF Feeds, Piping
<1> QED BY <1>1 DEF Feeds

LEMMA ReadFileOf ==
  ASSUME NEW c, Descriptor(c), Kept(c), c.kind = "file"
  PROVE  Feeds(c, ReadFile(c))
<1> DEFINE b == IF c.current < 0 \/ c.sync THEN SequenceNext(c) ELSE c
           r == Requeue(b)
           e == [r EXCEPT !.seen = b.current, !.ready = None]
           i == Min(FreeBufs(e))
           d == ReadFile(c)
<1>1. Feeds(c, b) /\ Descriptor(b) /\ Kept(b)
  <2>1. CASE b = SequenceNext(c)
    BY <2>1, SequenceFeeds DEF Feeds
  <2>2. CASE b = c
    BY <2>2 DEF Feeds, Piping
  <2> QED BY <2>1, <2>2
<1>2. d = IF b.current = b.seen THEN b
          ELSE IF FreeBufs(e) = {} THEN e
          ELSE [e EXCEPT !.img[i] = FileImage(e.current), !.ready = i]
  BY DEF ReadFile
<1> HIDE DEF b
<1>3. b.kind = "file"
  BY <1>1 DEF Feeds, Piping
<1>4. /\ Others(b, r, {"img", "queued"}) /\ r.img \in [Buf -> Image \cup {None}]
      /\ \A k \in Buf : r.img[k] = IF k = b.ready THEN None ELSE b.img[k]
      /\ r.queued = b.queued
  BY <1>1, <1>3, RequeueOf
<1>5. /\ e.seen = b.current /\ e.ready = None /\ e.img = r.img
      /\ DOMAIN e = Fields /\ \A f \in Fields \ {"img", "seen", "ready"} : e[f] = b[f]
  BY <1>4 DEF Others, Fields
<1> HIDE DEF r, e
<1>6. /\ e.kind = b.kind /\ e.busy = b.busy /\ e.queued = b.queued /\ e.done = b.done
      /\ e.current = b.current
  BY <1>5 DEF Fields
<1>7. /\ b.queued = {} /\ b.done = <<>> /\ b.ready \notin b.busy
      /\ \A k \in b.busy : b.img[k] # None
  BY <1>1, <1>3 DEF Kept
<1>8. b.busy \subseteq Buf /\ b.current \in -1 .. NFiles - 1
  BY <1>1 DEF Descriptor
<1>9. \A k \in b.busy : k \in Buf /\ e.img[k] = b.img[k]
  BY <1>4, <1>5, <1>7, <1>8
<1>10. Feeds(b, e)
  <2>1. InDone(e) = {} /\ e.ready = None /\ None \notin Buf
    BY <1>5, <1>6, <1>7, NoneAssumption DEF InDone
  <2>2. Kept(e)
    BY <1>3, <1>6, <1>7, <1>8, <1>9, <2>1 DEF Kept
  <2>3. Descriptor(e)
    <3>1. \A f \in Fields \ {"img", "seen", "ready"} : e[f] = b[f]
      BY <1>5
    <3>2. /\ e.img \in [Buf -> Image \cup {None}] /\ e.seen \in -1 .. NFiles - 1
          /\ e.ready = None /\ DOMAIN e = Fields /\ Descriptor(b)
      BY <1>1, <1>4, <1>5, <1>8
    <3> QED BY ONLY <3>1, <3>2 DEF Descriptor, Fields
  <2>4. \A f \in Piping : e[f] = b[f]
    BY <1>5 DEF Piping, Fields
  <2> QED BY <1>9, <2>2, <2>3, <2>4 DEF Feeds
<1>11. CASE b.current = b.seen
  BY <1>1, <1>2, <1>11
<1>12. CASE b.current # b.seen /\ FreeBufs(e) = {}
  BY <1>1, <1>2, <1>10, <1>12, FeedsTwice
<1>13. CASE b.current # b.seen /\ FreeBufs(e) # {}
  <2>1. i \in Buf /\ e.img[i] = None
    <3>1. FreeBufs(e) \subseteq Nat
      BY FrameAssumption DEF FreeBufs, Buf
    <3> QED BY <1>13, <3>1, MinOf DEF FreeBufs
  <2> HIDE DEF i
  <2>2. d = [e EXCEPT !.img[i] = FileImage(e.current), !.ready = i]
    BY <1>2, <1>13
  <2> HIDE DEF d
  <2>3. /\ d.img = [e.img EXCEPT ![i] = FileImage(e.current)] /\ d.ready = i
        /\ DOMAIN d = Fields /\ \A f \in Fields \ {"img", "ready"} : d[f] = e[f]
    BY <1>5, <2>2 DEF Fields
  <2>4. FileImage(e.current) \in Image
    BY DEF FileImage, Image
  <2>5. e.img \in [Buf -> Image \cup {None}]
    BY <1>4, <1>5
  <2>6. /\ d.kind = "file" /\ d.busy = b.busy /\ d.queued = {} /\ d.done = <<>>
    BY <1>3, <1>6, <1>7, <2>3 DEF Fields
  <2>7. i \notin b.busy
    BY <1>7, <1>9, <2>1
  <2>8. \A k \in b.busy : d.img[k] = e.img[k]
    BY <1>9, <2>3, <2>5, <2>7
  <2>9. d.img[i] # None
    BY <2>1, <2>3, <2>4, <2>5, NoneAssumption
  <2>10. Kept(d)
    <3>1. InDone(d) = {}
      BY <2>6 DEF InDone
    <3> QED BY <1>7, <1>9, <2>3, <2>6, <2>7, <2>8, <2>9, <3>1 DEF Kept
  <2>11. Descriptor(d)
    <3>1. d.img \in [Buf -> Image \cup {None}]
      BY <2>3, <2>4, <2>5
    <3> QED BY <1>10, <2>1, <2>3, <3>1 DEF Feeds, Descriptor, Fields
  <2>12. \A f \in Piping : d[f] = e[f]
    BY <2>3 DEF Piping, Fields
  <2>13. Feeds(e, d)
    BY <1>6, <2>8, <2>10, <2>11, <2>12 DEF Feeds
  <2> QED BY <1>1, <1>10, <2>13, FeedsTwice DEF d
<1> QED BY <1>11, <1>12, <1>13
-----------------------------------------------------------------------------
(* What the main loop does to a descriptor, while the thread rests.        *)
Works(c, d, t) ==
  /\ Descriptor(d) /\ Kept(d) /\ Piped(d, t)
  /\ Plain(d) => Plain(c)
  /\ Look(c, t) => Look(d, t)

LEMMA WorksTwice ==
  ASSUME NEW b, NEW c, NEW d, NEW t, Works(b, c, t), Works(c, d, t)
  PROVE  Works(b, d, t)
<1> QED BY DEF Works

LEMMA WorksNot ==
  ASSUME NEW c, NEW t, Descriptor(c), Kept(c), Piped(c, t)
  PROVE  Works(c, c, t)
<1> QED BY DEF Works

LEMMA FeedsWorks ==
  ASSUME NEW c, NEW d, NEW t, Descriptor(c), Piped(c, t), Feeds(c, d)
  PROVE  Works(c, d, t)
<1>1. /\ d.busy = c.busy /\ d.full = c.full /\ d.processing = c.processing /\ d.win = c.win
      /\ d.fb = c.fb /\ d.pin = c.pin /\ d.pout = c.pout
  BY DEF Feeds, Piping
<1>2. Piped(d, t)
  <2>1. Distinct(d, t)
    BY <1>1 DEF Piped, Distinct
  <2>2. Chained(d, t)
    BY <1>1 DEF Piped, Chained
  <2>3. Used(d, t) = Used(c, t) /\ Number(d, t) = Number(c, t)
    BY <1>1 DEF Used, Pin, Ins, Outs, Number
  <2> QED BY <1>1, <2>1, <2>2, <2>3 DEF Piped
<1>3. ASSUME NEW p \in c.busy, NEW k, ShowsAt(c, p, k) PROVE ShowsAt(d, p, k)
  <2>1. \A i \in c.busy : d.img[i] = c.img[i]
    BY DEF Feeds
  <2>2. \A j \in DOMAIN c.pout : c.pout[j].in \in c.busy
    BY DEF Piped, Used, Ins
  <2> QED BY <1>1, <1>3, <2>1, <2>2 DEF ShowsAt
<1>4. t.prev # None => t.prev \in c.busy
  BY DEF Piped, Used
<1>5. Look(c, t) => Look(d, t)
  BY <1>1, <1>3, <1>4 DEF Look
<1>6. Plain(d) => Plain(c)
  BY <1>1 DEF Plain
<1> QED BY <1>2, <1>5, <1>6 DEF Works, Feeds

LEMMA QueueOf ==
  ASSUME NEW c, NEW t, Descriptor(c), Kept(c), Comparer(t), Piped(c, t), c.ready # None
  PROVE  Works(c, ProcessQueue(c), t)
<1> DEFINE d == ProcessQueue(c)
           m == [buf |-> c.ready, full |-> c.full]
<1>1. CASE c.processing > 1
  BY <1>1, WorksNot DEF ProcessQueue
<1>2. CASE ~ c.processing > 1
  <2>1. /\ DOMAIN d = Fields /\ d.pin = Append(c.pin, m) /\ d.full = FALSE
        /\ d.requested = FALSE /\ d.busy = c.busy \cup {c.ready} /\ d.ready = None
        /\ d.processing = c.processing + 1
        /\ \A f \in Fields \ {"pin", "full", "requested", "busy", "ready", "processing"} :
             d[f] = c[f]
    BY <1>2 DEF ProcessQueue, Descriptor, Fields
  <2>2. m \in Asked /\ m.buf = c.ready /\ m.full = c.full
    BY DEF Asked, Descriptor
  <2> HIDE DEF d, m
  <2>3. /\ Append(c.pin, m) \in Seq(Asked) /\ Len(Append(c.pin, m)) = Len(c.pin) + 1
        /\ Len(c.pin) \in Nat /\ Append(c.pin, m)[Len(c.pin) + 1] = m
        /\ Len(c.pin) + 1 \in DOMAIN Append(c.pin, m)
        /\ \A k \in DOMAIN c.pin : k \in DOMAIN Append(c.pin, m)
                                   /\ Append(c.pin, m)[k] = c.pin[k] /\ k <= Len(c.pin)
        /\ \A k \in DOMAIN Append(c.pin, m) :
             k = Len(c.pin) + 1 \/ (k \in DOMAIN c.pin /\ Append(c.pin, m)[k] = c.pin[k])
    BY <2>2, AppendOf DEF Descriptor
  <2>4. /\ d.kind = c.kind /\ d.img = c.img /\ d.done = c.done /\ d.queued = c.queued
        /\ d.pout = c.pout /\ d.win = c.win /\ d.fb = c.fb
    BY <2>1 DEF Fields
  <2>5. c.ready \in Buf /\ c.ready \notin c.busy /\ None \notin Buf /\ c.busy \subseteq Buf
    BY NoneAssumption DEF Kept, Descriptor
  <2>6. Descriptor(d)
    <3>1. c.processing + 1 \in Nat
      BY DEF Descriptor
    <3> QED BY <2>1, <2>3, <2>5, <3>1 DEF Descriptor, Fields
  <2>7. Kept(d)
    <3>1. InDone(d) = InDone(c)
      BY <2>4 DEF InDone
    <3>2. None \notin d.busy
      BY <2>1, <2>5
    <3>3. \A i \in d.busy \cup InDone(d) : d.img[i] # None
      BY <2>1, <2>4, <2>5, <3>1 DEF Kept
    <3>4. c.kind # "stream" => c.queued = {} /\ c.done = <<>>
      BY DEF Kept
    <3>5. ASSUME c.kind = "stream"
          PROVE  /\ \A j, k \in DOMAIN d.done : d.done[j] = d.done[k] => j = k
                 /\ d.queued \cap InDone(d) = {} /\ d.queued \cap d.busy = {}
                 /\ InDone(d) \cap d.busy = {} /\ None \notin d.queued \cup InDone(d)
                 /\ Buf \subseteq d.queued \cup InDone(d) \cup d.busy
      <4>1. /\ \A j, k \in DOMAIN c.done : c.done[j] = c.done[k] => j = k
            /\ c.queued \cap InDone(c) = {} /\ c.queued \cap c.busy = {}
            /\ InDone(c) \cap c.busy = {} /\ c.ready \notin c.queued \cup InDone(c)
            /\ Buf \subseteq c.queued \cup InDone(c) \cup c.busy \cup {c.ready}
        BY <3>5 DEF Kept
      <4>2. InDone(c) \subseteq Buf /\ c.queued \subseteq Buf
        BY DEF InDone, Descriptor
      <4> QED BY <2>1, <2>4, <2>5, <3>1, <4>1, <4>2
    <3> QED BY <2>1, <2>4, <3>2, <3>3, <3>4, <3>5 DEF Kept
  <2>8. Pin(d) = Pin(c) \cup {c.ready}
    <3>1. \A k \in DOMAIN d.pin : d.pin[k].buf \in Pin(c) \cup {c.ready}
      BY <2>1, <2>2, <2>3 DEF Pin
    <3>2. \A k \in DOMAIN c.pin : c.pin[k].buf \in Pin(d)
      BY <2>1, <2>3 DEF Pin
    <3>3. c.ready \in Pin(d)
      BY <2>1, <2>2, <2>3 DEF Pin
    <3> QED BY <3>1, <3>2, <3>3 DEF Pin
  <2>9. c.ready \notin Used(c, t)
    BY <2>5 DEF Piped
  <2>10. Distinct(d, t)
    <3>1. \A k \in DOMAIN c.pin : c.pin[k].buf # c.ready
      BY <2>9 DEF Used, Pin
    <3>2. \A j, k \in DOMAIN d.pin : d.pin[j].buf = d.pin[k].buf => j = k
      BY <2>1, <2>2, <2>3, <3>1 DEF Piped, Distinct
    <3>3. c.ready \notin {t.cur, t.prev}
      BY <2>5, <2>9 DEF Used
    <3>4. \A k \in DOMAIN c.pout : c.ready \notin {c.pout[k].in, c.pout[k].out}
      BY <2>5, <2>9 DEF Used, Ins, Outs
    <3>5. \A k \in DOMAIN d.pin : d.pin[k].buf \notin {t.cur, t.prev}
      BY <2>1, <2>2, <2>3, <3>3 DEF Piped, Distinct
    <3>6. \A j \in DOMAIN d.pin, k \in DOMAIN d.pout :
            d.pin[j].buf \notin {d.pout[k].in, d.pout[k].out}
      BY <2>1, <2>2, <2>3, <2>4, <3>4 DEF Piped, Distinct
    <3> QED BY <2>4, <3>2, <3>5, <3>6 DEF Piped, Distinct
  <2>11. Piped(d, t)
    <3>1. Used(d, t) = Used(c, t) \cup {c.ready}
      BY <2>4, <2>8 DEF Used, Ins, Outs
    <3>2. Number(d, t) = Number(c, t) + 1
      <4>1. Len(d.pin) = Len(c.pin) + 1 /\ Len(c.pin) \in Nat /\ Len(c.pout) \in Nat
        BY <2>1, <2>3 DEF Descriptor
      <4>2. PICK n \in Nat : n = Comparing(t)
        BY DEF Comparing
      <4>3. Number(c, t) = Len(c.pin) + Len(c.pout) + n
        BY <4>2 DEF Number
      <4>4. Number(d, t) = Len(d.pin) + Len(c.pout) + n
        BY <2>4, <4>2 DEF Number
      <4> DEFINE x == Len(d.pin)
                 y == Len(c.pin)
                 z == Len(c.pout)
      <4>5. x = y + 1 /\ y \in Nat /\ z \in Nat
        BY <4>1
      <4> HIDE DEF x, y, z
      <4>6. x + z + n = (y + z + n) + 1
        BY <4>2, <4>5
      <4> QED BY <4>3, <4>4, <4>6 DEF x, y, z
    <3>3. c.processing \in Nat /\ c.busy = Used(c, t) /\ c.processing = Number(c, t)
      BY DEF Piped, Descriptor
    <3> QED BY <1>2, <2>1, <2>4, <2>10, <3>1, <3>2, <3>3 DEF Piped, Chained
  <2>12. Plain(d) => Plain(c)
    <3>1. Plain(d) => ~ c.full
      BY <2>1, <2>2, <2>3 DEF Plain
    <3>2. Plain(d) => \A k \in DOMAIN c.pin : ~ c.pin[k].full
      BY <2>1, <2>3 DEF Plain
    <3> QED BY <3>1, <3>2 DEF Plain
  <2>13. Look(c, t) => Look(d, t)
    BY <2>4 DEF Look, ShowsAt
  <2> QED BY <2>6, <2>7, <2>11, <2>12, <2>13 DEF Works, d
<1> QED BY <1>1, <1>2

LEMMA RefreshOf ==
  ASSUME NEW c, NEW t, Descriptor(c), Kept(c), Comparer(t), Piped(c, t)
  PROVE  Works(c, Refresh(c), t) /\ ~ Plain(Refresh(c)) /\ Refresh(c).kind = c.kind
<1> DEFINE d == Refresh(c)
<1>1. DOMAIN d = Fields /\ d.full = TRUE /\ \A f \in Fields \ {"full"} : d[f] = c[f]
  BY DEF Refresh, Descriptor, Fields
<1> HIDE DEF d
<1>2. /\ d.kind = c.kind /\ d.img = c.img /\ d.done = c.done /\ d.queued = c.queued
      /\ d.ready = c.ready /\ d.busy = c.busy /\ d.processing = c.processing
      /\ d.pin = c.pin /\ d.pout = c.pout /\ d.win = c.win /\ d.fb = c.fb
  BY <1>1 DEF Fields
<1>3. Descriptor(d)
  BY <1>1 DEF Descriptor, Fields
<1>4. Kept(d)
  BY <1>2 DEF Kept, InDone
<1>5. Piped(d, t)
  <2>1. Distinct(d, t)
    BY <1>2 DEF Piped, Distinct
  <2>2. Chained(d, t)
    BY <1>2 DEF Piped, Chained
  <2>3. Used(d, t) = Used(c, t) /\ Number(d, t) = Number(c, t)
    BY <1>2 DEF Used, Pin, Ins, Outs, Number
  <2> QED BY <1>2, <2>1, <2>2, <2>3 DEF Piped
<1>6. Look(c, t) => Look(d, t)
  BY <1>2 DEF Look, ShowsAt
<1> QED BY <1>1, <1>2, <1>3, <1>4, <1>5, <1>6 DEF Works, Plain, d

LEMMA ProcessRefreshOf ==
  ASSUME NEW c, NEW t, Descriptor(c), Kept(c), Comparer(t), Piped(c, t)
  PROVE  Works(c, ProcessRefresh(c), t)
<1>1. CASE c.ready # None
  BY <1>1, QueueOf DEF ProcessRefresh
<1>2. CASE c.ready = None
  <2> DEFINE d == [c EXCEPT !.requested = TRUE]
  <2>1. ProcessRefresh(c) = d
    BY <1>2 DEF ProcessRefresh
  <2>2. /\ Others(c, d, {"requested"}) /\ d.requested = TRUE /\ d.current = c.current
        /\ d.seen = c.seen /\ d.clocks = c.clocks
    BY DEF Descriptor, Others, Fields
  <2>3. /\ c.current \in -1 .. NFiles - 1 /\ c.seen \in -1 .. NFiles - 1 /\ c.clocks \in Nat
        /\ {"requested"} \subseteq Private
    BY DEF Descriptor, Private
  <2> HIDE DEF d
  <2>4. Feeds(c, d)
    BY <2>2, <2>3, SameFeeds
  <2> QED BY <2>1, <2>4, FeedsWorks
<1> QED BY <1>1, <1>2

LEMMA ReadEventOf ==
  ASSUME NEW c, NEW t, Descriptor(c), Kept(c), Comparer(t), Piped(c, t)
  PROVE  Works(c, ReadEvent(c), t)
<1> QED BY QueueOf, WorksNot DEF ReadEvent

LEMMA DeviceReadOf ==
  ASSUME NEW c, NEW t, Descriptor(c), Kept(c), Comparer(t), Piped(c, t)
  PROVE  Works(c, DeviceRead(c), t)
<1> QED BY ReadFileOf, FeedsWorks, WorksNot DEF DeviceRead

(* What the thread returned is copied, and a buffer given back.            *)
LEMMA OutReadOf ==
  ASSUME NEW c, NEW t, Descriptor(c), Kept(c), Comparer(t), Piped(c, t), c.pout # <<>>
  PROVE  Works(c, OutRead(c), t) /\ Head(c.pout) \in Sent
<1> DEFINE m == Head(c.pout)
           b == Taken(c)
           e == GiveBack(b, m)
           d == OutRead(c)
<1>1. /\ Tail(c.pout) \in Seq(Sent) /\ m \in Sent /\ 1 \in DOMAIN c.pout /\ m = c.pout[1]
      /\ Len(Tail(c.pout)) = Len(c.pout) - 1 /\ Len(c.pout) \in Nat \ {0}
      /\ \A k \in DOMAIN Tail(c.pout) :
           k + 1 \in DOMAIN c.pout /\ Tail(c.pout)[k] = c.pout[k + 1]
      /\ \A k \in DOMAIN c.pout :
           k # 1 => k - 1 \in DOMAIN Tail(c.pout) /\ c.pout[k] = Tail(c.pout)[k - 1]
  BY TailOf DEF Descriptor
<1>2. m.in \in Buf /\ m.out \in Buf \cup {None} /\ m.area \in Area
  BY <1>1 DEF Sent
<1>3. Len(c.pin) \in Nat /\ c.processing > 0 /\ c.processing \in Nat
  <2>1. Len(c.pin) \in Nat /\ c.processing \in Nat
    BY DEF Descriptor
  <2>2. PICK n \in Nat : n = Comparing(t)
    BY DEF Comparing
  <2>3. c.processing = Len(c.pin) + Len(c.pout) + n
    BY <2>2 DEF Piped, Number
  <2> DEFINE x == Len(c.pin)
             y == Len(c.pout)
  <2>4. x \in Nat /\ y \in Nat \ {0}
    BY <1>1, <2>1
  <2> HIDE DEF x, y
  <2>5. x + y + n > 0
    BY <2>2, <2>4
  <2> QED BY <2>1, <2>3, <2>5 DEF x, y
<1>4. /\ DOMAIN b = Fields /\ b.pout = Tail(c.pout) /\ b.processing = c.processing - 1
      /\ \A f \in Fields \ {"pout", "processing"} : b[f] = c[f]
  BY <1>3 DEF Taken, Descriptor, Fields
<1>5. Descriptor(b)
  BY <1>1, <1>3, <1>4 DEF Descriptor, Fields
<1>d. d = [e EXCEPT !.fb = Copy(e, m.in, m.area)]
  BY DEF OutRead
<1> HIDE DEF b
<1>6. /\ DOMAIN e = Fields /\ e.busy = c.busy \ {m.out}
      /\ \A i \in Buf : e.img[i] = IF i = m.out THEN None ELSE c.img[i]
      /\ e.img \in [Buf -> Image \cup {None}]
      /\ e.queued = IF c.kind = "stream" THEN c.queued \cup ({m.out} \ {None}) ELSE c.queued
      /\ \A f \in Fields \ {"busy", "img", "queued"} : e[f] = b[f]
  <2>1. b.busy = c.busy /\ b.img = c.img /\ b.queued = c.queued /\ b.kind = c.kind
    BY <1>4 DEF Fields
  <2>2. c.img \in [Buf -> Image \cup {None}] /\ None \notin Buf /\ c.busy \subseteq Buf
    BY NoneAssumption DEF Descriptor
  <2>3. CASE m.out = None
    BY <1>4, <2>1, <2>2, <2>3 DEF GiveBack
  <2>4. CASE m.out # None
    <3> DEFINE a == [b EXCEPT !.busy = @ \ {m.out}]
    <3>1. DOMAIN a = Fields /\ a.busy = c.busy \ {m.out} /\ \A f \in Fields \ {"busy"} : a[f] = b[f]
      BY <1>4, <2>1 DEF Fields
    <3>2. e = QBuf(a, m.out)
      BY <2>4 DEF GiveBack
    <3> HIDE DEF a, e
    <3>3. Descriptor(a)
      BY <1>5, <2>1, <2>2, <3>1 DEF Descriptor, Fields
    <3>4. /\ Others(a, e, {"img", "queued"}) /\ e.img = [a.img EXCEPT ![m.out] = None]
          /\ e.queued = IF a.kind = "stream" THEN a.queued \cup {m.out} ELSE a.queued
      BY <1>2, <2>4, <3>2, <3>3, QBufOf
    <3>5. a.img = c.img /\ a.queued = c.queued /\ a.kind = c.kind
      BY <2>1, <3>1 DEF Fields
    <3>6. DOMAIN e = Fields /\ e.busy = c.busy \ {m.out}
          /\ \A f \in Fields \ {"busy", "img", "queued"} : e[f] = b[f]
      BY <3>1, <3>4 DEF Others, Fields
    <3>7. /\ e.img \in [Buf -> Image \cup {None}]
          /\ \A i \in Buf : e.img[i] = IF i = m.out THEN None ELSE c.img[i]
      BY <1>2, <2>2, <2>4, <3>4, <3>5
    <3>8. e.queued = IF c.kind = "stream" THEN c.queued \cup ({m.out} \ {None}) ELSE c.queued
      BY <2>4, <3>4, <3>5
    <3> QED BY <3>6, <3>7, <3>8
  <2> QED BY <2>3, <2>4
<1> HIDE DEF e, d
<1>7. DOMAIN d = Fields /\ d.fb = Copy(e, m.in, m.area) /\ \A f \in Fields \ {"fb"} : d[f] = e[f]
  BY <1>6, <1>d DEF Fields
<1>8. /\ d.kind = c.kind /\ d.busy = c.busy \ {m.out} /\ d.img = e.img /\ d.pout = Tail(c.pout)
      /\ d.pin = c.pin /\ d.full = c.full /\ d.win = c.win /\ d.done = c.done
      /\ d.ready = c.ready /\ d.processing = c.processing - 1
      /\ d.queued = IF c.kind = "stream" THEN c.queued \cup ({m.out} \ {None}) ELSE c.queued
  BY <1>4, <1>6, <1>7 DEF Fields
<1>9. \A k \in DOMAIN d.pout : k \in Nat \ {0}
  BY <1>1, <1>8
<1>10. DOMAIN c.pout \subseteq Nat \ {0}
  BY DEF Descriptor
<1>t. /\ \A k \in DOMAIN d.pout : k + 1 \in DOMAIN c.pout /\ d.pout[k] = c.pout[k + 1]
      /\ \A k \in DOMAIN c.pout :
           (k = 1 /\ c.pout[k] = m) \/ (k - 1 \in DOMAIN d.pout /\ c.pout[k] = d.pout[k - 1])
  <2>1. d.pout = Tail(c.pout)
    BY <1>8
  <2> HIDE DEF m
  <2>2. \A k \in DOMAIN d.pout : k + 1 \in DOMAIN c.pout /\ d.pout[k] = c.pout[k + 1]
    BY ONLY <1>1, <2>1
  <2>3. \A k \in DOMAIN c.pout :
          (k = 1 /\ c.pout[k] = m) \/ (k - 1 \in DOMAIN d.pout /\ c.pout[k] = d.pout[k - 1])
    <3> SUFFICES ASSUME NEW k \in DOMAIN c.pout
                 PROVE  \/ k = 1 /\ c.pout[k] = m
                        \/ k - 1 \in DOMAIN d.pout /\ c.pout[k] = d.pout[k - 1]
      OBVIOUS
    <3>1. CASE k = 1
      <4>1. c.pout[1] = m
        BY <1>1
      <4>2. c.pout[k] = m
        BY ONLY <3>1, <4>1
      <4> QED BY ONLY <3>1, <4>2
    <3>2. CASE k # 1
      <4>1. k - 1 \in DOMAIN Tail(c.pout) /\ c.pout[k] = Tail(c.pout)[k - 1]
        BY <1>1, <3>2
      <4> QED BY ONLY <2>1, <4>1
    <3> QED BY <3>1, <3>2
  <2> QED BY <2>2, <2>3
<1>11. /\ c.busy = Used(c, t) /\ c.busy \subseteq Buf /\ None \notin Buf /\ Distinct(c, t)
       /\ Chained(c, t)
  BY NoneAssumption DEF Piped, Descriptor
<1>12. m.in # m.out /\ m.in \in c.busy
  <2>1. m.in \in Ins(c)
    BY <1>1 DEF Ins
  <2>2. m.in # m.out
    BY <1>1, <1>11 DEF Distinct
  <2> QED BY <1>11, <2>1, <2>2 DEF Used
<1>13. Ins(c) = Ins(d) \cup {m.in}
  <2>1. \A k \in DOMAIN c.pout : c.pout[k].in \in Ins(d) \cup {m.in}
    BY <1>t DEF Ins
  <2>2. \A k \in DOMAIN d.pout : d.pout[k].in \in Ins(c)
    BY <1>t DEF Ins
  <2> QED BY <1>1, <2>1, <2>2 DEF Ins
<1>14. Outs(c) = Outs(d) \cup ({m.out} \ {None})
  <2>1. \A k \in DOMAIN c.pout : c.pout[k].out \in Outs(d) \cup {m.out, None}
    BY <1>t DEF Outs
  <2>2. \A k \in DOMAIN d.pout : d.pout[k].out \in Outs(c) \cup {None}
    BY <1>t DEF Outs
  <2>3. \A x \in Outs(c) : x # None
    BY DEF Outs
  <2>4. \A x \in Outs(d) : x # None
    BY DEF Outs
  <2>5. Outs(c) \subseteq Outs(d) \cup ({m.out} \ {None})
    BY <2>1 DEF Outs
  <2>6. Outs(d) \subseteq Outs(c)
    BY <2>2 DEF Outs
  <2>7. {m.out} \ {None} \subseteq Outs(c)
    BY <1>1 DEF Outs
  <2> QED BY <2>5, <2>6, <2>7
<1>15. Distinct(d, t)
  <2>1. \A j, k \in DOMAIN d.pout : d.pout[j].in = d.pout[k].in => j = k
    <3> SUFFICES ASSUME NEW j \in DOMAIN d.pout, NEW k \in DOMAIN d.pout,
                        d.pout[j].in = d.pout[k].in
                 PROVE  j = k
      OBVIOUS
    <3>1. j + 1 = k + 1 /\ j \in Nat /\ k \in Nat
      BY <1>t, <1>9, <1>11 DEF Distinct
    <3> QED BY <3>1
  <2>2. \A j, k \in DOMAIN d.pout : d.pout[j].in = d.pout[k].out => k = j + 1
    <3> SUFFICES ASSUME NEW j \in DOMAIN d.pout, NEW k \in DOMAIN d.pout,
                        d.pout[j].in = d.pout[k].out
                 PROVE  k = j + 1
      OBVIOUS
    <3>1. k + 1 = (j + 1) + 1 /\ j \in Nat /\ k \in Nat
      BY <1>t, <1>9, <1>11 DEF Distinct
    <3> QED BY <3>1
  <2>3. \A j \in DOMAIN d.pin, k \in DOMAIN d.pout :
          d.pin[j].buf \notin {d.pout[k].in, d.pout[k].out}
    <3> SUFFICES ASSUME NEW j \in DOMAIN d.pin, NEW k \in DOMAIN d.pout
                 PROVE  d.pin[j].buf \notin {d.pout[k].in, d.pout[k].out}
      OBVIOUS
    <3>1. /\ j \in DOMAIN c.pin /\ d.pin[j] = c.pin[j]
          /\ k + 1 \in DOMAIN c.pout /\ d.pout[k] = c.pout[k + 1]
      BY <1>t, <1>8
    <3>2. c.pin[j].buf \notin {c.pout[k + 1].in, c.pout[k + 1].out}
      BY ONLY <1>11, <3>1 DEF Distinct
    <3> QED BY <3>1, <3>2
  <2>4. t.cur # None => \A k \in DOMAIN d.pout : t.cur \notin {d.pout[k].in, d.pout[k].out}
    BY <1>t, <1>11 DEF Distinct
  <2>5. /\ \A j, k \in DOMAIN d.pin : d.pin[j].buf = d.pin[k].buf => j = k
        /\ \A k \in DOMAIN d.pin : d.pin[k].buf \notin {t.cur, t.prev}
        /\ t.cur # None => t.cur # t.prev
    BY <1>8, <1>11 DEF Distinct
  <2> QED BY ONLY <2>1, <2>2, <2>3, <2>4, <2>5 DEF Distinct
<1>16. Chained(d, t)
  <2>1. \A k \in DOMAIN d.pout : k # 1 => d.pout[k].out = d.pout[k - 1].in
    <3> SUFFICES ASSUME NEW k \in DOMAIN d.pout, k # 1 PROVE d.pout[k].out = d.pout[k - 1].in
      OBVIOUS
    <3>1. /\ d.pout[k] = c.pout[k + 1] /\ k + 1 \in DOMAIN c.pout /\ k + 1 # 1
          /\ (k + 1) - 1 = k /\ k # 1 /\ k \in Nat
      BY <1>1, <1>8, <1>9
    <3>2. c.pout[k + 1].out = c.pout[k].in
      BY <1>11, <3>1 DEF Chained
    <3>3. k \in DOMAIN c.pout
      BY <1>1, <3>1
    <3>4. c.pout[k] = d.pout[k - 1]
      BY <1>1, <1>8, <3>1, <3>3
    <3> QED BY <3>1, <3>2, <3>4
  <2>2. ASSUME d.pout # <<>> PROVE d.pout[Len(d.pout)].in = t.prev
    <3>1. Len(d.pout) \in DOMAIN d.pout /\ Len(d.pout) + 1 = Len(c.pout)
      BY <1>1, <1>8, <2>2
    <3>2. d.pout[Len(d.pout)] = c.pout[Len(c.pout)]
      BY <1>1, <1>8, <3>1
    <3> QED BY <1>1, <1>11, <3>2 DEF Chained
  <2> QED BY <2>1, <2>2 DEF Chained
<1>17. Piped(d, t)
  <2>1. Pin(d) = Pin(c) /\ m.out \notin Pin(c) /\ m.out \notin Ins(d)
    <3>1. m.out \notin Pin(c)
      BY <1>1, <1>11 DEF Pin, Distinct
    <3>2. ASSUME NEW k \in DOMAIN d.pout, d.pout[k].in = m.out PROVE FALSE
      BY <1>1, <1>8, <1>9, <1>11, <3>2 DEF Distinct
    <3> QED BY <1>8, <3>1, <3>2 DEF Pin, Ins
  <2>2. m.out \notin Outs(d)
    <3>1. ASSUME NEW k \in DOMAIN d.pout, d.pout[k].out = m.out, m.out # None PROVE FALSE
      <4>1. k + 1 \in DOMAIN c.pout /\ c.pout[k + 1].out = m.out /\ k \in Nat \ {0}
        BY <1>1, <1>8, <1>9, <3>1
      <4>2. (k + 1) - 1 = k /\ k \in DOMAIN c.pout /\ k + 1 # 1
        BY <1>1, <4>1
      <4>3. c.pout[k].in = m.out
        BY <1>11, <4>1, <4>2 DEF Chained
      <4>4. 1 = k + 1
        BY <1>1, <1>11, <4>2, <4>3 DEF Distinct
      <4> QED BY <4>1, <4>4
    <3> QED BY <3>1 DEF Outs
  <2>3. m.out # None => m.out \notin {t.cur, t.prev}
    <3>1. ASSUME m.out # None, m.out = t.prev PROVE FALSE
      <4>1. Len(c.pout) \in DOMAIN c.pout /\ c.pout[Len(c.pout)].in = m.out
        BY <1>1, <1>11, <3>1 DEF Chained
      <4>2. 1 = Len(c.pout) + 1
        BY <1>1, <1>11, <4>1 DEF Distinct
      <4> QED BY <1>1, <4>2
    <3>2. ASSUME m.out # None, m.out = t.cur PROVE FALSE
      BY <1>1, <1>11, <3>2 DEF Distinct
    <3> QED BY <3>1, <3>2
  <2>4. m.in \in ({t.cur, t.prev} \ {None}) \cup Ins(d) \cup Outs(d)
    <3>1. CASE d.pout = <<>>
      <4>1. Len(c.pout) = 1
        <5> DEFINE x == Len(c.pout)
        <5>1. Tail(c.pout) = <<>>
          BY <1>8, <3>1
        <5>2. x - 1 = 0 /\ x \in Nat
          BY <1>1, <5>1
        <5> HIDE DEF x
        <5>3. x = 1
          BY <5>2
        <5> QED BY <5>3 DEF x
      <4> QED BY <1>1, <1>2, <1>11, <4>1 DEF Chained
    <3>2. CASE d.pout # <<>>
      <4>1. 1 \in DOMAIN d.pout /\ 2 \in DOMAIN c.pout /\ d.pout[1] = c.pout[2]
        BY <1>1, <1>8, <3>2
      <4>2. c.pout[2].out = c.pout[2 - 1].in
        BY <1>11, <4>1 DEF Chained
      <4>3. d.pout[1].out = m.in
        BY <1>1, <4>1, <4>2
      <4> QED BY <1>2, <1>11, <4>1, <4>3 DEF Outs
    <3> QED BY <3>1, <3>2
  <2>5. d.busy = Used(d, t)
    BY <1>8, <1>11, <1>12, <1>13, <1>14, <2>1, <2>2, <2>3, <2>4 DEF Used
  <2>6. Number(d, t) = c.processing - 1
    <3>1. PICK n \in Nat : n = Comparing(t)
      BY DEF Comparing
    <3>2. c.processing = Len(c.pin) + Len(c.pout) + n
      BY <3>1 DEF Piped, Number
    <3>3. Number(d, t) = Len(c.pin) + (Len(c.pout) - 1) + n
      BY <1>1, <1>8, <3>1 DEF Number
    <3> DEFINE x == Len(c.pin)
               y == Len(c.pout)
    <3>4. x \in Nat /\ y \in Nat \ {0}
      BY <1>1, <1>3
    <3> HIDE DEF x, y
    <3>5. x + (y - 1) + n = (x + y + n) - 1
      BY <3>1, <3>4
    <3> QED BY <3>2, <3>3, <3>5 DEF x, y
  <2>7. c.processing <= 2
    BY DEF Piped
  <2> QED BY <1>3, <1>8, <1>15, <1>16, <2>5, <2>6, <2>7 DEF Piped
<1>18. /\ c.img \in [Buf -> Image \cup {None}]
       /\ \A i \in d.busy : i \in Buf /\ d.img[i] = c.img[i] /\ c.img[i] # None
  <2>1. \A i \in c.busy : c.img[i] # None
    BY DEF Kept
  <2>2. c.img \in [Buf -> Image \cup {None}]
    BY DEF Descriptor
  <2> QED BY <1>6, <1>8, <1>11, <2>1, <2>2
<1>19. Kept(d)
  <2>1. /\ c.ready \notin c.busy /\ c.ready \in Buf \cup {None} /\ InDone(d) = InDone(c)
        /\ InDone(c) \subseteq Buf /\ c.queued \subseteq Buf
        /\ \A i \in InDone(c) \cup ({c.ready} \ {None}) : c.img[i] # None
    BY <1>8 DEF Kept, Descriptor, InDone
  <2>2. m.out # None => m.out \in c.busy
    BY <1>11, <1>14 DEF Used
  <2>3. c.kind # "stream" => c.queued = {} /\ c.done = <<>>
    BY DEF Kept
  <2>4. c.kind = "stream" =>
          /\ \A j, k \in DOMAIN c.done : c.done[j] = c.done[k] => j = k
          /\ c.queued \cap InDone(c) = {} /\ c.queued \cap c.busy = {}
          /\ InDone(c) \cap c.busy = {} /\ c.ready \notin c.queued \cup InDone(c)
          /\ Buf \subseteq c.queued \cup InDone(c) \cup c.busy \cup {c.ready}
    BY DEF Kept
  <2>5. InDone(c) \cap c.busy = {}
    <3>1. c.done = <<>> => InDone(c) = {}
      BY DEF InDone
    <3> QED BY <2>3, <2>4, <3>1
  <2>6. \A i \in InDone(d) \cup ({d.ready} \ {None}) : d.img[i] # None
    <3> SUFFICES ASSUME NEW i \in InDone(d) \cup ({d.ready} \ {None}) PROVE d.img[i] # None
      OBVIOUS
    <3>1. i \in Buf /\ i # m.out
      BY <1>8, <1>11, <2>1, <2>2, <2>5
    <3>2. d.img[i] = c.img[i]
      BY <1>6, <1>8, <3>1
    <3> QED BY <1>8, <2>1, <3>2
  <2>7. d.kind = "stream" =>
          /\ \A j, k \in DOMAIN d.done : d.done[j] = d.done[k] => j = k
          /\ d.queued \cap InDone(d) = {} /\ d.queued \cap d.busy = {}
          /\ InDone(d) \cap d.busy = {} /\ d.ready \notin d.queued \cup InDone(d)
          /\ Buf \subseteq d.queued \cup InDone(d) \cup d.busy \cup {d.ready}
    <3> SUFFICES ASSUME c.kind = "stream"
                 PROVE  /\ d.queued \cap InDone(d) = {} /\ d.queued \cap d.busy = {}
                        /\ InDone(d) \cap d.busy = {} /\ d.ready \notin d.queued \cup InDone(d)
                        /\ Buf \subseteq d.queued \cup InDone(d) \cup d.busy \cup {d.ready}
      BY <1>8, <2>4
    <3>1. d.queued = c.queued \cup ({m.out} \ {None})
      BY <1>8
    <3> HIDE DEF m
    <3> QED BY <1>8, <1>11, <2>1, <2>2, <2>4, <3>1
  <2> QED BY <1>8, <1>18, <2>1, <2>3, <2>6, <2>7 DEF Kept
<1>20. d.fb = [k \in Col |-> IF k \in Cols(m.area) THEN c.img[m.in][k] ELSE c.fb[k]]
       /\ d.fb \in [Col -> 0 .. 1]
  <2>1. e.img[m.in] = c.img[m.in] /\ c.img[m.in] # None /\ m.in \in Buf
    BY <1>2, <1>8, <1>12, <1>18
  <2>2. e.fb = c.fb
    BY <1>4, <1>6 DEF Fields
  <2>3. d.fb = [k \in Col |-> IF k \in Cols(m.area) THEN c.img[m.in][k] ELSE c.fb[k]]
    BY <1>7, <2>1, <2>2 DEF Copy, Pixel
  <2>4. c.img[m.in] \in [Col -> 0 .. 1] /\ c.fb \in [Col -> 0 .. 1]
    BY <1>18, <2>1 DEF Image, Descriptor
  <2> HIDE DEF m
  <2> QED BY ONLY <2>3, <2>4
<1>21. Descriptor(d)
  <2>1. d.queued \subseteq Buf
    BY <1>2, <1>8 DEF Descriptor
  <2>2. d.busy \subseteq Buf /\ d.processing \in Nat /\ d.pout \in Seq(Sent)
    BY <1>1, <1>3, <1>8, <1>11
  <2>3. \A f \in Fields \ {"busy", "img", "queued", "fb", "pout", "processing"} : d[f] = c[f]
    BY <1>4, <1>6, <1>7
  <2> QED BY <1>6, <1>7, <1>8, <1>20, <2>1, <2>2, <2>3 DEF Descriptor, Fields
<1>22. ASSUME NEW p \in d.busy, NEW k \in Col, ShowsAt(c, p, k) PROVE ShowsAt(d, p, k)
  <2>1. d.img[p] = c.img[p]
    BY <1>18, <1>22
  <2>2. \A j \in DOMAIN d.pout : d.pout[j].in \in d.busy
    BY <1>17 DEF Piped, Used, Ins
  <2>3. CASE \A j \in DOMAIN c.pout : k \notin Cols(c.pout[j].area)
    <3>1. c.fb[k] = c.img[p][k] /\ k \notin Cols(m.area)
      BY <1>1, <1>22, <2>3 DEF ShowsAt
    <3>2. d.fb[k] = d.img[p][k]
      BY <1>20, <1>22, <2>1, <3>1
    <3>3. \A j \in DOMAIN d.pout : k \notin Cols(d.pout[j].area)
      BY <1>t, <2>3
    <3> QED BY <3>2, <3>3 DEF ShowsAt
  <2>4. ASSUME NEW j \in DOMAIN c.pout, k \in Cols(c.pout[j].area),
               c.img[c.pout[j].in][k] = c.img[p][k],
               \A i \in DOMAIN c.pout : i > j => k \notin Cols(c.pout[i].area)
        PROVE  ShowsAt(d, p, k)
    <3>1. CASE j = 1
      <4>1. d.fb[k] = d.img[p][k]
        BY <1>1, <1>20, <1>22, <2>1, <2>4, <3>1
      <4>2. \A i \in DOMAIN d.pout : i + 1 > 1 /\ i + 1 \in DOMAIN c.pout /\ d.pout[i] = c.pout[i + 1]
        BY <1>1, <1>8, <1>9
      <4> QED BY <2>4, <3>1, <4>1, <4>2 DEF ShowsAt
    <3>2. CASE j # 1
      <4>1. j - 1 \in DOMAIN d.pout /\ d.pout[j - 1] = c.pout[j] /\ j \in Nat
        BY <1>1, <1>8, <1>10, <3>2
      <4>2. d.img[d.pout[j - 1].in][k] = d.img[p][k]
        BY <1>18, <2>1, <2>2, <2>4, <4>1
      <4>3. ASSUME NEW i \in DOMAIN d.pout, i > j - 1 PROVE k \notin Cols(d.pout[i].area)
        <5>1. i + 1 \in DOMAIN c.pout /\ d.pout[i] = c.pout[i + 1] /\ i \in Nat
          BY <1>1, <1>8, <1>9
        <5>2. i + 1 > j
          BY <4>1, <4>3, <5>1
        <5> QED BY <2>4, <5>1, <5>2
      <4> QED BY <2>4, <4>1, <4>2, <4>3 DEF ShowsAt
    <3> QED BY <3>1, <3>2
  <2> QED BY <1>22, <2>3, <2>4 DEF ShowsAt
<1>23. Look(c, t) => Look(d, t)
  <2>1. t.prev # None => t.prev \in d.busy
    BY <1>17 DEF Piped, Used
  <2>2. \A k \in Cols(d.win) : k \in Col
    BY DEF Cols
  <2> QED BY <1>8, <1>22, <2>1, <2>2 DEF Look
<1>24. Plain(d) => Plain(c)
  BY <1>8 DEF Plain
<1> QED BY <1>1, <1>17, <1>19, <1>21, <1>23, <1>24 DEF Works, d, e, b
-----------------------------------------------------------------------------
(* The thread.  It returns a buffer that is in no message yet.             *)
Returned(c, t, d, m) ==
  /\ d.pout \in Seq(Sent) /\ Len(d.pout) = Len(c.pout) + 1 /\ Len(c.pout) \in Nat
  /\ d.pout # <<>> /\ d.pout[Len(d.pout)] = m /\ Len(d.pout) \in DOMAIN d.pout
  /\ \A k \in DOMAIN c.pout : k \in DOMAIN d.pout /\ d.pout[k] = c.pout[k] /\ k < Len(d.pout)
  /\ \A k \in DOMAIN d.pout :
       k = Len(d.pout) \/ (k \in DOMAIN c.pout /\ d.pout[k] = c.pout[k])
  /\ \A j, k \in DOMAIN d.pout : d.pout[j].in = d.pout[k].in => j = k
  /\ \A j, k \in DOMAIN d.pout : d.pout[j].in = d.pout[k].out => k = j + 1
  /\ \A k \in DOMAIN d.pout : k # 1 => d.pout[k].out = d.pout[k - 1].in
  /\ Ins(d) = Ins(c) \cup {m.in} /\ Outs(d) = Outs(c) \cup ({t.prev} \ {None})

LEMMA ReturnOf ==
  ASSUME NEW c, NEW t, Descriptor(c), Comparer(t), Distinct(c, t), Chained(c, t),
         NEW m \in Sent, m.out = t.prev, m.in # m.out,
         \A k \in DOMAIN c.pout : m.in \notin {c.pout[k].in, c.pout[k].out},
         NEW d, d.pout = Append(c.pout, m)
  PROVE  Returned(c, t, d, m)
<1> DEFINE q == Append(c.pout, m)
           L == Len(c.pout) + 1
<1>1. m \in Sent /\ m.out = t.prev
  OBVIOUS
<1>2. /\ q \in Seq(Sent) /\ q # <<>> /\ Len(q) = L /\ q[L] = m /\ Len(c.pout) \in Nat
      /\ L \in DOMAIN q /\ L \in Nat \ {0}
      /\ \A k \in DOMAIN c.pout : k \in DOMAIN q /\ q[k] = c.pout[k] /\ k <= Len(c.pout)
      /\ \A k \in DOMAIN q : k = L \/ (k \in DOMAIN c.pout /\ q[k] = c.pout[k])
      /\ DOMAIN c.pout = 1 .. Len(c.pout)
  <2>1. c.pout \in Seq(Sent) /\ DOMAIN c.pout = 1 .. Len(c.pout)
    BY DEF Descriptor
  <2> QED BY <1>1, <2>1, AppendOf
<1>3. d.pout = q
  OBVIOUS
<1> HIDE DEF q
<1>4. \A k \in DOMAIN c.pout : k # L /\ k < L /\ k \in Nat
  BY <1>2
<1>5. ASSUME NEW j \in DOMAIN c.pout, c.pout[j].in = t.prev PROVE L = j + 1
  <2>1. c.pout # <<>> /\ Len(c.pout) \in DOMAIN c.pout
    BY <1>2, <1>5
  <2>2. c.pout[Len(c.pout)].in = t.prev
    BY <2>1 DEF Chained
  <2>3. j = Len(c.pout)
    BY <1>5, <2>1, <2>2 DEF Distinct
  <2> QED BY <2>3
<1>6. \A j, k \in DOMAIN q : q[j].in = q[k].in => j = k
  <2> SUFFICES ASSUME NEW j \in DOMAIN q, NEW k \in DOMAIN q, q[j].in = q[k].in
               PROVE  j = k
    OBVIOUS
  <2>1. CASE j = L \/ k = L
    BY <1>1, <1>2, <2>1
  <2>2. CASE j # L /\ k # L
    <3>1. /\ j \in DOMAIN c.pout /\ k \in DOMAIN c.pout
          /\ c.pout[j].in = c.pout[k].in
      BY <1>2, <2>2
    <3> QED BY <3>1 DEF Distinct
  <2> QED BY <2>1, <2>2
<1>7. \A j, k \in DOMAIN q : q[j].in = q[k].out => k = j + 1
  <2> SUFFICES ASSUME NEW j \in DOMAIN q, NEW k \in DOMAIN q, q[j].in = q[k].out
               PROVE  k = j + 1
    OBVIOUS
  <2>1. CASE j = L
    BY <1>1, <1>2, <2>1
  <2>2. CASE j # L /\ k = L
    BY <1>1, <1>2, <1>5, <2>2
  <2>3. CASE j # L /\ k # L
    <3>1. /\ j \in DOMAIN c.pout /\ k \in DOMAIN c.pout
          /\ c.pout[j].in = c.pout[k].out
      BY <1>2, <2>3
    <3> QED BY <3>1 DEF Distinct
  <2> QED BY <2>1, <2>2, <2>3
<1>8. \A k \in DOMAIN q : k # 1 => q[k].out = q[k - 1].in
  <2> SUFFICES ASSUME NEW k \in DOMAIN q, k # 1 PROVE q[k].out = q[k - 1].in
    OBVIOUS
  <2>1. CASE k = L
    <3>1. k - 1 = Len(c.pout) /\ k - 1 \in DOMAIN c.pout /\ c.pout # <<>>
      BY <1>2, <2>1
    <3>2. q[k - 1].in = t.prev
      BY <1>2, <3>1 DEF Chained
    <3> QED BY <1>1, <1>2, <2>1, <3>2
  <2>2. CASE k # L
    <3>1. k \in DOMAIN c.pout /\ k - 1 \in DOMAIN c.pout
      BY <1>2, <2>2
    <3>2. q[k] = c.pout[k] /\ q[k - 1] = c.pout[k - 1]
      BY <1>2, <3>1
    <3> QED BY <3>1, <3>2 DEF Chained
  <2> QED BY <2>1, <2>2
<1>9. Ins(d) = Ins(c) \cup {m.in}
  <2>1. \A k \in DOMAIN q : q[k].in \in Ins(c) \cup {m.in}
    BY <1>1, <1>2 DEF Ins
  <2>2. \A k \in DOMAIN c.pout : c.pout[k].in \in Ins(d)
    BY <1>2, <1>3 DEF Ins
  <2>3. m.in \in Ins(d)
    BY <1>1, <1>2, <1>3 DEF Ins
  <2> QED BY <1>3, <2>1, <2>2, <2>3 DEF Ins
<1>10. Outs(d) = Outs(c) \cup ({t.prev} \ {None})
  <2>1. \A k \in DOMAIN q : q[k].out \in Outs(c) \cup {t.prev, None}
    BY <1>1, <1>2 DEF Outs
  <2>2. \A k \in DOMAIN c.pout : c.pout[k].out \in Outs(d) \cup {None}
    BY <1>2, <1>3 DEF Outs
  <2>3. t.prev \in Outs(d) \cup {None}
    BY <1>1, <1>2, <1>3 DEF Outs
  <2>4. \A x \in Outs(d) : x # None /\ x \in Outs(c) \cup {t.prev, None}
    BY <1>3, <2>1 DEF Outs
  <2>5. \A x \in Outs(c) : x # None /\ x \in Outs(d) \cup {None}
    BY <2>2 DEF Outs
  <2> QED BY <2>3, <2>4, <2>5
<1> HIDE DEF L
<1>12. /\ Len(q) = L /\ q[Len(q)] = m /\ Len(q) \in DOMAIN q
  BY <1>2
<1>13. \A k \in DOMAIN c.pout : k \in DOMAIN q /\ q[k] = c.pout[k] /\ k < Len(q)
  BY <1>2, <1>4
<1>14. \A k \in DOMAIN q : k = Len(q) \/ (k \in DOMAIN c.pout /\ q[k] = c.pout[k])
  BY <1>2
<1>15. Len(q) = Len(c.pout) + 1
  BY <1>2 DEF L
<1> QED BY ONLY <1>2, <1>3, <1>6, <1>7, <1>8, <1>9, <1>10, <1>12, <1>13, <1>14, <1>15 DEF Returned

(* What a step of the thread keeps.                                        *)
Turns(c, t, d, u) ==
  /\ Descriptor(d) /\ Comparer(u) /\ Kept(d) /\ Piped(d, u)
  /\ (Plain(c) => Look(c, t)) => (Plain(d) => Look(d, u))

(* The thread changes nothing of the device.                               *)
LEMMA SameKept ==
  ASSUME NEW c, Descriptor(c), Kept(c), NEW d, Others(c, d, {"pin", "pout"}),
         d.pin \in Seq(Asked), d.pout \in Seq(Sent)
  PROVE  /\ Descriptor(d) /\ Kept(d) /\ d.busy = c.busy /\ d.processing = c.processing
         /\ d.win = c.win /\ d.img = c.img /\ d.fb = c.fb /\ d.full = c.full
<1>1. DOMAIN d = Fields /\ \A f \in Fields \ {"pin", "pout"} : d[f] = c[f]
  BY DEF Others
<1>2. Descriptor(d)
  BY <1>1 DEF Descriptor, Fields
<1>3. /\ d.kind = c.kind /\ d.img = c.img /\ d.ready = c.ready /\ d.busy = c.busy
      /\ d.done = c.done /\ d.queued = c.queued /\ d.processing = c.processing
      /\ d.win = c.win /\ d.fb = c.fb /\ d.full = c.full
  BY <1>1 DEF Fields
<1>4. Kept(d)
  BY <1>3 DEF Kept, InDone
<1> QED BY <1>2, <1>3, <1>4

(* The number of the frames under way: three numbers.                      *)
LEMMA NumberOf ==
  ASSUME NEW c, NEW t, NEW i \in Nat, NEW j \in Nat, NEW k \in Nat,
         Len(c.pin) = i, Len(c.pout) = j, Comparing(t) = k
  PROVE  Number(c, t) = i + j + k
<1> QED BY DEF Number

(* The thread takes the oldest message of its queue.                       *)
Taking(c, d, m) ==
  /\ d.pin \in Seq(Asked) /\ m \in Asked
  /\ Len(c.pin) \in Nat \ {0} /\ Len(d.pin) = Len(c.pin) - 1
  /\ \A k \in DOMAIN d.pin : d.pin[k].buf # m.buf
       /\ \E j \in DOMAIN c.pin : d.pin[k] = c.pin[j]
  /\ \A j, k \in DOMAIN d.pin : d.pin[j].buf = d.pin[k].buf => j = k
  /\ Pin(c) = Pin(d) \cup {m.buf}
  /\ \E j \in DOMAIN c.pin : m = c.pin[j]
  /\ \A j \in DOMAIN c.pin : c.pin[j] = m
                             \/ \E k \in DOMAIN d.pin : c.pin[j] = d.pin[k]

LEMMA TakenOf ==
  ASSUME NEW c, NEW t, Descriptor(c), Distinct(c, t), c.pin # <<>>,
         NEW d, d.pin = Tail(c.pin)
  PROVE  Taking(c, d, Head(c.pin))
<1> DEFINE q == Tail(c.pin)
           m == Head(c.pin)
<1>1. /\ q \in Seq(Asked) /\ m \in Asked /\ 1 \in DOMAIN c.pin /\ m = c.pin[1]
      /\ Len(q) = Len(c.pin) - 1 /\ Len(c.pin) \in Nat \ {0}
      /\ \A k \in DOMAIN q : k + 1 \in DOMAIN c.pin /\ q[k] = c.pin[k + 1]
      /\ \A k \in DOMAIN c.pin : k # 1 => k - 1 \in DOMAIN q /\ c.pin[k] = q[k - 1]
  BY TailOf DEF Descriptor
<1>2. d.pin = q
  OBVIOUS
<1>3. \A k \in DOMAIN q : k \in Nat \ {0}
  BY <1>1
<1> HIDE DEF q, m
<1>4. \A j, k \in DOMAIN c.pin : c.pin[j].buf = c.pin[k].buf => j = k
  BY DEF Distinct
<1>5. \A j, k \in DOMAIN q : q[j].buf = q[k].buf => j = k
  <2> SUFFICES ASSUME NEW j \in DOMAIN q, NEW k \in DOMAIN q, q[j].buf = q[k].buf PROVE j = k
    OBVIOUS
  <2>1. j + 1 = k + 1 /\ j \in Nat /\ k \in Nat
    BY <1>1, <1>3, <1>4
  <2> QED BY <2>1
<1>6. \A k \in DOMAIN q : q[k].buf # m.buf /\ \E j \in DOMAIN c.pin : q[k] = c.pin[j]
  BY <1>1, <1>3, <1>4
<1>7. Pin(c) = Pin(d) \cup {m.buf}
  <2>1. \A k \in DOMAIN c.pin : c.pin[k].buf \in Pin(d) \cup {m.buf}
    BY <1>1, <1>2 DEF Pin
  <2>2. \A k \in DOMAIN q : q[k].buf \in Pin(c)
    BY <1>6 DEF Pin
  <2>3. m.buf \in Pin(c)
    BY <1>1 DEF Pin
  <2> QED BY <1>2, <2>1, <2>2, <2>3 DEF Pin
<1>8. \E j \in DOMAIN c.pin : m = c.pin[j]
  BY <1>1
<1>9. \A j \in DOMAIN c.pin : c.pin[j] = m \/ \E k \in DOMAIN q : c.pin[j] = q[k]
  BY <1>1
<1> QED BY ONLY <1>1, <1>2, <1>5, <1>6, <1>7, <1>8, <1>9 DEF m, Taking

(* A message that asks for the whole image.                                *)
LEMMA TakeWholeOf ==
  ASSUME NEW c, NEW t, Descriptor(c), Comparer(t), Kept(c), Piped(c, t),
         t.pc = "idle", c.pin # <<>>,
         NEW d, Others(c, d, {"pin", "pout"}), d.pin = Tail(c.pin),
         d.pout = Append(c.pout, [in |-> Head(c.pin).buf, out |-> t.prev, area |-> Whole]),
         NEW u, u = [t EXCEPT !.prev = Head(c.pin).buf]
  PROVE  Turns(c, t, d, u)
<1> DEFINE m == Head(c.pin)
<1>1. /\ DOMAIN u = DOMAIN t /\ u.prev = m.buf /\ u.pc = "idle" /\ u.cur = None /\ u.win = t.win
      /\ t.cur = None
  BY DEF Comparer
<1>2. /\ Others(c, d, {"pin", "pout"}) /\ d.pin = Tail(c.pin)
      /\ d.pout = Append(c.pout, [in |-> m.buf, out |-> t.prev, area |-> Whole])
  OBVIOUS
<1>3. Distinct(c, t) /\ Chained(c, t) /\ c.busy = Used(c, t) /\ c.processing = Number(c, t)
      /\ c.processing <= 2
  BY DEF Piped
<1>4. /\ d.pin \in Seq(Asked) /\ m \in Asked
      /\ Len(c.pin) \in Nat \ {0} /\ Len(d.pin) = Len(c.pin) - 1
      /\ \A k \in DOMAIN d.pin : d.pin[k].buf # m.buf
           /\ \E j \in DOMAIN c.pin : d.pin[k] = c.pin[j]
      /\ \A j, k \in DOMAIN d.pin : d.pin[j].buf = d.pin[k].buf => j = k
      /\ Pin(c) = Pin(d) \cup {m.buf}
      /\ \E j \in DOMAIN c.pin : m = c.pin[j]
  <2>1. Taking(c, d, m)
    BY <1>2, <1>3, TakenOf
  <2> HIDE DEF m
  <2> QED BY ONLY <2>1 DEF Taking
<1> HIDE DEF m
<1>5. /\ m.buf \in Buf /\ m.buf # t.prev
      /\ \A k \in DOMAIN c.pout : m.buf \notin {c.pout[k].in, c.pout[k].out}
  BY <1>3, <1>4 DEF Asked, Distinct
<1> DEFINE r == [in |-> m.buf, out |-> t.prev, area |-> Whole]
<1>6. r \in Sent /\ r.in = m.buf /\ r.out = t.prev /\ r.area = Whole
  <2>1. Whole \in Area
    BY FrameAssumption DEF Whole, Area
  <2> QED BY <1>5, <2>1 DEF Sent, Comparer
<1>r. d.pout = Append(c.pout, r)
  BY <1>2
<1> HIDE DEF r
<1>7. /\ d.pout \in Seq(Sent) /\ Len(d.pout) = Len(c.pout) + 1 /\ Len(c.pout) \in Nat
      /\ d.pout # <<>> /\ d.pout[Len(d.pout)] = r /\ Len(d.pout) \in DOMAIN d.pout
      /\ \A k \in DOMAIN d.pout :
           k = Len(d.pout) \/ (k \in DOMAIN c.pout /\ d.pout[k] = c.pout[k])
      /\ \A j, k \in DOMAIN d.pout : d.pout[j].in = d.pout[k].in => j = k
      /\ \A j, k \in DOMAIN d.pout : d.pout[j].in = d.pout[k].out => k = j + 1
      /\ \A k \in DOMAIN d.pout : k # 1 => d.pout[k].out = d.pout[k - 1].in
      /\ Ins(d) = Ins(c) \cup {r.in} /\ Outs(d) = Outs(c) \cup ({t.prev} \ {None})
  <2>1. /\ r \in Sent /\ r.out = t.prev /\ r.in # r.out
        /\ \A k \in DOMAIN c.pout : r.in \notin {c.pout[k].in, c.pout[k].out}
    BY <1>5, <1>6
  <2>2. Returned(c, t, d, r)
    BY <1>3, <1>r, <2>1, ReturnOf
  <2> QED BY ONLY <2>2 DEF Returned
<1>8. /\ Descriptor(d) /\ Kept(d) /\ d.busy = c.busy /\ d.processing = c.processing
      /\ d.win = c.win /\ d.img = c.img /\ d.fb = c.fb
  <2>1. d.pin \in Seq(Asked) /\ d.pout \in Seq(Sent)
    BY <1>4, <1>7
  <2> QED BY <1>2, <2>1, SameKept
<1>9. None \notin Buf
  BY NoneAssumption
<1>10. Comparer(u)
  BY <1>1, <1>5 DEF Comparer
<1>11. Distinct(d, u)
  <2>1. \A k \in DOMAIN d.pin : d.pin[k].buf \notin {u.cur, u.prev}
    <3>1. \A k \in DOMAIN d.pin : d.pin[k].buf # t.cur
      BY <1>3, <1>4 DEF Distinct
    <3> QED BY <1>1, <1>4, <3>1
  <2>2. ASSUME NEW j \in DOMAIN d.pin, NEW k \in DOMAIN d.pout
        PROVE  d.pin[j].buf # d.pout[k].in /\ d.pin[j].buf # d.pout[k].out
    <3>1. PICK i \in DOMAIN c.pin : d.pin[j] = c.pin[i]
      BY <1>4
    <3>2. CASE k # Len(d.pout)
      <4>1. k \in DOMAIN c.pout /\ d.pout[k] = c.pout[k]
        BY <1>7, <3>2
      <4>2. c.pin[i].buf \notin {c.pout[k].in, c.pout[k].out}
        BY <1>3, <4>1 DEF Distinct
      <4> QED BY <3>1, <4>1, <4>2
    <3>3. CASE k = Len(d.pout)
      <4>1. d.pout[k].in = m.buf /\ d.pout[k].out = t.prev
        BY <1>6, <1>7, <3>3
      <4>2. c.pin[i].buf # t.prev
        BY <1>3 DEF Distinct
      <4>3. d.pin[j].buf # m.buf
        BY <1>4
      <4> QED BY <3>1, <4>1, <4>2, <4>3
    <3> QED BY <3>2, <3>3
  <2>3. \A j \in DOMAIN d.pin, k \in DOMAIN d.pout :
          d.pin[j].buf \notin {d.pout[k].in, d.pout[k].out}
    BY <2>2
  <2> QED BY <1>1, <1>4, <1>7, <2>1, <2>3 DEF Distinct
<1>12. Chained(d, u)
  BY <1>1, <1>6, <1>7 DEF Chained
<1>13. Used(d, u) = Used(c, t)
  BY <1>1, <1>4, <1>5, <1>6, <1>7, <1>9 DEF Used
<1>14. Number(d, u) = Number(c, t)
  <2> DEFINE i == Len(c.pin)
             j == Len(c.pout)
             x == Len(d.pin)
             y == Len(d.pout)
  <2>1. i \in Nat \ {0} /\ j \in Nat /\ x = i - 1 /\ y = j + 1
    BY <1>4, <1>7
  <2>2. Comparing(t) = 0 /\ Comparing(u) = 0
    BY <1>1 DEF Comparing
  <2>3. Number(c, t) = i + j + 0 /\ Number(d, u) = x + y + 0
    BY <2>2 DEF Number
  <2> HIDE DEF i, j, x, y
  <2> QED BY <2>1, <2>3
<1>15. Look(d, u)
  <2>1. ASSUME NEW k \in Cols(d.win) PROVE ShowsAt(d, u.prev, k)
    <3>1. k \in Col /\ k \in Cols(Whole)
      BY FrameAssumption DEF Cols, Whole, Col
    <3>2. \A i \in DOMAIN d.pout : ~ (i > Len(d.pout))
      <4>1. d.pout \in Seq(Sent)
        BY <1>7
      <4> QED BY <4>1
    <3> QED BY <1>1, <1>6, <1>7, <3>1, <3>2 DEF ShowsAt
  <2> QED BY <1>1, <2>1 DEF Look
<1>16. Piped(d, u)
  BY <1>3, <1>8, <1>11, <1>12, <1>13, <1>14 DEF Piped
<1> QED BY <1>8, <1>10, <1>15, <1>16 DEF Turns

(* A message that makes the thread compare.                                *)
LEMMA TakeCompareOf ==
  ASSUME NEW c, NEW t, Descriptor(c), Comparer(t), Kept(c), Piped(c, t),
         t.pc = "idle", c.pin # <<>>, t.prev # None, ~ Head(c.pin).full,
         NEW d, Others(c, d, {"pin", "pout"}), d.pin = Tail(c.pin), d.pout = c.pout,
         NEW u, u = [t EXCEPT !.pc = "compare", !.cur = Head(c.pin).buf, !.win = c.win]
  PROVE  Turns(c, t, d, u)
<1> DEFINE m == Head(c.pin)
<1>1. /\ DOMAIN u = DOMAIN t /\ u.prev = t.prev /\ u.pc = "compare" /\ u.cur = m.buf
      /\ u.win = c.win /\ t.cur = None /\ ~ m.full
  BY DEF Comparer
<1>2. Distinct(c, t) /\ Chained(c, t) /\ c.busy = Used(c, t) /\ c.processing = Number(c, t)
      /\ c.processing <= 2
  BY DEF Piped
<1>3. /\ d.pin \in Seq(Asked) /\ m \in Asked
      /\ Len(c.pin) \in Nat \ {0} /\ Len(d.pin) = Len(c.pin) - 1
      /\ \A k \in DOMAIN d.pin : d.pin[k].buf # m.buf
           /\ \E j \in DOMAIN c.pin : d.pin[k] = c.pin[j]
      /\ \A j, k \in DOMAIN d.pin : d.pin[j].buf = d.pin[k].buf => j = k
      /\ Pin(c) = Pin(d) \cup {m.buf}
      /\ \E j \in DOMAIN c.pin : m = c.pin[j]
      /\ \A j \in DOMAIN c.pin : c.pin[j] = m \/ \E k \in DOMAIN d.pin : c.pin[j] = d.pin[k]
  <2>1. Taking(c, d, m)
    BY <1>2, TakenOf
  <2> HIDE DEF m
  <2> QED BY ONLY <2>1 DEF Taking
<1> HIDE DEF m
<1>4. /\ m.buf \in Buf /\ m.buf # t.prev
      /\ \A k \in DOMAIN c.pout : m.buf \notin {c.pout[k].in, c.pout[k].out}
  BY <1>2, <1>3 DEF Asked, Distinct
<1>5. /\ Descriptor(d) /\ Kept(d) /\ d.busy = c.busy /\ d.processing = c.processing
      /\ d.win = c.win /\ d.img = c.img /\ d.fb = c.fb /\ d.full = c.full
  <2>1. d.pout \in Seq(Sent)
    BY DEF Descriptor
  <2> QED BY <1>3, <2>1, SameKept
<1>6. Comparer(u)
  <2>1. c.win \in Window /\ m.buf # None
    BY <1>4, NoneAssumption DEF Descriptor
  <2> QED BY <1>1, <1>4, <2>1 DEF Comparer
<1>7. Distinct(d, u)
  <2>1. \A k \in DOMAIN d.pin : d.pin[k].buf \notin {u.cur, u.prev}
    <3>1. \A j \in DOMAIN c.pin : c.pin[j].buf # t.prev
      BY <1>2 DEF Distinct
    <3> QED BY <1>1, <1>3, <3>1
  <2>2. ASSUME NEW j \in DOMAIN d.pin, NEW k \in DOMAIN d.pout
        PROVE  d.pin[j].buf \notin {d.pout[k].in, d.pout[k].out}
    <3>1. PICK i \in DOMAIN c.pin : d.pin[j] = c.pin[i]
      BY <1>3
    <3> QED BY <1>2, <3>1 DEF Distinct
  <2>3. \A j, k \in DOMAIN d.pout : d.pout[j].in = d.pout[k].in => j = k
    BY <1>2 DEF Distinct
  <2>4. \A j, k \in DOMAIN d.pout : d.pout[j].in = d.pout[k].out => k = j + 1
    BY <1>2 DEF Distinct
  <2>5. \A k \in DOMAIN d.pout : u.cur \notin {d.pout[k].in, d.pout[k].out}
    BY <1>1, <1>4
  <2> QED BY <1>1, <1>3, <1>4, <2>1, <2>2, <2>3, <2>4, <2>5 DEF Distinct
<1>8. Chained(d, u)
  BY <1>1, <1>2 DEF Chained
<1>9. Used(d, u) = Used(c, t)
  <2>1. Ins(d) = Ins(c) /\ Outs(d) = Outs(c) /\ m.buf # None
    BY <1>4, NoneAssumption DEF Ins, Outs
  <2> QED BY <1>1, <1>3, <2>1 DEF Used
<1>10. Number(d, u) = Number(c, t)
  <2> DEFINE i == Len(c.pin)
             j == Len(c.pout)
             x == Len(d.pin)
  <2>1. i \in Nat \ {0} /\ j \in Nat /\ x = i - 1
    BY <1>3 DEF Descriptor
  <2>2. Comparing(t) = 0 /\ Comparing(u) = 1
    BY <1>1 DEF Comparing
  <2>3. Number(c, t) = i + j + 0 /\ Number(d, u) = x + j + 1
    BY <2>2 DEF Number
  <2> HIDE DEF i, j, x
  <2> QED BY <2>1, <2>3
<1>11. Plain(d) => Plain(c)
  BY <1>1, <1>3, <1>5 DEF Plain
<1>12. Look(c, t) => Look(d, u)
  <2>1. ASSUME NEW p, NEW k, ShowsAt(c, p, k) PROVE ShowsAt(d, p, k)
    BY <1>5, <2>1 DEF ShowsAt
  <2> QED BY <1>1, <1>5, <2>1 DEF Look
<1>13. Piped(d, u)
  BY <1>2, <1>5, <1>7, <1>8, <1>9, <1>10 DEF Piped
<1> QED BY <1>5, <1>6, <1>11, <1>12, <1>13 DEF Turns

(* The end of a comparison: the columns out of the area are the same in    *)
(* the two images.                                                         *)
Compared(c, t, g) ==
  t.win = c.win => \A k \in Cols(c.win) : k \in Cols(g) \/ c.img[t.cur][k] = c.img[t.prev][k]

LEMMA CompareOf ==
  ASSUME NEW c, NEW t, Descriptor(c), Comparer(t), Kept(c), Piped(c, t),
         t.pc = "compare", NEW g \in Area, Compared(c, t, g),
         NEW d, Others(c, d, {"pin", "pout"}), d.pin = c.pin,
         d.pout = Append(c.pout, [in |-> t.cur, out |-> t.prev, area |-> g]),
         NEW u, u = [t EXCEPT !.pc = "idle", !.prev = t.cur, !.cur = None, !.win = Whole]
  PROVE  Turns(c, t, d, u)
<1>1. /\ DOMAIN u = DOMAIN t /\ u.prev = t.cur /\ u.pc = "idle" /\ u.cur = None
      /\ u.win = Whole /\ t.cur # None /\ t.prev # None /\ t.cur \in Buf /\ t.prev \in Buf
  BY DEF Comparer
<1>2. Distinct(c, t) /\ Chained(c, t) /\ c.busy = Used(c, t) /\ c.processing = Number(c, t)
      /\ c.processing <= 2
  BY DEF Piped
<1> DEFINE r == [in |-> t.cur, out |-> t.prev, area |-> g]
<1>3. r \in Sent /\ r.in = t.cur /\ r.out = t.prev /\ r.area = g
  BY <1>1 DEF Sent
<1>r. d.pout = Append(c.pout, r)
  OBVIOUS
<1> HIDE DEF r
<1>4. Returned(c, t, d, r)
  <2>1. /\ r \in Sent /\ r.out = t.prev /\ r.in # r.out
        /\ \A k \in DOMAIN c.pout : r.in \notin {c.pout[k].in, c.pout[k].out}
    BY <1>1, <1>2, <1>3 DEF Distinct
  <2> QED BY <1>2, <1>r, <2>1, ReturnOf
<1>5. /\ Descriptor(d) /\ Kept(d) /\ d.busy = c.busy /\ d.processing = c.processing
      /\ d.win = c.win /\ d.img = c.img /\ d.fb = c.fb /\ d.full = c.full
  <2>1. d.pin \in Seq(Asked) /\ d.pout \in Seq(Sent)
    BY <1>4 DEF Descriptor, Returned
  <2> QED BY <2>1, SameKept
<1>6. Comparer(u)
  <2>1. Whole \in Window
    BY FrameAssumption DEF Whole, Window, Col
  <2> QED BY <1>1, <2>1 DEF Comparer
<1>7. Distinct(d, u)
  <2>1. \A k \in DOMAIN d.pin : d.pin[k].buf \notin {u.cur, u.prev}
    <3>1. \A k \in DOMAIN d.pin : d.pin[k].buf # t.cur /\ d.pin[k].buf \in Buf
      <4>1. c.pin \in Seq(Asked)
        BY DEF Descriptor
      <4>2. \A k \in DOMAIN c.pin : c.pin[k] \in Asked
        BY <4>1
      <4>3. \A k \in DOMAIN c.pin : c.pin[k].buf # t.cur
        BY <1>2 DEF Distinct
      <4> QED BY <4>2, <4>3 DEF Asked
    <3>2. None \notin Buf
      BY NoneAssumption
    <3> QED BY <1>1, <3>1, <3>2
  <2>2. ASSUME NEW j \in DOMAIN d.pin, NEW k \in DOMAIN d.pout
        PROVE  d.pin[j].buf \notin {d.pout[k].in, d.pout[k].out}
    <3>1. CASE k = Len(d.pout)
      <4>1. d.pout[k].in = t.cur /\ d.pout[k].out = t.prev
        BY <1>3, <1>4, <3>1 DEF Returned
      <4>2. c.pin[j].buf \notin {t.cur, t.prev}
        BY <1>2 DEF Distinct
      <4> QED BY <4>1, <4>2
    <3>2. CASE k # Len(d.pout)
      <4>1. k \in DOMAIN c.pout /\ d.pout[k] = c.pout[k]
        BY <1>4, <3>2 DEF Returned
      <4>2. c.pin[j].buf \notin {c.pout[k].in, c.pout[k].out}
        BY <1>2, <4>1 DEF Distinct
      <4> QED BY <4>1, <4>2
    <3> QED BY <3>1, <3>2
  <2>3. \A j, k \in DOMAIN d.pout : d.pout[j].in = d.pout[k].in => j = k
    BY <1>4 DEF Returned
  <2>4. \A j, k \in DOMAIN d.pout : d.pout[j].in = d.pout[k].out => k = j + 1
    BY <1>4 DEF Returned
  <2>5. \A j, k \in DOMAIN d.pin : d.pin[j].buf = d.pin[k].buf => j = k
    BY <1>2 DEF Distinct
  <2> QED BY <1>1, <2>1, <2>2, <2>3, <2>4, <2>5 DEF Distinct
<1>8. Chained(d, u)
  BY <1>1, <1>3, <1>4 DEF Chained, Returned
<1>9. Used(d, u) = Used(c, t)
  <2>1. /\ Ins(d) = Ins(c) \cup {t.cur} /\ Outs(d) = Outs(c) \cup ({t.prev} \ {None})
        /\ Pin(d) = Pin(c)
    BY <1>3, <1>4 DEF Returned, Pin
  <2> QED BY <1>1, <2>1 DEF Used
<1>10. Number(d, u) = Number(c, t)
  <2> DEFINE i == Len(c.pin)
             j == Len(c.pout)
             x == Len(d.pout)
  <2>1. i \in Nat /\ j \in Nat /\ x = j + 1
    BY <1>4 DEF Descriptor, Returned
  <2>2. Comparing(t) = 1 /\ Comparing(u) = 0
    BY <1>1 DEF Comparing
  <2>3. Number(c, t) = i + j + 1 /\ Number(d, u) = i + x + 0
    BY <2>2 DEF Number
  <2> HIDE DEF i, j, x
  <2> QED BY <2>1, <2>3
<1>11. Plain(d) => Plain(c)
  BY <1>5 DEF Plain
<1>12. ASSUME Look(c, t), NEW k \in Cols(d.win) PROVE ShowsAt(d, u.prev, k)
  <2>1. ShowsAt(c, t.prev, k)
    BY <1>1, <1>5, <1>12 DEF Look
  <2>2. CASE k \in Cols(g)
    <3>1. Len(d.pout) \in DOMAIN d.pout /\ k \in Cols(d.pout[Len(d.pout)].area)
      BY <1>3, <1>4, <2>2 DEF Returned
    <3>2. d.pout[Len(d.pout)].in = u.prev
      BY <1>1, <1>3, <1>4 DEF Returned
    <3>3. \A i \in DOMAIN d.pout : ~ (i > Len(d.pout))
      <4>1. d.pout \in Seq(Sent)
        BY <1>4 DEF Returned
      <4> QED BY <4>1
    <3> QED BY <3>1, <3>2, <3>3 DEF ShowsAt
  <2>3. CASE k \notin Cols(g)
    <3>1. d.img[u.prev][k] = c.img[t.prev][k]
      BY <1>1, <1>5, <1>12, <2>3 DEF Compared, Look
    <3>2. k \notin Cols(d.pout[Len(d.pout)].area)
      BY <1>3, <1>4, <2>3 DEF Returned
    <3>3. CASE \A j \in DOMAIN c.pout : k \notin Cols(c.pout[j].area)
      <4>1. c.fb[k] = c.img[t.prev][k]
        BY <2>1, <3>3 DEF ShowsAt
      <4>2. \A j \in DOMAIN d.pout : k \notin Cols(d.pout[j].area)
        BY <1>4, <3>2, <3>3 DEF Returned
      <4> QED BY <1>5, <3>1, <4>1, <4>2 DEF ShowsAt
    <3>4. CASE ~ \A j \in DOMAIN c.pout : k \notin Cols(c.pout[j].area)
      <4>1. PICK j \in DOMAIN c.pout :
              /\ k \in Cols(c.pout[j].area) /\ c.img[c.pout[j].in][k] = c.img[t.prev][k]
              /\ \A i \in DOMAIN c.pout : i > j => k \notin Cols(c.pout[i].area)
        BY <2>1, <3>4 DEF ShowsAt
      <4>2. j \in DOMAIN d.pout /\ d.pout[j] = c.pout[j]
        BY <1>4, <4>1 DEF Returned
      <4>3. \A i \in DOMAIN d.pout : i > j => k \notin Cols(d.pout[i].area)
        BY <1>4, <3>2, <4>1 DEF Returned
      <4> QED BY <1>5, <3>1, <4>1, <4>2, <4>3 DEF ShowsAt
    <3> QED BY <3>3, <3>4
  <2> QED BY <2>2, <2>3
<1>13. Look(c, t) => Look(d, u)
  BY <1>1, <1>12 DEF Look
<1>14. Piped(d, u)
  BY <1>2, <1>5, <1>7, <1>8, <1>9, <1>10 DEF Piped
<1> QED BY <1>5, <1>6, <1>11, <1>13, <1>14 DEF Turns

(* The area holds the columns that differ.                                 *)
LEMMA HullOf ==
  ASSUME NEW x \in Col, NEW w \in 1 .. Width, NEW D, D \subseteq 0 .. w - 1
  PROVE  /\ Hull(x, D) \in Area
         /\ \A j \in D : x + j \in Col => x + j \in Cols(Hull(x, D))
<1>1. x \in Nat /\ w \in Nat \ {0}
  BY FrameAssumption DEF Col
<1>2. CASE D = {}
  BY <1>2 DEF Hull, Nothing, Area
<1>3. CASE D # {}
  <2> DEFINE a == Min(D)
             b == Max(D)
  <2>1. D \subseteq Nat /\ D \subseteq 0 .. w - 1 /\ w - 1 \in Nat
    BY <1>1
  <2>2. a \in D /\ \A j \in D : a <= j
    BY <1>3, <2>1, MinOf
  <2>3. b \in D /\ \A j \in D : b >= j
    BY <1>3, <2>1, MaxOf
  <2>4. Hull(x, D) = [x |-> x + a, w |-> b - a + 1]
    BY <1>3 DEF Hull
  <2> HIDE DEF a, b
  <2>5. a \in Nat /\ b \in Nat /\ a <= b
    BY <2>1, <2>2, <2>3
  <2>6. Hull(x, D) \in Area
    BY <1>1, <2>4, <2>5 DEF Area
  <2>7. ASSUME NEW j \in D, x + j \in Col PROVE x + j \in Cols(Hull(x, D))
    <3>1. j \in Nat /\ a <= j /\ j <= b
      BY <2>1, <2>2, <2>3
    <3>2. x + a <= x + j /\ x + j < (x + a) + (b - a + 1)
      BY <1>1, <2>5, <3>1
    <3> QED BY <2>4, <2>7, <3>2 DEF Cols
  <2> QED BY <2>6, <2>7
<1> QED BY <1>2, <1>3

LEMMA ComparedOf ==
  ASSUME Descriptor(cap), Comparer(thr), Kept(cap), Piped(cap, thr), thr.pc = "compare",
         NEW w \in {thr.win.w, cap.win.w}, NEW x \in {thr.win.x, cap.win.x},
         NEW D \in Differences(thr.win.x, w)
  PROVE  Hull(x, D) \in Area /\ Compared(cap, thr, Hull(x, D))
<1>1. x \in Col /\ w \in 1 .. Width
  BY DEF Descriptor, Comparer, Window
<1>2. D \subseteq 0 .. w - 1
  BY DEF Differences
<1>3. thr.cur \in cap.busy /\ thr.prev \in cap.busy
  <2>1. thr.cur # None /\ thr.prev # None
    BY DEF Comparer
  <2> QED BY <2>1 DEF Piped, Used
<1>4. cap.img[thr.cur] # None /\ cap.img[thr.prev] # None
  BY <1>3 DEF Kept
<1>5. ASSUME thr.win = cap.win, NEW k \in Cols(cap.win), k \notin Cols(Hull(x, D))
      PROVE  cap.img[thr.cur][k] = cap.img[thr.prev][k]
  <2> DEFINE f == thr.win.x
  <2>1. x = f /\ w = thr.win.w /\ f \in Nat /\ w \in Nat
    BY <1>1, <1>5, FrameAssumption DEF Col
  <2>2. k \in Col /\ k \in Nat /\ f <= k /\ k < f + w
    BY <1>5, <2>1, FrameAssumption DEF Cols, Col
  <2>3. D \in Differences(f, w)
    OBVIOUS
  <2> HIDE DEF f
  <2>4. PICK j \in 0 .. w - 1 : k = f + j
    <3>1. k - f \in 0 .. w - 1 /\ k = f + (k - f)
      BY <2>1, <2>2
    <3> QED BY <3>1
  <2>5. j \notin D
    BY <1>1, <1>2, <1>5, <2>1, <2>2, <2>4, HullOf
  <2>6. Pixel(cap, thr.cur, k) = Pixel(cap, thr.prev, k)
    BY <2>2, <2>3, <2>4, <2>5 DEF Differences
  <2> QED BY <1>4, <2>6 DEF Pixel
<1>6. Hull(x, D) \in Area
  BY <1>1, <1>2, HullOf
<1> QED BY <1>5, <1>6 DEF Compared

(* A step of the processing thread.                                        *)
LEMMA ThreadOf ==
  ASSUME Descriptor(cap), Comparer(thr), Kept(cap), Piped(cap, thr), Thread
  PROVE  Turns(cap, thr, cap', thr')
<1>1. CASE ThreadTake
  <2> DEFINE m == Head(cap.pin)
  <2>1. thr.pc = "idle" /\ cap.pin # <<>>
    BY <1>1 DEF ThreadTake
  <2>2. CASE thr.prev \in {None, m.buf} \/ m.full
    <3>1. /\ cap' = [cap EXCEPT !.pin = Tail(@),
                       !.pout = Append(@, [in |-> m.buf, out |-> thr.prev, area |-> Whole])]
          /\ thr' = [thr EXCEPT !.prev = m.buf]
      BY <1>1, <2>1, <2>2 DEF ThreadTake, Send
    <3>2. /\ Others(cap, cap', {"pin", "pout"}) /\ cap'.pin = Tail(cap.pin)
          /\ cap'.pout = Append(cap.pout, [in |-> m.buf, out |-> thr.prev, area |-> Whole])
      BY <3>1 DEF Descriptor, Others, Fields
    <3> QED BY <2>1, <3>1, <3>2, TakeWholeOf
  <2>3. CASE ~ (thr.prev \in {None, m.buf} \/ m.full)
    <3>1. /\ cap' = [cap EXCEPT !.pin = Tail(@)]
          /\ thr' = [thr EXCEPT !.pc = "compare", !.cur = m.buf, !.win = cap.win]
      BY <1>1, <2>1, <2>3 DEF ThreadTake
    <3>2. /\ Others(cap, cap', {"pin", "pout"}) /\ cap'.pin = Tail(cap.pin)
          /\ cap'.pout = cap.pout
      BY <3>1 DEF Descriptor, Others, Fields
    <3> QED BY <2>1, <2>3, <3>1, <3>2, TakeCompareOf
  <2> QED BY <2>2, <2>3
<1>2. CASE ThreadCompare
  <2>1. thr.pc = "compare"
    BY <1>2 DEF ThreadCompare
  <2>2. PICK w \in {thr.win.w, cap.win.w}, x \in {thr.win.x, cap.win.x} :
          \E D \in Differences(thr.win.x, w) :
            Send([in |-> thr.cur, out |-> thr.prev, area |-> Hull(x, D)])
    BY <1>2 DEF ThreadCompare
  <2>3. PICK D \in Differences(thr.win.x, w) :
            Send([in |-> thr.cur, out |-> thr.prev, area |-> Hull(x, D)])
    BY <2>2
  <2>4. Hull(x, D) \in Area /\ Compared(cap, thr, Hull(x, D))
    BY <2>1, <2>2, <2>3, ComparedOf
  <2>5. cap' = [cap EXCEPT !.pin = @,
                  !.pout = Append(@, [in |-> thr.cur, out |-> thr.prev, area |-> Hull(x, D)])]
    BY <2>1, <2>3 DEF Send
  <2>6. /\ Others(cap, cap', {"pin", "pout"}) /\ cap'.pin = cap.pin
        /\ cap'.pout = Append(cap.pout, [in |-> thr.cur, out |-> thr.prev, area |-> Hull(x, D)])
    BY <2>5 DEF Descriptor, Others, Fields
  <2>7. thr' = [thr EXCEPT !.pc = "idle", !.prev = thr.cur, !.cur = None, !.win = Whole]
    BY <1>2 DEF ThreadCompare
  <2> QED BY <2>1, <2>4, <2>6, <2>7, CompareOf
<1>3. CASE ThreadEnd
  <2>1. thr.pc = "idle" /\ thr' = [thr EXCEPT !.pc = "end"] /\ cap' = cap
    BY <1>3 DEF ThreadEnd
  <2>2. /\ DOMAIN thr' = DOMAIN thr /\ thr'.pc = "end" /\ thr'.cur = thr.cur
        /\ thr'.prev = thr.prev /\ thr'.win = thr.win
    BY <2>1 DEF Comparer
  <2>3. Comparer(thr')
    BY <2>2 DEF Comparer
  <2>4. Number(cap, thr') = Number(cap, thr)
    BY <2>1, <2>2 DEF Number, Comparing
  <2>5. Piped(cap, thr')
    BY <2>2, <2>4 DEF Piped, Distinct, Chained, Used
  <2>6. Look(cap, thr) => Look(cap, thr')
    BY <2>2 DEF Look
  <2> QED BY <2>1, <2>3, <2>5, <2>6 DEF Turns
<1> QED BY <1>1, <1>2, <1>3 DEF Thread
-----------------------------------------------------------------------------
(* The agent at the end of a handler: what it announces.                   *)
Announcing(g) ==
  /\ update' \in Seq(Area) /\ Len(update') <= UpdCap
  /\ DOMAIN agent' = {"pc", "area"} /\ agent'.pc \in {"loop", "write"}
  /\ agent'.pc = "write" => agent'.area = None \/ agent'.area \in Area
  /\ \A n \in DOMAIN update : n \in DOMAIN update' /\ update'[n] = update[n]
  /\ client.connected /\ g # None =>
       \/ \E n \in DOMAIN update' : update'[n] = g
       \/ agent'.pc = "write" /\ agent'.area = g

LEMMA SilentOf ==
  ASSUME Types, agent.pc = "loop", UNCHANGED <<update, agent>>
  PROVE  Announcing(None)
<1> QED BY DEF Announcing, Types

LEMMA AnnounceOf ==
  ASSUME Types, agent.pc = "loop", NEW g, g = None \/ g \in Area, Announce(g)
  PROVE  Announcing(g)
<1>0. /\ update \in Seq(Area) /\ Len(update) <= UpdCap /\ DOMAIN agent = {"pc", "area"}
      /\ UpdCap \in Nat /\ Len(update) \in Nat
  BY CaptureAssumption DEF Types
<1>1. CASE ~ client.connected
  <2>1. UNCHANGED <<update, agent>>
    BY <1>1 DEF Announce
  <2> QED BY <1>0, <1>1, <2>1 DEF Announcing
<1>2. CASE client.connected /\ Len(update) < UpdCap /\ g = None
  <2>1. UNCHANGED <<update, agent>>
    BY <1>2 DEF Announce
  <2> QED BY <1>0, <1>2, <2>1 DEF Announcing
<1>3. CASE client.connected /\ Len(update) < UpdCap /\ g # None
  <2>1. update' = Append(update, g) /\ agent' = agent /\ g \in Area
    BY <1>3 DEF Announce
  <2>2. /\ Append(update, g) \in Seq(Area)
        /\ Len(Append(update, g)) = Len(update) + 1 /\ Append(update, g)[Len(update) + 1] = g
        /\ Len(update) + 1 \in DOMAIN Append(update, g)
        /\ \A k \in DOMAIN update : k \in DOMAIN Append(update, g)
                                    /\ Append(update, g)[k] = update[k]
    BY <1>0, <2>1, AppendOf
  <2>3. Len(update) + 1 <= UpdCap
    <3> DEFINE x == Len(update)
    <3>1. x \in Nat /\ x < UpdCap
      BY <1>0, <1>3
    <3> HIDE DEF x
    <3>2. x + 1 <= UpdCap
      BY <1>0, <3>1
    <3> QED BY <3>2 DEF x
  <2> QED BY <1>0, <2>1, <2>2, <2>3 DEF Announcing
<1>4. CASE client.connected /\ ~ (Len(update) < UpdCap)
  <2>1. agent' = [pc |-> "write", area |-> g] /\ update' = update
    BY <1>4 DEF Announce
  <2>2. DOMAIN agent' = {"pc", "area"} /\ agent'.pc = "write" /\ agent'.area = g
    BY <2>1
  <2> QED BY <1>0, <2>1, <2>2 DEF Announcing
<1> QED BY <1>1, <1>2, <1>3, <1>4

LEMMA AnnounceIfOf ==
  ASSUME Types, agent.pc = "loop", NEW b, AnnounceIf(b)
  PROVE  Announcing(None)
<1> QED BY SilentOf, AnnounceOf DEF AnnounceIf

(* The columns that changed now are in the area that is announced.         *)
LEMMA AnnouncedOf ==
  ASSUME Types, Announced, agent.pc = "loop", NEW g, Announcing(g), client' = client,
         stale' = stale \/ (g # None /\ stale' = stale \cup Cols(g))
  PROVE  Announced'
<1>1. agent'.pc = "write" => agent'.area = None \/ agent'.area \in Area
  BY DEF Announcing
<1>2. ASSUME NEW k \in stale', client.connected
      PROVE  \/ \E n \in DOMAIN update' : k \in Cols(update'[n])
             \/ agent'.pc = "write" /\ agent'.area # None /\ k \in Cols(agent'.area)
  <2>1. CASE k \in stale
    <3>1. PICK n \in DOMAIN update : k \in Cols(update[n])
      BY <1>2, <2>1 DEF Announced, ChangesAnnounced, Alive
    <3>2. n \in DOMAIN update' /\ update'[n] = update[n]
      BY <3>1 DEF Announcing
    <3> QED BY <3>1, <3>2
  <2>2. CASE k \notin stale
    <3>1. g # None /\ k \in Cols(g)
      BY <1>2, <2>2
    <3> QED BY <1>2, <3>1 DEF Announcing
  <2> QED BY <2>1, <2>2
<1> QED BY <1>1, <1>2 DEF Announced, ChangesAnnounced, Cols

(* A step of the main loop that reads no request.                          *)
LEMMA WorkedOf ==
  ASSUME IInv, agent.pc = "loop", Works(cap, cap', thr), NEW g, Announcing(g),
         UNCHANGED <<thr, client, stdin, callback, slips>>, stale' \subseteq Col,
         stale' = stale \/ (g # None /\ stale' = stale \cup Cols(g))
  PROVE  IInv'
<1>1. Alive /\ Alive' /\ agent'.pc \notin {"start", "gone"}
  BY DEF Alive, Announcing
<1>2. Types'
  <2>1. Types /\ Descriptor(cap')
    BY DEF IInv, Works
  <2> QED BY <2>1 DEF Types, Announcing
<1>3. Owned'
  BY DEF Works, Owned
<1>4. Path' = Path
  BY DEF Path
<1>5. Windowed'
  BY <1>1, <1>4 DEF IInv, Windowed
<1>6. Leaving'
  BY <1>1 DEF IInv, Leaving
<1>7. Answering'
  BY <1>1 DEF IInv, Answering
<1>8. AnswersMatch'
  BY <1>1 DEF IInv, AnswersMatch
<1>9. Announced'
  BY AnnouncedOf DEF IInv
<1>10. Shown'
  <2>1. Critical' = Critical
    BY <1>4 DEF Critical
  <2>2. Alive /\ client.connected /\ Plain(cap) /\ ~ Critical => Look(cap, thr)
    BY DEF IInv, Shown
  <2>3. (Plain(cap') => Plain(cap)) /\ (Look(cap, thr) => Look(cap', thr))
    BY DEF Works
  <2>4. ASSUME client'.connected, Plain(cap'), ~ Critical' PROVE Look(cap', thr')
    BY <1>1, <2>1, <2>2, <2>3, <2>4
  <2> QED BY <2>4 DEF Shown
<1> QED BY <1>2, <1>3, <1>5, <1>6, <1>7, <1>8, <1>9, <1>10 DEF IInv

LEMMA TimerStep ==
  ASSUME IInv, AgentTimer
  PROVE  IInv'
<1> DEFINE d == DeviceRead(cap)
<1>1. agent.pc = "loop" /\ Alive
  BY DEF AgentTimer, Looping, Alive
<1>2. Descriptor(cap) /\ Comparer(thr) /\ Kept(cap) /\ Piped(cap, thr) /\ Types
  BY <1>1 DEF IInv, Types, Owned
<1>3. Works(cap, d, thr)
  BY <1>2, DeviceReadOf
<1>4. cap' = ProcessRefresh(d) /\ AnnounceIf(Overload(d))
  BY DEF AgentTimer
<1>5. UNCHANGED <<thr, client, stdin, callback, slips, stale>>
  BY DEF AgentTimer, Quiet
<1> HIDE DEF d
<1>6. Works(d, cap', thr)
  BY <1>2, <1>3, <1>4, ProcessRefreshOf DEF Works
<1>7. Works(cap, cap', thr)
  BY <1>3, <1>6, WorksTwice
<1>8. Announcing(None)
  BY <1>1, <1>2, <1>4, AnnounceIfOf
<1>9. stale' \subseteq Col
  BY <1>2, <1>5 DEF Types
<1> QED BY <1>1, <1>5, <1>7, <1>8, <1>9, WorkedOf

(* A frame was read from the device.                                       *)
LEMMA ServedStep ==
  ASSUME IInv, agent.pc = "loop", NEW d, Feeds(cap, d), Served(d)
  PROVE  IInv'
<1>1. Descriptor(cap) /\ Comparer(thr) /\ Kept(cap) /\ Piped(cap, thr) /\ Types
  BY DEF IInv, Types, Owned, Alive
<1>2. Works(cap, d, thr)
  BY <1>1, FeedsWorks
<1>3. cap' = ReadEvent(d) /\ AnnounceIf(d.requested /\ Overload(d))
  BY DEF Served
<1>4. UNCHANGED <<thr, client, stdin, callback, slips, stale>>
  BY DEF Served, Quiet
<1>5. Works(d, cap', thr)
  BY <1>1, <1>2, <1>3, ReadEventOf DEF Works
<1>6. Works(cap, cap', thr)
  BY <1>2, <1>5, WorksTwice
<1>7. Announcing(None)
  BY <1>1, <1>3, AnnounceIfOf
<1>8. stale' \subseteq Col
  BY <1>1, <1>4 DEF Types
<1> QED BY <1>4, <1>6, <1>7, <1>8, WorkedOf

LEMMA FrameStep ==
  ASSUME IInv, AgentFrame
  PROVE  IInv'
<1>1. agent.pc = "loop" /\ Descriptor(cap) /\ Kept(cap)
  BY DEF AgentFrame, Looping, IInv, Types, Owned, Alive
<1>2. CASE cap.kind = "stream" /\ cap.done # <<>> /\ Served(ReadStream(cap))
  BY <1>1, <1>2, ReadStreamOf, ServedStep
<1>3. CASE cap.kind = "readwrite" /\ \E im \in Scenes : Served(ReadWrite(cap, im))
  <2>1. PICK im \in Scenes : Served(ReadWrite(cap, im))
    BY <1>3
  <2>2. im \in Image /\ cap.kind # "stream"
    BY <1>3, <2>1, FrameAssumption DEF Image, Col
  <2> QED BY <1>1, <2>1, <2>2, ReadWriteOf, ServedStep
<1> QED BY <1>2, <1>3 DEF AgentFrame

LEMMA EioStep ==
  ASSUME IInv, AgentEio
  PROVE  IInv'
<1>1. /\ agent.pc = "loop" /\ Descriptor(cap) /\ Kept(cap) /\ cap.kind = "stream"
      /\ cap.done # <<>>
  BY DEF AgentEio, Looping, IInv, Types, Owned, Alive
<1>2. PICK taken \in BOOLEAN :
        Served(Checkup(IF taken THEN [cap EXCEPT !.done = Tail(@)] ELSE cap))
  BY DEF AgentEio
<1>3. \A j, k \in DOMAIN cap.done : cap.done[j] = cap.done[k] => j = k
  BY <1>1 DEF Kept
<1>4. CASE taken
  <2> DEFINE b == [cap EXCEPT !.done = Tail(@)]
             q == Tail(cap.done)
  <2>1. Others(cap, b, {"done"}) /\ b.done = q
    BY <1>1 DEF Descriptor, Others, Fields
  <2>2. /\ q \in Seq(Buf) /\ DOMAIN q \subseteq Nat
        /\ \A k \in DOMAIN q : k + 1 \in DOMAIN cap.done /\ q[k] = cap.done[k + 1]
    BY <1>1, TailOf DEF Descriptor
  <2>3. Served(Checkup(b))
    BY <1>2, <1>4
  <2> HIDE DEF b, q
  <2>4. ASSUME NEW j \in DOMAIN q, NEW k \in DOMAIN q, q[j] = q[k] PROVE j = k
    <3>1. j + 1 = k + 1 /\ j \in Nat /\ k \in Nat
      BY <1>3, <2>2, <2>4
    <3> QED BY <3>1
  <2>5. InDone(b) \subseteq InDone(cap)
    BY <2>1, <2>2 DEF InDone
  <2>6. Feeds(cap, Checkup(b))
    BY <1>1, <2>1, <2>2, <2>4, <2>5, CheckupOf
  <2> QED BY <1>1, <2>3, <2>6, ServedStep
<1>5. CASE ~ taken
  <2>1. Others(cap, cap, {"done"}) /\ cap.done \in Seq(Buf)
    BY <1>1 DEF Descriptor, Others
  <2>2. Feeds(cap, Checkup(cap))
    BY <1>1, <1>3, <2>1, CheckupOf
  <2> QED BY <1>1, <1>2, <1>5, <2>2, ServedStep
<1> QED BY <1>4, <1>5

LEMMA ClockStep ==
  ASSUME IInv, AgentClock
  PROVE  IInv'
<1> DEFINE b == [cap EXCEPT !.clocks = @ - 1]
<1>1. /\ agent.pc = "loop" /\ Descriptor(cap) /\ Kept(cap) /\ Piped(cap, thr) /\ Types
      /\ cap.clocks > 0 /\ cap' = SequenceNext(b)
      /\ UNCHANGED <<thr, client, stdin, callback, slips, stale, update, agent>>
  BY DEF AgentClock, Looping, IInv, Types, Owned, Alive, Quiet, pipes
<1>2. /\ cap.current \in -1 .. NFiles - 1 /\ cap.seen \in -1 .. NFiles - 1
      /\ cap.clocks \in Nat /\ cap.requested \in BOOLEAN /\ {"clocks"} \subseteq Private
  BY <1>1 DEF Descriptor, Private
<1>3. /\ Others(cap, b, {"clocks"}) /\ b.current = cap.current /\ b.seen = cap.seen
      /\ b.clocks = cap.clocks - 1 /\ b.requested = cap.requested
  BY <1>1 DEF Descriptor, Others, Fields
<1> HIDE DEF b
<1>4. b.clocks \in Nat
  BY <1>1, <1>2, <1>3
<1>5. Feeds(cap, b)
  BY <1>1, <1>2, <1>3, <1>4, SameFeeds
<1>6. Feeds(b, cap')
  BY <1>1, <1>5, SequenceFeeds DEF Feeds
<1>7. Works(cap, cap', thr)
  BY <1>1, <1>5, <1>6, FeedsTwice, FeedsWorks
<1>8. Announcing(None) /\ stale' \subseteq Col
  BY <1>1, SilentOf DEF Types
<1> QED BY <1>1, <1>7, <1>8, WorkedOf

LEMMA OutStep ==
  ASSUME IInv, AgentOut
  PROVE  IInv'
<1> DEFINE g == Head(cap.pout).area
<1>1. /\ agent.pc = "loop" /\ Descriptor(cap) /\ Comparer(thr) /\ Kept(cap)
      /\ Piped(cap, thr) /\ Types /\ cap.pout # <<>> /\ cap' = OutRead(cap)
      /\ IF g.w > 0 THEN Announce(g) ELSE UNCHANGED <<update, agent>>
      /\ stale' = stale \cup Cols(g)
      /\ UNCHANGED <<thr, client, stdin, callback, slips>>
  BY DEF AgentOut, Looping, IInv, Types, Owned, Alive
<1>2. Works(cap, cap', thr) /\ Head(cap.pout) \in Sent
  BY <1>1, OutReadOf
<1>3. g \in Area /\ g # None
  BY <1>2, NoneAssumption DEF Sent, Area
<1> HIDE DEF g
<1>4. stale' \subseteq Col
  BY <1>1 DEF Types, Cols
<1>5. CASE g.w > 0
  BY <1>1, <1>2, <1>3, <1>4, <1>5, AnnounceOf, WorkedOf
<1>6. CASE ~ (g.w > 0)
  <2>1. Cols(g) = {}
    <3>1. g.w = 0 /\ g.x \in Nat
      BY <1>3, <1>6 DEF Area
    <3>2. \A k \in Col : ~ (g.x <= k /\ k < g.x + g.w)
      BY <3>1, FrameAssumption DEF Col
    <3> QED BY <3>2 DEF Cols
  <2>2. Announcing(None) /\ stale' = stale
    BY <1>1, <1>6, <2>1, SilentOf
  <2> QED BY <1>1, <1>2, <1>4, <2>2, WorkedOf
<1> QED BY <1>5, <1>6

(* The agent wrote what the full pipe did not hold.                        *)
LEMMA WriteStep ==
  ASSUME IInv, AgentWrite
  PROVE  IInv'
<1>1. /\ agent.pc = "write" /\ (~ client.connected \/ Len(update) < UpdCap)
      /\ agent' = [pc |-> "loop", area |-> Nothing]
      /\ update' = IF client.connected /\ agent.area # None
                   THEN Append(update, agent.area) ELSE update
      /\ UNCHANGED <<cap, thr, client, stdin, callback, stale, slips>>
  BY DEF AgentWrite, frameVars
<1>2. Types /\ Announced
  BY DEF IInv
<1>3. agent'.pc = "loop" /\ DOMAIN agent' = {"pc", "area"} /\ Alive /\ Alive'
  BY <1>1 DEF Alive
<1>4. /\ update' \in Seq(Area) /\ Len(update') <= UpdCap
      /\ \A n \in DOMAIN update : n \in DOMAIN update' /\ update'[n] = update[n]
      /\ client.connected /\ agent.area # None => \E n \in DOMAIN update' : update'[n] = agent.area
  <2>1. update \in Seq(Area) /\ Len(update) <= UpdCap /\ UpdCap \in Nat
    BY <1>2, CaptureAssumption DEF Types
  <2>2. CASE client.connected /\ agent.area # None
    <3>1. agent.area \in Area /\ update' = Append(update, agent.area)
      BY <1>1, <1>2, <2>2 DEF Announced
    <3>2. /\ update' \in Seq(Area) /\ Len(update') = Len(update) + 1 /\ Len(update) \in Nat
          /\ update'[Len(update) + 1] = agent.area /\ Len(update) + 1 \in DOMAIN update'
          /\ \A n \in DOMAIN update : n \in DOMAIN update' /\ update'[n] = update[n]
      BY <2>1, <3>1, AppendOf
    <3>3. Len(update') <= UpdCap
      <4> DEFINE x == Len(update)
                 y == Len(update')
      <4>1. x \in Nat /\ y = x + 1 /\ x < UpdCap
        BY <1>1, <2>2, <3>2
      <4> HIDE DEF x, y
      <4>2. y <= UpdCap
        BY <2>1, <4>1
      <4> QED BY <4>2 DEF y
    <3> QED BY <3>2, <3>3
  <2>3. CASE ~ (client.connected /\ agent.area # None)
    BY <1>1, <2>1, <2>3
  <2> QED BY <2>2, <2>3
<1>5. Types'
  BY <1>1, <1>2, <1>3, <1>4 DEF Types
<1>6. Owned'
  BY <1>1, <1>3 DEF IInv, Owned
<1>7. Windowed' /\ Leaving'
  BY <1>1, <1>3 DEF IInv, Windowed, Leaving, Path
<1>8. Answering' /\ AnswersMatch'
  BY <1>1, <1>3 DEF IInv, Answering, AnswersMatch
<1>9. Announced'
  <2>1. ASSUME NEW k \in stale, client.connected
        PROVE  \E n \in DOMAIN update' : k \in Cols(update'[n])
    <3>1. CASE \E n \in DOMAIN update : k \in Cols(update[n])
      <4>1. PICK n \in DOMAIN update : k \in Cols(update[n])
        BY <3>1
      <4>2. n \in DOMAIN update' /\ update'[n] = update[n]
        BY <1>4, <4>1
      <4> QED BY <4>1, <4>2
    <3>2. CASE agent.area # None /\ k \in Cols(agent.area)
      <4>1. PICK n \in DOMAIN update' : update'[n] = agent.area
        BY <1>4, <2>1, <3>2
      <4> QED BY <3>2, <4>1
    <3> QED BY <1>2, <1>3, <2>1, <3>1, <3>2 DEF Announced, ChangesAnnounced
  <2>2. agent'.pc # "write"
    BY <1>3
  <2> QED BY <1>1, <2>1, <2>2 DEF Announced, ChangesAnnounced, Cols
<1>10. Shown'
  BY <1>1, <1>3 DEF IInv, Shown, Critical, Path
<1> QED BY <1>5, <1>6, <1>7, <1>8, <1>9, <1>10 DEF IInv

LEMMA StartStep ==
  ASSUME IInv, AgentStart
  PROVE  IInv'
<1>1. /\ agent.pc = "start" /\ UNCHANGED <<cap, thr, client, stdin, update, stale, slips>>
      /\ \/ agent' = [agent EXCEPT !.pc = "loop"] /\ callback' = <<"OPEN">>
         \/ agent' = [agent EXCEPT !.pc = "gone"] /\ callback' = callback
  BY DEF AgentStart, Quiet
<1>2. Types /\ Announced /\ Answering /\ AnswersMatch /\ Alive
  BY <1>1 DEF IInv, Alive
<1>3. /\ DOMAIN agent' = {"pc", "area"}
      /\ \/ agent'.pc = "loop" /\ callback' = <<"OPEN">>
         \/ agent'.pc = "gone" /\ callback' = callback
  BY <1>1, <1>2 DEF Types
<1>4. client.pc = "wait" /\ client.want = "OPEN" /\ callback = <<>> /\ stdin = <<>>
      /\ client.todo = <<>> /\ slips = {}
  BY <1>1, <1>2 DEF Answering
<1>5. Types'
  BY <1>1, <1>2, <1>3 DEF Types
<1>6. Owned'
  BY <1>1, <1>2 DEF IInv, Owned
<1>7. Windowed' /\ Leaving'
  BY <1>1, <1>2 DEF IInv, Windowed, Leaving, Path
<1>8. Answering'
  <2>1. \A k \in DOMAIN stdin : FALSE
    BY <1>4
  <2>2. agent'.pc # "start"
    BY <1>3
  <2> QED BY <1>1, <1>2, <1>4, <2>1, <2>2 DEF Answering
<1>9. AnswersMatch'
  BY <1>1, <1>3, <1>4 DEF AnswersMatch
<1>10. Announced'
  <2>1. agent'.pc # "write"
    BY <1>3
  <2>2. agent.pc # "write"
    BY <1>1
  <2> QED BY <1>1, <1>2, <2>1, <2>2 DEF Announced, ChangesAnnounced
<1>11. Shown'
  BY <1>1, <1>2 DEF IInv, Shown, Critical, Path
<1> QED BY <1>5, <1>6, <1>7, <1>8, <1>9, <1>10, <1>11 DEF IInv

LEMMA ExitStep ==
  ASSUME IInv, AgentExit
  PROVE  IInv'
<1>1. /\ agent.pc \in {"loop", "write"} /\ ~ client.connected
      /\ agent' = [pc |-> "join", area |-> Nothing]
      /\ cap' = [cap EXCEPT !.closed = TRUE, !.period = FALSE]
      /\ UNCHANGED <<thr, client, stdin, callback, update, stale, slips>>
  BY DEF AgentExit, Quiet, pipes
<1>2. /\ Types /\ Descriptor(cap) /\ Comparer(thr) /\ Kept(cap) /\ Piped(cap, thr)
      /\ Alive /\ client.pc = "gone"
  BY <1>1 DEF IInv, Types, Owned, Alive, Leaving
<1>3. agent'.pc = "join" /\ DOMAIN agent' = {"pc", "area"}
  BY <1>1
<1>4. Others(cap, cap', {"closed", "period"})
  BY <1>1, <1>2 DEF Descriptor, Others, Fields
<1>5. /\ cap'.kind = cap.kind /\ cap'.img = cap.img /\ cap'.done = cap.done
      /\ cap'.queued = cap.queued /\ cap'.ready = cap.ready /\ cap'.busy = cap.busy
      /\ cap'.processing = cap.processing /\ cap'.pin = cap.pin /\ cap'.pout = cap.pout
      /\ cap'.win = cap.win /\ cap'.fb = cap.fb /\ cap'.full = cap.full
  BY <1>4 DEF Others, Fields
<1>6. Types'
  <2>1. Descriptor(cap')
    BY <1>2, <1>4 DEF Descriptor, Others, Fields
  <2> QED BY <1>1, <1>2, <1>3, <2>1 DEF Types
<1>7. Owned'
  <2>1. Kept(cap')
    BY <1>2, <1>5 DEF Kept, InDone
  <2>2. Piped(cap', thr)
    <3>1. Distinct(cap', thr)
      BY <1>2, <1>5 DEF Piped, Distinct
    <3>2. Chained(cap', thr)
      BY <1>2, <1>5 DEF Piped, Chained
    <3>3. Used(cap', thr) = Used(cap, thr) /\ Number(cap', thr) = Number(cap, thr)
      BY <1>5 DEF Used, Pin, Ins, Outs, Number
    <3> QED BY <1>2, <1>5, <3>1, <3>2, <3>3 DEF Piped
  <2> QED BY <1>1, <2>1, <2>2 DEF Owned
<1>8. Windowed' /\ Leaving'
  BY <1>1, <1>2 DEF IInv, Windowed, Leaving, Path
<1>9. Answering' /\ AnswersMatch'
  BY <1>1, <1>2, <1>3 DEF IInv, Answering, AnswersMatch
<1>10. Announced'
  BY <1>1, <1>3 DEF Announced, ChangesAnnounced
<1>11. Shown'
  <2>1. Plain(cap') = Plain(cap)
    BY <1>5 DEF Plain
  <2>2. Look(cap, thr) => Look(cap', thr)
    BY <1>5 DEF Look, ShowsAt
  <2>3. Critical' = Critical
    BY <1>1 DEF Critical, Path
  <2> QED BY <1>1, <1>2, <2>1, <2>2, <2>3 DEF IInv, Shown
<1> QED BY <1>6, <1>7, <1>8, <1>9, <1>10, <1>11 DEF IInv

(* Without an agent there is little left to keep.                          *)
LEMMA GoneOf ==
  ASSUME IInv, agent'.pc = "gone", Types', UNCHANGED <<client, stdin, callback, slips>>
  PROVE  IInv'
<1>1. ~ Alive' /\ agent'.pc # "write" /\ agent'.pc # "start"
  BY DEF Alive
<1>2. Owned' /\ Windowed' /\ Leaving' /\ Shown'
  BY <1>1 DEF Owned, Windowed, Leaving, Shown
<1>3. Answering'
  BY <1>1 DEF IInv, Answering
<1>4. AnswersMatch'
  BY DEF IInv, AnswersMatch
<1>5. Announced'
  BY <1>1 DEF Announced, ChangesAnnounced
<1> QED BY <1>2, <1>3, <1>4, <1>5 DEF IInv

LEMMA DetachStep ==
  ASSUME IInv, AgentDetach
  PROVE  IInv'
<1>1. /\ agent' = [agent EXCEPT !.pc = "gone"]
      /\ cap' = [cap EXCEPT !.img = [i \in Buf |-> None], !.queued = {}, !.done = <<>>]
      /\ UNCHANGED <<thr, client, stdin, callback, update, stale, slips>>
  BY DEF AgentDetach, Quiet, pipes
<1>2. Types /\ Descriptor(cap)
  BY DEF IInv, Types
<1>3. agent'.pc = "gone" /\ DOMAIN agent' = {"pc", "area"}
  BY <1>1, <1>2 DEF Types
<1>4. Descriptor(cap')
  <2>1. /\ Others(cap, cap', {"img", "queued", "done"}) /\ cap'.img = [i \in Buf |-> None]
        /\ cap'.queued = {} /\ cap'.done = <<>>
    BY <1>1, <1>2 DEF Descriptor, Others, Fields
  <2>2. [i \in Buf |-> None] \in [Buf -> Image \cup {None}] /\ <<>> \in Seq(Buf)
    OBVIOUS
  <2> QED BY <1>2, <2>1, <2>2 DEF Descriptor, Others, Fields
<1>5. Types'
  BY <1>1, <1>2, <1>3, <1>4 DEF Types
<1> QED BY <1>1, <1>3, <1>5, GoneOf

LEMMA DiesStep ==
  ASSUME IInv, AgentDies
  PROVE  IInv'
<1>1. /\ agent' = [pc |-> "gone", area |-> Nothing] /\ thr' = [thr EXCEPT !.pc = "end"]
      /\ UNCHANGED <<cap, client, stdin, callback, update, stale, slips>>
  BY DEF AgentDies, pipes
<1>2. agent'.pc = "gone" /\ DOMAIN agent' = {"pc", "area"} /\ Types /\ Comparer(thr)
  BY <1>1 DEF IInv, Types
<1>3. Comparer(thr')
  BY <1>1, <1>2 DEF Comparer
<1>4. Types'
  BY <1>1, <1>2, <1>3 DEF Types
<1> QED BY <1>1, <1>2, <1>4, GoneOf

(* The processing thread, and the driver.                                  *)
LEMMA RestOf ==
  ASSUME IInv, Alive, Rest, Descriptor(cap'), Comparer(thr'), Kept(cap'), Piped(cap', thr'),
         (Plain(cap) => Look(cap, thr)) => (Plain(cap') => Look(cap', thr'))
  PROVE  IInv'
<1>1. UNCHANGED <<client, stdin, callback, update, agent, stale, slips>> /\ Alive'
  BY DEF Rest, pipes, Alive
<1>2. Types'
  BY <1>1 DEF IInv, Types
<1>3. Owned'
  BY DEF Owned
<1>4. Windowed' /\ Leaving'
  BY <1>1 DEF IInv, Windowed, Leaving, Path
<1>5. Answering' /\ AnswersMatch'
  BY <1>1 DEF IInv, Answering, AnswersMatch
<1>6. Announced'
  BY <1>1 DEF IInv, Announced, ChangesAnnounced
<1>7. Shown'
  <2>1. Critical' = Critical
    BY <1>1 DEF Critical, Path
  <2> QED BY <1>1, <2>1 DEF IInv, Shown
<1> QED BY <1>2, <1>3, <1>4, <1>5, <1>6, <1>7 DEF IInv

LEMMA ThreadStep ==
  ASSUME IInv, Alive, Thread, Rest
  PROVE  IInv'
<1>1. Descriptor(cap) /\ Comparer(thr) /\ Kept(cap) /\ Piped(cap, thr)
  BY DEF IInv, Types, Owned
<1>2. Turns(cap, thr, cap', thr')
  BY <1>1, ThreadOf
<1> QED BY <1>2, RestOf DEF Turns

LEMMA FillOf ==
  ASSUME NEW c, Descriptor(c), Kept(c), NEW i \in c.queued, NEW im \in Image,
         NEW d, Others(c, d, {"queued", "done", "img"}), d.queued = c.queued \ {i},
         d.done = Append(c.done, i), d.img = [c.img EXCEPT ![i] = im]
  PROVE  Feeds(c, d)
<1>1. c.kind = "stream"
  BY DEF Kept
<1>2. /\ \A j, k \in DOMAIN c.done : c.done[j] = c.done[k] => j = k
      /\ c.queued \cap InDone(c) = {} /\ c.queued \cap c.busy = {}
      /\ InDone(c) \cap c.busy = {} /\ c.ready \notin c.queued \cup InDone(c)
      /\ Buf \subseteq c.queued \cup InDone(c) \cup c.busy \cup {c.ready}
      /\ c.ready \notin c.busy
      /\ \A k \in c.busy \cup InDone(c) \cup ({c.ready} \ {None}) : c.img[k] # None
  BY <1>1 DEF Kept
<1>3. /\ i \in Buf /\ c.done \in Seq(Buf) /\ c.img \in [Buf -> Image \cup {None}]
      /\ c.queued \subseteq Buf /\ c.busy \subseteq Buf /\ InDone(c) \subseteq Buf
      /\ c.ready \in Buf \cup {None}
  BY DEF Descriptor, InDone
<1>4. d.kind = c.kind /\ d.busy = c.busy /\ d.ready = c.ready
  BY DEF Others, Fields
<1> DEFINE L == Len(c.done) + 1
<1>5. /\ d.done \in Seq(Buf) /\ d.done[L] = i /\ L \in DOMAIN d.done
      /\ \A k \in DOMAIN c.done : k \in DOMAIN d.done /\ d.done[k] = c.done[k]
      /\ \A k \in DOMAIN d.done : k = L \/ (k \in DOMAIN c.done /\ d.done[k] = c.done[k])
  BY <1>3, AppendOf
<1> HIDE DEF L
<1>6. InDone(d) = InDone(c) \cup {i}
  <2>1. \A k \in DOMAIN d.done : d.done[k] \in InDone(c) \cup {i}
    BY <1>5 DEF InDone
  <2>2. \A k \in DOMAIN c.done : c.done[k] \in InDone(d)
    BY <1>5 DEF InDone
  <2>3. i \in InDone(d)
    BY <1>5 DEF InDone
  <2> QED BY <2>1, <2>2, <2>3 DEF InDone
<1>7. \A j, k \in DOMAIN d.done : d.done[j] = d.done[k] => j = k
  <2>1. \A k \in DOMAIN c.done : c.done[k] # i
    BY <1>2 DEF InDone
  <2> QED BY <1>2, <1>5, <2>1
<1>8. \A k \in Buf : d.img[k] = IF k = i THEN im ELSE c.img[k]
  BY <1>3
<1>9. im # None
  BY NoneAssumption
<1>10. \A k \in d.busy \cup InDone(d) \cup ({d.ready} \ {None}) : d.img[k] # None
  <2> SUFFICES ASSUME NEW k \in c.busy \cup InDone(c) \cup {i} \cup ({c.ready} \ {None})
               PROVE  d.img[k] # None
    BY <1>4, <1>6
  <2>1. k \in Buf
    BY <1>3
  <2> QED BY <1>2, <1>8, <1>9, <2>1
<1>11. Kept(d)
  <2>1. d.queued = c.queued \ {i}
    OBVIOUS
  <2>2. /\ d.queued \cap InDone(d) = {} /\ d.queued \cap d.busy = {}
        /\ InDone(d) \cap d.busy = {} /\ d.ready \notin d.queued \cup InDone(d)
        /\ Buf \subseteq d.queued \cup InDone(d) \cup d.busy \cup {d.ready}
    BY <1>2, <1>4, <1>6, <2>1
  <2> QED BY <1>1, <1>2, <1>4, <1>7, <1>10, <2>2 DEF Kept
<1>12. Descriptor(d)
  <2>1. d.img \in [Buf -> Image \cup {None}] /\ d.queued \subseteq Buf
    BY <1>3
  <2> QED BY <1>5, <2>1 DEF Descriptor, Others, Fields
<1>13. \A f \in Piping : d[f] = c[f]
  BY DEF Others, Piping, Fields
<1>14. \A k \in c.busy : d.img[k] = c.img[k]
  BY <1>2, <1>3, <1>8
<1> QED BY <1>11, <1>12, <1>13, <1>14 DEF Feeds

LEMMA FillStep ==
  ASSUME IInv, Alive, DriverFill, Rest
  PROVE  IInv'
<1>1. Descriptor(cap) /\ Comparer(thr) /\ Kept(cap) /\ Piped(cap, thr)
  BY DEF IInv, Types, Owned
<1>2. PICK i \in cap.queued, im \in Scenes :
        cap' = [cap EXCEPT !.queued = @ \ {i}, !.done = Append(@, i), !.img[i] = im]
  BY DEF DriverFill
<1>3. /\ Others(cap, cap', {"queued", "done", "img"}) /\ cap'.queued = cap.queued \ {i}
      /\ cap'.done = Append(cap.done, i) /\ cap'.img = [cap.img EXCEPT ![i] = im]
  BY <1>1, <1>2 DEF Descriptor, Others, Fields
<1>4. im \in Image
  BY <1>2, FrameAssumption DEF Image, Col
<1>5. Feeds(cap, cap')
  BY <1>1, <1>2, <1>3, <1>4, FillOf
<1>6. Works(cap, cap', thr) /\ thr' = thr
  BY <1>1, <1>5, FeedsWorks DEF DriverFill
<1> QED BY <1>1, <1>6, RestOf DEF Works

(* A request was read: the path of the requests loses the first one.       *)
LEMMA PathOf ==
  ASSUME Types, stdin # <<>>, stdin' = Tail(stdin), client' = client
  PROVE  /\ Path \in Seq(Requests) /\ Path' = Tail(Path) /\ Path # <<>>
         /\ Path[1] = Head(stdin) /\ DOMAIN Path \subseteq Nat \ {0}
         /\ \A k \in DOMAIN Path' : k \in Nat \ {0} /\ k + 1 \in DOMAIN Path /\ Path'[k] = Path[k + 1]
         /\ \A k \in DOMAIN Path : k # 1 => k - 1 \in DOMAIN Path' /\ Path[k] = Path'[k - 1]
<1>1. stdin \in Seq(Requests) /\ client.todo \in Seq(Requests)
  BY DEF Types
<1>2. /\ Tail(stdin) \o client.todo = Tail(stdin \o client.todo)
      /\ Head(stdin \o client.todo) = Head(stdin) /\ stdin \o client.todo # <<>>
  BY <1>1, LeaveOf
<1>3. Path' = Tail(Path) /\ Head(Path) = Head(stdin) /\ Path # <<>>
  BY <1>2 DEF Path
<1>4. Path \in Seq(Requests)
  BY <1>1, ConcatOf DEF Path
<1>5. /\ Head(Path) = Path[1] /\ DOMAIN Path \subseteq Nat \ {0} /\ DOMAIN Tail(Path) \subseteq Nat \ {0}
      /\ \A k \in DOMAIN Tail(Path) : k + 1 \in DOMAIN Path /\ Tail(Path)[k] = Path[k + 1]
      /\ \A k \in DOMAIN Path : k # 1 => k - 1 \in DOMAIN Tail(Path) /\ Path[k] = Tail(Path)[k - 1]
  BY <1>3, <1>4, TailOf
<1> QED BY <1>3, <1>4, <1>5

LEMMA WindowedTail ==
  ASSUME Types, Alive, Windowed, stdin # <<>>, stdin' = Tail(stdin), client' = client
  PROVE  /\ Windowed'
         /\ Head(stdin).op = "window" => Head(stdin).arg \in Window /\ Critical'
<1>1. /\ Path[1] = Head(stdin) /\ DOMAIN Path \subseteq Nat \ {0} /\ 1 \in DOMAIN Path
      /\ \A k \in DOMAIN Path' : k \in Nat \ {0} /\ k + 1 \in DOMAIN Path /\ Path'[k] = Path[k + 1]
      /\ \A k \in DOMAIN Path : k # 1 => k - 1 \in DOMAIN Path' /\ Path[k] = Path'[k - 1]
  <2>1. Path \in Seq(Requests) /\ Path # <<>>
    BY PathOf
  <2>2. 1 \in DOMAIN Path
    BY <2>1
  <2> QED BY <2>2, PathOf
<1>2. \A k \in DOMAIN Path : Path[k].op = "window" =>
        /\ Path[k].arg \in Window /\ k + 2 \in DOMAIN Path
        /\ Path[k + 1].op = "refresh" /\ Path[k + 2].op = "window?"
  BY DEF Windowed
<1>3. ASSUME NEW k \in DOMAIN Path', Path'[k].op = "window"
      PROVE  /\ Path'[k].arg \in Window /\ k + 2 \in DOMAIN Path'
             /\ Path'[k + 1].op = "refresh" /\ Path'[k + 2].op = "window?"
  <2>1. k \in Nat \ {0} /\ k + 1 \in DOMAIN Path /\ Path'[k] = Path[k + 1]
    BY <1>1
  <2>2. /\ Path[k + 1].arg \in Window /\ (k + 1) + 2 \in DOMAIN Path
        /\ Path[(k + 1) + 1].op = "refresh" /\ Path[(k + 1) + 2].op = "window?"
    BY <1>2, <1>3, <2>1
  <2>3. (k + 1) + 2 # 1 /\ ((k + 1) + 2) - 1 = k + 2 /\ (k + 1) + 1 = k + 2
    BY <2>1
  <2>4. k + 2 \in DOMAIN Path' /\ Path[(k + 1) + 2] = Path'[k + 2]
    BY <1>1, <2>2, <2>3
  <2>5. Path[k + 2] = Path'[k + 1]
    <3>1. k + 2 \in DOMAIN Path
      <4>1. Path \in Seq(Requests) /\ k \in Nat /\ (k + 1) + 2 \in DOMAIN Path
        BY <2>1, <2>2, PathOf
      <4> QED BY <4>1
    <3>2. k + 2 # 1 /\ (k + 2) - 1 = k + 1
      BY <2>1
    <3> QED BY <1>1, <3>1, <3>2
  <2> QED BY <2>1, <2>2, <2>3, <2>4, <2>5
<1>4. Head(stdin).op = "window" => Head(stdin).arg \in Window /\ Critical'
  <2> SUFFICES ASSUME Path[1].op = "window" PROVE Path[1].arg \in Window /\ Critical'
    BY <1>1
  <2>1. Path[1].arg \in Window /\ 3 \in DOMAIN Path /\ Path[2].op = "refresh" /\ Path[3].op = "window?"
    BY <1>1, <1>2
  <2>2. 2 \in DOMAIN Path
    <3>1. Path \in Seq(Requests)
      BY PathOf
    <3> QED BY <2>1, <3>1
  <2>3. /\ 1 \in DOMAIN Path' /\ 2 \in DOMAIN Path' /\ Path'[1] = Path[2] /\ Path'[2] = Path[3]
    BY <1>1, <2>1, <2>2
  <2> QED BY <2>1, <2>3 DEF Critical
<1> QED BY <1>3, <1>4 DEF Windowed

LEMMA RequestOf ==
  ASSUME IInv, agent.pc = "loop", client.connected, stdin # <<>>, stdin' = Tail(stdin),
         UNCHANGED <<thr, client, stale>>, Announcing(None),
         Descriptor(cap'), Kept(cap'), Piped(cap', thr), NEW r, r = Head(stdin),
         \/ r.op # "refresh" /\ (Plain(cap') => Plain(cap)) /\ (Look(cap, thr) => Look(cap', thr))
         \/ r.op = "window" \/ ~ Plain(cap'),
         slips \subseteq slips', slips' \subseteq Slip, "torn" \in slips' => "torn" \in slips,
         \/ Awaited(r) # None /\ callback' = Append(callback, Awaited(r))
         \/ callback' = callback /\ (Awaited(r) = None \/ "unanswered" \in slips')
         \/ callback' # <<>> /\ Awaited(r) = None /\ "unasked" \in slips'
  PROVE  IInv'
<1>1. Types /\ Windowed /\ Answering /\ AnswersMatch /\ Alive /\ Alive'
  BY DEF IInv, Alive, Announcing
<1>2. /\ Tail(stdin) \in Seq(Requests) /\ r = stdin[1] /\ 1 \in DOMAIN stdin
      /\ Len(stdin) \in Nat \ {0} /\ Len(Tail(stdin)) = Len(stdin) - 1
      /\ \A k \in DOMAIN Tail(stdin) : k + 1 \in DOMAIN stdin /\ Tail(stdin)[k] = stdin[k + 1]
      /\ \A k \in DOMAIN stdin : k # 1 => k - 1 \in DOMAIN Tail(stdin) /\ stdin[k] = Tail(stdin)[k - 1]
      /\ \A k \in DOMAIN Tail(stdin) : k \in Nat \ {0}
  <2>1. stdin \in Seq(Requests)
    BY <1>1 DEF Types
  <2>2. \A k \in DOMAIN Tail(stdin) : k \in Nat \ {0}
    BY <2>1
  <2> QED BY <2>1, <2>2, TailOf
<1>3. Types'
  BY <1>1, <1>2 DEF Types, Announcing
<1>4. Owned'
  BY DEF Owned
<1>5. Windowed'
  BY <1>1, WindowedTail
<1>6. Leaving'
  BY DEF Leaving
<1>7. Announced'
  <2>1. stale' = stale
    OBVIOUS
  <2> QED BY <1>1, <2>1, AnnouncedOf DEF IInv
<1>8. "unasked" \notin slips => \A k \in DOMAIN stdin : Awaited(stdin[k]) # None =>
        /\ k = Len(stdin) /\ client.pc = "wait" /\ callback = <<>>
        /\ Awaited(stdin[k]) = client.want
  BY <1>1 DEF Answering
<1>9. Answering'
  <2>1. ASSUME "unasked" \notin slips', NEW k \in DOMAIN stdin', Awaited(stdin'[k]) # None
        PROVE  /\ k = Len(stdin') /\ client.pc = "wait" /\ callback' = <<>>
               /\ Awaited(stdin'[k]) = client.want
    <3>1. k + 1 \in DOMAIN stdin /\ stdin'[k] = stdin[k + 1] /\ k \in Nat \ {0}
      BY <1>2
    <3>2. /\ k + 1 = Len(stdin) /\ client.pc = "wait" /\ callback = <<>>
          /\ Awaited(stdin[k + 1]) = client.want
      BY <1>8, <2>1, <3>1
    <3>3. Awaited(r) = None
      <4>1. Awaited(r) # None => 1 = Len(stdin)
        BY <1>2, <1>8, <2>1
      <4> QED BY <3>1, <3>2, <4>1
    <3>4. k = Len(stdin')
      <4> DEFINE x == Len(stdin)
      <4>1. x \in Nat /\ k + 1 = x /\ Len(stdin') = x - 1 /\ k \in Nat
        BY <1>2, <3>1, <3>2
      <4> HIDE DEF x
      <4> QED BY <4>1
    <3> QED BY <2>1, <3>1, <3>2, <3>3, <3>4
  <2>2. agent'.pc # "start"
    BY DEF Announcing
  <2>3. ~ (client.pc = "wait" /\ client.want = "OPEN")
    BY <1>1 DEF Answering
  <2>4. client.pc = "wait" => client.want # None
    BY <1>1 DEF Answering
  <2> QED BY <2>1, <2>2, <2>3, <2>4 DEF Answering
<1>10. AnswersMatch'
  <2>1. ASSUME "unasked" \notin slips'
        PROVE  /\ "torn" \notin slips'
               /\ callback' # <<>> => client.pc = "wait" /\ callback' = <<client.want>>
    <3>1. "unasked" \notin slips
      BY <2>1
    <3>2. "torn" \notin slips
      BY <1>1, <3>1 DEF AnswersMatch
    <3>3. CASE Awaited(r) # None /\ callback' = Append(callback, Awaited(r))
      <4>1. client.pc = "wait" /\ callback = <<>> /\ Awaited(r) = client.want
        BY <1>2, <1>8, <3>1, <3>3
      <4> QED BY <3>2, <3>3, <4>1
    <3>4. CASE callback' = callback
      BY <1>1, <3>1, <3>2, <3>4 DEF AnswersMatch
    <3> QED BY <2>1, <3>3, <3>4
  <2>2. ASSUME client.pc = "wait", callback' = <<>>, "unanswered" \notin slips',
               "torn" \notin slips'
        PROVE  \E k \in DOMAIN stdin' : Awaited(stdin'[k]) = client.want
    <3>1. callback' = callback /\ Awaited(r) = None
      <4>1. Append(callback, Awaited(r)) # <<>>
        OBVIOUS
      <4> QED BY <2>2, <4>1
    <3>2. "unanswered" \notin slips /\ "torn" \notin slips
      BY <2>2
    <3>3. client.want # None /\ \E k \in DOMAIN stdin : Awaited(stdin[k]) = client.want
      BY <1>1, <2>2, <3>1, <3>2 DEF Answering, AnswersMatch, Slip
    <3>4. PICK k \in DOMAIN stdin : Awaited(stdin[k]) = client.want
      BY <3>3
    <3>5. k # 1
      BY <1>2, <3>1, <3>3, <3>4
    <3>6. k - 1 \in DOMAIN stdin' /\ stdin'[k - 1] = stdin[k]
      BY <1>2, <3>4, <3>5
    <3> QED BY <3>4, <3>6
  <2> QED BY <2>1, <2>2 DEF AnswersMatch
<1>11. Shown'
  <2>1. CASE r.op = "window"
    BY <1>1, <2>1, WindowedTail DEF Shown
  <2>2. CASE ~ Plain(cap')
    BY <2>2 DEF Shown
  <2>3. CASE /\ r.op # "refresh"
             /\ Plain(cap') => Plain(cap)
             /\ Look(cap, thr) => Look(cap', thr)
    <3>1. ~ Critical
      <4>1. Path[1] = r
        BY <1>1, PathOf
      <4> QED BY <2>3, <4>1 DEF Critical
    <3> QED BY <1>1, <2>3, <3>1 DEF IInv, Shown
  <2> QED BY <2>1, <2>2, <2>3
<1> QED BY <1>3, <1>4, <1>5, <1>6, <1>7, <1>9, <1>10, <1>11 DEF IInv

LEMMA OpOf ==
  ASSUME NEW r \in Requests
  PROVE  r.op \in Op
<1>1. CASE r = Req("refresh", None)
  BY <1>1 DEF Req, Op
<1>2. CASE r # Req("refresh", None)
  <2>1. PICK todo \in Commands : r \in {todo[k] : k \in DOMAIN todo}
    BY <1>2 DEF Requests
  <2>2. PICK k \in DOMAIN todo : r = todo[k]
    BY <2>1
  <2> QED BY <2>1, <2>2, CommandAssumption
<1> QED BY <1>1, <1>2

(* A new window: only the window of the descriptor changes.                *)
LEMMA SetWindowOf ==
  ASSUME NEW c, NEW t, Descriptor(c), Kept(c), Piped(c, t), NEW g \in Window
  PROVE  Descriptor(SetWindow(c, g)) /\ Kept(SetWindow(c, g)) /\ Piped(SetWindow(c, g), t)
<1> DEFINE d == SetWindow(c, g)
<1>1. DOMAIN d = Fields /\ d.win = g /\ \A f \in Fields \ {"win"} : d[f] = c[f]
  BY DEF SetWindow, Descriptor, Fields
<1> HIDE DEF d
<1>2. /\ d.kind = c.kind /\ d.img = c.img /\ d.done = c.done /\ d.queued = c.queued
      /\ d.ready = c.ready /\ d.busy = c.busy /\ d.processing = c.processing
      /\ d.pin = c.pin /\ d.pout = c.pout
  BY <1>1 DEF Fields
<1>3. Descriptor(d)
  BY <1>1 DEF Descriptor, Fields
<1>4. Kept(d)
  BY <1>2 DEF Kept, InDone
<1>5. Piped(d, t)
  <2>1. Distinct(d, t)
    BY <1>2 DEF Piped, Distinct
  <2>2. Chained(d, t)
    BY <1>2 DEF Piped, Chained
  <2>3. Used(d, t) = Used(c, t) /\ Number(d, t) = Number(c, t)
    BY <1>2 DEF Used, Pin, Ins, Outs, Number
  <2> QED BY <1>2, <2>1, <2>2, <2>3 DEF Piped
<1> QED BY <1>3, <1>4, <1>5 DEF d

LEMMA SetPeriodOf ==
  ASSUME NEW c, Descriptor(c), Kept(c), NEW p
  PROVE  Feeds(c, SetPeriod(c, p))
<1> DEFINE d == SetPeriod(c, p)
<1>1. /\ Others(c, d, {"period"}) /\ d.current = c.current /\ d.seen = c.seen
      /\ d.clocks = c.clocks /\ d.requested = c.requested
  BY DEF SetPeriod, Descriptor, Others, Fields
<1>2. /\ c.current \in -1 .. NFiles - 1 /\ c.seen \in -1 .. NFiles - 1
      /\ c.clocks \in Nat /\ c.requested \in BOOLEAN /\ {"period"} \subseteq Private
  BY DEF Descriptor, Private
<1> HIDE DEF d
<1>3. Feeds(c, d)
  BY <1>1, <1>2, SameFeeds
<1> QED BY <1>3 DEF d

LEMMA SetAttrOf ==
  ASSUME NEW c, Descriptor(c), Kept(c), NEW k
  PROVE  Feeds(c, SetAttr(c, k))
<1>0. /\ c.current \in -1 .. NFiles - 1 /\ c.seen \in -1 .. NFiles - 1
      /\ c.clocks \in Nat /\ c.requested \in BOOLEAN /\ {"loop", "sync"} \subseteq Private
  BY DEF Descriptor, Private
<1>s. Feeds(c, c)
  BY DEF Feeds, Piping
<1>1. CASE c.kind # "file"
  BY <1>s, <1>1 DEF SetAttr
<1>2. CASE c.kind = "file" /\ k \in {"loop", "sync"}
  <2> DEFINE d == [c EXCEPT ![k] = ~ @]
  <2>1. SetAttr(c, k) = d
    BY <1>2 DEF SetAttr
  <2>2. /\ Others(c, d, {"loop", "sync"}) /\ d.current = c.current /\ d.seen = c.seen
        /\ d.clocks = c.clocks /\ d.requested = c.requested
    BY <1>2 DEF Descriptor, Others, Fields
  <2> HIDE DEF d
  <2>3. Feeds(c, d)
    BY <1>0, <2>2, SameFeeds
  <2> QED BY <2>1, <2>3
<1>3. CASE c.kind = "file" /\ k \notin {"loop", "sync"} /\ k = "Restart"
  BY <1>3, SequenceFeeds DEF SetAttr
<1>4. CASE c.kind = "file" /\ k \notin {"loop", "sync"} /\ k # "Restart"
  <2>1. SetAttr(c, k) = c
    BY <1>4 DEF SetAttr
  <2> QED BY <1>s, <2>1
<1> QED BY <1>1, <1>2, <1>3, <1>4

LEMMA RequestStep ==
  ASSUME IInv, AgentRequest
  PROVE  IInv'
<1> DEFINE r == Head(stdin)
<1>1. /\ agent.pc = "loop" /\ client.connected /\ stdin # <<>> /\ stdin' = Tail(stdin)
      /\ UNCHANGED <<thr, client, stale>> /\ Alive
      /\ Types /\ Descriptor(cap) /\ Comparer(thr) /\ Kept(cap) /\ Piped(cap, thr) /\ Windowed
  BY DEF AgentRequest, Looping, IInv, Types, Owned, Alive
<1>2. r.op \in Op
  <2>1. r \in Requests
    BY <1>1 DEF Types
  <2> QED BY <2>1, OpOf
<1>9. slips \subseteq Slip
  BY <1>1 DEF Types
<1>3. CASE r.op = "window"
  <2>1. /\ cap' = SetWindow(cap, r.arg)
        /\ callback' = callback /\ UNCHANGED <<update, agent, slips>>
    BY <1>3 DEF AgentRequest, AgentWindow, NoReply
  <2>2. r.arg \in Window
    BY <1>1, <1>3, WindowedTail
  <2>3. Descriptor(cap') /\ Kept(cap') /\ Piped(cap', thr)
    BY <1>1, <2>1, <2>2, SetWindowOf
  <2>4. Announcing(None) /\ Awaited(r) = None
    BY <1>1, <1>3, <2>1, SilentOf DEF Awaited
  <2> QED BY <1>1, <1>3, <1>9, <2>1, <2>3, <2>4, RequestOf
<1>4. CASE r.op \in {"window?", "period?"}
  <2>1. /\ callback' = Append(callback, Awaited(r))
        /\ UNCHANGED <<cap, update, agent, slips>>
    BY <1>4 DEF AgentRequest, Reply
  <2>2. Announcing(None) /\ Awaited(r) # None
    <3>1. Awaited(r) \in {"WINDOW", "PERIOD"}
      BY <1>4 DEF Awaited
    <3> QED BY <1>1, <2>1, <3>1, SilentOf, CaptureAssumption
  <2> QED BY <1>1, <1>4, <1>9, <2>1, <2>2, RequestOf
<1>5. CASE r.op = "refresh"
  <2> DEFINE b == Refresh(cap)
             d == DeviceRead(b)
  <2>1. /\ cap' = ProcessRefresh(d) /\ AnnounceIf(Overload(d))
        /\ callback' = callback /\ slips' = slips
    BY <1>5 DEF AgentRequest, AgentRefresh, NoReply
  <2>2. Works(cap, b, thr) /\ ~ Plain(b)
    BY <1>1, RefreshOf
  <2> HIDE DEF b
  <2>3. Works(b, d, thr)
    BY <1>1, <2>2, DeviceReadOf DEF Works
  <2> HIDE DEF d
  <2>4. Works(d, cap', thr)
    BY <1>1, <2>1, <2>3, ProcessRefreshOf DEF Works
  <2>5. Descriptor(cap') /\ Kept(cap') /\ Piped(cap', thr) /\ ~ Plain(cap')
    BY <2>2, <2>3, <2>4 DEF Works
  <2>6. Announcing(None) /\ Awaited(r) = None
    BY <1>1, <1>5, <2>1, AnnounceIfOf DEF Awaited
  <2> QED BY <1>1, <1>9, <2>1, <2>5, <2>6, RequestOf
<1>6. CASE r.op = "period"
  <2>1. /\ cap' = SetPeriod(cap, r.arg) /\ callback' = Append(callback, "PERIOD")
        /\ UNCHANGED <<update, agent, slips>>
    BY <1>6 DEF AgentRequest, AgentPeriod, Reply
  <2>2. Works(cap, cap', thr)
    BY <1>1, <2>1, SetPeriodOf, FeedsWorks
  <2>3. Announcing(None) /\ Awaited(r) = "PERIOD" /\ Awaited(r) # None
    BY <1>1, <1>6, <2>1, SilentOf, CaptureAssumption DEF Awaited
  <2> QED BY <1>1, <1>6, <1>9, <2>1, <2>2, <2>3, RequestOf DEF Works
<1>7. CASE r.op = "attr"
  <2>1. /\ cap' = SetAttr(cap, r.arg) /\ callback' = callback
        /\ UNCHANGED <<update, agent, slips>>
    BY <1>7 DEF AgentRequest, NoReply
  <2>2. Works(cap, cap', thr)
    BY <1>1, <2>1, SetAttrOf, FeedsWorks
  <2>3. Announcing(None) /\ Awaited(r) = None
    BY <1>1, <1>7, <2>1, SilentOf DEF Awaited
  <2> QED BY <1>1, <1>7, <1>9, <2>1, <2>2, <2>3, RequestOf DEF Works
<1>8. CASE r.op \in {"attr?", "attr="}
  <2> DEFINE new == AttrSlips(r.op, r.arg)
  <2>1. /\ cap' = IF HasAttr(r.arg) /\ r.arg = "Restart" THEN SequenceRestart(cap) ELSE cap
        /\ IF HasAttr(r.arg) THEN callback' = Append(callback, "ATTR") ELSE callback' = callback
        /\ slips' = slips \cup new
        /\ UNCHANGED <<update, agent>>
    BY <1>8 DEF AgentRequest, AgentAttr, Reply, NoReply
  <2>2. Works(cap, cap', thr)
    BY <1>1, <2>1, SequenceFeeds, FeedsWorks, WorksNot
  <2>3. /\ new \subseteq {"unanswered", "unasked"}
        /\ r.op = "attr?" /\ ~ HasAttr(r.arg) => "unanswered" \in new
        /\ r.op = "attr=" /\ HasAttr(r.arg) => "unasked" \in new
    BY DEF AttrSlips, Slip
  <2> HIDE DEF new
  <2>4. slips \subseteq slips' /\ slips' \subseteq Slip /\ ("torn" \in slips' => "torn" \in slips)
    BY <1>9, <2>1, <2>3 DEF Slip
  <2>5. Announcing(None)
    BY <1>1, <2>1, SilentOf
  <2>6. CASE r.op = "attr?"
    <3>1. Awaited(r) = "ATTR" /\ Awaited(r) # None
      BY <2>6, CaptureAssumption DEF Awaited
    <3>2. \/ Awaited(r) # None /\ callback' = Append(callback, Awaited(r))
          \/ callback' = callback /\ (Awaited(r) = None \/ "unanswered" \in slips')
      BY <2>1, <2>3, <2>6, <3>1
    <3> QED BY <1>1, <2>2, <2>4, <2>5, <2>6, <3>2, RequestOf DEF Works
  <2>7. CASE r.op = "attr="
    <3>1. Awaited(r) = None
      BY <2>7 DEF Awaited
    <3>2. Append(callback, "ATTR") # <<>>
      OBVIOUS
    <3>3. \/ callback' = callback /\ (Awaited(r) = None \/ "unanswered" \in slips')
          \/ callback' # <<>> /\ Awaited(r) = None /\ "unasked" \in slips'
      BY <2>1, <2>3, <2>7, <3>1, <3>2
    <3> QED BY <1>1, <2>2, <2>4, <2>5, <2>7, <3>3, RequestOf DEF Works
  <2> QED BY <1>8, <2>6, <2>7
<1> QED BY <1>2, <1>3, <1>4, <1>5, <1>6, <1>7, <1>8 DEF Op
-----------------------------------------------------------------------------
(* The client.                                                             *)
LEMMA ClientOf ==
  ASSUME IInv, UNCHANGED <<cap, thr, agent>>, Types', Windowed', Leaving', Answering',
         AnswersMatch', Announced',
         Alive /\ client'.connected => client.connected /\ (Critical => Critical')
  PROVE  IInv'
<1>1. Alive' = Alive
  BY DEF Alive
<1>2. Owned'
  BY <1>1 DEF IInv, Owned
<1>3. Shown'
  BY <1>1 DEF IInv, Shown
<1> QED BY <1>2, <1>3 DEF IInv

LEMMA CommandsOf ==
  ASSUME NEW todo \in Commands
  PROVE  todo \in Seq(Requests)
<1>1. todo \in Seq({todo[k] : k \in DOMAIN todo})
  BY CommandAssumption
<1>2. {todo[k] : k \in DOMAIN todo} \subseteq Requests
  BY DEF Requests
<1> HIDE DEF Requests
<1> QED BY <1>1, <1>2

LEMMA CommandStep ==
  ASSUME IInv, NEW todo \in Commands, Command(todo)
  PROVE  IInv'
<1>1. /\ client.pc = "idle" /\ client.todo = <<>> /\ client' = [client EXCEPT !.todo = todo]
      /\ UNCHANGED <<cap, thr, agent, stdin, callback, update, stale, slips>>
  BY DEF Command, frameVars, pipes
<1>2. Types /\ Windowed /\ Leaving /\ Answering /\ AnswersMatch /\ Announced
  BY DEF IInv
<1>3. /\ DOMAIN client' = {"pc", "want", "todo", "connected"} /\ client'.pc = "idle"
      /\ client'.todo = todo /\ client'.want = client.want /\ client'.connected = client.connected
  BY <1>1, <1>2 DEF Types
<1>4. Types'
  <2>1. todo \in Seq(Requests)
    BY CommandsOf
  <2> QED BY <1>1, <1>2, <1>3, <2>1 DEF Types
<1>5. /\ stdin \in Seq(Requests) /\ todo \in Seq(Requests) /\ Path = stdin
      /\ Path' = stdin \o todo
  <2>1. stdin \in Seq(Requests)
    BY <1>2 DEF Types
  <2>2. Path = stdin \o <<>> /\ Path' = stdin \o todo
    BY <1>1, <1>3 DEF Path
  <2> QED BY <2>1, <2>2, CommandsOf, AloneOf
<1>6. /\ Len(stdin) \in Nat
      /\ \A k \in DOMAIN stdin : k \in DOMAIN Path' /\ Path'[k] = stdin[k]
      /\ \A k \in DOMAIN todo : Len(stdin) + k \in DOMAIN Path' /\ Path'[Len(stdin) + k] = todo[k]
      /\ \A k \in DOMAIN Path' :
           \/ k \in DOMAIN stdin /\ Path'[k] = stdin[k]
           \/ k - Len(stdin) \in DOMAIN todo /\ Path'[k] = todo[k - Len(stdin)] /\ k \in Nat
  BY <1>5, ConcatOf
<1>7. Windowed'
  <2>1. ASSUME Alive, NEW k \in DOMAIN Path', Path'[k].op = "window"
        PROVE  /\ Path'[k].arg \in Window /\ k + 2 \in DOMAIN Path'
               /\ Path'[k + 1].op = "refresh" /\ Path'[k + 2].op = "window?"
    <3>1. CASE k \in DOMAIN stdin
      <4>1. /\ stdin[k].arg \in Window /\ k + 2 \in DOMAIN stdin
            /\ stdin[k + 1].op = "refresh" /\ stdin[k + 2].op = "window?"
        BY <1>2, <1>5, <1>6, <2>1, <3>1 DEF Windowed
      <4>2. k + 1 \in DOMAIN stdin
        BY <1>5, <3>1, <4>1
      <4> QED BY <1>6, <3>1, <4>1, <4>2
    <3>2. CASE k \notin DOMAIN stdin
      <4> DEFINE n == Len(stdin)
                 j == k - n
      <4>1. j \in DOMAIN todo /\ Path'[k] = todo[j] /\ k \in Nat /\ n \in Nat
        BY <1>6, <3>2
      <4>2. /\ todo[j].arg \in Window /\ j + 2 \in DOMAIN todo
            /\ todo[j + 1].op = "refresh" /\ todo[j + 2].op = "window?"
        <5>1. todo[j].op = "window"
          BY <2>1, <4>1
        <5> HIDE DEF j
        <5> QED BY <4>1, <5>1, CommandAssumption
      <4>3. j + 1 \in DOMAIN todo
        BY <1>5, <4>1, <4>2
      <4>4. n + (j + 1) = k + 1 /\ n + (j + 2) = k + 2
        BY <4>1
      <4>5. /\ n + (j + 2) \in DOMAIN Path' /\ Path'[n + (j + 2)] = todo[j + 2]
            /\ Path'[n + (j + 1)] = todo[j + 1]
        BY <1>6, <4>2, <4>3
      <4> QED BY <4>1, <4>2, <4>4, <4>5
    <3> QED BY <3>1, <3>2
  <2> QED BY <1>1, <2>1 DEF Windowed, Alive
<1>8. Leaving' /\ Announced'
  BY <1>1, <1>2, <1>3 DEF Leaving, Announced, ChangesAnnounced, Alive
<1>9. Answering' /\ AnswersMatch'
  BY <1>1, <1>2, <1>3 DEF Answering, AnswersMatch, Alive
<1>10. Critical => Critical'
  BY <1>5, <1>6 DEF Critical
<1> QED BY <1>1, <1>3, <1>4, <1>7, <1>8, <1>9, <1>10, ClientOf

LEMMA SendStep ==
  ASSUME IInv, ClientSend
  PROVE  IInv'
<1> DEFINE r == Head(client.todo)
           waits == client.connected /\ Awaited(r) # None
<1>1. /\ client.pc = "idle" /\ client.todo # <<>>
      /\ stdin' = IF client.connected /\ agent.pc # "gone" THEN Append(stdin, r) ELSE stdin
      /\ client' = [client EXCEPT !.pc = IF waits THEN "wait" ELSE @,
                                  !.want = Awaited(r), !.todo = Tail(@)]
      /\ UNCHANGED <<cap, thr, agent, callback, update, stale, slips>>
  BY DEF ClientSend, frameVars
<1>2. Types /\ Windowed /\ Leaving /\ Answering /\ AnswersMatch /\ Announced
  BY DEF IInv
<1>3. /\ DOMAIN client' = {"pc", "want", "todo", "connected"}
      /\ client'.pc = (IF waits THEN "wait" ELSE "idle")
      /\ client'.todo = Tail(client.todo) /\ client'.want = Awaited(r)
      /\ client'.connected = client.connected
  BY <1>1, <1>2 DEF Types
<1>4. /\ stdin \in Seq(Requests) /\ client.todo \in Seq(Requests)
      /\ Tail(client.todo) \in Seq(Requests) /\ r \in Requests
  <2>1. stdin \in Seq(Requests) /\ client.todo \in Seq(Requests)
    BY <1>2 DEF Types
  <2> QED BY <1>1, <2>1, TailOf
<1>5. Types'
  BY <1>1, <1>2, <1>3, <1>4, AppendOf DEF Types
<1>6. Awaited(r) # "OPEN"
  BY CaptureAssumption DEF Awaited
<1>7. Alive => client.connected /\ stdin' = Append(stdin, r) /\ Path' = Path
  <2>1. Alive => client.connected /\ stdin' = Append(stdin, r)
    BY <1>1, <1>2 DEF Leaving, Alive
  <2>2. Append(stdin, Head(client.todo)) \o Tail(client.todo) = stdin \o client.todo
    BY <1>1, <1>4, PassOf
  <2>3. Path = stdin \o client.todo /\ Path' = stdin' \o Tail(client.todo)
    BY <1>3 DEF Path
  <2> QED BY <2>1, <2>2, <2>3
<1>8. Windowed' /\ Leaving' /\ (Alive /\ Critical => Critical')
  BY <1>1, <1>2, <1>3, <1>7 DEF Windowed, Leaving, Critical, Alive
<1>9. "unasked" \notin slips =>
        callback = <<>> /\ (Alive => \A k \in DOMAIN stdin : Awaited(stdin[k]) = None)
  BY <1>1, <1>2 DEF AnswersMatch, Answering
<1> HIDE DEF r
<1>10. Alive => /\ Len(stdin') = Len(stdin) + 1 /\ Len(stdin') \in DOMAIN stdin'
                /\ stdin'[Len(stdin')] = r
                /\ \A k \in DOMAIN stdin' :
                     k = Len(stdin') \/ (k \in DOMAIN stdin /\ stdin'[k] = stdin[k])
  BY <1>4, <1>7, AppendOf
<1>11. Answering'
  <2>1. agent'.pc # "start"
    BY <1>1, <1>2 DEF Answering
  <2>2. ASSUME Alive, "unasked" \notin slips, NEW k \in DOMAIN stdin', Awaited(stdin'[k]) # None
        PROVE  k = Len(stdin') /\ client'.pc = "wait" /\ Awaited(stdin'[k]) = client'.want
    <3>1. k = Len(stdin') /\ stdin'[k] = r
      BY <1>9, <1>10, <2>2
    <3> QED BY <1>3, <1>7, <2>2, <3>1
  <2> QED BY <1>1, <1>3, <1>6, <1>9, <2>1, <2>2 DEF Answering, Alive
<1>12. AnswersMatch'
  <2>1. CASE Alive
    <3>1. Awaited(r) = client'.want /\ Len(stdin') \in DOMAIN stdin' /\ stdin'[Len(stdin')] = r
      BY <1>3, <1>10, <2>1
    <3> QED BY <1>1, <1>2, <1>9, <3>1 DEF AnswersMatch
  <2>2. CASE ~ Alive
    BY <1>1, <1>2, <1>3, <1>9, <2>2 DEF AnswersMatch, Alive
  <2> QED BY <2>1, <2>2
<1>13. Announced'
  BY <1>1, <1>2, <1>3 DEF Announced, ChangesAnnounced, Alive
<1> QED BY <1>1, <1>3, <1>5, <1>8, <1>11, <1>12, <1>13, ClientOf

LEMMA AnswerStep ==
  ASSUME IInv, ClientAnswer
  PROVE  IInv'
<1>1. /\ client.pc = "wait" /\ callback # <<>> /\ callback' = Tail(callback)
      /\ client' = [client EXCEPT !.pc = "idle",
                      !.todo = IF client.want = "OPEN" THEN <<Req("refresh", None)>> ELSE @]
      /\ UNCHANGED <<cap, thr, agent, stdin, update, stale, slips>>
  BY DEF ClientAnswer, frameVars
<1>2. Types /\ Windowed /\ Leaving /\ Answering /\ AnswersMatch /\ Announced
  BY DEF IInv
<1>3. /\ DOMAIN client' = {"pc", "want", "todo", "connected"} /\ client'.pc = "idle"
      /\ client'.todo = IF client.want = "OPEN" THEN <<Req("refresh", None)>> ELSE client.todo
      /\ client'.want = client.want /\ client'.connected = client.connected
  BY <1>1, <1>2 DEF Types
<1>4. "unasked" \notin slips => callback' = <<>>
  BY <1>1, <1>2 DEF AnswersMatch
<1>5. Types'
  <2>1. <<Req("refresh", None)>> \in Seq(Requests)
    <3>1. Req("refresh", None) \in Requests
      BY DEF Requests
    <3> HIDE DEF Requests
    <3> QED BY <3>1
  <2> QED BY <1>1, <1>2, <1>3, <2>1 DEF Types
<1>6. Windowed' /\ (Critical => Critical')
  <2>1. CASE client.want = "OPEN"
    <3>1. Path = <<>>
      BY <1>1, <1>2, <2>1 DEF Answering, Path
    <3>2. Path' = <<Req("refresh", None)>>
      BY <1>1, <1>2, <1>3, <2>1 DEF Answering, Path
    <3>3. ~ Critical
      BY <3>1 DEF Critical
    <3>4. \A k \in DOMAIN Path' : Path'[k].op # "window"
      BY <3>2 DEF Req
    <3> QED BY <3>3, <3>4 DEF Windowed
  <2>2. CASE client.want # "OPEN"
    <3>1. Path' = Path
      BY <1>1, <1>3, <2>2 DEF Path
    <3> QED BY <1>1, <1>2, <3>1 DEF Windowed, Critical, Alive
  <2> QED BY <2>1, <2>2
<1>7. Leaving' /\ Announced'
  BY <1>1, <1>2, <1>3 DEF Leaving, Announced, ChangesAnnounced, Alive
<1>8. Answering' /\ AnswersMatch'
  BY <1>1, <1>2, <1>3, <1>4 DEF Answering, AnswersMatch, Alive
<1> QED BY <1>1, <1>3, <1>5, <1>6, <1>7, <1>8, ClientOf

(* An answer of another type is read only after one that was not asked for. *)
LEMMA MisreadStep ==
  ASSUME IInv, ClientMisread
  PROVE  IInv'
<1>1. /\ client.pc = "wait" /\ callback # <<>> /\ ~ Fits /\ slips' = slips \cup {"torn"}
      /\ client' = [client EXCEPT !.pc = "idle"] \/ client' = client
      /\ UNCHANGED <<cap, thr, agent, stdin, update, stale>>
  BY DEF ClientMisread, frameVars
<1>2. Types /\ Windowed /\ Leaving /\ Answering /\ AnswersMatch /\ Announced
  BY DEF IInv
<1>3. "unasked" \in slips
  <2>1. ASSUME "unasked" \notin slips PROVE FALSE
    <3>1. "torn" \notin slips /\ callback = <<client.want>>
      BY <1>1, <1>2, <2>1 DEF AnswersMatch
    <3> QED BY <1>1, <3>1 DEF Fits
  <2> QED BY <2>1
<1>4. /\ DOMAIN client' = {"pc", "want", "todo", "connected"} /\ client'.pc \in {"idle", "wait"}
      /\ client'.todo = client.todo /\ client'.want = client.want
      /\ client'.connected = client.connected
  BY <1>1, <1>2 DEF Types
<1>5. Types'
  <2>1. slips' \subseteq Slip
    BY <1>1, <1>2 DEF Types, Slip
  <2> QED BY <1>1, <1>2, <1>4, <2>1 DEF Types
<1>6. Windowed' /\ Leaving' /\ Announced' /\ (Critical => Critical')
  <2>1. Path' = Path
    BY <1>1, <1>4 DEF Path
  <2>2. Alive => client.connected
    BY <1>1, <1>2 DEF Leaving
  <2> QED BY <1>1, <1>2, <1>4, <2>1, <2>2
         DEF Windowed, Leaving, Critical, Announced, ChangesAnnounced, Alive
<1>7. Answering'
  <2>1. agent'.pc # "start" /\ client.want # "OPEN"
    BY <1>1, <1>2, <1>3 DEF Answering
  <2> QED BY <1>1, <1>2, <1>3, <1>4, <2>1 DEF Answering
<1>8. AnswersMatch'
  BY <1>1, <1>3 DEF AnswersMatch
<1> QED BY <1>1, <1>4, <1>5, <1>6, <1>7, <1>8, ClientOf

LEMMA EofStep ==
  ASSUME IInv, ClientEof
  PROVE  IInv'
<1>1. /\ client.pc = "wait" /\ callback = <<>> /\ agent.pc = "gone"
      /\ client' = IF client.want = "OPEN"
                   THEN [client EXCEPT !.pc = "gone", !.connected = FALSE]
                   ELSE [client EXCEPT !.pc = "idle"]
      /\ UNCHANGED <<cap, thr, agent, stdin, callback, update, stale, slips>>
  BY DEF ClientEof, frameVars, pipes
<1>2. Types /\ Answering /\ AnswersMatch /\ ~ Alive /\ ~ Alive'
  BY <1>1 DEF IInv, Alive
<1>3. /\ DOMAIN client' = {"pc", "want", "todo", "connected"} /\ client'.pc \in {"idle", "gone"}
      /\ client'.todo = client.todo /\ client'.want = client.want /\ client'.connected \in BOOLEAN
  BY <1>1, <1>2 DEF Types
<1>4. Types'
  BY <1>1, <1>2, <1>3 DEF Types
<1>5. Windowed' /\ Leaving' /\ Announced'
  BY <1>1, <1>2 DEF Windowed, Leaving, Announced, ChangesAnnounced
<1>6. Answering' /\ AnswersMatch'
  BY <1>1, <1>2, <1>3 DEF Answering, AnswersMatch
<1> QED BY <1>1, <1>2, <1>4, <1>5, <1>6, ClientOf

LEMMA UpdateStep ==
  ASSUME IInv, ClientUpdate
  PROVE  IInv'
<1>1. /\ update # <<>> /\ update' = Tail(update) /\ stale' = stale \ Cols(Head(update))
      /\ UNCHANGED <<cap, thr, agent, client, stdin, callback, slips>>
  BY DEF ClientUpdate, frameVars
<1>2. Types /\ Windowed /\ Leaving /\ Answering /\ AnswersMatch /\ Announced
  BY DEF IInv
<1>3. /\ Tail(update) \in Seq(Area) /\ Head(update) = update[1]
      /\ Len(Tail(update)) = Len(update) - 1 /\ Len(update) \in Nat /\ Len(update) <= UpdCap
      /\ \A k \in DOMAIN update : k # 1 => /\ k - 1 \in DOMAIN Tail(update)
                                           /\ update[k] = Tail(update)[k - 1]
  <2>1. update \in Seq(Area) /\ Len(update) <= UpdCap
    BY <1>2 DEF Types
  <2> QED BY <1>1, <2>1, TailOf
<1>4. Types'
  <2>1. Len(update') <= UpdCap
    <3> DEFINE x == Len(update)
    <3>1. x \in Nat /\ x <= UpdCap /\ UpdCap \in Nat /\ Len(update') = x - 1
      BY <1>1, <1>3, CaptureAssumption
    <3> HIDE DEF x
    <3> QED BY <3>1
  <2> QED BY <1>1, <1>2, <1>3, <2>1 DEF Types
<1>5. Windowed' /\ Leaving' /\ (Alive /\ Critical => Critical')
  BY <1>1, <1>2 DEF Windowed, Leaving, Critical, Path, Alive
<1>6. Answering' /\ AnswersMatch'
  BY <1>1, <1>2 DEF Answering, AnswersMatch, Alive
<1>7. Announced'
  <2>1. ASSUME Alive, client.connected, NEW k \in stale'
        PROVE  \/ \E n \in DOMAIN update' : k \in Cols(update'[n])
               \/ agent.pc = "write" /\ agent.area # None /\ k \in Cols(agent.area)
    <3>1. k \in stale /\ k \notin Cols(Head(update))
      BY <1>1, <2>1
    <3>2. CASE \E n \in DOMAIN update : k \in Cols(update[n])
      <4>1. PICK n \in DOMAIN update : k \in Cols(update[n])
        BY <3>2
      <4>2. n # 1
        BY <1>3, <3>1, <4>1
      <4>3. n - 1 \in DOMAIN update' /\ update'[n - 1] = update[n]
        BY <1>1, <1>3, <4>1, <4>2
      <4> QED BY <4>1, <4>3
    <3> QED BY <1>2, <2>1, <3>1, <3>2 DEF Announced, ChangesAnnounced
  <2> QED BY <1>1, <1>2, <2>1 DEF Announced, ChangesAnnounced, Alive, Cols
<1> QED BY <1>1, <1>4, <1>5, <1>6, <1>7, ClientOf

(* The client hangs up: what it asked for does not matter any more.        *)
LEMMA LeaveStep ==
  ASSUME IInv, ClientHup \/ ClientQuit
  PROVE  IInv'
<1>1. /\ client.pc = "idle" /\ client.todo = <<>>
      /\ stdin' = <<>> /\ update' = <<>> /\ callback' = <<>>
      /\ UNCHANGED <<cap, thr, agent, stale, slips>>
      /\ \/ ~ Alive /\ client' = [client EXCEPT !.connected = FALSE]
         \/ client' = [client EXCEPT !.pc = "gone", !.connected = FALSE]
  BY DEF ClientHup, ClientQuit, InMainLoop, frameVars, Alive
<1>2. Types /\ Answering /\ AnswersMatch /\ Announced
  BY DEF IInv
<1>3. /\ DOMAIN client' = {"pc", "want", "todo", "connected"} /\ client'.pc \in {"idle", "gone"}
      /\ Alive => client'.pc = "gone"
      /\ client'.todo = <<>> /\ client'.want = client.want /\ client'.connected = FALSE
  BY <1>1, <1>2 DEF Types
<1>4. Types'
  <2>1. <<>> \in Seq(Requests) /\ <<>> \in Seq(Area) /\ Len(<<>>) <= UpdCap
    BY EmptyOf, CaptureAssumption
  <2> QED BY <1>1, <1>2, <1>3, <2>1 DEF Types
<1>5. Path' = <<>>
  BY <1>1, <1>3 DEF Path
<1>6. Windowed'
  BY <1>5 DEF Windowed
<1>7. Leaving' /\ Announced'
  BY <1>1, <1>2, <1>3 DEF Leaving, Announced, ChangesAnnounced, Alive
<1>8. Answering' /\ AnswersMatch'
  BY <1>1, <1>2, <1>3 DEF Answering, AnswersMatch, Alive
<1> QED BY <1>1, <1>3, <1>4, <1>6, <1>7, <1>8, ClientOf
-----------------------------------------------------------------------------
(* The invariant of the capture.                                           *)
LEMMA InitInv ==
  ASSUME Init
  PROVE  IInv
<1>1. PICK kind \in Kinds : FrameInit(kind)
  BY DEF Init
<1>2. kind \in Kind
  BY <1>1, CaptureAssumption
<1>3. /\ DOMAIN cap = Fields /\ cap.kind = kind /\ cap.img = [i \in Buf |-> None]
      /\ cap.queued = (IF kind = "stream" THEN Buf ELSE {}) /\ cap.done = <<>>
      /\ cap.ready = None /\ cap.busy = {} /\ cap.full = TRUE /\ cap.requested = TRUE
      /\ cap.processing = 0 /\ cap.win = Whole /\ cap.fb = [c \in Col |-> 0]
      /\ cap.pin = <<>> /\ cap.pout = <<>> /\ cap.current = -1 /\ cap.seen = -1
      /\ cap.clocks = 0
  BY <1>1 DEF FrameInit, Fields
<1>4. /\ DOMAIN thr = {"pc", "cur", "prev", "win"} /\ thr.pc = "idle" /\ thr.cur = None
      /\ thr.prev = None /\ thr.win = Whole
  BY <1>1 DEF FrameInit
<1>5. /\ client = [pc |-> "wait", want |-> "OPEN", todo |-> <<>>, connected |-> TRUE]
      /\ stdin = <<>> /\ callback = <<>> /\ update = <<>>
      /\ agent = [pc |-> "start", area |-> Nothing] /\ stale = {} /\ slips = {}
  BY DEF Init
<1>6. None \notin Buf /\ "OPEN" # None /\ UpdCap \in Nat
  BY NoneAssumption, CaptureAssumption
<1>7. Whole \in Window
  BY FrameAssumption DEF Whole, Window, Col
<1>8. Descriptor(cap)
  <2>1. [i \in Buf |-> None] \in [Buf -> Image \cup {None}] /\ [c \in Col |-> 0] \in [Col -> 0 .. 1]
    OBVIOUS
  <2>2. -1 \in -1 .. NFiles - 1
    BY FrameAssumption
  <2>3. <<>> \in Seq(Buf) /\ <<>> \in Seq(Asked) /\ <<>> \in Seq(Sent)
    BY EmptyOf
  <2>4. cap.queued \subseteq Buf
    BY <1>3
  <2>5. /\ cap.img \in [Buf -> Image \cup {None}] /\ cap.fb \in [Col -> 0 .. 1]
        /\ cap.current \in -1 .. NFiles - 1 /\ cap.seen \in -1 .. NFiles - 1
        /\ cap.done \in Seq(Buf) /\ cap.pin \in Seq(Asked) /\ cap.pout \in Seq(Sent)
    BY <1>3, <2>1, <2>2, <2>3
  <2>6. /\ cap.ready \in Buf \cup {None} /\ cap.busy \subseteq Buf /\ cap.win \in Window
        /\ cap.kind \in Kind
    BY <1>2, <1>3, <1>7
  <2>7. cap.processing \in Nat /\ cap.clocks \in Nat
    BY <1>3
  <2>8. cap.full \in BOOLEAN /\ cap.requested \in BOOLEAN
    BY <1>3
  <2> QED BY <1>3, <2>4, <2>5, <2>6, <2>7, <2>8 DEF Descriptor
<1>9. Comparer(thr)
  BY <1>4, <1>7 DEF Comparer
<1>10. Types
  <2>1. <<>> \in Seq(Requests) /\ <<>> \in Seq(Area) /\ Len(<<>>) <= UpdCap
    BY <1>6, EmptyOf
  <2> QED BY <1>5, <1>8, <1>9, <2>1 DEF Types
<1>11. Kept(cap)
  <2>1. InDone(cap) = {}
    BY <1>3 DEF InDone
  <2> QED BY <1>3, <1>6, <2>1 DEF Kept
<1>12. Piped(cap, thr)
  <2>1. DOMAIN cap.pin = {} /\ DOMAIN cap.pout = {} /\ Len(cap.pin) = 0 /\ Len(cap.pout) = 0
    BY <1>3
  <2>2. Used(cap, thr) = {}
    BY <1>4, <2>1 DEF Used, Pin, Ins, Outs
  <2>3. Comparing(thr) = 0
    BY <1>4 DEF Comparing
  <2>4. Number(cap, thr) = 0
    BY <2>1, <2>3 DEF Number
  <2>5. Distinct(cap, thr) /\ Chained(cap, thr)
    BY <1>3, <1>4, <2>1 DEF Distinct, Chained
  <2> QED BY <1>3, <2>2, <2>4, <2>5 DEF Piped
<1>13. Windowed /\ Leaving /\ Answering /\ AnswersMatch
  <2>1. Path = <<>>
    BY <1>5 DEF Path
  <2> QED BY <1>5, <1>6, <2>1 DEF Windowed, Leaving, Answering, AnswersMatch
<1>14. Announced
  BY <1>5 DEF Announced, ChangesAnnounced
<1>15. Shown
  BY <1>3 DEF Shown, Plain
<1> QED BY <1>10, <1>11, <1>12, <1>13, <1>14, <1>15 DEF IInv, Owned

LEMMA NextInv ==
  ASSUME IInv, [Next]_vars
  PROVE  IInv'
<1>1. ASSUME NEW todo \in Commands, Command(todo) PROVE IInv'
  BY <1>1, CommandStep
<1>2. CASE Client \/ ClientQuit
  BY <1>2, SendStep, AnswerStep, MisreadStep, EofStep, UpdateStep, LeaveStep DEF Client
<1>3. CASE Agent
  BY <1>3, StartStep, RequestStep, TimerStep, FrameStep, ClockStep, OutStep, WriteStep,
     ExitStep, DetachStep DEF Agent
<1>4. CASE AgentEio
  BY <1>4, EioStep
<1>5. CASE AgentDies
  BY <1>5, DiesStep
<1>6. CASE agent.pc # "gone" /\ (Thread \/ DriverFill) /\ Rest
  BY <1>6, ThreadStep, FillStep DEF Alive
<1>7. CASE UNCHANGED vars
  <2>1. UNCHANGED <<cap, thr, client, stdin, callback, update, agent, stale, slips>>
    BY <1>7 DEF vars, frameVars, pipes
  <2>2. Types' /\ Owned'
    BY <2>1 DEF IInv, Types, Owned, Alive
  <2>3. Windowed' /\ Leaving' /\ Shown'
    BY <2>1 DEF IInv, Windowed, Leaving, Shown, Critical, Path, Alive
  <2>4. Answering' /\ AnswersMatch' /\ Announced'
    BY <2>1 DEF IInv, Answering, AnswersMatch, Announced, ChangesAnnounced, Alive
  <2> QED BY <2>2, <2>3, <2>4 DEF IInv
<1> QED BY <1>1, <1>2, <1>3, <1>4, <1>5, <1>6, <1>7 DEF Next

(* The invariant holds in every behaviour of the capture: the buffers in   *)
(* use, what the pipeline will show, the requests and the answers          *)
(* (capture_frame.c, capture_proc_agent.c, capture_proc_interface.c).      *)
THEOREM CaptureInvariant == Spec => []IInv
<1> QED BY InitInv, NextInv, PTL DEF Spec

(* A buffer that will be read is neither free nor the device's, the        *)
(* counter of the overload is the number of the frames under way, and no   *)
(* buffer of the driver is lost (frame_process_out_read, device_read).     *)
THEOREM BuffersKept == Spec => []BuffersOwned
<1>1. ASSUME IInv PROVE BuffersOwned
  <2>1. TypeOK
    BY <1>1 DEF IInv, Types, Descriptor, Comparer, TypeOK
  <2>2. SUFFICES ASSUME Alive
                 PROVE  /\ cap.processing = InFlight /\ InFlight <= 2
                        /\ cap.busy = Reading
                        /\ \A i \in Reading \cup ({cap.ready} \ {None}) : cap.img[i] # None
                        /\ cap.ready \notin cap.busy
                        /\ cap.kind = "stream" => \A i \in Buf :
                             Cardinality({s \in {"queued", "done", "ready", "busy"} :
                                \/ s = "queued" /\ i \in cap.queued
                                \/ s = "done" /\ i \in Range(cap.done)
                                \/ s = "ready" /\ i = cap.ready
                                \/ s = "busy" /\ i \in cap.busy}) = 1
    BY <2>1 DEF BuffersOwned
  <2>3. Kept(cap) /\ Piped(cap, thr)
    BY <1>1, <2>2 DEF IInv, Owned
  <2>4. InFlight = Number(cap, thr)
    BY DEF InFlight, Number, Comparing
  <2>5. Reading = Used(cap, thr)
    BY DEF Reading, Used, Pin, Ins, Outs
  <2>6. cap.processing = InFlight /\ InFlight <= 2 /\ cap.busy = Reading
    BY <2>3, <2>4, <2>5 DEF Piped
  <2>7. \A i \in Reading \cup ({cap.ready} \ {None}) : cap.img[i] # None
    BY <2>3, <2>6 DEF Kept
  <2>8. ASSUME cap.kind = "stream", NEW i \in Buf
        PROVE  Cardinality({s \in {"queued", "done", "ready", "busy"} :
                              \/ s = "queued" /\ i \in cap.queued
                              \/ s = "done" /\ i \in Range(cap.done)
                              \/ s = "ready" /\ i = cap.ready
                              \/ s = "busy" /\ i \in cap.busy}) = 1
    <3> DEFINE P == {s \in {"queued", "done", "ready", "busy"} :
                       \/ s = "queued" /\ i \in cap.queued
                       \/ s = "done" /\ i \in Range(cap.done)
                       \/ s = "ready" /\ i = cap.ready
                       \/ s = "busy" /\ i \in cap.busy}
    <3>1. Range(cap.done) = InDone(cap)
      BY DEF Range, InDone
    <3>2. /\ cap.queued \cap InDone(cap) = {} /\ cap.queued \cap cap.busy = {}
          /\ InDone(cap) \cap cap.busy = {} /\ cap.ready \notin cap.queued \cup InDone(cap)
          /\ Buf \subseteq cap.queued \cup InDone(cap) \cup cap.busy \cup {cap.ready}
          /\ cap.ready \notin cap.busy
      BY <2>3, <2>8 DEF Kept
    <3>3. CASE i \in cap.queued
      <4>1. P = {"queued"}
        BY <3>1, <3>2, <3>3
      <4> QED BY <4>1, FS_Singleton
    <3>4. CASE i \in InDone(cap)
      <4>1. P = {"done"}
        BY <3>1, <3>2, <3>4
      <4> QED BY <4>1, FS_Singleton
    <3>5. CASE i = cap.ready
      <4>1. P = {"ready"}
        BY <3>1, <3>2, <3>5
      <4> QED BY <4>1, FS_Singleton
    <3>6. CASE i \in cap.busy
      <4>1. P = {"busy"}
        BY <3>1, <3>2, <3>6
      <4> QED BY <4>1, FS_Singleton
    <3> QED BY <3>2, <3>3, <3>4, <3>5, <3>6
  <2> QED BY <2>3, <2>6, <2>7, <2>8 DEF Kept
<1> QED BY <1>1, CaptureInvariant, PTL

(* The frame buffer shows the last frame that was processed, in the whole  *)
(* window, when nothing is under way (frame_process_compare reads the      *)
(* window while the main loop may change it).                              *)
THEOREM LastFrameShown == Spec => []FrameShown
<1>1. ASSUME IInv PROVE FrameShown
  <2> SUFFICES ASSUME Alive, client.connected, InFlight = 0, ~ cap.full, ~ RefreshAsked, thr.prev # None,
                      NEW k \in Cols(cap.win)
               PROVE  cap.fb[k] = cap.img[thr.prev][k]
    BY DEF FrameShown
  <2>1. /\ Descriptor(cap) /\ stdin \in Seq(Requests) /\ client.todo \in Seq(Requests) /\ Shown
    BY <1>1 DEF IInv, Types
  <2>2. DOMAIN cap.pin = {} /\ DOMAIN cap.pout = {}
    <3> DEFINE x == Len(cap.pin)
               y == Len(cap.pout)
    <3>1. x \in Nat /\ y \in Nat /\ DOMAIN cap.pin = 1 .. x /\ DOMAIN cap.pout = 1 .. y
      BY <2>1 DEF Descriptor
    <3>2. PICK n \in Nat : x + y + n = 0
      BY DEF InFlight
    <3> HIDE DEF x, y
    <3>3. x = 0 /\ y = 0
      BY <3>1, <3>2
    <3> QED BY <3>1, <3>3
  <2>3. ~ Critical
    <3>1. ASSUME Critical PROVE FALSE
      <4>1. 1 \in DOMAIN Path /\ Path[1].op = "refresh"
        BY <3>1 DEF Critical
      <4>2. \/ 1 \in DOMAIN stdin /\ Path[1] = stdin[1]
            \/ /\ 1 - Len(stdin) \in DOMAIN client.todo
               /\ Path[1] = client.todo[1 - Len(stdin)]
        BY <2>1, <4>1, ConcatOf DEF Path
      <4> QED BY <4>1, <4>2 DEF RefreshAsked
    <3> QED BY <3>1
  <2>4. Plain(cap)
    BY <2>2 DEF Plain
  <2>5. ShowsAt(cap, thr.prev, k)
    BY <2>1, <2>3, <2>4 DEF Shown, Look
  <2> QED BY <2>2, <2>5 DEF ShowsAt
<1> QED BY <1>1, CaptureInvariant, PTL

(* A change of the frame buffer that the client did not look at is on its  *)
(* way to it (update in capture_proc_agent.c).                             *)
THEOREM NoChangeLost == Spec => []ChangesAnnounced
<1>1. ASSUME IInv PROVE ChangesAnnounced
  BY <1>1 DEF IInv, Announced
<1> QED BY <1>1, CaptureInvariant, PTL

(* An answer of the agent is the one that the client waits for             *)
(* (proc_callback in capture_proc_interface.c).                            *)
THEOREM NoAnswerMistaken == Spec => []AnswersMatch
<1>1. ASSUME IInv PROVE AnswersMatch
  BY <1>1 DEF IInv
<1> QED BY <1>1, CaptureInvariant, PTL
=============================================================================
