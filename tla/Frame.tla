------------------------------- MODULE Frame -------------------------------
(***************************************************************************)
(* The frame pipeline of a capture process (vu/capture/capture_frame.c)    *)
(* and the devices that feed it: V4L2 in streaming or in read/write mode   *)
(* (v4l/v4ldev.c), a sequence of image files (file/filedev.c).             *)
(*                                                                         *)
(* The main loop sends the number of a filled buffer to the processing     *)
(* thread, which compares it with the buffer before and sends back the     *)
(* area that changed; the main loop copies this area to the frame buffer   *)
(* and gives the older of the two buffers back to the device.              *)
(*                                                                         *)
(* Images are one row of Width columns of two colours; what the device or  *)
(* the allocator may overwrite is Junk.  Functions of the code that call   *)
(* each other are operators from a descriptor to the next one.             *)
(* Definitions that begin with Bug are mistakes for the properties to find.*)
(***************************************************************************)
EXTENDS Integers, Sequences, FiniteSets, FiniteSetsExt, Functions

CONSTANTS None,
          NBufs,          \* the buffers of the device
          Width,          \* the columns of an image
          Scenes,         \* the images that a camera may give
          NFiles          \* the files of a sequence

ASSUME FrameAssumption == /\ NBufs \in Nat /\ NBufs >= 2
                          /\ Width \in Nat \ {0} /\ NFiles \in Nat \ {0}
                          /\ Scenes \subseteq [0 .. Width - 1 -> 0 .. 1]

Buf == 0 .. NBufs - 1
Col == 0 .. Width - 1
Junk == 2
Image == [Col -> 0 .. 1]
Window == {g \in [x : Col, w : 1 .. Width] : g.x + g.w <= Width}
Whole == [x |-> 0, w |-> Width]
Nothing == [x |-> 0, w |-> 0]
Kind == {"stream", "readwrite", "file"}

ASSUME NoneAssumption ==
  None \notin Buf \cup Image \cup [x : Nat, w : Nat]

FileImage(k) == [c \in Col |-> IF c = k THEN 1 ELSE 0]

VARIABLES cap,            \* capture_frame_t with its device and its queues
          thr             \* the processing thread

frameVars == <<cap, thr>>

FrameInit(kind) ==
  /\ cap = [kind |-> kind,
            img |-> [i \in Buf |-> None],        \* None: free, or the device's
            queued |-> IF kind = "stream" THEN Buf ELSE {},
            done |-> <<>>,                       \* filled, not dequeued yet
            ready |-> None, busy |-> {},
            full |-> TRUE, requested |-> TRUE, processing |-> 0,
            period |-> FALSE, win |-> Whole,
            fb |-> [c \in Col |-> 0],
            pin |-> <<>>, pout |-> <<>>, closed |-> FALSE,
            current |-> -1, seen |-> -1, clocks |-> 0,
            loop |-> FALSE, sync |-> FALSE]
  /\ thr = [pc |-> "idle", cur |-> None, prev |-> None, win |-> Whole]

Pixel(c, i, k) == IF c.img[i] = None THEN Junk ELSE c.img[i][k]
Cols(g) == {c \in Col : g.x <= c /\ c < g.x + g.w}

-----------------------------------------------------------------------------
(* The devices. *)

QBuf(c, i) == [c EXCEPT !.img[i] = None,
                        !.queued = IF c.kind = "stream" THEN @ \cup {i} ELSE @]

(* The buffer that was ready and not processed goes back to the device. *)
Requeue(c) == IF c.ready = None THEN c ELSE QBuf(c, c.ready)

ReadStream(c) ==
  [Requeue(c) EXCEPT !.ready = Head(c.done), !.done = Tail(@)]

(* An input/output error may take a buffer off the queue of the driver. *)
Checkup(c) ==
  LET lost == {i \in Buf : /\ i # c.ready /\ i \notin c.busy
                           /\ i \notin c.queued \cup Range(c.done)}
  IN  [c EXCEPT !.queued = @ \cup lost,
                !.img = [i \in Buf |-> IF i \in lost THEN None ELSE @[i]]]

FreeBufs(c) == {i \in Buf : c.img[i] = None}

ReadWrite(c, im) ==
  IF FreeBufs(c) = {} THEN c
  ELSE LET i == Min(FreeBufs(c))
       IN  [Requeue([c EXCEPT !.img[i] = im]) EXCEPT !.ready = i]

(* The sequence of files goes on by its clock, or at each read. *)
BugSequenceNext(c) == [c EXCEPT !.current = @ + 1]
SequenceNext(c) ==
  LET cur == IF c.current < NFiles - 1 THEN c.current + 1
             ELSE IF c.loop THEN 0 ELSE c.current
      armed == ~ c.sync /\ (cur < NFiles - 1 \/ c.loop)
  IN  [c EXCEPT !.current = cur, !.clocks = IF armed THEN @ + 1 ELSE @]

SequenceRestart(c) == IF c.sync THEN [c EXCEPT !.current = 0]
                      ELSE SequenceNext([c EXCEPT !.current = -1])

(* A file that changed is marked as seen before a buffer is found for it. *)
ReadFile(c) ==
  LET d == IF c.current < 0 \/ c.sync THEN SequenceNext(c) ELSE c
      e == [Requeue(d) EXCEPT !.seen = d.current, !.ready = None]
      i == Min(FreeBufs(e))
  IN  IF d.current = d.seen THEN d
      ELSE IF FreeBufs(e) = {} THEN e
      ELSE [e EXCEPT !.img[i] = FileImage(e.current), !.ready = i]

DeviceRead(c) == IF c.kind = "file" THEN ReadFile(c) ELSE c

-----------------------------------------------------------------------------
(* The main loop. *)

Overload(c) == c.ready # None /\ c.processing > 1

(* frame_process_queue *)
ProcessQueue(c) ==
  IF c.processing > 1 THEN c
  ELSE [c EXCEPT !.pin = Append(@, [buf |-> c.ready, full |-> c.full]),
                 !.full = FALSE, !.requested = FALSE,
                 !.busy = @ \cup {c.ready}, !.ready = None,
                 !.processing = @ + 1]

(* frame_process_refresh, after device_read *)
ProcessRefresh(d) == IF d.ready # None THEN ProcessQueue(d)
                     ELSE [d EXCEPT !.requested = TRUE]

(* frame_read_event, after the device was read *)
ReadEvent(d) == IF d.ready # None /\ d.requested THEN ProcessQueue(d) ELSE d

(* frame_process_update *)
Copy(c, i, g) == [k \in Col |-> IF k \in Cols(g) THEN Pixel(c, i, k) ELSE c.fb[k]]

(* frame_process_out_read *)
BugTaken(c) == [c EXCEPT !.pout = Tail(@)]
Taken(c) == [c EXCEPT !.pout = Tail(@), !.processing = IF @ > 0 THEN @ - 1 ELSE 0]

BugGiveBack(c, m) == QBuf([c EXCEPT !.busy = @ \ {m.in}], m.in)
GiveBack(c, m) == IF m.out = None THEN c
                  ELSE QBuf([c EXCEPT !.busy = @ \ {m.out}], m.out)

OutRead(c) == LET m == Head(c.pout)
                  d == GiveBack(Taken(c), m)
              IN  [d EXCEPT !.fb = Copy(d, m.in, m.area)]

SetWindow(c, g) == [c EXCEPT !.win = g]

SetPeriod(c, p) == IF p = "bad" THEN c ELSE [c EXCEPT !.period = (p = "on")]

BugRefresh(c) == [c EXCEPT !.full = FALSE]
Refresh(c) == [c EXCEPT !.full = TRUE]       \* then frame_process_refresh

-----------------------------------------------------------------------------
(* The processing thread. *)

Send(m) == cap' = [cap EXCEPT !.pin = IF thr.pc = "idle" THEN Tail(@) ELSE @,
                              !.pout = Append(@, m)]

ThreadTake ==
  /\ thr.pc = "idle" /\ cap.pin # <<>>
  /\ LET m == Head(cap.pin)
     IN  IF thr.prev \in {None, m.buf} \/ m.full
         THEN /\ Send([in |-> m.buf, out |-> thr.prev, area |-> Whole])
              /\ thr' = [thr EXCEPT !.prev = m.buf]
         ELSE /\ cap' = [cap EXCEPT !.pin = Tail(@)]
              /\ thr' = [thr EXCEPT !.pc = "compare", !.cur = m.buf,
                                    !.win = cap.win]

(* The columns that differ, from the column `first' on.  Those beyond the  *)
(* image are not defined.                                                  *)
Differences(first, w) ==
  {D \in SUBSET (0 .. w - 1) : \A j \in 0 .. w - 1 : first + j \in Col =>
     (j \in D <=> Pixel(cap, thr.cur, first + j) # Pixel(cap, thr.prev, first + j))}

Hull(x, D) == IF D = {} THEN Nothing
              ELSE [x |-> x + Min(D), w |-> Max(D) - Min(D) + 1]

(* frame_process_compare.  The main loop may change the window meanwhile:  *)
(* the offset is that of the start, the width and the origin of the area   *)
(* are read later.                                                         *)
ThreadCompare ==
  /\ thr.pc = "compare"
  /\ \E w \in {thr.win.w, cap.win.w}, x \in {thr.win.x, cap.win.x} :
       \E D \in Differences(thr.win.x, w) :
         Send([in |-> thr.cur, out |-> thr.prev, area |-> Hull(x, D)])
  /\ thr' = [thr EXCEPT !.pc = "idle", !.prev = thr.cur, !.cur = None,
                        !.win = Whole]

(* The input queue is closed and empty. *)
ThreadEnd ==
  /\ thr.pc = "idle" /\ cap.closed /\ cap.pin = <<>>
  /\ thr' = [thr EXCEPT !.pc = "end"] /\ UNCHANGED cap

Thread == ThreadTake \/ ThreadCompare \/ ThreadEnd

(* The driver fills one of the buffers that were given to it. *)
DriverFill ==
  /\ \E i \in cap.queued, im \in Scenes :
       cap' = [cap EXCEPT !.queued = @ \ {i}, !.done = Append(@, i),
                          !.img[i] = im]
  /\ UNCHANGED thr
=============================================================================
