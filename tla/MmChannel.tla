---- MODULE MmChannel ----
(***************************************************************************)
(* A channel of mm-camera-interface: the streams bundled in it, the poll   *)
(* thread that takes their frames from the kernel, the channel's command   *)
(* thread that matches frames of one index into super buffers, the         *)
(* callback thread that hands super buffers to the HAL, and the HAL, which *)
(* asks for super buffers, returns buffers, flushes, stops and restarts.   *)
(*                                                                         *)
(* A buffer belongs to its stream and is named <<stream, buffer>>; every   *)
(* holder of it is counted in buf_refcnt, and the holder that drops the    *)
(* count to 0 gives it back to the kernel.                                 *)
(***************************************************************************)
EXTENDS Integers, Sequences, FiniteSets, FiniteSetsExt, SequencesExt

CONSTANTS
  Streams,      \* the streams of the channel, all of them bundled
  Meta,         \* the metadata stream
  StartOrder,   \* the order in which streams are started: Meta first
  AppStreams,   \* streams with an asynchronous data callback of their own
  NBuf,         \* number of buffers of each stream
  Attrs,        \* channel attributes the HAL may configure (mm_camera_channel_attr_t)
  Infos,        \* what a metadata frame may carry, and the frame it speaks of
  Requests,     \* <<super buffers, retro ones among them>> a request may ask for
  Lossy,        \* frame indices the hardware may drop on any stream
  FlushTo,      \* frames to which the autofocus may flush the queue
  FutureWait,   \* MM_CAMERA_MAX_FUTURE_FRAME_WAIT
  MaxFrame,     \* bound: frames of a run
  MaxBacklog,   \* bound: frames waiting for the command thread
  MaxCalls,     \* bound: requests, cancels and flushes of a run
  MaxRuns       \* bound: starts of the channel

ASSUME ChannelAssumption ==
  /\ Meta \in Streams /\ AppStreams \subseteq Streams /\ IsFiniteSet(Streams)
  /\ NBuf \in Nat \ {0}
  /\ StartOrder \in Seq(Streams) /\ Head(StartOrder) = Meta
  /\ \A s \in Streams : \E i \in 1 .. Len(StartOrder) :
       \A j \in 1 .. Len(StartOrder) : StartOrder[j] = s <=> j = i
  /\ Attrs \subseteq [notify_mode : {"BURST", "CONTINUOUS"}, priority : {"NORMAL", "LOW"},
                      look_back : Nat, post_frame_skip : Nat, water_mark : Nat,
                      max_unmatched_frames : Nat]
  /\ Infos \subseteq [what : {"plain", "diverted", "prepDone", "needFuture", "good"}, frame : Nat]
  /\ Requests \subseteq Nat \X Nat /\ FlushTo \subseteq Nat /\ FutureWait \in Nat
  /\ {MaxFrame, MaxBacklog, MaxCalls, MaxRuns} \subseteq Nat

VARIABLES
  attr,       \* bundle.superbuf_queue.attr
  ch,         \* what the command thread owns of the channel
  crashed,    \* the command thread spins in a loop, uses a freed node, or a
              \* dead thread's queue is used
  api,        \* the HAL call in progress: its step and the stream it is at
  alive,      \* cmd_thread has not exited
  state,      \* state of each stream
  kernel,     \* buffers of a stream in the kernel (external)
  frame,      \* index of the last frame of each stream (external)
  refcnt,     \* buf_status[].buf_refcnt
  poll,       \* the frame the poll thread is handing on
  cmdq,       \* cmd_thread.cmd_queue of the channel
  cbq,        \* cb_thread.cmd_queue
  strq,       \* cmd_thread.cmd_queue of each stream with a callback
  hal,        \* buffers of super buffers the HAL holds
  app,        \* buffers the HAL got from a stream's own callback
  asked,      \* super buffers the HAL has asked for and not received
  prep,       \* the HAL prepares a snapshot; the answer is due in the metadata (external)
  calls, runs

chanVars == <<attr, ch, crashed, api, alive, cmdq, cbq, asked, prep, calls, runs>>
bufVars  == <<state, kernel, frame, refcnt, poll, strq, hal, app>>
vars == <<chanVars, bufVars>>

----
(* Super buffer queue *)

Bufs == 1 .. NBuf
NoBuf == 0
Idle == [s |-> NoBuf]
EmptySlot == [buf |-> NoBuf, frame_idx |-> 0]

\* bundle.superbuf_queue and the channel's fields when the channel is added ...
NoRequest == [queue |-> <<>>, match_cnt |-> 0, expected_frame_id |-> 0, good_frame_id |-> 0,
              pending_cnt |-> 0, pending_retro_cnt |-> 0, bWaitForPrepSnapshotDone |-> FALSE,
              needLEDFlash |-> FALSE, bracketing |-> FALSE, startZSlSnapshotCalled |-> FALSE,
              diverted_frame_id |-> 0]
\* ... and what mm_channel_stop resets of them
EmptyQueue(c) == [c EXCEPT !.queue = <<>>, !.match_cnt = 0,
                           !.expected_frame_id = 0, !.good_frame_id = 0]

Low == attr.priority = "LOW"
Burst == attr.notify_mode = "BURST"

\* The buffers of a set of nodes of the queue.
buffersOf(q, I) == {p \in Streams \X Bufs :
                      \E i \in I : q[i].slot[p[1]].frame_idx # 0 /\ q[i].slot[p[1]].buf = p[2]}

\* A set of nodes, in the order they have in the queue.
rank(I, i) == Cardinality({j \in I : j <= i})
keep(q, I) == [k \in 1 .. Cardinality(I) |-> q[CHOOSE i \in I : rank(I, i) = k]]
unmatched(q) == {i \in DOMAIN q : ~q[i].matched}
allMatched(slot) == \A s \in Streams : slot[s].frame_idx # 0

\* A step of the command thread: the fields of the channel after it, the buffers
\* it gives back, and whether it went wrong.
result(c, back, bad) == [c |-> c, back |-> back, bad |-> bad]

(* Mutant: every queue takes the closest metadata. *)
FitsClosest(node, s, f) ==
  node.frame_idx = f \/ (node.slot[s].frame_idx = 0 /\ s = Meta /\ node.frame_idx < f)

\* Whether frame f of stream s belongs in a node; a low priority queue takes the
\* closest metadata.
Fits(node, s, f) ==
  \/ node.frame_idx = f
  \/ Low /\ node.slot[s].frame_idx = 0 /\
       IF s = Meta THEN node.frame_idx < f ELSE node.unmatched_meta_idx > f

(* Mutant: the node just before the completed one is kept. *)
staleButLast(older, pos) == IF older = {} THEN {} ELSE Min(older) .. (pos - 2)

\* The nodes a completed node at pos makes stale.
stale(older, pos) == IF older = {} THEN {} ELSE Min(older) .. (pos - 1)

\* The frame goes into node pos; when that completes it, every node from the
\* oldest unmatched one on is released.
fill(c, s, b, f, pos, older) ==
  LET old   == c.queue[pos]
      node  == IF old.unmatched_meta_idx > 0
               THEN [old EXCEPT !.unmatched_meta_idx = 0, !.frame_idx = f] ELSE old
      slot  == [node.slot EXCEPT ![s] = [buf |-> b, frame_idx |-> f]]
      done  == [node EXCEPT !.slot = slot, !.matched = TRUE, !.expected_frame = FALSE]
      hold  == c.diverted_frame_id = f
      wait  == [node EXCEPT !.slot = slot, !.expected_frame = @ \/ hold]
      drop  == stale(older, pos)
  IN  CASE node.slot[s].frame_idx # 0 ->
             result([c EXCEPT !.queue[pos] = node], {<<s, b>>}, FALSE)
        [] node.slot[s].frame_idx = 0 /\ allMatched(slot) ->
             result([c EXCEPT !.queue = keep([@ EXCEPT ![pos] = done], DOMAIN @ \ drop),
                              !.match_cnt = @ + 1,
                              !.expected_frame_id = f + attr.post_frame_skip],
                    buffersOf(c.queue, drop), FALSE)
        [] OTHER ->
             result([c EXCEPT !.queue[pos] = wait,
                              !.diverted_frame_id = IF hold THEN 0 ELSE @], {}, FALSE)

(* Mutant: the limit itself is still tolerated. *)
excessLess(q) == Cardinality(unmatched(q)) - attr.max_unmatched_frames - 1

excess(q) == Cardinality(unmatched(q)) - attr.max_unmatched_frames

\* The frame gets a node of its own, before the first newer unmatched one; nodes
\* over the limit are released first, starting at the oldest that is older than
\* the frame. The last resort releases that oldest node itself, which the loop
\* must not have released already.
insert(c, s, b, f, older, newer) ==
  LET q      == c.queue
      over   == excess(q)
      first  == Min(older)
      victims == IF older = {} \/ over <= 0 THEN {}
                 ELSE {i \in first .. Len(q) : ~q[i].expected_frame
                                               /\ (newer = {} \/ i # Min(newer))}
      gone   == {i \in victims : rank(victims, i) <= over}
      still  == Cardinality(gone) < over
      drop   == IF still THEN gone \cup {first} ELSE gone
      at     == IF newer = {} THEN Len(q) + 1 ELSE Min(newer)
      single == Cardinality(Streams) = 1
      hold   == f \in {c.diverted_frame_id, c.good_frame_id}
      node   == [frame_idx |-> f,
                 slot |-> [t \in Streams |-> IF t = s THEN [buf |-> b, frame_idx |-> f] ELSE EmptySlot],
                 matched |-> single, expected_frame |-> hold /\ ~single,
                 unmatched_meta_idx |-> IF Low /\ s = Meta THEN f ELSE 0]
  IN  IF over > 0 /\ older = {} THEN result(c, {<<s, b>>}, FALSE)
      ELSE result([c EXCEPT !.queue = keep(q, (1 .. at - 1) \ drop) \o <<node>>
                                      \o keep(q, (at .. Len(q)) \ drop),
                            !.diverted_frame_id = IF hold THEN 0 ELSE @,
                            !.match_cnt = IF single THEN @ + 1 ELSE @,
                            !.expected_frame_id = IF single THEN f + attr.post_frame_skip ELSE @],
                  buffersOf(q, drop), still /\ first \in gone)

\* mm_channel_superbuf_comp_and_enqueue, after the metadata has been looked at
enqueue(c, s, b, f) ==
  LET q     == c.queue
      fits  == {i \in unmatched(q) : Fits(q[i], s, f)}
      pos   == IF fits = {} THEN Len(q) + 1 ELSE Min(fits)
      seen  == {i \in unmatched(q) : i < pos}
      older == {i \in seen : q[i].frame_idx < f}
      newer == {i \in seen : q[i].frame_idx > f}
      awaited == \E i \in DOMAIN q : q[i].expected_frame /\ q[i].frame_idx = f
  IN  CASE f < c.expected_frame_id /\ ~awaited -> result(c, {<<s, b>>}, FALSE)
        [] ~(f < c.expected_frame_id /\ ~awaited) /\ fits # {} -> fill(c, s, b, f, pos, older)
        [] OTHER -> insert(c, s, b, f, older, newer)

flush(c) == result([c EXCEPT !.queue = <<>>, !.match_cnt = @ - Cardinality(DOMAIN c.queue \ unmatched(c.queue))],
                   buffersOf(c.queue, DOMAIN c.queue), FALSE)

\* Both loops "while match_cnt is over the mark" take matched nodes from the
\* head; they never end when the head is not matched.
trim(c, mark) ==
  LET n == c.match_cnt - mark
  IN  CASE ~Burst \/ n <= 0 -> result(c, {}, FALSE)
        [] Burst /\ n > 0 /\ n <= Len(c.queue) /\ \A i \in 1 .. n : c.queue[i].matched ->
             result([c EXCEPT !.queue = SubSeq(@, n + 1, Len(@)), !.match_cnt = mark],
                    buffersOf(c.queue, 1 .. n), FALSE)
        [] OTHER -> result(c, {}, TRUE)

\* mm_channel_handle_metadata: what frame f says of the frames to come; a frame
\* that is past is not diverted.
handleMetadata(c, f, info) ==
  CASE info.what = "plain" -> result(c, {}, FALSE)
    [] info.what = "diverted" ->
         result([c EXCEPT !.diverted_frame_id = IF info.frame >= f THEN info.frame ELSE 0], {}, FALSE)
    [] info.what = "prepDone" ->
         result([c EXCEPT !.bWaitForPrepSnapshotDone = FALSE, !.needLEDFlash = FALSE], {}, FALSE)
    [] info.what = "needFuture" ->
         flush([c EXCEPT !.bWaitForPrepSnapshotDone = FALSE, !.needLEDFlash = TRUE,
                         !.expected_frame_id = @ + FutureWait])
    [] info.what = "good" ->
         result([c EXCEPT !.expected_frame_id = info.frame, !.good_frame_id = info.frame,
                          !.bracketing = TRUE], {}, FALSE)

andThen(r, Op(_)) == LET n == Op(r.c) IN result(n.c, r.back \cup n.back, r.bad \/ n.bad)

compAndEnqueue(c, m) ==
  IF m.s = Meta THEN andThen(handleMetadata(c, m.f, m.info), LAMBDA d : enqueue(d, m.s, m.b, m.f))
  ELSE enqueue(c, m.s, m.b, m.f)

request(c, m) ==
  trim([c EXCEPT !.pending_cnt = m.n,
                 !.pending_retro_cnt = IF m.n = 0 \/ m.retro > m.n THEN m.n ELSE m.retro,
                 !.bWaitForPrepSnapshotDone = FALSE,
                 !.needLEDFlash = IF m.retro > 0 THEN FALSE ELSE @], attr.look_back)

\* ZSL is started in the server for a flash capture, and stopped when nothing
\* is pending any more.
zsl(c) ==
  CASE c.pending_cnt > 0 /\ (c.needLEDFlash \/ c.bracketing) /\ ~c.startZSlSnapshotCalled ->
         [c EXCEPT !.startZSlSnapshotCalled = TRUE, !.bWaitForPrepSnapshotDone = FALSE]
    [] c.pending_cnt = 0 /\ c.startZSlSnapshotCalled ->
         [c EXCEPT !.startZSlSnapshotCalled = FALSE, !.needLEDFlash = FALSE,
                   !.bracketing = FALSE, !.bWaitForPrepSnapshotDone = FALSE]
    [] OTHER -> c

(* Mutant: the count of retro frames limits also a request without them. *)
toSendRetro(c) ==
  LET lead == {n \in 0 .. Len(c.queue) : \A i \in 1 .. n : c.queue[i].matched}
  IN  CASE c.bWaitForPrepSnapshotDone -> 0
        [] ~c.bWaitForPrepSnapshotDone /\ ~Burst -> Max(lead)
        [] OTHER -> Min({Max(lead), c.pending_retro_cnt, c.pending_cnt})

\* How many super buffers the dispatch loop takes from the head of the queue.
toSend(c) ==
  LET lead == {n \in 0 .. Len(c.queue) : \A i \in 1 .. n : c.queue[i].matched}
      most == IF c.pending_retro_cnt > 0 THEN {c.pending_retro_cnt, c.pending_cnt} ELSE {c.pending_cnt}
  IN  CASE c.bWaitForPrepSnapshotDone -> 0
        [] ~c.bWaitForPrepSnapshotDone /\ ~Burst -> Max(lead)
        [] OTHER -> Min({Max(lead)} \cup most)

\* The fields after n super buffers are sent; the last retro one makes the
\* channel wait for the HAL to prepare the snapshot.
afterSending(c, n) ==
  LET d == [c EXCEPT !.queue = SubSeq(@, n + 1, Len(@)), !.match_cnt = @ - n]
      p == [d EXCEPT !.pending_cnt = @ - n,
                     !.bWaitForPrepSnapshotDone = @ \/ (n > 0 /\ c.pending_retro_cnt = n),
                     !.pending_retro_cnt = IF @ > n THEN @ - n ELSE 0]
  IN  CASE ~Burst \/ n = 0 -> d
        [] Burst /\ n > 0 /\ p.pending_cnt = 0 /\ p.startZSlSnapshotCalled ->
             [p EXCEPT !.startZSlSnapshotCalled = FALSE, !.needLEDFlash = FALSE, !.bracketing = FALSE]
        [] OTHER -> p

----
(* Buffers *)

\* mm_channel_qbuf, mm_stream_buf_done: a holder gives up each buffer of a set;
\* a stream that is not active ignores it.
refcntAfter(rc, back) ==
  [s \in Streams |-> [b \in Bufs |->
     IF <<s, b>> \in back /\ state[s] \in {"ACTIVE", "OFF"} /\ rc[s][b] > 0 THEN rc[s][b] - 1 ELSE rc[s][b]]]
kernelAfter(back) ==
  [s \in Streams |-> kernel[s] \cup
     {b \in Bufs : <<s, b>> \in back /\ state[s] \in {"ACTIVE", "OFF"} /\ refcnt[s][b] = 1}]
bufDone(back) == refcnt' = refcntAfter(refcnt, back) /\ kernel' = kernelAfter(back)

\* The hardware has a frame without a buffer to put it in, or loses it.
DropFrame(s) ==
  /\ state[s] = "ACTIVE" /\ frame[s] < MaxFrame
  /\ kernel[s] = {} \/ frame[s] + 1 \in Lossy
  /\ frame' = [frame EXCEPT ![s] = @ + 1]
  /\ UNCHANGED <<chanVars, state, kernel, refcnt, poll, strq, hal, app>>

Plain == [what |-> "plain", frame |-> 0]

\* What the server may say in a metadata frame: the outcome of a snapshot's
\* preparation when one is due, the good frames when ZSL was started.
infos(s) ==
  CASE s # Meta -> {Plain}
    [] s = Meta /\ prep -> {i \in Infos : i.what \in {"prepDone", "needFuture"}}
    [] OTHER -> {i \in Infos : /\ i.what \notin {"prepDone", "needFuture"}
                               /\ i.what = "good" => ch.startZSlSnapshotCalled}

\* mm_stream_data_notify: a frame is read and counted once for the channel and
\* once for the stream's own callback. Buffers are alike: the least one in the
\* kernel stands for whichever the driver fills.
ReadFrame(s) ==
  /\ poll = Idle /\ Len(cmdq) < MaxBacklog
  /\ state[s] = "ACTIVE" /\ frame[s] < MaxFrame
  /\ frame' = [frame EXCEPT ![s] = @ + 1]
  /\ kernel[s] # {}
  /\ \E b \in {Min(kernel[s])}, info \in infos(s) :
       /\ prep' = (prep /\ s # Meta)
       /\ kernel' = [kernel EXCEPT ![s] = @ \ {b}]
       /\ refcnt' = [refcnt EXCEPT ![s][b] = @ + 1 + IF s \in AppStreams THEN 1 ELSE 0]
       /\ poll' = [s |-> s, b |-> b, f |-> frame'[s], info |-> info]
  /\ UNCHANGED <<attr, ch, crashed, api, alive, cmdq, cbq, asked, calls, runs, state, strq, hal, app>>

\* mm_stream_handle_rcvd_buf: the frame goes to the channel's command thread and
\* to the stream's, if that still runs.
HandleRcvdBuf ==
  /\ poll # Idle
  /\ poll' = Idle
  /\ crashed' = (crashed \/ ~alive)
  /\ cmdq' = Append(cmdq, [cmd |-> "DATA_CB", s |-> poll.s, b |-> poll.b, f |-> poll.f, info |-> poll.info])
  /\ strq' = IF poll.s \in AppStreams /\ state[poll.s] \in {"ACTIVE", "OFF"}
             THEN [strq EXCEPT ![poll.s] = Append(@, poll.b)] ELSE strq
  /\ UNCHANGED <<attr, ch, api, alive, cbq, asked, prep, calls, runs, state, kernel, frame, refcnt, hal, app>>

(* Mutant: the callback shares the count of the thread. *)
DispatchAppDataShared(s) ==
  /\ strq[s] # <<>>
  /\ strq' = [strq EXCEPT ![s] = Tail(@)]
  /\ app' = app \cup {<<s, Head(strq[s])>>}
  /\ bufDone({<<s, Head(strq[s])>>})
  /\ UNCHANGED <<chanVars, state, frame, poll, hal>>

\* mm_stream_dispatch_app_data: the callback gets a count of its own, then the
\* one taken for the thread is given up.
DispatchAppData(s) ==
  /\ strq[s] # <<>>
  /\ strq' = [strq EXCEPT ![s] = Tail(@)]
  /\ app' = app \cup {<<s, Head(strq[s])>>}
  /\ UNCHANGED <<chanVars, state, kernel, frame, refcnt, poll, hal>>

----
(* Channel threads *)

(* Mutant: sync_sem is posted only when there was something to flush. *)
ackIfAny(m) == IF m.cmd = "FLUSH_QUEUE" /\ ch.queue # <<>> THEN [api EXCEPT !.ack = TRUE] ELSE api

\* The command thread posts sync_sem for the caller of a flush.
ackFlush(m) == IF m.cmd = "FLUSH_QUEUE" THEN [api EXCEPT !.ack = TRUE] ELSE api

\* mm_channel_process_stream_buf
ProcessStreamBuf ==
  /\ alive /\ cmdq # <<>>
  /\ LET m == Head(cmdq)
         r == CASE m.cmd = "DATA_CB" -> compAndEnqueue(ch, m)
                [] m.cmd = "REQ_DATA_CB" -> request(ch, m)
                [] m.cmd = "FLUSH_QUEUE" -> flush([ch EXCEPT !.expected_frame_id = m.frame_idx])
         t == IF m.cmd = "FLUSH_QUEUE" THEN r
              ELSE andThen(result(zsl(r.c), r.back, r.bad), LAMBDA c : trim(c, attr.water_mark))
         n == IF m.cmd = "FLUSH_QUEUE" THEN 0 ELSE toSend(t.c)
     IN  /\ cmdq' = Tail(cmdq)
         /\ ch' = afterSending(t.c, n)
         /\ crashed' = (crashed \/ t.bad)
         /\ cbq' = cbq \o [i \in 1 .. n |-> [slot |-> t.c.queue[i].slot,
                            bReadyForPrepareSnapshot |-> i = n /\ ch'.bWaitForPrepSnapshotDone]]
         /\ bufDone(t.back)
         /\ api' = ackFlush(m)
  /\ UNCHANGED <<attr, alive, asked, prep, calls, runs, state, frame, poll, strq, hal, app>>

\* mm_channel_dispatch_super_buf: the HAL gets a super buffer.
DispatchSuperBuf ==
  /\ cbq # <<>>
  /\ LET slot == Head(cbq).slot
     IN  /\ hal' = hal \cup {<<s, slot[s].buf>> : s \in Streams}
         /\ prep' = (prep \/ Head(cbq).bReadyForPrepareSnapshot)
  /\ cbq' = Tail(cbq)
  /\ asked' = IF asked > 0 THEN asked - 1 ELSE 0
  /\ UNCHANGED <<attr, ch, crashed, api, alive, cmdq, calls, runs,
                 state, kernel, frame, refcnt, poll, strq, app>>

----
(* HAL *)

\* A buffer of a super buffer, or of a stream's callback, comes back.
ReturnHal(p) ==
  /\ hal' = hal \ {p}
  /\ bufDone({p})
  /\ UNCHANGED <<chanVars, state, frame, poll, strq, app>>
ReturnApp(p) ==
  /\ app' = app \ {p}
  /\ bufDone({p})
  /\ UNCHANGED <<chanVars, state, frame, poll, strq, hal>>

active == api.op = "none" /\ alive
post(m) == cmdq' = Append(cmdq, m)

\* mm_channel_request_super_buf; the HAL takes one picture at a time.
RequestSuperBuf ==
  /\ active /\ Burst /\ asked = 0 /\ calls < MaxCalls
  /\ \E r \in Requests : post([cmd |-> "REQ_DATA_CB", n |-> r[1], retro |-> r[2]]) /\ asked' = r[1]
  /\ calls' = calls + 1
  /\ UNCHANGED <<bufVars, attr, ch, crashed, api, alive, cbq, prep, runs>>

\* mm_channel_cancel_super_buf_request
CancelSuperBuf ==
  /\ active /\ asked > 0
  /\ post([cmd |-> "REQ_DATA_CB", n |-> 0, retro |-> 0])
  /\ asked' = 0
  /\ UNCHANGED <<bufVars, attr, ch, crashed, api, alive, cbq, prep, calls, runs>>

\* mm_channel_flush_super_buf_queue: the caller waits for the command thread.
FlushSuperBufQueue ==
  /\ active /\ calls < MaxCalls
  /\ \E f \in FlushTo : post([cmd |-> "FLUSH_QUEUE", frame_idx |-> f])
  /\ api' = [op |-> "flush", at |-> 1, ack |-> FALSE]
  /\ calls' = calls + 1
  /\ UNCHANGED <<bufVars, attr, ch, crashed, alive, cbq, asked, prep, runs>>
FlushDone ==
  /\ api.op = "flush" /\ api.ack
  /\ api' = [op |-> "none", at |-> 1, ack |-> FALSE]
  /\ UNCHANGED <<bufVars, attr, ch, crashed, alive, cmdq, cbq, asked, prep, calls, runs>>

\* mm_channel_start: the threads are launched, then every stream gets its
\* buffers registered and is switched on. The HAL has given back what it had.
Start ==
  /\ api.op = "none" /\ ~alive /\ runs < MaxRuns
  /\ hal = {} /\ app = {} /\ poll = Idle
  /\ alive' = TRUE
  /\ api' = [op |-> "start", at |-> 1, ack |-> FALSE]
  /\ runs' = runs + 1
  /\ UNCHANGED <<bufVars, attr, ch, crashed, cmdq, cbq, asked, prep, calls>>
StartStream ==
  /\ api.op = "start"
  /\ LET s == StartOrder[api.at]
     IN  /\ state' = [state EXCEPT ![s] = "ACTIVE"]
         /\ kernel' = [kernel EXCEPT ![s] = Bufs]
         /\ refcnt' = [refcnt EXCEPT ![s] = [b \in Bufs |-> 0]]
         /\ frame' = [frame EXCEPT ![s] = 0]
  /\ LET last == api.at = Len(StartOrder)
     IN  /\ api' = IF last THEN [api EXCEPT !.op = "none"] ELSE [api EXCEPT !.at = @ + 1]
         /\ ch' = IF last THEN [ch EXCEPT !.bWaitForPrepSnapshotDone = FALSE] ELSE ch
  /\ UNCHANGED <<attr, crashed, alive, cmdq, cbq, asked, prep, calls, runs, poll, strq, hal, app>>

\* mm_channel_stop, when no request of the HAL is open: every stream is switched
\* off, metadata last, and its buffers are unregistered ...
Stop ==
  /\ active /\ asked = 0
  /\ api' = [op |-> "off", at |-> 1, ack |-> FALSE]
  /\ UNCHANGED <<bufVars, attr, ch, crashed, alive, cmdq, cbq, asked, prep, calls, runs>>
stopOrder == Reverse(StartOrder)
\* The poll thread is waited for only while the stream's descriptor is polled:
\* once the last buffer has left the kernel, its removal is already under way.
StopStream ==
  /\ api.op = "off"
  /\ LET s == stopOrder[api.at]
     IN  /\ poll.s = s => kernel[s] = {}
         /\ state' = [state EXCEPT ![s] = "OFF"]
         /\ kernel' = [kernel EXCEPT ![s] = {}]
  /\ api' = [api EXCEPT !.op = "join"]
  /\ UNCHANGED <<attr, ch, crashed, alive, cmdq, cbq, asked, prep, calls, runs,
                 frame, refcnt, poll, strq, hal, app>>
UnregStream ==
  /\ api.op = "join"
  /\ LET s == stopOrder[api.at]
     IN  /\ strq[s] = <<>>
         /\ state' = [state EXCEPT ![s] = "REG"]
         /\ kernel' = [kernel EXCEPT ![s] = {}]
         /\ refcnt' = [refcnt EXCEPT ![s] = [b \in Bufs |-> 0]]
  /\ IF api.at < Len(StartOrder)
     THEN /\ api' = [api EXCEPT !.op = "off", !.at = @ + 1]
          /\ UNCHANGED cmdq
     ELSE /\ api' = [api EXCEPT !.op = "ack"]
          /\ post([cmd |-> "FLUSH_QUEUE", frame_idx |-> 0])
  /\ UNCHANGED <<attr, ch, crashed, alive, cbq, asked, prep, calls, runs, frame, poll, strq, hal, app>>
\* ... the queue is flushed, and the two threads are stopped one after the other,
\* each when its queue is empty.
StopCmdThread ==
  /\ api.op = "ack" /\ api.ack /\ cmdq = <<>>
  /\ alive' = FALSE
  /\ api' = [api EXCEPT !.op = "exit"]
  /\ UNCHANGED <<bufVars, attr, ch, crashed, cmdq, cbq, asked, prep, calls, runs>>
StopCbThread ==
  /\ api.op = "exit" /\ cbq = <<>>
  /\ ch' = EmptyQueue(ch)
  /\ prep' = FALSE
  /\ cmdq' = <<>>
  /\ api' = [op |-> "none", at |-> 1, ack |-> FALSE]
  /\ UNCHANGED <<bufVars, attr, crashed, alive, cbq, asked, calls, runs>>

----
Init ==
  /\ attr \in Attrs
  /\ ch = NoRequest
  /\ crashed = FALSE /\ alive = FALSE
  /\ api = [op |-> "none", at |-> 1, ack |-> FALSE]
  /\ state = [s \in Streams |-> "REG"]
  /\ kernel = [s \in Streams |-> {}]
  /\ frame = [s \in Streams |-> 0]
  /\ refcnt = [s \in Streams |-> [b \in Bufs |-> 0]]
  /\ poll = Idle
  /\ cmdq = <<>> /\ cbq = <<>> /\ strq = [s \in Streams |-> <<>>]
  /\ hal = {} /\ app = {}
  /\ asked = 0 /\ prep = FALSE
  /\ calls = 0 /\ runs = 0

Hardware == \E s \in Streams : DropFrame(s) \/ ReadFrame(s)
Threads == HandleRcvdBuf \/ ProcessStreamBuf \/ DispatchSuperBuf \/ \E s \in Streams : DispatchAppData(s)
HalReturns == (\E p \in hal : ReturnHal(p)) \/ (\E p \in app : ReturnApp(p))
HalCalls == RequestSuperBuf \/ CancelSuperBuf \/ FlushSuperBufQueue \/ Start \/ Stop
HalCallSteps == FlushDone \/ StartStream \/ StopStream \/ UnregStream \/ StopCmdThread \/ StopCbThread

\* A crash ends the process.
Next == ~crashed /\ (Hardware \/ Threads \/ HalReturns \/ HalCalls \/ HalCallSteps)

\* Every thread runs, the poll loop serves every ready stream, the sensor goes
\* on, and the HAL returns the buffers it is lent and goes on with a call it has
\* begun; it need not begin any.
Fairness ==
  /\ \A s \in Streams : SF_vars(~crashed /\ ReadFrame(s)) /\ WF_vars(~crashed /\ DispatchAppData(s))
  /\ WF_vars(~crashed /\ HandleRcvdBuf)
  /\ []<>(crashed \/ ~alive \/ cmdq = <<>>) \/ []<><<ProcessStreamBuf>>_vars  \* WF of it
  /\ WF_vars(~crashed /\ DispatchSuperBuf)
  /\ WF_vars(~crashed /\ HalReturns) /\ WF_vars(~crashed /\ HalCallSteps)

Spec == Init /\ [][Next]_vars /\ Fairness

----
(* Properties *)

holders(s, b) ==
  LET of(q, P(_)) == Cardinality({i \in DOMAIN q : P(q[i])})
  IN  of(cmdq, LAMBDA m : m.cmd = "DATA_CB" /\ m.s = s /\ m.b = b)
      + of(ch.queue, LAMBDA n : n.slot[s].buf = b)
      + of(cbq, LAMBDA n : n.slot[s].buf = b)
      + of(strq[s], LAMBDA c : c = b)
      + Cardinality({<<s, b>>} \cap hal) + Cardinality({<<s, b>>} \cap app)
      + IF poll # Idle /\ poll.s = s /\ poll.b = b THEN 1 + Cardinality({s} \cap AppStreams) ELSE 0

\* While a stream is active, the count of each of its buffers is the number of
\* threads, queues and callbacks that hold it, and a buffer nobody holds is in
\* the kernel: none is lost, none is given back twice, none is in the kernel and
\* in use.
RefcntIsHolders ==
  \A s \in Streams : state[s] = "ACTIVE" =>
    \A b \in Bufs : /\ refcnt[s][b] = holders(s, b)
                    /\ b \in kernel[s] <=> holders(s, b) = 0

\* match_cnt is the number of matched nodes and these are the first of the queue:
\* what the overflow and skip loops need to end.
MatchedFirst ==
  LET q == ch.queue
  IN  /\ ch.match_cnt = Cardinality(DOMAIN q \ unmatched(q))
      /\ \A i, j \in DOMAIN q : i < j /\ q[j].matched => q[i].matched

\* The queue holds at most one unmatched node over the limit the HAL sized its
\* buffers for, and at most the water mark of matched ones; neither loop runs
\* for ever, no node is used after it is freed.
QueueBounded ==
  /\ Cardinality(unmatched(ch.queue)) <= attr.max_unmatched_frames + 1
  /\ Burst => ch.match_cnt <= attr.water_mark
  /\ crashed => ~alive

\* All buffers of a super buffer are of one frame; in a low priority queue the
\* metadata may be of another.
OneFrame ==
  \A i \in DOMAIN cbq : \A s, t \in IF Low THEN Streams \ {Meta} ELSE Streams :
    cbq[i].slot[s].frame_idx = cbq[i].slot[t].frame_idx

\* A complete super buffer is never kept back from a request that waits for one.
NoneKeptBack ==
  ch.pending_cnt > 0 /\ ~ch.bWaitForPrepSnapshotDone => \A i \in DOMAIN ch.queue : ~ch.queue[i].matched

\* A call that waits for the channel's threads comes to its end.
CallsReturn == api.op # "none" ~> (api.op = "none" \/ crashed)
====
