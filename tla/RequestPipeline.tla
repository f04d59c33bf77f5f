--------------------------- MODULE RequestPipeline ---------------------------
(***************************************************************************)
(* Capture requests in the HAL3 (camera/QCamera2/HAL3/QCamera3HWI.cpp and  *)
(* QCamera3Channel.cpp).  The framework lends output buffers with each     *)
(* request; processCaptureRequest books the request in                     *)
(* mPendingRequestsList and its buffers in mPendingBuffersMap.  Metadata   *)
(* and filled buffers come back on the threads of the streams, in any      *)
(* order; whichever comes first waits for the other under mMutex.  flush,  *)
(* on a thread of its own, and handleCameraDeviceError stop the channels   *)
(* without mMutex and answer whatever is pending with errors.              *)
(*                                                                         *)
(* Each action is one critical section of mMutex, or one step of a thread  *)
(* between two of them.  A "regular" buffer belongs to the preview or      *)
(* video stream, a "blob" to the JPEG stream, whose job needs the metadata *)
(* of its frame first.  A request with an input buffer is a reprocess one. *)
(***************************************************************************)
EXTENDS Integers, Sequences, FiniteSets, Functions

CONSTANTS
    MaxFrame,        \* requests the framework submits
    Kinds,           \* per frame, the kinds of request it may submit
    BatchSizes,      \* values of mBatchSize (0: no batch mode)
    MinInFlight, MaxInFlight,   \* mMinInFlightRequests, mMaxInFlightRequests
    NBuf,            \* buffers of the regular stream
    LossyMeta, LossyBuf,        \* frames whose metadata or buffer may be lost
    MayOverdue,      \* may a buffer be overdue (MISSING_REQUEST_BUF_TIMEOUT)?
    MaxFlushes, MaxEvents       \* bounds on flush calls and daemon events

ASSUME PipelineConstants ==
    /\ MaxFrame \in Nat /\ NBuf \in Nat \ {0}
    /\ Kinds \in [1..MaxFrame -> SUBSET {"preview", "snapshot", "reprocess"}]
    /\ BatchSizes \subseteq Nat
    /\ {MinInFlight, MaxInFlight, MaxFlushes, MaxEvents} \subseteq Nat
    /\ MayOverdue \in BOOLEAN

VARIABLES
    mState, mFlush, mPendingRequestsList, mPendingBuffersMap,
    mPendingLiveRequest, mWokenUpByDaemon,
    mBatchSize, mToBeQueuedVidBufs, mFirstFrameNumberInBatch, mPendingBatchMap,
    pc,          \* where the request thread "app" and the flush thread are
    restart,     \* restartChannels of the flush thread
    toStop,      \* streams whose channels each thread has still to stop
    signalled,   \* mRequestCond was signalled since "app" began to wait
    unsent,      \* frames of the batch that is being collected
    sent,        \* frames whose parameters the sensor has
    metaQ,       \* metadata on its way, by its (last) frame number
    metaLoop,    \* frames handleBatchMetadata has still to handle
    frameOf,     \* mCurrentFrameNumbers of the regular stream, 0 for none
    kernel,      \* its buffers that the kernel holds
    done,        \* its buffers on the way to streamCbRoutine
    mOutOfSequenceBuffers,
    toDeliver,   \* frames streamCbRoutine has still to hand over
    jobs,        \* JPEG jobs <<frame, stage>>
    kind,        \* kinds of the requests booked so far, by frame number
    answers,     \* history: final results and ERROR_REQUESTs per frame
    returned,    \* history: how often each buffer went back
    lost,        \* history: <<"meta" or "buf", frame>> that got lost
    stale,       \* history: channels stopped with out of sequence buffers
    misled,      \* history: notifyErrorForPendingRequests met a frame that
                 \* is newer than its oldest request and answered already
    died, flushes, events

listVars == <<mPendingRequestsList, mPendingBuffersMap, mPendingLiveRequest, answers, returned>>
batchVars == <<mToBeQueuedVidBufs, mFirstFrameNumberInBatch, unsent>>
streamVars == <<frameOf, kernel, mOutOfSequenceBuffers>>
callVars == <<mFlush, pc, restart, toStop, flushes>>
rareVars == <<mBatchSize, died, events>>
ghostVars == <<kind, lost, stale, misled>>
vars == <<mState, listVars, mWokenUpByDaemon, signalled, batchVars, mPendingBatchMap,
          callVars, rareVars, ghostVars, sent, metaQ, metaLoop, streamVars, done,
          toDeliver, jobs>>

Frames == 1..MaxFrame
Booked == DOMAIN kind
Streams == {"regular", "blob"}
Threads == {"app", "flusher"}
BuffersOf(k) == CASE k = "preview" -> {"regular"}
                  [] k = "snapshot" -> Streams
                  [] k = "reprocess" -> {"blob"}

(* ERROR and DEINIT, in which no result is handled. *)
Down == mState \in {"ERROR", "DEINIT"}

Init ==
    /\ mState = "CONFIGURED" /\ mFlush = FALSE
    /\ mPendingRequestsList = {} /\ mPendingBuffersMap = {}
    /\ mPendingLiveRequest = 0 /\ mWokenUpByDaemon = FALSE
    /\ mBatchSize \in BatchSizes
    /\ mToBeQueuedVidBufs = 0 /\ mFirstFrameNumberInBatch = 0
    /\ mPendingBatchMap = [f \in Frames |-> 0]
    /\ pc = [t \in Threads |-> "idle"] /\ restart = FALSE /\ signalled = FALSE
    /\ toStop = [t \in Threads |-> {}]
    /\ unsent = <<>> /\ sent = <<>> /\ metaQ = <<>> /\ metaLoop = <<>>
    /\ frameOf = [i \in 1..NBuf |-> 0] /\ kernel = {} /\ done = <<>>
    /\ mOutOfSequenceBuffers = <<>> /\ toDeliver = <<>> /\ jobs = {}
    /\ kind = <<>> /\ answers = [f \in Frames |-> 0]
    /\ returned = [b \in Frames \X Streams |-> 0]
    /\ lost = {} /\ stale = FALSE /\ misled = FALSE
    /\ died = FALSE /\ flushes = 0 /\ events = 0

-----------------------------------------------------------------------------
(* What the handlers share.  The list and the map are ordered by frame      *)
(* number, so sets of requests and of <<frame, stream>> stand for them.     *)

Listed == {r.frame : r \in mPendingRequestsList}

(* erasePendingRequest of every request that is in F. *)
Erase(F) == mPendingRequestsList' = {r \in mPendingRequestsList : r.frame \notin F}

(* A final result, or ERROR_REQUEST, to the framework for each of F. *)
Answer(F) == answers' = [f \in Frames |-> answers[f] + IF f \in F THEN 1 ELSE 0]

(* Mutant: of several buffers only one is removed from the map. *)
ReturnRemovesOne(B) ==
    /\ returned' = [b \in DOMAIN returned |-> returned[b] + IF b \in B THEN 1 ELSE 0]
    /\ mPendingBuffersMap' = mPendingBuffersMap \ (IF B = {} THEN {} ELSE {CHOOSE b \in B : TRUE})

(* process_capture_result with buffers B, which leave mPendingBuffersMap. *)
Return(B) ==
    /\ returned' = [b \in DOMAIN returned |-> returned[b] + IF b \in B THEN 1 ELSE 0]
    /\ mPendingBuffersMap' = mPendingBuffersMap \ B

(* unblockRequestIfNecessary *)
Signal == signalled' = (pc["app"] = "waiting")

(* getOldestFrameNumber, of the buffers I. *)
Oldest(I) == CHOOSE i \in I : \A j \in I : frameOf[i] <= frameOf[j]

(* Mutant: buffers that are to be cancelled stay with the kernel.           *)
cancelNone(I, before) == UNCHANGED kernel /\ done' = before

(* cancel_buffer: the kernel gives buffers back before they are filled,     *)
(* the older frame first.                                                   *)
cancelBuffer(I, before) ==
    LET C == I \cap kernel IN
    /\ kernel' = kernel \ C
    /\ \E q \in [1..Cardinality(C) -> C] :
          /\ \A m, n \in DOMAIN q : m < n => frameOf[q[m]] < frameOf[q[n]]
          /\ done' = before \o q

-----------------------------------------------------------------------------
(* The request thread. *)

(* A buffer is marked with its frame and queued; a batch goes to the sensor *)
(* when it is full.                                                         *)
queueRegular(f) ==
    LET i == CHOOSE i \in 1..NBuf :
                 frameOf[i] = 0 /\ \A j \in 1..(i - 1) : frameOf[j] # 0
        full == mBatchSize = 0 \/ mToBeQueuedVidBufs + 1 = mBatchSize
        first == IF mBatchSize # 0 /\ mToBeQueuedVidBufs = 0 THEN f
                 ELSE mFirstFrameNumberInBatch
    IN  /\ frameOf' = [frameOf EXCEPT ![i] = f]
        /\ kernel' = kernel \cup {i}
        /\ IF full THEN /\ sent' = sent \o Append(unsent, f)
                        /\ unsent' = <<>> /\ mToBeQueuedVidBufs' = 0
                        /\ mPendingBatchMap' = [mPendingBatchMap EXCEPT ![f] = first]
                   ELSE /\ unsent' = Append(unsent, f)
                        /\ mToBeQueuedVidBufs' = mToBeQueuedVidBufs + 1
                        /\ UNCHANGED <<sent, mPendingBatchMap>>
        /\ mFirstFrameNumberInBatch' = first

unqueued == UNCHANGED <<frameOf, kernel, sent, batchVars, mPendingBatchMap>>

(* Must a caller with a live request wait? *)
MustWait(live) == live >= MinInFlight /\ ~Down

book(f, k) ==
    /\ mPendingRequestsList' = mPendingRequestsList \cup
           {[frame |-> f, input |-> k = "reprocess", cached |-> {}]}
    /\ mPendingBuffersMap' = mPendingBuffersMap \cup ({f} \X BuffersOf(k))
    /\ kind' = Append(kind, k)

processCaptureRequest(k) ==
    LET f == Len(kind) + 1
        live0 == IF mState = "CONFIGURED" THEN 0 ELSE mPendingLiveRequest
    IN
    /\ pc["app"] = "idle" /\ mState \in {"CONFIGURED", "STARTED"}
    /\ f <= MaxFrame /\ k \in Kinds[f]
    /\ mBatchSize # 0 => k = "preview"
    /\ "regular" \in BuffersOf(k) => 0 \in {frameOf[i] : i \in 1..NBuf}
    /\ book(f, k)
    /\ mWokenUpByDaemon' = (mWokenUpByDaemon /\ mState # "CONFIGURED")
    /\ IF mFlush
       THEN /\ mPendingLiveRequest' = live0 /\ unqueued
            /\ UNCHANGED <<mState, pc, signalled, jobs>>
       ELSE /\ IF "regular" \in BuffersOf(k) THEN queueRegular(f) ELSE unqueued
            /\ jobs' = jobs \cup {<<f, IF k = "snapshot" THEN "needMeta" ELSE "ready">> :
                                  s \in BuffersOf(k) \cap {"blob"}}
            /\ mPendingLiveRequest' = live0 + IF k = "reprocess" THEN 0 ELSE 1
            /\ mState' = "STARTED"
            /\ pc' = [pc EXCEPT !["app"] =
                  IF k # "reprocess" /\ MustWait(mPendingLiveRequest') THEN "waiting" ELSE "idle"]
            /\ signalled' = FALSE
    /\ UNCHANGED <<mFlush, restart, toStop, flushes, answers, returned, rareVars, lost, stale,
                   misled, metaQ, metaLoop, mOutOfSequenceBuffers, done, toDeliver>>

(* A request or a flush in the state ERROR: handleCameraDeviceError. *)
deviceErrorCall(t) ==
    /\ pc[t] = "idle" /\ mState = "ERROR"
    /\ t = "app" => Len(kind) < MaxFrame
    /\ t = "flusher" => flushes < MaxFlushes
    /\ pc' = [pc EXCEPT ![t] = "recheck"]
    /\ restart' = (restart /\ t # "flusher")
    /\ flushes' = IF t = "flusher" THEN flushes + 1 ELSE flushes
    /\ UNCHANGED <<mState, mFlush, toStop, listVars, mWokenUpByDaemon, signalled, batchVars,
                   mPendingBatchMap, rareVars, ghostVars, sent, metaQ, metaLoop, streamVars,
                   done, toDeliver, jobs>>

(* It takes mMutex anew: another thread may have handled the error.         *)
recheck(t) ==
    /\ pc[t] = "recheck"
    /\ pc' = [pc EXCEPT ![t] = IF mState = "ERROR" THEN "setFlush" ELSE "idle"]
    /\ UNCHANGED <<mState, mFlush, restart, toStop, flushes, listVars, mWokenUpByDaemon,
                   signalled, batchVars, mPendingBatchMap, rareVars, ghostVars, sent, metaQ,
                   metaLoop, streamVars, done, toDeliver, jobs>>

(* One turn of the wait loop at the end of processCaptureRequest. *)
wake ==
    /\ pc["app"] = "waiting" /\ signalled
    /\ signalled' = FALSE /\ mWokenUpByDaemon' = FALSE
    /\ pc' = [pc EXCEPT !["app"] =
          IF \/ mWokenUpByDaemon /\ mPendingLiveRequest < MaxInFlight
             \/ ~MustWait(mPendingLiveRequest)
          THEN "idle" ELSE "waiting"]
    /\ UNCHANGED <<mState, mFlush, restart, toStop, flushes, listVars, batchVars,
                   mPendingBatchMap, rareVars, ghostVars, sent, metaQ, metaLoop, streamVars,
                   done, toDeliver, jobs>>

(* After 5 s: -ENODEV, on which the framework submits nothing more. *)
waitTimedOut ==
    /\ pc["app"] = "waiting"
    /\ pc' = [pc EXCEPT !["app"] = "gaveUp"] /\ signalled' = FALSE
    /\ UNCHANGED <<mState, mFlush, restart, toStop, flushes, listVars, mWokenUpByDaemon,
                   batchVars, mPendingBatchMap, rareVars, ghostVars, sent, metaQ, metaLoop,
                   streamVars, done, toDeliver, jobs>>

-----------------------------------------------------------------------------
(* flush, by its own thread or through handleCameraDeviceError by either.   *)

(* The state is checked under mMutex, which is released before mFlush is set. *)
flushCall ==
    /\ pc["flusher"] = "idle" /\ mState = "STARTED" /\ flushes < MaxFlushes
    /\ pc' = [pc EXCEPT !["flusher"] = "setFlush"]
    /\ restart' = TRUE /\ flushes' = flushes + 1
    /\ UNCHANGED <<mState, mFlush, toStop, listVars, mWokenUpByDaemon, signalled, batchVars,
                   mPendingBatchMap, rareVars, ghostVars, sent, metaQ, metaLoop, streamVars,
                   done, toDeliver, jobs>>

setFlush(t) ==
    /\ pc[t] = "setFlush"
    /\ mFlush' = TRUE
    /\ toStop' = [toStop EXCEPT ![t] = Streams]
    /\ pc' = [pc EXCEPT ![t] = "stop"]
    /\ UNCHANGED <<mState, restart, flushes, listVars, mWokenUpByDaemon, signalled, batchVars,
                   mPendingBatchMap, rareVars, ghostVars, sent, metaQ, metaLoop, streamVars,
                   done, toDeliver, jobs>>

(* stopAllChannels stops the channels of the streams one by one, in the     *)
(* order in which they were configured.  Each stop joins the thread of its  *)
(* stream, takes the buffers from the kernel and unregisters them; what     *)
(* streamCbRoutine has put aside stays where it is.                         *)
stopChannel(t) ==
    /\ pc[t] = "stop"
    /\ \/ /\ "regular" \in toStop[t] /\ toDeliver = <<>>
          /\ toStop' = [toStop EXCEPT ![t] = @ \ {"regular"}]
          /\ frameOf' = [i \in 1..NBuf |-> 0] /\ kernel' = {} /\ done' = <<>>
          /\ unsent' = <<>>
          /\ stale' = (stale \/ mOutOfSequenceBuffers # <<>>)
          /\ UNCHANGED jobs
       \/ /\ "blob" \in toStop[t]
          /\ toStop' = [toStop EXCEPT ![t] = @ \ {"blob"}]
          /\ jobs' = {}
          /\ UNCHANGED <<frameOf, kernel, done, unsent, stale>>
    /\ UNCHANGED <<mState, mFlush, pc, restart, flushes, listVars, mWokenUpByDaemon, signalled,
                   mToBeQueuedVidBufs, mFirstFrameNumberInBatch, mPendingBatchMap, rareVars,
                   kind, lost, misled, sent, metaQ, metaLoop, mOutOfSequenceBuffers, toDeliver>>

(* The metadata channel comes last.                                         *)
stopMetadata(t) ==
    /\ pc[t] = "stop" /\ toStop[t] = {} /\ metaLoop = <<>>
    /\ sent' = <<>> /\ metaQ' = <<>>
    /\ pc' = [pc EXCEPT ![t] = "notify"]
    /\ UNCHANGED <<mState, mFlush, restart, toStop, flushes, listVars, mWokenUpByDaemon,
                   signalled, batchVars, mPendingBatchMap, rareVars, ghostVars, metaLoop,
                   streamVars, done, toDeliver, jobs>>

(* Every buffer goes back.  A frame with pending buffers gets ERROR_BUFFER  *)
(* when it is older than the oldest pending request, otherwise              *)
(* ERROR_REQUEST, for which the head of the list is erased, whatever its    *)
(* frame is.  With more such frames than requests the code erases end().    *)
notifyErrorForPendingRequests ==
    LET failed == {b[1] : b \in {c \in mPendingBuffersMap : \E f \in Listed : f <= c[1]}}
        Older(r) == {f \in Listed : f < r.frame}
    IN  /\ Answer(failed)
        /\ Return(mPendingBuffersMap)
        /\ mPendingRequestsList' =
              {r \in mPendingRequestsList : Cardinality(Older(r)) >= Cardinality(failed)}
        /\ misled' = (misled \/ failed # Listed)

(* Mutant: the count of live requests is kept. *)
unblockOnly == UNCHANGED mPendingLiveRequest /\ Signal

(* Mutant: the request thread is not told. *)
resetOnly == mPendingLiveRequest' = 0 /\ UNCHANGED signalled

(* Nothing is in flight any more. *)
unblockCaptureRequest == mPendingLiveRequest' = 0 /\ Signal

finishFlush(t) ==
    /\ pc[t] = "notify"
    /\ unblockCaptureRequest
    /\ notifyErrorForPendingRequests
    /\ mFlush' = FALSE
    /\ pc' = [pc EXCEPT ![t] = IF t = "flusher" /\ restart THEN "idle" ELSE "deinit"]
    /\ UNCHANGED <<mState, restart, toStop, flushes, mWokenUpByDaemon, batchVars,
                   mPendingBatchMap, rareVars, kind, lost, stale, sent, metaQ, metaLoop,
                   streamVars, done, toDeliver, jobs>>

(* ERROR_DEVICE to the framework. *)
handleCameraDeviceError(t) ==
    /\ pc[t] = "deinit"
    /\ mState' = "DEINIT"
    /\ pc' = [pc EXCEPT ![t] = "idle"]
    /\ UNCHANGED <<mFlush, restart, toStop, flushes, listVars, mWokenUpByDaemon, signalled,
                   batchVars, mPendingBatchMap, rareVars, ghostVars, sent, metaQ, metaLoop,
                   streamVars, done, toDeliver, jobs>>

-----------------------------------------------------------------------------
(* Results. *)

(* Frames whose buffers are overdue when metadata is handled.  The timeout  *)
(* of seconds only strikes those that are lost.                             *)
Overdue == {{}, {f \in Booked : MayOverdue /\ <<"buf", f>> \in lost}}

(* A live request up to f is answered, with the buffers that are cached.    *)
(* One that is older than f has missed its metadata, which is an            *)
(* ERROR_RESULT in batch mode and fatal otherwise.                          *)
handleMetadataWithLock(f) ==
    LET upTo == {r \in mPendingRequestsList : ~r.input /\ r.frame <= f}
        frames == {r.frame : r \in upTo}
        cached == UNION {{r.frame} \X r.cached : r \in upTo}
    IN  \/ /\ Down
           /\ UNCHANGED <<mState, listVars, signalled, kernel, done, jobs>>
        \/ /\ ~Down
           /\ \E O \in Overdue : cancelBuffer({i \in 1..NBuf : frameOf[i] \in O}, done)
           /\ Signal
           /\ IF mBatchSize = 0 /\ frames \ {f} # {}
              THEN /\ mState' = "ERROR"
                   /\ UNCHANGED <<listVars, jobs>>
              ELSE /\ mPendingLiveRequest' = mPendingLiveRequest - Cardinality(upTo)
                   /\ Answer(frames) /\ Erase(frames) /\ Return(cached)
                   /\ jobs' = {IF j[1] \in frames THEN <<j[1], "ready">> ELSE j : j \in jobs}
                   /\ UNCHANGED mState

(* The thread of the metadata stream.  In batch mode the metadata stands    *)
(* for all frames of the batch, which are handled one by one.               *)
metadataStep ==
    \/ /\ mBatchSize = 0 /\ metaQ # <<>>
       /\ handleMetadataWithLock(Head(metaQ))
       /\ metaQ' = Tail(metaQ)
       /\ UNCHANGED <<metaLoop, mPendingBatchMap>>
    \/ /\ mBatchSize # 0 /\ metaLoop # <<>>
       /\ handleMetadataWithLock(Head(metaLoop))
       /\ metaLoop' = Tail(metaLoop)
       /\ UNCHANGED <<metaQ, mPendingBatchMap>>

handleBatchMetadata ==
    /\ mBatchSize # 0 /\ metaLoop = <<>> /\ metaQ # <<>>
    /\ metaQ' = Tail(metaQ)
    /\ LET last == Head(metaQ)
           first == mPendingBatchMap[last]
       IN  /\ metaLoop' = [n \in 1..(last - first + 1) |-> first + n - 1]
           /\ mPendingBatchMap' = [mPendingBatchMap EXCEPT ![last] = 0]
    /\ UNCHANGED <<mState, listVars, signalled, kernel, done, jobs>>

Metadata ==
    /\ metadataStep \/ handleBatchMetadata
    /\ UNCHANGED <<callVars, mWokenUpByDaemon, batchVars, rareVars, ghostVars, sent,
                   frameOf, mOutOfSequenceBuffers, toDeliver>>

(* The buffer waits for the metadata of its frame, or goes back at once.    *)
handleBufferWithLock(f, s) ==
    LET mine == {r \in mPendingRequestsList : r.frame = f} IN
    /\ UNCHANGED mPendingLiveRequest
    /\ \/ /\ Down
          /\ UNCHANGED <<mPendingRequestsList, mPendingBuffersMap, answers, returned>>
       \/ /\ ~Down /\ mine = {}
          /\ Return({<<f, s>>})
          /\ UNCHANGED <<mPendingRequestsList, answers>>
       \/ /\ ~Down
          /\ \E r \in mine :
                \/ /\ r.input
                   /\ Return({<<f, s>>}) /\ Answer({f}) /\ Erase({f})
                \/ /\ ~r.input
                   /\ mPendingRequestsList' = (mPendingRequestsList \ {r})
                                               \cup {[r EXCEPT !.cached = @ \cup {s}]}
                   /\ UNCHANGED <<mPendingBuffersMap, answers, returned>>

(* Mutant: the request stays in the list. *)
handleInputBufferKept(f) ==
    /\ UNCHANGED <<mPendingRequestsList, mPendingBuffersMap, mPendingLiveRequest, returned>>
    /\ IF \E r \in mPendingRequestsList : r.frame = f /\ r.input
       THEN Answer({f}) ELSE UNCHANGED answers

(* The input buffer is not needed any more: the final result of a reprocess *)
(* request, without its output.                                             *)
handleInputBufferWithLock(f) ==
    /\ UNCHANGED <<mPendingBuffersMap, mPendingLiveRequest, returned>>
    /\ IF \E r \in mPendingRequestsList : r.frame = f /\ r.input
       THEN Answer({f}) /\ Erase({f})
       ELSE UNCHANGED <<mPendingRequestsList, answers>>

-----------------------------------------------------------------------------
(* The threads of the regular stream and of the JPEG jobs. *)

(* Mutant: all that was put aside follows. *)
recoveredAll(i) == Len(mOutOfSequenceBuffers)

(* How many of the buffers put aside follow once buffer i is handed over:   *)
(* each must be the oldest registered one by then.                          *)
recovered(i) ==
    LET held == mOutOfSequenceBuffers
        Left(n) == {j \in 1..NBuf : frameOf[j] # 0} \ ({i} \cup {held[m] : m \in 1..n})
        next(n) == \A j \in Left(n - 1) : frameOf[j] >= frameOf[held[n]]
    IN  CHOOSE n \in 0..Len(held) :
            /\ \A m \in 1..n : next(m)
            /\ n < Len(held) => ~next(n + 1)

(* With n of the buffers put aside handed over and others left, the oldest  *)
(* of the registered ones I is missing too.                                 *)
nextMissing(I, n) == IF n < Len(mOutOfSequenceBuffers) THEN {Oldest(I)} ELSE {}

(* A buffer that is not the oldest is put aside, and for the first of them  *)
(* the oldest is cancelled.  The oldest is handed over, with all that it    *)
(* held up; if another one is missing, that is cancelled next.              *)
streamCbRoutine ==
    LET i == Head(done)
        registered == {j \in 1..NBuf : frameOf[j] # 0}
        held == mOutOfSequenceBuffers
        n == recovered(i)
        gone == {i} \cup {held[m] : m \in 1..n}
        order == <<i>> \o SubSeq(held, 1, n)
    IN
    /\ done # <<>> /\ toDeliver = <<>>
    /\ \/ /\ \E j \in registered : frameOf[j] < frameOf[i]
          /\ mOutOfSequenceBuffers' = Append(held, i)
          /\ cancelBuffer(IF held = <<>> THEN {Oldest(registered)} ELSE {}, Tail(done))
          /\ UNCHANGED <<frameOf, toDeliver>>
       \/ /\ \A j \in registered : frameOf[j] >= frameOf[i]
          /\ toDeliver' = [m \in DOMAIN order |->
                IF \E l \in 1..(m - 1) : order[l] = order[m] THEN 0 ELSE frameOf[order[m]]]
          /\ frameOf' = [j \in 1..NBuf |-> IF j \in gone THEN 0 ELSE frameOf[j]]
          /\ mOutOfSequenceBuffers' = SubSeq(held, n + 1, Len(held))
          /\ cancelBuffer(nextMissing(registered \ gone, n), Tail(done))
    /\ UNCHANGED <<mState, listVars, mWokenUpByDaemon, signalled, batchVars, mPendingBatchMap,
                   callVars, rareVars, ghostVars, sent, metaQ, metaLoop, jobs>>

(* A buffer that was unregistered meanwhile has no frame ("Bad frame        *)
(* number") and goes nowhere.                                               *)
deliver ==
    /\ toDeliver # <<>>
    /\ \/ Head(toDeliver) = 0 /\ UNCHANGED listVars
       \/ Head(toDeliver) # 0 /\ handleBufferWithLock(Head(toDeliver), "regular")
    /\ toDeliver' = Tail(toDeliver)
    /\ UNCHANGED <<mState, mWokenUpByDaemon, signalled, batchVars, mPendingBatchMap,
                   callVars, rareVars, ghostVars, sent, metaQ, metaLoop, streamVars, done, jobs>>

(* The image is reprocessed, which frees the input buffer of a reprocess    *)
(* request, and then encoded.                                               *)
jobStep(f) ==
    /\ \/ /\ <<f, "ready">> \in jobs
          /\ handleInputBufferWithLock(f)
          /\ jobs' = (jobs \ {<<f, "ready">>}) \cup {<<f, "encode">>}
       \/ /\ <<f, "encode">> \in jobs
          /\ handleBufferWithLock(f, "blob")
          /\ jobs' = jobs \ {<<f, "encode">>}
    /\ UNCHANGED <<mState, mWokenUpByDaemon, signalled, batchVars, mPendingBatchMap,
                   callVars, rareVars, ghostVars, sent, metaQ, metaLoop, streamVars, done,
                   toDeliver>>

-----------------------------------------------------------------------------
(* The camera daemon and the kernel. *)

(* A frame has been captured: its buffer starts on its way, and so does the *)
(* metadata with the last frame of a batch, unless they get lost; a lost    *)
(* buffer stays in the kernel.                                              *)
capture ==
    /\ sent # <<>>
    /\ sent' = Tail(sent)
    /\ LET f == Head(sent)
           first == IF mBatchSize = 0 THEN f ELSE mPendingBatchMap[f]
           buffer == {i \in kernel : frameOf[i] = f}
       IN  \E noMeta, noBuf \in BOOLEAN :
              /\ noMeta => first # 0 /\ f \in LossyMeta
              /\ noBuf => buffer # {} /\ f \in LossyBuf
              /\ metaQ' = IF first # 0 /\ ~noMeta THEN Append(metaQ, f) ELSE metaQ
              /\ cancelBuffer(IF noBuf THEN {} ELSE buffer, done)
              /\ lost' = lost \cup (IF noMeta THEN {"meta"} \X (first..f) ELSE {})
                              \cup (IF noBuf THEN {<<"buf", f>>} ELSE {})
    /\ UNCHANGED <<mState, listVars, mWokenUpByDaemon, signalled, batchVars, mPendingBatchMap,
                   callVars, rareVars, kind, stale, misled, metaLoop, frameOf,
                   mOutOfSequenceBuffers, toDeliver, jobs>>

(* camEvtHandle: DAEMON_DIED does not signal mRequestCond. *)
daemonDied ==
    /\ events < MaxEvents
    /\ events' = events + 1
    /\ died' = TRUE /\ mState' = "ERROR"
    /\ UNCHANGED <<listVars, mWokenUpByDaemon, signalled, batchVars, mPendingBatchMap, callVars,
                   mBatchSize, ghostVars, sent, metaQ, metaLoop, streamVars, done,
                   toDeliver, jobs>>

daemonPullReq ==
    /\ events < MaxEvents
    /\ events' = events + 1
    /\ mWokenUpByDaemon' = TRUE /\ Signal
    /\ UNCHANGED <<mState, listVars, batchVars, mPendingBatchMap, callVars, mBatchSize, died,
                   ghostVars, sent, metaQ, metaLoop, streamVars, done, toDeliver, jobs>>

-----------------------------------------------------------------------------
flushStep(t) == \/ recheck(t) \/ setFlush(t) \/ stopChannel(t) \/ stopMetadata(t)
                \/ finishFlush(t) \/ handleCameraDeviceError(t)

Next ==
    \/ \E k \in {"preview", "snapshot", "reprocess"} : processCaptureRequest(k)
    \/ wake \/ waitTimedOut
    \/ flushCall
    \/ \E t \in Threads : deviceErrorCall(t) \/ flushStep(t)
    \/ capture \/ daemonDied \/ daemonPullReq
    \/ Metadata \/ streamCbRoutine \/ deliver
    \/ \E f \in Frames : jobStep(f)

(* The threads of the HAL run, and the sensor does while it has parameters. *)
(* The framework need not call, nor the daemon send events.                 *)
Fairness ==
    /\ WF_vars(capture) /\ WF_vars(Metadata) /\ WF_vars(streamCbRoutine) /\ WF_vars(deliver)
    /\ WF_vars(wake)
    /\ WF_vars(\E f \in Frames : jobStep(f))
    /\ \A t \in Threads : WF_vars(flushStep(t))

Spec == Init /\ [][Next]_vars
FairSpec == Spec /\ Fairness

-----------------------------------------------------------------------------
(* Safety. *)

Live(f) == kind[f] # "reprocess"

(* mPendingBuffersMap is what the framework still waits for: each buffer it *)
(* lent is either in the map or has gone back exactly once, whether with    *)
(* the metadata, before or after it, by a flush or after one.               *)
LentOnce ==
    \A f \in Booked : \A s \in BuffersOf(kind[f]) :
        returned[<<f, s>>] = IF <<f, s>> \in mPendingBuffersMap THEN 0 ELSE 1

(* A request is in mPendingRequestsList until the framework has its final   *)
(* result or ERROR_REQUEST, and gets one of them once.  Not so after        *)
(* notifyErrorForPendingRequests has met a frame that was answered already  *)
(* while an older reprocess request is pending.                             *)
AnsweredOnce ==
    misled \/ \A f \in Booked : answers[f] = IF f \in Listed THEN 0 ELSE 1

(* mPendingLiveRequest, by which processCaptureRequest waits, counts the    *)
(* live requests that are pending; those booked during a flush are not in.  *)
InFlightCounted ==
    mFlush \/ mPendingLiveRequest =
        Cardinality({r \in mPendingRequestsList : ~r.input})

(* Who waits in processCaptureRequest without having been signalled still   *)
(* has to wait; only when the daemon died does nobody tell it.              *)
NoLostWakeup ==
    pc["app"] = "waiting" /\ ~signalled => MustWait(mPendingLiveRequest) \/ died

(* Live requests are answered in the order of their frames, and so are the  *)
(* buffers of the regular stream, the lost ones included: the framework is  *)
(* never shown a newer frame before an older one.                           *)
InOrder ==
    [][\A f, g \in Booked :
          f < g /\ Live(f) /\ Live(g) =>
             /\ answers'[g] > answers[g] => misled' \/ answers'[f] > 0
             /\ returned'[<<g, "regular">>] > returned[<<g, "regular">>]
                    => returned'[<<f, "regular">>] > 0]_vars

(* Liveness. *)

Settled(f) == answers[f] > 0 /\ \A s \in BuffersOf(kind[f]) : returned[<<f, s>>] > 0

(* What got lost is only missed when a later frame's arrives. *)
NothingLater(what, f) ==
    \A g \in Booked : g > f /\ Live(g) => <<what, g>> \in lost \/ g \in Range(unsent)

(* Every booked request is answered and its buffers go back in the end,     *)
(* unless the device is in ERROR and the framework does not call, the batch *)
(* of the frame is not full, or what is lost has no successor.  Not so when *)
(* channels were stopped with out of sequence buffers.                      *)
EveryRequestSettled ==
    \A f \in Frames : []<>(f \in Booked =>
        \/ Settled(f) \/ Down \/ f \in Range(unsent) \/ stale \/ misled
        \/ \E what \in {"meta", "buf"} : <<what, f>> \in lost /\ NothingLater(what, f))
=============================================================================
