------------------------ MODULE RequestPipelineProofs ------------------------
(***************************************************************************)
(* What is proved of RequestPipeline for any number of requests, of any    *)
(* kinds, any batch sizes and limits, any number of buffers and flushes,   *)
(* and whatever may be lost.                                               *)
(***************************************************************************)
EXTENDS RequestPipeline, SequenceTheorems, FiniteSetTheorems, WellFoundedInduction, TLAPS

AllKinds == {"preview", "snapshot", "reprocess"}
States == {"CONFIGURED", "STARTED", "ERROR", "DEINIT"}
Flushing == {"recheck", "setFlush", "stop", "notify", "deinit"}
Requests == [frame : Frames, input : BOOLEAN, cached : SUBSET Streams]

ListTypes ==
    /\ kind \in Seq(AllKinds) /\ Len(kind) <= MaxFrame
    /\ mPendingRequestsList \in SUBSET Requests
    /\ IsFiniteSet(mPendingRequestsList)
    /\ mPendingBuffersMap \in SUBSET (Frames \X Streams)
    /\ mPendingLiveRequest \in Int
    /\ answers \in [Frames -> Nat]
    /\ returned \in [Frames \X Streams -> Nat]

StreamTypes ==
    /\ frameOf \in [1..NBuf -> Nat]
    /\ kernel \in SUBSET (1..NBuf)
    /\ done \in Seq(1..NBuf)
    /\ mOutOfSequenceBuffers \in Seq(1..NBuf)
    /\ toDeliver \in Seq(Nat)
    /\ jobs \in SUBSET (Frames \X {"needMeta", "ready", "encode"})

SensorTypes ==
    /\ sent \in Seq(Frames) /\ unsent \in Seq(Frames)
    /\ metaQ \in Seq(Frames) /\ metaLoop \in Seq(Int)
    /\ mPendingBatchMap \in [Frames -> Nat]
    /\ mBatchSize \in Nat /\ mToBeQueuedVidBufs \in Nat
    /\ mFirstFrameNumberInBatch \in Nat
    /\ lost \in SUBSET ({"meta", "buf"} \X Int)

ControlTypes ==
    /\ mState \in States
    /\ pc \in [Threads -> {"idle", "waiting", "gaveUp"} \cup Flushing]
    /\ mFlush \in BOOLEAN /\ restart \in BOOLEAN
    /\ toStop \in [Threads -> SUBSET Streams]
    /\ signalled \in BOOLEAN /\ mWokenUpByDaemon \in BOOLEAN
    /\ died \in BOOLEAN /\ stale \in BOOLEAN /\ misled \in BOOLEAN
    /\ flushes \in Nat /\ events \in Nat

TypeOK == ListTypes /\ StreamTypes /\ SensorTypes /\ ControlTypes

-----------------------------------------------------------------------------
(* No buffer of a stream is on its way any more.                            *)
RegularStopped ==
    /\ kernel = {} /\ done = <<>> /\ toDeliver = <<>>
    /\ \A i \in 1..NBuf : frameOf[i] = 0
BlobStopped == jobs = {}

(* What is stopped stays so.                                                *)
StoppedStays == (RegularStopped => RegularStopped') /\ (BlobStopped => BlobStopped')

(* A thread that flushes has set mFlush, unless the device is down: then    *)
(* another one may have reset it.                                           *)
FlushInv ==
    /\ mState = "CONFIGURED" =>
          kind = <<>> /\ ~mFlush /\ \A t \in Threads : pc[t] = "idle"
    /\ pc["app"] \in Flushing => Down
    /\ pc["flusher"] \in Flushing /\ ~restart => Down
    /\ pc["flusher"] = "deinit" => ~restart
    /\ \A t \in Threads :
          /\ pc[t] \in {"stop", "notify"} =>
                /\ mFlush \/ Down
                /\ "regular" \notin toStop[t] => RegularStopped
                /\ "blob" \notin toStop[t] => BlobStopped
          /\ pc[t] = "notify" => toStop[t] = {}

(* The framework waits for buffer s of frame f, and no handler has had it.  *)
Expected(f, s) ==
    /\ f \in Booked /\ s \in BuffersOf(kind[f])
    /\ <<f, s>> \in mPendingBuffersMap
    /\ \A r \in mPendingRequestsList : r.frame = f => s \notin r.cached

(* Requests are kept apart by their frames; one is in the list together     *)
(* with all its buffers in the map, whether cached or expected.             *)
ListInv ==
    /\ \A r \in mPendingRequestsList :
          /\ r.frame \in Booked
          /\ r.input <=> kind[r.frame] = "reprocess"
          /\ r.input => r.cached = {}
          /\ r.cached \subseteq BuffersOf(kind[r.frame])
          /\ \A s \in BuffersOf(kind[r.frame]) : <<r.frame, s>> \in mPendingBuffersMap
    /\ \A r, q \in mPendingRequestsList : r.frame = q.frame => r = q
    /\ \A f \in Frames, s \in Streams : <<f, s>> \in mPendingBuffersMap =>
          f \in Booked /\ s \in BuffersOf(kind[f])
    /\ \A f \in Frames \ Booked :
          answers[f] = 0 /\ \A s \in Streams : returned[<<f, s>>] = 0
    /\ \A f, g \in Booked :
          f < g /\ Live(f) /\ Live(g) /\ f \in Listed => g \in Listed

(* A buffer on its way to handleBufferWithLock is expected there, and on    *)
(* its way once.                                                            *)
ComingInv ==
    /\ \A i \in 1..NBuf : frameOf[i] # 0 => Expected(frameOf[i], "regular")
    /\ \A i, j \in 1..NBuf : frameOf[i] # 0 /\ i # j => frameOf[i] # frameOf[j]
    /\ \A m \in DOMAIN toDeliver : toDeliver[m] # 0 =>
          /\ Expected(toDeliver[m], "regular")
          /\ \A i \in 1..NBuf : frameOf[i] # 0 => toDeliver[m] < frameOf[i]
          /\ \A n \in DOMAIN toDeliver :
                n < m /\ toDeliver[n] # 0 => toDeliver[n] < toDeliver[m]
    /\ \A j \in jobs :
          Expected(j[1], "blob") /\ \A l \in jobs : j[1] = l[1] => j = l

Coming(f) == \/ \E i \in 1..NBuf : frameOf[i] = f
             \/ \E m \in DOMAIN toDeliver : toDeliver[m] = f

(* What is handed over of a live frame was handed over of all older ones.   *)
HandedInOrder ==
    \A f, g \in Booked : f < g /\ Live(f) /\ Live(g) =>
        (~Expected(g, "regular") => ~Expected(f, "regular"))

(* A buffer of the regular stream that comes has those of all older frames  *)
(* before it, and one that is expected comes unless a flush stops it.       *)
ComingInOrder ==
    \A f, g \in Booked : f < g /\ Live(f) /\ Live(g) /\ Coming(g) =>
        Coming(f) \/ ~Expected(f, "regular")
AllCome ==
    \A f \in Booked : Live(f) => Coming(f) \/ ~Expected(f, "regular")

OrderInv ==
    /\ HandedInOrder
    /\ ~Down => ComingInOrder
    /\ ~Down /\ ~mFlush => AllCome

(* The live requests among those of the list.                               *)
LiveRequests == {r \in mPendingRequestsList : ~r.input}
CountInv == mFlush \/ mPendingLiveRequest = Cardinality(LiveRequests)

-----------------------------------------------------------------------------
(* The kinds and their buffers.                                             *)
LEMMA BuffersFacts ==
    \A k \in AllKinds :
       /\ BuffersOf(k) \subseteq Streams /\ BuffersOf(k) # {}
       /\ "regular" \in BuffersOf(k) <=> k # "reprocess"
       /\ "blob" \in BuffersOf(k) <=> k # "preview"
  BY DEF AllKinds, BuffersOf, Streams

LEMMA BookedFacts ==
    ASSUME ListTypes
    PROVE  /\ Booked = 1..Len(kind) /\ Len(kind) \in Nat /\ Booked \subseteq Frames
           /\ \A f \in Booked : /\ kind[f] \in AllKinds
                                /\ Live(f) <=> "regular" \in BuffersOf(kind[f])
           /\ \A f \in Booked : BuffersOf(kind[f]) \subseteq Streams
  <1>1. Booked = 1..Len(kind) /\ Len(kind) \in Nat
    BY DEF ListTypes, Booked
  <1>2. Booked \subseteq Frames
    BY <1>1, PipelineConstants DEF ListTypes, Frames
  <1>3. \A f \in Booked : kind[f] \in AllKinds
    BY <1>1 DEF ListTypes
  <1>4. QED BY <1>1, <1>2, <1>3, BuffersFacts DEF Live

LEMMA RequestFacts ==
    ASSUME ListTypes
    PROVE  \A r \in mPendingRequestsList :
              r \in Requests /\ r.frame \in Frames /\ r.frame \in Listed
              /\ r.cached \subseteq Streams /\ r.input \in BOOLEAN
  BY DEF ListTypes, Requests, Listed

(* Every subset of Nat has a least element.                                 *)
LEMMA Least ==
    ASSUME NEW S \in SUBSET Nat, S # {}
    PROVE  \E n \in S : \A m \in S : n <= m
  <1> DEFINE R == StrictSubsetOrdering(Nat)
             T == {0..n : n \in S}
  <1>1. IsWellFoundedOn(R, FiniteSubsetsOf(Nat))
    BY FS_StrictSubsetOrderingWellFounded
  <1>2. T \subseteq FiniteSubsetsOf(Nat) /\ T # {}
    <2>1. \A n \in Nat : IsFiniteSet(0..n) /\ 0..n \subseteq Nat
      BY FS_Interval
    <2>2. QED BY <2>1 DEF FiniteSubsetsOf
  <1>3. PICK t \in T : \A u \in T : ~(<<u, t>> \in R)
    <2> HIDE DEF R, T
    <2> QED BY <1>1, <1>2, WFMin
  <1>4. PICK n \in S : t = 0..n
    OBVIOUS
  <1>5. ASSUME NEW m \in S, ~(n <= m) PROVE FALSE
    <2>1. 0..m \subseteq 0..n /\ 0..m # 0..n
      BY <1>5
    <2>2. <<0..m, t>> \in R
      BY <1>4, <2>1 DEF StrictSubsetOrdering
    <2>3. QED BY <1>3, <2>2
  <1>6. QED BY <1>5

(* What the answers to the requests F and the return of the buffers B leave *)
(* of ListTypes.                                                            *)
LEMMA SettleTypes ==
    ASSUME ListTypes, NEW F, NEW B, kind' = kind, mPendingLiveRequest' \in Int,
           Answer(F), Erase(F), Return(B)
    PROVE  ListTypes'
  <1>1. mPendingRequestsList' \in SUBSET Requests /\ IsFiniteSet(mPendingRequestsList')
    BY FS_Subset DEF ListTypes, Erase
  <1>2. answers' \in [Frames -> Nat]
    BY DEF ListTypes, Answer
  <1>3. returned' \in [Frames \X Streams -> Nat]
    BY DEF ListTypes, Return
  <1>4. mPendingBuffersMap' \in SUBSET (Frames \X Streams)
    BY DEF ListTypes, Return
  <1>5. QED BY <1>1, <1>2, <1>3, <1>4 DEF ListTypes

(* The requests F may go with the buffers B when B has what is cached for   *)
(* them and nothing of other requests, and no older live request stays.     *)
MayGo(F, B) ==
    /\ F \subseteq Listed /\ B \subseteq mPendingBuffersMap
    /\ \A r \in mPendingRequestsList :
          /\ r.frame \in F => \A s \in r.cached : <<r.frame, s>> \in B
          /\ r.frame \notin F => \A s \in Streams : <<r.frame, s>> \notin B
    /\ \A f, g \in Booked :
          f < g /\ Live(f) /\ Live(g) /\ f \in Listed /\ g \in F => f \in F

LEMMA SettleKeeps ==
    ASSUME ListTypes, ListInv, NEW F, NEW B, MayGo(F, B), kind' = kind,
           Answer(F), Erase(F), Return(B)
    PROVE  /\ ListInv'
           /\ LentOnce => LentOnce'
           /\ \A f \in Booked : /\ answers'[f] = answers[f] + IF f \in F THEN 1 ELSE 0
                                /\ f \in Listed' <=> f \in Listed /\ f \notin F
           /\ \A f \in Frames, s \in Streams :
                 /\ Expected(f, s) /\ <<f, s>> \notin B => Expected(f, s)'
                 /\ Expected(f, s)' => Expected(f, s)
  <1>1. /\ Booked' = Booked /\ \A f \in Booked : Live(f)' <=> Live(f)
        /\ \A r \in mPendingRequestsList' : r \in mPendingRequestsList /\ r.frame \notin F
        /\ \A r \in mPendingRequestsList : r.frame \notin F => r \in mPendingRequestsList'
    BY DEF Booked, Live, Erase
  <1>2. \A f \in Frames : answers'[f] = answers[f] + IF f \in F THEN 1 ELSE 0
    BY DEF Answer
  <1>3. \A f \in Frames, s \in Streams :
           returned'[<<f, s>>] = returned[<<f, s>>] + IF <<f, s>> \in B THEN 1 ELSE 0
    BY DEF Return, ListTypes
  <1>4. \A f, s : <<f, s>> \in mPendingBuffersMap' <=>
                   <<f, s>> \in mPendingBuffersMap /\ <<f, s>> \notin B
    BY DEF Return
  <1>5. \A f : f \in Listed' <=> f \in Listed /\ f \notin F
    BY <1>1 DEF Listed
  <1>6. ListInv'
    <2>1. ASSUME NEW r \in mPendingRequestsList'
          PROVE  /\ r.frame \in Booked'
                 /\ r.input <=> kind'[r.frame] = "reprocess"
                 /\ r.input => r.cached = {}
                 /\ r.cached \subseteq BuffersOf(kind'[r.frame])
      BY <1>1 DEF ListInv
    <2>2. ASSUME NEW r \in mPendingRequestsList', NEW s \in BuffersOf(kind'[r.frame])
          PROVE  <<r.frame, s>> \in mPendingBuffersMap'
      BY <1>1, <1>4, <2>1, BookedFacts DEF ListInv, MayGo
    <2>3. \A r, q \in mPendingRequestsList' : r.frame = q.frame => r = q
      BY <1>1 DEF ListInv
    <2>4. \A f \in Frames, s \in Streams : <<f, s>> \in mPendingBuffersMap' =>
             f \in Booked' /\ s \in BuffersOf(kind'[f])
      BY <1>1, <1>4 DEF ListInv
    <2>5. ASSUME NEW f \in Frames \ Booked'
          PROVE  answers'[f] = 0 /\ \A s \in Streams : returned'[<<f, s>>] = 0
      <3>1. f \notin F
        BY <1>1 DEF MayGo, Listed, ListInv
      <3>2. \A s \in Streams : <<f, s>> \notin B
        BY <1>1 DEF MayGo, ListInv
      <3>3. answers[f] = 0 /\ \A s \in Streams : returned[<<f, s>>] = 0
        BY <1>1 DEF ListInv
      <3>4. answers'[f] = answers[f] + 0
        BY <1>2, <3>1
      <3>5. \A s \in Streams : returned'[<<f, s>>] = returned[<<f, s>>] + 0
        BY <1>3, <3>2
      <3>6. QED BY <3>3, <3>4, <3>5
    <2>6. ASSUME NEW f \in Booked', NEW g \in Booked',
                 f < g, Live(f)', Live(g)', f \in Listed'
          PROVE  g \in Listed'
      BY <1>1, <1>5, <2>6 DEF ListInv, MayGo
    <2>7. QED BY <2>1, <2>2, <2>3, <2>4, <2>5, <2>6 DEF ListInv
  <1>7. LentOnce => LentOnce'
    <2>1. SUFFICES ASSUME LentOnce, NEW f \in Booked, NEW s \in BuffersOf(kind[f])
                   PROVE  returned'[<<f, s>>] = IF <<f, s>> \in mPendingBuffersMap' THEN 0 ELSE 1
      BY <1>1 DEF LentOnce
    <2>2. f \in Frames /\ s \in Streams
      BY BookedFacts
    <2>3. returned[<<f, s>>] = IF <<f, s>> \in mPendingBuffersMap THEN 0 ELSE 1
      BY <2>1 DEF LentOnce
    <2>4. QED BY <1>3, <1>4, <2>2, <2>3 DEF MayGo
  <1>8. ASSUME NEW f \in Frames, NEW s \in Streams
        PROVE  /\ Expected(f, s) /\ <<f, s>> \notin B => Expected(f, s)'
               /\ Expected(f, s)' => Expected(f, s)
    <2>1. ASSUME Expected(f, s), <<f, s>> \notin B PROVE Expected(f, s)'
      BY <1>1, <1>4, <2>1 DEF Expected
    <2>2. ASSUME Expected(f, s)', NEW r \in mPendingRequestsList, r.frame = f, s \in r.cached
          PROVE  FALSE
      BY <1>1, <1>4, <2>2 DEF Expected, MayGo
    <2>3. QED BY <1>1, <1>4, <2>1, <2>2 DEF Expected
  <1>9. QED BY <1>2, <1>5, <1>6, <1>7, <1>8, BookedFacts

-----------------------------------------------------------------------------
(* What a handler of results does to the list and the map when it takes     *)
(* the buffers B: nothing that is known of them gets lost.                  *)
AllAnswered == \A f \in Booked : answers[f] = IF f \in Listed THEN 0 ELSE 1

ListKept(B) ==
    /\ ListTypes' /\ ListInv'
    /\ LentOnce => LentOnce'
    /\ AllAnswered => AllAnswered'
    /\ \A f \in Frames, s \in Streams :
          /\ Expected(f, s) /\ <<f, s>> \notin B => Expected(f, s)'
          /\ Expected(f, s)' => Expected(f, s)

LEMMA SettleIsKept ==
    ASSUME ListTypes, ListInv, NEW F, NEW B, MayGo(F, B), kind' = kind,
           Answer(F), Erase(F), Return(B), mPendingLiveRequest' \in Int
    PROVE  ListKept(B)
  <1>1. AllAnswered => AllAnswered'
    <2>1. Booked' = Booked
      BY DEF Booked
    <2>2. \A f \in Booked : /\ answers'[f] = answers[f] + IF f \in F THEN 1 ELSE 0
                            /\ f \in Listed' <=> f \in Listed /\ f \notin F
      BY SettleKeeps
    <2>3. F \subseteq Listed
      BY DEF MayGo
    <2>4. QED BY <2>1, <2>2, <2>3 DEF AllAnswered
  <1>2. ListTypes'
    BY SettleTypes
  <1>3. QED BY <1>1, <1>2, SettleKeeps DEF ListKept

LEMMA NothingIsKept ==
    ASSUME ListTypes, ListInv, NEW B, UNCHANGED <<listVars, kind>>
    PROVE  ListKept(B) /\ LiveRequests' = LiveRequests
  <1>1. Booked' = Booked /\ Listed' = Listed /\ LiveRequests' = LiveRequests
        /\ \A f \in Booked : Live(f)' <=> Live(f)
    BY DEF listVars, Booked, Listed, Live, LiveRequests
  <1>2. ListTypes'
    BY DEF listVars, ListTypes
  <1>3. ListInv'
    BY <1>1 DEF listVars, ListInv
  <1>4. LentOnce => LentOnce'
    BY <1>1 DEF listVars, LentOnce
  <1>5. AllAnswered => AllAnswered'
    BY <1>1 DEF listVars, AllAnswered
  <1>6. \A f, s : Expected(f, s)' <=> Expected(f, s)
    BY <1>1 DEF listVars, Expected
  <1>7. QED BY <1>1, <1>2, <1>3, <1>4, <1>5, <1>6 DEF ListKept

(* A buffer is cached until the metadata of its frame comes.                *)
Cache(r, s) ==
    /\ mPendingRequestsList' =
          (mPendingRequestsList \ {r}) \cup {[r EXCEPT !.cached = @ \cup {s}]}
    /\ UNCHANGED <<mPendingBuffersMap, mPendingLiveRequest, answers, returned>>

LEMMA CacheIsKept ==
    ASSUME ListTypes, ListInv, NEW r \in mPendingRequestsList, ~r.input,
           NEW s \in BuffersOf(kind[r.frame]), Cache(r, s), kind' = kind
    PROVE  ListKept({<<r.frame, s>>}) /\ Cardinality(LiveRequests') = Cardinality(LiveRequests)
  <1> DEFINE q == [r EXCEPT !.cached = @ \cup {s}]
  <1>1. /\ q \in Requests /\ q.frame = r.frame /\ q.input = r.input
        /\ q.cached = r.cached \cup {s}
        /\ s \in Streams
    BY RequestFacts, BookedFacts DEF Requests, ListInv
  <1>2. mPendingRequestsList' = (mPendingRequestsList \ {r}) \cup {q}
    BY DEF Cache
  <1> HIDE DEF q
  <1>3. /\ Booked' = Booked /\ \A f \in Booked : Live(f)' <=> Live(f)
        /\ mPendingBuffersMap' = mPendingBuffersMap
        /\ answers' = answers /\ returned' = returned
    BY DEF Booked, Live, Cache
  <1>4. Listed' = Listed
    BY <1>1, <1>2 DEF Listed
  <1>5. ListTypes'
    <2>1. IsFiniteSet(mPendingRequestsList')
      BY <1>2, FS_RemoveElement, FS_AddElement DEF ListTypes
    <2>2. mPendingRequestsList' \in SUBSET Requests
      BY <1>1, <1>2 DEF ListTypes
    <2>3. QED BY <2>1, <2>2 DEF ListTypes, Cache
  <1>6. ListInv'
    <2>1. ASSUME NEW p \in mPendingRequestsList'
          PROVE  /\ p.frame \in Booked'
                 /\ p.input <=> kind'[p.frame] = "reprocess"
                 /\ p.input => p.cached = {}
                 /\ p.cached \subseteq BuffersOf(kind'[p.frame])
                 /\ \A t \in BuffersOf(kind'[p.frame]) : <<p.frame, t>> \in mPendingBuffersMap'
      <3>1. CASE p \in mPendingRequestsList
        BY <1>3, <3>1 DEF ListInv
      <3>2. CASE p = q
        <4>1. /\ r.frame \in Booked /\ kind[r.frame] # "reprocess"
              /\ r.cached \subseteq BuffersOf(kind[r.frame])
              /\ \A t \in BuffersOf(kind[r.frame]) : <<r.frame, t>> \in mPendingBuffersMap
          BY DEF ListInv
        <4>2. ~q.input
          BY <1>1
        <4>3. QED BY <1>1, <1>3, <3>2, <4>1, <4>2
      <3>3. QED BY <1>2, <3>1, <3>2
    <2>2. ASSUME NEW p \in mPendingRequestsList', NEW o \in mPendingRequestsList',
                 p.frame = o.frame
          PROVE  p = o
      BY <1>1, <1>2, <2>2 DEF ListInv
    <2>3. QED BY <1>3, <1>4, <2>1, <2>2 DEF ListInv
  <1>7. LentOnce => LentOnce'
    BY <1>3 DEF LentOnce
  <1>8. AllAnswered => AllAnswered'
    BY <1>3, <1>4 DEF AllAnswered
  <1>9. ASSUME NEW f \in Frames, NEW t \in Streams
        PROVE  /\ Expected(f, t) /\ <<f, t>> \notin {<<r.frame, s>>} => Expected(f, t)'
               /\ Expected(f, t)' => Expected(f, t)
    BY <1>1, <1>2, <1>3 DEF Expected
  <1>10. Cardinality(LiveRequests') = Cardinality(LiveRequests)
    <2>1. r \in LiveRequests /\ IsFiniteSet(LiveRequests)
      BY FS_Subset DEF LiveRequests, ListTypes
    <2>2. LiveRequests' = (LiveRequests \ {r}) \cup {q}
      BY <1>1, <1>2 DEF LiveRequests
    <2>3. q \notin LiveRequests \ {r}
      <3>1. \A p \in mPendingRequestsList : p.frame = r.frame => p = r
        BY DEF ListInv
      <3>2. QED BY <1>1, <3>1 DEF LiveRequests
    <2>4. /\ IsFiniteSet(LiveRequests \ {r})
          /\ Cardinality(LiveRequests \ {r}) = Cardinality(LiveRequests) - 1
      BY <2>1, FS_RemoveElement
    <2>5. Cardinality(LiveRequests) \in Nat
      BY <2>1, FS_CardinalityType
    <2>6. Cardinality((LiveRequests \ {r}) \cup {q}) = Cardinality(LiveRequests \ {r}) + 1
      BY <2>3, <2>4, FS_AddElement
    <2>7. QED BY <2>2, <2>4, <2>5, <2>6
  <1>11. QED BY <1>5, <1>6, <1>7, <1>8, <1>9, <1>10 DEF ListKept

(* handleBufferWithLock, of a buffer that is expected.                      *)
LEMMA HandleBuffer ==
    ASSUME ListTypes, ListInv, NEW f \in Frames, NEW s \in Streams, Expected(f, s),
           handleBufferWithLock(f, s), kind' = kind
    PROVE  /\ ListKept({<<f, s>>})
           /\ Cardinality(LiveRequests') = Cardinality(LiveRequests)
           /\ ~Down => ~Expected(f, s)'
           /\ \A g \in Booked : Live(g) => answers'[g] = answers[g]
           /\ \A g \in Frames, t \in Streams : returned'[<<g, t>>] > returned[<<g, t>>] =>
                 <<g, t>> = <<f, s>> /\ (Live(f) => f \notin Listed)
           /\ \A g \in Frames, t \in Streams : returned'[<<g, t>>] >= returned[<<g, t>>]
           /\ Down => UNCHANGED listVars
  <1> DEFINE mine == {r \in mPendingRequestsList : r.frame = f}
  <1>1. f \in Booked /\ s \in BuffersOf(kind[f]) /\ <<f, s>> \in mPendingBuffersMap
        /\ \A r \in mPendingRequestsList : r.frame = f => s \notin r.cached
    BY DEF Expected
  <1>2. mPendingLiveRequest' = mPendingLiveRequest
    BY DEF handleBufferWithLock
  <1>3. \A B : Return(B) => \A g \in Frames, t \in Streams :
           returned'[<<g, t>>] = returned[<<g, t>>] + IF <<g, t>> \in B THEN 1 ELSE 0
    BY DEF Return, ListTypes
  <1>4. ASSUME \/ returned' = returned
               \/ Return({<<f, s>>})
        PROVE  \A g \in Frames, t \in Streams : returned'[<<g, t>>] >= returned[<<g, t>>]
    <2> SUFFICES ASSUME NEW g \in Frames, NEW t \in Streams
                 PROVE  returned'[<<g, t>>] >= returned[<<g, t>>]
      OBVIOUS
    <2>1. returned[<<g, t>>] \in Nat
      BY DEF ListTypes
    <2>2. CASE returned' = returned
      BY <2>1, <2>2
    <2>3. CASE Return({<<f, s>>})
      BY <1>3, <2>1, <2>3
    <2>4. QED BY <1>4, <2>2, <2>3
  <1>5. CASE Down /\ UNCHANGED <<mPendingRequestsList, mPendingBuffersMap, answers, returned>>
    <2>1. UNCHANGED <<listVars, kind>>
      BY <1>2, <1>5 DEF listVars
    <2>2. \A g, t : ~(returned'[<<g, t>>] > returned[<<g, t>>])
          \/ g \notin Frames \/ t \notin Streams
      BY <1>5 DEF ListTypes
    <2>3. ListKept({<<f, s>>}) /\ LiveRequests' = LiveRequests
      BY <2>1, NothingIsKept
    <2>4. \A g \in Frames, t \in Streams : returned'[<<g, t>>] >= returned[<<g, t>>]
      BY <1>4, <1>5
    <2>5. QED BY <1>5, <2>1, <2>2, <2>3, <2>4
  <1>6. CASE ~Down /\ mine = {} /\ Return({<<f, s>>})
             /\ UNCHANGED <<mPendingRequestsList, answers>>
    <2>1. f \notin Listed
      BY <1>6 DEF Listed
    <2>2. MayGo({}, {<<f, s>>})
      BY <1>1, <1>6, <2>1, RequestFacts DEF MayGo
    <2>3. Answer({})
      BY <1>6 DEF Answer, ListTypes
    <2>4. Erase({})
      BY <1>6 DEF Erase
    <2>5. ListKept({<<f, s>>})
      BY <1>2, <1>6, <2>2, <2>3, <2>4, SettleIsKept DEF ListTypes
    <2>6. ~Expected(f, s)'
      BY <1>6 DEF Return, Expected
    <2>7. \A g \in Frames, t \in Streams : returned'[<<g, t>>] > returned[<<g, t>>] =>
             <<g, t>> = <<f, s>>
      BY <1>3, <1>6 DEF ListTypes
    <2>8. QED BY <1>4, <1>6, <2>1, <2>5, <2>6, <2>7 DEF LiveRequests
  <1>7. CASE /\ ~Down
             /\ \E r \in mine : r.input /\ Return({<<f, s>>}) /\ Answer({f}) /\ Erase({f})
    <2>1. PICK r \in mine : r.input
      BY <1>7
    <2>2. kind[f] = "reprocess" /\ \A q \in mPendingRequestsList : q.frame = f => q = r
      BY <2>1 DEF ListInv
    <2>3. ~Live(f)
      BY <2>2 DEF Live
    <2>4. MayGo({f}, {<<f, s>>})
      <3>1. \A q \in mPendingRequestsList : q.frame \in {f} => q.cached = {}
        BY <2>1, <2>2 DEF ListInv
      <3>2. {f} \subseteq Listed /\ {<<f, s>>} \subseteq mPendingBuffersMap
        BY <1>1, <2>1 DEF Listed
      <3>3. QED BY <2>3, <3>1, <3>2 DEF MayGo
    <2>5. ListKept({<<f, s>>})
      BY <1>2, <1>7, <2>4, SettleIsKept DEF ListTypes
    <2>6. LiveRequests' = LiveRequests
      BY <1>7, <2>1, <2>2 DEF Erase, LiveRequests
    <2>7. ~Expected(f, s)'
      BY <1>7 DEF Return, Expected
    <2>8. \A g \in Booked : Live(g) => answers'[g] = answers[g]
      BY <1>7, <2>3, BookedFacts DEF Answer, ListTypes
    <2>9. \A g \in Frames, t \in Streams : returned'[<<g, t>>] > returned[<<g, t>>] =>
             <<g, t>> = <<f, s>>
      BY <1>3, <1>7 DEF ListTypes
    <2>10. QED BY <1>4, <1>7, <2>3, <2>5, <2>6, <2>7, <2>8, <2>9
  <1>8. CASE ~Down /\ \E r \in mine : ~r.input /\ Cache(r, s)
    <2>1. PICK r \in mine : ~r.input /\ Cache(r, s)
      BY <1>8
    <2>2. r \in mPendingRequestsList /\ r.frame = f /\ s \in BuffersOf(kind[r.frame])
      BY <1>1, <2>1
    <2>3. ListKept({<<f, s>>}) /\ Cardinality(LiveRequests') = Cardinality(LiveRequests)
      BY <2>1, <2>2, CacheIsKept
    <2>4. ~Expected(f, s)'
      <3>1. [r EXCEPT !.cached = @ \cup {s}] \in mPendingRequestsList'
        BY <2>1 DEF Cache
      <3>2. [r EXCEPT !.cached = @ \cup {s}].frame = f
            /\ s \in [r EXCEPT !.cached = @ \cup {s}].cached
        BY <2>2, RequestFacts DEF Requests
      <3>3. QED BY <3>1, <3>2 DEF Expected
    <2>5. \A g \in Frames, t \in Streams : ~(returned'[<<g, t>>] > returned[<<g, t>>])
      BY <2>1 DEF Cache, ListTypes
    <2>6. QED BY <1>4, <1>8, <2>1, <2>3, <2>4, <2>5 DEF Cache
  <1>9. QED
    BY <1>2, <1>5, <1>6, <1>7, <1>8, Zenon DEF handleBufferWithLock, Cache

(* handleInputBufferWithLock.                                               *)
LEMMA HandleInput ==
    ASSUME ListTypes, ListInv, NEW f \in Frames, handleInputBufferWithLock(f), kind' = kind
    PROVE  /\ ListKept({})
           /\ LiveRequests' = LiveRequests
           /\ \A g \in Booked : Live(g) => answers'[g] = answers[g]
           /\ returned' = returned
  <1>1. UNCHANGED <<mPendingBuffersMap, mPendingLiveRequest, returned>>
    BY DEF handleInputBufferWithLock
  <1>2. CASE \E r \in mPendingRequestsList : r.frame = f /\ r.input
    <2>1. PICK r \in mPendingRequestsList : r.frame = f /\ r.input
      BY <1>2
    <2>2. kind[f] = "reprocess" /\ \A q \in mPendingRequestsList : q.frame = f => q = r
      BY <2>1 DEF ListInv
    <2>3. ~Live(f)
      BY <2>2 DEF Live
    <2>4. Answer({f}) /\ Erase({f})
      BY <1>2 DEF handleInputBufferWithLock
    <2>5. MayGo({f}, {})
      <3>1. \A q \in mPendingRequestsList : q.frame \in {f} => q.cached = {}
        BY <2>1, <2>2 DEF ListInv
      <3>2. {f} \subseteq Listed
        BY <2>1 DEF Listed
      <3>3. QED BY <2>3, <3>1, <3>2 DEF MayGo
    <2>6. Return({})
      BY <1>1 DEF Return, ListTypes
    <2>7. ListKept({})
      BY <1>1, <2>4, <2>5, <2>6, SettleIsKept DEF ListTypes
    <2>8. LiveRequests' = LiveRequests
      BY <2>1, <2>2, <2>4 DEF Erase, LiveRequests
    <2>9. \A g \in Booked : Live(g) => answers'[g] = answers[g]
      BY <2>3, <2>4, BookedFacts DEF Answer, ListTypes
    <2>10. QED BY <1>1, <2>7, <2>8, <2>9
  <1>3. CASE UNCHANGED <<mPendingRequestsList, answers>>
    <2>1. UNCHANGED <<listVars, kind>>
      BY <1>1, <1>3 DEF listVars
    <2>2. QED BY <1>1, <1>3, <2>1, NothingIsKept
  <1>4. QED BY <1>2, <1>3 DEF handleInputBufferWithLock

-----------------------------------------------------------------------------
(* processCaptureRequest books the next frame: its buffers are expected,    *)
(* and nothing changes for the frames before it.                            *)
LEMMA Book ==
    ASSUME ListTypes, ListInv, NEW k \in AllKinds, NEW f, f = Len(kind) + 1, f <= MaxFrame,
           book(f, k), UNCHANGED <<answers, returned>>, mPendingLiveRequest' \in Int
    PROVE  /\ ListTypes' /\ ListInv'
           /\ LentOnce => LentOnce'
           /\ AllAnswered => AllAnswered'
           /\ Booked' = Booked \cup {f}
           /\ f \in Frames /\ f \notin Booked
           /\ kind'[f] = k
           /\ \A g \in Booked : kind'[g] = kind[g]
           /\ \A g \in Booked, t \in Streams : Expected(g, t)' <=> Expected(g, t)
           /\ \A t \in BuffersOf(k) : Expected(f, t)'
           /\ Cardinality(LiveRequests') =
                 Cardinality(LiveRequests) + IF k = "reprocess" THEN 0 ELSE 1
  <1> DEFINE q == [frame |-> f, input |-> k = "reprocess", cached |-> {}]
  <1>1. /\ kind' = Append(kind, k)
        /\ mPendingRequestsList' = mPendingRequestsList \cup {q}
        /\ mPendingBuffersMap' = mPendingBuffersMap \cup ({f} \X BuffersOf(k))
    BY DEF book
  <1>2. /\ Booked = 1..Len(kind) /\ Len(kind) \in Nat /\ Booked \subseteq Frames
        /\ \A g \in Booked : kind[g] \in AllKinds /\ BuffersOf(kind[g]) \subseteq Streams
    BY BookedFacts
  <1>3. f \in Frames /\ f \notin Booked /\ BuffersOf(k) \subseteq Streams /\ f \in Nat
    BY <1>2, BuffersFacts, PipelineConstants DEF Frames
  <1>4. /\ kind' \in Seq(AllKinds) /\ Len(kind') = f
        /\ kind'[f] = k /\ \A g \in Booked : kind'[g] = kind[g]
    BY <1>1, <1>2 DEF ListTypes
  <1>5. Booked' = Booked \cup {f}
    BY <1>2, <1>4 DEF Booked
  <1>6. q \in Requests /\ q.frame = f /\ (q.input <=> k = "reprocess") /\ q.cached = {}
    BY <1>3 DEF Requests
  <1> HIDE DEF q
  <1>7. \A g \in Booked : Live(g)' <=> Live(g)
    BY <1>4 DEF Live
  <1>8. \A r \in mPendingRequestsList : r.frame \in Booked
    BY DEF ListInv
  <1>9. ListTypes'
    <2>1. IsFiniteSet(mPendingRequestsList')
      BY <1>1, FS_AddElement DEF ListTypes
    <2>2. mPendingRequestsList' \in SUBSET Requests
      BY <1>1, <1>6 DEF ListTypes
    <2>3. mPendingBuffersMap' \in SUBSET (Frames \X Streams)
      BY <1>1, <1>3 DEF ListTypes
    <2>4. Len(kind') <= MaxFrame
      BY <1>4
    <2>5. QED BY <1>4, <2>1, <2>2, <2>3, <2>4 DEF ListTypes
  <1>10. \A g, t : <<g, t>> \in mPendingBuffersMap' <=>
            <<g, t>> \in mPendingBuffersMap \/ (g = f /\ t \in BuffersOf(k))
    BY <1>1
  <1>11. \A g : g \in Listed' <=> g \in Listed \/ g = f
    BY <1>1, <1>6 DEF Listed
  <1>12. ListInv'
    <2>1. ASSUME NEW r \in mPendingRequestsList'
          PROVE  /\ r.frame \in Booked'
                 /\ r.input <=> kind'[r.frame] = "reprocess"
                 /\ r.input => r.cached = {}
                 /\ r.cached \subseteq BuffersOf(kind'[r.frame])
                 /\ \A s \in BuffersOf(kind'[r.frame]) : <<r.frame, s>> \in mPendingBuffersMap'
      <3>1. CASE r \in mPendingRequestsList
        BY <1>4, <1>5, <1>10, <3>1 DEF ListInv
      <3>2. CASE r = q
        BY <1>4, <1>5, <1>6, <1>10, <3>2
      <3>3. QED BY <1>1, <3>1, <3>2
    <2>2. \A r, p \in mPendingRequestsList' : r.frame = p.frame => r = p
      BY <1>1, <1>3, <1>6, <1>8 DEF ListInv
    <2>3. ASSUME NEW g \in Frames, NEW s \in Streams, <<g, s>> \in mPendingBuffersMap'
          PROVE  g \in Booked' /\ s \in BuffersOf(kind'[g])
      BY <1>4, <1>5, <1>10, <2>3 DEF ListInv
    <2>4. \A g \in Frames \ Booked' :
             answers'[g] = 0 /\ \A s \in Streams : returned'[<<g, s>>] = 0
      BY <1>5 DEF ListInv
    <2>5. ASSUME NEW g \in Booked', NEW h \in Booked',
                 g < h, Live(g)', Live(h)', g \in Listed'
          PROVE  h \in Listed'
      <3>1. h = f \/ (h \in Booked /\ g \in Booked)
        BY <1>2, <1>5, <2>5
      <3>2. CASE h \in Booked /\ g \in Booked
        BY <1>3, <1>7, <1>11, <2>5, <3>2 DEF ListInv
      <3>3. QED BY <1>11, <3>1, <3>2
    <2>6. QED BY <2>1, <2>2, <2>3, <2>4, <2>5 DEF ListInv
  <1>13. \A s \in BuffersOf(k) : returned[<<f, s>>] = 0
    BY <1>3 DEF ListInv
  <1>14. LentOnce => LentOnce'
    <2>1. SUFFICES ASSUME LentOnce, NEW g \in Booked', NEW s \in BuffersOf(kind'[g])
                   PROVE  returned[<<g, s>>] = IF <<g, s>> \in mPendingBuffersMap' THEN 0 ELSE 1
      BY DEF LentOnce
    <2>2. CASE g = f
      BY <1>4, <1>10, <1>13, <2>2
    <2>3. CASE g \in Booked
      BY <1>3, <1>4, <1>10, <2>1, <2>3 DEF LentOnce
    <2>4. QED BY <1>5, <2>2, <2>3
  <1>15. AllAnswered => AllAnswered'
    BY <1>3, <1>5, <1>11 DEF AllAnswered, ListInv
  <1>16. ASSUME NEW g \in Booked, NEW t \in Streams
         PROVE  Expected(g, t)' <=> Expected(g, t)
    BY <1>1, <1>3, <1>4, <1>5, <1>6, <1>10 DEF Expected
  <1>17. \A t \in BuffersOf(k) : Expected(f, t)'
    <2>1. \A r \in mPendingRequestsList' : r.frame = f => r.cached = {}
      BY <1>1, <1>3, <1>6, <1>8
    <2>2. \A t \in BuffersOf(k) : <<f, t>> \in mPendingBuffersMap'
      BY <1>10
    <2>3. QED BY <1>4, <1>5, <2>1, <2>2 DEF Expected
  <1>18. Cardinality(LiveRequests') =
            Cardinality(LiveRequests) + IF k = "reprocess" THEN 0 ELSE 1
    <2>1. IsFiniteSet(LiveRequests) /\ Cardinality(LiveRequests) \in Nat
      BY FS_Subset, FS_CardinalityType DEF LiveRequests, ListTypes
    <2>2. CASE k = "reprocess"
      <3>1. LiveRequests' = LiveRequests
        BY <1>1, <1>6, <2>2 DEF LiveRequests
      <3>2. QED BY <2>1, <2>2, <3>1
    <2>3. CASE k # "reprocess"
      <3>1. LiveRequests' = LiveRequests \cup {q}
        BY <1>1, <1>6, <2>3 DEF LiveRequests
      <3>2. q \notin LiveRequests
        BY <1>3, <1>6, <1>8 DEF LiveRequests
      <3>3. Cardinality(LiveRequests \cup {q}) = Cardinality(LiveRequests) + 1
        BY <2>1, <3>2, FS_AddElement
      <3>4. QED BY <2>3, <3>1, <3>3
    <2>4. QED BY <2>2, <2>3
  <1>19. QED
    BY <1>3, <1>4, <1>5, <1>9, <1>12, <1>14, <1>15, <1>16, <1>17, <1>18

-----------------------------------------------------------------------------
(* notifyErrorForPendingRequests always empties the list, since every       *)
(* request in it has a buffer in the map.  Those that are listed get        *)
(* ERROR_REQUEST, and so do others only if misled is set.                   *)
LEMMA Notify ==
    ASSUME ListTypes, ListInv, notifyErrorForPendingRequests, kind' = kind,
           mPendingLiveRequest' \in Int, misled \in BOOLEAN
    PROVE  /\ ListTypes' /\ ListInv'
           /\ mPendingRequestsList' = {} /\ mPendingBuffersMap' = {}
           /\ LentOnce => LentOnce'
           /\ AllAnswered => misled' \/ AllAnswered'
           /\ misled => misled'
           /\ misled' \in BOOLEAN
           /\ \A f, s : ~Expected(f, s)'
  <1> DEFINE failed == {b[1] : b \in {c \in mPendingBuffersMap : \E f \in Listed : f <= c[1]}}
             Older(r) == {f \in Listed : f < r.frame}
  <1>1. /\ Answer(failed) /\ Return(mPendingBuffersMap)
        /\ mPendingRequestsList' =
              {r \in mPendingRequestsList : Cardinality(Older(r)) >= Cardinality(failed)}
        /\ misled' = (misled \/ failed # Listed)
    BY DEF notifyErrorForPendingRequests
  <1>2. Listed \subseteq Booked /\ Booked \subseteq Frames /\ Frames \subseteq Nat
    BY BookedFacts, PipelineConstants DEF Listed, ListInv, Frames
  <1>3. failed \subseteq Booked
    <2>1. ASSUME NEW b \in mPendingBuffersMap
          PROVE  b[1] \in Booked
      BY DEF ListTypes, ListInv
    <2>2. QED BY <2>1
  <1>4. Listed \subseteq failed
    <2>1. ASSUME NEW r \in mPendingRequestsList
          PROVE  r.frame \in failed
      <3>1. r.frame \in Booked /\ r.frame \in Listed
        BY DEF ListInv, Listed
      <3>2. PICK s \in BuffersOf(kind[r.frame]) : TRUE
        BY <3>1, BookedFacts, BuffersFacts
      <3>3. <<r.frame, s>> \in mPendingBuffersMap
        BY DEF ListInv
      <3>4. r.frame \in Nat
        BY <1>2, <3>1
      <3>5. \E f \in Listed : f <= r.frame
        BY <3>1, <3>4
      <3>6. QED BY <3>3, <3>5
    <2>2. QED BY <2>1 DEF Listed
  <1>5. IsFiniteSet(failed) /\ Cardinality(failed) \in Nat
    <2>1. IsFiniteSet(Frames)
      BY FS_Interval, PipelineConstants DEF Frames
    <2>2. failed \subseteq Frames
      BY <1>2, <1>3
    <2> HIDE DEF failed
    <2>3. QED BY <2>1, <2>2, FS_Subset, FS_CardinalityType
  <1>6. mPendingRequestsList' = {}
    <2>1. ASSUME NEW r \in mPendingRequestsList
          PROVE  Cardinality(Older(r)) < Cardinality(failed)
      <3>1. r.frame \in Listed /\ r.frame \in Nat
        BY <1>2 DEF Listed
      <3>2. r.frame \in failed /\ r.frame \notin Older(r) /\ Older(r) \subseteq failed
        BY <1>4, <3>1
      <3> HIDE DEF failed, Older
      <3>3. /\ IsFiniteSet(Older(r)) /\ Cardinality(Older(r)) <= Cardinality(failed)
            /\ Cardinality(failed) = Cardinality(Older(r)) => failed = Older(r)
        BY <1>5, <3>2, FS_Subset
      <3>4. Cardinality(Older(r)) \in Nat
        BY <3>3, FS_CardinalityType
      <3>5. QED BY <1>5, <3>2, <3>3, <3>4
    <2>2. \A r \in mPendingRequestsList : Cardinality(Older(r)) \in Int
      <3>1. \A r \in mPendingRequestsList : Older(r) \subseteq Listed
        OBVIOUS
      <3>2. IsFiniteSet(Listed)
        BY <1>4, <1>5, FS_Subset
      <3> HIDE DEF Older
      <3>3. QED BY <3>1, <3>2, FS_Subset, FS_CardinalityType
    <2> HIDE DEF failed, Older
    <2>3. QED BY <1>1, <1>5, <2>1, <2>2
  <1> HIDE DEF failed, Older
  <1>7. mPendingBuffersMap' = {}
    BY <1>1 DEF Return
  <1>8. /\ Booked' = Booked
        /\ \A f \in Frames : answers'[f] = answers[f] + IF f \in failed THEN 1 ELSE 0
        /\ \A f \in Frames, s \in Streams : returned'[<<f, s>>] =
              returned[<<f, s>>] + IF <<f, s>> \in mPendingBuffersMap THEN 1 ELSE 0
    BY <1>1 DEF Booked, Answer, Return, ListTypes
  <1>9. ListTypes'
    <2>1. answers' \in [Frames -> Nat]
      BY <1>1 DEF Answer, ListTypes
    <2>2. returned' \in [Frames \X Streams -> Nat]
      BY <1>1 DEF Return, ListTypes
    <2>3. QED BY <1>6, <1>7, <2>1, <2>2, FS_EmptySet DEF ListTypes
  <1>10. ListInv'
    <2>1. ASSUME NEW f \in Frames \ Booked
          PROVE  answers'[f] = 0 /\ \A s \in Streams : returned'[<<f, s>>] = 0
      <3>1. answers[f] = 0 /\ \A s \in Streams :
               returned[<<f, s>>] = 0 /\ <<f, s>> \notin mPendingBuffersMap
        BY DEF ListInv
      <3>2. answers'[f] = answers[f] + 0
        BY <1>3, <1>8
      <3>3. \A s \in Streams : returned'[<<f, s>>] = returned[<<f, s>>] + 0
        BY <1>8, <3>1
      <3>4. QED BY <3>1, <3>2, <3>3
    <2>2. Listed' = {}
      BY <1>6 DEF Listed
    <2>3. QED BY <1>6, <1>7, <1>8, <2>1, <2>2 DEF ListInv
  <1>11. LentOnce => LentOnce'
    <2>1. SUFFICES ASSUME LentOnce, NEW f \in Booked, NEW s \in BuffersOf(kind[f])
                   PROVE  returned'[<<f, s>>] = 1
      BY <1>7, <1>8 DEF LentOnce
    <2>2. f \in Frames /\ s \in Streams
      BY BookedFacts
    <2>3. returned[<<f, s>>] = IF <<f, s>> \in mPendingBuffersMap THEN 0 ELSE 1
      BY <2>1 DEF LentOnce
    <2>4. QED BY <1>8, <2>2, <2>3
  <1>12. AllAnswered => misled' \/ AllAnswered'
    <2>1. SUFFICES ASSUME AllAnswered, failed = Listed PROVE AllAnswered'
      BY <1>1
    <2>2. Listed' = {}
      BY <1>6 DEF Listed
    <2>3. QED BY <1>2, <1>8, <2>1, <2>2 DEF AllAnswered
  <1>13. \A f, s : ~Expected(f, s)'
    BY <1>7 DEF Expected
  <1>14. QED BY <1>1, <1>6, <1>7, <1>9, <1>10, <1>11, <1>12, <1>13

-----------------------------------------------------------------------------
(* What handleMetadataWithLock(m) answers and returns.                      *)
UpTo(m) == {r \in mPendingRequestsList : ~r.input /\ r.frame <= m}
FramesUpTo(m) == {r.frame : r \in UpTo(m)}
CachedUpTo(m) == UNION {{r.frame} \X r.cached : r \in UpTo(m)}

LEMMA MetadataMayGo ==
    ASSUME ListTypes, ListInv, NEW m \in Int
    PROVE  MayGo(FramesUpTo(m), CachedUpTo(m))
  <1>1. \A f : f \in FramesUpTo(m) <=>
           \E r \in mPendingRequestsList : r.frame = f /\ ~r.input /\ f <= m
    BY DEF FramesUpTo, UpTo
  <1>2. \A f, s : <<f, s>> \in CachedUpTo(m) <=>
           \E r \in mPendingRequestsList : r.frame = f /\ ~r.input /\ f <= m /\ s \in r.cached
    BY DEF CachedUpTo, UpTo
  <1>3. FramesUpTo(m) \subseteq Listed
    BY <1>1 DEF Listed
  <1>4. CachedUpTo(m) \subseteq mPendingBuffersMap
    <2>1. \A r \in UpTo(m) : \A s \in r.cached : <<r.frame, s>> \in mPendingBuffersMap
      BY DEF UpTo, ListInv
    <2>2. QED BY <2>1 DEF CachedUpTo
  <1>5. ASSUME NEW r \in mPendingRequestsList
        PROVE  /\ r.frame \in FramesUpTo(m) => \A s \in r.cached : <<r.frame, s>> \in CachedUpTo(m)
               /\ r.frame \notin FramesUpTo(m) =>
                     \A s \in Streams : <<r.frame, s>> \notin CachedUpTo(m)
    <2>1. \A q \in mPendingRequestsList : q.frame = r.frame => q = r
      BY DEF ListInv
    <2>2. QED BY <1>1, <1>2, <2>1
  <1>6. ASSUME NEW f \in Booked, NEW g \in Booked, f < g, Live(f), Live(g),
               f \in Listed, g \in FramesUpTo(m)
        PROVE  f \in FramesUpTo(m)
    <2>1. PICK r \in mPendingRequestsList : r.frame = f
      BY <1>6 DEF Listed
    <2>2. ~r.input
      BY <1>6, <2>1 DEF ListInv, Live
    <2>3. g <= m /\ f \in Int /\ g \in Int
      BY <1>1, <1>6, BookedFacts
    <2>4. QED BY <1>1, <1>6, <2>1, <2>2, <2>3
  <1>7. QED BY <1>3, <1>4, <1>5, <1>6 DEF MayGo

LEMMA MetadataCount ==
    ASSUME ListTypes, ListInv, NEW m, Erase(FramesUpTo(m))
    PROVE  /\ Cardinality(LiveRequests') = Cardinality(LiveRequests) - Cardinality(UpTo(m))
           /\ Cardinality(LiveRequests) \in Nat /\ Cardinality(UpTo(m)) \in Nat
  <1>1. IsFiniteSet(LiveRequests) /\ IsFiniteSet(UpTo(m))
    BY FS_Subset DEF ListTypes, LiveRequests, UpTo
  <1>2. LiveRequests' = LiveRequests \ UpTo(m)
    <2>1. \A r \in LiveRequests : r.frame \in FramesUpTo(m) <=> r \in UpTo(m)
      BY DEF FramesUpTo, UpTo, LiveRequests, ListInv
    <2>2. LiveRequests' = {r \in LiveRequests : r.frame \notin FramesUpTo(m)}
      BY DEF Erase, LiveRequests
    <2>3. QED BY <2>1, <2>2
  <1>3. LiveRequests \cap UpTo(m) = UpTo(m)
    BY DEF LiveRequests, UpTo
  <1>4. Cardinality(LiveRequests \ UpTo(m)) =
           Cardinality(LiveRequests) - Cardinality(LiveRequests \cap UpTo(m))
    BY <1>1, FS_Difference
  <1>5. QED BY <1>1, <1>2, <1>3, <1>4, FS_CardinalityType

(* The requests and the buffers of older live frames go before, or along.   *)
InOrderStep ==
    \A f, g \in Booked : f < g /\ Live(f) /\ Live(g) =>
        /\ answers'[g] > answers[g] => misled' \/ answers'[f] > 0
        /\ returned'[<<g, "regular">>] > returned[<<g, "regular">>]
              => returned'[<<f, "regular">>] > 0

LEMMA MetadataOrder ==
    ASSUME ListTypes, ListInv, LentOnce, AllAnswered \/ misled', HandedInOrder,
           NEW m \in Int, Answer(FramesUpTo(m)), Return(CachedUpTo(m))
    PROVE  InOrderStep
  <1> SUFFICES ASSUME NEW f \in Booked, NEW g \in Booked, f < g, Live(f), Live(g)
               PROVE  /\ answers'[g] > answers[g] => misled' \/ answers'[f] > 0
                      /\ returned'[<<g, "regular">>] > returned[<<g, "regular">>]
                            => returned'[<<f, "regular">>] > 0
    BY DEF InOrderStep
  <1>1. /\ f \in Frames /\ g \in Frames /\ "regular" \in Streams
        /\ "regular" \in BuffersOf(kind[f]) /\ f \in Int /\ g \in Int
    BY BookedFacts DEF Streams
  <1>2. MayGo(FramesUpTo(m), CachedUpTo(m))
    BY MetadataMayGo
  <1>3. answers'[g] > answers[g] => misled' \/ answers'[f] > 0
    <2>1. SUFFICES ASSUME AllAnswered, answers'[g] > answers[g] PROVE answers'[f] > 0
      OBVIOUS
    <2>2. \A h \in Frames : /\ answers[h] \in Nat
                            /\ h \in FramesUpTo(m) => answers'[h] = answers[h] + 1
                            /\ h \notin FramesUpTo(m) => answers'[h] = answers[h] + 0
      BY DEF Answer, ListTypes
    <2>3. g \in FramesUpTo(m)
      BY <1>1, <2>1, <2>2
    <2>4. CASE f \in Listed
      <3>1. f \in FramesUpTo(m)
        BY <1>2, <2>3, <2>4 DEF MayGo
      <3>2. QED BY <1>1, <2>2, <3>1
    <2>5. CASE f \notin Listed
      <3>1. answers[f] = 1
        BY <2>1, <2>5 DEF AllAnswered
      <3>2. QED BY <1>1, <2>2, <3>1
    <2>6. QED BY <2>4, <2>5
  <1>4. ASSUME returned'[<<g, "regular">>] > returned[<<g, "regular">>]
        PROVE  returned'[<<f, "regular">>] > 0
    <2>1. \A h \in Frames :
             /\ returned[<<h, "regular">>] \in Nat
             /\ <<h, "regular">> \in CachedUpTo(m) =>
                   returned'[<<h, "regular">>] = returned[<<h, "regular">>] + 1
             /\ <<h, "regular">> \notin CachedUpTo(m) =>
                   returned'[<<h, "regular">>] = returned[<<h, "regular">>] + 0
      BY <1>1 DEF Return, ListTypes
    <2>2. <<g, "regular">> \in CachedUpTo(m)
      BY <1>1, <1>4, <2>1
    <2>3. PICK q \in UpTo(m) : q.frame = g /\ "regular" \in q.cached
      BY <2>2 DEF CachedUpTo
    <2>4. ~Expected(g, "regular") /\ g <= m /\ g \in FramesUpTo(m)
      BY <2>3 DEF Expected, UpTo, FramesUpTo
    <2>5. ~Expected(f, "regular")
      BY <2>4 DEF HandedInOrder
    <2>6. CASE <<f, "regular">> \notin mPendingBuffersMap
      <3>1. returned[<<f, "regular">>] = 1
        BY <1>1, <2>6 DEF LentOnce
      <3>2. QED BY <1>1, <2>1, <3>1
    <2>7. CASE \E r \in mPendingRequestsList : r.frame = f /\ "regular" \in r.cached
      <3>1. PICK r \in mPendingRequestsList : r.frame = f /\ "regular" \in r.cached
        BY <2>7
      <3>2. r.frame \in FramesUpTo(m)
        BY <1>2, <2>4, <3>1 DEF MayGo, Listed
      <3>3. <<f, "regular">> \in CachedUpTo(m)
        BY <1>2, <3>1, <3>2 DEF MayGo
      <3>4. QED BY <1>1, <2>1, <3>3
    <2>8. QED BY <1>1, <2>5, <2>6, <2>7 DEF Expected
  <1>5. QED BY <1>3, <1>4

(* handleMetadataWithLock, for the list and the map.                        *)
LEMMA MetadataList ==
    ASSUME ListTypes, ListInv, NEW m \in Int, handleMetadataWithLock(m),
           UNCHANGED <<kind, misled>>
    PROVE  /\ ListKept({})
           /\ mPendingLiveRequest = Cardinality(LiveRequests) =>
                 mPendingLiveRequest' = Cardinality(LiveRequests')
           /\ LentOnce /\ AnsweredOnce /\ HandedInOrder => InOrderStep
  <1>1. CASE UNCHANGED listVars
    <2>1. ListKept({}) /\ LiveRequests' = LiveRequests
      BY <1>1, NothingIsKept
    <2>2. InOrderStep
      BY <1>1, BookedFacts DEF listVars, InOrderStep, ListTypes, Streams
    <2>3. QED BY <1>1, <2>1, <2>2 DEF listVars
  <1>2. CASE /\ mPendingLiveRequest' = mPendingLiveRequest - Cardinality(UpTo(m))
             /\ Answer(FramesUpTo(m)) /\ Erase(FramesUpTo(m)) /\ Return(CachedUpTo(m))
    <2>1. /\ Cardinality(LiveRequests') = Cardinality(LiveRequests) - Cardinality(UpTo(m))
          /\ Cardinality(LiveRequests) \in Nat /\ Cardinality(UpTo(m)) \in Nat
      BY <1>2, MetadataCount
    <2>2. mPendingLiveRequest' \in Int
      BY <1>2, <2>1 DEF ListTypes
    <2>3. ListKept(CachedUpTo(m))
      BY <1>2, <2>2, MetadataMayGo, SettleIsKept
    <2>4. \A f, s : Expected(f, s) => <<f, s>> \notin CachedUpTo(m)
      BY DEF Expected, CachedUpTo, UpTo
    <2>5. ListKept({})
      BY <2>3, <2>4 DEF ListKept
    <2>6. LentOnce /\ AnsweredOnce /\ HandedInOrder => InOrderStep
      BY <1>2, MetadataOrder DEF AnsweredOnce, AllAnswered
    <2>7. QED BY <1>2, <2>1, <2>5, <2>6
  <1>3. QED
    BY <1>1, <1>2, Zenon DEF handleMetadataWithLock, UpTo, FramesUpTo, CachedUpTo

-----------------------------------------------------------------------------
DataInv ==
    /\ ListTypes /\ ListInv /\ LentOnce /\ AnsweredOnce
    /\ CountInv /\ ComingInv /\ OrderInv

LEMMA ExpectedFacts ==
    ASSUME ListTypes
    PROVE  \A f, s : Expected(f, s) => f \in Booked /\ f \in Frames /\ f # 0 /\ s \in Streams
  BY PipelineConstants DEF Expected, ListTypes, Frames

LEMMA ExpectedFactsNext ==
    ASSUME ListTypes'
    PROVE  \A f, s : Expected(f, s)' => f \in Booked' /\ f \in Frames /\ f # 0 /\ s \in Streams
  BY PipelineConstants DEF Expected, ListTypes, Frames

(* While the same buffers are expected and come, the order stays, unless a  *)
(* flush is over.                                                           *)
LEMMA StreamsKept ==
    ASSUME ListTypes, ComingInv, OrderInv, UNCHANGED <<kind, frameOf, toDeliver>>,
           ListKept({}),
           \A j \in jobs' : \E l \in jobs : l[1] = j[1],
           \A j, l \in jobs' : j[1] = l[1] => j = l,
           Down => Down', mFlush => mFlush'
    PROVE  ComingInv' /\ OrderInv'
  <1>1. \A f, s : Expected(f, s)' <=> Expected(f, s)
    BY ExpectedFacts, ExpectedFactsNext DEF ListKept
  <1>2. /\ Booked' = Booked /\ \A f \in Booked : Live(f)' <=> Live(f)
        /\ \A f : Coming(f)' <=> Coming(f)
    BY DEF Booked, Live, Coming
  <1>3. ComingInv'
    <2>1. /\ \A i \in 1..NBuf : frameOf'[i] # 0 => Expected(frameOf[i], "regular")
          /\ \A i, j \in 1..NBuf : frameOf'[i] # 0 /\ i # j => frameOf'[i] # frameOf'[j]
          /\ \A m \in DOMAIN toDeliver' : toDeliver'[m] # 0 =>
                /\ Expected(toDeliver[m], "regular")
                /\ \A i \in 1..NBuf : frameOf'[i] # 0 => toDeliver'[m] < frameOf'[i]
                /\ \A n \in DOMAIN toDeliver' :
                      n < m /\ toDeliver'[n] # 0 => toDeliver'[n] < toDeliver'[m]
      BY DEF ComingInv
    <2>2. ASSUME NEW j \in jobs'
          PROVE  Expected(j[1], "blob")' /\ \A l \in jobs' : j[1] = l[1] => j = l
      BY <1>1 DEF ComingInv
    <2>3. QED BY <1>1, <2>1, <2>2 DEF ComingInv
  <1>4. HandedInOrder' /\ (ComingInOrder => ComingInOrder') /\ (AllCome => AllCome')
    BY <1>1, <1>2 DEF OrderInv, HandedInOrder, ComingInOrder, AllCome
  <1>5. QED BY <1>3, <1>4 DEF OrderInv

(* A step that leaves the requests and their buffers alone.                 *)
LEMMA Quiet ==
    ASSUME DataInv, UNCHANGED <<listVars, kind, misled, frameOf, toDeliver, jobs>>,
           Down => Down', mFlush => mFlush'
    PROVE  DataInv' /\ InOrderStep
  <1>1. ListKept({}) /\ LiveRequests' = LiveRequests
    BY NothingIsKept DEF DataInv
  <1>2. ListTypes' /\ ListInv' /\ LentOnce'
    BY <1>1 DEF ListKept, DataInv
  <1>3. AnsweredOnce'
    BY <1>1 DEF ListKept, DataInv, AnsweredOnce, AllAnswered
  <1>4. CountInv'
    <2>1. CASE mFlush
      BY <2>1 DEF CountInv
    <2>2. CASE mPendingLiveRequest = Cardinality(LiveRequests)
      BY <1>1, <2>2 DEF CountInv, listVars
    <2>3. QED BY <2>1, <2>2 DEF DataInv, CountInv
  <1>5. ComingInv' /\ OrderInv'
    BY <1>1, StreamsKept DEF DataInv, ComingInv
  <1>6. InOrderStep
    BY BookedFacts DEF DataInv, listVars, InOrderStep, ListTypes, Streams
  <1>7. QED BY <1>2, <1>3, <1>4, <1>5, <1>6 DEF DataInv

LEMMA MetadataKeeps ==
    ASSUME DataInv, Metadata, SensorTypes
    PROVE  DataInv' /\ InOrderStep
  <1>1. UNCHANGED <<kind, misled, frameOf, toDeliver, mFlush>>
    BY DEF Metadata, ghostVars, callVars
  <1>2. CASE handleBatchMetadata
    BY <1>1, <1>2, Quiet DEF handleBatchMetadata, Down
  <1>3. CASE metadataStep
    <2>1. PICK m \in Int : handleMetadataWithLock(m)
      <3>1. metaQ # <<>> => Head(metaQ) \in Frames
        BY DEF SensorTypes
      <3>2. metaLoop # <<>> => Head(metaLoop) \in Int
        BY DEF SensorTypes
      <3>3. Frames \subseteq Int
        BY PipelineConstants DEF Frames
      <3>4. QED BY <1>3, <3>1, <3>2, <3>3, Zenon DEF metadataStep
    <2>2. /\ ListKept({})
          /\ mPendingLiveRequest = Cardinality(LiveRequests) =>
                 mPendingLiveRequest' = Cardinality(LiveRequests')
          /\ LentOnce /\ AnsweredOnce /\ HandedInOrder => InOrderStep
      BY <1>1, <2>1, MetadataList DEF DataInv
    <2>3. Down => Down'
      BY <2>1 DEF handleMetadataWithLock, Down
    <2>4. /\ \A j \in jobs' : \E l \in jobs : l[1] = j[1]
          /\ \A j, l \in jobs' : j[1] = l[1] => j = l
      <3>1. \A j, l \in jobs : j[1] = l[1] => j = l
        BY DEF DataInv, ComingInv
      <3>2. CASE jobs' = jobs
        BY <3>1, <3>2
      <3>3. CASE jobs' = {IF j[1] \in FramesUpTo(m) THEN <<j[1], "ready">> ELSE j : j \in jobs}
        <4>1. \A j \in jobs' : \E l \in jobs :
                 l[1] = j[1] /\ j = IF l[1] \in FramesUpTo(m) THEN <<l[1], "ready">> ELSE l
          BY <3>3
        <4>2. QED BY <3>1, <4>1
      <3>4. QED BY <2>1, <3>2, <3>3, Zenon DEF handleMetadataWithLock, FramesUpTo, UpTo
    <2>5. ComingInv' /\ OrderInv'
      BY <1>1, <2>2, <2>3, <2>4, StreamsKept DEF DataInv
    <2>6. CountInv'
      <3>1. CASE mFlush
        BY <1>1, <3>1 DEF CountInv
      <3>2. CASE mPendingLiveRequest = Cardinality(LiveRequests)
        BY <2>2, <3>2 DEF CountInv
      <3>3. QED BY <3>1, <3>2 DEF DataInv, CountInv
    <2>7. AnsweredOnce'
      BY <1>1, <2>2 DEF ListKept, DataInv, AnsweredOnce, AllAnswered
    <2>8. QED BY <2>2, <2>5, <2>6, <2>7 DEF DataInv, ListKept, OrderInv
  <1>4. QED BY <1>2, <1>3 DEF Metadata

(* The stop of a channel: nothing comes from its stream any more.           *)
LEMMA StopKeeps ==
    ASSUME DataInv, FlushInv, NEW t \in Threads, stopChannel(t)
    PROVE  DataInv' /\ InOrderStep
  <1>1. /\ UNCHANGED <<listVars, kind, misled, toDeliver, mState, mFlush>>
        /\ \/ toDeliver = <<>> /\ jobs' = jobs /\ \A i \in 1..NBuf : frameOf'[i] = 0
           \/ jobs' = {} /\ frameOf' = frameOf
    BY DEF stopChannel
  <1>2. mFlush \/ Down
    BY DEF FlushInv, stopChannel
  <1>3. ListKept({}) /\ LiveRequests' = LiveRequests
    BY <1>1, NothingIsKept DEF DataInv
  <1>4. ListTypes' /\ ListInv' /\ LentOnce'
    BY <1>3 DEF ListKept, DataInv
  <1>5. AnsweredOnce'
    BY <1>1, <1>3 DEF ListKept, DataInv, AnsweredOnce, AllAnswered
  <1>6. CountInv'
    <2>1. CASE mFlush
      BY <1>1, <2>1 DEF CountInv
    <2>2. CASE mPendingLiveRequest = Cardinality(LiveRequests)
      BY <1>1, <1>3, <2>2 DEF CountInv, listVars
    <2>3. QED BY <2>1, <2>2 DEF DataInv, CountInv
  <1>7. ComingInv' /\ OrderInv'
    <2>1. CASE jobs' = {} /\ frameOf' = frameOf
      BY <1>1, <1>3, <2>1, StreamsKept DEF DataInv, Down
    <2>2. CASE toDeliver = <<>> /\ jobs' = jobs /\ \A i \in 1..NBuf : frameOf'[i] = 0
      <3>1. \A f, s : Expected(f, s)' <=> Expected(f, s)
        BY <1>1 DEF Expected, Booked, listVars
      <3>2. ComingInv'
        BY <1>1, <2>2, <3>1 DEF DataInv, ComingInv
      <3>3. HandedInOrder'
        BY <1>1, <3>1 DEF DataInv, OrderInv, HandedInOrder, Booked, Live
      <3>4. ComingInOrder'
        <4>1. \A f \in Booked' : ~Coming(f)'
          BY <1>1, <2>2, BookedFacts, PipelineConstants DEF Coming, Frames, Booked, DataInv
        <4>2. QED BY <4>1 DEF ComingInOrder
      <3>5. QED BY <1>1, <1>2, <3>2, <3>3, <3>4 DEF OrderInv, Down
    <2>3. QED BY <1>1, <2>1, <2>2
  <1>8. InOrderStep
    BY <1>1, BookedFacts DEF DataInv, listVars, InOrderStep, ListTypes, Streams
  <1>9. QED BY <1>4, <1>5, <1>6, <1>7, <1>8 DEF DataInv

LEMMA CountKeeps ==
    ASSUME CountInv, mFlush' = mFlush,
           mPendingLiveRequest = Cardinality(LiveRequests) =>
               mPendingLiveRequest' = Cardinality(LiveRequests')
    PROVE  CountInv'
  <1>1. CASE mFlush
    BY <1>1 DEF CountInv
  <1>2. CASE mPendingLiveRequest = Cardinality(LiveRequests)
    BY <1>2 DEF CountInv
  <1>3. QED BY <1>1, <1>2 DEF CountInv

LEMMA AnsweredKeeps ==
    ASSUME AnsweredOnce, AllAnswered => AllAnswered', misled' = misled
    PROVE  AnsweredOnce'
  BY DEF AnsweredOnce, AllAnswered

LEMMA TailFacts ==
    ASSUME NEW S, NEW q \in Seq(S), q # <<>>
    PROVE  /\ 1 \in DOMAIN q /\ q[1] = Head(q)
           /\ \A m \in DOMAIN Tail(q) : m + 1 \in DOMAIN q /\ Tail(q)[m] = q[m + 1] /\ m \in Nat
           /\ \A m \in DOMAIN q : m # 1 => m - 1 \in DOMAIN Tail(q) /\ Tail(q)[m - 1] = q[m]
  <1>1. /\ Len(q) \in Nat /\ Len(q) # 0 /\ DOMAIN q = 1..Len(q)
        /\ DOMAIN Tail(q) = 1..(Len(q) - 1)
        /\ \A m \in 1..(Len(q) - 1) : Tail(q)[m] = q[m + 1]
    OBVIOUS
  <1>2. \A m \in 1..Len(q) : m # 1 => m - 1 \in 1..(Len(q) - 1) /\ (m - 1) + 1 = m
    BY <1>1
  <1>3. \A m \in 1..(Len(q) - 1) : m + 1 \in 1..Len(q) /\ m \in Nat
    BY <1>1
  <1>4. 1 \in DOMAIN q /\ q[1] = Head(q)
    BY <1>1
  <1>5. QED BY <1>1, <1>2, <1>3, <1>4

(* deliver: the head of toDeliver is the oldest of all that come, so it is  *)
(* the next one to be handed over.                                          *)
LEMMA DeliverKeeps ==
    ASSUME DataInv, StreamTypes, deliver
    PROVE  DataInv' /\ InOrderStep
  <1>1. /\ toDeliver # <<>> /\ toDeliver' = Tail(toDeliver)
        /\ UNCHANGED <<kind, misled, frameOf, jobs, mState, mFlush>>
    BY DEF deliver, ghostVars, streamVars, callVars
  <1>2. PICK f \in Nat : f = Head(toDeliver)
    BY <1>1 DEF StreamTypes
  <1>3. /\ 1 \in DOMAIN toDeliver /\ toDeliver[1] = f
        /\ \A m \in DOMAIN toDeliver' :
              m + 1 \in DOMAIN toDeliver /\ toDeliver'[m] = toDeliver[m + 1] /\ m \in Nat
        /\ \A m \in DOMAIN toDeliver : m # 1 =>
              m - 1 \in DOMAIN toDeliver' /\ toDeliver'[m - 1] = toDeliver[m]
    BY <1>1, <1>2, TailFacts DEF StreamTypes
  <1>4. /\ Booked' = Booked /\ \A g \in Booked : Live(g)' <=> Live(g)
        /\ Down' <=> Down
    BY <1>1 DEF Booked, Live, Down
  <1>5. \A m, n \in DOMAIN toDeliver' : n < m => n + 1 < m + 1
    BY <1>1 DEF StreamTypes
  <1>6. \A g : Coming(g)' => Coming(g)
    BY <1>1, <1>3 DEF Coming
  <1>7. \A g : Coming(g) => Coming(g)' \/ g = f
    BY <1>1, <1>3 DEF Coming
  <1>8. ASSUME NEW B, ListKept(B), \A b \in B : f # 0 /\ b = <<f, "regular">>
        PROVE  ComingInv'
    <2>1. \A g, s : Expected(g, s) => Expected(g, s)' \/ (f # 0 /\ g = f /\ s = "regular")
      BY <1>8, ExpectedFacts DEF ListKept, DataInv
    <2>2. f # 0 => \A i \in 1..NBuf : frameOf[i] # f
      <3>1. ASSUME f # 0, NEW i \in 1..NBuf, frameOf[i] = f PROVE FALSE
        BY <1>3, <3>1 DEF DataInv, ComingInv
      <3>2. QED BY <3>1
    <2>3. f # 0 => \A m \in DOMAIN toDeliver' : toDeliver'[m] # f
      <3>1. ASSUME f # 0, NEW m \in DOMAIN toDeliver', toDeliver'[m] = f PROVE FALSE
        <4>1. 1 < m + 1 /\ m + 1 \in DOMAIN toDeliver /\ toDeliver[m + 1] = f
          BY <1>1, <1>3, <3>1 DEF StreamTypes
        <4>2. f < f
          BY <1>3, <3>1, <4>1 DEF DataInv, ComingInv
        <4>3. QED BY <4>2
      <3>2. QED BY <3>1
    <2>4. ASSUME NEW i \in 1..NBuf, frameOf'[i] # 0 PROVE Expected(frameOf[i], "regular")'
      <3>1. Expected(frameOf[i], "regular")
        BY <1>1, <2>4 DEF DataInv, ComingInv
      <3>2. frameOf[i] # f \/ f = 0
        BY <2>2
      <3>3. PICK g : g = frameOf[i]
        OBVIOUS
      <3>4. Expected(g, "regular")'
        BY <2>1, <3>1, <3>2, <3>3
      <3>5. frameOf'[i] = g
        BY <1>1, <3>3
      <3>6. QED BY <3>4, <3>5
    <2>5. ASSUME NEW m \in DOMAIN toDeliver', toDeliver'[m] # 0
          PROVE  /\ Expected(toDeliver[m], "regular")'
                 /\ \A i \in 1..NBuf : frameOf'[i] # 0 => toDeliver'[m] < frameOf'[i]
                 /\ \A n \in DOMAIN toDeliver' :
                       n < m /\ toDeliver'[n] # 0 => toDeliver'[n] < toDeliver'[m]
      <3>1. PICK g : g = toDeliver'[m]
        OBVIOUS
      <3>2. Expected(g, "regular") /\ (g # f \/ f = 0)
        BY <1>3, <2>3, <2>5, <3>1 DEF DataInv, ComingInv
      <3>3. Expected(g, "regular")'
        BY <2>1, <3>2
      <3>4. \A i \in 1..NBuf : frameOf'[i] # 0 => toDeliver'[m] < frameOf'[i]
        BY <1>1, <1>3, <2>5 DEF DataInv, ComingInv
      <3>5. \A n \in DOMAIN toDeliver' :
               n < m /\ toDeliver'[n] # 0 => toDeliver'[n] < toDeliver'[m]
        BY <1>3, <1>5, <2>5 DEF DataInv, ComingInv
      <3>6. QED BY <3>1, <3>3, <3>4, <3>5
    <2>6. ASSUME NEW j \in jobs'
          PROVE  Expected(j[1], "blob")' /\ \A l \in jobs' : j[1] = l[1] => j = l
      BY <1>1, <2>1 DEF DataInv, ComingInv
    <2>7. \A i, j \in 1..NBuf : frameOf'[i] # 0 /\ i # j => frameOf'[i] # frameOf'[j]
      BY <1>1 DEF DataInv, ComingInv
    <2>8. QED BY <2>4, <2>5, <2>6, <2>7 DEF ComingInv
  <1>9. CASE f = 0 /\ UNCHANGED listVars
    <2>1. ListKept({}) /\ LiveRequests' = LiveRequests
      BY <1>1, <1>9, NothingIsKept DEF DataInv
    <2>2. ComingInv'
      BY <1>8, <2>1
    <2>3. \A g, s : Expected(g, s)' <=> Expected(g, s)
      BY <1>1, <1>9 DEF Expected, Booked, listVars
    <2>4. \A g \in Booked : Coming(g)' <=> Coming(g)
      BY <1>6, <1>7, <1>9, BookedFacts, PipelineConstants DEF Frames, DataInv
    <2>5. OrderInv'
      BY <1>1, <1>4, <2>3, <2>4
      DEF DataInv, OrderInv, HandedInOrder, ComingInOrder, AllCome
    <2>6. CountInv'
      BY <1>1, <1>9, <2>1, CountKeeps DEF DataInv, listVars
    <2>7. InOrderStep
      BY <1>9, BookedFacts DEF DataInv, listVars, InOrderStep, ListTypes, Streams
    <2>8. AnsweredOnce'
      BY <1>1, <2>1, AnsweredKeeps DEF DataInv, ListKept
    <2>9. QED BY <2>1, <2>2, <2>5, <2>6, <2>7, <2>8 DEF DataInv, ListKept
  <1>10. CASE f # 0 /\ handleBufferWithLock(f, "regular")
    <2>1. Expected(f, "regular") /\ f \in Booked /\ f \in Frames /\ "regular" \in Streams
      BY <1>3, <1>10, ExpectedFacts DEF DataInv, ComingInv, Streams
    <2>2. /\ ListKept({<<f, "regular">>})
          /\ Cardinality(LiveRequests') = Cardinality(LiveRequests)
          /\ ~Down => ~Expected(f, "regular")'
          /\ \A g \in Booked : Live(g) => answers'[g] = answers[g]
          /\ \A g \in Frames, t \in Streams : returned'[<<g, t>>] > returned[<<g, t>>] =>
                <<g, t>> = <<f, "regular">> /\ (Live(f) => f \notin Listed)
          /\ \A g \in Frames, t \in Streams : returned'[<<g, t>>] >= returned[<<g, t>>]
          /\ Down => UNCHANGED listVars
      BY <1>1, <1>10, <2>1, HandleBuffer DEF DataInv
    <2>3. ComingInv'
      BY <1>8, <1>10, <2>2
    <2>4. Live(f)
      BY <2>1, BookedFacts DEF Expected, DataInv
    <2>5. ASSUME ~Down, NEW g \in Booked, Live(g), g < f
          PROVE  ~Expected(g, "regular")
      <3>1. g \in Nat /\ g # 0
        BY BookedFacts, PipelineConstants DEF Frames, DataInv
      <3>2. Coming(f)
        BY <1>3 DEF Coming
      <3>3. \A i \in 1..NBuf : frameOf[i] # g
        BY <1>2, <1>3, <1>10, <2>5, <3>1 DEF DataInv, ComingInv
      <3>4. \A m \in DOMAIN toDeliver : toDeliver[m] # g
        <4>1. ASSUME NEW m \in DOMAIN toDeliver, toDeliver[m] = g PROVE FALSE
          <5>1. m # 1
            BY <1>2, <1>3, <2>5, <3>1, <4>1
          <5>2. 1 < m
            BY <5>1 DEF StreamTypes
          <5>3. f < g
            BY <1>3, <1>10, <3>1, <4>1, <5>2 DEF DataInv, ComingInv
          <5>4. QED BY <1>2, <2>5, <3>1, <5>3
        <4>2. QED BY <4>1
      <3>5. ~Coming(g)
        BY <3>3, <3>4 DEF Coming
      <3>6. QED BY <2>1, <2>4, <2>5, <3>2, <3>5 DEF DataInv, OrderInv, ComingInOrder
    <2>6. \A g, s : Expected(g, s)' => Expected(g, s)
      BY <2>2, ExpectedFactsNext DEF ListKept
    <2>7. \A g : Expected(g, "regular") => Expected(g, "regular")' \/ g = f
      BY <2>2, ExpectedFacts DEF ListKept, DataInv
    <2>8. Down => \A g, s : Expected(g, s)' <=> Expected(g, s)
      BY <1>1, <2>2 DEF Expected, Booked, listVars
    <2>9. HandedInOrder'
      <3>1. CASE Down
        BY <1>4, <2>8, <3>1 DEF DataInv, OrderInv, HandedInOrder
      <3>2. CASE ~Down
        <4>1. SUFFICES ASSUME NEW h \in Booked, NEW g \in Booked, h < g, Live(h), Live(g),
                              ~Expected(g, "regular")'
                       PROVE  ~Expected(h, "regular")'
          BY <1>4 DEF HandedInOrder
        <4>2. CASE g = f
          BY <2>5, <2>6, <3>2, <4>1, <4>2
        <4>3. CASE g # f
          BY <2>6, <2>7, <4>1, <4>3 DEF DataInv, OrderInv, HandedInOrder
        <4>4. QED BY <4>2, <4>3
      <3>3. QED BY <3>1, <3>2
    <2>10. OrderInv'
      BY <1>1, <1>4, <1>6, <1>7, <2>2, <2>6, <2>9
      DEF DataInv, OrderInv, ComingInOrder, AllCome
    <2>11. CountInv'
      <3>1. mPendingLiveRequest' = mPendingLiveRequest
        BY <1>10 DEF handleBufferWithLock
      <3>2. QED BY <1>1, <2>2, <3>1, CountKeeps DEF DataInv
    <2>12. AnsweredOnce'
      BY <1>1, <2>2, AnsweredKeeps DEF DataInv, ListKept
    <2>13. InOrderStep
      <3>1. SUFFICES ASSUME NEW h \in Booked, NEW g \in Booked, h < g, Live(h), Live(g),
                            returned'[<<g, "regular">>] > returned[<<g, "regular">>]
                     PROVE  returned'[<<h, "regular">>] > 0
        BY <2>2, BookedFacts DEF InOrderStep, DataInv, ListTypes
      <3>2. /\ g = f /\ f \notin Listed /\ h \in Frames
            /\ "regular" \in BuffersOf(kind[h]) /\ "regular" \in Streams
        BY <2>1, <2>2, <2>4, <3>1, BookedFacts DEF DataInv
      <3>3. ~Down
        BY <2>1, <2>2, <3>1, <3>2 DEF listVars, DataInv, ListTypes
      <3>4. ~Expected(h, "regular")
        BY <2>5, <3>1, <3>2, <3>3
      <3>5. h \notin Listed
        BY <3>1, <3>2 DEF DataInv, ListInv
      <3>6. <<h, "regular">> \notin mPendingBuffersMap
        BY <3>1, <3>2, <3>4, <3>5 DEF Expected, Listed
      <3>7. returned[<<h, "regular">>] = 1
        BY <3>1, <3>2, <3>6 DEF DataInv, LentOnce
      <3>8. returned'[<<h, "regular">>] >= 1
        BY <2>2, <3>2, <3>7
      <3>9. returned'[<<h, "regular">>] \in Nat
        BY <2>2, <3>2 DEF ListKept, ListTypes
      <3>10. QED BY <3>8, <3>9
    <2>14. QED BY <2>2, <2>3, <2>10, <2>11, <2>12, <2>13 DEF DataInv, ListKept
  <1>11. QED BY <1>2, <1>9, <1>10 DEF deliver

(* A JPEG job: its input buffer is not needed any more, or its image is     *)
(* there.                                                                   *)
LEMMA JobKeeps ==
    ASSUME DataInv, StreamTypes, NEW f \in Frames, jobStep(f)
    PROVE  DataInv' /\ InOrderStep
  <1>1. UNCHANGED <<kind, misled, frameOf, toDeliver, mState, mFlush>>
    BY DEF jobStep, ghostVars, streamVars, callVars
  <1>2. \A j \in jobs : Expected(j[1], "blob") /\ \A l \in jobs : j[1] = l[1] => j = l
    BY DEF DataInv, ComingInv
  <1>3. Down <=> Down'
    BY <1>1 DEF Down
  <1>4. CASE /\ <<f, "ready">> \in jobs /\ handleInputBufferWithLock(f)
             /\ jobs' = (jobs \ {<<f, "ready">>}) \cup {<<f, "encode">>}
    <2>1. /\ ListKept({}) /\ LiveRequests' = LiveRequests
          /\ \A g \in Booked : Live(g) => answers'[g] = answers[g]
          /\ returned' = returned
      BY <1>1, <1>4, HandleInput DEF DataInv
    <2>2. /\ \A j \in jobs' : \E l \in jobs : l[1] = j[1]
          /\ \A j, l \in jobs' : j[1] = l[1] => j = l
      BY <1>2, <1>4
    <2>3. ComingInv' /\ OrderInv'
      BY <1>1, <1>3, <2>1, <2>2, StreamsKept DEF DataInv
    <2>4. mPendingLiveRequest' = mPendingLiveRequest
      BY <1>4 DEF handleInputBufferWithLock
    <2>5. CountInv' /\ AnsweredOnce'
      BY <1>1, <2>1, <2>4, CountKeeps, AnsweredKeeps DEF DataInv, ListKept
    <2>6. InOrderStep
      BY <2>1, BookedFacts DEF InOrderStep, DataInv, ListTypes, Streams
    <2>7. QED BY <2>1, <2>3, <2>5, <2>6 DEF DataInv, ListKept
  <1>5. CASE /\ <<f, "encode">> \in jobs /\ handleBufferWithLock(f, "blob")
             /\ jobs' = jobs \ {<<f, "encode">>}
    <2>1. Expected(f, "blob") /\ "blob" \in Streams
      BY <1>2, <1>5 DEF Streams
    <2>2. /\ ListKept({<<f, "blob">>})
          /\ Cardinality(LiveRequests') = Cardinality(LiveRequests)
          /\ \A g \in Booked : Live(g) => answers'[g] = answers[g]
          /\ \A g \in Frames, t \in Streams : returned'[<<g, t>>] > returned[<<g, t>>] =>
                <<g, t>> = <<f, "blob">>
      BY <1>1, <1>5, <2>1, HandleBuffer DEF DataInv
    <2>3. \A g : Expected(g, "regular")' <=> Expected(g, "regular")
      BY <2>2, ExpectedFacts, ExpectedFactsNext DEF ListKept, DataInv
    <2>4. \A g : Expected(g, "blob") /\ g # f => Expected(g, "blob")'
      BY <2>2, ExpectedFacts DEF ListKept, DataInv
    <2>5. ComingInv'
      <3>1. ASSUME NEW j \in jobs'
            PROVE  Expected(j[1], "blob")' /\ \A l \in jobs' : j[1] = l[1] => j = l
        <4>1. j[1] # f
          BY <1>2, <1>5
        <4>2. QED BY <1>2, <1>5, <2>4, <4>1
      <3>2. \A i \in 1..NBuf : frameOf[i] # 0 => Expected(frameOf[i], "regular")'
        BY <1>1, <2>3 DEF DataInv, ComingInv
      <3>3. \A m \in DOMAIN toDeliver : toDeliver[m] # 0 => Expected(toDeliver[m], "regular")'
        BY <1>1, <2>3 DEF DataInv, ComingInv
      <3>4. QED BY <1>1, <3>1, <3>2, <3>3 DEF DataInv, ComingInv
    <2>6. OrderInv'
      <3>1. /\ Booked' = Booked /\ \A g \in Booked : Live(g)' <=> Live(g)
            /\ \A g : Coming(g)' <=> Coming(g)
        BY <1>1 DEF Booked, Live, Coming
      <3>2. QED
        BY <1>1, <1>3, <2>3, <3>1
        DEF DataInv, OrderInv, HandedInOrder, ComingInOrder, AllCome
    <2>7. mPendingLiveRequest' = mPendingLiveRequest
      BY <1>5 DEF handleBufferWithLock
    <2>8. CountInv' /\ AnsweredOnce'
      BY <1>1, <2>2, <2>7, CountKeeps, AnsweredKeeps DEF DataInv, ListKept
    <2>9. InOrderStep
      <3>1. \A g \in Booked : g \in Frames /\ answers[g] \in Nat
        BY BookedFacts DEF DataInv, ListTypes
      <3>2. \A g \in Booked : ~(returned'[<<g, "regular">>] > returned[<<g, "regular">>])
        BY <2>2, <3>1 DEF Streams
      <3>3. \A g \in Booked : Live(g) => ~(answers'[g] > answers[g])
        BY <2>2, <3>1
      <3>4. QED BY <3>2, <3>3 DEF InOrderStep
    <2>10. QED BY <2>2, <2>5, <2>6, <2>8, <2>9 DEF DataInv, ListKept
  <1>6. QED BY <1>4, <1>5 DEF jobStep

(* The end of a flush: with the list and the map everything is settled.     *)
LEMMA FinishKeeps ==
    ASSUME DataInv, FlushInv, misled \in BOOLEAN, NEW t \in Threads, finishFlush(t)
    PROVE  DataInv' /\ InOrderStep /\ misled' \in BOOLEAN
  <1>1. /\ RegularStopped /\ BlobStopped
        /\ notifyErrorForPendingRequests /\ mPendingLiveRequest' = 0
        /\ UNCHANGED <<kind, frameOf, toDeliver, jobs>>
    BY DEF finishFlush, FlushInv, unblockCaptureRequest, streamVars
  <1>2. /\ ListTypes' /\ ListInv'
        /\ mPendingRequestsList' = {} /\ mPendingBuffersMap' = {}
        /\ LentOnce => LentOnce'
        /\ AllAnswered => misled' \/ AllAnswered'
        /\ misled => misled'
        /\ misled' \in BOOLEAN
        /\ \A f, s : ~Expected(f, s)'
    BY <1>1, Notify DEF DataInv
  <1>3. AnsweredOnce'
    BY <1>2 DEF DataInv, AnsweredOnce, AllAnswered
  <1>4. CountInv'
    BY <1>1, <1>2, FS_EmptySet DEF CountInv, LiveRequests
  <1>5. ComingInv'
    BY <1>1 DEF RegularStopped, BlobStopped, ComingInv
  <1>6. OrderInv'
    BY <1>2 DEF OrderInv, HandedInOrder, ComingInOrder, AllCome
  <1>7. InOrderStep
    <2>1. SUFFICES ASSUME NEW f \in Booked, NEW g \in Booked, Live(f), Live(g)
                   PROVE  /\ misled' \/ answers'[f] > 0
                          /\ returned'[<<f, "regular">>] > 0
      BY DEF InOrderStep
    <2>2. f \in Booked' /\ "regular" \in BuffersOf(kind'[f])
      BY <1>1, <2>1, BookedFacts DEF Booked, DataInv
    <2>3. returned'[<<f, "regular">>] = 1
      BY <1>2, <2>2 DEF DataInv, LentOnce
    <2>4. misled' \/ answers'[f] = 1
      BY <1>2, <1>3, <2>2 DEF AnsweredOnce, Listed
    <2>5. QED BY <2>3, <2>4
  <1>8. QED BY <1>2, <1>3, <1>4, <1>5, <1>6, <1>7 DEF DataInv

-----------------------------------------------------------------------------
(* The buffer that processCaptureRequest queues is a free one.              *)
LEMMA QueueRegular ==
    ASSUME StreamTypes, SensorTypes, NEW f \in Frames, queueRegular(f),
           0 \in {frameOf[i] : i \in 1..NBuf}
    PROVE  /\ \E i \in 1..NBuf :
                 /\ frameOf[i] = 0 /\ frameOf' = [frameOf EXCEPT ![i] = f]
                 /\ kernel' = kernel \cup {i}
           /\ sent' \in Seq(Frames) /\ unsent' \in Seq(Frames)
           /\ mPendingBatchMap' \in [Frames -> Nat]
           /\ mToBeQueuedVidBufs' \in Nat /\ mFirstFrameNumberInBatch' \in Nat
  <1> DEFINE free == {i \in 1..NBuf : frameOf[i] = 0}
             i == CHOOSE i \in 1..NBuf : frameOf[i] = 0 /\ \A j \in 1..(i - 1) : frameOf[j] # 0
             first == IF mBatchSize # 0 /\ mToBeQueuedVidBufs = 0 THEN f
                      ELSE mFirstFrameNumberInBatch
  <1>1. /\ frameOf' = [frameOf EXCEPT ![i] = f] /\ kernel' = kernel \cup {i}
        /\ \/ /\ sent' = sent \o Append(unsent, f) /\ unsent' = <<>> /\ mToBeQueuedVidBufs' = 0
              /\ mPendingBatchMap' = [mPendingBatchMap EXCEPT ![f] = first]
           \/ /\ unsent' = Append(unsent, f) /\ mToBeQueuedVidBufs' = mToBeQueuedVidBufs + 1
              /\ UNCHANGED <<sent, mPendingBatchMap>>
        /\ mFirstFrameNumberInBatch' = first
    BY DEF queueRegular
  <1>2. i \in 1..NBuf /\ frameOf[i] = 0
    <2>1. \E n \in 1..NBuf : frameOf[n] = 0 /\ \A j \in 1..(n - 1) : frameOf[j] # 0
      <3>1. free \in SUBSET Nat /\ free # {}
        BY PipelineConstants
      <3>2. PICK n \in free : \A m \in free : n <= m
        <4> HIDE DEF free
        <4> QED BY <3>1, Least
      <3>3. \A j \in 1..(n - 1) : j \in 1..NBuf /\ ~(n <= j)
        BY PipelineConstants
      <3>4. QED BY <3>2, <3>3
    <2> HIDE DEF free
    <2>2. QED BY <2>1
  <1>3. first \in Nat
    BY PipelineConstants DEF SensorTypes, Frames
  <1> HIDE DEF i, first
  <1>4. Append(unsent, f) \in Seq(Frames) /\ sent \o Append(unsent, f) \in Seq(Frames)
        /\ <<>> \in Seq(Frames)
    BY DEF SensorTypes
  <1>5. mPendingBatchMap' \in [Frames -> Nat]
    BY <1>1, <1>3 DEF SensorTypes
  <1>6. mToBeQueuedVidBufs' \in Nat
    BY <1>1 DEF SensorTypes
  <1>7. sent' \in Seq(Frames) /\ unsent' \in Seq(Frames)
    BY <1>1, <1>4 DEF SensorTypes
  <1>8. QED BY <1>1, <1>2, <1>3, <1>5, <1>6, <1>7

(* processCaptureRequest, for the requests and the buffers: the new frame   *)
(* is newer than all others.                                                *)
LEMMA RequestKeeps ==
    ASSUME DataInv, StreamTypes, SensorTypes, FlushInv,
           NEW k \in AllKinds, processCaptureRequest(k)
    PROVE  DataInv' /\ InOrderStep
  <1>1. PICK f : f = Len(kind) + 1
    OBVIOUS
  <1>2. /\ ~Down /\ ~Down' /\ f <= MaxFrame /\ book(f, k)
        /\ UNCHANGED <<answers, returned, misled, mFlush, toDeliver>>
    BY <1>1 DEF processCaptureRequest, Down
  <1>3. mPendingLiveRequest' \in Int
    <2>1. mPendingLiveRequest \in Int
      BY DEF DataInv, ListTypes
    <2>2. \/ mPendingLiveRequest' \in {0, mPendingLiveRequest}
          \/ mPendingLiveRequest' \in {1, mPendingLiveRequest + 1}
      BY <2>1 DEF processCaptureRequest
    <2>3. QED BY <2>1, <2>2
  <1>4. /\ ListTypes' /\ ListInv'
        /\ LentOnce => LentOnce'
        /\ AllAnswered => AllAnswered'
        /\ Booked' = Booked \cup {f}
        /\ f \in Frames /\ f \notin Booked
        /\ kind'[f] = k
        /\ \A g \in Booked : kind'[g] = kind[g]
        /\ \A g \in Booked, t \in Streams : Expected(g, t)' <=> Expected(g, t)
        /\ \A t \in BuffersOf(k) : Expected(f, t)'
        /\ Cardinality(LiveRequests') =
              Cardinality(LiveRequests) + IF k = "reprocess" THEN 0 ELSE 1
    BY <1>1, <1>2, <1>3, Book DEF DataInv
  <1>5. /\ \A g, s : Expected(g, s) => Expected(g, s)' /\ g < f /\ g # f /\ g \in Booked
        /\ \A g \in Booked : g < f /\ g \in Nat /\ g # 0
        /\ f \in Nat /\ f # 0
        /\ \A g \in Booked : Live(g)' <=> Live(g)
    <2>1. \A g \in Booked : g < f /\ g \in Nat /\ g # 0
      BY <1>1, BookedFacts DEF DataInv
    <2>2. QED BY <1>4, <2>1, ExpectedFacts, PipelineConstants DEF DataInv, Live, Frames
  <1>6. ListTypes' /\ ListInv' /\ LentOnce'
    BY <1>4 DEF DataInv
  <1>7. AnsweredOnce'
    BY <1>2, <1>4 DEF AnsweredOnce, AllAnswered, DataInv
  <1>8. InOrderStep
    <2>1. \A g \in Booked : /\ g \in Frames /\ answers[g] \in Nat
                            /\ returned[<<g, "regular">>] \in Nat
      BY BookedFacts DEF DataInv, ListTypes, Streams
    <2>2. QED BY <1>2, <2>1 DEF InOrderStep
  <1>9. CASE mFlush
    <2>1. UNCHANGED <<frameOf, jobs>>
      BY <1>9 DEF processCaptureRequest, unqueued
    <2>2. CountInv'
      BY <1>2, <1>9 DEF CountInv
    <2>3. ComingInv'
      BY <1>2, <1>5, <2>1 DEF DataInv, ComingInv
    <2>4. OrderInv'
      <3>1. ~Coming(f)
        BY <1>2, <1>5, <2>1 DEF DataInv, ComingInv, Coming
      <3>2. \A g : Coming(g)' <=> Coming(g)
        BY <1>2, <2>1 DEF Coming
      <3>3. Live(f)' => Expected(f, "regular")'
        BY <1>4, BuffersFacts DEF Live
      <3>4. "regular" \in Streams
        BY DEF Streams
      <3>5. HandedInOrder' /\ ComingInOrder'
        BY <1>2, <1>4, <1>5, <3>1, <3>2, <3>3, <3>4
        DEF DataInv, OrderInv, HandedInOrder, ComingInOrder
      <3>6. QED BY <1>2, <1>9, <3>5 DEF OrderInv
    <2>5. QED BY <1>6, <1>7, <1>8, <2>2, <2>3, <2>4 DEF DataInv
  <1>10. CASE ~mFlush
    <2>1. jobs' = jobs \cup {<<f, IF k = "snapshot" THEN "needMeta" ELSE "ready">> :
                             s \in BuffersOf(k) \cap {"blob"}}
      BY <1>1, <1>10 DEF processCaptureRequest
    <2>2. \/ "regular" \notin BuffersOf(k) /\ frameOf' = frameOf
          \/ /\ "regular" \in BuffersOf(k)
             /\ \E i \in 1..NBuf : frameOf[i] = 0 /\ frameOf' = [frameOf EXCEPT ![i] = f]
      <3>1. CASE "regular" \notin BuffersOf(k)
        BY <1>10, <3>1 DEF processCaptureRequest, unqueued
      <3>2. CASE "regular" \in BuffersOf(k)
        <4>1. queueRegular(f) /\ 0 \in {frameOf[i] : i \in 1..NBuf}
          BY <1>1, <1>10, <3>2 DEF processCaptureRequest
        <4>2. QED BY <1>4, <3>2, <4>1, QueueRegular
      <3>3. QED BY <3>1, <3>2
    <2>3. /\ \A i \in 1..NBuf : frameOf'[i] # frameOf[i] =>
                frameOf'[i] = f /\ frameOf[i] = 0 /\ "regular" \in BuffersOf(k)
          /\ \A i, j \in 1..NBuf : frameOf'[i] # frameOf[i] /\ frameOf'[j] # frameOf[j] => i = j
          /\ "regular" \in BuffersOf(k) => \E i \in 1..NBuf : frameOf'[i] = f
      BY <2>2 DEF StreamTypes
    <2>4. \A i \in 1..NBuf : frameOf[i] # 0 => frameOf[i] < f /\ Expected(frameOf[i], "regular")
      BY <1>5 DEF DataInv, ComingInv
    <2>5. \A m \in DOMAIN toDeliver : toDeliver[m] # 0 =>
             toDeliver[m] < f /\ Expected(toDeliver[m], "regular")
      BY <1>5 DEF DataInv, ComingInv
    <2>6. \A j \in jobs : j[1] < f /\ j[1] # f /\ Expected(j[1], "blob")'
      BY <1>5 DEF DataInv, ComingInv
    <2>7. ComingInv'
      <3>1. ASSUME NEW i \in 1..NBuf, frameOf'[i] # 0
            PROVE  \E g : g = frameOf'[i] /\ Expected(g, "regular")'
        <4>1. CASE frameOf'[i] = f /\ "regular" \in BuffersOf(k)
          BY <1>4, <4>1
        <4>2. CASE frameOf'[i] = frameOf[i]
          BY <1>5, <2>4, <3>1, <4>2
        <4>3. QED BY <2>3, <4>1, <4>2
      <3>2. ASSUME NEW i \in 1..NBuf, NEW j \in 1..NBuf, frameOf'[i] # 0, i # j
            PROVE  frameOf'[i] # frameOf'[j]
        <4>1. CASE frameOf'[i] # frameOf[i]
          BY <1>5, <2>3, <2>4, <3>2, <4>1
        <4>2. CASE frameOf'[i] = frameOf[i] /\ frameOf'[j] # frameOf[j]
          BY <1>5, <2>3, <2>4, <3>2, <4>2
        <4>3. CASE frameOf'[i] = frameOf[i] /\ frameOf'[j] = frameOf[j]
          BY <3>2, <4>3 DEF DataInv, ComingInv
        <4>4. QED BY <4>1, <4>2, <4>3
      <3>3. ASSUME NEW m \in DOMAIN toDeliver, toDeliver[m] # 0
            PROVE  /\ \E g : g = toDeliver[m] /\ Expected(g, "regular")'
                   /\ \A i \in 1..NBuf : frameOf'[i] # 0 => toDeliver[m] < frameOf'[i]
                   /\ \A n \in DOMAIN toDeliver :
                         n < m /\ toDeliver[n] # 0 => toDeliver[n] < toDeliver[m]
        <4>1. \E g : g = toDeliver[m] /\ Expected(g, "regular")'
          BY <1>5, <2>5, <3>3
        <4>2. \A i \in 1..NBuf : frameOf[i] # 0 => toDeliver[m] < frameOf[i]
          BY <3>3 DEF DataInv, ComingInv
        <4>3. \A i \in 1..NBuf : frameOf'[i] # 0 => toDeliver[m] < frameOf'[i]
          BY <2>3, <2>5, <3>3, <4>2
        <4>4. QED BY <3>3, <4>1, <4>3 DEF DataInv, ComingInv
      <3>4. ASSUME NEW j \in jobs'
            PROVE  (\E g : g = j[1] /\ Expected(g, "blob")') /\ \A l \in jobs' : j[1] = l[1] => j = l
        <4>1. CASE j \in jobs
          BY <2>1, <2>6, <4>1 DEF DataInv, ComingInv
        <4>2. CASE /\ j = <<f, IF k = "snapshot" THEN "needMeta" ELSE "ready">>
                   /\ "blob" \in BuffersOf(k)
          BY <1>4, <2>1, <2>6, <4>2
        <4>3. QED BY <2>1, <3>4, <4>1, <4>2
      <3>5. \A i \in 1..NBuf : frameOf'[i] # 0 => Expected(frameOf[i], "regular")'
        BY <3>1
      <3>6. QED BY <1>2, <3>2, <3>3, <3>4, <3>5 DEF ComingInv
    <2>8. /\ \A g \in Booked : Coming(g)' <=> Coming(g)
          /\ ~Coming(f)
          /\ Live(f)' => Coming(f)' /\ Expected(f, "regular")'
      <3>1. ~Coming(f)
        BY <1>5, <2>4, <2>5 DEF Coming
      <3>2. Live(f)' => "regular" \in BuffersOf(k)
        BY <1>4, BuffersFacts DEF Live
      <3>3. Live(f)' => Coming(f)' /\ Expected(f, "regular")'
        BY <1>4, <2>3, <3>2 DEF Coming
      <3>4. ASSUME NEW g \in Booked PROVE Coming(g)' <=> Coming(g)
        <4>1. g # 0 /\ g # f
          BY <1>5
        <4>2. \A i \in 1..NBuf : frameOf'[i] = g <=> frameOf[i] = g
          BY <2>3, <4>1
        <4>3. QED BY <1>2, <4>2 DEF Coming
      <3>5. QED BY <3>1, <3>3, <3>4
    <2>9. OrderInv'
      <3>1. "regular" \in Streams /\ AllCome /\ HandedInOrder /\ ComingInOrder
        BY <1>2, <1>10 DEF Streams, DataInv, OrderInv
      <3>2. HandedInOrder'
        BY <1>4, <1>5, <2>8, <3>1 DEF HandedInOrder
      <3>3. AllCome'
        BY <1>4, <1>5, <2>8, <3>1 DEF AllCome
      <3>4. ComingInOrder'
        BY <3>3 DEF ComingInOrder, AllCome
      <3>5. QED BY <3>2, <3>3, <3>4 DEF OrderInv
    <2>10. CountInv'
      <3>1. PICK n \in Int : n = IF mState = "CONFIGURED" THEN 0 ELSE mPendingLiveRequest
        BY DEF DataInv, ListTypes
      <3>2. mPendingLiveRequest' = n + IF k = "reprocess" THEN 0 ELSE 1
        BY <1>10, <3>1 DEF processCaptureRequest
      <3>3. n = Cardinality(LiveRequests)
        <4>1. CASE mState = "CONFIGURED"
          <5>1. Booked = {}
            BY <4>1 DEF FlushInv, Booked
          <5>2. LiveRequests = {}
            BY <5>1 DEF LiveRequests, DataInv, ListInv
          <5>3. QED BY <3>1, <4>1, <5>2, FS_EmptySet
        <4>2. CASE mState # "CONFIGURED"
          BY <1>10, <3>1, <4>2 DEF CountInv, DataInv
        <4>3. QED BY <4>1, <4>2
      <3>4. mPendingLiveRequest' = Cardinality(LiveRequests')
        BY <1>4, <3>1, <3>2, <3>3
      <3>5. QED BY <3>4 DEF CountInv
    <2>11. QED BY <1>6, <1>7, <1>8, <2>7, <2>9, <2>10 DEF DataInv
  <1>11. QED BY <1>9, <1>10

-----------------------------------------------------------------------------
LEMMA SeqOfFunction ==
    ASSUME NEW S, NEW n \in Nat, NEW q \in [1..n -> S]
    PROVE  q \in Seq(S) /\ Len(q) = n
  BY SeqDef

LEMMA Parts ==
    ASSUME NEW S, NEW q \in Seq(S), NEW n \in 0..Len(q)
    PROVE  /\ SubSeq(q, 1, n) \in Seq(S) /\ Len(SubSeq(q, 1, n)) = n
           /\ \A m \in 1..n : SubSeq(q, 1, n)[m] = q[m] /\ q[m] \in S
           /\ SubSeq(q, n + 1, Len(q)) \in Seq(S)
  <1>1. Len(q) \in Nat /\ n \in Int /\ 0 <= n /\ n <= Len(q) /\ n + 1 \in Int
    OBVIOUS
  <1>2. \A m \in 1..Len(q) : q[m] \in S
    OBVIOUS
  <1>3. /\ \A m \in 1..n : m \in 1..Len(q) /\ (1 + m) - 1 = m
        /\ \A m \in (n + 1)..Len(q) : m \in 1..Len(q)
        /\ n - 1 + 1 = n
    BY <1>1
  <1>4. /\ SubSeq(q, 1, n) \in Seq(S)
        /\ Len(SubSeq(q, 1, n)) = IF 1 <= n THEN n - 1 + 1 ELSE 0
        /\ \A m \in 1..(n - 1 + 1) : SubSeq(q, 1, n)[m] = q[1 + m - 1]
    BY <1>1, <1>2, <1>3, SubSeqProperties
  <1>5. SubSeq(q, n + 1, Len(q)) \in Seq(S)
    BY <1>1, <1>2, <1>3, SubSeqProperties
  <1>6. Len(SubSeq(q, 1, n)) = n
    BY <1>1, <1>4
  <1>7. \A m \in 1..n : SubSeq(q, 1, n)[m] = q[m] /\ q[m] \in S
    BY <1>2, <1>3, <1>4
  <1>8. QED BY <1>4, <1>5, <1>6, <1>7

LEMMA CancelFacts ==
    ASSUME StreamTypes, NEW I, NEW before \in Seq(1..NBuf), cancelBuffer(I, before)
    PROVE  /\ kernel' \subseteq kernel /\ done' \in Seq(1..NBuf)
           /\ kernel = {} /\ before = <<>> => done' = <<>>
  <1> DEFINE C == I \cap kernel
  <1>1. PICK q \in [1..Cardinality(C) -> C] : kernel' = kernel \ C /\ done' = before \o q
    BY DEF cancelBuffer
  <1>2. IsFiniteSet(C) /\ Cardinality(C) \in Nat /\ C \subseteq 1..NBuf
    <2>1. NBuf \in Int /\ C \subseteq 1..NBuf
      <3>1. kernel \subseteq 1..NBuf
        <4>1. kernel \in SUBSET (1..NBuf)
          BY DEF StreamTypes
        <4>2. QED BY <4>1, Zenon
      <3>2. C \subseteq 1..NBuf
        BY <3>1, Zenon
      <3>3. NBuf \in Int
        BY PipelineConstants
      <3>4. QED BY <3>2, <3>3, Zenon
    <2> HIDE DEF C
    <2>2. IsFiniteSet(1..NBuf)
      BY <2>1, FS_Interval
    <2>3. QED BY <2>1, <2>2, FS_Subset, FS_CardinalityType
  <1>3. q \in Seq(1..NBuf) /\ Len(q) = Cardinality(C)
    <2> HIDE DEF C
    <2>1. q \in [1..Cardinality(C) -> 1..NBuf]
      BY <1>1, <1>2
    <2>2. QED BY <1>2, <2>1, SeqOfFunction
  <1>4. kernel = {} => Cardinality(C) = 0
    BY FS_EmptySet
  <1> HIDE DEF C
  <1>5. kernel = {} /\ before = <<>> => done' = <<>>
    BY <1>1, <1>3, <1>4
  <1>6. QED BY <1>1, <1>3, <1>5

(* Each of the first recovered(i) buffers put aside is the oldest one of    *)
(* those registered, without i and the ones put aside before it.            *)
OldestLeft(i, m) ==
    \A j \in 1..NBuf :
        /\ frameOf[j] # 0 /\ j # i
        /\ \A l \in 1..(m - 1) : j # mOutOfSequenceBuffers[l]
        => frameOf[j] >= frameOf[mOutOfSequenceBuffers[m]]

LEMMA Recovered ==
    ASSUME StreamTypes, NEW i \in 1..NBuf
    PROVE  /\ recovered(i) \in 0..Len(mOutOfSequenceBuffers)
           /\ \A m \in 1..recovered(i) : OldestLeft(i, m)
  <1> DEFINE held == mOutOfSequenceBuffers
             Left(n) == {j \in 1..NBuf : frameOf[j] # 0} \ ({i} \cup {held[m] : m \in 1..n})
             next(n) == \A j \in Left(n - 1) : frameOf[j] >= frameOf[held[n]]
             fits(n) == /\ \A m \in 1..n : next(m)
                        /\ n < Len(held) => ~next(n + 1)
             bad == {n \in 1..Len(held) : ~next(n)}
  <1>1. recovered(i) = CHOOSE n \in 0..Len(held) : fits(n)
    BY DEF recovered
  <1>2. Len(held) \in Nat
    BY DEF StreamTypes
  <1>3. \A n : next(n) => OldestLeft(i, n)
    BY DEF OldestLeft
  <1> HIDE DEF next
  <1>4. \E n \in 0..Len(held) : fits(n)
    <2>1. CASE bad = {}
      <3>1. fits(Len(held))
        BY <1>2, <2>1
      <3>2. QED BY <1>2, <3>1
    <2>2. CASE bad # {}
      <3>1. bad \in SUBSET Nat
        BY <1>2
      <3>2. PICK n \in bad : \A m \in bad : n <= m
        <4> HIDE DEF bad
        <4>1. QED BY <2>2, <3>1, Least
      <3>3. n \in 1..Len(held) /\ ~next(n) /\ n - 1 \in 0..Len(held) /\ (n - 1) + 1 = n
        BY <1>2, <3>2
      <3>4. \A m \in 1..(n - 1) : m \in 1..Len(held) /\ ~(n <= m)
        BY <1>2, <3>3
      <3>5. \A m \in 1..(n - 1) : next(m)
        BY <3>2, <3>4
      <3>6. fits(n - 1)
        BY <3>3, <3>5
      <3>7. QED BY <3>3, <3>6
    <2>3. QED BY <2>1, <2>2
  <1> HIDE DEF fits, bad
  <1>5. recovered(i) \in 0..Len(held) /\ fits(recovered(i))
    BY <1>1, <1>4
  <1>6. QED BY <1>3, <1>5 DEF fits

(* streamCbRoutine hands buffers over in the order of their frames, before  *)
(* all that stay registered, and forgets none that is registered.           *)
LEMMA HandOver ==
    ASSUME StreamTypes, streamCbRoutine,
           \A i, j \in 1..NBuf : frameOf[i] # 0 /\ i # j => frameOf[i] # frameOf[j]
    PROVE  /\ toDeliver = <<>> /\ done \in Seq(1..NBuf) /\ done # <<>>
           /\ frameOf' \in [1..NBuf -> Nat] /\ toDeliver' \in Seq(Nat)
           /\ mOutOfSequenceBuffers' \in Seq(1..NBuf)
           /\ \E I : cancelBuffer(I, Tail(done))
           /\ \A j \in 1..NBuf : frameOf'[j] # 0 => frameOf'[j] = frameOf[j]
           /\ \A m \in DOMAIN toDeliver' : toDeliver'[m] # 0 =>
                 /\ \E i \in 1..NBuf : frameOf[i] = toDeliver'[m]
                 /\ \A j \in 1..NBuf : frameOf'[j] # 0 => toDeliver'[m] < frameOf'[j]
                 /\ \A n \in DOMAIN toDeliver' :
                       n < m /\ toDeliver'[n] # 0 => toDeliver'[n] < toDeliver'[m]
           /\ \A i \in 1..NBuf : frameOf[i] # 0 =>
                 \/ frameOf'[i] = frameOf[i]
                 \/ \E m \in DOMAIN toDeliver' : toDeliver'[m] = frameOf[i]
  <1> DEFINE i == Head(done)
  <1>1. i \in 1..NBuf
    <2>1. done # <<>>
      BY DEF streamCbRoutine
    <2>2. done \in Seq(1..NBuf)
      BY DEF StreamTypes
    <2>3. QED BY <2>1, <2>2, HeadTailProperties
  <1> HIDE DEF i
  <1> DEFINE held == mOutOfSequenceBuffers
             n == recovered(i)
             gone == {i} \cup {held[m] : m \in 1..n}
             order == <<i>> \o SubSeq(held, 1, n)
             registered == {j \in 1..NBuf : frameOf[j] # 0}
  <1>2. /\ toDeliver = <<>> /\ done # <<>> /\ done \in Seq(1..NBuf)
        /\ held \in Seq(1..NBuf) /\ Len(held) \in Nat
        /\ frameOf \in [1..NBuf -> Nat]
    BY DEF StreamTypes, streamCbRoutine
  <1>3. CASE /\ held' = Append(held, i) /\ UNCHANGED <<frameOf, toDeliver>>
             /\ \E I : cancelBuffer(I, Tail(done))
    <2>1. held' \in Seq(1..NBuf)
      BY <1>1, <1>2, <1>3
    <2>2. QED BY <1>2, <1>3, <2>1
  <1>4. CASE /\ \A j \in registered : frameOf[j] >= frameOf[i]
             /\ toDeliver' = [m \in DOMAIN order |->
                   IF \E l \in 1..(m - 1) : order[l] = order[m] THEN 0 ELSE frameOf[order[m]]]
             /\ frameOf' = [j \in 1..NBuf |-> IF j \in gone THEN 0 ELSE frameOf[j]]
             /\ held' = SubSeq(held, n + 1, Len(held))
             /\ \E I : cancelBuffer(I, Tail(done))
    <2>1. n \in 0..Len(held) /\ \A m \in 1..n : OldestLeft(i, m)
      BY <1>1, Recovered
    <2> HIDE DEF n
    <2>2. /\ order \in Seq(1..NBuf) /\ Len(order) = n + 1 /\ DOMAIN order = 1..(n + 1)
          /\ order[1] = i /\ \A m \in 1..n : order[m + 1] = held[m]
          /\ \A m \in 1..(n + 1) : order[m] \in 1..NBuf
      <3>1. /\ SubSeq(held, 1, n) \in Seq(1..NBuf) /\ Len(SubSeq(held, 1, n)) = n
            /\ \A m \in 1..n : SubSeq(held, 1, n)[m] = held[m]
        <4>1. held \in Seq(1..NBuf) /\ n \in 0..Len(held)
          BY <1>2, <2>1
        <4> HIDE DEF held
        <4>2. QED BY ONLY <4>1, Parts
      <3>2. <<i>> \in Seq(1..NBuf) /\ Len(<<i>>) = 1 /\ <<i>>[1] = i
        BY <1>1
      <3>3. /\ order \in Seq(1..NBuf) /\ Len(order) = n + 1
            /\ order[1] = i /\ \A m \in 1..n : order[m + 1] = held[m]
        BY <2>1, <3>1, <3>2
      <3>4. \A m \in 1..(n + 1) : order[m] \in 1..NBuf
        <4> HIDE DEF order
        <4>1. order \in Seq(1..NBuf) /\ Len(order) = n + 1
          BY <3>3
        <4>2. QED BY ONLY <4>1, ElementOfSeq
      <3>5. QED BY <3>3, <3>4
    <2> HIDE DEF order
    <2>3. held' \in Seq(1..NBuf)
      BY <1>2, <1>4, <2>1, Parts
    <2>4. frameOf' \in [1..NBuf -> Nat] /\ toDeliver' \in Seq(Nat)
      <3>1. \A m \in DOMAIN order : order[m] \in 1..NBuf /\ frameOf[order[m]] \in Nat
        BY <1>2, <2>2
      <3>2. toDeliver' \in [1..(n + 1) -> Nat]
        BY <1>4, <2>2, <3>1
      <3>3. toDeliver' \in Seq(Nat)
        BY <2>1, <3>2
      <3>4. QED BY <1>2, <1>4, <3>3
    <2> DEFINE Fresh(m) == \A l \in 1..(m - 1) : order[l] # order[m]
    <2>5. /\ DOMAIN toDeliver' = 1..(n + 1)
          /\ \A m \in 1..(n + 1) :
                toDeliver'[m] = IF Fresh(m) THEN frameOf[order[m]] ELSE 0
      BY <1>4, <2>2
    <2>6. ASSUME NEW m \in 1..(n + 1), NEW j \in registered, \A l \in 1..m : order[l] # j
          PROVE  frameOf[order[m]] <= frameOf[j]
      <3>1. CASE m = 1
        BY <1>2, <1>4, <2>2, <3>1
      <3>2. CASE m # 1
        <4>1. PICK p \in 1..n : m = p + 1
          BY <2>1, <3>2
        <4>2. \A l \in 1..(p - 1) : l + 1 \in 1..m /\ l \in 1..n
          BY <2>1, <4>1
        <4>3. 1 \in 1..m
          BY <2>1, <4>1
        <4>4. j # i /\ \A l \in 1..(p - 1) : j # held[l]
          BY <2>2, <2>6, <4>2, <4>3
        <4>5. frameOf[j] >= frameOf[held[p]]
          BY <2>1, <4>1, <4>4 DEF OldestLeft
        <4>6. held[p] \in 1..NBuf
          BY <1>2, <2>1, Parts
        <4>7. frameOf[j] \in Nat /\ frameOf[held[p]] \in Nat
          BY <1>2, <4>6
        <4>8. order[m] = held[p]
          BY <2>2, <4>1
        <4>9. QED BY <4>5, <4>7, <4>8
      <3>3. QED BY <3>1, <3>2
    <2>7. gone = {order[m] : m \in 1..(n + 1)}
      <3>1. \A m \in 1..(n + 1) : m = 1 \/ (m - 1 \in 1..n /\ m = (m - 1) + 1)
        BY <2>1
      <3>2. \A m \in 1..n : m + 1 \in 1..(n + 1)
        BY <2>1
      <3>3. 1 \in 1..(n + 1)
        BY <2>1
      <3>4. \A x \in gone : x = i \/ \E m \in 1..n : x = held[m]
        OBVIOUS
      <3>5. i \in gone /\ \A m \in 1..n : held[m] \in gone
        OBVIOUS
      <3> HIDE DEF gone, held
      <3>6. \A x \in gone : \E m \in 1..(n + 1) : x = order[m]
        BY <2>2, <3>2, <3>3, <3>4
      <3>7. \A m \in 1..(n + 1) : order[m] \in gone
        BY <2>2, <3>1, <3>5
      <3>8. QED BY <3>6, <3>7
    <2> HIDE DEF gone
    <2>8. ASSUME NEW m \in 1..(n + 1), toDeliver'[m] # 0
          PROVE  /\ \E h \in 1..NBuf : frameOf[h] = toDeliver'[m]
                 /\ \A j \in 1..NBuf : frameOf'[j] # 0 => toDeliver'[m] < frameOf'[j]
                 /\ \A l \in 1..(n + 1) :
                       l < m /\ toDeliver'[l] # 0 => toDeliver'[l] < toDeliver'[m]
      <3>1. /\ Fresh(m) /\ toDeliver'[m] = frameOf[order[m]]
            /\ order[m] \in 1..NBuf /\ order[m] \in registered
        BY <2>2, <2>5, <2>8
      <3>2. ASSUME NEW j \in 1..NBuf, frameOf'[j] # 0 PROVE toDeliver'[m] < frameOf'[j]
        <4>1. j \notin gone /\ frameOf'[j] = frameOf[j] /\ j \in registered
          BY <1>4, <3>2
        <4>2. \A l \in 1..m : l \in 1..(n + 1) /\ order[l] # j
          BY <2>1, <2>7, <4>1
        <4>3. frameOf[order[m]] <= frameOf[j]
          BY <2>6, <4>1, <4>2
        <4>4. order[m] # j /\ frameOf[order[m]] # frameOf[j]
          BY <2>7, <3>1, <4>1
        <4>5. frameOf[order[m]] \in Nat /\ frameOf[j] \in Nat
          BY <1>2, <3>1
        <4>6. QED BY <3>1, <4>1, <4>3, <4>4, <4>5
      <3>3. ASSUME NEW l \in 1..(n + 1), l < m, toDeliver'[l] # 0
            PROVE  toDeliver'[l] < toDeliver'[m]
        <4>1. toDeliver'[l] = frameOf[order[l]] /\ order[l] \in 1..NBuf
          BY <2>2, <2>5, <3>3
        <4>2. \A h \in 1..l : h \in 1..(m - 1)
          BY <2>1, <3>3
        <4>3. frameOf[order[l]] <= frameOf[order[m]]
          BY <2>6, <3>1, <4>2
        <4>4. order[l] # order[m]
          <5>1. l \in 1..(m - 1)
            BY <2>1, <3>3
          <5>2. QED BY <3>1, <5>1
        <4>5. frameOf[order[l]] # frameOf[order[m]]
          BY <3>1, <4>1, <4>4
        <4>6. frameOf[order[l]] \in Nat /\ frameOf[order[m]] \in Nat
          BY <1>2, <3>1, <4>1
        <4>7. QED BY <3>1, <4>1, <4>3, <4>5, <4>6
      <3>4. QED BY <3>1, <3>2, <3>3
    <2>9. ASSUME NEW h \in 1..NBuf, frameOf[h] # 0
          PROVE  \/ frameOf'[h] = frameOf[h]
                 \/ \E m \in 1..(n + 1) : toDeliver'[m] = frameOf[h]
      <3>1. CASE h \notin gone
        BY <1>4, <3>1
      <3>2. CASE h \in gone
        <4> DEFINE at == {m \in 1..(n + 1) : order[m] = h}
        <4>1. at \in SUBSET Nat /\ at # {}
          <5>1. \A m \in 1..(n + 1) : m \in Nat
            BY <2>1
          <5>2. QED BY <2>7, <3>2, <5>1
        <4>2. PICK m \in at : \A l \in at : m <= l
          <5> HIDE DEF at
          <5>1. QED BY <4>1, Least
        <4>3. \A l \in 1..(m - 1) : l \in 1..(n + 1) /\ ~(m <= l)
          BY <2>1, <4>2
        <4>4. Fresh(m)
          BY <4>2, <4>3
        <4>5. QED BY <2>5, <4>2, <4>4
      <3>3. QED BY <3>1, <3>2
    <2>10. \A j \in 1..NBuf : frameOf'[j] # 0 => frameOf'[j] = frameOf[j]
      BY <1>4
    <2>11. QED BY <1>2, <1>4, <2>3, <2>4, <2>5, <2>8, <2>9, <2>10
  <1>5. QED
    <2>1. \/ /\ held' = Append(held, i) /\ UNCHANGED <<frameOf, toDeliver>>
             /\ \E I : cancelBuffer(I, Tail(done))
          \/ /\ \A j \in registered : frameOf[j] >= frameOf[i]
             /\ toDeliver' = [m \in DOMAIN order |->
                   IF \E l \in 1..(m - 1) : order[l] = order[m] THEN 0 ELSE frameOf[order[m]]]
             /\ frameOf' = [j \in 1..NBuf |-> IF j \in gone THEN 0 ELSE frameOf[j]]
             /\ held' = SubSeq(held, n + 1, Len(held))
             /\ \E I : cancelBuffer(I, Tail(done))
      BY Zenon DEF streamCbRoutine, i
    <2>2. QED BY <1>3, <1>4, <2>1, Zenon

(* streamCbRoutine: what was expected and on its way stays so.              *)
LEMMA StreamCbKeeps ==
    ASSUME DataInv, StreamTypes, streamCbRoutine
    PROVE  DataInv' /\ InOrderStep
  <1>1. UNCHANGED <<listVars, kind, misled, jobs, mState, mFlush>>
    BY DEF streamCbRoutine, ghostVars, callVars
  <1>2. \A i, j \in 1..NBuf : frameOf[i] # 0 /\ i # j => frameOf[i] # frameOf[j]
    BY DEF DataInv, ComingInv
  <1>3. /\ toDeliver = <<>>
        /\ \A j \in 1..NBuf : frameOf'[j] # 0 => frameOf'[j] = frameOf[j]
        /\ \A m \in DOMAIN toDeliver' : toDeliver'[m] # 0 =>
              /\ \E i \in 1..NBuf : frameOf[i] = toDeliver'[m]
              /\ \A j \in 1..NBuf : frameOf'[j] # 0 => toDeliver'[m] < frameOf'[j]
              /\ \A n \in DOMAIN toDeliver' :
                    n < m /\ toDeliver'[n] # 0 => toDeliver'[n] < toDeliver'[m]
        /\ \A i \in 1..NBuf : frameOf[i] # 0 =>
              \/ frameOf'[i] = frameOf[i]
              \/ \E m \in DOMAIN toDeliver' : toDeliver'[m] = frameOf[i]
    BY <1>2, HandOver
  <1>4. ListKept({}) /\ LiveRequests' = LiveRequests
    BY <1>1, NothingIsKept DEF DataInv
  <1>5. ListTypes' /\ ListInv' /\ LentOnce'
    BY <1>4 DEF ListKept, DataInv
  <1>6. AnsweredOnce'
    BY <1>1, <1>4 DEF ListKept, DataInv, AnsweredOnce, AllAnswered
  <1>7. CountInv'
    <2>1. CASE mFlush
      BY <1>1, <2>1 DEF CountInv
    <2>2. CASE mPendingLiveRequest = Cardinality(LiveRequests)
      BY <1>1, <1>4, <2>2 DEF CountInv, listVars
    <2>3. QED BY <2>1, <2>2 DEF DataInv, CountInv
  <1>8. \A f, s : Expected(f, s)' <=> Expected(f, s)
    BY <1>1 DEF Expected, Booked, listVars
  <1>9. ComingInv'
    <2>1. /\ \A i \in 1..NBuf : frameOf[i] # 0 => Expected(frameOf[i], "regular")
          /\ \A j \in jobs :
                Expected(j[1], "blob") /\ \A l \in jobs : j[1] = l[1] => j = l
      BY DEF DataInv, ComingInv
    <2>2. ASSUME NEW i \in 1..NBuf, frameOf'[i] # 0
          PROVE  Expected(frameOf[i], "regular")'
      <3>1. PICK g : g = frameOf'[i]
        OBVIOUS
      <3>2. Expected(g, "regular")'
        BY <1>3, <1>8, <2>1, <2>2, <3>1
      <3>3. QED BY <3>1, <3>2
    <2>3. \A i, j \in 1..NBuf : frameOf'[i] # 0 /\ i # j => frameOf'[i] # frameOf'[j]
      BY <1>2, <1>3
    <2>4. ASSUME NEW m \in DOMAIN toDeliver', toDeliver'[m] # 0
          PROVE  Expected(toDeliver[m], "regular")'
      <3>1. PICK g : g = toDeliver'[m]
        OBVIOUS
      <3>2. Expected(g, "regular")'
        BY <1>3, <1>8, <2>1, <2>4, <3>1
      <3>3. QED BY <3>1, <3>2
    <2>5. \A j \in jobs' :
             Expected(j[1], "blob")' /\ \A l \in jobs' : j[1] = l[1] => j = l
      BY <1>1, <1>8, <2>1
    <2>6. QED BY <1>3, <2>2, <2>3, <2>4, <2>5 DEF ComingInv
  <1>10. \A f \in Booked : Coming(f)' <=> Coming(f)
    <2>1. \A f \in Booked : f # 0
      BY BookedFacts, PipelineConstants DEF DataInv, Frames
    <2>2. ASSUME NEW f \in Booked, Coming(f) PROVE Coming(f)'
      <3>1. PICK i \in 1..NBuf : frameOf[i] = f
        BY <1>3, <2>2 DEF Coming
      <3>2. QED BY <1>3, <2>1, <3>1 DEF Coming
    <2>3. ASSUME NEW f \in Booked, Coming(f)' PROVE Coming(f)
      BY <1>3, <2>1, <2>3 DEF Coming
    <2>4. QED BY <2>2, <2>3
  <1>11. OrderInv'
    <2>1. /\ Booked' = Booked /\ \A f \in Booked : Live(f)' <=> Live(f)
      BY <1>1 DEF Booked, Live
    <2>2. HandedInOrder' /\ (ComingInOrder => ComingInOrder') /\ (AllCome => AllCome')
      BY <1>8, <1>10, <2>1 DEF DataInv, OrderInv, HandedInOrder, ComingInOrder, AllCome
    <2>3. QED BY <1>1, <2>2 DEF DataInv, OrderInv, Down
  <1>12. InOrderStep
    BY <1>1, BookedFacts DEF DataInv, listVars, InOrderStep, ListTypes, Streams
  <1>13. QED BY <1>5, <1>6, <1>7, <1>9, <1>11, <1>12 DEF DataInv

-----------------------------------------------------------------------------
(* The rest of the invariant: the types of what moves between the threads,  *)
(* and what mState, mFlush and the threads that flush say of each other.    *)
ThreadInv == StreamTypes /\ SensorTypes /\ ControlTypes /\ FlushInv

PipelineInv == DataInv /\ ThreadInv

streamTypesVars == <<frameOf, kernel, done, mOutOfSequenceBuffers, toDeliver, jobs>>
sensorTypesVars == <<sent, unsent, metaQ, metaLoop, mPendingBatchMap, mBatchSize,
                     mToBeQueuedVidBufs, mFirstFrameNumberInBatch, lost>>

LEMMA TypesKept ==
    /\ StreamTypes /\ UNCHANGED streamTypesVars => StreamTypes'
    /\ SensorTypes /\ UNCHANGED sensorTypesVars => SensorTypes'
  <1>1. StreamTypes /\ UNCHANGED streamTypesVars => StreamTypes'
    BY DEF StreamTypes, streamTypesVars
  <1>2. SensorTypes /\ UNCHANGED sensorTypesVars => SensorTypes'
    BY DEF SensorTypes, sensorTypesVars
  <1>3. QED BY <1>1, <1>2

(* The threads that flush are not concerned by a result.                    *)
LEMMA FlushKept ==
    ASSUME FlushInv, UNCHANGED <<mFlush, pc, restart, toStop, kind>>,
           mState' = mState \/ mState' = "ERROR",
           StoppedStays
    PROVE  FlushInv'
  <1>1. Down => Down'
    BY DEF Down
  <1>2. mState' = "CONFIGURED" => mState = "CONFIGURED"
    OBVIOUS
  <1>3. QED BY <1>1, <1>2 DEF FlushInv, StoppedStays

(* processCaptureRequest: nothing is queued while a thread stops channels.  *)
LEMMA RequestThreads ==
    ASSUME DataInv, ThreadInv, NEW k \in AllKinds, processCaptureRequest(k)
    PROVE  ThreadInv'
  <1>1. PICK f : f = Len(kind) + 1
    OBVIOUS
  <1>2. f \in Frames
    BY <1>1, PipelineConstants DEF processCaptureRequest, DataInv, ListTypes, Frames
  <1>3. /\ pc["app"] = "idle" /\ mState \in {"CONFIGURED", "STARTED"} /\ ~Down
        /\ kind' = Append(kind, k)
        /\ UNCHANGED <<mFlush, restart, toStop, flushes, rareVars, lost, stale, misled,
                       metaQ, metaLoop, mOutOfSequenceBuffers, done, toDeliver>>
        /\ mWokenUpByDaemon' \in BOOLEAN
    BY DEF processCaptureRequest, Down, book, ThreadInv, ControlTypes
  <1>4. CASE mFlush
    <2>1. /\ unqueued /\ UNCHANGED <<mState, pc, signalled, jobs>>
      BY <1>1, <1>4 DEF processCaptureRequest
    <2>2. StreamTypes' /\ SensorTypes'
      BY <1>3, <2>1, TypesKept DEF ThreadInv, streamTypesVars, sensorTypesVars, unqueued,
         batchVars, rareVars
    <2>3. ControlTypes'
      BY <1>3, <2>1 DEF ThreadInv, ControlTypes, rareVars
    <2>4. FlushInv'
      <3>1. StoppedStays
        BY <1>3, <2>1 DEF StoppedStays, RegularStopped, BlobStopped, unqueued
      <3>2. mState # "CONFIGURED"
        BY <1>4 DEF ThreadInv, FlushInv
      <3>3. QED BY <1>3, <2>1, <3>1, <3>2 DEF ThreadInv, FlushInv, Down, StoppedStays
    <2>5. QED BY <2>2, <2>3, <2>4 DEF ThreadInv
  <1>5. CASE ~mFlush
    <2>1. /\ \/ queueRegular(f) /\ 0 \in {frameOf[i] : i \in 1..NBuf}
             \/ unqueued
          /\ jobs' = jobs \cup {<<f, IF k = "snapshot" THEN "needMeta" ELSE "ready">> :
                                s \in BuffersOf(k) \cap {"blob"}}
          /\ mState' = "STARTED" /\ signalled' = FALSE
          /\ \E p \in {"waiting", "idle"} : pc' = [pc EXCEPT !["app"] = p]
      BY <1>1, <1>5 DEF processCaptureRequest
    <2>2. jobs' \in SUBSET (Frames \X {"needMeta", "ready", "encode"})
      BY <1>2, <2>1 DEF ThreadInv, StreamTypes
    <2>3. StreamTypes' /\ SensorTypes'
      <3>1. CASE queueRegular(f) /\ 0 \in {frameOf[i] : i \in 1..NBuf}
        <4>1. /\ \E i \in 1..NBuf : frameOf' = [frameOf EXCEPT ![i] = f]
                                    /\ kernel' = kernel \cup {i}
              /\ sent' \in Seq(Frames) /\ unsent' \in Seq(Frames)
              /\ mPendingBatchMap' \in [Frames -> Nat]
              /\ mToBeQueuedVidBufs' \in Nat /\ mFirstFrameNumberInBatch' \in Nat
          BY <1>2, <3>1, QueueRegular DEF ThreadInv
        <4>2. f \in Nat
          BY <1>2, PipelineConstants DEF Frames
        <4>3. frameOf' \in [1..NBuf -> Nat] /\ kernel' \in SUBSET (1..NBuf)
          BY <4>1, <4>2 DEF ThreadInv, StreamTypes
        <4>4. StreamTypes'
          BY <1>3, <2>2, <4>3 DEF ThreadInv, StreamTypes
        <4>5. SensorTypes'
          BY <1>3, <4>1 DEF ThreadInv, SensorTypes, rareVars
        <4>6. QED BY <4>4, <4>5
      <3>2. CASE unqueued
        <4>1. StreamTypes'
          BY <1>3, <2>2, <3>2 DEF ThreadInv, StreamTypes, unqueued
        <4>2. SensorTypes'
          BY <1>3, <3>2, TypesKept DEF ThreadInv, sensorTypesVars, unqueued, batchVars, rareVars
        <4>3. QED BY <4>1, <4>2
      <3>3. QED BY <2>1, <3>1, <3>2
    <2>4. ControlTypes'
      BY <1>3, <2>1 DEF ThreadInv, ControlTypes, rareVars, States, Threads
    <2>5. FlushInv'
      <3>1. /\ pc'["app"] \notin Flushing /\ pc'["app"] \notin {"stop", "notify"}
            /\ pc'["flusher"] = pc["flusher"]
        BY <2>1 DEF ThreadInv, ControlTypes, Threads, Flushing
      <3>2. /\ pc["flusher"] \in Flushing => restart
            /\ pc["flusher"] = "deinit" => ~restart
            /\ pc["flusher"] \notin {"stop", "notify"}
        BY <1>3, <1>5 DEF ThreadInv, FlushInv, Threads
      <3>3. QED BY <1>3, <2>1, <3>1, <3>2 DEF FlushInv, Threads
    <2>6. QED BY <2>3, <2>4, <2>5 DEF ThreadInv
  <1>6. QED BY <1>4, <1>5

(* The calls and the wait of the request thread.                            *)
LEMMA CallThreads ==
    ASSUME DataInv, ThreadInv,
           wake \/ waitTimedOut \/ flushCall \/ \E t \in Threads : deviceErrorCall(t)
    PROVE  ThreadInv'
  <1>1. /\ UNCHANGED <<mState, mFlush, toStop, kind, died, stale, misled, events>>
        /\ UNCHANGED streamTypesVars /\ UNCHANGED sensorTypesVars
    BY DEF wake, waitTimedOut, flushCall, deviceErrorCall, streamTypesVars, sensorTypesVars,
           batchVars, rareVars, ghostVars, streamVars
  <1>2. StreamTypes' /\ SensorTypes' /\ StoppedStays
    BY <1>1, TypesKept DEF ThreadInv, streamTypesVars, sensorTypesVars, StoppedStays,
       RegularStopped, BlobStopped
  <1>3. CASE wake \/ waitTimedOut
    <2>1. /\ pc["app"] = "waiting" /\ UNCHANGED restart
          /\ \E p \in {"idle", "waiting", "gaveUp"} : pc' = [pc EXCEPT !["app"] = p]
          /\ signalled' \in BOOLEAN /\ mWokenUpByDaemon' \in BOOLEAN /\ flushes' \in Nat
      BY <1>3 DEF wake, waitTimedOut, ThreadInv, ControlTypes
    <2>2. ControlTypes'
      BY <1>1, <2>1 DEF ThreadInv, ControlTypes, Threads
    <2>3. FlushInv'
      BY <1>1, <1>2, <2>1 DEF ThreadInv, ControlTypes, FlushInv, Threads, Flushing, Down,
         StoppedStays
    <2>4. QED BY <1>2, <2>2, <2>3 DEF ThreadInv
  <1>4. CASE flushCall \/ \E t \in Threads : deviceErrorCall(t)
    <2>1. PICK t \in Threads :
             /\ pc[t] = "idle" /\ \E p \in {"recheck", "setFlush"} : pc' = [pc EXCEPT ![t] = p]
             /\ restart' \in BOOLEAN /\ flushes' \in Nat
             /\ \/ mState = "ERROR" /\ (t = "app" => restart' = restart)
                \/ t = "flusher" /\ restart' /\ mState = "STARTED"
             /\ UNCHANGED <<signalled, mWokenUpByDaemon>>
      <3>1. CASE flushCall
        BY <3>1 DEF flushCall, ThreadInv, ControlTypes, Threads
      <3>2. ASSUME NEW t \in Threads, deviceErrorCall(t)
            PROVE  /\ pc[t] = "idle" /\ pc' = [pc EXCEPT ![t] = "recheck"]
                   /\ restart' \in BOOLEAN /\ flushes' \in Nat
                   /\ mState = "ERROR" /\ (t = "app" => restart' = restart)
                   /\ UNCHANGED <<signalled, mWokenUpByDaemon>>
        <4>1. restart' \in BOOLEAN
          BY <3>2, Zenon DEF deviceErrorCall
        <4>2. t = "app" => restart' = restart
          <5>1. restart' = (restart /\ t # "flusher") /\ restart \in BOOLEAN
            BY <3>2 DEF deviceErrorCall, ThreadInv, ControlTypes
          <5>2. QED BY <5>1
        <4>3. QED BY <3>2, <4>1, <4>2 DEF deviceErrorCall, ThreadInv, ControlTypes
      <3>3. QED BY <1>4, <3>1, <3>2
    <2>2. ControlTypes'
      BY <1>1, <2>1 DEF ThreadInv, ControlTypes, Threads, Flushing
    <2>3. FlushInv'
      BY <1>1, <1>2, <2>1 DEF ThreadInv, ControlTypes, FlushInv, Threads, Flushing, Down,
         StoppedStays
    <2>4. QED BY <1>2, <2>2, <2>3 DEF ThreadInv
  <1>5. QED BY <1>3, <1>4

(* The steps of a flush: of a channel that a thread has stopped nothing     *)
(* comes until the end of the flush.                                        *)
LEMMA FlushThreads ==
    ASSUME DataInv, ThreadInv, misled' \in BOOLEAN, NEW t \in Threads, flushStep(t)
    PROVE  ThreadInv'
  <1>1. /\ mState # "CONFIGURED"
        /\ t = "app" => Down
        /\ t = "flusher" /\ ~restart => Down
    BY DEF flushStep, recheck, setFlush, stopChannel, stopMetadata, finishFlush,
       handleCameraDeviceError, ThreadInv, FlushInv, Flushing
  <1>2. \A u \in Threads : u # t => u = "app" \/ t = "app"
    BY DEF Threads
  <1>3. CASE recheck(t) \/ setFlush(t)
    <2>1. StreamTypes' /\ SensorTypes' /\ StoppedStays
      BY <1>3, TypesKept DEF recheck, setFlush, ThreadInv, streamTypesVars, sensorTypesVars,
         streamVars, batchVars, rareVars, ghostVars, StoppedStays, RegularStopped, BlobStopped
    <2>2. ControlTypes'
      BY <1>3 DEF recheck, setFlush, ThreadInv, ControlTypes, Threads, Flushing, rareVars,
         ghostVars
    <2>3. FlushInv'
      <3>1. CASE recheck(t)
        BY <1>1, <2>1, <3>1 DEF recheck, ThreadInv, ControlTypes, FlushInv, Threads, Flushing,
           Down, ghostVars, StoppedStays
      <3>2. CASE setFlush(t)
        BY <1>1, <2>1, <3>2 DEF setFlush, ThreadInv, ControlTypes, FlushInv, Threads, Flushing,
           Down, ghostVars, StoppedStays, Streams
      <3>3. QED BY <1>3, <3>1, <3>2
    <2>4. QED BY <2>1, <2>2, <2>3 DEF ThreadInv
  <1>4. CASE stopChannel(t) \/ stopMetadata(t)
    <2>1. /\ \/ /\ frameOf' = [i \in 1..NBuf |-> 0] /\ kernel' = {} /\ done' = <<>>
                /\ toDeliver = <<>> /\ unsent' = <<>> /\ UNCHANGED jobs
                /\ toStop' = [toStop EXCEPT ![t] = @ \ {"regular"}] /\ UNCHANGED pc
             \/ /\ jobs' = {} /\ UNCHANGED <<frameOf, kernel, done, unsent>>
                /\ toStop' = [toStop EXCEPT ![t] = @ \ {"blob"}] /\ UNCHANGED pc
             \/ /\ UNCHANGED <<frameOf, kernel, done, unsent, jobs, toStop>>
                /\ toStop[t] = {} /\ pc' = [pc EXCEPT ![t] = "notify"]
          /\ UNCHANGED <<sent, metaQ>> \/ (sent' = <<>> /\ metaQ' = <<>>)
          /\ UNCHANGED <<mOutOfSequenceBuffers, toDeliver, metaLoop, mPendingBatchMap,
                         mBatchSize, mToBeQueuedVidBufs, mFirstFrameNumberInBatch, lost>>
          /\ UNCHANGED <<mState, mFlush, restart, flushes, signalled, mWokenUpByDaemon, died,
                         events, kind, misled>>
          /\ stale' \in BOOLEAN /\ pc[t] = "stop"
      BY <1>4 DEF stopChannel, stopMetadata, rareVars, batchVars, ghostVars, streamVars,
         ThreadInv, ControlTypes
    <2>2. StreamTypes'
      <3>1. [i \in 1..NBuf |-> 0] \in [1..NBuf -> Nat]
        OBVIOUS
      <3>2. <<>> \in Seq(1..NBuf)
        OBVIOUS
      <3>3. QED BY <2>1, <3>1, <3>2 DEF ThreadInv, StreamTypes
    <2>3. SensorTypes'
      <3>1. /\ sent' = sent \/ sent' = <<>>
            /\ metaQ' = metaQ \/ metaQ' = <<>>
            /\ unsent' = unsent \/ unsent' = <<>>
        BY <2>1
      <3>2. <<>> \in Seq(Frames)
        OBVIOUS
      <3>3. /\ sent' \in Seq(Frames) /\ unsent' \in Seq(Frames) /\ metaQ' \in Seq(Frames)
        BY <3>1, <3>2, Zenon DEF ThreadInv, SensorTypes
      <3>4. UNCHANGED <<metaLoop, mPendingBatchMap, mBatchSize, mToBeQueuedVidBufs,
                        mFirstFrameNumberInBatch, lost>>
        BY <2>1
      <3>5. QED BY <3>3, <3>4 DEF ThreadInv, SensorTypes
    <2>4. ControlTypes'
      BY <2>1 DEF ThreadInv, ControlTypes, Threads, Flushing
    <2>5. StoppedStays
      BY <2>1 DEF StoppedStays, RegularStopped, BlobStopped
    <2>6. /\ "regular" \notin toStop'[t] => RegularStopped'
          /\ "blob" \notin toStop'[t] => BlobStopped'
      <3>1. /\ "regular" \notin toStop[t] => RegularStopped
            /\ "blob" \notin toStop[t] => BlobStopped
        BY <2>1 DEF ThreadInv, FlushInv
      <3>2. QED
        BY <2>1, <2>5, <3>1 DEF StoppedStays, RegularStopped, BlobStopped, ThreadInv,
           ControlTypes
    <2>7. FlushInv'
      <3>1. ASSUME NEW u \in Threads, pc'[u] \in {"stop", "notify"}
            PROVE  /\ mFlush' \/ Down'
                   /\ "regular" \notin toStop'[u] => RegularStopped'
                   /\ "blob" \notin toStop'[u] => BlobStopped'
                   /\ pc'[u] = "notify" => toStop'[u] = {}
        <4>1. CASE u = t
          BY <2>1, <2>6, <4>1 DEF ThreadInv, ControlTypes, FlushInv, Down
        <4>2. CASE u # t
          <5>1. pc'[u] = pc[u] /\ toStop'[u] = toStop[u]
            BY <2>1, <4>2 DEF ThreadInv, ControlTypes
          <5>2. QED BY <2>1, <2>5, <3>1, <5>1 DEF ThreadInv, FlushInv, Down, StoppedStays
        <4>3. QED BY <4>1, <4>2
      <3>2. /\ pc'["app"] \in Flushing => Down'
            /\ pc'["flusher"] \in Flushing /\ ~restart' => Down'
            /\ pc'["flusher"] = "deinit" => ~restart'
        BY <1>1, <2>1 DEF ThreadInv, ControlTypes, FlushInv, Threads, Flushing, Down
      <3>3. mState' # "CONFIGURED"
        BY <1>1, <2>1
      <3>4. QED BY <3>1, <3>2, <3>3 DEF FlushInv
    <2>8. QED BY <2>2, <2>3, <2>4, <2>7 DEF ThreadInv
  <1>5. CASE finishFlush(t)
    <2>1. StreamTypes' /\ SensorTypes' /\ StoppedStays
      BY <1>5, TypesKept DEF finishFlush, ThreadInv, streamTypesVars, sensorTypesVars,
         streamVars, batchVars, rareVars, StoppedStays, RegularStopped, BlobStopped
    <2>2. ControlTypes'
      BY <1>5 DEF finishFlush, ThreadInv, ControlTypes, Threads, Flushing, rareVars,
         unblockCaptureRequest, Signal
    <2>3. FlushInv'
      <3>1. /\ UNCHANGED <<mState, restart, toStop, kind>> /\ mFlush' = FALSE
            /\ pc' = [pc EXCEPT ![t] = IF t = "flusher" /\ restart THEN "idle" ELSE "deinit"]
        BY <1>5 DEF finishFlush
      <3>2. \A u \in Threads : u # t => pc'[u] = pc[u]
        BY <3>1 DEF ThreadInv, ControlTypes
      <3>3. pc'[t] = IF t = "flusher" /\ restart THEN "idle" ELSE "deinit"
        BY <3>1 DEF ThreadInv, ControlTypes
      <3>4. ~Down => t = "flusher" /\ restart /\ pc["app"] \notin Flushing
        BY <1>1 DEF ThreadInv, FlushInv, Threads
      <3>5. Down' = Down
        BY <3>1 DEF Down
      <3>6. \A u \in Threads : pc'[u] \in {"stop", "notify"} => Down
        BY <3>2, <3>3, <3>4 DEF Threads, Flushing
      <3>7. /\ pc'["app"] \in Flushing => Down'
            /\ pc'["flusher"] \in Flushing /\ ~restart' => Down'
        BY <3>1, <3>2, <3>3, <3>4, <3>5 DEF Threads, Flushing
      <3>8. pc'["flusher"] = "deinit" => ~restart'
        BY <3>1, <3>2, <3>3 DEF ThreadInv, FlushInv, Threads
      <3>9. \A u \in Threads :
               /\ pc'[u] \in {"stop", "notify"} =>
                     /\ "regular" \notin toStop'[u] => RegularStopped'
                     /\ "blob" \notin toStop'[u] => BlobStopped'
               /\ pc'[u] = "notify" => toStop'[u] = {}
        BY <2>1, <3>1, <3>2, <3>3 DEF ThreadInv, FlushInv, Threads, StoppedStays
      <3>10. QED BY <1>1, <3>1, <3>5, <3>6, <3>7, <3>8, <3>9 DEF FlushInv
    <2>4. QED BY <2>1, <2>2, <2>3 DEF ThreadInv
  <1>6. CASE handleCameraDeviceError(t)
    <2>1. StreamTypes' /\ SensorTypes' /\ StoppedStays
      BY <1>6, TypesKept DEF handleCameraDeviceError, ThreadInv, streamTypesVars,
         sensorTypesVars, streamVars, batchVars, rareVars, ghostVars, StoppedStays,
         RegularStopped, BlobStopped
    <2>2. ControlTypes'
      BY <1>6 DEF handleCameraDeviceError, ThreadInv, ControlTypes, Threads, Flushing, rareVars,
         ghostVars, States
    <2>3. FlushInv'
      BY <1>6, <2>1 DEF handleCameraDeviceError, ThreadInv, ControlTypes, FlushInv, Threads,
         Flushing, Down, ghostVars, StoppedStays
    <2>4. QED BY <2>1, <2>2, <2>3 DEF ThreadInv
  <1>7. QED BY <1>3, <1>4, <1>5, <1>6 DEF flushStep

(* What one thread of the streams does to the state that it shares.         *)
LEMMA ResultThreads ==
    ASSUME ThreadInv, StreamTypes', SensorTypes', StoppedStays,
           UNCHANGED <<mFlush, pc, restart, toStop, flushes, kind, mWokenUpByDaemon, died,
                       stale, misled, events>>,
           mState' = mState \/ mState' = "ERROR", signalled' \in BOOLEAN
    PROVE  ThreadInv'
  <1>1. FlushInv'
    BY FlushKept DEF ThreadInv
  <1>2. ControlTypes'
    BY DEF ThreadInv, ControlTypes, States
  <1>3. QED BY <1>1, <1>2 DEF ThreadInv

LEMMA MetadataThreads ==
    ASSUME DataInv, ThreadInv, Metadata
    PROVE  ThreadInv'
  <1>1. /\ UNCHANGED <<callVars, mWokenUpByDaemon, batchVars, rareVars, ghostVars, sent,
                       frameOf, mOutOfSequenceBuffers, toDeliver>>
    BY DEF Metadata
  <1>2. CASE metadataStep
    <2>1. PICK m : handleMetadataWithLock(m)
      BY <1>2 DEF metadataStep
    <2>2. /\ mState' = mState \/ mState' = "ERROR"
          /\ signalled' \in BOOLEAN
      BY <2>1 DEF handleMetadataWithLock, Signal, ThreadInv, ControlTypes
    <2>3. /\ kernel' \in SUBSET (1..NBuf) /\ done' \in Seq(1..NBuf)
          /\ kernel' \subseteq kernel /\ (kernel = {} /\ done = <<>> => done' = <<>>)
      <3>1. kernel \in SUBSET (1..NBuf) /\ done \in Seq(1..NBuf)
        BY DEF ThreadInv, StreamTypes
      <3>2. UNCHANGED <<kernel, done>> \/ \E I : cancelBuffer(I, done)
        BY <2>1 DEF handleMetadataWithLock
      <3>3. QED
        BY <3>1, <3>2, CancelFacts DEF ThreadInv
    <2>4. jobs' \in SUBSET (Frames \X {"needMeta", "ready", "encode"})
      <3>1. jobs \in SUBSET (Frames \X {"needMeta", "ready", "encode"})
        BY DEF ThreadInv, StreamTypes
      <3>2. \/ jobs' = jobs
            \/ jobs' = {IF j[1] \in FramesUpTo(m) THEN <<j[1], "ready">> ELSE j : j \in jobs}
        BY <2>1, Zenon DEF handleMetadataWithLock, FramesUpTo, UpTo
      <3>3. QED BY <3>1, <3>2
    <2>5. StreamTypes'
      BY <1>1, <2>3, <2>4 DEF ThreadInv, StreamTypes
    <2>6. SensorTypes'
      <3>1. metaQ \in Seq(Frames) /\ metaLoop \in Seq(Int)
        BY DEF ThreadInv, SensorTypes
      <3>2. metaQ' \in Seq(Frames) /\ metaLoop' \in Seq(Int)
        BY <1>2, <3>1, HeadTailProperties DEF metadataStep
      <3>3. UNCHANGED mPendingBatchMap
        BY <1>2 DEF metadataStep
      <3>4. QED
        BY <1>1, <3>2, <3>3 DEF ThreadInv, SensorTypes, batchVars, rareVars, ghostVars
    <2>7. StoppedStays
      <3>1. jobs = {} => jobs' = {}
        BY <2>1 DEF handleMetadataWithLock
      <3>2. QED BY <1>1, <2>3, <3>1 DEF StoppedStays, RegularStopped, BlobStopped
    <2>8. QED BY <1>1, <2>2, <2>5, <2>6, <2>7, ResultThreads DEF callVars, rareVars, ghostVars
  <1>3. CASE handleBatchMetadata
    <2> DEFINE last == Head(metaQ)
               first == mPendingBatchMap[last]
               size == last - first + 1
    <2>1. /\ metaQ # <<>> /\ metaQ' = Tail(metaQ)
          /\ metaLoop' = [n \in 1..size |-> first + n - 1]
          /\ mPendingBatchMap' = [mPendingBatchMap EXCEPT ![last] = 0]
          /\ UNCHANGED <<mState, listVars, signalled, kernel, done, jobs>>
      BY <1>3 DEF handleBatchMetadata
    <2>2. last \in Frames /\ last \in Int /\ first \in Nat /\ metaQ' \in Seq(Frames)
      <3>1. metaQ \in Seq(Frames) /\ mPendingBatchMap \in [Frames -> Nat]
        BY DEF ThreadInv, SensorTypes
      <3>2. Frames \subseteq Int
        BY PipelineConstants DEF Frames
      <3>3. Head(metaQ) \in Frames /\ Tail(metaQ) \in Seq(Frames)
        BY <2>1, <3>1
      <3>4. QED BY <2>1, <3>1, <3>2, <3>3
    <2>3. metaLoop' \in Seq(Int)
      <3> HIDE DEF last, first
      <3>1. size \in Int /\ \A n \in 1..size : first + n - 1 \in Int
        BY <2>2
      <3>2. metaLoop' \in [1..size -> Int]
        BY <2>1, <3>1
      <3>3. \E n \in Nat : 1..size = 1..n
        <4>1. CASE size \in Nat
          BY <4>1
        <4>2. CASE size \notin Nat
          BY <3>1, <4>2
        <4>3. QED BY <4>1, <4>2
      <3> HIDE DEF size
      <3>4. PICK n \in Nat : metaLoop' \in [1..n -> Int]
        BY <3>2, <3>3
      <3>5. QED BY <3>4, SeqOfFunction
    <2>4. SensorTypes'
      BY <1>1, <2>1, <2>2, <2>3 DEF ThreadInv, SensorTypes, batchVars, rareVars, ghostVars
    <2>5. StreamTypes'
      BY <1>1, <2>1, TypesKept DEF ThreadInv, streamTypesVars
    <2>6. signalled' \in BOOLEAN /\ StoppedStays
      BY <1>1, <2>1 DEF ThreadInv, ControlTypes, StoppedStays, RegularStopped, BlobStopped
    <2>7. QED BY <1>1, <2>1, <2>4, <2>5, <2>6, ResultThreads DEF callVars, rareVars, ghostVars
  <1>4. QED BY <1>2, <1>3 DEF Metadata

LEMMA StreamCbThreads ==
    ASSUME DataInv, ThreadInv, streamCbRoutine
    PROVE  ThreadInv'
  <1>1. /\ UNCHANGED <<mState, listVars, mWokenUpByDaemon, signalled, batchVars, mPendingBatchMap,
                       callVars, rareVars, ghostVars, sent, metaQ, metaLoop, jobs>>
        /\ done # <<>>
    BY DEF streamCbRoutine
  <1>2. StreamTypes /\ \A i, j \in 1..NBuf : frameOf[i] # 0 /\ i # j => frameOf[i] # frameOf[j]
    BY DEF ThreadInv, DataInv, ComingInv
  <1>3. /\ done \in Seq(1..NBuf) /\ done # <<>>
        /\ frameOf' \in [1..NBuf -> Nat] /\ toDeliver' \in Seq(Nat)
        /\ mOutOfSequenceBuffers' \in Seq(1..NBuf)
        /\ \E I : cancelBuffer(I, Tail(done))
    BY <1>2, HandOver
  <1>4. kernel' \in SUBSET (1..NBuf) /\ done' \in Seq(1..NBuf)
    <2>1. kernel \in SUBSET (1..NBuf)
      BY <1>2 DEF StreamTypes
    <2>2. Tail(done) \in Seq(1..NBuf)
      BY <1>3, HeadTailProperties
    <2>3. QED BY <1>2, <1>3, <2>1, <2>2, CancelFacts
  <1>5. StreamTypes'
    BY <1>1, <1>2, <1>3, <1>4 DEF StreamTypes
  <1>6. SensorTypes'
    BY <1>1, TypesKept DEF ThreadInv, sensorTypesVars, batchVars, rareVars, ghostVars
  <1>7. signalled' \in BOOLEAN /\ StoppedStays
    BY <1>1 DEF ThreadInv, ControlTypes, StoppedStays, RegularStopped, BlobStopped
  <1>8. QED BY <1>1, <1>5, <1>6, <1>7, ResultThreads DEF callVars, rareVars, ghostVars

LEMMA DeliverThreads ==
    ASSUME DataInv, ThreadInv, deliver
    PROVE  ThreadInv'
  <1>1. /\ UNCHANGED <<mState, mWokenUpByDaemon, signalled, batchVars, mPendingBatchMap,
                       callVars, rareVars, ghostVars, sent, metaQ, metaLoop, streamVars, done,
                       jobs>>
        /\ toDeliver # <<>> /\ toDeliver' = Tail(toDeliver)
    BY DEF deliver
  <1>2. toDeliver' \in Seq(Nat)
    BY <1>1, HeadTailProperties DEF ThreadInv, StreamTypes
  <1>3. StreamTypes'
    BY <1>1, <1>2 DEF ThreadInv, StreamTypes, streamVars
  <1>4. SensorTypes'
    BY <1>1, TypesKept DEF ThreadInv, sensorTypesVars, batchVars, rareVars, ghostVars
  <1>5. signalled' \in BOOLEAN /\ StoppedStays
    BY <1>1 DEF ThreadInv, ControlTypes, StoppedStays, RegularStopped, BlobStopped
  <1>6. QED BY <1>1, <1>3, <1>4, <1>5, ResultThreads DEF callVars, rareVars, ghostVars

LEMMA JobThreads ==
    ASSUME DataInv, ThreadInv, NEW f \in Frames, jobStep(f)
    PROVE  ThreadInv'
  <1>1. /\ UNCHANGED <<mState, mWokenUpByDaemon, signalled, batchVars, mPendingBatchMap,
                       callVars, rareVars, ghostVars, sent, metaQ, metaLoop, streamVars, done,
                       toDeliver>>
        /\ \/ jobs' = (jobs \ {<<f, "ready">>}) \cup {<<f, "encode">>}
           \/ jobs' = jobs \ {<<f, "encode">>}
        /\ jobs # {}
    BY DEF jobStep
  <1>2. StreamTypes'
    BY <1>1 DEF ThreadInv, StreamTypes, streamVars
  <1>3. SensorTypes'
    BY <1>1, TypesKept DEF ThreadInv, sensorTypesVars, batchVars, rareVars, ghostVars
  <1>4. signalled' \in BOOLEAN /\ StoppedStays
    BY <1>1 DEF ThreadInv, ControlTypes, StoppedStays, RegularStopped, BlobStopped, streamVars
  <1>5. QED BY <1>1, <1>2, <1>3, <1>4, ResultThreads DEF callVars, rareVars, ghostVars

LEMMA CaptureThreads ==
    ASSUME DataInv, ThreadInv, capture
    PROVE  ThreadInv'
  <1> DEFINE f == Head(sent)
             first == IF mBatchSize = 0 THEN f ELSE mPendingBatchMap[f]
             buffer == {i \in kernel : frameOf[i] = f}
  <1>1. /\ UNCHANGED <<mState, listVars, mWokenUpByDaemon, signalled, batchVars,
                       mPendingBatchMap, callVars, rareVars, kind, stale, misled, metaLoop,
                       frameOf, mOutOfSequenceBuffers, toDeliver, jobs>>
        /\ sent # <<>> /\ sent' = Tail(sent)
    BY DEF capture
  <1>2. f \in Frames /\ f \in Nat /\ first \in Nat /\ sent' \in Seq(Frames)
    <2>1. sent \in Seq(Frames) /\ mPendingBatchMap \in [Frames -> Nat]
      BY DEF ThreadInv, SensorTypes
    <2>2. f \in Frames /\ Tail(sent) \in Seq(Frames)
      BY <1>1, <2>1, HeadTailProperties
    <2>3. f \in Nat
      BY <2>2, PipelineConstants DEF Frames
    <2>4. QED BY <1>1, <2>1, <2>2, <2>3
  <1>3. PICK noMeta \in BOOLEAN, noBuf \in BOOLEAN :
           /\ metaQ' = IF first # 0 /\ ~noMeta THEN Append(metaQ, f) ELSE metaQ
           /\ cancelBuffer(IF noBuf THEN {} ELSE buffer, done)
           /\ lost' = lost \cup (IF noMeta THEN {"meta"} \X (first..f) ELSE {})
                           \cup (IF noBuf THEN {<<"buf", f>>} ELSE {})
    BY DEF capture
  <1> HIDE DEF f, first, buffer
  <1>4. metaQ' \in Seq(Frames)
    BY <1>2, <1>3 DEF ThreadInv, SensorTypes
  <1>5. lost' \in SUBSET ({"meta", "buf"} \X Int)
    <2>1. {"meta"} \X (first..f) \subseteq {"meta", "buf"} \X Int
      BY <1>2
    <2>2. {<<"buf", f>>} \subseteq {"meta", "buf"} \X Int
      BY <1>2
    <2>3. lost \subseteq {"meta", "buf"} \X Int
      BY DEF ThreadInv, SensorTypes
    <2>4. \A x \in lost' :
             x \in lost \/ x \in {"meta"} \X (first..f) \/ x \in {<<"buf", f>>}
      BY <1>3
    <2>5. lost' \subseteq {"meta", "buf"} \X Int
      BY <2>1, <2>2, <2>3, <2>4, Zenon
    <2>6. QED BY <2>5, Zenon
  <1>6. /\ kernel' \in SUBSET (1..NBuf) /\ done' \in Seq(1..NBuf)
        /\ kernel' \subseteq kernel /\ (kernel = {} /\ done = <<>> => done' = <<>>)
    <2>1. StreamTypes /\ done \in Seq(1..NBuf) /\ kernel \in SUBSET (1..NBuf)
      BY DEF ThreadInv, StreamTypes
    <2>2. PICK I : cancelBuffer(I, done)
      BY <1>3
    <2>3. QED BY <2>1, <2>2, CancelFacts
  <1>7. StreamTypes'
    BY <1>1, <1>6 DEF ThreadInv, StreamTypes
  <1>8. SensorTypes'
    BY <1>1, <1>2, <1>4, <1>5 DEF ThreadInv, SensorTypes, batchVars, rareVars
  <1>9. signalled' \in BOOLEAN /\ StoppedStays
    BY <1>1, <1>6 DEF ThreadInv, ControlTypes, StoppedStays, RegularStopped, BlobStopped
  <1>10. QED BY <1>1, <1>7, <1>8, <1>9, ResultThreads DEF callVars, rareVars

LEMMA DaemonThreads ==
    ASSUME DataInv, ThreadInv, daemonDied \/ daemonPullReq
    PROVE  ThreadInv'
  <1>1. /\ UNCHANGED <<mFlush, pc, restart, toStop, flushes, kind, stale, misled>>
        /\ UNCHANGED streamTypesVars /\ UNCHANGED sensorTypesVars
        /\ mState' = mState \/ mState' = "ERROR"
        /\ signalled' \in BOOLEAN /\ mWokenUpByDaemon' \in BOOLEAN /\ died' \in BOOLEAN
        /\ events' \in Nat
    <2>1. /\ events \in Nat /\ {signalled, mWokenUpByDaemon, died} \subseteq BOOLEAN
      BY DEF ThreadInv, ControlTypes
    <2>2. CASE daemonDied
      BY <2>1, <2>2 DEF daemonDied, callVars, streamTypesVars, sensorTypesVars, batchVars,
         ghostVars, streamVars
    <2>3. CASE daemonPullReq
      <3>1. signalled' \in BOOLEAN
        BY <2>3, Zenon DEF daemonPullReq, Signal
      <3>2. QED
        BY <2>1, <2>3, <3>1 DEF daemonPullReq, callVars, streamTypesVars, sensorTypesVars,
           batchVars, ghostVars, streamVars
    <2>4. QED BY <2>2, <2>3
  <1>2. StreamTypes' /\ SensorTypes' /\ StoppedStays
    BY <1>1, TypesKept DEF ThreadInv, streamTypesVars, sensorTypesVars, StoppedStays,
       RegularStopped, BlobStopped
  <1>3. FlushInv'
    BY <1>1, <1>2, FlushKept DEF ThreadInv
  <1>4. ControlTypes'
    BY <1>1 DEF ThreadInv, ControlTypes, States
  <1>5. QED BY <1>2, <1>3, <1>4 DEF ThreadInv

-----------------------------------------------------------------------------
LEMMA InitPipeline == Init => PipelineInv
  <1> SUFFICES ASSUME Init PROVE PipelineInv
    OBVIOUS
  <1>1. kind = <<>> /\ Booked = {} /\ Len(kind) = 0 /\ mPendingRequestsList = {}
    BY DEF Init, Booked
  <1>2. ListTypes
    BY <1>1, FS_EmptySet, PipelineConstants DEF Init, ListTypes
  <1>3. ListInv
    BY <1>1 DEF Init, ListInv
  <1>4. LentOnce /\ AnsweredOnce
    BY <1>1 DEF LentOnce, AnsweredOnce
  <1>5. CountInv
    BY <1>1, FS_EmptySet DEF Init, CountInv, LiveRequests
  <1>6. ComingInv /\ OrderInv
    BY <1>1 DEF Init, ComingInv, OrderInv, HandedInOrder, ComingInOrder, AllCome
  <1>7. StreamTypes
    BY DEF Init, StreamTypes
  <1>8. SensorTypes
    BY PipelineConstants DEF Init, SensorTypes
  <1>9. ControlTypes /\ FlushInv
    BY DEF Init, ControlTypes, FlushInv, States, Threads, Flushing, Down
  <1>10. QED
    BY <1>2, <1>3, <1>4, <1>5, <1>6, <1>7, <1>8, <1>9 DEF PipelineInv, DataInv, ThreadInv

(* Every step keeps the invariant and the order of the results.             *)
LEMMA NextKeeps ==
    ASSUME PipelineInv, Next
    PROVE  PipelineInv' /\ InOrderStep
  <1> USE DEF PipelineInv
  <1>1. DataInv /\ ThreadInv /\ StreamTypes /\ SensorTypes /\ FlushInv /\ misled \in BOOLEAN
    BY DEF ThreadInv, ControlTypes
  <1>2. ASSUME NEW k \in AllKinds, processCaptureRequest(k)
        PROVE  PipelineInv' /\ InOrderStep
    BY <1>1, <1>2, RequestKeeps, RequestThreads
  <1>3. CASE wake \/ waitTimedOut \/ flushCall \/ \E t \in Threads : deviceErrorCall(t)
    <2>1. /\ UNCHANGED <<listVars, kind, misled, frameOf, toDeliver, jobs>>
          /\ UNCHANGED <<mState, mFlush>>
      BY <1>3 DEF wake, waitTimedOut, flushCall, deviceErrorCall, ghostVars, streamVars
    <2>2. DataInv' /\ InOrderStep
      BY <1>1, <2>1, Quiet DEF Down
    <2>3. QED BY <1>1, <1>3, <2>2, CallThreads
  <1>4. ASSUME NEW t \in Threads, recheck(t) \/ setFlush(t) \/ stopMetadata(t)
        PROVE  PipelineInv' /\ InOrderStep
    <2>1. /\ UNCHANGED <<listVars, kind, misled, frameOf, toDeliver, jobs, mState>>
          /\ mFlush => mFlush'
      BY <1>4 DEF recheck, setFlush, stopMetadata, ghostVars, streamVars
    <2>2. DataInv' /\ InOrderStep
      BY <1>1, <2>1, Quiet DEF Down
    <2>3. QED BY <1>1, <1>4, <2>1, <2>2, FlushThreads DEF flushStep
  <1>5. ASSUME NEW t \in Threads, stopChannel(t) PROVE PipelineInv' /\ InOrderStep
    <2>1. DataInv' /\ InOrderStep
      BY <1>1, <1>5, StopKeeps
    <2>2. misled' \in BOOLEAN
      BY <1>1, <1>5 DEF stopChannel
    <2>3. QED BY <1>1, <1>5, <2>1, <2>2, FlushThreads DEF flushStep
  <1>6. ASSUME NEW t \in Threads, finishFlush(t) PROVE PipelineInv' /\ InOrderStep
    <2>1. DataInv' /\ InOrderStep /\ misled' \in BOOLEAN
      BY <1>1, <1>6, FinishKeeps
    <2>2. QED BY <1>1, <1>6, <2>1, FlushThreads DEF flushStep
  <1>7. ASSUME NEW t \in Threads, handleCameraDeviceError(t)
        PROVE  PipelineInv' /\ InOrderStep
    <2>1. UNCHANGED <<listVars, kind, misled, frameOf, toDeliver, jobs, mFlush>> /\ Down'
      BY <1>7 DEF handleCameraDeviceError, ghostVars, streamVars, Down
    <2>2. DataInv' /\ InOrderStep
      BY <1>1, <2>1, Quiet
    <2>3. QED BY <1>1, <1>7, <2>1, <2>2, FlushThreads DEF flushStep
  <1>8. CASE capture
    <2>1. UNCHANGED <<listVars, kind, misled, frameOf, toDeliver, jobs, mState, mFlush>>
      BY <1>8 DEF capture, callVars
    <2>2. DataInv' /\ InOrderStep
      BY <1>1, <2>1, Quiet DEF Down
    <2>3. QED BY <1>1, <1>8, <2>2, CaptureThreads
  <1>9. CASE daemonDied \/ daemonPullReq
    <2>1. /\ UNCHANGED <<listVars, kind, misled, frameOf, toDeliver, jobs, mFlush>>
          /\ mState' = mState \/ mState' = "ERROR"
      BY <1>9 DEF daemonDied, daemonPullReq, callVars, ghostVars, streamVars
    <2>2. DataInv' /\ InOrderStep
      BY <1>1, <2>1, Quiet DEF Down
    <2>3. QED BY <1>1, <1>9, <2>2, DaemonThreads
  <1>10. CASE Metadata
    BY <1>1, <1>10, MetadataKeeps, MetadataThreads
  <1>11. CASE streamCbRoutine
    BY <1>1, <1>11, StreamCbKeeps, StreamCbThreads
  <1>12. CASE deliver
    BY <1>1, <1>12, DeliverKeeps, DeliverThreads
  <1>13. ASSUME NEW f \in Frames, jobStep(f) PROVE PipelineInv' /\ InOrderStep
    BY <1>1, <1>13, JobKeeps, JobThreads
  <1>14. QED
    BY <1>2, <1>3, <1>4, <1>5, <1>6, <1>7, <1>8, <1>9, <1>10, <1>11, <1>12, <1>13
    DEF Next, flushStep, AllKinds

LEMMA StutterKeeps ==
    ASSUME PipelineInv, UNCHANGED vars
    PROVE  PipelineInv'
  <1>1. /\ UNCHANGED <<listVars, kind, misled, frameOf, toDeliver, jobs, mState, mFlush>>
        /\ UNCHANGED streamTypesVars /\ UNCHANGED sensorTypesVars
        /\ UNCHANGED <<pc, restart, toStop, flushes, signalled, mWokenUpByDaemon, died, stale,
                       events>>
    BY DEF vars, callVars, rareVars, ghostVars, batchVars, streamVars, streamTypesVars,
       sensorTypesVars
  <1>2. DataInv'
    BY <1>1, Quiet DEF PipelineInv, Down
  <1>3. StreamTypes' /\ SensorTypes' /\ StoppedStays
    BY <1>1, TypesKept
    DEF PipelineInv, ThreadInv, streamTypesVars, sensorTypesVars, StoppedStays, RegularStopped,
        BlobStopped
  <1>4. FlushInv'
    BY <1>1, <1>3, FlushKept DEF PipelineInv, ThreadInv
  <1>5. ControlTypes'
    BY <1>1 DEF PipelineInv, ThreadInv, ControlTypes
  <1>6. QED BY <1>2, <1>3, <1>4, <1>5 DEF PipelineInv, ThreadInv

LEMMA PipelineInvHolds == Spec => []PipelineInv
  <1>1. PipelineInv /\ [Next]_vars => PipelineInv'
    BY NextKeeps, StutterKeeps
  <1>2. QED BY <1>1, InitPipeline, PTL DEF Spec

-----------------------------------------------------------------------------
(* Every variable keeps its type.                                           *)
THEOREM TypeCorrect == Spec => []TypeOK
  <1>1. PipelineInv => TypeOK
    BY DEF PipelineInv, DataInv, ThreadInv, TypeOK
  <1>2. QED BY <1>1, PipelineInvHolds, PTL

(* mPendingBuffersMap is what the framework still waits for: every buffer   *)
(* it lent goes back exactly once, in whichever order metadata, buffers,    *)
(* JPEG jobs, flushes and errors come.                                      *)
THEOREM BuffersGoBackOnce == Spec => []LentOnce
  <1>1. PipelineInv => LentOnce
    BY DEF PipelineInv, DataInv
  <1>2. QED BY <1>1, PipelineInvHolds, PTL

(* A request is pending until it has its one answer, unless an error        *)
(* notification has met a newer frame that was answered already.            *)
THEOREM RequestsAnsweredOnce == Spec => []AnsweredOnce
  <1>1. PipelineInv => AnsweredOnce
    BY DEF PipelineInv, DataInv
  <1>2. QED BY <1>1, PipelineInvHolds, PTL

(* mPendingLiveRequest counts the live requests of the list, but during a   *)
(* flush.                                                                   *)
THEOREM CountIsPending == Spec => []InFlightCounted
  <1>1. PipelineInv => InFlightCounted
    BY DEF PipelineInv, DataInv, CountInv, InFlightCounted, LiveRequests
  <1>2. QED BY <1>1, PipelineInvHolds, PTL

(* No step shows the framework a newer live frame before an older one,      *)
(* neither its answer nor its regular buffer.                               *)
THEOREM ResultsInOrder == Spec => InOrder
  <1>1. PipelineInv /\ [Next]_vars => [InOrderStep]_vars
    BY NextKeeps
  <1>2. [InOrderStep]_vars =>
           [\A f, g \in Booked :
              f < g /\ Live(f) /\ Live(g) =>
                 /\ answers'[g] > answers[g] => misled' \/ answers'[f] > 0
                 /\ returned'[<<g, "regular">>] > returned[<<g, "regular">>]
                        => returned'[<<f, "regular">>] > 0]_vars
    BY DEF InOrderStep
  <1>3. QED BY <1>1, <1>2, PipelineInvHolds, PTL DEF Spec, InOrder

-----------------------------------------------------------------------------
(* Who waits is told: a step that may end the wait signals the condition,   *)
(* except for the death of the daemon.                                      *)
LEMMA WakeupKept ==
    ASSUME NoLostWakeup, died => died',
           pc'["app"] = pc["app"] \/ pc'["app"] # "waiting",
           \/ signalled' = (pc["app"] = "waiting")
           \/ UNCHANGED <<mPendingLiveRequest, mState, signalled>>
           \/ died'
    PROVE  NoLostWakeup'
  <1>1. SUFFICES ASSUME pc'["app"] = "waiting", ~signalled', ~died'
                 PROVE  MustWait(mPendingLiveRequest)'
    BY DEF NoLostWakeup
  <1>2. pc["app"] = "waiting" /\ ~died
    BY <1>1
  <1>3. UNCHANGED <<mPendingLiveRequest, mState, signalled>>
    BY <1>1, <1>2
  <1>4. MustWait(mPendingLiveRequest)
    BY <1>1, <1>2, <1>3 DEF NoLostWakeup
  <1>5. QED BY <1>3, <1>4 DEF MustWait, Down

LEMMA NextWakes ==
    ASSUME PipelineInv, NoLostWakeup, [Next]_vars
    PROVE  NoLostWakeup'
  <1>1. pc \in [Threads -> {"idle", "waiting", "gaveUp"} \cup Flushing]
    BY DEF PipelineInv, ThreadInv, ControlTypes
  <1>2. ASSUME NEW k \in AllKinds, processCaptureRequest(k)
        PROVE  NoLostWakeup'
    <2>1. CASE mFlush
      <3>1. pc'["app"] # "waiting"
        BY <1>2, <2>1 DEF processCaptureRequest
      <3>2. QED BY <3>1 DEF NoLostWakeup
    <2>2. CASE ~mFlush
      <3>1. /\ pc'["app"] = "waiting" => MustWait(mPendingLiveRequest')
            /\ mState' = "STARTED"
        BY <1>1, <1>2, <2>2 DEF processCaptureRequest, Threads
      <3>2. QED BY <3>1 DEF NoLostWakeup, MustWait, Down
    <2>3. QED BY <2>1, <2>2
  <1>3. CASE wake
    <2>1. pc'["app"] = "waiting" => MustWait(mPendingLiveRequest)
      BY <1>1, <1>3 DEF wake, Threads
    <2>2. UNCHANGED <<mPendingLiveRequest, mState>>
      BY <1>3 DEF wake, listVars
    <2>3. QED BY <2>1, <2>2 DEF NoLostWakeup, MustWait, Down
  <1>4. CASE waitTimedOut
    <2>1. pc'["app"] # "waiting"
      BY <1>1, <1>4 DEF waitTimedOut, Threads
    <2>2. QED BY <2>1 DEF NoLostWakeup
  <1>5. CASE flushCall \/ \E t \in Threads : deviceErrorCall(t)
    <2>1. /\ UNCHANGED <<mPendingLiveRequest, mState, signalled, died>>
          /\ pc'["app"] = pc["app"] \/ pc'["app"] # "waiting"
      BY <1>1, <1>5 DEF flushCall, deviceErrorCall, listVars, rareVars, Threads
    <2>2. QED BY <2>1, WakeupKept
  <1>6. ASSUME NEW t \in Threads,
               recheck(t) \/ setFlush(t) \/ stopChannel(t) \/ stopMetadata(t)
        PROVE  NoLostWakeup'
    <2>1. /\ UNCHANGED <<mPendingLiveRequest, mState, signalled, died>>
          /\ pc'["app"] = pc["app"] \/ pc'["app"] # "waiting"
      BY <1>1, <1>6 DEF recheck, setFlush, stopChannel, stopMetadata, listVars, rareVars, Threads
    <2>2. QED BY <2>1, WakeupKept
  <1>7. ASSUME NEW t \in Threads, finishFlush(t) PROVE NoLostWakeup'
    <2>1. /\ signalled' = (pc["app"] = "waiting") /\ UNCHANGED died
          /\ pc'["app"] = pc["app"] \/ pc'["app"] # "waiting"
      BY <1>1, <1>7 DEF finishFlush, unblockCaptureRequest, Signal, rareVars, Threads
    <2>2. QED BY <2>1, WakeupKept
  <1>8. ASSUME NEW t \in Threads, handleCameraDeviceError(t) PROVE NoLostWakeup'
    <2>1. Down
      BY <1>8 DEF handleCameraDeviceError, PipelineInv, ThreadInv, FlushInv, Threads, Flushing
    <2>2. /\ UNCHANGED <<signalled, died>>
          /\ pc'["app"] = pc["app"] \/ pc'["app"] # "waiting"
      BY <1>1, <1>8 DEF handleCameraDeviceError, rareVars, Threads
    <2>3. QED BY <2>1, <2>2 DEF NoLostWakeup, MustWait
  <1>9. CASE Metadata
    <2>1. UNCHANGED <<pc, died>>
      BY <1>9 DEF Metadata, callVars, rareVars
    <2>2. \/ signalled' = (pc["app"] = "waiting")
          \/ UNCHANGED <<mPendingLiveRequest, mState, signalled>>
      BY <1>9 DEF Metadata, metadataStep, handleBatchMetadata, handleMetadataWithLock, Signal,
         listVars
    <2>3. QED BY <2>1, <2>2, WakeupKept
  <1>10. CASE daemonDied \/ daemonPullReq
    <2>1. UNCHANGED pc /\ (died => died')
      BY <1>10 DEF daemonDied, daemonPullReq, callVars
    <2>2. signalled' = (pc["app"] = "waiting") \/ died'
      BY <1>10 DEF daemonDied, daemonPullReq, Signal
    <2>3. QED BY <2>1, <2>2, WakeupKept
  <1>11. CASE capture \/ streamCbRoutine \/ deliver \/ \E f \in Frames : jobStep(f)
    <2>1. UNCHANGED <<mPendingLiveRequest, mState, signalled, died, pc>>
      BY <1>11 DEF capture, streamCbRoutine, deliver, jobStep, handleBufferWithLock,
         handleInputBufferWithLock, listVars, rareVars, callVars
    <2>2. QED BY <2>1, WakeupKept
  <1>12. CASE UNCHANGED vars
    <2>1. UNCHANGED <<mPendingLiveRequest, mState, signalled, died, pc>>
      BY <1>12 DEF vars, listVars, rareVars, callVars
    <2>2. QED BY <2>1, WakeupKept
  <1>13. QED
    BY <1>2, <1>3, <1>4, <1>5, <1>6, <1>7, <1>8, <1>9, <1>10, <1>11, <1>12
    DEF Next, flushStep, AllKinds

(* Nobody waits in processCaptureRequest for what has happened already: who *)
(* waits unsignalled still has to, or the daemon has died.                  *)
THEOREM NobodyWaitsInVain == Spec => []NoLostWakeup
  <1>1. Init => NoLostWakeup
    BY DEF Init, NoLostWakeup, Threads
  <1>2. PipelineInv /\ NoLostWakeup /\ [Next]_vars => NoLostWakeup'
    BY NextWakes
  <1>3. QED BY <1>1, <1>2, PipelineInvHolds, PTL DEF Spec
=============================================================================
