----------------------------- MODULE TimerProofs -----------------------------
(***************************************************************************)
(* The timer service and the position injection, whose OdcpiTimer is one   *)
(* of its timers.  TypeOK, NoTimerForgotten and NoneFreedInUse hold of     *)
(* every LocTimer, for any number of timers and any time outs; OdcpiTypeOK *)
(* and TimerExpires of every Odcpi, whatever the length of the queue.      *)
(***************************************************************************)
EXTENDS LocTimer, Odcpi, SequenceTheorems, TLAPS

(* What the types need: the message thread knows what it has popped.       *)
TaskKnows == /\ pc = "popped" => popped \in Delegates
             /\ pc = "holding" => client \in Timers

TypeInv == TypeOK /\ TaskKnows

LEMMA InitInv == Init => TypeInv /\ NoTimerForgotten
  <1>1. Init => TypeOK
    <2> SUFFICES ASSUME Init PROVE TypeOK
      OBVIOUS
    <2>1. /\ mTimer \in [Timers -> Delegates \cup {None}]
          /\ mClient \in [Delegates -> Timers \cup {None}]
          /\ mFutureTime \in [Delegates -> Nat]
          /\ life \in [Delegates -> {"unborn", "live", "deleted"}]
      BY DEF Init
    <2>2. msgs \in Seq(Msg)
      BY DEF Init
    <2>3. now \in Nat /\ timerOfNow \in Nat
      BY DEF Init
    <2>4. QED
      BY <2>1, <2>2, <2>3 DEF Init, TypeOK
  <1>2. Init => TaskKnows /\ NoTimerForgotten
    BY DEF Init, TaskKnows, NoTimerForgotten
  <1>3. QED BY <1>1, <1>2 DEF TypeInv

LEMMA MsgAppend ==
    ASSUME msgs \in Seq(Msg), NEW m \in Msg
    PROVE  Append(msgs, m) \in Seq(Msg)
  OBVIOUS

(* A delegate's timer lets go of it. *)
LEMMA DestroyType ==
    ASSUME TypeOK, NEW t \in Timers, mTimer[t] # None, destroyLocked(t)
    PROVE  /\ mTimer' \in [Timers -> Delegates \cup {None}]
           /\ mClient' \in [Delegates -> Timers \cup {None}]
           /\ msgs' \in Seq(Msg)
           /\ UNCHANGED <<mFutureTime, life>>
  <1>1. mTimer[t] \in Delegates
    BY DEF TypeOK
  <1>2. [kind |-> "remove", d |-> mTimer[t]] \in Msg
    BY <1>1 DEF Msg
  <1>3. msgs' \in Seq(Msg)
    BY <1>2, MsgAppend DEF TypeOK, destroyLocked, sendMsg
  <1>4. QED
    BY <1>1, <1>3 DEF TypeOK, destroyLocked

LEMMA ClientType ==
    ASSUME TypeInv, NEW t \in Timers,
           \/ \E delay \in Delays : start(t, delay)
           \/ stop(t)
           \/ delete(t)
    PROVE  TypeInv'
  <1>0. TypeOK /\ TaskKnows BY DEF TypeInv
  <1>1. CASE \E delay \in Delays : start(t, delay)
    <2>1. PICK delay \in Delays, d \in Delegates :
             /\ life' = [life EXCEPT ![d] = "live"]
             /\ mClient' = [mClient EXCEPT ![d] = t]
             /\ mFutureTime' = [mFutureTime EXCEPT ![d] = now + delay]
             /\ mTimer' = [mTimer EXCEPT ![t] = d]
             /\ msgs' = Append(msgs, [kind |-> "push", d |-> d])
             /\ UNCHANGED <<now, deleted, heap, task, kernel, poll>>
      BY <1>1 DEF start, sendMsg
    <2>2. [kind |-> "push", d |-> d] \in Msg BY DEF Msg
    <2>3. msgs' \in Seq(Msg)
      BY <1>0, <2>1, <2>2, MsgAppend DEF TypeOK
    <2>4. now + delay \in Nat
      BY <1>0, <2>1, LocTimerConstants DEF TypeOK
    <2>5. QED
      BY <1>0, <2>1, <2>3, <2>4 DEF TypeInv, TypeOK, TaskKnows, task, kernel
  <1>2. CASE stop(t)
    <2>1. mTimer[t] # None /\ destroyLocked(t)
          /\ UNCHANGED <<now, deleted, heap, task, kernel, poll>>
      BY <1>2 DEF stop
    <2>2. QED
      BY <1>0, <2>1, DestroyType DEF TypeInv, TypeOK, TaskKnows, task, kernel
  <1>3. CASE delete(t)
    <2>1. /\ deleted' = deleted \cup {t}
          /\ UNCHANGED <<now, heap, task, kernel, poll>>
      BY <1>3 DEF delete
    <2>2. CASE mTimer[t] = None
      <3>1. UNCHANGED <<mTimer, delegates, msgs>>
        BY <1>3, <2>2 DEF delete
      <3>2. QED
        BY <1>0, <2>1, <3>1 DEF TypeInv, TypeOK, TaskKnows, task, kernel, delegates
    <2>3. CASE mTimer[t] # None
      <3>1. destroyLocked(t)
        BY <1>3, <2>3 DEF delete
      <3>2. QED
        BY <1>0, <2>1, <2>3, <3>1, DestroyType DEF TypeInv, TypeOK, TaskKnows, task, kernel
    <2>4. QED BY <2>2, <2>3
  <1>4. QED BY <1>1, <1>2, <1>3

(* The timerfd is set to the time of a top of the heap. *)
LEMMA SetTimeType ==
    ASSUME TypeOK, NEW H \in SUBSET Delegates, setTime(H)
    PROVE  fd' \in Nat /\ polled' = TRUE /\ \A d \in H : fd' <= mFutureTime[d]
  BY DEF TypeOK, setTime, tops

LEMMA UpdateType ==
    ASSUME TypeOK, NEW H \in SUBSET Delegates, updateSoonestTime(H)
    PROVE  fd' \in Nat \cup {None} /\ polled' \in BOOLEAN
  <1>1. CASE H = {}
    BY <1>1 DEF updateSoonestTime, kernel, TypeOK
  <1>2. CASE H # {}
    BY <1>2, SetTimeType DEF updateSoonestTime
  <1>3. QED BY <1>1, <1>2

LEMMA PushType ==
    ASSUME TypeOK, NEW d \in Delegates, MsgTimerPush(d)
    PROVE  /\ fd' \in Nat \cup {None} /\ polled' \in BOOLEAN
           /\ heap' \subseteq Delegates
           /\ UNCHANGED <<life, task>>
  <1>1. setTime({d}) \/ UNCHANGED kernel
    BY DEF MsgTimerPush
  <1>2. fd' \in Nat \cup {None} /\ polled' \in BOOLEAN
    BY <1>1, SetTimeType DEF kernel, TypeOK
  <1>3. QED BY <1>2 DEF MsgTimerPush, TypeOK

LEMMA RemoveType ==
    ASSUME TypeOK, NEW d \in Delegates, MsgTimerRemove(d)
    PROVE  /\ fd' \in Nat \cup {None} /\ polled' \in BOOLEAN
           /\ heap' \subseteq Delegates
           /\ life' \in [Delegates -> {"unborn", "live", "deleted"}]
           /\ UNCHANGED task
  <1>1. updateSoonestTime(heap \ {d}) \/ UNCHANGED kernel
    BY DEF MsgTimerRemove
  <1>2. fd' \in Nat \cup {None} /\ polled' \in BOOLEAN
    BY <1>1, UpdateType DEF kernel, TypeOK
  <1>3. QED BY <1>2 DEF MsgTimerRemove, TypeOK

LEMMA PopType ==
    ASSUME TypeOK, pop
    PROVE  /\ heap' \subseteq Delegates /\ popped' \in Delegates
           /\ pc' = "popped" /\ UNCHANGED kernel
  BY DEF TypeOK, pop, tops

LEMMA ProcMsgType ==
    ASSUME TypeInv, ProcMsg
    PROVE  TypeInv'
  <1>0. TypeOK /\ TaskKnows BY DEF TypeInv
  <1>1. /\ Head(msgs) \in Msg /\ msgs' \in Seq(Msg) /\ pc = "idle"
        /\ UNCHANGED <<now, timers, mClient, mFutureTime, poll>>
    BY <1>0 DEF TypeOK, ProcMsg
  <1>2. CASE Head(msgs).kind = "push" /\ MsgTimerPush(Head(msgs).d)
    <2>1. Head(msgs).d \in Delegates BY <1>1, <1>2 DEF Msg
    <2>2. QED
      BY <1>0, <1>1, <1>2, <2>1, PushType DEF TypeInv, TypeOK, TaskKnows, timers, task
  <1>3. CASE Head(msgs).kind = "remove" /\ MsgTimerRemove(Head(msgs).d)
    <2>1. Head(msgs).d \in Delegates BY <1>1, <1>3 DEF Msg
    <2>2. QED
      BY <1>0, <1>1, <1>3, <2>1, RemoveType DEF TypeInv, TypeOK, TaskKnows, timers, task
  <1>4. CASE MsgTimerExpire
    <2>1. timerOfNow' \in Nat /\ UNCHANGED <<life, client>>
      BY <1>0, <1>4 DEF MsgTimerExpire, TypeOK
    <2>2. CASE pop
      BY <1>0, <1>1, <2>1, <2>2, PopType DEF TypeInv, TypeOK, TaskKnows, timers, kernel
    <2>3. CASE UNCHANGED <<heap, pc, popped, kernel>>
      BY <1>0, <1>1, <2>1, <2>3 DEF TypeInv, TypeOK, TaskKnows, timers, kernel
    <2>4. QED BY <1>4, <2>2, <2>3 DEF MsgTimerExpire
  <1>5. QED BY <1>2, <1>3, <1>4 DEF ProcMsg

LEMMA TaskType ==
    ASSUME TypeInv, TaskStep
    PROVE  TypeInv'
  <1>0. TypeOK /\ TaskKnows BY DEF TypeInv
  <1>1. CASE ProcMsg
    BY <1>1, ProcMsgType
  <1>2. CASE ReadClient
    <2>1. client' = mClient[popped] /\ popped \in Delegates
      BY <1>0, <1>2 DEF ReadClient, TaskKnows
    <2>2. client' \in Timers \cup {None}
      BY <1>0, <2>1 DEF TypeOK
    <2>3. CASE client' = None
      <3>1. pc' = "loop" BY <1>2, <2>3 DEF ReadClient
      <3>2. QED
        BY <1>0, <1>2, <2>2, <3>1
        DEF ReadClient, TypeInv, TypeOK, TaskKnows, timers, delegates, kernel
    <2>4. CASE client' # None
      <3>1. pc' = "holding" BY <1>2, <2>4 DEF ReadClient
      <3>2. QED
        BY <1>0, <1>2, <2>2, <2>4, <3>1
        DEF ReadClient, TypeInv, TypeOK, TaskKnows, timers, delegates, kernel
    <2>5. QED BY <2>3, <2>4
  <1>3. CASE StopClient
    <2>1. client \in Timers
      BY <1>0, <1>3 DEF StopClient, TaskKnows
    <2>2. UNCHANGED <<now, deleted, heap, popped, client, timerOfNow, kernel, poll>>
      BY <1>3 DEF StopClient
    <2>3. CASE mTimer[client] = None
      <3>1. pc' = "loop" /\ UNCHANGED <<mTimer, delegates, msgs>>
        BY <1>3, <2>3 DEF StopClient
      <3>2. QED
        BY <1>0, <2>2, <3>1 DEF TypeInv, TypeOK, TaskKnows, delegates, kernel
    <2>4. CASE mTimer[client] # None
      <3>1. /\ pc' = "calling" /\ destroyLocked(client)
        BY <1>3, <2>4 DEF StopClient
      <3>2. mTimer[client] \in Delegates
        BY <1>0, <2>1, <2>4 DEF TypeOK
      <3>3. QED
        BY <1>0, <2>1, <2>2, <2>4, <3>1, <3>2, DestroyType
        DEF TypeInv, TypeOK, TaskKnows, kernel
    <2>5. QED BY <2>3, <2>4
  <1>4. CASE TimeOutCallback
    BY <1>0, <1>4
    DEF TimeOutCallback, TypeInv, TypeOK, TaskKnows, timers, delegates, kernel
  <1>5. CASE ExpireLoop
    <2>1. UNCHANGED <<now, timers, delegates, msgs, client, timerOfNow, poll>>
      BY <1>5 DEF ExpireLoop
    <2>2. CASE pop
      BY <1>0, <2>1, <2>2, PopType
      DEF TypeInv, TypeOK, TaskKnows, timers, delegates, kernel
    <2>3. CASE updateSoonestTime(heap) /\ pc' = "idle" /\ UNCHANGED <<heap, popped>>
      <3>1. fd' \in Nat \cup {None} /\ polled' \in BOOLEAN
        BY <1>0, <2>3, UpdateType DEF TypeOK
      <3>2. QED
        BY <1>0, <2>1, <2>3, <3>1 DEF TypeInv, TypeOK, TaskKnows, timers, delegates
    <2>4. QED BY <1>5, <2>2, <2>3 DEF ExpireLoop
  <1>6. QED BY <1>1, <1>2, <1>3, <1>4, <1>5 DEF TaskStep

LEMMA PollType ==
    ASSUME TypeInv, PollStep
    PROVE  TypeInv'
  <1>0. TypeOK /\ TaskKnows BY DEF TypeInv
  <1>1. CASE EpollWait
    BY <1>0, <1>1 DEF EpollWait, TypeInv, TypeOK, TaskKnows, timers, delegates, task, kernel
  <1>2. CASE Disarm
    BY <1>0, <1>2 DEF Disarm, TypeInv, TypeOK, TaskKnows, timers, delegates, task
  <1>3. CASE RemovePoll
    BY <1>0, <1>3 DEF RemovePoll, TypeInv, TypeOK, TaskKnows, timers, delegates, task
  <1>4. CASE SendExpire
    <2>1. [kind |-> "expire"] \in Msg BY DEF Msg
    <2>2. msgs' \in Seq(Msg)
      BY <1>0, <1>4, <2>1, MsgAppend DEF TypeOK, SendExpire, sendMsg
    <2>3. QED
      BY <1>0, <1>4, <2>2
      DEF SendExpire, TypeInv, TypeOK, TaskKnows, timers, delegates, task, kernel
  <1>5. QED BY <1>1, <1>2, <1>3, <1>4 DEF PollStep

LEMMA NextType == TypeInv /\ [Next]_vars => TypeInv'
  <1> SUFFICES ASSUME TypeInv, [Next]_vars PROVE TypeInv'
    OBVIOUS
  <1>0. TypeOK /\ TaskKnows BY DEF TypeInv
  <1>1. CASE Tick
    BY <1>0, <1>1 DEF Tick, TypeInv, TypeOK, TaskKnows, timers, delegates, task, kernel
  <1>2. CASE UNCHANGED vars
    BY <1>0, <1>2 DEF vars, TypeInv, TypeOK, TaskKnows, timers, delegates, task, kernel
  <1>3. QED BY <1>1, <1>2, ClientType, TaskType, PollType DEF Next

(* Every variable of the timer service keeps its type. *)
THEOREM TypeCorrect == Spec => []TypeOK
  <1>1. Init => TypeInv BY InitInv
  <1>2. TypeInv => TypeOK BY DEF TypeInv
  <1>3. QED BY <1>1, <1>2, NextType, PTL DEF Spec

-----------------------------------------------------------------------------
(* The delegates of the heap and of the push messages were started, so no  *)
(* start changes their time.                                               *)
Born ==
    /\ \A d \in heap : life[d] # "unborn"
    /\ \A i \in 1..Len(msgs) : msgs[i].kind = "push" => life[msgs[i].d] # "unborn"

NoneUnborn == \A d \in Delegates : life[d] # "unborn" => life'[d] # "unborn"

LEMMA SameBorn ==
    ASSUME TypeOK, Born, NoneUnborn, msgs' = msgs, heap' \subseteq heap
    PROVE  Born'
  <1>1. \A i \in 1..Len(msgs) : msgs[i].kind = "push" => msgs[i].d \in Delegates
    <2>1. \A i \in 1..Len(msgs) : msgs[i] \in Msg
      BY DEF TypeOK
    <2>2. QED BY <2>1 DEF Msg
  <1>2. \A d \in heap : d \in Delegates
    BY DEF TypeOK
  <1>3. QED BY <1>1, <1>2 DEF Born, NoneUnborn

LEMMA AppendBorn ==
    ASSUME TypeOK, Born, NoneUnborn, heap' = heap, NEW m \in Msg,
           msgs' = Append(msgs, m), m.kind = "push" => life'[m.d] # "unborn"
    PROVE  Born'
  <1>1. \A i \in 1..Len(msgs) : msgs[i] \in Msg
    BY DEF TypeOK
  <1>2. \A i \in 1..Len(msgs) : msgs[i].kind = "push" => msgs[i].d \in Delegates
    BY <1>1 DEF Msg
  <1>3. /\ Len(msgs') = Len(msgs) + 1 /\ msgs'[Len(msgs) + 1] = m
        /\ \A i \in 1..Len(msgs) : msgs'[i] = msgs[i]
    BY DEF TypeOK
  <1>4. \A d \in heap : life'[d] # "unborn"
    BY DEF Born, NoneUnborn, TypeOK
  <1>5. Len(msgs) \in Nat
    BY DEF TypeOK
  <1>6. ASSUME NEW i \in 1..Len(msgs'), msgs'[i].kind = "push"
        PROVE  life'[msgs'[i].d] # "unborn"
    <2>1. CASE i = Len(msgs) + 1
      BY <1>3, <1>6, <2>1
    <2>2. CASE i \in 1..Len(msgs)
      BY <1>2, <1>3, <1>6, <2>2 DEF Born, NoneUnborn
    <2>3. QED BY <1>3, <1>5, <2>1, <2>2
  <1>7. QED BY <1>4, <1>6 DEF Born

LEMMA DestroyBorn ==
    ASSUME TypeOK, Born, NEW t \in Timers, mTimer[t] # None, destroyLocked(t), heap' = heap
    PROVE  Born'
  <1>1. [kind |-> "remove", d |-> mTimer[t]] \in Msg
    BY DEF TypeOK, Msg
  <1>2. msgs' = Append(msgs, [kind |-> "remove", d |-> mTimer[t]]) /\ life' = life
    BY DEF destroyLocked, sendMsg
  <1>3. QED BY <1>1, <1>2, AppendBorn DEF NoneUnborn

LEMMA ProcMsgBorn ==
    ASSUME TypeOK, Born, ProcMsg
    PROVE  Born'
  <1> DEFINE m == Head(msgs)
  <1>1. /\ msgs # <<>> /\ msgs' = Tail(msgs) /\ m = msgs[1] /\ m \in Msg
        /\ Len(msgs) \in Nat \ {0} /\ Len(msgs') = Len(msgs) - 1
        /\ \A i \in 1..Len(msgs') : msgs'[i] = msgs[i + 1] /\ i + 1 \in 1..Len(msgs)
    BY DEF ProcMsg, TypeOK
  <1>2. \A i \in 1..Len(msgs) : msgs[i] \in Msg
    BY DEF TypeOK
  <1>3. \A i \in 1..Len(msgs) : msgs[i].kind = "push" => msgs[i].d \in Delegates
    BY <1>2 DEF Msg
  <1>4. NoneUnborn
    BY DEF TypeOK, NoneUnborn, ProcMsg, MsgTimerPush, MsgTimerRemove, MsgTimerExpire
  <1>5. heap' \subseteq heap \/ (m.kind = "push" /\ heap' = heap \cup {m.d})
    BY DEF ProcMsg, MsgTimerPush, MsgTimerRemove, MsgTimerExpire, pop
  <1>6. m.kind = "push" => life[m.d] # "unborn" /\ m.d \in Delegates
    BY <1>1, <1>3 DEF Born
  <1> HIDE DEF m
  <1>7. \A d \in heap' : life'[d] # "unborn"
    BY <1>4, <1>5, <1>6 DEF Born, NoneUnborn, TypeOK
  <1>8. ASSUME NEW i \in 1..Len(msgs'), msgs'[i].kind = "push"
        PROVE  life'[msgs'[i].d] # "unborn"
    BY <1>1, <1>3, <1>4, <1>8 DEF Born, NoneUnborn
  <1>9. QED BY <1>7, <1>8 DEF Born

LEMMA NextBorn == TypeInv /\ Born /\ [Next]_vars => Born'
  <1> SUFFICES ASSUME TypeInv, Born, [Next]_vars PROVE Born'
    OBVIOUS
  <1>0. TypeOK /\ TaskKnows BY DEF TypeInv
  <1>1. ASSUME life' = life, msgs' = msgs, heap' \subseteq heap PROVE Born'
    BY <1>0, <1>1, SameBorn DEF NoneUnborn
  <1>2. CASE \E t \in Timers, delay \in Delays : start(t, delay)
    <2>1. PICK t \in Timers, delay \in Delays : start(t, delay) BY <1>2
    <2>2. PICK d \in Delegates :
             /\ life' = [life EXCEPT ![d] = "live"]
             /\ msgs' = Append(msgs, [kind |-> "push", d |-> d])
             /\ heap' = heap
      BY <2>1 DEF start, sendMsg
    <2>3. [kind |-> "push", d |-> d] \in Msg BY DEF Msg
    <2>4. NoneUnborn /\ life'[d] # "unborn"
      BY <1>0, <2>2 DEF NoneUnborn, TypeOK
    <2>5. QED BY <1>0, <2>2, <2>3, <2>4, AppendBorn
  <1>3. CASE \E t \in Timers : stop(t)
    BY <1>0, <1>3, DestroyBorn DEF stop
  <1>4. CASE \E t \in Timers : delete(t)
    <2>1. PICK t \in Timers : delete(t) BY <1>4
    <2>2. CASE mTimer[t] = None
      BY <1>1, <2>1, <2>2 DEF delete, delegates
    <2>3. CASE mTimer[t] # None
      BY <1>0, <2>1, <2>3, DestroyBorn DEF delete
    <2>4. QED BY <2>2, <2>3
  <1>5. CASE ProcMsg
    BY <1>0, <1>5, ProcMsgBorn
  <1>6. CASE StopClient
    <2>1. CASE mTimer[client] = None
      BY <1>1, <1>6, <2>1 DEF StopClient, delegates
    <2>2. CASE mTimer[client] # None
      BY <1>0, <1>6, <2>2, DestroyBorn DEF StopClient, TaskKnows
    <2>3. QED BY <2>1, <2>2
  <1>7. CASE ReadClient \/ TimeOutCallback \/ EpollWait \/ Disarm \/ RemovePoll \/ Tick
    BY <1>1, <1>7 DEF ReadClient, TimeOutCallback, EpollWait, Disarm, RemovePoll, Tick, delegates
  <1>8. CASE ExpireLoop
    BY <1>1, <1>8 DEF ExpireLoop, pop, delegates
  <1>9. CASE SendExpire
    <2>1. [kind |-> "expire"] \in Msg BY DEF Msg
    <2>2. QED
      BY <1>0, <1>9, <2>1, AppendBorn DEF SendExpire, sendMsg, delegates, NoneUnborn
  <1>10. CASE UNCHANGED vars
    BY <1>1, <1>10 DEF vars, delegates
  <1>11. QED
    BY <1>2, <1>3, <1>4, <1>5, <1>6, <1>7, <1>8, <1>9, <1>10 DEF Next, TaskStep, PollStep

-----------------------------------------------------------------------------
(* An expiry that is on its way stays so until the message thread takes it. *)
Pending == \E i \in 1..Len(msgs) : msgs[i].kind = "expire"

LEMMA AppendKeeps ==
    ASSUME msgs \in Seq(Msg), NEW m, msgs' = Append(msgs, m), Pending
    PROVE  Pending'
  <1>1. PICK i \in 1..Len(msgs) : msgs[i].kind = "expire"
    BY DEF Pending
  <1>2. i \in 1..Len(msgs') /\ msgs'[i] = msgs[i]
    BY <1>1
  <1>3. QED BY <1>1, <1>2 DEF Pending

LEMMA TailKeeps ==
    ASSUME msgs \in Seq(Msg), msgs # <<>>, msgs' = Tail(msgs), Pending,
           Head(msgs).kind # "expire"
    PROVE  Pending'
  <1>1. PICK i \in 1..Len(msgs) : msgs[i].kind = "expire"
    BY DEF Pending
  <1>2. i # 1
    BY <1>1
  <1>3. i - 1 \in 1..Len(msgs') /\ msgs'[i - 1] = msgs[i]
    BY <1>1, <1>2
  <1>4. QED BY <1>1, <1>3 DEF Pending

LEMMA Forgotten ==
    NoTimerForgotten <=> (heap # {} => Armed \/ poll # "wait" \/ Pending \/ pc # "idle")
  BY DEF NoTimerForgotten, ExpiryComing, Pending

(* The steps that leave the heap and the timerfd alone keep the invariant  *)
(* if they lose no expiry.                                                 *)
LEMMA QuietKeeps ==
    ASSUME NoTimerForgotten, heap' = heap, UNCHANGED kernel,
           \A d \in heap : mFutureTime'[d] = mFutureTime[d],
           poll # "wait" => poll' # "wait" \/ Pending',
           Pending => Pending' \/ pc' # "idle",
           pc # "idle" => pc' # "idle"
    PROVE  NoTimerForgotten'
  BY DEF NoTimerForgotten, ExpiryComing, Armed, Pending, kernel

(* What a step of a client does to the queue and the times. *)
LEMMA ClientKeeps ==
    ASSUME TypeInv, NoTimerForgotten, NEW t \in Timers, Born,
           \/ \E delay \in Delays : start(t, delay)
           \/ stop(t)
           \/ delete(t)
    PROVE  NoTimerForgotten'
  <1>0. TypeOK BY DEF TypeInv
  <1>1. UNCHANGED <<heap, kernel, poll, pc>>
    BY DEF start, stop, delete, task
  <1>2. msgs' = msgs \/ \E m : msgs' = Append(msgs, m)
    BY DEF start, stop, delete, destroyLocked, sendMsg
  <1>3. msgs \in Seq(Msg)
    BY <1>0 DEF TypeOK
  <1>4. Pending => Pending'
    BY <1>2, <1>3, AppendKeeps DEF Pending
  <1>5. \A d \in heap : mFutureTime'[d] = mFutureTime[d]
    <2>1. CASE \E delay \in Delays : start(t, delay)
      <3>1. PICK delay \in Delays, d \in Delegates :
               life[d] = "unborn" /\ mFutureTime' = [mFutureTime EXCEPT ![d] = now + delay]
        BY <2>1 DEF start
      <3>2. d \notin heap
        BY <3>1 DEF Born
      <3>3. QED BY <1>0, <3>1, <3>2 DEF TypeOK
    <2>2. CASE stop(t) \/ delete(t)
      <3>1. mFutureTime' = mFutureTime
        BY <2>2 DEF stop, delete, destroyLocked, delegates
      <3>2. QED BY <3>1
    <2>3. QED BY <2>1, <2>2
  <1>6. QED BY <1>1, <1>4, <1>5, QuietKeeps

(* The message thread takes a message: a push sets the time if the timer   *)
(* is the soonest, a removal leaves the time or sets it, and an expiry     *)
(* leaves it to the loop that follows.                                     *)
LEMMA ProcMsgKeeps ==
    ASSUME TypeInv, NoTimerForgotten, ProcMsg
    PROVE  NoTimerForgotten'
  <1>0. TypeOK BY DEF TypeInv
  <1>1. /\ Head(msgs) \in Msg /\ msgs \in Seq(Msg) /\ msgs # <<>> /\ msgs' = Tail(msgs)
        /\ pc = "idle" /\ UNCHANGED <<mFutureTime, poll>>
    BY <1>0 DEF TypeOK, ProcMsg
  <1>2. ASSUME Head(msgs).kind # "expire", Pending PROVE Pending'
    BY <1>1, <1>2, TailKeeps
  <1>3. CASE poll # "wait"
    BY <1>1, <1>3, Forgotten DEF NoTimerForgotten, ExpiryComing
  <1>4. CASE poll = "wait" /\ Head(msgs).kind # "expire" /\ Pending
    <2>1. Pending' BY <1>2, <1>4
    <2>2. QED BY <2>1 DEF NoTimerForgotten, ExpiryComing, Pending
  <1>5. CASE poll = "wait" /\ Head(msgs).kind = "push" /\ MsgTimerPush(Head(msgs).d) /\ ~Pending
    <2> DEFINE d == Head(msgs).d
    <2>1. d \in Delegates BY <1>1, <1>5 DEF Msg
    <2>2. heap = {} \/ Armed
      BY <1>1, <1>5, Forgotten
    <2>3. heap' = heap \cup {d} BY <1>5 DEF MsgTimerPush
    <2>4. /\ mFutureTime[d] \in Nat
          /\ \A e \in heap : mFutureTime[e] \in Nat
          /\ fd # None => fd \in Nat
      BY <1>0, <2>1 DEF TypeOK
    <2>5. CASE \A e \in heap : mFutureTime[d] < mFutureTime[e]
      <3>1. setTime({d}) BY <1>5, <2>5 DEF MsgTimerPush
      <3>2. fd' = mFutureTime[d] /\ polled' = TRUE
        BY <2>1, <3>1 DEF setTime, tops
      <3>3. fd' # None
        BY <2>4, <3>2, LocTimerConstants
      <3>4. \A e \in heap' : fd' <= mFutureTime'[e]
        BY <1>1, <2>3, <2>4, <2>5, <3>2
      <3>5. QED BY <3>2, <3>3, <3>4 DEF NoTimerForgotten, Armed
    <2>6. CASE ~\A e \in heap : mFutureTime[d] < mFutureTime[e]
      <3>1. UNCHANGED kernel BY <1>5, <2>6 DEF MsgTimerPush
      <3>2. Armed BY <2>2, <2>6
      <3>3. \A e \in heap' : fd <= mFutureTime[e]
        BY <2>3, <2>4, <2>6, <3>2 DEF Armed
      <3>4. QED BY <1>1, <3>1, <3>2, <3>3 DEF NoTimerForgotten, Armed, kernel
    <2>7. QED BY <2>5, <2>6
  <1>6. CASE poll = "wait" /\ Head(msgs).kind = "remove" /\ MsgTimerRemove(Head(msgs).d) /\ ~Pending
    <2> DEFINE H == heap \ {Head(msgs).d}
    <2>1. heap = {} \/ Armed
      BY <1>1, <1>6, Forgotten
    <2>2. heap' = H /\ (updateSoonestTime(H) \/ UNCHANGED kernel)
      BY <1>6 DEF MsgTimerRemove
    <2>3. H \in SUBSET Delegates
      BY <1>0 DEF TypeOK
    <2>4. CASE H = {}
      BY <2>2, <2>4 DEF NoTimerForgotten
    <2>5. CASE H # {} /\ UNCHANGED kernel
      <3>1. Armed BY <2>1, <2>5
      <3>2. QED BY <1>1, <2>2, <2>5, <3>1 DEF NoTimerForgotten, Armed, kernel
    <2>6. CASE H # {} /\ setTime(H)
      <3>1. fd' \in Nat /\ polled' = TRUE /\ \A e \in H : fd' <= mFutureTime[e]
        BY <1>0, <2>3, <2>6, SetTimeType
      <3>2. QED
        BY <1>1, <2>2, <3>1, LocTimerConstants DEF NoTimerForgotten, Armed
    <2>7. QED BY <2>2, <2>4, <2>5, <2>6 DEF updateSoonestTime
  <1>7. CASE MsgTimerExpire
    <2>1. CASE pop
      BY <2>1 DEF pop, NoTimerForgotten, ExpiryComing
    <2>2. CASE heap = {} /\ heap' = heap
      BY <2>2 DEF NoTimerForgotten
    <2>3. QED BY <1>7, <2>1, <2>2 DEF MsgTimerExpire
  <1>8. poll = "wait" \/ poll # "wait" OBVIOUS
  <1>9. QED BY <1>3, <1>4, <1>5, <1>6, <1>7, <1>8 DEF ProcMsg

LEMMA ExpireLoopKeeps ==
    ASSUME TypeInv, ExpireLoop
    PROVE  NoTimerForgotten'
  <1>0. TypeOK BY DEF TypeInv
  <1>1. CASE pop
    BY <1>1 DEF pop, NoTimerForgotten, ExpiryComing
  <1>2. CASE updateSoonestTime(heap) /\ heap' = heap
    <2>1. mFutureTime' = mFutureTime /\ heap \in SUBSET Delegates
      BY <1>0 DEF ExpireLoop, delegates, TypeOK
    <2>2. CASE heap = {}
      BY <1>2, <2>2 DEF NoTimerForgotten
    <2>3. CASE heap # {} /\ setTime(heap)
      <3>1. fd' \in Nat /\ polled' = TRUE /\ \A e \in heap : fd' <= mFutureTime[e]
        BY <1>0, <2>1, <2>3, SetTimeType
      <3>2. QED
        BY <1>2, <2>1, <3>1, LocTimerConstants DEF NoTimerForgotten, Armed
    <2>4. QED BY <1>2, <2>2, <2>3 DEF updateSoonestTime
  <1>3. QED BY <1>1, <1>2 DEF ExpireLoop

LEMMA NextKeeps ==
    TypeInv /\ Born /\ NoTimerForgotten /\ [Next]_vars => NoTimerForgotten'
  <1> SUFFICES ASSUME TypeInv, Born, NoTimerForgotten, [Next]_vars
               PROVE  NoTimerForgotten'
    OBVIOUS
  <1>0. TypeOK BY DEF TypeInv
  <1>1. CASE \E t \in Timers : \/ \E delay \in Delays : start(t, delay)
                              \/ stop(t)
                              \/ delete(t)
    BY <1>1, ClientKeeps
  <1>2. CASE ProcMsg
    BY <1>2, ProcMsgKeeps
  <1>3. CASE ExpireLoop
    BY <1>3, ExpireLoopKeeps
  <1>4. CASE ReadClient
    <2>1. pc' # "idle" BY <1>4 DEF ReadClient
    <2>2. QED BY <2>1 DEF NoTimerForgotten, ExpiryComing
  <1>5. CASE StopClient
    <2>1. pc' # "idle" BY <1>5 DEF StopClient
    <2>2. QED BY <2>1 DEF NoTimerForgotten, ExpiryComing
  <1>6. CASE TimeOutCallback
    <2>1. pc' # "idle" BY <1>6 DEF TimeOutCallback
    <2>2. QED BY <2>1 DEF NoTimerForgotten, ExpiryComing
  <1>7. CASE EpollWait \/ Disarm \/ RemovePoll
    <2>1. poll' # "wait" BY <1>7 DEF EpollWait, Disarm, RemovePoll
    <2>2. QED BY <2>1 DEF NoTimerForgotten, ExpiryComing
  <1>8. CASE SendExpire
    <2>1. msgs' = Append(msgs, [kind |-> "expire"]) /\ msgs \in Seq(Msg)
      BY <1>0, <1>8 DEF SendExpire, sendMsg, TypeOK
    <2>2. Len(msgs') \in 1..Len(msgs') /\ msgs'[Len(msgs')] = [kind |-> "expire"]
      BY <2>1
    <2>3. \E i \in 1..Len(msgs') : msgs'[i].kind = "expire"
      BY <2>2
    <2>4. QED BY <2>3 DEF NoTimerForgotten, ExpiryComing
  <1>9. CASE Tick \/ UNCHANGED vars
    <2>1. UNCHANGED <<heap, kernel, poll, pc, msgs, mFutureTime>>
      BY <1>9 DEF Tick, vars, delegates, task
    <2>2. QED BY <2>1 DEF NoTimerForgotten, ExpiryComing, Armed, kernel
  <1>10. QED
    BY <1>1, <1>2, <1>3, <1>4, <1>5, <1>6, <1>7, <1>8, <1>9 DEF Next, TaskStep, PollStep

(* While a timer is in the heap, the timerfd is set in time for it and the *)
(* poll thread waits on it, or an expiry is on its way.                    *)
THEOREM TimersTended == Spec => []NoTimerForgotten
  <1>1. Init => TypeInv /\ NoTimerForgotten BY InitInv
  <1>2. Init => Born BY DEF Init, Born
  <1>3. QED BY <1>1, <1>2, NextType, NextBorn, NextKeeps, PTL DEF Spec

-----------------------------------------------------------------------------
(* NoneFreedInUse.  The removal of a delegate is the last message about    *)
(* it, and is sent by the one timer that has it, which lets go of it.      *)
About(m, d) == m.kind # "expire" /\ m.d = d

LiveInUse ==
    /\ \A d \in heap : life[d] = "live"
    /\ \A i \in 1..Len(msgs) : msgs[i].kind # "expire" => life[msgs[i].d] = "live"
    /\ \A t \in Timers : mTimer[t] # None => life[mTimer[t]] = "live"
    /\ pc = "popped" => life[popped] = "live"

OneTimer ==
    \A t, u \in Timers : mTimer[t] # None /\ mTimer[t] = mTimer[u] => t = u

RemovedLast ==
    \A i \in 1..Len(msgs) : msgs[i].kind = "remove" =>
        /\ \A j \in 1..Len(msgs) : About(msgs[j], msgs[i].d) => j <= i
        /\ \A t \in Timers : mTimer[t] # msgs[i].d

UseInv == LiveInUse /\ OneTimer /\ RemovedLast

LEMMA UsedIsLive == TypeInv /\ UseInv => NoneFreedInUse
  <1> SUFFICES ASSUME TypeInv, UseInv PROVE NoneFreedInUse
    OBVIOUS
  <1>1. ASSUME NEW d, d # None,
               \/ d \in heap
               \/ \E i \in 1..Len(msgs) : msgs[i].kind # "expire" /\ d = msgs[i].d
               \/ \E t \in Timers : d = mTimer[t]
               \/ pc = "popped" /\ d = popped
        PROVE  life[d] = "live"
    BY <1>1 DEF UseInv, LiveInUse
  <1>2. QED BY <1>1 DEF NoneFreedInUse

LEMMA QueueType ==
    ASSUME TypeOK
    PROVE  /\ \A i \in 1..Len(msgs) : msgs[i] \in Msg
           /\ \A i \in 1..Len(msgs) : msgs[i].kind # "expire" => msgs[i].d \in Delegates
           /\ Len(msgs) \in Nat
  <1>1. \A i \in 1..Len(msgs) : msgs[i] \in Msg
    BY DEF TypeOK
  <1>2. QED BY <1>1 DEF TypeOK, Msg

LEMMA AppendFacts ==
    ASSUME TypeOK, NEW m, msgs' = Append(msgs, m)
    PROVE  /\ Len(msgs) \in Nat /\ Len(msgs') = Len(msgs) + 1
           /\ msgs'[Len(msgs) + 1] = m
           /\ \A i \in 1..Len(msgs) : msgs'[i] = msgs[i]
           /\ \A i \in 1..Len(msgs') : i \in 1..Len(msgs) \/ i = Len(msgs) + 1
  BY DEF TypeOK

(* The message thread pops timers off the heap only.                       *)
LEMMA SameQueueUse ==
    ASSUME TypeInv, UseInv, UNCHANGED <<msgs, life, mTimer>>, heap' \subseteq heap,
           pc' = "popped" => popped' \in heap \/ (pc = "popped" /\ popped' = popped)
    PROVE  UseInv'
  BY DEF UseInv, LiveInUse, OneTimer, RemovedLast

LEMMA StartUse ==
    ASSUME TypeInv, UseInv, NEW t \in Timers, NEW delay \in Delays, start(t, delay)
    PROVE  UseInv'
  <1>0. TypeOK BY DEF TypeInv
  <1>1. PICK d \in Delegates :
           /\ life[d] = "unborn" /\ life' = [life EXCEPT ![d] = "live"]
           /\ mTimer' = [mTimer EXCEPT ![t] = d]
           /\ msgs' = Append(msgs, [kind |-> "push", d |-> d])
           /\ UNCHANGED <<heap, task>>
    BY DEF start, sendMsg
  <1> DEFINE m == [kind |-> "push", d |-> d]
  <1>2. /\ \A e \in Delegates : life[e] = "live" => life'[e] = "live"
        /\ life'[d] = "live" /\ d # None /\ None \notin Delegates
    BY <1>0, <1>1, LocTimerConstants DEF TypeOK
  <1>3. /\ mTimer'[t] = d
        /\ \A u \in Timers \ {t} : mTimer'[u] = mTimer[u]
        /\ \A u \in Timers : mTimer[u] \in Delegates \cup {None}
    BY <1>0, <1>1 DEF TypeOK
  <1>4. /\ \A u \in Timers : mTimer[u] # d
        /\ \A i \in 1..Len(msgs) : ~About(msgs[i], d)
    BY <1>1, <1>2 DEF UseInv, LiveInUse, About
  <1>5. msgs' = Append(msgs, m) BY <1>1
  <1>6. m.kind = "push" /\ m.d = d
    OBVIOUS
  <1> HIDE DEF m
  <1>7. LiveInUse'
    <2>1. \A e \in heap' : life'[e] = "live"
      BY <1>0, <1>1, <1>2 DEF UseInv, LiveInUse, TypeOK
    <2>2. ASSUME NEW i \in 1..Len(msgs'), msgs'[i].kind # "expire"
          PROVE  life'[msgs'[i].d] = "live"
      BY <1>0, <1>2, <1>5, <1>6, <2>2, QueueType, AppendFacts DEF UseInv, LiveInUse
    <2>3. \A u \in Timers : mTimer'[u] # None => life'[mTimer'[u]] = "live"
      BY <1>2, <1>3 DEF UseInv, LiveInUse
    <2>4. pc' = "popped" => life'[popped'] = "live"
      BY <1>1, <1>2 DEF UseInv, LiveInUse, TypeInv, TaskKnows, task
    <2>5. QED BY <2>1, <2>2, <2>3, <2>4 DEF LiveInUse
  <1>8. OneTimer'
    BY <1>3, <1>4 DEF UseInv, OneTimer
  <1>9. ASSUME NEW i \in 1..Len(msgs'), msgs'[i].kind = "remove"
        PROVE  /\ \A j \in 1..Len(msgs') : About(msgs'[j], msgs'[i].d) => j <= i
               /\ \A u \in Timers : mTimer'[u] # msgs'[i].d
    <2>1. i \in 1..Len(msgs) /\ msgs[i].kind = "remove" /\ msgs'[i].d = msgs[i].d
      BY <1>0, <1>5, <1>6, <1>9, AppendFacts
    <2>2. msgs[i].d # d
      BY <1>4, <2>1 DEF About
    <2>3. ASSUME NEW j \in 1..Len(msgs'), About(msgs'[j], msgs'[i].d) PROVE j <= i
      <3>1. j \in 1..Len(msgs) /\ About(msgs[j], msgs[i].d)
        BY <1>0, <1>5, <1>6, <2>1, <2>2, <2>3, AppendFacts DEF About
      <3>2. QED BY <2>1, <3>1 DEF UseInv, RemovedLast
    <2>4. \A u \in Timers : mTimer'[u] # msgs'[i].d
      BY <1>3, <2>1, <2>2 DEF UseInv, RemovedLast
    <2>5. QED BY <2>3, <2>4
  <1>10. QED BY <1>7, <1>8, <1>9 DEF UseInv, RemovedLast

LEMMA DestroyUse ==
    ASSUME TypeInv, UseInv, NEW t \in Timers, mTimer[t] # None, destroyLocked(t),
           heap' = heap, pc' = "popped" => pc = "popped" /\ popped' = popped
    PROVE  UseInv'
  <1>0. TypeOK BY DEF TypeInv
  <1> DEFINE m == [kind |-> "remove", d |-> mTimer[t]]
  <1>1. /\ mTimer' = [mTimer EXCEPT ![t] = None] /\ msgs' = Append(msgs, m)
        /\ life' = life /\ m.kind = "remove" /\ m.d = mTimer[t]
    BY DEF destroyLocked, sendMsg
  <1> HIDE DEF m
  <1>2. /\ mTimer'[t] = None
        /\ \A u \in Timers \ {t} : mTimer'[u] = mTimer[u] /\ mTimer[u] # mTimer[t]
        /\ mTimer[t] \in Delegates /\ None \notin Delegates
    BY <1>0, <1>1, LocTimerConstants DEF TypeOK, UseInv, OneTimer
  <1>3. LiveInUse'
    <2>1. ASSUME NEW i \in 1..Len(msgs'), msgs'[i].kind # "expire"
          PROVE  life'[msgs'[i].d] = "live"
      BY <1>0, <1>1, <2>1, AppendFacts DEF UseInv, LiveInUse
    <2>2. QED BY <1>1, <1>2, <2>1 DEF UseInv, LiveInUse
  <1>4. OneTimer'
    BY <1>2 DEF UseInv, OneTimer
  <1>5. ASSUME NEW i \in 1..Len(msgs'), msgs'[i].kind = "remove"
        PROVE  /\ \A j \in 1..Len(msgs') : About(msgs'[j], msgs'[i].d) => j <= i
               /\ \A u \in Timers : mTimer'[u] # msgs'[i].d
    <2>1. CASE i = Len(msgs) + 1
      <3>1. msgs'[i].d = mTimer[t]
        BY <1>0, <1>1, <2>1, AppendFacts
      <3>2. QED BY <1>0, <1>1, <1>2, <2>1, <3>1, AppendFacts
    <2>2. CASE i \in 1..Len(msgs)
      <3>1. msgs[i].kind = "remove" /\ msgs'[i].d = msgs[i].d /\ msgs[i].d \in Delegates
        BY <1>0, <1>1, <1>5, <2>2, AppendFacts, QueueType
      <3>2. msgs[i].d # mTimer[t]
        BY <2>2, <3>1 DEF UseInv, RemovedLast
      <3>3. ASSUME NEW j \in 1..Len(msgs'), About(msgs'[j], msgs'[i].d) PROVE j <= i
        <4>1. j \in 1..Len(msgs) /\ About(msgs[j], msgs[i].d)
          BY <1>0, <1>1, <3>1, <3>2, <3>3, AppendFacts DEF About
        <4>2. QED BY <2>2, <3>1, <4>1 DEF UseInv, RemovedLast
      <3>4. \A u \in Timers : mTimer'[u] # msgs'[i].d
        BY <1>2, <2>2, <3>1 DEF UseInv, RemovedLast
      <3>5. QED BY <3>3, <3>4
    <2>3. QED BY <1>0, <1>1, <2>1, <2>2, AppendFacts
  <1>6. QED BY <1>3, <1>4, <1>5 DEF UseInv, RemovedLast

(* A removal deletes the delegate: it leaves the heap, no message about it *)
(* follows, and no timer has it.                                           *)
LEMMA ProcMsgUse ==
    ASSUME TypeInv, UseInv, ProcMsg
    PROVE  UseInv'
  <1>0. TypeOK BY DEF TypeInv
  <1> DEFINE m == Head(msgs)
  <1>1. /\ m = msgs[1] /\ 1 \in 1..Len(msgs) /\ m \in Msg /\ Len(msgs) \in Nat
        /\ \A i \in 1..Len(msgs') : /\ msgs'[i] = msgs[i + 1] /\ i + 1 \in 1..Len(msgs)
                                     /\ i + 1 > 1 /\ i \in Int
    BY <1>0 DEF ProcMsg, TypeOK
  <1>2. mTimer' = mTimer
    BY DEF ProcMsg, timers
  <1>3. m.kind # "expire" => m.d \in Delegates /\ life[m.d] = "live"
    BY <1>0, <1>1, QueueType DEF UseInv, LiveInUse
  <1>4. /\ m.kind # "remove" => life' = life
        /\ m.kind = "remove" => /\ life' = [life EXCEPT ![m.d] = "deleted"]
                                /\ heap' = heap \ {m.d}
        /\ m.kind = "push" => heap' = heap \cup {m.d}
        /\ m.kind = "expire" => heap' \subseteq heap
        /\ pc' = "popped" => m.kind = "expire" /\ popped' \in heap
    BY DEF ProcMsg, MsgTimerPush, MsgTimerRemove, MsgTimerExpire, pop, tops, task
  <1>5. m.kind = "remove" =>
           /\ \A j \in 1..Len(msgs) : About(msgs[j], m.d) => j <= 1
           /\ \A t \in Timers : mTimer[t] # m.d
    BY <1>1 DEF UseInv, RemovedLast
  <1> HIDE DEF m
  <1>6. ASSUME NEW d \in Delegates, life[d] = "live", m.kind = "remove" => d # m.d
        PROVE  life'[d] = "live"
    BY <1>0, <1>3, <1>4, <1>6 DEF TypeOK
  <1>7. LiveInUse'
    <2>1. ASSUME NEW d \in heap' PROVE life'[d] = "live"
      <3>1. d \in Delegates /\ life[d] = "live" /\ (m.kind = "remove" => d # m.d)
        BY <1>0, <1>1, <1>3, <1>4 DEF UseInv, LiveInUse, TypeOK, Msg
      <3>2. QED BY <1>6, <3>1
    <2>2. ASSUME NEW i \in 1..Len(msgs'), msgs'[i].kind # "expire"
          PROVE  life'[msgs'[i].d] = "live"
      <3>1. msgs'[i].d \in Delegates /\ life[msgs'[i].d] = "live"
        BY <1>0, <1>1, <2>2, QueueType DEF UseInv, LiveInUse
      <3>2. m.kind = "remove" => msgs'[i].d # m.d
        BY <1>1, <1>5, <2>2 DEF About
      <3>3. QED BY <1>6, <3>1, <3>2
    <2>3. ASSUME NEW t \in Timers, mTimer'[t] # None PROVE life'[mTimer'[t]] = "live"
      <3>1. mTimer[t] \in Delegates /\ life[mTimer[t]] = "live"
        BY <1>0, <1>2, <2>3 DEF UseInv, LiveInUse, TypeOK
      <3>2. QED BY <1>2, <1>5, <1>6, <3>1
    <2>4. pc' = "popped" => life'[popped'] = "live"
      BY <1>0, <1>4 DEF UseInv, LiveInUse, TypeOK
    <2>5. QED BY <2>1, <2>2, <2>3, <2>4 DEF LiveInUse
  <1>8. OneTimer'
    BY <1>2 DEF UseInv, OneTimer
  <1>9. ASSUME NEW i \in 1..Len(msgs'), msgs'[i].kind = "remove"
        PROVE  /\ \A j \in 1..Len(msgs') : About(msgs'[j], msgs'[i].d) => j <= i
               /\ \A t \in Timers : mTimer'[t] # msgs'[i].d
    <2>1. /\ \A j \in 1..Len(msgs) : About(msgs[j], msgs[i + 1].d) => j <= i + 1
          /\ \A t \in Timers : mTimer[t] # msgs[i + 1].d
      BY <1>1, <1>9 DEF UseInv, RemovedLast
    <2>2. ASSUME NEW j \in 1..Len(msgs'), About(msgs'[j], msgs'[i].d) PROVE j <= i
      <3>1. j + 1 <= i + 1 BY <1>1, <2>1, <2>2
      <3>2. QED BY <1>1, <3>1
    <2>3. QED BY <1>1, <1>2, <2>1, <2>2
  <1>10. QED BY <1>7, <1>8, <1>9 DEF UseInv, RemovedLast

LEMMA NextUse == TypeInv /\ UseInv /\ [Next]_vars => UseInv'
  <1> SUFFICES ASSUME TypeInv, UseInv, [Next]_vars PROVE UseInv'
    OBVIOUS
  <1>0. TypeOK /\ TaskKnows BY DEF TypeInv
  <1>1. CASE \E t \in Timers, delay \in Delays : start(t, delay)
    BY <1>1, StartUse
  <1>2. CASE \E t \in Timers : stop(t)
    BY <1>2, DestroyUse DEF stop, task
  <1>3. CASE \E t \in Timers : delete(t)
    <2>1. PICK t \in Timers : delete(t) BY <1>3
    <2>2. UNCHANGED <<heap, task>> BY <2>1 DEF delete
    <2>3. CASE mTimer[t] = None
      BY <2>1, <2>2, <2>3, SameQueueUse DEF delete, delegates, task
    <2>4. CASE mTimer[t] # None
      BY <2>1, <2>2, <2>4, DestroyUse DEF delete, task
    <2>5. QED BY <2>3, <2>4
  <1>4. CASE ProcMsg
    BY <1>4, ProcMsgUse
  <1>5. CASE StopClient
    <2>1. pc' # "popped" /\ heap' = heap BY <1>5 DEF StopClient
    <2>2. CASE mTimer[client] = None
      BY <1>5, <2>1, <2>2, SameQueueUse DEF StopClient, delegates
    <2>3. CASE mTimer[client] # None
      BY <1>0, <1>5, <2>1, <2>3, DestroyUse DEF StopClient, TaskKnows
    <2>4. QED BY <2>2, <2>3
  <1>6. CASE ReadClient \/ TimeOutCallback
    <2>1. pc' # "popped" BY <1>6 DEF ReadClient, TimeOutCallback
    <2>2. QED
      BY <1>6, <2>1, SameQueueUse DEF ReadClient, TimeOutCallback, timers, delegates
  <1>7. CASE ExpireLoop
    BY <1>7, SameQueueUse DEF ExpireLoop, pop, tops, timers, delegates
  <1>8. CASE EpollWait \/ Disarm \/ RemovePoll \/ Tick
    BY <1>8, SameQueueUse DEF EpollWait, Disarm, RemovePoll, Tick, timers, delegates, task
  <1>9. CASE SendExpire
    <2> DEFINE m == [kind |-> "expire"]
    <2>1. /\ msgs' = Append(msgs, m) /\ m.kind = "expire"
          /\ UNCHANGED <<timers, delegates, heap, task>>
      BY <1>9 DEF SendExpire, sendMsg
    <2> HIDE DEF m
    <2>2. \A i \in 1..Len(msgs') : msgs'[i].kind # "expire" =>
              i \in 1..Len(msgs) /\ msgs'[i] = msgs[i]
      BY <1>0, <2>1, AppendFacts
    <2>3. LiveInUse' /\ OneTimer'
      BY <2>1, <2>2 DEF UseInv, LiveInUse, OneTimer, timers, delegates, task
    <2>4. RemovedLast'
      BY <2>1, <2>2 DEF UseInv, RemovedLast, About, timers
    <2>5. QED BY <2>3, <2>4 DEF UseInv
  <1>10. CASE UNCHANGED vars
    BY <1>10, SameQueueUse DEF vars, timers, delegates, task
  <1>11. QED
    BY <1>1, <1>2, <1>3, <1>4, <1>5, <1>6, <1>7, <1>8, <1>9, <1>10
    DEF Next, TaskStep, PollStep

(* No delegate that the heap, a message, a timer or the expiry still uses  *)
(* has been deleted: a client may stop or delete a timer while its expiry  *)
(* is under way, and either of the two sends the one removal.              *)
THEOREM DelegatesInUseLive == Spec => []NoneFreedInUse
  <1>1. Init => TypeInv BY InitInv
  <1>2. Init => UseInv
    BY DEF Init, UseInv, LiveInUse, OneTimer, RemovedLast
  <1>3. QED BY <1>1, <1>2, NextType, NextUse, UsedIsLive, PTL DEF Spec

-----------------------------------------------------------------------------
(* Odcpi *)

LEMMA QueueSteps ==
    ASSUME NEW S, NEW q \in Seq(S)
    PROVE  /\ \A x \in S : Append(q, x) \in Seq(S)
           /\ q # <<>> => Head(q) \in S /\ Tail(q) \in Seq(S)
  OBVIOUS

LEMMA AskedType ==
    ASSUME asked \in {0, 1}, ask \/ asked' = asked
    PROVE  asked' \in {0, 1}
  BY DEF ask

(* The adapter's thread; what it does depends on the kind of the message.  *)
LEMMA RequestType ==
    ASSUME OdcpiTypeOK, NEW m \in OdcpiMsg, m.kind \in {"start", "stop"}, requestOdcpi(m),
           adapterMsgs' \in Seq(OdcpiMsg)
    PROVE  OdcpiTypeOK'
  <1>1. CASE m.kind = "start" /\ startOdcpi(m.emergency)
    <2>1. m.emergency \in BOOLEAN
      BY <1>1 DEF OdcpiMsg
    <2>2. \/ timerStart /\ ask
          \/ UNCHANGED <<timer, asked>>
      BY <1>1 DEF startOdcpi
    <2>3. asked' \in {0, 1}
      BY <2>2, AskedType DEF OdcpiTypeOK
    <2>4. mActive' \in BOOLEAN /\ running' \in BOOLEAN
      BY <2>2 DEF timerStart, timer, OdcpiTypeOK
    <2>5. QED
      BY <1>1, <2>1, <2>3, <2>4 DEF startOdcpi, OdcpiTypeOK
  <1>2. CASE stopOdcpi
    BY <1>2 DEF stopOdcpi, timer, OdcpiTypeOK
  <1>3. CASE UNCHANGED <<mOdcpiRequestCb, mOdcpiRequestActive, isEmergencyMode, timer, asked>>
    BY <1>3 DEF timer, OdcpiTypeOK
  <1>4. QED BY <1>1, <1>2, <1>3 DEF requestOdcpi

LEMMA ProcOdcpiMsgType ==
    ASSUME OdcpiTypeOK, ProcOdcpiMsg
    PROVE  OdcpiTypeOK'
  <1>1. Head(adapterMsgs) \in OdcpiMsg /\ adapterMsgs' \in Seq(OdcpiMsg)
    BY QueueSteps DEF OdcpiTypeOK, ProcOdcpiMsg
  <1>2. CASE Head(adapterMsgs).kind \in {"start", "stop"} /\ requestOdcpi(Head(adapterMsgs))
    BY <1>1, <1>2, RequestType
  <1>3. CASE odcpiTimerExpire
    <2>1. asked' \in {0, 1}
      BY <1>3, AskedType DEF odcpiTimerExpire, OdcpiTypeOK
    <2>2. mActive' \in BOOLEAN /\ running' \in BOOLEAN
      BY <1>3 DEF odcpiTimerExpire, timerStart, timerStop
    <2>3. QED BY <1>1, <1>3, <2>1, <2>2 DEF odcpiTimerExpire, OdcpiTypeOK
  <1>4. CASE /\ mOdcpiRequestCb' = TRUE
             /\ UNCHANGED <<mOdcpiRequestActive, isEmergencyMode, timer, asked>>
    BY <1>1, <1>4 DEF timer, OdcpiTypeOK
  <1>5. CASE /\ mOdcpiRequestActive' = FALSE
             /\ UNCHANGED <<mOdcpiRequestCb, isEmergencyMode, timer, asked>>
    BY <1>1, <1>5 DEF timer, OdcpiTypeOK
  <1>6. QED BY <1>2, <1>3, <1>4, <1>5 DEF ProcOdcpiMsg

LEMMA OdcpiInitType == OdcpiInit => OdcpiTypeOK
  <1>1. OdcpiInit => adapterMsgs \in Seq(OdcpiMsg)
    BY DEF OdcpiInit
  <1>2. OdcpiInit => asked \in {0, 1}
    BY DEF OdcpiInit
  <1>3. QED BY <1>1, <1>2, Zenon DEF OdcpiInit, OdcpiTypeOK

LEMMA OdcpiNextType == OdcpiTypeOK /\ [OdcpiNext]_odcpiVars => OdcpiTypeOK'
  <1> SUFFICES ASSUME OdcpiTypeOK, [OdcpiNext]_odcpiVars PROVE OdcpiTypeOK'
    OBVIOUS
  <1>1. CASE ProcOdcpiMsg
    BY <1>1, ProcOdcpiMsgType
  <1>2. CASE odcpiTimerExpireEvent
    <2>1. [kind |-> "expire"] \in OdcpiMsg BY DEF OdcpiMsg
    <2>2. QED
      BY <1>2, <2>1, QueueSteps DEF odcpiTimerExpireEvent, sendAdapterMsg, OdcpiTypeOK
  <1>3. CASE \E m \in Events : Event(m)
    <2>1. PICK m \in Events : Event(m) BY <1>3
    <2>2. m \in OdcpiMsg BY OdcpiConstants DEF Events, OdcpiMsg
    <2>3. QED BY <2>1, <2>2, QueueSteps DEF Event, sendAdapterMsg, timer, OdcpiTypeOK
  <1>4. CASE UNCHANGED odcpiVars
    BY <1>4 DEF odcpiVars, timer, OdcpiTypeOK
  <1>5. QED BY <1>1, <1>2, <1>3, <1>4 DEF OdcpiNext

(* Every variable of Odcpi keeps its type.                                 *)
THEOREM OdcpiTypeCorrect == OdcpiSpec => []OdcpiTypeOK
  <1> QED BY OdcpiInitType, OdcpiNextType, PTL DEF OdcpiSpec

-----------------------------------------------------------------------------
(* An expiry in the queue stays there until it is handled.                 *)
LEMMA SentExpires ==
    ASSUME OdcpiTypeOK, NEW m, sendAdapterMsg(m), Expiring \/ m.kind = "expire"
    PROVE  Expiring'
  <1>1. /\ Len(adapterMsgs') = Len(adapterMsgs) + 1 /\ adapterMsgs'[Len(adapterMsgs) + 1] = m /\ Len(adapterMsgs) \in Nat
        /\ \A i \in 1..Len(adapterMsgs) : adapterMsgs'[i] = adapterMsgs[i]
    BY DEF sendAdapterMsg, OdcpiTypeOK
  <1>2. CASE m.kind = "expire"
    <2>1. Len(adapterMsgs) + 1 \in 1..Len(adapterMsgs') BY <1>1
    <2>2. QED BY <1>1, <1>2, <2>1 DEF Expiring
  <1>3. CASE Expiring
    <2>1. PICK i \in 1..Len(adapterMsgs) : adapterMsgs[i].kind = "expire" BY <1>3 DEF Expiring
    <2>2. i \in 1..Len(adapterMsgs') BY <1>1
    <2>3. QED BY <1>1, <2>1, <2>2 DEF Expiring
  <1>4. QED BY <1>2, <1>3

LEMMA TakenExpires ==
    ASSUME OdcpiTypeOK, adapterMsgs # <<>>, adapterMsgs' = Tail(adapterMsgs), Expiring, Head(adapterMsgs).kind # "expire"
    PROVE  Expiring'
  <1>1. PICK i \in 1..Len(adapterMsgs) : adapterMsgs[i].kind = "expire" BY DEF Expiring
  <1>2. i # 1 BY <1>1
  <1>3. i - 1 \in 1..Len(adapterMsgs') /\ adapterMsgs'[i - 1] = adapterMsgs[i]
    BY <1>1, <1>2 DEF OdcpiTypeOK
  <1>4. QED BY <1>1, <1>3 DEF Expiring

(* Each case of ODCPI_REQUEST_TYPE_START leaves the timer counting as      *)
(* active, and starts it unless it did so already.                         *)
LEMMA StartKeeps ==
    ASSUME OdcpiTypeOK, TimerExpires, NEW emergency, startOdcpi(emergency), Expiring => Expiring'
    PROVE  TimerExpires'
  <1>1. CASE timerStart
    BY <1>1 DEF timerStart, TimerExpires
  <1>2. CASE ~begin /\ UNCHANGED <<timer, asked>>
    BY <1>2 DEF begin, timer, TimerExpires
  <1>3. QED BY <1>1, <1>2 DEF startOdcpi

(* So does what leaves the timer alone and begins no session.              *)
LEMMA UntouchedKeeps ==
    ASSUME TimerExpires, UNCHANGED timer, mOdcpiRequestActive' => mOdcpiRequestActive,
           Expiring => Expiring'
    PROVE  TimerExpires'
  <1>1. mActive' = mActive /\ running' = running
    BY DEF timer
  <1>2. QED BY <1>1, Zenon DEF TimerExpires

LEMMA ProcOdcpiMsgKeeps ==
    ASSUME OdcpiTypeOK, TimerExpires, ProcOdcpiMsg
    PROVE  TimerExpires'
  <1> DEFINE m == Head(adapterMsgs)
  <1>1. m.kind # "expire" /\ Expiring => Expiring'
    BY TakenExpires DEF ProcOdcpiMsg
  <1>2. CASE m.kind \in {"start", "stop"} /\ requestOdcpi(m)
    <2>1. CASE startOdcpi(m.emergency)
      BY <1>1, <1>2, <2>1, StartKeeps
    <2>2. CASE (mOdcpiRequestActive' => mOdcpiRequestActive) /\ UNCHANGED timer
      BY <1>1, <1>2, <2>2, UntouchedKeeps
    <2>3. QED BY <1>2, <2>1, <2>2 DEF requestOdcpi, stopOdcpi
  <1>3. CASE odcpiTimerExpire
    BY <1>3 DEF odcpiTimerExpire, timerStart, timerStop, TimerExpires
  <1>4. CASE m.kind \in {"init", "restart"} /\ UNCHANGED timer
             /\ (mOdcpiRequestActive' => mOdcpiRequestActive)
    BY <1>1, <1>4, UntouchedKeeps
  <1>5. QED BY <1>2, <1>3, <1>4 DEF ProcOdcpiMsg

LEMMA OdcpiNextKeeps == OdcpiTypeOK /\ TimerExpires /\ [OdcpiNext]_odcpiVars => TimerExpires'
  <1> SUFFICES ASSUME OdcpiTypeOK, TimerExpires, [OdcpiNext]_odcpiVars PROVE TimerExpires'
    OBVIOUS
  <1>1. CASE ProcOdcpiMsg
    BY <1>1, ProcOdcpiMsgKeeps
  <1>2. CASE odcpiTimerExpireEvent
    <2>1. Expiring' BY <1>2, SentExpires DEF odcpiTimerExpireEvent
    <2>2. QED BY <1>2, <2>1 DEF odcpiTimerExpireEvent, TimerExpires
  <1>3. CASE \E m \in Events : Event(m)
    <2>1. PICK m \in Events : Event(m) BY <1>3
    <2>2. Expiring => Expiring' BY <2>1, SentExpires DEF Event
    <2>3. QED BY <2>1, <2>2 DEF Event, timer, TimerExpires
  <1>4. CASE UNCHANGED odcpiVars
    BY <1>4 DEF odcpiVars, timer, TimerExpires, Expiring
  <1>5. QED BY <1>1, <1>2, <1>3, <1>4 DEF OdcpiNext

(* A timer that counts as active runs or has its expiry in the queue, so   *)
(* that a session is never left without the next request to the framework. *)
THEOREM TimerNeverStuck == OdcpiSpec => []TimerExpires
  <1>1. OdcpiInit => TimerExpires
    BY DEF OdcpiInit, TimerExpires
  <1>2. QED BY <1>1, OdcpiInitType, OdcpiNextType, OdcpiNextKeeps, PTL DEF OdcpiSpec
=============================================================================
