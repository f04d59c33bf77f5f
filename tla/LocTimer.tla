------------------------------ MODULE LocTimer ------------------------------
(***************************************************************************)
(* The timer service of the location stack (gps/utils/LocTimer.cpp).       *)
(* A LocTimer has a delegate while it runs.  The delegates of a container  *)
(* are kept in a heap, which only the message thread touches; the soonest  *)
(* of them is the time of a timerfd, on which the poll thread waits.  The  *)
(* clients' threads start, stop and delete timers; both of the service's   *)
(* threads and all clients meet in the message queue, the timerfd and the  *)
(* delegates.                                                              *)
(*                                                                         *)
(* The heap is a set here, its top any of the soonest (LocHeap has the     *)
(* tree).  Only one of the two containers is modelled.                     *)
(***************************************************************************)
EXTENDS Naturals, Sequences

CONSTANTS
    Timers,      \* LocTimer objects
    Delegates,   \* LocTimerDelegate objects, one for each start
    Delays,      \* time outs that clients ask for
    MayDelete,   \* timers whose owner may delete them
    MaxTime,     \* bound on the clock and the times asked for
    None         \* NULL, and a timerfd that is not set

ASSUME LocTimerConstants ==
    /\ Delays \subseteq Nat
    /\ MaxTime \in Nat
    /\ MayDelete \subseteq Timers
    /\ None \notin Timers \cup Delegates \cup Nat

VARIABLES
    now,        \* CLOCK_BOOTTIME
    mTimer,     \* the delegate of a timer
    deleted,    \* timers that were deleted
    mClient,    \* the timer of a delegate
    mFutureTime,
    life,       \* is the delegate allocated?
    heap,       \* LocTimerContainer
    msgs,       \* queue of the message thread
    pc, popped, client, timerOfNow,  \* the message thread in MsgTimerExpire
    fd,         \* the time of the timerfd
    polled,     \* is it in the epoll set?
    poll        \* the poll thread in LocTimerContainer::expire

timers == <<mTimer, deleted>>
delegates == <<mClient, mFutureTime, life>>
task == <<pc, popped, client, timerOfNow>>
kernel == <<fd, polled>>
vars == <<now, timers, delegates, heap, msgs, task, kernel, poll>>

Msg == [kind : {"push", "remove"}, d : Delegates] \cup [kind : {"expire"}]

TypeOK ==
    /\ now \in Nat
    /\ mTimer \in [Timers -> Delegates \cup {None}]
    /\ deleted \subseteq Timers
    /\ mClient \in [Delegates -> Timers \cup {None}]
    /\ mFutureTime \in [Delegates -> Nat]
    /\ life \in [Delegates -> {"unborn", "live", "deleted"}]
    /\ heap \subseteq Delegates
    /\ msgs \in Seq(Msg)
    /\ pc \in {"idle", "popped", "holding", "calling", "loop"}
    /\ popped \in Delegates \cup {None}
    /\ client \in Timers \cup {None}
    /\ timerOfNow \in Nat
    /\ fd \in Nat \cup {None}
    /\ polled \in BOOLEAN
    /\ poll \in {"wait", "settime", "removePoll", "send"}

Init ==
    /\ now = 0
    /\ mTimer = [t \in Timers |-> None] /\ deleted = {}
    /\ mClient = [d \in Delegates |-> None]
    /\ mFutureTime = [d \in Delegates |-> 0]
    /\ life = [d \in Delegates |-> "unborn"]
    /\ heap = {} /\ msgs = <<>>
    /\ pc = "idle" /\ popped = None /\ client = None /\ timerOfNow = 0
    /\ fd = None /\ polled = FALSE /\ poll = "wait"

-----------------------------------------------------------------------------
(* The client's threads; each holds the timer's lock. *)

sendMsg(m) == msgs' = Append(msgs, m)

start(t, delay) ==
    /\ t \notin deleted /\ mTimer[t] = None
    /\ now + delay <= MaxTime
    /\ \E d \in Delegates :
          /\ life[d] = "unborn"
          /\ life' = [life EXCEPT ![d] = "live"]
          /\ mClient' = [mClient EXCEPT ![d] = t]
          /\ mFutureTime' = [mFutureTime EXCEPT ![d] = now + delay]
          /\ mTimer' = [mTimer EXCEPT ![t] = d]
          /\ sendMsg([kind |-> "push", d |-> d])
    /\ UNCHANGED <<now, deleted, heap, task, kernel, poll>>

(* The delegate of a timer lets go of it and will be removed. *)
destroyLocked(t) ==
    /\ mTimer' = [mTimer EXCEPT ![t] = None]
    /\ mClient' = [mClient EXCEPT ![mTimer[t]] = None]
    /\ sendMsg([kind |-> "remove", d |-> mTimer[t]])
    /\ UNCHANGED <<mFutureTime, life>>

stop(t) ==
    /\ t \notin deleted /\ mTimer[t] # None
    /\ destroyLocked(t)
    /\ UNCHANGED <<now, deleted, heap, task, kernel, poll>>

delete(t) ==
    /\ t \in MayDelete \ deleted
    /\ deleted' = deleted \cup {t}
    /\ IF mTimer[t] = None THEN UNCHANGED <<mTimer, delegates, msgs>>
       ELSE destroyLocked(t)
    /\ UNCHANGED <<now, heap, task, kernel, poll>>

-----------------------------------------------------------------------------
(* The message thread. *)

(* The tops a heap of this content may have. *)
tops(H) == {d \in H : \A e \in H : mFutureTime[d] <= mFutureTime[e]}

setTime(H) == /\ polled' = TRUE
              /\ \E d \in tops(H) : fd' = mFutureTime[d]

(* updateSoonestTime(NULL) *)
updateSoonestTime(H) == IF H = {} THEN UNCHANGED kernel ELSE setTime(H)

(* Mutant: a timer pushed into an empty heap does not set the time. *)
MsgTimerPushOnlySooner(d) ==
    /\ heap' = heap \cup {d}
    /\ IF heap # {} /\ \A e \in heap : mFutureTime[d] < mFutureTime[e]
       THEN setTime({d}) ELSE UNCHANGED kernel
    /\ UNCHANGED <<life, task>>

MsgTimerPush(d) ==
    /\ heap' = heap \cup {d}
    /\ IF \A e \in heap : mFutureTime[d] < mFutureTime[e]
       THEN setTime({d}) ELSE UNCHANGED kernel
    /\ UNCHANGED <<life, task>>

(* Mutant: a timer that is not on top is left in the heap. *)
MsgTimerRemoveOnlyTop(d) ==
    /\ IF d \in tops(heap)
       THEN heap' = heap \ {d} /\ updateSoonestTime(heap \ {d})
       ELSE UNCHANGED <<heap, kernel>>
    /\ life' = [life EXCEPT ![d] = "deleted"]
    /\ UNCHANGED task

MsgTimerRemove(d) ==
    /\ heap' = heap \ {d}
    /\ \/ d \in tops(heap) /\ updateSoonestTime(heap \ {d})
       \/ tops(heap) # {d} /\ UNCHANGED kernel
    /\ life' = [life EXCEPT ![d] = "deleted"]
    /\ UNCHANGED task

pop == \E d \in tops(heap) :
           /\ heap' = heap \ {d} /\ popped' = d
           /\ pc' = "popped"
           /\ UNCHANGED kernel

(* The first pop does not ask whether the timer is due. *)
MsgTimerExpire ==
    /\ timerOfNow' = now
    /\ \/ pop
       \/ heap = {} /\ UNCHANGED <<heap, pc, popped, kernel>>
    /\ UNCHANGED <<life, client>>

ProcMsg ==
    /\ pc = "idle" /\ msgs # <<>>
    /\ msgs' = Tail(msgs)
    /\ LET m == Head(msgs) IN
       \/ m.kind = "push" /\ MsgTimerPush(m.d)
       \/ m.kind = "remove" /\ MsgTimerRemove(m.d)
       \/ m.kind = "expire" /\ MsgTimerExpire
    /\ UNCHANGED <<now, timers, mClient, mFutureTime, poll>>

(* LocTimerDelegate::expire: the client is read without its lock, ... *)
ReadClient ==
    /\ pc = "popped"
    /\ client' = mClient[popped]
    /\ pc' = IF client' = None THEN "loop" ELSE "holding"
    /\ UNCHANGED <<now, timers, delegates, heap, msgs, popped, timerOfNow, kernel, poll>>

(* ... stopped, with whatever delegate it has by now, ... *)
StopClient ==
    /\ pc = "holding"
    /\ IF mTimer[client] = None
       THEN /\ pc' = "loop"
            /\ UNCHANGED <<mTimer, delegates, msgs>>
       ELSE /\ pc' = "calling"
            /\ destroyLocked(client)
    /\ UNCHANGED <<now, deleted, heap, popped, client, timerOfNow, kernel, poll>>

(* ... and called back. *)
TimeOutCallback ==
    /\ pc = "calling" /\ pc' = "loop"
    /\ UNCHANGED <<now, timers, delegates, heap, msgs, popped, client, timerOfNow,
                   kernel, poll>>

(* Mutant: the time is not set when the loop ends. *)
ExpireLoopNoUpdate ==
    /\ pc = "loop"
    /\ \/ /\ \E d \in tops(heap) : mFutureTime[d] <= timerOfNow
          /\ pop
       \/ /\ \A d \in heap : mFutureTime[d] > timerOfNow
          /\ pc' = "idle"
          /\ UNCHANGED <<heap, popped, kernel>>
    /\ UNCHANGED <<now, timers, delegates, msgs, client, timerOfNow, poll>>

ExpireLoop ==
    /\ pc = "loop"
    /\ \/ /\ \E d \in tops(heap) : mFutureTime[d] <= timerOfNow
          /\ pop
       \/ /\ \A d \in heap : mFutureTime[d] > timerOfNow
          /\ updateSoonestTime(heap)
          /\ pc' = "idle"
          /\ UNCHANGED <<heap, popped>>
    /\ UNCHANGED <<now, timers, delegates, msgs, client, timerOfNow, poll>>

TaskStep == ProcMsg \/ ReadClient \/ StopClient \/ TimeOutCallback \/ ExpireLoop

-----------------------------------------------------------------------------
(* The poll thread. *)

EpollWait ==
    /\ poll = "wait" /\ polled /\ fd # None /\ fd <= now
    /\ poll' = "settime"
    /\ UNCHANGED <<now, timers, delegates, heap, msgs, task, kernel>>

Disarm ==
    /\ poll = "settime" /\ poll' = "removePoll"
    /\ fd' = None
    /\ UNCHANGED <<now, timers, delegates, heap, msgs, task, polled>>

RemovePoll ==
    /\ poll = "removePoll" /\ poll' = "send"
    /\ polled' = FALSE
    /\ UNCHANGED <<now, timers, delegates, heap, msgs, task, fd>>

SendExpire ==
    /\ poll = "send" /\ poll' = "wait"
    /\ sendMsg([kind |-> "expire"])
    /\ UNCHANGED <<now, timers, delegates, heap, task, kernel>>

PollStep == EpollWait \/ Disarm \/ RemovePoll \/ SendExpire

-----------------------------------------------------------------------------
Tick ==
    /\ now < MaxTime /\ now' = now + 1
    /\ UNCHANGED <<timers, delegates, heap, msgs, task, kernel, poll>>

Next ==
    \/ TaskStep \/ PollStep \/ Tick
    \/ \E t \in Timers :
          \/ \E delay \in Delays : start(t, delay)
          \/ stop(t)
          \/ delete(t)

(* The threads run, and time passes. *)
Fairness == WF_vars(TaskStep) /\ WF_vars(PollStep) /\ WF_vars(Tick)

Spec == Init /\ [][Next]_vars
FairSpec == Spec /\ Fairness
-----------------------------------------------------------------------------
(* A timer in the heap cannot be forgotten: the timerfd is set to go off   *)
(* in time for the soonest and the poll thread waits on it, or an expiry   *)
(* is on its way, which looks at the heap and sets the time again.  The    *)
(* poll thread and the message thread both write the timerfd, unlocked.    *)
ExpiryComing == \/ poll # "wait"
                \/ \E i \in 1..Len(msgs) : msgs[i].kind = "expire"
                \/ pc # "idle"
Armed == polled /\ fd # None /\ \A d \in heap : fd <= mFutureTime[d]
NoTimerForgotten == heap # {} => Armed \/ ExpiryComing

(* "all timers are deleted here, and only here" (LocTimer.cpp:347): a      *)
(* delegate that the heap, a message, its timer or the expiry still uses   *)
(* has not been deleted.                                                   *)
NoneFreedInUse ==
    LET used == heap \cup {msgs[i].d : i \in {j \in 1..Len(msgs) : msgs[j].kind # "expire"}}
                \cup {mTimer[t] : t \in Timers}
                \cup (IF pc = "popped" THEN {popped} ELSE {})
    IN \A d \in used \ {None} : life[d] = "live"

(* Every delegate is removed and deleted, when it is stopped or has        *)
(* expired, and a timer that was not stopped calls back.                   *)
EveryDelegateEnds == \A d \in Delegates : life[d] = "live" ~> life[d] = "deleted"

=============================================================================
