-------------------------------- MODULE Odcpi --------------------------------
(***************************************************************************)
(* On demand coarse position injection (gps/gnss/GnssAdapter.cpp).  The    *)
(* modem starts and stops a session; while it is on, the framework is      *)
(* asked for a position every time OdcpiTimer expires, and not more often. *)
(* The timer's thread posts its expiry to the adapter's thread, where it   *)
(* may arrive after the timer was started again.                           *)
(***************************************************************************)
EXTENDS Naturals, Sequences

CONSTANTS
    Emergency,   \* values of isEmergencyMode that the modem may ask with
    MaxMsgs      \* bound on the queue, for what the modem sends

ASSUME OdcpiConstants == Emergency \subseteq BOOLEAN /\ MaxMsgs \in Nat

VARIABLES
    mOdcpiRequestCb,     \* was the callback set?
    mOdcpiRequestActive,
    isEmergencyMode,     \* mOdcpiRequest
    mActive,             \* OdcpiTimer
    running,             \* its LocTimer
    adapterMsgs,         \* message queue of the adapter's thread
    asked                \* parity of the requests made to the framework

timer == <<mActive, running>>
odcpiVars == <<mOdcpiRequestCb, mOdcpiRequestActive, isEmergencyMode, timer, adapterMsgs, asked>>

OdcpiMsg == [kind : {"init", "stop", "expire", "restart"}]
       \cup [kind : {"start"}, emergency : BOOLEAN]

OdcpiTypeOK ==
    /\ mOdcpiRequestCb \in BOOLEAN
    /\ mOdcpiRequestActive \in BOOLEAN
    /\ isEmergencyMode \in BOOLEAN
    /\ mActive \in BOOLEAN
    /\ running \in BOOLEAN
    /\ adapterMsgs \in Seq(OdcpiMsg)
    /\ asked \in {0, 1}

OdcpiInit ==
    /\ mOdcpiRequestCb = FALSE
    /\ mOdcpiRequestActive = FALSE
    /\ isEmergencyMode = FALSE
    /\ mActive = FALSE /\ running = FALSE
    /\ adapterMsgs = <<>>
    /\ asked = 0

-----------------------------------------------------------------------------
(* OdcpiTimer, and the callback to the framework. *)

timerStart == mActive' = TRUE /\ running' = TRUE
timerStop == mActive' = FALSE /\ running' = FALSE

ask == asked' = 1 - asked

(* The three cases of ODCPI_REQUEST_TYPE_START. *)
begin == ~mOdcpiRequestActive /\ ~mActive
upgrade(emergency) == ~begin /\ ~isEmergencyMode /\ emergency

startOdcpi(emergency) ==
    /\ \/ (begin \/ upgrade(emergency)) /\ ask /\ timerStart
       \/ ~begin /\ ~upgrade(emergency) /\ UNCHANGED <<timer, asked>>
    /\ mOdcpiRequestActive' = TRUE
    /\ isEmergencyMode' = emergency
    /\ UNCHANGED mOdcpiRequestCb

(* The timer goes on: another request may come soon. *)
stopOdcpi ==
    /\ mOdcpiRequestActive' = FALSE
    /\ UNCHANGED <<mOdcpiRequestCb, isEmergencyMode, timer, asked>>

requestOdcpi(m) ==
    \/ mOdcpiRequestCb /\ m.kind = "start" /\ startOdcpi(m.emergency)
    \/ mOdcpiRequestCb /\ m.kind = "stop" /\ stopOdcpi
    \/ /\ ~mOdcpiRequestCb
       /\ UNCHANGED <<mOdcpiRequestCb, mOdcpiRequestActive, isEmergencyMode, timer, asked>>

(* Mutant: the timer is not started again. *)
odcpiTimerExpireOnce ==
    /\ IF mOdcpiRequestActive THEN ask ELSE UNCHANGED asked
    /\ timerStop
    /\ UNCHANGED <<mOdcpiRequestCb, mOdcpiRequestActive, isEmergencyMode>>

(* Mutant: the timer of a session that is over still counts as active. *)
odcpiTimerExpireNoStop ==
    /\ \/ mOdcpiRequestActive /\ ask /\ timerStart
       \/ ~mOdcpiRequestActive /\ UNCHANGED <<timer, asked>>
    /\ UNCHANGED <<mOdcpiRequestCb, mOdcpiRequestActive, isEmergencyMode>>

odcpiTimerExpire ==
    /\ \/ mOdcpiRequestActive /\ ask /\ timerStart
       \/ ~mOdcpiRequestActive /\ timerStop /\ UNCHANGED asked
    /\ UNCHANGED <<mOdcpiRequestCb, mOdcpiRequestActive, isEmergencyMode>>

ProcOdcpiMsg ==
    /\ adapterMsgs # <<>> /\ adapterMsgs' = Tail(adapterMsgs)
    /\ LET m == Head(adapterMsgs) IN
       \/ m.kind \in {"start", "stop"} /\ requestOdcpi(m)
       \/ m.kind = "expire" /\ odcpiTimerExpire
       \/ /\ m.kind = "init" /\ mOdcpiRequestCb' = TRUE
          /\ UNCHANGED <<mOdcpiRequestActive, isEmergencyMode, timer, asked>>
       \/ /\ m.kind = "restart" /\ mOdcpiRequestActive' = FALSE
          /\ UNCHANGED <<mOdcpiRequestCb, isEmergencyMode, timer, asked>>

-----------------------------------------------------------------------------
sendAdapterMsg(m) == adapterMsgs' = Append(adapterMsgs, m)

(* The timer's thread. *)
odcpiTimerExpireEvent ==
    /\ running /\ running' = FALSE
    /\ sendAdapterMsg([kind |-> "expire"])
    /\ UNCHANGED <<mOdcpiRequestCb, mOdcpiRequestActive, isEmergencyMode, mActive, asked>>

(* The modem, which may restart, and the framework. *)
Events == [kind : {"stop", "restart", "init"}] \cup [kind : {"start"}, emergency : Emergency]
Event(m) ==
    /\ Len(adapterMsgs) < MaxMsgs
    /\ sendAdapterMsg(m)
    /\ UNCHANGED <<mOdcpiRequestCb, mOdcpiRequestActive, isEmergencyMode, timer, asked>>

OdcpiNext == ProcOdcpiMsg \/ odcpiTimerExpireEvent \/ \E m \in Events : Event(m)

OdcpiSpec == OdcpiInit /\ [][OdcpiNext]_odcpiVars

(* The adapter's thread and the timer's thread run. *)
OdcpiFairSpec == OdcpiSpec /\ WF_odcpiVars(ProcOdcpiMsg) /\ WF_odcpiVars(odcpiTimerExpireEvent)
-----------------------------------------------------------------------------
(* A timer that counts as active expires: it runs, or its expiry is in the *)
(* queue.  Otherwise no request would reach the framework any more, since  *)
(* each would wait for that expiry.  Expiries that come after the timer    *)
(* was stopped or started again do not break this.                         *)
Expiring == \E i \in 1..Len(adapterMsgs) : adapterMsgs[i].kind = "expire"
TimerExpires == /\ mActive => running \/ Expiring
                /\ running \/ mOdcpiRequestActive => mActive

(* "extending the odcpi session past 30 seconds if needed" (GnssAdapter.cpp*)
(* :3976): the framework is asked again and again while a session is on.   *)
SessionExtended ==
    \A n \in {0, 1} : mOdcpiRequestActive /\ asked = n ~> ~mOdcpiRequestActive \/ asked # n
=============================================================================
