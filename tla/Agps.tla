-------------------------------- MODULE Agps --------------------------------
(***************************************************************************)
(* The AGPS manager of the GNSS HAL (gps/gnss/Agps.cpp): one state machine *)
(* per network interface (nif) sets up a data connection through the       *)
(* Android framework for the ATL ("assisted transport link") requests of   *)
(* the modem.  Modem and framework calls are posted to the message queue   *)
(* of GnssAdapter and handled one at a time by its thread; the framework   *)
(* answers the commands it is sent in its own time.                        *)
(*                                                                         *)
(* Of a subscriber the list keeps its handle; APN, bearer, and the APN     *)
(* type (which only selects the nif) are data nothing below depends on.    *)
(***************************************************************************)
EXTENDS Naturals, Sequences, FiniteSets

CONSTANTS
    Handles,       \* connection handles of the modem
    Nifs,          \* state machines there can be: AGNSS and INTERNET
    WaitForClose,  \* handles whose subscriber has mWaitForCloseComplete
    StaleReads,    \* handles the freed subscriber may read as in deleteSubscriber
    BadApn,        \* nifs for which the framework may report an APN of illegal length
    MaxMsgs,       \* the modem sends nothing while that many messages wait
    MaxCmds        \* bound on the commands the framework has not handled

ASSUME AgpsConstants == /\ WaitForClose \subseteq Handles
                        /\ StaleReads \subseteq Handles
                        /\ BadApn \subseteq Nifs

VARIABLES
    nifs,      \* mAgnssNif and mInternetNif that are not NULL
    state,     \* mState of each state machine
    subs,      \* mSubscriberList of each state machine
    inactive,  \* its subscribers with mIsInactive
    told,      \* its subscribers last told "open" through mAtlOpenStatusCb
    msgs,      \* the message queue of GnssAdapter
    toFw,      \* per nif, commands of mFrameworkStatusV4Cb not yet handled
    conn,      \* the framework's data connection of each nif
    atl        \* the modem's view of each handle

smVars == <<state, subs, inactive, told>>
vars == <<nifs, state, subs, inactive, told, msgs, toFw, conn, atl>>

AgpsState == {"RELEASED", "PENDING", "ACQUIRED", "RELEASING"}
Conn == {"closed", "opening", "open"}
Atl == {"idle", "asked", "closing"}

Msg == [kind : {"requestATL"}, h : Handles, n : Nifs]
       \cup [kind : {"releaseATL"}, h : Handles]
       \cup [kind : {"granted", "denied", "closed"}, n : Nifs]

TypeOK ==
    /\ nifs \subseteq Nifs
    /\ state \in [Nifs -> AgpsState]
    /\ subs \in [Nifs -> SUBSET Handles]
    /\ inactive \in [Nifs -> SUBSET Handles]
    /\ told \in [Nifs -> SUBSET Handles]
    /\ msgs \in Seq(Msg)
    /\ toFw \in [Nifs -> Seq({"REQUEST", "RELEASE"})]
    /\ conn \in [Nifs -> Conn]
    /\ atl \in [Handles -> Atl]

Init ==
    /\ nifs = {}
    /\ state = [n \in Nifs |-> "RELEASED"]
    /\ subs = [n \in Nifs |-> {}]
    /\ inactive = [n \in Nifs |-> {}]
    /\ told = [n \in Nifs |-> {}]
    /\ msgs = <<>>
    /\ toFw = [n \in Nifs |-> <<>>]
    /\ conn = [n \in Nifs |-> "closed"]
    /\ atl = [h \in Handles |-> "idle"]

-----------------------------------------------------------------------------
(* What the state machine calls. *)

anyActiveSubscribers(n) == subs[n] \ inactive[n] # {}

requestOrReleaseDataConn(n, command) ==
    toFw' = [toFw EXCEPT ![n] = Append(@, command)]

(* mAtlOpenStatusCb(h, 0, ..) or mAtlCloseStatusCb(h, 1) for each h in H:  *)
(* either way the modem's link is gone.                                    *)
notifyGone(H) == atl' = [h \in Handles |-> IF h \in H THEN "idle" ELSE atl[h]]

transitionState(n, newState) == state' = [state EXCEPT ![n] = newState]

(* The list after subscribers H of n are erased and deleted. *)
eraseSubscribers(n, H) ==
    /\ subs' = [subs EXCEPT ![n] = @ \ H]
    /\ inactive' = [inactive EXCEPT ![n] = @ \ H]
    /\ told' = [told EXCEPT ![n] = @ \ H]

-----------------------------------------------------------------------------
(* The five events of processAgpsEvent. *)

(* Mutant: a subscriber that comes while RELEASING is not added. *)
subscribeNotWhileReleasing(n, h) ==
    /\ subs' = IF state[n] = "RELEASING" THEN subs ELSE [subs EXCEPT ![n] = @ \cup {h}]
    /\ UNCHANGED <<inactive, atl>>
    /\ told' = [told EXCEPT ![n] = IF state[n] = "ACQUIRED" THEN @ \cup {h} ELSE @]
    /\ IF state[n] = "RELEASED"
       THEN requestOrReleaseDataConn(n, "REQUEST") /\ transitionState(n, "PENDING")
       ELSE UNCHANGED <<state, toFw>>

processAgpsEventSubscribe(n, h) ==
    /\ subs' = [subs EXCEPT ![n] = @ \cup {h}]
    /\ UNCHANGED <<inactive, atl>>
    /\ \/ /\ state[n] = "RELEASED"
          /\ requestOrReleaseDataConn(n, "REQUEST")
          /\ transitionState(n, "PENDING")
          /\ UNCHANGED told
       \/ /\ state[n] \in {"PENDING", "RELEASING"}
          /\ UNCHANGED <<state, told, toFw>>
       \/ /\ state[n] = "ACQUIRED"
          /\ told' = [told EXCEPT ![n] = @ \cup {h}]
          /\ UNCHANGED <<state, toFw>>

(* deleteSubscriber goes on comparing with the subscriber it has just      *)
(* deleted, since releaseATL passes the list's own element.                *)
deleteSubscriber(n, h) ==
    /\ \E also \in {{}} \cup {{g} : g \in StaleReads \cap subs[n]} :
          eraseSubscribers(n, {h} \cup also)
    /\ notifyGone({h})

(* What becomes of the subscriber that asks to leave. *)
leaveOrWait(n, h) ==
    \/ /\ h \in WaitForClose
       /\ inactive' = [inactive EXCEPT ![n] = @ \cup {h}]
       /\ UNCHANGED <<subs, told, atl>>
    \/ /\ h \notin WaitForClose
       /\ deleteSubscriber(n, h)

(* Mutant: the last active subscriber may leave without a release. *)
unsubscribeKeepsConn(n, h) ==
    /\ leaveOrWait(n, h)
    /\ IF subs'[n] = {}
       THEN /\ transitionState(n, "RELEASED")
            /\ requestOrReleaseDataConn(n, "RELEASE")
       ELSE UNCHANGED <<state, toFw>>

processAgpsEventUnsubscribe(n, h) ==
    /\ leaveOrWait(n, h)
    /\ \/ /\ subs'[n] = {} /\ state[n] # "RELEASING"
          /\ transitionState(n, "RELEASED")
          /\ requestOrReleaseDataConn(n, "RELEASE")
       \/ /\ subs'[n] = {} /\ state[n] = "RELEASING"
          /\ transitionState(n, "RELEASED")
          /\ UNCHANGED toFw
       \/ /\ subs'[n] # {} /\ subs'[n] \subseteq inactive'[n]
          /\ state[n] # "RELEASING"
          /\ transitionState(n, "RELEASING")
          /\ requestOrReleaseDataConn(n, "RELEASE")
       \/ /\ subs'[n] # {}
          /\ state[n] = "RELEASING" \/ ~(subs'[n] \subseteq inactive'[n])
          /\ UNCHANGED <<state, toFw>>

(* Mutants: a grant also while RELEASING; a grant nobody is told of. *)
grantedAlsoReleasing(n) ==
    /\ UNCHANGED <<subs, inactive, toFw, atl>>
    /\ IF state[n] \in {"PENDING", "RELEASING"}
       THEN /\ transitionState(n, "ACQUIRED")
            /\ told' = [told EXCEPT ![n] = @ \cup (subs[n] \ inactive[n])]
       ELSE UNCHANGED <<state, told>>
grantedUntold(n) ==
    /\ UNCHANGED <<subs, inactive, told, toFw, atl>>
    /\ state' = [state EXCEPT ![n] = IF @ = "PENDING" THEN "ACQUIRED" ELSE @]

processAgpsEventGranted(n) ==
    /\ UNCHANGED <<subs, inactive, toFw, atl>>
    /\ \/ /\ state[n] = "PENDING"
          /\ transitionState(n, "ACQUIRED")
          /\ told' = [told EXCEPT ![n] = @ \cup (subs[n] \ inactive[n])]
       \/ /\ state[n] # "PENDING"  \* "Unexpected event GRANTED"
          /\ UNCHANGED <<state, told>>

(* RELEASED or DENIED while RELEASING: the inactive subscribers leave, and *)
(* the connection is asked for again if others have come meanwhile.        *)
dropInactive(n) ==
    /\ eraseSubscribers(n, inactive[n])
    /\ notifyGone(inactive[n])
    /\ \/ /\ anyActiveSubscribers(n)
          /\ transitionState(n, "PENDING")
          /\ requestOrReleaseDataConn(n, "REQUEST")
       \/ /\ ~anyActiveSubscribers(n)
          /\ transitionState(n, "RELEASED")
          /\ UNCHANGED toFw

(* Mutant: subscribers are deleted but not notified. *)
dropAllSilent(n) ==
    /\ transitionState(n, "RELEASED")
    /\ eraseSubscribers(n, subs[n])
    /\ UNCHANGED <<toFw, atl>>

dropAll(n) ==
    /\ transitionState(n, "RELEASED")
    /\ eraseSubscribers(n, subs[n])
    /\ notifyGone(subs[n])
    /\ UNCHANGED toFw

processAgpsEventReleased(n) ==
    \/ state[n] = "ACQUIRED" /\ dropAll(n)
    \/ state[n] = "RELEASING" /\ dropInactive(n)
    \/ state[n] \in {"RELEASED", "PENDING"} /\ UNCHANGED <<smVars, toFw, atl>>

(* Mutant: a refusal while RELEASING is ignored. *)
deniedOnlyPending(n) ==
    IF state[n] = "PENDING" THEN dropAll(n) ELSE UNCHANGED <<smVars, toFw, atl>>

processAgpsEventDenied(n) ==
    \/ state[n] = "PENDING" /\ dropAll(n)
    \/ state[n] = "RELEASING" /\ dropInactive(n)
    \/ state[n] \in {"RELEASED", "ACQUIRED"} /\ UNCHANGED <<smVars, toFw, atl>>

-----------------------------------------------------------------------------
(* AgpsManager, on the thread of the adapter. *)

(* createAgpsStateMachines: a nif that exists is kept. *)
initAgps(N) ==
    /\ ~(N \subseteq nifs)
    /\ nifs' = nifs \cup N
    /\ UNCHANGED <<smVars, msgs, toFw, conn, atl>>

requestATL(h, n) ==
    \/ n \in nifs /\ processAgpsEventSubscribe(n, h)
    \/ n \notin nifs /\ notifyGone({h}) /\ UNCHANGED <<smVars, toFw>>

(* The first state machine that has the handle, AGNSS before INTERNET. *)
holds(n, h) == n \in nifs /\ h \in subs[n]
foundIn(n, h) == /\ holds(n, h)
                 /\ n # "AGNSS" => \A m \in Nifs : m = "AGNSS" => ~holds(m, h)

releaseATL(h) ==
    \/ \E n \in Nifs : foundIn(n, h) /\ processAgpsEventUnsubscribe(n, h)
    \/ /\ \A n \in Nifs : ~holds(n, h)  \* "not found in any SM"
       /\ UNCHANGED <<smVars, toFw, atl>>

(* One message of the adapter's queue. *)
ProcMsg ==
    /\ msgs # <<>>
    /\ \A n \in Nifs : Len(toFw[n]) < MaxCmds
    /\ LET m == Head(msgs) IN
         \/ m.kind = "requestATL" /\ requestATL(m.h, m.n)
         \/ m.kind = "releaseATL" /\ releaseATL(m.h)
         \/ m.kind = "granted" /\ processAgpsEventGranted(m.n)
         \/ m.kind = "denied" /\ processAgpsEventDenied(m.n)
         \/ m.kind = "closed" /\ processAgpsEventReleased(m.n)
    /\ msgs' = Tail(msgs)
    /\ UNCHANGED <<nifs, conn>>

-----------------------------------------------------------------------------
(* The modem and the framework (external). *)

sendMsg(m) == msgs' = Append(msgs, m)

(* The modem registers for ATL requests once initAgps has run. *)
ModemOpen(h, n) ==
    /\ nifs # {} /\ atl[h] = "idle" /\ Len(msgs) < MaxMsgs
    /\ sendMsg([kind |-> "requestATL", h |-> h, n |-> n])
    /\ atl' = [atl EXCEPT ![h] = "asked"]
    /\ UNCHANGED <<nifs, smVars, toFw, conn>>

ModemClose(h) ==
    /\ atl[h] = "asked" /\ Len(msgs) < MaxMsgs
    /\ sendMsg([kind |-> "releaseATL", h |-> h])
    /\ atl' = [atl EXCEPT ![h] = "closing"]
    /\ UNCHANGED <<nifs, smVars, toFw, conn>>

(* The framework takes its next command.  It answers every request, at     *)
(* once if it has the connection, and the release of one that it has.      *)
FwCommand(n) ==
    /\ toFw[n] # <<>>
    /\ toFw' = [toFw EXCEPT ![n] = Tail(@)]
    /\ \/ /\ Head(toFw[n]) = "REQUEST" /\ conn[n] # "open"
          /\ conn' = [conn EXCEPT ![n] = "opening"]
          /\ UNCHANGED msgs
       \/ /\ Head(toFw[n]) = "REQUEST" /\ conn[n] = "open"
          /\ sendMsg([kind |-> "granted", n |-> n])
          /\ UNCHANGED conn
       \/ /\ Head(toFw[n]) = "RELEASE" /\ conn[n] = "closed"
          /\ UNCHANGED <<conn, msgs>>
       \/ /\ Head(toFw[n]) = "RELEASE" /\ conn[n] # "closed"
          /\ conn' = [conn EXCEPT ![n] = "closed"]
          /\ sendMsg([kind |-> "closed", n |-> n])
    /\ UNCHANGED <<nifs, smVars, atl>>

FwOpened(n) ==
    /\ conn[n] = "opening"
    /\ conn' = [conn EXCEPT ![n] = "open"]
    /\ sendMsg([kind |-> "granted", n |-> n])
    /\ UNCHANGED <<nifs, smVars, toFw, atl>>

FwFailed(n) ==
    /\ conn[n] = "opening"
    /\ conn' = [conn EXCEPT ![n] = "closed"]
    /\ sendMsg([kind |-> "denied", n |-> n])
    /\ UNCHANGED <<nifs, smVars, toFw, atl>>

FwLost(n) ==
    /\ conn[n] = "open"
    /\ conn' = [conn EXCEPT ![n] = "closed"]
    /\ sendMsg([kind |-> "closed", n |-> n])
    /\ UNCHANGED <<nifs, smVars, toFw, atl>>

(* dataConnOpenCommand with an APN it refuses calls reportAtlClosed itself, *)
(* on the framework's thread and ahead of what the queue holds.             *)
FwOpenedBadApn(n) ==
    /\ n \in BadApn
    /\ conn[n] = "opening"
    /\ Len(toFw[n]) < MaxCmds
    /\ conn' = [conn EXCEPT ![n] = "open"]
    /\ processAgpsEventReleased(n)
    /\ UNCHANGED <<nifs, msgs>>

Next ==
    \/ ProcMsg
    \/ \E N \in SUBSET Nifs : initAgps(N)
    \/ \E h \in Handles : ModemClose(h) \/ \E n \in Nifs : ModemOpen(h, n)
    \/ \E n \in Nifs : \/ FwCommand(n) \/ FwOpened(n) \/ FwFailed(n)
                       \/ FwLost(n) \/ FwOpenedBadApn(n)

(* The adapter's thread runs while its queue is not empty, and the         *)
(* framework handles its commands and finishes what it started.            *)
Fairness ==
    /\ WF_vars(ProcMsg)
    /\ \A n \in Nifs : /\ WF_vars(FwCommand(n))
                       /\ WF_vars(FwOpened(n) \/ FwFailed(n))

Spec == Init /\ [][Next]_vars
FairSpec == Spec /\ Fairness
-----------------------------------------------------------------------------
(* Safety. *)

(* A state machine is RELEASED only with an empty subscriber list, waits   *)
(* for or holds a connection only for a subscriber that wants it, and      *)
(* waits for a close only for a subscriber that wants to hear of it, unless*)
(* that one is lost to a freed element (see NobodyForgotten).              *)
NifConsistent ==
    \A n \in Nifs :
        /\ inactive[n] \subseteq subs[n] \cap WaitForClose
        /\ state[n] = "RELEASED" => subs[n] = {}
        /\ state[n] \in {"PENDING", "ACQUIRED"} => anyActiveSubscribers(n)
        /\ state[n] = "RELEASING" =>
               subs[n] # {} /\ (inactive[n] # {} \/ StaleReads # {})

(* The active subscribers that were told "open" are exactly those of an    *)
(* ACQUIRED state machine: none uses a link that was given up, none waits  *)
(* beside one that is up.                                                  *)
ToldMatchesState ==
    \A n \in Nifs :
        /\ told[n] \subseteq subs[n]
        /\ told[n] \ inactive[n] =
               IF state[n] = "ACQUIRED" THEN subs[n] \ inactive[n] ELSE {}

(* "Notify only current subscriber and then delete it" (Agps.cpp:127): a   *)
(* subscriber leaves the list only when the modem is told its link is gone.*)
(* What deleteSubscriber does with the freed element breaks it in one way  *)
(* only: in the release of g, which is told, one other may go untold, and  *)
(* that is one the freed element may read as.                              *)
leavers(n) == subs[n] \ subs'[n]
takenForFreed(n, h) ==
    /\ h \in StaleReads
    /\ \E g \in leavers(n) \ {h} :
          /\ msgs # <<>> /\ Head(msgs) = [kind |-> "releaseATL", h |-> g]
          /\ msgs' = Tail(msgs)
          /\ leavers(n) = {g, h} /\ atl'[g] = "idle"
NobodyForgotten ==
    [][\A n \in Nifs : \A h \in leavers(n) :
          atl'[h] = "idle" \/ takenForFreed(n, h)]_vars

(* The manager implements the shared connection of SharedDataConn, for the *)
(* subscribers that are active.                                            *)
Shared == INSTANCE SharedDataConn WITH
              users <- [n \in Nifs |-> subs[n] \ inactive[n]],
              told <- [n \in Nifs |-> told[n] \ inactive[n]],
              up <- [n \in Nifs |-> state[n] = "ACQUIRED"],
              MayLose <- StaleReads
ImplementsShared == Shared!Spec

(* Liveness: the modem's request is granted, refused or withdrawn, and a   *)
(* close is confirmed, at once or when the connection is closed, which it  *)
(* is not while another subscriber is active.  A state machine whose APN   *)
(* was refused may wait for ever, and so may a subscriber that was lost    *)
(* with another one's release.                                             *)
lost(h) ==
    /\ h \in StaleReads
    /\ \A n \in Nifs : h \notin subs[n]
    /\ \A i \in 1..Len(msgs) : msgs[i].kind = "requestATL" => msgs[i].h # h
OpenAnswered ==
    \A h \in Handles :
        atl[h] = "asked" ~> (\/ atl[h] # "asked"
                             \/ \E n \in Nifs : h \in told[n]
                             \/ \E n \in BadApn : h \in subs[n]
                             \/ lost(h))
CloseAnswered ==
    \A h \in Handles :
        atl[h] = "closing" ~> (\/ atl[h] = "idle"
                               \/ \E n \in Nifs : h \in inactive[n] /\ anyActiveSubscribers(n)
                               \/ \E n \in BadApn : h \in inactive[n]
                               \/ lost(h))
=============================================================================
