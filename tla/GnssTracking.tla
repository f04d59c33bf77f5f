---------------------------- MODULE GnssTracking ----------------------------
(***************************************************************************)
(* Tracking sessions of the GNSS adapter (gps/gnss/GnssAdapter.cpp).  The  *)
(* modem runs one periodic fix ("time based" tracking), which the adapter  *)
(* multiplexes between all time based sessions, and any number of distance *)
(* based sessions.  Commands of the clients, results of modem commands     *)
(* (LocApiResponse closures) and the engine-up event are messages in one   *)
(* queue, handled one at a time by the adapter's thread.  The commands to  *)
(* the modem wait in the queue of LocApi, whose thread also opens the      *)
(* modem, at first and after a restart.                                    *)
(*                                                                         *)
(* Of TrackingOptions the model keeps the interval, the power mode and     *)
(* whether minDistance > 0, as they are after the clamp to                 *)
(* MIN_TRACKING_INTERVAL and the M4 to M2 fallback.                        *)
(***************************************************************************)
EXTENDS Integers, Sequences, FiniteSets, Functions

CONSTANTS
    Sessions,           \* ids that generateSessionId hands out, each used once
    Clients,            \* LocationAPI objects, all registered
    Owner,              \* the client that starts a session
    Trackers,           \* clients with a tracking or measurements callback
    Intervals, Powers,  \* values of minInterval and powerMode (0 is INVALID)
    DistanceSupported,  \* LOC_API_ADAPTER_MESSAGE_DISTANCE_BASE_TRACKING
    Hasty,              \* clients that may send before the last command is answered
    MayRemove,          \* clients that may be destroyed
    MayFail,            \* modem commands that may fail while the modem is up
    MaxMsgs,            \* clients send nothing while that many messages wait
    MaxUpdates,         \* bound on updateTrackingOptions calls
    MaxRestarts         \* bound on modem restarts

ASSUME TrackingConstants ==
    /\ IsFiniteSet(Sessions)
    /\ Owner \in [Sessions -> Clients]
    /\ Trackers \subseteq Clients
    /\ MayRemove \subseteq Clients
    /\ Intervals \subseteq Nat \ {0}
    /\ Powers \subseteq Nat
    /\ Hasty \subseteq Clients
    /\ DistanceSupported \in BOOLEAN
    /\ MaxUpdates \in Nat /\ MaxRestarts \in Nat

VARIABLES
    clients,      \* keys of mClientData
    tb,           \* mTimeBasedTrackingSessions
    db,           \* mDistanceBasedTrackingSessions
    capsKnown,    \* isEngineCapabilitiesKnown
    pendingMsgs,  \* mPendingMsgs
    msgs,         \* message queue of the adapter's thread
    toModem,      \* message queue of LocApi, with the commands to the modem
    modemUp,      \* is the modem open?
    fix,          \* the modem's periodic fix
    engDb,        \* distance based sessions the modem runs
    req,          \* per session, the client's last command
    owed,         \* per session, commands not answered yet
    answer,       \* per session, the last answer
    crossed,      \* history: sessions with a command sent while one was unanswered
    astray,       \* history: sessions with a command refused, or restarted while
                  \* one was unanswered
    leftOn,       \* history: was the fix left on when the last session went?
    updates, restarts

sessionVars == <<clients, tb, db>>
modemVars == <<modemUp, fix, engDb, restarts>>
clientVars == <<req, owed, answer>>
vars == <<sessionVars, capsKnown, pendingMsgs, msgs, toModem, modemVars,
          clientVars, crossed, astray, leftOn, updates>>

Options == [int : Intervals, power : Powers, dist : BOOLEAN]

(* What a LocApiResponse closure does with the modem's result.             *)
Closure ==
    [do : {"none", "started", "stopTracking", "stopDistance", "clientGone"},
     s : Sessions]
    \cup [do : {"updateTracking", "distanceToTime", "restartDistance", "restarted"},
          s : Sessions, o : Options]

Msg == [kind : {"start", "update"}, s : Sessions, o : Options]
       \cup [kind : {"stop"}, s : Sessions]
       \cup [kind : {"remove"}, c : Clients]
       \cup [kind : {"engineUp"}]
       \cup [kind : {"response"}, ok : BOOLEAN, cb : Closure]

Command == [cmd : {"startFix"}, int : Intervals, power : Powers, cb : Closure]
           \cup [cmd : {"stopFix", "startDb", "stopDb"}, cb : Closure]
           \cup [cmd : {"open"}]

Off == [int |-> 0, power |-> 0]

SessionMap == UNION {[S -> Options] : S \in SUBSET Sessions}

TypeOK ==
    /\ clients \subseteq Clients
    /\ tb \in SessionMap /\ db \in SessionMap
    /\ capsKnown \in BOOLEAN
    /\ pendingMsgs \in Seq(Msg)
    /\ msgs \in Seq(Msg)
    /\ toModem \in Seq(Command)
    /\ modemUp \in BOOLEAN
    /\ fix \in [int : Intervals, power : Powers] \cup {Off}
    /\ engDb \subseteq Sessions
    /\ req \in [Sessions -> {"none", "start", "update", "stop"}]
    /\ owed \in [Sessions -> Int]
    /\ answer \in [Sessions -> {"none", "ok", "failed", "unknown"}]
    /\ crossed \subseteq Sessions /\ astray \subseteq Sessions /\ leftOn \in BOOLEAN
    /\ updates \in 0..MaxUpdates /\ restarts \in 0..MaxRestarts

Init ==
    /\ clients = Clients
    /\ tb = <<>> /\ db = <<>>
    /\ capsKnown = FALSE /\ pendingMsgs = <<>>
    /\ msgs = <<>> /\ toModem = <<[cmd |-> "open"]>>
    /\ modemUp = FALSE /\ fix = Off /\ engDb = {}
    /\ req = [s \in Sessions |-> "none"]
    /\ owed = [s \in Sessions |-> 0]
    /\ answer = [s \in Sessions |-> "none"]
    /\ crossed = {} /\ astray = {} /\ leftOn = FALSE
    /\ updates = 0 /\ restarts = 0

-----------------------------------------------------------------------------
(* The session maps. *)

put(f, s, o) == [x \in DOMAIN f \cup {s} |-> IF x = s THEN o ELSE f[x]]

isTimeBasedTrackingSession(s) == s \in DOMAIN tb
isDistanceBasedTrackingSession(s) == s \in DOMAIN db

saveTrackingSession(s, o) ==
    IF o.dist /\ DistanceSupported
    THEN db' = put(db, s, o) /\ UNCHANGED tb
    ELSE tb' = put(tb, s, o) /\ UNCHANGED db

eraseTrackingSession(s) ==
    IF isTimeBasedTrackingSession(s)
    THEN tb' = Restrict(tb, DOMAIN tb \ {s}) /\ UNCHANGED db
    ELSE db' = Restrict(db, DOMAIN db \ {s}) /\ UNCHANGED tb

hasCallback(s) == Owner[s] \in clients \cap Trackers

(* responseCb of the client, if it is still registered. *)
reportResponse(s, err) ==
    IF Owner[s] \in clients
    THEN /\ owed' = [owed EXCEPT ![s] = @ - 1]
         /\ answer' = [answer EXCEPT ![s] = err]
         /\ UNCHANGED req
    ELSE UNCHANGED clientVars

report(s, ok) == reportResponse(s, IF ok THEN "ok" ELSE "failed")

-----------------------------------------------------------------------------
(* Commands to the modem; NoCall where the code makes no call. *)

do(what, s) == [do |-> what, s |-> s]
doWith(what, s, o) == [do |-> what, s |-> s, o |-> o]

startFix(int, power, cb) ==
    [cmd |-> "startFix", int |-> int, power |-> power, cb |-> cb]
startTimeBasedTracking(s, int, power) == startFix(int, power, do("started", s))
updateTracking(s, int, power, old) ==
    startFix(int, power, doWith("updateTracking", s, old))
stopTracking(s) == [cmd |-> "stopFix", cb |-> do("stopTracking", s)]
startDistanceBasedTracking(cb) == [cmd |-> "startDb", cb |-> cb]
stopDistanceBasedTracking(cb) == [cmd |-> "stopDb", cb |-> cb]

NoCall == [cmd |-> "none"]
queued(c) == IF c = NoCall THEN toModem ELSE Append(toModem, c)
call(c) == toModem' = queued(c)

Lesser(a, b) == IF a < b THEN a ELSE b

(* The session whose options a loop over the sessions S ends up with: the  *)
(* first with the smallest interval in the order of the keys, which are    *)
(* addresses.                                                              *)
smallestInterval(S) == {m \in S : \A s \in S : tb[m].int <= tb[s].int}

powersOf(S) == {tb[s].power : s \in S}
smallestOf(P) == {p \in P : \A q \in P : p <= q}

(* multiplexedPowerMode after a loop over S: a mode that is INVALID (0) is *)
(* smaller than any other and replaced by the next.                        *)
multiplexedPowerMode(S) ==
    IF 0 \in powersOf(S) THEN powersOf(S) ELSE smallestOf(powersOf(S))

(* Mutant: only the power mode is compared. *)
startMultiplexByPower(s, o) ==
    LET S == DOMAIN tb IN
    IF S = {} THEN {startTimeBasedTracking(s, o.int, o.power)}
    ELSE {IF o.power < p THEN startTimeBasedTracking(s, o.int, o.power) ELSE NoCall :
              p \in multiplexedPowerMode(S)}

(* The calls that the three multiplexers may make.                         *)
startTimeBasedTrackingMultiplex(s, o) ==
    LET S == DOMAIN tb IN
    IF S = {} THEN {startTimeBasedTracking(s, o.int, o.power)}
    ELSE {IF o.int < tb[m].int \/ o.power < p
          THEN startTimeBasedTracking(s, Lesser(o.int, tb[m].int),
                                      IF o.power < p THEN o.power ELSE tb[m].power)
          ELSE NoCall :
              m \in smallestInterval(S), p \in multiplexedPowerMode(S)}

updateTrackingMultiplex(s, o) ==
    LET others == DOMAIN tb \ {s} IN
    IF o.int = tb[s].int /\ o.power = tb[s].power THEN {NoCall}
    ELSE IF others = {} THEN {updateTracking(s, o.int, o.power, tb[s])}
    ELSE {IF o.int < tb[m].int \/ o.power < p
          THEN updateTracking(s, Lesser(o.int, tb[m].int),
                              IF o.power < p THEN o.power ELSE tb[m].power, tb[s])
          ELSE NoCall :
              m \in smallestInterval(others), p \in multiplexedPowerMode(others)}

stopTimeBasedTrackingMultiplex(s) ==
    LET others == DOMAIN tb \ {s} IN
    IF others = {} THEN {stopTracking(s)}
    ELSE {IF tb[s].int < tb[m].int \/ tb[s].power < p
          THEN startTimeBasedTracking(s, tb[m].int, p)
          ELSE NoCall :
              m \in smallestInterval(others), p \in multiplexedPowerMode(others)}

-----------------------------------------------------------------------------
(* Commands of the clients, as the adapter's thread handles them. *)

(* A command about distances is put aside until capabilities are known.    *)
putAside(m) == /\ ~capsKnown /\ m.o.dist
               /\ pendingMsgs' = Append(pendingMsgs, m)
               /\ UNCHANGED <<sessionVars, toModem, clientVars>>

(* startTimeBasedTrackingMultiplex with the save and report around it. *)
startTimeBased(s, o) ==
    \E c \in startTimeBasedTrackingMultiplex(s, o) :
        /\ call(c)
        /\ saveTrackingSession(s, o)
        /\ IF c = NoCall THEN reportResponse(s, "ok") ELSE UNCHANGED clientVars

MsgStartTracking(s, o) ==
    /\ capsKnown \/ ~o.dist
    /\ UNCHANGED <<clients, pendingMsgs>>
    /\ \/ /\ ~hasCallback(s)
          /\ UNCHANGED <<tb, db, toModem, clientVars>>
       \/ /\ hasCallback(s) /\ o.dist /\ DistanceSupported
          /\ saveTrackingSession(s, o)
          /\ call(startDistanceBasedTracking(do("started", s)))
          /\ UNCHANGED clientVars
       \/ /\ hasCallback(s) /\ ~(o.dist /\ DistanceSupported)
          /\ startTimeBased(s, o)

(* Mutant: the fix is not stopped. *)
timeToDistanceRunsOn(s, o) ==
    /\ call(startDistanceBasedTracking(do("none", s)))
    /\ tb' = Restrict(tb, DOMAIN tb \ {s}) /\ db' = put(db, s, o)
    /\ reportResponse(s, "ok")

timeToDistance(s, o) ==
    \E c \in stopTimeBasedTrackingMultiplex(s) :
        /\ toModem' = Append(queued(c), startDistanceBasedTracking(do("none", s)))
        /\ IF DistanceSupported
           THEN tb' = Restrict(tb, DOMAIN tb \ {s}) /\ db' = put(db, s, o)
           ELSE tb' = put(tb, s, o) /\ UNCHANGED db
        /\ IF c = NoCall THEN reportResponse(s, "ok") ELSE UNCHANGED clientVars

MsgUpdateTracking(s, o) ==
    /\ capsKnown \/ ~o.dist
    /\ UNCHANGED <<clients, pendingMsgs>>
    /\ \/ /\ ~isTimeBasedTrackingSession(s) /\ ~isDistanceBasedTrackingSession(s)
          /\ reportResponse(s, "unknown")
          /\ UNCHANGED <<tb, db, toModem>>
       \/ /\ isTimeBasedTrackingSession(s) /\ o.dist
          /\ timeToDistance(s, o)
       \/ /\ isDistanceBasedTrackingSession(s) /\ ~o.dist
          /\ eraseTrackingSession(s)
          /\ call(stopDistanceBasedTracking(doWith("distanceToTime", s, o)))
          /\ UNCHANGED clientVars
       \/ /\ isTimeBasedTrackingSession(s) /\ ~isDistanceBasedTrackingSession(s) /\ ~o.dist
          /\ \E c \in updateTrackingMultiplex(s, o) :
                /\ call(c)
                /\ saveTrackingSession(s, o)
                /\ IF c = NoCall THEN reportResponse(s, "ok") ELSE UNCHANGED clientVars
       \/ /\ isDistanceBasedTrackingSession(s) /\ ~isTimeBasedTrackingSession(s) /\ o.dist
          /\ call(stopDistanceBasedTracking(doWith("restartDistance", s, o)))
          /\ UNCHANGED <<tb, db, clientVars>>

(* Mutant: the session is not erased when the modem's answer is awaited. *)
MsgStopTrackingKept(s) ==
    /\ UNCHANGED <<clients, pendingMsgs>>
    /\ \/ /\ isTimeBasedTrackingSession(s)
          /\ \E c \in stopTimeBasedTrackingMultiplex(s) :
                /\ call(c)
                /\ IF c = NoCall THEN eraseTrackingSession(s) /\ reportResponse(s, "ok")
                   ELSE UNCHANGED <<tb, db, clientVars>>
       \/ /\ ~isTimeBasedTrackingSession(s)
          /\ call(stopDistanceBasedTracking(do("stopDistance", s)))
          /\ UNCHANGED <<tb, db, clientVars>>

MsgStopTracking(s) ==
    /\ UNCHANGED <<clients, pendingMsgs>>
    /\ \/ /\ isTimeBasedTrackingSession(s)
          /\ \E c \in stopTimeBasedTrackingMultiplex(s) :
                /\ call(c)
                /\ eraseTrackingSession(s)
                /\ IF c = NoCall THEN reportResponse(s, "ok") ELSE UNCHANGED clientVars
       \/ /\ ~isTimeBasedTrackingSession(s) /\ isDistanceBasedTrackingSession(s)
          /\ call(stopDistanceBasedTracking(do("stopDistance", s)))
          /\ UNCHANGED <<tb, db, clientVars>>
       \/ /\ ~isTimeBasedTrackingSession(s) /\ ~isDistanceBasedTrackingSession(s)
          /\ reportResponse(s, "unknown")
          /\ UNCHANGED <<tb, db, toModem>>

(* The orders in which a loop may visit the keys S. *)
Orders(S) == Bijection(1..Cardinality(S), S)

(* stopClientSessions, which leaves the time based sessions in the map,    *)
(* and eraseClient.                                                        *)
MsgRemoveClient(c) ==
    LET mine(f) == {s \in DOMAIN f : Owner[s] = c}
        Calls == UNION {stopTimeBasedTrackingMultiplex(s) : s \in mine(tb)}
    IN  /\ clients' = clients \ {c}
        /\ UNCHANGED <<tb, db, pendingMsgs, clientVars>>
        /\ \E made \in [mine(tb) -> Calls] :
              /\ \A s \in mine(tb) : made[s] \in stopTimeBasedTrackingMultiplex(s)
              /\ \E t \in Orders({s \in mine(tb) : made[s] # NoCall}),
                    d \in Orders(mine(db)) :
                    toModem' = toModem
                               \o [i \in DOMAIN t |-> made[t[i]]]
                               \o [i \in DOMAIN d |->
                                      stopDistanceBasedTracking(do("clientGone", d[i]))]

-----------------------------------------------------------------------------
(* Engine up, and the results of modem commands. *)

(* The power mode restartSessions ends up with: an INVALID (0) mode counts *)
(* only if it comes first.                                                 *)
highestPower(S) == smallestOf(powersOf(S) \ {0}) \cup (powersOf(S) \cap {0})

restartSessions ==
    \E d \in Orders(DOMAIN db) :
        LET again == [i \in DOMAIN d |-> startDistanceBasedTracking(do("none", d[i]))]
        IN  \/ /\ DOMAIN tb = {}
               /\ toModem' = toModem \o again
            \/ \E m \in smallestInterval(DOMAIN tb), p \in highestPower(DOMAIN tb) :
                  toModem' = Append(toModem, startFix(tb[m].int, p, do("none", m)))
                             \o again

MsgHandleEngineUpEvent ==
    /\ capsKnown' = TRUE
    /\ restartSessions
    /\ pendingMsgs' = <<>>
    /\ UNCHANGED <<sessionVars, clientVars>>

Response(ok, cb) ==
    LET s == cb.s IN
    /\ UNCHANGED <<clients, pendingMsgs>>
    /\ \/ /\ cb.do = "started"
          /\ IF ok THEN UNCHANGED <<tb, db>> ELSE eraseTrackingSession(s)
          /\ report(s, ok) /\ UNCHANGED toModem
       \/ /\ cb.do = "updateTracking"
          /\ IF ok THEN UNCHANGED <<tb, db>> ELSE saveTrackingSession(s, cb.o)
          /\ report(s, ok) /\ UNCHANGED toModem
       \/ /\ cb.do = "stopTracking"
          /\ report(s, ok) /\ UNCHANGED <<tb, db, toModem>>
       \/ /\ cb.do = "stopDistance"
          /\ IF ok THEN eraseTrackingSession(s) ELSE UNCHANGED <<tb, db>>
          /\ report(s, ok) /\ UNCHANGED toModem
       \/ /\ cb.do = "clientGone"
          /\ IF ok THEN eraseTrackingSession(s) ELSE UNCHANGED <<tb, db>>
          /\ UNCHANGED <<toModem, clientVars>>
       \/ /\ cb.do = "distanceToTime"
          /\ startTimeBased(s, cb.o)
       \/ /\ cb.do = "restartDistance"
          /\ IF ok
             THEN call(startDistanceBasedTracking(doWith("restarted", s, cb.o)))
             ELSE UNCHANGED toModem
          /\ UNCHANGED <<tb, db, clientVars>>
       \/ /\ cb.do = "restarted"
          /\ IF ok THEN saveTrackingSession(s, cb.o) ELSE UNCHANGED <<tb, db>>
          /\ report(s, ok) /\ UNCHANGED toModem

Handle(m) ==
    \/ /\ m.kind \in {"start", "update"} /\ putAside(m)
       /\ UNCHANGED capsKnown
    \/ m.kind = "start" /\ MsgStartTracking(m.s, m.o) /\ UNCHANGED capsKnown
    \/ m.kind = "update" /\ MsgUpdateTracking(m.s, m.o) /\ UNCHANGED capsKnown
    \/ m.kind = "stop" /\ MsgStopTracking(m.s) /\ UNCHANGED capsKnown
    \/ m.kind = "remove" /\ MsgRemoveClient(m.c) /\ UNCHANGED capsKnown
    \/ m.kind = "engineUp" /\ MsgHandleEngineUpEvent
    \/ m.kind = "response" /\ Response(m.ok, m.cb) /\ UNCHANGED capsKnown

(* The sessions that restartSessions starts before a command is answered.  *)
restarted(m) == {s \in DOMAIN db : m.kind = "engineUp" /\ owed[s] > 0}

(* The last time based session goes, by the failure of its start or an     *)
(* answer that comes late, and nobody stops the fix.                       *)
forgets(m) == /\ m.kind = "response" \/ (m.kind = "update" /\ ~m.o.dist)
              /\ DOMAIN tb # {}
              /\ fix # Off \/ \E i \in DOMAIN toModem : toModem[i].cmd = "startFix"

remember(m) == /\ astray' = astray \cup restarted(m)
               /\ leftOn' = (DOMAIN tb' = {} /\ (leftOn \/ forgets(m)))
               /\ UNCHANGED crossed

(* Mutant: the messages put aside are dropped when the engine is up. *)
ProcMsgDropsPending ==
    /\ msgs # <<>>
    /\ Handle(Head(msgs)) /\ remember(Head(msgs))
    /\ msgs' = Tail(msgs)
    /\ UNCHANGED <<modemVars, updates>>

(* The adapter's thread handles the first message; handling engineUp sends *)
(* the messages put aside once more.                                       *)
ProcMsg ==
    /\ msgs # <<>>
    /\ Handle(Head(msgs)) /\ remember(Head(msgs))
    /\ msgs' = IF Head(msgs).kind = "engineUp" THEN Tail(msgs) \o pendingMsgs
               ELSE Tail(msgs)
    /\ UNCHANGED <<modemVars, updates>>

-----------------------------------------------------------------------------
(* The clients. *)

maySend(s) == /\ Owner[s] \in clients
              /\ [kind |-> "remove", c |-> Owner[s]] \notin Range(msgs)
              /\ Len(msgs) < MaxMsgs
              /\ Owner[s] \in Hasty \/ owed[s] = 0

send(s, what, m) ==
    /\ msgs' = Append(msgs, m)
    /\ req' = [req EXCEPT ![s] = what]
    /\ owed' = [owed EXCEPT ![s] = @ + 1]
    /\ crossed' = IF owed[s] = 0 THEN crossed ELSE crossed \cup {s}
    /\ UNCHANGED <<sessionVars, capsKnown, pendingMsgs, toModem, modemVars, answer,
                   astray, leftOn>>

startTracking(s, o) ==
    /\ maySend(s) /\ req[s] = "none"
    /\ send(s, "start", [kind |-> "start", s |-> s, o |-> o])
    /\ UNCHANGED updates

updateTrackingOptions(s, o) ==
    /\ maySend(s) /\ req[s] \in {"start", "update"} /\ updates < MaxUpdates
    /\ send(s, "update", [kind |-> "update", s |-> s, o |-> o])
    /\ updates' = updates + 1

stop(s) ==
    /\ maySend(s) /\ req[s] \in {"start", "update"}
    /\ send(s, "stop", [kind |-> "stop", s |-> s])
    /\ UNCHANGED updates

removeClient(c) ==
    LET m == [kind |-> "remove", c |-> c] IN
    /\ c \in MayRemove \cap clients /\ m \notin Range(msgs) /\ Len(msgs) < MaxMsgs
    /\ msgs' = Append(msgs, m)
    /\ UNCHANGED <<sessionVars, capsKnown, pendingMsgs, toModem, modemVars,
                   clientVars, crossed, astray, leftOn, updates>>

-----------------------------------------------------------------------------
(* The LocApi thread hands the commands to the modem in order and returns  *)
(* each result.  A modem that goes down forgets its sessions and fails     *)
(* every command until LocSsrMsg opens it again.                           *)
Execute(c, ok) ==
    /\ ok => modemUp
    /\ ~ok => ~modemUp \/ c.cmd \in MayFail
    /\ fix' = IF ok /\ c.cmd = "startFix" THEN [int |-> c.int, power |-> c.power]
              ELSE IF ok /\ c.cmd = "stopFix" THEN Off ELSE fix
    /\ engDb' = IF ok /\ c.cmd = "startDb" THEN engDb \cup {c.cb.s}
                ELSE IF ok /\ c.cmd = "stopDb" THEN engDb \ {c.cb.s} ELSE engDb
    /\ msgs' = IF c.cb.do = "none" THEN msgs
               ELSE Append(msgs, [kind |-> "response", ok |-> ok, cb |-> c.cb])
    /\ astray' = IF ~ok /\ modemUp THEN astray \cup {c.cb.s} ELSE astray
    /\ leftOn' = (leftOn \/ (~ok /\ modemUp /\ c.cmd = "stopFix" /\ DOMAIN tb = {}))
    /\ UNCHANGED modemUp

(* LocOpenMsg and LocSsrMsg. *)
Open ==
    \/ /\ modemUp' = TRUE
       /\ msgs' = Append(msgs, [kind |-> "engineUp"])
       /\ UNCHANGED <<fix, engDb>>
    \/ /\ "open" \in MayFail
       /\ UNCHANGED <<modemUp, msgs, fix, engDb>>

LocApiStep ==
    /\ toModem # <<>>
    /\ toModem' = Tail(toModem)
    /\ LET c == Head(toModem) IN
          \/ c.cmd = "open" /\ Open /\ UNCHANGED <<astray, leftOn>>
          \/ c.cmd # "open" /\ \E ok \in BOOLEAN : Execute(c, ok)
    /\ UNCHANGED <<sessionVars, capsKnown, pendingMsgs, restarts, clientVars, crossed,
                   updates>>

handleEngineDownEvent ==
    /\ modemUp /\ restarts < MaxRestarts
    /\ modemUp' = FALSE /\ fix' = Off /\ engDb' = {}
    /\ toModem' = Append(toModem, [cmd |-> "open"])
    /\ restarts' = restarts + 1
    /\ UNCHANGED <<sessionVars, capsKnown, pendingMsgs, msgs, clientVars, crossed, astray,
                   leftOn, updates>>

Next ==
    \/ ProcMsg
    \/ LocApiStep \/ handleEngineDownEvent
    \/ \E s \in Sessions :
          \/ stop(s)
          \/ \E o \in Options : startTracking(s, o) \/ updateTrackingOptions(s, o)
    \/ \E c \in Clients : removeClient(c)

(* The two threads run while their queues are not empty.                   *)
Fairness == WF_vars(ProcMsg) /\ WF_vars(LocApiStep)

Spec == Init /\ [][Next]_vars
FairSpec == Spec /\ Fairness
-----------------------------------------------------------------------------
(* Safety. *)

(* Everything in flight has been handled. *)
Quiet == /\ msgs = <<>> /\ pendingMsgs = <<>> /\ toModem = <<>>
         /\ modemUp /\ capsKnown

(* "the smallest interval, which should be the active one" (GnssAdapter.cpp *)
(* :2152): once everything in flight has been handled, the modem's fix runs *)
(* at least as often as each time based session asks for.                   *)
FixServesAll ==
    Quiet => \A s \in DOMAIN tb : fix # Off /\ fix.int <= tb[s].int

(* Once everything in flight has been handled, the modem runs what the maps *)
(* hold and nothing else: no fix without a time based session, and exactly  *)
(* the distance based sessions of the clients there are, over stops,        *)
(* switches between the kinds, failures and restarts.  Three things make    *)
(* the two differ, each by what the code does: leftOn, that nobody stopped  *)
(* the fix of the last session; crossed, that a session's commands          *)
(* overlapped; astray, that the modem refused one, or that restartSessions  *)
(* repeated a start that still waited.                                      *)
OnlyMapsRun ==
    Quiet => /\ DOMAIN tb = {} /\ ~leftOn => fix = Off
             /\ DistanceSupported =>
                  \A s \in Sessions \ (crossed \cup astray) :
                      Owner[s] \in clients => (s \in engDb <=> s \in DOMAIN db)

(* stopTracking (LocationAPI.h:82): when all commands for a session are     *)
(* answered and the last was a stop that did not fail, the adapter has no   *)
(* such session any more, unless a command of the session was sent before   *)
(* the answer to the last: a stop that overtakes the answer to an update    *)
(* leaves a session nobody can stop.                                        *)
StoppedIsGone ==
    \A s \in Sessions :
        s \notin crossed /\ req[s] = "stop" /\ owed[s] = 0 /\ answer[s] # "failed"
            => s \notin DOMAIN tb \cup DOMAIN db

(* Every command of a client that stays is answered while the modem does    *)
(* not restart: when it fails the stop of a distance based session that is  *)
(* to be restarted with new options, nobody is told.                        *)
EveryAnswered ==
    \A s \in Sessions :
        owed[s] > 0 ~> owed[s] = 0 \/ Owner[s] \notin clients \/ restarts > 0
=============================================================================
