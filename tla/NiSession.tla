----------------------------- MODULE NiSession -----------------------------
(***************************************************************************)
(* Network initiated location requests (gps/gnss/GnssAdapter.cpp).  The    *)
(* modem asks, the adapter shows the request to the user through the       *)
(* client with gnssNiCb, and a thread spawned for the request waits for    *)
(* the user's response or a timeout and answers the modem.  There is one   *)
(* session for emergency (Es) requests and one for all others; it is       *)
(* shared between the adapter's thread, which reads it without its lock,   *)
(* and the threads, which clear part of it after they have let go of it.   *)
(*                                                                         *)
(* Requests stand for their reqID, a counter of the requests shown.        *)
(***************************************************************************)
EXTENDS Naturals, Sequences

CONSTANTS
    Requests,       \* requests of the modem, each made once
    Type,           \* "es", "cp" (control plane) or "other"
    UserResponses,  \* what the user may respond
    MaxResponses,   \* bound on the user's responses
    None            \* NULL

Responses == {"ACCEPT", "DENY", "NO_RESPONSE", "IGNORE"}

ASSUME NiConstants ==
    /\ Type \in [Requests -> {"es", "cp", "other"}]
    /\ UserResponses \subseteq Responses
    /\ MaxResponses \in Nat
    /\ None \notin Requests

Slots == {"session", "sessionEs"}
SlotOf(r) == IF Type[r] = "es" THEN "sessionEs" ELSE "session"

VARIABLES
    rawRequest, reqID, respTimeLeft, respRecvd, resp,  \* NiSession
    thread,    \* where the thread of a request is in niThreadProc
    expire,    \* seconds it decided to wait
    rawResp,   \* its local copy of the response
    hasNiCb,   \* is there a client with gnssNiCb?
    niMsgs,    \* message queue of the adapter's thread
    job,       \* responses it has yet to store, under the session's lock
    shown,     \* requests the user has seen
    said,      \* what the user responded
    responses, \* how often
    excused,   \* requests pending when an Es request was accepted
    niAnswer   \* what became of a request

sessions == <<rawRequest, reqID, respTimeLeft, respRecvd, resp>>
threads == <<thread, expire, rawResp>>
user == <<shown, said, responses>>
es == <<excused>>
niVars == <<sessions, threads, hasNiCb, niMsgs, job, user, es, niAnswer>>

Pc == {"none", "created", "waiting", "clearTime", "clearId", "send", "done"}
NiMsg == [kind : {"notify"}, r : Requests]
       \cup [kind : {"response", "answer"}, r : Requests, resp : Responses]

NiTypeOK ==
    /\ rawRequest \in [Slots -> Requests \cup {None}]
    /\ reqID \in [Slots -> Requests \cup {None}]
    /\ respTimeLeft \in [Slots -> {0, 1}]
    /\ respRecvd \in [Slots -> BOOLEAN]
    /\ resp \in [Slots -> Responses \cup {"unset"}]
    /\ thread \in [Requests -> Pc]
    /\ expire \in [Requests -> {0, 1}]
    /\ rawResp \in [Requests -> Responses]
    /\ hasNiCb \in BOOLEAN
    /\ niMsgs \in Seq(NiMsg)
    /\ job \in Seq([slot : Slots, resp : Responses])
    /\ shown \subseteq Requests
    /\ said \in [Requests -> SUBSET Responses]
    /\ responses \in Nat
    /\ excused \subseteq Requests
    /\ niAnswer \in [Requests -> Responses \cup {"none", "policy", "busy", "freed"}]

NiInit ==
    /\ rawRequest = [n \in Slots |-> None]
    /\ reqID = [n \in Slots |-> None]
    /\ respTimeLeft = [n \in Slots |-> 0]
    /\ respRecvd = [n \in Slots |-> FALSE]
    /\ resp = [n \in Slots |-> "unset"]
    /\ thread = [r \in Requests |-> "none"]
    /\ expire = [r \in Requests |-> 0]
    /\ rawResp = [r \in Requests |-> "IGNORE"]
    /\ hasNiCb = TRUE
    /\ niMsgs = <<>> /\ job = <<>>
    /\ shown = {} /\ responses = 0
    /\ said = [r \in Requests |-> {}]
    /\ excused = {}
    /\ niAnswer = [r \in Requests |-> "none"]

-----------------------------------------------------------------------------
(* The adapter's thread. *)

sendMsg(m) == niMsgs' = Append(niMsgs, m)

settle(r, how) == niAnswer' = [niAnswer EXCEPT ![r] = how]

pending(n) == rawRequest[n] # None
busy(r) == \/ pending("sessionEs")
           \/ Type[r] # "es" /\ pending("session")

ignoreSession == IF pending("session") THEN <<[slot |-> "session", resp |-> "IGNORE"]>>
                 ELSE <<>>
pendingOther == {rawRequest["session"]} \ {None}
excuse == excused' = excused \cup pendingOther

requestNiNotify(r) ==
    LET n == SlotOf(r) IN
    \/ /\ ~hasNiCb /\ Type[r] = "es"
       /\ settle(r, "policy")
       /\ job' = ignoreSession /\ excuse
       /\ UNCHANGED <<sessions, threads, user>>
    \/ /\ ~hasNiCb /\ Type[r] # "es"
       /\ UNCHANGED <<sessions, threads, user, job, es, niAnswer>>
    \/ /\ hasNiCb /\ busy(r)
       /\ settle(r, "busy")
       /\ UNCHANGED <<sessions, threads, user, job, es>>
    \/ /\ hasNiCb /\ ~busy(r)
       /\ rawRequest' = [rawRequest EXCEPT ![n] = r]
       /\ reqID' = [reqID EXCEPT ![n] = r]
       /\ respTimeLeft' = [respTimeLeft EXCEPT ![n] = 1]
       /\ thread' = [thread EXCEPT ![r] = "created"]
       /\ shown' = shown \cup {r}
       /\ UNCHANGED <<respRecvd, resp, expire, rawResp, job, said, responses,
                      es, niAnswer>>

(* Mutant: a request that policy has answered is shown as well. *)
MsgReportNiNotifyFallsThrough(r) ==
    LET n == SlotOf(r) IN
    \/ /\ Type[r] = "cp" /\ hasNiCb /\ ~busy(r)
       /\ settle(r, "policy")
       /\ rawRequest' = [rawRequest EXCEPT ![n] = r]
       /\ reqID' = [reqID EXCEPT ![n] = r]
       /\ respTimeLeft' = [respTimeLeft EXCEPT ![n] = 1]
       /\ thread' = [thread EXCEPT ![r] = "created"]
       /\ shown' = shown \cup {r}
       /\ UNCHANGED <<respRecvd, resp, expire, rawResp, job, said, responses, es>>
    \/ requestNiNotify(r)

(* An Es request is denied unless there is an emergency; a control plane   *)
(* one may be accepted in an emergency.                                    *)
MsgReportNiNotify(r) ==
    \/ /\ Type[r] \in {"es", "cp"}
       /\ settle(r, "policy")
       /\ UNCHANGED <<sessions, threads, user, job, es>>
    \/ requestNiNotify(r)

(* The checks of MsgGnssNiResponse; the response, and the IGNORE for the   *)
(* other session if an Es request is accepted, are stored later.           *)
MsgGnssNiResponse(r, what) ==
    /\ \/ /\ reqID["sessionEs"] = r /\ pending("sessionEs") /\ hasNiCb
          /\ IF what = "ACCEPT"
             THEN job' = Append(ignoreSession, [slot |-> "sessionEs", resp |-> what]) /\ excuse
             ELSE job' = <<[slot |-> "sessionEs", resp |-> what]>> /\ UNCHANGED es
       \/ /\ ~(reqID["sessionEs"] = r /\ pending("sessionEs"))
          /\ reqID["session"] = r /\ pending("session") /\ hasNiCb
          /\ job' = <<[slot |-> "session", resp |-> what]>>
          /\ UNCHANGED es
       \/ /\ ~hasNiCb \/ \A n \in Slots : ~(reqID[n] = r /\ pending(n))
          /\ UNCHANGED <<job, es>>
    /\ UNCHANGED <<sessions, threads, user, niAnswer>>

ProcNiMsg ==
    /\ job = <<>> /\ niMsgs # <<>>
    /\ niMsgs' = Tail(niMsgs)
    /\ UNCHANGED hasNiCb
    /\ LET m == Head(niMsgs) IN
       \/ m.kind = "notify" /\ MsgReportNiNotify(m.r)
       \/ m.kind = "response" /\ MsgGnssNiResponse(m.r, m.resp)
       \/ /\ m.kind = "answer" /\ settle(m.r, m.resp)
          /\ UNCHANGED <<sessions, threads, user, job, es>>

StoreResponse ==
    /\ job # <<>>
    /\ LET n == Head(job).slot IN
          /\ resp' = [resp EXCEPT ![n] = Head(job).resp]
          /\ respRecvd' = [respRecvd EXCEPT ![n] = TRUE]
    /\ job' = Tail(job)
    /\ UNCHANGED <<rawRequest, reqID, respTimeLeft, threads, hasNiCb, niMsgs, user,
                   es, niAnswer>>

-----------------------------------------------------------------------------
(* niThreadProc of request r. *)

goto(r, pc) == thread' = [thread EXCEPT ![r] = pc]

ThreadStart(r) ==
    /\ thread[r] = "created" /\ ~respRecvd[SlotOf(r)]
    /\ expire' = [expire EXCEPT ![r] = respTimeLeft[SlotOf(r)]]
    /\ goto(r, "waiting")
    /\ UNCHANGED <<sessions, rawResp, hasNiCb, niMsgs, job, user, es, niAnswer>>

(* Mutant: the request is not taken out of the session. *)
finishKeepsRequest(r, what) ==
    LET n == SlotOf(r) IN
    /\ resp' = [resp EXCEPT ![n] = what]
    /\ respRecvd' = [respRecvd EXCEPT ![n] = FALSE]
    /\ rawResp' = [rawResp EXCEPT ![r] = what]
    /\ niAnswer' = IF what = "IGNORE" THEN [niAnswer EXCEPT ![r] = "freed"] ELSE niAnswer
    /\ goto(r, "clearTime")
    /\ UNCHANGED <<rawRequest, reqID, respTimeLeft, expire, hasNiCb, niMsgs, job, user, es>>

(* From the end of the wait to the unlock. *)
finish(r, what) ==
    LET n == SlotOf(r) IN
    /\ resp' = [resp EXCEPT ![n] = what]
    /\ respRecvd' = [respRecvd EXCEPT ![n] = FALSE]
    /\ rawRequest' = [rawRequest EXCEPT ![n] = None]
    /\ rawResp' = [rawResp EXCEPT ![r] = IF rawRequest[n] = None THEN "IGNORE" ELSE what]
    /\ niAnswer' = IF what = "IGNORE" /\ rawRequest[n] # None
                   THEN [niAnswer EXCEPT ![r] = "freed"] ELSE niAnswer
    /\ goto(r, "clearTime")
    /\ UNCHANGED <<reqID, respTimeLeft, expire, hasNiCb, niMsgs, job, user, es>>

(* The loop ends, or does not begin, with a response. *)
ThreadResponded(r) ==
    /\ thread[r] \in {"created", "waiting"} /\ respRecvd[SlotOf(r)]
    /\ finish(r, resp[SlotOf(r)])

(* Mutant: the loop is not left when the time has run out. *)
ThreadTimeoutWaitsOn(r) ==
    /\ thread[r] = "waiting"
    /\ resp' = [resp EXCEPT ![SlotOf(r)] = "NO_RESPONSE"]
    /\ UNCHANGED <<rawRequest, reqID, respTimeLeft, respRecvd, threads, hasNiCb, niMsgs,
                   job, user, es, niAnswer>>

(* The time runs out, perhaps with a response that came just then. *)
ThreadTimeout(r) ==
    /\ thread[r] = "waiting"
    /\ finish(r, "NO_RESPONSE")

ThreadClearTime(r) ==
    /\ thread[r] = "clearTime"
    /\ respTimeLeft' = [respTimeLeft EXCEPT ![SlotOf(r)] = 0]
    /\ goto(r, "clearId")
    /\ UNCHANGED <<rawRequest, reqID, respRecvd, resp, expire, rawResp, hasNiCb, niMsgs,
                   job, user, es, niAnswer>>

ThreadClearId(r) ==
    /\ thread[r] = "clearId"
    /\ reqID' = [reqID EXCEPT ![SlotOf(r)] = None]
    /\ goto(r, IF rawResp[r] = "IGNORE" THEN "done" ELSE "send")
    /\ UNCHANGED <<rawRequest, respTimeLeft, respRecvd, resp, expire, rawResp, hasNiCb,
                   niMsgs, job, user, es, niAnswer>>

ThreadSend(r) ==
    /\ thread[r] = "send"
    /\ sendMsg([kind |-> "answer", r |-> r, resp |-> rawResp[r]])
    /\ goto(r, "done")
    /\ UNCHANGED <<sessions, expire, rawResp, hasNiCb, job, user, es, niAnswer>>

-----------------------------------------------------------------------------
(* The modem, the user and the client. *)

requestNiNotifyEvent(r) ==
    LET m == [kind |-> "notify", r |-> r] IN
    /\ niAnswer[r] = "none" /\ thread[r] = "none"
    /\ \A i \in 1..Len(niMsgs) : niMsgs[i] # m
    /\ sendMsg(m)
    /\ UNCHANGED <<sessions, threads, hasNiCb, job, user, es, niAnswer>>

gnssNiResponse(r, what) ==
    /\ r \in shown /\ responses < MaxResponses
    /\ responses' = responses + 1
    /\ said' = [said EXCEPT ![r] = @ \cup {what}]
    /\ sendMsg([kind |-> "response", r |-> r, resp |-> what])
    /\ UNCHANGED <<sessions, threads, hasNiCb, job, shown, es, niAnswer>>

ClientRemoved ==
    /\ hasNiCb /\ hasNiCb' = FALSE
    /\ UNCHANGED <<sessions, threads, niMsgs, job, user, es, niAnswer>>

Thread(r) == ThreadStart(r) \/ ThreadResponded(r) \/ ThreadTimeout(r)
             \/ ThreadClearTime(r) \/ ThreadClearId(r) \/ ThreadSend(r)

NiNext ==
    \/ ProcNiMsg \/ StoreResponse \/ ClientRemoved
    \/ \E r \in Requests :
          \/ Thread(r)
          \/ requestNiNotifyEvent(r)
          \/ \E what \in UserResponses : gnssNiResponse(r, what)

(* The adapter's thread works while it has messages, and a thread runs;    *)
(* time passes, so a wait ends.                                            *)
NiFairness == /\ WF_niVars(ProcNiMsg) /\ WF_niVars(StoreResponse)
              /\ \A r \in Requests : WF_niVars(Thread(r))

NiSpec == NiInit /\ [][NiNext]_niVars
NiFairSpec == NiSpec /\ NiFairness
-----------------------------------------------------------------------------
(* A session has a request exactly as long as one thread waits for the     *)
(* response: no two threads of a session ever wait, and no request is left *)
(* behind that would make the session busy for ever.                       *)
SessionHasThread ==
    \A n \in Slots :
        /\ pending(n) => /\ SlotOf(rawRequest[n]) = n
                         /\ thread[rawRequest[n]] \in {"created", "waiting"}
        /\ \A r \in Requests :
              SlotOf(r) = n /\ thread[r] \in {"created", "waiting"} => rawRequest[n] = r

(* The memory of a request is freed or handed to the modem with an answer  *)
(* once: nothing happens to a request that has ended.                      *)
EndedOnce ==
    [][\A r \in Requests : niAnswer[r] # "none" => niAnswer'[r] = niAnswer[r]]_niVars

(* "Reset the user response flag for the next session" (GnssAdapter.cpp    *)
(* :3773): the modem gets for a request what the user said of that request *)
(* or NO_RESPONSE, and it is dropped only for an Es request.               *)
AnswerIsOwn ==
    \A r \in Requests :
        /\ niAnswer[r] \in Responses => niAnswer[r] \in said[r] \cup {"NO_RESPONSE"}
        /\ niAnswer[r] = "freed" => r \in excused \/ "IGNORE" \in said[r]

(* Every request that is shown ends, whether or not the user responds. *)
EveryRequestEnds == \A r \in Requests : r \in shown ~> niAnswer[r] # "none"
=============================================================================
