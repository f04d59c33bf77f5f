--------------------------- MODULE AdapterProofs ---------------------------
(***************************************************************************)
(* Theorems about the two parts of GnssAdapter, which share no state.      *)
(* NI sessions: types, SessionHasThread and EndedOnce, for any requests    *)
(* and responses.  Tracking: types, StoppedIsGone and OnlyMapsRun, for any *)
(* clients, sessions and options, and FixServesAll under the hypothesis    *)
(* Faithful.                                                               *)
(***************************************************************************)
EXTENDS NiSession, GnssTracking, SequenceTheorems, FiniteSetTheorems, TLAPS

-----------------------------------------------------------------------------
(* NI sessions.                                                            *)

LEMMA SlotType == \A r \in Requests : SlotOf(r) \in Slots
  BY DEF SlotOf, Slots

LEMMA NiInitType == NiInit => NiTypeOK
  BY NiConstants DEF NiInit, NiTypeOK, Slots, Responses, Pc, NiMsg

Job == [slot : Slots, resp : Responses]

(* What NiTypeOK needs to be inductive: a stored response is one.          *)
StoredResponse == \A n \in Slots : respRecvd[n] => resp[n] \in Responses

TypeInv == NiTypeOK /\ StoredResponse

-----------------------------------------------------------------------------
(* Each action keeps the types.                                            *)

LEMMA JobType ==
    ASSUME NEW n \in Slots, NEW what \in Responses
    PROVE  /\ ignoreSession \in Seq(Job)
           /\ <<[slot |-> n, resp |-> what]>> \in Seq(Job)
           /\ Append(ignoreSession, [slot |-> n, resp |-> what]) \in Seq(Job)
  <1>1. [slot |-> n, resp |-> what] \in Job
    BY DEF Job
  <1>2. [slot |-> "session", resp |-> "IGNORE"] \in Job
    BY DEF Job, Slots, Responses
  <1>3. ignoreSession \in Seq(Job)
    BY <1>2 DEF ignoreSession
  <1>4. QED BY <1>1, <1>3

LEMMA ExcuseType ==
    ASSUME NiTypeOK, excuse
    PROVE  excused' \subseteq Requests
  BY DEF NiTypeOK, excuse, pendingOther, Slots

LEMMA NotifyType ==
    ASSUME NiTypeOK, NEW r \in Requests, requestNiNotify(r),
           niMsgs' \in Seq(NiMsg), hasNiCb' = hasNiCb
    PROVE  NiTypeOK'
  <1>1. CASE ~hasNiCb /\ Type[r] = "es"
    <2>1. /\ settle(r, "policy") /\ job' = ignoreSession /\ excuse
          /\ UNCHANGED <<sessions, threads, user>>
      BY <1>1 DEF requestNiNotify
    <2>0. job' \in Seq(Job)
      BY <2>1, JobType DEF Slots, Responses
    <2>2. QED
      BY <2>1, <2>0, ExcuseType DEF NiTypeOK, settle, Job, sessions, threads, user
  <1>2. CASE ~hasNiCb /\ Type[r] # "es"
    <2>1. UNCHANGED <<sessions, threads, user, job, es, niAnswer>>
      BY <1>2 DEF requestNiNotify
    <2>2. QED
      BY <2>1 DEF NiTypeOK, sessions, threads, user, es
  <1>3. CASE hasNiCb /\ busy(r)
    <2>1. settle(r, "busy") /\ UNCHANGED <<sessions, threads, user, job, es>>
      BY <1>3 DEF requestNiNotify
    <2>2. QED
      BY <2>1 DEF NiTypeOK, settle, sessions, threads, user, es
  <1>4. CASE hasNiCb /\ ~busy(r)
    <2>1. /\ rawRequest' = [rawRequest EXCEPT ![SlotOf(r)] = r]
          /\ reqID' = [reqID EXCEPT ![SlotOf(r)] = r]
          /\ respTimeLeft' = [respTimeLeft EXCEPT ![SlotOf(r)] = 1]
          /\ thread' = [thread EXCEPT ![r] = "created"]
          /\ shown' = shown \cup {r}
          /\ UNCHANGED <<respRecvd, resp, expire, rawResp, job, said, responses,
                         es, niAnswer>>
      BY <1>4 DEF requestNiNotify
    <2>2. "created" \in Pc /\ SlotOf(r) \in Slots
      BY SlotType DEF Pc
    <2>3. QED
      BY <2>1, <2>2 DEF NiTypeOK, es
  <1>5. QED BY <1>1, <1>2, <1>3, <1>4

LEMMA MsgReportType ==
    ASSUME NiTypeOK, NEW r \in Requests, MsgReportNiNotify(r),
           niMsgs' \in Seq(NiMsg), hasNiCb' = hasNiCb
    PROVE  NiTypeOK'
  <1>1. CASE requestNiNotify(r)
    BY <1>1, NotifyType
  <1>2. CASE settle(r, "policy") /\ UNCHANGED <<sessions, threads, user, job, es>>
    BY <1>2 DEF NiTypeOK, settle, sessions, threads, user, es
  <1>3. QED BY <1>1, <1>2 DEF MsgReportNiNotify

LEMMA MsgResponseType ==
    ASSUME NiTypeOK, NEW r \in Requests, NEW what \in Responses,
           MsgGnssNiResponse(r, what), niMsgs' \in Seq(NiMsg), hasNiCb' = hasNiCb
    PROVE  NiTypeOK'
  <1>1. UNCHANGED <<sessions, threads, user, niAnswer>>
    BY DEF MsgGnssNiResponse
  <1>2. \/ job' = job
        \/ \E n \in Slots : job' = <<[slot |-> n, resp |-> what]>>
        \/ \E n \in Slots : job' = Append(ignoreSession, [slot |-> n, resp |-> what])
    BY DEF MsgGnssNiResponse, Slots
  <1>3. job' \in Seq(Job)
    BY <1>2, JobType DEF NiTypeOK, Job
  <1>4. excuse \/ UNCHANGED es
    BY DEF MsgGnssNiResponse
  <1>5. excused' \subseteq Requests
    BY <1>4, ExcuseType DEF es, NiTypeOK
  <1>6. QED
    BY <1>1, <1>3, <1>5 DEF NiTypeOK, Job, sessions, threads, user

LEMMA ProcNiMsgType ==
    ASSUME NiTypeOK, ProcNiMsg
    PROVE  NiTypeOK'
  <1>1. /\ Head(niMsgs) \in NiMsg /\ niMsgs' \in Seq(NiMsg) /\ hasNiCb' = hasNiCb
    BY DEF NiTypeOK, ProcNiMsg
  <1>2. CASE Head(niMsgs).kind = "notify" /\ MsgReportNiNotify(Head(niMsgs).r)
    BY <1>1, <1>2, MsgReportType DEF NiMsg
  <1>3. CASE Head(niMsgs).kind = "response" /\ MsgGnssNiResponse(Head(niMsgs).r, Head(niMsgs).resp)
    <2>1. Head(niMsgs).r \in Requests /\ Head(niMsgs).resp \in Responses
      BY <1>1, <1>3 DEF NiMsg
    <2>2. QED BY <1>1, <1>3, <2>1, MsgResponseType
  <1>4. CASE /\ Head(niMsgs).kind = "answer" /\ settle(Head(niMsgs).r, Head(niMsgs).resp)
             /\ UNCHANGED <<sessions, threads, user, job, es>>
    <2>1. Head(niMsgs).r \in Requests /\ Head(niMsgs).resp \in Responses
      BY <1>1, <1>4 DEF NiMsg
    <2>2. QED
      BY <1>1, <1>4, <2>1 DEF NiTypeOK, settle, sessions, threads, user, es
  <1>5. QED BY <1>2, <1>3, <1>4 DEF ProcNiMsg

LEMMA StoreResponseType ==
    ASSUME TypeInv, StoreResponse
    PROVE  TypeInv'
  <1>0. NiTypeOK /\ StoredResponse BY DEF TypeInv
  <1>j. job \in Seq(Job) /\ job # <<>>
    BY <1>0 DEF NiTypeOK, StoreResponse, Job
  <1>1. Head(job) \in Job /\ Tail(job) \in Seq(Job)
    BY <1>j
  <1>2. Head(job).slot \in Slots /\ Head(job).resp \in Responses
    BY <1>1 DEF Job
  <1>3. NiTypeOK'
    BY <1>0, <1>1, <1>2 DEF NiTypeOK, StoreResponse, threads, user, es, Job
  <1>4. StoredResponse'
    BY <1>0, <1>2 DEF StoredResponse, NiTypeOK, StoreResponse
  <1>5. QED BY <1>3, <1>4 DEF TypeInv

LEMMA FinishType ==
    ASSUME TypeInv, NEW r \in Requests, NEW what \in Responses, finish(r, what)
    PROVE  TypeInv'
  <1>0. NiTypeOK /\ StoredResponse BY DEF TypeInv
  <1>1. SlotOf(r) \in Slots /\ "clearTime" \in Pc /\ "IGNORE" \in Responses
    BY SlotType DEF Pc, Responses
  <1>2. /\ respRecvd' = [respRecvd EXCEPT ![SlotOf(r)] = FALSE]
        /\ resp' = [resp EXCEPT ![SlotOf(r)] = what]
        /\ rawRequest' = [rawRequest EXCEPT ![SlotOf(r)] = None]
        /\ thread' = [thread EXCEPT ![r] = "clearTime"]
        /\ UNCHANGED <<reqID, respTimeLeft, expire, hasNiCb, niMsgs, job, user, es>>
    BY DEF finish, goto
  <1>3. rawResp' \in [Requests -> Responses]
    BY <1>0, <1>1 DEF finish, NiTypeOK
  <1>4. niAnswer' \in [Requests -> Responses \cup {"none", "policy", "busy", "freed"}]
    BY <1>0, <1>1 DEF finish, NiTypeOK
  <1>5. NiTypeOK'
    BY <1>0, <1>1, <1>2, <1>3, <1>4 DEF NiTypeOK, user, es
  <1>6. StoredResponse'
    BY <1>0, <1>1, <1>2 DEF StoredResponse, NiTypeOK
  <1>7. QED BY <1>5, <1>6 DEF TypeInv

LEMMA ThreadType ==
    ASSUME TypeInv, NEW r \in Requests, Thread(r)
    PROVE  TypeInv'
  <1>0. NiTypeOK /\ StoredResponse BY DEF TypeInv
  <1>s. SlotOf(r) \in Slots BY SlotType
  <1>1. CASE ThreadStart(r)
    <2>1. "waiting" \in Pc BY DEF Pc
    <2>2. QED
      BY <1>0, <1>1, <1>s, <2>1
      DEF TypeInv, NiTypeOK, StoredResponse, ThreadStart, goto, sessions, user, es
  <1>2. CASE ThreadResponded(r)
    <2>1. resp[SlotOf(r)] \in Responses
      BY <1>0, <1>2, <1>s DEF ThreadResponded, StoredResponse
    <2>2. QED BY <1>2, <2>1, FinishType DEF ThreadResponded
  <1>3. CASE ThreadTimeout(r)
    BY <1>3, FinishType DEF ThreadTimeout, Responses
  <1>4. CASE ThreadClearTime(r)
    <2>1. "clearId" \in Pc BY DEF Pc
    <2>2. QED
      BY <1>0, <1>4, <1>s, <2>1
      DEF TypeInv, NiTypeOK, StoredResponse, ThreadClearTime, goto, user, es
  <1>5. CASE ThreadClearId(r)
    <2>1. "done" \in Pc /\ "send" \in Pc BY DEF Pc
    <2>2. QED
      BY <1>0, <1>5, <1>s, <2>1
      DEF TypeInv, NiTypeOK, StoredResponse, ThreadClearId, goto, user, es
  <1>6. CASE ThreadSend(r)
    <2>1. "done" \in Pc BY DEF Pc
    <2>2. [kind |-> "answer", r |-> r, resp |-> rawResp[r]] \in NiMsg
      BY <1>0 DEF NiMsg, NiTypeOK
    <2>3. niMsgs' \in Seq(NiMsg)
      BY <1>0, <1>6, <2>2 DEF NiTypeOK, ThreadSend, sendMsg
    <2>4. QED
      BY <1>0, <1>6, <2>1, <2>3
      DEF TypeInv, NiTypeOK, StoredResponse, ThreadSend, goto, sessions, user, es
  <1>7. QED BY <1>1, <1>2, <1>3, <1>4, <1>5, <1>6 DEF Thread

LEMMA EnvironmentType ==
    ASSUME TypeInv, NEW r \in Requests,
           \/ requestNiNotifyEvent(r)
           \/ \E what \in UserResponses : gnssNiResponse(r, what)
    PROVE  TypeInv'
  <1>0. NiTypeOK /\ StoredResponse BY DEF TypeInv
  <1>1. CASE requestNiNotifyEvent(r)
    <2>1. [kind |-> "notify", r |-> r] \in NiMsg BY DEF NiMsg
    <2>2. niMsgs' \in Seq(NiMsg)
      BY <1>0, <1>1, <2>1 DEF NiTypeOK, requestNiNotifyEvent, sendMsg
    <2>3. QED
      BY <1>0, <1>1, <2>2
      DEF TypeInv, NiTypeOK, StoredResponse, requestNiNotifyEvent, sessions, threads, user, es
  <1>2. CASE \E what \in UserResponses : gnssNiResponse(r, what)
    <2>1. PICK what \in UserResponses : gnssNiResponse(r, what) BY <1>2
    <2>2. what \in Responses BY NiConstants
    <2>3. [kind |-> "response", r |-> r, resp |-> what] \in NiMsg
      BY <2>2 DEF NiMsg
    <2>4. niMsgs' \in Seq(NiMsg)
      BY <1>0, <2>1, <2>3 DEF NiTypeOK, gnssNiResponse, sendMsg
    <2>5. said' \in [Requests -> SUBSET Responses]
      BY <1>0, <2>1, <2>2 DEF NiTypeOK, gnssNiResponse
    <2>6. responses' \in Nat
      BY <1>0, <2>1 DEF NiTypeOK, gnssNiResponse
    <2>7. QED
      BY <1>0, <2>1, <2>4, <2>5, <2>6
      DEF TypeInv, NiTypeOK, StoredResponse, gnssNiResponse, sessions, threads, es
  <1>3. QED BY <1>1, <1>2

LEMMA ProcMsgStored ==
    ASSUME StoredResponse, ProcNiMsg
    PROVE  StoredResponse'
  <1>1. UNCHANGED <<resp, respRecvd>>
    BY DEF ProcNiMsg, MsgReportNiNotify, MsgGnssNiResponse, requestNiNotify, sessions
  <1>2. QED BY <1>1 DEF StoredResponse

LEMMA NiNextType == TypeInv /\ [NiNext]_niVars => TypeInv'
  <1> SUFFICES ASSUME TypeInv, [NiNext]_niVars PROVE TypeInv'
    OBVIOUS
  <1>0. NiTypeOK /\ StoredResponse BY DEF TypeInv
  <1>1. CASE ProcNiMsg
    BY <1>0, <1>1, ProcNiMsgType, ProcMsgStored DEF TypeInv
  <1>2. CASE StoreResponse
    BY <1>2, StoreResponseType
  <1>3. CASE ClientRemoved
    BY <1>0, <1>3
    DEF TypeInv, NiTypeOK, StoredResponse, ClientRemoved, sessions, threads, user, es
  <1>4. CASE \E r \in Requests : Thread(r)
    BY <1>4, ThreadType
  <1>5. CASE \E r \in Requests :
                \/ requestNiNotifyEvent(r)
                \/ \E what \in UserResponses : gnssNiResponse(r, what)
    BY <1>5, EnvironmentType
  <1>6. CASE UNCHANGED niVars
    BY <1>0, <1>6
    DEF TypeInv, NiTypeOK, StoredResponse, niVars, sessions, threads, user, es
  <1>7. QED BY <1>1, <1>2, <1>3, <1>4, <1>5, <1>6 DEF NiNext

(* Every variable of NiSession keeps its type.                             *)
THEOREM NiTypeCorrect == NiSpec => []NiTypeOK
  <1>1. NiInit => TypeInv
    BY NiInitType DEF TypeInv, StoredResponse, NiInit, Slots
  <1>2. TypeInv => NiTypeOK
    BY DEF TypeInv
  <1>3. QED
    BY <1>1, <1>2, NiNextType, PTL DEF NiSpec

-----------------------------------------------------------------------------
(* SessionHasThread, of one session.                                       *)
Awaited == {"created", "waiting"}

SlotHas(n) ==
    /\ rawRequest[n] # None => /\ SlotOf(rawRequest[n]) = n
                               /\ thread[rawRequest[n]] \in Awaited
    /\ \A r \in Requests :
          SlotOf(r) = n /\ thread[r] \in Awaited => rawRequest[n] = r

LEMMA HasIsInvariant == SessionHasThread <=> \A n \in Slots : SlotHas(n)
  BY DEF SessionHasThread, SlotHas, Awaited, pending

(* A request is taken only into a session that has none.                   *)
LEMMA NotifyHas ==
    ASSUME NiTypeOK, SessionHasThread, NEW r \in Requests, requestNiNotify(r)
    PROVE  SessionHasThread'
  <1>1. CASE UNCHANGED <<sessions, threads>>
    BY <1>1 DEF SessionHasThread, pending, sessions, threads
  <1>2. CASE hasNiCb /\ ~busy(r)
    <2> DEFINE n == SlotOf(r)
    <2>1. n \in Slots /\ None \notin Requests
      BY SlotType, NiConstants
    <2>2. /\ rawRequest' = [rawRequest EXCEPT ![n] = r]
          /\ thread' = [thread EXCEPT ![r] = "created"]
      BY <1>2 DEF requestNiNotify
    <2>3. rawRequest[n] = None
      BY <1>2 DEF busy, pending, SlotOf
    <2>4. /\ rawRequest'[n] = r
          /\ \A m \in Slots \ {n} : rawRequest'[m] = rawRequest[m]
          /\ thread'[r] = "created"
          /\ \A q \in Requests \ {r} : thread'[q] = thread[q]
          /\ \A m \in Slots : rawRequest[m] \in Requests \cup {None}
      BY <2>1, <2>2 DEF NiTypeOK
    <2> HIDE DEF n
    <2>5. \A m \in Slots : SlotHas(m)
      BY HasIsInvariant
    <2>6. SlotHas(n)'
      BY <2>1, <2>3, <2>4, <2>5 DEF SlotHas, Awaited, n
    <2>7. ASSUME NEW m \in Slots \ {n} PROVE SlotHas(m)'
      BY <2>1, <2>4, <2>5, <2>7 DEF SlotHas, n
    <2>8. \A m \in Slots : SlotHas(m)'
      BY <2>6, <2>7
    <2>9. QED BY <2>8 DEF SessionHasThread, SlotHas, Awaited, pending
  <1>3. QED BY <1>1, <1>2 DEF requestNiNotify

(* A thread that ends its wait takes its request out of the session.       *)
LEMMA FinishHas ==
    ASSUME NiTypeOK, SessionHasThread, NEW r \in Requests, NEW what,
           thread[r] \in Awaited, finish(r, what)
    PROVE  SessionHasThread'
  <1> DEFINE n == SlotOf(r)
  <1>1. n \in Slots BY SlotType
  <1>2. /\ rawRequest' = [rawRequest EXCEPT ![n] = None]
        /\ thread' = [thread EXCEPT ![r] = "clearTime"]
    BY DEF finish, goto
  <1>3. /\ rawRequest'[n] = None
        /\ \A m \in Slots \ {n} : rawRequest'[m] = rawRequest[m]
        /\ thread'[r] = "clearTime"
        /\ \A q \in Requests \ {r} : thread'[q] = thread[q]
        /\ \A m \in Slots : rawRequest[m] \in Requests \cup {None}
    BY <1>1, <1>2 DEF NiTypeOK
  <1> HIDE DEF n
  <1>4. \A m \in Slots : SlotHas(m)
    BY HasIsInvariant
  <1>5. SlotHas(n)'
    BY <1>1, <1>3, <1>4 DEF SlotHas, Awaited, n
  <1>6. ASSUME NEW m \in Slots \ {n} PROVE SlotHas(m)'
    BY <1>1, <1>3, <1>4, <1>6 DEF SlotHas, Awaited, n
  <1>7. \A m \in Slots : SlotHas(m)'
    BY <1>5, <1>6
  <1>8. QED BY <1>7 DEF SessionHasThread, SlotHas, Awaited, pending

(* The steps of a thread that stay on the same side of its wait.           *)
LEMMA GotoHas ==
    ASSUME NiTypeOK, SessionHasThread, NEW r \in Requests, NEW pc,
           goto(r, pc), rawRequest' = rawRequest,
           thread[r] \in Awaited <=> pc \in Awaited
    PROVE  SessionHasThread'
  <1>1. /\ thread'[r] = pc
        /\ \A q \in Requests \ {r} : thread'[q] = thread[q]
    BY DEF goto, NiTypeOK
  <1>2. \A q \in Requests : thread'[q] \in Awaited <=> thread[q] \in Awaited
    BY <1>1
  <1>3. \A n \in Slots : rawRequest[n] # None => rawRequest[n] \in Requests
    BY DEF NiTypeOK
  <1>4. ASSUME NEW n \in Slots PROVE SlotHas(n)'
    BY <1>2, <1>3, HasIsInvariant DEF SlotHas
  <1>5. QED BY <1>4 DEF SessionHasThread, SlotHas, Awaited, pending

LEMMA ThreadHas ==
    ASSUME NiTypeOK, SessionHasThread, NEW r \in Requests, Thread(r)
    PROVE  SessionHasThread'
  <1>1. CASE ThreadResponded(r)
    BY <1>1, FinishHas DEF ThreadResponded, Awaited
  <1>2. CASE ThreadTimeout(r)
    BY <1>2, FinishHas DEF ThreadTimeout, Awaited
  <1>3. CASE ThreadStart(r)
    BY <1>3, GotoHas DEF ThreadStart, Awaited, sessions
  <1>4. CASE ThreadClearTime(r)
    BY <1>4, GotoHas DEF ThreadClearTime, Awaited
  <1>5. CASE ThreadClearId(r)
    <2>1. goto(r, "done") \/ goto(r, "send")
      BY <1>5 DEF ThreadClearId
    <2>2. /\ thread[r] \notin Awaited /\ rawRequest' = rawRequest
          /\ "done" \notin Awaited /\ "send" \notin Awaited
      BY <1>5 DEF ThreadClearId, Awaited
    <2>3. QED BY <2>1, <2>2, GotoHas
  <1>6. CASE ThreadSend(r)
    BY <1>6, GotoHas DEF ThreadSend, Awaited, sessions
  <1>7. QED BY <1>1, <1>2, <1>3, <1>4, <1>5, <1>6 DEF Thread

LEMMA NextHas == TypeInv /\ SessionHasThread /\ [NiNext]_niVars => SessionHasThread'
  <1> SUFFICES ASSUME NiTypeOK, SessionHasThread, [NiNext]_niVars
               PROVE  SessionHasThread'
    BY DEF TypeInv
  <1>1. ASSUME UNCHANGED <<rawRequest, thread>> PROVE SessionHasThread'
    BY <1>1 DEF SessionHasThread, pending
  <1>2. CASE ProcNiMsg
    <2>1. Head(niMsgs) \in NiMsg
      BY <1>2 DEF NiTypeOK, ProcNiMsg
    <2>2. CASE Head(niMsgs).kind = "notify" /\ MsgReportNiNotify(Head(niMsgs).r)
      <3>1. Head(niMsgs).r \in Requests
        BY <2>1, <2>2 DEF NiMsg
      <3>2. CASE requestNiNotify(Head(niMsgs).r)
        BY <3>1, <3>2, NotifyHas
      <3>3. CASE UNCHANGED <<sessions, threads>>
        BY <3>3, <1>1 DEF sessions, threads
      <3>4. QED BY <2>2, <3>2, <3>3 DEF MsgReportNiNotify
    <2>3. CASE UNCHANGED <<sessions, threads>>
      BY <2>3, <1>1 DEF sessions, threads
    <2>4. QED BY <1>2, <2>2, <2>3 DEF ProcNiMsg, MsgGnssNiResponse
  <1>3. CASE StoreResponse
    BY <1>1, <1>3 DEF StoreResponse, threads
  <1>4. CASE ClientRemoved
    BY <1>1, <1>4 DEF ClientRemoved, sessions, threads
  <1>5. CASE \E r \in Requests : Thread(r)
    BY <1>5, ThreadHas
  <1>6. CASE \E r \in Requests :
                \/ requestNiNotifyEvent(r)
                \/ \E what \in UserResponses : gnssNiResponse(r, what)
    BY <1>1, <1>6 DEF requestNiNotifyEvent, gnssNiResponse, sessions, threads
  <1>7. CASE UNCHANGED niVars
    BY <1>1, <1>7 DEF niVars, sessions, threads
  <1>8. QED BY <1>2, <1>3, <1>4, <1>5, <1>6, <1>7 DEF NiNext

(* A session is busy exactly as long as one thread waits for its response, *)
(* so requestNiNotify never gives a session to a second thread.            *)
THEOREM OneThreadPerSession == NiSpec => []SessionHasThread
  <1>1. NiInit => TypeInv
    BY NiInitType DEF TypeInv, StoredResponse, NiInit, Slots
  <1>2. NiInit => SessionHasThread
    BY DEF NiInit, SessionHasThread, pending, Slots
  <1>3. QED
    BY <1>1, <1>2, NiNextType, NextHas, PTL DEF NiSpec

-----------------------------------------------------------------------------
(* EndedOnce.  A request is on its way to one end: it waits in a notify    *)
(* message, or a thread works on it, or an answer message does, and while  *)
(* it is, nothing has become of it yet.                                    *)
Concerns(m, r) == m.kind \in {"notify", "answer"} /\ m.r = r

OnceQueued ==
    \A r \in Requests : \A i, j \in 1..Len(niMsgs) :
        Concerns(niMsgs[i], r) /\ Concerns(niMsgs[j], r) => i = j

QueuedOpen ==
    \A r \in Requests : \A i \in 1..Len(niMsgs) :
        Concerns(niMsgs[i], r) =>
            /\ niAnswer[r] = "none"
            /\ thread[r] = IF niMsgs[i].kind = "notify" THEN "none" ELSE "done"

ThreadOpen ==
    \A r \in Requests :
        /\ thread[r] \in Awaited => niAnswer[r] = "none"
        /\ thread[r] \in {"clearTime", "clearId", "send"} /\ rawResp[r] # "IGNORE"
              => niAnswer[r] = "none"
        /\ thread[r] = "send" => rawResp[r] # "IGNORE"

NiOpenInv == OnceQueued /\ QueuedOpen /\ ThreadOpen

(* What has become of a request does not change.                           *)
EndsKept == \A r \in Requests : niAnswer[r] # "none" => niAnswer'[r] = niAnswer[r]

(* One request r takes part in a step: all others are where they were.     *)
OnlyConcerns(r) ==
    \A q \in Requests \ {r} : /\ niAnswer'[q] = niAnswer[q] /\ thread'[q] = thread[q]
                              /\ rawResp'[q] = rawResp[q]

LEMMA MsgOfQueue ==
    ASSUME NiTypeOK
    PROVE  \A i \in 1..Len(niMsgs) : niMsgs[i] \in NiMsg
  BY DEF NiTypeOK

(* A step of r's thread while no message is about r.                       *)
LEMMA ThreadStepOpen ==
    ASSUME NiTypeOK, NiOpenInv, NEW r \in Requests, niMsgs' = niMsgs, OnlyConcerns(r),
           \A i \in 1..Len(niMsgs) : ~Concerns(niMsgs[i], r),
           thread'[r] \in Awaited => niAnswer'[r] = "none",
           thread'[r] \in {"clearTime", "clearId", "send"} /\ rawResp'[r] # "IGNORE"
              => niAnswer'[r] = "none",
           thread'[r] = "send" => rawResp'[r] # "IGNORE"
    PROVE  NiOpenInv'
  <1>1. OnceQueued'
    BY DEF NiOpenInv, OnceQueued
  <1>2. QueuedOpen'
    BY DEF NiOpenInv, QueuedOpen, OnlyConcerns
  <1>3. ThreadOpen'
    BY DEF NiOpenInv, ThreadOpen, OnlyConcerns
  <1>4. QED BY <1>1, <1>2, <1>3 DEF NiOpenInv

(* A message m is sent which is about no request, or is the first about r. *)
LEMMA SendOpen ==
    ASSUME NiTypeOK, NiOpenInv, NEW r \in Requests, NEW m \in NiMsg, niMsgs' = Append(niMsgs, m),
           OnlyConcerns(r), niAnswer' = niAnswer, rawResp' = rawResp,
           \A q \in Requests \ {r} : ~Concerns(m, q),
           Concerns(m, r) => /\ \A i \in 1..Len(niMsgs) : ~Concerns(niMsgs[i], r)
                             /\ niAnswer[r] = "none"
                             /\ thread'[r] = IF m.kind = "notify" THEN "none" ELSE "done",
           thread'[r] = thread[r] \/ Concerns(m, r)
    PROVE  NiOpenInv'
  <1>1. /\ Len(niMsgs') = Len(niMsgs) + 1 /\ niMsgs'[Len(niMsgs) + 1] = m
        /\ \A i \in 1..Len(niMsgs) : niMsgs'[i] = niMsgs[i]
        /\ Len(niMsgs) \in Nat
    BY DEF NiTypeOK
  <1>2. \A i \in 1..Len(niMsgs') : i \in 1..Len(niMsgs) \/ i = Len(niMsgs) + 1
    BY <1>1
  <1>3. ASSUME NEW q \in Requests, NEW i \in 1..Len(niMsgs'), NEW j \in 1..Len(niMsgs'),
               Concerns(niMsgs'[i], q), Concerns(niMsgs'[j], q)
        PROVE  i = j
    <2>1. CASE q = r
      BY <1>1, <1>2, <1>3, <2>1 DEF NiOpenInv, OnceQueued
    <2>2. CASE q # r
      BY <1>1, <1>2, <1>3, <2>2 DEF NiOpenInv, OnceQueued
    <2>3. QED BY <2>1, <2>2
  <1>4. ASSUME NEW q \in Requests, NEW i \in 1..Len(niMsgs'), Concerns(niMsgs'[i], q)
        PROVE  /\ niAnswer'[q] = "none"
               /\ thread'[q] = IF niMsgs'[i].kind = "notify" THEN "none" ELSE "done"
    <2>1. CASE i = Len(niMsgs) + 1
      BY <1>1, <1>4, <2>1
    <2>2. CASE i \in 1..Len(niMsgs)
      <3>1. Concerns(niMsgs[i], q) /\ niMsgs'[i] = niMsgs[i]
        BY <1>1, <1>4, <2>2
      <3>2. thread'[q] = thread[q]
        BY <2>2, <3>1 DEF OnlyConcerns
      <3>3. QED BY <2>2, <3>1, <3>2 DEF NiOpenInv, QueuedOpen
    <2>3. QED BY <1>2, <2>1, <2>2
  <1>5. ThreadOpen'
    <2>1. Concerns(m, r) => thread'[r] \in {"none", "done"}
      OBVIOUS
    <2>2. ASSUME NEW q \in Requests, thread'[q] \notin {"none", "done"}
          PROVE  thread'[q] = thread[q]
      BY <2>1, <2>2 DEF OnlyConcerns
    <2>3. QED BY <2>2 DEF NiOpenInv, ThreadOpen, Awaited
  <1>6. QED BY <1>3, <1>4, <1>5 DEF NiOpenInv, OnceQueued, QueuedOpen

(* A message is handled: it decides what becomes of its request, or gives  *)
(* it a thread.                                                            *)
LEMMA NotifyOpens ==
    ASSUME NiTypeOK, NEW r \in Requests, MsgReportNiNotify(r), niAnswer[r] = "none",
           thread[r] = "none"
    PROVE  /\ OnlyConcerns(r) /\ rawResp' = rawResp
           /\ \/ thread'[r] = "none"
              \/ thread'[r] = "created" /\ niAnswer'[r] = "none"
  <1>1. CASE UNCHANGED threads /\ niAnswer' = niAnswer
    BY <1>1 DEF threads, OnlyConcerns
  <1>2. CASE UNCHANGED threads /\ \E how : settle(r, how)
    BY <1>2 DEF threads, OnlyConcerns, settle, NiTypeOK
  <1>3. CASE thread' = [thread EXCEPT ![r] = "created"] /\ UNCHANGED <<niAnswer, rawResp>>
    BY <1>3 DEF OnlyConcerns, NiTypeOK
  <1>4. QED BY <1>1, <1>2, <1>3 DEF MsgReportNiNotify, requestNiNotify

LEMMA ProcMsgOpen ==
    ASSUME NiTypeOK, NiOpenInv, ProcNiMsg
    PROVE  NiOpenInv' /\ EndsKept
  <1> DEFINE m == Head(niMsgs)
  <1>1. /\ m = niMsgs[1] /\ m \in NiMsg /\ 1 \in 1..Len(niMsgs)
        /\ \A i \in 1..Len(niMsgs') : /\ niMsgs'[i] = niMsgs[i + 1]
                                     /\ i + 1 \in 1..Len(niMsgs) /\ i + 1 # 1
        /\ \A i, j \in 1..Len(niMsgs') : i + 1 = j + 1 => i = j
    BY DEF ProcNiMsg, NiTypeOK
  <1>2. m.kind \in {"notify", "response", "answer"} /\ m.r \in Requests
    BY <1>1 DEF NiMsg
  <1>3. /\ OnlyConcerns(m.r) /\ rawResp' = rawResp
        /\ \/ ~Concerns(m, m.r) /\ UNCHANGED <<niAnswer, thread>>
           \/ /\ Concerns(m, m.r) /\ niAnswer[m.r] = "none"
              /\ \/ thread'[m.r] \in {"none", "done"}
                 \/ thread'[m.r] = "created" /\ niAnswer'[m.r] = "none"
    <2>1. CASE m.kind = "notify" /\ MsgReportNiNotify(m.r)
      <3>1. Concerns(m, m.r) BY <2>1 DEF Concerns
      <3>2. niAnswer[m.r] = "none" /\ thread[m.r] = "none"
        BY <1>1, <1>2, <2>1, <3>1 DEF NiOpenInv, QueuedOpen
      <3>3. QED BY <1>2, <2>1, <3>1, <3>2, NotifyOpens
    <2>2. CASE m.kind = "response" /\ MsgGnssNiResponse(m.r, m.resp)
      <3>1. UNCHANGED <<threads, niAnswer>>
        BY <2>2 DEF MsgGnssNiResponse
      <3>2. ~Concerns(m, m.r) BY <2>2 DEF Concerns
      <3>3. QED BY <3>1, <3>2 DEF threads, OnlyConcerns
    <2>3. CASE m.kind = "answer" /\ settle(m.r, m.resp) /\ UNCHANGED threads
      <3>1. Concerns(m, m.r) BY <2>3 DEF Concerns
      <3>2. niAnswer[m.r] = "none" /\ thread[m.r] = "done"
        BY <1>1, <1>2, <2>3, <3>1 DEF NiOpenInv, QueuedOpen
      <3>3. QED
        BY <1>2, <2>3, <3>1, <3>2 DEF threads, OnlyConcerns, settle, NiTypeOK
    <2>4. QED BY <2>1, <2>2, <2>3 DEF ProcNiMsg
  <1> HIDE DEF m
  <1>4. EndsKept
    BY <1>2, <1>3 DEF EndsKept, OnlyConcerns
  <1>5. \A i \in 1..Len(niMsgs') : ~Concerns(niMsgs'[i], m.r) \/ ~Concerns(m, m.r)
    BY <1>1, <1>2 DEF NiOpenInv, OnceQueued
  <1>6. OnceQueued'
    BY <1>1 DEF NiOpenInv, OnceQueued
  <1>7. ASSUME NEW q \in Requests, NEW i \in 1..Len(niMsgs'), Concerns(niMsgs'[i], q)
        PROVE  niAnswer'[q] = niAnswer[q] /\ thread'[q] = thread[q]
    BY <1>2, <1>3, <1>5, <1>7 DEF OnlyConcerns
  <1>8. QueuedOpen'
    BY <1>1, <1>7 DEF NiOpenInv, QueuedOpen
  <1>9. ThreadOpen'
    BY <1>2, <1>3 DEF NiOpenInv, ThreadOpen, OnlyConcerns, Awaited
  <1>10. QED BY <1>4, <1>6, <1>8, <1>9 DEF NiOpenInv

(* The steps of a thread.  Its request has come to no end when the wait    *)
(* ends, and comes to one here or by the message that is sent.             *)
LEMMA ThreadKeepsOpen ==
    ASSUME NiTypeOK, SessionHasThread, NiOpenInv, NEW r \in Requests, Thread(r)
    PROVE  NiOpenInv' /\ EndsKept
  <1>0. /\ ThreadOpen /\ QueuedOpen /\ None \notin Requests
        /\ SlotOf(r) \in Slots
    BY SlotType, NiConstants DEF NiOpenInv
  <1>1. thread[r] \notin {"none", "done"}
    BY DEF Thread, ThreadStart, ThreadResponded, ThreadTimeout, ThreadClearTime,
           ThreadClearId, ThreadSend
  <1>2. \A i \in 1..Len(niMsgs) : ~Concerns(niMsgs[i], r)
    BY <1>0, <1>1 DEF QueuedOpen
  <1>3. ASSUME NEW what, thread[r] \in Awaited, finish(r, what)
        PROVE  NiOpenInv' /\ EndsKept
    <2>1. rawRequest[SlotOf(r)] = r
      BY <1>0, <1>3 DEF SessionHasThread, Awaited
    <2>2. /\ niAnswer[r] = "none" /\ niMsgs' = niMsgs
          /\ thread' = [thread EXCEPT ![r] = "clearTime"]
          /\ rawResp' = [rawResp EXCEPT ![r] = what]
          /\ niAnswer' = IF what = "IGNORE" THEN [niAnswer EXCEPT ![r] = "freed"] ELSE niAnswer
      BY <1>0, <1>3, <2>1 DEF finish, goto, ThreadOpen
    <2>3. /\ OnlyConcerns(r) /\ thread'[r] = "clearTime" /\ rawResp'[r] = what
          /\ what # "IGNORE" => niAnswer'[r] = "none"
      BY <2>2 DEF OnlyConcerns, NiTypeOK
    <2>4. NiOpenInv'
      BY <1>2, <2>2, <2>3, ThreadStepOpen DEF Awaited
    <2>5. EndsKept
      BY <2>2, <2>3 DEF EndsKept, OnlyConcerns
    <2>6. QED BY <2>4, <2>5
  <1>4. ASSUME NEW pc, thread' = [thread EXCEPT ![r] = pc], niMsgs' = niMsgs,
               UNCHANGED <<niAnswer, rawResp>>,
               \/ thread[r] \in Awaited /\ pc \in Awaited
               \/ thread[r] = "clearTime" /\ pc = "clearId"
               \/ thread[r] = "clearId" /\ pc = "send" /\ rawResp[r] # "IGNORE"
               \/ pc = "done"
        PROVE  NiOpenInv' /\ EndsKept
    <2>1. OnlyConcerns(r) /\ thread'[r] = pc
      BY <1>4 DEF OnlyConcerns, NiTypeOK
    <2>2. QED
      BY <1>0, <1>2, <1>4, <2>1, ThreadStepOpen DEF EndsKept, ThreadOpen, Awaited
  <1>5. CASE ThreadStart(r)
    BY <1>4, <1>5 DEF ThreadStart, goto, Awaited
  <1>6. CASE ThreadResponded(r)
    BY <1>3, <1>6 DEF ThreadResponded, Awaited
  <1>7. CASE ThreadTimeout(r)
    BY <1>3, <1>7 DEF ThreadTimeout, Awaited
  <1>8. CASE ThreadClearTime(r)
    BY <1>4, <1>8 DEF ThreadClearTime, goto
  <1>9. CASE ThreadClearId(r)
    BY <1>4, <1>9 DEF ThreadClearId, goto
  <1>10. CASE ThreadSend(r)
    <2> DEFINE m == [kind |-> "answer", r |-> r, resp |-> rawResp[r]]
    <2>1. /\ m \in NiMsg /\ Concerns(m, r) /\ m.kind # "notify"
          /\ \A q \in Requests \ {r} : ~Concerns(m, q)
      BY DEF NiMsg, NiTypeOK, Concerns
    <2>2. /\ niMsgs' = Append(niMsgs, m) /\ niAnswer' = niAnswer /\ rawResp' = rawResp
          /\ thread'[r] = "done" /\ OnlyConcerns(r) /\ niAnswer[r] = "none"
      BY <1>0, <1>10 DEF ThreadSend, sendMsg, goto, NiTypeOK, OnlyConcerns, ThreadOpen
    <2> HIDE DEF m
    <2>3. QED BY <1>2, <2>1, <2>2, SendOpen DEF EndsKept
  <1>11. QED
    BY <1>5, <1>6, <1>7, <1>8, <1>9, <1>10 DEF Thread

LEMMA EnvironmentOpen ==
    ASSUME NiTypeOK, NiOpenInv, NEW r \in Requests,
           \/ requestNiNotifyEvent(r)
           \/ \E what \in UserResponses : gnssNiResponse(r, what)
    PROVE  NiOpenInv' /\ EndsKept
  <1>1. UNCHANGED <<threads, niAnswer>> /\ OnlyConcerns(r)
    BY DEF requestNiNotifyEvent, gnssNiResponse, threads, OnlyConcerns
  <1>2. CASE requestNiNotifyEvent(r)
    <2> DEFINE m == [kind |-> "notify", r |-> r]
    <2>1. /\ m \in NiMsg /\ Concerns(m, r) /\ m.kind = "notify"
          /\ \A q \in Requests \ {r} : ~Concerns(m, q)
      BY DEF NiMsg, Concerns
    <2>2. /\ niMsgs' = Append(niMsgs, m) /\ niAnswer[r] = "none" /\ thread[r] = "none"
          /\ \A i \in 1..Len(niMsgs) : niMsgs[i] # m
      BY <1>2 DEF requestNiNotifyEvent, sendMsg
    <2>3. ASSUME NEW i \in 1..Len(niMsgs), Concerns(niMsgs[i], r) PROVE FALSE
      <3>1. niMsgs[i].kind = "notify"
        BY <2>2, <2>3 DEF NiOpenInv, QueuedOpen
      <3>2. niMsgs[i] = m
        BY <2>3, <3>1, MsgOfQueue DEF NiMsg, Concerns
      <3>3. QED BY <2>2, <3>2
    <2> HIDE DEF m
    <2>4. QED BY <1>1, <2>1, <2>2, <2>3, SendOpen DEF threads, EndsKept
  <1>3. CASE \E what \in UserResponses : gnssNiResponse(r, what)
    <2>1. PICK what \in UserResponses : gnssNiResponse(r, what) BY <1>3
    <2> DEFINE m == [kind |-> "response", r |-> r, resp |-> what]
    <2>2. m \in NiMsg /\ \A q \in Requests : ~Concerns(m, q)
      BY NiConstants DEF NiMsg, Concerns
    <2>3. niMsgs' = Append(niMsgs, m)
      BY <2>1 DEF gnssNiResponse, sendMsg
    <2> HIDE DEF m
    <2>4. QED BY <1>1, <2>2, <2>3, SendOpen DEF threads, EndsKept
  <1>4. QED BY <1>2, <1>3

LEMMA NextOpen ==
    TypeInv /\ SessionHasThread /\ NiOpenInv /\ [NiNext]_niVars => NiOpenInv' /\ EndsKept
  <1> SUFFICES ASSUME NiTypeOK, SessionHasThread, NiOpenInv, [NiNext]_niVars
               PROVE  NiOpenInv' /\ EndsKept
    BY DEF TypeInv
  <1>1. ASSUME UNCHANGED <<niMsgs, thread, rawResp, niAnswer>> PROVE NiOpenInv' /\ EndsKept
    BY <1>1 DEF NiOpenInv, OnceQueued, QueuedOpen, ThreadOpen, EndsKept
  <1>2. CASE ProcNiMsg
    BY <1>2, ProcMsgOpen
  <1>3. CASE \E r \in Requests : Thread(r)
    BY <1>3, ThreadKeepsOpen
  <1>4. CASE \E r \in Requests :
                \/ requestNiNotifyEvent(r)
                \/ \E what \in UserResponses : gnssNiResponse(r, what)
    BY <1>4, EnvironmentOpen
  <1>5. CASE StoreResponse \/ ClientRemoved \/ UNCHANGED niVars
    BY <1>1, <1>5 DEF StoreResponse, ClientRemoved, niVars, threads
  <1>6. QED BY <1>2, <1>3, <1>4, <1>5 DEF NiNext

(* A request ends once: it is refused by policy or because the session is  *)
(* busy, its memory is freed, or the modem is sent an answer; nothing      *)
(* happens to it afterwards.                                               *)
THEOREM RequestsEndOnce == NiSpec => EndedOnce
  <1>1. NiInit => TypeInv
    BY NiInitType DEF TypeInv, StoredResponse, NiInit, Slots
  <1>2. NiInit => SessionHasThread
    BY DEF NiInit, SessionHasThread, pending, Slots
  <1>3. NiInit => NiOpenInv
    BY DEF NiInit, NiOpenInv, OnceQueued, QueuedOpen, ThreadOpen, Awaited
  <1>4. TypeInv /\ SessionHasThread /\ NiOpenInv /\ [NiNext]_niVars
            => [\A r \in Requests : niAnswer[r] # "none" => niAnswer'[r] = niAnswer[r]]_niVars
    BY NextOpen DEF EndsKept
  <1>5. QED
    BY <1>1, <1>2, <1>3, <1>4, NiNextType, NextHas, NextOpen, PTL DEF NiSpec, EndedOnce

-----------------------------------------------------------------------------
(* Tracking sessions.                                                      *)

(* Queues.  Has: something of X is in q; Once: at most one place of q has  *)
(* something of X; Last: the last in q of X is of Y.                       *)
Has(q, X) == \E i \in 1 .. Len(q) : q[i] \in X
Once(q, X) == \A i, j \in 1 .. Len(q) : q[i] \in X /\ q[j] \in X => i = j
Last(q, X, Y) == \E k \in 1 .. Len(q) :
                     q[k] \in Y /\ \A j \in k + 1 .. Len(q) : q[j] \notin X

LEMMA AppendAt ==
  ASSUME NEW U, NEW q \in Seq(U), NEW x
  PROVE  /\ Len(q) \in Nat /\ Len(Append(q, x)) = Len(q) + 1
         /\ Append(q, x)[Len(q) + 1] = x
         /\ \A i \in 1 .. Len(q) : Append(q, x)[i] = q[i]
  OBVIOUS

LEMMA AppendHas ==
  ASSUME NEW U, NEW q \in Seq(U), NEW x, NEW X
  PROVE  Has(Append(q, x), X) <=> Has(q, X) \/ x \in X
  <1> DEFINE n == Len(q)
             r == Append(q, x)
  <1>1. n \in Nat /\ Len(r) = n + 1 /\ r[n + 1] = x /\ \A i \in 1 .. n : r[i] = q[i]
    BY AppendAt
  <1>2. \A i \in 1 .. n + 1 : i \in 1 .. n \/ i = n + 1
    BY <1>1
  <1>3. n + 1 \in 1 .. n + 1 /\ \A i \in 1 .. n : i \in 1 .. n + 1
    BY <1>1
  <1> HIDE DEF r, n
  <1>4. Has(r, X) <=> (\E i \in 1 .. n : q[i] \in X) \/ x \in X
    BY <1>1, <1>2, <1>3 DEF Has
  <1> QED BY <1>4 DEF r, n, Has

LEMMA AppendOnce ==
  ASSUME NEW U, NEW q \in Seq(U), NEW x, NEW X, Once(q, X), ~(x \in X /\ Has(q, X))
  PROVE  Once(Append(q, x), X)
  <1> DEFINE n == Len(q)
             r == Append(q, x)
  <1>1. n \in Nat /\ Len(r) = n + 1 /\ r[n + 1] = x /\ \A i \in 1 .. n : r[i] = q[i]
    BY AppendAt
  <1>2. \A i \in 1 .. n + 1 : i \in 1 .. n \/ i = n + 1
    BY <1>1
  <1>3. \A i, j \in 1 .. n : q[i] \in X /\ q[j] \in X => i = j
    BY DEF Once, n
  <1>4. x \in X => \A i \in 1 .. n : q[i] \notin X
    BY DEF Has, n
  <1> HIDE DEF r, n
  <1>5. \A i, j \in 1 .. n + 1 : r[i] \in X /\ r[j] \in X => i = j
    <2> SUFFICES ASSUME NEW i \in 1 .. n + 1, NEW j \in 1 .. n + 1, r[i] \in X, r[j] \in X
                 PROVE  i = j
      OBVIOUS
    <2>1. CASE i \in 1 .. n /\ j \in 1 .. n
      BY <1>1, <1>3, <2>1
    <2>2. CASE i = n + 1 /\ j \in 1 .. n
      BY <1>1, <1>4, <2>2
    <2>3. CASE i \in 1 .. n /\ j = n + 1
      BY <1>1, <1>4, <2>3
    <2> QED BY <1>2, <2>1, <2>2, <2>3
  <1> QED BY <1>1, <1>5 DEF r, Once

LEMMA AppendLast ==
  ASSUME NEW U, NEW q \in Seq(U), NEW x, NEW X, NEW Y
  PROVE  /\ x \in Y => Last(Append(q, x), X, Y)
         /\ x \notin X /\ Last(q, X, Y) => Last(Append(q, x), X, Y)
         /\ x \notin Y /\ Last(Append(q, x), X, Y) => x \notin X /\ Last(q, X, Y)
  <1> DEFINE n == Len(q)
             r == Append(q, x)
  <1>1. n \in Nat /\ Len(r) = n + 1 /\ r[n + 1] = x /\ \A i \in 1 .. n : r[i] = q[i]
    BY AppendAt
  <1>2. Last(q, X, Y) <=> \E k \in 1 .. n : q[k] \in Y /\ \A j \in k + 1 .. n : q[j] \notin X
    BY DEF Last, n
  <1>3. Last(r, X, Y) <=> \E k \in 1 .. n + 1 : r[k] \in Y /\ \A j \in k + 1 .. n + 1 : r[j] \notin X
    BY <1>1 DEF Last, r
  <1> HIDE DEF r, n
  <1>4. x \in Y => Last(r, X, Y)
    BY <1>1, <1>3
  <1>5. ASSUME x \notin X, NEW k \in 1 .. n, q[k] \in Y, \A j \in k + 1 .. n : q[j] \notin X
        PROVE  Last(r, X, Y)
    <2>1. \A j \in k + 1 .. n + 1 : j = n + 1 \/ (j \in k + 1 .. n /\ j \in 1 .. n)
      BY <1>1
    <2>2. \A j \in k + 1 .. n + 1 : r[j] \notin X
      BY <1>1, <1>5, <2>1
    <2>3. k \in 1 .. n + 1 /\ r[k] \in Y
      BY <1>1, <1>5
    <2> QED BY <1>3, <2>2, <2>3
  <1>6. ASSUME x \notin Y, NEW k \in 1 .. n + 1, r[k] \in Y, \A j \in k + 1 .. n + 1 : r[j] \notin X
        PROVE  x \notin X /\ Last(q, X, Y)
    <2>1. k \in 1 .. n
      BY <1>1, <1>6
    <2>2. n + 1 \in k + 1 .. n + 1 /\ \A j \in k + 1 .. n : j \in k + 1 .. n + 1 /\ j \in 1 .. n
      BY <1>1, <2>1
    <2>3. \A j \in k + 1 .. n : q[j] \notin X
      BY <1>1, <1>6, <2>2
    <2>4. q[k] \in Y
      BY <1>1, <1>6, <2>1
    <2> QED BY <1>1, <1>2, <1>6, <2>1, <2>2, <2>3, <2>4
  <1>7. x \notin X /\ Last(q, X, Y) => Last(r, X, Y)
    BY <1>2, <1>5
  <1>8. x \notin Y /\ Last(r, X, Y) => x \notin X /\ Last(q, X, Y)
    BY <1>3, <1>6
  <1> QED BY <1>4, <1>7, <1>8 DEF r

LEMMA TailOf ==
  ASSUME NEW U, NEW q \in Seq(U), q # <<>>
  PROVE  /\ Len(q) \in Nat \ {0} /\ Len(Tail(q)) = Len(q) - 1 /\ Tail(q) \in Seq(U)
         /\ Head(q) = q[1] /\ Head(q) \in U
         /\ \A i \in 1 .. Len(q) - 1 : Tail(q)[i] = q[i + 1]
  OBVIOUS

LEMMA TailHas ==
  ASSUME NEW U, NEW q \in Seq(U), q # <<>>, NEW X
  PROVE  Has(q, X) <=> Head(q) \in X \/ Has(Tail(q), X)
  <1> DEFINE n == Len(q)
             r == Tail(q)
  <1>1. /\ n \in Nat \ {0} /\ Len(r) = n - 1 /\ Head(q) = q[1]
        /\ \A i \in 1 .. n - 1 : r[i] = q[i + 1]
    BY TailOf
  <1>2. Has(q, X) <=> \E i \in 1 .. n : q[i] \in X
    BY DEF Has, n
  <1>3. Has(r, X) <=> \E i \in 1 .. n - 1 : r[i] \in X
    BY <1>1 DEF Has, r
  <1> HIDE DEF r, n
  <1>4. ASSUME NEW i \in 1 .. n, q[i] \in X
        PROVE  Head(q) \in X \/ Has(r, X)
    <2>1. CASE i = 1
      BY <1>1, <1>4, <2>1
    <2>2. CASE i # 1
      <3> DEFINE j == i - 1
      <3>1. j \in 1 .. n - 1 /\ j + 1 = i
        BY <1>1, <2>2
      <3>2. r[j] = q[i]
        BY <1>1, <3>1
      <3> QED BY <1>3, <1>4, <3>1, <3>2
    <2> QED BY <2>1, <2>2
  <1>5. ASSUME NEW i \in 1 .. n - 1, r[i] \in X
        PROVE  Has(q, X)
    <2>1. i + 1 \in 1 .. n /\ q[i + 1] \in X
      BY <1>1, <1>5
    <2> QED BY <1>2, <2>1
  <1>6. Head(q) \in X => Has(q, X)
    BY <1>1, <1>2
  <1> QED BY <1>2, <1>3, <1>4, <1>5, <1>6 DEF r

LEMMA TailOnce ==
  ASSUME NEW U, NEW q \in Seq(U), q # <<>>, NEW X, Once(q, X)
  PROVE  Once(Tail(q), X) /\ (Head(q) \in X => ~Has(Tail(q), X))
  <1> DEFINE n == Len(q)
             r == Tail(q)
  <1>1. /\ n \in Nat \ {0} /\ Len(r) = n - 1 /\ Head(q) = q[1]
        /\ \A i \in 1 .. n - 1 : r[i] = q[i + 1]
    BY TailOf
  <1>2. \A i, j \in 1 .. n : q[i] \in X /\ q[j] \in X => i = j
    BY DEF Once, n
  <1> HIDE DEF r, n
  <1>3. \A i \in 1 .. n - 1 : i + 1 \in 1 .. n /\ i + 1 # 1 /\ 1 \in 1 .. n
    BY <1>1
  <1>4. Once(r, X)
    <2> SUFFICES ASSUME NEW i \in 1 .. n - 1, NEW j \in 1 .. n - 1, r[i] \in X, r[j] \in X
                 PROVE  i = j
      BY <1>1 DEF Once
    <2>1. i + 1 = j + 1
      BY <1>1, <1>2, <1>3
    <2> QED BY <2>1
  <1>5. ASSUME Head(q) \in X, NEW i \in 1 .. n - 1, r[i] \in X PROVE FALSE
    BY <1>1, <1>2, <1>3, <1>5
  <1> QED BY <1>1, <1>4, <1>5 DEF r, Has

LEMMA TailLast ==
  ASSUME NEW U, NEW q \in Seq(U), q # <<>>, NEW X, NEW Y
  PROVE  Last(q, X, Y) <=> Last(Tail(q), X, Y) \/ (Head(q) \in Y /\ ~Has(Tail(q), X))
  <1> DEFINE n == Len(q)
             r == Tail(q)
  <1>1. /\ n \in Nat \ {0} /\ Len(r) = n - 1 /\ Head(q) = q[1]
        /\ \A i \in 1 .. n - 1 : r[i] = q[i + 1]
    BY TailOf
  <1>2. Last(q, X, Y) <=> \E k \in 1 .. n : q[k] \in Y /\ \A j \in k + 1 .. n : q[j] \notin X
    BY DEF Last, n
  <1>3. Last(r, X, Y) <=> \E k \in 1 .. n - 1 : r[k] \in Y /\ \A j \in k + 1 .. n - 1 : r[j] \notin X
    BY <1>1 DEF Last, r
  <1>4. Has(r, X) <=> \E i \in 1 .. n - 1 : r[i] \in X
    BY <1>1 DEF Has, r
  <1> HIDE DEF r, n
  <1>5. ASSUME NEW k \in 1 .. n, q[k] \in Y, \A j \in k + 1 .. n : q[j] \notin X
        PROVE  Last(r, X, Y) \/ (Head(q) \in Y /\ ~Has(r, X))
    <2>1. \A i \in k .. n - 1 : i + 1 \in k + 1 .. n
      BY <1>1
    <2>2. CASE k = 1
      <3>1. \A i \in 1 .. n - 1 : r[i] \notin X
        BY <1>1, <1>5, <2>1, <2>2
      <3> QED BY <1>1, <1>4, <1>5, <2>2, <3>1
    <2>3. CASE k # 1
      <3> DEFINE m == k - 1
      <3>1. m \in 1 .. n - 1 /\ m + 1 = k
        BY <1>1, <2>3
      <3>2. \A j \in m + 1 .. n - 1 : j \in 1 .. n - 1 /\ j + 1 \in k + 1 .. n
        BY <1>1, <3>1
      <3> HIDE DEF m
      <3>3. r[m] \in Y
        BY <1>1, <1>5, <3>1
      <3>4. \A j \in m + 1 .. n - 1 : r[j] \notin X
        BY <1>1, <1>5, <3>2
      <3> QED BY <1>3, <3>1, <3>3, <3>4
    <2> QED BY <2>2, <2>3
  <1>6. ASSUME NEW k \in 1 .. n - 1, r[k] \in Y, \A j \in k + 1 .. n - 1 : r[j] \notin X
        PROVE  Last(q, X, Y)
    <2> DEFINE m == k + 1
    <2>1. m \in 1 .. n /\ q[m] \in Y
      BY <1>1, <1>6
    <2>2. \A j \in m + 1 .. n : q[j] \notin X
      <3> SUFFICES ASSUME NEW j \in m + 1 .. n PROVE q[j] \notin X
        OBVIOUS
      <3> DEFINE i == j - 1
      <3>1. i \in k + 1 .. n - 1 /\ i \in 1 .. n - 1 /\ i + 1 = j
        BY <1>1
      <3> HIDE DEF i
      <3> QED BY <1>1, <1>6, <3>1
    <2> HIDE DEF m
    <2> QED BY <1>2, <2>1, <2>2
  <1>7. ASSUME Head(q) \in Y, \A i \in 1 .. n - 1 : r[i] \notin X
        PROVE  Last(q, X, Y)
    <2>1. \A j \in 1 + 1 .. n : q[j] \notin X
      <3> SUFFICES ASSUME NEW j \in 1 + 1 .. n PROVE q[j] \notin X
        OBVIOUS
      <3> DEFINE i == j - 1
      <3>1. i \in 1 .. n - 1 /\ i + 1 = j
        BY <1>1
      <3> HIDE DEF i
      <3> QED BY <1>1, <1>7, <3>1
    <2>2. 1 \in 1 .. n /\ q[1] \in Y
      BY <1>1, <1>7
    <2> QED BY <1>2, <2>1, <2>2
  <1> QED BY <1>2, <1>3, <1>4, <1>5, <1>6, <1>7 DEF r

LEMMA ConcatAt ==
  ASSUME NEW U, NEW q \in Seq(U), NEW r \in Seq(U)
  PROVE  /\ Len(q) \in Nat /\ Len(r) \in Nat /\ Len(q \o r) = Len(q) + Len(r)
         /\ \A i \in 1 .. Len(q) : (q \o r)[i] = q[i]
         /\ \A i \in 1 .. Len(r) : (q \o r)[Len(q) + i] = r[i]
         /\ \A i \in 1 .. Len(q) + Len(r) :
              i \in 1 .. Len(q) \/ \E k \in 1 .. Len(r) : i = Len(q) + k
  <1>1. /\ Len(q) \in Nat /\ Len(r) \in Nat /\ Len(q \o r) = Len(q) + Len(r)
        /\ \A i \in 1 .. Len(q) : (q \o r)[i] = q[i]
        /\ \A i \in 1 .. Len(r) : (q \o r)[Len(q) + i] = r[i]
    OBVIOUS
  <1> DEFINE n == Len(q)
             l == Len(r)
  <1>2. n \in Nat /\ l \in Nat
    BY <1>1
  <1> HIDE DEF n, l
  <1>3. ASSUME NEW i \in 1 .. n + l, i \notin 1 .. n
        PROVE  \E k \in 1 .. l : i = n + k
    <2> DEFINE k == i - n
    <2>1. k \in 1 .. l /\ i = n + k
      BY <1>2, <1>3
    <2> QED BY <2>1
  <1> QED BY <1>1, <1>3 DEF n, l

LEMMA ConcatHas ==
  ASSUME NEW U, NEW q \in Seq(U), NEW r \in Seq(U), NEW X
  PROVE  Has(q \o r, X) <=> Has(q, X) \/ Has(r, X)
  <1> DEFINE n == Len(q)
             l == Len(r)
             w == q \o r
  <1>1. /\ n \in Nat /\ l \in Nat /\ Len(w) = n + l
        /\ \A i \in 1 .. n : w[i] = q[i]
        /\ \A i \in 1 .. l : w[n + i] = r[i]
        /\ \A i \in 1 .. n + l : i \in 1 .. n \/ \E k \in 1 .. l : i = n + k
    BY ConcatAt
  <1>2. Has(q, X) <=> \E i \in 1 .. n : q[i] \in X
    BY DEF Has, n
  <1>3. Has(r, X) <=> \E i \in 1 .. l : r[i] \in X
    BY DEF Has, l
  <1>4. Has(w, X) <=> \E i \in 1 .. n + l : w[i] \in X
    BY <1>1 DEF Has, w
  <1> HIDE DEF n, l, w
  <1>5. \A i \in 1 .. n : i \in 1 .. n + l
    BY <1>1
  <1>6. \A i \in 1 .. l : n + i \in 1 .. n + l
    BY <1>1
  <1> QED BY <1>1, <1>2, <1>3, <1>4, <1>5, <1>6 DEF w

LEMMA ConcatOnce ==
  ASSUME NEW U, NEW q \in Seq(U), NEW r \in Seq(U), NEW X, Once(q, X), Once(r, X),
         ~(Has(q, X) /\ Has(r, X))
  PROVE  Once(q \o r, X)
  <1> DEFINE n == Len(q)
             l == Len(r)
             w == q \o r
  <1>1. /\ n \in Nat /\ l \in Nat /\ Len(w) = n + l
        /\ \A i \in 1 .. n : w[i] = q[i]
        /\ \A i \in 1 .. l : w[n + i] = r[i]
        /\ \A i \in 1 .. n + l : i \in 1 .. n \/ \E k \in 1 .. l : i = n + k
    BY ConcatAt
  <1>2. \A i, j \in 1 .. n : q[i] \in X /\ q[j] \in X => i = j
    BY DEF Once, n
  <1>3. \A i, j \in 1 .. l : r[i] \in X /\ r[j] \in X => i = j
    BY DEF Once, l
  <1>4. ~((\E i \in 1 .. n : q[i] \in X) /\ (\E j \in 1 .. l : r[j] \in X))
    BY DEF Has, n, l
  <1> HIDE DEF n, l, w
  <1>5. ASSUME NEW i \in 1 .. n + l, NEW j \in 1 .. n + l, w[i] \in X, w[j] \in X
        PROVE  i = j
    <2>1. CASE i \in 1 .. n /\ j \in 1 .. n
      BY <1>1, <1>2, <1>5, <2>1
    <2>2. ASSUME NEW k \in 1 .. l, i = n + k, NEW h \in 1 .. l, j = n + h
          PROVE  i = j
      <3>1. k = h
        BY <1>1, <1>3, <1>5, <2>2
      <3> QED BY <2>2, <3>1
    <2>3. ASSUME NEW k \in 1 .. l, i = n + k, j \in 1 .. n
          PROVE  FALSE
      BY <1>1, <1>4, <1>5, <2>3
    <2>4. ASSUME i \in 1 .. n, NEW k \in 1 .. l, j = n + k
          PROVE  FALSE
      BY <1>1, <1>4, <1>5, <2>4
    <2> QED BY <1>1, <2>1, <2>2, <2>3, <2>4
  <1> QED BY <1>1, <1>5 DEF w, Once

LEMMA ConcatLast ==
  ASSUME NEW U, NEW q \in Seq(U), NEW r \in Seq(U), NEW X, NEW Y, ~Has(r, X), Last(q, X, Y)
  PROVE  Last(q \o r, X, Y)
  <1> DEFINE n == Len(q)
             l == Len(r)
             w == q \o r
  <1>1. /\ n \in Nat /\ l \in Nat /\ Len(w) = n + l
        /\ \A i \in 1 .. n : w[i] = q[i]
        /\ \A i \in 1 .. l : w[n + i] = r[i]
        /\ \A i \in 1 .. n + l : i \in 1 .. n \/ \E k \in 1 .. l : i = n + k
    BY ConcatAt
  <1>2. PICK k \in 1 .. n : q[k] \in Y /\ \A j \in k + 1 .. n : q[j] \notin X
    BY DEF Last, n
  <1>3. \A i \in 1 .. l : r[i] \notin X
    BY DEF Has, l
  <1> HIDE DEF n, l, w
  <1>4. k \in 1 .. n + l /\ w[k] \in Y
    BY <1>1, <1>2
  <1>5. ASSUME NEW j \in k + 1 .. n + l
        PROVE  w[j] \notin X
    <2>1. j \in 1 .. n + l
      BY <1>1
    <2>2. CASE j \in 1 .. n
      <3>1. j \in k + 1 .. n
        BY <1>1, <2>2
      <3> QED BY <1>1, <1>2, <2>2, <3>1
    <2>3. ASSUME NEW i \in 1 .. l, j = n + i
          PROVE  w[j] \notin X
      BY <1>1, <1>3, <2>3
    <2> QED BY <1>1, <2>1, <2>2, <2>3
  <1> QED BY <1>1, <1>4, <1>5 DEF w, Last

LEMMA ConcatBack ==
  ASSUME NEW U, NEW q \in Seq(U), NEW r \in Seq(U), NEW X, NEW Y, ~Has(r, Y), Last(q \o r, X, Y)
  PROVE  Last(q, X, Y)
  <1> DEFINE n == Len(q)
             l == Len(r)
             w == q \o r
  <1>1. /\ n \in Nat /\ l \in Nat /\ Len(w) = n + l
        /\ \A i \in 1 .. n : w[i] = q[i]
        /\ \A i \in 1 .. l : w[n + i] = r[i]
        /\ \A i \in 1 .. n + l : i \in 1 .. n \/ \E k \in 1 .. l : i = n + k
    BY ConcatAt
  <1>2. PICK k \in 1 .. n + l : w[k] \in Y /\ \A j \in k + 1 .. n + l : w[j] \notin X
    BY <1>1 DEF Last
  <1>3. \A i \in 1 .. l : r[i] \notin Y
    BY DEF Has, l
  <1> HIDE DEF n, l, w
  <1>4. k \in 1 .. n
    BY <1>1, <1>2, <1>3
  <1>5. q[k] \in Y
    BY <1>1, <1>2, <1>4
  <1>6. ASSUME NEW j \in k + 1 .. n
        PROVE  q[j] \notin X
    <2>1. j \in 1 .. n /\ j \in k + 1 .. n + l
      BY <1>1, <1>4
    <2> QED BY <1>1, <1>2, <2>1
  <1> QED BY <1>4, <1>5, <1>6 DEF n, Last

LEMMA ConcatNew ==
  ASSUME NEW U, NEW q \in Seq(U), NEW r \in Seq(U), NEW X, NEW Y, Last(r, X, Y)
  PROVE  Last(q \o r, X, Y)
  <1> DEFINE n == Len(q)
             l == Len(r)
             w == q \o r
  <1>1. /\ n \in Nat /\ l \in Nat /\ Len(w) = n + l
        /\ \A i \in 1 .. l : w[n + i] = r[i]
    BY ConcatAt
  <1>2. PICK k \in 1 .. l : r[k] \in Y /\ \A j \in k + 1 .. l : r[j] \notin X
    BY DEF Last, l
  <1> HIDE DEF n, l, w
  <1>3. n + k \in 1 .. n + l /\ w[n + k] \in Y
    BY <1>1, <1>2
  <1>4. ASSUME NEW j \in (n + k) + 1 .. n + l
        PROVE  w[j] \notin X
    <2>1. j - n \in k + 1 .. l /\ j - n \in 1 .. l /\ n + (j - n) = j
      BY <1>1
    <2>2. w[n + (j - n)] = r[j - n]
      BY <1>1, <2>1
    <2> QED BY <1>2, <2>1, <2>2
  <1> QED BY <1>1, <1>3, <1>4 DEF w, Last

LEMMA HasMore ==
  ASSUME NEW q, NEW X, NEW Y, X \subseteq Y, Has(q, X)
  PROVE  Has(q, Y)
  BY DEF Has

LEMMA LastMore ==
  ASSUME NEW q, NEW X, NEW Y, NEW Z, Y \subseteq Z, Last(q, X, Y)
  PROVE  Last(q, X, Z)
  BY DEF Last

LEMMA LastHas ==
  ASSUME NEW q, NEW X, NEW Y, Last(q, X, Y)
  PROVE  Has(q, Y)
  BY DEF Last, Has

LEMMA HasIn ==
  ASSUME NEW X, NEW Y, X \cap Y = {}, NEW q \in Seq(Y)
  PROVE  ~Has(q, X)
  BY DEF Has

LEMMA EmptyHas ==
  ASSUME NEW X
  PROVE  ~Has(<<>>, X) /\ Once(<<>>, X)
  BY DEF Has, Once

-----------------------------------------------------------------------------
(* Session maps and the calls of the multiplexers.                         *)

LEMMA MapType ==
  ASSUME NEW f
  PROVE  f \in SessionMap <=> DOMAIN f \subseteq Sessions /\ f \in [DOMAIN f -> Options]
  BY DEF SessionMap

LEMMA PutMap ==
  ASSUME NEW f \in SessionMap, NEW s \in Sessions, NEW o \in Options
  PROVE  /\ put(f, s, o) \in SessionMap /\ DOMAIN put(f, s, o) = DOMAIN f \cup {s}
         /\ put(f, s, o)[s] = o
         /\ \A x \in DOMAIN f \ {s} : put(f, s, o)[x] = f[x]
  <1> DEFINE g == put(f, s, o)
  <1>1. DOMAIN f \subseteq Sessions /\ \A x \in DOMAIN f : f[x] \in Options
    BY MapType
  <1>2. g = [x \in DOMAIN f \cup {s} |-> IF x = s THEN o ELSE f[x]]
    BY DEF put
  <1>3. DOMAIN g = DOMAIN f \cup {s} /\ g[s] = o /\ \A x \in DOMAIN f \ {s} : g[x] = f[x]
    BY <1>2
  <1>4. g \in [DOMAIN f \cup {s} -> Options]
    BY <1>1, <1>2
  <1> HIDE DEF g
  <1>5. g \in SessionMap
    BY <1>1, <1>3, <1>4, MapType
  <1> QED BY <1>3, <1>5 DEF g

LEMMA RestrictMap ==
  ASSUME NEW f \in SessionMap, NEW S \in SUBSET DOMAIN f
  PROVE  /\ Restrict(f, S) \in SessionMap /\ DOMAIN Restrict(f, S) = S
         /\ \A x \in S : Restrict(f, S)[x] = f[x]
  <1> DEFINE g == Restrict(f, S)
  <1>1. DOMAIN f \subseteq Sessions /\ \A x \in DOMAIN f : f[x] \in Options
    BY MapType
  <1>2. g = [x \in S |-> f[x]]
    BY DEF Restrict
  <1>3. DOMAIN g = S /\ \A x \in S : g[x] = f[x]
    BY <1>2
  <1>4. g \in [S -> Options]
    BY <1>1, <1>2
  <1> HIDE DEF g
  <1>5. g \in SessionMap
    BY <1>1, <1>3, <1>4, MapType
  <1> QED BY <1>3, <1>5 DEF g

LEMMA SaveType ==
  ASSUME tb \in SessionMap, db \in SessionMap, NEW s \in Sessions, NEW o \in Options,
         saveTrackingSession(s, o)
  PROVE  tb' \in SessionMap /\ db' \in SessionMap
  <1>1. CASE db' = put(db, s, o) /\ tb' = tb
    BY <1>1, PutMap
  <1>2. CASE tb' = put(tb, s, o) /\ db' = db
    BY <1>2, PutMap
  <1> QED BY <1>1, <1>2 DEF saveTrackingSession

LEMMA EraseType ==
  ASSUME tb \in SessionMap, db \in SessionMap, NEW s, eraseTrackingSession(s)
  PROVE  /\ tb' \in SessionMap /\ db' \in SessionMap
         /\ DOMAIN tb' \subseteq DOMAIN tb /\ \A x \in DOMAIN tb' : tb'[x] = tb[x]
         /\ s \in DOMAIN tb => DOMAIN tb' = DOMAIN tb \ {s} /\ db' = db
         /\ s \notin DOMAIN tb => DOMAIN db' = DOMAIN db \ {s} /\ tb' = tb
  BY RestrictMap DEF eraseTrackingSession, isTimeBasedTrackingSession

LEMMA ClosureTypes ==
  ASSUME NEW s \in Sessions
  PROVE  /\ \A what \in {"none", "started", "stopTracking", "stopDistance", "clientGone"} :
              do(what, s) \in Closure /\ do(what, s).do = what /\ do(what, s).s = s
         /\ \A what \in {"updateTracking", "distanceToTime", "restartDistance", "restarted"},
              o \in Options :
              /\ doWith(what, s, o) \in Closure /\ doWith(what, s, o).do = what
              /\ doWith(what, s, o).s = s /\ doWith(what, s, o).o = o
  BY DEF do, doWith, Closure

LEMMA CommandTypes ==
  ASSUME NEW cb \in Closure
  PROVE  /\ \A int \in Intervals, power \in Powers :
              /\ startFix(int, power, cb) \in Command /\ startFix(int, power, cb).cmd = "startFix"
              /\ startFix(int, power, cb).int = int /\ startFix(int, power, cb).cb = cb
         /\ startDistanceBasedTracking(cb) \in Command
         /\ stopDistanceBasedTracking(cb) \in Command
  BY DEF startFix, startDistanceBasedTracking, stopDistanceBasedTracking, Command

LEMMA Smallest ==
  ASSUME tb \in SessionMap, NEW S \in SUBSET DOMAIN tb, NEW m \in smallestInterval(S),
         NEW p \in multiplexedPowerMode(S)
  PROVE  /\ m \in S /\ m \in DOMAIN tb /\ p \in Powers
         /\ tb[m] \in Options /\ tb[m].int \in Intervals /\ tb[m].power \in Powers
         /\ \A x \in S : tb[m].int <= tb[x].int
  <1>1. \A x \in DOMAIN tb : tb[x] \in Options
    BY MapType
  <1>2. m \in S /\ \A x \in S : tb[m].int <= tb[x].int
    BY DEF smallestInterval
  <1>3. p \in powersOf(S)
    BY DEF multiplexedPowerMode, smallestOf
  <1>4. p \in Powers
    BY <1>1, <1>3 DEF powersOf, Options
  <1> QED BY <1>1, <1>2, <1>4 DEF Options

LEMMA LesserIs ==
  ASSUME NEW a \in Nat, NEW b \in Nat
  PROVE  Lesser(a, b) \in {a, b} /\ Lesser(a, b) <= a /\ Lesser(a, b) <= b
  BY DEF Lesser

LEMMA IntervalsNat == Intervals \subseteq Nat \ {0} /\ Powers \subseteq Nat
  BY TrackingConstants

LEMMA NoCallIs == NoCall.cmd = "none" /\ NoCall \notin Command
  <1>1. \A c \in Command : c.cmd # "none"
    BY DEF Command
  <1> QED BY <1>1 DEF NoCall

(* What the multiplexers may ask of the modem.                             *)
LEMMA StartCalls ==
  ASSUME tb \in SessionMap, NEW s \in Sessions, NEW o \in Options,
         NEW c \in startTimeBasedTrackingMultiplex(s, o)
  PROVE  \/ /\ c = NoCall
            /\ \E m \in DOMAIN tb : tb[m].int <= o.int
         \/ /\ c \in Command /\ c.cmd = "startFix" /\ c.cb = do("started", s)
            /\ c.int \in Intervals /\ c.int <= o.int
            /\ \A x \in DOMAIN tb : c.int <= tb[x].int
  <1>1. o.int \in Intervals /\ o.power \in Powers /\ o.int \in Nat /\ o.int <= o.int
    <2>1. o.int \in Intervals /\ o.power \in Powers
      BY DEF Options
    <2>2. o.int \in Nat
      BY <2>1, IntervalsNat
    <2> QED BY <2>1, <2>2
  <1>2. do("started", s) \in Closure
    BY ClosureTypes
  <1>3. CASE DOMAIN tb = {}
    <2>1. c = startFix(o.int, o.power, do("started", s))
      BY <1>3 DEF startTimeBasedTrackingMultiplex, startTimeBasedTracking
    <2>2. c \in Command /\ c.cmd = "startFix" /\ c.cb = do("started", s) /\ c.int = o.int
      BY <1>1, <1>2, <2>1, CommandTypes
    <2> QED BY <1>1, <1>3, <2>2
  <1>4. CASE DOMAIN tb # {}
    <2>1. PICK m \in smallestInterval(DOMAIN tb), p \in multiplexedPowerMode(DOMAIN tb) :
             c = IF o.int < tb[m].int \/ o.power < p
                 THEN startTimeBasedTracking(s, Lesser(o.int, tb[m].int),
                                             IF o.power < p THEN o.power ELSE tb[m].power)
                 ELSE NoCall
      BY <1>4 DEF startTimeBasedTrackingMultiplex
    <2>2. /\ m \in DOMAIN tb /\ tb[m].int \in Intervals /\ tb[m].power \in Powers
          /\ \A x \in DOMAIN tb : tb[m].int <= tb[x].int
      BY Smallest
    <2>3. \A x \in DOMAIN tb : tb[x].int \in Nat
      BY MapType, IntervalsNat DEF Options
    <2>4. CASE o.int < tb[m].int \/ o.power < p
      <3> DEFINE int == Lesser(o.int, tb[m].int)
                 power == IF o.power < p THEN o.power ELSE tb[m].power
      <3>1. c = startFix(int, power, do("started", s))
        BY <2>1, <2>4 DEF startTimeBasedTracking
      <3>2. int \in Intervals /\ int <= o.int /\ int <= tb[m].int
        BY <1>1, <2>2, LesserIs, IntervalsNat
      <3>3. power \in Powers
        BY <1>1, <2>2
      <3>4. \A x \in DOMAIN tb : int <= tb[x].int
        <4> HIDE DEF int
        <4> QED BY <2>2, <2>3, <3>2, IntervalsNat
      <3> HIDE DEF int, power
      <3> QED BY <1>2, <3>1, <3>2, <3>3, <3>4, CommandTypes
    <2>5. CASE ~(o.int < tb[m].int \/ o.power < p)
      <3>1. c = NoCall
        BY <2>1, <2>5
      <3>2. tb[m].int <= o.int
        BY <1>1, <2>2, <2>3, <2>5
      <3> QED BY <2>2, <3>1, <3>2
    <2> QED BY <2>4, <2>5
  <1> QED BY <1>3, <1>4

LEMMA UpdateCalls ==
  ASSUME tb \in SessionMap, NEW s \in DOMAIN tb, NEW o \in Options,
         NEW c \in updateTrackingMultiplex(s, o)
  PROVE  \/ /\ c = NoCall
            /\ \E m \in DOMAIN tb : tb[m].int <= o.int
         \/ /\ c \in Command /\ c.cmd = "startFix" /\ c.cb = doWith("updateTracking", s, tb[s])
            /\ c.int \in Intervals /\ c.int <= o.int
            /\ \A x \in DOMAIN tb \ {s} : c.int <= tb[x].int
  <1> DEFINE others == DOMAIN tb \ {s}
             cb == doWith("updateTracking", s, tb[s])
  <1>1. o.int \in Intervals /\ o.power \in Powers /\ o.int \in Nat /\ o.int <= o.int
    <2>1. o.int \in Intervals /\ o.power \in Powers
      BY DEF Options
    <2>2. o.int \in Nat
      BY <2>1, IntervalsNat
    <2> QED BY <2>1, <2>2
  <1>2. s \in Sessions /\ tb[s] \in Options
    BY MapType
  <1>3. cb \in Closure
    BY <1>2, ClosureTypes
  <1>4. CASE o.int = tb[s].int /\ o.power = tb[s].power
    <2>1. c = NoCall
      BY <1>4 DEF updateTrackingMultiplex
    <2>2. tb[s].int <= o.int
      BY <1>1, <1>4
    <2> QED BY <2>1, <2>2
  <1>5. CASE ~(o.int = tb[s].int /\ o.power = tb[s].power) /\ others = {}
    <2>1. c = startFix(o.int, o.power, cb)
      BY <1>5 DEF updateTrackingMultiplex, updateTracking
    <2> HIDE DEF cb
    <2>2. c \in Command /\ c.cmd = "startFix" /\ c.cb = cb /\ c.int = o.int
      BY <1>1, <1>3, <2>1, CommandTypes
    <2>3. c.int <= o.int
      BY <1>1, <2>2
    <2> QED BY <1>1, <1>5, <2>2, <2>3 DEF cb
  <1>6. CASE ~(o.int = tb[s].int /\ o.power = tb[s].power) /\ others # {}
    <2> DEFINE ask(m, p) == IF o.int < tb[m].int \/ o.power < p
                            THEN updateTracking(s, Lesser(o.int, tb[m].int),
                                     IF o.power < p THEN o.power ELSE tb[m].power, tb[s])
                            ELSE NoCall
               same == o.int = tb[s].int /\ o.power = tb[s].power
               alone == {updateTracking(s, o.int, o.power, tb[s])}
               calls == {ask(m, p) : m \in smallestInterval(others), p \in multiplexedPowerMode(others)}
    <2>0. updateTrackingMultiplex(s, o) =
             IF same THEN {NoCall} ELSE IF others = {} THEN alone ELSE calls
      BY DEF updateTrackingMultiplex
    <2>1. c \in calls
      <3> HIDE DEF same, alone, calls
      <3>1. ~same /\ others # {}
        BY <1>6 DEF same
      <3> QED BY <2>0, <3>1
    <2>3. PICK m \in smallestInterval(others), p \in multiplexedPowerMode(others) :
             c = ask(m, p)
      <3> HIDE DEF ask, others
      <3> QED BY <2>1
    <2>2. /\ m \in DOMAIN tb /\ tb[m].int \in Intervals /\ tb[m].power \in Powers
          /\ \A x \in others : tb[m].int <= tb[x].int
      <3>1. others \in SUBSET DOMAIN tb
        OBVIOUS
      <3> HIDE DEF others
      <3> QED BY <3>1, Smallest
    <2>4. \A x \in DOMAIN tb : tb[x].int \in Nat
      BY MapType, IntervalsNat DEF Options
    <2>5. CASE o.int < tb[m].int \/ o.power < p
      <3> DEFINE int == Lesser(o.int, tb[m].int)
                 power == IF o.power < p THEN o.power ELSE tb[m].power
      <3>1. c = startFix(int, power, cb)
        BY <2>3, <2>5 DEF updateTracking
      <3>2. int \in Intervals /\ int <= o.int /\ int <= tb[m].int
        BY <1>1, <2>2, LesserIs, IntervalsNat
      <3>3. power \in Powers
        BY <1>1, <2>2
      <3>4. \A x \in others : int <= tb[x].int
        <4> HIDE DEF int
        <4> QED BY <2>2, <2>4, <3>2, IntervalsNat
      <3> HIDE DEF int, power, cb
      <3>5. c \in Command /\ c.cmd = "startFix" /\ c.cb = cb /\ c.int = int
        BY <1>3, <3>1, <3>2, <3>3, CommandTypes
      <3> QED BY <3>2, <3>4, <3>5 DEF cb
    <2>6. CASE ~(o.int < tb[m].int \/ o.power < p)
      <3>1. c = NoCall
        BY <2>3, <2>6
      <3>2. tb[m].int <= o.int
        BY <1>1, <2>2, <2>4, <2>6
      <3> QED BY <2>2, <3>1, <3>2
    <2> QED BY <2>5, <2>6
  <1> QED BY <1>4, <1>5, <1>6

LEMMA StopCalls ==
  ASSUME tb \in SessionMap, NEW s \in DOMAIN tb, NEW c \in stopTimeBasedTrackingMultiplex(s)
  PROVE  \/ c = NoCall /\ DOMAIN tb \ {s} # {}
         \/ /\ c \in Command /\ c.cmd = "startFix" /\ c.cb = do("started", s)
            /\ c.int \in Intervals /\ DOMAIN tb \ {s} # {}
            /\ \A x \in DOMAIN tb \ {s} : c.int <= tb[x].int
         \/ /\ c \in Command /\ c.cmd = "stopFix" /\ c.cb = do("stopTracking", s)
            /\ DOMAIN tb \ {s} = {}
  <1> DEFINE others == DOMAIN tb \ {s}
  <1>1. s \in Sessions
    BY MapType
  <1>2. CASE others = {}
    <2>1. c = [cmd |-> "stopFix", cb |-> do("stopTracking", s)]
      BY <1>2 DEF stopTimeBasedTrackingMultiplex, stopTracking
    <2>2. do("stopTracking", s) \in Closure
      BY <1>1, ClosureTypes
    <2> QED BY <1>2, <2>1, <2>2 DEF Command
  <1>3. CASE others # {}
    <2>1. PICK m \in smallestInterval(others), p \in multiplexedPowerMode(others) :
             c = IF tb[s].int < tb[m].int \/ tb[s].power < p
                 THEN startTimeBasedTracking(s, tb[m].int, p)
                 ELSE NoCall
      BY <1>3 DEF stopTimeBasedTrackingMultiplex
    <2>2. /\ tb[m].int \in Intervals /\ p \in Powers
          /\ \A x \in others : tb[m].int <= tb[x].int
      <3>1. others \in SUBSET DOMAIN tb
        OBVIOUS
      <3> HIDE DEF others
      <3> QED BY <3>1, Smallest
    <2>3. CASE tb[s].int < tb[m].int \/ tb[s].power < p
      <3>1. c = startFix(tb[m].int, p, do("started", s))
        BY <2>1, <2>3 DEF startTimeBasedTracking
      <3>2. do("started", s) \in Closure
        BY <1>1, ClosureTypes
      <3>3. c \in Command /\ c.cmd = "startFix" /\ c.cb = do("started", s) /\ c.int = tb[m].int
        BY <2>2, <3>1, <3>2, CommandTypes
      <3> QED BY <1>3, <2>2, <3>3
    <2>4. CASE ~(tb[s].int < tb[m].int \/ tb[s].power < p)
      BY <1>3, <2>1, <2>4
    <2> QED BY <2>3, <2>4
  <1> QED BY <1>2, <1>3

-----------------------------------------------------------------------------
(* Types.                                                                  *)

ClientsType ==
    /\ req \in [Sessions -> {"none", "start", "update", "stop"}]
    /\ owed \in [Sessions -> Int]
    /\ answer \in [Sessions -> {"none", "ok", "failed", "unknown"}]

(* What the adapter's thread may write, besides its queue.                 *)
HandledType ==
    /\ clients \subseteq Clients
    /\ tb \in SessionMap /\ db \in SessionMap
    /\ capsKnown \in BOOLEAN
    /\ pendingMsgs \in Seq(Msg)
    /\ toModem \in Seq(Command)
    /\ ClientsType

LEMMA MsgFields ==
  ASSUME NEW m \in Msg
  PROVE  /\ m.kind \in {"start", "update", "stop", "remove", "engineUp", "response"}
         /\ m.kind \in {"start", "update"} => m.s \in Sessions /\ m.o \in Options
         /\ m.kind = "stop" => m.s \in Sessions
         /\ m.kind = "remove" => m.c \in Clients
         /\ m.kind = "response" => m.ok \in BOOLEAN /\ m.cb \in Closure
  BY DEF Msg

LEMMA ClosureFields ==
  ASSUME NEW cb \in Closure
  PROVE  /\ cb.do \in {"none", "started", "stopTracking", "stopDistance", "clientGone",
                       "updateTracking", "distanceToTime", "restartDistance", "restarted"}
         /\ cb.s \in Sessions
         /\ cb.do \in {"updateTracking", "distanceToTime", "restartDistance", "restarted"}
              => cb.o \in Options
  BY DEF Closure

LEMMA CommandFields ==
  ASSUME NEW c \in Command
  PROVE  /\ c.cmd \in {"startFix", "stopFix", "startDb", "stopDb", "open"}
         /\ c.cmd = "startFix" => c.int \in Intervals /\ c.power \in Powers
         /\ c.cmd # "open" => c.cb \in Closure
  BY DEF Command

LEMMA SeqTypes ==
  ASSUME NEW U, NEW q \in Seq(U)
  PROVE  /\ \A x \in U : Append(q, x) \in Seq(U)
         /\ q # <<>> => Head(q) \in U /\ Tail(q) \in Seq(U)
         /\ \A r \in Seq(U) : q \o r \in Seq(U)
  OBVIOUS

LEMMA QueuedType ==
  ASSUME toModem \in Seq(Command), NEW c \in Command \cup {NoCall}
  PROVE  queued(c) \in Seq(Command)
  BY SeqTypes DEF queued

LEMMA ReportType ==
  ASSUME ClientsType, NEW s \in Sessions, NEW err \in {"ok", "failed", "unknown"},
         reportResponse(s, err) \/ UNCHANGED clientVars
  PROVE  ClientsType'
  <1>1. CASE UNCHANGED clientVars
    BY <1>1 DEF clientVars, ClientsType
  <1>2. CASE Owner[s] \in clients /\ reportResponse(s, err)
    <2>1. owed[s] - 1 \in Int
      BY DEF ClientsType
    <2> QED BY <1>2, <2>1 DEF reportResponse, ClientsType
  <1> QED BY <1>1, <1>2 DEF reportResponse

LEMMA StartTimeBasedType ==
  ASSUME HandledType, NEW s \in Sessions, NEW o \in Options, startTimeBased(s, o)
  PROVE  /\ tb' \in SessionMap /\ db' \in SessionMap /\ toModem' \in Seq(Command)
         /\ ClientsType'
  <1>1. PICK c \in startTimeBasedTrackingMultiplex(s, o) :
           /\ call(c) /\ saveTrackingSession(s, o)
           /\ IF c = NoCall THEN reportResponse(s, "ok") ELSE UNCHANGED clientVars
    BY DEF startTimeBased
  <1>2. c \in Command \cup {NoCall}
    BY StartCalls DEF HandledType
  <1>3. toModem' \in Seq(Command)
    BY <1>1, <1>2, QueuedType DEF call, HandledType
  <1>4. tb' \in SessionMap /\ db' \in SessionMap
    BY <1>1, SaveType DEF HandledType
  <1>5. ClientsType'
    BY <1>1, ReportType DEF HandledType
  <1> QED BY <1>3, <1>4, <1>5

LEMMA StartType ==
  ASSUME HandledType, NEW s \in Sessions, NEW o \in Options, MsgStartTracking(s, o)
  PROVE  /\ clients' = clients /\ pendingMsgs' = pendingMsgs
         /\ tb' \in SessionMap /\ db' \in SessionMap /\ toModem' \in Seq(Command)
         /\ ClientsType'
  <1>1. CASE UNCHANGED <<tb, db, toModem, clientVars>>
    BY <1>1, ReportType DEF HandledType, MsgStartTracking
  <1>2. CASE /\ saveTrackingSession(s, o)
             /\ call(startDistanceBasedTracking(do("started", s)))
             /\ UNCHANGED clientVars
    <2>1. do("started", s) \in Closure
      BY ClosureTypes
    <2>2. startDistanceBasedTracking(do("started", s)) \in Command
      BY <2>1, CommandTypes
    <2> QED BY <1>2, <2>2, QueuedType, SaveType, ReportType DEF call, HandledType, MsgStartTracking
  <1>3. CASE startTimeBased(s, o)
    BY <1>3, StartTimeBasedType DEF MsgStartTracking
  <1> QED BY <1>1, <1>2, <1>3 DEF MsgStartTracking

LEMMA TimeToDistanceType ==
  ASSUME HandledType, NEW s \in DOMAIN tb, NEW o \in Options, timeToDistance(s, o)
  PROVE  /\ tb' \in SessionMap /\ db' \in SessionMap /\ toModem' \in Seq(Command)
         /\ ClientsType'
  <1>0. s \in Sessions
    BY MapType DEF HandledType
  <1>1. PICK c \in stopTimeBasedTrackingMultiplex(s) :
           /\ toModem' = Append(queued(c), startDistanceBasedTracking(do("none", s)))
           /\ IF DistanceSupported
              THEN tb' = Restrict(tb, DOMAIN tb \ {s}) /\ db' = put(db, s, o)
              ELSE tb' = put(tb, s, o) /\ UNCHANGED db
           /\ IF c = NoCall THEN reportResponse(s, "ok") ELSE UNCHANGED clientVars
    BY DEF timeToDistance
  <1>2. c \in Command \cup {NoCall}
    BY StopCalls DEF HandledType
  <1>3. startDistanceBasedTracking(do("none", s)) \in Command
    BY <1>0, ClosureTypes, CommandTypes
  <1>4. toModem' \in Seq(Command)
    BY <1>1, <1>2, <1>3, QueuedType, SeqTypes DEF HandledType
  <1>5. tb' \in SessionMap /\ db' \in SessionMap
    <2>1. DOMAIN tb \ {s} \in SUBSET DOMAIN tb
      OBVIOUS
    <2>2. CASE tb' = Restrict(tb, DOMAIN tb \ {s}) /\ db' = put(db, s, o)
      BY <1>0, <2>1, <2>2, RestrictMap, PutMap DEF HandledType
    <2>3. CASE tb' = put(tb, s, o) /\ UNCHANGED db
      BY <1>0, <2>3, PutMap DEF HandledType
    <2> QED BY <1>1, <2>2, <2>3
  <1>6. ClientsType'
    BY <1>0, <1>1, ReportType DEF HandledType
  <1> QED BY <1>4, <1>5, <1>6

LEMMA UpdateType ==
  ASSUME HandledType, NEW s \in Sessions, NEW o \in Options, MsgUpdateTracking(s, o)
  PROVE  /\ clients' = clients /\ pendingMsgs' = pendingMsgs
         /\ tb' \in SessionMap /\ db' \in SessionMap /\ toModem' \in Seq(Command)
         /\ ClientsType'
  <1>0. clients' = clients /\ pendingMsgs' = pendingMsgs
    BY DEF MsgUpdateTracking
  <1>1. CASE reportResponse(s, "unknown") /\ UNCHANGED <<tb, db, toModem>>
    BY <1>0, <1>1, ReportType DEF HandledType
  <1>2. CASE isTimeBasedTrackingSession(s) /\ timeToDistance(s, o)
    BY <1>0, <1>2, TimeToDistanceType DEF isTimeBasedTrackingSession
  <1>3. CASE /\ eraseTrackingSession(s)
             /\ call(stopDistanceBasedTracking(doWith("distanceToTime", s, o)))
             /\ UNCHANGED clientVars
    <2>1. doWith("distanceToTime", s, o) \in Closure
      BY ClosureTypes
    <2>2. stopDistanceBasedTracking(doWith("distanceToTime", s, o)) \in Command
      BY <2>1, CommandTypes
    <2> QED BY <1>0, <1>3, <2>2, QueuedType, EraseType, ReportType DEF call, HandledType
  <1>4. CASE /\ isTimeBasedTrackingSession(s)
             /\ \E c \in updateTrackingMultiplex(s, o) :
                   /\ call(c) /\ saveTrackingSession(s, o)
                   /\ IF c = NoCall THEN reportResponse(s, "ok") ELSE UNCHANGED clientVars
    <2>1. PICK c \in updateTrackingMultiplex(s, o) :
             /\ call(c) /\ saveTrackingSession(s, o)
             /\ reportResponse(s, "ok") \/ UNCHANGED clientVars
      BY <1>4
    <2>2. c \in Command \cup {NoCall}
      BY <1>4, UpdateCalls DEF HandledType, isTimeBasedTrackingSession
    <2> QED BY <1>0, <2>1, <2>2, QueuedType, SaveType, ReportType DEF call, HandledType
  <1>5. CASE /\ call(stopDistanceBasedTracking(doWith("restartDistance", s, o)))
             /\ UNCHANGED <<tb, db, clientVars>>
    <2>1. doWith("restartDistance", s, o) \in Closure
      BY ClosureTypes
    <2>2. stopDistanceBasedTracking(doWith("restartDistance", s, o)) \in Command
      BY <2>1, CommandTypes
    <2> QED BY <1>0, <1>5, <2>2, QueuedType, ReportType DEF call, HandledType
  <1> QED BY <1>1, <1>2, <1>3, <1>4, <1>5 DEF MsgUpdateTracking

LEMMA StopType ==
  ASSUME HandledType, NEW s \in Sessions, MsgStopTracking(s)
  PROVE  /\ clients' = clients /\ pendingMsgs' = pendingMsgs
         /\ tb' \in SessionMap /\ db' \in SessionMap /\ toModem' \in Seq(Command)
         /\ ClientsType'
  <1>0. clients' = clients /\ pendingMsgs' = pendingMsgs
    BY DEF MsgStopTracking
  <1>1. CASE /\ isTimeBasedTrackingSession(s)
             /\ \E c \in stopTimeBasedTrackingMultiplex(s) :
                   /\ call(c) /\ eraseTrackingSession(s)
                   /\ IF c = NoCall THEN reportResponse(s, "ok") ELSE UNCHANGED clientVars
    <2>1. PICK c \in stopTimeBasedTrackingMultiplex(s) :
             /\ call(c) /\ eraseTrackingSession(s)
             /\ reportResponse(s, "ok") \/ UNCHANGED clientVars
      BY <1>1
    <2>2. c \in Command \cup {NoCall}
      BY <1>1, StopCalls DEF HandledType, isTimeBasedTrackingSession
    <2> QED BY <1>0, <2>1, <2>2, QueuedType, EraseType, ReportType DEF call, HandledType
  <1>2. CASE /\ call(stopDistanceBasedTracking(do("stopDistance", s)))
             /\ UNCHANGED <<tb, db, clientVars>>
    <2>1. do("stopDistance", s) \in Closure
      BY ClosureTypes
    <2>2. stopDistanceBasedTracking(do("stopDistance", s)) \in Command
      BY <2>1, CommandTypes
    <2> QED BY <1>0, <1>2, <2>2, QueuedType, ReportType DEF call, HandledType
  <1>3. CASE reportResponse(s, "unknown") /\ UNCHANGED <<tb, db, toModem>>
    BY <1>0, <1>3, ReportType DEF HandledType
  <1> QED BY <1>1, <1>2, <1>3 DEF MsgStopTracking

LEMMA OrderIs ==
  ASSUME NEW S \in SUBSET Sessions, NEW d \in Orders(S)
  PROVE  \E n \in Nat : /\ DOMAIN d = 1 .. n /\ \A i \in 1 .. n : d[i] \in S
                        /\ \A x \in S : \E i \in 1 .. n : d[i] = x
                        /\ \A i, j \in 1 .. n : d[i] = d[j] => i = j
  <1>1. IsFiniteSet(S)
    BY TrackingConstants, FS_Subset
  <1>2. Cardinality(S) \in Nat
    BY <1>1, FS_CardinalityType
  <1>3. /\ d \in [1 .. Cardinality(S) -> S]
        /\ \A i, j \in DOMAIN d : d[i] = d[j] => i = j
        /\ \A x \in S : \E i \in 1 .. Cardinality(S) : d[i] = x
    BY DEF Orders, Bijection, Injection, Surjection, IsInjective
  <1> QED BY <1>2, <1>3

(* What MsgRemoveClient asks of the modem: of each time based session of   *)
(* the client what stopTimeBasedTrackingMultiplex asks, then the stops of  *)
(* its distance based ones.                                                *)
RemoveAsks(k, a, b) ==
    /\ toModem' = (toModem \o a) \o b
    /\ \A i \in 1 .. Len(a) : \E s \in DOMAIN tb :
          Owner[s] = k /\ a[i] \in stopTimeBasedTrackingMultiplex(s)
    /\ \A i \in 1 .. Len(b) : \E s \in DOMAIN db :
          Owner[s] = k /\ b[i] = stopDistanceBasedTracking(do("clientGone", s))

LEMMA RemoveCalls ==
  ASSUME HandledType, NEW k, MsgRemoveClient(k)
  PROVE  \E a, b \in Seq(Command) : RemoveAsks(k, a, b)
  <1> DEFINE T == {s \in DOMAIN tb : Owner[s] = k}
             D == {s \in DOMAIN db : Owner[s] = k}
             Calls == UNION {stopTimeBasedTrackingMultiplex(s) : s \in T}
  <1>1. PICK made \in [T -> Calls] :
           /\ \A s \in T : made[s] \in stopTimeBasedTrackingMultiplex(s)
           /\ \E t \in Orders({s \in T : made[s] # NoCall}), d \in Orders(D) :
                 toModem' = toModem
                            \o [i \in DOMAIN t |-> made[t[i]]]
                            \o [i \in DOMAIN d |->
                                   stopDistanceBasedTracking(do("clientGone", d[i]))]
    BY DEF MsgRemoveClient
  <1>2. PICK t \in Orders({s \in T : made[s] # NoCall}), d \in Orders(D) :
                 toModem' = toModem
                            \o [i \in DOMAIN t |-> made[t[i]]]
                            \o [i \in DOMAIN d |->
                                   stopDistanceBasedTracking(do("clientGone", d[i]))]
    BY <1>1
  <1> DEFINE a == [i \in DOMAIN t |-> made[t[i]]]
             b == [i \in DOMAIN d |-> stopDistanceBasedTracking(do("clientGone", d[i]))]
  <1>3. T \subseteq DOMAIN tb /\ D \subseteq DOMAIN db /\ T \subseteq Sessions /\ D \subseteq Sessions
    BY MapType DEF HandledType
  <1>4. PICK n \in Nat : DOMAIN t = 1 .. n /\ \A i \in 1 .. n : t[i] \in {s \in T : made[s] # NoCall}
    <2>1. {s \in T : made[s] # NoCall} \in SUBSET Sessions
      BY <1>3
    <2> HIDE DEF T
    <2> QED BY <2>1, OrderIs
  <1>5. PICK l \in Nat : DOMAIN d = 1 .. l /\ \A i \in 1 .. l : d[i] \in D
    <2>1. D \in SUBSET Sessions
      BY <1>3
    <2> HIDE DEF D
    <2> QED BY <2>1, OrderIs
  <1>6. \A i \in 1 .. n : /\ made[t[i]] \in stopTimeBasedTrackingMultiplex(t[i])
                          /\ made[t[i]] \in Command /\ t[i] \in T
    <2> SUFFICES ASSUME NEW i \in 1 .. n
                 PROVE  /\ made[t[i]] \in stopTimeBasedTrackingMultiplex(t[i])
                        /\ made[t[i]] \in Command /\ t[i] \in T
      OBVIOUS
    <2>1. t[i] \in T /\ made[t[i]] # NoCall
      BY <1>4
    <2>2. made[t[i]] \in stopTimeBasedTrackingMultiplex(t[i])
      BY <1>1, <2>1
    <2>3. t[i] \in DOMAIN tb
      BY <1>3, <2>1
    <2>4. made[t[i]] \in Command
      BY <2>1, <2>2, <2>3, StopCalls DEF HandledType
    <2> QED BY <2>1, <2>2, <2>4
  <1>7. \A i \in 1 .. l : stopDistanceBasedTracking(do("clientGone", d[i])) \in Command
    BY <1>3, <1>5, ClosureTypes, CommandTypes
  <1>8. a \in Seq(Command) /\ Len(a) = n /\ \A i \in 1 .. n : a[i] = made[t[i]]
    BY <1>4, <1>6
  <1>9. /\ b \in Seq(Command) /\ Len(b) = l
        /\ \A i \in 1 .. l : b[i] = stopDistanceBasedTracking(do("clientGone", d[i]))
    BY <1>5, <1>7
  <1>10. toModem' = (toModem \o a) \o b
    BY <1>2
  <1>11. \A i \in 1 .. Len(a) : \E s \in DOMAIN tb :
                  Owner[s] = k /\ a[i] \in stopTimeBasedTrackingMultiplex(s)
    <2>1. \A i \in 1 .. n : t[i] \in DOMAIN tb /\ Owner[t[i]] = k
      BY <1>6
    <2> HIDE DEF a
    <2> QED BY <1>6, <1>8, <2>1
  <1>12. \A i \in 1 .. Len(b) : \E s \in DOMAIN db :
                  Owner[s] = k /\ b[i] = stopDistanceBasedTracking(do("clientGone", s))
    <2>1. \A i \in 1 .. l : d[i] \in DOMAIN db /\ Owner[d[i]] = k
      BY <1>5
    <2> HIDE DEF b
    <2> QED BY <1>9, <2>1
  <1> HIDE DEF a, b
  <1>13. RemoveAsks(k, a, b)
    BY <1>10, <1>11, <1>12 DEF RemoveAsks
  <1> QED BY <1>8, <1>9, <1>13

(* restartSessions asks for the smallest interval, and for the distance    *)
(* based sessions once more.                                               *)
LEMMA RestartCalls ==
  ASSUME HandledType, restartSessions
  PROVE  \E a, b \in Seq(Command) :
            /\ toModem' = (toModem \o a) \o b
            /\ \/ DOMAIN tb = {} /\ a = <<>>
               \/ \E c \in Command :
                     /\ a = <<c>> /\ c.cmd = "startFix" /\ c.cb.do = "none"
                     /\ DOMAIN tb # {} /\ \A s \in DOMAIN tb : c.int <= tb[s].int
            /\ \A i \in 1 .. Len(b) : \E s \in DOMAIN db :
                  b[i] = startDistanceBasedTracking(do("none", s))
            /\ \A s \in DOMAIN db : \E i \in 1 .. Len(b) :
                  /\ b[i] = startDistanceBasedTracking(do("none", s))
                  /\ \A j \in 1 .. Len(b) : b[j] = b[i] => j = i
  <1>1. PICK d \in Orders(DOMAIN db) :
           \/ /\ DOMAIN tb = {}
              /\ toModem' = toModem
                     \o [i \in DOMAIN d |-> startDistanceBasedTracking(do("none", d[i]))]
           \/ \E m \in smallestInterval(DOMAIN tb), p \in highestPower(DOMAIN tb) :
                 toModem' = Append(toModem, startFix(tb[m].int, p, do("none", m)))
                     \o [i \in DOMAIN d |-> startDistanceBasedTracking(do("none", d[i]))]
    BY DEF restartSessions
  <1> DEFINE b == [i \in DOMAIN d |-> startDistanceBasedTracking(do("none", d[i]))]
  <1>2. DOMAIN db \in SUBSET Sessions /\ DOMAIN tb \in SUBSET Sessions
    BY MapType DEF HandledType
  <1>3. PICK l \in Nat : /\ DOMAIN d = 1 .. l /\ \A i \in 1 .. l : d[i] \in DOMAIN db
                         /\ \A x \in DOMAIN db : \E i \in 1 .. l : d[i] = x
                         /\ \A i, j \in 1 .. l : d[i] = d[j] => i = j
    BY <1>2, OrderIs
  <1>4. \A i \in 1 .. l : /\ startDistanceBasedTracking(do("none", d[i])) \in Command
                          /\ startDistanceBasedTracking(do("none", d[i])).cb.s = d[i]
    <2> SUFFICES ASSUME NEW x \in Sessions
                 PROVE  /\ startDistanceBasedTracking(do("none", x)) \in Command
                        /\ startDistanceBasedTracking(do("none", x)).cb.s = x
      BY <1>2, <1>3
    <2>1. do("none", x) \in Closure /\ do("none", x).s = x
      BY ClosureTypes
    <2> QED BY <2>1, CommandTypes DEF startDistanceBasedTracking
  <1>5. /\ b \in Seq(Command) /\ Len(b) = l
        /\ \A i \in 1 .. l : b[i] = startDistanceBasedTracking(do("none", d[i]))
    BY <1>3, <1>4
  <1> HIDE DEF b
  <1>6. \A i \in 1 .. Len(b) : \E s \in DOMAIN db :
                  b[i] = startDistanceBasedTracking(do("none", s))
    BY <1>3, <1>5
  <1>7. \A s \in DOMAIN db : \E i \in 1 .. Len(b) :
                  /\ b[i] = startDistanceBasedTracking(do("none", s))
                  /\ \A j \in 1 .. Len(b) : b[j] = b[i] => j = i
    <2> SUFFICES ASSUME NEW s \in DOMAIN db
                 PROVE  \E i \in 1 .. l :
                           /\ b[i] = startDistanceBasedTracking(do("none", s))
                           /\ \A j \in 1 .. l : b[j] = b[i] => j = i
      BY <1>5
    <2>1. PICK i \in 1 .. l : d[i] = s
      BY <1>3
    <2>2. ASSUME NEW j \in 1 .. l, b[j] = b[i] PROVE j = i
      <3>1. b[j].cb.s = d[j] /\ b[i].cb.s = d[i]
        BY <1>4, <1>5
      <3> QED BY <1>3, <2>2, <3>1
    <2> QED BY <1>5, <2>1, <2>2
  <1>8. CASE DOMAIN tb = {} /\ toModem' = toModem \o b
    <2> DEFINE a == <<>>
    <2>1. a \in Seq(Command) /\ toModem \o a = toModem
      BY DEF HandledType
    <2> HIDE DEF a
    <2>2. toModem' = (toModem \o a) \o b
      BY <1>8, <2>1
    <2> QED BY <1>5, <1>6, <1>7, <1>8, <2>1, <2>2 DEF a
  <1>9. ASSUME NEW m \in smallestInterval(DOMAIN tb), NEW p \in highestPower(DOMAIN tb),
               toModem' = Append(toModem, startFix(tb[m].int, p, do("none", m))) \o b
        PROVE  \E a \in Seq(Command) :
                  /\ toModem' = (toModem \o a) \o b
                  /\ \E c \in Command :
                       /\ a = <<c>> /\ c.cmd = "startFix" /\ c.cb.do = "none"
                       /\ DOMAIN tb # {} /\ \A s \in DOMAIN tb : c.int <= tb[s].int
    <2> DEFINE c == startFix(tb[m].int, p, do("none", m))
    <2>1. m \in DOMAIN tb /\ \A s \in DOMAIN tb : tb[m].int <= tb[s].int
      BY DEF smallestInterval
    <2>2. \A x \in DOMAIN tb : tb[x] \in Options
      BY MapType DEF HandledType
    <2>3. p \in powersOf(DOMAIN tb)
      BY DEF highestPower, smallestOf
    <2>4. p \in Powers /\ tb[m].int \in Intervals
      BY <2>1, <2>2, <2>3 DEF powersOf, Options
    <2>5. do("none", m) \in Closure /\ do("none", m).do = "none"
      BY <1>2, <2>1, ClosureTypes
    <2>6. c \in Command /\ c.cmd = "startFix" /\ c.int = tb[m].int /\ c.cb.do = "none"
      BY <2>4, <2>5, CommandTypes
    <2> HIDE DEF c
    <2>7. <<c>> \in Seq(Command) /\ Append(toModem, c) = toModem \o <<c>>
      BY <2>6 DEF HandledType
    <2>8. toModem' = (toModem \o <<c>>) \o b
      BY <1>9, <2>7 DEF c
    <2> QED BY <2>1, <2>6, <2>7, <2>8
  <1> QED BY <1>1, <1>5, <1>6, <1>7, <1>8, <1>9 DEF b

LEMMA RemoveType ==
  ASSUME HandledType, NEW k \in Clients, MsgRemoveClient(k), capsKnown' = capsKnown
  PROVE  HandledType'
  <1>1. PICK a \in Seq(Command), b \in Seq(Command) : toModem' = (toModem \o a) \o b
    BY RemoveCalls DEF RemoveAsks
  <1>2. toModem' \in Seq(Command)
    BY <1>1, SeqTypes DEF HandledType
  <1>3. clients' \subseteq Clients /\ UNCHANGED <<tb, db, pendingMsgs, clientVars>>
    BY DEF MsgRemoveClient, HandledType
  <1> QED BY <1>2, <1>3 DEF HandledType, ClientsType, clientVars

LEMMA EngineUpType ==
  ASSUME HandledType, MsgHandleEngineUpEvent
  PROVE  HandledType'
  <1>1. PICK a \in Seq(Command), b \in Seq(Command) : toModem' = (toModem \o a) \o b
    BY RestartCalls DEF MsgHandleEngineUpEvent
  <1>2. toModem' \in Seq(Command)
    BY <1>1, SeqTypes DEF HandledType
  <1>3. pendingMsgs' \in Seq(Msg)
    BY DEF MsgHandleEngineUpEvent
  <1>4. capsKnown' = TRUE /\ UNCHANGED <<clients, tb, db, clientVars>>
    BY DEF MsgHandleEngineUpEvent, sessionVars
  <1> QED BY <1>2, <1>3, <1>4 DEF HandledType, ClientsType, clientVars

LEMMA ResponseType ==
  ASSUME HandledType, NEW ok \in BOOLEAN, NEW cb \in Closure, Response(ok, cb)
  PROVE  /\ clients' = clients /\ pendingMsgs' = pendingMsgs
         /\ tb' \in SessionMap /\ db' \in SessionMap /\ toModem' \in Seq(Command)
         /\ ClientsType'
  <1> DEFINE s == cb.s
  <1>1. s \in Sessions
    BY ClosureFields
  <1>2. clients' = clients /\ pendingMsgs' = pendingMsgs
    BY DEF Response
  <1>3. \A k \in BOOLEAN : (IF k THEN "ok" ELSE "failed") \in {"ok", "failed", "unknown"}
    OBVIOUS
  <1>4. report(s, ok) => ClientsType'
    BY <1>1, <1>3, ReportType DEF report, HandledType
  <1>5. UNCHANGED clientVars => ClientsType'
    BY <1>1, ReportType DEF HandledType
  <1>6. UNCHANGED <<tb, db>> \/ eraseTrackingSession(s) => tb' \in SessionMap /\ db' \in SessionMap
    BY EraseType DEF HandledType
  <1>7. UNCHANGED toModem => toModem' \in Seq(Command)
    BY DEF HandledType
  <1>8. cb.o \in Options /\ saveTrackingSession(s, cb.o) => tb' \in SessionMap /\ db' \in SessionMap
    BY <1>1, SaveType DEF HandledType
  <1>9. cb.do \in {"updateTracking", "distanceToTime", "restartDistance", "restarted"}
          => cb.o \in Options
    BY ClosureFields
  <1> HIDE DEF s
  <1>10. CASE cb.do = "started"
    BY <1>2, <1>4, <1>6, <1>7, <1>10 DEF Response, s
  <1>11. CASE cb.do = "updateTracking"
    BY <1>2, <1>4, <1>6, <1>7, <1>8, <1>9, <1>11 DEF Response, s
  <1>12. CASE cb.do = "stopTracking"
    BY <1>2, <1>4, <1>6, <1>7, <1>12 DEF Response, s
  <1>13. CASE cb.do = "stopDistance"
    BY <1>2, <1>4, <1>6, <1>7, <1>13 DEF Response, s
  <1>14. CASE cb.do = "clientGone"
    BY <1>2, <1>5, <1>6, <1>7, <1>14 DEF Response, s
  <1>15. CASE cb.do = "distanceToTime"
    BY <1>1, <1>2, <1>9, <1>15, StartTimeBasedType DEF Response, s
  <1>16. CASE cb.do = "restartDistance"
    <2> DEFINE again == doWith("restarted", s, cb.o)
    <2>1. startDistanceBasedTracking(again) \in Command
      BY <1>1, <1>9, <1>16, ClosureTypes, CommandTypes
    <2> HIDE DEF again
    <2>2. call(startDistanceBasedTracking(again)) => toModem' \in Seq(Command)
      BY <2>1, QueuedType DEF call, HandledType
    <2>3. /\ call(startDistanceBasedTracking(again)) \/ UNCHANGED toModem
          /\ UNCHANGED <<tb, db, clientVars>>
      BY <1>16 DEF Response, s, again
    <2> QED BY <1>2, <1>5, <1>6, <1>7, <2>2, <2>3
  <1>17. CASE cb.do = "restarted"
    BY <1>2, <1>4, <1>6, <1>7, <1>8, <1>9, <1>17 DEF Response, s
  <1> QED BY <1>10, <1>11, <1>12, <1>13, <1>14, <1>15, <1>16, <1>17 DEF Response

LEMMA HandleType ==
  ASSUME HandledType, NEW m \in Msg, Handle(m)
  PROVE  HandledType'
  <1>1. CASE m.kind \in {"start", "update"} /\ putAside(m) /\ UNCHANGED capsKnown
    <2>1. pendingMsgs' \in Seq(Msg)
      BY <1>1, SeqTypes DEF putAside, HandledType
    <2>2. UNCHANGED <<clients, tb, db, toModem, clientVars, capsKnown>>
      BY <1>1 DEF putAside, sessionVars
    <2> QED BY <2>1, <2>2 DEF HandledType, ClientsType, clientVars
  <1>2. CASE m.kind = "start" /\ MsgStartTracking(m.s, m.o) /\ UNCHANGED capsKnown
    <2>1. m.s \in Sessions /\ m.o \in Options
      BY <1>2, MsgFields
    <2> QED BY <1>2, <2>1, StartType DEF HandledType
  <1>3. CASE m.kind = "update" /\ MsgUpdateTracking(m.s, m.o) /\ UNCHANGED capsKnown
    <2>1. m.s \in Sessions /\ m.o \in Options
      BY <1>3, MsgFields
    <2> QED BY <1>3, <2>1, UpdateType DEF HandledType
  <1>4. CASE m.kind = "stop" /\ MsgStopTracking(m.s) /\ UNCHANGED capsKnown
    <2>1. m.s \in Sessions
      BY <1>4, MsgFields
    <2> QED BY <1>4, <2>1, StopType DEF HandledType
  <1>5. CASE m.kind = "remove" /\ MsgRemoveClient(m.c) /\ UNCHANGED capsKnown
    <2>1. m.c \in Clients
      BY <1>5, MsgFields
    <2> QED BY <1>5, <2>1, RemoveType
  <1>6. CASE MsgHandleEngineUpEvent
    BY <1>6, EngineUpType
  <1>7. CASE m.kind = "response" /\ Response(m.ok, m.cb) /\ UNCHANGED capsKnown
    <2>1. m.ok \in BOOLEAN /\ m.cb \in Closure
      BY <1>7, MsgFields
    <2> QED BY <1>7, <2>1, ResponseType DEF HandledType
  <1> QED BY <1>1, <1>2, <1>3, <1>4, <1>5, <1>6, <1>7 DEF Handle

HistoryType == crossed \subseteq Sessions /\ astray \subseteq Sessions /\ leftOn \in BOOLEAN

LEMMA TypeSplit ==
  TypeOK <=> /\ HandledType
             /\ msgs \in Seq(Msg)
             /\ modemUp \in BOOLEAN
             /\ fix \in [int : Intervals, power : Powers] \cup {Off}
             /\ engDb \subseteq Sessions
             /\ HistoryType
             /\ updates \in 0 .. MaxUpdates /\ restarts \in 0 .. MaxRestarts
  BY DEF TypeOK, HandledType, ClientsType, HistoryType

LEMMA ProcMsgType ==
  ASSUME TypeOK, ProcMsg
  PROVE  TypeOK'
  <1>1. HandledType /\ msgs \in Seq(Msg)
    BY TypeSplit
  <1>2. Head(msgs) \in Msg /\ Tail(msgs) \in Seq(Msg)
    BY <1>1, SeqTypes DEF ProcMsg
  <1>3. HandledType'
    BY <1>1, <1>2, HandleType DEF ProcMsg
  <1>4. msgs' \in Seq(Msg)
    BY <1>1, <1>2, SeqTypes DEF ProcMsg, HandledType
  <1>5. UNCHANGED <<modemUp, fix, engDb, restarts, updates>>
    BY DEF ProcMsg, modemVars
  <1>6. HistoryType'
    <2>1. crossed' = crossed /\ astray' \subseteq Sessions
      BY <1>1, MapType DEF ProcMsg, remember, restarted, TypeOK, HandledType
    <2>2. leftOn' \in BOOLEAN
      BY DEF ProcMsg, remember
    <2> QED BY <2>1, <2>2 DEF TypeOK, HistoryType
  <1> QED BY <1>3, <1>4, <1>5, <1>6 DEF TypeOK, HandledType, ClientsType, HistoryType

LEMMA LocApiType ==
  ASSUME TypeOK, LocApiStep
  PROVE  TypeOK'
  <1> DEFINE c == Head(toModem)
  <1>1. c \in Command /\ toModem' \in Seq(Command)
    BY SeqTypes DEF LocApiStep, TypeOK
  <1>2. UNCHANGED <<clients, tb, db, capsKnown, pendingMsgs, restarts, req, owed, answer, updates>>
    BY DEF LocApiStep, sessionVars, clientVars
  <1> HIDE DEF c
  <1>3. CASE c.cmd = "open" /\ Open
    <2>1. [kind |-> "engineUp"] \in Msg
      BY DEF Msg
    <2>2. msgs' \in Seq(Msg) /\ modemUp' \in BOOLEAN /\ fix' = fix /\ engDb' = engDb
      BY <1>3, <2>1, SeqTypes DEF Open, TypeOK
    <2>3. UNCHANGED <<crossed, astray, leftOn>>
      BY <1>3 DEF LocApiStep, c
    <2> QED BY <1>1, <1>2, <2>2, <2>3 DEF TypeOK
  <1>4. ASSUME NEW ok \in BOOLEAN, c.cmd # "open", Execute(c, ok)
        PROVE  TypeOK'
    <2>1. c.cb \in Closure /\ c.cb.s \in Sessions
      BY <1>1, <1>4, CommandFields, ClosureFields
    <2>2. [kind |-> "response", ok |-> ok, cb |-> c.cb] \in Msg
      BY <2>1 DEF Msg
    <2>3. msgs' \in Seq(Msg)
      BY <1>4, <2>2, SeqTypes DEF Execute, TypeOK
    <2>4. c.cmd = "startFix" => c.int \in Intervals /\ c.power \in Powers
      BY <1>1, CommandFields
    <2>5. fix' \in [int : Intervals, power : Powers] \cup {Off}
      BY <1>4, <2>4 DEF Execute, TypeOK
    <2>6. engDb' \subseteq Sessions
      BY <1>4, <2>1 DEF Execute, TypeOK
    <2>7. modemUp' = modemUp /\ crossed' = crossed
      BY <1>4 DEF Execute, LocApiStep
    <2>8. astray' \subseteq Sessions
      BY <1>4, <2>1 DEF Execute, TypeOK
    <2>9. leftOn' \in BOOLEAN
      BY <1>4 DEF Execute
    <2> QED BY <1>1, <1>2, <2>3, <2>5, <2>6, <2>7, <2>8, <2>9 DEF TypeOK
  <1> QED BY <1>3, <1>4 DEF LocApiStep, c

LEMMA DownType ==
  ASSUME TypeOK, handleEngineDownEvent
  PROVE  TypeOK'
  <1>1. [cmd |-> "open"] \in Command
    BY DEF Command
  <1>2. toModem' \in Seq(Command)
    BY <1>1, SeqTypes DEF handleEngineDownEvent, TypeOK
  <1>3. restarts' \in 0 .. MaxRestarts
    BY TrackingConstants DEF handleEngineDownEvent, TypeOK
  <1>4. UNCHANGED <<clients, tb, db, capsKnown, pendingMsgs, msgs, req, owed, answer, crossed,
                    astray, leftOn, updates>>
    BY DEF handleEngineDownEvent, sessionVars, clientVars
  <1>5. modemUp' = FALSE /\ fix' = Off /\ engDb' = {}
    BY DEF handleEngineDownEvent
  <1> QED BY <1>2, <1>3, <1>4, <1>5 DEF TypeOK

LEMMA SendType ==
  ASSUME TypeOK, NEW s \in Sessions, NEW what \in {"start", "update", "stop"}, NEW m \in Msg,
         send(s, what, m), updates' \in 0 .. MaxUpdates
  PROVE  TypeOK'
  <1>1. msgs' \in Seq(Msg)
    BY SeqTypes DEF send, TypeOK
  <1>2. owed[s] + 1 \in Int
    BY DEF TypeOK
  <1>3. req' \in [Sessions -> {"none", "start", "update", "stop"}] /\ owed' \in [Sessions -> Int]
    BY <1>2 DEF send, TypeOK
  <1>4. UNCHANGED <<clients, tb, db, capsKnown, pendingMsgs, toModem, modemUp, fix, engDb,
                    restarts, answer, astray, leftOn>>
    BY DEF send, sessionVars, modemVars
  <1>5. crossed' \subseteq Sessions
    BY DEF send, TypeOK
  <1> QED BY <1>1, <1>3, <1>4, <1>5 DEF TypeOK

LEMMA ClientType ==
  ASSUME TypeOK,
         \/ \E s \in Sessions : \/ stop(s)
                                \/ \E o \in Options : startTracking(s, o)
                                                      \/ updateTrackingOptions(s, o)
         \/ \E k \in Clients : removeClient(k)
  PROVE  TypeOK'
  <1>1. ASSUME NEW s \in Sessions, stop(s) PROVE TypeOK'
    <2>1. [kind |-> "stop", s |-> s] \in Msg
      BY DEF Msg
    <2> QED BY <1>1, <2>1, SendType DEF stop, TypeOK
  <1>2. ASSUME NEW s \in Sessions, NEW o \in Options, startTracking(s, o) PROVE TypeOK'
    <2>1. [kind |-> "start", s |-> s, o |-> o] \in Msg
      BY DEF Msg
    <2> QED BY <1>2, <2>1, SendType DEF startTracking, TypeOK
  <1>3. ASSUME NEW s \in Sessions, NEW o \in Options, updateTrackingOptions(s, o) PROVE TypeOK'
    <2>1. [kind |-> "update", s |-> s, o |-> o] \in Msg
      BY DEF Msg
    <2>2. updates' \in 0 .. MaxUpdates
      BY <1>3, TrackingConstants DEF updateTrackingOptions, TypeOK
    <2> QED BY <1>3, <2>1, <2>2, SendType DEF updateTrackingOptions
  <1>4. ASSUME NEW k \in Clients, removeClient(k) PROVE TypeOK'
    <2>1. [kind |-> "remove", c |-> k] \in Msg
      BY DEF Msg
    <2>2. msgs' \in Seq(Msg)
      BY <1>4, <2>1, SeqTypes DEF removeClient, TypeOK
    <2>3. UNCHANGED <<clients, tb, db, capsKnown, pendingMsgs, toModem, modemUp, fix, engDb,
                      restarts, req, owed, answer, crossed, astray, leftOn, updates>>
      BY <1>4 DEF removeClient, sessionVars, modemVars, clientVars
    <2> QED BY <2>2, <2>3 DEF TypeOK
  <1> QED BY <1>1, <1>2, <1>3, <1>4

LEMMA InitType == Init => TypeOK
  <1> SUFFICES ASSUME Init PROVE TypeOK
    OBVIOUS
  <1>1. <<>> \in SessionMap
    <2>1. DOMAIN <<>> = {}
      OBVIOUS
    <2>2. <<>> \in [{} -> Options]
      OBVIOUS
    <2> QED BY <2>1, <2>2 DEF SessionMap
  <1>2. toModem \in Seq(Command)
    <2>1. [cmd |-> "open"] \in Command
      BY DEF Command
    <2> QED BY <2>1 DEF Init
  <1>3. msgs \in Seq(Msg) /\ pendingMsgs \in Seq(Msg)
    BY DEF Init
  <1>4. updates \in 0 .. MaxUpdates /\ restarts \in 0 .. MaxRestarts
    BY TrackingConstants DEF Init
  <1>5. /\ req \in [Sessions -> {"none", "start", "update", "stop"}]
        /\ owed \in [Sessions -> Int]
        /\ answer \in [Sessions -> {"none", "ok", "failed", "unknown"}]
    BY DEF Init
  <1>6. tb = <<>> /\ db = <<>>
    BY DEF Init
  <1>7. tb \in SessionMap /\ db \in SessionMap
    BY <1>1, <1>6
  <1> QED BY <1>2, <1>3, <1>4, <1>5, <1>7 DEF Init, TypeOK

LEMMA NextType == TypeOK /\ [Next]_vars => TypeOK'
  <1> SUFFICES ASSUME TypeOK, [Next]_vars PROVE TypeOK'
    OBVIOUS
  <1>1. CASE ProcMsg
    BY <1>1, ProcMsgType
  <1>2. CASE LocApiStep
    BY <1>2, LocApiType
  <1>3. CASE handleEngineDownEvent
    BY <1>3, DownType
  <1>4. CASE \/ \E s \in Sessions : \/ stop(s)
                                    \/ \E o \in Options : startTracking(s, o)
                                                          \/ updateTrackingOptions(s, o)
             \/ \E k \in Clients : removeClient(k)
    BY <1>4, ClientType
  <1>5. CASE UNCHANGED vars
    BY <1>5 DEF vars, sessionVars, modemVars, clientVars, TypeOK
  <1> QED BY <1>1, <1>2, <1>3, <1>4, <1>5 DEF Next

(* Every variable of the tracking sessions keeps its type.                 *)
THEOREM TypeCorrect == Spec => []TypeOK
  BY InitType, NextType, PTL DEF Spec

-----------------------------------------------------------------------------
(* What closures carry.  The options of a closure fit what it will do with *)
(* them: a session is restarted as distance based with options that have a *)
(* distance, becomes time based with options that have none, and gets back *)
(* options it had as a time based one.                                     *)
Sane(cb) ==
    /\ cb.do \in {"restartDistance", "restarted"} => cb.o.dist /\ DistanceSupported
    /\ cb.do = "distanceToTime" => ~cb.o.dist
    /\ cb.do = "updateTracking" => ~(cb.o.dist /\ DistanceSupported)

Opens == {c \in Command : c.cmd = "open"}
SaneCmds == {c \in Command :
                /\ c.cmd # "open" /\ Sane(c.cb)
                /\ c.cb.do = "updateTracking" => c.cmd = "startFix"}
SaneMsgs == {m \in Msg : m.kind = "response" => Sane(m.cb)}
Aside == {m \in Msg : m.kind \in {"start", "update"}}

SaneMaps == /\ DistanceSupported => \A s \in DOMAIN tb : ~tb[s].dist
            /\ ~DistanceSupported => DOMAIN db = {}

SaneInv == /\ SaneMaps
           /\ toModem \in Seq(SaneCmds \cup Opens)
           /\ msgs \in Seq(SaneMsgs)
           /\ pendingMsgs \in Seq(Aside)

(* A handler adds to the commands of the modem.                            *)
Adds == \E z \in Seq(SaneCmds) : toModem' = toModem \o z

LEMMA SimpleSane ==
  ASSUME NEW c \in Command, c.cmd # "open", c.cb.do \in {"none", "started", "stopTracking",
                                                       "stopDistance", "clientGone"}
  PROVE  c \in SaneCmds
  BY DEF SaneCmds, Sane

LEMMA CallAdds ==
  ASSUME toModem \in Seq(Command), NEW c \in SaneCmds \cup {NoCall}, call(c)
  PROVE  Adds
  <1>1. CASE c = NoCall
    <2>1. <<>> \in Seq(SaneCmds) /\ toModem \o <<>> = toModem
      OBVIOUS
    <2>2. toModem' = toModem
      BY <1>1 DEF call, queued
    <2> QED BY <2>1, <2>2 DEF Adds
  <1>2. CASE c # NoCall
    <2>1. c \in SaneCmds
      BY <1>2
    <2>2. <<c>> \in Seq(SaneCmds) /\ toModem \o <<c>> = Append(toModem, c)
      BY <2>1
    <2>3. toModem' = Append(toModem, c)
      BY <1>2 DEF call, queued
    <2> QED BY <2>2, <2>3 DEF Adds
  <1> QED BY <1>1, <1>2

LEMMA SaveSane ==
  ASSUME tb \in SessionMap, db \in SessionMap, SaneMaps,
         NEW s \in Sessions, NEW o \in Options, saveTrackingSession(s, o)
  PROVE  SaneMaps'
  <1>1. CASE o.dist /\ DistanceSupported
    BY <1>1 DEF saveTrackingSession, SaneMaps
  <1>2. CASE ~(o.dist /\ DistanceSupported)
    <2>1. tb' = put(tb, s, o) /\ db' = db
      BY <1>2 DEF saveTrackingSession
    <2>2. /\ DOMAIN put(tb, s, o) = DOMAIN tb \cup {s} /\ put(tb, s, o)[s] = o
          /\ \A x \in DOMAIN tb \ {s} : put(tb, s, o)[x] = tb[x]
      BY DEF put
    <2> QED BY <1>2, <2>1, <2>2 DEF SaneMaps
  <1> QED BY <1>1, <1>2

LEMMA EraseSane ==
  ASSUME tb \in SessionMap, db \in SessionMap, SaneMaps, NEW s, eraseTrackingSession(s)
  PROVE  SaneMaps'
  <1>1. /\ DOMAIN tb' \subseteq DOMAIN tb /\ \A x \in DOMAIN tb' : tb'[x] = tb[x]
        /\ s \in DOMAIN tb => db' = db
        /\ s \notin DOMAIN tb => DOMAIN db' = DOMAIN db \ {s}
    BY EraseType
  <1> QED BY <1>1 DEF SaneMaps

LEMMA StartTimeBasedSane ==
  ASSUME HandledType, SaneMaps, NEW s \in Sessions, NEW o \in Options, startTimeBased(s, o)
  PROVE  Adds /\ SaneMaps'
  <1>1. PICK c \in startTimeBasedTrackingMultiplex(s, o) :
           call(c) /\ saveTrackingSession(s, o)
    BY DEF startTimeBased
  <1>2. do("started", s).do = "started"
    BY ClosureTypes
  <1>3. c \in SaneCmds \cup {NoCall}
    BY <1>2, StartCalls, SimpleSane DEF HandledType
  <1> QED BY <1>1, <1>3, CallAdds, SaveSane DEF HandledType

LEMMA StartSane ==
  ASSUME HandledType, SaneMaps, NEW s \in Sessions, NEW o \in Options, MsgStartTracking(s, o)
  PROVE  Adds /\ SaneMaps'
  <1>1. CASE UNCHANGED <<tb, db, toModem>>
    <2>1. call(NoCall)
      BY <1>1 DEF call, queued
    <2> QED BY <1>1, <2>1, CallAdds DEF HandledType, SaneMaps
  <1>2. CASE /\ saveTrackingSession(s, o)
             /\ call(startDistanceBasedTracking(do("started", s)))
    <2>1. do("started", s) \in Closure /\ do("started", s).do = "started"
      BY ClosureTypes
    <2>2. startDistanceBasedTracking(do("started", s)) \in SaneCmds
      BY <2>1, CommandTypes, SimpleSane DEF startDistanceBasedTracking
    <2> QED BY <1>2, <2>2, CallAdds, SaveSane DEF HandledType
  <1>3. CASE startTimeBased(s, o)
    BY <1>3, StartTimeBasedSane
  <1> QED BY <1>1, <1>2, <1>3 DEF MsgStartTracking

LEMMA StopCallSane ==
  ASSUME tb \in SessionMap, NEW s \in DOMAIN tb, NEW c \in stopTimeBasedTrackingMultiplex(s)
  PROVE  c \in SaneCmds \cup {NoCall}
  <1>1. s \in Sessions
    BY MapType
  <1>2. do("started", s).do = "started" /\ do("stopTracking", s).do = "stopTracking"
    BY <1>1, ClosureTypes
  <1> QED BY <1>2, StopCalls, SimpleSane

LEMMA TimeToDistanceSane ==
  ASSUME HandledType, SaneMaps, NEW s \in DOMAIN tb, NEW o \in Options, timeToDistance(s, o)
  PROVE  Adds /\ SaneMaps'
  <1>0. s \in Sessions
    BY MapType DEF HandledType
  <1> DEFINE d == startDistanceBasedTracking(do("none", s))
  <1>1. PICK c \in stopTimeBasedTrackingMultiplex(s) :
           /\ toModem' = Append(queued(c), d)
           /\ IF DistanceSupported
              THEN tb' = Restrict(tb, DOMAIN tb \ {s}) /\ db' = put(db, s, o)
              ELSE tb' = put(tb, s, o) /\ UNCHANGED db
    BY DEF timeToDistance
  <1>2. c \in SaneCmds \cup {NoCall}
    BY StopCallSane DEF HandledType
  <1>3. d \in SaneCmds
    <2>1. do("none", s) \in Closure /\ do("none", s).do = "none"
      BY <1>0, ClosureTypes
    <2> QED BY <2>1, CommandTypes, SimpleSane DEF startDistanceBasedTracking
  <1> HIDE DEF d
  <1>4. Adds
    <2>1. CASE c = NoCall
      <3>1. toModem' = toModem \o <<d>> /\ <<d>> \in Seq(SaneCmds)
        BY <1>1, <1>3, <2>1 DEF queued, HandledType
      <3> QED BY <3>1 DEF Adds
    <2>2. CASE c # NoCall
      <3>1. c \in SaneCmds /\ toModem' = Append(Append(toModem, c), d)
        BY <1>1, <1>2, <2>2 DEF queued
      <3>2. <<c, d>> \in Seq(SaneCmds) /\ toModem' = toModem \o <<c, d>>
        BY <1>3, <3>1 DEF HandledType
      <3> QED BY <3>2 DEF Adds
    <2> QED BY <2>1, <2>2
  <1>5. SaneMaps'
    <2>1. CASE DistanceSupported
      <3>1. DOMAIN tb \ {s} \in SUBSET DOMAIN tb
        OBVIOUS
      <3>2. \A x \in DOMAIN tb' : x \in DOMAIN tb /\ tb'[x] = tb[x]
        BY <1>1, <2>1, <3>1, RestrictMap DEF HandledType
      <3> QED BY <2>1, <3>2 DEF SaneMaps
    <2>2. CASE ~DistanceSupported
      BY <1>1, <2>2 DEF SaneMaps
    <2> QED BY <2>1, <2>2
  <1> QED BY <1>4, <1>5

LEMMA UpdateSane ==
  ASSUME HandledType, SaneMaps, NEW s \in Sessions, NEW o \in Options, MsgUpdateTracking(s, o)
  PROVE  Adds /\ SaneMaps'
  <1>1. CASE UNCHANGED <<tb, db, toModem>>
    <2>1. call(NoCall)
      BY <1>1 DEF call, queued
    <2> QED BY <1>1, <2>1, CallAdds DEF HandledType, SaneMaps
  <1>2. CASE isTimeBasedTrackingSession(s) /\ timeToDistance(s, o)
    BY <1>2, TimeToDistanceSane DEF isTimeBasedTrackingSession
  <1>3. CASE /\ ~o.dist /\ eraseTrackingSession(s)
             /\ call(stopDistanceBasedTracking(doWith("distanceToTime", s, o)))
    <2> DEFINE cb == doWith("distanceToTime", s, o)
               c == stopDistanceBasedTracking(cb)
    <2>1. cb \in Closure /\ cb.do = "distanceToTime" /\ cb.o = o
      BY ClosureTypes
    <2> HIDE DEF cb
    <2>2. c \in Command /\ c.cmd = "stopDb" /\ c.cb = cb
      BY <2>1, CommandTypes DEF stopDistanceBasedTracking
    <2>3. c \in SaneCmds
      BY <1>3, <2>1, <2>2 DEF SaneCmds, Sane
    <2> HIDE DEF c
    <2>4. call(c)
      BY <1>3 DEF c, cb
    <2> QED BY <1>3, <2>3, <2>4, CallAdds, EraseSane DEF HandledType
  <1>4. CASE /\ isTimeBasedTrackingSession(s)
             /\ \E c \in updateTrackingMultiplex(s, o) : call(c) /\ saveTrackingSession(s, o)
    <2>1. PICK c \in updateTrackingMultiplex(s, o) : call(c) /\ saveTrackingSession(s, o)
      BY <1>4
    <2>2. s \in DOMAIN tb /\ tb[s] \in Options
      BY <1>4, MapType DEF isTimeBasedTrackingSession, HandledType
    <2>3. /\ doWith("updateTracking", s, tb[s]).do = "updateTracking"
          /\ doWith("updateTracking", s, tb[s]).o = tb[s]
      BY <2>2, ClosureTypes
    <2>4. ~(tb[s].dist /\ DistanceSupported)
      BY <2>2 DEF SaneMaps
    <2>5. c \in SaneCmds \cup {NoCall}
      BY <2>2, <2>3, <2>4, UpdateCalls DEF HandledType, SaneCmds, Sane
    <2> QED BY <2>1, <2>5, CallAdds, SaveSane DEF HandledType
  <1>5. CASE /\ isDistanceBasedTrackingSession(s) /\ o.dist
             /\ call(stopDistanceBasedTracking(doWith("restartDistance", s, o)))
             /\ UNCHANGED <<tb, db>>
    <2> DEFINE cb == doWith("restartDistance", s, o)
               c == stopDistanceBasedTracking(cb)
    <2>1. cb \in Closure /\ cb.do = "restartDistance" /\ cb.o = o
      BY ClosureTypes
    <2>2. DistanceSupported
      BY <1>5 DEF isDistanceBasedTrackingSession, SaneMaps
    <2> HIDE DEF cb
    <2>3. c \in Command /\ c.cmd = "stopDb" /\ c.cb = cb
      BY <2>1, CommandTypes DEF stopDistanceBasedTracking
    <2>4. c \in SaneCmds
      BY <1>5, <2>1, <2>2, <2>3 DEF SaneCmds, Sane
    <2> HIDE DEF c
    <2>5. call(c)
      BY <1>5 DEF c, cb
    <2> QED BY <1>5, <2>4, <2>5, CallAdds DEF HandledType, SaneMaps
  <1> QED BY <1>1, <1>2, <1>3, <1>4, <1>5 DEF MsgUpdateTracking

LEMMA StopSane ==
  ASSUME HandledType, SaneMaps, NEW s \in Sessions, MsgStopTracking(s)
  PROVE  Adds /\ SaneMaps'
  <1>1. CASE /\ isTimeBasedTrackingSession(s)
             /\ \E c \in stopTimeBasedTrackingMultiplex(s) : call(c) /\ eraseTrackingSession(s)
    <2>1. PICK c \in stopTimeBasedTrackingMultiplex(s) : call(c) /\ eraseTrackingSession(s)
      BY <1>1
    <2>2. c \in SaneCmds \cup {NoCall}
      BY <1>1, StopCallSane DEF HandledType, isTimeBasedTrackingSession
    <2> QED BY <2>1, <2>2, CallAdds, EraseSane DEF HandledType
  <1>2. CASE call(stopDistanceBasedTracking(do("stopDistance", s))) /\ UNCHANGED <<tb, db>>
    <2>1. do("stopDistance", s) \in Closure /\ do("stopDistance", s).do = "stopDistance"
      BY ClosureTypes
    <2>2. stopDistanceBasedTracking(do("stopDistance", s)) \in SaneCmds
      BY <2>1, CommandTypes, SimpleSane DEF stopDistanceBasedTracking
    <2> QED BY <1>2, <2>2, CallAdds DEF HandledType, SaneMaps
  <1>3. CASE UNCHANGED <<tb, db, toModem>>
    <2>1. call(NoCall)
      BY <1>3 DEF call, queued
    <2> QED BY <1>3, <2>1, CallAdds DEF HandledType, SaneMaps
  <1> QED BY <1>1, <1>2, <1>3 DEF MsgStopTracking

LEMMA RemoveSane ==
  ASSUME HandledType, SaneMaps, NEW k, MsgRemoveClient(k)
  PROVE  Adds /\ SaneMaps'
  <1>0. PICK a \in Seq(Command), b \in Seq(Command) : RemoveAsks(k, a, b)
    BY RemoveCalls
  <1>1. /\ toModem' = (toModem \o a) \o b
        /\ \A i \in 1 .. Len(a) : \E s \in DOMAIN tb : a[i] \in stopTimeBasedTrackingMultiplex(s)
        /\ \A i \in 1 .. Len(b) : \E s \in DOMAIN db :
              b[i] = stopDistanceBasedTracking(do("clientGone", s))
    BY <1>0 DEF RemoveAsks
  <1>2. ASSUME NEW i \in 1 .. Len(a) PROVE a[i] \in SaneCmds
    <2>1. a[i] \in Command
      OBVIOUS
    <2>2. a[i] # NoCall
      BY <2>1, NoCallIs
    <2> QED BY <1>1, <2>2, StopCallSane DEF HandledType
  <1>3. ASSUME NEW i \in 1 .. Len(b) PROVE b[i] \in SaneCmds
    <2>1. PICK s \in DOMAIN db : b[i] = stopDistanceBasedTracking(do("clientGone", s))
      BY <1>1
    <2>2. s \in Sessions
      BY MapType DEF HandledType
    <2>3. do("clientGone", s) \in Closure /\ do("clientGone", s).do = "clientGone"
      BY <2>2, ClosureTypes
    <2> QED BY <2>1, <2>3, CommandTypes, SimpleSane DEF stopDistanceBasedTracking
  <1>4. a \in Seq(SaneCmds) /\ b \in Seq(SaneCmds)
    BY <1>2, <1>3
  <1>5. a \o b \in Seq(SaneCmds) /\ toModem' = toModem \o (a \o b)
    BY <1>1, <1>4 DEF HandledType
  <1>6. UNCHANGED <<tb, db>>
    BY DEF MsgRemoveClient
  <1> QED BY <1>5, <1>6 DEF Adds, SaneMaps

LEMMA EngineUpSane ==
  ASSUME HandledType, SaneMaps, MsgHandleEngineUpEvent
  PROVE  Adds /\ SaneMaps'
  <1>1. PICK a \in Seq(Command), b \in Seq(Command) :
            /\ toModem' = (toModem \o a) \o b
            /\ a = <<>> \/ \E c \in Command :
                     a = <<c>> /\ c.cmd = "startFix" /\ c.cb.do = "none"
            /\ \A i \in 1 .. Len(b) : \E s \in DOMAIN db :
                  b[i] = startDistanceBasedTracking(do("none", s))
    BY RestartCalls DEF MsgHandleEngineUpEvent
  <1>2. a \in Seq(SaneCmds)
    <2>1. CASE a = <<>>
      BY <2>1
    <2>2. ASSUME NEW c \in Command, a = <<c>>, c.cmd = "startFix", c.cb.do = "none"
          PROVE  a \in Seq(SaneCmds)
      <3>1. c \in SaneCmds
        BY <2>2, SimpleSane
      <3> QED BY <2>2, <3>1
    <2> QED BY <1>1, <2>1, <2>2
  <1>3. ASSUME NEW i \in 1 .. Len(b) PROVE b[i] \in SaneCmds
    <2>1. PICK s \in DOMAIN db : b[i] = startDistanceBasedTracking(do("none", s))
      BY <1>1
    <2>2. s \in Sessions
      BY MapType DEF HandledType
    <2>3. do("none", s) \in Closure /\ do("none", s).do = "none"
      BY <2>2, ClosureTypes
    <2> QED BY <2>1, <2>3, CommandTypes, SimpleSane DEF startDistanceBasedTracking
  <1>4. b \in Seq(SaneCmds)
    BY <1>3
  <1>5. a \o b \in Seq(SaneCmds) /\ toModem' = toModem \o (a \o b)
    BY <1>1, <1>2, <1>4 DEF HandledType
  <1>6. UNCHANGED <<tb, db>>
    BY DEF MsgHandleEngineUpEvent, sessionVars
  <1> QED BY <1>5, <1>6 DEF Adds, SaneMaps

LEMMA ResponseSane ==
  ASSUME HandledType, SaneMaps, NEW ok \in BOOLEAN, NEW cb \in Closure, Sane(cb), Response(ok, cb)
  PROVE  Adds /\ SaneMaps'
  <1> DEFINE s == cb.s
  <1>1. s \in Sessions
    BY ClosureFields
  <1>2. UNCHANGED toModem => Adds
    <2>1. UNCHANGED toModem => call(NoCall)
      BY DEF call, queued
    <2> QED BY <2>1, CallAdds DEF HandledType
  <1>3. cb.do \in {"updateTracking", "distanceToTime", "restartDistance", "restarted"}
          => cb.o \in Options
    BY ClosureFields
  <1>4. UNCHANGED <<tb, db>> \/ eraseTrackingSession(s) => SaneMaps'
    <2>1. UNCHANGED <<tb, db>> => SaneMaps'
      BY DEF SaneMaps
    <2> QED BY <2>1, EraseSane DEF HandledType
  <1>5. cb.o \in Options /\ saveTrackingSession(s, cb.o) => SaneMaps'
    BY <1>1, SaveSane DEF HandledType
  <1> HIDE DEF s
  <1>6. CASE cb.do \in {"started", "stopTracking", "stopDistance", "clientGone"}
    <2>1. UNCHANGED toModem /\ (UNCHANGED <<tb, db>> \/ eraseTrackingSession(s))
      BY <1>6 DEF Response, s
    <2> QED BY <1>2, <1>4, <2>1
  <1>7. CASE cb.do \in {"updateTracking", "restarted"}
    <2>1. UNCHANGED toModem /\ (UNCHANGED <<tb, db>> \/ saveTrackingSession(s, cb.o))
      BY <1>7 DEF Response, s
    <2> QED BY <1>2, <1>3, <1>4, <1>5, <1>7, <2>1
  <1>8. CASE cb.do = "distanceToTime"
    BY <1>1, <1>3, <1>8, StartTimeBasedSane DEF Response, s
  <1>9. CASE cb.do = "restartDistance"
    <2> DEFINE again == doWith("restarted", s, cb.o)
               c == startDistanceBasedTracking(again)
    <2>1. again \in Closure /\ again.do = "restarted" /\ again.o = cb.o
      BY <1>1, <1>3, <1>9, ClosureTypes
    <2>2. cb.o.dist /\ DistanceSupported
      BY <1>9 DEF Sane
    <2>3. call(startDistanceBasedTracking(again)) \/ UNCHANGED toModem
      BY <1>9 DEF Response, s
    <2>4. UNCHANGED <<tb, db>>
      BY <1>9 DEF Response
    <2> HIDE DEF again
    <2>5. c \in Command /\ c.cmd = "startDb" /\ c.cb = again
      BY <2>1, CommandTypes DEF startDistanceBasedTracking
    <2>6. c \in SaneCmds
      BY <2>1, <2>2, <2>5 DEF SaneCmds, Sane
    <2> QED BY <1>2, <1>4, <2>3, <2>4, <2>6, CallAdds DEF HandledType
  <1> QED BY <1>6, <1>7, <1>8, <1>9 DEF Response

LEMMA HandleSane ==
  ASSUME HandledType, SaneMaps, pendingMsgs \in Seq(Aside), NEW m \in SaneMsgs, Handle(m)
  PROVE  Adds /\ SaneMaps' /\ pendingMsgs' \in Seq(Aside)
  <1>0. m \in Msg
    BY DEF SaneMsgs
  <1>1. CASE m.kind \in {"start", "update"} /\ putAside(m)
    <2>1. UNCHANGED <<tb, db, toModem>>
      BY <1>1 DEF putAside, sessionVars
    <2>2. call(NoCall)
      BY <2>1 DEF call, queued
    <2>3. m \in Aside
      BY <1>0, <1>1 DEF Aside
    <2>4. pendingMsgs' \in Seq(Aside)
      BY <1>1, <2>3, SeqTypes DEF putAside
    <2> QED BY <2>1, <2>2, <2>4, CallAdds DEF HandledType, SaneMaps
  <1>2. CASE m.kind = "start" /\ MsgStartTracking(m.s, m.o)
    <2>1. m.s \in Sessions /\ m.o \in Options
      BY <1>0, <1>2, MsgFields
    <2> QED BY <1>2, <2>1, StartSane DEF MsgStartTracking
  <1>3. CASE m.kind = "update" /\ MsgUpdateTracking(m.s, m.o)
    <2>1. m.s \in Sessions /\ m.o \in Options
      BY <1>0, <1>3, MsgFields
    <2> QED BY <1>3, <2>1, UpdateSane DEF MsgUpdateTracking
  <1>4. CASE m.kind = "stop" /\ MsgStopTracking(m.s)
    <2>1. m.s \in Sessions
      BY <1>0, <1>4, MsgFields
    <2> QED BY <1>4, <2>1, StopSane DEF MsgStopTracking
  <1>5. CASE m.kind = "remove" /\ MsgRemoveClient(m.c)
    BY <1>5, RemoveSane DEF MsgRemoveClient
  <1>6. CASE MsgHandleEngineUpEvent
    <2>1. pendingMsgs' \in Seq(Aside)
      BY <1>6 DEF MsgHandleEngineUpEvent
    <2> QED BY <1>6, <2>1, EngineUpSane
  <1>7. CASE m.kind = "response" /\ Response(m.ok, m.cb)
    <2>1. m.ok \in BOOLEAN /\ m.cb \in Closure
      BY <1>0, <1>7, MsgFields
    <2>2. Sane(m.cb)
      BY <1>7 DEF SaneMsgs
    <2> QED BY <1>7, <2>1, <2>2, ResponseSane DEF Response
  <1> QED BY <1>1, <1>2, <1>3, <1>4, <1>5, <1>6, <1>7 DEF Handle

LEMMA AppendTo ==
  ASSUME NEW U, NEW q \in Seq(U), NEW x \in U
  PROVE  Append(q, x) \in Seq(U)
  OBVIOUS

LEMMA NextSane == TypeOK /\ SaneInv /\ [Next]_vars => SaneInv'
  <1> SUFFICES ASSUME TypeOK, SaneInv, [Next]_vars PROVE SaneInv'
    OBVIOUS
  <1>0. HandledType
    BY TypeSplit
  <1>1. CASE ProcMsg
    <2>1. Head(msgs) \in SaneMsgs /\ Tail(msgs) \in Seq(SaneMsgs)
      BY <1>1 DEF ProcMsg, SaneInv
    <2>2. Adds /\ SaneMaps' /\ pendingMsgs' \in Seq(Aside)
      BY <1>0, <1>1, <2>1, HandleSane DEF ProcMsg, SaneInv
    <2>3. toModem' \in Seq(SaneCmds \cup Opens)
      <3>1. PICK z \in Seq(SaneCmds) : toModem' = toModem \o z
        BY <2>2 DEF Adds
      <3>2. z \in Seq(SaneCmds \cup Opens)
        OBVIOUS
      <3> QED BY <3>1, <3>2 DEF SaneInv
    <2>4. msgs' \in Seq(SaneMsgs)
      <3>1. \A m \in Aside : m \in SaneMsgs
        BY DEF Aside, SaneMsgs
      <3>2. pendingMsgs \in Seq(SaneMsgs)
        BY <3>1 DEF SaneInv
      <3> QED BY <1>1, <2>1, <3>2 DEF ProcMsg
    <2> QED BY <2>2, <2>3, <2>4 DEF SaneInv
  <1>2. CASE LocApiStep
    <2> DEFINE c == Head(toModem)
    <2>1. c \in SaneCmds \cup Opens /\ toModem' \in Seq(SaneCmds \cup Opens)
      BY <1>2 DEF LocApiStep, SaneInv
    <2>2. UNCHANGED <<tb, db, pendingMsgs>>
      BY <1>2 DEF LocApiStep, sessionVars
    <2> HIDE DEF c
    <2>3. CASE c.cmd = "open" /\ Open
      <3>1. [kind |-> "engineUp"] \in SaneMsgs
        BY DEF SaneMsgs, Msg
      <3>2. msgs' \in Seq(SaneMsgs)
        BY <2>3, <3>1, AppendTo DEF Open, SaneInv
      <3> QED BY <2>1, <2>2, <3>2 DEF SaneInv, SaneMaps
    <2>4. ASSUME NEW ok \in BOOLEAN, c.cmd # "open", Execute(c, ok)
          PROVE  SaneInv'
      <3>1. c \in Command /\ Sane(c.cb)
        BY <2>1, <2>4 DEF SaneCmds, Opens
      <3>2. c.cb \in Closure
        BY <2>4, <3>1, CommandFields
      <3>3. [kind |-> "response", ok |-> ok, cb |-> c.cb] \in SaneMsgs
        BY <3>1, <3>2 DEF SaneMsgs, Msg
      <3>4. msgs' \in Seq(SaneMsgs)
        BY <2>4, <3>3, AppendTo DEF Execute, SaneInv
      <3> QED BY <2>1, <2>2, <3>4 DEF SaneInv, SaneMaps
    <2> QED BY <1>2, <2>3, <2>4 DEF LocApiStep, c
  <1>3. CASE handleEngineDownEvent
    <2>1. [cmd |-> "open"] \in SaneCmds \cup Opens
      BY DEF Opens, Command
    <2>2. toModem' \in Seq(SaneCmds \cup Opens)
      BY <1>3, <2>1, AppendTo DEF handleEngineDownEvent, SaneInv
    <2>3. UNCHANGED <<tb, db, pendingMsgs, msgs>>
      BY <1>3 DEF handleEngineDownEvent, sessionVars
    <2> QED BY <2>2, <2>3 DEF SaneInv, SaneMaps
  <1>4. CASE /\ \E m \in Msg : m.kind # "response" /\ msgs' = Append(msgs, m)
             /\ UNCHANGED <<tb, db, pendingMsgs, toModem>>
    <2>1. PICK m \in Msg : m.kind # "response" /\ msgs' = Append(msgs, m)
      BY <1>4
    <2>2. m \in SaneMsgs
      BY <2>1 DEF SaneMsgs
    <2>3. msgs' \in Seq(SaneMsgs)
      BY <2>1, <2>2, AppendTo DEF SaneInv
    <2> QED BY <1>4, <2>3 DEF SaneInv, SaneMaps
  <1>5. ASSUME NEW s \in Sessions, stop(s) PROVE SaneInv'
    <2>1. [kind |-> "stop", s |-> s] \in Msg
      BY DEF Msg
    <2> QED BY <1>4, <1>5, <2>1 DEF stop, send, sessionVars
  <1>6. ASSUME NEW s \in Sessions, NEW o \in Options,
               startTracking(s, o) \/ updateTrackingOptions(s, o)
        PROVE  SaneInv'
    <2>1. /\ [kind |-> "start", s |-> s, o |-> o] \in Msg
          /\ [kind |-> "update", s |-> s, o |-> o] \in Msg
      BY DEF Msg
    <2> QED BY <1>4, <1>6, <2>1 DEF startTracking, updateTrackingOptions, send, sessionVars
  <1>7. ASSUME NEW k \in Clients, removeClient(k) PROVE SaneInv'
    <2>1. [kind |-> "remove", c |-> k] \in Msg
      BY DEF Msg
    <2> QED BY <1>4, <1>7, <2>1 DEF removeClient, sessionVars
  <1>8. CASE UNCHANGED vars
    BY <1>8 DEF vars, sessionVars, SaneInv, SaneMaps
  <1> QED BY <1>1, <1>2, <1>3, <1>5, <1>6, <1>7, <1>8 DEF Next

LEMMA InitSane == Init => SaneInv
  <1> SUFFICES ASSUME Init PROVE SaneInv
    OBVIOUS
  <1>1. SaneMaps
    BY DEF Init, SaneMaps
  <1>2. [cmd |-> "open"] \in SaneCmds \cup Opens
    BY DEF Opens, Command
  <1>3. toModem \in Seq(SaneCmds \cup Opens)
    BY <1>2 DEF Init
  <1> QED BY <1>1, <1>3 DEF Init, SaneInv
-----------------------------------------------------------------------------
(* The modem's fix serves the time based sessions.  The intervals are a    *)
(* question of the last command about the fix that waits for the modem, or *)
(* of the fix itself when there is none.                                   *)
FixCmds == {c \in Command : c.cmd \in {"startFix", "stopFix"}}
Within(n) == {c \in Command : c.cmd = "startFix" /\ c.int <= n}
Serves(q, f, n) == \/ Last(q, FixCmds, Within(n))
                   \/ ~Has(q, FixCmds) /\ f.int \in 1 .. n
AllServed == \A s \in DOMAIN tb : Serves(toModem, fix, tb[s].int)

Ups == {m \in Msg : m.kind = "engineUp"}
Removes == {m \in Msg : m.kind = "remove"}
(* The modem's answers that make the adapter take back new options.        *)
Undone == {m \in Msg : m.kind = "response" /\ ~m.ok /\ m.cb.do = "updateTracking"}

(* The modem is opened once, after it went down.                           *)
OpenInv == /\ Once(toModem, Opens)
           /\ modemUp => ~Has(toModem, Opens)
(* Options are taken back only before a restart of all sessions.           *)
HonestInv == modemUp => ~Has(msgs, Undone) \/ Last(msgs, Undone, Ups)
StayInv == ~Has(msgs, Removes)
ServeInv == modemUp /\ ~Has(msgs, Ups) => AllServed

(* What a handler does to the sessions and the commands about the fix: the *)
(* commands ask for no less than every session it leaves needs.            *)
ServesStill ==
    \/ DOMAIN tb' = {}
    \/ \E z \in Seq(Command \ FixCmds) :
          /\ toModem' = toModem \o z
          /\ \A x \in DOMAIN tb' : \E y \in DOMAIN tb : tb[y].int <= tb'[x].int
    \/ \E z \in Seq(Command \ FixCmds), c \in Command :
          /\ toModem' = Append(toModem, c) \o z
          /\ c.cmd = "startFix" /\ \A x \in DOMAIN tb' : c.int <= tb'[x].int

LEMMA TbNat ==
  ASSUME tb \in SessionMap, NEW x \in DOMAIN tb
  PROVE  x \in Sessions /\ tb[x] \in Options /\ tb[x].int \in Nat \ {0} /\ tb[x].int <= tb[x].int
  <1>1. x \in Sessions /\ tb[x] \in Options
    BY MapType
  <1>2. tb[x].int \in Nat \ {0}
    BY <1>1, IntervalsNat DEF Options
  <1> QED BY <1>1, <1>2

LEMMA StillSame ==
  ASSUME tb \in SessionMap, toModem \in Seq(Command), NEW c \in (Command \ FixCmds) \cup {NoCall},
         call(c), DOMAIN tb' \subseteq DOMAIN tb, \A x \in DOMAIN tb' : tb'[x] = tb[x]
  PROVE  ServesStill
  <1>1. \A x \in DOMAIN tb' : \E y \in DOMAIN tb : tb[y].int <= tb'[x].int
    BY TbNat
  <1>2. CASE c = NoCall
    <2>1. <<>> \in Seq(Command \ FixCmds) /\ toModem \o <<>> = toModem
      OBVIOUS
    <2>2. toModem' = toModem
      BY <1>2 DEF call, queued
    <2> QED BY <1>1, <2>1, <2>2 DEF ServesStill
  <1>3. CASE c # NoCall
    <2>1. c \in Command \ FixCmds
      BY <1>3
    <2>2. <<c>> \in Seq(Command \ FixCmds) /\ toModem \o <<c>> = Append(toModem, c)
      BY <2>1
    <2>3. toModem' = Append(toModem, c)
      BY <1>3 DEF call, queued
    <2> QED BY <1>1, <2>2, <2>3 DEF ServesStill
  <1> QED BY <1>2, <1>3

LEMMA StillStart ==
  ASSUME toModem \in Seq(Command), NEW c \in Command, call(c), c.cmd = "startFix",
         \A x \in DOMAIN tb' : c.int <= tb'[x].int
  PROVE  ServesStill
  <1>1. c # NoCall
    BY NoCallIs
  <1>2. toModem' = Append(toModem, c)
    BY <1>1 DEF call, queued
  <1>3. <<>> \in Seq(Command \ FixCmds) /\ Append(toModem, c) \o <<>> = Append(toModem, c)
    OBVIOUS
  <1> QED BY <1>2, <1>3 DEF ServesStill

LEMMA OtherCalls ==
  ASSUME NEW cb \in Closure
  PROVE  /\ startDistanceBasedTracking(cb) \in Command \ FixCmds
         /\ stopDistanceBasedTracking(cb) \in Command \ FixCmds
  BY CommandTypes DEF startDistanceBasedTracking, stopDistanceBasedTracking, FixCmds

LEMMA StartTimeBasedServes ==
  ASSUME HandledType, NEW s \in Sessions, NEW o \in Options, ~(o.dist /\ DistanceSupported),
         startTimeBased(s, o)
  PROVE  ServesStill
  <1>1. PICK c \in startTimeBasedTrackingMultiplex(s, o) :
           call(c) /\ saveTrackingSession(s, o)
    BY DEF startTimeBased
  <1>2. /\ DOMAIN tb' = DOMAIN tb \cup {s} /\ tb'[s] = o
        /\ \A x \in DOMAIN tb \ {s} : tb'[x] = tb[x]
    BY <1>1 DEF saveTrackingSession, put
  <1>3. CASE c = NoCall /\ \E m \in DOMAIN tb : tb[m].int <= o.int
    <2>1. \A x \in DOMAIN tb' : \E y \in DOMAIN tb : tb[y].int <= tb'[x].int
      BY <1>2, <1>3, TbNat DEF HandledType
    <2>2. toModem' = toModem \o <<>> /\ <<>> \in Seq(Command \ FixCmds)
      BY <1>1, <1>3 DEF call, queued, HandledType
    <2> QED BY <2>1, <2>2 DEF ServesStill
  <1>4. CASE /\ c \in Command /\ c.cmd = "startFix" /\ c.int <= o.int
             /\ \A x \in DOMAIN tb : c.int <= tb[x].int
    <2>1. \A x \in DOMAIN tb' : c.int <= tb'[x].int
      BY <1>2, <1>4
    <2> QED BY <1>1, <1>4, <2>1, StillStart DEF HandledType
  <1> QED BY <1>3, <1>4, StartCalls DEF HandledType

LEMMA StartServes ==
  ASSUME HandledType, NEW s \in Sessions, NEW o \in Options, MsgStartTracking(s, o)
  PROVE  ServesStill
  <1>1. CASE UNCHANGED <<tb, toModem>>
    <2>1. call(NoCall)
      BY <1>1 DEF call, queued
    <2> QED BY <1>1, <2>1, StillSame DEF HandledType
  <1>2. CASE /\ o.dist /\ DistanceSupported /\ saveTrackingSession(s, o)
             /\ call(startDistanceBasedTracking(do("started", s)))
    <2>1. startDistanceBasedTracking(do("started", s)) \in Command \ FixCmds
      BY ClosureTypes, OtherCalls
    <2>2. tb' = tb
      BY <1>2 DEF saveTrackingSession
    <2> QED BY <1>2, <2>1, <2>2, StillSame DEF HandledType
  <1>3. CASE ~(o.dist /\ DistanceSupported) /\ startTimeBased(s, o)
    BY <1>3, StartTimeBasedServes
  <1> QED BY <1>1, <1>2, <1>3 DEF MsgStartTracking

(* A time based session leaves, and its fix goes to the others.            *)
LEMMA LeaveServes ==
  ASSUME tb \in SessionMap, toModem \in Seq(Command), NEW s \in DOMAIN tb,
         NEW c \in stopTimeBasedTrackingMultiplex(s), NEW z \in Seq(Command \ FixCmds),
         toModem' = queued(c) \o z, DOMAIN tb' = DOMAIN tb \ {s}, \A x \in DOMAIN tb' : tb'[x] = tb[x]
  PROVE  ServesStill
  <1>1. CASE c = NoCall
    <2>1. toModem' = toModem \o z
      BY <1>1 DEF queued
    <2>2. \A x \in DOMAIN tb' : \E y \in DOMAIN tb : tb[y].int <= tb'[x].int
      BY TbNat
    <2> QED BY <2>1, <2>2 DEF ServesStill
  <1>2. CASE c \in Command /\ c.cmd = "startFix" /\ \A x \in DOMAIN tb \ {s} : c.int <= tb[x].int
    <2>1. toModem' = Append(toModem, c) \o z
      BY <1>2, NoCallIs DEF queued
    <2> QED BY <1>2, <2>1 DEF ServesStill
  <1>3. CASE DOMAIN tb \ {s} = {}
    BY <1>3 DEF ServesStill
  <1> QED BY <1>1, <1>2, <1>3, StopCalls

LEMMA UpdateServes ==
  ASSUME DistanceSupported, HandledType, NEW s \in Sessions, NEW o \in Options,
         MsgUpdateTracking(s, o)
  PROVE  ServesStill
  <1>1. CASE UNCHANGED <<tb, toModem>>
    <2>1. call(NoCall)
      BY <1>1 DEF call, queued
    <2> QED BY <1>1, <2>1, StillSame DEF HandledType
  <1>2. CASE isTimeBasedTrackingSession(s) /\ timeToDistance(s, o)
    <2> DEFINE d == startDistanceBasedTracking(do("none", s))
    <2>1. s \in DOMAIN tb
      BY <1>2 DEF isTimeBasedTrackingSession
    <2>2. PICK c \in stopTimeBasedTrackingMultiplex(s) :
             toModem' = Append(queued(c), d) /\ tb' = Restrict(tb, DOMAIN tb \ {s})
      BY <1>2 DEF timeToDistance
    <2>3. d \in Command \ FixCmds
      BY ClosureTypes, OtherCalls
    <2> HIDE DEF d
    <2>4. queued(c) \in Seq(Command)
      BY <2>1, StopCalls, QueuedType DEF HandledType
    <2>5. toModem' = queued(c) \o <<d>> /\ <<d>> \in Seq(Command \ FixCmds)
      BY <2>2, <2>3, <2>4
    <2>6. DOMAIN tb' = DOMAIN tb \ {s} /\ \A x \in DOMAIN tb' : tb'[x] = tb[x]
      BY <2>2 DEF Restrict
    <2> QED BY <2>1, <2>5, <2>6, LeaveServes DEF HandledType
  <1>3. CASE /\ eraseTrackingSession(s)
             /\ call(stopDistanceBasedTracking(doWith("distanceToTime", s, o)))
    <2>1. stopDistanceBasedTracking(doWith("distanceToTime", s, o)) \in Command \ FixCmds
      BY ClosureTypes, OtherCalls
    <2>2. DOMAIN tb' \subseteq DOMAIN tb /\ \A x \in DOMAIN tb' : tb'[x] = tb[x]
      BY <1>3, EraseType DEF HandledType
    <2> QED BY <1>3, <2>1, <2>2, StillSame DEF HandledType
  <1>4. CASE /\ isTimeBasedTrackingSession(s) /\ ~o.dist
             /\ \E c \in updateTrackingMultiplex(s, o) : call(c) /\ saveTrackingSession(s, o)
    <2>1. s \in DOMAIN tb
      BY <1>4 DEF isTimeBasedTrackingSession
    <2>2. PICK c \in updateTrackingMultiplex(s, o) : call(c) /\ saveTrackingSession(s, o)
      BY <1>4
    <2>3. /\ DOMAIN tb' = DOMAIN tb \cup {s} /\ tb'[s] = o
          /\ \A x \in DOMAIN tb \ {s} : tb'[x] = tb[x]
      BY <1>4, <2>2 DEF saveTrackingSession, put
    <2>4. CASE c = NoCall /\ \E m \in DOMAIN tb : tb[m].int <= o.int
      <3>1. \A x \in DOMAIN tb' : \E y \in DOMAIN tb : tb[y].int <= tb'[x].int
        BY <2>3, <2>4, TbNat DEF HandledType
      <3>2. toModem' = toModem \o <<>> /\ <<>> \in Seq(Command \ FixCmds)
        BY <2>2, <2>4 DEF call, queued, HandledType
      <3> QED BY <3>1, <3>2 DEF ServesStill
    <2>5. CASE /\ c \in Command /\ c.cmd = "startFix" /\ c.int <= o.int
               /\ \A x \in DOMAIN tb \ {s} : c.int <= tb[x].int
      <3>1. \A x \in DOMAIN tb' : c.int <= tb'[x].int
        BY <2>3, <2>5
      <3> QED BY <2>2, <2>5, <3>1, StillStart DEF HandledType
    <2> QED BY <2>1, <2>4, <2>5, UpdateCalls DEF HandledType
  <1>5. CASE /\ call(stopDistanceBasedTracking(doWith("restartDistance", s, o)))
             /\ UNCHANGED <<tb, db>>
    <2>1. stopDistanceBasedTracking(doWith("restartDistance", s, o)) \in Command \ FixCmds
      BY ClosureTypes, OtherCalls
    <2> QED BY <1>5, <2>1, StillSame DEF HandledType
  <1> QED BY <1>1, <1>2, <1>3, <1>4, <1>5 DEF MsgUpdateTracking

LEMMA StopServes ==
  ASSUME HandledType, NEW s \in Sessions, MsgStopTracking(s)
  PROVE  ServesStill
  <1>1. CASE /\ isTimeBasedTrackingSession(s)
             /\ \E c \in stopTimeBasedTrackingMultiplex(s) : call(c) /\ eraseTrackingSession(s)
    <2>1. s \in DOMAIN tb
      BY <1>1 DEF isTimeBasedTrackingSession
    <2>2. PICK c \in stopTimeBasedTrackingMultiplex(s) : call(c) /\ eraseTrackingSession(s)
      BY <1>1
    <2>3. queued(c) \in Seq(Command)
      BY <2>1, StopCalls, QueuedType DEF HandledType
    <2>4. toModem' = queued(c) \o <<>> /\ <<>> \in Seq(Command \ FixCmds)
      BY <2>2, <2>3 DEF call
    <2>5. DOMAIN tb' = DOMAIN tb \ {s} /\ \A x \in DOMAIN tb' : tb'[x] = tb[x]
      BY <2>1, <2>2, EraseType DEF HandledType
    <2> QED BY <2>1, <2>4, <2>5, LeaveServes DEF HandledType
  <1>2. CASE call(stopDistanceBasedTracking(do("stopDistance", s))) /\ UNCHANGED <<tb, db>>
    <2>1. stopDistanceBasedTracking(do("stopDistance", s)) \in Command \ FixCmds
      BY ClosureTypes, OtherCalls
    <2> QED BY <1>2, <2>1, StillSame DEF HandledType
  <1>3. CASE UNCHANGED <<tb, toModem>>
    <2>1. call(NoCall)
      BY <1>3 DEF call, queued
    <2> QED BY <1>3, <2>1, StillSame DEF HandledType
  <1> QED BY <1>1, <1>2, <1>3 DEF MsgStopTracking

LEMMA ResponseServes ==
  ASSUME HandledType, NEW ok \in BOOLEAN, NEW cb \in Closure, Sane(cb),
         ok \/ cb.do # "updateTracking", Response(ok, cb)
  PROVE  ServesStill
  <1> DEFINE s == cb.s
  <1>1. s \in Sessions
    BY ClosureFields
  <1>2. cb.do \in {"updateTracking", "distanceToTime", "restartDistance", "restarted"}
          => cb.o \in Options
    BY ClosureFields
  <1> HIDE DEF s
  <1>3. ASSUME UNCHANGED toModem, UNCHANGED tb \/ eraseTrackingSession(s)
        PROVE  ServesStill
    <2>1. call(NoCall)
      BY <1>3 DEF call, queued
    <2>2. DOMAIN tb' \subseteq DOMAIN tb /\ \A x \in DOMAIN tb' : tb'[x] = tb[x]
      BY <1>3, EraseType DEF HandledType
    <2> QED BY <2>1, <2>2, StillSame DEF HandledType
  <1>4. CASE cb.do \in {"started", "stopTracking", "stopDistance", "clientGone", "updateTracking"}
    <2>1. UNCHANGED toModem /\ (UNCHANGED tb \/ eraseTrackingSession(s))
      BY <1>4 DEF Response, s
    <2> QED BY <1>3, <2>1
  <1>5. CASE cb.do = "distanceToTime"
    BY <1>1, <1>2, <1>5, StartTimeBasedServes DEF Response, s, Sane
  <1>6. CASE cb.do = "restartDistance"
    <2> DEFINE c == startDistanceBasedTracking(doWith("restarted", s, cb.o))
    <2>1. c \in Command \ FixCmds
      BY <1>1, <1>2, <1>6, ClosureTypes, OtherCalls
    <2>2. tb' = tb /\ (call(c) \/ UNCHANGED toModem)
      BY <1>6 DEF Response, s
    <2> HIDE DEF c
    <2> QED BY <1>3, <2>1, <2>2, StillSame DEF HandledType
  <1>7. CASE cb.do = "restarted"
    <2>1. UNCHANGED toModem /\ (UNCHANGED tb \/ saveTrackingSession(s, cb.o))
      BY <1>7 DEF Response, s
    <2>2. saveTrackingSession(s, cb.o) => UNCHANGED tb
      BY <1>7 DEF saveTrackingSession, Sane
    <2> QED BY <1>3, <2>1, <2>2
  <1> QED BY <1>4, <1>5, <1>6, <1>7 DEF Response

LEMMA HandleServes ==
  ASSUME DistanceSupported, HandledType, NEW m \in SaneMsgs, m \notin Removes, m \notin Ups,
         m \notin Undone, Handle(m)
  PROVE  ServesStill
  <1>0. m \in Msg /\ m.kind # "remove" /\ m.kind # "engineUp"
    BY DEF SaneMsgs, Removes, Ups
  <1>1. CASE m.kind \in {"start", "update"} /\ putAside(m)
    <2>1. UNCHANGED <<tb, toModem>>
      BY <1>1 DEF putAside, sessionVars
    <2>2. call(NoCall)
      BY <2>1 DEF call, queued
    <2> QED BY <2>1, <2>2, StillSame DEF HandledType
  <1>2. CASE m.kind = "start" /\ MsgStartTracking(m.s, m.o)
    <2>1. m.s \in Sessions /\ m.o \in Options
      BY <1>0, <1>2, MsgFields
    <2> QED BY <1>2, <2>1, StartServes
  <1>3. CASE m.kind = "update" /\ MsgUpdateTracking(m.s, m.o)
    <2>1. m.s \in Sessions /\ m.o \in Options
      BY <1>0, <1>3, MsgFields
    <2> QED BY <1>3, <2>1, UpdateServes
  <1>4. CASE m.kind = "stop" /\ MsgStopTracking(m.s)
    <2>1. m.s \in Sessions
      BY <1>0, <1>4, MsgFields
    <2> QED BY <1>4, <2>1, StopServes
  <1>5. CASE m.kind = "response" /\ Response(m.ok, m.cb)
    <2>1. m.ok \in BOOLEAN /\ m.cb \in Closure
      BY <1>0, <1>5, MsgFields
    <2>2. Sane(m.cb) /\ (m.ok \/ m.cb.do # "updateTracking")
      BY <1>0, <1>5 DEF SaneMsgs, Undone
    <2> QED BY <1>5, <2>1, <2>2, ResponseServes
  <1> QED BY <1>0, <1>1, <1>2, <1>3, <1>4, <1>5 DEF Handle

(* A fix that is frequent enough for one session is for a slower one.      *)
LEMMA ServesMore ==
  ASSUME NEW q, NEW f, NEW m \in Nat, NEW n \in Nat, m <= n, Serves(q, f, m), f.int \in Nat
  PROVE  Serves(q, f, n)
  <1>1. \A c \in Command : c.cmd = "startFix" => c.int \in Nat
    BY CommandFields, IntervalsNat
  <1>2. Within(m) \subseteq Within(n)
    <2> SUFFICES ASSUME NEW c \in Command, c.cmd = "startFix", c.int <= m
                 PROVE  c.int <= n
      BY DEF Within
    <2>1. c.int \in Nat
      BY <1>1
    <2> QED BY <2>1
  <1>3. Last(q, FixCmds, Within(m)) => Last(q, FixCmds, Within(n))
    BY <1>2, LastMore
  <1>4. f.int \in 1 .. m => f.int \in 1 .. n
    OBVIOUS
  <1> QED BY <1>3, <1>4 DEF Serves

LEMMA FixInt ==
  ASSUME TypeOK
  PROVE  fix.int \in Nat
  <1>1. fix \in [int : Intervals, power : Powers] => fix.int \in Nat
    BY IntervalsNat
  <1>2. fix = Off => fix.int \in Nat
    BY DEF Off
  <1> QED BY <1>1, <1>2 DEF TypeOK

LEMMA OthersHave ==
  ASSUME NEW z \in Seq(Command \ FixCmds)
  PROVE  ~Has(z, FixCmds) /\ z \in Seq(Command)
  BY HasIn

LEMMA ServesLater ==
  ASSUME NEW q \in Seq(Command), NEW f, NEW n, Serves(q, f, n), NEW z \in Seq(Command \ FixCmds)
  PROVE  Serves(q \o z, f, n)
  <1>1. ~Has(z, FixCmds) /\ z \in Seq(Command)
    BY OthersHave
  <1>2. Last(q, FixCmds, Within(n)) => Last(q \o z, FixCmds, Within(n))
    BY <1>1, ConcatLast
  <1>3. Has(q \o z, FixCmds) => Has(q, FixCmds)
    BY <1>1, ConcatHas
  <1> QED BY <1>2, <1>3 DEF Serves

LEMMA ServesNow ==
  ASSUME NEW q \in Seq(Command), NEW f, NEW n, NEW c \in Command, c.cmd = "startFix", c.int <= n,
         NEW z \in Seq(Command \ FixCmds)
  PROVE  Serves(Append(q, c) \o z, f, n)
  <1>1. ~Has(z, FixCmds) /\ z \in Seq(Command)
    BY OthersHave
  <1>2. c \in Within(n)
    BY DEF Within
  <1>3. Last(Append(q, c), FixCmds, Within(n)) /\ Append(q, c) \in Seq(Command)
    BY <1>2, AppendLast, AppendTo
  <1>4. Last(Append(q, c) \o z, FixCmds, Within(n))
    BY <1>1, <1>3, ConcatLast
  <1> QED BY <1>4 DEF Serves

LEMMA ServesKept ==
  ASSUME TypeOK, TypeOK', fix' = fix, ServesStill, AllServed
  PROVE  AllServed'
  <1>1. toModem \in Seq(Command) /\ tb \in SessionMap /\ tb' \in SessionMap
    BY DEF TypeOK
  <1>2. fix.int \in Nat
    BY FixInt
  <1> SUFFICES ASSUME NEW x \in DOMAIN tb'
               PROVE  Serves(toModem', fix', tb'[x].int)
    BY DEF AllServed
  <1>3. ASSUME NEW z \in Seq(Command \ FixCmds), toModem' = toModem \o z,
               NEW y \in DOMAIN tb, tb[y].int <= tb'[x].int
        PROVE  Serves(toModem', fix', tb'[x].int)
    <2>1. tb[y].int \in Nat
      BY <1>1, TbNat
    <2>2. tb'[x].int \in Nat
      BY <1>1, MapType, IntervalsNat DEF Options
    <2>3. Serves(toModem, fix, tb[y].int)
      BY DEF AllServed
    <2>4. Serves(toModem, fix, tb'[x].int)
      BY <1>2, <1>3, <2>1, <2>2, <2>3, ServesMore
    <2> QED BY <1>1, <1>3, <2>4, ServesLater
  <1>4. ASSUME NEW z \in Seq(Command \ FixCmds), NEW c \in Command,
               toModem' = Append(toModem, c) \o z, c.cmd = "startFix", c.int <= tb'[x].int
        PROVE  Serves(toModem', fix', tb'[x].int)
    BY <1>1, <1>4, ServesNow
  <1> QED BY <1>3, <1>4 DEF ServesStill

(* restartSessions asks anew for the smallest interval.                    *)
LEMMA EngineUpServes ==
  ASSUME TypeOK, TypeOK', fix' = fix, MsgHandleEngineUpEvent
  PROVE  AllServed'
  <1>1. HandledType
    BY TypeSplit
  <1>2. PICK a \in Seq(Command), b \in Seq(Command) :
            /\ toModem' = (toModem \o a) \o b
            /\ \/ DOMAIN tb = {}
               \/ \E c \in Command :
                     /\ a = <<c>> /\ c.cmd = "startFix"
                     /\ \A s \in DOMAIN tb : c.int <= tb[s].int
            /\ \A i \in 1 .. Len(b) : \E s \in DOMAIN db :
                  b[i] = startDistanceBasedTracking(do("none", s))
    BY <1>1, RestartCalls DEF MsgHandleEngineUpEvent
  <1>3. tb' = tb
    BY DEF MsgHandleEngineUpEvent, sessionVars
  <1>4. \A s \in DOMAIN db : startDistanceBasedTracking(do("none", s)) \in Command \ FixCmds
    BY <1>1, MapType, ClosureTypes, OtherCalls DEF HandledType
  <1>5. b \in Seq(Command \ FixCmds)
    <2>1. ASSUME NEW i \in 1 .. Len(b) PROVE b[i] \in Command \ FixCmds
      BY <1>2, <1>4
    <2> QED BY <2>1
  <1>6. CASE DOMAIN tb = {}
    BY <1>3, <1>6 DEF AllServed
  <1>7. ASSUME NEW c \in Command, a = <<c>>, c.cmd = "startFix",
               \A s \in DOMAIN tb : c.int <= tb[s].int
        PROVE  AllServed'
    <2>1. toModem' = Append(toModem, c) \o b
      BY <1>1, <1>2, <1>7 DEF HandledType
    <2>2. \A s \in DOMAIN tb' : Serves(toModem', fix', tb'[s].int)
      BY <1>1, <1>3, <1>5, <1>7, <2>1, ServesNow DEF HandledType
    <2> QED BY <2>2 DEF AllServed
  <1> QED BY <1>2, <1>6, <1>7

LEMMA SaneApart ==
  /\ SaneCmds \cap Opens = {} /\ SaneCmds \subseteq Command /\ Opens \subseteq Command
  /\ SaneMsgs \subseteq Msg /\ Aside \subseteq SaneMsgs
  /\ Aside \cap (Ups \cup Removes \cup Undone) = {}
  /\ Ups \cap Undone = {}
  BY DEF SaneCmds, Opens, SaneMsgs, Aside, Ups, Removes, Undone

LEMMA AddsOpens ==
  ASSUME toModem \in Seq(Command), Adds
  PROVE  /\ Has(toModem', Opens) <=> Has(toModem, Opens)
         /\ Once(toModem, Opens) => Once(toModem', Opens)
  <1>1. PICK z \in Seq(SaneCmds) : toModem' = toModem \o z
    BY DEF Adds
  <1>2. z \in Seq(Command) /\ ~Has(z, Opens)
    BY SaneApart, HasIn
  <1>3. Once(z, Opens)
    BY <1>2 DEF Once, Has
  <1> QED BY <1>1, <1>2, <1>3, ConcatHas, ConcatOnce

ServeAll == OpenInv /\ HonestInv /\ StayInv /\ ServeInv

(* The hypotheses of the theorem on the fix.                               *)
Faithful == DistanceSupported /\ MayRemove = {} /\ "startFix" \notin MayFail

LEMMA ProcMsgServes ==
  ASSUME Faithful, TypeOK, TypeOK', SaneInv, ServeAll, ProcMsg
  PROVE  ServeAll'
  <1> DEFINE m == Head(msgs)
             t == Tail(msgs)
  <1>1. HandledType /\ msgs \in Seq(Msg) /\ toModem \in Seq(Command) /\ pendingMsgs \in Seq(Msg)
    BY TypeSplit DEF TypeOK
  <1>2. msgs # <<>> /\ Handle(m) /\ UNCHANGED <<modemUp, fix>>
    BY DEF ProcMsg, modemVars
  <1>3. msgs' = IF m.kind = "engineUp" THEN t \o pendingMsgs ELSE t
    BY DEF ProcMsg
  <1>4. m \in SaneMsgs /\ m \in Msg /\ t \in Seq(Msg)
    BY <1>1, <1>2, SaneApart DEF SaneInv
  <1>5. ~Has(pendingMsgs, Ups) /\ ~Has(pendingMsgs, Removes) /\ ~Has(pendingMsgs, Undone)
    <2>1. pendingMsgs \in Seq(Aside)
      BY DEF SaneInv
    <2>2. \A X : X \cap Aside = {} => ~Has(pendingMsgs, X)
      BY <2>1, HasIn
    <2> QED BY <2>2, SaneApart
  <1>6. \A X : Has(msgs, X) <=> m \in X \/ Has(t, X)
    BY <1>1, <1>2, TailHas
  <1>7. \A X : Has(t \o pendingMsgs, X) <=> Has(t, X) \/ Has(pendingMsgs, X)
    BY <1>1, <1>4, ConcatHas
  <1>8. /\ Has(msgs', Ups) <=> Has(t, Ups)
        /\ Has(msgs', Removes) <=> Has(t, Removes)
        /\ Has(msgs', Undone) <=> Has(t, Undone)
    BY <1>3, <1>5, <1>7
  <1>9. m \in Ups <=> m.kind = "engineUp"
    BY <1>4 DEF Ups
  <1>10. Adds
    BY <1>1, <1>2, <1>4, HandleSane DEF SaneInv
  <1>11. OpenInv'
    BY <1>1, <1>2, <1>10, AddsOpens DEF ServeAll, OpenInv
  <1>12. StayInv'
    BY <1>6, <1>8 DEF ServeAll, StayInv
  <1>13. HonestInv'
    <2> SUFFICES ASSUME modemUp, Has(t, Undone)
                 PROVE  Last(msgs', Undone, Ups)
      BY <1>2, <1>8 DEF HonestInv
    <2>1. Last(msgs, Undone, Ups)
      BY <1>6 DEF ServeAll, HonestInv
    <2>2. Last(t, Undone, Ups)
      BY <1>1, <1>2, <2>1, TailLast
    <2>3. Last(t \o pendingMsgs, Undone, Ups)
      BY <1>1, <1>4, <1>5, <2>2, ConcatLast
    <2> QED BY <1>3, <2>2, <2>3
  <1>14. ServeInv'
    <2> SUFFICES ASSUME modemUp, ~Has(t, Ups)
                 PROVE  AllServed'
      BY <1>2, <1>8 DEF ServeInv
    <2>1. CASE m.kind = "engineUp"
      <3>1. MsgHandleEngineUpEvent
        BY <1>2, <2>1 DEF Handle
      <3> QED BY <1>2, <3>1, EngineUpServes
    <2>2. CASE m.kind # "engineUp"
      <3>1. ~Has(msgs, Ups)
        BY <1>6, <1>9, <2>2
      <3>2. AllServed
        BY <3>1 DEF ServeAll, ServeInv
      <3>3. ~Last(msgs, Undone, Ups)
        BY <3>1, LastHas
      <3>4. ~Has(msgs, Undone)
        BY <3>3 DEF ServeAll, HonestInv
      <3>5. m \notin Undone /\ m \notin Ups /\ m \notin Removes
        BY <1>6, <3>1, <3>4 DEF ServeAll, StayInv
      <3>6. ServesStill
        BY <1>1, <1>2, <1>4, <3>5, HandleServes DEF Faithful
      <3> QED BY <1>2, <3>2, <3>6, ServesKept
    <2> QED BY <2>1, <2>2
  <1> QED BY <1>11, <1>12, <1>13, <1>14 DEF ServeAll

LEMMA ExecuteServes ==
  ASSUME Faithful, TypeOK, modemUp, NEW c \in Command, c.cmd # "open", toModem # <<>>,
         c = Head(toModem), toModem' = Tail(toModem), NEW ok \in BOOLEAN, Execute(c, ok),
         NEW n \in Nat \ {0}, Serves(toModem, fix, n)
  PROVE  Serves(toModem', fix', n)
  <1>1. toModem \in Seq(Command)
    BY DEF TypeOK
  <1>2. c.cmd = "startFix" => ok
    BY DEF Execute, Faithful
  <1>3. CASE ~Has(toModem, FixCmds) /\ fix.int \in 1 .. n
    <2>1. c \notin FixCmds /\ ~Has(toModem', FixCmds)
      BY <1>1, <1>3, TailHas
    <2>2. fix' = fix
      BY <2>1 DEF Execute, FixCmds
    <2> QED BY <1>3, <2>1, <2>2 DEF Serves
  <1>4. CASE Last(toModem', FixCmds, Within(n))
    BY <1>4 DEF Serves
  <1>5. CASE c \in Within(n) /\ ~Has(toModem', FixCmds)
    <2>1. c.cmd = "startFix" /\ c.int <= n
      BY <1>5 DEF Within
    <2>2. c.int \in Nat \ {0}
      BY <2>1, CommandFields, IntervalsNat
    <2>3. fix' = [int |-> c.int, power |-> c.power]
      BY <1>2, <2>1 DEF Execute
    <2>4. fix'.int \in 1 .. n
      BY <2>1, <2>2, <2>3
    <2> QED BY <1>5, <2>4 DEF Serves
  <1> QED BY <1>1, <1>3, <1>4, <1>5, TailLast DEF Serves

LEMMA LocApiServes ==
  ASSUME Faithful, TypeOK, SaneInv, ServeAll, LocApiStep
  PROVE  ServeAll'
  <1> DEFINE c == Head(toModem)
  <1>1. toModem \in Seq(Command) /\ msgs \in Seq(Msg) /\ tb \in SessionMap
    BY DEF TypeOK
  <1>2. toModem # <<>> /\ toModem' = Tail(toModem) /\ tb' = tb
    BY DEF LocApiStep, sessionVars
  <1>3. c \in Command /\ c \in SaneCmds \cup Opens
    BY <1>1, <1>2 DEF SaneInv
  <1>4. /\ Once(toModem', Opens) /\ (c \in Opens => ~Has(toModem', Opens))
        /\ Has(toModem, Opens) <=> c \in Opens \/ Has(toModem', Opens)
    BY <1>1, <1>2, TailOnce, TailHas DEF ServeAll, OpenInv
  <1> HIDE DEF c
  <1>5. CASE c.cmd = "open" /\ Open
    <2>1. c \in Opens /\ ~Has(toModem', Opens) /\ ~modemUp
      BY <1>3, <1>4, <1>5 DEF Opens, ServeAll, OpenInv
    <2>2. CASE modemUp' = TRUE /\ msgs' = Append(msgs, [kind |-> "engineUp"])
      <3> DEFINE m == [kind |-> "engineUp"]
      <3>1. m \in Ups /\ m \notin Removes
        BY DEF Ups, Removes, Msg
      <3> HIDE DEF m
      <3>2. /\ \A X : Has(msgs', X) <=> Has(msgs, X) \/ m \in X
            /\ Last(msgs', Undone, Ups)
        BY <1>1, <2>2, <3>1, AppendHas, AppendLast DEF m
      <3> QED BY <1>4, <2>1, <3>1, <3>2 DEF ServeAll, OpenInv, HonestInv, StayInv, ServeInv
    <2>3. CASE UNCHANGED <<modemUp, msgs>>
      BY <1>4, <2>1, <2>3 DEF ServeAll, OpenInv, HonestInv, StayInv, ServeInv
    <2> QED BY <1>5, <2>2, <2>3 DEF Open
  <1>6. ASSUME NEW ok \in BOOLEAN, c.cmd # "open", Execute(c, ok)
        PROVE  ServeAll'
    <2> DEFINE m == [kind |-> "response", ok |-> ok, cb |-> c.cb]
    <2>1. modemUp' = modemUp /\ (msgs' = msgs \/ msgs' = Append(msgs, m))
      BY <1>6 DEF Execute
    <2>2. m \notin Ups /\ m \notin Removes
      BY DEF Ups, Removes
    <2>3. m \in Undone => ~modemUp
      <3>1. c \in SaneCmds
        BY <1>3, <1>6 DEF Opens
      <3>2. m \in Undone => ~ok /\ c.cmd = "startFix"
        BY <3>1 DEF Undone, SaneCmds
      <3> QED BY <1>6, <3>2 DEF Execute, Faithful
    <2> HIDE DEF m
    <2>4. /\ Has(msgs', Ups) <=> Has(msgs, Ups)
          /\ Has(msgs', Removes) <=> Has(msgs, Removes)
          /\ modemUp => (Has(msgs', Undone) <=> Has(msgs, Undone))
      <3>1. \A X : Has(Append(msgs, m), X) <=> Has(msgs, X) \/ m \in X
        BY <1>1, AppendHas
      <3> QED BY <2>1, <2>2, <2>3, <3>1
    <2>5. HonestInv'
      <3>1. modemUp /\ Last(msgs, Undone, Ups) => Last(msgs', Undone, Ups)
        <4>1. m \notin Undone /\ Last(msgs, Undone, Ups) => Last(Append(msgs, m), Undone, Ups)
          BY <1>1, AppendLast
        <4> QED BY <2>1, <2>3, <4>1
      <3> QED BY <2>1, <2>4, <3>1 DEF ServeAll, HonestInv
    <2>6. ServeInv'
      <3> SUFFICES ASSUME modemUp, ~Has(msgs, Ups)
                   PROVE  AllServed'
        BY <2>1, <2>4 DEF ServeInv
      <3> SUFFICES ASSUME NEW s \in DOMAIN tb
                   PROVE  Serves(toModem', fix', tb[s].int)
        BY <1>2 DEF AllServed
      <3>1. Serves(toModem, fix, tb[s].int)
        BY DEF ServeAll, ServeInv, AllServed
      <3>2. tb[s].int \in Nat \ {0}
        BY <1>1, TbNat
      <3> QED BY <1>2, <1>3, <1>6, <3>1, <3>2, ExecuteServes DEF c
    <2> QED BY <1>4, <2>1, <2>4, <2>5, <2>6 DEF ServeAll, OpenInv, StayInv
  <1> QED BY <1>5, <1>6 DEF LocApiStep, c

LEMMA DownServes ==
  ASSUME TypeOK, ServeAll, handleEngineDownEvent
  PROVE  ServeAll'
  <1> DEFINE c == [cmd |-> "open"]
  <1>1. modemUp /\ modemUp' = FALSE /\ msgs' = msgs /\ toModem' = Append(toModem, c)
    BY DEF handleEngineDownEvent
  <1>2. Once(toModem', Opens)
    BY <1>1, AppendOnce DEF ServeAll, OpenInv, TypeOK
  <1> QED BY <1>1, <1>2 DEF ServeAll, OpenInv, HonestInv, StayInv, ServeInv

LEMMA SendServes ==
  ASSUME TypeOK, ServeAll, NEW m \in Msg, m.kind \in {"start", "update", "stop"},
         msgs' = Append(msgs, m), UNCHANGED <<toModem, modemUp, tb, fix>>
  PROVE  ServeAll'
  <1>1. m \notin Ups /\ m \notin Removes /\ m \notin Undone
    BY DEF Ups, Removes, Undone
  <1>2. /\ Has(msgs', Ups) <=> Has(msgs, Ups)
        /\ Has(msgs', Removes) <=> Has(msgs, Removes)
        /\ Has(msgs', Undone) <=> Has(msgs, Undone)
    BY <1>1, AppendHas DEF TypeOK
  <1>3. Last(msgs, Undone, Ups) => Last(msgs', Undone, Ups)
    BY <1>1, AppendLast DEF TypeOK
  <1> QED BY <1>2, <1>3 DEF ServeAll, OpenInv, HonestInv, StayInv, ServeInv, AllServed

LEMMA NextServes ==
  ASSUME Faithful
  PROVE  TypeOK /\ TypeOK' /\ SaneInv /\ ServeAll /\ [Next]_vars => ServeAll'
  <1> SUFFICES ASSUME TypeOK, TypeOK', SaneInv, ServeAll, [Next]_vars PROVE ServeAll'
    OBVIOUS
  <1>1. CASE ProcMsg
    BY <1>1, ProcMsgServes
  <1>2. CASE LocApiStep
    BY <1>2, LocApiServes
  <1>3. CASE handleEngineDownEvent
    BY <1>3, DownServes
  <1>4. ASSUME NEW s \in Sessions, stop(s) PROVE ServeAll'
    <2>1. [kind |-> "stop", s |-> s] \in Msg
      BY DEF Msg
    <2> QED BY <1>4, <2>1, SendServes DEF stop, send, sessionVars, modemVars
  <1>5. ASSUME NEW s \in Sessions, NEW o \in Options,
               startTracking(s, o) \/ updateTrackingOptions(s, o)
        PROVE  ServeAll'
    <2>1. /\ [kind |-> "start", s |-> s, o |-> o] \in Msg
          /\ [kind |-> "update", s |-> s, o |-> o] \in Msg
      BY DEF Msg
    <2> QED BY <1>5, <2>1, SendServes
            DEF startTracking, updateTrackingOptions, send, sessionVars, modemVars
  <1>6. ASSUME NEW k \in Clients, removeClient(k) PROVE ServeAll'
    BY <1>6 DEF removeClient, Faithful
  <1>7. CASE UNCHANGED vars
    BY <1>7 DEF vars, sessionVars, modemVars, ServeAll, OpenInv, HonestInv, StayInv, ServeInv,
                AllServed
  <1> QED BY <1>1, <1>2, <1>3, <1>4, <1>5, <1>6, <1>7 DEF Next

LEMMA InitServes == Init => ServeAll
  <1> SUFFICES ASSUME Init PROVE ServeAll
    OBVIOUS
  <1>1. \A X : ~Has(msgs, X)
    BY EmptyHas DEF Init
  <1>2. Once(toModem, Opens)
    BY DEF Init, Once
  <1> QED BY <1>1, <1>2 DEF Init, ServeAll, OpenInv, HonestInv, StayInv, ServeInv

LEMMA ServesQuiet == TypeOK /\ ServeAll => FixServesAll
  <1> SUFFICES ASSUME TypeOK, ServeAll, Quiet, NEW s \in DOMAIN tb
               PROVE  fix # Off /\ fix.int <= tb[s].int
    BY DEF FixServesAll
  <1>1. \A X : ~Has(msgs, X) /\ ~Has(toModem, X)
    BY EmptyHas DEF Quiet
  <1>2. Serves(toModem, fix, tb[s].int)
    BY <1>1 DEF ServeAll, ServeInv, AllServed, Quiet
  <1>3. fix.int \in 1 .. tb[s].int
    BY <1>1, <1>2, LastHas DEF Serves
  <1>4. tb[s].int \in Nat
    BY TbNat DEF TypeOK
  <1> QED BY <1>3, <1>4 DEF Off

(* The modem's fix is at least as frequent as each time based session asks,*)
(* once everything in flight has been handled: with a modem that knows     *)
(* distance based tracking and obeys each start of the fix while it is up, *)
(* and while no client goes.  It may restart, and commands may overlap.    *)
THEOREM FixServes ==
  ASSUME Faithful
  PROVE  Spec => []FixServesAll
  <1>1. Init => TypeOK /\ SaneInv /\ ServeAll
    BY InitType, InitSane, InitServes
  <1>2. TypeOK /\ SaneInv /\ ServeAll /\ [Next]_vars => (TypeOK /\ SaneInv /\ ServeAll)'
    BY NextType, NextSane, NextServes
  <1> QED BY <1>1, <1>2, ServesQuiet, PTL DEF Spec

-----------------------------------------------------------------------------
(* The command of a client in flight.  While the client waits for the      *)
(* answer before the next command for a session, at most one place holds a *)
(* message or a modem command about it, and the options and the session    *)
(* maps fit that message.                                                  *)
MsgsOf(s) == {m \in Msg : \/ m.kind \in {"start", "update", "stop"} /\ m.s = s
                          \/ m.kind = "response" /\ m.cb.s = s}
CmdsOf(s) == {c \in Command : c.cmd # "open" /\ c.cb.do # "none" /\ c.cb.s = s}
InFlight(s) == Has(msgs, MsgsOf(s)) \/ Has(pendingMsgs, MsgsOf(s)) \/ Has(toModem, CmdsOf(s))
Gone(s) == s \notin DOMAIN tb \cup DOMAIN db

(* What holds of a session when the modem's answer to its command comes.   *)
ClosureOk(cb, s) ==
    /\ cb.do # "clientGone"
    /\ cb.do = "distanceToTime" => Gone(s) /\ req[s] # "stop"
    /\ cb.do \in {"restartDistance", "restarted"} =>
          s \notin DOMAIN tb /\ s \in DOMAIN db /\ req[s] # "stop"
    /\ cb.do = "updateTracking" => s \notin DOMAIN db /\ req[s] # "stop"
    /\ cb.do \in {"started", "stopTracking"} /\ req[s] = "stop" => Gone(s)
    /\ cb.do = "stopDistance" => s \notin DOMAIN tb
MsgOk(m, s) ==
    /\ m.kind = "start" => Gone(s)
    /\ m.kind \in {"start", "update"} => req[s] # "stop"
    /\ m.kind = "response" => ClosureOk(m.cb, s)
BadMsgs(s) == {m \in MsgsOf(s) : ~MsgOk(m, s)}
BadCmds(s) == {c \in CmdsOf(s) : ~ClosureOk(c.cb, s)}

Flight(s) ==
    /\ Once(msgs, MsgsOf(s)) /\ Once(pendingMsgs, MsgsOf(s)) /\ Once(toModem, CmdsOf(s))
    /\ ~(Has(msgs, MsgsOf(s)) /\ Has(pendingMsgs, MsgsOf(s)))
    /\ ~(Has(msgs, MsgsOf(s)) /\ Has(toModem, CmdsOf(s)))
    /\ ~(Has(pendingMsgs, MsgsOf(s)) /\ Has(toModem, CmdsOf(s)))
    /\ ~Has(msgs, BadMsgs(s)) /\ ~Has(pendingMsgs, BadMsgs(s)) /\ ~Has(toModem, BadCmds(s))
    /\ owed[s] \in {0, 1}
    /\ owed[s] = 0 => ~InFlight(s)
    /\ req[s] = "none" => Gone(s) /\ ~InFlight(s)
    /\ ~(s \in DOMAIN tb /\ s \in DOMAIN db)
GoneAt(s) ==
    req[s] = "stop" /\ owed[s] = 0 /\ answer[s] # "failed" => Gone(s) /\ ~InFlight(s)

FlightInv == \A s \in Sessions \ crossed : Owner[s] \in clients => Flight(s)
GoneInv == \A s \in Sessions \ crossed : GoneAt(s)

(* A handler for the session x asks the modem about x only, and leaves the *)
(* other sessions, and the client of x if it is gone, as they are.         *)
CmdsFor(x) == {c \in Command : c.cmd # "open" /\ c.cb.s = x}
SameClient(s) == req'[s] = req[s] /\ owed'[s] = owed[s] /\ answer'[s] = answer[s]
SameMaps(s) == /\ s \in DOMAIN tb' <=> s \in DOMAIN tb
               /\ s \in DOMAIN db' <=> s \in DOMAIN db
Local(x) ==
    /\ \E z \in Seq(CmdsFor(x)) : toModem' = toModem \o z
    /\ \A s \in Sessions \ {x} : SameMaps(s) /\ SameClient(s)
    /\ Owner[x] \notin clients => SameClient(x)

LEMMA CallFor ==
  ASSUME toModem \in Seq(Command), NEW x, NEW c \in CmdsFor(x) \cup {NoCall}
  PROVE  \E z \in Seq(CmdsFor(x)) : queued(c) = toModem \o z
  <1>1. CASE c = NoCall
    <2>1. <<>> \in Seq(CmdsFor(x)) /\ toModem \o <<>> = toModem
      OBVIOUS
    <2> QED BY <1>1, <2>1 DEF queued
  <1>2. CASE c # NoCall
    <2>1. c \in CmdsFor(x)
      BY <1>2
    <2>2. <<c>> \in Seq(CmdsFor(x)) /\ toModem \o <<c>> = Append(toModem, c)
      BY <2>1
    <2> QED BY <1>2, <2>2 DEF queued
  <1> QED BY <1>1, <1>2

LEMMA ReportIs ==
  ASSUME ClientsType, NEW x \in Sessions, NEW err, reportResponse(x, err)
  PROVE  /\ \A s \in Sessions \ {x} : SameClient(s)
         /\ req' = req
         /\ Owner[x] \notin clients => \A s \in Sessions : SameClient(s)
         /\ Owner[x] \in clients => owed'[x] = owed[x] - 1 /\ answer'[x] = err
  BY DEF reportResponse, clientVars, SameClient, ClientsType

LEMMA SaveAt ==
  ASSUME NEW x, NEW o, saveTrackingSession(x, o)
  PROVE  /\ \A s : s # x => SameMaps(s)
         /\ o.dist /\ DistanceSupported => x \in DOMAIN db' /\ tb' = tb
         /\ ~(o.dist /\ DistanceSupported) => x \in DOMAIN tb' /\ db' = db
  BY DEF saveTrackingSession, put, SameMaps

LEMMA EraseAt ==
  ASSUME NEW x, eraseTrackingSession(x)
  PROVE  /\ \A s : s # x => SameMaps(s)
         /\ x \in DOMAIN tb => x \notin DOMAIN tb' /\ db' = db
         /\ x \notin DOMAIN tb => x \notin DOMAIN db' /\ tb' = tb
  BY DEF eraseTrackingSession, isTimeBasedTrackingSession, Restrict, SameMaps

LEMMA LocalBy ==
  ASSUME HandledType, NEW x \in Sessions, NEW c \in CmdsFor(x) \cup {NoCall}, call(c),
         NEW err, reportResponse(x, err) \/ UNCHANGED clientVars,
         \A s : s # x => SameMaps(s)
  PROVE  Local(x)
  <1>1. \E z \in Seq(CmdsFor(x)) : toModem' = toModem \o z
    BY CallFor DEF HandledType, call
  <1>2. UNCHANGED clientVars => \A s \in Sessions : SameClient(s)
    BY DEF clientVars, SameClient
  <1> QED BY <1>1, <1>2, ReportIs DEF Local, HandledType

LEMMA SimpleFor ==
  ASSUME NEW cb \in Closure
  PROVE  /\ startDistanceBasedTracking(cb) \in CmdsFor(cb.s)
         /\ stopDistanceBasedTracking(cb) \in CmdsFor(cb.s)
  BY CommandTypes DEF startDistanceBasedTracking, stopDistanceBasedTracking, CmdsFor

LEMMA NothingMoved ==
  ASSUME UNCHANGED <<tb, db>>
  PROVE  \A s : SameMaps(s)
  BY DEF SameMaps

LEMMA StartCallFor ==
  ASSUME tb \in SessionMap, NEW x \in Sessions, NEW o \in Options,
         NEW c \in startTimeBasedTrackingMultiplex(x, o)
  PROVE  c = NoCall \/ (c \in CmdsFor(x) /\ c.cb.do = "started")
  <1>1. do("started", x).s = x /\ do("started", x).do = "started"
    BY ClosureTypes
  <1> QED BY <1>1, StartCalls DEF CmdsFor

LEMMA StopCallFor ==
  ASSUME tb \in SessionMap, NEW x \in DOMAIN tb, NEW c \in stopTimeBasedTrackingMultiplex(x)
  PROVE  c = NoCall \/ (c \in CmdsFor(x) /\ c.cb.do \in {"started", "stopTracking"})
  <1>1. x \in Sessions
    BY MapType
  <1>2. /\ do("started", x).s = x /\ do("started", x).do = "started"
        /\ do("stopTracking", x).s = x /\ do("stopTracking", x).do = "stopTracking"
    BY <1>1, ClosureTypes
  <1> QED BY <1>2, StopCalls DEF CmdsFor

LEMMA UpdateCallFor ==
  ASSUME tb \in SessionMap, NEW x \in DOMAIN tb, NEW o \in Options,
         NEW c \in updateTrackingMultiplex(x, o)
  PROVE  c = NoCall \/ (c \in CmdsFor(x) /\ c.cb.do = "updateTracking")
  <1>1. x \in Sessions /\ tb[x] \in Options
    BY MapType
  <1>2. /\ doWith("updateTracking", x, tb[x]).s = x
        /\ doWith("updateTracking", x, tb[x]).do = "updateTracking"
    BY <1>1, ClosureTypes
  <1> QED BY <1>2, UpdateCalls DEF CmdsFor

LEMMA StartTimeBasedLocal ==
  ASSUME HandledType, NEW x \in Sessions, NEW o \in Options, startTimeBased(x, o)
  PROVE  Local(x)
  <1>1. PICK c \in startTimeBasedTrackingMultiplex(x, o) :
           /\ call(c) /\ saveTrackingSession(x, o)
           /\ reportResponse(x, "ok") \/ UNCHANGED clientVars
    BY DEF startTimeBased
  <1>2. c \in CmdsFor(x) \cup {NoCall}
    BY StartCallFor DEF HandledType
  <1> QED BY <1>1, <1>2, SaveAt, LocalBy

LEMMA StartLocal ==
  ASSUME HandledType, NEW x \in Sessions, NEW o \in Options, MsgStartTracking(x, o)
  PROVE  Local(x)
  <1>1. CASE UNCHANGED <<tb, db, toModem, clientVars>>
    <2>1. call(NoCall)
      BY <1>1 DEF call, queued
    <2> QED BY <1>1, <2>1, NothingMoved, LocalBy
  <1>2. CASE /\ saveTrackingSession(x, o)
             /\ call(startDistanceBasedTracking(do("started", x)))
             /\ UNCHANGED clientVars
    <2>1. startDistanceBasedTracking(do("started", x)) \in CmdsFor(x)
      BY ClosureTypes, SimpleFor
    <2> QED BY <1>2, <2>1, SaveAt, LocalBy
  <1>3. CASE startTimeBased(x, o)
    BY <1>3, StartTimeBasedLocal
  <1> QED BY <1>1, <1>2, <1>3 DEF MsgStartTracking

LEMMA TimeToDistanceLocal ==
  ASSUME HandledType, NEW x \in DOMAIN tb, NEW o \in Options, timeToDistance(x, o)
  PROVE  Local(x)
  <1> DEFINE d == startDistanceBasedTracking(do("none", x))
  <1>0. x \in Sessions
    BY MapType DEF HandledType
  <1>1. PICK c \in stopTimeBasedTrackingMultiplex(x) :
           /\ toModem' = Append(queued(c), d)
           /\ IF DistanceSupported
              THEN tb' = Restrict(tb, DOMAIN tb \ {x}) /\ db' = put(db, x, o)
              ELSE tb' = put(tb, x, o) /\ UNCHANGED db
           /\ reportResponse(x, "ok") \/ UNCHANGED clientVars
    BY DEF timeToDistance
  <1>2. c \in CmdsFor(x) \cup {NoCall}
    BY StopCallFor DEF HandledType
  <1>3. d \in CmdsFor(x)
    BY <1>0, ClosureTypes, SimpleFor
  <1> HIDE DEF d
  <1>4. PICK z \in Seq(CmdsFor(x)) : queued(c) = toModem \o z
    BY <1>2, CallFor DEF HandledType
  <1>5. Append(z, d) \in Seq(CmdsFor(x)) /\ Append(toModem \o z, d) = toModem \o Append(z, d)
    <2>1. z \in Seq(Command) /\ d \in Command /\ toModem \in Seq(Command)
      BY <1>3 DEF CmdsFor, HandledType
    <2>2. Append(toModem \o z, d) = toModem \o Append(z, d)
      BY <2>1
    <2> QED BY <1>3, <2>2, AppendTo
  <1>6. \A s : s # x => SameMaps(s)
    BY <1>1 DEF Restrict, put, SameMaps
  <1>7. UNCHANGED clientVars => \A s \in Sessions : SameClient(s)
    BY DEF clientVars, SameClient
  <1> QED BY <1>0, <1>1, <1>4, <1>5, <1>6, <1>7, ReportIs DEF Local, HandledType

LEMMA UpdateLocal ==
  ASSUME HandledType, NEW x \in Sessions, NEW o \in Options, MsgUpdateTracking(x, o)
  PROVE  Local(x)
  <1>1. CASE reportResponse(x, "unknown") /\ UNCHANGED <<tb, db, toModem>>
    <2>1. call(NoCall)
      BY <1>1 DEF call, queued
    <2> QED BY <1>1, <2>1, NothingMoved, LocalBy
  <1>2. CASE isTimeBasedTrackingSession(x) /\ timeToDistance(x, o)
    BY <1>2, TimeToDistanceLocal DEF isTimeBasedTrackingSession
  <1>3. CASE /\ eraseTrackingSession(x)
             /\ call(stopDistanceBasedTracking(doWith("distanceToTime", x, o)))
             /\ UNCHANGED clientVars
    <2>1. stopDistanceBasedTracking(doWith("distanceToTime", x, o)) \in CmdsFor(x)
      BY ClosureTypes, SimpleFor
    <2> QED BY <1>3, <2>1, EraseAt, LocalBy
  <1>4. CASE /\ isTimeBasedTrackingSession(x)
             /\ \E c \in updateTrackingMultiplex(x, o) :
                   /\ call(c) /\ saveTrackingSession(x, o)
                   /\ reportResponse(x, "ok") \/ UNCHANGED clientVars
    <2>1. PICK c \in updateTrackingMultiplex(x, o) :
             /\ call(c) /\ saveTrackingSession(x, o)
             /\ reportResponse(x, "ok") \/ UNCHANGED clientVars
      BY <1>4
    <2>2. c \in CmdsFor(x) \cup {NoCall}
      BY <1>4, UpdateCallFor DEF HandledType, isTimeBasedTrackingSession
    <2> QED BY <2>1, <2>2, SaveAt, LocalBy
  <1>5. CASE /\ call(stopDistanceBasedTracking(doWith("restartDistance", x, o)))
             /\ UNCHANGED <<tb, db, clientVars>>
    <2>1. stopDistanceBasedTracking(doWith("restartDistance", x, o)) \in CmdsFor(x)
      BY ClosureTypes, SimpleFor
    <2> QED BY <1>5, <2>1, NothingMoved, LocalBy
  <1> QED BY <1>1, <1>2, <1>3, <1>4, <1>5 DEF MsgUpdateTracking

LEMMA StopLocal ==
  ASSUME HandledType, NEW x \in Sessions, MsgStopTracking(x)
  PROVE  Local(x)
  <1>1. CASE /\ isTimeBasedTrackingSession(x)
             /\ \E c \in stopTimeBasedTrackingMultiplex(x) :
                   /\ call(c) /\ eraseTrackingSession(x)
                   /\ reportResponse(x, "ok") \/ UNCHANGED clientVars
    <2>1. PICK c \in stopTimeBasedTrackingMultiplex(x) :
             /\ call(c) /\ eraseTrackingSession(x)
             /\ reportResponse(x, "ok") \/ UNCHANGED clientVars
      BY <1>1
    <2>2. c \in CmdsFor(x) \cup {NoCall}
      BY <1>1, StopCallFor DEF HandledType, isTimeBasedTrackingSession
    <2> QED BY <2>1, <2>2, EraseAt, LocalBy
  <1>2. CASE /\ call(stopDistanceBasedTracking(do("stopDistance", x)))
             /\ UNCHANGED <<tb, db, clientVars>>
    <2>1. stopDistanceBasedTracking(do("stopDistance", x)) \in CmdsFor(x)
      BY ClosureTypes, SimpleFor
    <2> QED BY <1>2, <2>1, NothingMoved, LocalBy
  <1>3. CASE reportResponse(x, "unknown") /\ UNCHANGED <<tb, db, toModem>>
    <2>1. call(NoCall)
      BY <1>3 DEF call, queued
    <2> QED BY <1>3, <2>1, NothingMoved, LocalBy
  <1> QED BY <1>1, <1>2, <1>3 DEF MsgStopTracking

LEMMA ResponseLocal ==
  ASSUME HandledType, NEW ok \in BOOLEAN, NEW cb \in Closure, Response(ok, cb)
  PROVE  Local(cb.s)
  <1> DEFINE x == cb.s
  <1>1. x \in Sessions
    BY ClosureFields
  <1>2. cb.do \in {"updateTracking", "distanceToTime", "restartDistance", "restarted"}
          => cb.o \in Options
    BY ClosureFields
  <1> HIDE DEF x
  <1>3. ASSUME NEW c \in CmdsFor(x) \cup {NoCall}, call(c), report(x, ok) \/ UNCHANGED clientVars,
               UNCHANGED <<tb, db>> \/ eraseTrackingSession(x) \/ saveTrackingSession(x, cb.o)
        PROVE  Local(x)
    <2>1. \A s : s # x => SameMaps(s)
      BY <1>3, NothingMoved, EraseAt, SaveAt
    <2> QED BY <1>1, <1>3, <2>1, LocalBy DEF report
  <1>4. UNCHANGED toModem => call(NoCall)
    BY DEF call, queued
  <1>5. CASE cb.do \in {"started", "stopTracking", "stopDistance", "clientGone", "updateTracking",
                        "restarted"}
    <2>1. /\ UNCHANGED toModem /\ (report(x, ok) \/ UNCHANGED clientVars)
          /\ UNCHANGED <<tb, db>> \/ eraseTrackingSession(x) \/ saveTrackingSession(x, cb.o)
      BY <1>5 DEF Response, x
    <2> QED BY <1>3, <1>4, <2>1 DEF x
  <1>6. CASE cb.do = "distanceToTime"
    BY <1>1, <1>2, <1>6, StartTimeBasedLocal DEF Response, x
  <1>7. CASE cb.do = "restartDistance"
    <2> DEFINE c == startDistanceBasedTracking(doWith("restarted", x, cb.o))
    <2>1. c \in CmdsFor(x)
      BY <1>1, <1>2, <1>7, ClosureTypes, SimpleFor
    <2>2. (call(c) \/ UNCHANGED toModem) /\ UNCHANGED <<tb, db, clientVars>>
      BY <1>7 DEF Response, x
    <2> HIDE DEF c
    <2> QED BY <1>3, <1>4, <2>1, <2>2 DEF x
  <1> QED BY <1>5, <1>6, <1>7 DEF Response, x

(* A message that is not about the session s leaves it alone: it is not    *)
(* passed on with a command of s and, but for the engine that comes up,    *)
(* nothing is asked about s as a distance based session.                   *)
DbCmds(s) == {c \in Command : c.cmd \in {"startDb", "stopDb"} /\ c.cb.s = s}
Neutral(s) == {c \in Command : c \notin CmdsOf(s) /\ c \notin DbCmds(s) /\ c \notin Opens}
SameSession(s) == SameMaps(s) /\ SameClient(s)
Apart(s) == /\ \E z \in Seq(Command \ CmdsOf(s)) : toModem' = toModem \o z
            /\ SameSession(s)
Foreign(s) == /\ \E z \in Seq(Neutral(s)) : toModem' = toModem \o z
              /\ SameSession(s)

LEMMA ForeignApart ==
  ASSUME NEW s, Foreign(s)
  PROVE  Apart(s)
  <1>1. Neutral(s) \subseteq Command \ CmdsOf(s)
    BY DEF Neutral
  <1>2. \A z \in Seq(Neutral(s)) : z \in Seq(Command \ CmdsOf(s))
    BY <1>1
  <1> QED BY <1>2 DEF Foreign, Apart

LEMMA ForNeutral ==
  ASSUME NEW x, NEW s, s # x
  PROVE  CmdsFor(x) \subseteq Neutral(s)
  BY DEF CmdsFor, CmdsOf, DbCmds, Opens, Neutral

LEMMA LocalForeign ==
  ASSUME NEW x \in Sessions, NEW s \in Sessions, s # x, Local(x)
  PROVE  Foreign(s)
  <1>1. PICK z \in Seq(CmdsFor(x)) : toModem' = toModem \o z
    BY DEF Local
  <1>2. z \in Seq(Neutral(s))
    BY ForNeutral
  <1> QED BY <1>1, <1>2 DEF Local, Foreign, SameSession

LEMMA SilentForeign ==
  ASSUME toModem \in Seq(Command), NEW s, UNCHANGED <<tb, db, toModem, clientVars>>
  PROVE  Foreign(s)
  <1>1. <<>> \in Seq(Neutral(s)) /\ toModem \o <<>> = toModem
    OBVIOUS
  <1> QED BY <1>1 DEF Foreign, SameSession, SameMaps, SameClient, clientVars

LEMMA RemoveForeign ==
  ASSUME HandledType, NEW k, NEW s \in Sessions, Owner[s] # k \/ Gone(s), MsgRemoveClient(k)
  PROVE  Foreign(s)
  <1>1. PICK a \in Seq(Command), b \in Seq(Command) : RemoveAsks(k, a, b)
    BY RemoveCalls
  <1>2. toModem' = (toModem \o a) \o b
    BY <1>1 DEF RemoveAsks
  <1>3. ASSUME NEW i \in 1 .. Len(a) PROVE a[i] \in Neutral(s)
    <2>1. PICK x \in DOMAIN tb : Owner[x] = k /\ a[i] \in stopTimeBasedTrackingMultiplex(x)
      BY <1>1 DEF RemoveAsks
    <2>2. a[i] \in Command
      OBVIOUS
    <2>3. a[i] \in CmdsFor(x)
      BY <2>1, <2>2, StopCallFor, NoCallIs DEF HandledType
    <2>4. x # s
      BY <2>1 DEF Gone
    <2> QED BY <2>3, <2>4, ForNeutral
  <1>4. ASSUME NEW i \in 1 .. Len(b) PROVE b[i] \in Neutral(s)
    <2>1. PICK x \in DOMAIN db :
             Owner[x] = k /\ b[i] = stopDistanceBasedTracking(do("clientGone", x))
      BY <1>1 DEF RemoveAsks
    <2>2. x \in Sessions
      BY MapType DEF HandledType
    <2>3. b[i] \in CmdsFor(x)
      BY <2>1, <2>2, ClosureTypes, SimpleFor
    <2>4. x # s
      BY <2>1 DEF Gone
    <2> QED BY <2>3, <2>4, ForNeutral
  <1>5. a \in Seq(Neutral(s)) /\ b \in Seq(Neutral(s))
    BY <1>3, <1>4
  <1>6. a \o b \in Seq(Neutral(s)) /\ toModem' = toModem \o (a \o b)
    BY <1>2, <1>5 DEF HandledType
  <1>7. UNCHANGED <<tb, db, clientVars>>
    BY DEF MsgRemoveClient
  <1> QED BY <1>6, <1>7 DEF Foreign, SameSession, SameMaps, SameClient, clientVars

LEMMA EngineUpApart ==
  ASSUME HandledType, NEW s, MsgHandleEngineUpEvent
  PROVE  Apart(s)
  <1>1. PICK a \in Seq(Command), b \in Seq(Command) :
            /\ toModem' = (toModem \o a) \o b
            /\ a = <<>> \/ \E c \in Command : a = <<c>> /\ c.cb.do = "none"
            /\ \A i \in 1 .. Len(b) : \E x \in DOMAIN db :
                  b[i] = startDistanceBasedTracking(do("none", x))
    BY RestartCalls DEF MsgHandleEngineUpEvent
  <1>2. a \in Seq(Command \ CmdsOf(s))
    <2>1. CASE a = <<>>
      BY <2>1
    <2>2. ASSUME NEW c \in Command, a = <<c>>, c.cb.do = "none"
          PROVE  a \in Seq(Command \ CmdsOf(s))
      <3>1. c \in Command \ CmdsOf(s)
        BY <2>2 DEF CmdsOf
      <3> QED BY <2>2, <3>1
    <2> QED BY <1>1, <2>1, <2>2
  <1>3. ASSUME NEW i \in 1 .. Len(b) PROVE b[i] \in Command \ CmdsOf(s)
    <2>1. PICK x \in DOMAIN db : b[i] = startDistanceBasedTracking(do("none", x))
      BY <1>1
    <2>2. do("none", x) \in Closure /\ do("none", x).do = "none"
      BY MapType, ClosureTypes DEF HandledType
    <2>3. b[i] \in Command /\ b[i].cb = do("none", x)
      BY <2>1, <2>2, CommandTypes DEF startDistanceBasedTracking
    <2> QED BY <2>2, <2>3 DEF CmdsOf
  <1>4. b \in Seq(Command \ CmdsOf(s))
    BY <1>3
  <1>5. a \o b \in Seq(Command \ CmdsOf(s)) /\ toModem' = toModem \o (a \o b)
    BY <1>1, <1>2, <1>4 DEF HandledType
  <1>6. UNCHANGED <<tb, db, clientVars>>
    BY DEF MsgHandleEngineUpEvent, sessionVars
  <1> QED BY <1>5, <1>6 DEF Apart, SameSession, SameMaps, SameClient, clientVars

LEMMA HandleApart ==
  ASSUME HandledType, NEW s \in Sessions, NEW m \in Msg, m \notin MsgsOf(s), Handle(m),
         Owner[s] \in clients' \/ Gone(s)
  PROVE  /\ Apart(s)
         /\ \/ Foreign(s) /\ pendingMsgs' \in {pendingMsgs, Append(pendingMsgs, m)}
            \/ m.kind = "engineUp"
  <1>1. CASE m.kind \in {"start", "update"} /\ putAside(m)
    BY <1>1, SilentForeign, ForeignApart DEF putAside, sessionVars, HandledType
  <1>2. CASE m.kind = "start" /\ MsgStartTracking(m.s, m.o)
    <2>1. m.s \in Sessions /\ m.o \in Options /\ m.s # s
      BY <1>2, MsgFields DEF MsgsOf
    <2> QED BY <1>2, <2>1, StartLocal, LocalForeign, ForeignApart DEF MsgStartTracking
  <1>3. CASE m.kind = "update" /\ MsgUpdateTracking(m.s, m.o)
    <2>1. m.s \in Sessions /\ m.o \in Options /\ m.s # s
      BY <1>3, MsgFields DEF MsgsOf
    <2> QED BY <1>3, <2>1, UpdateLocal, LocalForeign, ForeignApart DEF MsgUpdateTracking
  <1>4. CASE m.kind = "stop" /\ MsgStopTracking(m.s)
    <2>1. m.s \in Sessions /\ m.s # s
      BY <1>4, MsgFields DEF MsgsOf
    <2> QED BY <1>4, <2>1, StopLocal, LocalForeign, ForeignApart DEF MsgStopTracking
  <1>5. CASE m.kind = "remove" /\ MsgRemoveClient(m.c)
    <2>1. Owner[s] # m.c \/ Gone(s)
      BY <1>5 DEF MsgRemoveClient
    <2>2. pendingMsgs' = pendingMsgs
      BY <1>5 DEF MsgRemoveClient
    <2> QED BY <1>5, <2>1, <2>2, RemoveForeign, ForeignApart
  <1>6. CASE m.kind = "engineUp" /\ MsgHandleEngineUpEvent
    BY <1>6, EngineUpApart
  <1>7. CASE m.kind = "response" /\ Response(m.ok, m.cb)
    <2>1. m.ok \in BOOLEAN /\ m.cb \in Closure /\ m.cb.s # s
      BY <1>7, MsgFields DEF MsgsOf
    <2>2. m.cb.s \in Sessions /\ pendingMsgs' = pendingMsgs
      BY <1>7, <2>1, ClosureFields DEF Response
    <2> QED BY <1>7, <2>1, <2>2, ResponseLocal, LocalForeign, ForeignApart
  <1> QED BY <1>1, <1>2, <1>3, <1>4, <1>5, <1>6, <1>7 DEF Handle

-----------------------------------------------------------------------------
(* A message about s is passed on to the modem, or answered.               *)
Passed(s) ==
    /\ \E c \in Command \cup {NoCall}, y \in Seq(Command \ CmdsOf(s)) :
          /\ toModem' = queued(c) \o y
          /\ c # NoCall => ClosureOk(c.cb, s)'
    /\ SameClient(s)
Answered(s) ==
    /\ \E y \in Seq(Command \ CmdsOf(s)) : toModem' = toModem \o y
    /\ req'[s] = req[s] /\ owed'[s] = owed[s] - 1
    /\ req[s] = "stop" /\ answer'[s] # "failed" => Gone(s)'
Done(s) == /\ Passed(s) \/ Answered(s)
           /\ ~(s \in DOMAIN tb' /\ s \in DOMAIN db')

LEMMA PassBy ==
  ASSUME toModem \in Seq(Command), NEW s, NEW c \in Command \cup {NoCall}, call(c),
         UNCHANGED clientVars, c # NoCall => ClosureOk(c.cb, s)'
  PROVE  Passed(s)
  <1>1. queued(c) \in Seq(Command)
    BY QueuedType
  <1>2. <<>> \in Seq(Command \ CmdsOf(s)) /\ queued(c) \o <<>> = queued(c)
    BY <1>1
  <1>3. toModem' = queued(c)
    BY DEF call
  <1> QED BY <1>2, <1>3 DEF Passed, SameClient, clientVars

LEMMA LostBy ==
  ASSUME toModem \in Seq(Command), NEW s, UNCHANGED <<toModem, clientVars>>
  PROVE  Passed(s)
  <1>1. call(NoCall)
    BY DEF call, queued
  <1> QED BY <1>1, PassBy

LEMMA AnswerBy ==
  ASSUME HandledType, NEW s \in Sessions, Owner[s] \in clients, UNCHANGED toModem,
         NEW err, reportResponse(s, err), req[s] = "stop" /\ err # "failed" => Gone(s)'
  PROVE  Answered(s)
  <1>1. <<>> \in Seq(Command \ CmdsOf(s)) /\ toModem \o <<>> = toModem
    BY DEF HandledType
  <1> QED BY <1>1, ReportIs DEF Answered, HandledType

LEMMA EitherBy ==
  ASSUME HandledType, NEW s \in Sessions, Owner[s] \in clients,
         NEW c \in Command \cup {NoCall}, call(c),
         IF c = NoCall THEN reportResponse(s, "ok") ELSE UNCHANGED clientVars,
         c # NoCall /\ UNCHANGED clientVars => ClosureOk(c.cb, s)',
         req[s] = "stop" => Gone(s)'
  PROVE  Passed(s) \/ Answered(s)
  <1>1. CASE c = NoCall
    <2>1. UNCHANGED toModem
      BY <1>1 DEF call, queued
    <2> QED BY <1>1, <2>1, AnswerBy
  <1>2. CASE c # NoCall
    BY <1>2, PassBy DEF HandledType
  <1> QED BY <1>1, <1>2

LEMMA StartTimeBasedDone ==
  ASSUME HandledType, NEW s \in Sessions, NEW o \in Options, Owner[s] \in clients,
         req[s] # "stop", s \notin DOMAIN db, ~(o.dist /\ DistanceSupported), startTimeBased(s, o)
  PROVE  Done(s)
  <1>1. PICK c \in startTimeBasedTrackingMultiplex(s, o) :
           /\ call(c) /\ saveTrackingSession(s, o)
           /\ IF c = NoCall THEN reportResponse(s, "ok") ELSE UNCHANGED clientVars
    BY DEF startTimeBased
  <1>2. c = NoCall \/ (c \in CmdsFor(s) /\ c.cb.do = "started")
    BY StartCallFor DEF HandledType
  <1>3. c # NoCall /\ UNCHANGED clientVars => ClosureOk(c.cb, s)'
    BY <1>2 DEF ClosureOk, clientVars
  <1>4. c \in Command \cup {NoCall}
    BY <1>2 DEF CmdsFor
  <1>5. Passed(s) \/ Answered(s)
    BY <1>1, <1>3, <1>4, EitherBy
  <1>6. db' = db
    BY <1>1, SaveAt
  <1> QED BY <1>5, <1>6 DEF Done

LEMMA StartDone ==
  ASSUME HandledType, NEW s \in Sessions, NEW o \in Options, Owner[s] \in clients,
         Gone(s), req[s] # "stop", MsgStartTracking(s, o)
  PROVE  Done(s)
  <1>1. CASE UNCHANGED <<tb, db, toModem, clientVars>>
    BY <1>1, LostBy DEF HandledType, Done, Gone
  <1>2. CASE /\ o.dist /\ DistanceSupported /\ saveTrackingSession(s, o)
             /\ call(startDistanceBasedTracking(do("started", s)))
             /\ UNCHANGED clientVars
    <2> DEFINE c == startDistanceBasedTracking(do("started", s))
    <2>1. do("started", s) \in Closure /\ do("started", s).do = "started"
      BY ClosureTypes
    <2>2. c \in Command /\ c.cb.do = "started"
      BY <2>1, CommandTypes DEF startDistanceBasedTracking
    <2> HIDE DEF c
    <2>3. ClosureOk(c.cb, s)'
      BY <1>2, <2>2 DEF ClosureOk, clientVars
    <2>4. Passed(s)
      BY <1>2, <2>2, <2>3, PassBy DEF HandledType, c
    <2>5. tb' = tb
      BY <1>2, SaveAt
    <2> QED BY <2>4, <2>5 DEF Done, Gone
  <1>3. CASE ~(o.dist /\ DistanceSupported) /\ startTimeBased(s, o)
    BY <1>3, StartTimeBasedDone DEF Gone
  <1> QED BY <1>1, <1>2, <1>3 DEF MsgStartTracking

LEMMA TimeToDistanceDone ==
  ASSUME HandledType, NEW s \in DOMAIN tb, NEW o \in Options, Owner[s] \in clients,
         req[s] # "stop", s \notin DOMAIN db, timeToDistance(s, o)
  PROVE  Done(s)
  <1> DEFINE d == startDistanceBasedTracking(do("none", s))
  <1>0. s \in Sessions
    BY MapType DEF HandledType
  <1>1. PICK c \in stopTimeBasedTrackingMultiplex(s) :
           /\ toModem' = Append(queued(c), d)
           /\ IF DistanceSupported
              THEN tb' = Restrict(tb, DOMAIN tb \ {s}) /\ db' = put(db, s, o)
              ELSE tb' = put(tb, s, o) /\ UNCHANGED db
           /\ IF c = NoCall THEN reportResponse(s, "ok") ELSE UNCHANGED clientVars
    BY DEF timeToDistance
  <1>2. c = NoCall \/ (c \in CmdsFor(s) /\ c.cb.do \in {"started", "stopTracking"})
    BY StopCallFor DEF HandledType
  <1>3. c \in Command \cup {NoCall}
    BY <1>2 DEF CmdsFor
  <1>4. d \in Command \ CmdsOf(s)
    <2>1. do("none", s) \in Closure /\ do("none", s).do = "none"
      BY <1>0, ClosureTypes
    <2> QED BY <2>1, CommandTypes DEF startDistanceBasedTracking, CmdsOf
  <1> HIDE DEF d
  <1>5. queued(c) \in Seq(Command)
    BY <1>3, QueuedType DEF HandledType
  <1>6. <<d>> \in Seq(Command \ CmdsOf(s)) /\ toModem' = queued(c) \o <<d>>
    BY <1>1, <1>4, <1>5
  <1>7. Passed(s) \/ Answered(s)
    <2>1. CASE c = NoCall
      <3>1. toModem' = toModem \o <<d>>
        BY <1>6, <2>1 DEF queued
      <3> QED BY <1>0, <1>1, <1>6, <2>1, <3>1, ReportIs DEF Answered, HandledType
    <2>2. CASE c # NoCall
      <3>1. UNCHANGED clientVars
        BY <1>1, <2>2
      <3>2. ClosureOk(c.cb, s)'
        BY <1>2, <2>2, <3>1 DEF ClosureOk, clientVars
      <3> QED BY <1>3, <1>6, <3>1, <3>2 DEF Passed, SameClient, clientVars
    <2> QED BY <2>1, <2>2
  <1>8. ~(s \in DOMAIN tb' /\ s \in DOMAIN db')
    BY <1>1 DEF Restrict
  <1> QED BY <1>7, <1>8 DEF Done

LEMMA UpdateDone ==
  ASSUME HandledType, NEW s \in Sessions, NEW o \in Options, Owner[s] \in clients,
         req[s] # "stop", ~(s \in DOMAIN tb /\ s \in DOMAIN db), MsgUpdateTracking(s, o)
  PROVE  Done(s)
  <1>1. CASE reportResponse(s, "unknown") /\ UNCHANGED <<tb, db, toModem>>
    BY <1>1, AnswerBy DEF Done
  <1>2. CASE isTimeBasedTrackingSession(s) /\ timeToDistance(s, o)
    BY <1>2, TimeToDistanceDone DEF isTimeBasedTrackingSession
  <1>3. CASE /\ isDistanceBasedTrackingSession(s) /\ eraseTrackingSession(s)
             /\ call(stopDistanceBasedTracking(doWith("distanceToTime", s, o)))
             /\ UNCHANGED clientVars
    <2> DEFINE cb == doWith("distanceToTime", s, o)
               c == stopDistanceBasedTracking(cb)
    <2>1. cb \in Closure /\ cb.do = "distanceToTime"
      BY ClosureTypes
    <2> HIDE DEF cb
    <2>2. c \in Command /\ c.cb.do = "distanceToTime"
      BY <2>1, CommandTypes DEF stopDistanceBasedTracking
    <2> HIDE DEF c
    <2>3. s \notin DOMAIN tb' /\ s \notin DOMAIN db'
      BY <1>3, EraseAt DEF isDistanceBasedTrackingSession
    <2>4. ClosureOk(c.cb, s)'
      BY <1>3, <2>2, <2>3 DEF ClosureOk, clientVars, Gone
    <2>5. Passed(s)
      BY <1>3, <2>2, <2>4, PassBy DEF HandledType, c, cb
    <2> QED BY <2>3, <2>5 DEF Done
  <1>4. CASE /\ isTimeBasedTrackingSession(s) /\ ~o.dist
             /\ \E c \in updateTrackingMultiplex(s, o) :
                   /\ call(c) /\ saveTrackingSession(s, o)
                   /\ IF c = NoCall THEN reportResponse(s, "ok") ELSE UNCHANGED clientVars
    <2>1. PICK c \in updateTrackingMultiplex(s, o) :
             /\ call(c) /\ saveTrackingSession(s, o)
             /\ IF c = NoCall THEN reportResponse(s, "ok") ELSE UNCHANGED clientVars
      BY <1>4
    <2>2. s \in DOMAIN tb
      BY <1>4 DEF isTimeBasedTrackingSession
    <2>3. c = NoCall \/ (c \in CmdsFor(s) /\ c.cb.do = "updateTracking")
      BY <2>2, UpdateCallFor DEF HandledType
    <2>4. db' = db /\ s \notin DOMAIN db
      BY <1>4, <2>1, <2>2, SaveAt
    <2>5. c # NoCall /\ UNCHANGED clientVars => ClosureOk(c.cb, s)'
      BY <2>3, <2>4 DEF ClosureOk, clientVars
    <2>6. c \in Command \cup {NoCall}
      BY <2>3 DEF CmdsFor
    <2>7. Passed(s) \/ Answered(s)
      BY <2>1, <2>5, <2>6, EitherBy
    <2> QED BY <2>4, <2>7 DEF Done
  <1>5. CASE /\ isDistanceBasedTrackingSession(s)
             /\ call(stopDistanceBasedTracking(doWith("restartDistance", s, o)))
             /\ UNCHANGED <<tb, db, clientVars>>
    <2> DEFINE cb == doWith("restartDistance", s, o)
               c == stopDistanceBasedTracking(cb)
    <2>1. cb \in Closure /\ cb.do = "restartDistance"
      BY ClosureTypes
    <2> HIDE DEF cb
    <2>2. c \in Command /\ c.cb.do = "restartDistance"
      BY <2>1, CommandTypes DEF stopDistanceBasedTracking
    <2> HIDE DEF c
    <2>3. s \notin DOMAIN tb' /\ s \in DOMAIN db'
      BY <1>5 DEF isDistanceBasedTrackingSession
    <2>4. ClosureOk(c.cb, s)'
      BY <1>5, <2>2, <2>3 DEF ClosureOk, clientVars
    <2>5. Passed(s)
      BY <1>5, <2>2, <2>4, PassBy DEF HandledType, c, cb
    <2> QED BY <2>3, <2>5 DEF Done
  <1> QED BY <1>1, <1>2, <1>3, <1>4, <1>5 DEF MsgUpdateTracking

LEMMA StopDone ==
  ASSUME HandledType, NEW s \in Sessions, Owner[s] \in clients,
         ~(s \in DOMAIN tb /\ s \in DOMAIN db), MsgStopTracking(s)
  PROVE  Done(s)
  <1>1. CASE /\ isTimeBasedTrackingSession(s)
             /\ \E c \in stopTimeBasedTrackingMultiplex(s) :
                   /\ call(c) /\ eraseTrackingSession(s)
                   /\ IF c = NoCall THEN reportResponse(s, "ok") ELSE UNCHANGED clientVars
    <2>1. PICK c \in stopTimeBasedTrackingMultiplex(s) :
             /\ call(c) /\ eraseTrackingSession(s)
             /\ IF c = NoCall THEN reportResponse(s, "ok") ELSE UNCHANGED clientVars
      BY <1>1
    <2>2. s \in DOMAIN tb
      BY <1>1 DEF isTimeBasedTrackingSession
    <2>3. c = NoCall \/ (c \in CmdsFor(s) /\ c.cb.do \in {"started", "stopTracking"})
      BY <2>2, StopCallFor DEF HandledType
    <2>4. s \notin DOMAIN tb' /\ s \notin DOMAIN db'
      BY <2>1, <2>2, EraseAt
    <2>5. c # NoCall /\ UNCHANGED clientVars => ClosureOk(c.cb, s)'
      BY <2>3, <2>4 DEF ClosureOk, clientVars, Gone
    <2>6. c \in Command \cup {NoCall}
      BY <2>3 DEF CmdsFor
    <2>7. Gone(s)'
      BY <2>4 DEF Gone
    <2>8. Passed(s) \/ Answered(s)
      BY <2>1, <2>5, <2>6, <2>7, EitherBy
    <2> QED BY <2>4, <2>8 DEF Done
  <1>2. CASE /\ ~isTimeBasedTrackingSession(s)
             /\ call(stopDistanceBasedTracking(do("stopDistance", s)))
             /\ UNCHANGED <<tb, db, clientVars>>
    <2> DEFINE cb == do("stopDistance", s)
               c == stopDistanceBasedTracking(cb)
    <2>1. cb \in Closure /\ cb.do = "stopDistance"
      BY ClosureTypes
    <2> HIDE DEF cb
    <2>2. c \in Command /\ c.cb.do = "stopDistance"
      BY <2>1, CommandTypes DEF stopDistanceBasedTracking
    <2> HIDE DEF c
    <2>3. s \notin DOMAIN tb'
      BY <1>2 DEF isTimeBasedTrackingSession
    <2>4. ClosureOk(c.cb, s)'
      BY <1>2, <2>2, <2>3 DEF ClosureOk, clientVars
    <2>5. Passed(s)
      BY <1>2, <2>2, <2>4, PassBy DEF HandledType, c, cb
    <2> QED BY <2>3, <2>5 DEF Done
  <1>3. CASE /\ ~isTimeBasedTrackingSession(s) /\ ~isDistanceBasedTrackingSession(s)
             /\ reportResponse(s, "unknown") /\ UNCHANGED <<tb, db, toModem>>
    <2>1. Gone(s)'
      BY <1>3 DEF Gone, isTimeBasedTrackingSession, isDistanceBasedTrackingSession
    <2> QED BY <1>3, <2>1, AnswerBy DEF Done
  <1> QED BY <1>1, <1>2, <1>3 DEF MsgStopTracking

LEMMA ReportDone ==
  ASSUME HandledType, NEW s \in Sessions, Owner[s] \in clients, NEW ok \in BOOLEAN,
         report(s, ok), UNCHANGED toModem, ok /\ req[s] = "stop" => Gone(s)'
  PROVE  Answered(s)
  <1> DEFINE err == IF ok THEN "ok" ELSE "failed"
  <1>1. reportResponse(s, err)
    BY DEF report
  <1>2. err # "failed" => ok
    OBVIOUS
  <1> HIDE DEF err
  <1> QED BY <1>1, <1>2, AnswerBy

LEMMA ResponseDone ==
  ASSUME HandledType, NEW ok \in BOOLEAN, NEW cb \in Closure, NEW s \in Sessions, cb.s = s, Sane(cb),
         Owner[s] \in clients, ClosureOk(cb, s), ~(s \in DOMAIN tb /\ s \in DOMAIN db),
         Response(ok, cb)
  PROVE  Done(s)
  <1>1. cb.do \in {"updateTracking", "distanceToTime", "restartDistance", "restarted"}
          => cb.o \in Options
    BY ClosureFields
  <1>2. CASE cb.do = "started"
    <2>1. /\ IF ok THEN UNCHANGED <<tb, db>> ELSE eraseTrackingSession(s)
          /\ report(s, ok) /\ UNCHANGED toModem
      BY <1>2 DEF Response
    <2>2. ~(s \in DOMAIN tb' /\ s \in DOMAIN db')
      BY <2>1, EraseAt
    <2>3. ok /\ req[s] = "stop" => Gone(s)'
      BY <1>2, <2>1 DEF ClosureOk, Gone
    <2> QED BY <2>1, <2>2, <2>3, ReportDone DEF Done
  <1>3. CASE cb.do = "updateTracking"
    <2>1. /\ IF ok THEN UNCHANGED <<tb, db>> ELSE saveTrackingSession(s, cb.o)
          /\ report(s, ok) /\ UNCHANGED toModem
      BY <1>3 DEF Response
    <2>2. s \notin DOMAIN db /\ req[s] # "stop" /\ ~(cb.o.dist /\ DistanceSupported)
      BY <1>3 DEF ClosureOk, Sane
    <2>3. db' = db
      BY <2>1, <2>2, SaveAt
    <2> QED BY <2>1, <2>2, <2>3, ReportDone DEF Done
  <1>4. CASE cb.do = "stopTracking"
    <2>1. report(s, ok) /\ UNCHANGED <<tb, db, toModem>>
      BY <1>4 DEF Response
    <2>2. req[s] = "stop" => Gone(s)'
      BY <1>4, <2>1 DEF ClosureOk, Gone
    <2> QED BY <2>1, <2>2, ReportDone DEF Done
  <1>5. CASE cb.do = "stopDistance"
    <2>1. /\ IF ok THEN eraseTrackingSession(s) ELSE UNCHANGED <<tb, db>>
          /\ report(s, ok) /\ UNCHANGED toModem
      BY <1>5 DEF Response
    <2>2. s \notin DOMAIN tb
      BY <1>5 DEF ClosureOk
    <2>3. s \notin DOMAIN tb' /\ (ok => s \notin DOMAIN db')
      BY <2>1, <2>2, EraseAt
    <2> QED BY <2>1, <2>3, ReportDone DEF Done, Gone
  <1>6. CASE cb.do = "distanceToTime"
    BY <1>1, <1>6, StartTimeBasedDone DEF Response, ClosureOk, Sane, Gone
  <1>7. CASE cb.do = "restartDistance"
    <2> DEFINE b == doWith("restarted", s, cb.o)
               c == startDistanceBasedTracking(b)
    <2>1. b \in Closure /\ b.do = "restarted"
      BY <1>1, <1>7, ClosureTypes
    <2>2. (call(c) \/ UNCHANGED toModem) /\ UNCHANGED <<tb, db, clientVars>>
      BY <1>7 DEF Response
    <2> HIDE DEF b
    <2>3. c \in Command /\ c.cb.do = "restarted"
      BY <2>1, CommandTypes DEF startDistanceBasedTracking
    <2> HIDE DEF c
    <2>4. ClosureOk(c.cb, s)'
      BY <1>7, <2>2, <2>3 DEF ClosureOk, clientVars
    <2>5. Passed(s)
      BY <2>2, <2>3, <2>4, PassBy, LostBy DEF HandledType
    <2> QED BY <2>2, <2>5 DEF Done
  <1>8. CASE cb.do = "restarted"
    <2>1. /\ IF ok THEN saveTrackingSession(s, cb.o) ELSE UNCHANGED <<tb, db>>
          /\ report(s, ok) /\ UNCHANGED toModem
      BY <1>8 DEF Response
    <2>2. s \notin DOMAIN tb /\ req[s] # "stop" /\ cb.o.dist /\ DistanceSupported
      BY <1>8 DEF ClosureOk, Sane
    <2>3. tb' = tb
      BY <2>1, <2>2, SaveAt
    <2> QED BY <2>1, <2>2, <2>3, ReportDone DEF Done
  <1>9. cb.do # "clientGone"
    BY DEF ClosureOk
  <1> QED BY <1>2, <1>3, <1>4, <1>5, <1>6, <1>7, <1>8, <1>9 DEF Response

LEMMA HandleDone ==
  ASSUME HandledType, NEW s \in Sessions, NEW m \in SaneMsgs, m \in MsgsOf(s), MsgOk(m, s),
         Owner[s] \in clients, ~(s \in DOMAIN tb /\ s \in DOMAIN db), Handle(m)
  PROVE  \/ Done(s) /\ pendingMsgs' = pendingMsgs
         \/ /\ m.kind \in {"start", "update"} /\ pendingMsgs' = Append(pendingMsgs, m)
            /\ UNCHANGED <<tb, db, toModem, clientVars>>
  <1>0. m \in Msg
    BY DEF SaneMsgs
  <1>1. CASE m.kind \in {"start", "update"} /\ putAside(m)
    BY <1>1 DEF putAside, sessionVars
  <1>2. CASE m.kind = "start" /\ MsgStartTracking(m.s, m.o)
    <2>1. m.s = s /\ m.o \in Options /\ Gone(s) /\ req[s] # "stop"
      BY <1>0, <1>2, MsgFields DEF MsgsOf, MsgOk
    <2> QED BY <1>2, <2>1, StartDone DEF MsgStartTracking
  <1>3. CASE m.kind = "update" /\ MsgUpdateTracking(m.s, m.o)
    <2>1. m.s = s /\ m.o \in Options /\ req[s] # "stop"
      BY <1>0, <1>3, MsgFields DEF MsgsOf, MsgOk
    <2> QED BY <1>3, <2>1, UpdateDone DEF MsgUpdateTracking
  <1>4. CASE m.kind = "stop" /\ MsgStopTracking(m.s)
    <2>1. m.s = s
      BY <1>4 DEF MsgsOf
    <2> QED BY <1>4, <2>1, StopDone DEF MsgStopTracking
  <1>5. CASE m.kind = "response" /\ Response(m.ok, m.cb)
    <2>1. m.ok \in BOOLEAN /\ m.cb \in Closure
      BY <1>0, <1>5, MsgFields
    <2>2. m.cb.s = s /\ Sane(m.cb) /\ ClosureOk(m.cb, s)
      BY <1>5 DEF MsgsOf, MsgOk, SaneMsgs
    <2> QED BY <1>5, <2>1, <2>2, ResponseDone DEF Response
  <1>6. m.kind \in {"start", "update", "stop", "response"}
    BY DEF MsgsOf
  <1> QED BY <1>1, <1>2, <1>3, <1>4, <1>5, <1>6 DEF Handle

(* Answers go to the client of the session handled, while it is there.     *)
LEMMA HandleClient ==
  ASSUME HandledType, NEW s \in Sessions, NEW m \in Msg, Handle(m),
         m \notin MsgsOf(s) \/ Owner[s] \notin clients
  PROVE  SameClient(s)
  <1>1. UNCHANGED clientVars => SameClient(s)
    BY DEF clientVars, SameClient
  <1>2. ASSUME NEW x \in Sessions, Local(x), x # s \/ Owner[s] \notin clients
        PROVE  SameClient(s)
    BY <1>2 DEF Local
  <1>3. CASE m.kind = "start" /\ MsgStartTracking(m.s, m.o)
    <2>1. m.s \in Sessions /\ m.o \in Options /\ (m.s # s \/ Owner[s] \notin clients)
      BY <1>3, MsgFields DEF MsgsOf
    <2> QED BY <1>2, <1>3, <2>1, StartLocal
  <1>4. CASE m.kind = "update" /\ MsgUpdateTracking(m.s, m.o)
    <2>1. m.s \in Sessions /\ m.o \in Options /\ (m.s # s \/ Owner[s] \notin clients)
      BY <1>4, MsgFields DEF MsgsOf
    <2> QED BY <1>2, <1>4, <2>1, UpdateLocal
  <1>5. CASE m.kind = "stop" /\ MsgStopTracking(m.s)
    <2>1. m.s \in Sessions /\ (m.s # s \/ Owner[s] \notin clients)
      BY <1>5, MsgFields DEF MsgsOf
    <2> QED BY <1>2, <1>5, <2>1, StopLocal
  <1>6. CASE m.kind = "response" /\ Response(m.ok, m.cb)
    <2>1. /\ m.ok \in BOOLEAN /\ m.cb \in Closure
          /\ m.cb.s # s \/ Owner[s] \notin clients
      BY <1>6, MsgFields DEF MsgsOf
    <2>2. m.cb.s \in Sessions /\ Local(m.cb.s)
      BY <1>6, <2>1, ClosureFields, ResponseLocal
    <2> QED BY <1>2, <2>1, <2>2
  <1>7. CASE putAside(m) \/ MsgRemoveClient(m.c) \/ MsgHandleEngineUpEvent
    BY <1>1, <1>7 DEF putAside, MsgRemoveClient, MsgHandleEngineUpEvent
  <1> QED BY <1>3, <1>4, <1>5, <1>6, <1>7 DEF Handle

LEMMA BadApart ==
  ASSUME NEW s, SameMaps(s), SameClient(s)
  PROVE  /\ Gone(s)' <=> Gone(s)
         /\ \A cb : ClosureOk(cb, s)' <=> ClosureOk(cb, s)
         /\ BadMsgs(s)' = BadMsgs(s) /\ BadCmds(s)' = BadCmds(s)
  <1>1. Gone(s)' <=> Gone(s)
    BY DEF SameMaps, Gone
  <1>2. \A cb : ClosureOk(cb, s)' <=> ClosureOk(cb, s)
    BY <1>1 DEF SameMaps, SameClient, ClosureOk
  <1>3. \A m : MsgOk(m, s)' <=> MsgOk(m, s)
    BY <1>1, <1>2 DEF SameClient, MsgOk
  <1>4. BadMsgs(s)' = BadMsgs(s)
    BY <1>3 DEF BadMsgs
  <1>5. BadCmds(s)' = BadCmds(s)
    BY <1>2 DEF BadCmds
  <1> QED BY <1>1, <1>2, <1>4, <1>5

BadIn == \A s \in Sessions : BadMsgs(s) \subseteq MsgsOf(s) /\ BadCmds(s) \subseteq CmdsOf(s)

LEMMA BadIs == BadIn /\ BadIn'
  BY DEF BadIn, BadMsgs, BadCmds

(* Nothing about s happens but that its messages move on.                  *)
SameFlight(s) ==
    /\ SameMaps(s) /\ SameClient(s)
    /\ Once(msgs', MsgsOf(s)) /\ Once(pendingMsgs', MsgsOf(s)) /\ Once(toModem', CmdsOf(s))
    /\ ~(Has(msgs', MsgsOf(s)) /\ Has(pendingMsgs', MsgsOf(s)))
    /\ Has(msgs', MsgsOf(s)) \/ Has(pendingMsgs', MsgsOf(s))
          <=> Has(msgs, MsgsOf(s)) \/ Has(pendingMsgs, MsgsOf(s))
    /\ Has(toModem', CmdsOf(s)) <=> Has(toModem, CmdsOf(s))
    /\ ~Has(msgs', BadMsgs(s)) /\ ~Has(pendingMsgs', BadMsgs(s)) /\ ~Has(toModem', BadCmds(s))

LEMMA FlightOn ==
  ASSUME NEW s, Flight(s), SameFlight(s)
  PROVE  Flight(s)'
  <1>1. Gone(s)' = Gone(s) /\ BadMsgs(s)' = BadMsgs(s) /\ BadCmds(s)' = BadCmds(s)
    BY BadApart DEF SameFlight, Gone, SameMaps
  <1>2. InFlight(s)' <=> InFlight(s)
    BY DEF SameFlight, InFlight
  <1> QED BY <1>1, <1>2 DEF Flight, SameFlight, SameMaps, SameClient

(* A command is added to a queue of LocApi that is not about s.            *)
LEMMA ModemApart ==
  ASSUME NEW s, toModem \in Seq(Command), NEW z \in Seq(Command \ CmdsOf(s)), toModem' = toModem \o z,
         NEW X, X \subseteq CmdsOf(s)
  PROVE  /\ Has(toModem', X) <=> Has(toModem, X)
         /\ Once(toModem, X) => Once(toModem', X)
  <1>1. X \cap (Command \ CmdsOf(s)) = {} /\ z \in Seq(Command)
    OBVIOUS
  <1>2. ~Has(z, X)
    BY <1>1, HasIn
  <1>3. Once(z, X)
    BY <1>2 DEF Has, Once
  <1> QED BY <1>1, <1>2, <1>3, ConcatHas, ConcatOnce

(* The message that the adapter's thread takes is not in X.                *)
LEMMA QueuesApart ==
  ASSUME TypeOK, ProcMsg, NEW X, Head(msgs) \notin X,
         pendingMsgs' \in {pendingMsgs, Append(pendingMsgs, Head(msgs))}
            \/ Head(msgs).kind = "engineUp"
  PROVE  /\ Has(msgs', X) \/ Has(pendingMsgs', X) <=> Has(msgs, X) \/ Has(pendingMsgs, X)
         /\ (/\ Once(msgs, X) /\ Once(pendingMsgs, X)
             /\ ~(Has(msgs, X) /\ Has(pendingMsgs, X)))
            => /\ Once(msgs', X) /\ Once(pendingMsgs', X)
               /\ ~(Has(msgs', X) /\ Has(pendingMsgs', X))
  <1> DEFINE m == Head(msgs)
             t == Tail(msgs)
  <1>1. msgs \in Seq(Msg) /\ msgs # <<>> /\ pendingMsgs \in Seq(Msg) /\ Handle(m)
    BY DEF TypeOK, ProcMsg
  <1>2. t \in Seq(Msg) /\ (Has(msgs, X) <=> Has(t, X)) /\ (Once(msgs, X) => Once(t, X))
    BY <1>1, TailHas, TailOnce, SeqTypes
  <1>3. msgs' = IF m.kind = "engineUp" THEN t \o pendingMsgs ELSE t
    BY DEF ProcMsg
  <1> HIDE DEF m, t
  <1>4. CASE m.kind = "engineUp"
    <2>1. pendingMsgs' = <<>>
      BY <1>1, <1>4 DEF Handle, MsgHandleEngineUpEvent
    <2>2. ~Has(pendingMsgs', X) /\ Once(pendingMsgs', X)
      BY <2>1, EmptyHas
    <2>3. Has(msgs', X) <=> Has(t, X) \/ Has(pendingMsgs, X)
      BY <1>1, <1>2, <1>3, <1>4, ConcatHas
    <2>4. Once(t, X) /\ Once(pendingMsgs, X) /\ ~(Has(t, X) /\ Has(pendingMsgs, X))
            => Once(msgs', X)
      BY <1>1, <1>2, <1>3, <1>4, ConcatOnce
    <2> QED BY <1>2, <2>2, <2>3, <2>4
  <1>5. CASE m.kind # "engineUp"
    <2>1. msgs' = t
      BY <1>3, <1>5
    <2>2. m \notin X /\ (pendingMsgs' = pendingMsgs \/ pendingMsgs' = Append(pendingMsgs, m))
      BY <1>5 DEF m
    <2>3. Has(Append(pendingMsgs, m), X) <=> Has(pendingMsgs, X)
      BY <1>1, <2>2, AppendHas
    <2>4. Once(pendingMsgs, X) => Once(Append(pendingMsgs, m), X)
      BY <1>1, <2>2, AppendOnce
    <2> QED BY <1>2, <2>1, <2>2, <2>3, <2>4
  <1> QED BY <1>4, <1>5

LEMMA ApartSame ==
  ASSUME TypeOK, ProcMsg, NEW s \in Sessions, Head(msgs) \notin MsgsOf(s), Apart(s),
         pendingMsgs' \in {pendingMsgs, Append(pendingMsgs, Head(msgs))}
            \/ Head(msgs).kind = "engineUp",
         Flight(s)
  PROVE  SameFlight(s)
  <1>1. BadMsgs(s) \subseteq MsgsOf(s) /\ BadCmds(s) \subseteq CmdsOf(s)
    BY BadIs DEF BadIn
  <1>2. PICK z \in Seq(Command \ CmdsOf(s)) : toModem' = toModem \o z
    BY DEF Apart
  <1>3. toModem \in Seq(Command)
    BY DEF TypeOK
  <1>4. /\ Has(toModem', CmdsOf(s)) <=> Has(toModem, CmdsOf(s))
        /\ Once(toModem, CmdsOf(s)) => Once(toModem', CmdsOf(s))
        /\ Has(toModem', BadCmds(s)) <=> Has(toModem, BadCmds(s))
    BY <1>1, <1>2, <1>3, ModemApart
  <1>5. Head(msgs) \notin BadMsgs(s)
    BY <1>1
  <1>6. Has(msgs', BadMsgs(s)) \/ Has(pendingMsgs', BadMsgs(s))
           <=> Has(msgs, BadMsgs(s)) \/ Has(pendingMsgs, BadMsgs(s))
    BY <1>5, QueuesApart
  <1>7. /\ Has(msgs', MsgsOf(s)) \/ Has(pendingMsgs', MsgsOf(s))
              <=> Has(msgs, MsgsOf(s)) \/ Has(pendingMsgs, MsgsOf(s))
        /\ Once(msgs', MsgsOf(s)) /\ Once(pendingMsgs', MsgsOf(s))
        /\ ~(Has(msgs', MsgsOf(s)) /\ Has(pendingMsgs', MsgsOf(s)))
    BY QueuesApart DEF Flight
  <1> QED BY <1>4, <1>6, <1>7 DEF SameFlight, Flight, Apart, SameSession

(* The message that is handled is the one about s.                         *)
LEMMA TokenFlight ==
  ASSUME TypeOK, SaneInv, ProcMsg, NEW s \in Sessions, Head(msgs) \in MsgsOf(s),
         Owner[s] \in clients, Flight(s)
  PROVE  Flight(s)' /\ GoneAt(s)'
  <1> DEFINE m == Head(msgs)
             M == MsgsOf(s)
             C == CmdsOf(s)
  <1>1. /\ msgs \in Seq(Msg) /\ msgs # <<>> /\ pendingMsgs \in Seq(Msg) /\ toModem \in Seq(Command)
        /\ HandledType /\ Handle(m)
    BY TypeSplit DEF TypeOK, ProcMsg
  <1>2. m \in SaneMsgs /\ m.kind # "engineUp"
    BY <1>1 DEF SaneInv, MsgsOf
  <1>3. msgs' = Tail(msgs)
    BY <1>2 DEF ProcMsg
  <1>4. Has(msgs, M) /\ ~Has(msgs', M)
    BY <1>1, <1>3, TailHas, TailOnce DEF Flight
  <1>5. /\ ~Has(pendingMsgs, M) /\ ~Has(toModem, C) /\ InFlight(s)
        /\ owed[s] = 1 /\ req[s] # "none" /\ ~(s \in DOMAIN tb /\ s \in DOMAIN db)
    BY <1>4 DEF Flight, InFlight
  <1>6. MsgOk(m, s)
    <2>1. m \notin BadMsgs(s)
      BY <1>1, TailHas DEF Flight
    <2> QED BY <2>1 DEF BadMsgs
  <1>7. /\ BadMsgs(s)' \subseteq M /\ BadCmds(s)' \subseteq C
    BY BadIs DEF BadIn
  <1>8. ~Has(msgs', BadMsgs(s)')
    BY <1>4, <1>7, HasMore
  <1>9. pendingMsgs' = pendingMsgs =>
           /\ ~Has(pendingMsgs', M) /\ Once(pendingMsgs', M) /\ ~Has(pendingMsgs', BadMsgs(s)')
    BY <1>5, <1>7, HasMore DEF Flight
  <1>10. Once(msgs', M)
    BY <1>4 DEF Has, Once
  <1> HIDE DEF m, M, C
  <1>11. CASE Passed(s) /\ Done(s) /\ pendingMsgs' = pendingMsgs
    <2>1. PICK c \in Command \cup {NoCall}, y \in Seq(Command \ C) :
             toModem' = queued(c) \o y /\ (c # NoCall => ClosureOk(c.cb, s)')
      BY <1>11 DEF Passed, C
    <2>2. y \in Seq(Command) /\ ~Has(y, C) /\ Once(y, C) /\ ~Has(y, BadCmds(s)')
      <3>1. y \in Seq(Command) /\ ~Has(y, C)
        BY HasIn
      <3> QED BY <1>7, <3>1, HasMore DEF Has, Once
    <2>3. queued(c) \in Seq(Command)
      BY <1>1, QueuedType
    <2>4. Once(queued(c), C) /\ ~Has(queued(c), BadCmds(s)')
      <3>1. CASE c = NoCall
        BY <1>5, <1>7, <3>1, HasMore DEF queued, Flight, C
      <3>2. CASE c # NoCall
        <4>1. c \in Command /\ queued(c) = Append(toModem, c) /\ c \notin BadCmds(s)'
          BY <2>1, <3>2 DEF queued, BadCmds
        <4>2. Once(Append(toModem, c), C)
          BY <1>1, <1>5, <4>1, AppendOnce DEF Flight, C
        <4>3. ~Has(toModem, BadCmds(s)')
          BY <1>5, <1>7, HasMore
        <4> QED BY <1>1, <4>1, <4>2, <4>3, AppendHas
      <3> QED BY <3>1, <3>2
    <2>5. Once(toModem', C) /\ ~Has(toModem', BadCmds(s)')
      BY <2>1, <2>2, <2>3, <2>4, ConcatOnce, ConcatHas
    <2>6. owed'[s] = 1 /\ req'[s] # "none"
      BY <1>5, <1>11 DEF Passed, SameClient
    <2> QED BY <1>4, <1>8, <1>9, <1>10, <1>11, <2>5, <2>6 DEF Flight, GoneAt, Done, M, C
  <1>12. CASE Answered(s) /\ Done(s) /\ pendingMsgs' = pendingMsgs
    <2>1. PICK y \in Seq(Command \ C) : toModem' = toModem \o y
      BY <1>12 DEF Answered, C
    <2>2. ~Has(toModem', C) /\ Once(toModem', C)
      BY <1>1, <1>5, <2>1, ModemApart DEF Flight, C
    <2>3. ~Has(toModem', BadCmds(s)')
      BY <1>7, <2>2, HasMore
    <2>4. ~InFlight(s)'
      BY <1>4, <1>9, <1>12, <2>2 DEF InFlight, M, C
    <2>5. /\ owed'[s] = 0 /\ req'[s] # "none"
          /\ req'[s] = "stop" /\ answer'[s] # "failed" => Gone(s)'
      BY <1>5, <1>12 DEF Answered
    <2>6. GoneAt(s)'
      BY <2>4, <2>5 DEF GoneAt
    <2> QED BY <1>4, <1>8, <1>9, <1>10, <1>12, <2>2, <2>3, <2>4, <2>5, <2>6 DEF Flight, Done, M, C
  <1>13. CASE pendingMsgs' = Append(pendingMsgs, m) /\ UNCHANGED <<tb, db, toModem, clientVars>>
    <2>1. SameMaps(s) /\ SameClient(s)
      BY <1>13 DEF SameMaps, SameClient, clientVars
    <2>2. BadMsgs(s)' = BadMsgs(s) /\ BadCmds(s)' = BadCmds(s)
      BY <2>1, BadApart
    <2>3. m \notin BadMsgs(s)
      BY <1>6 DEF BadMsgs
    <2>4. Once(pendingMsgs', M) /\ ~Has(pendingMsgs', BadMsgs(s)')
      BY <1>1, <1>5, <1>13, <2>2, <2>3, AppendOnce, AppendHas DEF Flight, M
    <2>5. Once(toModem', C) /\ ~Has(toModem', C) /\ ~Has(toModem', BadCmds(s)')
      BY <1>5, <1>13, <2>2 DEF Flight, C
    <2>6. owed'[s] = 1 /\ req'[s] # "none" /\ ~(s \in DOMAIN tb' /\ s \in DOMAIN db')
      BY <1>5, <2>1 DEF SameMaps, SameClient
    <2> QED BY <1>4, <1>8, <1>10, <2>4, <2>5, <2>6 DEF Flight, GoneAt, M, C
  <1>14. m \in M
    BY DEF m, M
  <1> QED BY <1>1, <1>2, <1>5, <1>6, <1>11, <1>12, <1>13, <1>14, HandleDone DEF Done, M

LEMMA GoneOn ==
  ASSUME NEW s, GoneAt(s), SameMaps(s), SameClient(s), ~InFlight(s) => ~InFlight(s)'
  PROVE  GoneAt(s)'
  <1>1. Gone(s)' <=> Gone(s)
    BY BadApart
  <1> QED BY <1>1 DEF GoneAt, SameClient

LEMMA ProcMsgFlight ==
  ASSUME TypeOK, SaneInv, ProcMsg, FlightInv, GoneInv
  PROVE  FlightInv' /\ GoneInv'
  <1> DEFINE m == Head(msgs)
  <1>1. HandledType /\ m \in Msg /\ Handle(m) /\ clients' \subseteq clients
    <2>1. HandledType /\ m \in Msg /\ Handle(m)
      BY TypeSplit, SeqTypes DEF TypeOK, ProcMsg
    <2>2. clients' \subseteq clients
      BY <2>1 DEF Handle, putAside, MsgStartTracking, MsgUpdateTracking, MsgStopTracking,
                  MsgRemoveClient, MsgHandleEngineUpEvent, Response, sessionVars
    <2> QED BY <2>1, <2>2
  <1> HIDE DEF m
  <1>0. crossed' = crossed
    BY DEF ProcMsg, remember
  <1> SUFFICES ASSUME NEW s \in Sessions \ crossed
               PROVE  (Owner[s] \in clients' => Flight(s)') /\ GoneAt(s)'
    BY <1>0 DEF FlightInv, GoneInv
  <1>2. (Owner[s] \in clients => Flight(s)) /\ GoneAt(s)
    BY DEF FlightInv, GoneInv
  <1>3. CASE m \in MsgsOf(s) /\ Owner[s] \in clients
    BY <1>2, <1>3, TokenFlight DEF m
  <1>4. CASE m \in MsgsOf(s) /\ Owner[s] \notin clients
    <2>1. SameClient(s)
      BY <1>1, <1>4, HandleClient
    <2>2. InFlight(s)
      <3>1. Has(msgs, MsgsOf(s))
        BY <1>4, TailHas DEF m, ProcMsg, TypeOK
      <3> QED BY <3>1 DEF InFlight
    <2>3. GoneAt(s)'
      BY <1>2, <2>1, <2>2 DEF GoneAt, SameClient
    <2> QED BY <1>1, <1>4, <2>3
  <1>5. CASE m \notin MsgsOf(s) /\ Owner[s] \notin clients' /\ ~Gone(s)
    <2>1. SameClient(s)
      BY <1>1, <1>5, HandleClient
    <2>2. GoneAt(s)'
      BY <1>2, <1>5, <2>1 DEF GoneAt, SameClient
    <2> QED BY <1>5, <2>2
  <1>6. CASE m \notin MsgsOf(s) /\ (Owner[s] \in clients' \/ Gone(s))
    <2>1. /\ Apart(s)
          /\ pendingMsgs' \in {pendingMsgs, Append(pendingMsgs, m)} \/ m.kind = "engineUp"
      BY <1>1, <1>6, HandleApart
    <2>2. Owner[s] \in clients' => Flight(s)'
      BY <1>1, <1>2, <1>6, <2>1, ApartSame, FlightOn DEF m
    <2>3. Has(msgs', MsgsOf(s)) \/ Has(pendingMsgs', MsgsOf(s))
             <=> Has(msgs, MsgsOf(s)) \/ Has(pendingMsgs, MsgsOf(s))
      BY <1>6, <2>1, QueuesApart DEF m
    <2>4. Has(toModem', CmdsOf(s)) <=> Has(toModem, CmdsOf(s))
      BY <2>1, ModemApart DEF Apart, TypeOK
    <2>5. GoneAt(s)'
      BY <1>2, <2>1, <2>3, <2>4, GoneOn DEF InFlight, Apart, SameSession
    <2> QED BY <2>2, <2>5
  <1> QED BY <1>3, <1>4, <1>5, <1>6

(* A step that adds to the queues only what is not about s.                *)
LEMMA AddApart ==
  ASSUME TypeOK, NEW s \in Sessions, SameMaps(s), SameClient(s), pendingMsgs' = pendingMsgs,
         NEW x \in Msg, x \notin MsgsOf(s), msgs' \in {msgs, Append(msgs, x)},
         NEW c \in Command, c \notin CmdsOf(s), toModem' \in {toModem, Append(toModem, c)}
  PROVE  (Flight(s) => Flight(s)') /\ (GoneAt(s) => GoneAt(s)')
  <1>1. msgs \in Seq(Msg) /\ toModem \in Seq(Command)
    BY DEF TypeOK
  <1>2. BadMsgs(s) \subseteq MsgsOf(s) /\ BadCmds(s) \subseteq CmdsOf(s)
    BY BadIs DEF BadIn
  <1>a. \A X : x \notin X => (Has(Append(msgs, x), X) <=> Has(msgs, X))
    BY <1>1, AppendHas
  <1>b. \A X : c \notin X => (Has(Append(toModem, c), X) <=> Has(toModem, X))
    BY <1>1, AppendHas
  <1>c. x \notin BadMsgs(s) /\ c \notin BadCmds(s)
    BY <1>2
  <1>3. /\ Has(msgs', MsgsOf(s)) <=> Has(msgs, MsgsOf(s))
        /\ Has(msgs', BadMsgs(s)) <=> Has(msgs, BadMsgs(s))
    BY <1>a, <1>c
  <1>4. /\ Has(toModem', CmdsOf(s)) <=> Has(toModem, CmdsOf(s))
        /\ Has(toModem', BadCmds(s)) <=> Has(toModem, BadCmds(s))
    BY <1>b, <1>c
  <1>5. Once(msgs, MsgsOf(s)) => Once(msgs', MsgsOf(s))
    BY <1>1, AppendOnce
  <1>6. Once(toModem, CmdsOf(s)) => Once(toModem', CmdsOf(s))
    BY <1>1, AppendOnce
  <1>7. Flight(s) => SameFlight(s)
    BY <1>3, <1>4, <1>5, <1>6 DEF Flight, SameFlight
  <1>8. InFlight(s)' <=> InFlight(s)
    BY <1>3, <1>4 DEF InFlight
  <1> QED BY <1>7, <1>8, FlightOn, GoneOn

LEMMA LocApiFlight ==
  ASSUME TypeOK, LocApiStep, FlightInv, GoneInv
  PROVE  FlightInv' /\ GoneInv'
  <1> DEFINE c == Head(toModem)
  <1>1. /\ toModem \in Seq(Command) /\ msgs \in Seq(Msg) /\ toModem # <<>>
        /\ c \in Command /\ toModem' = Tail(toModem)
    BY SeqTypes DEF TypeOK, LocApiStep
  <1>2. /\ clients' = clients /\ crossed' = crossed /\ pendingMsgs' = pendingMsgs
        /\ \A s : SameMaps(s) /\ SameClient(s)
    BY DEF LocApiStep, sessionVars, clientVars, SameMaps, SameClient
  <1>3. /\ c.cmd = "open" \/ (c.cmd # "open" /\ c.cb.do = "none") =>
             msgs' \in {msgs, Append(msgs, [kind |-> "engineUp"])}
        /\ c.cmd # "open" /\ c.cb.do # "none" =>
             \E ok \in BOOLEAN : msgs' = Append(msgs, [kind |-> "response", ok |-> ok, cb |-> c.cb])
    BY DEF LocApiStep, Open, Execute
  <1>4. c.cmd # "open" => c.cb \in Closure
    BY <1>1, CommandFields
  <1> HIDE DEF c
  <1> SUFFICES ASSUME NEW s \in Sessions \ crossed
               PROVE  (Owner[s] \in clients => Flight(s)') /\ GoneAt(s)'
    BY <1>2 DEF FlightInv, GoneInv
  <1>5. (Owner[s] \in clients => Flight(s)) /\ GoneAt(s)
    BY DEF FlightInv, GoneInv
  <1>6. /\ Has(toModem, CmdsOf(s)) <=> c \in CmdsOf(s) \/ Has(toModem', CmdsOf(s))
        /\ Has(toModem, BadCmds(s)) <=> c \in BadCmds(s) \/ Has(toModem', BadCmds(s))
        /\ Once(toModem, CmdsOf(s)) => /\ Once(toModem', CmdsOf(s))
                                       /\ c \in CmdsOf(s) => ~Has(toModem', CmdsOf(s))
    BY <1>1, TailHas, TailOnce DEF c
  <1>7. BadMsgs(s) \subseteq MsgsOf(s) /\ BadCmds(s) \subseteq CmdsOf(s)
    BY BadIs DEF BadIn
  <1>8. BadMsgs(s)' = BadMsgs(s) /\ BadCmds(s)' = BadCmds(s)
    BY <1>2, BadApart
  <1>9. CASE c \in CmdsOf(s)
    <2>1. PICK ok \in BOOLEAN :
             msgs' = Append(msgs, [kind |-> "response", ok |-> ok, cb |-> c.cb])
      BY <1>3, <1>9 DEF CmdsOf
    <2> DEFINE m == [kind |-> "response", ok |-> ok, cb |-> c.cb]
    <2>2. m \in MsgsOf(s)
      BY <1>4, <1>9 DEF MsgsOf, CmdsOf, Msg
    <2>3. ClosureOk(c.cb, s) => m \notin BadMsgs(s)
      BY DEF BadMsgs, MsgOk
    <2> HIDE DEF m
    <2>4. msgs' = Append(msgs, m)
      BY <2>1 DEF m
    <2>5. InFlight(s)
      BY <1>6, <1>9 DEF InFlight
    <2>6. Has(msgs', MsgsOf(s))
      BY <1>1, <2>2, <2>4, AppendHas
    <2>7. GoneAt(s)'
      BY <1>2, <1>5, <2>5 DEF GoneAt, SameClient
    <2>8. ASSUME Flight(s) PROVE Flight(s)'
      <3>1. ~Has(msgs, MsgsOf(s)) /\ ~Has(pendingMsgs, MsgsOf(s)) /\ ~Has(toModem', CmdsOf(s))
        BY <1>6, <1>9, <2>8 DEF Flight
      <3>2. Once(msgs', MsgsOf(s)) /\ Once(toModem', CmdsOf(s))
        BY <1>1, <1>6, <2>4, <2>8, <3>1, AppendOnce DEF Flight
      <3>3. ClosureOk(c.cb, s)
        BY <1>6, <1>9, <2>8 DEF Flight, BadCmds
      <3>4. ~Has(msgs', BadMsgs(s)) /\ ~Has(toModem', BadCmds(s)) /\ ~Has(pendingMsgs', BadMsgs(s))
        BY <1>1, <1>2, <1>6, <2>3, <2>4, <2>8, <3>3, AppendHas DEF Flight
      <3>5. owed[s] = 1 /\ req[s] # "none" /\ ~(s \in DOMAIN tb /\ s \in DOMAIN db)
        BY <2>5, <2>8 DEF Flight
      <3> QED BY <1>2, <1>8, <2>8, <3>1, <3>2, <3>4, <3>5 DEF Flight, SameMaps, SameClient
    <2> QED BY <1>5, <2>7, <2>8
  <1>10. CASE c \notin CmdsOf(s)
    <2>1. PICK m \in Msg : m \notin MsgsOf(s) /\ msgs' \in {msgs, Append(msgs, m)}
      <3>1. [kind |-> "engineUp"] \in Msg /\ [kind |-> "engineUp"] \notin MsgsOf(s)
        BY DEF Msg, MsgsOf
      <3>2. CASE c.cmd = "open" \/ (c.cmd # "open" /\ c.cb.do = "none")
        BY <1>3, <3>1, <3>2
      <3>3. ASSUME c.cmd # "open", c.cb.do # "none", NEW ok \in BOOLEAN,
                   msgs' = Append(msgs, [kind |-> "response", ok |-> ok, cb |-> c.cb])
            PROVE  \E m \in Msg : m \notin MsgsOf(s) /\ msgs' \in {msgs, Append(msgs, m)}
        <4> DEFINE m == [kind |-> "response", ok |-> ok, cb |-> c.cb]
        <4>1. m \in Msg
          BY <1>4, <3>3 DEF Msg
        <4>2. m \notin MsgsOf(s)
          BY <1>1, <1>10, <3>3 DEF MsgsOf, CmdsOf
        <4> QED BY <3>3, <4>1, <4>2
      <3> QED BY <1>3, <3>2, <3>3
    <2>6. \A X : m \notin X => (Has(Append(msgs, m), X) <=> Has(msgs, X))
      BY <1>1, AppendHas
    <2>7. m \notin BadMsgs(s)
      BY <1>7, <2>1
    <2>2. /\ Has(msgs', MsgsOf(s)) <=> Has(msgs, MsgsOf(s))
          /\ Has(msgs', BadMsgs(s)) <=> Has(msgs, BadMsgs(s))
      BY <2>1, <2>6, <2>7
    <2>3. Once(msgs, MsgsOf(s)) => Once(msgs', MsgsOf(s))
      BY <1>1, <2>1, AppendOnce
    <2>4. Flight(s) => SameFlight(s)
      BY <1>2, <1>6, <1>10, <2>2, <2>3 DEF Flight, SameFlight
    <2>5. InFlight(s)' <=> InFlight(s)
      BY <1>2, <1>6, <1>10, <2>2 DEF InFlight
    <2> QED BY <1>2, <1>5, <2>4, <2>5, FlightOn, GoneOn
  <1> QED BY <1>9, <1>10

LEMMA DownFlight ==
  ASSUME TypeOK, handleEngineDownEvent, FlightInv, GoneInv
  PROVE  FlightInv' /\ GoneInv'
  <1>1. /\ clients' = clients /\ crossed' = crossed /\ pendingMsgs' = pendingMsgs /\ msgs' = msgs
        /\ \A s : SameMaps(s) /\ SameClient(s)
        /\ toModem' = Append(toModem, [cmd |-> "open"])
    BY DEF handleEngineDownEvent, sessionVars, clientVars, SameMaps, SameClient
  <1>2. [cmd |-> "open"] \in Command /\ \A s : [cmd |-> "open"] \notin CmdsOf(s)
    BY DEF Command, CmdsOf
  <1>3. [kind |-> "engineUp"] \in Msg /\ \A s : [kind |-> "engineUp"] \notin MsgsOf(s)
    BY DEF Msg, MsgsOf
  <1>4. ASSUME NEW s \in Sessions
        PROVE  (Flight(s) => Flight(s)') /\ (GoneAt(s) => GoneAt(s)')
    BY <1>1, <1>2, <1>3, AddApart
  <1> QED BY <1>1, <1>4 DEF FlightInv, GoneInv

(* A client sends a command for the session x, which is crossed if the last*)
(* one is not answered yet.                                                *)
LEMMA SendFlight ==
  ASSUME TypeOK, NEW x \in Sessions, NEW what \in {"start", "update", "stop"},
         NEW m \in Msg, m.kind = what, m.s = x, maySend(x), send(x, what, m),
         what = "start" => req[x] = "none",
         FlightInv, GoneInv
  PROVE  FlightInv' /\ GoneInv'
  <1>1. /\ clients' = clients /\ pendingMsgs' = pendingMsgs /\ toModem' = toModem
        /\ msgs' = Append(msgs, m) /\ msgs \in Seq(Msg) /\ \A s : SameMaps(s)
        /\ \A s \in Sessions \ {x} : SameClient(s)
        /\ req'[x] = what /\ owed'[x] = owed[x] + 1
        /\ crossed \subseteq crossed' /\ (owed[x] # 0 => x \in crossed')
    BY DEF send, TypeOK, sessionVars, SameMaps, SameClient
  <1>2. Owner[x] \in clients
    BY DEF maySend
  <1>3. [cmd |-> "open"] \in Command /\ \A s : [cmd |-> "open"] \notin CmdsOf(s)
    BY DEF Command, CmdsOf
  <1> SUFFICES ASSUME NEW s \in Sessions \ crossed'
               PROVE  (Owner[s] \in clients => Flight(s)') /\ GoneAt(s)'
    BY <1>1 DEF FlightInv, GoneInv
  <1>4. /\ (Owner[s] \in clients => Flight(s)) /\ GoneAt(s)
        /\ s = x => owed[x] = 0
    BY <1>1 DEF FlightInv, GoneInv
  <1>5. CASE s # x
    <2>1. m \notin MsgsOf(s)
      BY <1>5 DEF MsgsOf
    <2> QED BY <1>1, <1>3, <1>4, <1>5, <2>1, AddApart
  <1>6. CASE s = x
    <2>1. /\ ~Has(msgs, MsgsOf(s)) /\ ~Has(pendingMsgs, MsgsOf(s)) /\ ~Has(toModem, CmdsOf(s))
          /\ Once(msgs, MsgsOf(s)) /\ Once(pendingMsgs, MsgsOf(s)) /\ Once(toModem, CmdsOf(s))
          /\ req[s] = "none" => Gone(s)
          /\ ~(s \in DOMAIN tb /\ s \in DOMAIN db)
      BY <1>2, <1>4, <1>6 DEF Flight, InFlight
    <2>2. Once(msgs', MsgsOf(s)) /\ m \in MsgsOf(s)
      BY <1>1, <1>6, <2>1, AppendOnce DEF MsgsOf
    <2>3. MsgOk(m, s)'
      BY <1>1, <1>6, <2>1 DEF MsgOk, Gone, SameMaps
    <2>4. BadMsgs(s)' \subseteq MsgsOf(s) /\ BadCmds(s)' \subseteq CmdsOf(s)
      BY BadIs DEF BadIn
    <2>5. m \notin BadMsgs(s)'
      BY <2>3 DEF BadMsgs
    <2>6. /\ ~Has(msgs, BadMsgs(s)') /\ ~Has(pendingMsgs, BadMsgs(s)')
          /\ ~Has(toModem, BadCmds(s)')
      BY <2>1, <2>4, HasMore
    <2>7. ~Has(msgs', BadMsgs(s)')
      BY <1>1, <2>5, <2>6, AppendHas
    <2>8. owed'[s] = 1 /\ req'[s] # "none"
      BY <1>1, <1>2, <1>6
    <2> QED BY <1>1, <2>1, <2>2, <2>6, <2>7, <2>8 DEF Flight, GoneAt, SameMaps
  <1> QED BY <1>5, <1>6

LEMMA NextFlight ==
  TypeOK /\ SaneInv /\ FlightInv /\ GoneInv /\ [Next]_vars => FlightInv' /\ GoneInv'
  <1> SUFFICES ASSUME TypeOK, SaneInv, FlightInv, GoneInv, [Next]_vars
               PROVE  FlightInv' /\ GoneInv'
    OBVIOUS
  <1>1. CASE ProcMsg
    BY <1>1, ProcMsgFlight
  <1>2. CASE LocApiStep
    BY <1>2, LocApiFlight
  <1>3. CASE handleEngineDownEvent
    BY <1>3, DownFlight
  <1>4. ASSUME NEW s \in Sessions, stop(s) PROVE FlightInv' /\ GoneInv'
    <2>1. [kind |-> "stop", s |-> s] \in Msg
      BY DEF Msg
    <2> QED BY <1>4, <2>1, SendFlight DEF stop
  <1>5. ASSUME NEW s \in Sessions, NEW o \in Options, startTracking(s, o)
        PROVE  FlightInv' /\ GoneInv'
    <2>1. [kind |-> "start", s |-> s, o |-> o] \in Msg
      BY DEF Msg
    <2> QED BY <1>5, <2>1, SendFlight DEF startTracking
  <1>6. ASSUME NEW s \in Sessions, NEW o \in Options, updateTrackingOptions(s, o)
        PROVE  FlightInv' /\ GoneInv'
    <2>1. [kind |-> "update", s |-> s, o |-> o] \in Msg
      BY DEF Msg
    <2> QED BY <1>6, <2>1, SendFlight DEF updateTrackingOptions
  <1>7. ASSUME NEW k \in Clients, removeClient(k) PROVE FlightInv' /\ GoneInv'
    <2>1. /\ clients' = clients /\ crossed' = crossed /\ pendingMsgs' = pendingMsgs
          /\ toModem' = toModem /\ msgs' = Append(msgs, [kind |-> "remove", c |-> k])
          /\ \A s : SameMaps(s) /\ SameClient(s)
      BY <1>7 DEF removeClient, sessionVars, clientVars, SameMaps, SameClient
    <2>2. [kind |-> "remove", c |-> k] \in Msg /\ \A s : [kind |-> "remove", c |-> k] \notin MsgsOf(s)
      BY DEF Msg, MsgsOf
    <2>3. [cmd |-> "open"] \in Command /\ \A s : [cmd |-> "open"] \notin CmdsOf(s)
      BY DEF Command, CmdsOf
    <2>4. ASSUME NEW s \in Sessions
          PROVE  (Flight(s) => Flight(s)') /\ (GoneAt(s) => GoneAt(s)')
      BY <2>1, <2>2, <2>3, AddApart
    <2> QED BY <2>1, <2>4 DEF FlightInv, GoneInv
  <1>8. CASE UNCHANGED vars
    <2>1. /\ clients' = clients /\ crossed' = crossed /\ pendingMsgs' = pendingMsgs
          /\ toModem' = toModem /\ msgs' = msgs
          /\ \A s : SameMaps(s) /\ SameClient(s)
      BY <1>8 DEF vars, sessionVars, clientVars, SameMaps, SameClient
    <2>2. [kind |-> "engineUp"] \in Msg /\ \A s : [kind |-> "engineUp"] \notin MsgsOf(s)
      BY DEF Msg, MsgsOf
    <2>3. [cmd |-> "open"] \in Command /\ \A s : [cmd |-> "open"] \notin CmdsOf(s)
      BY DEF Command, CmdsOf
    <2>4. ASSUME NEW s \in Sessions
          PROVE  (Flight(s) => Flight(s)') /\ (GoneAt(s) => GoneAt(s)')
      BY <2>1, <2>2, <2>3, AddApart
    <2> QED BY <2>1, <2>4 DEF FlightInv, GoneInv
  <1> QED BY <1>1, <1>2, <1>3, <1>4, <1>5, <1>6, <1>7, <1>8 DEF Next

LEMMA InitFlight == Init => FlightInv /\ GoneInv
  <1> SUFFICES ASSUME Init, NEW s \in Sessions PROVE Flight(s) /\ GoneAt(s)
    BY DEF FlightInv, GoneInv
  <1>1. \A X : ~Has(msgs, X) /\ ~Has(pendingMsgs, X) /\ Once(msgs, X) /\ Once(pendingMsgs, X)
    BY EmptyHas DEF Init
  <1>2. [cmd |-> "open"] \notin CmdsOf(s)
    BY DEF CmdsOf
  <1>3. ~Has(toModem, CmdsOf(s))
    BY <1>2 DEF Init, Has
  <1>4. Once(toModem, CmdsOf(s)) /\ ~Has(toModem, BadCmds(s))
    BY <1>3, BadIs DEF Once, Has, BadIn
  <1>5. req[s] = "none" /\ owed[s] = 0 /\ Gone(s)
    BY DEF Init, Gone
  <1> QED BY <1>1, <1>3, <1>4, <1>5 DEF Flight, GoneAt, InFlight, Gone

(* When all commands for a session are answered and the last was a stop    *)
(* that did not fail, the adapter has no such session any more: whatever   *)
(* the modem refuses, whatever is sent for other sessions meanwhile,       *)
(* restarts and clients that go included, if no command for this session   *)
(* was sent before the last was answered.                                  *)
THEOREM StoppedGone == Spec => []StoppedIsGone
  <1>1. Init => TypeOK /\ SaneInv /\ FlightInv /\ GoneInv
    BY InitType, InitSane, InitFlight
  <1>2. TypeOK /\ SaneInv /\ FlightInv /\ GoneInv /\ [Next]_vars
           => (TypeOK /\ SaneInv /\ FlightInv /\ GoneInv)'
    BY NextType, NextSane, NextFlight
  <1>3. GoneInv => StoppedIsGone
    BY DEF GoneInv, GoneAt, StoppedIsGone, Gone
  <1> QED BY <1>1, <1>2, <1>3, PTL DEF Spec

-----------------------------------------------------------------------------
(* The modem is opened once after it went down, and runs nothing till then.*)
DownInv == ~modemUp => fix = Off /\ engDb = {}
PowerInv == OpenInv /\ DownInv

LEMMA NextPower == TypeOK /\ SaneInv /\ PowerInv /\ [Next]_vars => PowerInv'
  <1> SUFFICES ASSUME TypeOK, SaneInv, PowerInv, [Next]_vars PROVE PowerInv'
    OBVIOUS
  <1>0. toModem \in Seq(Command)
    BY DEF TypeOK
  <1>1. CASE ProcMsg
    <2>1. HandledType /\ Head(msgs) \in SaneMsgs /\ Handle(Head(msgs))
      BY <1>1, TypeSplit DEF ProcMsg, SaneInv
    <2>2. Adds
      BY <2>1, HandleSane DEF SaneInv
    <2> QED BY <1>0, <1>1, <2>2, AddsOpens DEF PowerInv, OpenInv, DownInv, ProcMsg, modemVars
  <1>2. CASE LocApiStep
    <2> DEFINE c == Head(toModem)
    <2>1. toModem # <<>> /\ toModem' = Tail(toModem) /\ c \in Command
      BY <1>0, <1>2 DEF LocApiStep
    <2>2. /\ Once(toModem', Opens) /\ (c \in Opens => ~Has(toModem', Opens))
          /\ Has(toModem, Opens) <=> c \in Opens \/ Has(toModem', Opens)
      BY <1>0, <2>1, TailOnce, TailHas DEF PowerInv, OpenInv
    <2> HIDE DEF c
    <2>3. CASE c.cmd = "open" /\ Open
      <3>1. c \in Opens
        BY <2>1, <2>3 DEF Opens
      <3> QED BY <2>2, <2>3, <3>1 DEF Open, PowerInv, OpenInv, DownInv
    <2>4. ASSUME NEW ok \in BOOLEAN, Execute(c, ok) PROVE PowerInv'
      <3>1. modemUp' = modemUp /\ (~modemUp => fix' = fix /\ engDb' = engDb)
        BY <2>4 DEF Execute
      <3> QED BY <2>2, <3>1 DEF PowerInv, OpenInv, DownInv
    <2> QED BY <1>2, <2>3, <2>4 DEF LocApiStep, c
  <1>3. CASE handleEngineDownEvent
    <2>1. Once(toModem', Opens)
      BY <1>0, <1>3, AppendOnce DEF handleEngineDownEvent, PowerInv, OpenInv
    <2> QED BY <1>3, <2>1 DEF handleEngineDownEvent, PowerInv, OpenInv, DownInv
  <1>4. CASE UNCHANGED <<toModem, modemVars>>
    BY <1>4 DEF modemVars, PowerInv, OpenInv, DownInv
  <1> QED BY <1>1, <1>2, <1>3, <1>4 DEF Next, stop, startTracking, updateTrackingOptions, send,
                                       removeClient, vars

-----------------------------------------------------------------------------
(* No fix without a session.  The modem will run none once it has executed *)
(* the commands that wait.                                                 *)
StartFixes == {c \in Command : c.cmd = "startFix"}
StopFixes == {c \in Command : c.cmd = "stopFix"}
Idle(q, f) == \/ Last(q, FixCmds, StopFixes)
              \/ ~Has(q, StartFixes) /\ f = Off
IdleInv == DOMAIN tb = {} /\ ~leftOn => Idle(toModem, fix)

(* The messages that may forget the fix, and what all others do when the   *)
(* last time based session goes.                                           *)
Late(m) == \/ DOMAIN tb = {} \/ m.kind = "response"
           \/ m.kind = "update" /\ ~m.o.dist
FixKept(m) == DOMAIN tb' = {} /\ (Late(m) => Idle(toModem, fix)) => Idle(toModem', fix)

LEMMA FixSets == /\ FixCmds = StartFixes \cup StopFixes /\ StartFixes \cap StopFixes = {}
                 /\ FixCmds \subseteq Command
  BY DEF FixCmds, StartFixes, StopFixes

LEMMA IdleAppend ==
  ASSUME NEW q \in Seq(Command), NEW c, NEW f
  PROVE  /\ c \in StopFixes => Idle(Append(q, c), f)
         /\ c \notin FixCmds /\ Idle(q, f) => Idle(Append(q, c), f)
  <1>1. Has(Append(q, c), StartFixes) <=> Has(q, StartFixes) \/ c \in StartFixes
    BY AppendHas
  <1>2. /\ c \in StopFixes => Last(Append(q, c), FixCmds, StopFixes)
        /\ c \notin FixCmds /\ Last(q, FixCmds, StopFixes) => Last(Append(q, c), FixCmds, StopFixes)
    BY AppendLast
  <1> QED BY <1>1, <1>2, FixSets DEF Idle

LEMMA IdleConcat ==
  ASSUME NEW q \in Seq(Command), NEW z \in Seq(Command \ FixCmds), NEW f, Idle(q, f)
  PROVE  Idle(q \o z, f)
  <1>1. z \in Seq(Command) /\ ~Has(z, FixCmds) /\ ~Has(z, StartFixes)
    BY HasIn, FixSets
  <1> QED BY <1>1, ConcatHas, ConcatLast DEF Idle

(* A call that is not about the fix, or stops it.                          *)
LEMMA IdleCall ==
  ASSUME toModem \in Seq(Command), NEW c, call(c), c = NoCall \/ c \notin FixCmds,
         Idle(toModem, fix)
  PROVE  Idle(toModem', fix)
  BY IdleAppend DEF call, queued

LEMMA DbCallKept ==
  ASSUME HandledType, NEW cb, NEW m, DOMAIN tb' = {} => Late(m),
         \/ call(startDistanceBasedTracking(cb)) \/ call(stopDistanceBasedTracking(cb))
         \/ UNCHANGED toModem
  PROVE  FixKept(m)
  <1>1. /\ startDistanceBasedTracking(cb) \notin FixCmds
        /\ stopDistanceBasedTracking(cb) \notin FixCmds
    BY DEF startDistanceBasedTracking, stopDistanceBasedTracking, FixCmds
  <1>2. UNCHANGED toModem => FixKept(m)
    BY DEF FixKept
  <1> QED BY <1>1, <1>2, IdleCall DEF FixKept, HandledType

LEMMA StopsFix ==
  ASSUME tb \in SessionMap, toModem \in Seq(Command), NEW s \in DOMAIN tb,
         NEW c \in stopTimeBasedTrackingMultiplex(s), DOMAIN tb \ {s} = {}
  PROVE  queued(c) \in Seq(Command) /\ Idle(queued(c), fix)
  <1>1. c \in Command /\ c \in StopFixes
    BY StopCalls DEF StopFixes
  <1>2. queued(c) = Append(toModem, c)
    BY <1>1, NoCallIs DEF queued
  <1> QED BY <1>1, <1>2, IdleAppend

LEMMA StartKept ==
  ASSUME HandledType, NEW s \in Sessions, NEW o \in Options, NEW m, MsgStartTracking(s, o)
  PROVE  FixKept(m)
  <1>1. CASE UNCHANGED <<tb, toModem>>
    BY <1>1, DbCallKept DEF Late
  <1>2. CASE /\ o.dist /\ DistanceSupported /\ saveTrackingSession(s, o)
             /\ call(startDistanceBasedTracking(do("started", s)))
    <2>1. tb' = tb
      BY <1>2, SaveAt
    <2> QED BY <1>2, <2>1, DbCallKept DEF Late
  <1>3. CASE ~(o.dist /\ DistanceSupported) /\ startTimeBased(s, o)
    <2>1. s \in DOMAIN tb'
      BY <1>3, SaveAt DEF startTimeBased
    <2> QED BY <2>1 DEF FixKept
  <1> QED BY <1>1, <1>2, <1>3 DEF MsgStartTracking

LEMMA UpdateKept ==
  ASSUME HandledType, NEW m \in Msg, m.kind = "update", MsgUpdateTracking(m.s, m.o)
  PROVE  FixKept(m)
  <1> DEFINE s == m.s
             o == m.o
  <1>1. CASE UNCHANGED <<tb, toModem>>
    BY <1>1, DbCallKept DEF Late
  <1>2. CASE isTimeBasedTrackingSession(s) /\ timeToDistance(s, o)
    <2> DEFINE d == startDistanceBasedTracking(do("none", s))
    <2>1. PICK c \in stopTimeBasedTrackingMultiplex(s) :
             /\ toModem' = Append(queued(c), d)
             /\ \/ tb' = Restrict(tb, DOMAIN tb \ {s})
                \/ tb' = put(tb, s, o)
      BY <1>2 DEF timeToDistance
    <2>2. CASE tb' = put(tb, s, o)
      BY <2>2 DEF put, FixKept
    <2>3. CASE tb' = Restrict(tb, DOMAIN tb \ {s})
      <3> SUFFICES ASSUME DOMAIN tb \ {s} = {} PROVE Idle(toModem', fix)
        BY <2>3 DEF Restrict, FixKept
      <3>1. queued(c) \in Seq(Command) /\ Idle(queued(c), fix)
        BY <1>2, StopsFix DEF isTimeBasedTrackingSession, HandledType
      <3>2. d \notin FixCmds
        BY DEF startDistanceBasedTracking, FixCmds
      <3> QED BY <2>1, <3>1, <3>2, IdleAppend
    <2> QED BY <2>1, <2>2, <2>3
  <1>3. CASE ~o.dist /\ call(stopDistanceBasedTracking(doWith("distanceToTime", s, o)))
    BY <1>3, DbCallKept DEF Late
  <1>4. CASE ~o.dist /\ saveTrackingSession(s, o)
    <2>1. s \in DOMAIN tb'
      BY <1>4, SaveAt
    <2> QED BY <2>1 DEF FixKept
  <1>5. CASE /\ call(stopDistanceBasedTracking(doWith("restartDistance", s, o)))
             /\ UNCHANGED <<tb, db>>
    BY <1>5, DbCallKept DEF Late
  <1> QED BY <1>1, <1>2, <1>3, <1>4, <1>5 DEF MsgUpdateTracking

LEMMA StopKept ==
  ASSUME HandledType, NEW s \in Sessions, NEW m, MsgStopTracking(s)
  PROVE  FixKept(m)
  <1>1. CASE /\ isTimeBasedTrackingSession(s)
             /\ \E c \in stopTimeBasedTrackingMultiplex(s) : call(c) /\ eraseTrackingSession(s)
    <2>1. PICK c \in stopTimeBasedTrackingMultiplex(s) : call(c) /\ eraseTrackingSession(s)
      BY <1>1
    <2>2. s \in DOMAIN tb /\ DOMAIN tb' = DOMAIN tb \ {s}
      BY <1>1, <2>1, EraseType DEF isTimeBasedTrackingSession, HandledType
    <2>3. DOMAIN tb' = {} => Idle(queued(c), fix)
      BY <2>2, StopsFix DEF HandledType
    <2> QED BY <2>1, <2>3 DEF FixKept, call
  <1>2. CASE /\ call(stopDistanceBasedTracking(do("stopDistance", s))) /\ UNCHANGED <<tb, db>>
    BY <1>2, DbCallKept DEF Late
  <1>3. CASE UNCHANGED <<tb, toModem>>
    BY <1>3, DbCallKept DEF Late
  <1> QED BY <1>1, <1>2, <1>3 DEF MsgStopTracking

(* The client that goes, and restartSessions, ask for a fix only for the   *)
(* sessions there are.                                                     *)
LEMMA AsksKept ==
  ASSUME HandledType, NEW a \in Seq(Command), NEW b \in Seq(Command),
         toModem' = (toModem \o a) \o b, tb' = tb, NEW m,
         DOMAIN tb = {} => a = <<>>,
         \A i \in 1 .. Len(b) : b[i] \notin FixCmds
  PROVE  FixKept(m)
  <1> SUFFICES ASSUME DOMAIN tb = {}, Idle(toModem, fix) PROVE Idle(toModem', fix)
    BY DEF FixKept, Late
  <1>1. toModem' = toModem \o b
    BY DEF HandledType
  <1>2. b \in Seq(Command \ FixCmds)
    OBVIOUS
  <1> QED BY <1>1, <1>2, IdleConcat DEF HandledType

LEMMA ResponseKept ==
  ASSUME HandledType, NEW ok \in BOOLEAN, NEW cb \in Closure, Sane(cb), Response(ok, cb),
         NEW m, m.kind = "response"
  PROVE  FixKept(m)
  <1>1. Late(m)
    BY DEF Late
  <1>2. CASE UNCHANGED toModem
    BY <1>1, <1>2, DbCallKept
  <1>3. CASE cb.do = "distanceToTime" /\ startTimeBased(cb.s, cb.o)
    <2>1. cb.s \in DOMAIN tb'
      BY <1>3, SaveAt DEF startTimeBased, Sane
    <2> QED BY <2>1 DEF FixKept
  <1>4. CASE call(startDistanceBasedTracking(doWith("restarted", cb.s, cb.o)))
    BY <1>1, <1>4, DbCallKept
  <1> QED BY <1>2, <1>3, <1>4 DEF Response

LEMMA HandleKept ==
  ASSUME HandledType, NEW m \in SaneMsgs, Handle(m)
  PROVE  FixKept(m)
  <1>0. m \in Msg
    BY DEF SaneMsgs
  <1>1. CASE putAside(m)
    BY <1>1, DbCallKept DEF putAside, sessionVars, Late
  <1>2. CASE m.kind = "start" /\ MsgStartTracking(m.s, m.o)
    BY <1>0, <1>2, MsgFields, StartKept
  <1>3. CASE m.kind = "update" /\ MsgUpdateTracking(m.s, m.o)
    BY <1>0, <1>3, UpdateKept
  <1>4. CASE m.kind = "stop" /\ MsgStopTracking(m.s)
    BY <1>0, <1>4, MsgFields, StopKept
  <1>5. CASE m.kind = "remove" /\ MsgRemoveClient(m.c)
    <2>1. PICK a \in Seq(Command), b \in Seq(Command) : RemoveAsks(m.c, a, b)
      BY <1>5, RemoveCalls
    <2>2. DOMAIN tb = {} => a = <<>>
      <3>1. DOMAIN tb = {} => Len(a) = 0
        BY <2>1 DEF RemoveAsks
      <3> QED BY <3>1
    <2>3. ASSUME NEW i \in 1 .. Len(b) PROVE b[i] \notin FixCmds
      <3>1. PICK s \in DOMAIN db : b[i] = stopDistanceBasedTracking(do("clientGone", s))
        BY <2>1 DEF RemoveAsks
      <3> QED BY <3>1 DEF stopDistanceBasedTracking, FixCmds
    <2>4. toModem' = (toModem \o a) \o b /\ tb' = tb
      BY <1>5, <2>1 DEF RemoveAsks, MsgRemoveClient
    <2> QED BY <2>2, <2>3, <2>4, AsksKept
  <1>6. CASE m.kind = "engineUp" /\ MsgHandleEngineUpEvent
    <2>1. PICK a \in Seq(Command), b \in Seq(Command) :
             /\ toModem' = (toModem \o a) \o b
             /\ DOMAIN tb = {} => a = <<>>
             /\ \A i \in 1 .. Len(b) : \E s \in DOMAIN db :
                   b[i] = startDistanceBasedTracking(do("none", s))
      BY <1>6, RestartCalls DEF MsgHandleEngineUpEvent
    <2>2. ASSUME NEW i \in 1 .. Len(b) PROVE b[i] \notin FixCmds
      <3>1. PICK s \in DOMAIN db : b[i] = startDistanceBasedTracking(do("none", s))
        BY <2>1
      <3> QED BY <3>1 DEF startDistanceBasedTracking, FixCmds
    <2>3. tb' = tb
      BY <1>6 DEF MsgHandleEngineUpEvent, sessionVars
    <2> QED BY <2>1, <2>2, <2>3, AsksKept
  <1>7. CASE m.kind = "response" /\ Response(m.ok, m.cb)
    <2>1. m.ok \in BOOLEAN /\ m.cb \in Closure /\ Sane(m.cb)
      BY <1>0, <1>7, MsgFields DEF SaneMsgs
    <2> QED BY <1>7, <2>1, ResponseKept
  <1> QED BY <1>1, <1>2, <1>3, <1>4, <1>5, <1>6, <1>7 DEF Handle

(* The modem takes a command; what it refuses while it is up is leftOn.    *)
LEMMA ModemIdle ==
  ASSUME TypeOK, DownInv, IdleInv, LocApiStep
  PROVE  IdleInv'
  <1> DEFINE c == Head(toModem)
  <1>1. /\ toModem \in Seq(Command) /\ toModem # <<>> /\ toModem' = Tail(toModem) /\ c \in Command
        /\ tb' = tb
    BY DEF TypeOK, LocApiStep, sessionVars
  <1>2. /\ Has(toModem, StartFixes) <=> c \in StartFixes \/ Has(toModem', StartFixes)
        /\ Last(toModem, FixCmds, StopFixes) <=>
              Last(toModem', FixCmds, StopFixes) \/ (c \in StopFixes /\ ~Has(toModem', FixCmds))
        /\ ~Has(toModem', FixCmds) => ~Has(toModem', StartFixes)
    BY <1>1, TailHas, TailLast, HasMore, FixSets
  <1> HIDE DEF c
  <1> SUFFICES ASSUME DOMAIN tb = {}, ~leftOn' PROVE Idle(toModem', fix')
    BY <1>1 DEF IdleInv
  <1>3. CASE c.cmd = "open" /\ Open /\ leftOn' = leftOn
    <2>1. c \notin StopFixes /\ fix' = fix
      BY <1>3 DEF Open, StopFixes
    <2> QED BY <1>2, <1>3, <2>1 DEF IdleInv, Idle
  <1>4. ASSUME NEW ok \in BOOLEAN, Execute(c, ok) PROVE Idle(toModem', fix')
    <2>1. ~leftOn /\ (c \in StopFixes => ok \/ ~modemUp)
      BY <1>4 DEF Execute, StopFixes
    <2>2. /\ c \in StopFixes => fix' = Off
          /\ c \notin FixCmds => fix' = fix
      BY <1>1, <1>4, <2>1 DEF Execute, StopFixes, FixCmds, DownInv
    <2> QED BY <1>2, <2>1, <2>2, FixSets DEF IdleInv, Idle
  <1> QED BY <1>3, <1>4 DEF LocApiStep, c

LEMMA NextIdle == TypeOK /\ SaneInv /\ DownInv /\ IdleInv /\ [Next]_vars => IdleInv'
  <1> SUFFICES ASSUME TypeOK, SaneInv, DownInv, IdleInv, [Next]_vars PROVE IdleInv'
    OBVIOUS
  <1>1. CASE ProcMsg
    <2> DEFINE m == Head(msgs)
    <2>1. HandledType /\ m \in SaneMsgs /\ Handle(m)
      BY <1>1, TypeSplit DEF ProcMsg, SaneInv
    <2>2. FixKept(m)
      BY <2>1, HandleKept
    <2>3. fix' = fix /\ leftOn' = (DOMAIN tb' = {} /\ (leftOn \/ forgets(m)))
      BY <1>1 DEF ProcMsg, modemVars, remember
    <2> SUFFICES ASSUME DOMAIN tb' = {}, ~leftOn, ~forgets(m), Late(m)
                 PROVE  Idle(toModem, fix)
      BY <2>2, <2>3 DEF IdleInv, FixKept
    <2>4. CASE DOMAIN tb = {}
      BY <2>4 DEF IdleInv
    <2>5. CASE DOMAIN tb # {}
      <3>1. fix = Off /\ \A i \in DOMAIN toModem : toModem[i].cmd # "startFix"
        BY <2>5 DEF Late, forgets
      <3>2. DOMAIN toModem = 1 .. Len(toModem)
        BY DEF TypeOK
      <3>3. ~Has(toModem, StartFixes)
        BY <3>1, <3>2 DEF Has, StartFixes
      <3> QED BY <3>1, <3>3 DEF Idle
    <2> QED BY <2>4, <2>5
  <1>2. CASE LocApiStep
    BY <1>2, ModemIdle
  <1>3. CASE handleEngineDownEvent
    <2>1. [cmd |-> "open"] \notin FixCmds
      BY DEF FixCmds
    <2>2. /\ UNCHANGED <<tb, leftOn>> /\ fix' = Off
          /\ toModem' = Append(toModem, [cmd |-> "open"])
      BY <1>3 DEF handleEngineDownEvent, sessionVars
    <2>3. Idle(toModem, fix) => Idle(toModem, Off)
      BY DEF Idle
    <2> QED BY <2>1, <2>2, <2>3, IdleAppend DEF IdleInv, TypeOK
  <1>4. CASE UNCHANGED <<tb, toModem, fix, leftOn>>
    BY <1>4 DEF IdleInv
  <1> QED BY <1>1, <1>2, <1>3, <1>4 DEF Next, stop, startTracking, updateTrackingOptions, send,
                                       removeClient, vars, sessionVars, modemVars

-----------------------------------------------------------------------------
(* Distance based sessions.  The modem will run s when the last command    *)
(* about it starts it; it fails what comes before it is opened.            *)
DbStarts(s) == {c \in Command : c.cmd = "startDb" /\ c.cb.s = s}
DbAll(s) == DbCmds(s) \cup Opens
Runs(q, e, s) == \/ Last(q, DbAll(s), DbStarts(s))
                 \/ ~Has(q, DbAll(s)) /\ s \in e
Alive == modemUp \/ Has(toModem, Opens)

(* A session stays in the map while the modem stops it.                    *)
StopDo == {"stopDistance", "restartDistance"}
Stops(s) == {m \in Msg : m.kind = "response" /\ m.cb.do \in StopDo /\ m.cb.s = s}
StopCmds(s) == {c \in Command : c.cmd # "open" /\ c.cb.do \in StopDo /\ c.cb.s = s}
Stopping(s) == Has(msgs, Stops(s)) \/ Has(toModem, StopCmds(s))

(* A command of s has failed, or will because the modem is not open yet.   *)
FailedOf(s) == {m \in Msg : m.kind = "response" /\ ~m.ok /\ m.cb.s = s}
Ahead(s) == Has(toModem, CmdsOf(s)) /\ Last(toModem, CmdsOf(s), Opens)

(* What the modem will run is in the map; what is in the map is run, once  *)
(* restartSessions has followed the last start of the modem; and a command *)
(* has failed only before a restart.                                       *)
DbSafe(s) == Alive /\ Runs(toModem, engDb, s) =>
                s \in DOMAIN db /\ ~Stopping(s) /\ ~Has(msgs, FailedOf(s)) /\ ~Ahead(s)
DbLive(s) == modemUp /\ ~Has(msgs, Ups) /\ s \in DOMAIN db /\ ~Stopping(s)
                => Runs(toModem, engDb, s)
Honest(s) == modemUp => ~Has(msgs, FailedOf(s)) \/ Last(msgs, FailedOf(s), Ups)
DbAt(s) == DbSafe(s) /\ DbLive(s) /\ Honest(s)
DbInv == DistanceSupported =>
            \A s \in Sessions \ (crossed \cup astray) : Owner[s] \in clients => DbAt(s)

LEMMA RunsAppend ==
  ASSUME NEW q \in Seq(Command), NEW c, NEW e, NEW s
  PROVE  /\ c \in DbStarts(s) => Runs(Append(q, c), e, s)
         /\ c \in DbAll(s) /\ c \notin DbStarts(s) => ~Runs(Append(q, c), e, s)
         /\ c \notin DbAll(s) => (Runs(Append(q, c), e, s) <=> Runs(q, e, s))
  <1> DEFINE X == DbAll(s)
             Y == DbStarts(s)
  <1>1. Y \subseteq X
    BY DEF DbStarts, DbCmds, DbAll
  <1>2. Has(Append(q, c), X) <=> Has(q, X) \/ c \in X
    BY AppendHas
  <1>3. /\ c \in Y => Last(Append(q, c), X, Y)
        /\ c \notin X /\ Last(q, X, Y) => Last(Append(q, c), X, Y)
        /\ c \notin Y /\ Last(Append(q, c), X, Y) => c \notin X /\ Last(q, X, Y)
    BY AppendLast
  <1> QED BY <1>1, <1>2, <1>3 DEF Runs

(* The commands about the fix, which leave the distance based sessions.    *)
FixAsks == {c \in FixCmds : c.cb.do \notin StopDo}

LEMMA StopsOf ==
  ASSUME NEW s
  PROVE  /\ Stops(s) \subseteq MsgsOf(s) /\ StopCmds(s) \subseteq CmdsOf(s)
         /\ FailedOf(s) \subseteq MsgsOf(s)
         /\ Ups \cap MsgsOf(s) = {}
         /\ \A c \in FixAsks : c \notin DbAll(s) /\ c \notin StopCmds(s) /\ c \notin Opens
         /\ DbStarts(s) \subseteq DbCmds(s) /\ DbCmds(s) \subseteq DbAll(s)
         /\ \A c \in Opens : /\ c \in DbAll(s) /\ c \notin DbStarts(s)
                             /\ c \notin CmdsOf(s) /\ c \notin StopCmds(s)
         /\ \A d \in DbCmds(s) : /\ d \in DbStarts(s) <=> d.cmd = "startDb"
                                 /\ d \notin Opens /\ d \in Command
  BY DEF Stops, StopCmds, FailedOf, MsgsOf, CmdsOf, DbCmds, DbAll, DbStarts, FixAsks, FixCmds,
         StopDo, Opens, Ups

-----------------------------------------------------------------------------
(* What a step that is not about s does to the two queues.                 *)
MsgsOn(s) ==
    /\ Has(msgs', FailedOf(s)) <=> Has(msgs, FailedOf(s))
    /\ Has(msgs', Stops(s)) <=> Has(msgs, Stops(s))
    /\ Has(msgs', FailedOf(s)) /\ Last(msgs, FailedOf(s), Ups) => Last(msgs', FailedOf(s), Ups)
ModemOn(s) ==
    /\ Runs(toModem', engDb', s) <=> Runs(toModem, engDb, s)
    /\ Has(toModem', StopCmds(s)) <=> Has(toModem, StopCmds(s))
    /\ Has(toModem', Opens) <=> Has(toModem, Opens)
    /\ Ahead(s)' => Ahead(s)

LEMMA DbOn ==
  ASSUME NEW s, DbAt(s), MsgsOn(s), ModemOn(s), modemUp' = modemUp,
         s \in DOMAIN db' <=> s \in DOMAIN db,
         s \in DOMAIN db /\ Has(msgs, Ups) => Has(msgs', Ups)
  PROVE  DbAt(s)'
  <1>1. (Alive' <=> Alive) /\ (Stopping(s)' <=> Stopping(s))
    BY DEF Alive, Stopping, MsgsOn, ModemOn
  <1>2. DbSafe(s)'
    BY <1>1 DEF DbAt, DbSafe, MsgsOn, ModemOn
  <1>3. DbLive(s)'
    BY <1>1 DEF DbAt, DbLive, ModemOn
  <1>4. Honest(s)'
    BY DEF DbAt, Honest, MsgsOn
  <1> QED BY <1>2, <1>3, <1>4 DEF DbAt

LEMMA TailOn ==
  ASSUME msgs \in Seq(Msg), msgs # <<>>, NEW s, Head(msgs) \notin MsgsOf(s),
         \/ msgs' = Tail(msgs)
         \/ pendingMsgs \in Seq(Aside) /\ msgs' = Tail(msgs) \o pendingMsgs
  PROVE  MsgsOn(s) /\ (Has(msgs, Ups) => Head(msgs) \in Ups \/ Has(msgs', Ups))
  <1> DEFINE F == FailedOf(s)
             t == Tail(msgs)
  <1>1. /\ \A X : Has(msgs, X) <=> Head(msgs) \in X \/ Has(t, X)
        /\ Last(msgs, F, Ups) <=> Last(t, F, Ups) \/ (Head(msgs) \in Ups /\ ~Has(t, F))
    BY TailHas, TailLast
  <1>2. Head(msgs) \notin F /\ Head(msgs) \notin Stops(s)
    BY StopsOf
  <1>3. ASSUME pendingMsgs \in Seq(Aside)
        PROVE  LET u == t \o pendingMsgs IN
               /\ Has(u, F) <=> Has(t, F)
               /\ Has(u, Stops(s)) <=> Has(t, Stops(s))
               /\ Has(u, Ups) <=> Has(t, Ups)
               /\ Last(t, F, Ups) => Last(u, F, Ups)
    <2>1. Aside \subseteq Msg /\ F \cap Aside = {} /\ Stops(s) \cap Aside = {} /\ Ups \cap Aside = {}
      BY DEF Aside, FailedOf, Stops, Ups
    <2>2. ~Has(pendingMsgs, F) /\ ~Has(pendingMsgs, Stops(s)) /\ ~Has(pendingMsgs, Ups)
      BY <1>3, <2>1, HasIn
    <2>3. pendingMsgs \in Seq(Msg) /\ t \in Seq(Msg)
      BY <1>3, <2>1, SeqTypes
    <2> QED BY <2>2, <2>3, ConcatHas, ConcatLast
  <1> HIDE DEF t, F
  <1>4. CASE msgs' = t
    BY <1>1, <1>2, <1>4 DEF MsgsOn, F
  <1>5. CASE pendingMsgs \in Seq(Aside) /\ msgs' = t \o pendingMsgs
    BY <1>1, <1>2, <1>3, <1>5 DEF MsgsOn, F
  <1> QED BY <1>4, <1>5 DEF t

(* A message comes that says of s neither that a command failed nor that   *)
(* it was stopped.                                                         *)
LEMMA AppendOn ==
  ASSUME msgs \in Seq(Msg), NEW s, NEW m, m \notin FailedOf(s), m \notin Stops(s),
         msgs' = Append(msgs, m)
  PROVE  MsgsOn(s) /\ (Has(msgs, Ups) => Has(msgs', Ups))
  BY AppendHas, AppendLast DEF MsgsOn

LEMMA ForeignOn ==
  ASSUME toModem \in Seq(Command), NEW s, Foreign(s), engDb' = engDb
  PROVE  ModemOn(s)
  <1>1. PICK z \in Seq(Neutral(s)) : toModem' = toModem \o z
    BY DEF Foreign
  <1>2. /\ Neutral(s) \subseteq Command /\ DbAll(s) \cap Neutral(s) = {} /\ DbStarts(s) \cap Neutral(s) = {}
        /\ StopCmds(s) \cap Neutral(s) = {} /\ Opens \cap Neutral(s) = {}
        /\ CmdsOf(s) \cap Neutral(s) = {}
    BY StopsOf DEF Neutral, DbAll
  <1>3. z \in Seq(Command) /\ \A X : X \cap Neutral(s) = {} => ~Has(z, X)
    BY <1>2, HasIn
  <1> HIDE DEF Neutral
  <1>4. \A X : ~Has(z, X) => (Has(toModem', X) <=> Has(toModem, X))
    BY <1>1, <1>3, ConcatHas
  <1>5. \A X, Y : ~Has(z, X) /\ ~Has(z, Y) => (Last(toModem', X, Y) <=> Last(toModem, X, Y))
    BY <1>1, <1>3, ConcatLast, ConcatBack
  <1>6. Runs(toModem', engDb', s) <=> Runs(toModem, engDb, s)
    BY <1>2, <1>3, <1>4, <1>5 DEF Runs
  <1>7. Ahead(s)' <=> Ahead(s)
    BY <1>2, <1>3, <1>4, <1>5 DEF Ahead
  <1> QED BY <1>2, <1>3, <1>4, <1>6, <1>7 DEF ModemOn

(* The engine that comes up asks about the distance based sessions of the  *)
(* map only.                                                               *)
LEMMA EngineUpForeign ==
  ASSUME HandledType, NEW s \in Sessions, s \notin DOMAIN db, MsgHandleEngineUpEvent
  PROVE  Foreign(s)
  <1>1. PICK a \in Seq(Command), b \in Seq(Command) :
            /\ toModem' = (toModem \o a) \o b
            /\ a = <<>> \/ \E c \in Command : a = <<c>> /\ c.cmd = "startFix" /\ c.cb.do = "none"
            /\ \A i \in 1 .. Len(b) : \E x \in DOMAIN db :
                  b[i] = startDistanceBasedTracking(do("none", x))
    BY RestartCalls DEF MsgHandleEngineUpEvent
  <1>2. a \in Seq(Neutral(s))
    <2>1. CASE a = <<>>
      BY <2>1
    <2>2. ASSUME NEW c \in Command, a = <<c>>, c.cmd = "startFix", c.cb.do = "none"
          PROVE  a \in Seq(Neutral(s))
      <3>1. c \in Neutral(s)
        BY <2>2 DEF Neutral, CmdsOf, DbCmds, Opens
      <3> QED BY <2>2, <3>1
    <2> QED BY <1>1, <2>1, <2>2
  <1>3. ASSUME NEW i \in 1 .. Len(b) PROVE b[i] \in Neutral(s)
    <2>1. PICK x \in DOMAIN db : b[i] = startDistanceBasedTracking(do("none", x))
      BY <1>1
    <2>2. x \in Sessions /\ x # s
      BY MapType DEF HandledType
    <2>3. b[i] \in CmdsFor(x)
      BY <2>1, <2>2, ClosureTypes, SimpleFor
    <2> QED BY <2>2, <2>3, ForNeutral
  <1>4. b \in Seq(Neutral(s))
    BY <1>3
  <1>5. a \o b \in Seq(Neutral(s)) /\ toModem' = toModem \o (a \o b)
    BY <1>1, <1>2, <1>4 DEF HandledType
  <1>6. UNCHANGED <<tb, db, clientVars>>
    BY DEF MsgHandleEngineUpEvent, sessionVars
  <1> QED BY <1>5, <1>6 DEF Foreign, SameSession, SameMaps, SameClient, clientVars

(* It starts those of the map, which no command is in flight for.          *)
LEMMA EngineUpDb ==
  ASSUME TypeOK, SaneInv, ProcMsg, Head(msgs) \in Ups, NEW s \in DOMAIN db, ~InFlight(s)
  PROVE  DbAt(s)'
  <1> DEFINE m == Head(msgs)
             t == Tail(msgs)
  <1>1. /\ msgs \in Seq(Msg) /\ msgs # <<>> /\ t \in Seq(Msg) /\ pendingMsgs \in Seq(Msg)
        /\ toModem \in Seq(Command) /\ HandledType /\ s \in Sessions
        /\ MsgHandleEngineUpEvent /\ msgs' = t \o pendingMsgs
    BY TypeSplit, MapType, SeqTypes DEF TypeOK, HandledType, ProcMsg, Handle, Ups
  <1>2. ~Has(msgs, MsgsOf(s)) /\ ~Has(pendingMsgs, MsgsOf(s)) /\ ~Has(toModem, CmdsOf(s))
    BY DEF InFlight
  <1>3. ~Has(msgs', MsgsOf(s))
    BY <1>1, <1>2, TailHas, ConcatHas
  <1>4. ~Has(toModem', CmdsOf(s))
    BY <1>1, <1>2, EngineUpApart, ModemApart DEF Apart
  <1>5. PICK a \in Seq(Command), b \in Seq(Command) :
            /\ toModem' = (toModem \o a) \o b
            /\ \A i \in 1 .. Len(b) : \E x \in DOMAIN db :
                  b[i] = startDistanceBasedTracking(do("none", x))
            /\ \A x \in DOMAIN db : \E i \in 1 .. Len(b) :
                  /\ b[i] = startDistanceBasedTracking(do("none", x))
                  /\ \A j \in 1 .. Len(b) : b[j] = b[i] => j = i
    BY <1>1, RestartCalls DEF MsgHandleEngineUpEvent
  <1>6. Last(b, DbAll(s), DbStarts(s))
    <2>1. PICK i \in 1 .. Len(b) :
             /\ b[i] = startDistanceBasedTracking(do("none", s))
             /\ \A j \in 1 .. Len(b) : b[j] = b[i] => j = i
      BY <1>5
    <2>2. \A x \in Sessions : LET d == startDistanceBasedTracking(do("none", x)) IN
             d \in Command /\ d.cmd = "startDb" /\ d.cb.s = x
      BY ClosureTypes, CommandTypes DEF startDistanceBasedTracking
    <2>3. b[i] \in DbStarts(s)
      BY <1>1, <2>1, <2>2 DEF DbStarts
    <2>4. ASSUME NEW j \in i + 1 .. Len(b), b[j] \in DbAll(s) PROVE FALSE
      <3>1. j \in 1 .. Len(b) /\ j # i
        OBVIOUS
      <3>2. PICK x \in DOMAIN db : b[j] = startDistanceBasedTracking(do("none", x))
        BY <1>5, <3>1
      <3>3. b[j].cmd = "startDb" /\ b[j].cb.s = x
        BY <1>1, <2>2, <3>2, MapType DEF HandledType
      <3>4. x = s
        BY <2>4, <3>3 DEF DbAll, DbCmds, Opens
      <3> QED BY <2>1, <3>1, <3>2, <3>4
    <2> QED BY <2>3, <2>4 DEF Last
  <1>7. Runs(toModem', engDb', s)
    <2>1. toModem \o a \in Seq(Command)
      BY <1>1
    <2> QED BY <1>5, <1>6, <2>1, ConcatNew DEF Runs
  <1>8. s \in DOMAIN db' /\ ~Stopping(s)' /\ ~Has(msgs', FailedOf(s)) /\ ~Ahead(s)'
    BY <1>1, <1>3, <1>4, StopsOf, HasMore
       DEF MsgHandleEngineUpEvent, sessionVars, Stopping, Ahead
  <1> QED BY <1>7, <1>8 DEF DbAt, DbSafe, DbLive, Honest

-----------------------------------------------------------------------------
(* What the handler of a message about x does to what the modem will run.  *)
MapsDone(x, m) ==
    \E c \in FixAsks \cup {NoCall} :
        \/ /\ toModem' = queued(c)
           /\ x \in DOMAIN db' <=> x \in DOMAIN db /\ m \notin Stops(x)
        \/ \E d \in DbCmds(x) :
              /\ toModem' = Append(queued(c), d)
              /\ d.cmd = "startDb" <=> x \in DOMAIN db' /\ d \notin StopCmds(x)
(* The answer that a command failed asks for nothing about x but a fix.    *)
FailDone == \E c \in FixAsks \cup {NoCall} : toModem' = queued(c)

(* The handler asks for nothing about distance based sessions.             *)
LEMMA FixDone ==
  ASSUME NEW x, NEW m, m \notin Stops(x), NEW c \in FixAsks \cup {NoCall}, call(c),
         x \in DOMAIN db' <=> x \in DOMAIN db
  PROVE  MapsDone(x, m)
  BY DEF MapsDone, call

LEMMA NothingDone ==
  ASSUME NEW x, NEW m, m \notin Stops(x), UNCHANGED <<tb, db, toModem>>
  PROVE  MapsDone(x, m)
  <1>1. call(NoCall)
    BY DEF call, queued
  <1> QED BY <1>1, FixDone

(* The handler asks for x to be started or stopped.                        *)
LEMMA DbDone ==
  ASSUME NEW x, NEW m, NEW d \in DbCmds(x), call(d),
         d.cmd = "startDb" <=> x \in DOMAIN db' /\ d \notin StopCmds(x)
  PROVE  MapsDone(x, m)
  <1>1. d # NoCall
    BY NoCallIs DEF DbCmds
  <1>2. toModem' = Append(queued(NoCall), d)
    BY <1>1 DEF call, queued
  <1> QED BY <1>2 DEF MapsDone

LEMMA DbAsks ==
  ASSUME NEW cb \in Closure
  PROVE  LET d == startDistanceBasedTracking(cb)
             e == stopDistanceBasedTracking(cb)
         IN  /\ d \in DbCmds(cb.s) /\ d.cmd = "startDb"
             /\ d \in StopCmds(cb.s) <=> cb.do \in StopDo
             /\ e \in DbCmds(cb.s) /\ e.cmd = "stopDb"
             /\ e \in StopCmds(cb.s) <=> cb.do \in StopDo
  <1> DEFINE d == startDistanceBasedTracking(cb)
             e == stopDistanceBasedTracking(cb)
  <1>1. d \in Command /\ d.cmd = "startDb" /\ d.cb = cb
    BY CommandTypes DEF startDistanceBasedTracking
  <1>2. e \in Command /\ e.cmd = "stopDb" /\ e.cb = cb
    BY CommandTypes DEF stopDistanceBasedTracking
  <1> QED BY <1>1, <1>2 DEF DbCmds, StopCmds

LEMMA FixAsk ==
  ASSUME NEW s \in Sessions, NEW c \in Command, c.cmd \in {"startFix", "stopFix"}
  PROVE  /\ c.cb \in {do("started", s), do("stopTracking", s)} => c \in FixAsks
         /\ \A o \in Options : c.cb = doWith("updateTracking", s, o) => c \in FixAsks
  BY ClosureTypes DEF FixAsks, FixCmds, StopDo

LEMMA StartTimeBasedMaps ==
  ASSUME HandledType, NEW x \in Sessions, NEW o \in Options, ~(o.dist /\ DistanceSupported),
         NEW m, m \notin Stops(x), startTimeBased(x, o)
  PROVE  MapsDone(x, m)
  <1>1. PICK c \in startTimeBasedTrackingMultiplex(x, o) : call(c) /\ saveTrackingSession(x, o)
    BY DEF startTimeBased
  <1>2. c \in FixAsks \cup {NoCall}
    BY StartCalls, FixAsk DEF HandledType
  <1>3. db' = db /\ x \in DOMAIN tb'
    BY <1>1, SaveAt
  <1> QED BY <1>1, <1>2, <1>3, FixDone

LEMMA StartMaps ==
  ASSUME HandledType, NEW x \in Sessions, NEW o \in Options, NEW m, m \notin Stops(x),
         MsgStartTracking(x, o)
  PROVE  MapsDone(x, m)
  <1>1. CASE UNCHANGED <<tb, db, toModem>>
    BY <1>1, NothingDone
  <1>2. CASE /\ o.dist /\ DistanceSupported /\ saveTrackingSession(x, o)
             /\ call(startDistanceBasedTracking(do("started", x)))
    <2> DEFINE cb == do("started", x)
               d == startDistanceBasedTracking(cb)
    <2>1. cb \in Closure /\ cb.do = "started" /\ cb.s = x
      BY ClosureTypes
    <2> HIDE DEF cb
    <2>2. d \in DbCmds(x) /\ d.cmd = "startDb" /\ d \notin StopCmds(x)
      BY <2>1, DbAsks DEF StopDo
    <2> HIDE DEF d
    <2>3. tb' = tb /\ x \in DOMAIN db'
      BY <1>2, SaveAt
    <2> QED BY <1>2, <2>2, <2>3, DbDone DEF d, cb
  <1>3. CASE ~(o.dist /\ DistanceSupported) /\ startTimeBased(x, o)
    BY <1>3, StartTimeBasedMaps
  <1> QED BY <1>1, <1>2, <1>3 DEF MsgStartTracking

LEMMA StopAsks ==
  ASSUME tb \in SessionMap, NEW x \in DOMAIN tb, NEW c \in stopTimeBasedTrackingMultiplex(x)
  PROVE  c \in FixAsks \cup {NoCall}
  <1>1. x \in Sessions
    BY MapType
  <1> QED BY <1>1, StopCalls, FixAsk

LEMMA TimeToDistanceMaps ==
  ASSUME DistanceSupported, HandledType, NEW x \in DOMAIN tb, NEW o \in Options, NEW m,
         timeToDistance(x, o)
  PROVE  MapsDone(x, m)
  <1> DEFINE cb == do("none", x)
             d == startDistanceBasedTracking(cb)
  <1>1. PICK c \in stopTimeBasedTrackingMultiplex(x) :
           /\ toModem' = Append(queued(c), d)
           /\ tb' = Restrict(tb, DOMAIN tb \ {x}) /\ db' = put(db, x, o)
    BY DEF timeToDistance
  <1>2. c \in FixAsks \cup {NoCall}
    BY StopAsks DEF HandledType
  <1>3. cb \in Closure /\ cb.do = "none" /\ cb.s = x
    BY ClosureTypes, MapType DEF HandledType
  <1> HIDE DEF cb
  <1>4. d \in DbCmds(x) /\ d.cmd = "startDb" /\ d \notin StopCmds(x)
    BY <1>3, DbAsks DEF StopDo
  <1> HIDE DEF d
  <1>5. x \in DOMAIN db'
    BY <1>1 DEF put
  <1> QED BY <1>1, <1>2, <1>4, <1>5 DEF MapsDone

LEMMA UpdateMaps ==
  ASSUME DistanceSupported, HandledType, NEW x \in Sessions, NEW o \in Options,
         ~(x \in DOMAIN tb /\ x \in DOMAIN db), NEW m, m \notin Stops(x), MsgUpdateTracking(x, o)
  PROVE  MapsDone(x, m)
  <1>1. CASE UNCHANGED <<tb, db, toModem>>
    BY <1>1, NothingDone
  <1>2. CASE isTimeBasedTrackingSession(x) /\ timeToDistance(x, o)
    BY <1>2, TimeToDistanceMaps DEF isTimeBasedTrackingSession
  <1>3. CASE /\ isDistanceBasedTrackingSession(x) /\ eraseTrackingSession(x)
             /\ call(stopDistanceBasedTracking(doWith("distanceToTime", x, o)))
    <2> DEFINE cb == doWith("distanceToTime", x, o)
               d == stopDistanceBasedTracking(cb)
    <2>1. cb \in Closure /\ cb.s = x
      BY ClosureTypes
    <2> HIDE DEF cb
    <2>2. d \in DbCmds(x) /\ d.cmd = "stopDb"
      BY <2>1, DbAsks
    <2> HIDE DEF d
    <2>3. x \notin DOMAIN db' /\ tb' = tb
      BY <1>3, EraseAt DEF isDistanceBasedTrackingSession
    <2> QED BY <1>3, <2>2, <2>3, DbDone DEF d, cb
  <1>4. CASE /\ isTimeBasedTrackingSession(x) /\ ~o.dist
             /\ \E c \in updateTrackingMultiplex(x, o) : call(c) /\ saveTrackingSession(x, o)
    <2>1. PICK c \in updateTrackingMultiplex(x, o) : call(c) /\ saveTrackingSession(x, o)
      BY <1>4
    <2>2. x \in DOMAIN tb /\ tb \in SessionMap /\ tb[x] \in Options
      BY <1>4, MapType DEF isTimeBasedTrackingSession, HandledType
    <2>3. c = NoCall \/ (c \in Command /\ c.cmd = "startFix" /\ c.cb = doWith("updateTracking", x, tb[x]))
      BY <2>2, UpdateCalls
    <2>4. c \in FixAsks \cup {NoCall}
      BY <2>2, <2>3, FixAsk
    <2>5. db' = db /\ x \in DOMAIN tb'
      BY <1>4, <2>1, SaveAt
    <2> QED BY <2>1, <2>4, <2>5, FixDone
  <1>5. CASE /\ isDistanceBasedTrackingSession(x)
             /\ call(stopDistanceBasedTracking(doWith("restartDistance", x, o)))
             /\ UNCHANGED <<tb, db>>
    <2> DEFINE cb == doWith("restartDistance", x, o)
               d == stopDistanceBasedTracking(cb)
    <2>1. cb \in Closure /\ cb.s = x /\ cb.do = "restartDistance"
      BY ClosureTypes
    <2> HIDE DEF cb
    <2>2. d \in DbCmds(x) /\ d.cmd = "stopDb" /\ d \in StopCmds(x)
      BY <2>1, DbAsks DEF StopDo
    <2> HIDE DEF d
    <2> QED BY <1>5, <2>2, DbDone DEF d, cb
  <1> QED BY <1>1, <1>2, <1>3, <1>4, <1>5 DEF MsgUpdateTracking

LEMMA StopMaps ==
  ASSUME HandledType, NEW x \in Sessions, ~(x \in DOMAIN tb /\ x \in DOMAIN db), NEW m,
         m \notin Stops(x), MsgStopTracking(x)
  PROVE  MapsDone(x, m)
  <1>1. CASE /\ isTimeBasedTrackingSession(x)
             /\ \E c \in stopTimeBasedTrackingMultiplex(x) : call(c) /\ eraseTrackingSession(x)
    <2>1. PICK c \in stopTimeBasedTrackingMultiplex(x) : call(c) /\ eraseTrackingSession(x)
      BY <1>1
    <2>2. x \in DOMAIN tb /\ tb \in SessionMap
      BY <1>1 DEF isTimeBasedTrackingSession, HandledType
    <2>3. c \in FixAsks \cup {NoCall}
      BY <2>2, StopAsks
    <2>4. db' = db
      BY <2>1, <2>2, EraseType DEF HandledType
    <2> QED BY <2>1, <2>3, <2>4, FixDone
  <1>2. CASE /\ isDistanceBasedTrackingSession(x)
             /\ call(stopDistanceBasedTracking(do("stopDistance", x))) /\ UNCHANGED <<tb, db>>
    <2> DEFINE cb == do("stopDistance", x)
               d == stopDistanceBasedTracking(cb)
    <2>1. cb \in Closure /\ cb.s = x /\ cb.do = "stopDistance"
      BY ClosureTypes
    <2> HIDE DEF cb
    <2>2. d \in DbCmds(x) /\ d.cmd = "stopDb" /\ d \in StopCmds(x)
      BY <2>1, DbAsks DEF StopDo
    <2> HIDE DEF d
    <2> QED BY <1>2, <2>2, DbDone DEF d, cb
  <1>3. CASE UNCHANGED <<tb, db, toModem>>
    BY <1>3, NothingDone
  <1> QED BY <1>1, <1>2, <1>3 DEF MsgStopTracking

LEMMA ResponseMaps ==
  ASSUME DistanceSupported, HandledType, NEW x \in Sessions, NEW cb \in Closure, cb.s = x,
         Sane(cb), ClosureOk(cb, x), NEW m, m \in Stops(x) <=> cb.do \in StopDo,
         Response(TRUE, cb)
  PROVE  MapsDone(x, m)
  <1>1. cb.do \in {"updateTracking", "distanceToTime", "restartDistance", "restarted"}
          => cb.o \in Options
    BY ClosureFields
  <1>2. CASE cb.do \in {"started", "updateTracking", "stopTracking"}
    <2>1. UNCHANGED <<tb, db, toModem>>
      BY <1>2 DEF Response
    <2> QED BY <1>2, <2>1, NothingDone DEF StopDo
  <1>3. CASE cb.do = "stopDistance"
    <2>1. eraseTrackingSession(x) /\ UNCHANGED toModem /\ m \in Stops(x) /\ x \notin DOMAIN tb
      BY <1>3 DEF Response, StopDo, ClosureOk
    <2>2. tb' = tb /\ x \notin DOMAIN db'
      BY <2>1, EraseAt
    <2>3. toModem' = queued(NoCall)
      BY <2>1 DEF queued
    <2> QED BY <2>1, <2>2, <2>3 DEF MapsDone
  <1>4. CASE cb.do = "distanceToTime"
    <2>1. startTimeBased(x, cb.o) /\ ~(cb.o.dist /\ DistanceSupported) /\ m \notin Stops(x)
      BY <1>4 DEF Response, Sane, StopDo
    <2> QED BY <1>1, <1>4, <2>1, StartTimeBasedMaps
  <1>5. CASE cb.do = "restartDistance"
    <2> DEFINE b == doWith("restarted", x, cb.o)
               d == startDistanceBasedTracking(b)
    <2>1. b \in Closure /\ b.s = x /\ b.do = "restarted"
      BY <1>1, <1>5, ClosureTypes
    <2>2. call(d) /\ UNCHANGED <<tb, db>> /\ x \in DOMAIN db
      BY <1>5 DEF Response, ClosureOk
    <2> HIDE DEF b
    <2>3. d \in DbCmds(x) /\ d.cmd = "startDb" /\ d \notin StopCmds(x)
      BY <2>1, DbAsks DEF StopDo
    <2> HIDE DEF d
    <2> QED BY <2>2, <2>3, DbDone
  <1>6. CASE cb.do = "restarted"
    <2>1. /\ saveTrackingSession(x, cb.o) /\ UNCHANGED toModem /\ m \notin Stops(x)
          /\ x \in DOMAIN db /\ cb.o.dist
      BY <1>6 DEF Response, ClosureOk, Sane, StopDo
    <2>2. tb' = tb /\ x \in DOMAIN db'
      BY <2>1, SaveAt
    <2>3. call(NoCall)
      BY <2>1 DEF call, queued
    <2> QED BY <2>1, <2>2, <2>3, FixDone
  <1>7. cb.do # "clientGone"
    BY DEF ClosureOk
  <1> QED BY <1>2, <1>3, <1>4, <1>5, <1>6, <1>7 DEF Response

LEMMA ResponseFails ==
  ASSUME DistanceSupported, HandledType, NEW cb \in Closure, Sane(cb), Response(FALSE, cb)
  PROVE  FailDone
  <1>1. CASE UNCHANGED toModem
    <2>1. toModem' = queued(NoCall)
      BY <1>1 DEF queued
    <2> QED BY <2>1 DEF FailDone
  <1>2. CASE cb.do = "distanceToTime" /\ startTimeBased(cb.s, cb.o)
    <2>1. cb.s \in Sessions /\ cb.o \in Options
      BY <1>2, ClosureFields
    <2>2. PICK c \in startTimeBasedTrackingMultiplex(cb.s, cb.o) : call(c)
      BY <1>2 DEF startTimeBased
    <2>3. c \in FixAsks \cup {NoCall}
      BY <2>1, <2>2, StartCalls, FixAsk DEF HandledType
    <2> QED BY <2>2, <2>3 DEF FailDone, call
  <1> QED BY <1>1, <1>2 DEF Response

LEMMA HandleMaps ==
  ASSUME DistanceSupported, HandledType, NEW x \in Sessions, NEW m \in SaneMsgs,
         m \in MsgsOf(x), MsgOk(m, x), ~(x \in DOMAIN tb /\ x \in DOMAIN db), Handle(m)
  PROVE  \/ m \in FailedOf(x) /\ FailDone
         \/ m \notin FailedOf(x) /\ MapsDone(x, m)
  <1>0. m \in Msg
    BY DEF SaneMsgs
  <1>1. m.kind # "response" => m \notin Stops(x) /\ m \notin FailedOf(x)
    BY DEF Stops, FailedOf
  <1>2. CASE m.kind \in {"start", "update"} /\ putAside(m)
    <2>1. UNCHANGED <<tb, db, toModem>>
      BY <1>2 DEF putAside, sessionVars
    <2> QED BY <1>1, <1>2, <2>1, NothingDone
  <1>3. CASE m.kind = "start" /\ MsgStartTracking(m.s, m.o)
    <2>1. m.s = x /\ m.o \in Options
      BY <1>0, <1>3, MsgFields DEF MsgsOf
    <2> QED BY <1>1, <1>3, <2>1, StartMaps
  <1>4. CASE m.kind = "update" /\ MsgUpdateTracking(m.s, m.o)
    <2>1. m.s = x /\ m.o \in Options
      BY <1>0, <1>4, MsgFields DEF MsgsOf
    <2> QED BY <1>1, <1>4, <2>1, UpdateMaps
  <1>5. CASE m.kind = "stop" /\ MsgStopTracking(m.s)
    <2>1. m.s = x
      BY <1>5 DEF MsgsOf
    <2> QED BY <1>1, <1>5, <2>1, StopMaps
  <1>6. CASE m.kind = "response" /\ Response(m.ok, m.cb)
    <2>1. m.ok \in BOOLEAN /\ m.cb \in Closure
      BY <1>0, <1>6, MsgFields
    <2>2. m.cb.s = x /\ Sane(m.cb) /\ ClosureOk(m.cb, x)
      BY <1>6 DEF MsgsOf, MsgOk, SaneMsgs
    <2>3. /\ m \in Stops(x) <=> m.cb.do \in StopDo
          /\ m \in FailedOf(x) <=> ~m.ok
      BY <1>0, <1>6, <2>2 DEF Stops, FailedOf
    <2>4. CASE m.ok = TRUE
      <3>1. MapsDone(x, m)
        BY <1>6, <2>1, <2>2, <2>3, <2>4, ResponseMaps
      <3> QED BY <2>3, <2>4, <3>1
    <2>5. CASE m.ok = FALSE
      <3>1. FailDone
        BY <1>6, <2>1, <2>2, <2>5, ResponseFails
      <3> QED BY <2>3, <2>5, <3>1
    <2> QED BY <2>1, <2>4, <2>5
  <1>7. m.kind \in {"start", "update", "stop", "response"}
    BY DEF MsgsOf
  <1> QED BY <1>2, <1>3, <1>4, <1>5, <1>6, <1>7 DEF Handle

LEMMA AheadAppend ==
  ASSUME NEW q \in Seq(Command), NEW c, c \notin Opens, NEW X,
         Has(Append(q, c), X), Last(Append(q, c), X, Opens)
  PROVE  Has(q, X) /\ Last(q, X, Opens)
  BY AppendHas, AppendLast

(* The handler of the message about x keeps the modem to the map.          *)
LEMMA TokenDb ==
  ASSUME TypeOK, NEW x \in Sessions, msgs # <<>>, NEW m, m = Head(msgs), m \in MsgsOf(x),
         Flight(x), DbAt(x), msgs' = Tail(msgs), UNCHANGED <<modemUp, engDb>>,
         \/ m \in FailedOf(x) /\ FailDone
         \/ m \notin FailedOf(x) /\ MapsDone(x, m)
  PROVE  DbAt(x)'
  <1>1. msgs \in Seq(Msg) /\ toModem \in Seq(Command)
    BY DEF TypeOK
  <1>2. \A X : Has(msgs, X) <=> m \in X \/ Has(msgs', X)
    BY <1>1, TailHas
  <1>3. ~Has(msgs', MsgsOf(x)) /\ ~Has(toModem, CmdsOf(x))
    BY <1>1, <1>2, TailOnce DEF Flight
  <1>4. /\ ~Has(msgs', Stops(x)) /\ ~Has(msgs', FailedOf(x)) /\ ~Has(toModem, StopCmds(x))
        /\ Stopping(x) <=> m \in Stops(x)
        /\ Has(msgs, Ups) <=> Has(msgs', Ups)
        /\ Has(msgs, FailedOf(x)) <=> m \in FailedOf(x)
    BY <1>2, <1>3, StopsOf, HasMore DEF Stopping
  <1>5. Honest(x)'
    BY <1>4 DEF Honest
  <1>6. ASSUME NEW c \in FixAsks \cup {NoCall}
        PROVE  LET q == queued(c) IN
               /\ q \in Seq(Command)
               /\ Runs(q, engDb, x) <=> Runs(toModem, engDb, x)
               /\ ~Has(q, StopCmds(x))
               /\ Has(q, Opens) <=> Has(toModem, Opens)
               /\ ~(Has(q, CmdsOf(x)) /\ Last(q, CmdsOf(x), Opens))
    <2>1. CASE c = NoCall
      BY <1>1, <1>3, <1>4, <2>1 DEF queued
    <2>2. CASE c # NoCall
      <3>1. c \in Command /\ c \notin DbAll(x) /\ c \notin StopCmds(x) /\ c \notin Opens
        BY <2>2, StopsOf DEF FixAsks, FixCmds
      <3>2. queued(c) = Append(toModem, c) /\ queued(c) \in Seq(Command)
        BY <1>1, <2>2, <3>1 DEF queued
      <3> QED BY <1>1, <1>3, <1>4, <3>1, <3>2, RunsAppend, AppendHas, AheadAppend
    <2> QED BY <2>1, <2>2
  <1>7. CASE m \in FailedOf(x) /\ FailDone
    <2>1. PICK c \in FixAsks \cup {NoCall} : toModem' = queued(c)
      BY <1>7 DEF FailDone
    <2>2. (Runs(toModem', engDb', x) <=> Runs(toModem, engDb, x)) /\ (Alive' <=> Alive)
      BY <1>6, <2>1 DEF Alive
    <2>3. DbSafe(x)'
      BY <1>4, <1>7, <2>2 DEF DbAt, DbSafe
    <2>4. modemUp => Has(msgs', Ups)
      BY <1>4, <1>7, LastHas DEF DbAt, Honest
    <2> QED BY <1>5, <2>3, <2>4 DEF DbAt, DbLive
  <1>8. CASE MapsDone(x, m) /\ m \notin FailedOf(x)
    <2>1. PICK c \in FixAsks \cup {NoCall} :
             \/ /\ toModem' = queued(c)
                /\ x \in DOMAIN db' <=> x \in DOMAIN db /\ m \notin Stops(x)
             \/ \E d \in DbCmds(x) :
                   /\ toModem' = Append(queued(c), d)
                   /\ d.cmd = "startDb" <=> x \in DOMAIN db' /\ d \notin StopCmds(x)
      BY <1>8 DEF MapsDone
    <2>2. CASE /\ toModem' = queued(c)
               /\ x \in DOMAIN db' <=> x \in DOMAIN db /\ m \notin Stops(x)
      <3>1. /\ Runs(toModem', engDb', x) <=> Runs(toModem, engDb, x)
            /\ Alive' <=> Alive
            /\ ~Stopping(x)' /\ ~Ahead(x)'
        BY <1>4, <1>6, <2>2 DEF Alive, Stopping, Ahead
      <3>2. DbSafe(x)'
        BY <1>4, <2>2, <3>1 DEF DbAt, DbSafe
      <3>3. DbLive(x)'
        BY <1>4, <2>2, <3>1 DEF DbAt, DbLive
      <3> QED BY <1>5, <3>2, <3>3 DEF DbAt
    <2>3. ASSUME NEW d \in DbCmds(x), toModem' = Append(queued(c), d),
                 d.cmd = "startDb" <=> x \in DOMAIN db' /\ d \notin StopCmds(x)
          PROVE  DbAt(x)'
      <3>1. /\ queued(c) \in Seq(Command) /\ d \notin Opens /\ d \in DbAll(x)
            /\ d \in DbStarts(x) <=> d.cmd = "startDb"
        BY <1>6, StopsOf
      <3>2. Runs(toModem', engDb', x) <=> d.cmd = "startDb"
        BY <2>3, <3>1, RunsAppend
      <3>3. Has(toModem', StopCmds(x)) <=> d \in StopCmds(x)
        BY <1>6, <2>3, <3>1, AppendHas
      <3>4. ~Ahead(x)'
        BY <1>6, <2>3, <3>1, AheadAppend DEF Ahead
      <3>5. Runs(toModem', engDb', x) <=> x \in DOMAIN db' /\ ~Stopping(x)'
        BY <1>4, <2>3, <3>2, <3>3 DEF Stopping
      <3> QED BY <1>4, <1>5, <3>4, <3>5 DEF DbAt, DbSafe, DbLive
    <2> QED BY <2>1, <2>2, <2>3
  <1> QED BY <1>7, <1>8

LEMMA ProcMsgDb ==
  ASSUME TypeOK, SaneInv, FlightInv, DbInv, ProcMsg
  PROVE  DbInv'
  <1> DEFINE m == Head(msgs)
  <1>1. /\ msgs \in Seq(Msg) /\ msgs # <<>> /\ m \in Msg /\ m \in SaneMsgs /\ Handle(m)
        /\ pendingMsgs \in Seq(Aside) /\ toModem \in Seq(Command) /\ HandledType
        /\ UNCHANGED <<modemUp, engDb>> /\ remember(m)
    BY TypeSplit, SeqTypes DEF TypeOK, SaneInv, ProcMsg, modemVars
  <1>2. msgs' = IF m.kind = "engineUp" THEN Tail(msgs) \o pendingMsgs ELSE Tail(msgs)
    BY DEF ProcMsg
  <1>3. clients' \subseteq clients
    BY <1>1 DEF Handle, putAside, MsgStartTracking, MsgUpdateTracking, MsgStopTracking,
                MsgRemoveClient, MsgHandleEngineUpEvent, Response, sessionVars
  <1> SUFFICES ASSUME DistanceSupported, NEW s \in Sessions, s \notin crossed', s \notin astray',
                      Owner[s] \in clients'
               PROVE  DbAt(s)'
    BY DEF DbInv
  <1>4. /\ s \notin crossed /\ s \notin astray /\ s \notin restarted(m)
        /\ Owner[s] \in clients /\ Flight(s) /\ DbAt(s)
    BY <1>1, <1>3 DEF remember, FlightInv, DbInv
  <1>5. m \in Ups <=> m.kind = "engineUp"
    BY <1>1 DEF Ups
  <1>6. CASE m \in MsgsOf(s)
    <2>1. m \notin Ups /\ msgs' = Tail(msgs)
      BY <1>2, <1>5, <1>6, StopsOf
    <2>2. MsgOk(m, s) /\ ~(s \in DOMAIN tb /\ s \in DOMAIN db)
      <3>1. m \notin BadMsgs(s)
        BY <1>1, <1>4, TailHas DEF Flight
      <3> QED BY <1>4, <1>6, <3>1 DEF BadMsgs, Flight
    <2>3. \/ m \in FailedOf(s) /\ FailDone
          \/ m \notin FailedOf(s) /\ MapsDone(s, m)
      BY <1>1, <1>6, <2>2, HandleMaps
    <2> HIDE DEF m
    <2> QED BY <1>1, <1>4, <1>6, <2>1, <2>3, TokenDb DEF m
  <1>7. CASE m \notin MsgsOf(s) /\ m \notin Ups
    <2>1. Foreign(s)
      BY <1>1, <1>5, <1>7, HandleApart
    <2>2. ModemOn(s) /\ (s \in DOMAIN db' <=> s \in DOMAIN db)
      BY <1>1, <2>1, ForeignOn DEF Foreign, SameSession, SameMaps
    <2>3. MsgsOn(s) /\ (Has(msgs, Ups) => Has(msgs', Ups))
      BY <1>1, <1>2, <1>5, <1>7, TailOn
    <2> QED BY <1>1, <1>4, <2>2, <2>3, DbOn
  <1>8. CASE m \in Ups /\ s \notin DOMAIN db
    <2>1. MsgHandleEngineUpEvent
      BY <1>1, <1>5, <1>8 DEF Handle
    <2>2. Foreign(s)
      BY <1>1, <1>8, <2>1, EngineUpForeign
    <2>3. ModemOn(s) /\ (s \in DOMAIN db' <=> s \in DOMAIN db)
      BY <1>1, <2>2, ForeignOn DEF Foreign, SameSession, SameMaps
    <2>4. MsgsOn(s)
      <3>1. m \notin MsgsOf(s)
        BY <1>8, StopsOf
      <3> QED BY <1>1, <1>2, <3>1, TailOn
    <2> QED BY <1>1, <1>4, <1>8, <2>3, <2>4, DbOn
  <1>9. CASE m \in Ups /\ s \in DOMAIN db
    <2>1. owed[s] = 0
      BY <1>4, <1>5, <1>9 DEF restarted, Flight
    <2>2. ~InFlight(s)
      BY <1>4, <2>1 DEF Flight
    <2> QED BY <1>9, <2>2, EngineUpDb
  <1> QED BY <1>6, <1>7, <1>8, <1>9

-----------------------------------------------------------------------------
(* The modem takes a command.  It executes one, and what it will run stays.*)
LEMMA ExecuteRuns ==
  ASSUME NEW q \in Seq(Command), q # <<>>, NEW c \in Command, c = Head(q), c.cmd # "open",
         Execute(c, TRUE), NEW s
  PROVE  Runs(Tail(q), engDb', s) <=> Runs(q, engDb, s)
  <1> DEFINE X == DbAll(s)
             Y == DbStarts(s)
  <1>1. /\ Has(q, X) <=> c \in X \/ Has(Tail(q), X)
        /\ Last(q, X, Y) <=> Last(Tail(q), X, Y) \/ (c \in Y /\ ~Has(Tail(q), X))
    BY TailHas, TailLast
  <1>2. Last(Tail(q), X, Y) => Has(Tail(q), X)
    BY LastHas, HasMore, StopsOf
  <1>3. c.cmd \in {"startFix", "stopFix", "startDb", "stopDb"}
    BY CommandFields
  <1>4. /\ c \in Y => s \in engDb'
        /\ c \in X /\ c \notin Y => s \notin engDb'
        /\ c \notin X => (s \in engDb' <=> s \in engDb)
    BY <1>3 DEF Execute, DbAll, DbCmds, DbStarts, Opens
  <1>5. Y \subseteq X
    BY StopsOf
  <1> HIDE DEF X, Y
  <1> QED BY <1>1, <1>2, <1>4, <1>5 DEF Runs, X, Y

LEMMA AheadTail ==
  ASSUME NEW q \in Seq(Command), q # <<>>, NEW X, Has(Tail(q), X), Last(Tail(q), X, Opens)
  PROVE  Has(q, X) /\ Last(q, X, Opens)
  BY TailHas, TailLast

(* It refuses a command that is not about s.                               *)
LEMMA RefuseDb ==
  ASSUME toModem \in Seq(Command), toModem # <<>>, toModem' = Tail(toModem), engDb' = engDb,
         NEW s, NEW c, c = Head(toModem), c \notin CmdsOf(s), c \notin DbAll(s)
  PROVE  ModemOn(s)
  <1>1. c \notin DbStarts(s) /\ c \notin StopCmds(s) /\ c \notin Opens
    BY StopsOf DEF DbAll
  <1>2. \A X : c \notin X => (Has(toModem, X) <=> Has(toModem', X))
    BY TailHas
  <1>3. \A X, Y : c \notin Y => (Last(toModem, X, Y) <=> Last(toModem', X, Y))
    BY TailLast
  <1>4. Runs(toModem', engDb', s) <=> Runs(toModem, engDb, s)
    BY <1>1, <1>2, <1>3 DEF Runs
  <1>5. Ahead(s)' <=> Ahead(s)
    BY <1>1, <1>2, <1>3 DEF Ahead
  <1> QED BY <1>1, <1>2, <1>4, <1>5 DEF ModemOn

LEMMA CommandDb ==
  ASSUME TypeOK, PowerInv, LocApiStep, NEW c, c = Head(toModem), c.cmd # "open",
         NEW ok \in BOOLEAN, Execute(c, ok), NEW s \in Sessions, s \notin astray', Flight(s), DbAt(s)
  PROVE  DbAt(s)'
  <1> DEFINE m == [kind |-> "response", ok |-> ok, cb |-> c.cb]
  <1>1. /\ toModem \in Seq(Command) /\ msgs \in Seq(Msg) /\ c \in Command /\ c.cb \in Closure
        /\ toModem # <<>> /\ toModem' = Tail(toModem) /\ db' = db
    BY CommandFields DEF TypeOK, LocApiStep, sessionVars
  <1>2. modemUp' = modemUp /\ msgs' = IF c.cb.do = "none" THEN msgs ELSE Append(msgs, m)
    BY DEF Execute
  <1>3. /\ m \in Msg /\ m \notin Ups /\ c \notin Opens
        /\ m \in MsgsOf(s) <=> c.cb.s = s
        /\ m \in FailedOf(s) <=> ~ok /\ c.cb.s = s
        /\ m \in Stops(s) <=> c.cb.do \in StopDo /\ c.cb.s = s
        /\ c \in CmdsOf(s) <=> c.cb.do # "none" /\ c.cb.s = s
        /\ c \in StopCmds(s) <=> c.cb.do \in StopDo /\ c.cb.s = s
    BY <1>1 DEF Msg, Ups, Opens, MsgsOf, FailedOf, Stops, CmdsOf, StopCmds
  <1>4. /\ \A X : Has(toModem, X) <=> c \in X \/ Has(toModem', X)
        /\ \A X : Has(msgs', X) <=> Has(msgs, X) \/ (c.cb.do # "none" /\ m \in X)
    BY <1>1, <1>2, TailHas, AppendHas
  <1> HIDE DEF m
  <1>5. Ahead(s)' => Ahead(s)
    BY <1>1, AheadTail DEF Ahead
  <1>6. CASE ok = TRUE
    <2>1. Runs(toModem', engDb', s) <=> Runs(toModem, engDb, s)
      BY <1>1, <1>6, ExecuteRuns
    <2>2. Stopping(s)' <=> Stopping(s)
      BY <1>3, <1>4 DEF Stopping, StopDo
    <2>3. /\ Has(msgs', FailedOf(s)) <=> Has(msgs, FailedOf(s))
          /\ Has(msgs', Ups) <=> Has(msgs, Ups)
          /\ Alive' <=> Alive
      BY <1>2, <1>3, <1>4, <1>6 DEF Alive
    <2>4. Last(msgs, FailedOf(s), Ups) => Last(msgs', FailedOf(s), Ups)
      BY <1>1, <1>2, <1>3, <1>6, AppendLast
    <2> QED BY <1>1, <1>2, <1>5, <2>1, <2>2, <2>3, <2>4 DEF DbAt, DbSafe, DbLive, Honest
  <1>7. CASE ok = FALSE /\ modemUp
    <2>1. c.cb.s # s
      BY <1>7 DEF Execute
    <2>2. c \notin CmdsOf(s) /\ c \notin DbAll(s) /\ m \notin FailedOf(s) /\ m \notin Stops(s)
      BY <1>3, <2>1 DEF DbAll, DbCmds
    <2>3. engDb' = engDb
      BY <1>7 DEF Execute
    <2>4. ModemOn(s)
      BY <1>1, <2>2, <2>3, RefuseDb
    <2>5. MsgsOn(s) /\ (Has(msgs, Ups) => Has(msgs', Ups))
      <3>1. CASE msgs' = msgs
        BY <3>1 DEF MsgsOn
      <3>2. CASE msgs' = Append(msgs, m)
        BY <1>1, <2>2, <3>2, AppendOn
      <3> QED BY <1>2, <3>1, <3>2
    <2> QED BY <1>1, <1>2, <2>4, <2>5, DbOn
  <1>8. CASE ~modemUp
    <2> SUFFICES ASSUME Has(toModem', Opens), Runs(toModem', engDb', s)
                 PROVE  s \in DOMAIN db /\ ~Stopping(s)' /\ ~Has(msgs', FailedOf(s)) /\ ~Ahead(s)'
      BY <1>1, <1>2, <1>8 DEF DbAt, DbSafe, DbLive, Honest, Alive
    <2>1. Last(toModem', DbAll(s), DbStarts(s))
      <3>1. Has(toModem', DbAll(s))
        BY HasMore DEF DbAll
      <3> QED BY <3>1 DEF Runs
    <2>2. Runs(toModem, engDb, s) /\ Alive
      BY <1>1, <1>4, <2>1, TailLast DEF Runs, Alive
    <2>3. s \in DOMAIN db /\ ~Stopping(s) /\ ~Has(msgs, FailedOf(s)) /\ ~Ahead(s)
      BY <2>2 DEF DbAt, DbSafe
    <2>4. c \notin CmdsOf(s)
      <3> SUFFICES ASSUME c \in CmdsOf(s) PROVE Ahead(s)
        BY <2>3
      <3>1. ~Has(toModem', CmdsOf(s))
        BY <1>1, TailOnce DEF Flight
      <3>2. Last(toModem', CmdsOf(s), Opens)
        BY <3>1 DEF Has, Last
      <3> QED BY <1>1, <1>4, <3>2, TailLast DEF Ahead
    <2>5. ~Stopping(s)' /\ ~Has(msgs', FailedOf(s))
      BY <1>3, <1>4, <2>3, <2>4 DEF Stopping, StopDo
    <2> QED BY <1>5, <2>3, <2>5
  <1> QED BY <1>6, <1>7, <1>8

(* It is opened, with no session left from before.                         *)
LEMMA OpenDb ==
  ASSUME TypeOK, PowerInv, LocApiStep, NEW c, c = Head(toModem), c.cmd = "open", Open,
         NEW s \in Sessions, DbAt(s)
  PROVE  DbAt(s)'
  <1> DEFINE m == [kind |-> "engineUp"]
  <1>1. /\ toModem \in Seq(Command) /\ msgs \in Seq(Msg) /\ c \in Command
        /\ toModem # <<>> /\ toModem' = Tail(toModem) /\ db' = db /\ engDb' = engDb
    BY DEF TypeOK, LocApiStep, Open, sessionVars
  <1>2. c \in Opens /\ m \in Ups /\ m \notin FailedOf(s) /\ m \notin Stops(s)
    BY <1>1 DEF Opens, Ups, FailedOf, Stops, Msg
  <1>3. ~Has(toModem', Opens) /\ ~modemUp /\ Alive /\ engDb = {}
    BY <1>1, <1>2, TailHas, TailOnce DEF PowerInv, OpenInv, DownInv, Alive
  <1>4. CASE UNCHANGED modemUp
    BY <1>3, <1>4 DEF DbAt, DbSafe, DbLive, Honest, Alive
  <1>5. CASE modemUp' = TRUE /\ msgs' = Append(msgs, m)
    <2> HIDE DEF m
    <2>1. /\ \A X : Has(msgs', X) <=> Has(msgs, X) \/ m \in X
          /\ Last(msgs', FailedOf(s), Ups)
      BY <1>1, <1>2, <1>5, AppendHas, AppendLast
    <2>2. Runs(toModem', engDb', s) => Runs(toModem, engDb, s)
      BY <1>1, <1>3, TailLast DEF Runs
    <2>3. Stopping(s)' => Stopping(s)
      BY <1>1, <1>2, <2>1, TailHas DEF Stopping
    <2>4. Ahead(s)' => Ahead(s)
      BY <1>1, AheadTail DEF Ahead
    <2>5. DbSafe(s)'
      BY <1>1, <1>2, <1>3, <2>1, <2>2, <2>3, <2>4 DEF DbAt, DbSafe
    <2> QED BY <1>2, <2>1, <2>5 DEF DbAt, DbLive, Honest
  <1> QED BY <1>4, <1>5 DEF Open

LEMMA LocApiDb ==
  ASSUME TypeOK, PowerInv, FlightInv, DbInv, LocApiStep
  PROVE  DbInv'
  <1> SUFFICES ASSUME DistanceSupported, NEW s \in Sessions, s \notin crossed', s \notin astray',
                      Owner[s] \in clients'
               PROVE  DbAt(s)'
    BY DEF DbInv
  <1>1. UNCHANGED <<clients, crossed>>
    BY DEF LocApiStep, sessionVars
  <1>2. astray \subseteq astray'
    BY DEF LocApiStep, Execute
  <1>3. Flight(s) /\ DbAt(s)
    BY <1>1, <1>2 DEF FlightInv, DbInv
  <1>4. CASE Head(toModem).cmd = "open" /\ Open
    BY <1>3, <1>4, OpenDb
  <1>5. ASSUME NEW ok \in BOOLEAN, Head(toModem).cmd # "open", Execute(Head(toModem), ok)
        PROVE  DbAt(s)'
    BY <1>3, <1>5, CommandDb
  <1> QED BY <1>4, <1>5 DEF LocApiStep

(* It goes down and forgets all sessions.                                  *)
LEMMA DownDb ==
  ASSUME TypeOK, handleEngineDownEvent, NEW s
  PROVE  DbAt(s)'
  <1> DEFINE c == [cmd |-> "open"]
  <1>1. toModem \in Seq(Command) /\ modemUp' = FALSE /\ toModem' = Append(toModem, c)
    BY DEF TypeOK, handleEngineDownEvent
  <1>2. c \in DbAll(s) /\ c \notin DbStarts(s)
    BY StopsOf DEF Opens, Command
  <1> HIDE DEF c
  <1>3. ~Runs(toModem', engDb', s)
    BY <1>1, <1>2, RunsAppend
  <1> QED BY <1>1, <1>3 DEF DbAt, DbSafe, DbLive, Honest

LEMMA SendDb ==
  ASSUME TypeOK, DbInv, NEW m \in Msg, m.kind # "response", msgs' = Append(msgs, m),
         crossed \subseteq crossed',
         UNCHANGED <<clients, db, toModem, modemUp, engDb, astray>>
  PROVE  DbInv'
  <1> SUFFICES ASSUME DistanceSupported, NEW s \in Sessions, s \notin crossed', s \notin astray',
                      Owner[s] \in clients'
               PROVE  DbAt(s)'
    BY DEF DbInv
  <1>1. DbAt(s)
    BY DEF DbInv
  <1>2. m \notin FailedOf(s) /\ m \notin Stops(s)
    BY DEF FailedOf, Stops
  <1>3. MsgsOn(s) /\ (Has(msgs, Ups) => Has(msgs', Ups))
    BY <1>2, AppendOn DEF TypeOK
  <1>4. ModemOn(s)
    BY DEF ModemOn, Ahead
  <1> QED BY <1>1, <1>3, <1>4, DbOn

LEMMA NextDb == TypeOK /\ SaneInv /\ PowerInv /\ FlightInv /\ DbInv /\ [Next]_vars => DbInv'
  <1> SUFFICES ASSUME TypeOK, SaneInv, PowerInv, FlightInv, DbInv, [Next]_vars
               PROVE  DbInv'
    OBVIOUS
  <1>1. CASE ProcMsg
    BY <1>1, ProcMsgDb
  <1>2. CASE LocApiStep
    BY <1>2, LocApiDb
  <1>3. CASE handleEngineDownEvent
    BY <1>3, DownDb DEF DbInv
  <1>4. ASSUME NEW s \in Sessions, NEW m \in Msg, NEW what, m.kind # "response", send(s, what, m)
        PROVE  DbInv'
    <2>1. crossed \subseteq crossed'
      BY <1>4 DEF send
    <2> QED BY <1>4, <2>1, SendDb DEF send, sessionVars, modemVars
  <1>5. ASSUME NEW s \in Sessions, stop(s) PROVE DbInv'
    <2>1. [kind |-> "stop", s |-> s] \in Msg
      BY DEF Msg
    <2> QED BY <1>4, <1>5, <2>1 DEF stop
  <1>6. ASSUME NEW s \in Sessions, NEW o \in Options,
               startTracking(s, o) \/ updateTrackingOptions(s, o)
        PROVE  DbInv'
    <2>1. /\ [kind |-> "start", s |-> s, o |-> o] \in Msg
          /\ [kind |-> "update", s |-> s, o |-> o] \in Msg
      BY DEF Msg
    <2> QED BY <1>4, <1>6, <2>1 DEF startTracking, updateTrackingOptions
  <1>7. ASSUME NEW k \in Clients, removeClient(k) PROVE DbInv'
    <2>1. [kind |-> "remove", c |-> k] \in Msg
      BY DEF Msg
    <2> QED BY <1>7, <2>1, SendDb DEF removeClient, sessionVars, modemVars
  <1>8. CASE UNCHANGED vars
    <2>1. \A s : DbAt(s)' <=> DbAt(s)
      BY <1>8 DEF vars, sessionVars, modemVars, DbAt, DbSafe, DbLive, Honest, Alive, Stopping, Ahead
    <2> QED BY <1>8, <2>1 DEF vars, sessionVars, DbInv
  <1> QED BY <1>1, <1>2, <1>3, <1>5, <1>6, <1>7, <1>8 DEF Next

LEMMA InitRun == Init => PowerInv /\ IdleInv /\ DbInv
  <1> SUFFICES ASSUME Init PROVE PowerInv /\ IdleInv /\ DbInv
    OBVIOUS
  <1> DEFINE c == [cmd |-> "open"]
  <1>1. \A X : ~Has(msgs, X)
    BY EmptyHas DEF Init
  <1>2. /\ <<>> \in Seq(Command) /\ toModem = Append(<<>>, c) /\ c \in Opens /\ c \notin FixCmds
        /\ \A s : c \in DbAll(s) /\ c \notin DbStarts(s)
    BY StopsOf DEF Init, Opens, Command, FixCmds
  <1> HIDE DEF c
  <1>3. OpenInv /\ DownInv
    <2>1. Once(toModem, Opens)
      BY <1>2, AppendOnce, EmptyHas
    <2> QED BY <2>1 DEF Init, OpenInv, DownInv
  <1>4. IdleInv
    <2>1. ~Has(toModem, StartFixes)
      BY <1>2, AppendHas, EmptyHas, FixSets
    <2> QED BY <2>1 DEF Init, IdleInv, Idle
  <1>5. \A s : ~Runs(toModem, engDb, s)
    BY <1>2, RunsAppend
  <1>6. DbInv
    BY <1>1, <1>5 DEF Init, DbInv, DbAt, DbSafe, DbLive, Honest
  <1> QED BY <1>3, <1>4, <1>6 DEF PowerInv

LEMMA RunQuiet == TypeOK /\ IdleInv /\ DbInv => OnlyMapsRun
  <1> SUFFICES ASSUME TypeOK, IdleInv, DbInv, Quiet
               PROVE  /\ DOMAIN tb = {} /\ ~leftOn => fix = Off
                      /\ DistanceSupported =>
                            \A s \in Sessions \ (crossed \cup astray) :
                                Owner[s] \in clients => (s \in engDb <=> s \in DOMAIN db)
    BY DEF OnlyMapsRun
  <1>1. \A X : ~Has(msgs, X) /\ ~Has(toModem, X)
    BY EmptyHas DEF Quiet
  <1>2. \A X, Y : ~Last(toModem, X, Y)
    BY <1>1, LastHas
  <1>3. DOMAIN tb = {} /\ ~leftOn => fix = Off
    BY <1>2 DEF IdleInv, Idle
  <1>4. ASSUME NEW s, DbAt(s) PROVE s \in engDb <=> s \in DOMAIN db
    <2>1. Runs(toModem, engDb, s) <=> s \in engDb
      BY <1>1, <1>2 DEF Runs
    <2>2. ~Stopping(s) /\ Alive
      BY <1>1 DEF Stopping, Alive, Quiet
    <2> QED BY <1>1, <1>4, <2>1, <2>2 DEF DbAt, DbSafe, DbLive, Quiet
  <1> QED BY <1>3, <1>4 DEF DbInv

(* Once everything in flight has been handled, the modem runs no fix       *)
(* without a time based session, and exactly the distance based sessions of*)
(* the clients there are, over every start, stop, update and switch between*)
(* the kinds, failure and restart: but for a fix nobody stopped (leftOn)   *)
(* and the sessions whose commands overlapped (crossed), of which the modem*)
(* refused one, or which were restarted while one was unanswered (astray). *)
THEOREM MapsRunOnly == Spec => []OnlyMapsRun
  <1> DEFINE Inv == /\ TypeOK /\ SaneInv /\ PowerInv /\ FlightInv /\ GoneInv
                    /\ IdleInv /\ DbInv
  <1>1. Init => Inv
    BY InitType, InitSane, InitFlight, InitRun
  <1>2. Inv /\ [Next]_vars => Inv'
    BY NextType, NextSane, NextPower, NextFlight, NextIdle, NextDb DEF PowerInv
  <1>3. Inv => OnlyMapsRun
    BY RunQuiet
  <1> QED BY <1>1, <1>2, <1>3, PTL DEF Spec
=============================================================================
