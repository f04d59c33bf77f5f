---------------------------- MODULE MmJpegProofs ----------------------------
(***************************************************************************)
(* What is proved of MmJpeg for every set of cameras and every bound: the  *)
(* types, and that a job is called back at most once and never after its   *)
(* abort or the destruction of its session has returned.                   *)
(***************************************************************************)
EXTENDS MmJpeg, FiniteSetTheorems, TLAPS

(* A job that waits in the queue is untouched: it belongs to a session that *)
(* exists, and neither the encoder nor a call has to do with it.            *)
Untouched(j) ==
    /\ j[1] \in active /\ j[2] <= started[j[1]]
    /\ called[j] = 0 /\ j \notin over
    /\ j \notin ongoing_job_q /\ j \notin call.jobs /\ j # jobId[j[1]]

QueueInv ==
    \A m \in DOMAIN job_queue :
        /\ Untouched(job_queue[m])
        /\ \A n \in DOMAIN job_queue : m # n => job_queue[m] # job_queue[n]

(* The job that the component of c encodes may still be called back.        *)
Encodes(c) == omx[c] = "busy" /\ abort_state[c] = "NONE"

Owed(c) ==
    /\ jobId[c] \in Jobs
    /\ called[jobId[c]] = 0 /\ jobId[c] \notin over
    /\ callback[c] = "none" /\ c \notin session_handle_q
    /\ jobId[c] \in ongoing_job_q \/ (call.session = c /\ call.at = "abort")

SessionInv ==
    \A c \in Clients :
        /\ jobId[c][1] = c
        /\ c \notin active => omx[c] = "idle" /\ callback[c] = "none"
        /\ callback[c] # "none" => omx[c] = "idle" /\ c \notin session_handle_q
        /\ callback[c] = "requeue" => ~encoding[c]
        /\ omx[c] = "stopping" => abort_state[c] # "NONE"
        /\ abort_state[c] = "INIT" => call.session = c /\ call.at \in {"send", "wait"}
        /\ Encodes(c) => Owed(c)
        /\ omx[c] # "idle" /\ encoding[c] /\ abort_state[c] = "DONE" => failed[c]

(* The handle of a component is available only when it does nothing, or is  *)
(* stopped by the destruction of its session.                               *)
HandleInv ==
    /\ \A c \in session_handle_q :
          omx[c] # "idle" => /\ omx[c] = "stopping" /\ call.session = c
                            /\ call.op = "destroy" /\ call.at \in {"wait", "finish"}
    /\ \A j \in ongoing_job_q :
          /\ j = jobId[j[1]] /\ j[1] \in active
          /\ j[1] \notin session_handle_q /\ callback[j[1]] # "requeue"

(* A call under way is about one session, and knows what it has reached.    *)
CallInv ==
    /\ call.at = "none" <=> call = NoCall
    /\ call # NoCall => call.session \in Clients /\ call.op # "none"
    /\ call.at \notin {"none", "post"} => call.session \in active
    /\ \A j \in call.jobs : j[1] = call.session /\ j \notin ongoing_job_q
    /\ call.op = "destroy" =>
          \A j \in Jobs : j[1] = call.session /\ j[2] <= started[j[1]] => j \in call.jobs
    /\ call.op = "abort" /\ call.at = "abort" =>
          ~(encoding[call.session] /\ call.session \in session_handle_q)
    /\ call.at = "send" =>
          /\ omx[call.session] # "stopping" /\ callback[call.session] = "none"
          /\ abort_state[call.session] = "DONE" => failed[call.session]
          /\ call.op = "abort" => call.session \notin session_handle_q
    /\ call.at \in {"send", "wait", "finish"} => abort_state[call.session] # "NONE"
    /\ call.at = "post" => call.session \notin active

(* A job that has not been started yet is known nowhere.                    *)
FreshInv ==
    /\ \A c \in Clients : jobId[c][2] <= started[c]
    /\ \A j \in Jobs : started[j[1]] < j[2] =>
          called[j] = 0 /\ j \notin over /\ j \notin ongoing_job_q /\ j \notin call.jobs

IInv == QueueInv /\ SessionInv /\ HandleInv /\ CallInv /\ FreshInv

-----------------------------------------------------------------------------
LEMMA JobsFacts ==
    /\ \A c \in Clients : JobsOf(c) \subseteq Jobs
    /\ \A j \in Jobs : j[1] \in Clients /\ j[2] \in 1..MaxJobs[j[1]] /\ j = <<j[1], j[2]>>
    /\ Jobs \subseteq Clients \X Nat
    /\ \A c \in Clients, n \in Nat : n \in 1..MaxJobs[c] => <<c, n>> \in Jobs
<1>1. \A j \in Jobs : j[1] \in Clients /\ j[2] \in 1..MaxJobs[j[1]] /\ j = <<j[1], j[2]>>
  BY DEF Jobs
<1>2. Jobs \subseteq Clients \X Nat
  BY JpegConstants DEF Jobs
<1>3. \A c \in Clients, n \in Nat : n \in 1..MaxJobs[c] => <<c, n>> \in Jobs
  BY DEF Jobs
<1> QED BY <1>1, <1>2, <1>3 DEF JobsOf

LEMMA OneCallMore ==
    ASSUME NEW f \in [Jobs -> Nat], NEW x
    PROVE  [f EXCEPT ![x] = @ + 1] \in [Jobs -> Nat]
<1> DEFINE g == [f EXCEPT ![x] = @ + 1]
<1>1. \A j \in Jobs : g[j] = IF j = x THEN f[j] + 1 ELSE f[j]
  OBVIOUS
<1>2. \A j \in Jobs : g[j] \in Nat
  BY <1>1
<1>3. g = [j \in Jobs |-> g[j]]
  OBVIOUS
<1> QED BY <1>2, <1>3

(* removeJobs(J) keeps some jobs of the queue, each in one place, and none  *)
(* of J.                                                                    *)
LEMMA RemoveJobs ==
    ASSUME job_queue \in Seq(Jobs), NEW J, removeJobs(J)
    PROVE  /\ job_queue' \in Seq(Jobs)
           /\ ongoing_job_q' = ongoing_job_q \ J
           /\ \E q \in [DOMAIN job_queue' -> DOMAIN job_queue] :
                 /\ \A m \in DOMAIN job_queue' :
                       /\ job_queue'[m] = job_queue[q[m]]
                       /\ job_queue[q[m]] \notin J
                 /\ \A m, n \in DOMAIN job_queue' : m # n => q[m] # q[n]
<1> DEFINE kept == {n \in DOMAIN job_queue : job_queue[n] \notin J}
           size == Cardinality(kept)
<1>1. size \in Nat
  <2>1. kept \subseteq 1..Len(job_queue)
    OBVIOUS
  <2>2. IsFiniteSet(1..Len(job_queue))
    BY FS_Interval, Len(job_queue) \in Int
  <2> QED BY <2>1, <2>2, FS_Subset, FS_CardinalityType
<1>2. PICK q \in [1..size -> kept] :
         /\ \A m, n \in DOMAIN q : m < n => q[m] < q[n]
         /\ job_queue' = [n \in DOMAIN q |-> job_queue[q[n]]]
  BY DEF removeJobs
<1> HIDE DEF size
<1>3. /\ DOMAIN job_queue' = 1..size
      /\ \A m \in 1..size : job_queue'[m] = job_queue[q[m]] /\ q[m] \in kept
  BY <1>2
<1>4. job_queue' \in [1..size -> Jobs]
  BY <1>2, <1>3
<1>5. job_queue' \in Seq(Jobs)
  BY <1>1, <1>4
<1>6. q \in [DOMAIN job_queue' -> DOMAIN job_queue]
  BY <1>2, <1>3
<1>7. \A m, n \in DOMAIN job_queue' : m # n => q[m] # q[n]
  BY <1>1, <1>2, <1>3
<1>8. ongoing_job_q' = ongoing_job_q \ J
  BY DEF removeJobs
<1>9. \A m \in DOMAIN job_queue' :
         job_queue'[m] = job_queue[q[m]] /\ job_queue[q[m]] \notin J
  BY <1>3
<1> QED BY <1>5, <1>6, <1>7, <1>8, <1>9

THEOREM TypeCorrect == Spec => []TypeOK
<1>1. Init => TypeOK
  BY JpegConstants, JobsFacts DEF Init, TypeOK, NoCall
<1>2. TypeOK /\ [Next]_vars => TypeOK'
  <2> SUFFICES ASSUME TypeOK, [Next]_vars PROVE TypeOK'
    OBVIOUS
  <2> USE DEF TypeOK
  <2>1. ASSUME NEW c \in Clients, createSession(c) PROVE TypeOK'
    BY <2>1 DEF createSession, managerVars, omxVars
  <2>2. ASSUME NEW c \in Clients, startJob(c) PROVE TypeOK'
    <3>0. started' \in [Clients -> Nat]
      BY <2>2 DEF startJob
    <3>1. started'[c] = started[c] + 1 /\ started'[c] \in Nat
      BY <2>2 DEF startJob
    <3>2. started'[c] \in 1..MaxJobs[c]
      <4>1. started[c] \in Nat /\ MaxJobs[c] \in Nat /\ started[c] < MaxJobs[c]
        BY <2>2, JpegConstants DEF startJob
      <4> QED BY <3>1, <4>1
    <3>3. <<c, started'[c]>> \in Jobs
      BY <3>1, <3>2, JobsFacts
    <3>4. job_queue' \in Seq(Jobs)
      BY <2>2, <3>3 DEF startJob
    <3>5. /\ job_sem' = job_sem + 1
          /\ UNCHANGED <<manager, ongoing_job_q, call, active, created, p_session_inprogress,
                         crippled, session_handle_q, encoding, abort_state, jobId, omx, output,
                         failed, callback, called, over>>
      BY <2>2 DEF startJob, jobVars, omxVars
    <3>6. job_sem' \in Nat
      BY <3>5
    <3> QED BY <3>0, <3>4, <3>5, <3>6
  <2>3. ASSUME NEW c \in Clients, destroySession(c) PROVE TypeOK'
    <3>1. job_queue' \in Seq(Jobs) /\ ongoing_job_q' \subseteq Jobs
      BY <2>3, RemoveJobs DEF destroySession
    <3>2. JobsOf(c) \in SUBSET Jobs
      BY JobsFacts
    <3> QED BY <2>3, <3>1, <3>2 DEF destroySession, sessionVars, jobVars, omxVars
  <2>4. ASSUME NEW j \in Jobs, abortJob(j) PROVE TypeOK'
    <3>1. job_queue' \in Seq(Jobs) /\ ongoing_job_q' \subseteq Jobs
      BY <2>4, RemoveJobs DEF abortJob
    <3>2. j[1] \in Clients
      BY JobsFacts
    <3>3. call' \in [op : {"none", "abort", "destroy"}, session : Clients \cup {NoClient},
                     jobs : SUBSET Jobs,
                     at : {"none", "abort", "send", "wait", "finish", "post"}]
      BY <2>4, <3>2 DEF abortJob
    <3>4. crippled' \subseteq Clients /\ over' \subseteq Jobs
      BY <2>4, <3>2 DEF abortJob
    <3> QED BY <2>4, <3>1, <3>3, <3>4 DEF abortJob, jobVars, omxVars
  <2>5. ASSUME NEW c \in Clients, sessionAbort(c) PROVE TypeOK'
    <3>1. /\ call' \in {call, [call EXCEPT !.at = "send"], [call EXCEPT !.at = "finish"]}
          /\ abort_state' \in {abort_state, [abort_state EXCEPT ![c] = "INIT"],
                               [abort_state EXCEPT ![c] = "DONE"]}
      BY <2>5 DEF sessionAbort
    <3> QED BY <2>5, <3>1 DEF sessionAbort, managerVars, sessionVars, omxVars
  <2>6. ASSUME NEW c \in Clients, sendIdle(c) PROVE TypeOK'
    BY <2>6 DEF sendIdle, managerVars, sessionVars, jobVars
  <2>7. ASSUME NEW c \in Clients, abortWait(c) PROVE TypeOK'
    BY <2>7 DEF abortWait, managerVars, sessionVars, omxVars
  <2>8. ASSUME abortDone PROVE TypeOK'
    BY <2>8 DEF abortDone, managerVars, sessionVars, jobVars, omxVars, NoCall
  <2>9. ASSUME NEW c \in Clients, sessionDestroy(c) PROVE TypeOK'
    BY <2>9 DEF sessionDestroy, managerVars, jobVars
  <2>10. ASSUME NEW c \in Clients, destroyDone(c) PROVE TypeOK'
    BY <2>10 DEF destroyDone, sessionVars, jobVars, omxVars, NoCall
  <2>11. ASSUME takeToken PROVE TypeOK'
    BY <2>11 DEF takeToken, sessionVars, jobVars, omxVars
  <2>12. ASSUME processJob PROVE TypeOK'
    <3>1. CASE job_queue # <<>> /\ encode(Head(job_queue))
      <4>1. Head(job_queue) \in Jobs /\ Tail(job_queue) \in Seq(Jobs)
        BY <3>1
      <4>2. Head(job_queue)[1] \in Clients /\ Head(job_queue) \in Clients \X Nat
        BY <4>1, JobsFacts
      <4> DEFINE j == Head(job_queue)
      <4> HIDE DEF j
      <4>3. encode(j) /\ j \in Jobs /\ j[1] \in Clients /\ j \in Clients \X Nat
        BY <3>1, <4>1, <4>2 DEF j
      <4>4. /\ jobId' \in [Clients -> Clients \X Nat]
            /\ abort_state' \in [Clients -> {"NONE", "INIT", "DONE"}]
            /\ job_queue' \in Seq(Jobs)
        BY <4>1, <4>3 DEF encode
      <4>5. CASE encodeStarted(j)
        BY <2>12, <4>3, <4>4, <4>5 DEF processJob, encodeStarted
      <4>6. CASE encodeFailed(j)
        <5>1. called' \in [Jobs -> Nat]
          BY <4>6, OneCallMore DEF encodeFailed
        <5>2. /\ encoding' \in [Clients -> BOOLEAN] /\ job_sem' \in Nat
              /\ p_session_inprogress' \in Clients \cup {NoClient}
              /\ UNCHANGED <<ongoing_job_q, session_handle_q, omx, output, failed>>
          BY <4>3, <4>6 DEF encodeFailed, omxVars
        <5>3. /\ UNCHANGED <<call, active, created, crippled, started, callback, over>>
              /\ manager' = "waits"
          BY <2>12 DEF processJob
        <5> QED BY <4>4, <5>1, <5>2, <5>3
      <4> QED BY <4>3, <4>5, <4>6 DEF encode
    <3>2. CASE UNCHANGED <<job_queue, job_sem, ongoing_job_q, session_handle_q,
                           p_session_inprogress, jobVars, omxVars, called>>
      BY <2>12, <3>2 DEF processJob, jobVars, omxVars
    <3> QED BY <2>12, <3>1, <3>2 DEF processJob
  <2>13. ASSUME NEW c \in Clients, fbd(c) PROVE TypeOK'
    <3>1. omx' \in [Clients -> {"idle", "busy", "stopping"}]
      BY <2>13 DEF fbd
    <3>2. callBack(c) \/ UNCHANGED <<callback, called>>
      BY <2>13 DEF fbd, endsAbort
    <3>3. called' \in [Jobs -> Nat]
      <4> DEFINE x == jobId[c]
      <4>1. called' = called \/ called' = [called EXCEPT ![x] = @ + 1]
        BY <3>2 DEF callBack
      <4> HIDE DEF x
      <4>2. called \in [Jobs -> Nat]
        OBVIOUS
      <4>3. [called EXCEPT ![x] = @ + 1] \in [Jobs -> Nat]
        BY <4>2, OneCallMore
      <4> QED BY <4>1, <4>2, <4>3
    <3>4. callback' \in [Clients -> {"none", "remove", "requeue"}]
      BY <3>2 DEF callBack
    <3> QED BY <2>13, <3>1, <3>3, <3>4 DEF fbd, managerVars, sessionVars, jobVars
  <2>14. ASSUME NEW c \in Clients, errorEvent(c) PROVE TypeOK'
    <3>1. omx' \in [Clients -> {"idle", "busy", "stopping"}]
      BY <2>14 DEF errorEvent
    <3>2. callBack(c) \/ UNCHANGED <<callback, called>>
      BY <2>14 DEF errorEvent, endsAbort
    <3>3. called' \in [Jobs -> Nat]
      <4> DEFINE x == jobId[c]
      <4>1. called' = called \/ called' = [called EXCEPT ![x] = @ + 1]
        BY <3>2 DEF callBack
      <4> HIDE DEF x
      <4>2. called \in [Jobs -> Nat]
        OBVIOUS
      <4>3. [called EXCEPT ![x] = @ + 1] \in [Jobs -> Nat]
        BY <4>2, OneCallMore
      <4> QED BY <4>1, <4>2, <4>3
    <3>4. callback' \in [Clients -> {"none", "remove", "requeue"}]
      BY <3>2 DEF callBack
    <3> QED BY <2>14, <3>1, <3>3, <3>4 DEF errorEvent, endsAbort, managerVars, sessionVars
  <2>15. ASSUME NEW c \in Clients, cmdComplete(c) PROVE TypeOK'
    <3>1. omx' \in [Clients -> {"idle", "busy", "stopping"}]
      BY <2>15 DEF cmdComplete
    <3>2. callback' \in [Clients -> {"none", "remove", "requeue"}] /\ called' \in [Jobs -> Nat]
      BY <2>15, OneCallMore DEF cmdComplete, endsAbort, callBack
    <3> QED BY <2>15, <3>1, <3>2 DEF cmdComplete, endsAbort, managerVars, sessionVars
  <2>16. ASSUME NEW c \in Clients, jobRemoved(c) PROVE TypeOK'
    BY <2>16 DEF jobRemoved, managerVars, sessionVars, omxVars
  <2>17. ASSUME NEW c \in Clients, handleQueued(c) PROVE TypeOK'
    BY <2>17 DEF handleQueued, sessionVars, jobVars, omxVars
  <2>18. CASE UNCHANGED vars
    BY <2>18 DEF vars, managerVars, sessionVars, jobVars, omxVars
  <2> QED
    BY <2>1, <2>2, <2>3, <2>4, <2>5, <2>6, <2>7, <2>8, <2>9, <2>10, <2>11, <2>12, <2>13,
       <2>14, <2>15, <2>16, <2>17, <2>18
    DEF Next, callStep, managerStep, omxStep
<1> QED BY <1>1, <1>2, PTL DEF Spec

-----------------------------------------------------------------------------
(* Jobs that are removed from the queue leave the others untouched.         *)
LEMMA QueueRemoved ==
    ASSUME job_queue \in Seq(Jobs), QueueInv, NEW J, removeJobs(J),
           \A j \in Jobs : Untouched(j) /\ j \notin J => Untouched(j)'
    PROVE  QueueInv'
<1>1. /\ job_queue' \in Seq(Jobs)
      /\ \E q \in [DOMAIN job_queue' -> DOMAIN job_queue] :
            /\ \A m \in DOMAIN job_queue' :
                  job_queue'[m] = job_queue[q[m]] /\ job_queue[q[m]] \notin J
            /\ \A m, n \in DOMAIN job_queue' : m # n => q[m] # q[n]
  BY RemoveJobs
<1>2. PICK q \in [DOMAIN job_queue' -> DOMAIN job_queue] :
            /\ \A m \in DOMAIN job_queue' :
                  job_queue'[m] = job_queue[q[m]] /\ job_queue[q[m]] \notin J
            /\ \A m, n \in DOMAIN job_queue' : m # n => q[m] # q[n]
  BY <1>1
<1>3. ASSUME NEW m \in DOMAIN job_queue'
      PROVE  /\ Untouched(job_queue[m])'
             /\ \A n \in DOMAIN job_queue' : m # n => job_queue'[m] # job_queue'[n]
  <2>1. q[m] \in DOMAIN job_queue /\ job_queue'[m] = job_queue[q[m]]
        /\ job_queue[q[m]] \notin J /\ job_queue[q[m]] \in Jobs
    BY <1>2, <1>3
  <2>2. Untouched(job_queue[q[m]])
    BY <2>1 DEF QueueInv
  <2>3. Untouched(job_queue[m])'
    <3>1. \E x \in Jobs : x = job_queue[q[m]] /\ job_queue'[m] = x
      BY <2>1
    <3>2. PICK x \in Jobs : x = job_queue[q[m]] /\ job_queue'[m] = x
      BY <3>1
    <3>3. Untouched(x)'
      BY <2>1, <2>2, <3>2
    <3> QED BY <3>2, <3>3 DEF Untouched
  <2>4. \A n \in DOMAIN job_queue' : m # n => job_queue'[m] # job_queue'[n]
    BY <1>2, <2>1 DEF QueueInv
  <2> QED BY <2>3, <2>4
<1> QED BY <1>3 DEF QueueInv

LEMMA InvariantStep ==
    ASSUME TypeOK, IInv, [Next]_vars
    PROVE  IInv'
<1>a. QueueInv /\ SessionInv /\ HandleInv /\ CallInv /\ FreshInv
  BY DEF IInv
<1>b. /\ started \in [Clients -> Nat] /\ called \in [Jobs -> Nat]
      /\ encoding \in [Clients -> BOOLEAN] /\ failed \in [Clients -> BOOLEAN]
      /\ abort_state \in [Clients -> {"NONE", "INIT", "DONE"}]
      /\ omx \in [Clients -> {"idle", "busy", "stopping"}]
      /\ callback \in [Clients -> {"none", "remove", "requeue"}]
      /\ jobId \in [Clients -> Clients \X Nat]
      /\ active \subseteq Clients /\ session_handle_q \subseteq Clients
      /\ ongoing_job_q \subseteq Jobs
  BY DEF TypeOK
<1>c. \A j \in Jobs : j[1] \in Clients /\ j[2] \in Nat
  BY JobsFacts
<1>d. /\ Len(job_queue) \in Nat /\ DOMAIN job_queue = 1..Len(job_queue)
      /\ \A m \in DOMAIN job_queue : job_queue[m] \in Jobs
  BY DEF TypeOK
<1>e. call \in [op : {"none", "abort", "destroy"}, session : Clients \cup {NoClient},
               jobs : SUBSET Jobs,
               at : {"none", "abort", "send", "wait", "finish", "post"}]
  BY DEF TypeOK
<1>1. ASSUME NEW c \in Clients, createSession(c) PROVE IInv'
  <2>1. QueueInv'
    BY <1>a, <1>b, <1>1 DEF createSession, managerVars, omxVars, QueueInv, Untouched
  <2>2. SessionInv'
    BY <1>a, <1>b, <1>1
    DEF createSession, managerVars, omxVars, SessionInv, Encodes, Owed, NoCall
  <2>3. HandleInv'
    BY <1>a, <1>b, <1>c, <1>e, <1>1
    DEF createSession, managerVars, omxVars, HandleInv, NoCall, SessionInv, CallInv,
        QueueInv, Untouched, FreshInv, Encodes, Owed
  <2>4. CallInv'
    BY <1>a, <1>b, <1>1 DEF createSession, managerVars, omxVars, CallInv, NoCall
  <2>5. FreshInv'
    BY <1>a, <1>b, <1>1 DEF createSession, managerVars, omxVars, FreshInv
  <2> QED BY <2>1, <2>2, <2>3, <2>4, <2>5 DEF IInv
<1>2. ASSUME NEW c \in Clients, startJob(c) PROVE IInv'
  <2>a. /\ started' = [started EXCEPT ![c] = @ + 1] /\ c \in active
        /\ job_queue' = Append(job_queue, <<c, started[c] + 1>>)
        /\ started[c] + 1 \in 1..MaxJobs[c]
        /\ UNCHANGED <<ongoing_job_q, call, active, jobId, called, over>>
    <3>1. started[c] \in Nat /\ MaxJobs[c] \in Nat /\ started[c] < MaxJobs[c]
      BY <1>b, <1>2, JpegConstants DEF startJob
    <3>2. started' = [started EXCEPT ![c] = @ + 1] /\ started'[c] = started[c] + 1
      BY <1>b, <1>2 DEF startJob
    <3> QED BY <3>1, <3>2, <1>2 DEF startJob, jobVars
  <2>b. PICK j \in Jobs : j = <<c, started[c] + 1>> /\ j[1] = c /\ j[2] = started[c] + 1
    <3>1. started[c] + 1 \in Nat
      BY <1>b
    <3> QED BY <2>a, <3>1, JobsFacts
  <2>c. Untouched(j)'
    BY <1>a, <1>b, <1>c, <2>a, <2>b DEF Untouched, FreshInv
  <2>d. \A m \in DOMAIN job_queue :
           /\ job_queue[m] # j
           /\ \A n \in DOMAIN job_queue : m # n => job_queue[m] # job_queue[n]
    BY <1>a, <1>b, <1>c, <2>a, <2>b DEF Untouched, QueueInv
  <2>e. /\ DOMAIN job_queue' = DOMAIN job_queue \cup {Len(job_queue) + 1}
        /\ \A m \in DOMAIN job_queue : job_queue'[m] = job_queue[m]
        /\ job_queue'[Len(job_queue) + 1] = j
    BY <1>d, <2>a, <2>b
  <2>f. \A x \in Jobs : Untouched(x) => Untouched(x)'
    BY <1>a, <1>b, <1>c, <2>a DEF Untouched
  <2>1. QueueInv'
    <3>1. \A m \in DOMAIN job_queue' : job_queue'[m] = j \/ m \in DOMAIN job_queue
      BY <2>e
    <3>2. \A m \in DOMAIN job_queue' : Untouched(job_queue[m])'
      <4> TAKE m \in DOMAIN job_queue'
      <4>1. \E x \in Jobs : x = job_queue'[m] /\ (x = j \/ Untouched(x))
        BY <1>a, <1>d, <2>e, <3>1 DEF QueueInv
      <4>2. PICK x \in Jobs : x = job_queue'[m] /\ (x = j \/ Untouched(x))
        BY <4>1
      <4>3. Untouched(x)'
        BY <2>c, <2>f, <4>2
      <4> QED BY <4>2, <4>3 DEF Untouched
    <3>3. \A m, n \in DOMAIN job_queue' : m # n => job_queue'[m] # job_queue'[n]
      BY <1>a, <1>b, <1>c, <2>d, <2>e
    <3> QED BY <3>2, <3>3 DEF QueueInv
  <2>2. SessionInv'
    BY <1>a, <1>b, <1>2 DEF startJob, jobVars, omxVars, SessionInv, Encodes, Owed, NoCall
  <2>3. HandleInv'
    BY <1>a, <1>b, <1>2 DEF startJob, jobVars, omxVars, HandleInv, NoCall
  <2>4. CallInv'
    BY <1>a, <1>b, <1>2 DEF startJob, jobVars, omxVars, CallInv, NoCall
  <2>5. FreshInv'
    <3>1. started'[c] = started[c] + 1 /\ \A d \in Clients : started[d] <= started'[d]
      BY <1>b, <2>a
    <3>2. \A d \in Clients : jobId[d][2] \in Nat /\ started'[d] \in Nat
      BY <1>b, <2>a
    <3>3. \A d \in Clients : jobId'[d][2] <= started'[d]
      <4> TAKE d \in Clients
      <4>1. /\ jobId[d][2] \in Nat /\ started[d] \in Nat /\ started'[d] \in Nat
            /\ jobId[d][2] <= started[d] /\ started[d] <= started'[d] /\ jobId' = jobId
        BY <1>a, <1>b, <2>a, <3>1, <3>2 DEF FreshInv
      <4> QED BY <4>1
    <3>4. \A x \in Jobs : started'[x[1]] < x[2] => started[x[1]] < x[2]
      BY <1>b, <1>c, <3>1, <3>2
    <3> QED BY <1>a, <2>a, <3>3, <3>4 DEF FreshInv
  <2> QED BY <2>1, <2>2, <2>3, <2>4, <2>5 DEF IInv
<1>3. ASSUME NEW c \in Clients, destroySession(c) PROVE IInv'
  <2>a. /\ job_queue \in Seq(Jobs) /\ removeJobs(JobsOf(c))
        /\ ongoing_job_q' = ongoing_job_q \ JobsOf(c)
    BY <1>3, RemoveJobs DEF destroySession, TypeOK
  <2>b. \A x \in Jobs : Untouched(x) /\ x \notin JobsOf(c) => Untouched(x)'
    BY <1>b, <1>c, <1>3, <2>a DEF Untouched, destroySession, sessionVars, jobVars
  <2>c. /\ call = NoCall /\ call'.op = "destroy" /\ call'.session = c
        /\ call'.jobs = JobsOf(c) /\ call'.at = "abort" /\ call' # NoCall /\ c \in active
        /\ UNCHANGED <<active, started, session_handle_q, encoding, abort_state, jobId, omx,
                       failed, callback, called, over>>
    BY <1>3 DEF destroySession, NoCall, sessionVars, jobVars, omxVars
  <2>d. \A x \in Jobs : x \in JobsOf(c) <=> x[1] = c /\ x[2] <= started[c]
    BY <1>b, <1>c DEF JobsOf
  <2>1. QueueInv'
    BY <1>a, <2>a, <2>b, QueueRemoved
  <2>2. SessionInv'
    BY <1>a, <1>b, <1>c, <2>a, <2>c, <2>d DEF SessionInv, NoCall, Encodes, Owed
  <2>3. HandleInv'
    BY <1>a, <1>b, <1>c, <2>a, <2>c, <2>d DEF HandleInv, NoCall
  <2>4. CallInv'
    <3>1. \A x \in call'.jobs : x[1] = c /\ x \notin ongoing_job_q'
      BY <2>a, <2>c, <2>d, JobsFacts
    <3>2. \A x \in Jobs : x[1] = c /\ x[2] <= started'[x[1]] => x \in call'.jobs
      BY <2>c, <2>d
    <3> QED BY <2>c, <3>1, <3>2 DEF CallInv, NoCall
  <2>5. FreshInv'
    BY <1>a, <1>b, <1>c, <2>a, <2>c, <2>d DEF FreshInv, NoCall
  <2> QED BY <2>1, <2>2, <2>3, <2>4, <2>5 DEF IInv
<1>4. ASSUME NEW j \in Jobs, abortJob(j) PROVE IInv'
  <2>a. /\ job_queue \in Seq(Jobs) /\ removeJobs({j})
        /\ ongoing_job_q' = ongoing_job_q \ {j}
    BY <1>4, RemoveJobs DEF abortJob, TypeOK
  <2>b. \A x \in Jobs : Untouched(x) /\ x \notin {j} => Untouched(x)'
    BY <1>b, <1>c, <1>4, <2>a DEF Untouched, abortJob, jobVars
  <2>c. \/ /\ call'.op = "abort" /\ call'.session = j[1] /\ call'.jobs = {j}
           /\ call'.at = "abort" /\ call' # NoCall /\ over' = over /\ j \in ongoing_job_q
        \/ call' = call /\ over' = over \cup {j} /\ j \notin ongoing_job_q
    BY <1>4 DEF abortJob, NoCall
  <2>d. call = NoCall /\ j[1] \in active /\ j[2] <= started[j[1]]
        /\ UNCHANGED <<active, started, session_handle_q, encoding, abort_state, jobId, omx,
                       failed, callback, called>>
    BY <1>c, <1>4 DEF abortJob, JobsOf, jobVars, omxVars
  <2>1. QueueInv'
    BY <1>a, <2>a, <2>b, QueueRemoved
  <2>2. SessionInv'
    BY <1>a, <1>b, <1>c, <2>a, <2>c, <2>d DEF SessionInv, NoCall, Encodes, Owed
  <2>3. HandleInv'
    BY <1>a, <1>b, <1>c, <2>a, <2>c, <2>d DEF HandleInv, NoCall
  <2>4. CallInv'
    <3>1. CASE call' = call
      BY <1>a, <2>a, <2>d, <3>1 DEF CallInv, NoCall
    <3>2. CASE call'.at = "abort"
      <4>1. /\ call'.op = "abort" /\ call'.session = j[1] /\ call'.jobs = {j}
            /\ call' # NoCall /\ j \in ongoing_job_q
        BY <2>c, <2>d, <3>2 DEF NoCall
      <4>2. j[1] \in Clients /\ j[1] \notin session_handle_q
        BY <1>a, <1>c, <4>1 DEF HandleInv
      <4> QED BY <2>a, <2>d, <3>2, <4>1, <4>2 DEF CallInv, NoCall
    <3> QED BY <2>c, <3>1, <3>2
  <2>5. FreshInv'
    BY <1>a, <1>b, <1>c, <2>a, <2>c, <2>d DEF FreshInv, NoCall
  <2> QED BY <2>1, <2>2, <2>3, <2>4, <2>5 DEF IInv
<1>5. ASSUME NEW c \in Clients, sessionAbort(c) PROVE IInv'
  <2>a. call'.op = call.op /\ call'.session = call.session /\ call'.jobs = call.jobs
    BY <1>e, <1>5 DEF sessionAbort
  <2>b. /\ call.at = "abort" /\ call.session = c /\ callback[c] = "none"
        /\ \/ call'.at = "finish" /\ abort_state' = abort_state /\ abort_state[c] # "NONE"
           \/ call'.at = "send" /\ abort_state' = [abort_state EXCEPT ![c] = "INIT"]
              /\ abort_state[c] = "NONE" /\ encoding[c]
           \/ call'.at = "finish" /\ abort_state' = [abort_state EXCEPT ![c] = "DONE"]
              /\ abort_state[c] = "NONE" /\ ~encoding[c]
        /\ UNCHANGED <<job_queue, ongoing_job_q, active, started, session_handle_q, encoding,
                       jobId, omx, failed, callback, called, over>>
    BY <1>b, <1>e, <1>5 DEF sessionAbort, Unlocked, managerVars, sessionVars, omxVars
  <2>1. QueueInv'
    BY <1>a, <1>b, <1>c, <1>e, <2>a, <2>b DEF QueueInv, NoCall, Untouched
  <2>2. SessionInv'
    BY <1>a, <1>b, <1>c, <1>e, <2>a, <2>b DEF SessionInv, NoCall, Encodes, Owed
  <2>3. HandleInv'
    BY <1>a, <1>b, <1>c, <1>e, <2>a, <2>b DEF HandleInv, NoCall
  <2>4. CallInv'
    BY <1>a, <1>b, <1>c, <1>e, <2>a, <2>b
    DEF CallInv, SessionInv, HandleInv, FreshInv, NoCall, Encodes, Owed
  <2>5. FreshInv'
    BY <1>a, <1>b, <1>c, <1>e, <2>a, <2>b DEF FreshInv, NoCall
  <2> QED BY <2>1, <2>2, <2>3, <2>4, <2>5 DEF IInv
<1>6. ASSUME NEW c \in Clients, sendIdle(c) PROVE IInv'
  <2>a. call'.op = call.op /\ call'.session = call.session /\ call'.jobs = call.jobs
    BY <1>e, <1>6 DEF sendIdle
  <2>b. /\ call.at = "send" /\ call.session = c /\ call'.at = "wait"
        /\ omx' = omx \/ omx' = [omx EXCEPT ![c] = "stopping"]
        /\ UNCHANGED <<job_queue, ongoing_job_q, active, started, session_handle_q, encoding,
                       abort_state, jobId, failed, callback, called, over>>
    BY <1>b, <1>e, <1>6 DEF sendIdle, managerVars, sessionVars, jobVars
  <2>1. QueueInv'
    BY <1>a, <1>b, <1>c, <1>e, <2>a, <2>b DEF QueueInv, NoCall, Untouched
  <2>2. SessionInv'
    <3>1. abort_state[c] # "NONE" /\ callback[c] = "none"
          /\ (abort_state[c] = "DONE" => failed[c])
      BY <1>a, <2>b DEF CallInv
    <3>2. c \in active
      BY <1>a, <2>b DEF CallInv
    <3> QED BY <1>a, <1>b, <1>c, <2>a, <2>b, <3>1, <3>2 DEF SessionInv, Encodes, Owed
  <2>3. HandleInv'
    BY <1>a, <1>b, <1>c, <1>e, <2>a, <2>b
    DEF HandleInv, SessionInv, CallInv, QueueInv, Untouched, FreshInv, NoCall, Encodes, Owed
  <2>4. CallInv'
    BY <1>a, <1>b, <1>c, <1>e, <2>a, <2>b DEF CallInv, NoCall
  <2>5. FreshInv'
    BY <1>a, <1>b, <1>c, <1>e, <2>a, <2>b DEF FreshInv, NoCall
  <2> QED BY <2>1, <2>2, <2>3, <2>4, <2>5 DEF IInv
<1>7. ASSUME NEW c \in Clients, abortWait(c) PROVE IInv'
  <2>1. QueueInv'
    BY <1>a, <1>b, <1>7
    DEF abortWait, managerVars, sessionVars, omxVars, QueueInv, Untouched, Unlocked
  <2>2. SessionInv'
    BY <1>a, <1>b, <1>c, <1>e, <1>7
    DEF abortWait, managerVars, sessionVars, omxVars, SessionInv, Encodes, Owed, Unlocked,
        HandleInv, CallInv, QueueInv, Untouched, NoCall
  <2>3. HandleInv'
    BY <1>a, <1>b, <1>7
    DEF abortWait, managerVars, sessionVars, omxVars, HandleInv, Unlocked
  <2>4. CallInv'
    BY <1>a, <1>b, <1>c, <1>e, <1>7
    DEF abortWait, managerVars, sessionVars, omxVars, CallInv, Unlocked, SessionInv,
        HandleInv, FreshInv, NoCall, Encodes, Owed
  <2>5. FreshInv'
    BY <1>a, <1>b, <1>7 DEF abortWait, managerVars, sessionVars, omxVars, FreshInv, Unlocked
  <2> QED BY <2>1, <2>2, <2>3, <2>4, <2>5 DEF IInv
<1>8. ASSUME abortDone PROVE IInv'
  <2>1. QueueInv'
    BY <1>a, <1>b, <1>c, <1>e, <1>8
    DEF abortDone, managerVars, sessionVars, jobVars, omxVars, QueueInv, Untouched,
        SessionInv, CallInv, NoCall, Encodes, Owed
  <2>2. SessionInv'
    BY <1>a, <1>b, <1>c, <1>e, <1>8
    DEF abortDone, managerVars, sessionVars, jobVars, omxVars, SessionInv, Encodes, Owed,
        NoCall, HandleInv, CallInv, QueueInv, Untouched
  <2>3. HandleInv'
    BY <1>a, <1>b, <1>8
    DEF abortDone, managerVars, sessionVars, jobVars, omxVars, HandleInv, NoCall
  <2>4. CallInv'
    BY <1>a, <1>b, <1>8
    DEF abortDone, managerVars, sessionVars, jobVars, omxVars, CallInv, NoCall
  <2>5. FreshInv'
    BY <1>a, <1>b, <1>c, <1>e, <1>8
    DEF abortDone, managerVars, sessionVars, jobVars, omxVars, FreshInv, CallInv, QueueInv,
        Untouched, SessionInv, NoCall, Encodes, Owed
  <2> QED BY <2>1, <2>2, <2>3, <2>4, <2>5 DEF IInv
<1>9. ASSUME NEW c \in Clients, sessionDestroy(c) PROVE IInv'
  <2>1. QueueInv'
    BY <1>9, JobsFacts
    DEF TypeOK, IInv, Encodes, Owed, Unlocked, NoCall, sessionDestroy, managerVars, jobVars,
        QueueInv, Untouched, SessionInv, CallInv
  <2>2. SessionInv'
    BY <1>a, <1>b, <1>9
    DEF sessionDestroy, managerVars, jobVars, SessionInv, Encodes, Owed, Unlocked
  <2>3. HandleInv'
    BY <1>a, <1>b, <1>c, <1>e, <1>9
    DEF sessionDestroy, managerVars, jobVars, HandleInv, Unlocked, SessionInv, CallInv,
        QueueInv, Untouched, FreshInv, NoCall, Encodes, Owed
  <2>4. CallInv'
    BY <1>a, <1>b, <1>c, <1>e, <1>9
    DEF sessionDestroy, managerVars, jobVars, CallInv, Unlocked, SessionInv, HandleInv,
        FreshInv, NoCall, Encodes, Owed
  <2>5. FreshInv'
    BY <1>a, <1>b, <1>9 DEF sessionDestroy, managerVars, jobVars, FreshInv, Unlocked
  <2> QED BY <2>1, <2>2, <2>3, <2>4, <2>5 DEF IInv
<1>10. ASSUME NEW c \in Clients, destroyDone(c) PROVE IInv'
  <2>1. QueueInv'
    BY <1>a, <1>b, <1>c, <1>e, <1>10
    DEF destroyDone, sessionVars, jobVars, omxVars, QueueInv, Untouched, SessionInv,
        CallInv, NoCall, Encodes, Owed
  <2>2. SessionInv'
    BY <1>a, <1>b, <1>c, <1>e, <1>10
    DEF destroyDone, sessionVars, jobVars, omxVars, SessionInv, Encodes, Owed, NoCall,
        HandleInv, CallInv, QueueInv, Untouched
  <2>3. HandleInv'
    BY <1>a, <1>b, <1>10 DEF destroyDone, sessionVars, jobVars, omxVars, HandleInv, NoCall
  <2>4. CallInv'
    BY <1>a, <1>b, <1>10 DEF destroyDone, sessionVars, jobVars, omxVars, CallInv, NoCall
  <2>5. FreshInv'
    BY <1>a, <1>b, <1>c, <1>e, <1>10
    DEF destroyDone, sessionVars, jobVars, omxVars, FreshInv, CallInv, QueueInv, Untouched,
        SessionInv, NoCall, Encodes, Owed
  <2> QED BY <2>1, <2>2, <2>3, <2>4, <2>5 DEF IInv
<1>11. ASSUME takeToken PROVE IInv'
  <2>1. QueueInv'
    BY <1>a, <1>b, <1>11 DEF takeToken, sessionVars, jobVars, omxVars, QueueInv, Untouched
  <2>2. SessionInv'
    BY <1>a, <1>b, <1>11
    DEF takeToken, sessionVars, jobVars, omxVars, SessionInv, Encodes, Owed
  <2>3. HandleInv'
    BY <1>a, <1>b, <1>11 DEF takeToken, sessionVars, jobVars, omxVars, HandleInv
  <2>4. CallInv'
    BY <1>a, <1>b, <1>11 DEF takeToken, sessionVars, jobVars, omxVars, CallInv
  <2>5. FreshInv'
    BY <1>a, <1>b, <1>11 DEF takeToken, sessionVars, jobVars, omxVars, FreshInv
  <2> QED BY <2>1, <2>2, <2>3, <2>4, <2>5 DEF IInv
<1>12. ASSUME processJob PROVE IInv'
  <2>a. /\ ~JobLocked /\ UNCHANGED <<call, active, started, callback, over>>
        /\ \/ UNCHANGED <<job_queue, ongoing_job_q, session_handle_q, encoding, abort_state,
                           jobId, omx, failed, called>>
           \/ /\ job_queue # <<>> /\ Head(job_queue)[1] \in session_handle_q
              /\ encode(Head(job_queue))
    BY <1>12 DEF processJob, jobVars, omxVars
  <2>b. CASE UNCHANGED <<job_queue, ongoing_job_q, session_handle_q, encoding, abort_state,
                         jobId, omx, failed, called>>
    BY <1>a, <2>a, <2>b
    DEF IInv, QueueInv, Untouched, SessionInv, Encodes, Owed, HandleInv, CallInv, FreshInv
  <2>c. CASE /\ job_queue # <<>> /\ Head(job_queue)[1] \in session_handle_q
             /\ encode(Head(job_queue))
    <3>0. Head(job_queue) \in Jobs /\ 1 \in DOMAIN job_queue /\ Head(job_queue) = job_queue[1]
      BY <1>d, <2>c DEF TypeOK
    <3> PICK j \in Jobs : j = Head(job_queue)
      BY <3>0
    <3> PICK c \in Clients : c = j[1]
      BY <1>c
    <3>1. j \in Jobs /\ c \in Clients /\ c \in session_handle_q /\ Untouched(j)
      BY <1>a, <1>b, <1>c, <2>c, <3>0 DEF QueueInv
    <3>2. \A m \in DOMAIN Tail(job_queue) :
             /\ m + 1 \in DOMAIN job_queue
             /\ Tail(job_queue)[m] = job_queue[m + 1] /\ job_queue[m + 1] # j
      <4>1. \A m, n \in DOMAIN job_queue : m # n => job_queue[m] # job_queue[n]
        BY <1>a DEF QueueInv
      <4>2. job_queue \in Seq(Jobs)
        BY DEF TypeOK
      <4>3. \A m \in DOMAIN Tail(job_queue) :
               /\ m + 1 \in DOMAIN job_queue /\ m + 1 # 1
               /\ Tail(job_queue)[m] = job_queue[m + 1]
        BY <2>c, <4>2
      <4> QED BY <3>0, <4>1, <4>3
    <3>3. encode(j)
      BY <2>c
    <3>4. /\ job_queue' = Tail(job_queue)
          /\ jobId' = [jobId EXCEPT ![c] = j]
          /\ abort_state' = [abort_state EXCEPT ![c] = "NONE"]
      BY <3>3 DEF encode
    <3>5. \/ /\ ongoing_job_q' = ongoing_job_q \cup {j}
             /\ session_handle_q' = session_handle_q \ {c}
             /\ encoding' = [encoding EXCEPT ![c] = TRUE]
             /\ omx' = [omx EXCEPT ![c] = "busy"]
             /\ failed' = [failed EXCEPT ![c] = FALSE] /\ called' = called
          \/ /\ called' = [called EXCEPT ![j] = @ + 1]
             /\ encoding' = [encoding EXCEPT ![c] = FALSE]
             /\ UNCHANGED <<ongoing_job_q, session_handle_q, omx, failed>>
      BY <3>3 DEF encode, encodeStarted, encodeFailed, omxVars
    <3>6. c \in active /\ called[j] = 0 /\ j \notin over /\ j \notin ongoing_job_q
          /\ j \notin call.jobs /\ j[2] <= started[c] /\ callback[c] = "none" /\ omx[c] = "idle"
      BY <1>a, <1>b, <2>a, <3>1 DEF Untouched, SessionInv, HandleInv, JobLocked
    <3>7. \A x \in ongoing_job_q : x[1] # c
      BY <1>a, <1>b, <1>c, <3>1 DEF HandleInv
    <3>8. \A x \in Jobs : x # j => called'[x] = called[x]
      BY <1>a, <1>b, <1>c, <3>5
    <3>9. \A m \in DOMAIN job_queue' : job_queue'[m] = job_queue[m + 1] /\ job_queue[m + 1] # j
                                       /\ m + 1 \in DOMAIN job_queue /\ m \in Nat
      BY <1>a, <1>b, <1>c, <3>2, <3>4
    <3>10. \A x \in Jobs : Untouched(x) /\ x # j => Untouched(x)'
      BY <1>a, <1>b, <1>c, <2>a, <3>4, <3>5, <3>8 DEF Untouched
    <3>11. QueueInv'
      <4>1. \A m \in DOMAIN job_queue' : Untouched(job_queue[m])'
        <5> TAKE m \in DOMAIN job_queue'
        <5>1. \E x \in Jobs : x = job_queue'[m] /\ x # j /\ Untouched(x)
          BY <1>a, <1>d, <3>9 DEF QueueInv
        <5>2. PICK x \in Jobs : x = job_queue'[m] /\ x # j /\ Untouched(x)
          BY <5>1
        <5>3. Untouched(x)'
          BY <3>10, <5>2
        <5> QED BY <5>2, <5>3 DEF Untouched
      <4>2. \A m, n \in DOMAIN job_queue' : m # n => job_queue'[m] # job_queue'[n]
        <5>1. \A m, n \in DOMAIN job_queue : m # n => job_queue[m] # job_queue[n]
          BY <1>a DEF QueueInv
        <5>2. \A m, n \in DOMAIN job_queue' : m # n => m + 1 # n + 1
          BY <3>9
        <5> QED BY <3>9, <5>1, <5>2
      <4> QED BY <4>1, <4>2 DEF QueueInv
    <3>12. SessionInv'
      BY <1>a, <1>b, <1>c, <2>a, <3>1, <3>4, <3>5, <3>6, <3>8
      DEF SessionInv, Encodes, Owed, JobLocked, NoCall
    <3>13. HandleInv'
      BY <1>a, <1>b, <1>c, <2>a, <3>1, <3>4, <3>5, <3>6, <3>7 DEF HandleInv
    <3>14. CallInv'
      BY <1>a, <1>b, <1>c, <2>a, <3>1, <3>4, <3>5, <3>6 DEF CallInv, JobLocked
    <3>15. FreshInv'
      <4>1. \A d \in Clients : jobId'[d][2] <= started[d]
        BY <1>a, <1>b, <3>4, <3>6 DEF FreshInv
      <4>2. \A x \in Jobs : started[x[1]] < x[2] => x # j
        BY <1>b, <1>c, <3>1, <3>6
      <4>3. \A x \in ongoing_job_q' : x = j \/ x \in ongoing_job_q
        BY <3>5
      <4> QED BY <1>a, <2>a, <3>8, <4>1, <4>2, <4>3 DEF FreshInv
    <3> QED BY <3>11, <3>12, <3>13, <3>14, <3>15 DEF IInv
  <2> QED BY <2>a, <2>b, <2>c
<1>13. ASSUME NEW c \in Clients, fbd(c) PROVE IInv'
  <2>a. /\ called' = called \/ called' = [called EXCEPT ![jobId[c]] = @ + 1]
        /\ UNCHANGED <<job_queue, ongoing_job_q, call, active, started, jobId, over>>
    BY <1>13 DEF fbd, callBack, managerVars, sessionVars, jobVars
  <2>b. \A x \in Jobs : x # jobId[c] => called'[x] = called[x]
    BY <1>b, <2>a
  <2>c. \A m \in DOMAIN job_queue : job_queue[m] \in Jobs /\ job_queue[m] # jobId[c]
    BY <1>a, <1>b, <1>c, <1>d DEF QueueInv, Untouched, SessionInv, Encodes, Owed
  <2>1. QueueInv'
    BY <1>a, <1>b, <1>c, <2>a, <2>b, <2>c DEF QueueInv, Untouched
  <2>2. SessionInv'
    BY <1>a, <1>b, <1>13
    DEF fbd, callBack, managerVars, sessionVars, jobVars, SessionInv, Encodes, Owed,
        Unlocked
  <2>3. HandleInv'
    BY <1>a, <1>b, <1>13
    DEF fbd, callBack, managerVars, sessionVars, jobVars, HandleInv, Unlocked
  <2>4. CallInv'
    BY <1>a, <1>b, <1>13
    DEF fbd, callBack, managerVars, sessionVars, jobVars, CallInv, Unlocked
  <2>5. FreshInv'
    BY <1>a, <1>b, <1>c, <1>e, <1>13
    DEF fbd, callBack, managerVars, sessionVars, jobVars, FreshInv, Unlocked, CallInv,
        QueueInv, Untouched, SessionInv, NoCall, Encodes, Owed
  <2> QED BY <2>1, <2>2, <2>3, <2>4, <2>5 DEF IInv
<1>14. ASSUME NEW c \in Clients, errorEvent(c) PROVE IInv'
  <2>a. /\ called' = called \/ called' = [called EXCEPT ![jobId[c]] = @ + 1]
        /\ UNCHANGED <<job_queue, ongoing_job_q, call, active, started, jobId, over>>
    BY <1>14 DEF errorEvent, endsAbort, callBack, managerVars, sessionVars
  <2>b. \A x \in Jobs : x # jobId[c] => called'[x] = called[x]
    BY <1>b, <2>a
  <2>c. \A m \in DOMAIN job_queue : job_queue[m] \in Jobs /\ job_queue[m] # jobId[c]
    BY <1>a, <1>b, <1>c, <1>d DEF QueueInv, Untouched, SessionInv, Encodes, Owed
  <2>1. QueueInv'
    BY <1>a, <1>b, <1>c, <2>a, <2>b, <2>c DEF QueueInv, Untouched
  <2>2. SessionInv'
    BY <1>a, <1>b, <1>14
    DEF errorEvent, endsAbort, callBack, managerVars, sessionVars, SessionInv, Encodes,
        Owed, Unlocked
  <2>3. HandleInv'
    BY <1>a, <1>b, <1>14
    DEF errorEvent, endsAbort, callBack, managerVars, sessionVars, HandleInv, Unlocked
  <2>4. CallInv'
    BY <1>a, <1>b, <1>14
    DEF errorEvent, endsAbort, callBack, managerVars, sessionVars, CallInv, Unlocked
  <2>5. FreshInv'
    BY <1>a, <1>b, <1>c, <1>e, <1>14
    DEF errorEvent, endsAbort, callBack, managerVars, sessionVars, FreshInv, Unlocked,
        CallInv, QueueInv, Untouched, SessionInv, NoCall, Encodes, Owed
  <2> QED BY <2>1, <2>2, <2>3, <2>4, <2>5 DEF IInv
<1>15. ASSUME NEW c \in Clients, cmdComplete(c) PROVE IInv'
  <2>1. QueueInv'
    BY <1>a, <1>b, <1>15
    DEF cmdComplete, endsAbort, managerVars, sessionVars, QueueInv, Untouched, Unlocked
  <2>2. SessionInv'
    BY <1>a, <1>b, <1>15
    DEF cmdComplete, endsAbort, managerVars, sessionVars, SessionInv, Encodes, Owed,
        Unlocked
  <2>3. HandleInv'
    BY <1>a, <1>b, <1>15
    DEF cmdComplete, endsAbort, managerVars, sessionVars, HandleInv, Unlocked
  <2>4. CallInv'
    BY <1>a, <1>b, <1>15
    DEF cmdComplete, endsAbort, managerVars, sessionVars, CallInv, Unlocked
  <2>5. FreshInv'
    BY <1>a, <1>b, <1>15
    DEF cmdComplete, endsAbort, managerVars, sessionVars, FreshInv, Unlocked
  <2> QED BY <2>1, <2>2, <2>3, <2>4, <2>5 DEF IInv
<1>16. ASSUME NEW c \in Clients, jobRemoved(c) PROVE IInv'
  <2>1. QueueInv'
    BY <1>a, <1>b, <1>16
    DEF jobRemoved, managerVars, sessionVars, omxVars, QueueInv, Untouched
  <2>2. SessionInv'
    BY <1>a, <1>b, <1>16
    DEF jobRemoved, managerVars, sessionVars, omxVars, SessionInv, Encodes, Owed
  <2>3. HandleInv'
    BY <1>a, <1>b, <1>16 DEF jobRemoved, managerVars, sessionVars, omxVars, HandleInv
  <2>4. CallInv'
    BY <1>a, <1>b, <1>16 DEF jobRemoved, managerVars, sessionVars, omxVars, CallInv
  <2>5. FreshInv'
    BY <1>a, <1>b, <1>16 DEF jobRemoved, managerVars, sessionVars, omxVars, FreshInv
  <2> QED BY <2>1, <2>2, <2>3, <2>4, <2>5 DEF IInv
<1>17. ASSUME NEW c \in Clients, handleQueued(c) PROVE IInv'
  <2>1. QueueInv'
    BY <1>a, <1>b, <1>17
    DEF handleQueued, sessionVars, jobVars, omxVars, QueueInv, Untouched
  <2>2. SessionInv'
    BY <1>a, <1>b, <1>17
    DEF handleQueued, sessionVars, jobVars, omxVars, SessionInv, Encodes, Owed
  <2>3. HandleInv'
    BY <1>a, <1>b, <1>c, <1>e, <1>17
    DEF handleQueued, sessionVars, jobVars, omxVars, HandleInv, SessionInv, CallInv,
        QueueInv, Untouched, FreshInv, NoCall, Encodes, Owed
  <2>4. CallInv'
    BY <1>a, <1>b, <1>c, <1>e, <1>17
    DEF handleQueued, sessionVars, jobVars, omxVars, CallInv, SessionInv, HandleInv,
        FreshInv, NoCall, Encodes, Owed
  <2>5. FreshInv'
    BY <1>a, <1>b, <1>17 DEF handleQueued, sessionVars, jobVars, omxVars, FreshInv
  <2> QED BY <2>1, <2>2, <2>3, <2>4, <2>5 DEF IInv
<1>18. CASE UNCHANGED vars
  BY <1>18, <1>a
  DEF IInv, QueueInv, Untouched, SessionInv, Encodes, Owed, HandleInv, CallInv, FreshInv,
      vars, managerVars, sessionVars, jobVars, omxVars
<1> QED
  BY <1>1, <1>2, <1>3, <1>4, <1>5, <1>6, <1>7, <1>8, <1>9, <1>10, <1>11, <1>12, <1>13, <1>14,
     <1>15, <1>16, <1>17, <1>18
  DEF Next, callStep, managerStep, omxStep

-----------------------------------------------------------------------------
(* The invariant that says which jobs may still be called back: those in    *)
(* the queue, and the one that the component of a session encodes.          *)
THEOREM JpegInvariant == Spec => [](TypeOK /\ IInv)
<1>1. Init => IInv
  BY JobsFacts
  DEF Init, IInv, QueueInv, SessionInv, HandleInv, CallInv, FreshInv, Encodes, NoCall
<1>2. TypeOK /\ IInv /\ [Next]_vars => IInv'
  BY InvariantStep
<1> QED BY <1>1, <1>2, TypeCorrect, PTL DEF Spec

(* Whatever the cameras and the bounds are, a job is called back once at    *)
(* most (mm_jpeg_fbd, mm_jpeg_event_handler, mm_jpeg_process_encoding_job), *)
(* and never after its abort or the end of its session has returned.        *)
THEOREM CalledBackOnce == Spec => CalledBackOnceInTime
<1> DEFINE Once == \A j \in Jobs : called'[j] # called[j] => called'[j] = 1 /\ j \notin over
<1>1. ASSUME TypeOK, IInv, [Next]_vars PROVE Once
  <2>1. called \in [Jobs -> Nat]
    BY <1>1 DEF TypeOK
  <2>2. ASSUME NEW c \in Clients,
               called' = [called EXCEPT ![jobId[c]] = @ + 1],
               called[jobId[c]] = 0, jobId[c] \notin over
        PROVE  Once
    BY <2>1, <2>2
  <2>3. ASSUME NEW c \in Clients, fbd(c) PROVE Once
    <3>1. CASE called' = called
      BY <3>1
    <3>2. CASE callBack(c) /\ abort_state[c] = "NONE"
      <4>1. omx[c] = "busy"
        BY <1>1, <2>3, <3>2 DEF fbd, IInv, SessionInv
      <4>2. Owed(c)
        BY <1>1, <3>2, <4>1 DEF IInv, SessionInv, Encodes
      <4> QED BY <2>2, <3>2, <4>2 DEF callBack, Owed
    <3> QED BY <2>3, <3>1, <3>2 DEF fbd
  <2>4. ASSUME NEW c \in Clients, errorEvent(c) PROVE Once
    <3>1. CASE called' = called
      BY <3>1
    <3>2. CASE callBack(c) /\ abort_state[c] # "INIT" /\ encoding[c]
      <4>1. ~failed[c] /\ omx[c] \in {"busy", "stopping"}
        BY <2>4 DEF errorEvent
      <4>2. abort_state[c] \in {"NONE", "INIT", "DONE"}
        BY <1>1 DEF TypeOK
      <4>3. abort_state[c] = "NONE"
        BY <1>1, <3>2, <4>1, <4>2 DEF IInv, SessionInv
      <4>4. omx[c] = "busy"
        BY <1>1, <4>1, <4>3 DEF IInv, SessionInv
      <4>5. Owed(c)
        BY <1>1, <4>3, <4>4 DEF IInv, SessionInv, Encodes
      <4> QED BY <2>2, <3>2, <4>5 DEF callBack, Owed
    <3> QED BY <2>4, <3>1, <3>2 DEF errorEvent, endsAbort
  <2>5. ASSUME processJob PROVE Once
    <3>1. CASE called' = called
      BY <3>1
    <3>2. CASE job_queue # <<>> /\ encodeFailed(Head(job_queue))
      <4>1. job_queue \in Seq(Jobs)
        BY <1>1 DEF TypeOK
      <4>2. 1 \in DOMAIN job_queue /\ Head(job_queue) = job_queue[1] /\ Head(job_queue) \in Jobs
        BY <3>2, <4>1
      <4>3. PICK j \in Jobs : j = Head(job_queue)
        BY <4>2
      <4>4. called[j] = 0 /\ j \notin over
        BY <1>1, <4>2, <4>3 DEF IInv, QueueInv, Untouched
      <4>5. called' = [called EXCEPT ![j] = @ + 1]
        BY <3>2, <4>3 DEF encodeFailed
      <4> QED BY <2>1, <4>4, <4>5
    <3> QED BY <2>5, <3>1, <3>2 DEF processJob, encode, encodeStarted
  <2>6. ASSUME UNCHANGED called PROVE Once
    BY <2>6
  <2> QED
    BY <1>1, <2>3, <2>4, <2>5, <2>6
    DEF Next, callStep, managerStep, omxStep, createSession, startJob, destroySession, abortJob,
        sessionAbort, sendIdle, abortWait, abortDone, sessionDestroy, destroyDone, takeToken,
        cmdComplete, endsAbort, jobRemoved, handleQueued, vars
<1>2. TypeOK /\ IInv /\ [Next]_vars => [Once]_vars
  BY <1>1
<1> QED BY <1>2, JpegInvariant, PTL DEF Spec, CalledBackOnceInTime
=============================================================================
