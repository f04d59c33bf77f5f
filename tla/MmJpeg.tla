------------------------------- MODULE MmJpeg -------------------------------
(***************************************************************************)
(* The JPEG interface (camera/QCamera2/stack/mm-jpeg-interface).  Cameras  *)
(* start encode jobs on their sessions; one job manager thread takes a     *)
(* job whenever job_sem has a token and the encoder is free, and starts    *)
(* the OMX component of the session, which answers on a thread of its own. *)
(*                                                                         *)
(* The calls of the interface exclude each other by g_intf_lock; abort_job *)
(* and destroy_session hold job_lock, as the manager does while it starts  *)
(* a job; the callbacks of OMX only hold the lock of their session.  Each  *)
(* action is one section of these.  A camera has at most one session, with *)
(* one OMX handle (burst_mode is off where only one job may be ongoing).   *)
(***************************************************************************)
EXTENDS Naturals, Sequences, FiniteSets

CONSTANTS
    Clients,      \* cameras that have opened the interface
    NoClient,
    MaxJobs,      \* per camera, a bound on the jobs it starts
    MaxSessions   \* per camera, a bound on the sessions it creates

ASSUME JpegConstants ==
    /\ NoClient \notin Clients
    /\ MaxJobs \in [Clients -> Nat] /\ MaxSessions \in [Clients -> Nat]

VARIABLES
    job_queue, ongoing_job_q, job_sem,
    manager,       \* "waits" for a token, or has seen that it may "start" a job
    call,          \* the call that holds g_intf_lock: its operation, session and
                   \* job, and at which step it is
    active,        \* sessions that exist
    created,       \* how many were created
    session_handle_q,           \* sessions whose handle is available
    p_session_inprogress,       \* the session that is configured
    encoding, abort_state, jobId,    \* of each session
    omx,           \* state of its OMX component
    output,        \* does the component hold the output buffer?
    failed,        \* has it raised an error in this encode?
    callback,      \* what its callback has still to do, with the session locked
    started,       \* history: the number of jobs each camera has started
    crippled,      \* history: sessions an ongoing job of which was aborted
    called,        \* history: how often each job was called back
    over           \* history: jobs whose abort or destroy has returned

managerVars == <<job_queue, job_sem, manager>>
sessionVars == <<active, created, p_session_inprogress, crippled, started>>
jobVars == <<encoding, abort_state, jobId>>
omxVars == <<omx, output, failed>>
vars == <<managerVars, ongoing_job_q, call, sessionVars, session_handle_q, jobVars,
          omxVars, callback, called, over>>

(* Of this platform, which is none of DUAL_JPEG_TARGET_LIST. *)
MM_JPEG_CONCURRENT_SESSIONS_COUNT == 1

Jobs == UNION {{c} \X (1..MaxJobs[c]) : c \in Clients}
JobsOf(c) == {j \in Jobs : j[1] = c /\ j[2] <= started[c]}
NoCall == [op |-> "none", session |-> NoClient, jobs |-> {}, at |-> "none"]

(* job_lock is held from the removal of the jobs to the end of an abort, or *)
(* until a session is destroyed.                                            *)
JobLocked == call.at \in {"abort", "send", "wait", "finish"}
Unlocked(c) == callback[c] = "none"

Init ==
    /\ job_queue = <<>> /\ ongoing_job_q = {} /\ job_sem = 0 /\ manager = "waits"
    /\ call = NoCall
    /\ active = {} /\ created = [c \in Clients |-> 0] /\ session_handle_q = {}
    /\ p_session_inprogress = NoClient
    /\ encoding = [c \in Clients |-> FALSE]
    /\ abort_state = [c \in Clients |-> "NONE"]
    /\ jobId = [c \in Clients |-> <<c, 0>>]
    /\ omx = [c \in Clients |-> "idle"]
    /\ output = [c \in Clients |-> FALSE] /\ failed = [c \in Clients |-> FALSE]
    /\ callback = [c \in Clients |-> "none"]
    /\ started = [c \in Clients |-> 0] /\ crippled = {}
    /\ called = [j \in Jobs |-> 0] /\ over = {}

-----------------------------------------------------------------------------
(* Calls of the cameras. *)

(* abort_state is reset, but not encoding, which an aborted encode has left *)
(* set in the same slot.  If mm_jpeg_session_configure fails the caller     *)
(* gets an error, but the session stays, and with it its id, by which the   *)
(* HAL destroys it; that the HAL starts no job on it is not used here.      *)
createSession(c) ==
    /\ call = NoCall /\ c \notin active /\ created[c] < MaxSessions[c]
    /\ active' = active \cup {c} /\ created' = [created EXCEPT ![c] = @ + 1]
    /\ session_handle_q' = session_handle_q \cup {c}
    /\ p_session_inprogress' \in IF p_session_inprogress = NoClient THEN {c, NoClient}
                                 ELSE {p_session_inprogress}
    /\ abort_state' = [abort_state EXCEPT ![c] = "NONE"]
    /\ UNCHANGED <<managerVars, ongoing_job_q, call, crippled, started, encoding, jobId,
                   omxVars, callback, called, over>>

(* The HAL destroys a session after abort_job before it starts another job. *)
startJob(c) ==
    /\ call = NoCall /\ c \in active \ crippled /\ started[c] < MaxJobs[c]
    /\ started' = [started EXCEPT ![c] = @ + 1]
    /\ job_queue' = Append(job_queue, <<c, started'[c]>>)
    /\ job_sem' = job_sem + 1
    /\ UNCHANGED <<manager, ongoing_job_q, call, active, created, p_session_inprogress,
                   crippled, session_handle_q, jobVars, omxVars, callback, called, over>>

(* remove_job_by_job_id or _by_session_id; the others keep their order.     *)
removeJobs(J) ==
    /\ LET kept == {n \in DOMAIN job_queue : job_queue[n] \notin J} IN
       \E q \in [1..Cardinality(kept) -> kept] :
          /\ \A m, n \in DOMAIN q : m < n => q[m] < q[n]
          /\ job_queue' = [n \in DOMAIN q |-> job_queue[q[n]]]
    /\ ongoing_job_q' = ongoing_job_q \ J

(* Only a job that is ongoing leads to mm_jpeg_session_abort, which the     *)
(* manager is not told of.                                                  *)
abortJob(j) ==
    /\ call = NoCall /\ j[1] \in active /\ j \in JobsOf(j[1]) \ over
    /\ removeJobs({j})
    /\ IF j \in ongoing_job_q
       THEN /\ call' = [op |-> "abort", session |-> j[1], jobs |-> {j}, at |-> "abort"]
            /\ crippled' = crippled \cup {j[1]}
            /\ UNCHANGED over
       ELSE /\ over' = over \cup {j}
            /\ UNCHANGED <<call, crippled>>
    /\ UNCHANGED <<job_sem, manager, active, created, started, session_handle_q,
                   p_session_inprogress, jobVars, omxVars, callback, called>>

destroySession(c) ==
    /\ call = NoCall /\ c \in active
    /\ removeJobs(JobsOf(c))
    /\ call' = [op |-> "destroy", session |-> c, jobs |-> JobsOf(c), at |-> "abort"]
    /\ UNCHANGED <<job_sem, manager, sessionVars, session_handle_q, jobVars, omxVars,
                   callback, called, over>>

(* mm_jpeg_session_abort, up to the unlock.                                 *)
sessionAbort(c) ==
    /\ call.at = "abort" /\ call.session = c /\ Unlocked(c)
    /\ IF abort_state[c] # "NONE"
       THEN call' = [call EXCEPT !.at = "finish"] /\ UNCHANGED abort_state
       ELSE IF encoding[c]
       THEN /\ call' = [call EXCEPT !.at = "send"]
            /\ abort_state' = [abort_state EXCEPT ![c] = "INIT"]
       ELSE /\ call' = [call EXCEPT !.at = "finish"]
            /\ abort_state' = [abort_state EXCEPT ![c] = "DONE"]
    /\ UNCHANGED <<managerVars, ongoing_job_q, sessionVars, session_handle_q, encoding, jobId,
                   omxVars, callback, called, over>>

(* A component that is not configured waits for buffers, and for ever.      *)
sendIdle(c) ==
    /\ call.at = "send" /\ call.session = c
    /\ call' = [call EXCEPT !.at = "wait"]
    /\ omx' = [omx EXCEPT ![c] = IF p_session_inprogress = c THEN "stopping" ELSE @]
    /\ UNCHANGED <<managerVars, ongoing_job_q, sessionVars, session_handle_q, jobVars, output,
                   failed, callback, called, over>>

(* The event has come, before pthread_cond_wait or during it.               *)
abortWait(c) ==
    /\ call.at = "wait" /\ call.session = c /\ Unlocked(c)
    /\ abort_state[c] # "INIT"
    /\ call' = [call EXCEPT !.at = "finish"]
    /\ abort_state' = [abort_state EXCEPT ![c] = "DONE"]
    /\ UNCHANGED <<managerVars, ongoing_job_q, sessionVars, session_handle_q, encoding, jobId,
                   omxVars, callback, called, over>>

(* abort_job returns.  The handle of the session is not made available.     *)
abortDone ==
    /\ call.at = "finish" /\ call.op = "abort"
    /\ over' = over \cup call.jobs
    /\ call' = NoCall
    /\ UNCHANGED <<managerVars, ongoing_job_q, sessionVars, session_handle_q, jobVars,
                   omxVars, callback, called>>

(* mm_jpeg_session_destroy waits until the component is idle and frees it.  *)
sessionDestroy(c) ==
    /\ call.at = "finish" /\ call.op = "destroy" /\ call.session = c /\ Unlocked(c)
    /\ omx' = [omx EXCEPT ![c] = "idle"] /\ output' = [output EXCEPT ![c] = FALSE]
    /\ p_session_inprogress' = IF p_session_inprogress = c THEN NoClient
                               ELSE p_session_inprogress
    /\ active' = active \ {c} /\ crippled' = crippled \ {c}
    /\ call' = [call EXCEPT !.at = "post"]
    /\ UNCHANGED <<managerVars, ongoing_job_q, created, started, session_handle_q, jobVars,
                   failed, callback, called, over>>

(* The queues of the session are freed without job_lock.                    *)
destroyDone(c) ==
    /\ call.at = "post" /\ call.session = c
    /\ session_handle_q' = session_handle_q \ {c}
    /\ job_sem' = job_sem + 1
    /\ over' = over \cup call.jobs
    /\ call' = NoCall
    /\ UNCHANGED <<job_queue, manager, ongoing_job_q, sessionVars, jobVars, omxVars, callback,
                   called>>

-----------------------------------------------------------------------------
(* The job manager thread. *)

(* A token is used up even when no job may be started.                      *)
takeToken ==
    /\ manager = "waits" /\ job_sem > 0
    /\ job_sem' = job_sem - 1
    /\ manager' = IF Cardinality(ongoing_job_q) >= MM_JPEG_CONCURRENT_SESSIONS_COUNT
                  THEN "waits" ELSE "start"
    /\ UNCHANGED <<job_queue, ongoing_job_q, call, sessionVars, session_handle_q, jobVars,
                   omxVars, callback, called, over>>

(* The component has its buffers and encodes. *)
encodeStarted(j) ==
    LET c == j[1] IN
    /\ ongoing_job_q' = ongoing_job_q \cup {j}
    /\ session_handle_q' = session_handle_q \ {c}
    /\ p_session_inprogress' = c
    /\ encoding' = [encoding EXCEPT ![c] = TRUE]
    /\ omx' = [omx EXCEPT ![c] = "busy"]
    /\ output' = [output EXCEPT ![c] = TRUE]
    /\ failed' = [failed EXCEPT ![c] = FALSE]
    /\ UNCHANGED <<job_sem, called>>

(* A call of OMX fails: the job is called back, and done.                   *)
encodeFailed(j) ==
    /\ called' = [called EXCEPT ![j] = @ + 1]
    /\ encoding' = [encoding EXCEPT ![j[1]] = FALSE]
    /\ job_sem' = job_sem + 1
    /\ p_session_inprogress' \in {p_session_inprogress, NoClient, j[1]}
    /\ UNCHANGED <<ongoing_job_q, session_handle_q, omxVars>>

(* A session that is not the configured one waits for the callback of that  *)
(* one, whose component it takes down.                                      *)
encode(j) ==
    /\ p_session_inprogress \in Clients => Unlocked(p_session_inprogress)
    /\ jobId' = [jobId EXCEPT ![j[1]] = j]
    /\ abort_state' = [abort_state EXCEPT ![j[1]] = "NONE"]
    /\ job_queue' = Tail(job_queue)
    /\ encodeStarted(j) \/ encodeFailed(j)

(* A job whose session has no handle goes back to the head of the queue.    *)
processJob ==
    /\ manager = "start" /\ ~JobLocked
    /\ manager' = "waits"
    /\ \/ /\ job_queue # <<>> /\ Head(job_queue)[1] \in session_handle_q
          /\ encode(Head(job_queue))
       \/ /\ job_queue # <<>> => Head(job_queue)[1] \notin session_handle_q
          /\ UNCHANGED <<job_queue, job_sem, ongoing_job_q, session_handle_q,
                         p_session_inprogress, jobVars, omxVars, called>>
    /\ UNCHANGED <<call, active, created, crippled, started, callback, over>>

-----------------------------------------------------------------------------
(* Callbacks of OMX, with the session locked. *)

callBack(c) ==
    /\ called' = [called EXCEPT ![jobId[c]] = @ + 1]
    /\ callback' = [callback EXCEPT ![c] = "remove"]

(* Mutant: an aborted encode is reported like any other. *)
fbdAlways(c) ==
    /\ Unlocked(c) /\ output[c] /\ omx[c] \in {"busy", "stopping"}
    /\ output' = [output EXCEPT ![c] = FALSE]
    /\ omx' = [omx EXCEPT ![c] = IF @ = "busy" THEN "idle" ELSE @]
    /\ callBack(c)
    /\ UNCHANGED <<managerVars, ongoing_job_q, call, sessionVars, session_handle_q, jobVars,
                   failed, over>>

(* The output buffer comes back, filled or because the component stops.     *)
fbd(c) ==
    /\ Unlocked(c) /\ output[c] /\ omx[c] \in {"busy", "stopping"}
    /\ output' = [output EXCEPT ![c] = FALSE]
    /\ omx' = [omx EXCEPT ![c] = IF @ = "busy" THEN "idle" ELSE @]
    /\ IF abort_state[c] = "NONE" THEN callBack(c) ELSE UNCHANGED <<callback, called>>
    /\ UNCHANGED <<managerVars, ongoing_job_q, call, sessionVars, session_handle_q, jobVars,
                   failed, over>>

(* Whatever the event is, it ends the wait of an abort.                     *)
endsAbort(c) ==
    /\ abort_state[c] = "INIT"
    /\ abort_state' = [abort_state EXCEPT ![c] = "DONE"]
    /\ UNCHANGED <<callback, called>>

(* OMX raises at most one error in an encode. *)
errorEvent(c) ==
    /\ Unlocked(c) /\ omx[c] \in {"busy", "stopping"} /\ ~failed[c]
    /\ failed' = [failed EXCEPT ![c] = TRUE]
    /\ omx' = [omx EXCEPT ![c] = IF @ = "busy" /\ abort_state[c] = "NONE" THEN "idle" ELSE @]
    /\ \/ endsAbort(c)
       \/ /\ abort_state[c] # "INIT" /\ UNCHANGED abort_state
          /\ IF encoding[c] THEN callBack(c) ELSE UNCHANGED <<callback, called>>
    /\ UNCHANGED <<managerVars, ongoing_job_q, call, sessionVars, session_handle_q, encoding,
                   jobId, output, over>>

(* Idle is reached once the buffers are back.                               *)
cmdComplete(c) ==
    /\ Unlocked(c) /\ omx[c] = "stopping" /\ ~output[c]
    /\ omx' = [omx EXCEPT ![c] = "idle"]
    /\ \/ endsAbort(c)
       \/ abort_state[c] # "INIT" /\ UNCHANGED <<abort_state, callback, called>>
    /\ UNCHANGED <<managerVars, ongoing_job_q, call, sessionVars, session_handle_q, encoding,
                   jobId, output, failed, over>>

(* mm_jpegenc_job_done: the job is removed from ongoing_job_q.              *)
jobRemoved(c) ==
    /\ callback[c] = "remove"
    /\ ongoing_job_q' = ongoing_job_q \ {jobId[c]}
    /\ encoding' = [encoding EXCEPT ![c] = FALSE]
    /\ callback' = [callback EXCEPT ![c] = "requeue"]
    /\ UNCHANGED <<managerVars, call, sessionVars, session_handle_q, abort_state, jobId,
                   omxVars, called, over>>

(* Mutant: the job manager is not told. *)
handleQueuedOnly(c) ==
    /\ callback[c] = "requeue"
    /\ session_handle_q' = session_handle_q \cup {c}
    /\ callback' = [callback EXCEPT ![c] = "none"]
    /\ UNCHANGED <<managerVars, ongoing_job_q, call, sessionVars, jobVars, omxVars, called,
                   over>>

(* Its handle is available again, and the job manager is told.              *)
handleQueued(c) ==
    /\ callback[c] = "requeue"
    /\ session_handle_q' = session_handle_q \cup {c}
    /\ job_sem' = job_sem + 1
    /\ callback' = [callback EXCEPT ![c] = "none"]
    /\ UNCHANGED <<job_queue, manager, ongoing_job_q, call, sessionVars, jobVars, omxVars,
                   called, over>>

-----------------------------------------------------------------------------
managerStep == takeToken \/ processJob
callStep ==
    \/ abortDone
    \/ \E c \in Clients : \/ sessionAbort(c) \/ sendIdle(c) \/ abortWait(c)
                          \/ sessionDestroy(c) \/ destroyDone(c)
omxStep(c) == fbd(c) \/ errorEvent(c) \/ cmdComplete(c) \/ jobRemoved(c) \/ handleQueued(c)

Next ==
    \/ \E c \in Clients : createSession(c) \/ startJob(c) \/ destroySession(c)
    \/ \E j \in Jobs : abortJob(j)
    \/ callStep \/ managerStep
    \/ \E c \in Clients : omxStep(c)

(* The threads run, and a component that encodes or stops ends in time.     *)
Fairness ==
    /\ WF_vars(callStep) /\ WF_vars(managerStep)
    /\ \A c \in Clients : WF_vars(omxStep(c))

Spec == Init /\ [][Next]_vars
FairSpec == Spec /\ Fairness

-----------------------------------------------------------------------------
TypeOK ==
    /\ job_queue \in Seq(Jobs) /\ ongoing_job_q \subseteq Jobs /\ job_sem \in Nat
    /\ manager \in {"waits", "start"}
    /\ call \in [op : {"none", "abort", "destroy"}, session : Clients \cup {NoClient},
                 jobs : SUBSET Jobs,
                 at : {"none", "abort", "send", "wait", "finish", "post"}]
    /\ active \subseteq Clients /\ crippled \subseteq Clients
    /\ created \in [Clients -> Nat] /\ started \in [Clients -> Nat]
    /\ session_handle_q \subseteq Clients
    /\ p_session_inprogress \in Clients \cup {NoClient}
    /\ encoding \in [Clients -> BOOLEAN]
    /\ abort_state \in [Clients -> {"NONE", "INIT", "DONE"}]
    /\ jobId \in [Clients -> Clients \X Nat]
    /\ omx \in [Clients -> {"idle", "busy", "stopping"}]
    /\ output \in [Clients -> BOOLEAN] /\ failed \in [Clients -> BOOLEAN]
    /\ callback \in [Clients -> {"none", "remove", "requeue"}]
    /\ called \in [Jobs -> Nat] /\ over \subseteq Jobs

(* Safety: a job is called back once, and never after abort_job for it or   *)
(* destroy_session of its session has returned, when the HAL has freed it.  *)
CalledBackOnceInTime ==
    [][\A j \in Jobs : called'[j] # called[j] => called'[j] = 1 /\ j \notin over]_vars

(* The stale encoding of a session that never encoded makes destroy_session *)
(* wait, with job_lock and g_intf_lock, for an event that does not come.    *)
Hanging == call.at = "wait" /\ p_session_inprogress # call.session

(* Liveness: every job ends by a callback, or by an abort or destroy that   *)
(* returns, whatever becomes of the jobs of the other camera.  Not so while *)
(* there is a session an ongoing job of which was aborted: abort_job tells  *)
(* nobody that the encoder is free.                                         *)
EveryJobEnds ==
    \A j \in Jobs : []<>(j \in JobsOf(j[1]) =>
                            called[j] > 0 \/ j \in over \/ crippled # {} \/ Hanging)
=============================================================================
