------------------------------- MODULE CameraApi -------------------------------
(***************************************************************************)
(* The camera HAL1 (camera/QCamera2/HAL) as its state machine sees it: an  *)
(* application calls, each call posts events to the state machine's thread *)
(* and waits for their results; pictures are finished by threads of their  *)
(* own: deferred work starts the post processor, a JPEG arrives as an      *)
(* event, the callback notifier hands it over and tells the state machine, *)
(* live snapshots are taken and cancelled by a thread of their own.        *)
(* One camera, one picture per call, no recording hint from the            *)
(* application; see README.md for what is left out.                        *)
(***************************************************************************)
EXTENDS Naturals, Sequences, SequencesExt

CONSTANTS
    MayFail,             \* steps that may fail
    MaxInFlight,         \* bound: what is still under way when the application calls,
                         \* less than that for set_parameters
    MaxUnclaimed         \* bound: results nobody waits for when a live snapshot begins

Steps == {"preparePreview", "startPreview", "params", "commit", "prepareSnapshot",
          "takePicture", "startRecording", "thread", "live"}

ASSUME CameraConstants ==
    /\ MayFail \subseteq Steps
    /\ MaxInFlight \in Nat /\ MaxUnclaimed \in Nat

VARIABLES
    m_state,          \* QCameraStateMachine
    api_queue, evt_queue,
    m_apiResultList,  \* results of events that came from calls
    app,              \* the event whose result the application waits for, or "idle"
    str,              \* channels and what streams
    mode, newMode,    \* committed and pending parameters
    needRestart,      \* m_bNeedRestart
    window,           \* is mPreviewWindow set?
    prepDue,          \* the flash is being prepared
    defer,            \* CMD_DEF_PPROC_START jobs not yet done
    live,             \* mLiveSnapshotThread: what it still has to do
    owed,             \* a frame is on its way to the JPEG encoder
    cmds,             \* commands of the callback notifier
    dataQ,            \* its snapshots
    snapshot,         \* its isSnapshotActive, until the snapshot has come
    syncEvt           \* it waits in processSyncEvt

params == <<mode, newMode, needRestart>>
picture == <<prepDue, defer, live, owed, cmds, dataQ, snapshot, syncEvt>>
vars == <<m_state, api_queue, evt_queue, m_apiResultList, app, str, params,
          window, picture>>

States == {"STOPPED", "READY", "PREVIEWING", "PREPARE_SNAPSHOT", "PIC_TAKING",
           "RECORDING", "VIDEO_PIC_TAKING", "PREVIEW_PIC_TAKING"}
PicStates == {"PIC_TAKING", "VIDEO_PIC_TAKING", "PREVIEW_PIC_TAKING"}

Calls == {"SET_PREVIEW_WINDOW", "START_PREVIEW", "STOP_PREVIEW", "SET_PARAMS",
          "SET_PARAMS_STOP", "SET_PARAMS_COMMIT", "SET_PARAMS_RESTART",
          "PRE_START_RECORDING", "START_RECORDING", "STOP_RECORDING",
          "PREPARE_SNAPSHOT", "PRE_TAKE_PICTURE", "TAKE_PICTURE", "CANCEL_PICTURE"}
Events == {"SNAPSHOT_DONE", "JPEG_EVT_NOTIFY", "PREP_SNAPSHOT_DONE"}

Modes == [zsl : BOOLEAN, hint : BOOLEAN]
Captures == {"zsl", "photo"}

(* switched remembers the captures during which the mode was changed.      *)
Streams == [kind : {"none", "zsl", "photo", "video"}, on : BOOLEAN, video : BOOLEAN,
            capture : SUBSET Captures, live : BOOLEAN, switched : SUBSET Captures]

TypeOK ==
    /\ m_state \in States
    /\ api_queue \in Seq([evt : Calls, arg : BOOLEAN])
    /\ evt_queue \in Seq(Events)
    /\ m_apiResultList \in Seq([evt : Calls, ok : BOOLEAN])
    /\ app \in Calls \cup {"idle"}
    /\ str \in Streams
    /\ mode \in Modes /\ newMode \in Modes
    /\ needRestart \in BOOLEAN /\ window \in BOOLEAN /\ prepDue \in BOOLEAN
    /\ defer \in Nat
    /\ live \in {"none", "take", "cancel"}
    /\ owed \in BOOLEAN
    /\ cmds \in Seq({"START", "STOP", "NEXT"})
    /\ dataQ \in Nat
    /\ snapshot \in BOOLEAN
    /\ syncEvt \in BOOLEAN

Init ==
    /\ m_state = "STOPPED"
    /\ api_queue = <<>> /\ evt_queue = <<>> /\ m_apiResultList = <<>>
    /\ app = "idle"
    /\ str = [kind |-> "none", on |-> FALSE, video |-> FALSE, live |-> FALSE,
              capture |-> {}, switched |-> {}]
    /\ mode = [zsl |-> FALSE, hint |-> FALSE] /\ newMode = mode
    /\ needRestart = FALSE /\ window = FALSE
    /\ prepDue = FALSE /\ defer = 0 /\ live = "none" /\ owed = FALSE
    /\ cmds = <<>> /\ dataQ = 0 /\ snapshot = FALSE /\ syncEvt = FALSE

-----------------------------------------------------------------------------
(* Channels.  An operation that may fail is the set of its outcomes. *)

Outcomes(step) == IF step \in MayFail THEN BOOLEAN ELSE {TRUE}

(* The capture of a picture that is taken in a mode.  A change of the mode *)
(* is remembered of the others.                                            *)
captureOf(m) == IF m.zsl THEN "zsl" ELSE "photo"
underMode(s, m) == [s EXCEPT !.switched = @ \cup (s.capture \ {captureOf(m)})]
capturing(s, c) == [s EXCEPT !.capture = @ \cup {c}, !.switched = @ \ {c}]
notCapturing(s, c) == [s EXCEPT !.capture = @ \ {c}, !.switched = @ \ {c}]

(* The channels of a preview, by mode. *)
previewKind(m) == IF m.hint THEN "video" ELSE IF m.zsl THEN "zsl" ELSE "photo"

preparePreview(s, m) ==
    { [ok |-> r, str |-> IF r THEN [s EXCEPT !.kind = previewKind(m)] ELSE s] :
        r \in Outcomes("preparePreview") }

(* A preview starts on the channel of its mode only. *)
startPreview(s, m) ==
    LET there == IF previewKind(m) = "zsl" THEN s.kind = "zsl" ELSE s.kind \in {"photo", "video"}
    IN  { [ok |-> r, str |-> [s EXCEPT !.on = r]] :
            r \in IF there THEN Outcomes("startPreview") ELSE {FALSE} }

(* Deletes every channel of a preview, which stops what streams on it. *)
unpreparePreview(s) ==
    [notCapturing(s, "zsl") EXCEPT !.kind = "none", !.on = FALSE, !.video = FALSE, !.live = FALSE]
stopPreview(s) == unpreparePreview(s)

(* Prepares and starts; undo: deletes the channels if the start fails. *)
runPreview(s, m, undo) ==
    UNION { IF ~p.ok THEN {p}
            ELSE { IF q.ok \/ ~undo THEN q ELSE [q EXCEPT !.str = unpreparePreview(@)] :
                     q \in startPreview(p.str, m) } : p \in preparePreview(s, m) }

(* The preview is restarted with another recording hint.  That the hint    *)
(* may fail to be committed is not looked at.                              *)
switchHint(s, hint, undo) ==
    LET new == [newMode EXCEPT !.hint = hint] IN
    UNION { { [ok |-> p.ok, str |-> underMode(p.str, m), mode |-> m, newMode |-> new] :
                p \in runPreview(stopPreview(s), m, undo) } :
              m \in { IF r THEN new ELSE mode : r \in Outcomes("commit") } }

(* Mutant: only the channel of the snapshots is stopped. *)
stopRecordingKept(s) == [s EXCEPT !.live = FALSE]

stopRecording(s) == [s EXCEPT !.video = FALSE]

(* What a cancelled picture leaves streaming, and whether a frame still    *)
(* comes from it.                                                          *)
cancelled(s) == notCapturing(s, captureOf(mode))
stillOwed(s) == {FALSE, owed /\ s.capture # {}}

-----------------------------------------------------------------------------
(* The end of the handlers of the state machine. *)

reply(e, ok) == m_apiResultList' = Append(m_apiResultList, [evt |-> e, ok |-> ok])

(* Nothing but the answer, and a move to another state. *)
only(e, ok) == reply(e, ok) /\ UNCHANGED <<m_state, str, window, params, picture>>
moveTo(state, s) == m_state' = state /\ str' = s
change(e, ok, state, s) ==
    reply(e, ok) /\ moveTo(state, s) /\ UNCHANGED <<window, params, picture>>

startSnapshots == <<"START">>
stopSnapshots == <<"STOP">>

(* START and STOP are put at the head of the notifier's queue. *)
cancelPicture ==
    /\ defer = 0
    /\ cmds' = stopSnapshots \o cmds
    /\ owed' \in stillOwed(cancelled(str))
    /\ UNCHANGED <<prepDue, defer, live, dataQ, snapshot>>

(* Another thread does the work; one that still runs is joined first. *)
cancelLiveSnapshot ==
    /\ live = "none" /\ live' = "cancel"
    /\ UNCHANGED <<prepDue, defer, owed, cmds, dataQ, snapshot>>
takeLiveSnapshot == live = "none" /\ live' = "take"

(* Parameters.  While a video is recorded the preview cannot restart; the  *)
(* parameters are refused, yet the new mode stays pending.                 *)
updateParameters(e, zsl, recording) ==
    \E r \in Outcomes("params") :
        LET restart == zsl # newMode.zsl IN
        /\ newMode' = [newMode EXCEPT !.zsl = zsl]
        /\ needRestart' = (restart /\ ~recording)
        /\ reply(e, r /\ ~(restart /\ recording))
        /\ UNCHANGED <<m_state, str, window, mode, picture>>

commitParameterChanges(e) ==
    \E r \in Outcomes("commit") :
        /\ mode' = IF r THEN newMode ELSE mode
        /\ str' = underMode(str, mode')
        /\ reply(e, r)
        /\ UNCHANGED <<m_state, window, newMode, needRestart, picture>>

SetParams(e, arg, recording) ==
    \/ e = "SET_PARAMS" /\ updateParameters(e, arg, recording)
    \/ e = "SET_PARAMS_COMMIT" /\ commitParameterChanges(e)

(* SET_PARAMS_RESTART, with the outcome of what it starts again. *)
restarted(e, ok, state, s) ==
    /\ needRestart' = FALSE
    /\ reply(e, ok) /\ moveTo(state, s)
    /\ UNCHANGED <<window, mode, newMode, picture>>

(* Where the state goes depends on which of the two steps fails. *)
restartPreview(e, unprepared, unstarted) ==
    \E p \in preparePreview(str, mode) :
        \/ ~p.ok /\ restarted(e, FALSE, unprepared, p.str)
        \/ /\ p.ok
           /\ \E q \in startPreview(p.str, mode) :
                  IF q.ok THEN restarted(e, TRUE, m_state, q.str)
                  ELSE restarted(e, FALSE, unstarted, unpreparePreview(q.str))

-----------------------------------------------------------------------------
(* One handler per state, for the events that come from calls. *)

PreviewStopped(e, arg) ==
    \/ SetParams(e, arg, FALSE)
    \/ e \in {"SET_PARAMS_STOP", "STOP_PREVIEW", "CANCEL_PICTURE"} /\ only(e, TRUE)
    \/ e = "SET_PARAMS_RESTART" /\ restarted(e, TRUE, m_state, str)
    \/ /\ e = "SET_PREVIEW_WINDOW" /\ window' = arg
       /\ reply(e, TRUE) /\ UNCHANGED <<m_state, str, params, picture>>
    \/ /\ e = "START_PREVIEW" /\ ~window
       /\ \E p \in preparePreview(str, mode) :
              change(e, p.ok, IF p.ok THEN "READY" ELSE m_state, p.str)
    \/ /\ e = "START_PREVIEW" /\ window
       /\ \E p \in runPreview(str, mode, TRUE) :
              change(e, p.ok, IF p.ok THEN "PREVIEWING" ELSE m_state, p.str)
    \/ /\ e \in {"PRE_START_RECORDING", "START_RECORDING", "STOP_RECORDING",
                 "PREPARE_SNAPSHOT", "PRE_TAKE_PICTURE", "TAKE_PICTURE"}
       /\ only(e, FALSE)

(* Ready to start, without a window.  That the start fails is answered to  *)
(* SET_PREVIEW_WINDOW only.                                                *)
startReady(e) ==
    \E p \in startPreview(str, mode) :
        IF p.ok THEN reply(e, TRUE) /\ moveTo("PREVIEWING", p.str)
        ELSE reply(e, e = "START_PREVIEW") /\ moveTo("STOPPED", unpreparePreview(p.str))

PreviewReady(e, arg) ==
    \/ SetParams(e, arg, FALSE)
    \/ /\ e = "SET_PREVIEW_WINDOW" /\ window' = arg
       /\ \/ arg /\ startReady(e)
          \/ ~arg /\ reply(e, TRUE) /\ UNCHANGED <<m_state, str>>
       /\ UNCHANGED <<params, picture>>
    \/ e = "START_PREVIEW" /\ window /\ startReady(e) /\ UNCHANGED <<window, params, picture>>
    \/ e = "START_PREVIEW" /\ ~window /\ only(e, TRUE)
    \/ e = "STOP_PREVIEW" /\ change(e, TRUE, "STOPPED", unpreparePreview(str))
    \/ e = "SET_PARAMS_STOP" /\ change(e, TRUE, m_state, unpreparePreview(str))
    \/ /\ e = "SET_PARAMS_RESTART"
       /\ \E p \in preparePreview(str, mode) :
              restarted(e, p.ok, IF p.ok THEN m_state ELSE "STOPPED", p.str)
    \/ /\ e \in {"PRE_START_RECORDING", "START_RECORDING", "STOP_RECORDING", "PREPARE_SNAPSHOT",
                 "PRE_TAKE_PICTURE", "TAKE_PICTURE", "CANCEL_PICTURE"}
       /\ only(e, FALSE)

startRecording(e, state) ==
    \E r \in IF str.kind = "video" THEN Outcomes("startRecording") ELSE {FALSE} :
        change(e, r, IF r THEN state ELSE m_state, [str EXCEPT !.video = r])

(* A picture that begins: the deferred work will start the post processor. *)
begun == defer' = defer + 1 /\ owed' = TRUE /\ UNCHANGED <<prepDue, live, cmds, dataQ, snapshot, syncEvt>>

(* A picture that fails after the post processor was started, which is not *)
(* always stopped then, or before.                                         *)
notBegun(cs) == cmds' = cs \o cmds /\ UNCHANGED <<prepDue, defer, live, owed, dataQ, snapshot, syncEvt>>

takePicture(e, s, m) ==
    \/ /\ m.zsl /\ s.kind = "zsl" /\ begun
       /\ reply(e, TRUE) /\ moveTo("PREVIEW_PIC_TAKING", capturing(s, "zsl"))
    \/ /\ m.zsl /\ \/ s.kind # "zsl" /\ notBegun(<<>>)
                   \/ /\ s.kind = "zsl" /\ "takePicture" \in MayFail
                      /\ defer = 0
                      /\ notBegun(stopSnapshots) \/ notBegun(stopSnapshots \o startSnapshots)
       /\ reply(e, FALSE) /\ moveTo("PREVIEWING", s)
    \/ /\ ~m.zsl /\ begun
       /\ reply(e, TRUE) /\ moveTo("PIC_TAKING", capturing(stopPreview(s), "photo"))
    \/ /\ ~m.zsl /\ "takePicture" \in MayFail
       /\ notBegun(<<>>) \/ (defer = 0 /\ notBegun(startSnapshots))
       /\ \E t \in {s, notCapturing(s, "photo")} : \E p \in runPreview(stopPreview(t), m, TRUE) :
              reply(e, FALSE) /\ moveTo(IF p.ok THEN "PREVIEWING" ELSE "STOPPED", p.str)

(* The preview goes on with the recording hint.  If it does not start its  *)
(* channels are kept.                                                      *)
preStartRecording(e) ==
    /\ e = "PRE_START_RECORDING"
    /\ IF mode.hint THEN only(e, TRUE)
       ELSE \E h \in switchHint(str, TRUE, FALSE) :
                /\ reply(e, h.ok) /\ moveTo(m_state, h.str)
                /\ mode' = h.mode /\ newMode' = h.newMode
                /\ UNCHANGED <<needRestart, window, picture>>

Previewing(e, arg) ==
    \/ SetParams(e, arg, FALSE)
    \/ e \in {"START_PREVIEW", "CANCEL_PICTURE", "STOP_RECORDING"} /\ only(e, TRUE)
    \/ e = "SET_PREVIEW_WINDOW" /\ only(e, FALSE)
    \/ e = "STOP_PREVIEW" /\ change(e, TRUE, "STOPPED", stopPreview(str))
    \/ e = "SET_PARAMS_STOP" /\ change(e, TRUE, m_state, stopPreview(str))
    \/ e = "SET_PARAMS_RESTART" /\ restartPreview(e, m_state, "STOPPED")
    \/ preStartRecording(e)
    \/ e = "START_RECORDING" /\ startRecording(e, "RECORDING")
    \/ /\ e = "PREPARE_SNAPSHOT"
       /\ \/ /\ m_state' = "PREPARE_SNAPSHOT" /\ prepDue' = TRUE
             /\ UNCHANGED <<m_apiResultList, str, window, params, defer, live, owed, cmds,
                            dataQ, snapshot, syncEvt>>
          \/ "prepareSnapshot" \in MayFail /\ only(e, FALSE)
    \/ /\ e = "PRE_TAKE_PICTURE"
       /\ IF mode.hint
          THEN \E h \in switchHint(str, FALSE, TRUE) :
                   /\ reply(e, h.ok) /\ moveTo(m_state, h.str)
                   /\ mode' = h.mode /\ newMode' = h.newMode
                   /\ UNCHANGED <<needRestart, window, picture>>
          ELSE only(e, TRUE)
    \/ /\ e = "TAKE_PICTURE"
       /\ IF mode.hint
          THEN \E h \in switchHint(str, FALSE, TRUE) :
                   /\ takePicture(e, h.str, h.mode)
                   /\ mode' = h.mode /\ newMode' = h.newMode
          ELSE takePicture(e, str, mode) /\ UNCHANGED <<mode, newMode>>
       /\ UNCHANGED <<needRestart, window>>

(* The flash is being prepared: the answer to PREPARE_SNAPSHOT is owed.    *)
PrepareSnapshot(e, arg) == only(e, FALSE)

PicTaking(e, arg) ==
    \/ SetParams(e, arg, FALSE)
    \/ e = "SET_PARAMS_STOP" /\ only(e, TRUE)
    \/ e = "SET_PARAMS_RESTART" /\ restarted(e, TRUE, m_state, str)
    \/ /\ e \in {"STOP_PREVIEW", "CANCEL_PICTURE"} /\ cancelPicture
       /\ reply(e, TRUE) /\ moveTo("STOPPED", cancelled(str))
       /\ UNCHANGED <<window, params, syncEvt>>
    \/ /\ e \in {"SET_PREVIEW_WINDOW", "PRE_TAKE_PICTURE", "TAKE_PICTURE", "PREPARE_SNAPSHOT",
                 "PRE_START_RECORDING", "START_RECORDING", "STOP_RECORDING", "START_PREVIEW"}
       /\ only(e, FALSE)

Recording(e, arg) ==
    \/ SetParams(e, arg, TRUE)
    \/ /\ e \in {"START_PREVIEW", "SET_PREVIEW_WINDOW", "PRE_TAKE_PICTURE",
                 "PRE_START_RECORDING", "START_RECORDING", "PREPARE_SNAPSHOT"}
       /\ only(e, TRUE)
    \/ e \in {"SET_PARAMS_STOP", "SET_PARAMS_RESTART", "CANCEL_PICTURE"} /\ only(e, FALSE)
    \/ /\ e = "TAKE_PICTURE" /\ takeLiveSnapshot
       /\ reply(e, TRUE) /\ moveTo("VIDEO_PIC_TAKING", str)
       /\ UNCHANGED <<window, params, prepDue, defer, owed, cmds, dataQ, snapshot, syncEvt>>
    \/ e = "TAKE_PICTURE" /\ live = "none" /\ "thread" \in MayFail /\ only(e, FALSE)
    \/ e = "STOP_RECORDING" /\ change(e, TRUE, "PREVIEWING", stopRecording(str))
    \/ e = "STOP_PREVIEW" /\ change(e, TRUE, "STOPPED", stopPreview(stopRecording(str)))

VideoPicTaking(e, arg) ==
    \/ SetParams(e, arg, TRUE)
    \/ /\ e \in {"STOP_RECORDING", "CANCEL_PICTURE", "STOP_PREVIEW"} /\ cancelLiveSnapshot
       /\ reply(e, TRUE)
       /\ \/ e = "CANCEL_PICTURE" /\ moveTo("RECORDING", str)
          \/ e = "STOP_RECORDING" /\ moveTo("PREVIEWING", stopRecording(str))
          \/ e = "STOP_PREVIEW" /\ moveTo("STOPPED", stopPreview(stopRecording(str)))
       /\ UNCHANGED <<window, params, syncEvt>>
    \/ /\ e \in {"SET_PREVIEW_WINDOW", "SET_PARAMS_STOP", "SET_PARAMS_RESTART", "START_PREVIEW",
                 "PRE_START_RECORDING", "START_RECORDING", "PREPARE_SNAPSHOT",
                 "PRE_TAKE_PICTURE", "TAKE_PICTURE"}
       /\ only(e, FALSE)

(* The picture is taken from the channel of the preview, if the mode is    *)
(* still the one it was begun in.                                          *)
endPicture == IF mode.zsl THEN cancelPicture ELSE cancelLiveSnapshot
left(s) == IF mode.zsl THEN cancelled(s) ELSE s

PreviewPicTaking(e, arg) ==
    \/ SetParams(e, arg, FALSE)
    \/ e = "SET_PARAMS_STOP" /\ change(e, TRUE, m_state, stopPreview(str))
    \/ e = "SET_PARAMS_RESTART" /\ restartPreview(e, "PIC_TAKING", "PIC_TAKING")
    \/ /\ e \in {"CANCEL_PICTURE", "STOP_PREVIEW"} /\ endPicture
       /\ reply(e, TRUE)
       /\ IF e = "CANCEL_PICTURE" THEN moveTo("PREVIEWING", left(str))
                                  ELSE moveTo("STOPPED", unpreparePreview(left(str)))
       /\ UNCHANGED <<window, params, syncEvt>>
    \/ ~mode.zsl /\ preStartRecording(e)
    \/ ~mode.zsl /\ e = "START_RECORDING" /\ startRecording(e, "VIDEO_PIC_TAKING")
    \/ mode.zsl /\ e \in {"PRE_START_RECORDING", "START_RECORDING"} /\ only(e, FALSE)
    \/ /\ e \in {"SET_PREVIEW_WINDOW", "START_PREVIEW", "STOP_RECORDING", "PREPARE_SNAPSHOT",
                 "PRE_TAKE_PICTURE", "TAKE_PICTURE"}
       /\ only(e, FALSE)

stateMachine(e, arg) ==
    \/ m_state = "STOPPED" /\ PreviewStopped(e, arg)
    \/ m_state = "READY" /\ PreviewReady(e, arg)
    \/ m_state = "PREVIEWING" /\ Previewing(e, arg)
    \/ m_state = "PREPARE_SNAPSHOT" /\ PrepareSnapshot(e, arg)
    \/ m_state = "PIC_TAKING" /\ PicTaking(e, arg)
    \/ m_state = "RECORDING" /\ Recording(e, arg)
    \/ m_state = "VIDEO_PIC_TAKING" /\ VideoPicTaking(e, arg)
    \/ m_state = "PREVIEW_PIC_TAKING" /\ PreviewPicTaking(e, arg)

-----------------------------------------------------------------------------
(* The handlers of the events that do not come from calls. *)

(* Mutant: without a picture the notifier is not told. *)
signalEvtResultInPicture == syncEvt' = (syncEvt /\ m_state \notin PicStates)

(* The notifier goes on. *)
signalEvtResult == syncEvt' = FALSE

SnapshotDone ==
    /\ signalEvtResult
    /\ \/ m_state = "PIC_TAKING" /\ cancelPicture /\ moveTo("STOPPED", cancelled(str))
       \/ m_state = "VIDEO_PIC_TAKING" /\ cancelLiveSnapshot /\ moveTo("RECORDING", str)
       \/ m_state = "PREVIEW_PIC_TAKING" /\ endPicture /\ moveTo("PREVIEWING", left(str))
       \/ /\ m_state \notin PicStates
          /\ UNCHANGED <<m_state, str, prepDue, defer, live, owed, cmds, dataQ, snapshot>>
    /\ UNCHANGED m_apiResultList

(* The image goes to the notifier, whichever picture it was taken for. *)
JpegNotify ==
    /\ IF m_state \in PicStates
       THEN dataQ' = dataQ + 1 /\ cmds' = Append(cmds, "NEXT")
       ELSE UNCHANGED <<dataQ, cmds>>
    /\ UNCHANGED <<m_state, str, m_apiResultList, prepDue, defer, live, owed, snapshot, syncEvt>>

(* Mutant: the call that prepared the flash is not answered. *)
PrepSnapshotDoneUnanswered ==
    /\ m_state' = IF m_state = "PREPARE_SNAPSHOT" THEN "PREVIEWING" ELSE m_state
    /\ UNCHANGED <<m_apiResultList, str, picture>>

PrepSnapshotDone ==
    /\ IF m_state = "PREPARE_SNAPSHOT"
       THEN reply("PREPARE_SNAPSHOT", TRUE) /\ m_state' = "PREVIEWING"
       ELSE UNCHANGED <<m_apiResultList, m_state>>
    /\ UNCHANGED <<str, picture>>

(* The thread of the state machine: calls go first. *)
SmApi ==
    /\ api_queue # <<>> /\ api_queue' = Tail(api_queue)
    /\ stateMachine(Head(api_queue).evt, Head(api_queue).arg)
    /\ UNCHANGED <<evt_queue, app>>

SmEvt ==
    /\ api_queue = <<>> /\ evt_queue # <<>> /\ evt_queue' = Tail(evt_queue)
    /\ \/ Head(evt_queue) = "SNAPSHOT_DONE" /\ SnapshotDone
       \/ Head(evt_queue) = "JPEG_EVT_NOTIFY" /\ JpegNotify
       \/ Head(evt_queue) = "PREP_SNAPSHOT_DONE" /\ PrepSnapshotDone
    /\ UNCHANGED <<api_queue, app, window, params>>

-----------------------------------------------------------------------------
(* The application, which makes one call at a time: the camera service of  *)
(* the system serialises them.  A call that posts several events waits for *)
(* the result of each.                                                     *)

processAPI(e, arg) == api_queue' = Append(api_queue, [evt |-> e, arg |-> arg])

(* What the other threads still have to do. *)
inFlight == Len(cmds) + Len(evt_queue) + defer + (IF live # "none" THEN 1 ELSE 0)

call(e, arg) ==
    /\ inFlight <= MaxInFlight
    /\ app = "idle" /\ app' = e
    /\ processAPI(e, arg)
    /\ UNCHANGED <<m_state, evt_queue, m_apiResultList, str, params, window, picture>>

set_preview_window(w) == call("SET_PREVIEW_WINDOW", w)
start_preview == call("START_PREVIEW", FALSE)
stop_preview == call("STOP_PREVIEW", FALSE)
start_recording == call("PRE_START_RECORDING", FALSE)
stop_recording == call("STOP_RECORDING", FALSE)
cancel_picture == call("CANCEL_PICTURE", FALSE)

unclaimed == Len(api_queue) + Len(m_apiResultList) + (IF live = "take" THEN 1 ELSE 0)

take_picture(mFlashNeeded) ==
    /\ m_state \in {"RECORDING", "VIDEO_PIC_TAKING"} => unclaimed < MaxUnclaimed
    /\ call(IF mFlashNeeded THEN "PREPARE_SNAPSHOT" ELSE "PRE_TAKE_PICTURE", FALSE)

set_parameters(zsl) == inFlight < MaxInFlight /\ call("SET_PARAMS", zsl)

(* What a call does after a result: its next event, or it returns. *)
following(e, ok) ==
    IF e = "PREPARE_SNAPSHOT" THEN "PRE_TAKE_PICTURE"
    ELSE IF ~ok THEN "idle"
    ELSE IF e = "SET_PARAMS" THEN IF needRestart THEN "SET_PARAMS_STOP" ELSE "SET_PARAMS_COMMIT"
    ELSE IF e = "SET_PARAMS_STOP" THEN "SET_PARAMS_COMMIT"
    ELSE IF e = "SET_PARAMS_COMMIT" /\ needRestart THEN "SET_PARAMS_RESTART"
    ELSE IF e = "PRE_START_RECORDING" THEN "START_RECORDING"
    ELSE IF e = "PRE_TAKE_PICTURE" THEN "TAKE_PICTURE"
    ELSE "idle"

(* Mutant: whatever result comes first. *)
resultsAny(e) == DOMAIN m_apiResultList

(* Where the results of an event are in the list. *)
results(e) == { i \in DOMAIN m_apiResultList : m_apiResultList[i].evt = e }

(* The first result of the event; the status of a void call is lost. *)
waitAPIResult ==
    /\ app # "idle"
    /\ \E i \in results(app) :
           /\ \A j \in results(app) : i <= j
           /\ LET next == following(app, m_apiResultList[i].ok)
              IN  /\ app' = next
                  /\ IF next # "idle" THEN processAPI(next, FALSE)
                     ELSE UNCHANGED api_queue
           /\ m_apiResultList' = RemoveAt(m_apiResultList, i)
    /\ UNCHANGED <<m_state, evt_queue, str, params, window, picture>>

-----------------------------------------------------------------------------
(* The other threads, and the hardware. *)

(* Deferred work: the post processor starts, and with it the notifier. *)
DeferredWork ==
    /\ defer > 0 /\ defer' = defer - 1
    /\ cmds' = startSnapshots \o cmds
    /\ UNCHANGED <<m_state, api_queue, evt_queue, m_apiResultList, app, str, params, window,
                   prepDue, live, owed, dataQ, snapshot, syncEvt>>

(* A live snapshot that fails posts a call of its own: nobody waits for    *)
(* its result.                                                             *)
takeLiveSnapshot_internal ==
    /\ live = "take" /\ live' = "none"
    /\ \/ /\ str.kind = "video"
          /\ str' = [str EXCEPT !.live = TRUE] /\ owed' = TRUE /\ defer' = defer + 1
          /\ UNCHANGED api_queue
       \/ /\ str.kind # "video" \/ "live" \in MayFail
          /\ processAPI("CANCEL_PICTURE", FALSE)
          /\ defer' \in {defer, defer + 1}
          /\ UNCHANGED <<str, owed>>
    /\ UNCHANGED <<m_state, evt_queue, m_apiResultList, app, params, window,
                   prepDue, cmds, dataQ, snapshot, syncEvt>>

cancelLiveSnapshot_internal ==
    /\ live = "cancel" /\ live' = "none" /\ defer = 0
    /\ cmds' = stopSnapshots \o cmds
    /\ owed' \in stillOwed(str)
    /\ str' = [str EXCEPT !.live = FALSE]
    /\ UNCHANGED <<m_state, api_queue, evt_queue, m_apiResultList, app, params, window,
                   prepDue, defer, dataQ, snapshot, syncEvt>>

(* DO_NEXT_JOB: the first snapshot is the last one expected, the state     *)
(* machine is told and the notifier waits for it.                          *)
nextJob ==
    /\ dataQ' = IF dataQ > 0 THEN dataQ - 1 ELSE 0
    /\ IF dataQ > 0 /\ snapshot
       THEN /\ snapshot' = FALSE /\ syncEvt' = TRUE
            /\ evt_queue' = Append(evt_queue, "SNAPSHOT_DONE")
       ELSE UNCHANGED <<snapshot, evt_queue, syncEvt>>

cbNotifyRoutine ==
    /\ ~syncEvt /\ cmds # <<>> /\ cmds' = Tail(cmds)
    /\ \/ /\ Head(cmds) = "START" /\ snapshot' = TRUE
          /\ UNCHANGED <<dataQ, evt_queue, syncEvt>>
       \/ /\ Head(cmds) = "STOP" /\ snapshot' = FALSE /\ dataQ' = 0
          /\ UNCHANGED <<evt_queue, syncEvt>>
       \/ Head(cmds) = "NEXT" /\ nextJob
    /\ UNCHANGED <<m_state, api_queue, m_apiResultList, app, str, params, window,
                   prepDue, defer, live, owed>>

(* A frame is encoded once the post processor has started. *)
JpegDone ==
    /\ owed /\ owed' = FALSE
    /\ defer = 0 /\ (str.capture # {} \/ str.live)
    /\ evt_queue' = Append(evt_queue, "JPEG_EVT_NOTIFY")
    /\ UNCHANGED <<m_state, api_queue, m_apiResultList, app, str, params, window,
                   prepDue, defer, live, cmds, dataQ, snapshot, syncEvt>>

(* The metadata of a preview frame says that the flash is ready. *)
PrepDone ==
    /\ prepDue /\ prepDue' = FALSE
    /\ str.on
    /\ evt_queue' = Append(evt_queue, "PREP_SNAPSHOT_DONE")
    /\ UNCHANGED <<m_state, api_queue, m_apiResultList, app, str, params, window,
                   defer, live, owed, cmds, dataQ, snapshot, syncEvt>>

Application ==
    \/ \E w \in BOOLEAN : set_preview_window(w)
    \/ \E zsl \in BOOLEAN : set_parameters(zsl)
    \/ \E mFlashNeeded \in BOOLEAN : take_picture(mFlashNeeded)
    \/ start_preview \/ stop_preview \/ start_recording \/ stop_recording \/ cancel_picture

Next ==
    \/ Application \/ waitAPIResult
    \/ SmApi \/ SmEvt
    \/ DeferredWork \/ takeLiveSnapshot_internal \/ cancelLiveSnapshot_internal
    \/ cbNotifyRoutine \/ JpegDone \/ PrepDone

Spec == Init /\ [][Next]_vars

(* The application need not call, but takes the results of its calls.  It  *)
(* pauses now and then, so that the queue of events gets its turn.         *)
FairSpec ==
    /\ Spec
    /\ WF_vars(waitAPIResult) /\ WF_vars(SmApi) /\ SF_vars(SmEvt)
    /\ WF_vars(DeferredWork)
    /\ WF_vars(takeLiveSnapshot_internal) /\ WF_vars(cancelLiveSnapshot_internal)
    /\ WF_vars(cbNotifyRoutine) /\ WF_vars(JpegDone) /\ WF_vars(PrepDone)
-----------------------------------------------------------------------------
(* What streams is what the state says, however calls, failures and late   *)
(* events were mixed: nothing streams in STOPPED, video streams while it   *)
(* is recorded and at no other time, a picture is captured in its state    *)
(* only, and a live snapshot streams until the thread that ends it is done.*)
(* A capture outlives its picture only if the mode was changed during it:  *)
(* then cancelPicture stops the wrong channel (QCamera2HWI.cpp:4995).      *)
StreamsMatch ==
    /\ m_state = "STOPPED" => str.kind = "none" /\ ~str.on /\ "zsl" \notin str.capture
    /\ m_state \in {"READY", "PIC_TAKING"} => ~str.on
    /\ str.video <=> m_state \in {"RECORDING", "VIDEO_PIC_TAKING"}
    /\ "photo" \in str.capture \ str.switched => m_state = "PIC_TAKING"
    /\ "zsl" \in str.capture \ str.switched => m_state = "PREVIEW_PIC_TAKING"
    /\ str.live => m_state = "VIDEO_PIC_TAKING" \/ live = "cancel"

(* "API is in a way sync call" (QCameraStateMachine.cpp:83): when a call   *)
(* has returned nothing of it is left, neither an event nor a result.  A   *)
(* failed live snapshot cancels itself through a call nobody waits for.    *)
CallsAreSync ==
    \A r \in ToSet(api_queue) \cup ToSet(m_apiResultList) : r.evt \in {app, "CANCEL_PICTURE"}

(* Every call returns, unless it waits for the flash of a preview that was *)
(* lost.                                                                   *)
EveryCallAnswered ==
    app # "idle" ~> app = "idle" \/ (app = "PREPARE_SNAPSHOT" /\ ~str.on)

(* A picture that was begun ends, unless the notifier that goes on is to   *)
(* be stopped for the picture before it (START was put ahead of a STOP, or *)
(* a thread still cancels a live snapshot), or its frame will not come     *)
(* because its capture was stopped with the preview: set_parameters with   *)
(* another mode, or start_recording after it, restart the preview.         *)
Disturbed ==
    \/ live = "cancel"
    \/ owed /\ m_state # "PIC_TAKING" /\ str.capture = {} /\ live = "none" /\ ~str.live
    \/ ~syncEvt /\ \E i, j \in DOMAIN cmds : i < j /\ cmds[i] = "START" /\ cmds[j] = "STOP"
PictureEnds == m_state \in PicStates /\ defer > 0 ~> m_state \notin PicStates \/ Disturbed
=============================================================================
