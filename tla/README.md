# TLA+ models of the OPPO A57 device tree

The repository is an Android device tree: about 169,000 lines of C and C++ in 482 source files. Most of it
is two hardware abstraction layers, GNSS (`gps/`) and camera (`camera/QCamera2/`), beside small services and
configuration. This directory holds TLA+ models of the parts that have state, threads and messages, the
configurations that check them with TLC, and proofs that TLAPS checks.

Contents: [inventory](#inventory) · [modules](#modules) · [runs](#runs) · [fairness](#fairness) ·
[proofs](#proofs) · [disagreements](#disagreements-met) · [not modelled](#not-modelled) · [plan](#plan)

To check a module `M` with a configuration: `tlc -workers 2 -config M_run.cfg MCM`. To check proofs:
`tlapm AgpsProofs.tla`.

## Inventory

For each part: the state it keeps, its operations, with whom it talks, what is hard about it, and what makes
it correct. `PROJECT.json` lists the files of each part, its status, and the hazards at their lines.

### GNSS HAL

| part | state | operations | talks to | hard | correct when |
|---|---|---|---|---|---|
| AGPS manager (`gnss/Agps.cpp`) | one state machine per nif, with a list of subscribers | request and release of a link by the modem; opened, closed, denied by the framework | GnssAdapter's queue, the framework's data connection, LocApi | answers without identity that come late; a connection shared by subscribers that come and go; iteration over a list that shrinks | the state fits the list, nobody is forgotten, every request and close is answered, nothing is left open |
| Tracking (`gnss/GnssAdapter.cpp`) | two maps of sessions, time and distance based; commands put aside | start, update and stop of a session, engine up, client removed | clients through LocationAPI, the modem through LocApi and closures on the result | many sessions over one fix of the modem; state captured by a closure before an asynchronous command and used after it; modem restarts | every session served at its rate, nothing runs for nobody, each command answered once |
| NI sessions (same file) | two sessions, each with a lock, a condition and a thread per request | request from the modem, response of the user, emergency request, client removed | a thread per request, LocApi | a timeout that races the response; a session reused by the next request | one thread per session, one answer per request, the answer its own |
| ODCPI (same file) | the request, a flag, the timer | request and stop from the modem, timer expiry, engine down | LocTimer, the framework | expiries that were posted before the timer was stopped or restarted | a timer that counts as active expires; a session is extended for as long as it lasts |
| Configuration, reports, NMEA, NFW, power state (same file) | configuration values, collected answers, generators | setters, reports from the modem | modem, front ends | answers collected from several commands | one collected answer for each command |
| Timer service (`utils/LocTimer.cpp`) | heap of delegates, a timerfd, an epoll set | start, stop, delete, expire | a message thread and a poll thread | two threads write the timerfd; delegates freed by message; a client deleted during its expiry | no timer forgotten, none early, no delegate used after it was freed |
| Timer heap (`utils/LocHeap.cpp`) | a binary tree balanced by counts | push, pop, remove, peek | LocTimer | recursion over the shape of the tree | it holds the bag of its members and its top is the soonest |
| Location API (`location/LocationAPI.cpp`) | two global maps, loaded interfaces; per adapter its clients | create, change callbacks, destroy | up to three adapters, by messages | a removal that several adapters must answer before the object is deleted; addresses that are used again | told after removal, on living objects only; the adapters agree with the callbacks |
| Location API client base | queues of requests matched with responses by session id | requests, responses, collective responses | LocationAPI | a response that comes before the request is registered | each response answers its own request |
| Message task, queue, thread (`utils/MsgTask.cpp`, `msg_q.c`, `LocThread.cpp`) | a linked list, a lock, a condition | send, receive, unblock, join | everything above | shutdown while a thread waits | FIFO, and no message lost but at shutdown |
| LocApi base, contexts (`core/`) | adapters of a modem, the event mask | add, remove, open, engine up and down | all adapters | a restart while the mask changes | the mask is the union of what the adapters want |
| System status, observers (`core/`, `XtraSystemStatusObserver.cpp`) | subscriptions of data items, caches | subscribe, notify | IPC, the adapters | subscriptions that change during a notification | each client told of what it subscribed to |
| Geofence and batching adapters | sessions mapped to ids of the modem | add, remove, pause; engine up | LocApi, clients | ids set up again after a restart | each fence known to the modem once |
| IPC, HIDL front ends, platform layer | sockets; none; configuration | - | - | - | I/O, conversion of types and parsing |

### Camera HAL

| part | state | operations | talks to | hard | correct when |
|---|---|---|---|---|---|
| HAL1 (`HAL/QCameraStateMachine.cpp`, `QCamera2HWI.cpp`, `QCamera2HWICallbacks.cpp`) | the state (8 + NODISPLAY), two event queues, results of calls, channels, deferred work, the notifier | the calls of the camera API, events of pictures | the application's thread, the state machine's, deferred work, live snapshot, notifier, JPEG | calls overtake events; results nobody waits for; work cancelled while another thread does it | what streams fits the state, a call returns with its own result, a picture ends |
| HAL1 post processing and parameters | queues of frames and jobs; two sets of parameters | process, encode, stop | mm-jpeg, the state machine | a job that ends after it was stopped | each frame released once |
| HAL3 (`HAL3/QCamera3HWI.cpp`, `QCamera3Channel.cpp`) | the state of the device, pending requests and the buffers lent with them, batches, per stream the frames its buffers are for, JPEG jobs | process request; metadata, buffers and JPEGs as they come; flush; daemon died | the framework, the stack, the post processor of the JPEG channel | a request is spread over metadata and buffers that come on different threads in any order, or never; flush stops the channels without the lock | each request answered once, each buffer returned once, in order, and nobody waits without a reason |
| HAL3 post processing, streams of raw and YUV, parameters | queues of frames; conversions | process, start, stop | mm-jpeg | - | each frame released once |
| mm-camera interface (`stack/mm-camera-interface`) | state machines of camera, channel, stream; reference counts of buffers; queue of super buffers | start, stop, request, cancel, flush; frames from the kernel and back | kernel, HAL | a buffer shared by several threads and callbacks; matching of frames when some streams drop one; a stop that joins threads with work left | a buffer is back in the kernel when its last user is done, a super buffer is of one frame, the queue is bounded, calls return |
| JPEG interface (`stack/mm-jpeg-interface`, `mm-image-codec`) | sessions with an OMX component each, the job queue, the ongoing jobs, a semaphore | create, start, abort, destroy; the manager's thread; events and buffers of OMX | the codec, both HALs, from several cameras | an abort that races the end of the job; jobs of two cameras that share one encoder and one semaphore | each job called back once and in time, none forgotten |
| Utilities (`util/`, factory), lib2d | queues, command threads | enqueue, dequeue, send | the others | exit of a thread | nothing lost |

### The rest

Fingerprint (forwards calls to a vendor library and notifications to one client), lights and touch (write
files of the kernel), init, shims, radio and recovery helpers (straight line code), and directories that
hold configuration only. None but the fingerprint service has an interleaving worth a model.

### How they meet

Every GNSS component runs on the thread of a MsgTask: its inputs are messages in one FIFO queue, and its
commands to the modem go through the queue of LocApi, whose results come back as messages. `AGPS`,
`tracking`, `NI` and `ODCPI` share GnssAdapter's thread but no state, which is why they are modules of their
own and not one product. ODCPI uses the timer service: `Odcpi` takes from it what `LocTimer` shows, that a
running timer expires once (`EveryDelegateEnds`), possibly after it was stopped. `LocationApi` is the
layer that makes and removes the clients whose commands `GnssTracking` handles; both model the removal of a
client as a message. The camera is a second program, in layers: `CameraApi` (HAL1) and `RequestPipeline` (HAL3)
are two front ends, of which a device runs one; both get their frames from channels (`MmChannel`) and send their
pictures to the encoder (`MmJpeg`). Each layer's module has the one below it as its environment: `CameraApi`
and `RequestPipeline` see buffers that come in any order and may be lost, `MmChannel` sees a HAL that asks,
returns, flushes and stops at any time, `MmJpeg` sees cameras that start, abort and destroy at any time.

## Modules

The names of variables and operators are those of the code wherever TLA+ allows it; the mapping to lines is
in `PROJECT.json`. Each module `X` has a module `MCX` with the values of its constants. Definitions whose
comment begins with "Mutant" are plausible mistakes, each a variant of the definition below it; `PROJECT.json`
pairs each checked property with one that breaks it.

### `Agps`, `SharedDataConn`, `AgpsProofs`
One action per message of GnssAdapter's queue (`ProcMsg`), per report of the framework (`FwCommand`,
`FwOpened`, `FwFailed`, `FwLost`, `FwOpenedBadApn`), per step of the modem. `procEvt` of AgpsStateMachine is
an operator per event (`processAgpsEventSubscribe`, `...Unsubscribe`, `...Granted`, `...Released`,
`...Denied`), with the notifications in it. Subscribers that wait for the close are the constant `WaitForClose`. `deleteSubscriber` goes on
reading the subscriber that it has freed; the handles that the freed element may then read as, so that they are
taken off the list with it, are `StaleReads`. APN, bearer and type are the nif they select.
The framework is external: it opens or fails what it is asked for, at once if the connection is there, and may
lose it. `RELEASING` cannot be reached through AgpsManager, where `mWaitForCloseComplete` is always false; the
model keeps it since AgpsStateMachine has it. `handleModemSSR`, `dropAllSubscribers` and `getFirstSubscriber`
are never called and are left out.

`SharedDataConn` is the promise without the state machine: a connection with users, who are told when it
comes up; when one leaves, one of `MayLose` may be lost with it. `Agps` implements it with `users` the active
subscribers, `told` those of them that were told, `up` the state `ACQUIRED`, `MayLose` the constant `StaleReads`.

### `GnssTracking`, `AdapterProofs`
The three commands of a client (`MsgStartTracking`, `MsgUpdateTracking`, `MsgStopTracking`), `MsgRemoveClient`,
`MsgHandleEngineUpEvent` and the closures that wait for the modem (`Response`) are messages in `msgs`;
`toModem` is the queue of LocApi; `Execute` is what the modem does with a command (external). `pendingMsgs`
are the commands put aside until the capabilities are known. Clients in `Hasty` send a command before the last one
is answered, those in `MayRemove` may be destroyed. Three histories say where the code leaves modem and maps apart:
`crossed` (sessions with commands that overlapped), `astray` (sessions of which the modem refused a command, or which
`restartSessions` started while one was unanswered), `leftOn` (nobody stopped the fix of the last session). A session is time based (multiplexed over
`fix`) or distance based (`engDb`). Abstracted: the fall back of M4 on time based batching, the clamp at
`MIN_TRACKING_INTERVAL`, and `mPowerOn`. The order of maps, which is by client pointers, is any order.

### `NiSession`, `AdapterProofs`
`niThreadProc` is a program counter per request (`Thread`): wait, time out or be woken, take the answer, unlock,
then clear `respTimeLeft` and `reqID`, which the code does without the lock. A response is two steps
(`ProcMsg`, then `StoreResponse`), since `MsgGnssNiResponse` tests the session before it takes the lock. Times
are "some left" or "none". One client; `pthread_create` succeeds. `NiSpec`, `NiTypeOK` and the like carry the prefix since
`AdapterProofs`, which has the theorems of both parts of GnssAdapter, extends this module and `GnssTracking`; `TimerProofs`
does so with `LocTimer` and `Odcpi` (`OdcpiSpec`).

### `LocTimer`, `TimerProofs`
`start`, `stop`, `delete` by the owners; the message thread with its program counter in `MsgTimerExpire`
(`TaskStep`); the poll thread in `LocTimerContainer::expire` (`PollStep`); the clock (`Tick`). The heap is a set
of delegates, and its top any soonest one, which is what `LocHeap` gives. One of the two containers (they
share nothing). `MaxTime` bounds the clock, and through it the deadlines.

### `Odcpi`, `TimerProofs`
`requestOdcpi` and its handlers over LocTimer, seen as "running" and an expiry that posts a message.

### `LocationApi`, `LocationApiProofs`
`createInstance`, `updateCallbacks`, `destroy` by the clients; `ProcMsg` is the adapters' thread, which all
three adapters share; deletions and callbacks made outside the lock are steps of their own (`onAdapter`,
`onCaller`). Addresses are a finite set and are used again. A library that cannot be loaded is in `Missing`.
`updateCallbacks` may leave out any kind; the history `dropped` has the kinds that it left out at each address while an
adapter had the client, which nothing takes it off there.

### `CameraApi`, `CameraApiProofs`
The application makes calls, each a sequence of events to the state machine and of waits for their results
(`call`, `following`, `waitAPIResult`), one call at a time, since the camera service of the system (external)
serialises them; `lockAPI` alone would not, as `take_picture` and `start_recording` let go of it between their
events. The state
machine's thread handles a call's event (`SmApi`) or, when there is none, an event of a picture (`SmEvt`);
there is a handler per state (`PreviewStopped` ... `PreviewPicTaking`). Other threads: `DeferredWork` starts
the post processor, `takeLiveSnapshot_internal` and `cancelLiveSnapshot_internal` run on the live snapshot's
thread, `cbNotifyRoutine` is the callback notifier, which waits inside `processSyncEvt` (`syncEvt`).
Channels are what they stream (`str`); a capture on which `cancelPicture` stops the wrong channel stays in
`str.capture`, and `str.switched` remembers the captures during which the mode was changed. Steps that may fail are the constant `MayFail`. The recording hint is set by `start_recording` and
`take_picture` only, and `set_parameters` changes the ZSL mode only: the two modes that decide which channels
there are. Left out: two cameras, long shot, retro active and manual capture from type 3, early restart of
the preview, back end pictures, `STOP_CAPTURE_CHANNEL`, death of the daemon, `release` and `close`, the preview
without a display, queries and message types, TNR and low power live snapshots, a failing
`configureOnlineRotation`, a failing start of the post processor, and a thread for the cancel of a live
snapshot that cannot be created.

### `MmChannel`, `MmChannelProofs`
One channel: `ReadFrame` and `HandleRcvdBuf` are the poll thread (`mm_stream_data_notify`, then
`mm_stream_handle_rcvd_buf`), `ProcessStreamBuf` is the channel's command thread, which takes one command from `cmdq`
and runs `mm_channel_process_stream_buf`, with an operator for each part of it (`enqueue`, `handleMetadata`, `zsl`,
`request`, `trim`, `toSend`) over the record `ch`; `DispatchSuperBuf` and `DispatchAppData` are the callback
threads; `ReturnHal` and `ReturnApp` give a buffer back. The calls are start, stop, request, cancel and flush; the
step each is at is `api`, since start goes from stream to stream and flush and stop wait for threads. A buffer is
counted in `refcnt`, and `bufDone` drops the count for whoever held it. The code first looks whether the count is 0
and drops it in a second section of the lock, and a buffer whose count is 0 then is queued after the unlock; that is
one step here, since whoever gives a buffer back has a count of its own (`RefcntIsHolders`), so nobody else takes it
to 0 in between, and nobody looks at a buffer that has no count. A metadata frame says something of a
frame (`Infos`), which need not be its own. `crashed` marks the behaviours in
which the code would spin for ever, touch freed memory or the queue of a thread that is gone; the model stops
there. The kernel is external: it fills any buffer it has with the next frame and may drop the frames in `Lossy`.

### `RequestPipeline`, `RequestPipelineProofs`
Each action is a section of `mMutex`, or a step of a thread between two. On the framework's thread are
`processCaptureRequest`, its wait for `mPendingLiveRequest` (`wake`, `waitTimedOut`) and `flushCall`, whose steps
(`recheck`, `setFlush`, `stopChannel`, `stopMetadata`, `finishFlush`, `handleCameraDeviceError`) run without `mMutex`
where the code stops the channels, one after the other in either order of the two streams, the metadata last. `Metadata` is `handleMetadataWithLock`, one frame of a batch at a time; `streamCbRoutine` takes a
regular buffer and finds those put aside as out of sequence, `deliver` hands each to `handleBufferWithLock`; `jobStep`
is a JPEG. `capture` is the sensor (external). The list and the map of pending requests are ordered by frame number,
so they are sets. What a result says beyond "final result", "error" and "buffer" is left out. The histories
`stale` and `misled` mark the two behaviours below in which the code goes wrong.

### `MmJpeg`, `MmJpegProofs`
`createSession`, `startJob`, `abortJob`, `destroySession` are the calls; the latter two are `call` with the steps of
`mm_jpeg_session_abort` and `mm_jpeg_session_destroy`. `takeToken` and `processJob` are the job manager, `fbd`,
`errorEvent`, `cmdComplete` the callbacks of OMX, `jobRemoved` and `handleQueued` what they do after the client was
called. A session that `createSession` could not configure stays and is destroyed by its id. `crippled` is a history, `Hanging` a state, of the two behaviours in which jobs wait (below). The OMX
component is external: it fills its buffer, fails once in an encode at most, and stops when it is told to.

## Runs

Every bound is a constant of the module and is named in its declaration. `violation` runs show a
disagreement of the code with its own words, see [below](#disagreements-met).

| run | what it asks | bounds, and why they are enough |
|---|---|---|
| `agps` | `NifConsistent`, `ToldMatchesState`, `NobodyForgotten`, `ImplementsShared`, `OpenAnswered`, `CloseAnswered` | both nifs, two handles, one of which waits for the close and may be lost with the other: a subscriber that leaves, one that stays and one that waits; APNs refused on one nif. `MaxMsgs` 2, `MaxCmds` 1: an old answer meets a new request. The safety properties are also proved for any number |
| `tracking_restart` | `FixServesAll`, `OnlyMapsRun` | two sessions of two clients, one of which does not wait for answers; two intervals: equal, shorter and longer; one update and one restart, anywhere; a modem that does not open at once and may refuse all but a start of the fix. One power mode: the modes only add starts of the fix to those that the intervals cause, and the theorems are for any |
| `tracking_live` | `StoppedIsGone`, `EveryAnswered` | the same sessions and intervals without restart; the modem may refuse everything but the stop of a distance based session; one of the two clients does not wait for answers and may be removed at any time |
| `ni_session` | `SessionHasThread`, `EndedOnce`, `EveryRequestEnds` | three requests, so that two share a session while the emergency one silences them; one response each |
| `ni_stale` (violation) | `AnswerIsOwn` | two responses |
| `timer_service` | `NoTimerForgotten`, `NoneFreedInUse`, `EveryDelegateEnds` | two timers with three runs between them, delays 1 and 2: the soonest changes in both ways; one timer may be deleted at any time |
| `odcpi_timer` | `TimerExpires`, `SessionExtended`; deadlock is checked | queues of four: any requests and stops before and behind a late expiry, whose own message is not bounded |
| `api_clients` | `ToldAfterRemoval`, `CallsLivingObject`, `AdaptersAgree`, `DestroyAnswered` | two addresses, each used again and again; any kinds left out; one library missing; clients call while at most three messages wait, so that a client's messages to both other adapters meet another one's |
| `camera_calls` | `StreamsMatch`, `CallsAreSync`, `EveryCallAnswered`, `PictureEnds` | any sequence of calls, with a change of the mode at any time; every step of `Steps` may fail but the commit, by which the run would grow from 0.7 to 1.6 million states (and has been checked once for the safety properties). The application calls while at most one thing of the previous picture is under way (`MaxInFlight`), and sets parameters while nothing is. One result that nobody waits for (`MaxUnclaimed`) |
| `superbuf` | `RefcntIsHolders`, `MatchedFirst`, `QueueBounded`, `OneFrame`, `NoneKeptBack`, `CallsReturn` | two streams, one of them with a callback of its own, so that a buffer has two users; two buffers each, so that a HAL that keeps one makes the kernel wait; three frames, the first of which may be dropped on either stream, so that an older, a current and a newer node meet; both kinds of queue (bursts, and low priority, whose metadata may be of another frame); limits of 1, so that every limit is reached; a metadata frame that announces that a later one is diverted, and one that defers a snapshot to a later frame, so that a node which is over the limit is spared because it is expected; a request for two super buffers, one of them from the past; one call beside start and stop |
| `hal3_requests` | `LentOnce`, `AnsweredOnce`, `InFlightCounted`, `NoLostWakeup`, `InOrder`, `EveryRequestSettled` | four requests: previews or a reprocess request first, a snapshot with both kinds of buffer last; with and without batches of two; two requests in flight wake the framework, three make it wait; metadata of one frame and buffers of two may be lost, so that several are missing at once; one flush, channel by channel, and one daemon event anywhere. Fewer frames do not reach a second drop after a flush |
| `jpeg_jobs` | `CalledBackOnceInTime`, `EveryJobEnds` | two cameras, one job at the encoder. One camera starts two jobs and creates two sessions, so that a slot is used again; the other has one of each and waits for the encoder meanwhile |

`TypeOK` of each module says what its variables hold; it is proved where there is a proof module, and is not spent
a run's property on. Deadlock is not checked where the system may come to rest (all requests made, all clients
gone); `odcpi_timer` checks it.

Conditions that a property states, and why:
- `FixServesAll` is for clients that stay and a modem that, while it is up, refuses no start of the fix (`Faithful`).
- `OnlyMapsRun` excuses the behaviours in which the code itself parts maps and modem, and only for the sessions
  concerned: sessions whose commands overlapped (`crossed`), of which the modem refused a command or which a restart
  started twice (`astray`); for the fix, that nobody stopped it (`leftOn`). The commands of those sessions are in the
  model and must leave the others as they are.
- `StoppedIsGone` excuses the sessions in `crossed`, in the same way.
- `EveryAnswered` is for a modem that does not restart: `restartSessions` repeats commands that are not answered yet.
- `NobodyForgotten` excuses the one subscriber that the element freed in another one's release reads as
  (`takenForFreed`); liveness of AGPS excuses it too (`lost`), and APNs that are not legal.
- `ToldAfterRemoval`, `AdaptersAgree` take into account the kinds that `updateCallbacks` left out (`dropped`): in those,
  and in no others, an adapter keeps a client that has gone, also when its address is used again.
- `StreamsMatch` excuses a capture that goes on after its picture only if the mode was changed during it (`switched`).
- `EveryDelegateEnds` says that each delegate is deleted, not that its client was called.
- `EveryCallAnswered` excuses a flash that is awaited from a preview that was lost, `PictureEnds` a picture
  whose START overtook the STOP of the one before it.
- `CallsReturn` is up to a crash of the kind below; `RefcntIsHolders` is for streams that are active.
- `AnsweredOnce` and `InOrder` are up to the confusion `misled`, `EveryRequestSettled` also up to `stale`;
  `InFlightCounted` says nothing while `mFlush` is set, when the count is not kept; `NoLostWakeup` excuses the death of the daemon, of which nobody is signalled.
- `EveryJobEnds` excuses the sessions that are `crippled` and the destroy that is `Hanging`.

## Fairness

Weak fairness, on the threads that the code itself starts and that do nothing but loop over their queue:
- `Agps`: GnssAdapter's thread; the framework, per nif, takes commands and ends an opening by success or failure.
- `GnssTracking`: the adapter's thread and LocApi's. Clients need not do anything.
- `NiSession`: the adapter's thread (both steps) and each request's thread, whose wait has a timeout.
- `LocTimer`: message thread, poll thread, and the clock.
- `Odcpi`: the adapter's thread and the expiry of a running timer.
- `LocationApi`: the adapters' thread, and an owner that is about to be called back.
- `CameraApi`: the caller that waits for a result, the state machine for calls, deferred work, the two steps of
  the live snapshot's thread, the notifier, the encoder, and the metadata that says the flash is ready.

- `MmChannel`: the command and callback threads, the HAL's return of buffers, and the steps of the call in progress.
- `RequestPipeline`: the framework's thread, the sensor's metadata and buffers, JPEG jobs, the flush thread, and the
  wait, which has a time-out.
- `MmJpeg`: a call in progress, the job manager, and per session the OMX component, which ends what it started.

Strong fairness for the poll thread of `MmChannel` (`ReadFrame`): `poll` returns every descriptor that is ready and the
loop serves each of them, though one frame at a time, so that a stream with frames is not passed over for ever.
Strong fairness once more: events of the camera's state machine (`SmEvt`), which are enabled only while no call is
queued (QCameraStateMachine.cpp:77). It says that the application does not make calls without a pause for
ever; a caller that did would keep every event in the queue.

## Proofs

`tlapm` checks these for every value of the constants that satisfies the assumptions of the modules
(`AgpsConstants`, `NiConstants`, `LocTimerConstants`, `OdcpiConstants`, `ApiConstants`, `CameraConstants`,
`PipelineConstants`, `JpegConstants`, `TrackingConstants`, `ChannelAssumption`: types of the constants, that a null value
is none of the others, that there is a buffer, that the sets over which the code loops, of sessions and of streams, are
finite, that streams are started in some order and each once, metadata first). The bounds of the runs are constants too,
so the theorems hold whatever they are. Only `FixServes` has a hypothesis more, `Faithful`: the modem knows
distance based tracking, clients stay, and a modem that is up refuses no start of the fix. Each is needed, as TLC shows:
an update to a distance that is not supported stops the shared fix, the sessions of a client that goes stay in the map while
their fix is stopped, and a session that joined a fix which is then refused is left without one. Commands may overlap and
the modem may restart.

| theorem | statement | argument |
|---|---|---|
| `AgpsProofs!TypeCorrect` | `Spec => []TypeOK` | types per event of the state machine (`SubscribeType` ... `DeniedType`), then per action |
| `AgpsProofs!SmConsistent`, `ToldIsTrue` | `Spec => [](NifConsistent /\ ToldMatchesState)`, `Spec => []ToldMatchesState` | `SmInv` is inductive: types of the state machines, `NifConsistent` and `ToldMatchesState` together. Neither of the two is inductive alone: who has to be told depends on the state, and the state on who is active. Since an event touches one nif, `OneNif` reduces a step to that nif |
| `AgpsProofs!Refinement` | `Spec => ImplementsShared` | each event maps to `Acquire`, `Release`, `Connect`, `Fail` or a stutter, under `SmInv` |
| `AgpsProofs!NoSilentLoss` | `Spec => NobodyForgotten` | who leaves in each event has been told (`LeaversTold`), but for one in the release of another (`takenForFreed`), whatever `StaleReads` is |
| `AdapterProofs!TypeCorrect` | `Spec => []TypeOK` | that what a handler puts in a map is a session with options, and that every message and command carries a closure of its kind |
| `AdapterProofs!FixServes` | `Faithful` implies `Spec => []FixServesAll` | `ServeInv`: while the modem is up and no engine-up event waits, every time based session is served by the last command about the fix in `toModem`, or by the fix if there is none (`Serves`). A handler keeps this if its commands ask for no less than the sessions it leaves need (`ServesStill`), which each multiplexer gives; restarts need that options are only taken back before the engine-up event that repeats the starts (`HonestInv`), and that the modem is opened once (`OpenInv`). `SaneInv` says what the closures on their way hold |
| `AdapterProofs!StoppedGone` | `Spec => []StoppedIsGone` | `FlightInv`, of each session whose commands have not overlapped: one place in the three queues, at most, has a message, a command put aside or a modem command about a session, only while an answer is owed, and it fits the maps (`MsgOk`, `ClosureOk`): an answer to an update is not on its way once the client's last command is a stop |
| `AdapterProofs!MapsRunOnly` | `Spec => []OnlyMapsRun` | `PowerInv`: the modem is up, or going to be opened, and what runs on one that is down is nothing. `IdleInv`: without a time based session the last command about the fix in `toModem` stops it, or the fix is off and none is under way, unless `leftOn`. `DbInv`, per session that is neither `crossed` nor `astray`: what the modem will run when it has executed its commands is what the map holds, but for a session being stopped or restarted, which stays in the map until the modem's answer has been handled (`DbLive`); while the modem is down the map alone counts, since `restartSessions` starts what it holds (`DbSafe`, `Honest`). With `FlightInv`, since only one such answer can be on its way |
| `AdapterProofs!NiTypeCorrect` | `NiSpec => []NiTypeOK` | with `StoredResponse`: what is marked as received is a response |
| `AdapterProofs!OneThreadPerSession` | `NiSpec => []SessionHasThread` | `SessionHasThread` is inductive relative to the types; split by session (`SlotHas`) |
| `AdapterProofs!RequestsEndOnce` | `NiSpec => EndedOnce` | a step ends a request only from the queue or from its thread. `NiOpenInv`: a request is in the queue in one place at most (`OnceQueued`), and one that is there, or that a thread will still answer, is open (`QueuedOpen`, `ThreadOpen`) |
| `TimerProofs!TypeCorrect` | `Spec => []TypeOK` | with `TaskKnows`: what the expiry has popped is a delegate |
| `TimerProofs!TimersTended` | `Spec => []NoTimerForgotten` | needs `Born`: the delegates of the heap and of push messages have been started, so no later start changes a deadline the timerfd was set for. Each write of the timerfd either leaves it in time for the soonest or happens while an expiry is on its way |
| `TimerProofs!DelegatesInUseLive` | `Spec => []NoneFreedInUse` | `UseInv`: a delegate is deleted by the message that removes it, which is the last message about it (`RemovedLast`) and was sent by the only timer that has it (`OneTimer`), which let go of it then |
| `TimerProofs!OdcpiTypeCorrect` | `OdcpiSpec => []OdcpiTypeOK` | per message |
| `TimerProofs!TimerNeverStuck` | `OdcpiSpec => []TimerExpires` | inductive relative to the types: an expiry stays in the queue until it is handled (`SentExpires`), and the timer counts as active until then |
| `LocationApiProofs!TypeCorrect` | `Spec => []TypeOK` | part of `SafeInv` |
| `LocationApiProofs!CallsReachLiving` | `Spec => []CallsLivingObject` | `SafeInv`: what the owner of an object has come to says in which set the object is (`OwnerInv`); a removal is the last message for its client and adapter, and the client is not deleted before it was handled (`RemovalInv`) |
| `LocationApiProofs!ToldWhenForgotten`, `AdaptersAgreeAtRest` | `Spec => []ToldAfterRemoval` and `Spec => []AdaptersAgree` | `KeptInv`: which clients each adapter will have once the queue is worked off (`WillHave`) is what the callbacks and `dropped` say at every moment, not only at rest (`AgreeInv`); a message about a client that is leaving holds its deletion up (`WaitInv`) |
| `CameraApiProofs!TypeCorrect` | `Spec => []TypeOK` | with `SyncInv`, since the answer to an event is only typed if the event is |
| `CameraApiProofs!CallsReturnClean` | `Spec => []CallsAreSync` | `SyncInv`: the event the application waits for is in exactly one place, with the state machine, in the list of results, or held back while the flash is being prepared. All else in the queues is a CANCEL_PICTURE. It rests on `MachineDone`: in every state the handlers answer every event once |
| `CameraApiProofs!StreamsFollowState` | `Spec => []StreamsMatch` | one lemma per handler (`StoppedKeeps` ... `PreviewPicTakingKeeps`) for `PictureInv`, which adds to `StreamsMatch` that a capture in `switched` is of the mode that is not current, so that a cancel stops each capture but those. A `set_parameters` goes in steps: `RestartInv` says that the preview is restarted only by one that has stopped it, in a state where it may run |
| `MmChannelProofs!TypeCorrect` | `Spec => []TypesOk` | part of `Inv`, which all of the following share: types, the queue (`QueueOk`), the places of buffers (`OnePlace`, `Counted`), frames in order (`InOrder`), the progress of the call (`Phase`) |
| `MmChannelProofs!LoopsEnd` | `Spec => []MatchedFirst` | `QueueOk`, in particular `MatchedPrefix` and `Ordered`: a node that is completed ends up right behind the matched ones. A renamed node of a low priority queue breaks the order of the indices; it never completes, since one of its streams has passed its frame (`Missed`), which needs that frames of a stream come in order |
| `MmChannelProofs!QueueLimit` | `Spec => []QueueBounded` | `Bounded` with `Kept`: each insertion is paired with a removal beyond the limit |
| `MmChannelProofs!SuperBufferOfOneFrame` | `Spec => []OneFrame` | `NodeOk`: what a slot holds is of the node's frame, or metadata at low priority; only complete nodes are handed on (`SuperOk`) |
| `MmChannelProofs!RequestServed` | `Spec => []NoneKeptBack` | `Kept`: a pending request that does not wait for the preparation of a snapshot leaves no matched node, since the step that completes a node also hands it on |
| `MmChannelProofs!CountIsExact` | `Spec => []RefcntIsHolders` | `Counted` with `OnePlace`: a buffer has one use of the channel and one of the stream's own callback, each in exactly one of its places (`Disjoint`, `Once`), so that every step that drops the count moves the buffer from one place to the next. `Phase` says which streams are active at each step of a call |
| `RequestPipelineProofs!TypeCorrect` | `Spec => []TypeOK` | part of `PipelineInv`, which all of the following share |
| `RequestPipelineProofs!BuffersGoBackOnce` | `Spec => []LentOnce` | a buffer that is on its way to `handleBufferWithLock` is expected there, and is on its way once (`ComingInv`); a request that is pending has all its buffers in the map (`ListInv`). A flush takes everything back only when nothing is on its way any more (`FlushInv`): a channel that a thread has stopped stays so until the flush ends (`StoppedStays`) |
| `RequestPipelineProofs!RequestsAnsweredOnce` | `Spec => []AnsweredOnce` | what leaves the list is answered in the same step; a step that would answer what is not in the list is `misled` |
| `RequestPipelineProofs!CountIsPending` | `Spec => []InFlightCounted` | `CountInv` with `ListInv`: requests are kept apart by their frames, so each step that takes one out takes one from the set. It holds also where `misled` does, as the proof showed |
| `RequestPipelineProofs!ResultsInOrder` | `Spec => InOrder` | `OrderInv`: what is handed over of a live frame was handed over of all older ones (`HandedInOrder`), which needs that a buffer that comes has those of all older frames before it, also among those put aside (`ComingInOrder`), and that unless there is a flush all that is expected comes (`AllCome`) |
| `RequestPipelineProofs!NobodyWaitsInVain` | `Spec => []NoLostWakeup` | each step that lets the count fall below the limit signals, with `PipelineInv` |
| `MmJpegProofs!TypeCorrect` | `Spec => []TypeOK` | with `RemoveJobs`: what `removeJobs` leaves of a queue is a queue of jobs, each from one place of the old one |
| `MmJpegProofs!JpegInvariant` | `Spec => [](TypeOK /\ IInv)` | `IInv` says which jobs may still be called back: those in the queue, about which nobody knows anything yet (`QueueInv`), and the one a component encodes (`Owed`). To keep the latter it needs what each step of a call has reached (`CallInv`), that a handle is only available when its component is idle or is being destroyed (`HandleInv`), and that a job not started yet is known nowhere (`FreshInv`) |
| `MmJpegProofs!CalledBackOnce` | `Spec => CalledBackOnceInTime` | only `fbd`, `errorEvent` and a failing encode call back: the first two a job that is `Owed`, since an abort under way shows in `abort_state`, or an error in `failed`; the last a job that was queued |

TLC checked each inductive invariant on the instance of the component's run before it was proved. An invariant that
is checked and proved is stated in the component's module; what only the proof needs is in its proof module.

Every invariant and every action property of a passing run is proved, and the refinement `ImplementsShared`. Only
checked by TLC, on the instances above, is liveness, which with ENABLED is out of the prover's reach: `OpenAnswered`,
`CloseAnswered`, `EveryAnswered`, `EveryRequestEnds`, `EveryDelegateEnds`, `SessionExtended`, `DestroyAnswered`,
`EveryCallAnswered`, `PictureEnds`, `CallsReturn`, `EveryRequestSettled`, `EveryJobEnds`.

No module declares a recursive operator.

## Disagreements met

With a run that shows it:
- `ni_stale`: a response is stored after its request timed out, and the next request of the session is answered
  with it at once, against GnssAdapter.cpp:3773.

Without one (the models have the code as it is, and the properties are stated so that they leave it out):
- Tracking. A stop that is handled while an update waits for the modem is answered, and the closure of the update
  then brings the session back (`crossed`). `stopClientSessions` leaves time based sessions in the map. A session
  that joins a fix still being started is told SUCCESS and is left without one if the start fails. An update with
  a distance the modem does not support stops the shared fix. A missing callback is never reported. When the stop
  of a distance based session fails during an update, the update is never answered. The mode INVALID (0) counts
  as the strongest in the multiplexers (GnssAdapter.cpp:2476).
- AGPS. Answers of the framework carry no identity: one that was given for a withdrawn request ends the wait of the
  next one; the real GRANTED then comes in RELEASED, is logged, and the connection stays open with no subscriber,
  against Agps.cpp:133. An APN that is refused is reported as a close, which PENDING ignores. `deleteSubscriber`
  goes on reading the subscriber it has freed. A SUPL_ES request that joins a SUPL connection changes the type
  which the next close reports (Agps.cpp:568). `reportAtlClosed` works on the framework's thread
  (GnssAdapter.cpp:4381).
- NI. The thread clears `reqID` and `respTimeLeft` after it has unlocked (GnssAdapter.cpp:3795), when the adapter may
  have given the session to the next request. An IGNORE for an emergency may be replaced by the user's response
  (2896). If `pthread_create` fails the session stays busy (3873); a request that nobody can be shown is neither
  answered nor freed (3834).
- Timer. An expiry is for a timer that was stopped meanwhile, and the next one in the heap is popped without a look
  at its time, so that it expires early, against LocTimer.cpp:368. `expire` uses its copy of `mClient` without
  the lock.
- ODCPI. An expiry that comes late makes the adapter ask twice in a row; a request that is no emergency takes the
  place of an emergency one that is on (GnssAdapter.cpp:4000).
- Location API. Kinds that `updateCallbacks` drops are not removed at `destroy`; without a destroy callback the owner
  may be deleted before the adapters have let go of it, also in the client base (LocationAPIClientBase.cpp:320);
  `LocationControlAPI::destroy` (LocationAPI.cpp:626) deletes the object at once and leaves its callbacks
  (`gData.controlCallbacks`, those given to the adapter) in place, so answers on their way are delivered after it.
- Camera HAL1. START overtakes a STOP in the notifier's queue. A SNAPSHOT_DONE or JPEG event of a cancelled picture
  is taken for the next picture's. Results nobody waits for (QCamera2HWI.cpp:5575) are found by a later caller of
  the same event. After a failing commit the state is PREVIEWING with no preview, and START_PREVIEW answers OK. If
  the start in `preStartRecording` fails, the channels stay, and a second `start_recording` records without a
  preview. A ZSL change during a picture makes `cancelPicture` stop the wrong channel.
  Parameters refused while recording are applied by the next commit. A live snapshot that is being cancelled is
  not joined by `stopRecording`; the cancelling thread may stop the next picture. Two commands
  (SEND_COMMAND_RESTART outside PREVIEWING, REG_FACE_IMAGE in PREPARE_SNAPSHOT) are never answered. A failing
  `configureOnlineRotation` of a live snapshot returns without the cancel that ends it.
- Camera HAL3. `notifyErrorForPendingRequests` tells buffers that are still owed from requests that are pending by
  the number of the oldest request only (QCamera3HWI.cpp:10784): while an older reprocess request is pending, a frame
  that has its result gets an ERROR_REQUEST and the wrong request is erased (`misled`). `mOutOfSequenceBuffers` survives
  the stop of its channel, and later drops are not noticed (`stale`). DAEMON_DIED does not signal `mRequestCond`: a
  framework thread that waits does so for 5 s. Two threads that find the device in ERROR both report it. A flush in the
  middle of a batch leaves `mToBeQueuedVidBufs` counting; `mPendingBatchMap` is never cleaned of a batch whose
  metadata got lost. The input buffer part of `handleBufferWithLock` is never reached with an input buffer.
- mm-camera. After the last queued buffer has been read, the descriptor of a stream is being removed from the poll
  thread already, so that the removal which streamoff asks for returns at once (mm_camera_stream.c:1263,
  mm_camera_thread.c:487) while the poll thread may still hand on a frame: to the queue of a thread that is gone
  (`crashed`).
- JPEG. `abort_job` of an ongoing job gives back neither the component nor a token of `job_sem`, and returns -1 in
  every case: the jobs of the other camera wait until the session is destroyed (`crippled`), which HAL3's flush does
  not do (QCamera3PostProc.cpp:283). An aborted encode leaves `encoding` set, which `create_session` does not reset:
  to destroy the next session in that slot before it has encoded, while another is configured, waits for ever with
  both locks (`Hanging`, mm_jpeg.c:1616). A second error event after an abort would be called back, as would one after
  an encode that failed to start. A job without an output buffer to take leaks its handle and is not called back.

## Not modelled

`PROJECT.json` gives the reason per component: pure conversion, parsing, formatting and file I/O (HIDL front ends,
NMEA, configuration, lights, touch, init), wrappers of closed libraries (lib2d), configuration directories; and
what the plan still has to reach (below). Within modelled parts:
- GNSS: allocation failures, the data race inside one event of the AGPS state machine (`reportAtlClosed` from the
  framework's thread), the failure of `pthread_create`, and the life of objects outside the component.
- `CameraApi`: what its section above lists.
- `MmChannel`: bracketing of exposure, focus and flash, zoom, frame configuration capture, bursts with a flash, two
  cameras in step, linked streams, batches and user buffers, a start that fails, streams with synchronous callbacks.
- `RequestPipeline`: configure and close of streams, restart of the sensor for HDR or raw, partial and urgent metadata,
  a channel that refuses a request, `flushPerf`, the dump of raw frames, offline YUV, frames that the metadata
  announces as dropped, the time-out of the JPEG channel.
- `MmJpeg`: decoding, `close` with open sessions, bursts over several OMX components, two encoders, the queues of output
  and work buffers, composition of MPO and EXIF, the end of the job manager.

The models stand for about 10,000 of the 169,000 lines (6 %). The greater part of the rest has no behaviour for a
model checker: tables and setters of camera parameters (`QCameraParameters.cpp` alone is 15,000 lines of "read the
string, compare, put it into a batch"), the translation of metadata in HAL3, XML and `.conf` parsers, EXIF, tests and
tools for the bench, and headers that declare the messages of closed daemons.

## Plan

Done, in this order: AGPS with its abstract specification and proofs; tracking; NI sessions and proofs; the timer
service and proofs; ODCPI; the Location API; the calls of the camera HAL1; the channel of mm-camera with its super
buffers; the requests of HAL3; the jobs of mm-jpeg and proofs. The order is by how much concurrency and how many late
answers the code has to cope with.

Proved: all safety properties of the runs, for every value of the constants. What they excuse is what the code does wrong
(`crossed`, `astray`, `leftOn`, `takenForFreed`, `dropped`, `switched`, `misled`, `crashed`, `crippled`, `Hanging`); a change
of the code there would show as a history that can be taken out of the property.

Next, models, each of which takes the place of a run that has a theorem by then:
1. `PostProc`: the queues of the post processors of HAL1 and HAL3 between `MmChannel` and `MmJpeg`, against the
   abstract specification "each frame goes back once".
2. `ClientRequests` (LocationAPIClientBase), the collected answers of the configuration commands, `Geofence`.
3. `LocHeap` (a recursive tree against the bag of its members, for TLC only), `MsgTask`, `LocApiMask`, `Observers`,
   the fingerprint client.
