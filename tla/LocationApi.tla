------------------------------ MODULE LocationApi ------------------------------
(***************************************************************************)
(* The client objects of the location HAL (gps/location/LocationAPI.cpp):  *)
(* how they are registered with the GNSS, batching and geofence adapters,  *)
(* and how they are taken off again.  Clients call on their own threads,   *)
(* one at a time under gDataMutex; every adapter works on the one thread   *)
(* of LocContext, so that what they are sent is handled in one order.      *)
(* When the last adapter has let go of a client that asked to be told,     *)
(* that thread calls it back and deletes the object.                       *)
(***************************************************************************)
EXTENDS Naturals, Sequences, FiniteSets

CONSTANTS
    Apis,        \* addresses of LocationAPI objects
    Missing,     \* kinds of adapter whose library cannot be loaded
    MaxMsgs      \* bound on the queue, for what clients send on their own

Kinds == {"gnss", "batching", "geofence"}

ASSUME ApiConstants == Missing \subseteq Kinds /\ MaxMsgs \in Nat

VARIABLES
    loaded, failed,        \* gData.xInterface, gXLoadFailed
    clientData,            \* the keys of gData.clientData...
    callbacks,             \* ...and the kinds of callbacks stored there
    destroyClientData,     \* the keys of gData.destroyClientData...
    waitAdapterMask,       \* ...and what each still waits for
    living,                \* LocationAPI objects that are allocated
    msgs,                  \* queue of the adapters' thread
    mClientData,           \* the clients each adapter has
    onAdapter, onCaller,   \* objects whose callback is about to be made there
    owner,                 \* what the owner of the object has come to
    dropped                \* history: what updateCallbacks left out at each address

interfaces == <<loaded, failed>>
clients == <<clientData, callbacks>>
destroying == <<destroyClientData, waitAdapterMask>>
vars == <<interfaces, clients, destroying, living, msgs, mClientData, onAdapter, onCaller, owner,
          dropped>>

Msg == [do : {"add", "remove"}, at : Kinds, api : Apis]

TypeOK ==
    /\ loaded \subseteq Kinds \ Missing /\ failed \subseteq Missing
    /\ clientData \subseteq living
    /\ callbacks \in [Apis -> SUBSET Kinds]
    /\ destroyClientData \subseteq living \ clientData
    /\ waitAdapterMask \in [Apis -> SUBSET Kinds]
    /\ living \subseteq Apis
    /\ msgs \in Seq(Msg)
    /\ mClientData \in [Kinds -> SUBSET Apis]
    /\ onAdapter \subseteq Apis /\ Cardinality(onAdapter) <= 1
    /\ onCaller \subseteq Apis
    /\ owner \in [Apis -> {"none", "using", "leaving", "told", "freed"}]
    /\ dropped \in [Apis -> SUBSET Kinds]

Init ==
    /\ loaded = {} /\ failed = {}
    /\ clientData = {} /\ callbacks = [a \in Apis |-> {}]
    /\ destroyClientData = {} /\ waitAdapterMask = [a \in Apis |-> {}]
    /\ living = {}
    /\ msgs = <<>> /\ mClientData = [k \in Kinds |-> {}]
    /\ onAdapter = {} /\ onCaller = {}
    /\ owner = [a \in Apis |-> "none"]
    /\ dropped = [a \in Apis |-> {}]

-----------------------------------------------------------------------------
(* The interfaces, each loaded when a client first needs it. *)

loadLocationInterface(ks) ==
    /\ loaded' = loaded \cup (ks \ Missing)
    /\ failed' = failed \cup (ks \cap Missing)

(* The same request to the adapters of some kinds, in the order of the code. *)
only(k, ks) == IF k \in ks THEN <<k>> ELSE <<>>
InOrder(ks) == only("gnss", ks) \o only("batching", ks) \o only("geofence", ks)
send(do, a, ks) ==
    msgs' = msgs \o [i \in 1..Len(InOrder(ks)) |-> [do |-> do, at |-> InOrder(ks)[i], api |-> a]]

(* The kinds in which an adapter knows the address though no callbacks of  *)
(* it are left: nothing takes it off there, not even the end of the object.*)
present(a) == IF a \in clientData THEN callbacks[a] \cap loaded ELSE {}
forget(a, ks) == dropped' = [dropped EXCEPT ![a] = (@ \cup present(a)) \ ks]

(* Mutant: only interfaces that were loaded before are asked. *)
registerLoaded(a, ks) ==
    /\ loadLocationInterface(ks)
    /\ send("add", a, ks \cap loaded)
    /\ clientData' = clientData \cup {a}
    /\ callbacks' = [callbacks EXCEPT ![a] = ks]
    /\ forget(a, ks)
    /\ UNCHANGED <<destroying, mClientData, onAdapter, onCaller>>

(* What createInstance and updateCallbacks share. *)
register(a, ks) ==
    /\ loadLocationInterface(ks)
    /\ send("add", a, ks \cap loaded')
    /\ clientData' = clientData \cup {a}
    /\ callbacks' = [callbacks EXCEPT ![a] = ks]
    /\ forget(a, ks)
    /\ UNCHANGED <<destroying, mClientData, onAdapter, onCaller>>

(* An object may get the address of one that was deleted. *)
createInstance(a, ks) ==
    /\ a \notin living
    /\ Len(msgs) < MaxMsgs
    /\ living' = living \cup {a}
    /\ owner' = [owner EXCEPT ![a] = "using"]
    /\ register(a, ks)

updateCallbacks(a, ks) ==
    /\ owner[a] = "using"
    /\ Len(msgs) < MaxMsgs
    /\ register(a, ks)
    /\ UNCHANGED <<living, owner>>

removeFrom(a) == callbacks[a] \cap loaded

(* Mutant: the client is not asked to wait for the last adapter. *)
destroyHalf(a, cb) ==
    /\ owner[a] = "using"
    /\ IF cb /\ removeFrom(a) # {}
       THEN /\ destroyClientData' = destroyClientData \cup {a}
            /\ waitAdapterMask' = [waitAdapterMask EXCEPT ![a] = removeFrom(a) \ {"batching"}]
       ELSE UNCHANGED destroying
    /\ send("remove", a, removeFrom(a))
    /\ clientData' = clientData \ {a}
    /\ onCaller' = IF cb /\ removeFrom(a) = {} THEN onCaller \cup {a} ELSE onCaller
    /\ owner' = [owner EXCEPT ![a] = IF cb THEN "leaving" ELSE "freed"]
    /\ UNCHANGED <<interfaces, callbacks, living, mClientData, onAdapter, dropped>>

(* Without a callback the owner goes away at once, as ~LocationAPIClientBase *)
(* does, and the object is never deleted.                                    *)
destroy(a, cb) ==
    /\ owner[a] = "using"
    /\ IF cb /\ removeFrom(a) # {}
       THEN /\ destroyClientData' = destroyClientData \cup {a}
            /\ waitAdapterMask' = [waitAdapterMask EXCEPT ![a] = removeFrom(a)]
       ELSE UNCHANGED destroying
    /\ send("remove", a, removeFrom(a))
    /\ clientData' = clientData \ {a}
    /\ onCaller' = IF cb /\ removeFrom(a) = {} THEN onCaller \cup {a} ELSE onCaller
    /\ owner' = [owner EXCEPT ![a] = IF cb THEN "leaving" ELSE "freed"]
    /\ UNCHANGED <<interfaces, callbacks, living, mClientData, onAdapter, dropped>>

-----------------------------------------------------------------------------
(* The adapters' thread. *)

saveClient(k, a) ==
    /\ mClientData' = [mClientData EXCEPT ![k] = @ \cup {a}]
    /\ UNCHANGED <<destroying, onAdapter>>

(* Mutant: the entry stays although the object is about to be deleted. *)
onRemoveClientCompleteCbKeep(k, a) ==
    IF a \notin destroyClientData THEN UNCHANGED <<destroying, onAdapter>>
    ELSE LET rest == waitAdapterMask[a] \ {k} IN
         /\ onAdapter' = IF rest = {} THEN {a} ELSE {}
         /\ UNCHANGED destroyClientData
         /\ waitAdapterMask' = [waitAdapterMask EXCEPT ![a] = rest]

(* Mutant: the callback needs an answer of the GNSS adapter. *)
onRemoveClientCompleteCbGnss(k, a) ==
    IF a \notin destroyClientData THEN UNCHANGED <<destroying, onAdapter>>
    ELSE LET rest == waitAdapterMask[a] \ {k} IN
         /\ onAdapter' = IF rest = {} /\ k = "gnss" THEN {a} ELSE {}
         /\ destroyClientData' = IF rest = {} THEN destroyClientData \ {a} ELSE destroyClientData
         /\ waitAdapterMask' = [waitAdapterMask EXCEPT ![a] = rest]

onRemoveClientCompleteCb(k, a) ==
    IF a \notin destroyClientData THEN UNCHANGED <<destroying, onAdapter>>
    ELSE LET rest == waitAdapterMask[a] \ {k} IN
         /\ onAdapter' = IF rest = {} THEN {a} ELSE {}
         /\ destroyClientData' = IF rest = {} THEN destroyClientData \ {a} ELSE destroyClientData
         /\ waitAdapterMask' = [waitAdapterMask EXCEPT ![a] = rest]

eraseClient(k, a) ==
    /\ mClientData' = [mClientData EXCEPT ![k] = @ \ {a}]
    /\ onRemoveClientCompleteCb(k, a)

ProcMsg ==
    /\ msgs # <<>> /\ onAdapter = {}
    /\ msgs' = Tail(msgs)
    /\ LET m == Head(msgs) IN
       \/ m.do = "add" /\ saveClient(m.at, m.api)
       \/ m.do = "remove" /\ eraseClient(m.at, m.api)
    /\ UNCHANGED <<interfaces, clients, living, onCaller, owner, dropped>>

(* The mutex is not held: the callback is made, then the object deleted. *)
finish(a) ==
    /\ owner' = [owner EXCEPT ![a] = "told"]
    /\ living' = living \ {a}
    /\ UNCHANGED <<interfaces, clients, destroying, msgs, mClientData, dropped>>

destroyCompleteCb(a) ==
    \/ a \in onAdapter /\ onAdapter' = onAdapter \ {a} /\ finish(a) /\ UNCHANGED onCaller
    \/ a \in onCaller /\ onCaller' = onCaller \ {a} /\ finish(a) /\ UNCHANGED onAdapter

Next ==
    \/ \E a \in Apis : \/ \E ks \in SUBSET Kinds : createInstance(a, ks) \/ updateCallbacks(a, ks)
                       \/ \E cb \in BOOLEAN : destroy(a, cb)
                       \/ destroyCompleteCb(a)
    \/ ProcMsg

(* Both threads go on: no call waits for another while it holds the mutex. *)
Fairness ==
    /\ WF_vars(ProcMsg)
    /\ \A a \in Apis : WF_vars(destroyCompleteCb(a))

Spec == Init /\ [][Next]_vars
FairSpec == Spec /\ Fairness

-----------------------------------------------------------------------------
(* A client is told that it is destroyed only when no adapter has it any   *)
(* more or is about to be given it: what the callbacks refer to may go.    *)
(* The one exception are the kinds that updateCallbacks left out: of those *)
(* the adapter keeps the client, or has yet to be given it.                *)
ToldAfterRemoval == \A a \in Apis :
    owner[a] = "told" =>
        /\ \A k \in Kinds \ dropped[a] : a \notin mClientData[k]
        /\ \A i \in DOMAIN msgs : msgs[i].api = a => msgs[i].at \in dropped[a]

(* The removal that an adapter handles, or has handled, calls back into an *)
(* object that is there; no object waits in two places to be deleted.      *)
CallsLivingObject ==
    /\ \A i \in DOMAIN msgs : msgs[i].do = "remove" => msgs[i].api \in living
    /\ onAdapter \cup onCaller \cup destroyClientData \subseteq living
    /\ onAdapter \cap onCaller = {} /\ (onAdapter \cup onCaller) \cap destroyClientData = {}

(* When the queue is empty the adapters hold the clients that their        *)
(* callbacks ask for and those that updateCallbacks left behind, no others,*)
(* also where the address of a deleted object is used again.               *)
AdaptersAgree ==
    msgs = <<>> => \A k \in loaded :
        mClientData[k] = {a \in clientData : k \in callbacks[a]} \cup {a \in Apis : k \in dropped[a]}

(* A client that asked to be told is told. *)
DestroyAnswered == \A a \in Apis : owner[a] = "leaving" ~> owner[a] = "told"
=============================================================================
