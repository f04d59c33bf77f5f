---------------------------- MODULE CameraApiProofs ----------------------------
(***************************************************************************)
(* What is proved of CameraApi, for any steps that may fail and any bounds *)
(* on what is under way.                                                   *)
(***************************************************************************)
EXTENDS CameraApi, SequenceTheorems, TLAPS

(* The calls of the application that are in a queue: all but CANCEL_PICTURE, *)
(* which a failed live snapshot posts too.                                  *)
Own(r) == r.evt # "CANCEL_PICTURE"
NoneOwn(q) == \A i \in DOMAIN q : ~Own(q[i])
OneOwn(q) == \A i, j \in DOMAIN q : Own(q[i]) /\ Own(q[j]) => i = j

(* Everything in a queue is of the call that the application waits for.     *)
OfApp(q) == \A i \in DOMAIN q : q[i].evt \in {app, "CANCEL_PICTURE"}

(* The event that the application waits for is in one place: with the state *)
(* machine, in the list of results, or held back while the flash is being   *)
(* prepared.                                                                *)
SyncInv ==
    /\ OfApp(api_queue) /\ OfApp(m_apiResultList)
    /\ OneOwn(api_queue) /\ OneOwn(m_apiResultList)
    /\ NoneOwn(api_queue) \/ NoneOwn(m_apiResultList)
    /\ m_state = "PREPARE_SNAPSHOT" =>
          app = "PREPARE_SNAPSHOT" /\ NoneOwn(api_queue) /\ NoneOwn(m_apiResultList)

CallInv == TypeOK /\ SyncInv

-----------------------------------------------------------------------------
(* A capture during which the mode was not changed: it is one of the mode   *)
(* that is current.  A channel that is not there streams nothing, and a     *)
(* live snapshot is only to be taken in its state.                          *)
FreshIn(s, c) == c \in s.capture /\ c \notin s.switched
Grounded(s) == s.kind = "none" => ~s.on /\ "zsl" \notin s.capture

PictureInv ==
    /\ StreamsMatch
    /\ live = "take" => m_state = "VIDEO_PIC_TAKING"
    /\ m_state = "PIC_TAKING" => str.kind = "none"
    /\ Grounded(str)
    /\ \A c \in Captures : FreshIn(str, c) => c = captureOf(mode)

ParamCalls == {"SET_PARAMS", "SET_PARAMS_STOP", "SET_PARAMS_COMMIT", "SET_PARAMS_RESTART"}
In(q, e) == \E i \in DOMAIN q : q[i].evt = e

(* A set_parameters that restarts the preview has no channels from the stop *)
(* to the restart, where a restart that fails changes the state.            *)
Restarting == {"READY", "PREVIEW_PIC_TAKING"}
RestartInv ==
    m_state \in Restarting =>
        /\ app = "SET_PARAMS_STOP" /\ In(m_apiResultList, "SET_PARAMS_STOP") => str.kind = "none"
        /\ app = "SET_PARAMS_COMMIT" /\ needRestart => str.kind = "none"
        /\ app = "SET_PARAMS_RESTART" /\ In(api_queue, "SET_PARAMS_RESTART") => str.kind = "none"

ModeInv == PictureInv /\ RestartInv

-----------------------------------------------------------------------------
(* What happens to the calls in a queue.                                    *)

(* q becomes r, of which every element was in q.                            *)
LEMMA AppendOwn ==
    ASSUME NEW S, NEW q \in Seq(S), NEW x \in S
    PROVE  /\ Append(q, x) \in Seq(S)
           /\ \A i \in DOMAIN Append(q, x) :
                 (i \in DOMAIN q /\ Append(q, x)[i] = q[i]) \/ Append(q, x)[i] = x
           /\ \A i \in DOMAIN q : i \in DOMAIN Append(q, x) /\ Append(q, x)[i] = q[i]
           /\ \E i \in DOMAIN Append(q, x) : Append(q, x)[i] = x
           /\ NoneOwn(q) => OneOwn(Append(q, x))
           /\ ~Own(x) /\ NoneOwn(q) => NoneOwn(Append(q, x))
           /\ ~Own(x) /\ OneOwn(q) => OneOwn(Append(q, x))
  <1> DEFINE r == Append(q, x)
             n == Len(q)
  <1>1. /\ r \in Seq(S) /\ n \in Nat /\ DOMAIN q = 1..n /\ DOMAIN r = 1..(n + 1)
        /\ \A i \in 1..n : r[i] = q[i]
        /\ r[n + 1] = x
    OBVIOUS
  <1> HIDE DEF r, n
  <1>2. /\ \A i \in 1..(n + 1) : i \in 1..n \/ i = n + 1
        /\ \A i \in 1..n : i \in 1..(n + 1)
        /\ n + 1 \in 1..(n + 1)
    BY <1>1
  <1>3. NoneOwn(q) => OneOwn(r)
    BY <1>1, <1>2 DEF NoneOwn, OneOwn
  <1>4. ~Own(x) /\ NoneOwn(q) => NoneOwn(r)
    BY <1>1, <1>2 DEF NoneOwn
  <1>5. ~Own(x) /\ OneOwn(q) => OneOwn(r)
    BY <1>1, <1>2 DEF OneOwn
  <1>6. QED BY <1>1, <1>2, <1>3, <1>4, <1>5 DEF r

LEMMA TailOwn ==
    ASSUME NEW S, NEW q \in Seq(S), q # <<>>
    PROVE  /\ Tail(q) \in Seq(S) /\ Head(q) \in S
           /\ 1 \in DOMAIN q /\ q[1] = Head(q)
           /\ \A i \in DOMAIN Tail(q) : \E j \in DOMAIN q : Tail(q)[i] = q[j]
           /\ NoneOwn(q) => NoneOwn(Tail(q)) /\ ~Own(Head(q))
           /\ OneOwn(q) => OneOwn(Tail(q))
           /\ OneOwn(q) /\ Own(Head(q)) => NoneOwn(Tail(q))
  <1> DEFINE r == Tail(q)
             n == Len(q) - 1
  <1>1. /\ r \in Seq(S) /\ n \in Nat /\ DOMAIN q = 1..(n + 1) /\ DOMAIN r = 1..n
        /\ \A i \in 1..n : r[i] = q[i + 1]
        /\ q[1] = Head(q) /\ Head(q) \in S
    OBVIOUS
  <1> HIDE DEF r, n
  <1>2. /\ \A i \in 1..n : i + 1 \in 1..(n + 1) /\ i + 1 # 1
        /\ \A i, j \in 1..n : i + 1 = j + 1 => i = j
        /\ 1 \in 1..(n + 1)
    BY <1>1
  <1>3. NoneOwn(q) => NoneOwn(r) /\ ~Own(Head(q))
    BY <1>1, <1>2 DEF NoneOwn
  <1>4. OneOwn(q) => OneOwn(r)
    BY <1>1, <1>2 DEF OneOwn
  <1>5. OneOwn(q) /\ Own(Head(q)) => NoneOwn(r)
    BY <1>1, <1>2 DEF OneOwn, NoneOwn
  <1>6. QED BY <1>1, <1>2, <1>3, <1>4, <1>5 DEF r

LEMMA RemoveAtOwn ==
    ASSUME NEW S, NEW q \in Seq(S), NEW k \in DOMAIN q
    PROVE  /\ RemoveAt(q, k) \in Seq(S)
           /\ \A i \in DOMAIN RemoveAt(q, k) : \E j \in DOMAIN q : RemoveAt(q, k)[i] = q[j]
           /\ NoneOwn(q) => NoneOwn(RemoveAt(q, k))
           /\ OneOwn(q) => OneOwn(RemoveAt(q, k))
           /\ OneOwn(q) /\ Own(q[k]) => NoneOwn(RemoveAt(q, k))
  <1> DEFINE a == SubSeq(q, 1, k - 1)
             b == SubSeq(q, k + 1, Len(q))
             r == a \o b
             n == Len(q) - 1
             from(i) == IF i <= k - 1 THEN i ELSE i + 1
  <1>1. n \in Nat /\ DOMAIN q = 1..(n + 1) /\ Len(q) = n + 1 /\ k \in 1..(n + 1)
    OBVIOUS
  <1>2. /\ a \in Seq(S) /\ Len(a) = k - 1 /\ \A i \in 1..(k - 1) : a[i] = q[i]
    <2>1. (\A i \in 1..(k - 1) : i \in 1..Len(q)) /\ 1 \in Int /\ k - 1 \in Int
      BY <1>1
    <2>2. \A i \in 1..(k - 1) : q[i] \in S
      BY <2>1
    <2>3. /\ a \in Seq(S) /\ Len(a) = IF 1 <= k - 1 THEN (k - 1) - 1 + 1 ELSE 0
          /\ \A i \in 1..((k - 1) - 1 + 1) : a[i] = q[1 + i - 1]
      BY <2>1, <2>2, SubSeqProperties
    <2> HIDE DEF a
    <2>4. (IF 1 <= k - 1 THEN (k - 1) - 1 + 1 ELSE 0) = k - 1 /\ (k - 1) - 1 + 1 = k - 1
      BY <1>1
    <2>5. \A i \in 1..(k - 1) : 1 + i - 1 = i
      BY <1>1
    <2>6. QED BY <2>3, <2>4, <2>5
  <1>3. /\ b \in Seq(S) /\ Len(b) = n + 1 - k /\ \A i \in 1..(n + 1 - k) : b[i] = q[k + i]
    <2>1. \A i \in (k + 1)..Len(q) : i \in 1..Len(q)
      BY <1>1
    <2>2. b \in Seq(S) /\ Len(b) = IF k + 1 <= n + 1 THEN (n + 1) - (k + 1) + 1 ELSE 0
      BY <1>1, <2>1, SubSeqProperties
    <2>3. \A i \in 1..((n + 1) - (k + 1) + 1) : b[i] = q[(k + 1) + i - 1]
      BY <1>1, <2>1, SubSeqProperties
    <2> HIDE DEF b
    <2>4. (IF k + 1 <= n + 1 THEN (n + 1) - (k + 1) + 1 ELSE 0) = n + 1 - k
          /\ (n + 1) - (k + 1) + 1 = n + 1 - k
      BY <1>1
    <2>5. \A i \in 1..(n + 1 - k) : (k + 1) + i - 1 = k + i
      BY <1>1
    <2>6. QED BY <2>2, <2>3, <2>4, <2>5
  <1> HIDE DEF a, b
  <1>4. /\ r \in Seq(S) /\ Len(r) = n
        /\ \A i \in 1..n : r[i] = IF i <= k - 1 THEN a[i] ELSE b[i - (k - 1)]
    <2>1. /\ r \in Seq(S) /\ Len(r) = Len(a) + Len(b)
          /\ \A i \in 1..(Len(a) + Len(b)) :
                r[i] = IF i <= Len(a) THEN a[i] ELSE b[i - Len(a)]
      BY <1>2, <1>3, ConcatProperties
    <2> HIDE DEF r, n
    <2>2. Len(a) + Len(b) = n
      BY <1>1, <1>2, <1>3
    <2>3. QED BY <1>2, <2>1, <2>2
  <1> HIDE DEF r, n
  <1>5. DOMAIN r = 1..n
    BY <1>1, <1>2, <1>3, <1>4
  <1>6. ASSUME NEW i \in 1..n
        PROVE  from(i) \in 1..(n + 1) /\ from(i) # k /\ r[i] = q[from(i)]
    <2>1. CASE i <= k - 1
      BY <1>1, <1>2, <1>3, <1>4, <2>1
    <2>2. CASE ~(i <= k - 1)
      <3>1. i - (k - 1) \in 1..(n + 1 - k) /\ k + (i - (k - 1)) = i + 1
        BY <1>1, <2>2
      <3>2. r[i] = b[i - (k - 1)]
        BY <1>1, <1>2, <1>3, <1>4, <2>2
      <3>3. QED BY <1>1, <1>3, <2>2, <3>1, <3>2
    <2>3. QED BY <2>1, <2>2
  <1>7. \A i, j \in 1..n : from(i) = from(j) => i = j
    BY <1>1
  <1> HIDE DEF from
  <1>8. NoneOwn(q) => NoneOwn(r)
    BY <1>1, <1>5, <1>6 DEF NoneOwn
  <1>9. OneOwn(q) => OneOwn(r)
    BY <1>1, <1>5, <1>6, <1>7 DEF OneOwn
  <1>10. OneOwn(q) /\ Own(q[k]) => NoneOwn(r)
    BY <1>1, <1>5, <1>6 DEF OneOwn, NoneOwn
  <1>11. RemoveAt(q, k) = r
    BY DEF RemoveAt, r, a, b
  <1>12. QED BY <1>1, <1>4, <1>5, <1>6, <1>8, <1>9, <1>10, <1>11

-----------------------------------------------------------------------------
(* What the operations on the channels return.                              *)
LEMMA Kinds ==
    ASSUME NEW m \in Modes
    PROVE  previewKind(m) \in {"zsl", "photo", "video"}
  BY DEF previewKind

LEMMA Outcome ==
    ASSUME NEW step, NEW r \in Outcomes(step)
    PROVE  r \in BOOLEAN
  BY DEF Outcomes

LEMMA Captured ==
    ASSUME NEW s \in Streams, NEW c \in Captures, NEW m \in Modes
    PROVE  /\ captureOf(m) \in Captures
           /\ notCapturing(s, c) \in Streams /\ capturing(s, c) \in Streams
           /\ underMode(s, m) \in Streams
           /\ \A t \in {notCapturing(s, c), capturing(s, c), underMode(s, m)} :
                 /\ t.kind = s.kind /\ t.on = s.on /\ t.video = s.video /\ t.live = s.live
           /\ \A d : d \in notCapturing(s, c).capture <=> d \in s.capture /\ d # c
           /\ \A d : FreshIn(notCapturing(s, c), d) <=> FreshIn(s, d) /\ d # c
           /\ \A d : d \in capturing(s, c).capture <=> d \in s.capture \/ d = c
           /\ \A d : FreshIn(capturing(s, c), d) <=> FreshIn(s, d) \/ d = c
           /\ underMode(s, m).capture = s.capture
           /\ \A d : FreshIn(underMode(s, m), d) <=> FreshIn(s, d) /\ d = captureOf(m)
  <1>1. captureOf(m) \in Captures
    BY DEF captureOf, Captures
  <1>2. /\ s.capture \in SUBSET Captures /\ s.switched \in SUBSET Captures
        /\ s.kind \in {"none", "zsl", "photo", "video"}
        /\ s.on \in BOOLEAN /\ s.video \in BOOLEAN /\ s.live \in BOOLEAN
    BY DEF Streams
  <1>3. notCapturing(s, c) = [kind |-> s.kind, on |-> s.on, video |-> s.video, live |-> s.live,
                              capture |-> s.capture \ {c}, switched |-> s.switched \ {c}]
    <2> DEFINE u == [s EXCEPT !.capture = s.capture \ {c}]
    <2>1. u = [kind |-> s.kind, on |-> s.on, video |-> s.video, live |-> s.live,
               capture |-> s.capture \ {c}, switched |-> s.switched]
      BY DEF Streams
    <2>2. notCapturing(s, c) = [u EXCEPT !.switched = s.switched \ {c}]
      BY <2>1 DEF notCapturing
    <2> HIDE DEF u
    <2>3. QED BY <2>1, <2>2
  <1>4. capturing(s, c) = [kind |-> s.kind, on |-> s.on, video |-> s.video, live |-> s.live,
                           capture |-> s.capture \cup {c}, switched |-> s.switched \ {c}]
    <2> DEFINE u == [s EXCEPT !.capture = s.capture \cup {c}]
    <2>1. u = [kind |-> s.kind, on |-> s.on, video |-> s.video, live |-> s.live,
               capture |-> s.capture \cup {c}, switched |-> s.switched]
      BY DEF Streams
    <2>2. capturing(s, c) = [u EXCEPT !.switched = s.switched \ {c}]
      BY <2>1 DEF capturing
    <2> HIDE DEF u
    <2>3. QED BY <2>1, <2>2
  <1>5. underMode(s, m) = [kind |-> s.kind, on |-> s.on, video |-> s.video, live |-> s.live,
                           capture |-> s.capture,
                           switched |-> s.switched \cup (s.capture \ {captureOf(m)})]
    BY DEF underMode, Streams
  <1>6. /\ notCapturing(s, c) \in Streams /\ capturing(s, c) \in Streams
        /\ underMode(s, m) \in Streams
    BY <1>1, <1>2, <1>3, <1>4, <1>5 DEF Streams
  <1>7. QED BY <1>1, <1>3, <1>4, <1>5, <1>6 DEF FreshIn

LEMMA Prepared ==
    ASSUME NEW s \in Streams, NEW m \in Modes, NEW p \in preparePreview(s, m)
    PROVE  /\ p.ok \in BOOLEAN /\ p.str \in Streams
           /\ p.str.on = s.on /\ p.str.video = s.video
           /\ p.str.capture = s.capture /\ p.str.switched = s.switched /\ p.str.live = s.live
           /\ ~p.ok => p.str = s
           /\ p.ok => p.str.kind = previewKind(m) /\ p.str.kind # "none"
  <1>1. PICK r \in Outcomes("preparePreview") :
           p = [ok |-> r, str |-> IF r THEN [s EXCEPT !.kind = previewKind(m)] ELSE s]
    BY DEF preparePreview
  <1>2. r \in BOOLEAN
    BY Outcome
  <1>3. p.ok = r /\ p.str = IF r THEN [s EXCEPT !.kind = previewKind(m)] ELSE s
    BY <1>1
  <1>4. QED BY <1>2, <1>3, Kinds DEF Streams

LEMMA Started ==
    ASSUME NEW s \in Streams, NEW m \in Modes, NEW p \in startPreview(s, m)
    PROVE  /\ p.ok \in BOOLEAN /\ p.str \in Streams
           /\ p.str.on = p.ok /\ p.str.video = s.video /\ p.str.kind = s.kind
           /\ p.str.capture = s.capture /\ p.str.switched = s.switched /\ p.str.live = s.live
           /\ p.ok => s.kind # "none"
  <1>1. PICK r \in BOOLEAN : /\ p = [ok |-> r, str |-> [s EXCEPT !.on = r]]
                             /\ r => s.kind \in {"zsl", "photo", "video"}
    BY DEF startPreview, Outcomes
  <1>2. p.ok = r /\ p.str = [s EXCEPT !.on = r]
    BY <1>1
  <1>3. QED BY <1>1, <1>2 DEF Streams

LEMMA Unprepared ==
    ASSUME NEW s \in Streams
    PROVE  /\ unpreparePreview(s) \in Streams
           /\ unpreparePreview(s).kind = "none" /\ unpreparePreview(s).on = FALSE
           /\ unpreparePreview(s).video = FALSE /\ unpreparePreview(s).live = FALSE
           /\ "zsl" \notin unpreparePreview(s).capture
           /\ \A c : FreshIn(unpreparePreview(s), c) <=> FreshIn(s, c) /\ c # "zsl"
           /\ stopPreview(s) = unpreparePreview(s)
  <1> DEFINE t == notCapturing(s, "zsl")
  <1>1. /\ t \in Streams /\ "zsl" \notin t.capture
        /\ \A c : FreshIn(t, c) <=> FreshIn(s, c) /\ c # "zsl"
    <2>1. "zsl" \in Captures /\ [zsl |-> TRUE, hint |-> TRUE] \in Modes
      BY DEF Captures, Modes
    <2>2. QED BY <2>1, Captured
  <1>2. unpreparePreview(s) =
           [t EXCEPT !.kind = "none", !.on = FALSE, !.video = FALSE, !.live = FALSE]
    BY DEF unpreparePreview
  <1> HIDE DEF t
  <1>3. /\ unpreparePreview(s) \in Streams
        /\ unpreparePreview(s).kind = "none" /\ unpreparePreview(s).on = FALSE
        /\ unpreparePreview(s).video = FALSE /\ unpreparePreview(s).live = FALSE
        /\ unpreparePreview(s).capture = t.capture /\ unpreparePreview(s).switched = t.switched
    BY <1>1, <1>2 DEF Streams
  <1>4. QED BY <1>1, <1>3 DEF FreshIn, stopPreview

(* A preview that could not be started has no channels, if it is to be      *)
(* undone and there were none before.                                       *)
LEMMA Ran ==
    ASSUME NEW s \in Streams, NEW m \in Modes, NEW undo \in BOOLEAN,
           NEW p \in runPreview(s, m, undo)
    PROVE  /\ p.ok \in BOOLEAN /\ p.str \in Streams
           /\ p.str.video => s.video
           /\ p.str.live => s.live
           /\ \A c : FreshIn(p.str, c) => FreshIn(s, c)
           /\ Grounded(s) => Grounded(p.str)
           /\ "zsl" \in p.str.capture => "zsl" \in s.capture
           /\ ~p.ok /\ undo /\ s.kind = "none" /\ ~s.on => p.str.kind = "none" /\ ~p.str.on
  <1>1. PICK q \in preparePreview(s, m) :
           p \in IF ~q.ok THEN {q}
                 ELSE { IF r.ok \/ ~undo THEN r ELSE [r EXCEPT !.str = unpreparePreview(@)] :
                          r \in startPreview(q.str, m) }
    BY DEF runPreview
  <1>2. /\ q.ok \in BOOLEAN /\ q.str \in Streams
        /\ q.str.video = s.video /\ q.str.live = s.live
        /\ q.str.capture = s.capture /\ q.str.switched = s.switched
        /\ ~q.ok => q.str = s
        /\ q.ok => q.str.kind # "none"
    BY Prepared
  <1>3. CASE ~q.ok
    BY <1>1, <1>2, <1>3
  <1>4. CASE q.ok
    <2>1. PICK r \in startPreview(q.str, m) :
             p = IF r.ok \/ ~undo THEN r ELSE [r EXCEPT !.str = unpreparePreview(@)]
      BY <1>1, <1>4
    <2>2. /\ r.ok \in BOOLEAN /\ r.str \in Streams
          /\ r.str.video = s.video /\ r.str.live = s.live /\ r.str.kind # "none"
          /\ r.str.capture = s.capture /\ r.str.switched = s.switched
      BY <1>2, <1>4, Started
    <2>3. CASE r.ok \/ ~undo
      <3>1. p = r
        BY <2>1, <2>3
      <3>2. QED BY <2>2, <2>3, <3>1 DEF FreshIn, Grounded
    <2>4. CASE ~(r.ok \/ ~undo)
      <3>1. PICK x \in BOOLEAN : r = [ok |-> x, str |-> [q.str EXCEPT !.on = x]]
        BY DEF startPreview, Outcomes
      <3>2. p.ok = r.ok /\ p.str = unpreparePreview(r.str)
        BY <2>1, <2>4, <3>1
      <3>3. \A c : FreshIn(r.str, c) <=> FreshIn(s, c)
        BY <2>2 DEF FreshIn
      <3>4. /\ p.str \in Streams /\ p.str.kind = "none" /\ p.str.on = FALSE
            /\ p.str.video = FALSE /\ p.str.live = FALSE /\ "zsl" \notin p.str.capture
            /\ \A c : FreshIn(p.str, c) => FreshIn(r.str, c)
        BY <2>2, <3>2, Unprepared
      <3>5. Grounded(p.str)
        BY <3>4 DEF Grounded
      <3>6. QED BY <2>2, <3>2, <3>3, <3>4, <3>5
    <2>5. QED BY <2>3, <2>4
  <1>5. QED BY <1>2, <1>3, <1>4

LEMMA Switched ==
    ASSUME newMode \in Modes, mode \in Modes,
           NEW s \in Streams, NEW hint \in BOOLEAN, NEW undo \in BOOLEAN,
           NEW h \in switchHint(s, hint, undo)
    PROVE  /\ h.ok \in BOOLEAN /\ h.str \in Streams /\ h.mode \in Modes /\ h.newMode \in Modes
           /\ ~h.str.video /\ ~h.str.live /\ Grounded(h.str)
           /\ \A c : FreshIn(h.str, c) => FreshIn(s, c) /\ c # "zsl"
  <1> DEFINE new == [newMode EXCEPT !.hint = hint]
  <1>0. PICK m \in { IF r THEN new ELSE mode : r \in Outcomes("commit") } :
           h \in { [ok |-> p.ok, str |-> underMode(p.str, m), mode |-> m, newMode |-> new] :
                     p \in runPreview(stopPreview(s), m, undo) }
    BY DEF switchHint
  <1>1. PICK p \in runPreview(stopPreview(s), m, undo) :
           h = [ok |-> p.ok, str |-> underMode(p.str, m), mode |-> m, newMode |-> new]
    BY <1>0
  <1>2. new \in Modes /\ m \in Modes
    BY <1>0 DEF Modes
  <1> DEFINE t == stopPreview(s)
  <1>3. /\ t \in Streams /\ t.video = FALSE /\ t.live = FALSE
        /\ t.kind = "none" /\ t.on = FALSE /\ "zsl" \notin t.capture
        /\ \A c : FreshIn(t, c) <=> FreshIn(s, c) /\ c # "zsl"
    BY Unprepared
  <1> HIDE DEF new, t
  <1>4. /\ p.ok \in BOOLEAN /\ p.str \in Streams /\ ~p.str.video /\ ~p.str.live
        /\ Grounded(p.str)
        /\ \A c : FreshIn(p.str, c) => FreshIn(t, c)
    <2>1. p \in runPreview(t, m, undo)
      BY DEF t
    <2>2. Grounded(t)
      BY <1>3 DEF Grounded
    <2>3. QED BY <1>2, <1>3, <2>1, <2>2, Ran
  <1>5. h.ok = p.ok /\ h.str = underMode(p.str, m) /\ h.mode = m /\ h.newMode = new
    BY <1>1
  <1>6. /\ h.str \in Streams /\ h.str.kind = p.str.kind /\ h.str.on = p.str.on
        /\ h.str.video = p.str.video /\ h.str.live = p.str.live
        /\ h.str.capture = p.str.capture
        /\ \A c : FreshIn(h.str, c) => FreshIn(p.str, c)
    <2>1. "zsl" \in Captures
      BY DEF Captures
    <2> DEFINE u == underMode(p.str, m)
    <2>2. /\ u \in Streams /\ u.capture = p.str.capture
          /\ \A d : FreshIn(u, d) => FreshIn(p.str, d)
      BY <1>2, <1>4, <2>1, Captured
    <2>3. u.kind = p.str.kind /\ u.on = p.str.on /\ u.video = p.str.video /\ u.live = p.str.live
      BY <1>2, <1>4, <2>1, Captured
    <2>4. h.str = u
      BY <1>5
    <2> HIDE DEF u
    <2>5. QED BY <2>2, <2>3, <2>4
  <1>7. QED BY <1>2, <1>3, <1>4, <1>5, <1>6 DEF Grounded

LEMMA Cancelled ==
    ASSUME NEW s \in Streams, mode \in Modes
    PROVE  /\ cancelled(s) \in Streams
           /\ cancelled(s).kind = s.kind /\ cancelled(s).on = s.on
           /\ cancelled(s).video = s.video /\ cancelled(s).live = s.live
           /\ \A c : c \in cancelled(s).capture => c \in s.capture
           /\ \A c : FreshIn(cancelled(s), c) <=> FreshIn(s, c) /\ c # captureOf(mode)
  <1>1. captureOf(mode) \in Captures
    BY DEF captureOf, Captures
  <1>2. QED BY <1>1, Captured DEF cancelled

-----------------------------------------------------------------------------
(* Types, and that every event that comes from a call is answered.          *)

Cmd == {"START", "STOP", "NEXT"}

(* What the handlers of the state machine may change.                       *)
MachineOK ==
    /\ m_state \in States /\ str \in Streams
    /\ mode \in Modes /\ newMode \in Modes
    /\ needRestart \in BOOLEAN /\ window \in BOOLEAN /\ prepDue \in BOOLEAN
    /\ defer \in Nat /\ live \in {"none", "take", "cancel"} /\ owed \in BOOLEAN
    /\ cmds \in Seq(Cmd) /\ dataQ \in Nat
    /\ snapshot \in BOOLEAN /\ syncEvt \in BOOLEAN

(* The answer is given, or owed while the flash is being prepared.          *)
Replied(e) ==
    \/ /\ \E ok \in BOOLEAN : reply(e, ok)
       /\ m_state' = "PREPARE_SNAPSHOT" => m_state = "PREPARE_SNAPSHOT"
    \/ /\ e = "PREPARE_SNAPSHOT" /\ m_state' = "PREPARE_SNAPSHOT"
       /\ UNCHANGED m_apiResultList

Done(e) == Replied(e) /\ MachineOK'

LEMMA Commands ==
    ASSUME MachineOK
    PROVE  /\ startSnapshots \o cmds \in Seq(Cmd) /\ stopSnapshots \o cmds \in Seq(Cmd)
           /\ (stopSnapshots \o startSnapshots) \o cmds \in Seq(Cmd)
           /\ <<>> \o cmds \in Seq(Cmd)
  <1>1. /\ startSnapshots \in Seq(Cmd) /\ stopSnapshots \in Seq(Cmd)
        /\ <<>> \in Seq(Cmd) /\ cmds \in Seq(Cmd)
    BY DEF startSnapshots, stopSnapshots, Cmd, MachineOK
  <1>2. stopSnapshots \o startSnapshots \in Seq(Cmd)
    BY <1>1, ConcatProperties
  <1>3. QED BY <1>1, <1>2, ConcatProperties

LEMMA OnlyDone ==
    ASSUME MachineOK, NEW e, NEW ok \in BOOLEAN, only(e, ok)
    PROVE  Done(e)
  BY DEF only, Done, Replied, MachineOK, params, picture

LEMMA ChangeDone ==
    ASSUME MachineOK, NEW e, NEW ok \in BOOLEAN, NEW state \in States, NEW s \in Streams,
           state = "PREPARE_SNAPSHOT" => m_state = "PREPARE_SNAPSHOT",
           change(e, ok, state, s)
    PROVE  Done(e)
  BY DEF change, moveTo, Done, Replied, MachineOK, params, picture

LEMMA SetParamsDone ==
    ASSUME MachineOK, NEW e, NEW arg \in BOOLEAN, NEW recording \in BOOLEAN,
           SetParams(e, arg, recording)
    PROVE  Done(e)
  <1>1. CASE updateParameters(e, arg, recording)
    <2>1. /\ newMode' = [newMode EXCEPT !.zsl = arg] /\ needRestart' \in BOOLEAN
          /\ \E ok \in BOOLEAN : reply(e, ok)
          /\ UNCHANGED <<m_state, str, window, mode, picture>>
      BY <1>1, Outcome DEF updateParameters
    <2>2. newMode' \in Modes
      BY <2>1 DEF MachineOK, Modes
    <2>3. QED BY <2>1, <2>2 DEF Done, Replied, MachineOK, picture
  <1>2. CASE commitParameterChanges(e)
    <2>1. /\ mode' \in {mode, newMode} /\ \E ok \in BOOLEAN : reply(e, ok)
          /\ str' = underMode(str, mode')
          /\ UNCHANGED <<m_state, window, newMode, needRestart, picture>>
      BY <1>2, Outcome DEF commitParameterChanges
    <2>2. mode' \in Modes
      BY <2>1 DEF MachineOK
    <2>3. str' \in Streams
      <3>1. str \in Streams /\ "zsl" \in Captures
        BY DEF MachineOK, Captures
      <3>2. underMode(str, mode') \in Streams
        BY <2>2, <3>1, Captured
      <3>3. QED BY <2>1, <3>2
    <2>4. QED BY <2>1, <2>2, <2>3 DEF Done, Replied, MachineOK, picture
  <1>3. QED BY <1>1, <1>2 DEF SetParams

LEMMA RestartedDone ==
    ASSUME MachineOK, NEW e, NEW ok \in BOOLEAN, NEW state \in States, NEW s \in Streams,
           state = "PREPARE_SNAPSHOT" => m_state = "PREPARE_SNAPSHOT",
           restarted(e, ok, state, s)
    PROVE  Done(e)
  BY DEF restarted, moveTo, Done, Replied, MachineOK, picture

LEMMA RestartPreviewDone ==
    ASSUME MachineOK, NEW e, NEW unprepared \in States, NEW unstarted \in States,
           unprepared # "PREPARE_SNAPSHOT", unstarted # "PREPARE_SNAPSHOT",
           restartPreview(e, unprepared, unstarted)
    PROVE  Done(e)
  <1>1. PICK p \in preparePreview(str, mode) :
           \/ ~p.ok /\ restarted(e, FALSE, unprepared, p.str)
           \/ /\ p.ok
              /\ \E q \in startPreview(p.str, mode) :
                     IF q.ok THEN restarted(e, TRUE, m_state, q.str)
                     ELSE restarted(e, FALSE, unstarted, unpreparePreview(q.str))
    BY DEF restartPreview
  <1>2. p.str \in Streams
    BY Prepared DEF MachineOK
  <1>3. CASE restarted(e, FALSE, unprepared, p.str)
    BY <1>2, <1>3, RestartedDone
  <1>4. ASSUME NEW q \in startPreview(p.str, mode),
               \/ restarted(e, TRUE, m_state, q.str)
               \/ restarted(e, FALSE, unstarted, unpreparePreview(q.str))
        PROVE  Done(e)
    <2>1. q.str \in Streams /\ unpreparePreview(q.str) \in Streams
      BY <1>2, Started, Unprepared DEF MachineOK
    <2>2. QED BY <1>4, <2>1, RestartedDone DEF MachineOK
  <1>5. QED BY <1>1, <1>3, <1>4

LEMMA PreStartDone ==
    ASSUME MachineOK, NEW e, preStartRecording(e)
    PROVE  Done(e)
  <1>1. CASE mode.hint
    BY <1>1, OnlyDone DEF preStartRecording
  <1>2. CASE ~mode.hint
    <2>1. PICK h \in switchHint(str, TRUE, FALSE) :
             /\ reply(e, h.ok) /\ moveTo(m_state, h.str)
             /\ mode' = h.mode /\ newMode' = h.newMode
             /\ UNCHANGED <<needRestart, window, picture>>
      BY <1>2 DEF preStartRecording
    <2>2. h.ok \in BOOLEAN /\ h.str \in Streams /\ h.mode \in Modes /\ h.newMode \in Modes
      BY Switched DEF MachineOK
    <2>3. QED BY <2>1, <2>2 DEF moveTo, Done, Replied, MachineOK, picture
  <1>3. QED BY <1>1, <1>2

(* The parts of a picture, after it has begun or failed to, or has ended.   *)
PictureOK ==
    /\ prepDue \in BOOLEAN /\ defer \in Nat /\ live \in {"none", "take", "cancel"}
    /\ owed \in BOOLEAN /\ cmds \in Seq(Cmd) /\ dataQ \in Nat
    /\ snapshot \in BOOLEAN /\ syncEvt \in BOOLEAN

LEMMA TakePictureDone ==
    ASSUME MachineOK, NEW e, NEW s \in Streams, NEW m \in Modes, takePicture(e, s, m)
    PROVE  /\ m_state' \in States /\ str' \in Streams /\ PictureOK'
           /\ m_state' # "PREPARE_SNAPSHOT"
           /\ \E ok \in BOOLEAN : reply(e, ok)
  <1>1. /\ begun => PictureOK'
        /\ notBegun(<<>>) => PictureOK'
        /\ notBegun(startSnapshots) => PictureOK'
        /\ notBegun(stopSnapshots) => PictureOK'
        /\ notBegun(stopSnapshots \o startSnapshots) => PictureOK'
    <2>1. begun => PictureOK'
      BY DEF begun, PictureOK, MachineOK
    <2>2. ASSUME NEW cs, cs \o cmds \in Seq(Cmd), notBegun(cs)
          PROVE  PictureOK'
      BY <2>2 DEF notBegun, PictureOK, MachineOK
    <2>3. QED BY <2>1, <2>2, Commands
  <1>2. CASE /\ m.zsl /\ begun /\ reply(e, TRUE)
             /\ moveTo("PREVIEW_PIC_TAKING", capturing(s, "zsl"))
    <2>1. capturing(s, "zsl") \in Streams
      BY Captured DEF Captures
    <2>2. QED BY <1>1, <1>2, <2>1 DEF moveTo, States
  <1>3. CASE /\ \/ notBegun(<<>>) \/ notBegun(stopSnapshots)
                \/ notBegun(stopSnapshots \o startSnapshots)
             /\ reply(e, FALSE) /\ moveTo("PREVIEWING", s)
    BY <1>1, <1>3 DEF moveTo, States
  <1>4. CASE /\ begun /\ reply(e, TRUE)
             /\ moveTo("PIC_TAKING", capturing(stopPreview(s), "photo"))
    <2>1. stopPreview(s) \in Streams
      BY Unprepared
    <2>2. capturing(stopPreview(s), "photo") \in Streams
      BY <2>1, Captured DEF Captures
    <2>3. QED BY <1>1, <1>4, <2>2 DEF moveTo, States
  <1>5. CASE /\ notBegun(<<>>) \/ notBegun(startSnapshots)
             /\ \E t \in {s, notCapturing(s, "photo")} :
                   \E p \in runPreview(stopPreview(t), m, TRUE) :
                      reply(e, FALSE) /\ moveTo(IF p.ok THEN "PREVIEWING" ELSE "STOPPED", p.str)
    <2>1. PICK t \in {s, notCapturing(s, "photo")} :
             \E p \in runPreview(stopPreview(t), m, TRUE) :
                reply(e, FALSE) /\ moveTo(IF p.ok THEN "PREVIEWING" ELSE "STOPPED", p.str)
      BY <1>5
    <2>2. t \in Streams
      BY Captured DEF Captures
    <2>3. stopPreview(t) \in Streams
      BY <2>2, Unprepared
    <2>4. PICK p \in runPreview(stopPreview(t), m, TRUE) :
             reply(e, FALSE) /\ moveTo(IF p.ok THEN "PREVIEWING" ELSE "STOPPED", p.str)
      BY <2>1
    <2>5. p.str \in Streams
      BY <2>3, Ran
    <2>6. QED BY <1>1, <1>5, <2>4, <2>5 DEF moveTo, States
  <1>6. QED BY <1>2, <1>3, <1>4, <1>5 DEF takePicture

LEMMA EndDone ==
    ASSUME MachineOK, cancelPicture \/ cancelLiveSnapshot, syncEvt' \in BOOLEAN
    PROVE  PictureOK'
  BY Commands DEF cancelPicture, cancelLiveSnapshot, stillOwed, PictureOK, MachineOK

(* The handlers.                                                            *)
LEMMA StoppedDone ==
    ASSUME MachineOK, NEW e, NEW arg \in BOOLEAN, PreviewStopped(e, arg)
    PROVE  Done(e)
  <1>1. CASE SetParams(e, arg, FALSE)
    BY <1>1, SetParamsDone
  <1>2. CASE only(e, TRUE) \/ only(e, FALSE)
    BY <1>2, OnlyDone
  <1>3. CASE restarted(e, TRUE, m_state, str)
    BY <1>3, RestartedDone DEF MachineOK
  <1>4. CASE window' = arg /\ reply(e, TRUE) /\ UNCHANGED <<m_state, str, params, picture>>
    BY <1>4 DEF Done, Replied, MachineOK, params, picture
  <1>5. ASSUME NEW p \in preparePreview(str, mode),
               change(e, p.ok, IF p.ok THEN "READY" ELSE m_state, p.str)
        PROVE  Done(e)
    <2>1. /\ p.ok \in BOOLEAN /\ p.str \in Streams
          /\ (IF p.ok THEN "READY" ELSE m_state) \in States
      BY Prepared DEF MachineOK, States
    <2>2. QED BY <1>5, <2>1, ChangeDone
  <1>6. ASSUME NEW p \in runPreview(str, mode, TRUE),
               change(e, p.ok, IF p.ok THEN "PREVIEWING" ELSE m_state, p.str)
        PROVE  Done(e)
    <2>1. /\ p.ok \in BOOLEAN /\ p.str \in Streams
          /\ (IF p.ok THEN "PREVIEWING" ELSE m_state) \in States
      BY Ran DEF MachineOK, States
    <2>2. QED BY <1>6, <2>1, ChangeDone
  <1>7. QED BY <1>1, <1>2, <1>3, <1>4, <1>5, <1>6 DEF PreviewStopped

LEMMA StartReadyDone ==
    ASSUME MachineOK, NEW e, startReady(e), window' \in BOOLEAN, UNCHANGED <<params, picture>>
    PROVE  Done(e)
  <1>1. PICK p \in startPreview(str, mode) :
           IF p.ok THEN reply(e, TRUE) /\ moveTo("PREVIEWING", p.str)
           ELSE reply(e, e = "START_PREVIEW") /\ moveTo("STOPPED", unpreparePreview(p.str))
    BY DEF startReady
  <1>2. p.str \in Streams /\ unpreparePreview(p.str) \in Streams
    BY Started, Unprepared DEF MachineOK
  <1>3. QED BY <1>1, <1>2 DEF moveTo, Done, Replied, MachineOK, States, params, picture

LEMMA ReadyDone ==
    ASSUME MachineOK, NEW e, NEW arg \in BOOLEAN, PreviewReady(e, arg)
    PROVE  Done(e)
  <1> USE DEF MachineOK
  <1>1. CASE SetParams(e, arg, FALSE)
    BY <1>1, SetParamsDone
  <1>2. CASE only(e, TRUE) \/ only(e, FALSE)
    BY <1>2, OnlyDone
  <1>3. CASE /\ window' = arg \/ UNCHANGED window
             /\ startReady(e) \/ (reply(e, TRUE) /\ UNCHANGED <<m_state, str>>)
             /\ UNCHANGED <<params, picture>>
    <2>1. window' \in BOOLEAN
      BY <1>3
    <2>2. CASE startReady(e)
      BY <1>3, <2>1, <2>2, StartReadyDone
    <2>3. CASE reply(e, TRUE) /\ UNCHANGED <<m_state, str>>
      BY <1>3, <2>1, <2>3 DEF Done, Replied, params, picture
    <2>4. QED BY <1>3, <2>2, <2>3
  <1>4. CASE change(e, TRUE, "STOPPED", unpreparePreview(str))
             \/ change(e, TRUE, m_state, unpreparePreview(str))
    BY <1>4, ChangeDone, Unprepared DEF States
  <1>5. ASSUME NEW p \in preparePreview(str, mode),
               restarted(e, p.ok, IF p.ok THEN m_state ELSE "STOPPED", p.str)
        PROVE  Done(e)
    <2>1. /\ p.ok \in BOOLEAN /\ p.str \in Streams
          /\ (IF p.ok THEN m_state ELSE "STOPPED") \in States
      BY Prepared DEF States
    <2>2. QED BY <1>5, <2>1, RestartedDone
  <1>6. QED BY <1>1, <1>2, <1>3, <1>4, <1>5 DEF PreviewReady

LEMMA PreviewingDone ==
    ASSUME MachineOK, m_state # "PREPARE_SNAPSHOT", NEW e, NEW arg \in BOOLEAN,
           Previewing(e, arg)
    PROVE  Done(e)
  <1>1. CASE SetParams(e, arg, FALSE)
    BY <1>1, SetParamsDone
  <1>2. CASE only(e, TRUE) \/ only(e, FALSE)
    BY <1>2, OnlyDone
  <1>3. CASE change(e, TRUE, "STOPPED", stopPreview(str))
             \/ change(e, TRUE, m_state, stopPreview(str))
    BY <1>3, ChangeDone, Unprepared DEF MachineOK, States
  <1>4. CASE restartPreview(e, m_state, "STOPPED")
    BY <1>4, RestartPreviewDone DEF MachineOK, States
  <1>5. CASE preStartRecording(e)
    BY <1>5, PreStartDone
  <1>6. CASE startRecording(e, "RECORDING")
    <2>1. PICK r \in BOOLEAN :
             change(e, r, IF r THEN "RECORDING" ELSE m_state, [str EXCEPT !.video = r])
      BY <1>6, Outcome DEF startRecording
    <2>2. [str EXCEPT !.video = r] \in Streams
      BY DEF MachineOK, Streams
    <2>3. QED BY <2>1, <2>2, ChangeDone DEF MachineOK, States
  <1>7. CASE /\ e = "PREPARE_SNAPSHOT"
             /\ m_state' = "PREPARE_SNAPSHOT" /\ prepDue' = TRUE
             /\ UNCHANGED <<m_apiResultList, str, window, params, defer, live, owed, cmds,
                            dataQ, snapshot, syncEvt>>
    BY <1>7 DEF Done, Replied, MachineOK, States, params
  <1>8. ASSUME NEW h \in switchHint(str, FALSE, TRUE),
               reply(e, h.ok) /\ moveTo(m_state, h.str),
               mode' = h.mode /\ newMode' = h.newMode,
               UNCHANGED <<needRestart, window, picture>>
        PROVE  Done(e)
    <2>1. h.ok \in BOOLEAN /\ h.str \in Streams /\ h.mode \in Modes /\ h.newMode \in Modes
      BY Switched DEF MachineOK
    <2>2. QED BY <1>8, <2>1 DEF moveTo, Done, Replied, MachineOK, picture
  <1>9. CASE e = "TAKE_PICTURE"
    <2>1. /\ \/ \E h \in switchHint(str, FALSE, TRUE) :
                   takePicture(e, h.str, h.mode) /\ mode' = h.mode /\ newMode' = h.newMode
             \/ takePicture(e, str, mode) /\ UNCHANGED <<mode, newMode>>
          /\ UNCHANGED <<needRestart, window>>
      <3>1. CASE SetParams(e, arg, FALSE) \/ preStartRecording(e)
        BY <1>9, <3>1 DEF SetParams, preStartRecording
      <3>2. QED BY <1>9, <3>1 DEF Previewing
    <2>2. ASSUME NEW h \in switchHint(str, FALSE, TRUE), takePicture(e, h.str, h.mode),
                 mode' = h.mode /\ newMode' = h.newMode
          PROVE  Done(e)
      <3>1. h.str \in Streams /\ h.mode \in Modes /\ h.newMode \in Modes
        BY Switched DEF MachineOK
      <3>2. /\ m_state' \in States /\ str' \in Streams /\ PictureOK'
            /\ m_state' # "PREPARE_SNAPSHOT"
            /\ \E ok \in BOOLEAN : reply(e, ok)
        BY <2>2, <3>1, TakePictureDone
      <3>3. QED BY <2>1, <2>2, <3>1, <3>2 DEF Done, Replied, MachineOK, PictureOK
    <2>3. CASE takePicture(e, str, mode) /\ UNCHANGED <<mode, newMode>>
      <3>1. /\ m_state' \in States /\ str' \in Streams /\ PictureOK'
            /\ m_state' # "PREPARE_SNAPSHOT"
            /\ \E ok \in BOOLEAN : reply(e, ok)
        BY <2>3, TakePictureDone DEF MachineOK
      <3>2. QED BY <2>1, <2>3, <3>1 DEF Done, Replied, MachineOK, PictureOK
    <2>4. QED BY <2>1, <2>2, <2>3
  <1>10. QED BY <1>1, <1>2, <1>3, <1>4, <1>5, <1>6, <1>7, <1>8, <1>9 DEF Previewing

(* A picture is ended by a call.                                            *)
LEMMA EndedDone ==
    ASSUME MachineOK, NEW e, NEW ok \in BOOLEAN, cancelPicture \/ cancelLiveSnapshot,
           reply(e, ok), NEW state \in States \ {"PREPARE_SNAPSHOT"}, NEW s \in Streams,
           moveTo(state, s), UNCHANGED <<window, params, syncEvt>>
    PROVE  Done(e)
  <1>1. PictureOK'
    BY EndDone DEF MachineOK
  <1>2. QED BY <1>1 DEF moveTo, Done, Replied, MachineOK, PictureOK, params

LEMMA PicTakingDone ==
    ASSUME MachineOK, NEW e, NEW arg \in BOOLEAN, PicTaking(e, arg)
    PROVE  Done(e)
  <1>1. CASE SetParams(e, arg, FALSE)
    BY <1>1, SetParamsDone
  <1>2. CASE only(e, TRUE) \/ only(e, FALSE)
    BY <1>2, OnlyDone
  <1>3. CASE restarted(e, TRUE, m_state, str)
    BY <1>3, RestartedDone DEF MachineOK
  <1>4. CASE /\ cancelPicture /\ reply(e, TRUE) /\ moveTo("STOPPED", cancelled(str))
             /\ UNCHANGED <<window, params, syncEvt>>
    BY <1>4, EndedDone, Cancelled DEF MachineOK, States
  <1>5. QED BY <1>1, <1>2, <1>3, <1>4 DEF PicTaking

LEMMA StopRecording ==
    ASSUME NEW s \in Streams
    PROVE  /\ stopRecording(s) \in Streams /\ stopRecording(s).video = FALSE
           /\ stopRecording(s).kind = s.kind /\ stopRecording(s).on = s.on
           /\ stopRecording(s).capture = s.capture /\ stopRecording(s).live = s.live
           /\ stopRecording(s).switched = s.switched
           /\ stopPreview(stopRecording(s)) \in Streams
  <1>1. /\ stopRecording(s) \in Streams /\ stopRecording(s).video = FALSE
        /\ stopRecording(s).kind = s.kind /\ stopRecording(s).on = s.on
        /\ stopRecording(s).capture = s.capture /\ stopRecording(s).live = s.live
        /\ stopRecording(s).switched = s.switched
    BY DEF stopRecording, Streams
  <1>2. QED BY <1>1, Unprepared

LEMMA RecordingDone ==
    ASSUME MachineOK, NEW e, NEW arg \in BOOLEAN, Recording(e, arg)
    PROVE  Done(e)
  <1>1. CASE SetParams(e, arg, TRUE)
    BY <1>1, SetParamsDone
  <1>2. CASE only(e, TRUE) \/ only(e, FALSE)
    BY <1>2, OnlyDone
  <1>3. CASE /\ takeLiveSnapshot /\ reply(e, TRUE) /\ moveTo("VIDEO_PIC_TAKING", str)
             /\ UNCHANGED <<window, params, prepDue, defer, owed, cmds, dataQ, snapshot, syncEvt>>
    BY <1>3 DEF takeLiveSnapshot, moveTo, Done, Replied, MachineOK, States, params
  <1>4. CASE \/ change(e, TRUE, "PREVIEWING", stopRecording(str))
             \/ change(e, TRUE, "STOPPED", stopPreview(stopRecording(str)))
    BY <1>4, ChangeDone, StopRecording DEF MachineOK, States
  <1>5. QED BY <1>1, <1>2, <1>3, <1>4 DEF Recording

LEMMA VideoPicTakingDone ==
    ASSUME MachineOK, NEW e, NEW arg \in BOOLEAN, VideoPicTaking(e, arg)
    PROVE  Done(e)
  <1>1. CASE SetParams(e, arg, TRUE)
    BY <1>1, SetParamsDone
  <1>2. CASE only(e, TRUE) \/ only(e, FALSE)
    BY <1>2, OnlyDone
  <1>3. CASE /\ cancelLiveSnapshot /\ reply(e, TRUE)
             /\ \/ moveTo("RECORDING", str)
                \/ moveTo("PREVIEWING", stopRecording(str))
                \/ moveTo("STOPPED", stopPreview(stopRecording(str)))
             /\ UNCHANGED <<window, params, syncEvt>>
    BY <1>3, EndedDone, StopRecording DEF MachineOK, States
  <1>4. QED BY <1>1, <1>2, <1>3 DEF VideoPicTaking

LEMMA PreviewPicTakingDone ==
    ASSUME MachineOK, m_state # "PREPARE_SNAPSHOT", NEW e, NEW arg \in BOOLEAN,
           PreviewPicTaking(e, arg)
    PROVE  Done(e)
  <1>1. CASE SetParams(e, arg, FALSE)
    BY <1>1, SetParamsDone
  <1>2. CASE only(e, TRUE) \/ only(e, FALSE)
    BY <1>2, OnlyDone
  <1>3. CASE change(e, TRUE, m_state, stopPreview(str))
    BY <1>3, ChangeDone, Unprepared DEF MachineOK
  <1>4. CASE restartPreview(e, "PIC_TAKING", "PIC_TAKING")
    BY <1>4, RestartPreviewDone DEF States
  <1>5. CASE /\ endPicture /\ reply(e, TRUE)
             /\ \/ moveTo("PREVIEWING", left(str))
                \/ moveTo("STOPPED", unpreparePreview(left(str)))
             /\ UNCHANGED <<window, params, syncEvt>>
    <2>1. left(str) \in Streams
      BY Cancelled DEF left, MachineOK
    <2>2. unpreparePreview(left(str)) \in Streams
      BY <2>1, Unprepared
    <2>3. cancelPicture \/ cancelLiveSnapshot
      BY <1>5 DEF endPicture
    <2>4. QED BY <1>5, <2>1, <2>2, <2>3, EndedDone DEF States
  <1>6. CASE preStartRecording(e)
    BY <1>6, PreStartDone
  <1>7. CASE startRecording(e, "VIDEO_PIC_TAKING")
    <2>1. PICK r \in BOOLEAN :
             change(e, r, IF r THEN "VIDEO_PIC_TAKING" ELSE m_state, [str EXCEPT !.video = r])
      BY <1>7, Outcome DEF startRecording
    <2>2. [str EXCEPT !.video = r] \in Streams
      BY DEF MachineOK, Streams
    <2>3. QED BY <2>1, <2>2, ChangeDone DEF MachineOK, States
  <1>8. QED BY <1>1, <1>2, <1>3, <1>4, <1>5, <1>6, <1>7 DEF PreviewPicTaking

LEMMA MachineDone ==
    ASSUME MachineOK, NEW e, NEW arg \in BOOLEAN, stateMachine(e, arg)
    PROVE  Done(e)
  <1>1. CASE m_state = "PREPARE_SNAPSHOT"
    BY <1>1, OnlyDone DEF stateMachine, PrepareSnapshot
  <1>2. CASE m_state # "PREPARE_SNAPSHOT"
    BY <1>2, StoppedDone, ReadyDone, PreviewingDone, PicTakingDone, RecordingDone,
       VideoPicTakingDone, PreviewPicTakingDone DEF stateMachine
  <1>3. QED BY <1>1, <1>2

-----------------------------------------------------------------------------
(* One call at a time.                                                      *)
Ev == [evt : Calls, arg : BOOLEAN]
Res == [evt : Calls, ok : BOOLEAN]

LEMMA CallFacts ==
    ASSUME CallInv
    PROVE  /\ MachineOK /\ PictureOK
           /\ api_queue \in Seq(Ev) /\ m_apiResultList \in Seq(Res) /\ evt_queue \in Seq(Events)
           /\ app \in Calls \cup {"idle"}
  BY DEF CallInv, TypeOK, MachineOK, PictureOK, Ev, Res, Cmd

LEMMA TypeParts ==
    ASSUME MachineOK', api_queue' \in Seq(Ev), m_apiResultList' \in Seq(Res),
           evt_queue' \in Seq(Events), app' \in Calls \cup {"idle"}
    PROVE  TypeOK'
  BY DEF TypeOK, MachineOK, Ev, Res, Cmd

(* An event of a call joins or leaves a queue.                              *)
LEMMA Answered ==
    ASSUME m_apiResultList \in Seq(Res), NEW e \in Calls, NEW ok \in BOOLEAN, reply(e, ok)
    PROVE  /\ m_apiResultList' \in Seq(Res)
           /\ e \in {app, "CANCEL_PICTURE"} /\ OfApp(m_apiResultList) /\ app' = app
                 => OfApp(m_apiResultList)'
           /\ NoneOwn(m_apiResultList) => OneOwn(m_apiResultList')
           /\ e = "CANCEL_PICTURE" /\ NoneOwn(m_apiResultList) => NoneOwn(m_apiResultList')
           /\ e = "CANCEL_PICTURE" /\ OneOwn(m_apiResultList) => OneOwn(m_apiResultList')
           /\ \A f : In(m_apiResultList', f) <=> In(m_apiResultList, f) \/ f = e
  <1> DEFINE x == [evt |-> e, ok |-> ok]
  <1>1. x \in Res /\ x.evt = e /\ (Own(x) <=> e # "CANCEL_PICTURE")
        /\ m_apiResultList' = Append(m_apiResultList, x)
    BY DEF Res, Own, reply
  <1> HIDE DEF x
  <1>2. QED BY <1>1, AppendOwn DEF OfApp, In

LEMMA Posted ==
    ASSUME api_queue \in Seq(Ev), NEW e \in Calls, NEW arg \in BOOLEAN, processAPI(e, arg)
    PROVE  /\ api_queue' \in Seq(Ev)
           /\ \A i \in DOMAIN api_queue' :
                 \/ i \in DOMAIN api_queue /\ api_queue'[i] = api_queue[i]
                 \/ api_queue'[i] = [evt |-> e, arg |-> arg]
           /\ NoneOwn(api_queue) => OneOwn(api_queue')
           /\ e = "CANCEL_PICTURE" /\ NoneOwn(api_queue) => NoneOwn(api_queue')
           /\ e = "CANCEL_PICTURE" /\ OneOwn(api_queue) => OneOwn(api_queue')
  <1> DEFINE x == [evt |-> e, arg |-> arg]
  <1>1. x \in Ev /\ (Own(x) <=> e # "CANCEL_PICTURE") /\ api_queue' = Append(api_queue, x)
    BY DEF Ev, Own, processAPI
  <1> HIDE DEF x
  <1>2. QED BY <1>1, AppendOwn DEF x

LEMMA CallHandled ==
    ASSUME CallInv, SmApi
    PROVE  CallInv'
  <1> DEFINE e == Head(api_queue).evt
             arg == Head(api_queue).arg
  <1>1. /\ api_queue # <<>> /\ api_queue' = Tail(api_queue) /\ stateMachine(e, arg)
        /\ UNCHANGED <<evt_queue, app>>
    BY DEF SmApi
  <1>2. /\ MachineOK /\ api_queue \in Seq(Ev) /\ m_apiResultList \in Seq(Res)
        /\ evt_queue \in Seq(Events) /\ app \in Calls \cup {"idle"}
    BY CallFacts
  <1>3. /\ Head(api_queue) \in Ev /\ api_queue' \in Seq(Ev)
        /\ 1 \in DOMAIN api_queue /\ api_queue[1] = Head(api_queue)
        /\ \A i \in DOMAIN api_queue' : \E j \in DOMAIN api_queue : api_queue'[i] = api_queue[j]
        /\ NoneOwn(api_queue) => NoneOwn(api_queue') /\ ~Own(Head(api_queue))
        /\ OneOwn(api_queue) => OneOwn(api_queue')
        /\ OneOwn(api_queue) /\ Own(Head(api_queue)) => NoneOwn(api_queue')
    BY <1>1, <1>2, TailOwn
  <1>4. e \in Calls /\ arg \in BOOLEAN /\ e \in {app, "CANCEL_PICTURE"}
        /\ (Own(Head(api_queue)) <=> e # "CANCEL_PICTURE")
    BY <1>3 DEF Ev, Own, CallInv, SyncInv, OfApp
  <1> HIDE DEF e, arg
  <1>5. Done(e)
    BY <1>1, <1>2, <1>4, MachineDone
  <1>6. OfApp(api_queue)'
    BY <1>1, <1>3 DEF OfApp, CallInv, SyncInv
  <1>7. SyncInv' /\ m_apiResultList' \in Seq(Res)
    <2>1. CASE /\ \E ok \in BOOLEAN : reply(e, ok)
               /\ m_state' = "PREPARE_SNAPSHOT" => m_state = "PREPARE_SNAPSHOT"
      <3>1. PICK ok \in BOOLEAN : reply(e, ok)
        BY <2>1
      <3>2. /\ m_apiResultList' \in Seq(Res) /\ OfApp(m_apiResultList)'
            /\ NoneOwn(m_apiResultList) => OneOwn(m_apiResultList')
            /\ e = "CANCEL_PICTURE" /\ NoneOwn(m_apiResultList) => NoneOwn(m_apiResultList')
            /\ e = "CANCEL_PICTURE" /\ OneOwn(m_apiResultList) => OneOwn(m_apiResultList')
        BY <1>1, <1>2, <1>4, <3>1, Answered DEF CallInv, SyncInv
      <3>3. CASE e # "CANCEL_PICTURE"
        <4>1. NoneOwn(api_queue') /\ NoneOwn(m_apiResultList) /\ m_state # "PREPARE_SNAPSHOT"
          BY <1>3, <1>4, <3>3 DEF CallInv, SyncInv
        <4>2. OneOwn(m_apiResultList') /\ OneOwn(api_queue')
          BY <1>3, <3>2, <4>1 DEF CallInv, SyncInv
        <4>3. QED BY <1>6, <2>1, <3>2, <4>1, <4>2 DEF SyncInv
      <3>4. CASE e = "CANCEL_PICTURE"
        BY <1>1, <1>3, <1>6, <2>1, <3>2, <3>4 DEF CallInv, SyncInv
      <3>5. QED BY <3>3, <3>4
    <2>2. CASE e = "PREPARE_SNAPSHOT" /\ UNCHANGED m_apiResultList
      <3>1. app = e /\ NoneOwn(api_queue') /\ NoneOwn(m_apiResultList)
        BY <1>3, <1>4, <2>2 DEF CallInv, SyncInv
      <3>2. OfApp(m_apiResultList)'
        BY <1>1, <2>2 DEF CallInv, SyncInv, OfApp
      <3>3. QED BY <1>1, <1>2, <1>3, <1>6, <2>2, <3>1, <3>2 DEF CallInv, SyncInv
    <2>3. QED BY <1>5, <2>1, <2>2 DEF Done, Replied
  <1>8. TypeOK'
    BY <1>1, <1>2, <1>3, <1>5, <1>7, TypeParts DEF Done
  <1>9. QED BY <1>7, <1>8 DEF CallInv

(* Where a call goes on.                                                    *)
LEMMA Following ==
    ASSUME NEW e, NEW ok
    PROVE  /\ following(e, ok) \in (Calls \ {"CANCEL_PICTURE"}) \cup {"idle"}
           /\ e = "CANCEL_PICTURE" => following(e, ok) = "idle"
  BY DEF following, Calls

LEMMA NoneIsCancel ==
    ASSUME NEW q, NoneOwn(q)
    PROVE  OfApp(q) /\ OneOwn(q)
  BY DEF NoneOwn, Own, OfApp, OneOwn

LEMMA IdleIsClean ==
    ASSUME CallInv, app = "idle"
    PROVE  NoneOwn(api_queue) /\ NoneOwn(m_apiResultList)
  <1>1. ASSUME NEW q, OfApp(q), \A i \in DOMAIN q : q[i].evt # "idle" PROVE NoneOwn(q)
    BY <1>1 DEF OfApp, NoneOwn, Own
  <1>2. /\ \A i \in DOMAIN api_queue : api_queue[i].evt \in Calls
        /\ \A i \in DOMAIN m_apiResultList : m_apiResultList[i].evt \in Calls
    <2>1. /\ \A i \in DOMAIN api_queue : api_queue[i] \in Ev
          /\ \A i \in DOMAIN m_apiResultList : m_apiResultList[i] \in Res
      BY CallFacts, ElementOfSeq
    <2>2. QED BY <2>1 DEF Ev, Res
  <1>3. "idle" \notin Calls
    BY DEF Calls
  <1>4. QED BY <1>1, <1>2, <1>3 DEF CallInv, SyncInv

LEMMA AnyMade ==
    ASSUME CallInv, NEW e \in Calls, NEW arg \in BOOLEAN, call(e, arg)
    PROVE  CallInv'
  <1>1. /\ app = "idle" /\ app' = e /\ processAPI(e, arg)
        /\ UNCHANGED <<m_state, evt_queue, m_apiResultList, str, params, window, picture>>
    BY DEF call
  <1>2. NoneOwn(api_queue) /\ NoneOwn(m_apiResultList)
    BY <1>1, IdleIsClean
  <1>3. /\ api_queue' \in Seq(Ev) /\ OneOwn(api_queue')
        /\ \A i \in DOMAIN api_queue' :
              \/ i \in DOMAIN api_queue /\ api_queue'[i] = api_queue[i]
              \/ api_queue'[i] = [evt |-> e, arg |-> arg]
    BY <1>1, <1>2, CallFacts, Posted
  <1>4. OfApp(api_queue)'
    BY <1>1, <1>2, <1>3 DEF NoneOwn, Own, OfApp
  <1>5. OfApp(m_apiResultList)' /\ OneOwn(m_apiResultList)
    BY <1>1, <1>2, NoneIsCancel DEF NoneOwn, Own, OfApp
  <1>6. m_state # "PREPARE_SNAPSHOT"
    BY <1>1 DEF CallInv, SyncInv
  <1>7. SyncInv'
    BY <1>1, <1>2, <1>3, <1>4, <1>5, <1>6 DEF SyncInv
  <1>8. TypeOK'
    <2>1. MachineOK'
      BY <1>1, CallFacts DEF MachineOK, params, picture
    <2>2. QED BY <1>1, <1>3, <2>1, CallFacts, TypeParts
  <1>9. QED BY <1>7, <1>8 DEF CallInv

(* The application takes its result: after it there is nothing of the call. *)
LEMMA ResultTaken ==
    ASSUME CallInv, waitAPIResult
    PROVE  /\ NoneOwn(m_apiResultList') /\ NoneOwn(api_queue) /\ m_state # "PREPARE_SNAPSHOT"
           /\ m_apiResultList' \in Seq(Res)
           /\ UNCHANGED <<m_state, evt_queue, str, params, window, picture>>
           /\ \E i \in DOMAIN m_apiResultList :
                 /\ m_apiResultList[i].evt = app
                 /\ app' = following(app, m_apiResultList[i].ok)
           /\ IF app' # "idle" THEN processAPI(app', FALSE) ELSE UNCHANGED api_queue
  <1>1. /\ app # "idle"
        /\ UNCHANGED <<m_state, evt_queue, str, params, window, picture>>
    BY DEF waitAPIResult
  <1>2. PICK i \in DOMAIN m_apiResultList :
           /\ m_apiResultList[i].evt = app
           /\ app' = following(app, m_apiResultList[i].ok)
           /\ IF app' # "idle" THEN processAPI(app', FALSE) ELSE UNCHANGED api_queue
           /\ m_apiResultList' = RemoveAt(m_apiResultList, i)
    BY DEF waitAPIResult, results
  <1>3. m_apiResultList \in Seq(Res)
    BY CallFacts
  <1>4. /\ m_apiResultList' \in Seq(Res)
        /\ NoneOwn(m_apiResultList) => NoneOwn(m_apiResultList')
        /\ OneOwn(m_apiResultList) /\ Own(m_apiResultList[i]) => NoneOwn(m_apiResultList')
    BY <1>2, <1>3, RemoveAtOwn
  <1>5. CASE app = "CANCEL_PICTURE"
    <2>1. NoneOwn(api_queue) /\ NoneOwn(m_apiResultList) /\ m_state # "PREPARE_SNAPSHOT"
      BY <1>5 DEF CallInv, SyncInv, OfApp, NoneOwn, Own
    <2>2. QED BY <1>1, <1>2, <1>4, <2>1
  <1>6. CASE app # "CANCEL_PICTURE"
    <2>1. ~NoneOwn(m_apiResultList) /\ Own(m_apiResultList[i])
      BY <1>2, <1>6 DEF NoneOwn, Own
    <2>2. NoneOwn(m_apiResultList') /\ NoneOwn(api_queue) /\ m_state # "PREPARE_SNAPSHOT"
      BY <1>4, <2>1 DEF CallInv, SyncInv
    <2>3. QED BY <1>1, <1>2, <1>4, <2>2
  <1>7. QED BY <1>5, <1>6

LEMMA CallGoesOn ==
    ASSUME CallInv, waitAPIResult
    PROVE  CallInv'
  <1>1. /\ NoneOwn(m_apiResultList') /\ NoneOwn(api_queue) /\ m_state # "PREPARE_SNAPSHOT"
        /\ m_apiResultList' \in Seq(Res)
        /\ UNCHANGED <<m_state, evt_queue, str, params, window, picture>>
        /\ app' \in Calls \cup {"idle"}
        /\ IF app' # "idle" THEN processAPI(app', FALSE) ELSE UNCHANGED api_queue
    BY ResultTaken, Following
  <1>2. api_queue' \in Seq(Ev) /\ OneOwn(api_queue') /\ OfApp(api_queue)'
    <2>1. CASE app' = "idle"
      BY <1>1, <2>1, CallFacts, NoneIsCancel DEF NoneOwn, Own, OfApp
    <2>2. CASE app' # "idle"
      <3>1. app' \in Calls /\ processAPI(app', FALSE) /\ api_queue \in Seq(Ev)
        BY <1>1, <2>2, CallFacts
      <3>2. /\ api_queue' \in Seq(Ev) /\ OneOwn(api_queue')
            /\ \A i \in DOMAIN api_queue' :
                  \/ i \in DOMAIN api_queue /\ api_queue'[i] = api_queue[i]
                  \/ api_queue'[i] = [evt |-> app', arg |-> FALSE]
        BY <1>1, <3>1, Posted
      <3>3. QED BY <1>1, <3>2 DEF NoneOwn, Own, OfApp
    <2>3. QED BY <2>1, <2>2
  <1>3. OfApp(m_apiResultList)' /\ OneOwn(m_apiResultList')
    BY <1>1 DEF NoneOwn, Own, OfApp, OneOwn
  <1>4. SyncInv'
    BY <1>1, <1>2, <1>3 DEF SyncInv
  <1>5. TypeOK'
    <2>1. MachineOK'
      BY <1>1, CallFacts DEF MachineOK, params, picture
    <2>2. QED BY <1>1, <1>2, <2>1, CallFacts, TypeParts
  <1>6. QED BY <1>4, <1>5 DEF CallInv

(* The other events, and the other threads.                                 *)
LEMMA EventHandled ==
    ASSUME CallInv, SmEvt
    PROVE  CallInv'
  <1>1. /\ evt_queue # <<>> /\ evt_queue' = Tail(evt_queue)
        /\ SnapshotDone \/ JpegNotify \/ PrepSnapshotDone
        /\ UNCHANGED <<api_queue, app, window, params>>
    BY DEF SmEvt
  <1>2. /\ MachineOK /\ evt_queue \in Seq(Events) /\ evt_queue' \in Seq(Events)
        /\ api_queue \in Seq(Ev) /\ m_apiResultList \in Seq(Res)
        /\ app \in Calls \cup {"idle"}
    BY <1>1, CallFacts
  <1>3. CASE SnapshotDone
    <2>1. syncEvt' = FALSE /\ UNCHANGED m_apiResultList
      BY <1>3 DEF SnapshotDone, signalEvtResult
    <2>2. /\ m_state' = "PREPARE_SNAPSHOT" => m_state = "PREPARE_SNAPSHOT"
          /\ m_state' \in States /\ str' \in Streams
      <3>1. cancelled(str) \in Streams /\ left(str) \in Streams
        BY <1>2, Cancelled DEF MachineOK, left
      <3>2. QED BY <1>2, <1>3, <3>1 DEF SnapshotDone, moveTo, MachineOK, States
    <2>3. PictureOK'
      <3>1. CASE cancelPicture \/ cancelLiveSnapshot
        BY <1>2, <2>1, <3>1, EndDone
      <3>2. CASE UNCHANGED <<prepDue, defer, live, owed, cmds, dataQ, snapshot>>
        BY <1>2, <2>1, <3>2 DEF MachineOK, PictureOK
      <3>3. QED BY <1>3, <3>1, <3>2 DEF SnapshotDone, endPicture
    <2>4. MachineOK'
      BY <1>1, <1>2, <2>2, <2>3 DEF MachineOK, PictureOK, params
    <2>5. TypeOK'
      BY <1>1, <1>2, <2>1, <2>4, TypeParts
    <2>6. SyncInv'
      BY <1>1, <2>1, <2>2 DEF CallInv, SyncInv, OfApp
    <2>7. QED BY <2>5, <2>6 DEF CallInv
  <1>4. CASE JpegNotify
    <2>1. /\ UNCHANGED <<m_state, str, m_apiResultList, prepDue, defer, live, owed, snapshot, syncEvt>>
          /\ \/ dataQ' = dataQ + 1 /\ cmds' = Append(cmds, "NEXT")
             \/ UNCHANGED <<dataQ, cmds>>
      BY <1>4 DEF JpegNotify
    <2>2. cmds' \in Seq(Cmd) /\ dataQ' \in Nat
      <3>1. cmds \in Seq(Cmd) /\ "NEXT" \in Cmd /\ dataQ \in Nat
        BY <1>2 DEF MachineOK, Cmd
      <3>2. Append(cmds, "NEXT") \in Seq(Cmd)
        BY <3>1, AppendProperties
      <3>3. QED BY <2>1, <3>1, <3>2
    <2>3. MachineOK'
      BY <1>1, <1>2, <2>1, <2>2 DEF MachineOK, params
    <2>4. TypeOK' /\ SyncInv'
      BY <1>1, <1>2, <2>1, <2>3, TypeParts DEF CallInv, SyncInv, OfApp
    <2>5. QED BY <2>4 DEF CallInv
  <1>5. CASE PrepSnapshotDone
    <2>1. /\ m_state' \in States /\ UNCHANGED <<str, picture>>
          /\ \/ /\ m_state = "PREPARE_SNAPSHOT" /\ m_state' = "PREVIEWING"
                /\ reply("PREPARE_SNAPSHOT", TRUE)
             \/ UNCHANGED <<m_apiResultList, m_state>>
      BY <1>2, <1>5 DEF PrepSnapshotDone, MachineOK, States
    <2>2. MachineOK'
      BY <1>1, <1>2, <2>1 DEF MachineOK, params, picture
    <2>3. CASE m_state = "PREPARE_SNAPSHOT" /\ m_state' = "PREVIEWING" /\ reply("PREPARE_SNAPSHOT", TRUE)
      <3>1. app = "PREPARE_SNAPSHOT" /\ NoneOwn(api_queue) /\ NoneOwn(m_apiResultList)
        BY <2>3 DEF CallInv, SyncInv
      <3>2. "PREPARE_SNAPSHOT" \in Calls
        BY DEF Calls
      <3>3. /\ m_apiResultList' \in Seq(Res) /\ OfApp(m_apiResultList)'
            /\ OneOwn(m_apiResultList')
        BY <1>1, <1>2, <2>3, <3>1, <3>2, Answered DEF CallInv, SyncInv
      <3>4. OfApp(api_queue)' /\ OneOwn(api_queue')
        BY <1>1 DEF CallInv, SyncInv, OfApp
      <3>5. SyncInv'
        BY <1>1, <2>3, <3>1, <3>3, <3>4 DEF SyncInv
      <3>6. TypeOK'
        BY <1>1, <1>2, <2>2, <3>3, TypeParts
      <3>7. QED BY <3>5, <3>6 DEF CallInv
    <2>4. CASE UNCHANGED <<m_apiResultList, m_state>>
      <3>1. TypeOK' /\ SyncInv'
        BY <1>1, <1>2, <2>2, <2>4, TypeParts DEF CallInv, SyncInv, OfApp
      <3>2. QED BY <3>1 DEF CallInv
    <2>5. QED BY <2>1, <2>3, <2>4
  <1>6. QED BY <1>1, <1>3, <1>4, <1>5

(* Nothing of a call is touched.                                            *)
LEMMA OthersKeepSync ==
    ASSUME CallInv, UNCHANGED <<m_state, api_queue, m_apiResultList, app>>
    PROVE  SyncInv'
  BY DEF CallInv, SyncInv, OfApp

LEMMA EventsTyped ==
    ASSUME evt_queue \in Seq(Events), NEW e \in Events
    PROVE  Append(evt_queue, e) \in Seq(Events)
  BY AppendProperties

LEMMA ThreadsGoOn ==
    ASSUME CallInv,
           \/ DeferredWork \/ takeLiveSnapshot_internal \/ cancelLiveSnapshot_internal
           \/ cbNotifyRoutine \/ JpegDone \/ PrepDone
    PROVE  CallInv'
  <1>1. /\ MachineOK /\ evt_queue \in Seq(Events)
        /\ api_queue \in Seq(Ev) /\ m_apiResultList \in Seq(Res)
        /\ app \in Calls \cup {"idle"}
    BY CallFacts
  <1>2. CASE DeferredWork
    <2>1. /\ defer > 0 /\ defer' = defer - 1 /\ cmds' = startSnapshots \o cmds
          /\ UNCHANGED <<m_state, api_queue, evt_queue, m_apiResultList, app, str, params, window,
                         prepDue, live, owed, dataQ, snapshot, syncEvt>>
      BY <1>2 DEF DeferredWork
    <2>2. defer' \in Nat /\ cmds' \in Seq(Cmd)
      BY <1>1, <2>1, Commands DEF MachineOK
    <2>3. MachineOK'
      BY <1>1, <2>1, <2>2 DEF MachineOK, params
    <2>4. QED BY <1>1, <2>1, <2>3, TypeParts, OthersKeepSync DEF CallInv
  <1>3. CASE cancelLiveSnapshot_internal
    <2>1. /\ live' = "none" /\ cmds' = stopSnapshots \o cmds /\ owed' \in stillOwed(str)
          /\ str' = [str EXCEPT !.live = FALSE]
          /\ UNCHANGED <<m_state, api_queue, evt_queue, m_apiResultList, app, params, window,
                         prepDue, defer, dataQ, snapshot, syncEvt>>
      BY <1>3 DEF cancelLiveSnapshot_internal
    <2>2. str' \in Streams /\ cmds' \in Seq(Cmd) /\ owed' \in BOOLEAN
      BY <1>1, <2>1, Commands DEF MachineOK, Streams, stillOwed
    <2>3. MachineOK'
      BY <1>1, <2>1, <2>2 DEF MachineOK, params
    <2>4. QED BY <1>1, <2>1, <2>3, TypeParts, OthersKeepSync DEF CallInv
  <1>4. CASE cbNotifyRoutine
    <2>1. /\ cmds # <<>> /\ cmds' = Tail(cmds)
          /\ UNCHANGED <<m_state, api_queue, m_apiResultList, app, str, params, window,
                         prepDue, defer, live, owed>>
      BY <1>4 DEF cbNotifyRoutine
    <2>2. cmds' \in Seq(Cmd)
      BY <1>1, <2>1 DEF MachineOK
    <2>3. "SNAPSHOT_DONE" \in Events
      BY DEF Events
    <2>4. /\ snapshot' \in BOOLEAN /\ dataQ' \in Nat /\ syncEvt' \in BOOLEAN
          /\ evt_queue' \in Seq(Events)
      <3>1. dataQ \in Nat /\ snapshot \in BOOLEAN /\ syncEvt \in BOOLEAN
        BY <1>1 DEF MachineOK
      <3>2. CASE nextJob
        <4>1. dataQ' \in Nat
          BY <3>1, <3>2 DEF nextJob
        <4>2. Append(evt_queue, "SNAPSHOT_DONE") \in Seq(Events)
          BY <1>1, <2>3, EventsTyped
        <4>3. \/ snapshot' = FALSE /\ syncEvt' = TRUE /\ evt_queue' = Append(evt_queue, "SNAPSHOT_DONE")
              \/ UNCHANGED <<snapshot, evt_queue, syncEvt>>
          BY <3>2, Zenon DEF nextJob
        <4>4. QED BY <1>1, <3>1, <4>1, <4>2, <4>3
      <3>3. CASE snapshot' = TRUE /\ UNCHANGED <<dataQ, evt_queue, syncEvt>>
        BY <1>1, <3>1, <3>3
      <3>4. CASE snapshot' = FALSE /\ dataQ' = 0 /\ UNCHANGED <<evt_queue, syncEvt>>
        BY <1>1, <3>1, <3>4
      <3>5. QED BY <1>4, <3>2, <3>3, <3>4 DEF cbNotifyRoutine
    <2>5. MachineOK'
      BY <1>1, <2>1, <2>2, <2>4 DEF MachineOK, params
    <2>6. QED BY <1>1, <2>1, <2>4, <2>5, TypeParts, OthersKeepSync DEF CallInv
  <1>5. CASE JpegDone
    <2>1. /\ owed' = FALSE /\ evt_queue' = Append(evt_queue, "JPEG_EVT_NOTIFY")
          /\ UNCHANGED <<m_state, api_queue, m_apiResultList, app, str, params, window,
                         prepDue, defer, live, cmds, dataQ, snapshot, syncEvt>>
      BY <1>5 DEF JpegDone
    <2>2. evt_queue' \in Seq(Events)
      BY <1>1, <2>1, EventsTyped DEF Events
    <2>3. MachineOK'
      BY <1>1, <2>1 DEF MachineOK, params
    <2>4. QED BY <1>1, <2>1, <2>2, <2>3, TypeParts, OthersKeepSync DEF CallInv
  <1>6. CASE PrepDone
    <2>1. /\ prepDue' = FALSE /\ evt_queue' = Append(evt_queue, "PREP_SNAPSHOT_DONE")
          /\ UNCHANGED <<m_state, api_queue, m_apiResultList, app, str, params, window,
                         defer, live, owed, cmds, dataQ, snapshot, syncEvt>>
      BY <1>6 DEF PrepDone
    <2>2. evt_queue' \in Seq(Events)
      BY <1>1, <2>1, EventsTyped DEF Events
    <2>3. MachineOK'
      BY <1>1, <2>1 DEF MachineOK, params
    <2>4. QED BY <1>1, <2>1, <2>2, <2>3, TypeParts, OthersKeepSync DEF CallInv
  <1>7. CASE takeLiveSnapshot_internal
    <2>1. /\ live' = "none" /\ defer' \in {defer, defer + 1}
          /\ UNCHANGED <<m_state, evt_queue, m_apiResultList, app, params, window,
                         prepDue, cmds, dataQ, snapshot, syncEvt>>
          /\ \/ /\ str' = [str EXCEPT !.live = TRUE] /\ owed' = TRUE
                /\ UNCHANGED api_queue
             \/ processAPI("CANCEL_PICTURE", FALSE) /\ UNCHANGED <<str, owed>>
      BY <1>7 DEF takeLiveSnapshot_internal
    <2>2. str' \in Streams /\ owed' \in BOOLEAN
      BY <1>1, <2>1 DEF MachineOK, Streams
    <2>3. MachineOK'
      BY <1>1, <2>1, <2>2 DEF MachineOK, params
    <2>4. CASE UNCHANGED api_queue
      BY <1>1, <2>1, <2>3, <2>4, TypeParts, OthersKeepSync DEF CallInv
    <2>5. CASE processAPI("CANCEL_PICTURE", FALSE)
      <3>1. "CANCEL_PICTURE" \in Calls
        BY DEF Calls
      <3>2. /\ api_queue' \in Seq(Ev)
            /\ \A i \in DOMAIN api_queue' :
                  \/ i \in DOMAIN api_queue /\ api_queue'[i] = api_queue[i]
                  \/ api_queue'[i] = [evt |-> "CANCEL_PICTURE", arg |-> FALSE]
            /\ NoneOwn(api_queue) => NoneOwn(api_queue')
            /\ OneOwn(api_queue) => OneOwn(api_queue')
        BY <1>1, <2>5, <3>1, Posted
      <3>3. OfApp(api_queue)' /\ OfApp(m_apiResultList)'
        BY <2>1, <3>2 DEF CallInv, SyncInv, OfApp
      <3>4. SyncInv'
        BY <2>1, <3>2, <3>3 DEF CallInv, SyncInv
      <3>5. QED BY <1>1, <2>1, <2>3, <3>2, <3>4, TypeParts DEF CallInv
    <2>6. QED BY <2>1, <2>4, <2>5
  <1>8. QED BY <1>2, <1>3, <1>4, <1>5, <1>6, <1>7

LEMMA InitCalls == Init => CallInv
  <1>1. ASSUME Init PROVE TypeOK
    <2>1. m_state \in States /\ str \in Streams /\ mode \in Modes /\ newMode \in Modes
      BY <1>1 DEF Init, States, Streams, Modes
    <2>2. /\ api_queue = <<>> /\ evt_queue = <<>> /\ m_apiResultList = <<>> /\ cmds = <<>>
          /\ app = "idle" /\ live = "none" /\ defer = 0 /\ dataQ = 0
          /\ needRestart = FALSE /\ window = FALSE /\ prepDue = FALSE /\ owed = FALSE
          /\ snapshot = FALSE /\ syncEvt = FALSE
      BY <1>1 DEF Init
    <2>3. MachineOK
      <3>1. <<>> \in Seq(Cmd)
        OBVIOUS
      <3>2. QED BY <2>1, <2>2, <3>1 DEF MachineOK
    <2>4. api_queue \in Seq(Ev) /\ m_apiResultList \in Seq(Res) /\ evt_queue \in Seq(Events)
      BY <2>2
    <2>5. QED BY <2>2, <2>3, <2>4 DEF TypeOK, MachineOK, Ev, Res, Cmd
  <1>2. ASSUME Init PROVE SyncInv
    BY <1>2 DEF Init, SyncInv, OfApp, OneOwn, NoneOwn
  <1>3. QED BY <1>1, <1>2 DEF CallInv

LEMMA NextCalls == CallInv /\ [Next]_vars => CallInv'
  <1> SUFFICES ASSUME CallInv, [Next]_vars PROVE CallInv'
    OBVIOUS
  <1>1. CASE Application
    <2>1. \E e \in Calls, arg \in BOOLEAN : call(e, arg)
      BY <1>1 DEF Application, Calls, set_preview_window, set_parameters, take_picture,
         start_preview, stop_preview, start_recording, stop_recording, cancel_picture
    <2>2. QED BY <2>1, AnyMade
  <1>2. CASE waitAPIResult
    BY <1>2, CallGoesOn
  <1>3. CASE SmApi
    BY <1>3, CallHandled
  <1>4. CASE SmEvt
    BY <1>4, EventHandled
  <1>5. CASE \/ DeferredWork \/ takeLiveSnapshot_internal \/ cancelLiveSnapshot_internal
             \/ cbNotifyRoutine \/ JpegDone \/ PrepDone
    BY <1>5, ThreadsGoOn
  <1>6. CASE UNCHANGED vars
    BY <1>6 DEF vars, params, picture, CallInv, TypeOK, SyncInv, OfApp
  <1>7. QED BY <1>1, <1>2, <1>3, <1>4, <1>5, <1>6 DEF Next

LEMMA CallsHold == Spec => []CallInv
  <1>1. QED BY InitCalls, NextCalls, PTL DEF Spec

(* Every variable keeps its type.                                           *)
THEOREM TypeCorrect == Spec => []TypeOK
  <1>1. CallInv => TypeOK
    BY DEF CallInv
  <1>2. QED BY <1>1, CallsHold, PTL

(* When a call has returned no event and no result of it is left in the     *)
(* state machine, and while it waits there is none of another call, however *)
(* calls that fail are mixed with live snapshots that cancel themselves.    *)
THEOREM CallsReturnClean == Spec => []CallsAreSync
  <1>1. ASSUME CallInv PROVE CallsAreSync
    <2>1. /\ api_queue \in Seq(Ev) /\ m_apiResultList \in Seq(Res)
          /\ OfApp(api_queue) /\ OfApp(m_apiResultList)
      BY <1>1, CallFacts DEF CallInv, SyncInv
    <2>2. \A r \in ToSet(api_queue) \cup ToSet(m_apiResultList) :
             \/ \E i \in DOMAIN api_queue : r = api_queue[i]
             \/ \E i \in DOMAIN m_apiResultList : r = m_apiResultList[i]
      BY DEF ToSet
    <2>3. QED BY <2>1, <2>2 DEF CallsAreSync, OfApp
  <1>2. QED BY <1>1, CallsHold, PTL

-----------------------------------------------------------------------------
(* What streams, handler by handler.                                        *)
LEMMA SamePicture ==
    ASSUME PictureInv, UNCHANGED <<m_state, str, mode, live>>
    PROVE  PictureInv'
  BY DEF PictureInv, StreamsMatch, FreshIn, Grounded, captureOf

LEMMA OnlyKeeps ==
    ASSUME PictureInv, NEW e, NEW ok, only(e, ok)
    PROVE  PictureInv'
  BY SamePicture DEF only, params, picture

LEMMA SetParamsKeeps ==
    ASSUME MachineOK, PictureInv, NEW e, NEW arg, NEW recording, SetParams(e, arg, recording)
    PROVE  PictureInv'
  <1>1. CASE updateParameters(e, arg, recording)
    BY <1>1, SamePicture DEF updateParameters, picture
  <1>2. CASE commitParameterChanges(e)
    <2>1. mode' \in {mode, newMode} /\ str' = underMode(str, mode') /\ UNCHANGED <<m_state, live>>
      BY <1>2 DEF commitParameterChanges, picture
    <2>2. mode' \in Modes /\ str \in Streams /\ "zsl" \in Captures
      BY <2>1 DEF MachineOK, Captures
    <2> DEFINE t == underMode(str, mode')
    <2>3. /\ t.kind = str.kind /\ t.on = str.on /\ t.video = str.video /\ t.live = str.live
          /\ t.capture = str.capture
      BY <2>2, Captured
    <2>4. \A d : FreshIn(t, d) <=> FreshIn(str, d) /\ d = captureOf(mode')
      BY <2>2, Captured
    <2>5. str' = t /\ captureOf(mode)' = captureOf(mode')
      BY <2>1 DEF captureOf
    <2> HIDE DEF t
    <2>6. StreamsMatch'
      BY <2>1, <2>3, <2>4, <2>5 DEF PictureInv, StreamsMatch, FreshIn
    <2>7. Grounded(str)'
      BY <2>3, <2>5 DEF PictureInv, Grounded
    <2>8. \A c \in Captures : FreshIn(str', c) => c = captureOf(mode')
      BY <2>4, <2>5
    <2>9. QED BY <2>1, <2>3, <2>5, <2>6, <2>7, <2>8 DEF PictureInv, FreshIn
  <1>3. QED BY <1>1, <1>2 DEF SetParams

(* Nothing is captured or recorded, and what a live snapshot streams is     *)
(* being stopped.                                                           *)
Calm(s, l) ==
    /\ s \in Streams /\ ~s.video
    /\ \A c : ~FreshIn(s, c)
    /\ s.live => l = "cancel"
    /\ l # "take"
    /\ Grounded(s)

LEMMA CalmKeeps ==
    ASSUME m_state' \in States \ {"RECORDING", "VIDEO_PIC_TAKING"}, Calm(str', live'),
           m_state' \in {"STOPPED", "PIC_TAKING"} => str'.kind = "none",
           m_state' = "READY" => ~str'.on
    PROVE  PictureInv'
  BY DEF Calm, PictureInv, StreamsMatch, FreshIn, Grounded

(* It is so in every state without a picture or a video, and in the others  *)
(* as long as nothing of it is captured under the mode that is current.     *)
LEMMA WhenCalm ==
    ASSUME MachineOK, PictureInv, m_state \notin {"RECORDING", "VIDEO_PIC_TAKING"},
           m_state = "PIC_TAKING" => ~FreshIn(str, "photo"),
           m_state = "PREVIEW_PIC_TAKING" => str.kind = "none" \/ ~mode.zsl
    PROVE  Calm(str, live)
  <1>1. str \in Streams /\ ~str.video /\ live # "take" /\ (str.live => live = "cancel")
        /\ Grounded(str)
    BY DEF PictureInv, StreamsMatch, MachineOK
  <1>2. ASSUME NEW c, FreshIn(str, c) PROVE FALSE
    <2>1. c \in Captures
      BY <1>1, <1>2 DEF FreshIn, Streams
    <2>2. CASE c = "photo"
      BY <1>2, <2>2 DEF PictureInv, StreamsMatch, FreshIn
    <2>3. CASE c = "zsl"
      <3>1. m_state = "PREVIEW_PIC_TAKING" /\ c = captureOf(mode)
        BY <1>2, <2>1, <2>3 DEF PictureInv, StreamsMatch, FreshIn
      <3>2. mode.zsl /\ str.kind = "none"
        BY <2>3, <3>1 DEF captureOf
      <3>3. QED BY <1>1, <1>2, <2>3, <3>2 DEF Grounded, FreshIn
    <2>4. QED BY <2>1, <2>2, <2>3 DEF Captures
  <1>3. QED BY <1>1, <1>2 DEF Calm

(* Operations on channels where nothing is captured.                        *)
LEMMA CalmPrepared ==
    ASSUME NEW s, NEW l, Calm(s, l), NEW m \in Modes, NEW p \in preparePreview(s, m)
    PROVE  /\ Calm(p.str, l) /\ p.str.on = s.on /\ p.ok \in BOOLEAN
           /\ ~p.ok => p.str = s
  <1>1. s \in Streams
    BY DEF Calm
  <1>2. /\ p.ok \in BOOLEAN /\ p.str \in Streams
        /\ p.str.on = s.on /\ p.str.video = s.video
        /\ p.str.capture = s.capture /\ p.str.switched = s.switched /\ p.str.live = s.live
        /\ ~p.ok => p.str = s
        /\ p.ok => p.str.kind # "none"
    BY <1>1, Prepared
  <1>3. QED BY <1>2 DEF Calm, FreshIn, Grounded

LEMMA CalmStarted ==
    ASSUME NEW s, NEW l, Calm(s, l), NEW m \in Modes, NEW p \in startPreview(s, m)
    PROVE  Calm(p.str, l) /\ p.ok \in BOOLEAN
  <1>1. s \in Streams
    BY DEF Calm
  <1>2. /\ p.ok \in BOOLEAN /\ p.str \in Streams
        /\ p.str.on = p.ok /\ p.str.video = s.video /\ p.str.kind = s.kind
        /\ p.str.capture = s.capture /\ p.str.switched = s.switched /\ p.str.live = s.live
        /\ p.ok => s.kind # "none"
    BY <1>1, Started
  <1>3. QED BY <1>2 DEF Calm, FreshIn, Grounded

LEMMA CalmUnprepared ==
    ASSUME NEW s \in Streams, NEW l, l # "take", \A c : FreshIn(s, c) => c = "zsl"
    PROVE  /\ Calm(unpreparePreview(s), l) /\ unpreparePreview(s).kind = "none"
           /\ Calm(stopPreview(s), l) /\ stopPreview(s).kind = "none"
           /\ unpreparePreview(s).on = FALSE /\ stopPreview(s).on = FALSE
  <1> DEFINE t == unpreparePreview(s)
  <1>1. /\ t \in Streams /\ t.kind = "none" /\ t.on = FALSE
        /\ t.video = FALSE /\ t.live = FALSE /\ "zsl" \notin t.capture
        /\ \A c : FreshIn(t, c) <=> FreshIn(s, c) /\ c # "zsl"
        /\ stopPreview(s) = t
    BY Unprepared
  <1> HIDE DEF t
  <1>2. Calm(t, l)
    BY <1>1 DEF Calm, Grounded
  <1>3. QED BY <1>1, <1>2 DEF t

LEMMA CalmRun ==
    ASSUME NEW s, NEW l, Calm(s, l), s.kind = "none", NEW m \in Modes,
           NEW p \in runPreview(s, m, TRUE)
    PROVE  Calm(p.str, l) /\ p.ok \in BOOLEAN /\ (~p.ok => p.str.kind = "none")
  <1>1. s \in Streams /\ TRUE \in BOOLEAN /\ ~s.on
    BY DEF Calm, Grounded
  <1>2. /\ p.ok \in BOOLEAN /\ p.str \in Streams
        /\ p.str.video => s.video
        /\ p.str.live => s.live
        /\ \A c : FreshIn(p.str, c) => FreshIn(s, c)
        /\ Grounded(s) => Grounded(p.str)
        /\ ~p.ok /\ TRUE /\ s.kind = "none" /\ ~s.on => p.str.kind = "none" /\ ~p.str.on
    BY <1>1, Ran
  <1>3. QED BY <1>1, <1>2 DEF Calm

LEMMA CalmSwitched ==
    ASSUME mode \in Modes, newMode \in Modes, NEW s, NEW l, Calm(s, l),
           NEW hint \in BOOLEAN, NEW undo \in BOOLEAN, NEW h \in switchHint(s, hint, undo)
    PROVE  Calm(h.str, l) /\ h.mode \in Modes
  <1>1. s \in Streams
    BY DEF Calm
  <1>2. /\ h.str \in Streams /\ h.mode \in Modes
        /\ ~h.str.video /\ ~h.str.live /\ Grounded(h.str)
        /\ \A c : FreshIn(h.str, c) => FreshIn(s, c) /\ c # "zsl"
    BY <1>1, Switched
  <1>3. QED BY <1>2 DEF Calm

LEMMA CalmStopped ==
    ASSUME NEW s \in Streams, NEW l, l # "take", \A c : ~FreshIn(s, c), Grounded(s),
           s.live => l = "cancel"
    PROVE  /\ Calm(stopRecording(s), l)
           /\ Calm(stopPreview(stopRecording(s)), l)
           /\ stopPreview(stopRecording(s)).kind = "none"
  <1> DEFINE t == stopRecording(s)
  <1>1. /\ t \in Streams /\ t.video = FALSE /\ t.kind = s.kind /\ t.on = s.on
        /\ t.capture = s.capture /\ t.live = s.live /\ t.switched = s.switched
    BY StopRecording
  <1> HIDE DEF t
  <1>2. Calm(t, l)
    BY <1>1 DEF Calm, FreshIn, Grounded
  <1>3. Calm(stopPreview(t), l) /\ stopPreview(t).kind = "none"
    BY <1>1, <1>2, CalmUnprepared DEF Calm
  <1>4. QED BY <1>2, <1>3 DEF t

LEMMA StoppedKeeps ==
    ASSUME MachineOK, PictureInv, m_state = "STOPPED", NEW e, NEW arg, PreviewStopped(e, arg)
    PROVE  PictureInv'
  <1>1. Calm(str, live) /\ str.kind = "none" /\ str.on = FALSE /\ mode \in Modes
    BY WhenCalm DEF PictureInv, StreamsMatch, MachineOK, Streams
  <1>2. CASE SetParams(e, arg, FALSE)
    BY <1>2, SetParamsKeeps
  <1>3. CASE only(e, TRUE) \/ only(e, FALSE)
    BY <1>3, OnlyKeeps
  <1>4. CASE restarted(e, TRUE, m_state, str)
    BY <1>4, SamePicture DEF restarted, moveTo, picture
  <1>5. CASE reply(e, TRUE) /\ UNCHANGED <<m_state, str, params, picture>>
    BY <1>5, SamePicture DEF params, picture
  <1>6. ASSUME NEW p \in preparePreview(str, mode),
               change(e, p.ok, IF p.ok THEN "READY" ELSE m_state, p.str)
        PROVE  PictureInv'
    <2>1. Calm(p.str, live) /\ p.str.on = FALSE /\ (~p.ok => p.str.kind = "none")
      BY <1>1, CalmPrepared
    <2>2. m_state' = (IF p.ok THEN "READY" ELSE "STOPPED") /\ str' = p.str /\ live' = live
      BY <1>6 DEF change, moveTo, picture
    <2>3. QED BY <2>1, <2>2, CalmKeeps DEF States
  <1>7. ASSUME NEW p \in runPreview(str, mode, TRUE),
               change(e, p.ok, IF p.ok THEN "PREVIEWING" ELSE m_state, p.str)
        PROVE  PictureInv'
    <2>1. Calm(p.str, live) /\ (~p.ok => p.str.kind = "none")
      BY <1>1, CalmRun
    <2>2. m_state' = (IF p.ok THEN "PREVIEWING" ELSE "STOPPED") /\ str' = p.str /\ live' = live
      BY <1>7 DEF change, moveTo, picture
    <2>3. QED BY <2>1, <2>2, CalmKeeps DEF States
  <1>8. QED BY <1>2, <1>3, <1>4, <1>5, <1>6, <1>7 DEF PreviewStopped

LEMMA StartReadyKeeps ==
    ASSUME MachineOK, PictureInv, m_state = "READY", NEW e, startReady(e),
           UNCHANGED <<params, picture>>
    PROVE  PictureInv'
  <1>1. PICK p \in startPreview(str, mode) :
           \/ moveTo("PREVIEWING", p.str)
           \/ moveTo("STOPPED", unpreparePreview(p.str))
    BY DEF startReady
  <1>2. Calm(str, live) /\ live' = live /\ mode \in Modes
    BY WhenCalm DEF picture, MachineOK
  <1>3. Calm(p.str, live)
    BY <1>2, CalmStarted
  <1>4. CASE moveTo("PREVIEWING", p.str)
    BY <1>2, <1>3, <1>4, CalmKeeps DEF moveTo, States
  <1>5. CASE moveTo("STOPPED", unpreparePreview(p.str))
    <2>1. str' = unpreparePreview(p.str) /\ m_state' = "STOPPED"
      BY <1>5 DEF moveTo
    <2>2. Calm(unpreparePreview(p.str), live) /\ unpreparePreview(p.str).kind = "none"
      BY <1>3, CalmUnprepared DEF Calm
    <2>3. QED BY <1>2, <2>1, <2>2, CalmKeeps DEF States
  <1>6. QED BY <1>1, <1>4, <1>5

LEMMA ReadyKeeps ==
    ASSUME MachineOK, PictureInv, m_state = "READY", NEW e, NEW arg, PreviewReady(e, arg),
           e = "SET_PARAMS_RESTART" => str.kind = "none"
    PROVE  PictureInv'
  <1>1. Calm(str, live) /\ str.on = FALSE /\ mode \in Modes
    BY WhenCalm DEF PictureInv, StreamsMatch, MachineOK, Streams
  <1>2. CASE SetParams(e, arg, FALSE)
    BY <1>2, SetParamsKeeps
  <1>3. CASE only(e, TRUE) \/ only(e, FALSE)
    BY <1>3, OnlyKeeps
  <1>4. CASE /\ startReady(e) \/ (reply(e, TRUE) /\ UNCHANGED <<m_state, str>>)
             /\ UNCHANGED <<params, picture>>
    BY <1>4, StartReadyKeeps, SamePicture DEF params, picture
  <1>5. CASE change(e, TRUE, "STOPPED", unpreparePreview(str))
             \/ change(e, TRUE, m_state, unpreparePreview(str))
    <2>1. /\ m_state' \in {"STOPPED", "READY"} /\ str' = unpreparePreview(str) /\ live' = live
      BY <1>5 DEF change, moveTo, picture
    <2>2. /\ Calm(unpreparePreview(str), live) /\ unpreparePreview(str).kind = "none"
          /\ unpreparePreview(str).on = FALSE
      BY <1>1, CalmUnprepared DEF Calm
    <2>3. QED BY <2>1, <2>2, CalmKeeps DEF States
  <1>6. ASSUME NEW p \in preparePreview(str, mode), str.kind = "none",
               restarted(e, p.ok, IF p.ok THEN m_state ELSE "STOPPED", p.str)
        PROVE  PictureInv'
    <2>1. Calm(p.str, live) /\ p.str.on = FALSE /\ (~p.ok => p.str.kind = "none")
      BY <1>1, <1>6, CalmPrepared
    <2>2. m_state' = (IF p.ok THEN "READY" ELSE "STOPPED") /\ str' = p.str /\ live' = live
      BY <1>6 DEF restarted, moveTo, picture
    <2>3. QED BY <2>1, <2>2, CalmKeeps DEF States
  <1>7. QED BY <1>2, <1>3, <1>4, <1>5, <1>6 DEF PreviewReady

LEMMA RestartKeeps ==
    ASSUME MachineOK, Calm(str, live), m_state \in {"PREVIEWING", "PREVIEW_PIC_TAKING"}, NEW e,
           NEW unprepared \in {m_state, "PIC_TAKING"}, NEW unstarted \in {"STOPPED", "PIC_TAKING"},
           unprepared = "PIC_TAKING" => str.kind = "none",
           restartPreview(e, unprepared, unstarted)
    PROVE  PictureInv'
  <1>1. PICK p \in preparePreview(str, mode) :
           \/ ~p.ok /\ restarted(e, FALSE, unprepared, p.str)
           \/ /\ p.ok
              /\ \E q \in startPreview(p.str, mode) :
                     \/ restarted(e, TRUE, m_state, q.str)
                     \/ restarted(e, FALSE, unstarted, unpreparePreview(q.str))
    BY DEF restartPreview
  <1>2. Calm(p.str, live) /\ (~p.ok => p.str = str) /\ mode \in Modes
    BY CalmPrepared DEF MachineOK
  <1>3. CASE ~p.ok /\ restarted(e, FALSE, unprepared, p.str)
    <2>1. m_state' = unprepared /\ str' = str /\ live' = live
      BY <1>2, <1>3 DEF restarted, moveTo, picture
    <2>2. QED BY <2>1, CalmKeeps DEF States
  <1>4. ASSUME NEW q \in startPreview(p.str, mode),
               \/ restarted(e, TRUE, m_state, q.str)
               \/ restarted(e, FALSE, unstarted, unpreparePreview(q.str))
        PROVE  PictureInv'
    <2>1. Calm(q.str, live)
      BY <1>2, CalmStarted
    <2>2. CASE restarted(e, TRUE, m_state, q.str)
      <3>1. m_state' = m_state /\ str' = q.str /\ live' = live
        BY <2>2 DEF restarted, moveTo, picture
      <3>2. QED BY <2>1, <3>1, CalmKeeps DEF States
    <2>3. CASE restarted(e, FALSE, unstarted, unpreparePreview(q.str))
      <3>1. m_state' = unstarted /\ str' = unpreparePreview(q.str) /\ live' = live
        BY <2>3 DEF restarted, moveTo, picture
      <3>2. Calm(unpreparePreview(q.str), live) /\ unpreparePreview(q.str).kind = "none"
        BY <2>1, CalmUnprepared DEF Calm
      <3>3. QED BY <3>1, <3>2, CalmKeeps DEF States
    <2>4. QED BY <1>4, <2>2, <2>3
  <1>5. QED BY <1>1, <1>3, <1>4

LEMMA SwitchKeeps ==
    ASSUME MachineOK, Calm(str, live), m_state \in {"PREVIEWING", "PREVIEW_PIC_TAKING"},
           NEW hint \in BOOLEAN, NEW undo \in BOOLEAN, NEW h \in switchHint(str, hint, undo),
           moveTo(m_state, h.str), UNCHANGED picture
    PROVE  PictureInv'
  <1>1. Calm(h.str, live)
    BY CalmSwitched DEF MachineOK
  <1>2. m_state' = m_state /\ str' = h.str /\ live' = live
    BY DEF moveTo, picture
  <1>3. QED BY <1>1, <1>2, CalmKeeps DEF States

LEMMA PreStartKeeps ==
    ASSUME MachineOK, PictureInv, Calm(str, live), m_state \in {"PREVIEWING", "PREVIEW_PIC_TAKING"},
           NEW e, preStartRecording(e)
    PROVE  PictureInv'
  <1>1. CASE only(e, TRUE)
    BY <1>1, OnlyKeeps
  <1>2. ASSUME NEW h \in switchHint(str, TRUE, FALSE), moveTo(m_state, h.str), UNCHANGED picture
        PROVE  PictureInv'
    BY <1>2, SwitchKeeps
  <1>3. QED BY <1>1, <1>2 DEF preStartRecording

LEMMA StartRecordingKeeps ==
    ASSUME MachineOK, Calm(str, live), m_state \in {"PREVIEWING", "PREVIEW_PIC_TAKING"},
           NEW e, NEW state \in {"RECORDING", "VIDEO_PIC_TAKING"}, startRecording(e, state)
    PROVE  PictureInv'
  <1>1. PICK r \in IF str.kind = "video" THEN Outcomes("startRecording") ELSE {FALSE} :
           change(e, r, IF r THEN state ELSE m_state, [str EXCEPT !.video = r])
    BY DEF startRecording
  <1>2. r \in BOOLEAN
    BY <1>1 DEF Outcomes
  <1>3. /\ str' = [str EXCEPT !.video = r]
        /\ live' = live /\ m_state' = IF r THEN state ELSE m_state
    BY <1>1 DEF change, moveTo, picture
  <1>4. /\ str' \in Streams /\ str'.video = r /\ str'.live = str.live /\ str'.capture = str.capture
        /\ str'.switched = str.switched /\ str'.kind = str.kind /\ str'.on = str.on
    BY <1>2, <1>3 DEF Calm, Streams
  <1>5. CASE r
    <2>1. /\ \A c : ~FreshIn(str', c)
          /\ Grounded(str') /\ str'.video /\ m_state' = state /\ live' # "take"
          /\ str'.live => live' = "cancel"
      BY <1>3, <1>4, <1>5 DEF Calm, FreshIn, Grounded
    <2>2. QED BY <2>1 DEF PictureInv, StreamsMatch, FreshIn, Grounded
  <1>6. CASE ~r
    <2>1. Calm(str', live') /\ m_state' = m_state
      BY <1>2, <1>3, <1>4, <1>6 DEF Calm, FreshIn, Grounded
    <2>2. QED BY <2>1, CalmKeeps DEF States
  <1>7. QED BY <1>5, <1>6

LEMMA TakeKeeps ==
    ASSUME NEW s, Calm(s, live), NEW m \in Modes, mode' = m, NEW e, takePicture(e, s, m)
    PROVE  PictureInv'
  <1>1. live' = live /\ s \in Streams /\ captureOf(mode)' = captureOf(m)
        /\ "zsl" \in Captures /\ "photo" \in Captures
    BY DEF takePicture, begun, notBegun, Calm, captureOf, Captures
  <1>2. CASE /\ m.zsl /\ s.kind = "zsl"
             /\ moveTo("PREVIEW_PIC_TAKING", capturing(s, "zsl"))
    <2> DEFINE t == capturing(s, "zsl")
    <2>1. t.kind = s.kind /\ t.on = s.on /\ t.video = s.video /\ t.live = s.live
      BY <1>1, Captured
    <2>2. \A d : FreshIn(t, d) <=> FreshIn(s, d) \/ d = "zsl"
      BY <1>1, Captured
    <2>3. str' = t /\ m_state' = "PREVIEW_PIC_TAKING"
      BY <1>2 DEF moveTo
    <2> HIDE DEF t
    <2>4. captureOf(m) = "zsl"
      BY <1>2 DEF captureOf
    <2>5. \A d : FreshIn(t, d) <=> d = "zsl"
      BY <2>2 DEF Calm
    <2>6. StreamsMatch'
      BY <1>1, <2>1, <2>3, <2>5 DEF Calm, StreamsMatch, FreshIn
    <2>7. QED BY <1>1, <1>2, <2>1, <2>3, <2>4, <2>5, <2>6 DEF Calm, PictureInv, Grounded
  <1>3. CASE moveTo("PREVIEWING", s)
    BY <1>1, <1>3, CalmKeeps DEF moveTo, States
  <1>4. CASE /\ ~m.zsl
             /\ moveTo("PIC_TAKING", capturing(stopPreview(s), "photo"))
    <2> DEFINE u == stopPreview(s)
               t == capturing(u, "photo")
    <2>1. /\ u \in Streams /\ u.kind = "none" /\ u.on = FALSE /\ u.video = FALSE
          /\ u.live = FALSE /\ "zsl" \notin u.capture
          /\ \A c : ~FreshIn(u, c)
      <3>1. stopPreview(s) = unpreparePreview(s)
        BY DEF stopPreview
      <3>2. \A c : FreshIn(unpreparePreview(s), c) => FreshIn(s, c)
        BY <1>1, Unprepared
      <3>3. \A c : ~FreshIn(u, c)
        BY <3>1, <3>2 DEF Calm
      <3>4. QED BY <1>1, <3>1, <3>3, Unprepared
    <2> HIDE DEF u
    <2>2. t.kind = u.kind /\ t.on = u.on /\ t.video = u.video /\ t.live = u.live
      BY <1>1, <2>1, Captured
    <2>3. /\ \A d : FreshIn(t, d) <=> FreshIn(u, d) \/ d = "photo"
          /\ \A d : d \in t.capture <=> d \in u.capture \/ d = "photo"
      BY <1>1, <2>1, Captured
    <2>4. str' = t /\ m_state' = "PIC_TAKING"
      BY <1>4 DEF moveTo, u
    <2> HIDE DEF t
    <2>5. captureOf(m) = "photo"
      BY <1>4 DEF captureOf
    <2>6. \A d : FreshIn(t, d) <=> d = "photo"
      BY <2>1, <2>3
    <2>7. StreamsMatch'
      BY <1>1, <2>1, <2>2, <2>4, <2>6 DEF StreamsMatch, FreshIn
    <2>8. QED BY <1>1, <2>1, <2>2, <2>3, <2>4, <2>5, <2>6, <2>7 DEF Calm, PictureInv, Grounded
  <1>5. ASSUME NEW t \in {s, notCapturing(s, "photo")},
               NEW p \in runPreview(stopPreview(t), m, TRUE),
               moveTo(IF p.ok THEN "PREVIEWING" ELSE "STOPPED", p.str)
        PROVE  PictureInv'
    <2>1. t \in Streams /\ \A c : ~FreshIn(t, c)
      <3>1. CASE t = s
        BY <3>1 DEF Calm
      <3>2. CASE t = notCapturing(s, "photo")
        <4>1. /\ notCapturing(s, "photo") \in Streams
              /\ \A d : FreshIn(notCapturing(s, "photo"), d) <=> FreshIn(s, d) /\ d # "photo"
          BY <1>1, Captured
        <4>2. QED BY <3>2, <4>1 DEF Calm
      <3>3. QED BY <3>1, <3>2
    <2>2. Calm(stopPreview(t), live) /\ stopPreview(t).kind = "none"
      BY <2>1, CalmUnprepared DEF Calm
    <2>3. Calm(p.str, live) /\ (~p.ok => p.str.kind = "none")
      BY <2>2, CalmRun
    <2>4. str' = p.str /\ m_state' = IF p.ok THEN "PREVIEWING" ELSE "STOPPED"
      BY <1>5 DEF moveTo
    <2>5. QED BY <1>1, <2>3, <2>4, CalmKeeps DEF States
  <1>6. QED BY <1>2, <1>3, <1>4, <1>5 DEF takePicture

LEMMA PreviewingKeeps ==
    ASSUME MachineOK, PictureInv, m_state = "PREVIEWING", NEW e, NEW arg, Previewing(e, arg)
    PROVE  PictureInv'
  <1>1. Calm(str, live) /\ str \in Streams /\ mode \in Modes /\ newMode \in Modes
    BY WhenCalm DEF MachineOK
  <1>2. CASE SetParams(e, arg, FALSE)
    BY <1>2, SetParamsKeeps
  <1>3. CASE only(e, TRUE) \/ only(e, FALSE)
    BY <1>3, OnlyKeeps
  <1>4. CASE change(e, TRUE, "STOPPED", stopPreview(str))
             \/ change(e, TRUE, m_state, stopPreview(str))
    <2>1. m_state' \in {"STOPPED", "PREVIEWING"} /\ str' = stopPreview(str) /\ live' = live
      BY <1>4 DEF change, moveTo, picture
    <2>2. Calm(stopPreview(str), live) /\ stopPreview(str).kind = "none"
      BY <1>1, CalmUnprepared DEF Calm
    <2>3. QED BY <2>1, <2>2, CalmKeeps DEF States
  <1>5. CASE restartPreview(e, m_state, "STOPPED")
    BY <1>1, <1>5, RestartKeeps
  <1>6. ASSUME NEW h \in switchHint(str, FALSE, TRUE), moveTo(m_state, h.str), UNCHANGED picture
        PROVE  PictureInv'
    BY <1>1, <1>6, SwitchKeeps
  <1>7. CASE preStartRecording(e)
    BY <1>1, <1>7, PreStartKeeps
  <1>8. CASE startRecording(e, "RECORDING")
    BY <1>1, <1>8, StartRecordingKeeps
  <1>9. CASE m_state' = "PREPARE_SNAPSHOT" /\ UNCHANGED <<str, params, live>>
    BY <1>1, <1>9, CalmKeeps DEF States
  <1>10. CASE e = "PRE_TAKE_PICTURE" /\ ~SetParams(e, arg, FALSE) /\ ~preStartRecording(e)
    BY <1>3, <1>6, <1>10 DEF Previewing
  <1>11. CASE e = "TAKE_PICTURE" /\ ~SetParams(e, arg, FALSE) /\ ~preStartRecording(e)
    <2>1. \/ \E h \in switchHint(str, FALSE, TRUE) : takePicture(e, h.str, h.mode) /\ mode' = h.mode
          \/ takePicture(e, str, mode) /\ mode' = mode
      BY <1>11 DEF Previewing
    <2>2. ASSUME NEW h \in switchHint(str, FALSE, TRUE), takePicture(e, h.str, h.mode),
                 mode' = h.mode
          PROVE  PictureInv'
      <3>1. Calm(h.str, live) /\ h.mode \in Modes
        BY <1>1, CalmSwitched
      <3>2. QED BY <2>2, <3>1, TakeKeeps
    <2>3. QED BY <1>1, <2>1, <2>2, TakeKeeps
  <1>12. CASE e = "PREPARE_SNAPSHOT" /\ ~SetParams(e, arg, FALSE) /\ ~preStartRecording(e)
    BY <1>3, <1>9, <1>12 DEF Previewing
  <1>13. QED BY <1>2, <1>3, <1>4, <1>5, <1>7, <1>8, <1>10, <1>11, <1>12 DEF Previewing

(* What is so while a video is recorded.                                    *)
LEMMA Rolling ==
    ASSUME MachineOK, PictureInv, m_state \in {"RECORDING", "VIDEO_PIC_TAKING"}
    PROVE  /\ str \in Streams /\ str.video = TRUE /\ Grounded(str)
           /\ \A c : ~FreshIn(str, c)
           /\ m_state = "RECORDING" => live # "take" /\ (str.live => live = "cancel")
  <1>1. /\ str \in Streams /\ str.video = TRUE /\ Grounded(str)
        /\ m_state = "RECORDING" => live # "take" /\ (str.live => live = "cancel")
    BY DEF PictureInv, StreamsMatch, MachineOK, Streams
  <1>2. ASSUME NEW c, FreshIn(str, c) PROVE FALSE
    <2>1. c \in Captures
      BY <1>1, <1>2 DEF FreshIn, Streams
    <2>2. QED BY <1>2, <2>1 DEF PictureInv, StreamsMatch, FreshIn, Captures
  <1>3. QED BY <1>1, <1>2

(* The state of a video changes, with its streams or without.               *)
LEMMA RollsOn ==
    ASSUME m_state' \in {"RECORDING", "VIDEO_PIC_TAKING"}, str'.video, Grounded(str'),
           \A c : ~FreshIn(str', c),
           live' = "take" => m_state' = "VIDEO_PIC_TAKING",
           str'.live => live' = "cancel" \/ m_state' = "VIDEO_PIC_TAKING"
    PROVE  PictureInv'
  BY DEF PictureInv, StreamsMatch, FreshIn, Grounded

LEMMA RecordingKeeps ==
    ASSUME MachineOK, PictureInv, m_state = "RECORDING", NEW e, NEW arg, Recording(e, arg)
    PROVE  PictureInv'
  <1>1. /\ str \in Streams /\ str.video = TRUE /\ Grounded(str)
        /\ \A c : ~FreshIn(str, c)
        /\ live # "take" /\ (str.live => live = "cancel")
    BY Rolling
  <1>2. CASE SetParams(e, arg, TRUE)
    BY <1>2, SetParamsKeeps
  <1>3. CASE only(e, TRUE) \/ only(e, FALSE)
    BY <1>3, OnlyKeeps
  <1>4. CASE takeLiveSnapshot /\ moveTo("VIDEO_PIC_TAKING", str)
    <2>1. m_state' = "VIDEO_PIC_TAKING" /\ str' = str
      BY <1>4 DEF moveTo
    <2>2. QED BY <1>1, <2>1, RollsOn
  <1>5. /\ Calm(stopRecording(str), live)
        /\ Calm(stopPreview(stopRecording(str)), live)
        /\ stopPreview(stopRecording(str)).kind = "none"
    BY <1>1, CalmStopped
  <1>6. CASE change(e, TRUE, "PREVIEWING", stopRecording(str))
    BY <1>5, <1>6, CalmKeeps DEF change, moveTo, picture, States
  <1>7. CASE change(e, TRUE, "STOPPED", stopPreview(stopRecording(str)))
    <2>1. m_state' = "STOPPED" /\ str' = stopPreview(stopRecording(str)) /\ live' = live
      BY <1>7 DEF change, moveTo, picture
    <2>2. QED BY <1>5, <2>1, CalmKeeps DEF States
  <1>8. QED BY <1>2, <1>3, <1>4, <1>6, <1>7 DEF Recording

LEMMA VideoPicTakingKeeps ==
    ASSUME MachineOK, PictureInv, m_state = "VIDEO_PIC_TAKING", NEW e, NEW arg,
           VideoPicTaking(e, arg)
    PROVE  PictureInv'
  <1>1. /\ str \in Streams /\ str.video = TRUE /\ Grounded(str)
        /\ \A c : ~FreshIn(str, c)
    BY Rolling
  <1>2. CASE SetParams(e, arg, TRUE)
    BY <1>2, SetParamsKeeps
  <1>3. CASE only(e, TRUE) \/ only(e, FALSE)
    BY <1>3, OnlyKeeps
  <1>4. /\ Calm(stopRecording(str), "cancel")
        /\ Calm(stopPreview(stopRecording(str)), "cancel")
        /\ stopPreview(stopRecording(str)).kind = "none"
    BY <1>1, CalmStopped
  <1>5. CASE cancelLiveSnapshot /\ moveTo("RECORDING", str)
    <2>1. m_state' = "RECORDING" /\ str' = str /\ live' = "cancel"
      BY <1>5 DEF cancelLiveSnapshot, moveTo
    <2>2. QED BY <1>1, <2>1, RollsOn
  <1>6. CASE cancelLiveSnapshot /\ moveTo("PREVIEWING", stopRecording(str))
    BY <1>4, <1>6, CalmKeeps DEF cancelLiveSnapshot, moveTo, States
  <1>7. CASE cancelLiveSnapshot /\ moveTo("STOPPED", stopPreview(stopRecording(str)))
    <2>1. m_state' = "STOPPED" /\ str' = stopPreview(stopRecording(str)) /\ live' = "cancel"
      BY <1>7 DEF cancelLiveSnapshot, moveTo
    <2>2. QED BY <1>4, <2>1, CalmKeeps DEF States
  <1>8. QED BY <1>2, <1>3, <1>5, <1>6, <1>7 DEF VideoPicTaking

(* A cancelled picture leaves nothing captured under the current mode.      *)
LEMMA PicCancelled ==
    ASSUME MachineOK, PictureInv, m_state = "PIC_TAKING", cancelPicture,
           moveTo("STOPPED", cancelled(str))
    PROVE  PictureInv'
  <1> DEFINE t == cancelled(str)
  <1>1. /\ str \in Streams /\ str.kind = "none" /\ str.on = FALSE /\ str.video = FALSE
        /\ (str.live => live = "cancel")
        /\ live # "take" /\ mode \in Modes /\ Grounded(str)
        /\ \A c \in Captures : FreshIn(str, c) => c = captureOf(mode)
    BY DEF PictureInv, StreamsMatch, MachineOK, Streams
  <1>2. m_state' = "STOPPED" /\ str' = t /\ live' = live
    BY DEF cancelPicture, moveTo
  <1>3. /\ t \in Streams /\ t.kind = str.kind /\ t.on = str.on /\ t.video = str.video
        /\ t.live = str.live
        /\ \A c : c \in t.capture => c \in str.capture
        /\ \A c : FreshIn(t, c) <=> FreshIn(str, c) /\ c # captureOf(mode)
    BY <1>1, Cancelled
  <1> HIDE DEF t
  <1>4. ASSUME NEW c PROVE ~FreshIn(t, c)
    <2>1. FreshIn(str, c) => c \in Captures
      BY <1>1 DEF FreshIn, Streams
    <2>2. QED BY <1>1, <1>3, <2>1
  <1>5. Calm(t, live)
    BY <1>1, <1>3, <1>4 DEF Calm, Grounded
  <1>6. QED BY <1>1, <1>2, <1>3, <1>5, CalmKeeps DEF States

LEMMA PicTakingKeeps ==
    ASSUME MachineOK, PictureInv, m_state = "PIC_TAKING", NEW e, NEW arg, PicTaking(e, arg)
    PROVE  PictureInv'
  <1>1. CASE SetParams(e, arg, FALSE)
    BY <1>1, SetParamsKeeps
  <1>2. CASE only(e, TRUE) \/ only(e, FALSE)
    BY <1>2, OnlyKeeps
  <1>3. CASE restarted(e, TRUE, m_state, str)
    BY <1>3, SamePicture DEF restarted, moveTo, picture
  <1>4. CASE cancelPicture /\ moveTo("STOPPED", cancelled(str))
    BY <1>4, PicCancelled
  <1>5. QED BY <1>1, <1>2, <1>3, <1>4 DEF PicTaking

(* The mode may have been changed since the picture was begun: then nothing *)
(* of it is captured under the current one.                                 *)
LEMMA PreviewPicEnds ==
    ASSUME MachineOK, PictureInv, m_state = "PREVIEW_PIC_TAKING", endPicture,
           \/ moveTo("PREVIEWING", left(str))
           \/ moveTo("STOPPED", unpreparePreview(left(str)))
    PROVE  PictureInv'
  <1> DEFINE t == left(str)
  <1>1. /\ str \in Streams /\ str.video = FALSE
        /\ (str.live => live = "cancel")
        /\ live # "take" /\ mode \in Modes /\ Grounded(str)
        /\ \A c \in Captures : FreshIn(str, c) => c = captureOf(mode)
    BY DEF PictureInv, StreamsMatch, MachineOK, Streams
  <1>2. Calm(t, live')
    <2>1. CASE mode.zsl
      <3>1. t = cancelled(str) /\ live' = live
        BY <2>1 DEF endPicture, cancelPicture, left
      <3>2. /\ t \in Streams /\ t.kind = str.kind /\ t.on = str.on /\ t.video = str.video
            /\ t.live = str.live
            /\ \A c : c \in t.capture => c \in str.capture
            /\ \A c : FreshIn(t, c) <=> FreshIn(str, c) /\ c # captureOf(mode)
        BY <1>1, <3>1, Cancelled
      <3> HIDE DEF t
      <3>3. ASSUME NEW c PROVE ~FreshIn(t, c)
        <4>1. FreshIn(str, c) => c \in Captures
          BY <1>1 DEF FreshIn, Streams
        <4>2. QED BY <1>1, <3>2, <4>1
      <3>4. QED BY <1>1, <3>1, <3>2, <3>3 DEF Calm, Grounded
    <2>2. CASE ~mode.zsl
      <3>1. t = str /\ live' = "cancel"
        BY <2>2 DEF endPicture, cancelLiveSnapshot, left
      <3>2. Calm(str, live)
        BY <2>2, WhenCalm
      <3>3. QED BY <3>1, <3>2 DEF Calm
    <2>3. QED BY <2>1, <2>2
  <1> HIDE DEF t
  <1>3. CASE moveTo("PREVIEWING", t)
    BY <1>2, <1>3, CalmKeeps DEF moveTo, States
  <1>4. CASE moveTo("STOPPED", unpreparePreview(t))
    <2>1. m_state' = "STOPPED" /\ str' = unpreparePreview(t)
      BY <1>4 DEF moveTo
    <2>2. Calm(unpreparePreview(t), live') /\ unpreparePreview(t).kind = "none"
      BY <1>2, CalmUnprepared DEF Calm
    <2>3. QED BY <2>1, <2>2, CalmKeeps DEF States
  <1>5. QED BY <1>3, <1>4 DEF t

LEMMA PreviewPicTakingKeeps ==
    ASSUME MachineOK, PictureInv, m_state = "PREVIEW_PIC_TAKING", NEW e, NEW arg,
           PreviewPicTaking(e, arg), e = "SET_PARAMS_RESTART" => str.kind = "none"
    PROVE  PictureInv'
  <1>1. /\ str \in Streams /\ str.video = FALSE /\ ~FreshIn(str, "photo")
        /\ live # "take" /\ mode \in Modes
    BY DEF PictureInv, StreamsMatch, FreshIn, MachineOK, Streams
  <1>2. CASE SetParams(e, arg, FALSE)
    BY <1>2, SetParamsKeeps
  <1>3. CASE only(e, FALSE)
    BY <1>3, OnlyKeeps
  <1>4. CASE change(e, TRUE, m_state, stopPreview(str))
    <2>1. m_state' = m_state /\ str' = stopPreview(str) /\ live' = live
      BY <1>4 DEF change, moveTo, picture
    <2>2. ASSUME NEW c, FreshIn(str, c) PROVE c = "zsl"
      <3>1. c \in Captures
        BY <1>1, <2>2 DEF FreshIn, Streams
      <3>2. QED BY <1>1, <2>2, <3>1 DEF Captures
    <2>3. Calm(stopPreview(str), live)
      BY <1>1, <2>2, CalmUnprepared
    <2>4. QED BY <2>1, <2>3, CalmKeeps DEF States
  <1>5. CASE /\ endPicture
             /\ \/ moveTo("PREVIEWING", left(str))
                \/ moveTo("STOPPED", unpreparePreview(left(str)))
    BY <1>5, PreviewPicEnds
  <1>6. CASE str.kind = "none" /\ restartPreview(e, "PIC_TAKING", "PIC_TAKING")
    BY <1>6, WhenCalm, RestartKeeps
  <1>7. CASE ~mode.zsl /\ preStartRecording(e)
    BY <1>7, WhenCalm, PreStartKeeps
  <1>8. CASE ~mode.zsl /\ startRecording(e, "VIDEO_PIC_TAKING")
    BY <1>8, WhenCalm, StartRecordingKeeps
  <1>9. QED BY <1>2, <1>3, <1>4, <1>5, <1>6, <1>7, <1>8 DEF PreviewPicTaking

(* The event comes when the preview is to start again only if its channels  *)
(* have been deleted.                                                       *)
LEMMA MachineKeeps ==
    ASSUME MachineOK, PictureInv, NEW e, NEW arg, stateMachine(e, arg),
           m_state \in Restarting /\ e = "SET_PARAMS_RESTART" => str.kind = "none"
    PROVE  PictureInv'
  <1>1. CASE m_state = "STOPPED"
    BY <1>1, StoppedKeeps DEF stateMachine
  <1>2. CASE m_state = "READY"
    BY <1>2, ReadyKeeps DEF stateMachine, Restarting
  <1>3. CASE m_state = "PREVIEWING"
    BY <1>3, PreviewingKeeps DEF stateMachine
  <1>4. CASE m_state = "PREPARE_SNAPSHOT"
    BY <1>4, OnlyKeeps DEF stateMachine, PrepareSnapshot
  <1>5. CASE m_state = "PIC_TAKING"
    BY <1>5, PicTakingKeeps DEF stateMachine
  <1>6. CASE m_state = "RECORDING"
    BY <1>6, RecordingKeeps DEF stateMachine
  <1>7. CASE m_state = "VIDEO_PIC_TAKING"
    BY <1>7, VideoPicTakingKeeps DEF stateMachine
  <1>8. CASE m_state = "PREVIEW_PIC_TAKING"
    BY <1>8, PreviewPicTakingKeeps DEF stateMachine, Restarting
  <1>9. QED BY <1>1, <1>2, <1>3, <1>4, <1>5, <1>6, <1>7, <1>8 DEF stateMachine

(* Events that are not of calls, and the threads.                           *)
LEMMA EventKeeps ==
    ASSUME MachineOK, PictureInv, SmEvt
    PROVE  /\ PictureInv'
           /\ m_state' \in Restarting => UNCHANGED <<m_state, str, m_apiResultList>>
  <1>1. mode' = mode /\ (SnapshotDone \/ JpegNotify \/ PrepSnapshotDone)
    BY DEF SmEvt, params
  <1>2. CASE SnapshotDone
    <2>1. CASE m_state = "PIC_TAKING" /\ cancelPicture /\ moveTo("STOPPED", cancelled(str))
      BY <2>1, PicCancelled DEF moveTo, Restarting
    <2>2. CASE m_state = "VIDEO_PIC_TAKING" /\ cancelLiveSnapshot /\ moveTo("RECORDING", str)
      <3>1. m_state' = "RECORDING" /\ str' = str /\ live' = "cancel"
        BY <2>2 DEF cancelLiveSnapshot, moveTo
      <3>2. str.video = TRUE /\ Grounded(str) /\ \A c : ~FreshIn(str, c)
        BY <2>2, Rolling
      <3>3. QED BY <3>1, <3>2, RollsOn DEF Restarting
    <2>3. CASE m_state = "PREVIEW_PIC_TAKING" /\ endPicture /\ moveTo("PREVIEWING", left(str))
      BY <2>3, PreviewPicEnds DEF moveTo, Restarting
    <2>4. CASE UNCHANGED <<m_state, str, live>>
      BY <1>1, <1>2, <2>4, SamePicture DEF SnapshotDone
    <2>5. QED BY <1>2, <2>1, <2>2, <2>3, <2>4 DEF SnapshotDone
  <1>3. CASE JpegNotify
    BY <1>1, <1>3, SamePicture DEF JpegNotify
  <1>4. CASE PrepSnapshotDone
    <2>1. /\ UNCHANGED <<str, live>>
          /\ \/ m_state = "PREPARE_SNAPSHOT" /\ m_state' = "PREVIEWING"
             \/ UNCHANGED <<m_state, m_apiResultList>>
      BY <1>4 DEF PrepSnapshotDone, picture
    <2>2. CASE m_state = "PREPARE_SNAPSHOT" /\ m_state' = "PREVIEWING"
      <3>1. Calm(str', live')
        BY <2>1, <2>2, WhenCalm
      <3>2. QED BY <2>2, <3>1, CalmKeeps DEF States, Restarting
    <2>3. CASE UNCHANGED <<m_state, m_apiResultList>>
      BY <1>1, <2>1, <2>3, SamePicture
    <2>4. QED BY <2>1, <2>2, <2>3
  <1>5. QED BY <1>1, <1>2, <1>3, <1>4

LEMMA ThreadsKeep ==
    ASSUME MachineOK, PictureInv,
           \/ DeferredWork \/ takeLiveSnapshot_internal \/ cancelLiveSnapshot_internal
           \/ cbNotifyRoutine \/ JpegDone \/ PrepDone
    PROVE  /\ PictureInv'
           /\ UNCHANGED <<m_state, m_apiResultList, app, params>>
           /\ m_state \in Restarting => str'.kind = str.kind /\ UNCHANGED api_queue
  <1>1. CASE DeferredWork \/ cbNotifyRoutine \/ JpegDone \/ PrepDone
    BY <1>1, SamePicture DEF DeferredWork, cbNotifyRoutine, JpegDone, PrepDone, params
  <1>2. str \in Streams
    BY DEF MachineOK
  <1>3. CASE takeLiveSnapshot_internal
    <2>1. /\ m_state = "VIDEO_PIC_TAKING" /\ live' = "none"
          /\ UNCHANGED <<m_state, m_apiResultList, app, params>>
          /\ UNCHANGED str \/ str' = [str EXCEPT !.live = TRUE]
      BY <1>3 DEF takeLiveSnapshot_internal, PictureInv
    <2>2. /\ str'.video = str.video /\ str'.capture = str.capture /\ str'.on = str.on
          /\ str'.kind = str.kind /\ str'.switched = str.switched
      BY <1>2, <2>1 DEF Streams
    <2>3. str.video = TRUE /\ Grounded(str) /\ \A c : ~FreshIn(str, c)
      BY <2>1, Rolling
    <2>4. str'.video /\ Grounded(str') /\ \A c : ~FreshIn(str', c)
      BY <2>2, <2>3 DEF FreshIn, Grounded
    <2>5. QED BY <2>1, <2>4, RollsOn DEF Restarting, params
  <1>4. CASE cancelLiveSnapshot_internal
    <2>1. /\ str' = [str EXCEPT !.live = FALSE] /\ live' = "none"
          /\ UNCHANGED <<m_state, m_apiResultList, api_queue, app, params>>
      BY <1>4 DEF cancelLiveSnapshot_internal
    <2>2. /\ str'.video = str.video /\ str'.capture = str.capture /\ str'.on = str.on
          /\ str'.kind = str.kind /\ str'.switched = str.switched /\ str'.live = FALSE
      BY <1>2, <2>1 DEF Streams
    <2>3. QED BY <2>1, <2>2 DEF PictureInv, StreamsMatch, FreshIn, Grounded, captureOf, params
  <1>5. QED BY <1>1, <1>3, <1>4

-----------------------------------------------------------------------------
(* The parameters.  No event of theirs begins a picture or makes a preview  *)
(* ready.                                                                   *)
LEMMA ParamsStay ==
    ASSUME MachineOK, NEW e \in ParamCalls \cup {"CANCEL_PICTURE"}, NEW arg, stateMachine(e, arg),
           m_state' \in Restarting
    PROVE  m_state' = m_state
  <1>1. ASSUME NEW r, SetParams(e, arg, r) PROVE m_state' = m_state
    BY <1>1 DEF SetParams, updateParameters, commitParameterChanges
  <1>2. ASSUME NEW ok, only(e, ok) PROVE m_state' = m_state
    BY <1>2 DEF only
  <1>3. ASSUME NEW state, NEW s, NEW ok, change(e, ok, state, s) \/ restarted(e, ok, state, s)
        PROVE  m_state' = state
    BY <1>3 DEF change, restarted, moveTo
  <1>4. ASSUME NEW unprepared, NEW unstarted, restartPreview(e, unprepared, unstarted)
        PROVE  m_state' \in {m_state, unprepared, unstarted}
    BY <1>3, <1>4 DEF restartPreview
  <1>5. CASE m_state = "STOPPED"
    <2>1. PreviewStopped(e, arg)
      BY <1>5 DEF stateMachine
    <2>2. QED BY <1>1, <1>2, <1>3, <2>1 DEF PreviewStopped, ParamCalls
  <1>6. CASE m_state = "READY"
    <2>1. PreviewReady(e, arg)
      BY <1>6 DEF stateMachine
    <2>2. ASSUME NEW p \in preparePreview(str, mode),
                 restarted(e, p.ok, IF p.ok THEN m_state ELSE "STOPPED", p.str)
          PROVE  m_state' = m_state
      <3>1. m_state' = IF p.ok THEN m_state ELSE "STOPPED"
        BY <1>3, <2>2
      <3>2. QED BY <3>1 DEF Restarting
    <2>3. QED BY <1>1, <1>2, <1>3, <2>1, <2>2 DEF PreviewReady, ParamCalls
  <1>7. CASE m_state = "PREVIEWING"
    <2>1. Previewing(e, arg)
      BY <1>7 DEF stateMachine
    <2>2. CASE restartPreview(e, m_state, "STOPPED")
      BY <1>4, <2>2 DEF Restarting
    <2>3. CASE ~restartPreview(e, m_state, "STOPPED")
      BY <1>1, <1>2, <1>3, <2>1, <2>3 DEF Previewing, preStartRecording, ParamCalls
    <2>4. QED BY <2>2, <2>3
  <1>8. CASE m_state = "PREPARE_SNAPSHOT"
    BY <1>2, <1>8 DEF stateMachine, PrepareSnapshot
  <1>9. CASE m_state = "PIC_TAKING"
    <2>1. PicTaking(e, arg)
      BY <1>9 DEF stateMachine
    <2>2. QED BY <1>1, <1>2, <1>3, <2>1 DEF PicTaking, ParamCalls, moveTo, Restarting
  <1>10. CASE m_state = "RECORDING"
    <2>1. Recording(e, arg)
      BY <1>10 DEF stateMachine
    <2>2. QED BY <1>1, <1>2, <2>1 DEF Recording, ParamCalls
  <1>11. CASE m_state = "VIDEO_PIC_TAKING"
    <2>1. VideoPicTaking(e, arg)
      BY <1>11 DEF stateMachine
    <2>2. QED BY <1>1, <1>2, <2>1 DEF VideoPicTaking, ParamCalls, moveTo, Restarting
  <1>12. CASE m_state = "PREVIEW_PIC_TAKING"
    <2>1. PreviewPicTaking(e, arg)
      BY <1>12 DEF stateMachine
    <2>2. CASE restartPreview(e, "PIC_TAKING", "PIC_TAKING")
      BY <1>4, <2>2 DEF Restarting
    <2>3. CASE ~restartPreview(e, "PIC_TAKING", "PIC_TAKING")
      BY <1>1, <1>2, <1>3, <2>1, <2>3
         DEF PreviewPicTaking, preStartRecording, ParamCalls, moveTo, Restarting
    <2>4. QED BY <2>2, <2>3
  <1>13. QED BY <1>5, <1>6, <1>7, <1>8, <1>9, <1>10, <1>11, <1>12 DEF MachineOK, States

(* The parameters leave the channels as they are, but for the stop.         *)
LEMMA ParamsKept ==
    ASSUME MachineOK, NEW e, NEW arg, NEW r, e # "SET_PARAMS", SetParams(e, arg, r)
    PROVE  e = "SET_PARAMS_COMMIT" /\ str'.kind = str.kind /\ UNCHANGED needRestart
  <1>1. e = "SET_PARAMS_COMMIT" /\ commitParameterChanges(e)
    BY DEF SetParams
  <1>2. str' = underMode(str, mode') /\ UNCHANGED needRestart
    BY <1>1 DEF commitParameterChanges
  <1>3. str.kind = underMode(str, mode').kind
    BY DEF underMode, MachineOK, Streams
  <1>4. QED BY <1>1, <1>2, <1>3

LEMMA ParamsWhenRestarting ==
    ASSUME MachineOK, NEW e \in {"SET_PARAMS_STOP", "SET_PARAMS_COMMIT", "CANCEL_PICTURE"},
           NEW arg, stateMachine(e, arg), m_state \in Restarting, m_state' \in Restarting
    PROVE  /\ e = "SET_PARAMS_STOP" => str'.kind = "none"
           /\ e # "SET_PARAMS_STOP" => str'.kind = str.kind /\ UNCHANGED needRestart
  <1>1. CASE SetParams(e, arg, FALSE)
    BY <1>1, ParamsKept
  <1>2. CASE \/ e = "SET_PARAMS_STOP" /\ change(e, TRUE, m_state, unpreparePreview(str))
             \/ e = "SET_PARAMS_STOP" /\ change(e, TRUE, m_state, stopPreview(str))
    BY <1>2, Unprepared DEF change, moveTo, MachineOK
  <1>3. CASE e = "CANCEL_PICTURE" /\ only(e, FALSE)
    BY <1>3 DEF only, params
  <1>4. CASE m_state = "READY"
    <2>1. PreviewReady(e, arg)
      BY <1>4 DEF stateMachine
    <2>2. QED BY <1>1, <1>2, <1>3, <2>1 DEF PreviewReady
  <1>5. CASE m_state = "PREVIEW_PIC_TAKING"
    <2>1. PreviewPicTaking(e, arg)
      BY <1>5 DEF stateMachine
    <2>2. QED BY <1>1, <1>2, <2>1 DEF PreviewPicTaking, preStartRecording, moveTo, Restarting
  <1>6. QED BY <1>4, <1>5 DEF Restarting

(* The event at the head is of the call that waits, or cancels a picture.   *)
LEMMA HeadIsCall ==
    ASSUME CallInv, SmApi
    PROVE  LET e == Head(api_queue).evt
               arg == Head(api_queue).arg
           IN  /\ e \in {app, "CANCEL_PICTURE"}
               /\ stateMachine(e, arg) /\ app' = app
               /\ In(api_queue, e)
               /\ \A i \in DOMAIN api_queue' : \E j \in DOMAIN api_queue :
                     api_queue'[i] = api_queue[j]
               /\ e # "CANCEL_PICTURE" => NoneOwn(api_queue') /\ NoneOwn(m_apiResultList)
               /\ \A f : In(m_apiResultList', f) => In(m_apiResultList, f) \/ f = e
  <1> DEFINE e == Head(api_queue).evt
             arg == Head(api_queue).arg
  <1>1. /\ api_queue # <<>> /\ api_queue' = Tail(api_queue) /\ stateMachine(e, arg)
        /\ UNCHANGED <<evt_queue, app>>
    BY DEF SmApi
  <1>2. MachineOK /\ api_queue \in Seq(Ev) /\ m_apiResultList \in Seq(Res)
    BY CallFacts
  <1>3. /\ Head(api_queue) \in Ev
        /\ 1 \in DOMAIN api_queue /\ api_queue[1] = Head(api_queue)
        /\ \A i \in DOMAIN api_queue' : \E j \in DOMAIN api_queue : api_queue'[i] = api_queue[j]
        /\ NoneOwn(api_queue) => ~Own(Head(api_queue))
        /\ OneOwn(api_queue) /\ Own(Head(api_queue)) => NoneOwn(api_queue')
    BY <1>1, <1>2, TailOwn
  <1>4. e \in Calls /\ arg \in BOOLEAN /\ e \in {app, "CANCEL_PICTURE"}
        /\ (Own(Head(api_queue)) <=> e # "CANCEL_PICTURE")
        /\ api_queue[1].evt = e
    BY <1>3 DEF Ev, Own, CallInv, SyncInv, OfApp
  <1> HIDE DEF e, arg
  <1>5. e # "CANCEL_PICTURE" => NoneOwn(api_queue') /\ NoneOwn(m_apiResultList)
    BY <1>3, <1>4 DEF CallInv, SyncInv
  <1>6. Replied(e)
    BY <1>1, <1>2, <1>4, MachineDone DEF Done
  <1>7. \A f : In(m_apiResultList', f) => In(m_apiResultList, f) \/ f = e
    <2>1. ASSUME NEW ok \in BOOLEAN, reply(e, ok)
          PROVE  \A f : In(m_apiResultList', f) <=> In(m_apiResultList, f) \/ f = e
      BY <1>2, <1>4, <2>1, Answered
    <2>2. QED BY <1>6, <2>1 DEF Replied
  <1>8. In(api_queue, e)
    BY <1>3, <1>4 DEF In
  <1>9. QED BY <1>1, <1>3, <1>4, <1>5, <1>7, <1>8 DEF e, arg

LEMMA NoneThere ==
    ASSUME NEW q, NoneOwn(q), NEW e, e # "CANCEL_PICTURE"
    PROVE  ~In(q, e)
  BY DEF NoneOwn, Own, In

(* The mode is kept: one lemma for each kind of step.                       *)
LEMMA HandledKeepsMode ==
    ASSUME CallInv, ModeInv, SmApi
    PROVE  ModeInv'
  <1> DEFINE e == Head(api_queue).evt
             arg == Head(api_queue).arg
  <1>1. MachineOK
    BY CallFacts
  <1>2. /\ e \in {app, "CANCEL_PICTURE"}
        /\ stateMachine(e, arg) /\ app' = app
        /\ In(api_queue, e)
        /\ \A i \in DOMAIN api_queue' : \E j \in DOMAIN api_queue :
              api_queue'[i] = api_queue[j]
        /\ e # "CANCEL_PICTURE" => NoneOwn(api_queue') /\ NoneOwn(m_apiResultList)
        /\ \A f : In(m_apiResultList', f) => In(m_apiResultList, f) \/ f = e
    BY HeadIsCall
  <1> HIDE DEF e, arg
  <1>3. PictureInv'
    <2>1. m_state \in Restarting /\ e = "SET_PARAMS_RESTART" => str.kind = "none"
      BY <1>2 DEF ModeInv, RestartInv
    <2>2. QED BY <1>1, <1>2, <2>1, MachineKeeps DEF ModeInv
  <1>4. RestartInv'
    <2> SUFFICES ASSUME m_state' \in Restarting,
                        app \in {"SET_PARAMS_STOP", "SET_PARAMS_COMMIT", "SET_PARAMS_RESTART"}
                 PROVE  /\ app = "SET_PARAMS_STOP" /\ In(m_apiResultList', "SET_PARAMS_STOP")
                              => str'.kind = "none"
                        /\ app = "SET_PARAMS_COMMIT" /\ needRestart' => str'.kind = "none"
                        /\ app = "SET_PARAMS_RESTART" /\ In(api_queue', "SET_PARAMS_RESTART")
                              => str'.kind = "none"
      BY <1>2 DEF RestartInv
    <2>1. e \in ParamCalls \cup {"CANCEL_PICTURE"}
      BY <1>2 DEF ParamCalls
    <2>2. m_state' = m_state /\ m_state \in Restarting
      BY <1>1, <1>2, <2>1, ParamsStay
    <2>3. CASE e = "SET_PARAMS_RESTART"
      <3>1. ~In(api_queue', "SET_PARAMS_RESTART") /\ app = "SET_PARAMS_RESTART"
        BY <1>2, <2>3, NoneThere
      <3>2. QED BY <3>1
    <2>4. CASE e = "SET_PARAMS_STOP"
      BY <1>1, <1>2, <2>2, <2>4, ParamsWhenRestarting
    <2>5. CASE e = "SET_PARAMS_COMMIT"
      <3>1. str'.kind = str.kind /\ UNCHANGED needRestart /\ app = e
        BY <1>1, <1>2, <2>2, <2>5, ParamsWhenRestarting
      <3>2. QED BY <2>2, <2>5, <3>1 DEF ModeInv, RestartInv
    <2>6. CASE e = "CANCEL_PICTURE"
      <3>1. str'.kind = str.kind /\ UNCHANGED needRestart
        BY <1>1, <1>2, <2>2, <2>6, ParamsWhenRestarting
      <3>2. /\ In(m_apiResultList', "SET_PARAMS_STOP") => In(m_apiResultList, "SET_PARAMS_STOP")
            /\ In(api_queue', "SET_PARAMS_RESTART") => In(api_queue, "SET_PARAMS_RESTART")
        BY <1>2, <2>6 DEF In
      <3>3. QED BY <2>2, <3>1, <3>2 DEF ModeInv, RestartInv
    <2>7. QED BY <1>2, <2>3, <2>4, <2>5, <2>6
  <1>5. QED BY <1>3, <1>4 DEF ModeInv

(* A call that is made is not under way with the parameters.                *)
LEMMA MadeKeepsMode ==
    ASSUME CallInv, ModeInv, Application
    PROVE  ModeInv'
  <1>1. PICK e \in Calls \ {"SET_PARAMS_STOP", "SET_PARAMS_COMMIT", "SET_PARAMS_RESTART"},
             arg \in BOOLEAN : call(e, arg)
    BY DEF Application, Calls, set_preview_window, set_parameters, take_picture,
       start_preview, stop_preview, start_recording, stop_recording, cancel_picture
  <1>2. app' = e /\ UNCHANGED <<m_state, str, mode, live>>
    BY <1>1 DEF call, params, picture
  <1>3. QED BY <1>1, <1>2, SamePicture DEF ModeInv, RestartInv

(* Where a call goes on from.                                               *)
LEMMA ParamsFollow ==
    ASSUME NEW e, NEW ok
    PROVE  /\ following(e, ok) = "SET_PARAMS_COMMIT" /\ needRestart => e = "SET_PARAMS_STOP"
           /\ following(e, ok) = "SET_PARAMS_RESTART" => e = "SET_PARAMS_COMMIT" /\ needRestart
  BY DEF following

LEMMA GoesOnKeepsMode ==
    ASSUME CallInv, ModeInv, waitAPIResult
    PROVE  ModeInv'
  <1>1. NoneOwn(m_apiResultList') /\ UNCHANGED <<m_state, str, params, picture>>
    BY ResultTaken
  <1>2. PICK i \in DOMAIN m_apiResultList :
           m_apiResultList[i].evt = app /\ app' = following(app, m_apiResultList[i].ok)
    BY ResultTaken
  <1>3. In(m_apiResultList, app)
    BY <1>2 DEF In
  <1>4. PictureInv' /\ UNCHANGED <<m_state, str, needRestart>>
    BY <1>1, SamePicture DEF ModeInv, params, picture
  <1>5. /\ app' = "SET_PARAMS_COMMIT" /\ needRestart => app = "SET_PARAMS_STOP"
        /\ app' = "SET_PARAMS_RESTART" => app = "SET_PARAMS_COMMIT" /\ needRestart
    BY <1>2, ParamsFollow
  <1>6. ~In(m_apiResultList', "SET_PARAMS_STOP")
    BY <1>1, NoneThere
  <1>7. RestartInv'
    BY <1>3, <1>4, <1>5, <1>6 DEF ModeInv, RestartInv
  <1>8. QED BY <1>4, <1>7 DEF ModeInv

LEMMA OthersKeepMode ==
    ASSUME CallInv, ModeInv,
           \/ SmEvt
           \/ DeferredWork \/ takeLiveSnapshot_internal \/ cancelLiveSnapshot_internal
           \/ cbNotifyRoutine \/ JpegDone \/ PrepDone
    PROVE  ModeInv'
  <1>1. /\ PictureInv' /\ UNCHANGED <<app, params>>
        /\ m_state' \in Restarting =>
              UNCHANGED <<m_state, m_apiResultList, api_queue>> /\ str'.kind = str.kind
    <2>1. MachineOK /\ PictureInv
      BY CallFacts DEF ModeInv
    <2>2. CASE SmEvt
      BY <2>1, <2>2, EventKeeps DEF SmEvt
    <2>3. CASE ~SmEvt
      BY <2>1, <2>3, ThreadsKeep
    <2>4. QED BY <2>2, <2>3
  <1>2. RestartInv'
    BY <1>1 DEF ModeInv, RestartInv, params
  <1>3. QED BY <1>1, <1>2 DEF ModeInv

(* What streams is what the state says, however calls, failures and late    *)
(* events are mixed; a capture outlives its picture only if the mode was    *)
(* changed during it, since a picture that is cancelled is looked for on    *)
(* the channel of the mode that is current then.                            *)
THEOREM StreamsFollowState == Spec => []StreamsMatch
  <1>1. ASSUME Init PROVE ModeInv
    <2>1. PictureInv
      BY <1>1 DEF Init, PictureInv, StreamsMatch, FreshIn, Grounded
    <2>2. RestartInv
      BY <1>1 DEF Init, RestartInv, Restarting
    <2>3. QED BY <2>1, <2>2 DEF ModeInv
  <1>2. ASSUME CallInv, ModeInv, [Next]_vars PROVE ModeInv'
    <2>1. CASE Application
      BY <1>2, <2>1, MadeKeepsMode
    <2>2. CASE waitAPIResult
      BY <1>2, <2>2, GoesOnKeepsMode
    <2>3. CASE SmApi
      BY <1>2, <2>3, HandledKeepsMode
    <2>4. CASE \/ SmEvt
               \/ DeferredWork \/ takeLiveSnapshot_internal \/ cancelLiveSnapshot_internal
               \/ cbNotifyRoutine \/ JpegDone \/ PrepDone
      BY <1>2, <2>4, OthersKeepMode
    <2>5. CASE UNCHANGED vars
      BY <1>2, <2>5, SamePicture DEF vars, params, picture, ModeInv, RestartInv
    <2>6. QED BY <1>2, <2>1, <2>2, <2>3, <2>4, <2>5 DEF Next
  <1>3. ModeInv => StreamsMatch
    BY DEF ModeInv, PictureInv
  <1>4. QED BY <1>1, <1>2, <1>3, CallsHold, PTL DEF Spec
=============================================================================
