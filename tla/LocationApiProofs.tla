--------------------------- MODULE LocationApiProofs ---------------------------
(***************************************************************************)
(* What is proved of LocationApi for any number of client objects, any     *)
(* missing libraries and any length of the adapters' queue.                *)
(***************************************************************************)
EXTENDS LocationApi, SequenceTheorems, FiniteSetTheorems, TLAPS

(* Message i of the queue is about client a at adapter k.                   *)
About(i, a, k) == msgs[i].api = a /\ msgs[i].at = k

(* What the owner of an object has come to says where the object is: in     *)
(* clientData, waiting to be deleted, or nowhere.                           *)
OwnerInv ==
    /\ \A a \in Apis : /\ a \in clientData <=> owner[a] = "using"
                       /\ a \in living <=> owner[a] \in {"using", "leaving", "freed"}
                       /\ a \in destroyClientData \cup onAdapter \cup onCaller =>
                             owner[a] = "leaving"
    /\ onAdapter \cap onCaller = {}
    /\ (onAdapter \cup onCaller) \cap destroyClientData = {}
    /\ onAdapter = {} \/ \E a \in Apis : onAdapter = {a}

(* A removal is the last message for its client and adapter, and the client *)
(* is one that its owner gave up; it cannot be deleted while the removal    *)
(* has not been handled.                                                    *)
RemovalInv ==
    \A i \in DOMAIN msgs :
        /\ \A j \in DOMAIN msgs :
              i < j /\ About(j, msgs[i].api, msgs[i].at) => msgs[i].do = "add"
        /\ msgs[i].do = "remove" =>
              \/ owner[msgs[i].api] = "freed"
              \/ /\ msgs[i].api \in destroyClientData
                 /\ msgs[i].at \in waitAdapterMask[msgs[i].api]

SafeInv == TypeOK /\ OwnerInv /\ RemovalInv

-----------------------------------------------------------------------------
(* A client's callbacks are those of interfaces that are loaded or cannot   *)
(* be, and what it left out are other ones, which are loaded.               *)
LoadedInv ==
    /\ \A a \in clientData : /\ callbacks[a] \subseteq loaded \cup Missing
                             /\ callbacks[a] \cap dropped[a] = {}
    /\ \A a \in Apis : dropped[a] \subseteq loaded

(* No message is left of a client that nobody knows any more, but those     *)
(* that add it where it left its callbacks out; what else is left of one    *)
(* that is to be deleted holds its deletion up.                             *)
WaitInv ==
    \A i \in DOMAIN msgs :
        \/ owner[msgs[i].api] \in {"using", "freed"}
        \/ /\ msgs[i].api \in destroyClientData
           /\ msgs[i].at \in waitAdapterMask[msgs[i].api]
        \/ msgs[i].at \in dropped[msgs[i].api]

(* Adapter k has client a once the queue has been worked off.               *)
Removing(a, k) == \E i \in DOMAIN msgs : About(i, a, k) /\ msgs[i].do = "remove"
Adding(a, k) == \E i \in DOMAIN msgs : About(i, a, k) /\ msgs[i].do = "add"
WillHave(a, k) == ~Removing(a, k) /\ (a \in mClientData[k] \/ Adding(a, k))

(* In the end each adapter has the clients that ask for it or that left     *)
(* its callbacks out.                                                       *)
Wanted(a, k) == a \in clientData /\ k \in callbacks[a] /\ k \in loaded
AgreeInv ==
    \A a \in Apis : \A k \in Kinds :
        WillHave(a, k) <=> Wanted(a, k) \/ k \in dropped[a]

KeptInv == LoadedInv /\ WaitInv /\ AgreeInv

-----------------------------------------------------------------------------
(* q lists the members of S, each once.                                     *)
Lists(q, S) ==
    /\ q \in Seq(S)
    /\ \A x \in S : \E i \in 1..Len(q) : q[i] = x
    /\ \A i, j \in 1..Len(q) : q[i] = q[j] => i = j

LEMMA ListsBoth ==
    ASSUME NEW S, NEW T, S \cap T = {}, NEW q, NEW r, Lists(q, S), Lists(r, T)
    PROVE  Lists(q \o r, S \cup T)
  <1> DEFINE qr == q \o r
             m == Len(q)
             n == Len(r)
  <1>1. /\ q \in Seq(S \cup T) /\ r \in Seq(S \cup T) /\ m \in Nat /\ n \in Nat
        /\ \A i \in 1..m : q[i] \in S
        /\ \A i \in 1..n : r[i] \in T
    BY ElementOfSeq DEF Lists
  <1>2. /\ qr \in Seq(S \cup T) /\ Len(qr) = m + n
        /\ \A i \in 1..(m + n) : qr[i] = IF i <= m THEN q[i] ELSE r[i - m]
    BY <1>1, ConcatProperties
  <1> HIDE DEF qr, m, n
  <1>3. /\ \A i \in 1..m : i \in 1..(m + n) /\ i <= m
        /\ \A i \in 1..n : i + m \in 1..(m + n) /\ ~(i + m <= m) /\ (i + m) - m = i
        /\ \A i \in 1..(m + n) : (i <= m /\ i \in 1..m) \/ (~(i <= m) /\ i - m \in 1..n)
    BY <1>1
  <1>4. ASSUME NEW x \in S \cup T PROVE \E i \in 1..(m + n) : qr[i] = x
    <2>1. CASE x \in S
      <3>1. PICK i \in 1..m : q[i] = x
        BY <2>1 DEF Lists, m
      <3>2. QED BY <1>2, <1>3, <3>1
    <2>2. CASE x \in T
      <3>1. PICK i \in 1..n : r[i] = x
        BY <2>2 DEF Lists, n
      <3>2. i + m \in 1..(m + n) /\ qr[i + m] = x
        BY <1>2, <1>3, <3>1
      <3>3. QED BY <3>2
    <2>3. QED BY <2>1, <2>2
  <1>5. ASSUME NEW i \in 1..(m + n), NEW j \in 1..(m + n), qr[i] = qr[j] PROVE i = j
    <2>1. CASE i <= m /\ j <= m
      <3>1. q[i] = q[j] /\ i \in 1..m /\ j \in 1..m
        BY <1>1, <1>2, <1>3, <1>5, <2>1
      <3>2. QED BY <3>1 DEF Lists, m
    <2>2. CASE ~(i <= m) /\ ~(j <= m)
      <3>1. r[i - m] = r[j - m] /\ i - m \in 1..n /\ j - m \in 1..n
        BY <1>2, <1>3, <1>5, <2>2
      <3>2. i - m = j - m
        BY <3>1 DEF Lists, n
      <3>3. QED BY <1>1, <3>2
    <2>3. CASE i <= m /\ ~(j <= m)
      BY <1>1, <1>2, <1>3, <1>5, <2>3
    <2>4. CASE ~(i <= m) /\ j <= m
      BY <1>1, <1>2, <1>3, <1>5, <2>4
    <2>5. QED BY <2>1, <2>2, <2>3, <2>4
  <1>6. Lists(qr, S \cup T)
    BY <1>2, <1>4, <1>5 DEF Lists
  <1>7. QED BY <1>6 DEF qr

LEMMA InOrderFacts ==
    ASSUME NEW ks \in SUBSET Kinds
    PROVE  Lists(InOrder(ks), ks)
  <1>1. ASSUME NEW k PROVE Lists(only(k, ks), {k} \cap ks)
    <2>1. CASE k \in ks
      <3>1. only(k, ks) = <<k>> /\ {k} \cap ks = {k}
        BY <2>1 DEF only
      <3>2. QED BY <3>1 DEF Lists
    <2>2. CASE k \notin ks
      <3>1. only(k, ks) = <<>> /\ {k} \cap ks = {}
        BY <2>2 DEF only
      <3>2. QED BY <3>1 DEF Lists
    <2>3. QED BY <2>1, <2>2
  <1> DEFINE g == {"gnss"} \cap ks
             b == {"batching"} \cap ks
             f == {"geofence"} \cap ks
  <1>2. /\ Lists(only("gnss", ks), g) /\ Lists(only("batching", ks), b)
        /\ Lists(only("geofence", ks), f)
    BY <1>1
  <1>3. g \cap b = {} /\ (g \cup b) \cap f = {} /\ (g \cup b) \cup f = ks
    BY DEF Kinds
  <1> HIDE DEF g, b, f
  <1>4. Lists(only("gnss", ks) \o only("batching", ks), g \cup b)
    BY <1>2, <1>3, ListsBoth
  <1>5. Lists((only("gnss", ks) \o only("batching", ks)) \o only("geofence", ks), (g \cup b) \cup f)
    BY <1>2, <1>3, <1>4, ListsBoth
  <1>6. QED BY <1>3, <1>5, Zenon DEF InOrder

(* The same request joins the queue once for each of the kinds.             *)
LEMMA Sent ==
    ASSUME msgs \in Seq(Msg), NEW do \in {"add", "remove"}, NEW a \in Apis,
           NEW ks \in SUBSET Kinds, send(do, a, ks)
    PROVE  /\ msgs' \in Seq(Msg)
           /\ \A i \in DOMAIN msgs : i \in DOMAIN msgs' /\ msgs'[i] = msgs[i]
           /\ \A i \in DOMAIN msgs' : i \notin DOMAIN msgs =>
                 /\ msgs'[i].do = do /\ msgs'[i].api = a /\ msgs'[i].at \in ks
                 /\ \A j \in DOMAIN msgs : ~(i < j)
                 /\ \A j \in DOMAIN msgs' :
                       j \notin DOMAIN msgs /\ msgs'[i].at = msgs'[j].at => i = j
           /\ \A k \in ks : \E i \in DOMAIN msgs' : i \notin DOMAIN msgs /\ msgs'[i].at = k
  <1> DEFINE q == InOrder(ks)
             new == [i \in 1..Len(q) |-> [do |-> do, at |-> q[i], api |-> a]]
             m == Len(msgs)
             n == Len(q)
  <1>1. /\ q \in Seq(ks) /\ q \in Seq(Kinds) /\ DOMAIN q = 1..n /\ n \in Nat /\ m \in Nat
        /\ DOMAIN msgs = 1..m
        /\ \A k \in ks : \E i \in 1..n : q[i] = k
        /\ \A i, j \in 1..n : q[i] = q[j] => i = j
    <2>1. Lists(q, ks)
      BY InOrderFacts
    <2> HIDE DEF q
    <2>2. q \in Seq(ks) /\ q \in Seq(Kinds) /\ DOMAIN q = 1..n /\ n \in Nat
      BY <2>1 DEF Lists
    <2>3. DOMAIN msgs = 1..m /\ m \in Nat
      OBVIOUS
    <2>4. QED BY <2>1, <2>2, <2>3 DEF Lists
  <1>2. \A i \in 1..n : q[i] \in ks /\ q[i] \in Kinds
    BY <1>1, ElementOfSeq
  <1> HIDE DEF q
  <1>3. \A i \in 1..n : /\ new[i] \in Msg /\ new[i].do = do
                        /\ new[i].api = a /\ new[i].at = q[i]
    BY <1>2 DEF Msg
  <1>4. new \in Seq(Msg) /\ Len(new) = n
    BY <1>1, <1>3, SeqDef
  <1>5. msgs' = msgs \o new
    BY DEF send, q
  <1> HIDE DEF new, m, n
  <1>6. /\ msgs' \in Seq(Msg) /\ DOMAIN msgs' = 1..(m + n)
        /\ \A i \in 1..m : msgs'[i] = msgs[i]
        /\ \A i \in 1..(m + n) : i > m => msgs'[i] = new[i - m]
    <2>1. /\ msgs' \in Seq(Msg) /\ Len(msgs') = m + n
          /\ \A i \in 1..(m + n) : msgs'[i] = IF i <= m THEN msgs[i] ELSE new[i - m]
      BY <1>4, <1>5, ConcatProperties DEF m
    <2>2. \A i \in 1..m : i \in 1..(m + n) /\ i <= m
      BY <1>1
    <2>3. \A i \in 1..(m + n) : i > m => ~(i <= m)
      BY <1>1
    <2>4. QED BY <2>1, <2>2, <2>3
  <1>7. \A i \in 1..(m + n) : i \notin 1..m => i > m /\ i - m \in 1..n
    BY <1>1
  <1>8. \A i \in 1..m : i \in 1..(m + n)
    BY <1>1
  <1>9. ASSUME NEW i \in 1..(m + n), i \notin 1..m
        PROVE  /\ msgs'[i].do = do /\ msgs'[i].api = a /\ msgs'[i].at \in ks
               /\ \A j \in 1..m : ~(i < j)
               /\ \A j \in 1..(m + n) : j \notin 1..m /\ msgs'[i].at = msgs'[j].at => i = j
    <2>1. msgs'[i].do = do /\ msgs'[i].api = a /\ msgs'[i].at = q[i - m] /\ q[i - m] \in ks
      BY <1>2, <1>3, <1>6, <1>7, <1>9
    <2>2. \A j \in 1..m : ~(i < j)
      BY <1>1, <1>9
    <2>3. ASSUME NEW j \in 1..(m + n), j \notin 1..m, msgs'[i].at = msgs'[j].at
          PROVE  i = j
      <3>1. msgs'[j].at = q[j - m]
        BY <1>3, <1>6, <1>7, <2>3
      <3>2. i - m = j - m
        BY <1>1, <1>7, <1>9, <2>1, <2>3, <3>1
      <3>3. QED BY <1>1, <3>2
    <2>4. QED BY <2>1, <2>2, <2>3
  <1>10. ASSUME NEW k \in ks
         PROVE  \E i \in 1..(m + n) : i \notin 1..m /\ msgs'[i].at = k
    <2>1. PICK i \in 1..n : q[i] = k
      BY <1>1
    <2>2. m + i \in 1..(m + n) /\ m + i > m /\ m + i \notin 1..m /\ (m + i) - m = i
      BY <1>1
    <2>3. msgs'[m + i].at = k
      BY <1>3, <1>6, <2>1, <2>2
    <2>4. QED BY <2>2, <2>3
  <1>11. QED BY <1>1, <1>6, <1>8, <1>9, <1>10

(* The message at the head of the queue is handled.                         *)
LEMMA Handled ==
    ASSUME msgs \in Seq(Msg), msgs # <<>>, msgs' = Tail(msgs)
    PROVE  /\ msgs' \in Seq(Msg) /\ Head(msgs) \in Msg
           /\ 1 \in DOMAIN msgs /\ msgs[1] = Head(msgs)
           /\ \A i \in DOMAIN msgs' : i + 1 \in DOMAIN msgs /\ 1 < i + 1 /\ msgs'[i] = msgs[i + 1]
           /\ \A i, j \in DOMAIN msgs' : i < j => i + 1 < j + 1
           /\ \A i \in DOMAIN msgs : i # 1 => \E j \in DOMAIN msgs' : msgs'[j] = msgs[i]
  <1>1. /\ msgs' \in Seq(Msg) /\ Head(msgs) \in Msg /\ Len(msgs) \in Nat /\ Len(msgs) # 0
        /\ DOMAIN msgs = 1..Len(msgs) /\ DOMAIN msgs' = 1..(Len(msgs) - 1)
        /\ msgs[1] = Head(msgs)
        /\ \A i \in 1..(Len(msgs) - 1) : msgs'[i] = msgs[i + 1]
    OBVIOUS
  <1>2. /\ \A i \in 1..(Len(msgs) - 1) : i + 1 \in 1..Len(msgs) /\ 1 < i + 1
        /\ \A i, j \in 1..(Len(msgs) - 1) : i < j => i + 1 < j + 1
        /\ \A i \in 1..Len(msgs) : i # 1 => i - 1 \in 1..(Len(msgs) - 1) /\ (i - 1) + 1 = i
        /\ 1 \in 1..Len(msgs)
    BY <1>1
  <1>3. \A i \in 1..Len(msgs) : i # 1 => \E j \in 1..(Len(msgs) - 1) : msgs'[j] = msgs[i]
    BY <1>1, <1>2
  <1>4. QED BY <1>1, <1>2, <1>3

-----------------------------------------------------------------------------
(* Safety of the deletion, whatever clients ask for.                        *)
LEMMA SafeFacts ==
    ASSUME SafeInv
    PROVE  /\ \A i \in DOMAIN msgs : /\ msgs[i] \in Msg /\ msgs[i].api \in Apis
                                     /\ msgs[i].at \in Kinds /\ msgs[i].do \in {"add", "remove"}
           /\ \A i \in DOMAIN msgs :
                 owner[msgs[i].api] = "using" => msgs[i].do = "add"
  <1>1. \A i \in DOMAIN msgs : msgs[i] \in Msg
    BY ElementOfSeq DEF SafeInv, TypeOK
  <1>2. \A i \in DOMAIN msgs : /\ msgs[i].api \in Apis /\ msgs[i].at \in Kinds
                               /\ msgs[i].do \in {"add", "remove"}
    BY <1>1 DEF Msg
  <1>3. ASSUME NEW i \in DOMAIN msgs, owner[msgs[i].api] = "using", msgs[i].do = "remove"
        PROVE  FALSE
    BY <1>2, <1>3 DEF SafeInv, RemovalInv, OwnerInv
  <1>4. QED BY <1>1, <1>2, <1>3

LEMMA AtMostOne ==
    ASSUME NEW S, S = {} \/ \E x : S = {x}
    PROVE  Cardinality(S) <= 1
  <1>1. CASE S = {}
    <2>1. Cardinality(S) = 0
      BY <1>1, FS_EmptySet
    <2>2. QED BY <2>1
  <1>2. ASSUME NEW x, S = {x} PROVE Cardinality(S) <= 1
    <2>1. Cardinality(S) = 1
      BY <1>2, FS_Singleton
    <2>2. QED BY <2>1
  <1>3. QED BY <1>1, <1>2

(* register, by createInstance or updateCallbacks.                          *)
LEMMA RegisterSafe ==
    ASSUME SafeInv, NEW a \in Apis, NEW ks \in SUBSET Kinds, register(a, ks),
           owner[a] \notin {"leaving", "freed"},
           owner' = [owner EXCEPT ![a] = "using"], living' = living \cup {a}
    PROVE  SafeInv'
  <1>1. /\ loaded' = loaded \cup (ks \ Missing) /\ failed' = failed \cup (ks \cap Missing)
        /\ send("add", a, ks \cap loaded')
        /\ clientData' = clientData \cup {a}
        /\ callbacks' = [callbacks EXCEPT ![a] = ks]
        /\ UNCHANGED <<destroyClientData, waitAdapterMask, mClientData, onAdapter, onCaller>>
        /\ dropped' = [dropped EXCEPT ![a] = (@ \cup present(a)) \ ks]
    BY DEF register, loadLocationInterface, destroying, forget
  <1>2. /\ msgs' \in Seq(Msg)
        /\ \A i \in DOMAIN msgs : i \in DOMAIN msgs' /\ msgs'[i] = msgs[i]
        /\ \A i \in DOMAIN msgs' : i \notin DOMAIN msgs =>
              /\ msgs'[i].do = "add" /\ msgs'[i].api = a
              /\ \A j \in DOMAIN msgs : ~(i < j)
    <2>1. msgs \in Seq(Msg) /\ ks \cap loaded' \in SUBSET Kinds
      BY DEF SafeInv, TypeOK
    <2>2. QED BY <1>1, <2>1, Sent
  <1>3. a \notin destroyClientData \cup onAdapter \cup onCaller
    BY DEF SafeInv, OwnerInv
  <1>4. /\ owner'[a] = "using" /\ \A b \in Apis : b # a => owner'[b] = owner[b]
    BY DEF SafeInv, TypeOK
  <1>5. OwnerInv'
    BY <1>1, <1>3, <1>4 DEF SafeInv, OwnerInv
  <1>6. TypeOK'
    <2>1. ks \cap loaded' \in SUBSET Kinds /\ ks \subseteq Kinds /\ Missing \subseteq Kinds
      BY ApiConstants DEF SafeInv, TypeOK
    <2>2. Cardinality(onAdapter') <= 1
      BY <1>1 DEF SafeInv, TypeOK
    <2>3. destroyClientData' \subseteq living' \ clientData'
      BY <1>1, <1>3 DEF SafeInv, TypeOK
    <2>4. dropped' \in [Apis -> SUBSET Kinds]
      BY <1>1 DEF SafeInv, TypeOK, present
    <2>5. QED BY <1>1, <1>2, <2>1, <2>2, <2>3, <2>4 DEF SafeInv, TypeOK
  <1>7. RemovalInv'
    <2>1. SUFFICES ASSUME NEW i \in DOMAIN msgs'
                   PROVE  /\ \A j \in DOMAIN msgs' :
                                i < j /\ msgs'[j].api = msgs'[i].api /\ msgs'[j].at = msgs'[i].at
                                => msgs'[i].do = "add"
                          /\ msgs'[i].do = "remove" =>
                                \/ owner'[msgs'[i].api] = "freed"
                                \/ /\ msgs'[i].api \in destroyClientData'
                                   /\ msgs'[i].at \in waitAdapterMask'[msgs'[i].api]
      BY DEF RemovalInv, About
    <2>2. CASE i \notin DOMAIN msgs
      BY <1>2, <2>2
    <2>3. CASE i \in DOMAIN msgs
      <3>1. msgs'[i] = msgs[i] /\ msgs[i].api \in Apis
        BY <1>2, <2>3, SafeFacts
      <3>2. msgs[i].do = "remove" => msgs[i].api # a
        BY <1>3, <2>3 DEF SafeInv, RemovalInv
      <3>3. ASSUME NEW j \in DOMAIN msgs', i < j,
                   msgs'[j].api = msgs'[i].api, msgs'[j].at = msgs'[i].at
            PROVE  msgs'[i].do = "add"
        <4>1. CASE j \in DOMAIN msgs
          BY <1>2, <2>3, <3>3, <4>1 DEF SafeInv, RemovalInv, About
        <4>2. CASE j \notin DOMAIN msgs
          BY <1>2, <2>3, <3>1, <3>2, <3>3, <4>2, SafeFacts
        <4>3. QED BY <4>1, <4>2
      <3>4. msgs'[i].do = "remove" =>
               \/ owner'[msgs'[i].api] = "freed"
               \/ /\ msgs'[i].api \in destroyClientData'
                  /\ msgs'[i].at \in waitAdapterMask'[msgs'[i].api]
        BY <1>1, <1>4, <2>3, <3>1, <3>2 DEF SafeInv, RemovalInv
      <3>5. QED BY <3>3, <3>4
    <2>4. QED BY <2>2, <2>3
  <1>8. QED BY <1>5, <1>6, <1>7 DEF SafeInv

LEMMA DestroySafe ==
    ASSUME SafeInv, NEW a \in Apis, NEW cb \in BOOLEAN, destroy(a, cb)
    PROVE  SafeInv'
  <1>1. /\ owner[a] = "using"
        /\ send("remove", a, removeFrom(a))
        /\ clientData' = clientData \ {a}
        /\ owner' = [owner EXCEPT ![a] = IF cb THEN "leaving" ELSE "freed"]
        /\ UNCHANGED <<loaded, failed, callbacks, living, mClientData, onAdapter, dropped>>
        /\ onCaller' = IF cb /\ removeFrom(a) = {} THEN onCaller \cup {a} ELSE onCaller
    BY DEF destroy, interfaces
  <1>2. IF cb /\ removeFrom(a) # {}
        THEN /\ destroyClientData' = destroyClientData \cup {a}
             /\ waitAdapterMask' = [waitAdapterMask EXCEPT ![a] = removeFrom(a)]
        ELSE UNCHANGED <<destroyClientData, waitAdapterMask>>
    BY DEF destroy, destroying
  <1>3. removeFrom(a) \in SUBSET Kinds
    BY DEF SafeInv, TypeOK, removeFrom
  <1>4. /\ msgs' \in Seq(Msg)
        /\ \A i \in DOMAIN msgs : i \in DOMAIN msgs' /\ msgs'[i] = msgs[i]
        /\ \A i \in DOMAIN msgs' : i \notin DOMAIN msgs =>
              /\ msgs'[i].do = "remove" /\ msgs'[i].api = a /\ msgs'[i].at \in removeFrom(a)
              /\ \A j \in DOMAIN msgs : ~(i < j)
              /\ \A j \in DOMAIN msgs' :
                    j \notin DOMAIN msgs /\ msgs'[i].at = msgs'[j].at => i = j
    BY <1>1, <1>3, Sent DEF SafeInv, TypeOK
  <1>5. /\ a \in living /\ a \in clientData
        /\ a \notin destroyClientData \cup onAdapter \cup onCaller
    BY <1>1 DEF SafeInv, OwnerInv
  <1>6. /\ owner'[a] = IF cb THEN "leaving" ELSE "freed"
        /\ \A b \in Apis : b # a => owner'[b] = owner[b]
    BY <1>1 DEF SafeInv, TypeOK
  <1>7. OwnerInv'
    BY <1>1, <1>2, <1>5, <1>6 DEF SafeInv, OwnerInv
  <1>8. TypeOK'
    BY <1>1, <1>2, <1>3, <1>4, <1>5 DEF SafeInv, TypeOK
  <1>9. RemovalInv'
    <2>1. SUFFICES ASSUME NEW i \in DOMAIN msgs'
                   PROVE  /\ \A j \in DOMAIN msgs' :
                                i < j /\ msgs'[j].api = msgs'[i].api /\ msgs'[j].at = msgs'[i].at
                                => msgs'[i].do = "add"
                          /\ msgs'[i].do = "remove" =>
                                \/ owner'[msgs'[i].api] = "freed"
                                \/ /\ msgs'[i].api \in destroyClientData'
                                   /\ msgs'[i].at \in waitAdapterMask'[msgs'[i].api]
      BY DEF RemovalInv, About
    <2>2. CASE i \notin DOMAIN msgs
      <3>1. ASSUME NEW j \in DOMAIN msgs', i < j, msgs'[j].at = msgs'[i].at PROVE FALSE
        <4>1. i = j
          BY <1>4, <2>2, <3>1
        <4>2. i \in Nat
          BY <1>4
        <4>3. QED BY <3>1, <4>1, <4>2
      <3>2. CASE cb
        <4>1. msgs'[i].at \in removeFrom(a) /\ removeFrom(a) # {}
          BY <1>4, <2>2
        <4>2. a \in destroyClientData' /\ waitAdapterMask'[a] = removeFrom(a)
          BY <1>2, <3>2, <4>1 DEF SafeInv, TypeOK
        <4>3. QED BY <1>4, <2>2, <3>1, <4>1, <4>2
      <3>3. CASE ~cb
        BY <1>4, <1>6, <2>2, <3>1, <3>3
      <3>4. QED BY <3>2, <3>3
    <2>3. CASE i \in DOMAIN msgs
      <3>1. msgs'[i] = msgs[i] /\ msgs[i].api \in Apis /\ msgs[i].do \in {"add", "remove"}
        BY <1>4, <2>3, SafeFacts
      <3>2. msgs[i].do = "remove" => msgs[i].api # a
        BY <1>1, <2>3, SafeFacts
      <3>3. ASSUME NEW j \in DOMAIN msgs', i < j,
                   msgs'[j].api = msgs'[i].api, msgs'[j].at = msgs'[i].at
            PROVE  msgs'[i].do = "add"
        <4>1. CASE j \in DOMAIN msgs
          BY <1>4, <2>3, <3>3, <4>1 DEF SafeInv, RemovalInv, About
        <4>2. CASE j \notin DOMAIN msgs
          BY <1>4, <2>3, <3>1, <3>2, <3>3, <4>2
        <4>3. QED BY <4>1, <4>2
      <3>4. ASSUME msgs'[i].do = "remove"
            PROVE  \/ owner'[msgs'[i].api] = "freed"
                   \/ /\ msgs'[i].api \in destroyClientData'
                      /\ msgs'[i].at \in waitAdapterMask'[msgs'[i].api]
        <4>1. msgs[i].api # a
          BY <3>1, <3>2, <3>4
        <4>2. owner'[msgs[i].api] = owner[msgs[i].api]
          BY <1>6, <3>1, <4>1
        <4>3. waitAdapterMask'[msgs[i].api] = waitAdapterMask[msgs[i].api]
          BY <1>2, <3>1, <4>1 DEF SafeInv, TypeOK
        <4>4. destroyClientData \subseteq destroyClientData'
          BY <1>2
        <4>5. QED BY <2>3, <3>1, <3>4, <4>2, <4>3, <4>4 DEF SafeInv, RemovalInv
      <3>5. QED BY <3>3, <3>4
    <2>4. QED BY <2>2, <2>3
  <1>10. QED BY <1>7, <1>8, <1>9 DEF SafeInv

(* The adapters' thread, up to the callback: what saveClient leaves alone   *)
(* and what onRemoveClientCompleteCb takes from the objects that wait.      *)
LEMMA HandledSafe ==
    ASSUME SafeInv, ProcMsg
    PROVE  SafeInv'
  <1> DEFINE m == Head(msgs)
             a == m.api
             k == m.at
             rest == waitAdapterMask[a] \ {k}
  <1>1. /\ msgs # <<>> /\ onAdapter = {} /\ msgs' = Tail(msgs)
        /\ UNCHANGED <<loaded, failed, clientData, callbacks, living, onCaller, owner, dropped>>
    BY DEF ProcMsg, interfaces, clients
  <1>2. /\ msgs' \in Seq(Msg) /\ m \in Msg
        /\ 1 \in DOMAIN msgs /\ msgs[1] = m
        /\ \A i \in DOMAIN msgs' : i + 1 \in DOMAIN msgs /\ 1 < i + 1 /\ msgs'[i] = msgs[i + 1]
        /\ \A i, j \in DOMAIN msgs' : i < j => i + 1 < j + 1
    BY <1>1, Handled DEF SafeInv, TypeOK
  <1>3. a \in Apis /\ k \in Kinds /\ m.do \in {"add", "remove"}
    BY <1>2 DEF Msg
  <1>4. \/ /\ UNCHANGED <<destroyClientData, waitAdapterMask, onAdapter>>
           /\ \/ mClientData' = [mClientData EXCEPT ![k] = @ \cup {a}]
              \/ mClientData' = [mClientData EXCEPT ![k] = @ \ {a}]
        \/ /\ m.do = "remove" /\ a \in destroyClientData
           /\ onAdapter' = IF rest = {} THEN {a} ELSE {}
           /\ destroyClientData' = IF rest = {} THEN destroyClientData \ {a} ELSE destroyClientData
           /\ waitAdapterMask' = [waitAdapterMask EXCEPT ![a] = rest]
           /\ mClientData' = [mClientData EXCEPT ![k] = @ \ {a}]
    BY Zenon DEF ProcMsg, saveClient, eraseClient, onRemoveClientCompleteCb, destroying
  <1> HIDE DEF m
  <1>5. mClientData' \in [Kinds -> SUBSET Apis]
    BY <1>3, <1>4 DEF SafeInv, TypeOK
  <1>6. \A i \in DOMAIN msgs' : \A j \in DOMAIN msgs' :
           i < j /\ msgs'[j].api = msgs'[i].api /\ msgs'[j].at = msgs'[i].at
           => msgs'[i].do = "add"
    BY <1>2 DEF SafeInv, RemovalInv, About
  <1>7. \A i \in DOMAIN msgs' : msgs'[i].do = "remove" =>
           \/ owner[msgs'[i].api] = "freed"
           \/ /\ msgs'[i].api \in destroyClientData
              /\ msgs'[i].at \in waitAdapterMask[msgs'[i].api]
    BY <1>2 DEF SafeInv, RemovalInv
  <1>8. CASE UNCHANGED <<destroyClientData, waitAdapterMask, onAdapter>>
    <2>1. TypeOK'
      BY <1>1, <1>2, <1>5, <1>8 DEF SafeInv, TypeOK
    <2>2. OwnerInv'
      BY <1>1, <1>8 DEF SafeInv, OwnerInv
    <2>3. RemovalInv'
      BY <1>1, <1>6, <1>7, <1>8 DEF RemovalInv, About
    <2>4. QED BY <2>1, <2>2, <2>3 DEF SafeInv
  <1>9. CASE /\ m.do = "remove" /\ a \in destroyClientData
             /\ onAdapter' = IF rest = {} THEN {a} ELSE {}
             /\ destroyClientData' =
                   IF rest = {} THEN destroyClientData \ {a} ELSE destroyClientData
             /\ waitAdapterMask' = [waitAdapterMask EXCEPT ![a] = rest]
    <2>1. owner[a] = "leaving" /\ a \in living /\ a \notin onCaller
      BY <1>3, <1>9 DEF SafeInv, OwnerInv
    <2>2. OwnerInv'
      BY <1>1, <1>3, <1>9, <2>1 DEF SafeInv, OwnerInv
    <2>3. waitAdapterMask' \in [Apis -> SUBSET Kinds] /\ waitAdapterMask'[a] = rest
          /\ \A b \in Apis : b # a => waitAdapterMask'[b] = waitAdapterMask[b]
      BY <1>3, <1>9 DEF SafeInv, TypeOK
    <2>4. TypeOK'
      <3>1. Cardinality(onAdapter') <= 1
        BY <2>2, AtMostOne DEF OwnerInv
      <3>2. onAdapter' \subseteq Apis /\ destroyClientData' \subseteq living' \ clientData'
        BY <1>1, <1>3, <1>9 DEF SafeInv, TypeOK
      <3>3. QED BY <1>1, <1>2, <1>5, <2>3, <3>1, <3>2 DEF SafeInv, TypeOK
    <2>5. ASSUME NEW i \in DOMAIN msgs', msgs'[i].do = "remove"
          PROVE  \/ owner'[msgs'[i].api] = "freed"
                 \/ /\ msgs'[i].api \in destroyClientData'
                    /\ msgs'[i].at \in waitAdapterMask'[msgs'[i].api]
      <3>1. msgs'[i].api \in Apis
        BY <1>2, SafeFacts
      <3>2. msgs'[i].api = a => msgs'[i].at # k
        BY <1>2, <1>9 DEF SafeInv, RemovalInv, About
      <3>3. CASE msgs'[i].api = a
        <4>1. msgs'[i].at \in rest
          BY <1>7, <2>1, <2>5, <3>2, <3>3
        <4>2. QED BY <1>9, <2>3, <3>3, <4>1
      <3>4. CASE msgs'[i].api # a
        BY <1>1, <1>7, <1>9, <2>3, <2>5, <3>1, <3>4
      <3>5. QED BY <3>3, <3>4
    <2>6. RemovalInv'
      BY <1>6, <2>5 DEF RemovalInv, About
    <2>7. QED BY <2>2, <2>4, <2>6 DEF SafeInv
  <1>10. QED BY <1>4, <1>8, <1>9

(* The object is deleted: no removal of it is left.                         *)
LEMMA CallSafe ==
    ASSUME SafeInv, NEW a \in Apis, destroyCompleteCb(a)
    PROVE  SafeInv'
  <1>1. /\ a \in onAdapter \cup onCaller
        /\ onAdapter' \in {onAdapter, onAdapter \ {a}} /\ onCaller' \in {onCaller, onCaller \ {a}}
        /\ a \notin onAdapter' \cup onCaller'
        /\ owner' = [owner EXCEPT ![a] = "told"] /\ living' = living \ {a}
        /\ UNCHANGED <<loaded, failed, clientData, callbacks, destroyClientData,
                       waitAdapterMask, msgs, mClientData, dropped>>
    BY DEF destroyCompleteCb, finish, interfaces, clients, destroying, SafeInv, OwnerInv
  <1>2. owner[a] = "leaving" /\ a \notin destroyClientData /\ a \notin clientData
    BY <1>1 DEF SafeInv, OwnerInv
  <1>3. /\ owner'[a] = "told" /\ \A b \in Apis : b # a => owner'[b] = owner[b]
    BY <1>1 DEF SafeInv, TypeOK
  <1>4. OwnerInv'
    <2>1. onAdapter' = {} \/ \E b \in Apis : onAdapter' = {b}
      BY <1>1 DEF SafeInv, OwnerInv
    <2>2. \A b \in Apis : /\ b \in clientData' <=> owner'[b] = "using"
                          /\ b \in living' <=> owner'[b] \in {"using", "leaving", "freed"}
                          /\ b \in destroyClientData' \cup onAdapter' \cup onCaller' =>
                                owner'[b] = "leaving"
      BY <1>1, <1>2, <1>3 DEF SafeInv, OwnerInv
    <2>3. /\ onAdapter' \cap onCaller' = {}
          /\ (onAdapter' \cup onCaller') \cap destroyClientData' = {}
      BY <1>1 DEF SafeInv, OwnerInv
    <2>4. QED BY <2>1, <2>2, <2>3 DEF OwnerInv
  <1>5. TypeOK'
    <2>1. Cardinality(onAdapter') <= 1
      BY <1>4, AtMostOne DEF OwnerInv
    <2>2. clientData \subseteq living' /\ destroyClientData \subseteq living' \ clientData
      BY <1>1, <1>2 DEF SafeInv, TypeOK
    <2>3. QED BY <1>1, <2>1, <2>2 DEF SafeInv, TypeOK
  <1>6. RemovalInv'
    <2>1. \A i \in DOMAIN msgs : msgs[i].do = "remove" => msgs[i].api # a
      BY <1>2 DEF SafeInv, RemovalInv
    <2>2. QED BY <1>1, <1>3, <2>1, SafeFacts DEF SafeInv, RemovalInv, About
  <1>7. QED BY <1>4, <1>5, <1>6 DEF SafeInv

LEMMA InitSafe == Init => SafeInv
  <1>1. Init => TypeOK
    BY FS_EmptySet, ApiConstants DEF Init, TypeOK
  <1>2. Init => OwnerInv /\ RemovalInv
    BY DEF Init, OwnerInv, RemovalInv
  <1>3. QED BY <1>1, <1>2 DEF SafeInv

LEMMA NextSafe == SafeInv /\ [Next]_vars => SafeInv'
  <1> SUFFICES ASSUME SafeInv, [Next]_vars PROVE SafeInv'
    OBVIOUS
  <1>1. ASSUME NEW a \in Apis, NEW ks \in SUBSET Kinds, createInstance(a, ks)
        PROVE  SafeInv'
    <2>1. owner[a] \notin {"leaving", "freed"}
      BY <1>1 DEF createInstance, SafeInv, OwnerInv
    <2>2. QED BY <1>1, <2>1, RegisterSafe DEF createInstance
  <1>2. ASSUME NEW a \in Apis, NEW ks \in SUBSET Kinds, updateCallbacks(a, ks)
        PROVE  SafeInv'
    <2>1. owner[a] = "using" /\ UNCHANGED <<owner, living>> /\ register(a, ks)
      BY <1>2 DEF updateCallbacks
    <2>2. owner' = [owner EXCEPT ![a] = "using"] /\ living' = living \cup {a}
      BY <2>1 DEF SafeInv, TypeOK, OwnerInv
    <2>3. QED BY <2>1, <2>2, RegisterSafe
  <1>3. ASSUME NEW a \in Apis, NEW cb \in BOOLEAN, destroy(a, cb)
        PROVE  SafeInv'
    BY <1>3, DestroySafe
  <1>4. ASSUME NEW a \in Apis, destroyCompleteCb(a)
        PROVE  SafeInv'
    BY <1>4, CallSafe
  <1>5. CASE ProcMsg
    BY <1>5, HandledSafe
  <1>6. CASE UNCHANGED vars
    BY <1>6 DEF vars, interfaces, clients, destroying, SafeInv, TypeOK, OwnerInv, RemovalInv,
       About
  <1>7. QED BY <1>1, <1>2, <1>3, <1>4, <1>5, <1>6 DEF Next

LEMMA SafeHolds == Spec => []SafeInv
  <1>1. QED BY InitSafe, NextSafe, PTL DEF Spec

(* Every variable keeps its type, and the adapters' thread makes one        *)
(* callback at a time.                                                      *)
THEOREM TypeCorrect == Spec => []TypeOK
  <1>1. SafeInv => TypeOK
    BY DEF SafeInv
  <1>2. QED BY <1>1, SafeHolds, PTL

(* No callback is made into an object that is gone, and none is deleted     *)
(* twice: while an adapter has a removal to handle the object is there,     *)
(* even if updateCallbacks leaves out kinds that were registered.           *)
THEOREM CallsReachLiving == Spec => []CallsLivingObject
  <1>1. ASSUME SafeInv PROVE CallsLivingObject
    <2>1. \A i \in DOMAIN msgs : msgs[i].do = "remove" => msgs[i].api \in living
      BY <1>1, SafeFacts DEF SafeInv, RemovalInv, OwnerInv
    <2>2. onAdapter \cup onCaller \cup destroyClientData \subseteq living
      BY <1>1 DEF SafeInv, OwnerInv, TypeOK
    <2>3. QED BY <1>1, <2>1, <2>2 DEF SafeInv, OwnerInv, CallsLivingObject
  <1>2. QED BY <1>1, SafeHolds, PTL

-----------------------------------------------------------------------------
(* What becomes of the messages about a client and an adapter.              *)
LEMMA SentAbout ==
    ASSUME SafeInv, NEW do \in {"add", "remove"}, NEW a \in Apis, NEW ks \in SUBSET Kinds,
           send(do, a, ks)
    PROVE  \A b, k :
              /\ Removing(b, k)' <=> Removing(b, k) \/ (do = "remove" /\ b = a /\ k \in ks)
              /\ Adding(b, k)' <=> Adding(b, k) \/ (do = "add" /\ b = a /\ k \in ks)
  <1>1. /\ \A i \in DOMAIN msgs : i \in DOMAIN msgs' /\ msgs'[i] = msgs[i]
        /\ \A i \in DOMAIN msgs' : i \notin DOMAIN msgs =>
              msgs'[i].do = do /\ msgs'[i].api = a /\ msgs'[i].at \in ks
        /\ \A k \in ks : \E i \in DOMAIN msgs' : i \notin DOMAIN msgs /\ msgs'[i].at = k
    BY Sent DEF SafeInv, TypeOK
  <1>2. QED BY <1>1 DEF Removing, Adding, About

LEMMA HandledAbout ==
    ASSUME SafeInv, msgs # <<>>, msgs' = Tail(msgs), NEW m, m = Head(msgs)
    PROVE  \A b, k :
              /\ ~(b = m.api /\ k = m.at) =>
                    /\ Removing(b, k)' <=> Removing(b, k)
                    /\ Adding(b, k)' <=> Adding(b, k)
              /\ b = m.api /\ k = m.at /\ m.do = "add" =>
                    Adding(b, k) /\ (Removing(b, k)' <=> Removing(b, k))
              /\ b = m.api /\ k = m.at /\ m.do = "remove" =>
                    Removing(b, k) /\ ~Removing(b, k)' /\ ~Adding(b, k)'
  <1>1. /\ 1 \in DOMAIN msgs /\ msgs[1] = m
        /\ \A i \in DOMAIN msgs' : i + 1 \in DOMAIN msgs /\ 1 < i + 1 /\ msgs'[i] = msgs[i + 1]
        /\ \A i \in DOMAIN msgs : i # 1 => \E j \in DOMAIN msgs' : msgs'[j] = msgs[i]
    BY Handled DEF SafeInv, TypeOK
  <1>2. \A b, k : (Removing(b, k)' => Removing(b, k)) /\ (Adding(b, k)' => Adding(b, k))
    BY <1>1 DEF Removing, Adding, About
  <1>3. ASSUME NEW b, NEW k, ~(b = m.api /\ k = m.at)
        PROVE  (Removing(b, k) => Removing(b, k)') /\ (Adding(b, k) => Adding(b, k)')
    BY <1>1, <1>3 DEF Removing, Adding, About
  <1>4. ASSUME NEW b, NEW k, b = m.api, k = m.at, m.do = "add"
        PROVE  Adding(b, k) /\ (Removing(b, k) => Removing(b, k)')
    BY <1>1, <1>4 DEF Removing, Adding, About
  <1>5. ASSUME NEW b, NEW k, b = m.api, k = m.at, m.do = "remove"
        PROVE  Removing(b, k) /\ ~Removing(b, k)' /\ ~Adding(b, k)'
    <2>1. Removing(b, k)
      BY <1>1, <1>5 DEF Removing, About
    <2>2. \A i \in DOMAIN msgs' : ~(msgs'[i].api = b /\ msgs'[i].at = k)
      BY <1>1, <1>5 DEF SafeInv, RemovalInv, About
    <2>3. QED BY <2>1, <2>2 DEF Removing, Adding, About
  <1>6. QED BY <1>2, <1>3, <1>4, <1>5, Zenon

(* A client in use has no removal on its way.                               *)
LEMMA UsingFacts ==
    ASSUME SafeInv, KeptInv, NEW a \in Apis, owner[a] # "leaving", owner[a] # "freed"
    PROVE  /\ \A k : ~Removing(a, k)
           /\ \A k \in Kinds :
                 a \in mClientData[k] \/ Adding(a, k) <=> Wanted(a, k) \/ k \in dropped[a]
  <1>1. \A k : ~Removing(a, k)
    BY DEF Removing, About, SafeInv, RemovalInv, OwnerInv
  <1>2. QED BY <1>1 DEF KeptInv, AgreeInv, WillHave

LEMMA RegisterKeeps ==
    ASSUME SafeInv, SafeInv', KeptInv, NEW a \in Apis, NEW ks \in SUBSET Kinds, register(a, ks),
           owner[a] \notin {"leaving", "freed"},
           owner' = [owner EXCEPT ![a] = "using"]
    PROVE  KeptInv'
  <1>1. /\ loaded' = loaded \cup (ks \ Missing)
        /\ send("add", a, ks \cap loaded')
        /\ clientData' = clientData \cup {a}
        /\ callbacks' = [callbacks EXCEPT ![a] = ks]
        /\ UNCHANGED <<destroyClientData, waitAdapterMask, mClientData>>
        /\ dropped' = [dropped EXCEPT ![a] = (@ \cup present(a)) \ ks]
    BY DEF register, loadLocationInterface, destroying, forget
  <1>2. /\ ks \cap loaded' \in SUBSET Kinds /\ loaded' \cap Missing = {}
        /\ callbacks'[a] = ks /\ \A b \in Apis : b # a => callbacks'[b] = callbacks[b]
        /\ dropped'[a] = (dropped[a] \cup present(a)) \ ks
        /\ \A b \in Apis : b # a => dropped'[b] = dropped[b]
        /\ clientData \subseteq Apis
    BY <1>1 DEF SafeInv, TypeOK
  <1>3. \A b, k : /\ Removing(b, k)' <=> Removing(b, k)
                  /\ Adding(b, k)' <=> Adding(b, k) \/ (b = a /\ k \in ks \cap loaded')
    BY <1>1, <1>2, SentAbout
  <1>4. LoadedInv'
    BY <1>1, <1>2 DEF KeptInv, LoadedInv, present
  <1>5. WaitInv'
    <2>1. \A i \in DOMAIN msgs' : (i \in DOMAIN msgs /\ msgs'[i] = msgs[i]) \/ msgs'[i].api = a
      BY <1>1, <1>2, Sent DEF SafeInv, TypeOK
    <2>2. owner'[a] = "using" /\ \A b \in Apis : b # a => owner'[b] = owner[b]
      BY DEF SafeInv, TypeOK
    <2>3. \A i \in DOMAIN msgs' : msgs'[i].api \in Apis
      BY SafeFacts, <2>1
    <2>4. QED BY <1>1, <1>2, <2>1, <2>2, <2>3 DEF KeptInv, WaitInv
  <1>6. ASSUME NEW b \in Apis, NEW k \in Kinds
        PROVE  WillHave(b, k)' <=> Wanted(b, k)' \/ k \in dropped'[b]
    <2>1. CASE b = a
      <3>1. /\ ~Removing(a, k)
            /\ a \in mClientData[k] \/ Adding(a, k) <=> Wanted(a, k) \/ k \in dropped[a]
        BY UsingFacts
      <3>2. WillHave(b, k)' <=> Wanted(a, k) \/ k \in dropped[a] \/ k \in ks \cap loaded'
        BY <1>1, <1>3, <2>1, <3>1 DEF WillHave
      <3>3. Wanted(a, k) <=> k \in present(a)
        BY DEF Wanted, present
      <3>4. Wanted(b, k)' <=> k \in ks \cap loaded'
        BY <1>1, <1>2, <2>1 DEF Wanted
      <3>5. k \in dropped[a] \/ Wanted(a, k) => k \in loaded'
        BY <1>1 DEF KeptInv, LoadedInv, Wanted
      <3>6. QED BY <1>2, <2>1, <3>2, <3>3, <3>4, <3>5
    <2>2. CASE b # a
      <3>1. WillHave(b, k)' <=> WillHave(b, k)
        BY <1>1, <1>3, <2>2 DEF WillHave
      <3>2. b \in clientData /\ k \in callbacks[b] => (k \in loaded' <=> k \in loaded)
        BY <1>1, <1>2 DEF KeptInv, LoadedInv
      <3>3. Wanted(b, k)' <=> Wanted(b, k)
        BY <1>1, <1>2, <2>2, <3>2 DEF Wanted
      <3>4. QED BY <1>2, <2>2, <3>1, <3>3 DEF KeptInv, AgreeInv
    <2>3. QED BY <2>1, <2>2
  <1>7. AgreeInv'
    BY <1>6 DEF AgreeInv
  <1>8. QED BY <1>4, <1>5, <1>7 DEF KeptInv

LEMMA DestroyKeeps ==
    ASSUME SafeInv, KeptInv, NEW a \in Apis, NEW cb \in BOOLEAN, destroy(a, cb)
    PROVE  KeptInv'
  <1>1. /\ owner[a] = "using"
        /\ send("remove", a, removeFrom(a))
        /\ clientData' = clientData \ {a}
        /\ owner' = [owner EXCEPT ![a] = IF cb THEN "leaving" ELSE "freed"]
        /\ UNCHANGED <<loaded, callbacks, mClientData, dropped>>
        /\ IF cb /\ removeFrom(a) # {}
           THEN /\ destroyClientData' = destroyClientData \cup {a}
                /\ waitAdapterMask' = [waitAdapterMask EXCEPT ![a] = removeFrom(a)]
           ELSE UNCHANGED <<destroyClientData, waitAdapterMask>>
    BY DEF destroy, interfaces, destroying
  <1>2. /\ removeFrom(a) \in SUBSET Kinds
        /\ \A k \in Kinds : k \in removeFrom(a) <=> k \in callbacks[a] /\ k \in loaded
    BY DEF SafeInv, TypeOK, removeFrom
  <1>3. \A b, k : /\ Removing(b, k)' <=> Removing(b, k) \/ (b = a /\ k \in removeFrom(a))
                  /\ Adding(b, k)' <=> Adding(b, k)
    BY <1>1, <1>2, SentAbout
  <1>4. /\ \A k \in Kinds : WillHave(a, k) => k \in removeFrom(a) \/ k \in dropped[a]
        /\ removeFrom(a) \cap dropped[a] = {} /\ a \in clientData
    <2>1. a \in clientData
      BY <1>1 DEF SafeInv, OwnerInv
    <2>2. QED BY <1>2, <2>1 DEF KeptInv, AgreeInv, LoadedInv, Wanted, removeFrom
  <1>5. LoadedInv'
    BY <1>1 DEF KeptInv, LoadedInv
  <1>6. WaitInv'
    <2>1. \A i \in DOMAIN msgs' : \/ i \in DOMAIN msgs /\ msgs'[i] = msgs[i]
                                  \/ msgs'[i].api = a /\ msgs'[i].at \in removeFrom(a)
      BY <1>1, <1>2, Sent DEF SafeInv, TypeOK
    <2>2. ASSUME NEW i \in DOMAIN msgs, msgs[i].api = a
          PROVE  msgs[i].at \in removeFrom(a) \/ msgs[i].at \in dropped[a]
      <3>1. msgs[i].at \in Kinds /\ msgs[i].do = "add" /\ Adding(a, msgs[i].at)
        BY <1>1, <2>2, SafeFacts DEF Adding, About
      <3>2. WillHave(a, msgs[i].at)
        BY <1>1, <3>1, UsingFacts DEF WillHave
      <3>3. QED BY <1>4, <3>1, <3>2
    <2>3. /\ owner'[a] = IF cb THEN "leaving" ELSE "freed"
          /\ \A b \in Apis : b # a => owner'[b] = owner[b]
      BY <1>1 DEF SafeInv, TypeOK
    <2>4. ASSUME NEW i \in DOMAIN msgs'
          PROVE  \/ owner'[msgs'[i].api] \in {"using", "freed"}
                 \/ /\ msgs'[i].api \in destroyClientData'
                    /\ msgs'[i].at \in waitAdapterMask'[msgs'[i].api]
                 \/ msgs'[i].at \in dropped'[msgs'[i].api]
      <3>1. CASE msgs'[i].api = a
        <4>1. msgs'[i].at \in removeFrom(a) \/ msgs'[i].at \in dropped'[a]
          BY <1>1, <2>1, <2>2, <3>1
        <4>2. CASE cb /\ msgs'[i].at \in removeFrom(a)
          <5>1. a \in destroyClientData' /\ waitAdapterMask'[a] = removeFrom(a)
            BY <1>1, <4>2 DEF SafeInv, TypeOK
          <5>2. QED BY <3>1, <4>2, <5>1
        <4>3. CASE ~cb
          BY <2>3, <3>1, <4>3
        <4>4. QED BY <3>1, <4>1, <4>2, <4>3
      <3>2. CASE msgs'[i].api # a
        <4>1. i \in DOMAIN msgs /\ msgs'[i] = msgs[i] /\ msgs[i].api \in Apis
          BY <2>1, <3>2, SafeFacts
        <4>2. owner'[msgs[i].api] = owner[msgs[i].api]
          BY <2>3, <3>2, <4>1
        <4>3. waitAdapterMask'[msgs[i].api] = waitAdapterMask[msgs[i].api]
          BY <1>1, <3>2, <4>1 DEF SafeInv, TypeOK
        <4>4. destroyClientData \subseteq destroyClientData'
          BY <1>1
        <4>5. QED BY <1>1, <4>1, <4>2, <4>3, <4>4 DEF KeptInv, WaitInv
      <3>3. QED BY <3>1, <3>2
    <2>5. QED BY <2>4 DEF WaitInv
  <1>7. AgreeInv'
    <2>1. ASSUME NEW b \in Apis, NEW k \in Kinds
          PROVE  WillHave(b, k)' <=> Wanted(b, k)' \/ k \in dropped'[b]
      <3>1. CASE b = a
        <4>1. WillHave(b, k)' <=> WillHave(a, k) /\ k \notin removeFrom(a)
          BY <1>1, <1>3, <3>1 DEF WillHave
        <4>2. ~Wanted(b, k)'
          BY <1>1, <3>1 DEF Wanted
        <4>3. k \in dropped[a] => WillHave(a, k)
          BY DEF KeptInv, AgreeInv
        <4>4. QED BY <1>1, <1>4, <3>1, <4>1, <4>2, <4>3
      <3>2. CASE b # a
        <4>1. WillHave(b, k)' <=> WillHave(b, k)
          BY <1>1, <1>3, <3>2 DEF WillHave
        <4>2. Wanted(b, k)' <=> Wanted(b, k)
          BY <1>1, <3>2 DEF Wanted
        <4>3. QED BY <1>1, <3>2, <4>1, <4>2 DEF KeptInv, AgreeInv
      <3>3. QED BY <3>1, <3>2
    <2>2. QED BY <2>1 DEF AgreeInv
  <1>8. QED BY <1>5, <1>6, <1>7 DEF KeptInv

LEMMA HandledKeeps ==
    ASSUME SafeInv, KeptInv, ProcMsg
    PROVE  KeptInv'
  <1>1. PICK m : m = Head(msgs)
    OBVIOUS
  <1> DEFINE a == m.api
             k == m.at
             rest == waitAdapterMask[a] \ {k}
  <1>2. /\ msgs # <<>> /\ msgs' = Tail(msgs)
        /\ UNCHANGED <<loaded, clientData, callbacks, owner, dropped>>
        /\ \/ /\ m.do = "add" /\ mClientData' = [mClientData EXCEPT ![k] = @ \cup {a}]
              /\ UNCHANGED <<destroyClientData, waitAdapterMask>>
           \/ /\ m.do = "remove" /\ mClientData' = [mClientData EXCEPT ![k] = @ \ {a}]
              /\ UNCHANGED <<destroyClientData, waitAdapterMask>>
           \/ /\ m.do = "remove" /\ mClientData' = [mClientData EXCEPT ![k] = @ \ {a}]
              /\ a \in destroyClientData
              /\ destroyClientData' =
                    IF rest = {} THEN destroyClientData \ {a} ELSE destroyClientData
              /\ waitAdapterMask' = [waitAdapterMask EXCEPT ![a] = rest]
    BY <1>1, Zenon DEF ProcMsg, saveClient, eraseClient, onRemoveClientCompleteCb,
                       interfaces, clients, destroying
  <1>3. /\ m \in Msg /\ 1 \in DOMAIN msgs /\ msgs[1] = m
        /\ \A i \in DOMAIN msgs' : i + 1 \in DOMAIN msgs /\ 1 < i + 1 /\ msgs'[i] = msgs[i + 1]
    BY <1>1, <1>2, Handled DEF SafeInv, TypeOK
  <1>4. a \in Apis /\ k \in Kinds
    BY <1>3 DEF Msg
  <1>5. \A b, j :
           /\ ~(b = a /\ j = k) =>
                 /\ Removing(b, j)' <=> Removing(b, j)
                 /\ Adding(b, j)' <=> Adding(b, j)
           /\ b = a /\ j = k /\ m.do = "add" =>
                 Adding(b, j) /\ (Removing(b, j)' <=> Removing(b, j))
           /\ b = a /\ j = k /\ m.do = "remove" =>
                 Removing(b, j) /\ ~Removing(b, j)' /\ ~Adding(b, j)'
    BY <1>1, <1>2, HandledAbout, Zenon
  <1>6. /\ m.do = "add" => a \in mClientData'[k]
        /\ m.do = "remove" => a \notin mClientData'[k]
        /\ \A b, j \in Kinds \cup Apis : j \in Kinds /\ ~(b = a /\ j = k) =>
              (b \in mClientData'[j] <=> b \in mClientData[j])
    BY <1>2, <1>4 DEF SafeInv, TypeOK
  <1>7. LoadedInv'
    BY <1>2 DEF KeptInv, LoadedInv
  <1>8. AgreeInv'
    <2>1. ASSUME NEW b \in Apis, NEW j \in Kinds
          PROVE  WillHave(b, j)' <=> WillHave(b, j)
      <3>1. CASE b = a /\ j = k
        BY <1>2, <1>5, <1>6, <3>1 DEF WillHave
      <3>2. CASE ~(b = a /\ j = k)
        BY <1>5, <1>6, <3>2 DEF WillHave
      <3>3. QED BY <3>1, <3>2
    <2>2. QED BY <1>2, <2>1 DEF KeptInv, AgreeInv, Wanted
  <1>9. WaitInv'
    <2>1. SUFFICES ASSUME NEW i \in DOMAIN msgs', owner[msgs'[i].api] \notin {"using", "freed"},
                          msgs'[i].at \notin dropped[msgs'[i].api]
                   PROVE  /\ msgs'[i].api \in destroyClientData'
                          /\ msgs'[i].at \in waitAdapterMask'[msgs'[i].api]
      BY <1>2 DEF WaitInv
    <2>2. /\ msgs'[i].api \in Apis /\ msgs'[i].api \in destroyClientData
          /\ msgs'[i].at \in waitAdapterMask[msgs'[i].api]
      BY <1>3, <2>1, SafeFacts DEF KeptInv, WaitInv
    <2>3. m.do = "remove" /\ msgs'[i].api = a => msgs'[i].at # k
      BY <1>3 DEF SafeInv, RemovalInv, About
    <2>4. CASE UNCHANGED <<destroyClientData, waitAdapterMask>>
      BY <2>2, <2>4
    <2>5. CASE /\ m.do = "remove"
               /\ destroyClientData' =
                     IF rest = {} THEN destroyClientData \ {a} ELSE destroyClientData
               /\ waitAdapterMask' = [waitAdapterMask EXCEPT ![a] = rest]
      <3>1. waitAdapterMask'[a] = rest
            /\ \A b \in Apis : b # a => waitAdapterMask'[b] = waitAdapterMask[b]
        BY <1>4, <2>5 DEF SafeInv, TypeOK
      <3>2. CASE msgs'[i].api = a
        <4>1. msgs'[i].at \in rest
          BY <2>2, <2>3, <2>5, <3>2
        <4>2. QED BY <2>2, <2>5, <3>1, <3>2, <4>1
      <3>3. CASE msgs'[i].api # a
        BY <2>2, <2>5, <3>1, <3>3
      <3>4. QED BY <3>2, <3>3
    <2>6. QED BY <1>2, <2>4, <2>5
  <1>10. QED BY <1>7, <1>8, <1>9 DEF KeptInv

(* Of a client that is called back only additions are left in the queue     *)
(* that its other callbacks had outlived.                                   *)
LEMMA CallKeeps ==
    ASSUME SafeInv, KeptInv, NEW a \in Apis, destroyCompleteCb(a)
    PROVE  KeptInv'
  <1>1. /\ a \in onAdapter \cup onCaller
        /\ owner' = [owner EXCEPT ![a] = "told"]
        /\ UNCHANGED <<loaded, clientData, callbacks, destroyClientData,
                       waitAdapterMask, msgs, mClientData, dropped>>
    BY DEF destroyCompleteCb, finish, interfaces, clients, destroying
  <1>2. \A i \in DOMAIN msgs : /\ msgs[i].api \in Apis
                               /\ msgs[i].api = a => msgs[i].at \in dropped[a]
    BY <1>1, SafeFacts DEF SafeInv, OwnerInv, KeptInv, WaitInv
  <1>3. \A b \in Apis : b # a => owner'[b] = owner[b]
    BY <1>1 DEF SafeInv, TypeOK
  <1>4. WaitInv'
    BY <1>1, <1>2, <1>3 DEF KeptInv, WaitInv
  <1>5. LoadedInv' /\ AgreeInv'
    BY <1>1 DEF KeptInv, LoadedInv, AgreeInv, Wanted, WillHave, Removing, Adding, About
  <1>6. QED BY <1>4, <1>5 DEF KeptInv

LEMMA InitKept == Init => KeptInv
  BY DEF Init, KeptInv, LoadedInv, WaitInv, AgreeInv, Wanted, WillHave, Adding

LEMMA NextKept == SafeInv /\ KeptInv /\ [Next]_vars => KeptInv'
  <1> SUFFICES ASSUME SafeInv, KeptInv, [Next]_vars PROVE KeptInv'
    OBVIOUS
  <1>1. SafeInv'
    BY NextSafe
  <1>2. ASSUME NEW a \in Apis, NEW ks \in SUBSET Kinds, createInstance(a, ks)
        PROVE  KeptInv'
    <2>1. owner[a] \notin {"leaving", "freed"}
      BY <1>2 DEF createInstance, SafeInv, OwnerInv
    <2>2. QED BY <1>1, <1>2, <2>1, RegisterKeeps DEF createInstance
  <1>3. ASSUME NEW a \in Apis, NEW ks \in SUBSET Kinds, updateCallbacks(a, ks)
        PROVE  KeptInv'
    <2>1. owner[a] = "using" /\ UNCHANGED owner /\ register(a, ks)
      BY <1>3 DEF updateCallbacks
    <2>2. owner' = [owner EXCEPT ![a] = "using"]
      BY <2>1 DEF SafeInv, TypeOK
    <2>3. QED BY <1>1, <2>1, <2>2, RegisterKeeps
  <1>4. ASSUME NEW a \in Apis, NEW cb \in BOOLEAN, destroy(a, cb)
        PROVE  KeptInv'
    BY <1>4, DestroyKeeps
  <1>5. ASSUME NEW a \in Apis, destroyCompleteCb(a)
        PROVE  KeptInv'
    BY <1>5, CallKeeps
  <1>6. CASE ProcMsg
    BY <1>6, HandledKeeps
  <1>7. CASE UNCHANGED vars
    BY <1>7 DEF vars, interfaces, clients, destroying, KeptInv, LoadedInv, WaitInv, AgreeInv,
       Wanted, WillHave, Removing, Adding, About
  <1>8. QED BY <1>2, <1>3, <1>4, <1>5, <1>6, <1>7 DEF Next

LEMMA KeptHolds == Spec => []KeptInv
  <1>1. SafeInv /\ KeptInv /\ [Next]_vars => KeptInv'
    BY NextKept
  <1>2. QED BY <1>1, InitKept, SafeHolds, PTL DEF Spec

(* A client that is told of its destruction is in no adapter and in no      *)
(* message to one, but in those of the kinds that it left out in a call of  *)
(* updateCallbacks: the code never takes it off an adapter there.           *)
THEOREM ToldWhenForgotten == Spec => []ToldAfterRemoval
  <1>1. ASSUME SafeInv, KeptInv PROVE ToldAfterRemoval
    <2>1. SUFFICES ASSUME NEW a \in Apis, owner[a] = "told"
                   PROVE  /\ \A k \in Kinds \ dropped[a] : a \notin mClientData[k]
                          /\ \A i \in DOMAIN msgs :
                                msgs[i].api = a => msgs[i].at \in dropped[a]
      BY DEF ToldAfterRemoval
    <2>2. a \notin clientData /\ a \notin destroyClientData
      BY <1>1, <2>1 DEF SafeInv, OwnerInv
    <2>3. \A k \in Kinds \ dropped[a] : a \notin mClientData[k]
      BY <1>1, <2>1, <2>2, UsingFacts DEF Wanted
    <2>4. \A i \in DOMAIN msgs : msgs[i].api = a => msgs[i].at \in dropped[a]
      BY <1>1, <2>1, <2>2 DEF KeptInv, WaitInv
    <2>5. QED BY <2>3, <2>4
  <1>2. QED BY <1>1, SafeHolds, KeptHolds, PTL

(* With nothing left to handle, an adapter that is loaded has exactly the   *)
(* clients whose callbacks ask for it and those that left them out.         *)
THEOREM AdaptersAgreeAtRest == Spec => []AdaptersAgree
  <1>1. ASSUME SafeInv, KeptInv, msgs = <<>>, NEW k \in loaded
        PROVE  mClientData[k] = {a \in clientData : k \in callbacks[a]}
                                \cup {a \in Apis : k \in dropped[a]}
    <2>1. k \in Kinds /\ mClientData[k] \subseteq Apis /\ clientData \subseteq Apis
      BY <1>1 DEF SafeInv, TypeOK
    <2>2. \A a \in Apis : WillHave(a, k) <=> a \in mClientData[k]
      BY <1>1 DEF WillHave, Removing, Adding
    <2>3. QED BY <1>1, <2>1, <2>2 DEF KeptInv, AgreeInv, Wanted
  <1>2. SafeInv /\ KeptInv => AdaptersAgree
    BY <1>1 DEF AdaptersAgree
  <1>3. QED BY <1>2, SafeHolds, KeptHolds, PTL
=============================================================================
