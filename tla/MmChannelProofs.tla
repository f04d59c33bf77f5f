--------------------------- MODULE MmChannelProofs ---------------------------
(***************************************************************************)
(* What is proved of MmChannel for every set of streams, every attribute   *)
(* of the channel and every bound.  The invariant has four parts: the      *)
(* types, the queue of super buffers as the command thread keeps it, the   *)
(* places where a buffer can be, and the progress of the HAL's call.       *)
(***************************************************************************)
EXTENDS MmChannel, FiniteSetTheorems, SequenceTheorems, NaturalsInduction,
        WellFoundedInduction, TLAPS

(* Types. *)
Pairs == Streams \X Bufs
Slot == [buf : Bufs \cup {NoBuf}, frame_idx : Nat]
Node == [frame_idx : Nat \ {0}, slot : [Streams -> Slot], matched : BOOLEAN,
         expected_frame : BOOLEAN, unmatched_meta_idx : Nat]
Channel == [queue : Seq(Node), match_cnt : Nat, expected_frame_id : Nat, good_frame_id : Nat,
            pending_cnt : Nat, pending_retro_cnt : Nat, bWaitForPrepSnapshotDone : BOOLEAN,
            needLEDFlash : BOOLEAN, bracketing : BOOLEAN, startZSlSnapshotCalled : BOOLEAN,
            diverted_frame_id : Nat]
AnyInfo == Infos \cup {Plain}
Frame == [s : Streams, b : Bufs, f : Nat \ {0}, info : AnyInfo]
Cmd == [cmd : {"DATA_CB"}, s : Streams, b : Bufs, f : Nat \ {0}, info : AnyInfo]
       \cup [cmd : {"REQ_DATA_CB"}, n : Nat, retro : Nat]
       \cup [cmd : {"FLUSH_QUEUE"}, frame_idx : Nat]
Super == [slot : [Streams -> Slot], bReadyForPrepareSnapshot : BOOLEAN]
Call == [op : {"none", "flush", "start", "off", "join", "ack", "exit"},
         at : 1 .. Len(StartOrder), ack : BOOLEAN]

TypesOk ==
  /\ attr \in Attrs
  /\ ch \in Channel
  /\ crashed \in BOOLEAN /\ alive \in BOOLEAN /\ prep \in BOOLEAN
  /\ api \in Call
  /\ state \in [Streams -> {"REG", "ACTIVE", "OFF"}]
  /\ kernel \in [Streams -> SUBSET Bufs]
  /\ frame \in [Streams -> Nat]
  /\ refcnt \in [Streams -> [Bufs -> Nat]]
  /\ poll \in Frame \cup {Idle}
  /\ cmdq \in Seq(Cmd)
  /\ cbq \in Seq(Super)
  /\ strq \in [Streams -> Seq(Bufs)]
  /\ hal \subseteq Pairs /\ app \subseteq Pairs
  /\ asked \in Nat /\ calls \in Nat /\ runs \in Nat

-----------------------------------------------------------------------------
(* The queue of super buffers. *)

(* The matched nodes are the first match_cnt ones. *)
MatchedPrefix(c) ==
  /\ c.match_cnt <= Len(c.queue)
  /\ \A i \in 1 .. Len(c.queue) : c.queue[i].matched <=> i <= c.match_cnt

(* What a node says of its slots.  In a low priority queue a node that only *)
(* has metadata may still take its index from another stream.               *)
NodeOk(n) ==
  /\ \A s \in Streams :
       /\ n.slot[s].frame_idx # 0 <=> n.slot[s].buf # NoBuf
       /\ n.slot[s].frame_idx # 0 /\ (Low => s # Meta) => n.slot[s].frame_idx = n.frame_idx
  /\ n.matched <=> allMatched(n.slot)
  /\ \E s \in Streams : n.slot[s].frame_idx # 0
  /\ ~Low => n.unmatched_meta_idx = 0
  /\ n.unmatched_meta_idx > 0 =>
       /\ n.unmatched_meta_idx = n.frame_idx
       /\ n.slot[Meta].frame_idx = n.frame_idx
       /\ \A s \in Streams \ {Meta} : n.slot[s].frame_idx = 0
  /\ Low /\ n.unmatched_meta_idx = 0 => \E t \in Streams \ {Meta} : n.slot[t].frame_idx # 0

(* No buffer is in two nodes.                                               *)
Once(q) ==
  \A i, j \in 1 .. Len(q) : \A s \in Streams :
    q[i].slot[s].buf # NoBuf /\ q[i].slot[s].buf = q[j].slot[s].buf => i = j

(* P holds <<s, g>> when no frame of s up to g is still to come.            *)
SlotsPassed(q, P) ==
  \A i \in 1 .. Len(q) : \A s \in Streams :
    q[i].slot[s].frame_idx # 0 => <<s, q[i].slot[s].frame_idx>> \in P

(* The unmatched nodes are in the order of their indices, but for a node    *)
(* that was renamed and can never be completed: a stream has passed it.     *)
Missed(n, P) ==
  /\ Low /\ n.unmatched_meta_idx = 0 /\ n.slot[Meta].frame_idx # 0
  /\ \E t \in Streams \ {Meta} : n.slot[t].frame_idx = 0 /\ <<t, n.frame_idx>> \in P
Ordered(q, P) ==
  \A i, j \in 1 .. Len(q) :
    i < j /\ ~q[i].matched /\ ~q[j].matched /\ q[i].frame_idx > q[j].frame_idx => Missed(q[j], P)

Bounded(c) == Len(c.queue) - c.match_cnt <= attr.max_unmatched_frames + 1

QueueOk(c, P) ==
  /\ c \in Channel
  /\ MatchedPrefix(c)
  /\ \A i \in 1 .. Len(c.queue) : NodeOk(c.queue[i])
  /\ Once(c.queue)
  /\ SlotsPassed(c.queue, P)
  /\ Ordered(c.queue, P)
  /\ Bounded(c)

-----------------------------------------------------------------------------
(* Where frames and buffers are. *)

(* Frames of s up to g have all been handed to the queue, or lost.          *)
Behind(s, g) ==
  /\ g <= frame[s]
  /\ poll # Idle /\ poll.s = s => g < poll.f
  /\ \A i \in 1 .. Len(cmdq) : cmdq[i].cmd = "DATA_CB" /\ cmdq[i].s = s => g < cmdq[i].f
  /\ api.op = "start" => state[s] = "ACTIVE"
Passed == {p \in Streams \X Nat : Behind(p[1], p[2])}

(* Frames of one stream are handed on in the order in which they came.      *)
InOrder ==
  /\ \A i \in 1 .. Len(cmdq) : cmdq[i].cmd = "DATA_CB" =>
       /\ cmdq[i].f <= frame[cmdq[i].s]
       /\ poll # Idle /\ poll.s = cmdq[i].s => cmdq[i].f < poll.f
       /\ \A j \in 1 .. Len(cmdq) :
            i < j /\ cmdq[j].cmd = "DATA_CB" /\ cmdq[j].s = cmdq[i].s => cmdq[i].f < cmdq[j].f
  /\ poll # Idle => poll.f <= frame[poll.s]

InQueue == buffersOf(ch.queue, 1 .. Len(ch.queue))
InCmds == {p \in Pairs : \E i \in 1 .. Len(cmdq) :
             cmdq[i].cmd = "DATA_CB" /\ cmdq[i].s = p[1] /\ cmdq[i].b = p[2]}
InSupers == {p \in Pairs : \E i \in 1 .. Len(cbq) : cbq[i].slot[p[1]].buf = p[2]}
InThreads == {p \in Pairs : \E i \in 1 .. Len(strq[p[1]]) : strq[p[1]][i] = p[2]}
InPoll == IF poll = Idle THEN {} ELSE {<<poll.s, poll.b>>}
InPollApp == {p \in InPoll : p[1] \in AppStreams}

(* The channel's use of a buffer, and that of its stream's own callback.    *)
Lent == InPoll \cup InCmds \cup InQueue \cup InSupers \cup hal
LentApp == InPollApp \cup InThreads \cup app

(* Each use is in one place.                                                *)
UniqueCmds ==
  \A i, j \in 1 .. Len(cmdq) :
    cmdq[i].cmd = "DATA_CB" /\ cmdq[j].cmd = "DATA_CB" /\ cmdq[i].s = cmdq[j].s
    /\ cmdq[i].b = cmdq[j].b => i = j
UniqueSupers ==
  \A i, j \in 1 .. Len(cbq) : \A s \in Streams : cbq[i].slot[s].buf = cbq[j].slot[s].buf => i = j
UniqueThreads ==
  \A s \in Streams : \A i, j \in 1 .. Len(strq[s]) : strq[s][i] = strq[s][j] => i = j
Disjoint ==
  /\ InPoll \cap (InCmds \cup InQueue \cup InSupers \cup hal) = {}
  /\ InCmds \cap (InQueue \cup InSupers \cup hal) = {}
  /\ InQueue \cap (InSupers \cup hal) = {}
  /\ InSupers \cap hal = {}
  /\ InPollApp \cap (InThreads \cup app) = {}
  /\ InThreads \cap app = {}
OnePlace == UniqueCmds /\ UniqueSupers /\ UniqueThreads /\ Disjoint

(* A super buffer on its way to the HAL is complete and of one frame.       *)
SuperOk(slot) ==
  /\ \A s \in Streams : slot[s].buf \in Bufs
  /\ \A s, t \in Streams : (Low => s # Meta /\ t # Meta) => slot[s].frame_idx = slot[t].frame_idx
Supers == \A i \in 1 .. Len(cbq) : SuperOk(cbq[i].slot)

Uses(p) == (IF p \in Lent THEN 1 ELSE 0) + (IF p \in LentApp THEN 1 ELSE 0)
Counted ==
  \A s \in Streams : \A b \in Bufs :
    /\ state[s] \in {"ACTIVE", "OFF"} => refcnt[s][b] = Uses(<<s, b>>)
    /\ state[s] = "ACTIVE" => (b \in kernel[s] <=> refcnt[s][b] = 0)

-----------------------------------------------------------------------------
(* The progress of the HAL's call. *)

AllIn(st) == \A s \in Streams : state[s] = st
Phase ==
  /\ \A s \in Streams : state[s] = "REG" => strq[s] = <<>>
  /\ api.op \in {"none", "flush"} /\ alive => AllIn("ACTIVE")
  /\ api.op = "none" /\ ~alive =>
       /\ AllIn("REG") /\ ch.queue = <<>>
       /\ ~crashed => cmdq = <<>> /\ cbq = <<>>
  /\ api.op \in {"flush", "start", "off", "join", "ack"} => alive
  /\ api.op = "start" =>
       /\ \A i \in 1 .. Len(StartOrder) :
            state[StartOrder[i]] = IF i < api.at THEN "ACTIVE" ELSE "REG"
       /\ \A s \in Streams : state[s] = "REG" =>
            \A b \in Bufs : <<s, b>> \notin Lent /\ <<s, b>> \notin LentApp
  /\ api.op = "off" => \A i \in 1 .. Len(StartOrder) :
       state[stopOrder[i]] = IF i < api.at THEN "REG" ELSE "ACTIVE"
  /\ api.op = "join" => \A i \in 1 .. Len(StartOrder) :
       state[stopOrder[i]] = IF i < api.at THEN "REG" ELSE IF i = api.at THEN "OFF" ELSE "ACTIVE"
  /\ api.op = "ack" => AllIn("REG")
  /\ api.op = "exit" => ~alive /\ AllIn("REG")
  /\ crashed => ~alive

Kept ==
  /\ Burst => ch.match_cnt <= attr.water_mark
  /\ ch.pending_cnt > 0 /\ ~ch.bWaitForPrepSnapshotDone => ch.match_cnt = 0

Inv == TypesOk /\ QueueOk(ch, Passed) /\ InOrder /\ OnePlace /\ Supers /\ Counted /\ Phase /\ Kept

-----------------------------------------------------------------------------
(* Operators on sets and sequences. *)

(* Every set of natural numbers has a least element.                        *)
LEMMA MinOf ==
  ASSUME NEW T \in SUBSET Nat, T # {}
  PROVE  Min(T) \in T /\ \A y \in T : Min(T) <= y
  <1> DEFINE R == StrictSubsetOrdering(Nat)
             Below == {0 .. n : n \in T}
  <1>1. IsWellFoundedOn(R, FiniteSubsetsOf(Nat))
    BY FS_StrictSubsetOrderingWellFounded
  <1>2. Below \subseteq FiniteSubsetsOf(Nat) /\ Below # {}
    <2>1. \A n \in Nat : IsFiniteSet(0 .. n) /\ 0 .. n \subseteq Nat
      BY FS_Interval
    <2> QED BY <2>1 DEF FiniteSubsetsOf
  <1>3. PICK t \in Below : \A u \in Below : ~(<<u, t>> \in R)
    <2> HIDE DEF R, Below
    <2> QED BY <1>1, <1>2, WFMin
  <1>4. PICK n \in T : t = 0 .. n
    OBVIOUS
  <1>5. ASSUME NEW m \in T, ~(n <= m) PROVE FALSE
    <2>1. 0 .. m \subseteq 0 .. n /\ 0 .. m # 0 .. n
      BY <1>5
    <2>2. <<0 .. m, t>> \in R
      BY <1>4, <2>1 DEF StrictSubsetOrdering
    <2> QED BY <1>3, <2>2
  <1>6. \E x \in T : \A y \in T : x <= y
    BY <1>5
  <1> QED BY <1>6 DEF Min

LEMMA MaxOf ==
  ASSUME NEW n \in Nat, NEW T \in SUBSET (0 .. n), T # {}
  PROVE  Max(T) \in T /\ \A y \in T : y <= Max(T)
  <1> DEFINE U == {m \in 0 .. n : \A x \in T : x <= m}
  <1>1. U \in SUBSET Nat /\ n \in U
    OBVIOUS
  <1>2. PICK m \in U : \A y \in U : m <= y
    <2> HIDE DEF U
    <2> QED BY <1>1, MinOf
  <1>3. m \in T
    <2> SUFFICES ASSUME m \notin T PROVE FALSE
      OBVIOUS
    <2>1. m \in 0 .. n /\ \A x \in T : x \in 0 .. n /\ x <= m /\ x # m
      OBVIOUS
    <2>2. \A x \in T : x <= m - 1
      BY <2>1
    <2>3. m - 1 \in 0 .. n
      <3>1. PICK x \in T : TRUE
        OBVIOUS
      <3> QED BY <2>1, <2>2, <3>1
    <2> QED BY <1>2, <2>2, <2>3
  <1>4. \E x \in T : \A y \in T : x >= y
    <2>1. \A y \in T : y <= m /\ y \in 0 .. n /\ m \in 0 .. n
      OBVIOUS
    <2> QED BY <1>3, <2>1
  <1> QED BY <1>4 DEF Max

LEMMA IntervalSize ==
  ASSUME NEW a \in Int, NEW b \in Int, a <= b + 1
  PROVE  IsFiniteSet(a .. b) /\ Cardinality(a .. b) = b - a + 1
  <1>1. IsFiniteSet(a .. b) /\ Cardinality(a .. b) = IF a > b THEN 0 ELSE b - a + 1
    BY FS_Interval
  <1> QED BY <1>1

(* The nodes lo .. hi of a queue without a .. b, in their order.            *)
Gap(lo, hi, a, b) == (lo .. hi) \ (a .. b)
GapSize(lo, hi, a, b) == hi - lo + 1 - (b - a + 1)
GapIndex(lo, a, b, k) == IF k <= a - lo THEN lo + k - 1 ELSE lo + k - 1 + (b - a + 1)

LEMMA GapRank ==
  ASSUME NEW lo \in Nat, NEW hi \in Nat, NEW a \in Nat, NEW b \in Nat,
         lo <= a, a <= b + 1, b <= hi, NEW i \in Gap(lo, hi, a, b)
  PROVE  rank(Gap(lo, hi, a, b), i) = IF i < a THEN i - lo + 1 ELSE i - lo + 1 - (b - a + 1)
  <1> DEFINE J == {j \in Gap(lo, hi, a, b) : j <= i}
  <1>1. i \in lo .. hi /\ (i < a \/ b < i)
    BY DEF Gap
  <1>2. CASE i < a
    <2>1. J = lo .. i
      BY <1>1, <1>2 DEF Gap
    <2>2. Cardinality(lo .. i) = i - lo + 1
      BY <1>1, IntervalSize
    <2> QED BY <1>2, <2>1, <2>2 DEF rank
  <1>3. CASE b < i
    <2>1. J = (lo .. i) \ (a .. b) /\ (lo .. i) \cap (a .. b) = a .. b
      BY <1>1, <1>3 DEF Gap
    <2>2. Cardinality(lo .. i) = i - lo + 1 /\ Cardinality(a .. b) = b - a + 1
      BY <1>1, IntervalSize
    <2>3. Cardinality((lo .. i) \ (a .. b)) =
            Cardinality(lo .. i) - Cardinality((lo .. i) \cap (a .. b))
      <3>1. IsFiniteSet(lo .. i)
        BY <1>1, IntervalSize
      <3> QED BY <3>1, FS_Difference, Zenon
    <2>4. rank(Gap(lo, hi, a, b), i) = Cardinality(J)
      BY DEF rank
    <2>5. (lo .. i) \cap (a .. b) = a .. b
      BY <2>1
    <2> HIDE DEF J
    <2>6. Cardinality(J) = Cardinality(lo .. i) - Cardinality(a .. b)
      BY <2>1, <2>3, <2>5, Zenon
    <2> QED BY <1>1, <1>3, <2>2, <2>4, <2>6
  <1> QED BY <1>1, <1>2, <1>3

LEMMA KeepGap ==
  ASSUME NEW q, NEW lo \in Nat, NEW hi \in Nat, NEW a \in Nat, NEW b \in Nat,
         lo <= a, a <= b + 1, b <= hi
  PROVE  /\ Cardinality(Gap(lo, hi, a, b)) = GapSize(lo, hi, a, b)
         /\ \A k \in 1 .. GapSize(lo, hi, a, b) :
              keep(q, Gap(lo, hi, a, b))[k] = q[GapIndex(lo, a, b, k)]
  <1> DEFINE I == Gap(lo, hi, a, b)
             kept == hi - lo + 1 - (b - a + 1)
             at(k) == IF k <= a - lo THEN lo + k - 1 ELSE lo + k - 1 + (b - a + 1)
  <1>1. Cardinality(I) = kept
    <2>1. (lo .. hi) \cap (a .. b) = a .. b
      OBVIOUS
    <2>2. Cardinality(lo .. hi) = hi - lo + 1 /\ Cardinality(a .. b) = b - a + 1
      BY IntervalSize
    <2>3. IsFiniteSet(lo .. hi)
      BY IntervalSize
    <2>4. Cardinality((lo .. hi) \ (a .. b)) =
            Cardinality(lo .. hi) - Cardinality((lo .. hi) \cap (a .. b))
      BY <2>3, FS_Difference, Zenon
    <2>5. Cardinality(I) = Cardinality((lo .. hi) \ (a .. b))
      BY DEF Gap
    <2> HIDE DEF I
    <2>6. Cardinality(I) = Cardinality(lo .. hi) - Cardinality(a .. b)
      BY <2>1, <2>4, <2>5, Zenon
    <2> QED BY <2>2, <2>6
  <1>2. ASSUME NEW k \in 1 .. kept
        PROVE  (CHOOSE i \in I : rank(I, i) = k) = at(k)
    <2>1. at(k) \in I
      BY DEF Gap
    <2>2. rank(I, at(k)) = k
      BY <2>1, GapRank
    <2>3. \A i \in I : rank(I, i) = k => i = at(k)
      <3> SUFFICES ASSUME NEW i \in I, rank(I, i) = k PROVE i = at(k)
        OBVIOUS
      <3>1. k = IF i < a THEN i - lo + 1 ELSE i - lo + 1 - (b - a + 1)
        BY GapRank
      <3> QED BY <3>1 DEF Gap
    <2> HIDE DEF I, at
    <2> QED BY <2>1, <2>2, <2>3
  <1> HIDE DEF at
  <1>3. \A k \in 1 .. kept : keep(q, I)[k] = q[at(k)]
    BY <1>1, <1>2 DEF keep
  <1> QED BY <1>1, <1>3 DEF at, GapSize, GapIndex

LEMMA KeepTail ==
  ASSUME NEW q, NEW hi \in Nat, NEW m \in Nat, NEW e \in Nat, m <= e, e <= hi
  PROVE  /\ DOMAIN keep(q, Gap(1, hi, m + 1, e)) = 1 .. hi - (e - m)
         /\ \A k \in 1 .. hi - (e - m) :
              keep(q, Gap(1, hi, m + 1, e))[k] = q[IF k <= m THEN k ELSE k + e - m]
  <1> DEFINE lo == 1
             a == m + 1
             r == keep(q, Gap(lo, hi, a, e))
  <1>1. lo \in Nat /\ a \in Nat /\ lo <= a /\ a <= e + 1
    OBVIOUS
  <1>2. /\ DOMAIN r = 1 .. GapSize(lo, hi, a, e)
        /\ \A k \in 1 .. GapSize(lo, hi, a, e) : r[k] = q[GapIndex(lo, a, e, k)]
    <2> HIDE DEF a, lo
    <2>1. DOMAIN keep(q, Gap(lo, hi, a, e)) = 1 .. GapSize(lo, hi, a, e)
      <3>1. Cardinality(Gap(lo, hi, a, e)) = GapSize(lo, hi, a, e)
        BY <1>1, KeepGap
      <3> QED BY <3>1, Zenon DEF keep
    <2>2. ASSUME NEW k \in 1 .. GapSize(lo, hi, a, e)
          PROVE  keep(q, Gap(lo, hi, a, e))[k] = q[GapIndex(lo, a, e, k)]
      BY <1>1, KeepGap
    <2> QED BY <2>1, <2>2
  <1> HIDE DEF r
  <1>3. GapSize(1, hi, m + 1, e) = hi - (e - m)
    BY DEF GapSize
  <1>4. \A k \in 1 .. hi - (e - m) :
          GapIndex(1, m + 1, e, k) = IF k <= m THEN k ELSE k + e - m
    BY DEF GapIndex
  <1> QED BY <1>2, <1>3, <1>4 DEF r

-----------------------------------------------------------------------------
(* A queue that consists of nodes of another, in their order, and of at     *)
(* most one node n that is new or changed, at p (0: none).                  *)
Derived(q2, q, g, p, n) ==
  /\ q2 \in Seq(Node)
  /\ p \in 0 .. Len(q2) /\ (p # 0 => q2[p] = n)
  /\ \A k \in 1 .. Len(q2) : k # p => g[k] \in 1 .. Len(q) /\ q2[k] = q[g[k]]
  /\ \A k, l \in 1 .. Len(q2) : k < l /\ k # p /\ l # p => g[k] < g[l]

LEMMA MissedMonotone ==
  ASSUME NEW P, NEW P2, P \subseteq P2, NEW n, Missed(n, P)
  PROVE  Missed(n, P2)
  BY DEF Missed

LEMMA DerivedNodes ==
  ASSUME NEW P, NEW P2, P \subseteq P2, NEW q \in Seq(Node), NEW q2, NEW g, NEW p, NEW n,
         Derived(q2, q, g, p, n),
         \A i \in 1 .. Len(q) : NodeOk(q[i]),
         Once(q), SlotsPassed(q, P),
         p # 0 =>
           /\ NodeOk(n)
           /\ \A s \in Streams : n.slot[s].frame_idx # 0 => <<s, n.slot[s].frame_idx>> \in P2
           /\ \A k \in 1 .. Len(q2) : k # p => \A s \in Streams :
                q2[k].slot[s].buf # NoBuf => q2[k].slot[s].buf # n.slot[s].buf
  PROVE  /\ \A i \in 1 .. Len(q2) : NodeOk(q2[i])
         /\ Once(q2)
         /\ SlotsPassed(q2, P2)
  <1>1. ASSUME NEW i \in 1 .. Len(q2) PROVE NodeOk(q2[i])
    BY DEF Derived
  <1>2. SlotsPassed(q2, P2)
    <2> SUFFICES ASSUME NEW i \in 1 .. Len(q2), NEW s \in Streams, q2[i].slot[s].frame_idx # 0
                 PROVE  <<s, q2[i].slot[s].frame_idx>> \in P2
      BY DEF SlotsPassed
    <2>1. CASE i = p
      BY <2>1 DEF Derived
    <2>2. CASE i # p
      BY <2>2 DEF Derived, SlotsPassed
    <2> QED BY <2>1, <2>2
  <1>3. Once(q2)
    <2> SUFFICES ASSUME NEW i \in 1 .. Len(q2), NEW j \in 1 .. Len(q2), NEW s \in Streams,
                        q2[i].slot[s].buf # NoBuf, q2[i].slot[s].buf = q2[j].slot[s].buf,
                        i < j
                 PROVE  FALSE
      BY DEF Once
    <2>1. p # 0 => i # p /\ j # p
      BY DEF Derived
    <2>2. i # p /\ j # p
      BY <2>1
    <2>3. g[i] \in 1 .. Len(q) /\ g[j] \in 1 .. Len(q) /\ g[i] < g[j]
          /\ q2[i] = q[g[i]] /\ q2[j] = q[g[j]]
      BY <2>2 DEF Derived
    <2> QED BY <2>3 DEF Once
  <1> QED BY <1>1, <1>2, <1>3

LEMMA DerivedOrdered ==
  ASSUME NEW P, NEW P2, P \subseteq P2, NEW q \in Seq(Node), NEW q2, NEW g, NEW p, NEW n,
         Derived(q2, q, g, p, n), Ordered(q, P),
         p # 0 /\ ~n.matched =>
           /\ \A k \in 1 .. Len(q2) : k < p /\ ~q2[k].matched /\ q2[k].frame_idx > n.frame_idx
                => Missed(n, P2)
           /\ \A k \in 1 .. Len(q2) : p < k /\ ~q2[k].matched /\ n.frame_idx > q2[k].frame_idx
                => Missed(q2[k], P2)
  PROVE  Ordered(q2, P2)
  <1> SUFFICES ASSUME NEW i \in 1 .. Len(q2), NEW j \in 1 .. Len(q2), i < j,
                      ~q2[i].matched, ~q2[j].matched, q2[i].frame_idx > q2[j].frame_idx
               PROVE  Missed(q2[j], P2)
    BY DEF Ordered
  <1>1. CASE i = p
    BY <1>1 DEF Derived
  <1>2. CASE j = p
    BY <1>2 DEF Derived
  <1>3. CASE i # p /\ j # p
    <2>1. g[i] \in 1 .. Len(q) /\ g[j] \in 1 .. Len(q) /\ g[i] < g[j]
          /\ q2[i] = q[g[i]] /\ q2[j] = q[g[j]]
      BY <1>3 DEF Derived
    <2>2. Missed(q[g[j]], P)
      BY <2>1 DEF Ordered
    <2> QED BY <2>1, <2>2, MissedMonotone
  <1> QED BY <1>1, <1>2, <1>3

(* The buffers of such a queue. *)
LEMMA DerivedBuffers ==
  ASSUME NEW q \in Seq(Node), NEW q2, NEW g, NEW p, NEW n, Derived(q2, q, g, p, n)
  PROVE  \A x \in Pairs :
           x \in buffersOf(q2, 1 .. Len(q2)) <=>
             \/ p # 0 /\ n.slot[x[1]].frame_idx # 0 /\ n.slot[x[1]].buf = x[2]
             \/ \E k \in 1 .. Len(q2) : k # p /\ q[g[k]].slot[x[1]].frame_idx # 0
                                             /\ q[g[k]].slot[x[1]].buf = x[2]
  <1> TAKE x \in Pairs
  <1>1. x \in buffersOf(q2, 1 .. Len(q2)) <=>
          \E k \in 1 .. Len(q2) : q2[k].slot[x[1]].frame_idx # 0 /\ q2[k].slot[x[1]].buf = x[2]
    BY DEF buffersOf, Pairs
  <1>2. ASSUME x \in buffersOf(q2, 1 .. Len(q2))
        PROVE  \/ p # 0 /\ n.slot[x[1]].frame_idx # 0 /\ n.slot[x[1]].buf = x[2]
               \/ \E k \in 1 .. Len(q2) : k # p /\ q[g[k]].slot[x[1]].frame_idx # 0
                                               /\ q[g[k]].slot[x[1]].buf = x[2]
    <2>1. PICK k \in 1 .. Len(q2) : q2[k].slot[x[1]].frame_idx # 0 /\ q2[k].slot[x[1]].buf = x[2]
      BY <1>1, <1>2
    <2>2. CASE k = p
      BY <2>1, <2>2 DEF Derived
    <2>3. CASE k # p
      BY <2>1, <2>3 DEF Derived
    <2> QED BY <2>2, <2>3
  <1>3. ASSUME p # 0, n.slot[x[1]].frame_idx # 0, n.slot[x[1]].buf = x[2]
        PROVE  x \in buffersOf(q2, 1 .. Len(q2))
    <2>1. p \in 1 .. Len(q2) /\ q2[p] = n
      BY <1>3 DEF Derived
    <2> QED BY <1>1, <1>3, <2>1
  <1>4. ASSUME NEW k \in 1 .. Len(q2), k # p, q[g[k]].slot[x[1]].frame_idx # 0,
               q[g[k]].slot[x[1]].buf = x[2]
        PROVE  x \in buffersOf(q2, 1 .. Len(q2))
    <2>1. q2[k] = q[g[k]]
      BY <1>4 DEF Derived
    <2> QED BY <1>1, <1>4, <2>1
  <1> QED BY <1>2, <1>3, <1>4

-----------------------------------------------------------------------------
(* A frame that comes to the queue. *)
DownClosed(P) == P \subseteq Streams \X Nat
                 /\ \A s \in Streams : \A g, h \in Nat : <<s, g>> \in P /\ h <= g => <<s, h>> \in P
Fresh(P, s, f) == \A g \in Nat : f <= g => <<s, g>> \notin P

Arrival(c, P, s, b, f) ==
  /\ attr \in Attrs
  /\ QueueOk(c, P) /\ DownClosed(P)
  /\ s \in Streams /\ b \in Bufs /\ f \in Nat \ {0}
  /\ Fresh(P, s, f)
  /\ <<s, b>> \notin buffersOf(c.queue, 1 .. Len(c.queue))

(* The node old after frame f of s is in it.                                *)
IsFilled(n, old, s, b, f) ==
  /\ n \in Node
  /\ n.frame_idx = IF old.unmatched_meta_idx > 0 THEN f ELSE old.frame_idx
  /\ n.unmatched_meta_idx = 0
  /\ n.slot = [old.slot EXCEPT ![s] = [buf |-> b, frame_idx |-> f]]
  /\ n.matched <=> allMatched(n.slot)

(* P2 holds what P holds, and that frame f of s has been handed to the queue. *)
Extended(P2, P, s, f) == P \cup {<<s, f>>} \subseteq P2

(* What a frame is put into: the first unmatched node in which it fits; the *)
(* unmatched ones before it that are older than the frame.                  *)
Place(c, s, f, pos, older) ==
  /\ pos \in 1 .. Len(c.queue) /\ ~c.queue[pos].matched /\ Fits(c.queue[pos], s, f)
  /\ \A k \in 1 .. Len(c.queue) : k < pos /\ ~c.queue[k].matched => ~Fits(c.queue[k], s, f)
  /\ older = {k \in 1 .. Len(c.queue) :
                k < pos /\ ~c.queue[k].matched /\ c.queue[k].frame_idx < f}

LEMMA NodeTypes ==
  ASSUME NEW n \in Node
  PROVE  /\ n.frame_idx \in Nat \ {0} /\ n.unmatched_meta_idx \in Nat
         /\ n.slot \in [Streams -> Slot] /\ n.matched \in BOOLEAN /\ n.expected_frame \in BOOLEAN
         /\ \A s \in Streams : n.slot[s].frame_idx \in Nat /\ n.slot[s].buf \in Bufs \cup {NoBuf}
  BY DEF Node, Slot

LEMMA ArrivalNode ==
  ASSUME NEW c, NEW P, NEW s, NEW b, NEW f, Arrival(c, P, s, b, f), NEW i \in 1 .. Len(c.queue)
  PROVE  /\ c.queue \in Seq(Node) /\ c.queue[i] \in Node /\ NodeOk(c.queue[i])
         /\ s \in Streams /\ Meta \in Streams /\ f \in Nat \ {0} /\ b \in Bufs
         /\ \A t \in Streams : c.queue[i].slot[t].frame_idx # 0 =>
              <<t, c.queue[i].slot[t].frame_idx>> \in P
  <1>1. c.queue \in Seq(Node)
    BY DEF Arrival, QueueOk, Channel
  <1>2. c.queue[i] \in Node
    BY <1>1
  <1>3. NodeOk(c.queue[i])
    BY DEF Arrival, QueueOk
  <1>4. \A t \in Streams : c.queue[i].slot[t].frame_idx # 0 =>
          <<t, c.queue[i].slot[t].frame_idx>> \in P
    BY DEF Arrival, QueueOk, SlotsPassed
  <1>5. s \in Streams /\ Meta \in Streams /\ f \in Nat \ {0} /\ b \in Bufs
    BY ChannelAssumption DEF Arrival
  <1> QED BY <1>1, <1>2, <1>3, <1>4, <1>5

LEMMA FitsCases ==
  ASSUME NEW c, NEW P, NEW s, NEW b, NEW f, Arrival(c, P, s, b, f),
         NEW i \in 1 .. Len(c.queue), ~c.queue[i].matched, Fits(c.queue[i], s, f)
  PROVE  LET old == c.queue[i]
         IN  /\ old.slot[s].frame_idx # 0 => old.unmatched_meta_idx = 0
             /\ old.slot[s].frame_idx = 0 =>
                  \/ old.frame_idx = f
                  \/ Low /\ s = Meta /\ old.frame_idx < f /\ old.unmatched_meta_idx = 0
                  \/ Low /\ s # Meta /\ old.unmatched_meta_idx > f
             /\ old.unmatched_meta_idx > 0 => s # Meta
  <1> DEFINE old == c.queue[i]
  <1>1. old \in Node /\ NodeOk(old) /\ s \in Streams /\ Meta \in Streams /\ f \in Nat \ {0}
    BY ArrivalNode
  <1>2. \A t \in Streams : old.slot[t].frame_idx # 0 => <<t, old.slot[t].frame_idx>> \in P
    BY ArrivalNode
  <1>3. \A t \in Streams : old.slot[t].frame_idx \in Nat
    BY <1>1, NodeTypes
  <1>4. \A g \in Nat : f <= g => <<s, g>> \notin P
    BY DEF Arrival, Fresh
  <1>5. old.unmatched_meta_idx \in Nat /\ old.frame_idx \in Nat
    BY <1>1, NodeTypes
  <1> HIDE DEF old
  <1>6. old.frame_idx = f \/ (Low /\ old.slot[s].frame_idx = 0 /\
          IF s = Meta THEN old.frame_idx < f ELSE old.unmatched_meta_idx > f)
    BY DEF Fits, old
  <1>7. old.unmatched_meta_idx > 0 =>
          /\ old.unmatched_meta_idx = old.frame_idx
          /\ old.slot[Meta].frame_idx = old.frame_idx
          /\ \A t \in Streams \ {Meta} : old.slot[t].frame_idx = 0
    BY <1>1 DEF NodeOk
  <1>8. ASSUME old.unmatched_meta_idx > 0, s = Meta PROVE FALSE
    <2>1. old.slot[s].frame_idx = old.frame_idx /\ old.frame_idx # 0
      BY <1>5, <1>7, <1>8
    <2>2. old.frame_idx = f
      BY <1>6, <2>1
    <2>3. <<s, f>> \in P
      BY <1>1, <1>2, <2>1, <2>2
    <2>4. f \in Nat /\ f <= f
      BY <1>1
    <2> QED BY <1>4, <2>3, <2>4
  <1>9. ASSUME old.slot[s].frame_idx # 0 PROVE old.unmatched_meta_idx = 0
    BY <1>1, <1>5, <1>7, <1>8, <1>9
  <1>10. ASSUME old.slot[s].frame_idx = 0
         PROVE  \/ old.frame_idx = f
                \/ Low /\ s = Meta /\ old.frame_idx < f /\ old.unmatched_meta_idx = 0
                \/ Low /\ s # Meta /\ old.unmatched_meta_idx > f
    BY <1>5, <1>6, <1>8
  <1> QED BY <1>8, <1>9, <1>10 DEF old

LEMMA FilledOk ==
  ASSUME NEW c, NEW P, NEW s, NEW b, NEW f, Arrival(c, P, s, b, f),
         NEW i \in 1 .. Len(c.queue), ~c.queue[i].matched, Fits(c.queue[i], s, f),
         c.queue[i].slot[s].frame_idx = 0,
         NEW n, IsFilled(n, c.queue[i], s, b, f)
  PROVE  /\ NodeOk(n)
         /\ n.frame_idx <= c.queue[i].frame_idx /\ n.frame_idx <= f
         /\ \A t \in Streams : n.slot[t].frame_idx # 0 =>
              <<t, n.slot[t].frame_idx>> \in P \cup {<<s, f>>}
  <1> DEFINE old == c.queue[i]
  <1>1. old \in Node /\ NodeOk(old) /\ s \in Streams /\ Meta \in Streams /\ f \in Nat \ {0}
        /\ b \in Bufs
    BY ArrivalNode
  <1>2. \A t \in Streams : old.slot[t].frame_idx # 0 => <<t, old.slot[t].frame_idx>> \in P
    BY ArrivalNode
  <1>3. /\ old.frame_idx \in Nat \ {0} /\ old.unmatched_meta_idx \in Nat
        /\ old.slot \in [Streams -> Slot]
    BY <1>1, NodeTypes
  <1>4. /\ \/ old.frame_idx = f
           \/ Low /\ s = Meta /\ old.frame_idx < f /\ old.unmatched_meta_idx = 0
           \/ Low /\ s # Meta /\ old.unmatched_meta_idx > f
        /\ old.unmatched_meta_idx > 0 => s # Meta
    BY FitsCases
  <1>5. old.slot[s].frame_idx = 0
    OBVIOUS
  <1>6. /\ n.frame_idx = IF old.unmatched_meta_idx > 0 THEN f ELSE old.frame_idx
        /\ n.unmatched_meta_idx = 0 /\ n.matched \in BOOLEAN
        /\ \A t \in Streams : n.slot[t] = IF t = s THEN [buf |-> b, frame_idx |-> f]
                                          ELSE old.slot[t]
    BY <1>1, <1>3, NodeTypes DEF IsFilled
  <1>7. n.matched <=> allMatched(n.slot)
    BY DEF IsFilled
  <1> HIDE DEF old
  <1>8. /\ old.unmatched_meta_idx > 0 =>
             /\ old.unmatched_meta_idx = old.frame_idx
             /\ \A t \in Streams \ {Meta} : old.slot[t].frame_idx = 0
        /\ Low /\ old.unmatched_meta_idx = 0 => \E t \in Streams \ {Meta} : old.slot[t].frame_idx # 0
        /\ ~Low => old.unmatched_meta_idx = 0
        /\ \A t \in Streams : /\ old.slot[t].frame_idx # 0 <=> old.slot[t].buf # NoBuf
                              /\ old.slot[t].frame_idx # 0 /\ (Low => t # Meta) =>
                                   old.slot[t].frame_idx = old.frame_idx
    BY <1>1 DEF NodeOk
  <1>9. n.frame_idx <= old.frame_idx /\ n.frame_idx <= f
    BY <1>1, <1>3, <1>4, <1>6, <1>8
  <1>10. ASSUME NEW t \in Streams
         PROVE  /\ n.slot[t].frame_idx # 0 <=> n.slot[t].buf # NoBuf
                /\ n.slot[t].frame_idx # 0 /\ (Low => t # Meta) => n.slot[t].frame_idx = n.frame_idx
    <2>1. CASE t = s
      <3>1. n.slot[t].frame_idx = f /\ n.slot[t].buf = b
        BY <1>6, <2>1
      <3>2. f # 0 /\ b # NoBuf
        BY <1>1, ChannelAssumption DEF Bufs, NoBuf
      <3>3. CASE old.unmatched_meta_idx > 0
        BY <1>6, <2>1, <3>1, <3>2, <3>3
      <3>4. CASE old.unmatched_meta_idx = 0
        <4>1. old.frame_idx = f \/ (Low /\ s = Meta)
          BY <1>1, <1>4, <3>4
        <4>2. n.frame_idx = old.frame_idx
          BY <1>6, <3>4
        <4> QED BY <2>1, <3>1, <3>2, <4>1, <4>2
      <3> QED BY <1>3, <3>3, <3>4
    <2>2. CASE t # s
      BY <1>3, <1>6, <1>8, <2>2
    <2> QED BY <2>1, <2>2
  <1>11. Low => \E t \in Streams \ {Meta} : n.slot[t].frame_idx # 0
    <2>1. CASE old.unmatched_meta_idx > 0
      BY <1>1, <1>4, <1>6, <2>1
    <2>2. CASE old.unmatched_meta_idx = 0
      BY <1>1, <1>6, <1>8, <2>2
    <2> QED BY <1>3, <2>1, <2>2
  <1>12. NodeOk(n)
    <2>1. n.slot[s].frame_idx # 0
      BY <1>1, <1>6
    <2> QED BY <1>1, <1>6, <1>7, <1>10, <1>11, <2>1 DEF NodeOk
  <1>13. \A t \in Streams : n.slot[t].frame_idx # 0 =>
           <<t, n.slot[t].frame_idx>> \in P \cup {<<s, f>>}
    BY <1>2, <1>6 DEF old
  <1> QED BY <1>9, <1>12, <1>13 DEF old

(* When a frame goes into a node, a newer one before it shows that the node *)
(* is never completed.                                                      *)
LEMMA FilledOrder ==
  ASSUME NEW c, NEW P, NEW s, NEW b, NEW f, Arrival(c, P, s, b, f),
         NEW i \in 1 .. Len(c.queue), ~c.queue[i].matched, Fits(c.queue[i], s, f),
         c.queue[i].slot[s].frame_idx = 0,
         NEW n, IsFilled(n, c.queue[i], s, b, f),
         NEW k \in 1 .. Len(c.queue), k < i, ~c.queue[k].matched, ~Fits(c.queue[k], s, f),
         c.queue[k].frame_idx > n.frame_idx
  PROVE  Missed(n, P)
  <1> DEFINE old == c.queue[i]
             one == c.queue[k]
  <1>1. /\ old \in Node /\ NodeOk(old) /\ one \in Node /\ NodeOk(one)
        /\ s \in Streams /\ Meta \in Streams /\ f \in Nat \ {0}
        /\ \A t \in Streams : one.slot[t].frame_idx # 0 => <<t, one.slot[t].frame_idx>> \in P
    BY ArrivalNode
  <1>2. /\ old.frame_idx \in Nat \ {0} /\ old.unmatched_meta_idx \in Nat
        /\ old.slot \in [Streams -> Slot]
        /\ one.frame_idx \in Nat \ {0} /\ one.unmatched_meta_idx \in Nat
        /\ \A t \in Streams : one.slot[t].frame_idx \in Nat
    BY <1>1, NodeTypes
  <1>3. /\ \/ old.frame_idx = f
           \/ Low /\ s = Meta /\ old.frame_idx < f /\ old.unmatched_meta_idx = 0
           \/ Low /\ s # Meta /\ old.unmatched_meta_idx > f
        /\ old.unmatched_meta_idx > 0 => s # Meta
    BY FitsCases
  <1>4. /\ n.frame_idx = IF old.unmatched_meta_idx > 0 THEN f ELSE old.frame_idx
        /\ n.unmatched_meta_idx = 0
        /\ \A t \in Streams : n.slot[t] = IF t = s THEN [buf |-> b, frame_idx |-> f]
                                          ELSE old.slot[t]
    BY <1>1, <1>2 DEF IsFilled
  <1>5. /\ one.frame_idx # f
        /\ ~(Low /\ one.slot[s].frame_idx = 0 /\
             IF s = Meta THEN one.frame_idx < f ELSE one.unmatched_meta_idx > f)
    BY DEF Fits
  <1>6. \A t \in Streams, g \in Nat : <<t, g>> \in P =>
          /\ t = s => g < f
          /\ \A h \in Nat : h <= g => <<t, h>> \in P
    <2>1. \A g \in Nat : f <= g => <<s, g>> \notin P
      BY DEF Arrival, Fresh
    <2>2. \A t \in Streams : \A g, h \in Nat : <<t, g>> \in P /\ h <= g => <<t, h>> \in P
      BY DEF Arrival, DownClosed
    <2> QED BY <1>1, <2>1, <2>2
  <1>7. one.frame_idx > n.frame_idx
    OBVIOUS
  <1>8. Ordered(c.queue, P)
    BY DEF Arrival, QueueOk
  <1>9. one.frame_idx > old.frame_idx => Missed(old, P)
    BY <1>8 DEF Ordered
  <1> HIDE DEF old, one
  <1>10. CASE old.unmatched_meta_idx > 0
    <2>1. /\ Low /\ s # Meta
          /\ old.unmatched_meta_idx = old.frame_idx
          /\ old.slot[Meta].frame_idx = old.frame_idx
          /\ \A t \in Streams \ {Meta} : old.slot[t].frame_idx = 0
      BY <1>1, <1>3, <1>10 DEF NodeOk
    <2>2. n.frame_idx = f /\ one.frame_idx > f
      BY <1>4, <1>7, <1>10
    <2>3. one.slot[s].frame_idx = 0
      <3> SUFFICES ASSUME one.slot[s].frame_idx # 0 PROVE FALSE
        OBVIOUS
      <3>1. one.slot[s].frame_idx = one.frame_idx
        BY <1>1, <2>1 DEF NodeOk
      <3>2. <<s, one.frame_idx>> \in P
        BY <1>1, <3>1
      <3> QED BY <1>1, <1>2, <1>6, <2>2, <3>2
    <2>4. one.unmatched_meta_idx = 0
      <3>1. ~(one.unmatched_meta_idx > f)
        BY <1>5, <2>1, <2>3
      <3>2. one.unmatched_meta_idx > 0 => one.unmatched_meta_idx = one.frame_idx
        BY <1>1 DEF NodeOk
      <3> QED BY <1>1, <1>2, <2>2, <3>1, <3>2
    <2>5. PICK t \in Streams \ {Meta} : one.slot[t].frame_idx # 0
      BY <1>1, <2>1, <2>4 DEF NodeOk
    <2>6. one.slot[t].frame_idx = one.frame_idx /\ t # s
      BY <1>1, <2>3, <2>5 DEF NodeOk
    <2>7. <<t, one.frame_idx>> \in P
      BY <1>1, <2>5, <2>6
    <2>8. <<t, f>> \in P
      BY <1>1, <1>2, <1>6, <2>2, <2>7
    <2>9. n.slot[t].frame_idx = 0 /\ n.slot[Meta].frame_idx # 0
      BY <1>1, <1>2, <1>4, <2>1, <2>5, <2>6
    <2> QED BY <1>4, <2>1, <2>2, <2>5, <2>8, <2>9 DEF Missed
  <1>11. CASE old.unmatched_meta_idx = 0
    <2>1. n.frame_idx = old.frame_idx
      BY <1>4, <1>11
    <2>2. Missed(old, P)
      BY <1>7, <1>9, <2>1
    <2>3. PICK t \in Streams \ {Meta} : old.slot[t].frame_idx = 0 /\ <<t, old.frame_idx>> \in P
      BY <2>2 DEF Missed
    <2>4. Low /\ old.slot[Meta].frame_idx # 0
      BY <2>2 DEF Missed
    <2>5. s # Meta
      BY <2>4 DEF old
    <2>6. old.frame_idx = f
      BY <1>1, <1>3, <1>11, <2>5
    <2>7. t # s
      BY <1>1, <1>2, <1>6, <2>3, <2>6
    <2>8. n.slot[t].frame_idx = 0 /\ n.slot[Meta].frame_idx # 0
      BY <1>1, <1>4, <2>3, <2>4, <2>5, <2>7
    <2> QED BY <1>4, <2>1, <2>3, <2>4, <2>8 DEF Missed
  <1> QED BY <1>2, <1>10, <1>11

(* The node at p of q2 was the one at i.                                    *)
Around(q2, g, p, i) ==
  \A k \in 1 .. Len(q2) : k # p => (k < p => g[k] < i) /\ (p < k => i < g[k])

AllOk(q, P) ==
  /\ \A k \in 1 .. Len(q) : NodeOk(q[k])
  /\ Once(q) /\ SlotsPassed(q, P) /\ Ordered(q, P)

(* The nodes of q in q2; q2 holds what these hold, and buffer b of s.       *)
Sources(q2, g, p, i) == {i} \cup {g[l] : l \in {l \in 1 .. Len(q2) : l # p}}
HeldIn(q) == buffersOf(q, 1 .. Len(q))
HeldAs(q2, q, I, s, b) ==
  \A x \in Pairs : x \in HeldIn(q2) <=>
    \/ x = <<s, b>>
    \/ \E k \in I : q[k].slot[x[1]].frame_idx # 0 /\ q[k].slot[x[1]].buf = x[2]

(* A queue in which the node at i has been filled, and from which other     *)
(* nodes may have gone.                                                     *)
LEMMA FilledQueue ==
  ASSUME NEW c, NEW P, NEW s, NEW b, NEW f, Arrival(c, P, s, b, f),
         NEW P2, Extended(P2, P, s, f),
         NEW i, NEW older, Place(c, s, f, i, older), c.queue[i].slot[s].frame_idx = 0,
         NEW n, IsFilled(n, c.queue[i], s, b, f),
         NEW q2, NEW g, NEW p, p # 0, Derived(q2, c.queue, g, p, n), Around(q2, g, p, i)
  PROVE  AllOk(q2, P2) /\ HeldAs(q2, c.queue, Sources(q2, g, p, i), s, b)
  <1> DEFINE q == c.queue
             old == q[i]
  <1> USE DEF Around, Extended
  <1>0. /\ i \in 1 .. Len(q) /\ ~q[i].matched /\ Fits(q[i], s, f)
        /\ \A k \in 1 .. Len(q) : k < i /\ ~q[k].matched => ~Fits(q[k], s, f)
    BY DEF Place
  <1>1. /\ q \in Seq(Node) /\ old \in Node /\ NodeOk(old) /\ s \in Streams /\ f \in Nat \ {0}
        /\ b \in Bufs /\ b # NoBuf
    <2>1. /\ q \in Seq(Node) /\ old \in Node /\ NodeOk(old) /\ s \in Streams /\ f \in Nat \ {0}
          /\ b \in Bufs
      BY <1>0, ArrivalNode
    <2>2. b # NoBuf
      BY <2>1, ChannelAssumption DEF Bufs, NoBuf
    <2> QED BY <2>1, <2>2
  <1>2. /\ old.frame_idx \in Nat \ {0} /\ old.slot \in [Streams -> Slot]
    BY <1>1, NodeTypes
  <1>3. /\ NodeOk(n)
        /\ n.frame_idx <= old.frame_idx /\ n.frame_idx <= f
        /\ \A t \in Streams : n.slot[t].frame_idx # 0 =>
             <<t, n.slot[t].frame_idx>> \in P \cup {<<s, f>>}
    BY <1>0, FilledOk
  <1>4. n.frame_idx \in Nat /\ \A t \in Streams :
          n.slot[t] = IF t = s THEN [buf |-> b, frame_idx |-> f] ELSE old.slot[t]
    BY <1>1, <1>2 DEF IsFilled
  <1>5. \A k \in 1 .. Len(q2) : k # p => g[k] \in 1 .. Len(q) /\ q2[k] = q[g[k]] /\ g[k] # i
    BY <1>0 DEF Derived
  <1>6. p \in 1 .. Len(q2) /\ q2[p] = n /\ q2 \in Seq(Node)
    BY DEF Derived
  <1>7. (\A k \in 1 .. Len(q) : NodeOk(q[k])) /\ Once(q) /\ SlotsPassed(q, P) /\ Ordered(q, P)
    BY DEF Arrival, QueueOk
  <1>8. \A k \in 1 .. Len(q) : q[k].slot[s].buf # b
    <2> SUFFICES ASSUME NEW k \in 1 .. Len(q), q[k].slot[s].buf = b PROVE FALSE
      OBVIOUS
    <2>1. q[k].slot[s].frame_idx # 0
      BY <1>1, <1>7 DEF NodeOk
    <2>2. <<s, b>> \in buffersOf(q, 1 .. Len(q))
      BY <1>1, <2>1 DEF buffersOf
    <2> QED BY <2>2 DEF Arrival
  <1>9. \A k \in 1 .. Len(q2) : k # p => \A t \in Streams :
          q2[k].slot[t].buf # NoBuf => q2[k].slot[t].buf # n.slot[t].buf
    <2> SUFFICES ASSUME NEW k \in 1 .. Len(q2), k # p, NEW t \in Streams,
                        q2[k].slot[t].buf # NoBuf, q2[k].slot[t].buf = n.slot[t].buf
                 PROVE  FALSE
      OBVIOUS
    <2>1. g[k] \in 1 .. Len(q) /\ q2[k] = q[g[k]] /\ g[k] # i
      BY <1>5
    <2>2. CASE t = s
      BY <1>0, <1>4, <1>8, <2>1, <2>2
    <2>3. CASE t # s
      <3>1. q[g[k]].slot[t].buf = q[i].slot[t].buf /\ q[g[k]].slot[t].buf # NoBuf
        BY <1>4, <2>1, <2>3
      <3> QED BY <1>0, <1>7, <2>1, <3>1 DEF Once
    <2> QED BY <2>2, <2>3
  <1>10. P \subseteq P2 /\ \A t \in Streams :
           n.slot[t].frame_idx # 0 => <<t, n.slot[t].frame_idx>> \in P2
    BY <1>3
  <1>11. /\ \A k \in 1 .. Len(q2) : NodeOk(q2[k])
         /\ Once(q2) /\ SlotsPassed(q2, P2)
    <2> HIDE DEF q, old
    <2>1. Derived(q2, q, g, p, n)
      BY DEF q
    <2> QED BY <1>1, <1>3, <1>7, <1>9, <1>10, <2>1, DerivedNodes
  <1>12. ASSUME NEW k \in 1 .. Len(q2), k < p, ~q2[k].matched, q2[k].frame_idx > n.frame_idx
         PROVE  Missed(n, P2)
    <2>1. g[k] \in 1 .. Len(q) /\ q2[k] = q[g[k]] /\ g[k] < i
      BY <1>5, <1>6, <1>12
    <2>2. ~Fits(q[g[k]], s, f)
      BY <1>0, <1>12, <2>1
    <2>3. Missed(n, P)
      BY <1>0, <1>12, <2>1, <2>2, FilledOrder
    <2> QED BY <1>10, <2>3, MissedMonotone
  <1>13. ASSUME NEW k \in 1 .. Len(q2), p < k, ~q2[k].matched, n.frame_idx > q2[k].frame_idx
         PROVE  Missed(q2[k], P2)
    <2>1. g[k] \in 1 .. Len(q) /\ q2[k] = q[g[k]] /\ i < g[k]
      BY <1>5, <1>6, <1>13
    <2>2. q2[k].frame_idx \in Nat
      BY <1>6, NodeTypes
    <2>3. old.frame_idx > q[g[k]].frame_idx /\ ~old.matched
      BY <1>0, <1>2, <1>3, <1>4, <1>13, <2>1, <2>2
    <2>4. Missed(q[g[k]], P)
      BY <1>0, <1>7, <1>13, <2>1, <2>3 DEF Ordered
    <2> QED BY <1>10, <2>1, <2>4, MissedMonotone
  <1>14. Ordered(q2, P2)
    <2> HIDE DEF q, old
    <2>1. Derived(q2, q, g, p, n)
      BY DEF q
    <2> QED BY <1>1, <1>7, <1>10, <1>12, <1>13, <2>1, DerivedOrdered
  <1>15. \A x \in Pairs : x \in buffersOf(q2, 1 .. Len(q2)) <=>
              \/ x = <<s, b>>
              \/ \E k \in {i} \cup {g[l] : l \in {l \in 1 .. Len(q2) : l # p}} :
                   q[k].slot[x[1]].frame_idx # 0 /\ q[k].slot[x[1]].buf = x[2]
    <2> TAKE x \in Pairs
    <2>1. x[1] \in Streams /\ x = <<x[1], x[2]>>
      BY DEF Pairs
    <2>2. x \in buffersOf(q2, 1 .. Len(q2)) <=>
             \/ p # 0 /\ n.slot[x[1]].frame_idx # 0 /\ n.slot[x[1]].buf = x[2]
             \/ \E k \in 1 .. Len(q2) : k # p /\ q[g[k]].slot[x[1]].frame_idx # 0
                                             /\ q[g[k]].slot[x[1]].buf = x[2]
      <3> HIDE DEF q
      <3>1. Derived(q2, q, g, p, n)
        BY DEF q
      <3> QED BY <1>1, <3>1, DerivedBuffers
    <2>3. n.slot[x[1]].frame_idx # 0 /\ n.slot[x[1]].buf = x[2] <=>
            \/ x = <<s, b>>
            \/ old.slot[x[1]].frame_idx # 0 /\ old.slot[x[1]].buf = x[2]
      <3>1. CASE x[1] = s
        BY <1>1, <1>4, <2>1, <3>1
      <3>2. CASE x[1] # s
        BY <1>4, <2>1, <3>2
      <3> QED BY <3>1, <3>2
    <2> HIDE DEF q
    <2>4. p # 0
      OBVIOUS
    <2> QED BY <2>2, <2>3, <2>4
  <1> QED BY <1>11, <1>14, <1>15 DEF AllOk, HeldAs, Sources, HeldIn

-----------------------------------------------------------------------------
(* The steps of the command thread. *)

(* A step keeps or gives back, never both, what was in the queue and what   *)
(* came with the frame.                                                     *)
Settled(q, q2, back, X) ==
  /\ back \subseteq Pairs
  /\ HeldIn(q2) \cup back = HeldIn(q) \cup X
  /\ HeldIn(q2) \cap back = {}

StepOk(c, r, P, X) ==
  /\ QueueOk(r.c, P)
  /\ r.bad = FALSE
  /\ Settled(c.queue, r.c.queue, r.back, X)

LEMMA QueueMonotone ==
  ASSUME NEW P, NEW P2, P \subseteq P2, NEW c, QueueOk(c, P)
  PROVE  QueueOk(c, P2)
  <1>1. SlotsPassed(c.queue, P2)
    BY DEF QueueOk, SlotsPassed
  <1>2. Ordered(c.queue, P2)
    BY MissedMonotone DEF QueueOk, Ordered
  <1> QED BY <1>1, <1>2 DEF QueueOk

LEMMA NoStep ==
  ASSUME NEW P, NEW c, QueueOk(c, P), NEW d \in Channel,
         d.queue = c.queue, d.match_cnt = c.match_cnt
  PROVE  StepOk(c, result(d, {}, FALSE), P, {})
  <1>1. QueueOk(d, P)
    BY DEF QueueOk, MatchedPrefix, Bounded
  <1> QED BY <1>1 DEF StepOk, Settled, result

LEMMA TwoSteps ==
  ASSUME NEW P, NEW c, NEW r, NEW X, StepOk(c, r, P, X),
         NEW P2, NEW n, NEW Y, StepOk(r.c, n, P2, Y),
         Y \cap (HeldIn(c.queue) \cup X) = {}
  PROVE  StepOk(c, result(n.c, r.back \cup n.back, r.bad \/ n.bad), P2, X \cup Y)
  BY DEF StepOk, Settled, result

LEMMA EmptyOk ==
  ASSUME NEW P, attr \in Attrs, NEW c \in Channel, c.queue = <<>>, c.match_cnt = 0
  PROVE  QueueOk(c, P)
  <1>1. attr.max_unmatched_frames \in Nat
    BY ChannelAssumption
  <1> QED BY <1>1 DEF QueueOk, MatchedPrefix, Once, SlotsPassed, Ordered, Bounded

LEMMA HeldInEmpty == HeldIn(<<>>) = {}
  BY DEF HeldIn, buffersOf

LEMMA UnmatchedOf ==
  ASSUME NEW c, NEW P, QueueOk(c, P)
  PROVE  /\ unmatched(c.queue) = c.match_cnt + 1 .. Len(c.queue)
         /\ DOMAIN c.queue = 1 .. Len(c.queue)
         /\ c.queue \in Seq(Node) /\ c.match_cnt \in 0 .. Len(c.queue) /\ Len(c.queue) \in Nat
         /\ Cardinality(unmatched(c.queue)) = Len(c.queue) - c.match_cnt
         /\ Cardinality(DOMAIN c.queue \ unmatched(c.queue)) = c.match_cnt
  <1>1. /\ c.queue \in Seq(Node) /\ c.match_cnt \in Nat
        /\ MatchedPrefix(c)
    BY DEF QueueOk, Channel
  <1>2. /\ DOMAIN c.queue = 1 .. Len(c.queue) /\ Len(c.queue) \in Nat
        /\ c.match_cnt \in 0 .. Len(c.queue)
    BY <1>1 DEF MatchedPrefix
  <1>3. unmatched(c.queue) = c.match_cnt + 1 .. Len(c.queue)
    BY <1>1, <1>2 DEF unmatched, MatchedPrefix
  <1>4. Cardinality(c.match_cnt + 1 .. Len(c.queue)) = Len(c.queue) - c.match_cnt
    <2>1. /\ c.match_cnt + 1 \in Int /\ Len(c.queue) \in Int
          /\ c.match_cnt + 1 <= Len(c.queue) + 1
      BY <1>2
    <2>2. Cardinality(c.match_cnt + 1 .. Len(c.queue)) = Len(c.queue) - (c.match_cnt + 1) + 1
      BY <2>1, IntervalSize
    <2> QED BY <1>2, <2>2
  <1>5. DOMAIN c.queue \ unmatched(c.queue) = 1 .. c.match_cnt
    BY <1>2, <1>3
  <1>6. Cardinality(1 .. c.match_cnt) = c.match_cnt
    BY <1>2, IntervalSize
  <1> QED BY <1>1, <1>2, <1>3, <1>4, <1>5, <1>6

LEMMA FlushOk ==
  ASSUME attr \in Attrs, NEW c, NEW P, QueueOk(c, P)
  PROVE  StepOk(c, flush(c), P, {}) /\ flush(c).c.match_cnt = 0
  <1> DEFINE m == c.match_cnt - Cardinality(DOMAIN c.queue \ unmatched(c.queue))
             d == [c EXCEPT !.queue = <<>>, !.match_cnt = m]
  <1>1. c \in Channel
    BY DEF QueueOk
  <1>2. d \in Channel /\ d.queue = <<>> /\ d.match_cnt = 0
    <2>1. m = 0
      <3>1. Cardinality(DOMAIN c.queue \ unmatched(c.queue)) = c.match_cnt
        BY UnmatchedOf
      <3>2. c.match_cnt \in Nat
        BY <1>1 DEF Channel
      <3> QED BY <3>1, <3>2
    <2>2. <<>> \in Seq(Node)
      OBVIOUS
    <2> HIDE DEF m
    <2> QED BY <1>1, <2>1, <2>2 DEF Channel
  <1>3. QueueOk(d, P)
    <2> HIDE DEF d
    <2> QED BY <1>2, EmptyOk
  <1>4. flush(c) = result(d, HeldIn(c.queue), FALSE)
    BY UnmatchedOf DEF flush, HeldIn
  <1> HIDE DEF d
  <1>5. HeldIn(c.queue) \subseteq Pairs
    BY DEF HeldIn, buffersOf, Pairs
  <1>6. Settled(c.queue, d.queue, HeldIn(c.queue), {})
    BY <1>2, <1>5, HeldInEmpty DEF Settled
  <1> QED BY <1>2, <1>3, <1>4, <1>6 DEF StepOk, result

(* Of a queue, the nodes from n + 1 on remain, which holds all but the      *)
(* buffers of the first n.                                                  *)
LEMMA SuffixOk ==
  ASSUME attr \in Attrs, NEW c, NEW P, QueueOk(c, P), NEW n \in 0 .. c.match_cnt,
         NEW d \in Channel, d.queue = SubSeq(c.queue, n + 1, Len(c.queue)),
         d.match_cnt = c.match_cnt - n
  PROVE  /\ QueueOk(d, P)
         /\ HeldIn(d.queue) \cup buffersOf(c.queue, 1 .. n) = HeldIn(c.queue)
         /\ HeldIn(d.queue) \cap buffersOf(c.queue, 1 .. n) = {}
         /\ buffersOf(c.queue, 1 .. n) \subseteq Pairs
  <1> DEFINE q == c.queue
             q2 == SubSeq(q, n + 1, Len(q))
             g == [k \in 1 .. Len(q2) |-> n + k]
  <1>1. /\ q \in Seq(Node) /\ Len(q) \in Nat /\ c.match_cnt \in 0 .. Len(q)
        /\ DOMAIN q = 1 .. Len(q)
    BY UnmatchedOf
  <1>2. /\ q2 \in Seq(Node) /\ Len(q2) = Len(q) - n
        /\ \A k \in 1 .. Len(q2) : q2[k] = q[n + k]
    <2>1. \A k \in 1 .. Len(q) : q[k] \in Node
      BY <1>1
    <2> QED BY <1>1, <2>1
  <1>3. (\A k \in 1 .. Len(q) : NodeOk(q[k])) /\ Once(q) /\ SlotsPassed(q, P) /\ Ordered(q, P)
        /\ MatchedPrefix(c) /\ Bounded(c)
    BY DEF QueueOk
  <1>4. attr.max_unmatched_frames \in Nat
    BY ChannelAssumption
  <1>5. d.queue = q2 /\ d.match_cnt = c.match_cnt - n /\ n \in Nat
    BY <1>1
  <1> HIDE DEF q, q2
  <1>6. Derived(q2, q, g, 0, 0)
    BY <1>1, <1>2, <1>5 DEF Derived
  <1> HIDE DEF g
  <1>7. (\A k \in 1 .. Len(q2) : NodeOk(q2[k])) /\ Once(q2) /\ SlotsPassed(q2, P)
    BY <1>1, <1>3, <1>6, DerivedNodes
  <1>8. Ordered(q2, P)
    BY <1>1, <1>3, <1>6, DerivedOrdered
  <1>9. MatchedPrefix(d)
    <2>1. \A k \in 1 .. Len(q2) : q2[k].matched <=> k <= c.match_cnt - n
      <3> SUFFICES ASSUME NEW k \in 1 .. Len(q2) PROVE q2[k].matched <=> k <= c.match_cnt - n
        OBVIOUS
      <3>1. n + k \in 1 .. Len(q)
        BY <1>1, <1>2, <1>5
      <3>2. q[n + k].matched <=> n + k <= c.match_cnt
        BY <1>3, <3>1 DEF MatchedPrefix, q
      <3>3. q2[k] = q[n + k]
        BY <1>2
      <3>4. n + k <= c.match_cnt <=> k <= c.match_cnt - n
        BY <1>1, <1>2, <1>5
      <3> QED BY <3>2, <3>3, <3>4
    <2>2. c.match_cnt - n <= Len(q2)
      BY <1>1, <1>2, <1>5
    <2> QED BY <1>5, <2>1, <2>2 DEF MatchedPrefix
  <1>10. Bounded(d)
    <2>1. Len(q) - c.match_cnt <= attr.max_unmatched_frames + 1
      BY <1>3 DEF Bounded, q
    <2>2. Len(d.queue) = Len(q) - n /\ d.match_cnt = c.match_cnt - n
      BY <1>2, <1>5
    <2>3. Len(d.queue) - d.match_cnt = Len(q) - c.match_cnt
      <3>1. \A x, y, z \in Int : (x - z) - (y - z) = x - y
        OBVIOUS
      <3>2. Len(q) \in Int /\ c.match_cnt \in Int /\ n \in Int
        BY <1>1, <1>5
      <3> QED BY <2>2, <3>1, <3>2
    <2> QED BY <2>1, <2>3 DEF Bounded
  <1>11. QueueOk(d, P)
    BY <1>5, <1>7, <1>8, <1>9, <1>10 DEF QueueOk
  <1>12. \A x \in Pairs : x \in HeldIn(q2) <=>
           \E k \in n + 1 .. Len(q) : q[k].slot[x[1]].frame_idx # 0 /\ q[k].slot[x[1]].buf = x[2]
    <2> SUFFICES ASSUME NEW x \in Pairs
                 PROVE  x \in HeldIn(q2) <=> \E k \in n + 1 .. Len(q) :
                          q[k].slot[x[1]].frame_idx # 0 /\ q[k].slot[x[1]].buf = x[2]
      OBVIOUS
    <2>1. x \in HeldIn(q2) <=> \E k \in 1 .. Len(q2) :
            q[n + k].slot[x[1]].frame_idx # 0 /\ q[n + k].slot[x[1]].buf = x[2]
      BY <1>2 DEF HeldIn, buffersOf, Pairs
    <2>2. ASSUME NEW k \in n + 1 .. Len(q), q[k].slot[x[1]].frame_idx # 0,
                 q[k].slot[x[1]].buf = x[2]
          PROVE  x \in HeldIn(q2)
      <3>1. k - n \in 1 .. Len(q2) /\ n + (k - n) = k
        BY <1>1, <1>2, <1>5
      <3> QED BY <2>1, <2>2, <3>1
    <2>3. \A k \in 1 .. Len(q2) : n + k \in n + 1 .. Len(q)
      BY <1>1, <1>2, <1>5
    <2> QED BY <2>1, <2>2, <2>3
  <1>13. \A x \in Pairs : /\ x \in HeldIn(q) <=> \E k \in 1 .. Len(q) :
                             q[k].slot[x[1]].frame_idx # 0 /\ q[k].slot[x[1]].buf = x[2]
                          /\ x \in buffersOf(q, 1 .. n) <=> \E k \in 1 .. n :
                             q[k].slot[x[1]].frame_idx # 0 /\ q[k].slot[x[1]].buf = x[2]
    BY DEF HeldIn, buffersOf, Pairs
  <1>14. HeldIn(q2) \subseteq Pairs /\ HeldIn(q) \subseteq Pairs /\ buffersOf(q, 1 .. n) \subseteq Pairs
    BY DEF HeldIn, buffersOf, Pairs
  <1>15. 1 .. Len(q) = (1 .. n) \cup (n + 1 .. Len(q))
    BY <1>1, <1>5
  <1>16. HeldIn(q2) \cup buffersOf(q, 1 .. n) = HeldIn(q)
    <2>1. \A x \in Pairs : x \in HeldIn(q2) \/ x \in buffersOf(q, 1 .. n) <=> x \in HeldIn(q)
      BY <1>12, <1>13, <1>15
    <2> QED BY <1>14, <2>1
  <1>17. HeldIn(q2) \cap buffersOf(q, 1 .. n) = {}
    <2> SUFFICES ASSUME NEW x \in Pairs, x \in HeldIn(q2), x \in buffersOf(q, 1 .. n) PROVE FALSE
      BY <1>14
    <2>1. PICK k \in n + 1 .. Len(q) : q[k].slot[x[1]].frame_idx # 0 /\ q[k].slot[x[1]].buf = x[2]
      BY <1>12
    <2>2. PICK l \in 1 .. n : q[l].slot[x[1]].frame_idx # 0 /\ q[l].slot[x[1]].buf = x[2]
      BY <1>13
    <2>3. k \in 1 .. Len(q) /\ l \in 1 .. Len(q) /\ k # l /\ x[1] \in Streams
      BY <1>1, <1>5 DEF Pairs
    <2>4. q[k].slot[x[1]].buf # NoBuf
      BY <1>3, <2>1, <2>3 DEF NodeOk
    <2> QED BY <1>3, <2>1, <2>2, <2>3, <2>4 DEF Once
  <1> QED BY <1>5, <1>11, <1>14, <1>16, <1>17 DEF q

(* The overflow and the skip loop end. *)
LEMMA TrimOk ==
  ASSUME attr \in Attrs, NEW c, NEW P, QueueOk(c, P), NEW mark \in Nat
  PROVE  /\ StepOk(c, trim(c, mark), P, {})
         /\ Burst => trim(c, mark).c.match_cnt <= mark
         /\ trim(c, mark).c = [c EXCEPT !.queue = trim(c, mark).c.queue,
                                        !.match_cnt = trim(c, mark).c.match_cnt]
  <1> DEFINE n == c.match_cnt - mark
  <1>1. c \in Channel /\ c.match_cnt \in 0 .. Len(c.queue) /\ Len(c.queue) \in Nat
        /\ c.queue \in Seq(Node)
    BY UnmatchedOf DEF QueueOk
  <1>2. CASE ~Burst \/ n <= 0
    <2>1. trim(c, mark) = result(c, {}, FALSE)
      <3>1. (~Burst \/ n <= 0) /\ ~(Burst /\ n > 0)
        BY <1>1, <1>2
      <3> HIDE DEF n
      <3> QED BY <3>1 DEF trim, n
    <2>2. c = [c EXCEPT !.queue = c.queue, !.match_cnt = c.match_cnt]
      BY <1>1 DEF Channel
    <2>3. Burst => c.match_cnt <= mark
      BY <1>1, <1>2
    <2>4. StepOk(c, result(c, {}, FALSE), P, {})
      BY <1>1, NoStep
    <2> QED BY <2>1, <2>2, <2>3, <2>4 DEF result
  <1>3. CASE Burst /\ n > 0
    <2> DEFINE d == [c EXCEPT !.queue = SubSeq(@, n + 1, Len(@)), !.match_cnt = mark]
    <2>1. n \in 1 .. c.match_cnt /\ n <= Len(c.queue) /\ mark = c.match_cnt - n
      BY <1>1, <1>3
    <2>2. \A i \in 1 .. n : c.queue[i].matched
      <3>1. MatchedPrefix(c)
        BY DEF QueueOk
      <3> QED BY <1>1, <2>1, <3>1 DEF MatchedPrefix
    <2>3. trim(c, mark) = result(d, buffersOf(c.queue, 1 .. n), FALSE)
      <3>1. ~(~Burst \/ n <= 0) /\ n > 0 /\ n <= Len(c.queue)
        BY <1>1, <1>3, <2>1
      <3> QED BY <1>3, <2>2, <3>1, Zenon DEF trim, n, d
    <2>4. d \in Channel /\ d.queue = SubSeq(c.queue, n + 1, Len(c.queue)) /\ d.match_cnt = mark
      <3>1. SubSeq(c.queue, n + 1, Len(c.queue)) \in Seq(Node)
        <4>1. \A k \in 1 .. Len(c.queue) : c.queue[k] \in Node
          BY <1>1
        <4> QED BY <1>1, <2>1, <4>1
      <3> HIDE DEF n
      <3> QED BY <1>1, <3>1 DEF Channel
    <2>5. d = [c EXCEPT !.queue = d.queue, !.match_cnt = d.match_cnt]
      BY <1>1 DEF Channel
    <2> HIDE DEF d, n
    <2>6. /\ QueueOk(d, P)
          /\ HeldIn(d.queue) \cup buffersOf(c.queue, 1 .. n) = HeldIn(c.queue)
          /\ HeldIn(d.queue) \cap buffersOf(c.queue, 1 .. n) = {}
          /\ buffersOf(c.queue, 1 .. n) \subseteq Pairs
      <3>1. n \in 0 .. c.match_cnt /\ d.match_cnt = c.match_cnt - n
        BY <1>1, <2>1, <2>4
      <3> QED BY <2>4, <3>1, SuffixOk
    <2>7. StepOk(c, result(d, buffersOf(c.queue, 1 .. n), FALSE), P, {})
      BY <2>6 DEF StepOk, Settled, result
    <2>8. mark <= mark
      OBVIOUS
    <2>9. trim(c, mark).c = d
      BY <2>3 DEF result
    <2> QED BY <2>3, <2>4, <2>5, <2>7, <2>8, <2>9
  <1> QED BY <1>1, <1>2, <1>3

(* The frame is dropped, or its buffer given back for the one in the slot.  *)
LEMMA GivenBack ==
  ASSUME NEW c, NEW P, NEW s, NEW b, NEW f, Arrival(c, P, s, b, f),
         NEW P2, Extended(P2, P, s, f)
  PROVE  StepOk(c, result(c, {<<s, b>>}, FALSE), P2, {<<s, b>>})
  <1>1. QueueOk(c, P2)
    BY QueueMonotone DEF Arrival, Extended
  <1>2. <<s, b>> \in Pairs /\ <<s, b>> \notin HeldIn(c.queue)
    BY DEF Arrival, Pairs, HeldIn
  <1> QED BY <1>1, <1>2 DEF StepOk, Settled, result

(* A node that is completed has only older ones before it.                  *)
LEMMA CompletedOlder ==
  ASSUME NEW c, NEW P, NEW s, NEW b, NEW f, Arrival(c, P, s, b, f),
         NEW pos, NEW older, Place(c, s, f, pos, older),
         c.queue[pos].slot[s].frame_idx = 0,
         NEW n, IsFilled(n, c.queue[pos], s, b, f), n.matched
  PROVE  /\ older = c.match_cnt + 1 .. pos - 1 /\ c.match_cnt + 1 <= pos
         /\ stale(older, pos) = c.match_cnt + 1 .. pos - 1
  <1> DEFINE q == c.queue
  <1>1. /\ q \in Seq(Node) /\ Len(q) \in Nat /\ c.match_cnt \in 0 .. Len(q)
        /\ QueueOk(c, P) /\ pos \in 1 .. Len(q) /\ f \in Nat
    BY UnmatchedOf DEF Arrival, Place
  <1>2. \A k \in 1 .. Len(q) : q[k].matched <=> k <= c.match_cnt
    BY <1>1 DEF QueueOk, MatchedPrefix
  <1>3. c.match_cnt + 1 <= pos
    BY <1>1, <1>2 DEF Place
  <1>4. \A k \in 1 .. Len(q) : k < pos /\ ~q[k].matched => q[k].frame_idx < f
    <2> SUFFICES ASSUME NEW k \in 1 .. Len(q), k < pos, ~q[k].matched PROVE q[k].frame_idx < f
      OBVIOUS
    <2>1. ~Missed(n, P)
      BY DEF Missed, allMatched, IsFilled
    <2>2. ~Fits(q[k], s, f)
      BY DEF Place
    <2>4. ~q[pos].matched /\ Fits(q[pos], s, f)
      BY DEF Place
    <2>5. ~(q[k].frame_idx > n.frame_idx)
      <3> SUFFICES ASSUME q[k].frame_idx > n.frame_idx PROVE FALSE
        OBVIOUS
      <3> QED BY <1>1, <2>1, <2>2, <2>4, FilledOrder
    <2>6. n.frame_idx <= f
      BY <1>1, <2>4, FilledOk
    <2>7. n.frame_idx \in Nat /\ q[k].frame_idx \in Nat
      BY <1>1, NodeTypes DEF IsFilled
    <2>8. q[k].frame_idx # f
      BY <2>2 DEF Fits
    <2> QED BY <1>1, <2>5, <2>6, <2>7, <2>8
  <1>5. older = c.match_cnt + 1 .. pos - 1
    <2>1. older = {k \in 1 .. Len(q) : k < pos /\ ~(k <= c.match_cnt)}
      BY <1>2, <1>4 DEF Place
    <2> QED BY <1>1, <2>1
  <1>6. stale(older, pos) = c.match_cnt + 1 .. pos - 1
    <2>1. CASE older = {}
      BY <1>5, <2>1 DEF stale
    <2>2. CASE older # {}
      <3>1. older \in SUBSET Nat
        BY <1>1, <1>5
      <3>2. Min(older) \in older /\ \A y \in older : Min(older) <= y
        BY <2>2, <3>1, MinOf
      <3>3. c.match_cnt + 1 \in older
        BY <1>1, <1>5, <2>2
      <3>4. Min(older) = c.match_cnt + 1
        BY <1>1, <1>5, <3>2, <3>3
      <3> QED BY <2>2, <3>4 DEF stale
    <2> QED BY <2>1, <2>2
  <1> QED BY <1>3, <1>5, <1>6

Replaced(q, pos, n) == [q EXCEPT ![pos] = n]

(* The frame goes into a node which still waits for others.                 *)
LEMMA FillWaits ==
  ASSUME NEW c, NEW P, NEW s, NEW b, NEW f, Arrival(c, P, s, b, f),
         NEW P2, Extended(P2, P, s, f),
         NEW pos, NEW older, Place(c, s, f, pos, older),
         c.queue[pos].slot[s].frame_idx = 0,
         NEW n, IsFilled(n, c.queue[pos], s, b, f), n.matched = FALSE,
         NEW d \in Channel, d.queue = Replaced(c.queue, pos, n), d.match_cnt = c.match_cnt
  PROVE  StepOk(c, result(d, {}, FALSE), P2, {<<s, b>>})
  <1> DEFINE q == c.queue
             q2 == [q EXCEPT ![pos] = n]
             g == [k \in 1 .. Len(q2) |-> k]
  <1>1. /\ q \in Seq(Node) /\ Len(q) \in Nat /\ c.match_cnt \in 0 .. Len(q)
        /\ QueueOk(c, P) /\ pos \in 1 .. Len(q) /\ n \in Node /\ b \in Bufs /\ s \in Streams
    BY UnmatchedOf DEF Arrival, Place, IsFilled
  <1>2. q2 \in Seq(Node) /\ Len(q2) = Len(q)
        /\ \A k \in 1 .. Len(q2) : q2[k] = IF k = pos THEN n ELSE q[k]
    BY <1>1
  <1>3. d.queue = q2 /\ ~q[pos].matched /\ Fits(q[pos], s, f) /\ q[pos].slot[s].frame_idx = 0
        /\ \A k \in 1 .. Len(q) : k < pos /\ ~q[k].matched => ~Fits(q[k], s, f)
    BY DEF Place, Replaced
  <1> HIDE DEF q2
  <1>4. Derived(q2, q, g, pos, n) /\ pos # 0
    <2>1. pos \in 0 .. Len(q2) /\ pos # 0 /\ q2[pos] = n
      BY <1>1, <1>2
    <2>2. \A k \in 1 .. Len(q2) : k # pos => g[k] \in 1 .. Len(q) /\ q2[k] = q[g[k]]
      BY <1>1, <1>2
    <2>3. \A k, l \in 1 .. Len(q2) : k < l => g[k] < g[l]
      BY <1>1, <1>2
    <2> HIDE DEF g, q
    <2> QED BY <1>2, <2>1, <2>2, <2>3 DEF Derived
  <1>5. Around(q2, g, pos, pos)
    BY DEF Around
  <1>6. Sources(q2, g, pos, pos) = 1 .. Len(q)
    BY <1>1, <1>2 DEF Sources
  <1> HIDE DEF g
  <1>7. AllOk(q2, P2) /\ HeldAs(q2, q, Sources(q2, g, pos, pos), s, b)
    BY <1>4, <1>5, FilledQueue
  <1>8. HeldIn(q2) = HeldIn(q) \cup {<<s, b>>}
    <2>1. \A x \in Pairs : x \in HeldIn(q2) <=> x = <<s, b>> \/ x \in HeldIn(q)
      <3> SUFFICES ASSUME NEW x \in Pairs
                   PROVE  x \in HeldIn(q2) <=> x = <<s, b>> \/ x \in HeldIn(q)
        OBVIOUS
      <3>1. x \in HeldIn(q) <=> \E k \in 1 .. Len(q) :
              q[k].slot[x[1]].frame_idx # 0 /\ q[k].slot[x[1]].buf = x[2]
        BY DEF HeldIn, buffersOf, Pairs
      <3> HIDE DEF q
      <3> QED BY <1>6, <1>7, <3>1 DEF HeldAs
    <2>2. HeldIn(q2) \subseteq Pairs /\ HeldIn(q) \subseteq Pairs /\ <<s, b>> \in Pairs
      BY <1>1 DEF HeldIn, buffersOf, Pairs
    <2> QED BY <2>1, <2>2
  <1>9. MatchedPrefix(d) /\ Bounded(d)
    <2>1. (\A k \in 1 .. Len(q) : q[k].matched <=> k <= c.match_cnt) /\ Bounded(c)
      BY <1>1 DEF QueueOk, MatchedPrefix
    <2>2. \A k \in 1 .. Len(q2) : q2[k].matched <=> k <= c.match_cnt
      BY <1>2, <1>3, <2>1
    <2>3. d.match_cnt = c.match_cnt
      OBVIOUS
    <2> QED BY <1>1, <1>2, <1>3, <2>1, <2>2, <2>3 DEF MatchedPrefix, Bounded
  <1>10. QueueOk(d, P2)
    BY <1>3, <1>7, <1>9 DEF QueueOk, AllOk
  <1> QED BY <1>3, <1>8, <1>10 DEF StepOk, Settled, result

(* The frame completes a node: those before it that are not complete go.    *)
LEMMA FillCompletes ==
  ASSUME NEW c, NEW P, NEW s, NEW b, NEW f, Arrival(c, P, s, b, f),
         NEW P2, Extended(P2, P, s, f),
         NEW pos, NEW older, Place(c, s, f, pos, older),
         c.queue[pos].slot[s].frame_idx = 0,
         NEW n, IsFilled(n, c.queue[pos], s, b, f), n.matched,
         NEW d, d \in Channel \/ d.queue \notin Seq(Node),
         d.queue = keep([c.queue EXCEPT ![pos] = n], DOMAIN c.queue \ stale(older, pos)),
         d.match_cnt = c.match_cnt + 1
  PROVE  StepOk(c, result(d, buffersOf(c.queue, stale(older, pos)), FALSE), P2, {<<s, b>>})
  <1> DEFINE q == c.queue
             mc == c.match_cnt
             q1 == [q EXCEPT ![pos] = n]
             q2 == d.queue
             g == [k \in 1 .. Len(q2) |-> IF k <= mc THEN k ELSE k + pos - 1 - mc]
  <1>1. /\ q \in Seq(Node) /\ Len(q) \in Nat /\ mc \in 0 .. Len(q) /\ DOMAIN q = 1 .. Len(q)
        /\ QueueOk(c, P) /\ pos \in 1 .. Len(q) /\ n \in Node /\ b \in Bufs /\ s \in Streams
    BY UnmatchedOf DEF Arrival, Place, IsFilled
  <1>2. stale(older, pos) = mc + 1 .. pos - 1 /\ mc + 1 <= pos
    BY CompletedOlder
  <1>3. ~q[pos].matched /\ Fits(q[pos], s, f) /\ q[pos].slot[s].frame_idx = 0
        /\ \A k \in 1 .. Len(q) : k < pos /\ ~q[k].matched => ~Fits(q[k], s, f)
    BY DEF Place
  <1>4. q2 = keep(q1, Gap(1, Len(q), mc + 1, pos - 1))
    BY <1>1, <1>2 DEF Gap
  <1>5. DOMAIN q1 = 1 .. Len(q) /\ \A k \in 1 .. Len(q) : q1[k] = IF k = pos THEN n ELSE q[k]
    BY <1>1
  <1> HIDE DEF q1, mc
  <1>6. /\ DOMAIN q2 = 1 .. Len(q) - (pos - 1 - mc)
        /\ \A k \in 1 .. Len(q) - (pos - 1 - mc) :
             q2[k] = q1[IF k <= mc THEN k ELSE k + pos - 1 - mc]
    <2>1. pos - 1 \in Nat /\ mc \in Nat /\ mc <= pos - 1 /\ pos - 1 <= Len(q)
      BY <1>1, <1>2
    <2>2. \A k \in Int : k + (pos - 1) - mc = k + pos - 1 - mc
      BY <1>1
    <2>3. /\ DOMAIN q2 = 1 .. Len(q) - (pos - 1 - mc)
          /\ \A k \in 1 .. Len(q) - (pos - 1 - mc) :
               q2[k] = q1[IF k <= mc THEN k ELSE k + (pos - 1) - mc]
      <3> DEFINE e == pos - 1
                 l == Len(q)
      <3> HIDE DEF q2, e, l
      <3>1. e \in Nat /\ mc \in Nat /\ mc <= e /\ e <= l /\ l \in Nat
        BY <1>1, <2>1 DEF e, l
      <3>2. q2 = keep(q1, Gap(1, l, mc + 1, e))
        BY <1>4 DEF e, l
      <3>3. /\ DOMAIN q2 = 1 .. l - (e - mc)
            /\ \A k \in 1 .. l - (e - mc) : q2[k] = q1[IF k <= mc THEN k ELSE k + e - mc]
        BY <3>1, <3>2, KeepTail
      <3> QED BY <3>3 DEF e, l
    <2> HIDE DEF q2
    <2>4. ASSUME NEW k \in 1 .. Len(q) - (pos - 1 - mc)
          PROVE  q2[k] = q1[IF k <= mc THEN k ELSE k + pos - 1 - mc]
      <3>1. k \in Int /\ q2[k] = q1[IF k <= mc THEN k ELSE k + (pos - 1) - mc]
        BY <2>3
      <3>2. k + (pos - 1) - mc = k + pos - 1 - mc
        BY <2>2, <3>1
      <3> QED BY <3>1, <3>2, Zenon
    <2> QED BY <2>3, <2>4, Zenon
  <1> DEFINE len == Len(q) - (pos - 1 - mc)
  <1>7. /\ len \in Nat /\ mc + 1 <= len
        /\ \A k \in 1 .. len : /\ k <= mc => k \in 1 .. Len(q) /\ k # pos
                               /\ k = mc + 1 => k + pos - 1 - mc = pos
                               /\ mc + 1 < k => k + pos - 1 - mc \in pos + 1 .. Len(q)
    BY <1>1, <1>2
  <1>8. \A k \in 1 .. len : /\ k <= mc => q2[k] = q[k]
                            /\ k = mc + 1 => q2[k] = n
                            /\ mc + 1 < k => q2[k] = q[k + pos - 1 - mc]
    <2> SUFFICES ASSUME NEW k \in 1 .. len
                 PROVE  /\ k <= mc => q2[k] = q[k]
                        /\ k = mc + 1 => q2[k] = n
                        /\ mc + 1 < k => q2[k] = q[k + pos - 1 - mc]
      OBVIOUS
    <2>1. q2[k] = q1[IF k <= mc THEN k ELSE k + pos - 1 - mc]
      BY <1>6
    <2> HIDE DEF q2, len
    <2>2. CASE k <= mc
      <3>1. k \in 1 .. Len(q) /\ k # pos
        BY <1>7, <2>2
      <3>2. q2[k] = q[k]
        BY <1>5, <2>1, <2>2, <3>1
      <3> QED BY <1>1, <1>7, <2>2, <3>2
    <2>3. CASE k = mc + 1
      <3>1. k + pos - 1 - mc = pos /\ ~(k <= mc)
        BY <1>1, <1>7, <2>3, SMTT(20)
      <3>2. q2[k] = q1[pos]
        BY <2>1, <3>1
      <3>3. q1[pos] = n
        BY <1>1, <1>5
      <3> QED BY <1>1, <2>3, <3>2, <3>3, SMTT(20)
    <2>4. CASE mc + 1 < k
      <3>1. k + pos - 1 - mc \in 1 .. Len(q) /\ k + pos - 1 - mc # pos /\ ~(k <= mc) /\ k # mc + 1
        BY <1>1, <1>7, <2>4
      <3>2. q2[k] = q1[k + pos - 1 - mc]
        BY <2>1, <3>1
      <3>3. q1[k + pos - 1 - mc] = q[k + pos - 1 - mc]
        BY <1>5, <3>1
      <3> QED BY <3>1, <3>2, <3>3
    <2> QED BY <1>1, <1>7, <2>2, <2>3, <2>4
  <1>9. q2 \in Seq(Node) /\ Len(q2) = len
    <2>1. q2 = [k \in 1 .. len |-> q2[k]]
      <3>1. q2 = [k \in DOMAIN q2 |-> q2[k]]
        BY <1>4 DEF keep
      <3> QED BY <1>6, <3>1
    <2>2. \A k \in 1 .. len : q2[k] \in Node
      <3> SUFFICES ASSUME NEW k \in 1 .. len PROVE q2[k] \in Node
        OBVIOUS
      <3>1. \A l \in 1 .. Len(q) : q[l] \in Node
        BY <1>1
      <3>2. pos + 1 .. Len(q) \subseteq 1 .. Len(q)
        BY <1>1
      <3>3. k <= mc \/ k = mc + 1 \/ mc + 1 < k
        BY <1>1, <1>7
      <3> HIDE DEF q2, len
      <3> QED BY <1>1, <1>7, <1>8, <3>1, <3>2, <3>3
    <2> HIDE DEF q2, len
    <2> QED BY <1>7, <2>1, <2>2
  <1>10. d \in Channel
    BY <1>9
  <1> HIDE DEF q2, len
  <1>11. Derived(q2, q, g, mc + 1, n) /\ mc + 1 # 0
    <2>1. mc + 1 \in 1 .. Len(q2) /\ q2[mc + 1] = n
      BY <1>1, <1>7, <1>8, <1>9
    <2>2. \A k \in 1 .. Len(q2) : k # mc + 1 => g[k] \in 1 .. Len(q) /\ q2[k] = q[g[k]]
      <3> SUFFICES ASSUME NEW k \in 1 .. Len(q2), k # mc + 1
                   PROVE  g[k] \in 1 .. Len(q) /\ q2[k] = q[g[k]]
        OBVIOUS
      <3>1. CASE k <= mc
        BY <1>7, <1>8, <1>9, <3>1
      <3>2. CASE mc + 1 < k
        <4>1. g[k] = k + pos - 1 - mc
          BY <1>1, <1>9, <3>2
        <4>2. k \in 1 .. len
          BY <1>9
        <4>3. k + pos - 1 - mc \in pos + 1 .. Len(q) /\ q2[k] = q[k + pos - 1 - mc]
          BY <1>7, <1>8, <3>2, <4>2
        <4>4. pos + 1 .. Len(q) \subseteq 1 .. Len(q)
          BY <1>1
        <4> QED BY <4>1, <4>3, <4>4
      <3> QED BY <1>1, <1>9, <1>7, <3>1, <3>2
    <2>3. \A k, l \in 1 .. Len(q2) : k < l => g[k] < g[l]
      BY <1>1, <1>2, <1>7, <1>9
    <2> HIDE DEF g
    <2> QED BY <1>1, <1>9, <2>1, <2>2, <2>3 DEF Derived
  <1>12. Around(q2, g, mc + 1, pos)
    BY <1>1, <1>2, <1>7, <1>9 DEF Around
  <1>13. Sources(q2, g, mc + 1, pos) = (1 .. Len(q)) \ (mc + 1 .. pos - 1)
    <2>1. \A l \in 1 .. Len(q2) : l # mc + 1 => g[l] \in (1 .. Len(q)) \ (mc + 1 .. pos - 1)
      BY <1>1, <1>2, <1>7, <1>9
    <2>2. ASSUME NEW k \in (1 .. Len(q)) \ (mc + 1 .. pos - 1), k # pos
          PROVE  \E l \in 1 .. Len(q2) : l # mc + 1 /\ g[l] = k
      <3>1. CASE k <= mc
        <4>1. k \in 1 .. Len(q2) /\ k # mc + 1
          BY <1>1, <1>7, <1>9, <3>1
        <4>2. g[k] = k
          BY <3>1, <4>1
        <4> HIDE DEF g
        <4> QED BY <4>1, <4>2
      <3>2. CASE k > pos
        <4>1. k - (pos - 1 - mc) \in 1 .. Len(q2) /\ k - (pos - 1 - mc) > mc + 1
          BY <1>1, <1>2, <1>9, <3>2 DEF len
        <4>2. g[k - (pos - 1 - mc)] = k
          BY <1>1, <1>2, <4>1
        <4> HIDE DEF g
        <4> QED BY <1>1, <4>1, <4>2
      <3> QED BY <1>1, <2>2, <3>1, <3>2, SMTT(20)
    <2>3. pos \in (1 .. Len(q)) \ (mc + 1 .. pos - 1)
      BY <1>1, <1>2
    <2> HIDE DEF g, q
    <2> QED BY <2>1, <2>2, <2>3 DEF Sources
  <1> HIDE DEF g
  <1>15. AllOk(q2, P2) /\ HeldAs(q2, q, Sources(q2, g, mc + 1, pos), s, b)
    BY <1>3, <1>11, <1>12, FilledQueue
  <1>16. Settled(q, q2, buffersOf(q, mc + 1 .. pos - 1), {<<s, b>>})
    <2>1. \A x \in Pairs :
            /\ x \in HeldIn(q) <=> \E k \in 1 .. Len(q) :
                 q[k].slot[x[1]].frame_idx # 0 /\ q[k].slot[x[1]].buf = x[2]
            /\ x \in buffersOf(q, mc + 1 .. pos - 1) <=> \E k \in mc + 1 .. pos - 1 :
                 q[k].slot[x[1]].frame_idx # 0 /\ q[k].slot[x[1]].buf = x[2]
      BY DEF HeldIn, buffersOf, Pairs
    <2>2. HeldIn(q2) \subseteq Pairs /\ HeldIn(q) \subseteq Pairs /\ <<s, b>> \in Pairs
          /\ buffersOf(q, mc + 1 .. pos - 1) \subseteq Pairs
      BY <1>1 DEF HeldIn, buffersOf, Pairs
    <2>3. \A x \in Pairs : x \in HeldIn(q2) <=>
            \/ x = <<s, b>>
            \/ \E k \in (1 .. Len(q)) \ (mc + 1 .. pos - 1) :
                 q[k].slot[x[1]].frame_idx # 0 /\ q[k].slot[x[1]].buf = x[2]
      BY <1>13, <1>15 DEF HeldAs
    <2>4. mc + 1 .. pos - 1 \subseteq 1 .. Len(q)
      BY <1>1
    <2>5. HeldIn(q2) \cup buffersOf(q, mc + 1 .. pos - 1) = HeldIn(q) \cup {<<s, b>>}
      <3>1. \A x \in Pairs : x \in HeldIn(q2) \/ x \in buffersOf(q, mc + 1 .. pos - 1)
                              <=> x \in HeldIn(q) \/ x = <<s, b>>
        <4> HIDE DEF q
        <4> QED BY <2>1, <2>3, <2>4
      <3> QED BY <2>2, <3>1
    <2>6. <<s, b>> \notin HeldIn(q)
      BY DEF Arrival, HeldIn
    <2>7. ASSUME NEW x \in Pairs, x \in HeldIn(q2), x \in buffersOf(q, mc + 1 .. pos - 1)
          PROVE  FALSE
      <3>1. PICK k \in mc + 1 .. pos - 1 : q[k].slot[x[1]].frame_idx # 0
                                            /\ q[k].slot[x[1]].buf = x[2]
        BY <2>1, <2>7
      <3>2. x \in HeldIn(q)
        BY <2>1, <2>4, <3>1
      <3>3. PICK l \in (1 .. Len(q)) \ (mc + 1 .. pos - 1) :
              q[l].slot[x[1]].frame_idx # 0 /\ q[l].slot[x[1]].buf = x[2]
        BY <2>3, <2>6, <2>7, <3>2
      <3>4. k \in 1 .. Len(q) /\ l \in 1 .. Len(q) /\ k # l /\ x[1] \in Streams
        BY <2>4 DEF Pairs
      <3>5. NodeOk(q[k]) /\ Once(q)
        BY <1>1, <3>4 DEF QueueOk
      <3>6. q[k].slot[x[1]].buf # NoBuf
        BY <3>1, <3>4, <3>5 DEF NodeOk
      <3> QED BY <3>1, <3>3, <3>4, <3>5, <3>6 DEF Once
    <2> QED BY <2>2, <2>5, <2>7 DEF Settled
  <1>17. MatchedPrefix(d) /\ Bounded(d)
    <2>1. \A k \in 1 .. Len(q) : q[k].matched <=> k <= mc
      BY <1>1 DEF QueueOk, MatchedPrefix, mc
    <2>2. Len(q) - mc <= attr.max_unmatched_frames + 1 /\ attr.max_unmatched_frames \in Nat
      BY <1>1, ChannelAssumption DEF QueueOk, Bounded, Arrival, mc
    <2>3. \A k \in 1 .. Len(q2) : q2[k].matched <=> k <= mc + 1
      <3> SUFFICES ASSUME NEW k \in 1 .. Len(q2) PROVE q2[k].matched <=> k <= mc + 1
        OBVIOUS
      <3>1. CASE k <= mc
        BY <1>1, <1>7, <1>8, <1>9, <2>1, <3>1
      <3>2. CASE k = mc + 1
        BY <1>1, <1>8, <1>9, <3>2
      <3>3. CASE mc + 1 < k
        <4>1. k \in 1 .. len
          BY <1>9
        <4>2. q2[k] = q[k + pos - 1 - mc] /\ k + pos - 1 - mc \in pos + 1 .. Len(q)
          BY <1>7, <1>8, <3>3, <4>1
        <4>3. k + pos - 1 - mc \in 1 .. Len(q) /\ ~(k + pos - 1 - mc <= mc)
          BY <1>1, <1>2, <4>2
        <4> QED BY <1>1, <2>1, <3>3, <4>2, <4>3
      <3> QED BY <1>1, <1>9, <1>7, <3>1, <3>2, <3>3
    <2>4. d.match_cnt = mc + 1 /\ d.queue = q2
      BY DEF mc, q2
    <2>5. Len(q2) - (mc + 1) <= attr.max_unmatched_frames + 1 /\ mc + 1 <= Len(q2)
      BY <1>1, <1>2, <1>7, <1>9, <2>2 DEF len
    <2> QED BY <2>3, <2>4, <2>5 DEF MatchedPrefix, Bounded
  <1>18. QueueOk(d, P2)
    BY <1>10, <1>15, <1>17 DEF QueueOk, AllOk, q2
  <1> QED BY <1>2, <1>16, <1>18 DEF StepOk, result, q2

LEMMA FillOk ==
  ASSUME NEW c, NEW P, NEW s, NEW b, NEW f, Arrival(c, P, s, b, f),
         NEW P2, Extended(P2, P, s, f),
         NEW pos, NEW older, Place(c, s, f, pos, older)
  PROVE  StepOk(c, fill(c, s, b, f, pos, older), P2, {<<s, b>>})
  <1> DEFINE old == c.queue[pos]
             node == IF old.unmatched_meta_idx > 0
                     THEN [old EXCEPT !.unmatched_meta_idx = 0, !.frame_idx = f] ELSE old
             slot == [node.slot EXCEPT ![s] = [buf |-> b, frame_idx |-> f]]
             done == [node EXCEPT !.slot = slot, !.matched = TRUE, !.expected_frame = FALSE]
             hold == c.diverted_frame_id = f
             wait == [node EXCEPT !.slot = slot, !.expected_frame = @ \/ hold]
             drop == stale(older, pos)
             taken == [c EXCEPT !.queue[pos] = node]
             full == [c EXCEPT !.queue = keep([@ EXCEPT ![pos] = done], DOMAIN @ \ drop),
                               !.match_cnt = @ + 1,
                               !.expected_frame_id = f + attr.post_frame_skip]
             part == [c EXCEPT !.queue[pos] = wait,
                               !.diverted_frame_id = IF hold THEN 0 ELSE @]
  <1>1. /\ pos \in 1 .. Len(c.queue) /\ ~old.matched /\ Fits(old, s, f)
        /\ c \in Channel /\ attr \in Attrs
    BY DEF Place, Arrival, QueueOk
  <1>2. /\ c.queue \in Seq(Node) /\ old \in Node
        /\ s \in Streams /\ f \in Nat \ {0} /\ b \in Bufs
    BY <1>1, ArrivalNode
  <1>3. /\ old.frame_idx \in Nat \ {0} /\ old.unmatched_meta_idx \in Nat
        /\ old.slot \in [Streams -> Slot]
    BY <1>2, NodeTypes
  <1>4. old.slot[s].frame_idx # 0 => old.unmatched_meta_idx = 0
    BY <1>1, FitsCases
  <1> HIDE DEF old
  <1>5. /\ node \in Node /\ node.slot = old.slot /\ node.matched = old.matched
        /\ node.unmatched_meta_idx = 0
        /\ node.frame_idx = IF old.unmatched_meta_idx > 0 THEN f ELSE old.frame_idx
    <2>1. CASE old.unmatched_meta_idx > 0
      BY <1>2, <1>3, <2>1 DEF Node
    <2>2. CASE old.unmatched_meta_idx = 0
      BY <1>2, <1>3, <2>2
    <2> QED BY <1>3, <2>1, <2>2
  <1> HIDE DEF node
  <1>6. slot \in [Streams -> Slot]
    BY <1>2, <1>3, <1>5 DEF Slot
  <1> HIDE DEF slot
  <1>7. /\ done \in Node /\ done.frame_idx = node.frame_idx /\ done.unmatched_meta_idx = 0
        /\ done.slot = slot /\ done.matched = TRUE
    BY <1>5, <1>6 DEF Node
  <1>8. /\ wait \in Node /\ wait.frame_idx = node.frame_idx /\ wait.unmatched_meta_idx = 0
        /\ wait.slot = slot /\ wait.matched = old.matched
    BY <1>5, <1>6 DEF Node
  <1> HIDE DEF done, wait, hold, drop
  <1>9. CASE node.slot[s].frame_idx # 0
    <2>1. fill(c, s, b, f, pos, older) = result(taken, {<<s, b>>}, FALSE)
      <3>1. node.slot[s].frame_idx # 0 /\ ~(node.slot[s].frame_idx = 0 /\ allMatched(slot))
        BY <1>9
      <3> QED BY <3>1, Zenon DEF fill, old, node, slot, done, wait, hold, drop
    <2>2. node = old
      BY <1>3, <1>4, <1>5, <1>9 DEF node
    <2>3. [c.queue EXCEPT ![pos] = old] = c.queue
      BY <1>1, <1>2 DEF old
    <2>4. taken = c
      BY <1>1, <2>2, <2>3 DEF Channel
    <2>5. StepOk(c, result(c, {<<s, b>>}, FALSE), P2, {<<s, b>>})
      BY GivenBack
    <2> HIDE DEF taken
    <2> QED BY <2>1, <2>4, <2>5
  <1>10. CASE node.slot[s].frame_idx = 0 /\ allMatched(slot)
    <2>1. fill(c, s, b, f, pos, older) = result(full, buffersOf(c.queue, drop), FALSE)
      <3>1. ~(node.slot[s].frame_idx # 0) /\ (node.slot[s].frame_idx = 0 /\ allMatched(slot))
        BY <1>10
      <3> QED BY <3>1, Zenon DEF fill, old, node, slot, done, wait, hold, drop
    <2>2. IsFilled(done, old, s, b, f) /\ done.matched
      BY <1>5, <1>7, <1>10 DEF IsFilled, slot
    <2>3. old.slot[s].frame_idx = 0
      BY <1>5, <1>10
    <2>4. /\ full.queue = keep([c.queue EXCEPT ![pos] = done], DOMAIN c.queue \ drop)
          /\ full.match_cnt = c.match_cnt + 1
      BY <1>1 DEF Channel
    <2>5. full \in Channel \/ full.queue \notin Seq(Node)
      <3> SUFFICES ASSUME full.queue \in Seq(Node) PROVE full \in Channel
        OBVIOUS
      <3> DEFINE k == keep([c.queue EXCEPT ![pos] = done], DOMAIN c.queue \ drop)
      <3>1. k \in Seq(Node)
        BY <2>4
      <3>2. f + attr.post_frame_skip \in Nat /\ c.match_cnt + 1 \in Nat
        <4>1. attr.post_frame_skip \in Nat
          BY <1>1, ChannelAssumption
        <4>2. c.match_cnt \in Nat
          BY <1>1 DEF Channel
        <4> QED BY <1>2, <4>1, <4>2
      <3> HIDE DEF k
      <3>3. full = [c EXCEPT !.queue = k, !.match_cnt = @ + 1,
                             !.expected_frame_id = f + attr.post_frame_skip]
        BY DEF k
      <3> HIDE DEF full
      <3> QED BY <1>1, <3>1, <3>2, <3>3 DEF Channel
    <2> HIDE DEF full
    <2>6. StepOk(c, result(full, buffersOf(c.queue, drop), FALSE), P2, {<<s, b>>})
      BY <2>2, <2>3, <2>4, <2>5, FillCompletes DEF old, drop
    <2> QED BY <2>1, <2>6
  <1>11. CASE node.slot[s].frame_idx = 0 /\ ~allMatched(slot)
    <2>1. fill(c, s, b, f, pos, older) = result(part, {}, FALSE)
      <3>1. ~(node.slot[s].frame_idx # 0) /\ ~(node.slot[s].frame_idx = 0 /\ allMatched(slot))
        BY <1>11
      <3> QED BY <3>1, Zenon DEF fill, old, node, slot, done, wait, hold, drop
    <2>2. IsFilled(wait, old, s, b, f) /\ wait.matched = FALSE
      <3>1. wait.matched = FALSE
        BY <1>1, <1>2, <1>8 DEF Node
      <3> QED BY <1>1, <1>5, <1>8, <1>11, <3>1 DEF IsFilled, slot
    <2>3. old.slot[s].frame_idx = 0
      BY <1>5, <1>11
    <2>4. /\ part \in Channel
          /\ part.queue = [c.queue EXCEPT ![pos] = wait] /\ part.match_cnt = c.match_cnt
      <3>1. [c.queue EXCEPT ![pos] = wait] \in Seq(Node)
        BY <1>1, <1>2, <1>8
      <3> QED BY <1>1, <3>1 DEF Channel
    <2> HIDE DEF part
    <2>5. StepOk(c, result(part, {}, FALSE), P2, {<<s, b>>})
      <3>1. IsFilled(wait, c.queue[pos], s, b, f) /\ c.queue[pos].slot[s].frame_idx = 0
        BY <2>2, <2>3 DEF old
      <3>2. part \in Channel
        BY <2>4
      <3>3. part.queue = Replaced(c.queue, pos, wait) /\ part.match_cnt = c.match_cnt
        BY <2>4 DEF Replaced
      <3> QED BY <2>2, <3>1, <3>2, <3>3, FillWaits
    <2> QED BY <2>1, <2>5
  <1> QED BY <1>9, <1>10, <1>11

-----------------------------------------------------------------------------
(* A frame that gets a node of its own. *)

Hole(lo, hi, d) == (lo .. hi) \ {d}
HoleSize(lo, hi, d) == IF d \in lo .. hi THEN hi - lo ELSE hi - lo + 1
HoleIndex(lo, hi, d, k) == IF d \in lo .. hi /\ d - lo < k THEN lo + k ELSE lo + k - 1

LEMMA KeepHole ==
  ASSUME NEW q, NEW lo \in Nat \ {0}, NEW hi \in Nat, lo <= hi + 1, NEW d \in Nat
  PROVE  /\ Cardinality(Hole(lo, hi, d)) = HoleSize(lo, hi, d)
         /\ \A k \in 1 .. HoleSize(lo, hi, d) :
              keep(q, Hole(lo, hi, d))[k] = q[HoleIndex(lo, hi, d, k)]
  <1>1. CASE d \in lo .. hi
    <2>1. Hole(lo, hi, d) = Gap(lo, hi, d, d)
      BY DEF Gap, Hole
    <2>2. lo \in Nat /\ lo <= d /\ d <= d + 1 /\ d <= hi
      BY <1>1
    <2>3. /\ Cardinality(Gap(lo, hi, d, d)) = GapSize(lo, hi, d, d)
          /\ \A k \in 1 .. GapSize(lo, hi, d, d) :
               keep(q, Gap(lo, hi, d, d))[k] = q[GapIndex(lo, d, d, k)]
      <3>1. Cardinality(Gap(lo, hi, d, d)) = GapSize(lo, hi, d, d)
        BY <2>2, KeepGap
      <3>2. ASSUME NEW k \in 1 .. GapSize(lo, hi, d, d)
            PROVE  keep(q, Gap(lo, hi, d, d))[k] = q[GapIndex(lo, d, d, k)]
        BY <2>2, KeepGap
      <3> QED BY <3>1, <3>2
    <2>4. GapSize(lo, hi, d, d) = HoleSize(lo, hi, d)
      BY <1>1 DEF GapSize, HoleSize
    <2>5. \A k \in 1 .. HoleSize(lo, hi, d) : GapIndex(lo, d, d, k) = HoleIndex(lo, hi, d, k)
      BY <1>1 DEF HoleIndex, GapIndex, HoleSize
    <2> QED BY <2>1, <2>3, <2>4, <2>5
  <1>2. CASE d \notin lo .. hi
    <2> DEFINE e == lo - 1
    <2>1. Hole(lo, hi, d) = Gap(lo, hi, lo, e)
      BY <1>2 DEF Gap, Hole
    <2>2. lo \in Nat /\ lo <= lo /\ lo <= e + 1 /\ e <= hi /\ e \in Nat
      OBVIOUS
    <2>3. /\ Cardinality(Gap(lo, hi, lo, e)) = GapSize(lo, hi, lo, e)
          /\ \A k \in 1 .. GapSize(lo, hi, lo, e) :
               keep(q, Gap(lo, hi, lo, e))[k] = q[GapIndex(lo, lo, e, k)]
      <3> HIDE DEF e
      <3>1. Cardinality(Gap(lo, hi, lo, e)) = GapSize(lo, hi, lo, e)
        BY <2>2, KeepGap
      <3>2. ASSUME NEW k \in 1 .. GapSize(lo, hi, lo, e)
            PROVE  keep(q, Gap(lo, hi, lo, e))[k] = q[GapIndex(lo, lo, e, k)]
        BY <2>2, KeepGap
      <3> QED BY <3>1, <3>2
    <2>4. GapSize(lo, hi, lo, e) = HoleSize(lo, hi, d)
      BY <1>2 DEF GapSize, HoleSize
    <2>5. \A k \in 1 .. HoleSize(lo, hi, d) : GapIndex(lo, lo, e, k) = HoleIndex(lo, hi, d, k)
      BY <1>2 DEF HoleIndex, GapIndex, HoleSize
    <2> HIDE DEF e
    <2> QED BY <2>1, <2>3, <2>4, <2>5
  <1> QED BY <1>1, <1>2

(* The node n before the one at at, and the one at d gone.                  *)
Inserted(q, at, d, n) ==
  keep(q, (1 .. at - 1) \ {d}) \o <<n>> \o keep(q, (at .. Len(q)) \ {d})
NewAt(at, d) == IF d < at THEN at - 1 ELSE at

LEMMA InsertShape ==
  ASSUME NEW q \in Seq(Node), NEW n \in Node,
         NEW at \in 1 .. Len(q) + 1, NEW d \in 1 .. Len(q) + 1
  PROVE  LET q2 == Inserted(q, at, d, n)
             p  == NewAt(at, d)
         IN  /\ q2 \in Seq(Node)
             /\ Len(q2) = IF d <= Len(q) THEN Len(q) ELSE Len(q) + 1
             /\ p \in 1 .. Len(q2) /\ q2[p] = n
             /\ \A k \in 1 .. Len(q2) :
                  /\ k < p => q2[k] = q[IF k < d THEN k ELSE k + 1]
                  /\ p < k => q2[k] = q[IF k <= d THEN k - 1 ELSE k]
  <1> DEFINE len == Len(q)
             hi == at - 1
             low == 1
             p == NewAt(at, d)
             A == keep(q, Hole(low, hi, d))
             B == keep(q, Hole(at, len, d))
             a == HoleSize(low, hi, d)
             b == HoleSize(at, len, d)
  <1>1. len \in Nat /\ hi \in Nat /\ low \in Nat \ {0} /\ low <= hi + 1
        /\ at \in Nat \ {0} /\ at <= len + 1 /\ d \in Nat /\ d \in 1 .. len + 1
    OBVIOUS
  <1>2. a = p - 1 /\ a \in Nat
    BY DEF HoleSize, NewAt
  <1>3. b = (IF d <= len THEN len ELSE len + 1) - p /\ b \in Nat
    <2>1. CASE d < at
      BY <1>1, <2>1 DEF HoleSize, NewAt
    <2>2. CASE at <= d /\ d <= len
      BY <1>1, <2>2 DEF HoleSize, NewAt
    <2>3. CASE len < d
      <3>1. ~(d < at) /\ d \notin at .. len /\ ~(d <= len)
        BY <1>1, <2>3
      <3>2. p = at /\ b = len - at + 1
        BY <3>1 DEF HoleSize, NewAt
      <3> HIDE DEF b, p, len
      <3> QED BY <1>1, <3>1, <3>2
    <2>4. d < at \/ (at <= d /\ d <= len) \/ len < d
      BY <1>1
    <2> HIDE DEF b, p, len
    <2> QED BY <2>1, <2>2, <2>3, <2>4
  <1>4. /\ Cardinality(Hole(low, hi, d)) = a
        /\ \A k \in 1 .. a : A[k] = q[HoleIndex(low, hi, d, k)]
    <2> HIDE DEF low, hi, len
    <2> QED BY <1>1, KeepHole
  <1>5. /\ Cardinality(Hole(at, len, d)) = b
        /\ \A k \in 1 .. b : B[k] = q[HoleIndex(at, len, d, k)]
    <2> HIDE DEF low, hi, len
    <2> QED BY <1>1, KeepHole
  <1>6. \A k \in 1 .. a : /\ HoleIndex(low, hi, d, k) = IF k < d THEN k ELSE k + 1
                          /\ HoleIndex(low, hi, d, k) \in 1 .. len
    BY DEF HoleIndex, HoleSize
  <1>7. \A k \in 1 .. b : /\ HoleIndex(at, len, d, k) = IF p + k <= d THEN p + k - 1 ELSE p + k
                          /\ HoleIndex(at, len, d, k) \in 1 .. len
    BY DEF HoleIndex, HoleSize, NewAt
  <1>8. \A k \in 1 .. len : q[k] \in Node
    OBVIOUS
  <1> DEFINE q2 == A \o <<n>> \o B
  <1>9. Inserted(q, at, d, n) = q2
    BY DEF Inserted, Hole
  <1>10. A \in Seq(Node) /\ Len(A) = a
    <2>1. A = [k \in 1 .. a |-> A[k]]
      BY <1>4 DEF keep
    <2>2. \A k \in 1 .. a : A[k] \in Node
      BY <1>4, <1>6, <1>8
    <2> HIDE DEF A, a
    <2> QED BY <1>2, <2>1, <2>2
  <1>11. B \in Seq(Node) /\ Len(B) = b
    <2>1. B = [k \in 1 .. b |-> B[k]]
      BY <1>5 DEF keep
    <2>2. \A k \in 1 .. b : B[k] \in Node
      BY <1>5, <1>7, <1>8
    <2>3. b \in Nat
      BY <1>3
    <2> HIDE DEF B, b
    <2> QED BY <2>1, <2>2, <2>3
  <1> HIDE DEF A, B, a, b
  <1>12. /\ q2 \in Seq(Node) /\ Len(q2) = a + 1 + b
         /\ \A k \in 1 .. a : q2[k] = A[k]
         /\ q2[a + 1] = n
         /\ \A k \in 1 .. b : q2[a + 1 + k] = B[k]
    <2> DEFINE C == A \o <<n>>
    <2>0. a \in Nat /\ b \in Nat
      BY <1>2, <1>3
    <2>1. /\ C \in Seq(Node) /\ Len(C) = a + 1 /\ C[a + 1] = n
          /\ \A k \in 1 .. a : C[k] = A[k]
      BY <1>10, <2>0
    <2> HIDE DEF C
    <2>2. q2 = C \o B
      BY DEF C
    <2>3. /\ q2 \in Seq(Node) /\ Len(q2) = Len(C) + Len(B)
          /\ \A k \in 1 .. Len(C) : q2[k] = C[k]
          /\ \A k \in Len(C) + 1 .. Len(C) + Len(B) : q2[k] = B[k - Len(C)]
      <3>1. /\ C \o B \in Seq(Node) /\ Len(C \o B) = Len(C) + Len(B)
            /\ \A k \in 1 .. Len(C) + Len(B) :
                 (C \o B)[k] = IF k <= Len(C) THEN C[k] ELSE B[k - Len(C)]
        BY <1>11, <2>1
      <3>2. Len(C) \in Nat /\ Len(B) \in Nat
        BY <1>11, <2>0, <2>1
      <3> HIDE DEF q2
      <3> QED BY <2>2, <3>1, <3>2
    <2> HIDE DEF q2
    <2>4. \A k \in 1 .. b : q2[a + 1 + k] = B[k]
      <3> SUFFICES ASSUME NEW k \in 1 .. b PROVE q2[a + 1 + k] = B[k]
        OBVIOUS
      <3>1. a + 1 + k \in Len(C) + 1 .. Len(C) + Len(B) /\ (a + 1 + k) - Len(C) = k
        BY <1>11, <2>0, <2>1
      <3> QED BY <2>3, <3>1
    <2> QED BY <1>11, <2>0, <2>1, <2>3, <2>4
  <1> HIDE DEF q2, p, len, hi, low
  <1>13. p \in Nat
    BY <1>1 DEF p, NewAt
  <1>14. Len(q2) = IF d <= len THEN len ELSE len + 1
    BY <1>1, <1>2, <1>3, <1>12, <1>13
  <1>15. p \in 1 .. Len(q2) /\ q2[p] = n
    BY <1>2, <1>3, <1>12, <1>13
  <1>16. ASSUME NEW k \in 1 .. Len(q2), k < p PROVE q2[k] = q[IF k < d THEN k ELSE k + 1]
    <2>1. k \in 1 .. a
      BY <1>2, <1>13, <1>16
    <2> QED BY <1>4, <1>6, <1>12, <2>1
  <1>17. ASSUME NEW k \in 1 .. Len(q2), p < k PROVE q2[k] = q[IF k <= d THEN k - 1 ELSE k]
    <2>1. k - p \in 1 .. b /\ a + 1 + (k - p) = k /\ p + (k - p) = k /\ p + (k - p) - 1 = k - 1
      BY <1>2, <1>3, <1>12, <1>13, <1>17
    <2>2. q2[k] = B[k - p]
      BY <1>12, <2>1
    <2>3. HoleIndex(at, len, d, k - p) = IF k <= d THEN k - 1 ELSE k
      BY <1>7, <2>1
    <2> QED BY <1>5, <2>1, <2>2, <2>3
  <1> QED BY <1>9, <1>12, <1>14, <1>15, <1>16, <1>17 DEF p, len

(* The node a frame starts.                                                 *)
IsNew(n, s, b, f) ==
  /\ n \in Node /\ n.frame_idx = f
  /\ n.slot = [t \in Streams |-> IF t = s THEN [buf |-> b, frame_idx |-> f] ELSE EmptySlot]
  /\ n.unmatched_meta_idx = IF Low /\ s = Meta THEN f ELSE 0
  /\ n.matched <=> allMatched(n.slot)

(* Where it goes, and that no complete node gives way to it.                *)
Gives(c, s, f, at, d) ==
  /\ at \in c.match_cnt + 1 .. Len(c.queue) + 1
  /\ d \in c.match_cnt + 1 .. Len(c.queue) + 1
  /\ \A k \in 1 .. Len(c.queue) : k < at /\ ~c.queue[k].matched => c.queue[k].frame_idx <= f
  /\ at <= Len(c.queue) => c.queue[at].frame_idx > f

LEMMA NewNode ==
  ASSUME NEW c, NEW P, NEW s, NEW b, NEW f, Arrival(c, P, s, b, f), NEW n, IsNew(n, s, b, f)
  PROVE  /\ NodeOk(n)
         /\ \A t \in Streams : n.slot[t].frame_idx # 0 => t = s /\ n.slot[t].frame_idx = f
         /\ \A t \in Streams : n.slot[t].buf # NoBuf => t = s /\ n.slot[t].buf = b
         /\ n.slot[s].frame_idx = f /\ n.slot[s].buf = b
         /\ n.matched => c.match_cnt = Len(c.queue)
  <1>1. /\ s \in Streams /\ f \in Nat \ {0} /\ b \in Bufs /\ b # NoBuf /\ Meta \in Streams
    BY ChannelAssumption DEF Arrival, Bufs, NoBuf
  <1>2. /\ \A t \in Streams : /\ t = s => n.slot[t].buf = b /\ n.slot[t].frame_idx = f
                              /\ t # s => n.slot[t].buf = NoBuf /\ n.slot[t].frame_idx = 0
        /\ n.frame_idx = f /\ n.matched \in BOOLEAN
        /\ n.unmatched_meta_idx = IF Low /\ s = Meta THEN f ELSE 0
        /\ n.matched <=> allMatched(n.slot)
    BY NodeTypes DEF IsNew, EmptySlot
  <1>3. NodeOk(n)
    <2>1. /\ n.unmatched_meta_idx > 0 => Low /\ s = Meta /\ n.unmatched_meta_idx = f
          /\ Low /\ n.unmatched_meta_idx = 0 => s # Meta
      BY <1>1, <1>2
    <2>2. ~Low => n.unmatched_meta_idx = 0
      BY <1>2
    <2>3. \A t \in Streams : /\ n.slot[t].frame_idx # 0 <=> n.slot[t].buf # NoBuf
                             /\ n.slot[t].frame_idx # 0 => n.slot[t].frame_idx = n.frame_idx
      BY <1>1, <1>2
    <2>4. \E t \in Streams : n.slot[t].frame_idx # 0
      BY <1>1, <1>2
    <2>5. n.unmatched_meta_idx > 0 =>
            /\ n.unmatched_meta_idx = n.frame_idx
            /\ n.slot[Meta].frame_idx = n.frame_idx
            /\ \A t \in Streams \ {Meta} : n.slot[t].frame_idx = 0
      BY <1>1, <1>2, <2>1
    <2>6. Low /\ n.unmatched_meta_idx = 0 => \E t \in Streams \ {Meta} : n.slot[t].frame_idx # 0
      BY <1>1, <1>2, <2>1
    <2> QED BY <1>2, <2>2, <2>3, <2>4, <2>5, <2>6 DEF NodeOk
  <1>4. n.matched => c.match_cnt = Len(c.queue)
    <2> SUFFICES ASSUME n.matched PROVE c.match_cnt = Len(c.queue)
      OBVIOUS
    <2>1. \A t \in Streams : t = s
      BY <1>1, <1>2 DEF allMatched
    <2>2. QueueOk(c, P) /\ c.match_cnt \in 0 .. Len(c.queue) /\ Len(c.queue) \in Nat
      BY UnmatchedOf DEF Arrival
    <2>3. \A k \in 1 .. Len(c.queue) : c.queue[k].matched
      <3> SUFFICES ASSUME NEW k \in 1 .. Len(c.queue) PROVE c.queue[k].matched
        OBVIOUS
      <3>1. NodeOk(c.queue[k])
        BY <2>2 DEF QueueOk
      <3> QED BY <2>1, <3>1 DEF NodeOk, allMatched
    <2>4. \A k \in 1 .. Len(c.queue) : k <= c.match_cnt
      BY <2>2, <2>3 DEF QueueOk, MatchedPrefix
    <2>5. CASE Len(c.queue) = 0
      BY <2>2, <2>5
    <2>6. CASE Len(c.queue) # 0
      <3>1. Len(c.queue) \in 1 .. Len(c.queue)
        BY <2>2, <2>6
      <3>2. Len(c.queue) <= c.match_cnt
        BY <2>4, <3>1
      <3> QED BY <2>2, <3>2
    <2> QED BY <2>5, <2>6
  <1> QED BY <1>1, <1>2, <1>3, <1>4

LEMMA InsertQueue ==
  ASSUME NEW c, NEW P, NEW s, NEW b, NEW f, Arrival(c, P, s, b, f),
         NEW P2, Extended(P2, P, s, f),
         NEW n, IsNew(n, s, b, f), NEW at, NEW d, Gives(c, s, f, at, d),
         d > Len(c.queue) => n.matched \/ Len(c.queue) - c.match_cnt <= attr.max_unmatched_frames,
         NEW e, e \in Channel \/ e.queue \notin Seq(Node), e.queue = Inserted(c.queue, at, d, n),
         e.match_cnt = IF n.matched THEN c.match_cnt + 1 ELSE c.match_cnt
  PROVE  StepOk(c, result(e, buffersOf(c.queue, {d} \cap 1 .. Len(c.queue)), FALSE),
                P2, {<<s, b>>})
  <1> DEFINE q == c.queue
             mc == c.match_cnt
             len == Len(q)
             q2 == e.queue
             p == NewAt(at, d)
             g == [k \in 1 .. Len(q2) |-> IF k < p THEN IF k < d THEN k ELSE k + 1
                                                   ELSE IF k <= d THEN k - 1 ELSE k]
  <1>1. /\ q \in Seq(Node) /\ len \in Nat /\ mc \in 0 .. len
        /\ QueueOk(c, P) /\ b \in Bufs /\ s \in Streams /\ f \in Nat
        /\ n \in Node /\ n.frame_idx = f
        /\ at \in mc + 1 .. len + 1 /\ d \in mc + 1 .. len + 1
    BY UnmatchedOf DEF Arrival, IsNew, Gives
  <1>2. /\ NodeOk(n)
        /\ \A t \in Streams : n.slot[t].frame_idx # 0 => t = s /\ n.slot[t].frame_idx = f
        /\ \A t \in Streams : n.slot[t].buf # NoBuf => t = s /\ n.slot[t].buf = b
        /\ n.slot[s].frame_idx = f /\ n.slot[s].buf = b
        /\ n.matched => mc = len
    BY NewNode
  <1>3. /\ q2 \in Seq(Node)
        /\ Len(q2) = IF d <= len THEN len ELSE len + 1
        /\ p \in 1 .. Len(q2) /\ q2[p] = n
        /\ \A k \in 1 .. Len(q2) :
             /\ k < p => q2[k] = q[IF k < d THEN k ELSE k + 1]
             /\ p < k => q2[k] = q[IF k <= d THEN k - 1 ELSE k]
    <2>1. at \in 1 .. Len(q) + 1 /\ d \in 1 .. Len(q) + 1
      BY <1>1
    <2>2. q2 = Inserted(q, at, d, n)
      OBVIOUS
    <2> HIDE DEF q, q2
    <2> QED BY <1>1, <2>1, <2>2, InsertShape DEF len
  <1>4. p = IF d < at THEN at - 1 ELSE at
    BY DEF NewAt
  <1>5. (\A k \in 1 .. len : NodeOk(q[k])) /\ Once(q) /\ SlotsPassed(q, P) /\ Ordered(q, P)
        /\ (\A k \in 1 .. len : q[k].matched <=> k <= mc)
        /\ len - mc <= attr.max_unmatched_frames + 1
    BY <1>1 DEF QueueOk, MatchedPrefix, Bounded
  <1>6. e \in Channel
    BY <1>3
  <1>6a. /\ e.queue = q2 /\ e.match_cnt = IF n.matched THEN mc + 1 ELSE mc
         /\ d > len => n.matched \/ len - mc <= attr.max_unmatched_frames
         /\ \A k \in 1 .. len : k < at /\ ~q[k].matched => q[k].frame_idx <= f
         /\ at <= len => q[at].frame_idx > f
    BY DEF Gives
  <1>7. attr.max_unmatched_frames \in Nat /\ P \cup {<<s, f>>} \subseteq P2
    BY ChannelAssumption DEF Arrival, Extended
  <1>8. /\ <<s, b>> \notin HeldIn(q)
        /\ \A k \in 1 .. len : q[k].slot[s].buf # b
    <2>1. <<s, b>> \notin HeldIn(q)
      BY DEF Arrival, HeldIn
    <2>2. b # NoBuf
      BY <1>1, ChannelAssumption DEF Bufs, NoBuf
    <2>3. ASSUME NEW k \in 1 .. len, q[k].slot[s].buf = b PROVE FALSE
      <3>1. q[k].slot[s].frame_idx # 0
        BY <1>1, <1>5, <2>2, <2>3 DEF NodeOk
      <3> QED BY <1>1, <2>1, <2>3, <3>1 DEF HeldIn, buffersOf
    <2> QED BY <2>1, <2>3
  <1> HIDE DEF q, mc, len, q2, p
  <1>9. \A k \in 1 .. Len(q2) : k # p =>
          /\ g[k] \in 1 .. len /\ g[k] # d /\ q2[k] = q[g[k]]
          /\ k < p => g[k] < at
          /\ p < k => at <= g[k]
          /\ g[k] <= mc <=> k <= mc
    <2> SUFFICES ASSUME NEW k \in 1 .. Len(q2), k # p
                 PROVE  /\ g[k] \in 1 .. len /\ g[k] # d /\ q2[k] = q[g[k]]
                        /\ k < p => g[k] < at
                        /\ p < k => at <= g[k]
                        /\ g[k] <= mc <=> k <= mc
      OBVIOUS
    <2>1. CASE k < p
      <3>1. g[k] = IF k < d THEN k ELSE k + 1
        BY <2>1
      <3>2. q2[k] = q[g[k]]
        BY <1>3, <2>1, <3>1
      <3> HIDE DEF g
      <3>3. CASE d < at
        BY <1>1, <1>3, <1>4, <2>1, <3>1, <3>2, <3>3
      <3>4. CASE ~(d < at)
        BY <1>1, <1>3, <1>4, <2>1, <3>1, <3>2, <3>4
      <3> QED BY <3>3, <3>4
    <2>2. CASE p < k
      <3>1. g[k] = IF k <= d THEN k - 1 ELSE k
        BY <1>3, <2>2
      <3>2. q2[k] = q[g[k]]
        BY <1>3, <2>2, <3>1
      <3> HIDE DEF g
      <3>3. CASE d < at
        BY <1>1, <1>3, <1>4, <2>2, <3>1, <3>2, <3>3
      <3>4. CASE ~(d < at)
        BY <1>1, <1>3, <1>4, <2>2, <3>1, <3>2, <3>4
      <3> QED BY <3>3, <3>4
    <2> QED BY <1>3, <2>1, <2>2
  <1>10. Derived(q2, q, g, p, n)
    <2>1. \A k, l \in 1 .. Len(q2) : k < l /\ k # p /\ l # p => g[k] < g[l]
      <3> SUFFICES ASSUME NEW k \in 1 .. Len(q2), NEW l \in 1 .. Len(q2), k < l, k # p, l # p
                   PROVE  g[k] < g[l]
        OBVIOUS
      <3>1. /\ g[k] = IF k < p THEN IF k < d THEN k ELSE k + 1 ELSE IF k <= d THEN k - 1 ELSE k
            /\ g[l] = IF l < p THEN IF l < d THEN l ELSE l + 1 ELSE IF l <= d THEN l - 1 ELSE l
        OBVIOUS
      <3>2. /\ k < p => g[k] < at
            /\ p < l => at <= g[l]
            /\ g[k] \in 1 .. len /\ g[l] \in 1 .. len
        BY <1>9
      <3> HIDE DEF g
      <3>3. CASE k < p /\ p < l
        BY <1>1, <3>2, <3>3
      <3>4. CASE l < p
        BY <1>1, <1>3, <3>1, <3>4
      <3>5. CASE p < k
        BY <1>1, <1>3, <3>1, <3>5
      <3> QED BY <1>3, <3>3, <3>4, <3>5
    <2>2. p \in 0 .. Len(q2) /\ q2[p] = n
      BY <1>3
    <2>3. \A k \in 1 .. Len(q2) : k # p => g[k] \in 1 .. Len(q) /\ q2[k] = q[g[k]]
      BY <1>9 DEF len
    <2> HIDE DEF g
    <2> QED BY <1>3, <2>1, <2>2, <2>3 DEF Derived
  <1>11. \A k \in 1 .. len : k # d => \E l \in 1 .. Len(q2) : l # p /\ g[l] = k
    <2> SUFFICES ASSUME NEW k \in 1 .. len, k # d
                 PROVE  \E l \in 1 .. Len(q2) : l # p /\ g[l] = k
      OBVIOUS
    <2>1. CASE k < at /\ k < d
      <3>1. k \in 1 .. Len(q2) /\ k < p
        BY <1>1, <1>3, <1>4, <2>1
      <3>2. g[k] = k
        BY <2>1, <3>1
      <3> HIDE DEF g
      <3> QED BY <1>3, <3>1, <3>2
    <2>2. CASE k < at /\ d < k
      <3>1. k - 1 \in 1 .. Len(q2) /\ k - 1 < p /\ ~(k - 1 < d) /\ k - 1 + 1 = k
        BY <1>1, <1>3, <1>4, <2>2
      <3>2. g[k - 1] = k
        BY <3>1
      <3> HIDE DEF g
      <3> QED BY <1>3, <3>1, <3>2
    <2>3. CASE at <= k /\ k < d
      <3>1. k + 1 \in 1 .. Len(q2) /\ p < k + 1 /\ k + 1 <= d /\ k + 1 - 1 = k
        BY <1>1, <1>3, <1>4, <2>3
      <3>2. g[k + 1] = k
        BY <1>3, <3>1
      <3> HIDE DEF g
      <3> QED BY <1>3, <3>1, <3>2
    <2>4. CASE at <= k /\ d < k
      <3>1. k \in 1 .. Len(q2) /\ p < k /\ ~(k <= d)
        BY <1>1, <1>3, <1>4, <2>4
      <3>2. g[k] = k
        BY <1>3, <3>1
      <3> HIDE DEF g
      <3> QED BY <1>3, <3>1, <3>2
    <2> QED BY <1>1, <2>1, <2>2, <2>3, <2>4
  <1> HIDE DEF g
  <1>12. p # 0
    BY <1>3
  <1>13. (\A k \in 1 .. Len(q2) : NodeOk(q2[k])) /\ Once(q2) /\ SlotsPassed(q2, P2)
    <2>1. \A t \in Streams : n.slot[t].frame_idx # 0 => <<t, n.slot[t].frame_idx>> \in P2
      BY <1>2, <1>7
    <2>2. \A k \in 1 .. Len(q2) : k # p => \A t \in Streams :
            q2[k].slot[t].buf # NoBuf => q2[k].slot[t].buf # n.slot[t].buf
      <3> SUFFICES ASSUME NEW k \in 1 .. Len(q2), k # p, NEW t \in Streams,
                          q2[k].slot[t].buf # NoBuf, q2[k].slot[t].buf = n.slot[t].buf
                   PROVE  FALSE
        OBVIOUS
      <3>1. t = s /\ n.slot[t].buf = b
        BY <1>2
      <3> QED BY <1>8, <1>9, <3>1
    <2>3. \A i \in 1 .. Len(q) : NodeOk(q[i])
      BY <1>5 DEF len
    <2>4. P \subseteq P2
      BY <1>7
    <2> QED BY <1>1, <1>2, <1>5, <1>10, <2>1, <2>2, <2>3, <2>4, DerivedNodes
  <1>14. Ordered(q2, P2)
    <2>1. ASSUME ~n.matched, NEW k \in 1 .. Len(q2), k < p, ~q2[k].matched,
                 q2[k].frame_idx > n.frame_idx
          PROVE  FALSE
      <3>1. k # p /\ g[k] \in 1 .. len /\ g[k] < at /\ q2[k] = q[g[k]]
        BY <1>3, <1>9, <2>1
      <3>2. q[g[k]].frame_idx <= f
        BY <1>6a, <2>1, <3>1
      <3>3. q2[k] \in Node
        BY <1>3
      <3>4. q2[k].frame_idx \in Nat
        BY <3>3, NodeTypes
      <3> QED BY <1>1, <2>1, <3>1, <3>2, <3>4
    <2>2. ASSUME ~n.matched, NEW k \in 1 .. Len(q2), p < k, ~q2[k].matched,
                 n.frame_idx > q2[k].frame_idx
          PROVE  Missed(q2[k], P2)
      <3>1. k # p /\ g[k] \in 1 .. len /\ at <= g[k] /\ q2[k] = q[g[k]]
        BY <1>3, <1>9, <2>2
      <3>2. at \in 1 .. len /\ q[at].frame_idx > f /\ ~q[at].matched
        BY <1>1, <1>5, <1>6a, <3>1
      <3>3. q[at].frame_idx \in Nat /\ q2[k].frame_idx \in Nat
        <4>1. q[at] \in Node /\ q2[k] \in Node
          BY <1>1, <1>3, <3>2 DEF len
        <4> QED BY <4>1, NodeTypes
      <3>4. q[at].frame_idx > q2[k].frame_idx
        BY <1>1, <2>2, <3>2, <3>3
      <3>5. at # g[k]
        BY <3>1, <3>3, <3>4
      <3>6. at < g[k]
        BY <3>1, <3>2, <3>5
      <3>7. Missed(q[g[k]], P)
        BY <1>5, <2>2, <3>1, <3>2, <3>4, <3>6 DEF Ordered, len
      <3> QED BY <1>7, <3>1, <3>7, MissedMonotone
    <2>3. P \subseteq P2
      BY <1>7
    <2> QED BY <1>1, <1>5, <1>10, <2>1, <2>2, <2>3, DerivedOrdered
  <1>15. MatchedPrefix(e) /\ Bounded(e)
    <2>1. ASSUME NEW k \in 1 .. Len(q2)
          PROVE  q2[k].matched <=> k <= e.match_cnt
      <3>1. CASE k = p /\ n.matched
        BY <1>1, <1>2, <1>3, <1>4, <1>6a, <2>1, <3>1
      <3>2. CASE k = p /\ ~n.matched
        BY <1>1, <1>3, <1>4, <1>6a, <2>1, <3>2
      <3>3. CASE k # p
        <4>1. q2[k].matched <=> k <= mc
          BY <1>5, <1>9, <3>3
        <4>2. n.matched => p = mc + 1
          BY <1>1, <1>2, <1>3, <1>4
        <4> QED BY <1>1, <1>3, <1>6a, <3>3, <4>1, <4>2
      <3> QED BY <3>1, <3>2, <3>3
    <2>2. CASE n.matched
      <3>1. Len(q2) = len + 1 /\ e.match_cnt = mc + 1 /\ mc = len
        BY <1>1, <1>2, <1>3, <1>6a, <2>2
      <3> QED BY <1>1, <1>6a, <1>7, <2>1, <3>1 DEF MatchedPrefix, Bounded
    <2>3. CASE ~n.matched
      <3>1. e.match_cnt = mc
        BY <1>6a, <2>3
      <3>2. Len(q2) - mc <= attr.max_unmatched_frames + 1 /\ mc <= Len(q2)
        BY <1>1, <1>3, <1>5, <1>6a, <1>7, <2>3
      <3> QED BY <1>6a, <2>1, <3>1, <3>2 DEF MatchedPrefix, Bounded
    <2> QED BY <2>2, <2>3
  <1>16. QueueOk(e, P2)
    BY <1>6, <1>6a, <1>13, <1>14, <1>15 DEF QueueOk
  <1>17. \A x \in Pairs : x \in HeldIn(q2) <=>
           \/ x = <<s, b>>
           \/ \E k \in 1 .. len : k # d /\ q[k].slot[x[1]].frame_idx # 0 /\ q[k].slot[x[1]].buf = x[2]
    <2> SUFFICES ASSUME NEW x \in Pairs
                 PROVE  x \in HeldIn(q2) <=>
                          \/ x = <<s, b>>
                          \/ \E k \in 1 .. len : k # d /\ q[k].slot[x[1]].frame_idx # 0
                                                       /\ q[k].slot[x[1]].buf = x[2]
      OBVIOUS
    <2>1. x \in HeldIn(q2) <=>
             \/ p # 0 /\ n.slot[x[1]].frame_idx # 0 /\ n.slot[x[1]].buf = x[2]
             \/ \E k \in 1 .. Len(q2) : k # p /\ q[g[k]].slot[x[1]].frame_idx # 0
                                             /\ q[g[k]].slot[x[1]].buf = x[2]
      BY <1>1, <1>10, DerivedBuffers DEF HeldIn
    <2>2. n.slot[x[1]].frame_idx # 0 /\ n.slot[x[1]].buf = x[2] <=> x = <<s, b>>
      <3>1. x[1] \in Streams /\ x = <<x[1], x[2]>>
        BY DEF Pairs
      <3>2. f # 0
        BY DEF Arrival
      <3>3. ASSUME n.slot[x[1]].frame_idx # 0, n.slot[x[1]].buf = x[2] PROVE x = <<s, b>>
        BY <1>2, <3>1, <3>3
      <3> QED BY <1>2, <3>1, <3>2, <3>3
    <2>3. (\E k \in 1 .. Len(q2) : k # p /\ q[g[k]].slot[x[1]].frame_idx # 0
                                        /\ q[g[k]].slot[x[1]].buf = x[2])
          <=> \E k \in 1 .. len : k # d /\ q[k].slot[x[1]].frame_idx # 0 /\ q[k].slot[x[1]].buf = x[2]
      BY <1>9, <1>11
    <2> QED BY <1>12, <2>1, <2>2, <2>3
  <1>18. Settled(q, q2, buffersOf(q, {d} \cap 1 .. len), {<<s, b>>})
    <2> DEFINE back == buffersOf(q, {d} \cap 1 .. len)
    <2>1. \A x \in Pairs :
            /\ x \in HeldIn(q) <=> \E k \in 1 .. len :
                 q[k].slot[x[1]].frame_idx # 0 /\ q[k].slot[x[1]].buf = x[2]
            /\ x \in back <=> \E k \in {d} \cap 1 .. len :
                 q[k].slot[x[1]].frame_idx # 0 /\ q[k].slot[x[1]].buf = x[2]
      BY DEF HeldIn, buffersOf, Pairs, len
    <2>2. HeldIn(q2) \subseteq Pairs /\ HeldIn(q) \subseteq Pairs /\ <<s, b>> \in Pairs
          /\ back \subseteq Pairs
      BY <1>1 DEF HeldIn, buffersOf, Pairs
    <2> HIDE DEF back
    <2>3. HeldIn(q2) \cup back = HeldIn(q) \cup {<<s, b>>}
      <3>1. \A x \in Pairs : x \in HeldIn(q2) \/ x \in back <=> x \in HeldIn(q) \/ x = <<s, b>>
        BY <1>17, <2>1
      <3> QED BY <2>2, <3>1
    <2>4. ASSUME NEW x \in Pairs, x \in HeldIn(q2), x \in back PROVE FALSE
      <3>1. d \in 1 .. len /\ q[d].slot[x[1]].frame_idx # 0 /\ q[d].slot[x[1]].buf = x[2]
        BY <2>1, <2>4
      <3>2. x \in HeldIn(q)
        BY <2>1, <3>1
      <3>3. PICK l \in 1 .. len : l # d /\ q[l].slot[x[1]].frame_idx # 0 /\ q[l].slot[x[1]].buf = x[2]
        BY <1>8, <1>17, <2>4, <3>2
      <3>4. x[1] \in Streams
        BY DEF Pairs
      <3>5. NodeOk(q[d]) /\ Once(q)
        BY <1>5, <3>1
      <3>6. q[d].slot[x[1]].buf # NoBuf
        BY <3>1, <3>4, <3>5 DEF NodeOk
      <3> QED BY <3>1, <3>3, <3>4, <3>5, <3>6 DEF Once, len
    <2> QED BY <2>2, <2>3, <2>4 DEF Settled, back
  <1> QED BY <1>16, <1>18 DEF StepOk, result, q, q2, len
(* What is released when a queue is over its limit.                         *)
Victims(q, over, older, newer) ==
  IF older = {} \/ over <= 0 THEN {}
  ELSE {i \in Min(older) .. Len(q) : ~q[i].expected_frame /\ (newer = {} \/ i # Min(newer))}
Gone(V, over) == {i \in V : rank(V, i) <= over}
Still(V, over) == Cardinality(Gone(V, over)) < over
Dropped(V, over, first) == IF Still(V, over) THEN Gone(V, over) \cup {first} ELSE Gone(V, over)

LEMMA RankPositive ==
  ASSUME NEW len \in Nat, NEW V \in SUBSET (1 .. len), NEW i \in V
  PROVE  rank(V, i) \in Nat \ {0}
  <1> DEFINE J == {j \in V : j <= i}
  <1>1. J \subseteq 1 .. len /\ i \in J
    <2>1. V \subseteq 1 .. len /\ i \in 1 .. len
      OBVIOUS
    <2>2. i <= i
      BY <2>1
    <2> QED BY <2>1, <2>2
  <1>2. IsFiniteSet(1 .. len)
    BY FS_Interval
  <1>3. rank(V, i) = Cardinality(J)
    BY DEF rank
  <1> HIDE DEF J
  <1>4. IsFiniteSet(J)
    BY <1>1, <1>2, FS_Subset
  <1>5. Cardinality(J) \in Nat /\ Cardinality(J) # 0
    BY <1>1, <1>4, FS_CardinalityType, FS_EmptySet
  <1> QED BY <1>3, <1>5

LEMMA FirstOf ==
  ASSUME NEW len \in Nat, NEW V \in SUBSET (1 .. len), V # {}
  PROVE  Gone(V, 1) = {Min(V)} /\ Min(V) \in V
  <1> DEFINE m == Min(V)
  <1>1. V \in SUBSET Nat
    OBVIOUS
  <1>2. m \in V /\ \A y \in V : m <= y
    BY <1>1, MinOf
  <1> HIDE DEF m
  <1>2a. m \in Nat /\ \A y \in V : y \in Nat
    BY <1>1, <1>2
  <1>3. rank(V, m) = 1
    <2>1. {j \in V : j <= m} = {m}
      <3>1. \A j \in V : j <= m <=> j = m
        BY <1>2, <1>2a
      <3> QED BY <1>2, <3>1
    <2>2. Cardinality({m}) = 1
      BY FS_Singleton
    <2> QED BY <2>1, <2>2 DEF rank
  <1>4. ASSUME NEW i \in V, i # m PROVE ~(rank(V, i) <= 1)
    <2> DEFINE J == {j \in V : j <= i}
    <2>1. m \in J /\ i \in J /\ J \subseteq 1 .. len
      <3>1. V \subseteq 1 .. len /\ i \in Nat /\ m <= i /\ i <= i
        BY <1>2, <1>2a
      <3> QED BY <1>2, <3>1
    <2>2. IsFiniteSet(1 .. len)
      BY FS_Interval
    <2>3. rank(V, i) = Cardinality(J)
      BY DEF rank
    <2> HIDE DEF J
    <2>4. IsFiniteSet(J)
      BY <2>1, <2>2, FS_Subset
    <2>5. {m, i} \subseteq J
      BY <2>1
    <2>6. Cardinality({m, i}) <= Cardinality(J)
      BY <2>4, <2>5, FS_Subset
    <2>7. Cardinality({m, i}) = 2
      <3>1. IsFiniteSet({m}) /\ Cardinality({m}) = 1
        BY FS_Singleton
      <3>2. Cardinality({m} \cup {i}) = Cardinality({m}) + 1
        BY <1>4, <3>1, FS_AddElement
      <3>3. {m} \cup {i} = {m, i}
        OBVIOUS
      <3> QED BY <3>1, <3>2, <3>3
    <2>8. Cardinality(J) \in Nat
      BY <2>4, FS_CardinalityType
    <2> QED BY <2>3, <2>6, <2>7, <2>8
  <1>5. \A i \in V : rank(V, i) <= 1 <=> i = m
    BY <1>3, <1>4
  <1>6. Gone(V, 1) = {m}
    BY <1>2, <1>5 DEF Gone
  <1> QED BY <1>2, <1>6 DEF m

(* At most one node goes, and it is not complete.                           *)
OneGoes(c, drop) ==
  \E d \in c.match_cnt + 1 .. Len(c.queue) + 1 :
    /\ drop = {d} \cap 1 .. Len(c.queue)
    /\ d > Len(c.queue) => Len(c.queue) - c.match_cnt <= attr.max_unmatched_frames

LEMMA DropOne ==
  ASSUME NEW c, NEW P, QueueOk(c, P), attr \in Attrs,
         NEW older, older \subseteq c.match_cnt + 1 .. Len(c.queue), NEW newer,
         NEW over, over = excess(c.queue), ~(over > 0 /\ older = {}),
         NEW V, V = Victims(c.queue, over, older, newer)
  PROVE  /\ ~(Still(V, over) /\ Min(older) \in Gone(V, over))
         /\ OneGoes(c, Dropped(V, over, Min(older)))
  <1> DEFINE mc == c.match_cnt
             len == Len(c.queue)
             first == Min(older)
  <1>1. mc \in 0 .. len /\ len \in Nat /\ attr.max_unmatched_frames \in Nat
    BY UnmatchedOf, ChannelAssumption
  <1>2. over = len - mc - attr.max_unmatched_frames /\ over <= 1 /\ over \in Int
    <2>1. Cardinality(unmatched(c.queue)) = len - mc
      BY UnmatchedOf
    <2>2. len - mc <= attr.max_unmatched_frames + 1
      BY DEF QueueOk, Bounded
    <2> QED BY <1>1, <2>1, <2>2 DEF excess
  <1>3. older # {} => first \in mc + 1 .. len
    <2>1. older \in SUBSET Nat
      BY <1>1
    <2>2. older # {} => first \in older
      BY <2>1, MinOf
    <2> QED BY <2>2
  <1> DEFINE Goal == /\ ~(Still(V, over) /\ first \in Gone(V, over))
                     /\ \E d \in mc + 1 .. len + 1 :
                          /\ Dropped(V, over, first) = {d} \cap 1 .. len
                          /\ d > len => len - mc <= attr.max_unmatched_frames
  <1>4. ASSUME over <= 0 PROVE Goal
    <2>1. V = {}
      BY <1>4 DEF Victims
    <2>2. Gone(V, over) = {} /\ Cardinality({}) = 0
      BY <2>1, FS_EmptySet DEF Gone
    <2>3. ~Still(V, over)
      <3>1. Cardinality(Gone(V, over)) = 0
        BY <2>2
      <3> QED BY <1>2, <1>4, <3>1 DEF Still
    <2>4. Dropped(V, over, first) = {}
      BY <2>2, <2>3 DEF Dropped
    <2> HIDE DEF first, len, mc
    <2>5. len + 1 \in mc + 1 .. len + 1 /\ {} = {len + 1} \cap 1 .. len
      BY <1>1
    <2>6. len - mc <= attr.max_unmatched_frames
      BY <1>1, <1>2, <1>4
    <2> QED BY <2>3, <2>4, <2>5, <2>6
  <1>5. ASSUME over > 0 PROVE Goal
    <2>1. over = 1 /\ older # {} /\ first \in mc + 1 .. len
      BY <1>2, <1>3, <1>5
    <2>2. V \subseteq first .. len
      BY <1>5, <2>1 DEF Victims
    <2> HIDE DEF first, len, mc
    <2>3. V \in SUBSET (1 .. len) /\ V \subseteq mc + 1 .. len
      BY <1>1, <2>1, <2>2
    <2>4. ASSUME NEW d \in mc + 1 .. len, Dropped(V, over, first) = {d}
          PROVE  \E e \in mc + 1 .. len + 1 :
                          /\ Dropped(V, over, first) = {e} \cap 1 .. len
                          /\ e > len => len - mc <= attr.max_unmatched_frames
      <3>1. d \in mc + 1 .. len + 1 /\ {d} = {d} \cap 1 .. len /\ ~(d > len)
        BY <1>1, <2>4
      <3> QED BY <2>4, <3>1
    <2>5. ASSUME V = {} PROVE Goal
      <3>1. Gone(V, over) = {} /\ Cardinality({}) = 0
        BY <2>5, FS_EmptySet DEF Gone
      <3>2. Still(V, over)
        <4>1. Cardinality(Gone(V, over)) = 0
          BY <3>1
        <4> QED BY <2>1, <4>1 DEF Still
      <3>3. Dropped(V, over, first) = {first}
        BY <3>1, <3>2 DEF Dropped
      <3> QED BY <2>1, <2>4, <3>1, <3>3
    <2>6. ASSUME V # {} PROVE Goal
      <3>1. Gone(V, over) = {Min(V)} /\ Min(V) \in V
        BY <1>1, <2>1, <2>3, <2>6, FirstOf
      <3>2. Cardinality({Min(V)}) = 1
        BY FS_Singleton
      <3>3. ~Still(V, over)
        <4>1. Cardinality(Gone(V, over)) = 1
          BY <3>1, <3>2
        <4> QED BY <2>1, <4>1 DEF Still
      <3>4. Dropped(V, over, first) = {Min(V)}
        BY <3>1, <3>3 DEF Dropped
      <3>5. Min(V) \in mc + 1 .. len
        BY <2>3, <3>1
      <3> QED BY <2>4, <3>3, <3>4, <3>5
    <2> QED BY <2>5, <2>6
  <1>6. Goal
    BY <1>2, <1>4, <1>5
  <1> QED BY <1>6 DEF OneGoes

(* The node of a frame that gets one of its own.                            *)
HoldsFor(c, f) == f \in {c.diverted_frame_id, c.good_frame_id}
NodeFor(c, s, b, f) ==
  [frame_idx |-> f,
   slot |-> [t \in Streams |-> IF t = s THEN [buf |-> b, frame_idx |-> f] ELSE EmptySlot],
   matched |-> Cardinality(Streams) = 1,
   expected_frame |-> HoldsFor(c, f) /\ ~(Cardinality(Streams) = 1),
   unmatched_meta_idx |-> IF Low /\ s = Meta THEN f ELSE 0]

LEMMA NodeForNew ==
  ASSUME NEW c, NEW P, NEW s, NEW b, NEW f, Arrival(c, P, s, b, f)
  PROVE  IsNew(NodeFor(c, s, b, f), s, b, f)
  <1> DEFINE slot == [t \in Streams |-> IF t = s THEN [buf |-> b, frame_idx |-> f] ELSE EmptySlot]
             single == Cardinality(Streams) = 1
             meta == IF Low /\ s = Meta THEN f ELSE 0
             hold == HoldsFor(c, f) /\ ~single
  <1>1. s \in Streams /\ b \in Bufs /\ f \in Nat \ {0} /\ IsFiniteSet(Streams)
    BY ChannelAssumption DEF Arrival
  <1>2. slot \in [Streams -> Slot]
    BY <1>1 DEF Slot, EmptySlot
  <1>3. single <=> allMatched(slot)
    <2>1. \A t \in Streams : slot[t].frame_idx # 0 <=> t = s
      BY <1>1 DEF EmptySlot
    <2>2. allMatched(slot) <=> Streams = {s}
      <3> HIDE DEF slot
      <3> QED BY <1>1, <2>1 DEF allMatched
    <2>3. single => Streams = {s}
      <3> SUFFICES ASSUME single PROVE Streams = {s}
        OBVIOUS
      <3>1. PICK x : Streams = {x}
        BY <1>1, FS_Singleton
      <3> QED BY <1>1, <3>1
    <2>4. Streams = {s} => single
      BY FS_Singleton
    <2> HIDE DEF slot, single
    <2> QED BY <2>2, <2>3, <2>4
  <1>4. meta \in Nat /\ hold \in BOOLEAN /\ single \in BOOLEAN
    BY <1>1
  <1>5. NodeFor(c, s, b, f) = [frame_idx |-> f, slot |-> slot, matched |-> single,
                               expected_frame |-> hold, unmatched_meta_idx |-> meta]
    BY DEF NodeFor
  <1>6. meta = IF Low /\ s = Meta THEN f ELSE 0
    OBVIOUS
  <1>7. slot = [t \in Streams |-> IF t = s THEN [buf |-> b, frame_idx |-> f] ELSE EmptySlot]
    OBVIOUS
  <1> HIDE DEF slot, single, meta, hold
  <1>8. NodeFor(c, s, b, f) \in Node
    BY <1>1, <1>2, <1>4, <1>5 DEF Node
  <1>9. /\ NodeFor(c, s, b, f).frame_idx = f /\ NodeFor(c, s, b, f).slot = slot
        /\ NodeFor(c, s, b, f).unmatched_meta_idx = meta
        /\ NodeFor(c, s, b, f).matched = single
    BY <1>5
  <1>10. NodeFor(c, s, b, f).matched <=> allMatched(NodeFor(c, s, b, f).slot)
    BY <1>3, <1>9
  <1> QED BY <1>6, <1>7, <1>8, <1>9, <1>10 DEF IsNew

(* The fields of the channel after the node is in at, the dropped gone.     *)
WithNode(c, s, b, f, at, drop) ==
  [c EXCEPT !.queue = keep(c.queue, (1 .. at - 1) \ drop) \o <<NodeFor(c, s, b, f)>>
                                      \o keep(c.queue, (at .. Len(c.queue)) \ drop),
            !.diverted_frame_id = IF HoldsFor(c, f) THEN 0 ELSE @,
            !.match_cnt = IF Cardinality(Streams) = 1 THEN @ + 1 ELSE @,
            !.expected_frame_id = IF Cardinality(Streams) = 1 THEN f + attr.post_frame_skip ELSE @]

LEMMA WithNodeFields ==
  ASSUME NEW c \in Channel, NEW s, NEW b, NEW f \in Nat, NEW at, NEW drop, attr \in Attrs
  PROVE  LET e == WithNode(c, s, b, f, at, drop)
         IN  /\ e.queue = keep(c.queue, (1 .. at - 1) \ drop) \o <<NodeFor(c, s, b, f)>>
                             \o keep(c.queue, (at .. Len(c.queue)) \ drop)
             /\ e.match_cnt = IF NodeFor(c, s, b, f).matched THEN c.match_cnt + 1 ELSE c.match_cnt
             /\ e \in Channel \/ e.queue \notin Seq(Node)
  <1> DEFINE q == keep(c.queue, (1 .. at - 1) \ drop) \o <<NodeFor(c, s, b, f)>>
                             \o keep(c.queue, (at .. Len(c.queue)) \ drop)
             single == Cardinality(Streams) = 1
             held == HoldsFor(c, f)
             e == [c EXCEPT !.queue = q,
                            !.diverted_frame_id = IF held THEN 0 ELSE @,
                            !.match_cnt = IF single THEN @ + 1 ELSE @,
                            !.expected_frame_id = IF single THEN f + attr.post_frame_skip ELSE @]
  <1>1. WithNode(c, s, b, f, at, drop) = e
    BY DEF WithNode
  <1>2. attr.post_frame_skip \in Nat
    BY ChannelAssumption
  <1>3. NodeFor(c, s, b, f).matched = single
    BY DEF NodeFor
  <1> HIDE DEF q, single, held
  <1>4. e.queue = q /\ e.match_cnt = IF single THEN c.match_cnt + 1 ELSE c.match_cnt
    BY DEF Channel
  <1>5. ASSUME q \in Seq(Node) PROVE e \in Channel
    <2> DEFINE diverted == IF held THEN 0 ELSE c.diverted_frame_id
               cnt == IF single THEN c.match_cnt + 1 ELSE c.match_cnt
               expected == IF single THEN f + attr.post_frame_skip ELSE c.expected_frame_id
    <2>1. diverted \in Nat /\ cnt \in Nat /\ expected \in Nat
      BY <1>2 DEF Channel
    <2>2. e = [c EXCEPT !.queue = q, !.diverted_frame_id = diverted, !.match_cnt = cnt,
                        !.expected_frame_id = expected]
      BY DEF Channel
    <2> HIDE DEF diverted, cnt, expected
    <2>3. [c EXCEPT !.queue = q, !.diverted_frame_id = diverted, !.match_cnt = cnt,
                    !.expected_frame_id = expected] \in Channel
      BY <1>5, <2>1 DEF Channel
    <2> HIDE DEF e
    <2> QED BY <2>2, <2>3
  <1>6. e \in Channel \/ e.queue \notin Seq(Node)
    <2> HIDE DEF e
    <2> QED BY <1>4, <1>5
  <1> HIDE DEF e
  <1> QED BY <1>1, <1>3, <1>4, <1>6 DEF q

(* The unmatched nodes before and after the frame.                          *)
Sides(c, f, older, newer) ==
  /\ older \subseteq c.match_cnt + 1 .. Len(c.queue)
  /\ newer = {i \in c.match_cnt + 1 .. Len(c.queue) : c.queue[i].frame_idx > f}

LEMMA InsertOk ==
  ASSUME NEW c, NEW P, NEW s, NEW b, NEW f, Arrival(c, P, s, b, f),
         NEW P2, Extended(P2, P, s, f),
         NEW older, NEW newer, Sides(c, f, older, newer)
  PROVE  StepOk(c, insert(c, s, b, f, older, newer), P2, {<<s, b>>})
  <1> DEFINE q == c.queue
             mc == c.match_cnt
             len == Len(q)
             over == excess(q)
             V == Victims(q, over, older, newer)
             at == IF newer = {} THEN len + 1 ELSE Min(newer)
             drop == Dropped(V, over, Min(older))
             node == NodeFor(c, s, b, f)
             e == WithNode(c, s, b, f, at, drop)
  <1>0. /\ older \subseteq mc + 1 .. len
        /\ newer = {i \in mc + 1 .. len : q[i].frame_idx > f}
    BY DEF Sides
  <1>1. ASSUME over > 0 /\ older = {}
        PROVE  StepOk(c, insert(c, s, b, f, older, newer), P2, {<<s, b>>})
    <2>1. insert(c, s, b, f, older, newer) = result(c, {<<s, b>>}, FALSE)
      BY <1>1 DEF insert
    <2> QED BY <2>1, GivenBack
  <1>2. ASSUME ~(over > 0 /\ older = {})
        PROVE  StepOk(c, insert(c, s, b, f, older, newer), P2, {<<s, b>>})
    <2>1. insert(c, s, b, f, older, newer) =
            result(e, buffersOf(q, drop), Still(V, over) /\ Min(older) \in Gone(V, over))
      BY <1>2, Zenon DEF insert, WithNode, NodeFor, HoldsFor, Victims, Dropped, Still, Gone
    <2>2. QueueOk(c, P) /\ attr \in Attrs /\ c \in Channel /\ f \in Nat /\ f \in Nat \ {0}
      BY DEF Arrival, QueueOk
    <2>3. mc \in 0 .. len /\ len \in Nat /\ q \in Seq(Node)
          /\ \A k \in 1 .. len : q[k].frame_idx \in Nat /\ (~q[k].matched <=> mc < k)
      <3>1. mc \in 0 .. len /\ len \in Nat /\ q \in Seq(Node)
        BY <2>2, UnmatchedOf
      <3>2. \A k \in 1 .. len : q[k] \in Node
        BY <3>1
      <3>3. \A k \in 1 .. len : q[k].frame_idx \in Nat
        BY <3>2, NodeTypes
      <3> QED BY <2>2, <3>1, <3>3 DEF QueueOk, MatchedPrefix
    <2>4. PICK d \in mc + 1 .. len + 1 :
            /\ drop = {d} \cap 1 .. len
            /\ d > len => len - mc <= attr.max_unmatched_frames
      <3> HIDE DEF V, over
      <3>1. over = excess(c.queue) /\ V = Victims(c.queue, over, older, newer)
        BY DEF V, over
      <3>1a. older \subseteq c.match_cnt + 1 .. Len(c.queue)
        BY <1>0
      <3> HIDE DEF mc, len, drop
      <3>2. OneGoes(c, Dropped(V, over, Min(older)))
        BY <1>2, <2>2, <3>1, <3>1a, DropOne
      <3> QED BY <3>2 DEF mc, len, drop, OneGoes
    <2>5. (Still(V, over) /\ Min(older) \in Gone(V, over)) = FALSE
      <3> HIDE DEF V, over
      <3>1. over = excess(c.queue) /\ V = Victims(c.queue, over, older, newer)
        BY DEF V, over
      <3>2. ~(Still(V, over) /\ Min(older) \in Gone(V, over))
        BY <1>0, <1>2, <2>2, <3>1, DropOne
      <3> QED BY <3>2
    <2> HIDE DEF V, over, drop
    <2>6. Gives(c, s, f, at, d)
      <3>1. newer \in SUBSET Nat /\ newer \subseteq mc + 1 .. len
        BY <1>0, <2>3
      <3>2. ASSUME newer = {} PROVE Gives(c, s, f, at, d)
        <4>1. at = len + 1
          BY <3>2
        <4>2. \A k \in 1 .. len : k < at /\ ~q[k].matched => q[k].frame_idx <= f
          <5> SUFFICES ASSUME NEW k \in 1 .. len, ~q[k].matched PROVE q[k].frame_idx <= f
            OBVIOUS
          <5>1. k \notin newer
            BY <3>2
          <5>2. k \in mc + 1 .. len
            BY <2>3
          <5> QED BY <1>0, <2>2, <2>3, <5>1, <5>2
        <4> HIDE DEF at
        <4>3. at \in mc + 1 .. len + 1 /\ ~(at <= len)
          BY <2>3, <4>1
        <4> QED BY <4>2, <4>3 DEF Gives
      <3>3. ASSUME newer # {} PROVE Gives(c, s, f, at, d)
        <4>1. at \in newer /\ \A y \in newer : at <= y
          BY <3>1, <3>3, MinOf
        <4> HIDE DEF at
        <4>2. at \in mc + 1 .. len /\ q[at].frame_idx > f
          BY <1>0, <4>1
        <4>3. ASSUME NEW k \in 1 .. len, k < at, ~q[k].matched PROVE q[k].frame_idx <= f
          <5>1. k \notin newer
            BY <2>3, <4>1, <4>2, <4>3
          <5>2. k \in mc + 1 .. len
            BY <2>3, <4>3
          <5> QED BY <1>0, <2>2, <2>3, <5>1, <5>2
        <4>4. at \in mc + 1 .. len + 1
          BY <2>3, <4>2
        <4> QED BY <4>2, <4>3, <4>4 DEF Gives
      <3> HIDE DEF at
      <3> QED BY <3>2, <3>3
    <2>7. at \in Nat /\ at <= len + 1 /\ 1 <= at
      <3> HIDE DEF at
      <3> QED BY <2>3, <2>6 DEF Gives
    <2> HIDE DEF at
    <2>8. (1 .. at - 1) \ drop = (1 .. at - 1) \ {d} /\ (at .. len) \ drop = (at .. len) \ {d}
      BY <2>3, <2>4, <2>7
    <2>9. /\ e.queue = keep(q, (1 .. at - 1) \ drop) \o <<node>> \o keep(q, (at .. len) \ drop)
          /\ e.match_cnt = IF node.matched THEN mc + 1 ELSE mc
          /\ e \in Channel \/ e.queue \notin Seq(Node)
      BY <2>2, WithNodeFields
    <2>10. IsNew(node, s, b, f)
      BY NodeForNew
    <2> HIDE DEF e, node
    <2>11. e.queue = Inserted(q, at, d, node)
      BY <2>8, <2>9 DEF Inserted
    <2>12. StepOk(c, result(e, buffersOf(q, {d} \cap 1 .. len), FALSE), P2, {<<s, b>>})
      BY <2>4, <2>6, <2>9, <2>10, <2>11, InsertQueue
    <2>13. insert(c, s, b, f, older, newer) = result(e, buffersOf(q, {d} \cap 1 .. len), FALSE)
      BY <2>1, <2>4, <2>5
    <2> QED BY <2>12, <2>13
  <1> QED BY <1>1, <1>2

(* mm_channel_superbuf_comp_and_enqueue, the metadata handled.              *)
LEMMA EnqueueOk ==
  ASSUME NEW c, NEW P, NEW s, NEW b, NEW f, Arrival(c, P, s, b, f),
         NEW P2, Extended(P2, P, s, f)
  PROVE  StepOk(c, enqueue(c, s, b, f), P2, {<<s, b>>})
  <1> DEFINE q == c.queue
             mc == c.match_cnt
             len == Len(q)
             fits == {i \in unmatched(q) : Fits(q[i], s, f)}
             pos == IF fits = {} THEN len + 1 ELSE Min(fits)
             seen == {i \in unmatched(q) : i < pos}
             older == {i \in seen : q[i].frame_idx < f}
             newer == {i \in seen : q[i].frame_idx > f}
             late == f < c.expected_frame_id
                     /\ ~(\E i \in DOMAIN q : q[i].expected_frame /\ q[i].frame_idx = f)
  <1>1. enqueue(c, s, b, f) =
          CASE late -> result(c, {<<s, b>>}, FALSE)
            [] ~late /\ fits # {} -> fill(c, s, b, f, pos, older)
            [] OTHER -> insert(c, s, b, f, older, newer)
    BY Zenon DEF enqueue
  <1>2. unmatched(q) = mc + 1 .. len /\ DOMAIN q = 1 .. len
        /\ mc \in 0 .. len /\ len \in Nat /\ f \in Nat
    <2>1. QueueOk(c, P) /\ f \in Nat
      BY DEF Arrival
    <2> QED BY <2>1, UnmatchedOf
  <1>3. \A k \in 1 .. len : ~q[k].matched <=> k \in unmatched(q)
    BY <1>2 DEF unmatched
  <1> HIDE DEF late
  <1>4. ASSUME late PROVE StepOk(c, enqueue(c, s, b, f), P2, {<<s, b>>})
    <2>1. enqueue(c, s, b, f) = result(c, {<<s, b>>}, FALSE)
      BY <1>1, <1>4, Zenon
    <2> QED BY <2>1, GivenBack
  <1>5. ASSUME ~late, fits # {} PROVE StepOk(c, enqueue(c, s, b, f), P2, {<<s, b>>})
    <2>1. pos \in fits /\ \A y \in fits : pos <= y
      <3>1. fits \in SUBSET Nat
        BY <1>2
      <3> HIDE DEF fits
      <3> QED BY <1>5, <3>1, MinOf
    <2>2. enqueue(c, s, b, f) = fill(c, s, b, f, pos, older)
      <3> HIDE DEF fits, pos, older, newer
      <3> QED BY <1>1, <1>5, Zenon
    <2> HIDE DEF pos
    <2>3. pos \in 1 .. len /\ ~q[pos].matched /\ Fits(q[pos], s, f)
      BY <1>2, <1>3, <2>1
    <2>4. \A k \in 1 .. len : k < pos /\ ~q[k].matched => ~Fits(q[k], s, f)
      <3> SUFFICES ASSUME NEW k \in 1 .. len, k < pos, ~q[k].matched, Fits(q[k], s, f)
                   PROVE  FALSE
        OBVIOUS
      <3>1. k \in fits
        BY <1>3
      <3> QED BY <2>1, <2>3, <3>1
    <2>5. older = {k \in 1 .. len : k < pos /\ ~q[k].matched /\ q[k].frame_idx < f}
      BY <1>2, <1>3
    <2> HIDE DEF older
    <2>6. Place(c, s, f, pos, older)
      BY <2>3, <2>4, <2>5 DEF Place
    <2> QED BY <2>2, <2>6, FillOk
  <1>6. ASSUME ~late, fits = {} PROVE StepOk(c, enqueue(c, s, b, f), P2, {<<s, b>>})
    <2>1. enqueue(c, s, b, f) = insert(c, s, b, f, older, newer)
      <3> HIDE DEF fits, pos, older, newer
      <3> QED BY <1>1, <1>6, Zenon
    <2>2. pos = len + 1
      BY <1>6
    <2> HIDE DEF pos
    <2>3. older \subseteq mc + 1 .. len
      BY <1>2
    <2>4. newer = {i \in mc + 1 .. len : q[i].frame_idx > f}
      BY <1>2, <2>2
    <2> HIDE DEF older, newer
    <2>5. Sides(c, f, older, newer)
      BY <2>3, <2>4 DEF Sides
    <2> QED BY <2>1, <2>5, InsertOk
  <1> QED BY <1>4, <1>5, <1>6

LEMMA SameQueue ==
  ASSUME NEW P, NEW X, NEW c, NEW d, NEW r, StepOk(d, r, P, X), d.queue = c.queue
  PROVE  StepOk(c, r, P, X)
  BY DEF StepOk

(* mm_channel_handle_metadata.                                              *)
LEMMA MetadataOk ==
  ASSUME attr \in Attrs, NEW c, NEW P, QueueOk(c, P), NEW f \in Nat, NEW info \in AnyInfo
  PROVE  StepOk(c, handleMetadata(c, f, info), P, {})
  <1> DEFINE Step == StepOk(c, handleMetadata(c, f, info), P, {})
  <1>1. c \in Channel
    BY DEF QueueOk
  <1>2. /\ info.what \in {"plain", "diverted", "prepDone", "needFuture", "good"}
        /\ info.frame \in Nat /\ FutureWait \in Nat
    BY ChannelAssumption DEF AnyInfo, Plain
  <1>3. CASE info.what = "plain"
    <2>1. handleMetadata(c, f, info) = result(c, {}, FALSE)
      BY <1>3 DEF handleMetadata
    <2> QED BY <1>1, <2>1, NoStep
  <1>4. CASE info.what = "diverted"
    <2> DEFINE x == IF info.frame >= f THEN info.frame ELSE 0
               d == [c EXCEPT !.diverted_frame_id = x]
    <2>1. handleMetadata(c, f, info) = result(d, {}, FALSE)
      BY <1>4 DEF handleMetadata
    <2>3. x \in Nat
      BY <1>2
    <2> HIDE DEF x
    <2>2. d \in Channel /\ d.queue = c.queue /\ d.match_cnt = c.match_cnt
      BY <1>1, <2>3 DEF Channel
    <2> HIDE DEF d
    <2> QED BY <2>1, <2>2, NoStep
  <1>5. CASE info.what = "prepDone"
    <2> DEFINE d == [c EXCEPT !.bWaitForPrepSnapshotDone = FALSE, !.needLEDFlash = FALSE]
    <2>1. handleMetadata(c, f, info) = result(d, {}, FALSE)
      BY <1>5 DEF handleMetadata
    <2>2. d \in Channel /\ d.queue = c.queue /\ d.match_cnt = c.match_cnt
      BY <1>1 DEF Channel
    <2> HIDE DEF d
    <2> QED BY <2>1, <2>2, NoStep
  <1>6. CASE info.what = "needFuture"
    <2> DEFINE d == [c EXCEPT !.bWaitForPrepSnapshotDone = FALSE, !.needLEDFlash = TRUE,
                         !.expected_frame_id = @ + FutureWait]
    <2>1. handleMetadata(c, f, info) = flush(d)
      BY <1>6 DEF handleMetadata
    <2>2. d \in Channel /\ d.queue = c.queue /\ d.match_cnt = c.match_cnt
      <3> DEFINE g == c.expected_frame_id + FutureWait
      <3>1. g \in Nat
        BY <1>1, <1>2 DEF Channel
      <3>2. d = [c EXCEPT !.bWaitForPrepSnapshotDone = FALSE, !.needLEDFlash = TRUE,
                          !.expected_frame_id = g]
        OBVIOUS
      <3> HIDE DEF g
      <3> QED BY <1>1, <3>1, <3>2 DEF Channel
    <2> HIDE DEF d
    <2>3. QueueOk(d, P)
      <3>1. StepOk(c, result(d, {}, FALSE), P, {})
        BY <2>2, NoStep
      <3> QED BY <3>1 DEF StepOk, result
    <2>4. StepOk(d, flush(d), P, {})
      BY <2>3, FlushOk
    <2> QED BY <2>1, <2>2, <2>4, SameQueue
  <1>7. CASE info.what = "good"
    <2> DEFINE d == [c EXCEPT !.expected_frame_id = info.frame, !.good_frame_id = info.frame,
                         !.bracketing = TRUE]
    <2>1. handleMetadata(c, f, info) = result(d, {}, FALSE)
      BY <1>7 DEF handleMetadata
    <2>2. d \in Channel /\ d.queue = c.queue /\ d.match_cnt = c.match_cnt
      BY <1>1, <1>2 DEF Channel
    <2> HIDE DEF d
    <2> QED BY <2>1, <2>2, NoStep
  <1> QED BY <1>2, <1>3, <1>4, <1>5, <1>6, <1>7

(* mm_channel_superbuf_comp_and_enqueue.                                    *)
LEMMA CompAndEnqueueOk ==
  ASSUME NEW c, NEW P, NEW m, Arrival(c, P, m.s, m.b, m.f), m.info \in AnyInfo,
         NEW P2, Extended(P2, P, m.s, m.f)
  PROVE  StepOk(c, compAndEnqueue(c, m), P2, {<<m.s, m.b>>})
  <1>1. QueueOk(c, P) /\ attr \in Attrs /\ m.f \in Nat
    BY DEF Arrival
  <1>2. CASE m.s # Meta
    <2>1. compAndEnqueue(c, m) = enqueue(c, m.s, m.b, m.f)
      BY <1>2 DEF compAndEnqueue
    <2> QED BY <2>1, EnqueueOk
  <1>3. CASE m.s = Meta
    <2> DEFINE r == handleMetadata(c, m.f, m.info)
               n == enqueue(r.c, m.s, m.b, m.f)
    <2>1. compAndEnqueue(c, m) = result(n.c, r.back \cup n.back, r.bad \/ n.bad)
      BY <1>3, Zenon DEF compAndEnqueue, andThen
    <2>2. StepOk(c, r, P, {})
      BY <1>1, MetadataOk
    <2> HIDE DEF r
    <2>3. QueueOk(r.c, P) /\ HeldIn(r.c.queue) \subseteq HeldIn(c.queue)
      BY <2>2 DEF StepOk, Settled
    <2>4. Arrival(r.c, P, m.s, m.b, m.f)
      BY <2>3 DEF Arrival, HeldIn
    <2>5. StepOk(r.c, n, P2, {<<m.s, m.b>>})
      BY <2>4, EnqueueOk
    <2> HIDE DEF n
    <2>6. {<<m.s, m.b>>} \cap (HeldIn(c.queue) \cup {}) = {}
      BY DEF Arrival, HeldIn
    <2>7. StepOk(c, result(n.c, r.back \cup n.back, r.bad \/ n.bad), P2, {} \cup {<<m.s, m.b>>})
      BY <2>2, <2>5, <2>6, TwoSteps
    <2>8. {} \cup {<<m.s, m.b>>} = {<<m.s, m.b>>}
      OBVIOUS
    <2> QED BY <2>1, <2>7, <2>8
  <1> QED BY <1>2, <1>3

LEMMA ZslOk ==
  ASSUME NEW c, NEW P, QueueOk(c, P)
  PROVE  QueueOk(zsl(c), P) /\ zsl(c).queue = c.queue
  <1> DEFINE on == [c EXCEPT !.startZSlSnapshotCalled = TRUE, !.bWaitForPrepSnapshotDone = FALSE]
             off == [c EXCEPT !.startZSlSnapshotCalled = FALSE, !.needLEDFlash = FALSE,
                   !.bracketing = FALSE, !.bWaitForPrepSnapshotDone = FALSE]
  <1>1. c \in Channel
    BY DEF QueueOk
  <1>2. on \in Channel /\ on.queue = c.queue /\ on.match_cnt = c.match_cnt
    BY <1>1 DEF Channel
  <1>3. off \in Channel /\ off.queue = c.queue /\ off.match_cnt = c.match_cnt
    BY <1>1 DEF Channel
  <1>4. zsl(c) \in {c, on, off}
    BY Zenon DEF zsl
  <1> HIDE DEF on, off
  <1>5. zsl(c) \in Channel /\ zsl(c).queue = c.queue /\ zsl(c).match_cnt = c.match_cnt
    BY <1>1, <1>2, <1>3, <1>4
  <1>6. StepOk(c, result(zsl(c), {}, FALSE), P, {})
    BY <1>5, NoStep
  <1> QED BY <1>5, <1>6 DEF StepOk, result

(* A request of super buffers.                                              *)
LEMMA RequestOk ==
  ASSUME attr \in Attrs, NEW c, NEW P, QueueOk(c, P), NEW m, m.n \in Nat, m.retro \in Nat
  PROVE  StepOk(c, request(c, m), P, {})
  <1> DEFINE retro == IF m.n = 0 \/ m.retro > m.n THEN m.n ELSE m.retro
             led == IF m.retro > 0 THEN FALSE ELSE c.needLEDFlash
             d == [c EXCEPT !.pending_cnt = m.n, !.pending_retro_cnt = retro,
                            !.bWaitForPrepSnapshotDone = FALSE, !.needLEDFlash = led]
  <1>1. c \in Channel /\ attr.look_back \in Nat
    BY ChannelAssumption DEF QueueOk
  <1>2. retro \in Nat /\ led \in BOOLEAN
    BY <1>1 DEF Channel
  <1>3. request(c, m) = trim(d, attr.look_back)
    BY DEF request
  <1> HIDE DEF retro, led
  <1>4. d \in Channel /\ d.queue = c.queue /\ d.match_cnt = c.match_cnt
    BY <1>1, <1>2 DEF Channel
  <1> HIDE DEF d
  <1>5. QueueOk(d, P)
    <2>1. StepOk(c, result(d, {}, FALSE), P, {})
      BY <1>4, NoStep
    <2> QED BY <2>1 DEF StepOk, result
  <1>6. StepOk(d, trim(d, attr.look_back), P, {})
    BY <1>1, <1>5, TrimOk
  <1> QED BY <1>3, <1>4, <1>6, SameQueue

-----------------------------------------------------------------------------
(* The command thread. *)

IsFrame(m) == m.cmd = "DATA_CB"
IsFlush(m) == m.cmd = "FLUSH_QUEUE"

(* What ProcessStreamBuf does with a command, up to the dispatch loop.      *)
handled(c, m) ==
  CASE m.cmd = "DATA_CB" -> compAndEnqueue(c, m)
    [] m.cmd = "REQ_DATA_CB" -> request(c, m)
    [] m.cmd = "FLUSH_QUEUE" -> flush([c EXCEPT !.expected_frame_id = m.frame_idx])
trimmed(c, m) ==
  IF m.cmd = "FLUSH_QUEUE" THEN handled(c, m)
  ELSE LET r == handled(c, m)
       IN  andThen(result(zsl(r.c), r.back, r.bad), LAMBDA d : trim(d, attr.water_mark))
Brings(m) == IF IsFrame(m) THEN {<<m.s, m.b>>} ELSE {}

(* The command may come now: a frame is new to the queue.                   *)
Due(c, P, m, P2) ==
  /\ m \in Cmd /\ attr \in Attrs /\ QueueOk(c, P) /\ P \subseteq P2
  /\ IsFrame(m) => Arrival(c, P, m.s, m.b, m.f) /\ Extended(P2, P, m.s, m.f)

LEMMA CmdTypes ==
  ASSUME NEW m \in Cmd
  PROVE  /\ m.cmd \in {"DATA_CB", "REQ_DATA_CB", "FLUSH_QUEUE"}
         /\ m.cmd = "DATA_CB" => m.s \in Streams /\ m.b \in Bufs /\ m.f \in Nat \ {0} /\ m.info \in AnyInfo
         /\ m.cmd = "REQ_DATA_CB" => m.n \in Nat /\ m.retro \in Nat
         /\ m.cmd = "FLUSH_QUEUE" => m.frame_idx \in Nat
  BY DEF Cmd

LEMMA StepMonotone ==
  ASSUME NEW P, NEW P2, P \subseteq P2, NEW c, NEW r, NEW X, StepOk(c, r, P, X)
  PROVE  StepOk(c, r, P2, X)
  <1>1. QueueOk(r.c, P)
    BY DEF StepOk
  <1>2. QueueOk(r.c, P2)
    BY <1>1, QueueMonotone
  <1> QED BY <1>2 DEF StepOk

LEMMA HandledOk ==
  ASSUME NEW c, NEW P, NEW m, NEW P2, Due(c, P, m, P2)
  PROVE  /\ StepOk(c, handled(c, m), P2, Brings(m))
         /\ IsFlush(m) => handled(c, m).c.match_cnt = 0
  <1>1. /\ m \in Cmd /\ attr \in Attrs /\ QueueOk(c, P) /\ P \subseteq P2
        /\ m.cmd \in {"DATA_CB", "REQ_DATA_CB", "FLUSH_QUEUE"}
    BY CmdTypes DEF Due
  <1>2. CASE m.cmd = "DATA_CB"
    <2>1. Arrival(c, P, m.s, m.b, m.f) /\ m.info \in AnyInfo /\ Extended(P2, P, m.s, m.f)
      BY <1>1, <1>2, CmdTypes DEF Due, IsFrame
    <2>2. StepOk(c, compAndEnqueue(c, m), P2, {<<m.s, m.b>>})
      BY <2>1, CompAndEnqueueOk
    <2>3. handled(c, m) = compAndEnqueue(c, m) /\ Brings(m) = {<<m.s, m.b>>} /\ ~IsFlush(m)
      BY <1>2 DEF handled, Brings, IsFrame, IsFlush
    <2> QED BY <2>2, <2>3
  <1>3. CASE m.cmd = "REQ_DATA_CB"
    <2>1. StepOk(c, request(c, m), P, {})
      BY <1>1, <1>3, CmdTypes, RequestOk
    <2>2. handled(c, m) = request(c, m) /\ Brings(m) = {} /\ ~IsFlush(m)
      BY <1>3 DEF handled, Brings, IsFrame, IsFlush
    <2>3. StepOk(c, request(c, m), P2, {})
      BY <1>1, <2>1, StepMonotone
    <2> QED BY <2>2, <2>3
  <1>4. CASE m.cmd = "FLUSH_QUEUE"
    <2> DEFINE d == [c EXCEPT !.expected_frame_id = m.frame_idx]
    <2>1. handled(c, m) = flush(d) /\ Brings(m) = {}
      BY <1>4 DEF handled, Brings, IsFrame
    <2>2. d \in Channel /\ d.queue = c.queue /\ d.match_cnt = c.match_cnt
      <3>1. c \in Channel /\ m.frame_idx \in Nat
        BY <1>1, <1>4, CmdTypes DEF QueueOk
      <3> QED BY <3>1 DEF Channel
    <2> HIDE DEF d
    <2>3. QueueOk(d, P)
      <3>1. StepOk(c, result(d, {}, FALSE), P, {})
        BY <1>1, <2>2, NoStep
      <3> QED BY <3>1 DEF StepOk, result
    <2>4. StepOk(d, flush(d), P, {}) /\ flush(d).c.match_cnt = 0
      BY <1>1, <2>3, FlushOk
    <2>5. StepOk(c, flush(d), P, {})
      BY <2>2, <2>4, SameQueue
    <2>6. StepOk(c, flush(d), P2, {})
      BY <1>1, <2>5, StepMonotone
    <2> QED BY <2>1, <2>4, <2>6
  <1> QED BY <1>1, <1>2, <1>3, <1>4

LEMMA TrimmedOk ==
  ASSUME NEW c, NEW P, NEW m, NEW P2, Due(c, P, m, P2)
  PROVE  /\ StepOk(c, trimmed(c, m), P2, Brings(m))
         /\ IsFlush(m) => trimmed(c, m).c.match_cnt = 0
         /\ Burst /\ ~IsFlush(m) => trimmed(c, m).c.match_cnt <= attr.water_mark
  <1>1. attr \in Attrs /\ attr.water_mark \in Nat
    BY ChannelAssumption DEF Due
  <1>2. CASE IsFlush(m)
    <2>1. trimmed(c, m) = handled(c, m)
      BY <1>2 DEF trimmed, IsFlush
    <2> QED BY <1>2, <2>1, HandledOk
  <1>3. CASE ~IsFlush(m)
    <2> DEFINE r == handled(c, m)
               z == result(zsl(r.c), r.back, r.bad)
               n == trim(z.c, attr.water_mark)
    <2>1. trimmed(c, m) = result(n.c, z.back \cup n.back, z.bad \/ n.bad)
      BY <1>3, Zenon DEF trimmed, andThen, IsFlush
    <2>2. StepOk(c, r, P2, Brings(m))
      BY HandledOk
    <2> HIDE DEF r
    <2>3. QueueOk(zsl(r.c), P2) /\ zsl(r.c).queue = r.c.queue
      BY <2>2, ZslOk DEF StepOk
    <2>4. StepOk(c, z, P2, Brings(m))
      BY <2>2, <2>3 DEF StepOk, result
    <2>5. QueueOk(z.c, P2)
      BY <2>4 DEF StepOk
    <2> HIDE DEF z
    <2>6. StepOk(z.c, n, P2, {}) /\ (Burst => n.c.match_cnt <= attr.water_mark)
      BY <1>1, <2>5, TrimOk
    <2> HIDE DEF n
    <2>7. {} \cap (HeldIn(c.queue) \cup Brings(m)) = {} /\ Brings(m) \cup {} = Brings(m)
      OBVIOUS
    <2>8. StepOk(c, result(n.c, z.back \cup n.back, z.bad \/ n.bad), P2, Brings(m) \cup {})
      BY <2>4, <2>6, <2>7, TwoSteps
    <2>9. trimmed(c, m).c = n.c
      BY <2>1 DEF result
    <2> QED BY <1>3, <2>1, <2>6, <2>7, <2>8, <2>9
  <1> QED BY <1>2, <1>3

(* The super buffers that may be sent are the matched nodes, which come     *)
(* first.                                                                   *)
LEMMA LeadIsMatched ==
  ASSUME NEW c, NEW P, QueueOk(c, P)
  PROVE  Max({n \in 0 .. Len(c.queue) : \A i \in 1 .. n : c.queue[i].matched}) = c.match_cnt
  <1> DEFINE lead == {n \in 0 .. Len(c.queue) : \A i \in 1 .. n : c.queue[i].matched}
  <1>1. /\ c.match_cnt \in 0 .. Len(c.queue) /\ Len(c.queue) \in Nat
        /\ \A i \in 1 .. Len(c.queue) : c.queue[i].matched <=> i <= c.match_cnt
    BY UnmatchedOf DEF QueueOk, MatchedPrefix
  <1>2. c.match_cnt \in lead
    BY <1>1
  <1>3. \A n \in lead : n <= c.match_cnt
    <2> SUFFICES ASSUME NEW n \in lead, ~(n <= c.match_cnt) PROVE FALSE
      OBVIOUS
    <2>1. n \in 0 .. Len(c.queue) /\ n \in 1 .. n /\ n \in 1 .. Len(c.queue)
      BY <1>1
    <2>2. c.queue[n].matched
      BY <2>1
    <2> QED BY <1>1, <2>1, <2>2
  <1>4. lead \in SUBSET (0 .. Len(c.queue)) /\ \A n \in lead : n \in Nat
    BY <1>1
  <1> HIDE DEF lead
  <1>5. Max(lead) \in lead /\ \A y \in lead : y <= Max(lead)
    BY <1>1, <1>2, <1>4, MaxOf
  <1>6. Max(lead) = c.match_cnt
    <2> DEFINE x == Max(lead)
    <2>1. x \in lead /\ \A y \in lead : y <= x
      BY <1>5
    <2> HIDE DEF x
    <2>2. x \in Nat /\ x <= c.match_cnt /\ c.match_cnt <= x
      BY <1>2, <1>3, <1>4, <2>1
    <2>3. x = c.match_cnt
      BY <1>1, <2>2
    <2> QED BY <2>3 DEF x
  <1> QED BY <1>6 DEF lead

(* How many are sent, and what that leaves.                                 *)
LEMMA ToSendOk ==
  ASSUME NEW c, NEW P, QueueOk(c, P)
  PROVE  /\ toSend(c) \in 0 .. c.match_cnt
         /\ c.bWaitForPrepSnapshotDone => toSend(c) = 0
         /\ ~c.bWaitForPrepSnapshotDone /\ ~Burst => toSend(c) = c.match_cnt
         /\ ~c.bWaitForPrepSnapshotDone /\ Burst =>
              /\ toSend(c) <= c.pending_cnt
              /\ \/ toSend(c) \in {c.match_cnt, c.pending_cnt}
                 \/ c.pending_retro_cnt > 0 /\ toSend(c) = c.pending_retro_cnt
  <1> DEFINE wait == c.bWaitForPrepSnapshotDone
             most == IF c.pending_retro_cnt > 0 THEN {c.pending_retro_cnt, c.pending_cnt}
                     ELSE {c.pending_cnt}
             T == {c.match_cnt} \cup most
  <1>1. c.match_cnt \in Nat /\ c.pending_cnt \in Nat /\ c.pending_retro_cnt \in Nat
    BY DEF QueueOk, Channel
  <1>2. toSend(c) = CASE wait -> 0
                      [] ~wait /\ ~Burst -> c.match_cnt
                      [] OTHER -> Min(T)
    BY LeadIsMatched, Zenon DEF toSend
  <1>3. T \in SUBSET Nat /\ T # {}
    BY <1>1
  <1>4. Min(T) \in T /\ \A y \in T : Min(T) <= y
    <2> HIDE DEF T
    <2> QED BY <1>3, MinOf
  <1>5. Min(T) \in Nat /\ Min(T) <= c.match_cnt /\ Min(T) <= c.pending_cnt
    <2>1. c.match_cnt \in T /\ c.pending_cnt \in T
      OBVIOUS
    <2> HIDE DEF T
    <2> QED BY <1>3, <1>4, <2>1
  <1>6. \/ Min(T) \in {c.match_cnt, c.pending_cnt}
        \/ c.pending_retro_cnt > 0 /\ Min(T) = c.pending_retro_cnt
    <2> DEFINE mm == Min(T)
    <2>1. mm \in T
      BY <1>4
    <2> HIDE DEF mm
    <2>2. \/ mm \in {c.match_cnt, c.pending_cnt}
          \/ c.pending_retro_cnt > 0 /\ mm = c.pending_retro_cnt
      BY <2>1
    <2> QED BY <2>2 DEF mm
  <1> HIDE DEF T, most
  <1>7. CASE wait
    <2>1. toSend(c) = 0
      BY <1>2, <1>7, Zenon
    <2> QED BY <1>1, <1>7, <2>1
  <1>8. CASE ~wait /\ ~Burst
    <2>1. toSend(c) = c.match_cnt
      BY <1>2, <1>8, Zenon
    <2> QED BY <1>1, <1>8, <2>1
  <1>9. CASE ~wait /\ Burst
    <2>1. toSend(c) = Min(T)
      BY <1>2, <1>9, Zenon
    <2> QED BY <1>1, <1>5, <1>6, <1>9, <2>1
  <1> QED BY <1>7, <1>8, <1>9

LEMMA AfterSendingOk ==
  ASSUME attr \in Attrs, NEW c, NEW P, QueueOk(c, P), NEW n \in 0 .. c.match_cnt,
         Burst => n <= c.pending_cnt
  PROVE  LET d == afterSending(c, n)
         IN  /\ d \in Channel
             /\ d.queue = SubSeq(c.queue, n + 1, Len(c.queue))
             /\ d.match_cnt = c.match_cnt - n
             /\ ~Burst \/ n = 0 =>
                  /\ d.pending_cnt = c.pending_cnt
                  /\ d.bWaitForPrepSnapshotDone = c.bWaitForPrepSnapshotDone
             /\ Burst /\ n > 0 =>
                  /\ d.pending_cnt = c.pending_cnt - n
                  /\ d.bWaitForPrepSnapshotDone =
                       (c.bWaitForPrepSnapshotDone \/ (n > 0 /\ c.pending_retro_cnt = n))
  <1> DEFINE q == SubSeq(c.queue, n + 1, Len(c.queue))
             cnt == c.match_cnt - n
             left == c.pending_cnt - n
             wait == c.bWaitForPrepSnapshotDone \/ (n > 0 /\ c.pending_retro_cnt = n)
             retro == IF c.pending_retro_cnt > n THEN c.pending_retro_cnt - n ELSE 0
             d == [c EXCEPT !.queue = q, !.match_cnt = cnt]
             p == [d EXCEPT !.pending_cnt = left, !.bWaitForPrepSnapshotDone = wait,
                            !.pending_retro_cnt = retro]
             o == [p EXCEPT !.startZSlSnapshotCalled = FALSE, !.needLEDFlash = FALSE,
                            !.bracketing = FALSE]
  <1>1. c \in Channel /\ c.queue \in Seq(Node) /\ Len(c.queue) \in Nat
        /\ c.match_cnt \in 0 .. Len(c.queue) /\ c.pending_cnt \in Nat /\ c.pending_retro_cnt \in Nat
    <2>1. c \in Channel
      BY DEF QueueOk
    <2> QED BY <2>1, UnmatchedOf DEF Channel
  <1>2. q \in Seq(Node)
    <2>1. \A k \in 1 .. Len(c.queue) : c.queue[k] \in Node
      BY <1>1
    <2> QED BY <1>1, <2>1
  <1>3. cnt \in Nat /\ (Burst => left \in Nat) /\ wait \in BOOLEAN /\ retro \in Nat
    <2>1. wait \in BOOLEAN
      BY <1>1 DEF Channel
    <2> QED BY <1>1, <2>1
  <1>4. afterSending(c, n) =
          CASE ~Burst \/ n = 0 -> d
            [] Burst /\ n > 0 /\ p.pending_cnt = 0 /\ p.startZSlSnapshotCalled -> o
            [] OTHER -> p
    BY DEF afterSending, Channel
  <1> HIDE DEF q, cnt, left, wait, retro
  <1>5. /\ d \in Channel /\ d.queue = q /\ d.match_cnt = cnt
        /\ d.pending_cnt = c.pending_cnt
        /\ d.bWaitForPrepSnapshotDone = c.bWaitForPrepSnapshotDone
    BY <1>1, <1>2, <1>3 DEF Channel
  <1>6. /\ Burst => p \in Channel
        /\ p.queue = q /\ p.match_cnt = cnt /\ p.pending_cnt = left
        /\ p.bWaitForPrepSnapshotDone = wait
    <2> HIDE DEF d
    <2> QED BY <1>3, <1>5 DEF Channel
  <1>7. /\ Burst => o \in Channel
        /\ o.queue = q /\ o.match_cnt = cnt /\ o.pending_cnt = left
        /\ o.bWaitForPrepSnapshotDone = wait
    <2>1. Burst => o \in Channel
      <3> HIDE DEF p
      <3> QED BY <1>6 DEF Channel
    <2>2. /\ o.queue = q /\ o.match_cnt = cnt /\ o.pending_cnt = left
          /\ o.bWaitForPrepSnapshotDone = wait
      BY <1>1 DEF Channel
    <2> QED BY <2>1, <2>2
  <1> HIDE DEF d, p, o
  <1>8. CASE ~Burst \/ n = 0
    <2>1. afterSending(c, n) = d
      <3>1. ~(Burst /\ n > 0)
        BY <1>1, <1>8
      <3> QED BY <1>4, <1>8, <3>1, Zenon
    <2> QED BY <1>5, <1>8, <2>1 DEF q, cnt
  <1>9. CASE Burst /\ n > 0
    <2>1. ~(~Burst \/ n = 0)
      BY <1>1, <1>9
    <2>2. afterSending(c, n) \in {p, o}
      <3>1. CASE p.pending_cnt = 0 /\ p.startZSlSnapshotCalled
        BY <1>4, <1>9, <2>1, <3>1, Zenon
      <3>2. CASE ~(p.pending_cnt = 0 /\ p.startZSlSnapshotCalled)
        BY <1>4, <1>9, <2>1, <3>2, Zenon
      <3> QED BY <3>1, <3>2
    <2> QED BY <1>6, <1>7, <1>9, <2>1, <2>2 DEF q, cnt, left, wait
  <1>10. (~Burst \/ n = 0) \/ (Burst /\ n > 0)
    BY <1>1
  <1> QED BY <1>8, <1>9, <1>10

(* No complete super buffer waits for a request.                            *)
KeptIn(c) ==
  /\ Burst => c.match_cnt <= attr.water_mark
  /\ c.pending_cnt > 0 /\ ~c.bWaitForPrepSnapshotDone => c.match_cnt = 0

Sends(m, c) == IF IsFlush(m) THEN 0 ELSE toSend(c)

LEMMA SendsOk ==
  ASSUME NEW m, NEW c, NEW P, QueueOk(c, P), attr \in Attrs,
         IsFlush(m) => c.match_cnt = 0,
         Burst /\ ~IsFlush(m) => c.match_cnt <= attr.water_mark
  PROVE  /\ Sends(m, c) \in 0 .. c.match_cnt
         /\ Burst => Sends(m, c) <= c.pending_cnt
         /\ KeptIn(afterSending(c, Sends(m, c)))
  <1> DEFINE n == Sends(m, c)
             wait == c.bWaitForPrepSnapshotDone
  <1>1. c.match_cnt \in Nat /\ c.pending_cnt \in Nat /\ c.pending_retro_cnt \in Nat
        /\ wait \in BOOLEAN /\ attr.water_mark \in Nat
    BY ChannelAssumption DEF QueueOk, Channel
  <1>2. /\ n \in 0 .. c.match_cnt
        /\ wait /\ ~IsFlush(m) => n = 0
        /\ ~wait /\ ~Burst => n = c.match_cnt
        /\ ~wait /\ Burst /\ ~IsFlush(m) =>
             /\ n <= c.pending_cnt
             /\ \/ n \in {c.match_cnt, c.pending_cnt}
                \/ c.pending_retro_cnt > 0 /\ n = c.pending_retro_cnt
    <2>1. CASE IsFlush(m)
      <3>1. n = 0
        BY <2>1 DEF Sends
      <3> QED BY <1>1, <2>1, <3>1
    <2>2. CASE ~IsFlush(m)
      <3>1. n = toSend(c)
        BY <2>2 DEF Sends
      <3> HIDE DEF n
      <3> QED BY <2>2, <3>1, ToSendOk
    <2> QED BY <2>1, <2>2
  <1>3. IsFlush(m) => n = 0
    BY DEF Sends
  <1> HIDE DEF n
  <1>4. Burst => n <= c.pending_cnt
    BY <1>1, <1>2, <1>3
  <1> DEFINE d == afterSending(c, n)
  <1>5. /\ d.match_cnt = c.match_cnt - n
        /\ ~Burst \/ n = 0 =>
             /\ d.pending_cnt = c.pending_cnt
             /\ d.bWaitForPrepSnapshotDone = c.bWaitForPrepSnapshotDone
        /\ Burst /\ n > 0 =>
             /\ d.pending_cnt = c.pending_cnt - n
             /\ d.bWaitForPrepSnapshotDone =
                  (c.bWaitForPrepSnapshotDone \/ (n > 0 /\ c.pending_retro_cnt = n))
    BY <1>2, <1>4, AfterSendingOk
  <1> HIDE DEF d
  <1>6. Burst => d.match_cnt <= attr.water_mark
    BY <1>1, <1>2, <1>3, <1>5
  <1>7. ASSUME d.pending_cnt > 0, ~d.bWaitForPrepSnapshotDone PROVE d.match_cnt = 0
    <2>1. CASE IsFlush(m)
      BY <1>1, <1>3, <1>5, <2>1
    <2>2. CASE ~IsFlush(m) /\ ~Burst
      <3>1. ~wait
        BY <1>5, <1>7, <2>2
      <3> QED BY <1>1, <1>2, <1>5, <2>2, <3>1
    <2>3. CASE ~IsFlush(m) /\ Burst
      <3>1. ~wait
        BY <1>1, <1>2, <1>5, <1>7, <2>3
      <3>2. n = 0 \/ n > 0
        BY <1>2
      <3>3. CASE n = 0
        BY <1>1, <1>2, <1>5, <1>7, <2>3, <3>1, <3>3
      <3>4. CASE n > 0
        <4>1. c.pending_retro_cnt # n
          <5>1. d.bWaitForPrepSnapshotDone = (wait \/ (n > 0 /\ c.pending_retro_cnt = n))
            BY <1>5, <2>3, <3>4
          <5>2. ~(wait \/ (n > 0 /\ c.pending_retro_cnt = n))
            BY <1>7, <5>1
          <5> QED BY <3>4, <5>2
        <4>2. d.pending_cnt = c.pending_cnt - n
          BY <1>5, <2>3, <3>4
        <4>3. n # c.pending_cnt
          BY <1>1, <1>7, <4>2
        <4>4. n = c.match_cnt
          BY <1>2, <2>3, <3>1, <4>1, <4>3
        <4> QED BY <1>1, <1>5, <4>4
      <3> QED BY <3>2, <3>3, <3>4
    <2> QED BY <2>1, <2>2, <2>3
  <1>8. KeptIn(d)
    BY <1>6, <1>7 DEF KeptIn
  <1> QED BY <1>2, <1>4, <1>8 DEF n, d

(* A matched node is a super buffer.                                        *)
LEMMA MatchedIsSuper ==
  ASSUME NEW c, NEW P, QueueOk(c, P), NEW i \in 1 .. c.match_cnt
  PROVE  /\ c.queue[i].slot \in [Streams -> Slot] /\ SuperOk(c.queue[i].slot)
         /\ \A s \in Streams : c.queue[i].slot[s].frame_idx # 0
  <1> DEFINE nd == c.queue[i]
  <1>1. i \in 1 .. Len(c.queue) /\ nd \in Node /\ NodeOk(nd) /\ nd.matched
    <2>1. c.queue \in Seq(Node) /\ c.match_cnt \in 0 .. Len(c.queue) /\ Len(c.queue) \in Nat
      BY UnmatchedOf
    <2>2. i \in 1 .. Len(c.queue)
      BY <2>1
    <2>3. i <= c.match_cnt
      BY <2>1
    <2> QED BY <2>1, <2>2, <2>3 DEF QueueOk, MatchedPrefix
  <1> HIDE DEF nd
  <1>2. \A s \in Streams : nd.slot[s].frame_idx # 0
    BY <1>1 DEF NodeOk, allMatched
  <1>3. nd.slot \in [Streams -> Slot]
        /\ \A s \in Streams : nd.slot[s].buf \in Bufs \cup {NoBuf}
    BY <1>1, NodeTypes
  <1>4. \A s \in Streams : nd.slot[s].buf \in Bufs
    <2> SUFFICES ASSUME NEW s \in Streams PROVE nd.slot[s].buf \in Bufs
      OBVIOUS
    <2>1. nd.slot[s].buf # NoBuf
      BY <1>1, <1>2 DEF NodeOk
    <2> QED BY <1>3, <2>1
  <1>5. \A s \in Streams : (Low => s # Meta) => nd.slot[s].frame_idx = nd.frame_idx
    BY <1>1, <1>2 DEF NodeOk
  <1>6. SuperOk(nd.slot)
    BY <1>4, <1>5 DEF SuperOk
  <1> QED BY <1>2, <1>3, <1>6 DEF nd

(* What one turn of the command thread comes to: the queue after it, what   *)
(* it gives back and what it sends.                                         *)
Sent(c, n) == {p \in Pairs : \E i \in 1 .. n : c.queue[i].slot[p[1]].buf = p[2]}
Apart(X, Y, Z) == X \cap Y = {} /\ X \cap Z = {} /\ Y \cap Z = {}
Turn(c, m, P2, t, n, d) ==
  /\ QueueOk(d, P2) /\ KeptIn(d) /\ t.bad = FALSE
  /\ n \in Nat /\ n <= Len(t.c.queue)
  /\ HeldIn(c.queue) \cup Brings(m) = HeldIn(d.queue) \cup t.back \cup Sent(t.c, n)
  /\ Apart(HeldIn(d.queue), t.back, Sent(t.c, n))
  /\ t.back \subseteq Pairs
  /\ \A i \in 1 .. n : t.c.queue[i].slot \in [Streams -> Slot] /\ SuperOk(t.c.queue[i].slot)
  /\ \A i, j \in 1 .. n : \A s \in Streams :
       t.c.queue[i].slot[s].buf = t.c.queue[j].slot[s].buf => i = j

LEMMA TurnOk ==
  ASSUME NEW c, NEW P, NEW m, NEW P2, Due(c, P, m, P2),
         NEW t, t = trimmed(c, m), NEW n, n = Sends(m, t.c)
  PROVE  Turn(c, m, P2, t, n, afterSending(t.c, n))
  <1> DEFINE d == afterSending(t.c, n)
  <1>1. /\ StepOk(c, t, P2, Brings(m)) /\ attr \in Attrs
        /\ IsFlush(m) => t.c.match_cnt = 0
        /\ Burst /\ ~IsFlush(m) => t.c.match_cnt <= attr.water_mark
    BY TrimmedOk DEF Due
  <1>2. QueueOk(t.c, P2) /\ t.bad = FALSE /\ Settled(c.queue, t.c.queue, t.back, Brings(m))
    BY <1>1 DEF StepOk
  <1>3. n \in 0 .. t.c.match_cnt /\ (Burst => n <= t.c.pending_cnt) /\ KeptIn(d)
    BY <1>1, <1>2, SendsOk
  <1>4. d \in Channel /\ d.queue = SubSeq(t.c.queue, n + 1, Len(t.c.queue))
        /\ d.match_cnt = t.c.match_cnt - n
    BY <1>1, <1>2, <1>3, AfterSendingOk
  <1> HIDE DEF d
  <1>5. /\ QueueOk(d, P2)
        /\ HeldIn(d.queue) \cup buffersOf(t.c.queue, 1 .. n) = HeldIn(t.c.queue)
        /\ HeldIn(d.queue) \cap buffersOf(t.c.queue, 1 .. n) = {}
        /\ buffersOf(t.c.queue, 1 .. n) \subseteq Pairs
    BY <1>1, <1>2, <1>3, <1>4, SuffixOk
  <1>6. t.c.match_cnt \in Nat /\ t.c.match_cnt <= Len(t.c.queue) /\ Len(t.c.queue) \in Nat
    <2>1. t.c.match_cnt \in 0 .. Len(t.c.queue) /\ Len(t.c.queue) \in Nat
      BY <1>2, UnmatchedOf
    <2> QED BY <2>1
  <1>7. \A i \in 1 .. n :
          /\ t.c.queue[i].slot \in [Streams -> Slot] /\ SuperOk(t.c.queue[i].slot)
          /\ \A s \in Streams : t.c.queue[i].slot[s].frame_idx # 0
    <2> SUFFICES ASSUME NEW i \in 1 .. n
                 PROVE  /\ t.c.queue[i].slot \in [Streams -> Slot] /\ SuperOk(t.c.queue[i].slot)
                        /\ \A s \in Streams : t.c.queue[i].slot[s].frame_idx # 0
      OBVIOUS
    <2>1. i \in 1 .. t.c.match_cnt
      BY <1>3, <1>6
    <2> QED BY <1>2, <2>1, MatchedIsSuper
  <1>8. buffersOf(t.c.queue, 1 .. n) = Sent(t.c, n)
    <2>1. \A p \in Pairs : p \in buffersOf(t.c.queue, 1 .. n) <=> p \in Sent(t.c, n)
      <3> SUFFICES ASSUME NEW p \in Pairs
                   PROVE  p \in buffersOf(t.c.queue, 1 .. n) <=> p \in Sent(t.c, n)
        OBVIOUS
      <3>1. p[1] \in Streams
        BY DEF Pairs
      <3>2. \A i \in 1 .. n : t.c.queue[i].slot[p[1]].frame_idx # 0
        BY <1>7, <3>1
      <3> QED BY <3>2 DEF buffersOf, Sent, Pairs
    <2> QED BY <1>5, <2>1 DEF Sent
  <1>9. \A i, j \in 1 .. n : \A s \in Streams :
       t.c.queue[i].slot[s].buf = t.c.queue[j].slot[s].buf => i = j
    <2> SUFFICES ASSUME NEW i \in 1 .. n, NEW j \in 1 .. n, NEW s \in Streams,
                        t.c.queue[i].slot[s].buf = t.c.queue[j].slot[s].buf
                 PROVE  i = j
      OBVIOUS
    <2>1. Once(t.c.queue)
      BY <1>2 DEF QueueOk
    <2>2. t.c.queue[i].slot[s].buf # NoBuf
      <3>1. t.c.queue[i].slot[s].buf \in Bufs
        BY <1>7 DEF SuperOk
      <3> QED BY <3>1, SMTT(20) DEF Bufs, NoBuf
    <2>3. i \in 1 .. Len(t.c.queue) /\ j \in 1 .. Len(t.c.queue)
      BY <1>3, <1>6
    <2> QED BY <2>1, <2>2, <2>3 DEF Once
  <1>10. /\ HeldIn(t.c.queue) \cup t.back = HeldIn(c.queue) \cup Brings(m)
         /\ HeldIn(t.c.queue) \cap t.back = {} /\ t.back \subseteq Pairs
    BY <1>2 DEF Settled
  <1>11. HeldIn(c.queue) \cup Brings(m) = HeldIn(d.queue) \cup t.back \cup Sent(t.c, n)
    BY <1>5, <1>8, <1>10
  <1>12. Apart(HeldIn(d.queue), t.back, Sent(t.c, n))
    BY <1>5, <1>8, <1>10 DEF Apart
  <1>13. n \in Nat /\ n <= Len(t.c.queue)
    BY <1>3, <1>6
  <1> QED BY <1>2, <1>3, <1>5, <1>7, <1>9, <1>10, <1>11, <1>12, <1>13 DEF Turn, d

-----------------------------------------------------------------------------
(* Types. *)

LEMMA AttrTypes ==
  ASSUME attr \in Attrs
  PROVE  /\ attr.look_back \in Nat /\ attr.post_frame_skip \in Nat /\ attr.water_mark \in Nat
         /\ attr.max_unmatched_frames \in Nat
  BY ChannelAssumption

LEMMA OrderOk ==
  /\ Len(StartOrder) \in Nat \ {0}
  /\ \A i \in 1 .. Len(StartOrder) : StartOrder[i] \in Streams
  /\ \A i, j \in 1 .. Len(StartOrder) : StartOrder[i] = StartOrder[j] => i = j
  /\ \A s \in Streams : \E i \in 1 .. Len(StartOrder) : StartOrder[i] = s
  <1>1. /\ StartOrder \in Seq(Streams) /\ Meta \in Streams
        /\ \A s \in Streams : \E i \in 1 .. Len(StartOrder) :
             \A j \in 1 .. Len(StartOrder) : StartOrder[j] = s <=> j = i
    BY ChannelAssumption
  <1>2. Len(StartOrder) \in Nat /\ \A i \in 1 .. Len(StartOrder) : StartOrder[i] \in Streams
    BY <1>1
  <1>3. PICK i \in 1 .. Len(StartOrder) : TRUE
    BY <1>1
  <1>4. Len(StartOrder) # 0
    BY <1>2, <1>3
  <1>5. \A j, k \in 1 .. Len(StartOrder) : StartOrder[j] = StartOrder[k] => j = k
    <2> SUFFICES ASSUME NEW j \in 1 .. Len(StartOrder), NEW k \in 1 .. Len(StartOrder),
                        StartOrder[j] = StartOrder[k]
                 PROVE  j = k
      OBVIOUS
    <2>1. PICK l \in 1 .. Len(StartOrder) :
            \A h \in 1 .. Len(StartOrder) : StartOrder[h] = StartOrder[j] <=> h = l
      BY <1>1, <1>2
    <2> QED BY <2>1
  <1>6. \A s \in Streams : \E j \in 1 .. Len(StartOrder) : StartOrder[j] = s
    BY <1>1
  <1> QED BY <1>2, <1>4, <1>5, <1>6

LEMMA StopOrderOk ==
  /\ Len(stopOrder) = Len(StartOrder)
  /\ \A i \in 1 .. Len(StartOrder) : stopOrder[i] \in Streams
  /\ \A i, j \in 1 .. Len(StartOrder) : stopOrder[i] = stopOrder[j] => i = j
  /\ \A s \in Streams : \E i \in 1 .. Len(StartOrder) : stopOrder[i] = s
  <1> DEFINE len == Len(StartOrder)
  <1>1. len \in Nat \ {0}
    BY OrderOk
  <1>2. /\ stopOrder = [i \in 1 .. len |-> StartOrder[(len - i) + 1]]
    BY DEF stopOrder, Reverse
  <1>3. Len(stopOrder) = len
    BY <1>1, <1>2
  <1>4. \A i \in 1 .. len : stopOrder[i] = StartOrder[(len - i) + 1] /\ (len - i) + 1 \in 1 .. len
    BY <1>1, <1>2
  <1> HIDE DEF len
  <1>5. \A i, j \in 1 .. len : stopOrder[i] = stopOrder[j] => i = j
    <2> SUFFICES ASSUME NEW i \in 1 .. len, NEW j \in 1 .. len, stopOrder[i] = stopOrder[j]
                 PROVE  i = j
      OBVIOUS
    <2> DEFINE k == (len - i) + 1
               l == (len - j) + 1
    <2>1. k \in 1 .. len /\ l \in 1 .. len /\ StartOrder[k] = StartOrder[l]
      BY <1>4
    <2> HIDE DEF k, l
    <2>2. k = l
      BY <2>1, OrderOk DEF len
    <2> QED BY <1>1, <2>2 DEF k, l
  <1>6. \A s \in Streams : \E i \in 1 .. len : stopOrder[i] = s
    <2> SUFFICES ASSUME NEW s \in Streams PROVE \E i \in 1 .. len : stopOrder[i] = s
      OBVIOUS
    <2>1. PICK k \in 1 .. len : StartOrder[k] = s
      BY OrderOk DEF len
    <2> DEFINE i == (len - k) + 1
    <2>2. i \in 1 .. len /\ (len - i) + 1 = k
      BY <1>1
    <2> HIDE DEF i
    <2>3. stopOrder[i] = s
      BY <1>4, <2>1, <2>2
    <2> QED BY <2>2, <2>3
  <1>7. \A i \in 1 .. len : stopOrder[i] \in Streams
    BY <1>4, OrderOk DEF len
  <1> QED BY <1>3, <1>5, <1>6, <1>7 DEF len

LEMMA BufDoneTypes ==
  ASSUME NEW back, bufDone(back),
         kernel \in [Streams -> SUBSET Bufs], refcnt \in [Streams -> [Bufs -> Nat]]
  PROVE  kernel' \in [Streams -> SUBSET Bufs] /\ refcnt' \in [Streams -> [Bufs -> Nat]]
  <1>1. \A s \in Streams : kernel[s] \cup
          {b \in Bufs : <<s, b>> \in back /\ state[s] \in {"ACTIVE", "OFF"} /\ refcnt[s][b] = 1}
            \in SUBSET Bufs
    OBVIOUS
  <1>2. kernel' \in [Streams -> SUBSET Bufs]
    BY <1>1 DEF bufDone, kernelAfter
  <1>3. \A s \in Streams : \A b \in Bufs :
          (IF <<s, b>> \in back /\ state[s] \in {"ACTIVE", "OFF"} /\ refcnt[s][b] > 0
           THEN refcnt[s][b] - 1 ELSE refcnt[s][b]) \in Nat
    <2> SUFFICES ASSUME NEW s \in Streams, NEW b \in Bufs
                 PROVE  (IF <<s, b>> \in back /\ state[s] \in {"ACTIVE", "OFF"} /\ refcnt[s][b] > 0
                         THEN refcnt[s][b] - 1 ELSE refcnt[s][b]) \in Nat
      OBVIOUS
    <2>1. refcnt[s][b] \in Nat
      OBVIOUS
    <2> QED BY <2>1
  <1>4. refcnt' \in [Streams -> [Bufs -> Nat]]
    BY <1>3, Zenon DEF bufDone, refcntAfter
  <1> QED BY <1>2, <1>4

(* What ProcessStreamBuf does, in the terms of Turn.                        *)
Supers2(t, n) ==
  [i \in 1 .. n |-> [slot |-> t.c.queue[i].slot,
                     bReadyForPrepareSnapshot |-> i = n /\ ch'.bWaitForPrepSnapshotDone]]

LEMMA ThreadStep ==
  ASSUME ProcessStreamBuf
  PROVE  LET m == Head(cmdq)
             t == trimmed(ch, m)
             n == Sends(m, t.c)
         IN  /\ alive /\ cmdq # <<>>
             /\ cmdq' = Tail(cmdq) /\ ch' = afterSending(t.c, n)
             /\ crashed' = (crashed \/ t.bad)
             /\ cbq' = cbq \o Supers2(t, n)
             /\ bufDone(t.back)
             /\ api' = IF IsFlush(m) THEN [api EXCEPT !.ack = TRUE] ELSE api
             /\ UNCHANGED <<attr, alive, asked, prep, calls, runs, state, frame, poll, strq, hal, app>>
  BY Zenon DEF ProcessStreamBuf, trimmed, handled, Sends, IsFlush, Supers2, ackFlush

LEMMA TurnTakes ==
  ASSUME ProcessStreamBuf
  PROVE  alive /\ cmdq # <<>> /\ cmdq' = Tail(cmdq)
  BY Zenon DEF ProcessStreamBuf

LEMMA Supers2Types ==
  ASSUME NEW t, NEW n \in Nat, \A i \in 1 .. n : t.c.queue[i].slot \in [Streams -> Slot],
         ch'.bWaitForPrepSnapshotDone \in BOOLEAN
  PROVE  /\ Supers2(t, n) \in Seq(Super) /\ Len(Supers2(t, n)) = n
         /\ \A i \in 1 .. n : Supers2(t, n)[i].slot = t.c.queue[i].slot
  <1>1. \A i \in 1 .. n : Supers2(t, n)[i].slot = t.c.queue[i].slot /\ Supers2(t, n)[i] \in Super
    BY DEF Supers2, Super
  <1>2. Supers2(t, n) \in [1 .. n -> Super]
    <2>1. \A i \in 1 .. n : [slot |-> t.c.queue[i].slot,
                     bReadyForPrepareSnapshot |-> i = n /\ ch'.bWaitForPrepSnapshotDone] \in Super
      BY DEF Super
    <2> QED BY <2>1, Zenon DEF Supers2
  <1>3. Supers2(t, n) \in Seq(Super) /\ Len(Supers2(t, n)) = n
    <2> DEFINE q == Supers2(t, n)
    <2>1. q \in [1 .. n -> Super]
      BY <1>2
    <2> HIDE DEF q
    <2>2. q \in Seq(Super) /\ Len(q) = n
      BY <2>1
    <2> QED BY <2>2 DEF q
  <1> QED BY <1>1, <1>3

(* One more frame is read, and handed on.                                   *)
LEMMA TypesReadFrame ==
  ASSUME TypesOk, NEW s \in Streams, ReadFrame(s)
  PROVE  /\ TypesOk'
         /\ kernel[s] # {} /\ Min(kernel[s]) \in kernel[s]
         /\ poll' # Idle /\ poll'.s = s /\ poll'.b = Min(kernel[s]) /\ poll'.f = frame[s] + 1
         /\ poll' \in Frame
         /\ kernel' = [kernel EXCEPT ![s] = @ \ {Min(kernel[s])}]
         /\ refcnt' = [refcnt EXCEPT ![s][Min(kernel[s])] = @ + 1 + IF s \in AppStreams THEN 1 ELSE 0]
  <1> DEFINE b == Min(kernel[s])
             add == IF s \in AppStreams THEN 1 ELSE 0
  <1>1. PICK info \in infos(s) :
          /\ prep' = (prep /\ s # Meta)
          /\ kernel' = [kernel EXCEPT ![s] = @ \ {b}]
          /\ refcnt' = [refcnt EXCEPT ![s][b] = @ + 1 + IF s \in AppStreams THEN 1 ELSE 0]
          /\ poll' = [s |-> s, b |-> b, f |-> frame'[s], info |-> info]
    BY DEF ReadFrame
  <1>2. kernel[s] # {} /\ b \in kernel[s] /\ b \in Bufs
    <2>1. kernel[s] \in SUBSET Bufs /\ kernel[s] # {} /\ Bufs \subseteq Nat
      <3>1. kernel[s] \in SUBSET Bufs
        BY DEF TypesOk
      <3>2. kernel[s] # {}
        BY DEF ReadFrame
      <3>3. Bufs \subseteq Nat
        BY DEF Bufs
      <3> QED BY <3>1, <3>2, <3>3
    <2> QED BY <2>1, MinOf
  <1> HIDE DEF b
  <1>3. frame' = [frame EXCEPT ![s] = @ + 1] /\ frame' \in [Streams -> Nat] /\ frame'[s] \in Nat \ {0}
        /\ frame'[s] = frame[s] + 1
    BY DEF ReadFrame, TypesOk
  <1>4. info \in AnyInfo
    <2>1. CASE s # Meta
      BY <2>1, Zenon DEF infos, AnyInfo
    <2>2. CASE s = Meta
      BY <2>2 DEF infos, AnyInfo
    <2> QED BY <2>1, <2>2
  <1>5. poll' \in Frame /\ poll'.s = s /\ poll'.b = b /\ poll'.f = frame[s] + 1
    BY <1>1, <1>2, <1>3, <1>4 DEF Frame
  <1>6. poll' # Idle
    BY <1>1 DEF Idle
  <1>7. refcnt' \in [Streams -> [Bufs -> Nat]]
    <2>1. refcnt \in [Streams -> [Bufs -> Nat]]
      BY DEF TypesOk
    <2>2. refcnt[s][b] + 1 + add \in Nat
      <3>1. refcnt[s][b] \in Nat
        BY <1>2, <2>1
      <3> QED BY <3>1
    <2>3. refcnt' = [refcnt EXCEPT ![s] = [refcnt[s] EXCEPT ![b] = refcnt[s][b] + 1 + add]]
      BY <1>1, <1>2, <2>1
    <2> HIDE DEF add
    <2>4. [refcnt[s] EXCEPT ![b] = refcnt[s][b] + 1 + add] \in [Bufs -> Nat]
      BY <1>2, <2>1, <2>2
    <2> QED BY <2>1, <2>3, <2>4
  <1>8. kernel' \in [Streams -> SUBSET Bufs]
    BY <1>1 DEF TypesOk
  <1>9. prep' \in BOOLEAN
    BY <1>1
  <1>10. TypesOk'
    BY <1>3, <1>5, <1>7, <1>8, <1>9 DEF ReadFrame, TypesOk
  <1> QED BY <1>1, <1>2, <1>5, <1>6, <1>10 DEF b

LEMMA EmptyQueueTypes ==
  ASSUME NEW c \in Channel
  PROVE  /\ EmptyQueue(c) \in Channel /\ EmptyQueue(c).queue = <<>>
         /\ EmptyQueue(c).match_cnt = 0
  <1> DEFINE d == [c EXCEPT !.queue = <<>>, !.match_cnt = 0,
                            !.expected_frame_id = 0, !.good_frame_id = 0]
  <1>1. <<>> \in Seq(Node)
    OBVIOUS
  <1>2. d.queue = <<>> /\ d.match_cnt = 0
    BY DEF Channel
  <1>3. d \in Channel
    BY <1>1 DEF Channel
  <1>4. EmptyQueue(c) = d
    BY DEF EmptyQueue
  <1> HIDE DEF d
  <1> QED BY <1>2, <1>3, <1>4

LEMMA TypesStart ==
  ASSUME TypesOk, Start \/ StartStream \/ Stop \/ StopStream \/ UnregStream \/ StopCmdThread
                  \/ StopCbThread
  PROVE  TypesOk'
  <1>1. /\ Len(StartOrder) \in Nat \ {0} /\ \A i \in 1 .. Len(StartOrder) : StartOrder[i] \in Streams
        /\ \A i \in 1 .. Len(StartOrder) : stopOrder[i] \in Streams
    BY OrderOk, StopOrderOk
  <1>2. api \in Call /\ api.at \in 1 .. Len(StartOrder)
    BY DEF TypesOk, Call
  <1>3. CASE Start
    BY <1>1, <1>3 DEF Start, TypesOk, Call, bufVars
  <1>4. CASE StartStream
    <2>1. state' \in [Streams -> {"REG", "ACTIVE", "OFF"}] /\ kernel' \in [Streams -> SUBSET Bufs]
          /\ refcnt' \in [Streams -> [Bufs -> Nat]] /\ frame' \in [Streams -> Nat]
      BY <1>1, <1>2, <1>4 DEF StartStream, TypesOk
    <2>2. api' \in Call
      <3>1. CASE api.at = Len(StartOrder)
        BY <1>2, <1>4, <3>1 DEF StartStream, Call
      <3>2. CASE api.at # Len(StartOrder)
        <4>1. api' = [api EXCEPT !.at = @ + 1] /\ api.at + 1 \in 1 .. Len(StartOrder)
          BY <1>1, <1>2, <1>4, <3>2 DEF StartStream
        <4> QED BY <1>2, <4>1 DEF Call
      <3> QED BY <3>1, <3>2
    <2>3. ch' \in Channel
      BY <1>4 DEF StartStream, TypesOk, Channel
    <2> QED BY <1>4, <2>1, <2>2, <2>3 DEF StartStream, TypesOk
  <1>5. CASE Stop
    BY <1>1, <1>5 DEF Stop, TypesOk, Call, bufVars
  <1>6. CASE StopStream
    <2>1. state' \in [Streams -> {"REG", "ACTIVE", "OFF"}] /\ kernel' \in [Streams -> SUBSET Bufs]
      BY <1>1, <1>2, <1>6 DEF StopStream, TypesOk
    <2>2. api' \in Call
      BY <1>2, <1>6 DEF StopStream, Call
    <2> QED BY <1>6, <2>1, <2>2 DEF StopStream, TypesOk
  <1>7. CASE UnregStream
    <2>1. state' \in [Streams -> {"REG", "ACTIVE", "OFF"}] /\ kernel' \in [Streams -> SUBSET Bufs]
          /\ refcnt' \in [Streams -> [Bufs -> Nat]]
      BY <1>1, <1>2, <1>7 DEF UnregStream, TypesOk
    <2>2. api' \in Call /\ cmdq' \in Seq(Cmd)
      <3>1. CASE api.at < Len(StartOrder)
        <4>1. api' = [api EXCEPT !.op = "off", !.at = @ + 1] /\ api.at + 1 \in 1 .. Len(StartOrder)
              /\ cmdq' = cmdq
          BY <1>1, <1>2, <1>7, <3>1 DEF UnregStream
        <4> QED BY <1>2, <4>1 DEF Call, TypesOk
      <3>2. CASE ~(api.at < Len(StartOrder))
        <4>1. api' = [api EXCEPT !.op = "ack"]
              /\ cmdq' = Append(cmdq, [cmd |-> "FLUSH_QUEUE", frame_idx |-> 0])
          BY <1>7, <3>2 DEF UnregStream, post
        <4>2. [cmd |-> "FLUSH_QUEUE", frame_idx |-> 0] \in Cmd
          BY DEF Cmd
        <4>3. cmdq \in Seq(Cmd)
          BY DEF TypesOk
        <4>4. cmdq' \in Seq(Cmd)
          BY <4>1, <4>2, <4>3
        <4> QED BY <1>2, <4>1, <4>4 DEF Call
      <3> QED BY <3>1, <3>2
    <2> QED BY <1>7, <2>1, <2>2 DEF UnregStream, TypesOk
  <1>8. CASE StopCmdThread
    BY <1>2, <1>8 DEF StopCmdThread, TypesOk, Call, bufVars
  <1>9. CASE StopCbThread
    <2>1. ch' \in Channel
      <3>1. ch \in Channel /\ ch' = EmptyQueue(ch)
        BY <1>9 DEF StopCbThread, TypesOk
      <3> QED BY <3>1, EmptyQueueTypes
    <2>2. api' \in Call
      BY <1>1, <1>9 DEF StopCbThread, Call
    <2>3. cmdq' \in Seq(Cmd) /\ prep' \in BOOLEAN
      <3>1. cmdq' = <<>> /\ prep' = FALSE
        BY <1>9 DEF StopCbThread
      <3>2. <<>> \in Seq(Cmd)
        OBVIOUS
      <3>3. cmdq' \in Seq(Cmd)
        BY <3>1, <3>2
      <3>4. prep' \in BOOLEAN
        BY <3>1
      <3> QED BY <3>3, <3>4
    <2> QED BY <1>9, <2>1, <2>2, <2>3 DEF StopCbThread, TypesOk, bufVars
  <1> QED BY <1>3, <1>4, <1>5, <1>6, <1>7, <1>8, <1>9

-----------------------------------------------------------------------------
(* The queue of commands. *)

(* The frames in the queue of commands are those that were in it, k places  *)
(* further on.                                                              *)
Shifted(k) ==
  \A i \in 1 .. Len(cmdq') : IsFrame(cmdq'[i]) =>
    i + k \in 1 .. Len(cmdq) /\ cmdq'[i] = cmdq[i + k]
Moved == \E k \in {0, 1} : Shifted(k)

LEMMA MovedSame ==
  ASSUME cmdq \in Seq(Cmd), cmdq' = cmdq
  PROVE  Moved
  <1>1. \A i \in 1 .. Len(cmdq) : i + 0 = i
    OBVIOUS
  <1>2. Shifted(0)
    BY <1>1 DEF Shifted
  <1> QED BY <1>2 DEF Moved

LEMMA MovedPost ==
  ASSUME cmdq \in Seq(Cmd), NEW x \in Cmd, ~IsFrame(x), cmdq' = Append(cmdq, x)
  PROVE  cmdq' \in Seq(Cmd) /\ Moved /\ InCmds' = InCmds
  <1>1. cmdq' \in Seq(Cmd) /\ Len(cmdq') = Len(cmdq) + 1 /\ Len(cmdq) \in Nat
        /\ cmdq'[Len(cmdq) + 1] = x
        /\ \A i \in 1 .. Len(cmdq) : cmdq'[i] = cmdq[i]
    OBVIOUS
  <1>2. \A i \in 1 .. Len(cmdq') : IsFrame(cmdq'[i]) =>
          i + 0 \in 1 .. Len(cmdq) /\ cmdq'[i] = cmdq[i + 0]
    <2> SUFFICES ASSUME NEW i \in 1 .. Len(cmdq'), IsFrame(cmdq'[i])
                 PROVE  i + 0 \in 1 .. Len(cmdq) /\ cmdq'[i] = cmdq[i + 0]
      OBVIOUS
    <2>1. i \in 1 .. Len(cmdq)
      <3>1. i # Len(cmdq) + 1
        BY <1>1
      <3> QED BY <1>1, <3>1
    <2> QED BY <1>1, <2>1
  <1>3. Shifted(0)
    BY <1>2 DEF Shifted
  <1>4. InCmds' = InCmds
    <2>1. \A p \in Pairs :
            (\E i \in 1 .. Len(cmdq') : cmdq'[i].cmd = "DATA_CB" /\ cmdq'[i].s = p[1] /\ cmdq'[i].b = p[2])
            <=> (\E i \in 1 .. Len(cmdq) : cmdq[i].cmd = "DATA_CB" /\ cmdq[i].s = p[1] /\ cmdq[i].b = p[2])
      <3> SUFFICES ASSUME NEW p \in Pairs
            PROVE (\E i \in 1 .. Len(cmdq') : cmdq'[i].cmd = "DATA_CB" /\ cmdq'[i].s = p[1] /\ cmdq'[i].b = p[2])
            <=> (\E i \in 1 .. Len(cmdq) : cmdq[i].cmd = "DATA_CB" /\ cmdq[i].s = p[1] /\ cmdq[i].b = p[2])
        OBVIOUS
      <3>1. \A i \in 1 .. Len(cmdq') : cmdq'[i].cmd = "DATA_CB" =>
              i \in 1 .. Len(cmdq) /\ cmdq'[i] = cmdq[i]
        BY <1>2 DEF IsFrame
      <3>2. \A i \in 1 .. Len(cmdq) : i \in 1 .. Len(cmdq') /\ cmdq'[i] = cmdq[i]
        BY <1>1
      <3> QED BY <3>1, <3>2
    <2> QED BY <2>1, Zenon DEF InCmds
  <1> QED BY <1>1, <1>3, <1>4 DEF Moved

LEMMA MovedTail ==
  ASSUME cmdq \in Seq(Cmd), cmdq # <<>>, cmdq' = Tail(cmdq)
  PROVE  /\ cmdq' \in Seq(Cmd) /\ Moved
         /\ Len(cmdq) \in Nat \ {0} /\ Len(cmdq') = Len(cmdq) - 1 /\ Head(cmdq) = cmdq[1]
         /\ \A i \in 1 .. Len(cmdq') : i + 1 \in 2 .. Len(cmdq) /\ cmdq'[i] = cmdq[i + 1]
         /\ \A i \in 2 .. Len(cmdq) : i - 1 \in 1 .. Len(cmdq') /\ cmdq'[i - 1] = cmdq[i]
  <1>1. /\ cmdq' \in Seq(Cmd)
        /\ Len(cmdq) \in Nat \ {0} /\ Len(cmdq') = Len(cmdq) - 1 /\ Head(cmdq) = cmdq[1]
    OBVIOUS
  <1>2. \A i \in 1 .. Len(cmdq') : cmdq'[i] = cmdq[i + 1]
    BY <1>1
  <1>3. \A i \in 1 .. Len(cmdq') : i + 1 \in 2 .. Len(cmdq) /\ i + 1 \in 1 .. Len(cmdq)
    BY <1>1
  <1>4. \A i \in 2 .. Len(cmdq) : i - 1 \in 1 .. Len(cmdq') /\ (i - 1) + 1 = i
    BY <1>1
  <1>5. \A i \in 2 .. Len(cmdq) : cmdq'[i - 1] = cmdq[i]
    <2> SUFFICES ASSUME NEW i \in 2 .. Len(cmdq) PROVE cmdq'[i - 1] = cmdq[i]
      OBVIOUS
    <2> DEFINE j == i - 1
    <2>1. j \in 1 .. Len(cmdq') /\ j + 1 = i
      BY <1>4
    <2> HIDE DEF j
    <2>2. cmdq'[j] = cmdq[i]
      BY <1>2, <2>1
    <2> QED BY <2>2 DEF j
  <1>6. Shifted(1)
    BY <1>2, <1>3 DEF Shifted
  <1>7. Moved
    BY <1>6 DEF Moved
  <1> QED BY <1>1, <1>2, <1>3, <1>4, <1>5, <1>7

(* Only the poll thread adds a frame.                                       *)
NotHandled ==
  \/ Hardware \/ ProcessStreamBuf \/ DispatchSuperBuf \/ (\E s \in Streams : DispatchAppData(s))
  \/ HalReturns \/ HalCalls \/ HalCallSteps

LEMMA MovedOk ==
  ASSUME TypesOk, NotHandled
  PROVE  cmdq' \in Seq(Cmd) /\ Moved
  <1> DEFINE G == cmdq' \in Seq(Cmd) /\ Moved
  <1>0. cmdq \in Seq(Cmd) /\ Requests \subseteq Nat \X Nat /\ FlushTo \subseteq Nat
    BY ChannelAssumption DEF TypesOk
  <1>1. ASSUME cmdq' = cmdq PROVE G
    BY <1>0, <1>1, MovedSame
  <1>2. ASSUME NEW x \in Cmd, ~IsFrame(x), cmdq' = Append(cmdq, x) PROVE G
    BY <1>0, <1>2, MovedPost
  <1> SUFFICES G
    OBVIOUS
  <1> HIDE DEF G
  <1>3. CASE Hardware
    BY <1>1, <1>3 DEF Hardware, DropFrame, ReadFrame, chanVars
  <1>4. CASE ProcessStreamBuf
    <2>1. cmdq # <<>> /\ cmdq' = Tail(cmdq)
      BY <1>4, TurnTakes
    <2> QED BY <1>0, <2>1, MovedTail DEF G
  <1>5. CASE DispatchSuperBuf \/ \E s \in Streams : DispatchAppData(s)
    BY <1>1, <1>5 DEF DispatchSuperBuf, DispatchAppData, chanVars
  <1>6. CASE HalReturns
    BY <1>1, <1>6 DEF HalReturns, ReturnHal, ReturnApp, chanVars
  <1>7. CASE RequestSuperBuf
    <2>1. PICK r \in Requests : cmdq' = Append(cmdq, [cmd |-> "REQ_DATA_CB", n |-> r[1], retro |-> r[2]])
      BY <1>7 DEF RequestSuperBuf, post
    <2> DEFINE x == [cmd |-> "REQ_DATA_CB", n |-> r[1], retro |-> r[2]]
    <2>2. x \in Cmd /\ ~IsFrame(x)
      BY <1>0 DEF Cmd, IsFrame
    <2>3. cmdq' = Append(cmdq, x)
      BY <2>1
    <2> HIDE DEF x
    <2> QED BY <1>2, <2>2, <2>3
  <1>8. CASE CancelSuperBuf
    <2> DEFINE x == [cmd |-> "REQ_DATA_CB", n |-> 0, retro |-> 0]
    <2>1. cmdq' = Append(cmdq, x)
      BY <1>8 DEF CancelSuperBuf, post
    <2>2. x \in Cmd /\ ~IsFrame(x)
      BY DEF Cmd, IsFrame
    <2> HIDE DEF x
    <2> QED BY <1>2, <2>1, <2>2
  <1>9. CASE FlushSuperBufQueue
    <2>1. PICK f \in FlushTo : cmdq' = Append(cmdq, [cmd |-> "FLUSH_QUEUE", frame_idx |-> f])
      BY <1>9 DEF FlushSuperBufQueue, post
    <2> DEFINE x == [cmd |-> "FLUSH_QUEUE", frame_idx |-> f]
    <2>2. x \in Cmd /\ ~IsFrame(x)
      BY <1>0 DEF Cmd, IsFrame
    <2>3. cmdq' = Append(cmdq, x)
      BY <2>1
    <2> HIDE DEF x
    <2> QED BY <1>2, <2>2, <2>3
  <1>10. CASE Start \/ Stop \/ FlushDone \/ StartStream \/ StopStream \/ StopCmdThread
    BY <1>1, <1>10 DEF Start, Stop, FlushDone, StartStream, StopStream, StopCmdThread
  <1>11. CASE UnregStream
    <2>1. CASE api.at < Len(StartOrder)
      BY <1>1, <1>11, <2>1 DEF UnregStream
    <2>2. CASE ~(api.at < Len(StartOrder))
      <3> DEFINE x == [cmd |-> "FLUSH_QUEUE", frame_idx |-> 0]
      <3>1. cmdq' = Append(cmdq, x)
        BY <1>11, <2>2 DEF UnregStream, post
      <3>2. x \in Cmd /\ ~IsFrame(x)
        BY DEF Cmd, IsFrame
      <3> HIDE DEF x
      <3> QED BY <1>2, <3>1, <3>2
    <2> QED BY <2>1, <2>2
  <1>12. CASE StopCbThread
    <2>1. cmdq' = <<>>
      BY <1>12 DEF StopCbThread
    <2>2. cmdq' \in Seq(Cmd) /\ Len(cmdq') = 0
      BY <2>1
    <2>3. Shifted(0)
      BY <2>2 DEF Shifted
    <2> QED BY <2>2, <2>3 DEF G, Moved
  <1> QED
    BY <1>3, <1>4, <1>5, <1>6, <1>7, <1>8, <1>9, <1>10, <1>11, <1>12
       DEF NotHandled, HalCalls, HalCallSteps

(* What is passed stays passed.                                             *)
Quiet == frame' = frame /\ poll' = poll /\ state' = state /\ (api'.op = "start" => api.op = "start")

LEMMA BehindMoved ==
  ASSUME Moved, NEW s \in Streams, NEW g \in Nat, Behind(s, g)
  PROVE  \A i \in 1 .. Len(cmdq') : cmdq'[i].cmd = "DATA_CB" /\ cmdq'[i].s = s => g < cmdq'[i].f
  <1>1. PICK k \in {0, 1} : Shifted(k)
    BY DEF Moved
  <1>2. \A i \in 1 .. Len(cmdq) : cmdq[i].cmd = "DATA_CB" /\ cmdq[i].s = s => g < cmdq[i].f
    BY DEF Behind
  <1> SUFFICES ASSUME NEW i \in 1 .. Len(cmdq'), cmdq'[i].cmd = "DATA_CB", cmdq'[i].s = s
               PROVE  g < cmdq'[i].f
    OBVIOUS
  <1> DEFINE j == i + k
  <1>3. j \in 1 .. Len(cmdq) /\ cmdq'[i] = cmdq[j]
    BY <1>1 DEF Shifted, IsFrame
  <1> HIDE DEF j
  <1> QED BY <1>2, <1>3

LEMMA QuietActions ==
  ASSUME ProcessStreamBuf \/ DispatchSuperBuf \/ (\E s \in Streams : DispatchAppData(s)) \/ HalReturns
         \/ RequestSuperBuf \/ CancelSuperBuf \/ FlushSuperBufQueue \/ Stop \/ FlushDone
         \/ StopCmdThread \/ StopCbThread,
         api \in Call
  PROVE  Quiet
  <1>1. CASE ProcessStreamBuf
    <2>1. /\ api' = IF IsFlush(Head(cmdq)) THEN [api EXCEPT !.ack = TRUE] ELSE api
          /\ UNCHANGED <<state, frame, poll>>
      BY <1>1, ThreadStep
    <2> QED BY <2>1 DEF Quiet, Call
  <1>2. CASE DispatchSuperBuf \/ \E s \in Streams : DispatchAppData(s)
    BY <1>2 DEF DispatchSuperBuf, DispatchAppData, chanVars, Quiet
  <1>3. CASE HalReturns
    BY <1>3 DEF HalReturns, ReturnHal, ReturnApp, chanVars, Quiet
  <1>4. CASE RequestSuperBuf \/ CancelSuperBuf
    BY <1>4 DEF RequestSuperBuf, CancelSuperBuf, bufVars, Quiet
  <1>5. CASE FlushSuperBufQueue \/ FlushDone
    BY <1>5 DEF FlushSuperBufQueue, FlushDone, bufVars, Quiet
  <1>6. CASE Stop \/ StopCmdThread \/ StopCbThread
    BY <1>6 DEF Stop, StopCmdThread, StopCbThread, bufVars, Quiet, Call
  <1> QED BY <1>1, <1>2, <1>3, <1>4, <1>5, <1>6

LEMMA PassedQuiet ==
  ASSUME Quiet, Moved
  PROVE  Passed \subseteq Passed'
  <1> SUFFICES ASSUME NEW s \in Streams, NEW g \in Nat, Behind(s, g)
               PROVE  Behind(s, g)'
    <2>1. \A p \in Streams \X Nat : p[1] \in Streams /\ p[2] \in Nat
      OBVIOUS
    <2> QED BY <2>1 DEF Passed
  <1>1. \A i \in 1 .. Len(cmdq') : cmdq'[i].cmd = "DATA_CB" /\ cmdq'[i].s = s => g < cmdq'[i].f
    BY BehindMoved
  <1> QED BY <1>1 DEF Behind, Quiet

LEMMA PassedHardware ==
  ASSUME TypesOk, Hardware
  PROVE  Passed \subseteq Passed'
  <1> SUFFICES ASSUME NEW s \in Streams, NEW g \in Nat, Behind(s, g)
               PROVE  Behind(s, g)'
    <2>1. \A p \in Streams \X Nat : p[1] \in Streams /\ p[2] \in Nat
      OBVIOUS
    <2> QED BY <2>1 DEF Passed
  <1>1. PICK t \in Streams : DropFrame(t) \/ ReadFrame(t)
    BY DEF Hardware
  <1>2. cmdq' = cmdq /\ api' = api /\ state' = state /\ frame' = [frame EXCEPT ![t] = @ + 1]
    BY <1>1 DEF DropFrame, ReadFrame, chanVars
  <1>3. frame \in [Streams -> Nat]
    BY DEF TypesOk
  <1>4. g <= frame[s] /\ frame[s] <= frame'[s]
    BY <1>2, <1>3 DEF Behind
  <1>5. poll' # Idle /\ poll'.s = s => g < poll'.f
    <2>1. CASE DropFrame(t)
      BY <2>1 DEF DropFrame, Behind
    <2>2. CASE ReadFrame(t)
      <3>1. poll'.s = t /\ poll'.f = frame[t] + 1
        BY <2>2, TypesReadFrame
      <3> QED BY <1>3, <1>4, <3>1
    <2> QED BY <1>1, <2>1, <2>2
  <1>6. g <= frame'[s]
    BY <1>2, <1>3, <1>4
  <1> QED BY <1>2, <1>5, <1>6 DEF Behind

LEMMA HandleCmd ==
  ASSUME TypesOk, HandleRcvdBuf
  PROVE  LET x == [cmd |-> "DATA_CB", s |-> poll.s, b |-> poll.b, f |-> poll.f, info |-> poll.info]
         IN  /\ poll \in Frame /\ poll # Idle /\ x \in Cmd /\ cmdq' \in Seq(Cmd)
             /\ Len(cmdq) \in Nat /\ Len(cmdq') = Len(cmdq) + 1
             /\ cmdq'[Len(cmdq) + 1] = x /\ \A i \in 1 .. Len(cmdq) : cmdq'[i] = cmdq[i]
             /\ \A i \in 1 .. Len(cmdq') : i \in 1 .. Len(cmdq) \/ i = Len(cmdq) + 1
  <1> DEFINE x == [cmd |-> "DATA_CB", s |-> poll.s, b |-> poll.b, f |-> poll.f, info |-> poll.info]
  <1>1. poll \in Frame /\ poll # Idle /\ cmdq \in Seq(Cmd)
    BY DEF TypesOk, HandleRcvdBuf
  <1>2. x \in Cmd
    BY <1>1 DEF Cmd, Frame
  <1>3. cmdq' = Append(cmdq, x)
    BY DEF HandleRcvdBuf
  <1> HIDE DEF x
  <1>4. /\ cmdq' \in Seq(Cmd) /\ Len(cmdq) \in Nat /\ Len(cmdq') = Len(cmdq) + 1
        /\ cmdq'[Len(cmdq) + 1] = x /\ \A i \in 1 .. Len(cmdq) : cmdq'[i] = cmdq[i]
    BY <1>1, <1>2, <1>3
  <1>5. \A i \in 1 .. Len(cmdq') : i \in 1 .. Len(cmdq) \/ i = Len(cmdq) + 1
    BY <1>4
  <1> QED BY <1>1, <1>2, <1>4, <1>5 DEF x

LEMMA PassedHandle ==
  ASSUME TypesOk, HandleRcvdBuf
  PROVE  Passed \subseteq Passed'
  <1> SUFFICES ASSUME NEW s \in Streams, NEW g \in Nat, Behind(s, g)
               PROVE  Behind(s, g)'
    <2>1. \A p \in Streams \X Nat : p[1] \in Streams /\ p[2] \in Nat
      OBVIOUS
    <2> QED BY <2>1 DEF Passed
  <1>1. poll' = Idle /\ frame' = frame /\ state' = state /\ api' = api
    BY DEF HandleRcvdBuf
  <1>2. \A i \in 1 .. Len(cmdq') : cmdq'[i].cmd = "DATA_CB" /\ cmdq'[i].s = s => g < cmdq'[i].f
    <2> SUFFICES ASSUME NEW i \in 1 .. Len(cmdq'), cmdq'[i].cmd = "DATA_CB", cmdq'[i].s = s
                 PROVE  g < cmdq'[i].f
      OBVIOUS
    <2>1. i \in 1 .. Len(cmdq) \/ i = Len(cmdq) + 1
      BY HandleCmd
    <2>2. CASE i \in 1 .. Len(cmdq)
      <3>1. cmdq'[i] = cmdq[i]
        BY <2>2, HandleCmd
      <3> QED BY <2>2, <3>1 DEF Behind
    <2>3. CASE i = Len(cmdq) + 1
      <3>1. cmdq'[i].s = poll.s /\ cmdq'[i].f = poll.f /\ poll # Idle
        BY <2>3, HandleCmd
      <3> QED BY <3>1 DEF Behind
    <2> QED BY <2>1, <2>2, <2>3
  <1> QED BY <1>1, <1>2 DEF Behind

LEMMA PassedStart ==
  ASSUME TypesOk, Phase, StartStream
  PROVE  Passed \subseteq Passed'
  <1> SUFFICES ASSUME NEW s \in Streams, NEW g \in Nat, Behind(s, g)
               PROVE  Behind(s, g)'
    <2>1. \A p \in Streams \X Nat : p[1] \in Streams /\ p[2] \in Nat
      OBVIOUS
    <2> QED BY <2>1 DEF Passed
  <1> DEFINE t == StartOrder[api.at]
  <1>1. api.op = "start" /\ api.at \in 1 .. Len(StartOrder) /\ api.at \in Nat
    BY OrderOk DEF StartStream, TypesOk, Call
  <1>2. state[t] = "REG"
    <2>1. ~(api.at < api.at)
      BY <1>1
    <2> QED BY <1>1, <2>1 DEF Phase
  <1>3. s # t
    BY <1>1, <1>2 DEF Behind
  <1>4. frame' = [frame EXCEPT ![t] = 0] /\ state' = [state EXCEPT ![t] = "ACTIVE"]
        /\ cmdq' = cmdq /\ poll' = poll
    BY DEF StartStream
  <1> HIDE DEF t
  <1>5. frame'[s] = frame[s] /\ state'[s] = state[s]
    BY <1>3, <1>4 DEF TypesOk
  <1> QED BY <1>1, <1>4, <1>5 DEF Behind

LEMMA PassedStop ==
  ASSUME TypesOk, StopStream \/ UnregStream
  PROVE  Passed \subseteq Passed'
  <1> SUFFICES ASSUME NEW s \in Streams, NEW g \in Nat, Behind(s, g)
               PROVE  Behind(s, g)'
    <2>1. \A p \in Streams \X Nat : p[1] \in Streams /\ p[2] \in Nat
      OBVIOUS
    <2> QED BY <2>1 DEF Passed
  <1>1. poll' = poll /\ frame' = frame /\ api'.op # "start"
    BY DEF StopStream, UnregStream, TypesOk, Call
  <1>2. Moved
    BY MovedOk DEF NotHandled, HalCallSteps
  <1>3. \A i \in 1 .. Len(cmdq') : cmdq'[i].cmd = "DATA_CB" /\ cmdq'[i].s = s => g < cmdq'[i].f
    BY <1>2, BehindMoved
  <1> QED BY <1>1, <1>3 DEF Behind

LEMMA PassedGrows ==
  ASSUME TypesOk, Phase, Next, ~Start
  PROVE  Passed \subseteq Passed'
  <1>1. api \in Call
    BY DEF TypesOk
  <1>2. CASE Hardware
    BY <1>2, PassedHardware
  <1>3. CASE HandleRcvdBuf
    BY <1>3, PassedHandle
  <1>4. CASE StartStream
    BY <1>4, PassedStart
  <1>5. CASE StopStream \/ UnregStream
    BY <1>5, PassedStop
  <1>6. CASE ProcessStreamBuf \/ DispatchSuperBuf \/ (\E s \in Streams : DispatchAppData(s)) \/ HalReturns
             \/ RequestSuperBuf \/ CancelSuperBuf \/ FlushSuperBufQueue \/ Stop \/ FlushDone
             \/ StopCmdThread \/ StopCbThread
    <2>1. NotHandled
      BY <1>6 DEF NotHandled, HalCalls, HalCallSteps
    <2>2. Quiet
      BY <1>1, <1>6, QuietActions
    <2> QED BY <2>1, <2>2, MovedOk, PassedQuiet
  <1> QED BY <1>2, <1>3, <1>4, <1>5, <1>6 DEF Next, Threads, HalCalls, HalCallSteps

(* The next command is one the queue may take.                              *)
LEMMA DueStep ==
  ASSUME Inv, Next, ProcessStreamBuf
  PROVE  Due(ch, Passed, Head(cmdq), Passed') /\ Head(cmdq) = cmdq[1] /\ 1 \in 1 .. Len(cmdq)
  <1> DEFINE m == Head(cmdq)
  <1>1. cmdq \in Seq(Cmd) /\ attr \in Attrs /\ QueueOk(ch, Passed) /\ Phase /\ InOrder /\ OnePlace
        /\ TypesOk /\ api \in Call /\ state \in [Streams -> {"REG", "ACTIVE", "OFF"}]
    BY DEF Inv, TypesOk
  <1>2. cmdq # <<>> /\ cmdq' = Tail(cmdq)
    BY TurnTakes
  <1>3. /\ m = cmdq[1] /\ Len(cmdq) \in Nat \ {0} /\ Len(cmdq') = Len(cmdq) - 1
        /\ \A i \in 1 .. Len(cmdq') : i + 1 \in 2 .. Len(cmdq) /\ cmdq'[i] = cmdq[i + 1]
    BY <1>1, <1>2, MovedTail
  <1>4. 1 \in 1 .. Len(cmdq) /\ m \in Cmd
    BY <1>1, <1>3
  <1>5. Passed \subseteq Passed'
    <2>1. ~Start
      BY TurnTakes DEF Start
    <2> QED BY <1>1, <2>1, PassedGrows
  <1> HIDE DEF m
  <1>6. ASSUME IsFrame(m)
        PROVE  Arrival(ch, Passed, m.s, m.b, m.f) /\ Extended(Passed', Passed, m.s, m.f)
    <2>1. m.s \in Streams /\ m.b \in Bufs /\ m.f \in Nat \ {0}
      BY <1>4, <1>6, CmdTypes DEF IsFrame
    <2>2. m.cmd = "DATA_CB"
      BY <1>6 DEF IsFrame
    <2>3. DownClosed(Passed)
      <3>1. ASSUME NEW s \in Streams, NEW g \in Nat, NEW h \in Nat, Behind(s, g), h <= g
            PROVE  Behind(s, h)
        <4>1. frame[s] \in Nat
          BY <1>1 DEF TypesOk
        <4>2. poll # Idle => poll.f \in Nat
          BY <1>1 DEF TypesOk, Frame
        <4>3. \A i \in 1 .. Len(cmdq) : cmdq[i].cmd = "DATA_CB" => cmdq[i].f \in Nat
          <5> SUFFICES ASSUME NEW i \in 1 .. Len(cmdq), cmdq[i].cmd = "DATA_CB" PROVE cmdq[i].f \in Nat
            OBVIOUS
          <5>1. cmdq[i] \in Cmd
            BY <1>1
          <5> QED BY <5>1, CmdTypes
        <4>4. h <= frame[s]
          BY <3>1, <4>1 DEF Behind
        <4>5. poll # Idle /\ poll.s = s => h < poll.f
          BY <3>1, <4>2 DEF Behind
        <4>6. \A i \in 1 .. Len(cmdq) : cmdq[i].cmd = "DATA_CB" /\ cmdq[i].s = s => h < cmdq[i].f
          BY <3>1, <4>3 DEF Behind
        <4> QED BY <3>1, <4>4, <4>5, <4>6 DEF Behind
      <3>2. Passed \subseteq Streams \X Nat
        BY DEF Passed
      <3>3. \A s \in Streams : \A g \in Nat : <<s, g>> \in Passed <=> Behind(s, g)
        BY DEF Passed
      <3> QED BY <3>1, <3>2, <3>3 DEF DownClosed
    <2>4. Fresh(Passed, m.s, m.f)
      <3> SUFFICES ASSUME NEW g \in Nat, m.f <= g, <<m.s, g>> \in Passed PROVE FALSE
        BY DEF Fresh
      <3>1. Behind(m.s, g)
        BY DEF Passed
      <3>2. g < m.f
        BY <1>3, <1>4, <2>2, <3>1 DEF Behind
      <3> QED BY <2>1, <3>2
    <2>5. <<m.s, m.b>> \in InCmds
      BY <1>3, <1>4, <2>1, <2>2 DEF InCmds, Pairs
    <2>6. <<m.s, m.b>> \notin buffersOf(ch.queue, 1 .. Len(ch.queue))
      BY <1>1, <2>5 DEF OnePlace, Disjoint, InQueue
    <2>7. Arrival(ch, Passed, m.s, m.b, m.f)
      BY <1>1, <2>1, <2>3, <2>4, <2>6 DEF Arrival
    <2>8. ASSUME NEW s \in Streams, NEW g \in Nat, s = m.s, g = m.f
          PROVE  Behind(s, g)'
      <3>1. /\ UNCHANGED <<state, frame, poll>>
            /\ api' = IF IsFlush(Head(cmdq)) THEN [api EXCEPT !.ack = TRUE] ELSE api
        BY ThreadStep
      <3>2. m.f <= frame[m.s] /\ (poll # Idle /\ poll.s = m.s => m.f < poll.f)
        BY <1>1, <1>3, <1>4, <2>2 DEF InOrder
      <3>3. \A j \in 2 .. Len(cmdq) : cmdq[j].cmd = "DATA_CB" /\ cmdq[j].s = m.s => m.f < cmdq[j].f
        <4> SUFFICES ASSUME NEW j \in 2 .. Len(cmdq), cmdq[j].cmd = "DATA_CB", cmdq[j].s = m.s
                     PROVE  m.f < cmdq[j].f
          OBVIOUS
        <4>1. j \in 1 .. Len(cmdq) /\ 1 < j
          BY <1>3
        <4> QED BY <1>1, <1>3, <1>4, <2>2, <4>1 DEF InOrder
      <3>4. \A i \in 1 .. Len(cmdq') : cmdq'[i].cmd = "DATA_CB" /\ cmdq'[i].s = m.s => m.f < cmdq'[i].f
        BY <1>3, <3>3
      <3>5. api'.op = "start" => state[m.s] = "ACTIVE"
        <4> SUFFICES ASSUME api'.op = "start" PROVE state[m.s] = "ACTIVE"
          OBVIOUS
        <4>1. api.op = "start"
          BY <1>1, <3>1 DEF Call
        <4>2. PICK i \in 1 .. Len(StartOrder) : StartOrder[i] = m.s
          BY <2>1, OrderOk
        <4>3. state[m.s] \in {"ACTIVE", "REG"}
          BY <1>1, <4>1, <4>2 DEF Phase
        <4>4. <<m.s, m.b>> \in Lent
          BY <2>5 DEF Lent
        <4>5. state[m.s] # "REG"
          BY <1>1, <2>1, <4>1, <4>4 DEF Phase
        <4> QED BY <4>3, <4>5
      <3>6. /\ g <= frame'[s]
            /\ poll' # Idle /\ poll'.s = s => g < poll'.f
            /\ \A i \in 1 .. Len(cmdq') : cmdq'[i].cmd = "DATA_CB" /\ cmdq'[i].s = s => g < cmdq'[i].f
            /\ api'.op = "start" => state'[s] = "ACTIVE"
        BY <2>8, <3>1, <3>2, <3>4, <3>5
      <3> QED BY <3>6 DEF Behind
    <2>9. \A s \in Streams : \A g \in Nat : s = m.s /\ g = m.f => <<s, g>> \in Passed'
      BY <2>8 DEF Passed
    <2>10. Extended(Passed', Passed, m.s, m.f)
      BY <1>5, <2>1, <2>9 DEF Extended
    <2> QED BY <2>7, <2>10
  <1>7. Due(ch, Passed, m, Passed')
    BY <1>1, <1>4, <1>5, <1>6 DEF Due
  <1> QED BY <1>3, <1>4, <1>7 DEF m

LEMMA TurnStep ==
  ASSUME Inv, Next, ProcessStreamBuf
  PROVE  LET m == Head(cmdq)
             t == trimmed(ch, m)
             n == Sends(m, t.c)
         IN  /\ Turn(ch, m, Passed', t, n, ch')
             /\ crashed' = crashed
             /\ Supers2(t, n) \in Seq(Super) /\ Len(Supers2(t, n)) = n
             /\ \A i \in 1 .. n : Supers2(t, n)[i].slot = t.c.queue[i].slot
  <1> DEFINE m == Head(cmdq)
             t == trimmed(ch, m)
             n == Sends(m, t.c)
  <1>1. Due(ch, Passed, m, Passed')
    BY DueStep
  <1>2. Turn(ch, m, Passed', t, n, afterSending(t.c, n))
    <2> HIDE DEF m
    <2>1. \A u, k : u = t /\ k = n => Turn(ch, m, Passed', u, k, afterSending(u.c, k))
      BY <1>1, TurnOk
    <2> QED BY <2>1
  <1>3. ch' = afterSending(t.c, n) /\ crashed' = (crashed \/ t.bad)
    BY ThreadStep
  <1> HIDE DEF m, t, n
  <1>4. Turn(ch, m, Passed', t, n, ch')
    BY <1>2, <1>3
  <1>5. crashed' = crashed
    <2>1. t.bad = FALSE /\ crashed \in BOOLEAN
      BY <1>4 DEF Turn, Inv, TypesOk
    <2> QED BY <1>3, <2>1
  <1>6. ch' \in Channel /\ n \in Nat
        /\ \A i \in 1 .. n : t.c.queue[i].slot \in [Streams -> Slot]
    BY <1>4 DEF Turn, QueueOk
  <1>7. ch'.bWaitForPrepSnapshotDone \in BOOLEAN
    BY <1>6 DEF Channel
  <1>8. /\ Supers2(t, n) \in Seq(Super) /\ Len(Supers2(t, n)) = n
        /\ \A i \in 1 .. n : Supers2(t, n)[i].slot = t.c.queue[i].slot
    BY <1>6, <1>7, Supers2Types
  <1> QED BY <1>4, <1>5, <1>8 DEF m, t, n

LEMMA TypesStep ==
  ASSUME Inv, Next
  PROVE  TypesOk'
  <1>0. TypesOk
    BY DEF Inv
  <1> DEFINE G == TypesOk'
  <1> SUFFICES G
    OBVIOUS
  <1>a. ASSUME NotHandled PROVE cmdq' \in Seq(Cmd)
    BY <1>0, <1>a, MovedOk
  <1>b. kernel \in [Streams -> SUBSET Bufs] /\ refcnt \in [Streams -> [Bufs -> Nat]]
    BY <1>0 DEF TypesOk
  <1>1. ASSUME NEW s \in Streams, DropFrame(s) PROVE G
    BY <1>0, <1>1 DEF DropFrame, TypesOk, chanVars
  <1>2. ASSUME NEW s \in Streams, ReadFrame(s) PROVE G
    BY <1>0, <1>2, TypesReadFrame
  <1>3. CASE HandleRcvdBuf
    <2>1. cmdq' \in Seq(Cmd) /\ poll \in Frame
      BY <1>0, <1>3, HandleCmd
    <2>2. poll.s \in Streams /\ poll.b \in Bufs
      BY <2>1 DEF Frame
    <2>3. strq' \in [Streams -> Seq(Bufs)]
      <3>1. strq[poll.s] \in Seq(Bufs) /\ strq \in [Streams -> Seq(Bufs)]
        BY <1>0, <2>2 DEF TypesOk
      <3>2. Append(strq[poll.s], poll.b) \in Seq(Bufs)
        BY <2>2, <3>1
      <3>3. strq' \in {strq, [strq EXCEPT ![poll.s] = Append(strq[poll.s], poll.b)]}
        BY <1>3, Zenon DEF HandleRcvdBuf
      <3> QED BY <2>2, <3>1, <3>2, <3>3
    <2>4. crashed' \in BOOLEAN
      BY <1>3 DEF HandleRcvdBuf
    <2> QED BY <1>0, <1>3, <2>1, <2>3, <2>4 DEF HandleRcvdBuf, TypesOk
  <1>4. CASE ProcessStreamBuf
    <2> DEFINE m == Head(cmdq)
               t == trimmed(ch, m)
               n == Sends(m, t.c)
    <2>1. /\ Turn(ch, m, Passed', t, n, ch') /\ crashed' = crashed
          /\ Supers2(t, n) \in Seq(Super)
      BY <1>4, TurnStep
    <2>2. /\ cbq' = cbq \o Supers2(t, n)
          /\ bufDone(t.back)
          /\ api' = IF IsFlush(m) THEN [api EXCEPT !.ack = TRUE] ELSE api
          /\ UNCHANGED <<attr, alive, asked, prep, calls, runs, state, frame, poll, strq, hal, app>>
      BY <1>4, ThreadStep
    <2> HIDE DEF m, t, n
    <2>3. ch' \in Channel
      BY <2>1 DEF Turn, QueueOk
    <2>4. cbq \in Seq(Super) /\ api \in Call
      BY <1>0 DEF TypesOk
    <2>5. cbq' \in Seq(Super)
      BY <2>1, <2>2, <2>4
    <2>6. api' \in Call
      BY <2>2, <2>4 DEF Call
    <2>7. kernel' \in [Streams -> SUBSET Bufs] /\ refcnt' \in [Streams -> [Bufs -> Nat]]
      BY <1>b, <2>2, BufDoneTypes
    <2>8. cmdq' \in Seq(Cmd)
      BY <1>4, <1>a DEF NotHandled
    <2> QED BY <1>0, <2>1, <2>2, <2>3, <2>5, <2>6, <2>7, <2>8 DEF TypesOk
  <1>5. CASE DispatchSuperBuf
    <2>1. cbq \in Seq(Super) /\ cbq # <<>> /\ cbq' = Tail(cbq)
      BY <1>0, <1>5 DEF DispatchSuperBuf, TypesOk
    <2>2. cbq' \in Seq(Super) /\ Head(cbq) \in Super
      BY <2>1
    <2>3. SuperOk(Head(cbq).slot)
      <3>1. Head(cbq) = cbq[1] /\ 1 \in 1 .. Len(cbq)
        BY <2>1
      <3> QED BY <3>1 DEF Inv, Supers
    <2>4. hal' \subseteq Pairs
      <3>1. hal' = hal \cup {<<s, Head(cbq).slot[s].buf>> : s \in Streams}
        BY <1>5 DEF DispatchSuperBuf
      <3>2. \A s \in Streams : <<s, Head(cbq).slot[s].buf>> \in Pairs
        BY <2>3 DEF SuperOk, Pairs
      <3> QED BY <1>0, <3>1, <3>2 DEF TypesOk
    <2>5. prep' \in BOOLEAN /\ asked' \in Nat
      BY <1>0, <1>5 DEF DispatchSuperBuf, TypesOk
    <2> QED BY <1>0, <1>5, <2>2, <2>4, <2>5 DEF DispatchSuperBuf, TypesOk
  <1>6. ASSUME NEW s \in Streams, DispatchAppData(s) PROVE G
    <2>1. strq[s] \in Seq(Bufs) /\ strq[s] # <<>> /\ strq \in [Streams -> Seq(Bufs)]
      BY <1>0, <1>6 DEF DispatchAppData, TypesOk
    <2>2. Head(strq[s]) \in Bufs /\ Tail(strq[s]) \in Seq(Bufs)
      BY <2>1
    <2>3. strq' = [strq EXCEPT ![s] = Tail(strq[s])]
      BY <1>6 DEF DispatchAppData
    <2>4. strq' \in [Streams -> Seq(Bufs)]
      BY <2>1, <2>2, <2>3
    <2>5. app' \subseteq Pairs
      BY <1>0, <1>6, <2>2 DEF DispatchAppData, TypesOk, Pairs
    <2> QED BY <1>0, <1>6, <2>4, <2>5 DEF DispatchAppData, TypesOk, chanVars
  <1>7. CASE HalReturns
    <2>1. ASSUME NEW p \in hal, ReturnHal(p) PROVE G
      <3>1. kernel' \in [Streams -> SUBSET Bufs] /\ refcnt' \in [Streams -> [Bufs -> Nat]]
        BY <1>b, <2>1, BufDoneTypes DEF ReturnHal
      <3> QED BY <1>0, <2>1, <3>1 DEF ReturnHal, TypesOk, chanVars
    <2>2. ASSUME NEW p \in app, ReturnApp(p) PROVE G
      <3>1. kernel' \in [Streams -> SUBSET Bufs] /\ refcnt' \in [Streams -> [Bufs -> Nat]]
        BY <1>b, <2>2, BufDoneTypes DEF ReturnApp
      <3> QED BY <1>0, <2>2, <3>1 DEF ReturnApp, TypesOk, chanVars
    <2> QED BY <1>7, <2>1, <2>2 DEF HalReturns
  <1>8. CASE RequestSuperBuf
    <2>1. cmdq' \in Seq(Cmd)
      BY <1>8, <1>a DEF NotHandled, HalCalls
    <2>2. asked' \in Nat
      <3>1. Requests \subseteq Nat \X Nat
        BY ChannelAssumption
      <3> QED BY <1>8, <3>1 DEF RequestSuperBuf
    <2> QED BY <1>0, <1>8, <2>1, <2>2 DEF RequestSuperBuf, TypesOk, bufVars
  <1>9. CASE CancelSuperBuf
    <2>1. cmdq' \in Seq(Cmd)
      BY <1>9, <1>a DEF NotHandled, HalCalls
    <2> QED BY <1>0, <1>9, <2>1 DEF CancelSuperBuf, TypesOk, bufVars
  <1>10. CASE FlushSuperBufQueue
    <2>1. cmdq' \in Seq(Cmd)
      BY <1>10, <1>a DEF NotHandled, HalCalls
    <2>2. api' \in Call
      BY <1>10, OrderOk DEF FlushSuperBufQueue, Call
    <2> QED BY <1>0, <1>10, <2>1, <2>2 DEF FlushSuperBufQueue, TypesOk, bufVars
  <1>11. CASE FlushDone
    <2>1. api' \in Call
      BY <1>11, OrderOk DEF FlushDone, Call
    <2> QED BY <1>0, <1>11, <2>1 DEF FlushDone, TypesOk, bufVars
  <1>12. CASE Start \/ Stop \/ StartStream \/ StopStream \/ UnregStream \/ StopCmdThread \/ StopCbThread
    BY <1>0, <1>12, TypesStart
  <1> HIDE DEF G
  <1> QED
    BY <1>1, <1>2, <1>3, <1>4, <1>5, <1>6, <1>7, <1>8, <1>9, <1>10, <1>11, <1>12
       DEF Next, Hardware, Threads, HalCalls, HalCallSteps

(* Frames stay in order.                                                    *)
LEMMA OrderMoved ==
  ASSUME InOrder, Moved, poll' = poll, NEW f2, frame' = f2,
         \A i \in 1 .. Len(cmdq) : IsFrame(cmdq[i]) => cmdq[i].f <= f2[cmdq[i].s],
         poll # Idle => poll.f <= f2[poll.s]
  PROVE  InOrder'
  <1>1. PICK k \in {0, 1} : Shifted(k)
    BY DEF Moved
  <1>2. \A i \in 1 .. Len(cmdq') : cmdq'[i].cmd = "DATA_CB" =>
          i + k \in 1 .. Len(cmdq) /\ cmdq'[i] = cmdq[i + k]
    BY <1>1 DEF Shifted, IsFrame
  <1>3. \A i \in 1 .. Len(cmdq') : cmdq'[i].cmd = "DATA_CB" =>
          /\ cmdq'[i].f <= f2[cmdq'[i].s]
          /\ poll # Idle /\ poll.s = cmdq'[i].s => cmdq'[i].f < poll.f
    BY <1>2 DEF InOrder, IsFrame
  <1>4. ASSUME NEW i \in 1 .. Len(cmdq'), cmdq'[i].cmd = "DATA_CB", NEW j \in 1 .. Len(cmdq'),
               i < j, cmdq'[j].cmd = "DATA_CB", cmdq'[j].s = cmdq'[i].s
        PROVE  cmdq'[i].f < cmdq'[j].f
    <2> DEFINE a == i + k
               b == j + k
    <2>1. a \in 1 .. Len(cmdq) /\ b \in 1 .. Len(cmdq) /\ cmdq'[i] = cmdq[a] /\ cmdq'[j] = cmdq[b]
      BY <1>2, <1>4
    <2>2. a < b
      BY <1>4
    <2> HIDE DEF a, b
    <2> QED BY <1>4, <2>1, <2>2 DEF InOrder
  <1> QED BY <1>3, <1>4 DEF InOrder

LEMMA CmdAt ==
  ASSUME cmdq \in Seq(Cmd), NEW i \in 1 .. Len(cmdq), IsFrame(cmdq[i])
  PROVE  /\ cmdq[i].cmd = "DATA_CB" /\ cmdq[i].s \in Streams /\ cmdq[i].b \in Bufs
         /\ cmdq[i].f \in Nat \ {0} /\ <<cmdq[i].s, cmdq[i].b>> \in InCmds
  <1>1. cmdq[i] \in Cmd /\ cmdq[i].cmd = "DATA_CB"
    BY DEF IsFrame
  <1>2. cmdq[i].s \in Streams /\ cmdq[i].b \in Bufs /\ cmdq[i].f \in Nat \ {0}
    BY <1>1, CmdTypes
  <1>3. <<cmdq[i].s, cmdq[i].b>> \in Pairs
    BY <1>2 DEF Pairs
  <1> DEFINE p == <<cmdq[i].s, cmdq[i].b>>
  <1>4. p \in Pairs /\ p[1] = cmdq[i].s /\ p[2] = cmdq[i].b
    BY <1>3
  <1> HIDE DEF p
  <1>5. p \in InCmds
    BY <1>1, <1>4 DEF InCmds
  <1> QED BY <1>1, <1>2, <1>5 DEF p

LEMMA InOrderStep ==
  ASSUME Inv, Next
  PROVE  InOrder'
  <1>0. TypesOk /\ InOrder /\ Phase /\ cmdq \in Seq(Cmd) /\ api \in Call /\ frame \in [Streams -> Nat]
        /\ poll \in Frame \cup {Idle}
    BY DEF Inv, TypesOk
  <1>1. /\ \A i \in 1 .. Len(cmdq) : IsFrame(cmdq[i]) => cmdq[i].f <= frame[cmdq[i].s]
        /\ poll # Idle => poll.f <= frame[poll.s]
    BY <1>0 DEF InOrder, IsFrame
  <1>2. CASE NotHandled /\ frame' = frame /\ poll' = poll
    <2>1. Moved
      BY <1>0, <1>2, MovedOk
    <2> QED BY <1>0, <1>1, <1>2, <2>1, OrderMoved
  <1>3. ASSUME NEW s \in Streams, DropFrame(s) PROVE InOrder'
    <2>1. cmdq' = cmdq /\ poll' = poll /\ frame' = [frame EXCEPT ![s] = @ + 1]
      BY <1>3 DEF DropFrame, chanVars
    <2>2. Moved
      BY <1>0, <2>1, MovedSame
    <2>3. \A t \in Streams : frame[t] <= frame'[t] /\ frame'[t] \in Nat /\ frame[t] \in Nat
      BY <1>0, <2>1
    <2>4. ASSUME NEW i \in 1 .. Len(cmdq), IsFrame(cmdq[i]) PROVE cmdq[i].f <= frame'[cmdq[i].s]
      <3>1. cmdq[i].s \in Streams /\ cmdq[i].f \in Nat
        BY <1>0, <2>4, CmdAt
      <3>2. cmdq[i].f <= frame[cmdq[i].s]
        BY <1>1, <2>4
      <3> QED BY <2>3, <3>1, <3>2
    <2>5. poll # Idle => poll.f <= frame'[poll.s]
      <3> SUFFICES ASSUME poll # Idle PROVE poll.f <= frame'[poll.s]
        OBVIOUS
      <3>1. poll.s \in Streams /\ poll.f \in Nat
        BY <1>0 DEF Frame
      <3> QED BY <1>1, <2>3, <3>1
    <2> QED BY <1>0, <2>1, <2>2, <2>4, <2>5, OrderMoved
  <1>4. ASSUME NEW s \in Streams, ReadFrame(s) PROVE InOrder'
    <2>1. cmdq' = cmdq /\ poll = Idle /\ frame' = [frame EXCEPT ![s] = @ + 1]
      BY <1>4 DEF ReadFrame
    <2>2. poll' # Idle /\ poll'.s = s /\ poll'.f = frame[s] + 1
      BY <1>0, <1>4, TypesReadFrame
    <2>3. frame'[s] = frame[s] + 1 /\ \A t \in Streams : frame[t] <= frame'[t] /\ frame'[t] \in Nat
      BY <1>0, <2>1
    <2>4. \A i \in 1 .. Len(cmdq) : IsFrame(cmdq[i]) =>
            /\ cmdq[i].f <= frame'[cmdq[i].s]
            /\ s = cmdq[i].s => cmdq[i].f < frame[s] + 1
      <3> SUFFICES ASSUME NEW i \in 1 .. Len(cmdq), IsFrame(cmdq[i])
                   PROVE  /\ cmdq[i].f <= frame'[cmdq[i].s]
                          /\ s = cmdq[i].s => cmdq[i].f < frame[s] + 1
        OBVIOUS
      <3>1. cmdq[i].s \in Streams /\ cmdq[i].f \in Nat
        BY <1>0, CmdAt
      <3>2. cmdq[i].f <= frame[cmdq[i].s] /\ frame[cmdq[i].s] \in Nat
        BY <1>0, <1>1, <3>1
      <3> QED BY <2>3, <3>1, <3>2
    <2>5. poll'.f <= frame'[poll'.s]
      BY <1>0, <2>2, <2>3
    <2> QED BY <1>0, <2>1, <2>2, <2>4, <2>5 DEF InOrder, IsFrame
  <1>5. CASE HandleRcvdBuf
    <2>1. poll' = Idle /\ frame' = frame
      BY <1>5 DEF HandleRcvdBuf
    <2>2. /\ poll # Idle /\ Len(cmdq) \in Nat /\ Len(cmdq') = Len(cmdq) + 1
          /\ cmdq'[Len(cmdq) + 1].s = poll.s /\ cmdq'[Len(cmdq) + 1].f = poll.f
          /\ \A i \in 1 .. Len(cmdq) : cmdq'[i] = cmdq[i]
          /\ \A i \in 1 .. Len(cmdq') : i \in 1 .. Len(cmdq) \/ i = Len(cmdq) + 1
      BY <1>0, <1>5, HandleCmd
    <2>3. ASSUME NEW i \in 1 .. Len(cmdq'), cmdq'[i].cmd = "DATA_CB"
          PROVE  cmdq'[i].f <= frame[cmdq'[i].s]
      BY <1>0, <2>2, <2>3 DEF InOrder
    <2>4. ASSUME NEW i \in 1 .. Len(cmdq'), cmdq'[i].cmd = "DATA_CB", NEW j \in 1 .. Len(cmdq'),
                 i < j, cmdq'[j].cmd = "DATA_CB", cmdq'[j].s = cmdq'[i].s
          PROVE  cmdq'[i].f < cmdq'[j].f
      <3>1. i \in 1 .. Len(cmdq)
        BY <2>2, <2>4
      <3>2. CASE j \in 1 .. Len(cmdq)
        BY <1>0, <2>2, <2>4, <3>1, <3>2 DEF InOrder
      <3>3. CASE j = Len(cmdq) + 1
        BY <1>0, <2>2, <2>4, <3>1, <3>3 DEF InOrder
      <3> QED BY <2>2, <3>2, <3>3
    <2> QED BY <2>1, <2>3, <2>4 DEF InOrder
  <1>6. CASE StartStream
    <2> DEFINE t == StartOrder[api.at]
    <2>1. api.op = "start" /\ t \in Streams /\ state[t] = "REG" /\ cmdq' = cmdq /\ poll' = poll
          /\ frame' = [frame EXCEPT ![t] = 0]
      <3>1. api.op = "start" /\ api.at \in 1 .. Len(StartOrder) /\ ~(api.at < api.at)
        BY <1>0, <1>6, OrderOk DEF StartStream, Call
      <3>2. state[t] = "REG"
        BY <1>0, <3>1 DEF Phase
      <3> QED BY <1>6, <3>1, <3>2, OrderOk DEF StartStream
    <2> HIDE DEF t
    <2>2. \A b \in Bufs : <<t, b>> \notin Lent
      BY <1>0, <2>1 DEF Phase
    <2>3. \A s \in Streams : s # t => frame'[s] = frame[s]
      BY <1>0, <2>1
    <2>4. ASSUME NEW i \in 1 .. Len(cmdq), IsFrame(cmdq[i]) PROVE cmdq[i].f <= frame'[cmdq[i].s]
      <3>1. cmdq[i].s \in Streams /\ cmdq[i].b \in Bufs /\ <<cmdq[i].s, cmdq[i].b>> \in InCmds
        BY <1>0, <2>4, CmdAt
      <3>2. cmdq[i].s # t
        BY <2>2, <3>1 DEF Lent
      <3> QED BY <1>1, <2>3, <2>4, <3>1, <3>2
    <2>5. poll # Idle => poll.f <= frame'[poll.s]
      <3> SUFFICES ASSUME poll # Idle PROVE poll.f <= frame'[poll.s]
        OBVIOUS
      <3>1. poll.s \in Streams /\ poll.b \in Bufs
        BY <1>0 DEF Frame
      <3>2. <<poll.s, poll.b>> \in Lent
        BY DEF Lent, InPoll
      <3>3. poll.s # t
        BY <2>2, <3>1, <3>2
      <3> QED BY <1>1, <2>3, <3>1, <3>3
    <2>6. Moved
      BY <1>0, <2>1, MovedSame
    <2> QED BY <1>0, <2>1, <2>4, <2>5, <2>6, OrderMoved
  <1>7. CASE StopStream \/ UnregStream \/ Start
    BY <1>2, <1>7 DEF StopStream, UnregStream, Start, NotHandled, HalCalls, HalCallSteps, bufVars
  <1>8. CASE ProcessStreamBuf \/ DispatchSuperBuf \/ (\E s \in Streams : DispatchAppData(s)) \/ HalReturns
             \/ RequestSuperBuf \/ CancelSuperBuf \/ FlushSuperBufQueue \/ Stop \/ FlushDone
             \/ StopCmdThread \/ StopCbThread
    <2>1. NotHandled
      BY <1>8 DEF NotHandled, HalCalls, HalCallSteps
    <2>2. Quiet
      BY <1>0, <1>8, QuietActions
    <2> QED BY <1>2, <2>1, <2>2 DEF Quiet
  <1> QED BY <1>3, <1>4, <1>5, <1>6, <1>7, <1>8 DEF Next, Hardware, Threads, HalCalls, HalCallSteps

-----------------------------------------------------------------------------
(* The queue of super buffers, step by step. *)

LEMMA QueuePrime ==
  ASSUME attr' = attr, QueueOk(ch', Passed')
  PROVE  QueueOk(ch, Passed)'
  <1>1. MatchedPrefix(ch)' /\ Once(ch.queue)' /\ SlotsPassed(ch.queue, Passed)'
    BY DEF QueueOk, MatchedPrefix, Once, SlotsPassed
  <1>2. Low' <=> Low
    BY DEF Low
  <1>3. (\A i \in 1 .. Len(ch.queue) : NodeOk(ch.queue[i]))'
    <2>1. \A i \in 1 .. Len(ch'.queue) : NodeOk(ch'.queue[i])
      BY DEF QueueOk
    <2> QED BY <1>2, <2>1 DEF NodeOk
  <1>4. Ordered(ch.queue, Passed)'
    <2>1. Ordered(ch'.queue, Passed')
      BY DEF QueueOk
    <2> QED BY <1>2, <2>1 DEF Ordered, Missed
  <1>5. Bounded(ch)'
    BY DEF QueueOk, Bounded
  <1>6. (ch \in Channel)'
    BY DEF QueueOk
  <1> QED BY <1>1, <1>3, <1>4, <1>5, <1>6 DEF QueueOk

LEMMA AttrSame ==
  ASSUME Next
  PROVE  /\ attr' = attr /\ ~crashed
         /\ ProcessStreamBuf \/ StartStream \/ StopCbThread \/ ch' = ch
  <1>1. ~crashed
    BY DEF Next
  <1>2. CASE Hardware
    BY <1>1, <1>2 DEF Hardware, DropFrame, ReadFrame, chanVars
  <1>3. CASE Threads
    <2>1. CASE ProcessStreamBuf
      BY <1>1, <2>1, ThreadStep
    <2>2. CASE HandleRcvdBuf \/ DispatchSuperBuf \/ \E s \in Streams : DispatchAppData(s)
      BY <1>1, <2>2 DEF HandleRcvdBuf, DispatchSuperBuf, DispatchAppData, chanVars
    <2> QED BY <1>3, <2>1, <2>2 DEF Threads
  <1>4. CASE HalReturns
    BY <1>1, <1>4 DEF HalReturns, ReturnHal, ReturnApp, chanVars
  <1>5. CASE HalCalls
    BY <1>1, <1>5 DEF HalCalls, RequestSuperBuf, CancelSuperBuf, FlushSuperBufQueue, Start, Stop
  <1>6. CASE HalCallSteps
    BY <1>1, <1>6 DEF HalCallSteps, FlushDone, StartStream, StopStream, UnregStream, StopCmdThread,
                      StopCbThread
  <1> QED BY <1>2, <1>3, <1>4, <1>5, <1>6 DEF Next

LEMMA NextCases ==
  ASSUME Next
  PROVE  \/ Hardware \/ HandleRcvdBuf \/ ProcessStreamBuf \/ DispatchSuperBuf
         \/ (\E s \in Streams : DispatchAppData(s)) \/ HalReturns \/ RequestSuperBuf \/ CancelSuperBuf
         \/ FlushSuperBufQueue \/ FlushDone \/ Start \/ Stop \/ StartStream \/ StopStream \/ UnregStream
         \/ StopCmdThread \/ StopCbThread
  BY DEF Next, Threads, HalCalls, HalCallSteps

(* When the channel is to be started nothing is left in it.                 *)
LEMMA StartEmpty ==
  ASSUME Inv, Next, Start
  PROVE  /\ ch.queue = <<>> /\ ch.match_cnt = 0 /\ cmdq = <<>> /\ cbq = <<>> /\ AllIn("REG")
         /\ Lent = {} /\ LentApp = {}
  <1>1. api.op = "none" /\ ~alive /\ ~crashed /\ hal = {} /\ app = {} /\ poll = Idle
    BY AttrSame DEF Start
  <1>2. AllIn("REG") /\ ch.queue = <<>> /\ cmdq = <<>> /\ cbq = <<>>
        /\ \A s \in Streams : strq[s] = <<>>
    BY <1>1 DEF Inv, Phase, AllIn
  <1>3. ch.match_cnt = 0
    <2>1. ch.match_cnt \in Nat /\ ch.match_cnt <= Len(ch.queue)
      BY DEF Inv, QueueOk, Channel, MatchedPrefix
    <2>2. Len(ch.queue) = 0
      BY <1>2
    <2> QED BY <2>1, <2>2
  <1>4. InPoll = {} /\ InPollApp = {}
    BY <1>1 DEF InPoll, InPollApp
  <1>5. InCmds = {}
    BY <1>2 DEF InCmds
  <1>6. InQueue = {}
    BY <1>2, HeldInEmpty DEF InQueue, HeldIn
  <1>7. InSupers = {}
    BY <1>2 DEF InSupers
  <1>8. InThreads = {}
    <2>1. \A p \in Pairs : p[1] \in Streams
      BY DEF Pairs
    <2>2. \A p \in Pairs : Len(strq[p[1]]) = 0
      BY <1>2, <2>1
    <2> QED BY <2>2 DEF InThreads
  <1> QED BY <1>1, <1>2, <1>3, <1>4, <1>5, <1>6, <1>7, <1>8 DEF Lent, LentApp

LEMMA QueueStep ==
  ASSUME Inv, Next
  PROVE  QueueOk(ch, Passed)'
  <1>0. TypesOk /\ Phase /\ QueueOk(ch, Passed) /\ attr \in Attrs /\ ch \in Channel
    BY DEF Inv, TypesOk
  <1>1. attr' = attr
    BY AttrSame
  <1> SUFFICES QueueOk(ch', Passed')
    BY <1>1, QueuePrime
  <1>2. CASE ProcessStreamBuf
    BY <1>2, TurnStep DEF Turn
  <1>3. CASE Start
    <2>1. ch' = ch /\ ch.queue = <<>> /\ ch.match_cnt = 0
      BY <1>3, StartEmpty DEF Start
    <2> QED BY <1>0, <2>1, EmptyOk
  <1>4. CASE StopCbThread
    <2>1. ch' = EmptyQueue(ch)
      BY <1>4 DEF StopCbThread
    <2> QED BY <1>0, <2>1, EmptyQueueTypes, EmptyOk
  <1>5. CASE StartStream
    <2>1. Passed \subseteq Passed'
      <3>1. ~Start
        BY <1>5 DEF Start, StartStream
      <3> QED BY <1>0, <3>1, PassedGrows
    <2>2. QueueOk(ch, Passed')
      BY <1>0, <2>1, QueueMonotone
    <2>3. ch' \in Channel /\ ch'.queue = ch.queue /\ ch'.match_cnt = ch.match_cnt
      <3>1. ch' \in {ch, [ch EXCEPT !.bWaitForPrepSnapshotDone = FALSE]}
        BY <1>5, Zenon DEF StartStream
      <3> DEFINE d == [ch EXCEPT !.bWaitForPrepSnapshotDone = FALSE]
      <3>2. d \in Channel /\ d.queue = ch.queue /\ d.match_cnt = ch.match_cnt
        BY <1>0 DEF Channel
      <3>3. ch' \in {ch, d}
        BY <3>1
      <3> HIDE DEF d
      <3> QED BY <1>0, <3>2, <3>3
    <2>4. StepOk(ch, result(ch', {}, FALSE), Passed', {})
      BY <2>2, <2>3, NoStep
    <2> QED BY <2>4 DEF StepOk, result
  <1>6. CASE ch' = ch /\ ~Start
    <2>1. Passed \subseteq Passed'
      BY <1>0, <1>6, PassedGrows
    <2>2. QueueOk(ch, Passed')
      BY <1>0, <2>1, QueueMonotone
    <2> QED BY <1>6, <2>2
  <1> QED BY <1>2, <1>3, <1>4, <1>5, <1>6, AttrSame

-----------------------------------------------------------------------------
(* The places of a buffer, step by step. *)

LEMMA KeptStep ==
  ASSUME Inv, Next
  PROVE  Kept'
  <1>0. TypesOk /\ Phase /\ QueueOk(ch, Passed) /\ Kept /\ ch \in Channel
    BY DEF Inv, TypesOk
  <1>1. attr' = attr
    BY AttrSame
  <1> SUFFICES KeptIn(ch')
    BY <1>1 DEF Kept, KeptIn, Burst
  <1>2. KeptIn(ch)
    BY <1>0 DEF Kept, KeptIn
  <1>3. CASE ProcessStreamBuf
    BY <1>3, TurnStep DEF Turn
  <1>4. CASE StopCbThread
    <2>1. ch'.match_cnt = 0
      BY <1>0, <1>4, EmptyQueueTypes DEF StopCbThread
    <2>2. attr.water_mark \in Nat
      BY <1>0, AttrTypes DEF TypesOk
    <2> QED BY <2>1, <2>2 DEF KeptIn
  <1>5. CASE StartStream
    <2> DEFINE t == StartOrder[api.at]
    <2>1. api.op = "start" /\ t \in Streams /\ state[t] = "REG"
      <3>1. api.op = "start" /\ api.at \in 1 .. Len(StartOrder) /\ ~(api.at < api.at)
        BY <1>0, <1>5, OrderOk DEF StartStream, TypesOk, Call
      <3>2. state[t] = "REG"
        BY <1>0, <3>1 DEF Phase
      <3> QED BY <3>1, <3>2, OrderOk
    <2> HIDE DEF t
    <2>2. ch.match_cnt = 0
      <3> SUFFICES ASSUME ch.match_cnt # 0 PROVE FALSE
        OBVIOUS
      <3>1. ch.match_cnt \in 0 .. Len(ch.queue) /\ Len(ch.queue) \in Nat
        BY <1>0, UnmatchedOf
      <3>2. 1 \in 1 .. ch.match_cnt /\ 1 \in 1 .. Len(ch.queue)
        BY <3>1
      <3>3. SuperOk(ch.queue[1].slot) /\ ch.queue[1].slot[t].frame_idx # 0
        BY <1>0, <2>1, <3>2, MatchedIsSuper
      <3>4. ch.queue[1].slot[t].buf \in Bufs
        BY <2>1, <3>3 DEF SuperOk
      <3> DEFINE p == <<t, ch.queue[1].slot[t].buf>>
      <3>5. p \in Streams \X Bufs /\ p[1] = t /\ p[2] = ch.queue[1].slot[t].buf
        BY <2>1, <3>4
      <3> HIDE DEF p
      <3>6. p \in InQueue
        BY <3>2, <3>3, <3>5 DEF InQueue, buffersOf
      <3>7. p \in Lent
        BY <3>6 DEF Lent
      <3> QED BY <1>0, <2>1, <3>4, <3>7 DEF Phase, p
    <2>3. ch'.match_cnt = ch.match_cnt
      <3>1. ch' \in {ch, [ch EXCEPT !.bWaitForPrepSnapshotDone = FALSE]}
        BY <1>5, Zenon DEF StartStream
      <3> QED BY <1>0, <3>1 DEF Channel
    <2>4. attr.water_mark \in Nat
      BY <1>0, AttrTypes DEF TypesOk
    <2> QED BY <2>2, <2>3, <2>4 DEF KeptIn
  <1>6. CASE ch' = ch
    BY <1>2, <1>6
  <1> QED BY <1>3, <1>4, <1>5, <1>6, AttrSame

LEMMA UniqueCmdsMoved ==
  ASSUME UniqueCmds, Moved
  PROVE  UniqueCmds'
  <1>1. PICK k \in {0, 1} : Shifted(k)
    BY DEF Moved
  <1>2. ASSUME NEW i \in 1 .. Len(cmdq'), NEW j \in 1 .. Len(cmdq'),
               cmdq'[i].cmd = "DATA_CB", cmdq'[j].cmd = "DATA_CB", cmdq'[i].s = cmdq'[j].s,
               cmdq'[i].b = cmdq'[j].b
        PROVE  i = j
    <2> DEFINE a == i + k
               b == j + k
    <2>1. a \in 1 .. Len(cmdq) /\ b \in 1 .. Len(cmdq) /\ cmdq'[i] = cmdq[a] /\ cmdq'[j] = cmdq[b]
      BY <1>1, <1>2 DEF Shifted, IsFrame
    <2> HIDE DEF a, b
    <2>2. a = b
      BY <1>2, <2>1 DEF UniqueCmds
    <2> QED BY <2>2 DEF a, b
  <1> QED BY <1>2 DEF UniqueCmds

LEMMA InCmdsTail ==
  ASSUME cmdq \in Seq(Cmd), cmdq # <<>>, cmdq' = Tail(cmdq), UniqueCmds
  PROVE  InCmds' = InCmds \ Brings(Head(cmdq)) /\ Brings(Head(cmdq)) \subseteq InCmds
  <1> DEFINE m == Head(cmdq)
  <1>1. /\ Len(cmdq) \in Nat \ {0} /\ m = cmdq[1]
        /\ \A i \in 1 .. Len(cmdq') : i + 1 \in 2 .. Len(cmdq) /\ cmdq'[i] = cmdq[i + 1]
        /\ \A i \in 2 .. Len(cmdq) : i - 1 \in 1 .. Len(cmdq') /\ cmdq'[i - 1] = cmdq[i]
    BY MovedTail
  <1>2. 1 \in 1 .. Len(cmdq) /\ \A i \in 1 .. Len(cmdq) : i # 1 <=> i \in 2 .. Len(cmdq)
    BY <1>1
  <1> HIDE DEF m
  <1>3. IsFrame(m) => m.cmd = "DATA_CB" /\ <<m.s, m.b>> \in InCmds
    BY <1>1, <1>2, CmdAt
  <1>4. \A p \in Pairs : p \in InCmds' <=> \E i \in 2 .. Len(cmdq) :
          cmdq[i].cmd = "DATA_CB" /\ cmdq[i].s = p[1] /\ cmdq[i].b = p[2]
    <2> SUFFICES ASSUME NEW p \in Pairs
                 PROVE  p \in InCmds' <=> \E i \in 2 .. Len(cmdq) :
                   cmdq[i].cmd = "DATA_CB" /\ cmdq[i].s = p[1] /\ cmdq[i].b = p[2]
      OBVIOUS
    <2>1. p \in InCmds' <=> \E i \in 1 .. Len(cmdq') :
            cmdq'[i].cmd = "DATA_CB" /\ cmdq'[i].s = p[1] /\ cmdq'[i].b = p[2]
      BY DEF InCmds
    <2>2. ASSUME NEW i \in 1 .. Len(cmdq'), cmdq'[i].cmd = "DATA_CB", cmdq'[i].s = p[1],
                 cmdq'[i].b = p[2]
          PROVE  \E j \in 2 .. Len(cmdq) :
                   cmdq[j].cmd = "DATA_CB" /\ cmdq[j].s = p[1] /\ cmdq[j].b = p[2]
      <3> DEFINE j == i + 1
      <3>1. j \in 2 .. Len(cmdq) /\ cmdq'[i] = cmdq[j]
        BY <1>1
      <3> HIDE DEF j
      <3> QED BY <2>2, <3>1
    <2>3. ASSUME NEW i \in 2 .. Len(cmdq), cmdq[i].cmd = "DATA_CB", cmdq[i].s = p[1],
                 cmdq[i].b = p[2]
          PROVE  \E j \in 1 .. Len(cmdq') :
                   cmdq'[j].cmd = "DATA_CB" /\ cmdq'[j].s = p[1] /\ cmdq'[j].b = p[2]
      <3> DEFINE j == i - 1
      <3>1. j \in 1 .. Len(cmdq') /\ cmdq'[j] = cmdq[i]
        BY <1>1
      <3> HIDE DEF j
      <3> QED BY <2>3, <3>1
    <2> QED BY <2>1, <2>2, <2>3
  <1>5. \A p \in Pairs : p \in InCmds <=> \E i \in 1 .. Len(cmdq) :
          cmdq[i].cmd = "DATA_CB" /\ cmdq[i].s = p[1] /\ cmdq[i].b = p[2]
    BY DEF InCmds
  <1>6. \A p \in Pairs : p \in Brings(m) <=> m.cmd = "DATA_CB" /\ m.s = p[1] /\ m.b = p[2]
    BY DEF Brings, IsFrame, Pairs
  <1>7. ASSUME NEW p \in Pairs
        PROVE  p \in InCmds' <=> p \in InCmds /\ p \notin Brings(m)
    <2>1. ASSUME NEW i \in 2 .. Len(cmdq), cmdq[i].cmd = "DATA_CB", cmdq[i].s = p[1],
                 cmdq[i].b = p[2], p \in Brings(m)
          PROVE  FALSE
      <3>1. i \in 1 .. Len(cmdq) /\ i # 1
        BY <1>2
      <3> QED BY <1>1, <1>2, <1>6, <2>1, <3>1 DEF UniqueCmds
    <2>2. ASSUME NEW i \in 1 .. Len(cmdq), cmdq[i].cmd = "DATA_CB", cmdq[i].s = p[1],
                 cmdq[i].b = p[2], p \notin Brings(m)
          PROVE  i \in 2 .. Len(cmdq)
      BY <1>1, <1>2, <1>6, <2>2
    <2>3. p \in InCmds' => p \in InCmds /\ p \notin Brings(m)
      BY <1>2, <1>4, <1>5, <2>1
    <2>4. p \in InCmds /\ p \notin Brings(m) => p \in InCmds'
      BY <1>4, <1>5, <2>2
    <2> QED BY <2>3, <2>4
  <1>8. InCmds \subseteq Pairs /\ InCmds' \subseteq Pairs
    BY DEF InCmds
  <1>9. InCmds' = InCmds \ Brings(m)
    BY <1>7, <1>8
  <1>10. Brings(m) \subseteq InCmds
    BY <1>3 DEF Brings
  <1> QED BY <1>9, <1>10 DEF m

LEMMA InCmdsHandle ==
  ASSUME TypesOk, HandleRcvdBuf, UniqueCmds, InPoll \cap InCmds = {}
  PROVE  InCmds' = InCmds \cup InPoll /\ UniqueCmds' /\ InPoll = {<<poll.s, poll.b>>}
         /\ poll.s \in Streams /\ poll.b \in Bufs
  <1> DEFINE n == Len(cmdq) + 1
  <1>1. /\ poll \in Frame /\ poll # Idle /\ Len(cmdq) \in Nat /\ Len(cmdq') = n
        /\ cmdq'[n].s = poll.s /\ cmdq'[n].b = poll.b /\ cmdq'[n].cmd = "DATA_CB"
        /\ \A i \in 1 .. Len(cmdq) : cmdq'[i] = cmdq[i]
        /\ \A i \in 1 .. Len(cmdq') : i \in 1 .. Len(cmdq) \/ i = n
    BY HandleCmd
  <1>2. n \in 1 .. Len(cmdq') /\ \A i \in 1 .. Len(cmdq) : i \in 1 .. Len(cmdq')
    BY <1>1
  <1> HIDE DEF n
  <1>3. poll.s \in Streams /\ poll.b \in Bufs /\ InPoll = {<<poll.s, poll.b>>}
    BY <1>1 DEF Frame, InPoll
  <1>4. \A p \in Pairs : p \in InCmds <=> \E i \in 1 .. Len(cmdq) :
          cmdq[i].cmd = "DATA_CB" /\ cmdq[i].s = p[1] /\ cmdq[i].b = p[2]
    BY DEF InCmds
  <1>5. \A p \in Pairs : p \in InCmds' <=> \E i \in 1 .. Len(cmdq') :
          cmdq'[i].cmd = "DATA_CB" /\ cmdq'[i].s = p[1] /\ cmdq'[i].b = p[2]
    BY DEF InCmds
  <1>6. \A p \in Pairs : p \in InPoll <=> poll.s = p[1] /\ poll.b = p[2]
    BY <1>3 DEF Pairs
  <1>7. InCmds' = InCmds \cup InPoll
    <2>1. \A p \in Pairs : p \in InCmds' <=> p \in InCmds \/ p \in InPoll
      BY <1>1, <1>2, <1>4, <1>5, <1>6
    <2>2. InCmds \subseteq Pairs /\ InCmds' \subseteq Pairs /\ InPoll \subseteq Pairs
      BY <1>3 DEF InCmds, Pairs
    <2> QED BY <2>1, <2>2
  <1>8. ASSUME NEW i \in 1 .. Len(cmdq), cmdq[i].cmd = "DATA_CB", cmdq[i].s = poll.s,
               cmdq[i].b = poll.b
        PROVE  FALSE
    <2>1. <<poll.s, poll.b>> \in Pairs
      BY <1>3 DEF Pairs
    <2>2. <<poll.s, poll.b>> \in InCmds
      BY <1>4, <1>8, <2>1
    <2> QED BY <1>3, <2>2
  <1>9. UniqueCmds'
    <2> SUFFICES ASSUME NEW i \in 1 .. Len(cmdq'), NEW j \in 1 .. Len(cmdq'),
               cmdq'[i].cmd = "DATA_CB", cmdq'[j].cmd = "DATA_CB", cmdq'[i].s = cmdq'[j].s,
               cmdq'[i].b = cmdq'[j].b
                 PROVE  i = j
      BY DEF UniqueCmds
    <2>1. (i \in 1 .. Len(cmdq) \/ i = n) /\ (j \in 1 .. Len(cmdq) \/ j = n)
      BY <1>1
    <2>2. CASE i \in 1 .. Len(cmdq) /\ j \in 1 .. Len(cmdq)
      BY <1>1, <2>2 DEF UniqueCmds
    <2>3. CASE i \in 1 .. Len(cmdq) /\ j = n
      BY <1>1, <1>8, <2>3
    <2>4. CASE i = n /\ j \in 1 .. Len(cmdq)
      BY <1>1, <1>8, <2>4
    <2> QED BY <2>1, <2>2, <2>3, <2>4
  <1> QED BY <1>3, <1>7, <1>9

(* A step that moves no buffer.                                             *)
Unmoved ==
  /\ attr' = attr /\ poll' = poll /\ InCmds' = InCmds /\ UniqueCmds' /\ ch'.queue = ch.queue
  /\ cbq' = cbq /\ strq' = strq /\ hal' = hal /\ app' = app

LEMMA UnmovedPlaces ==
  ASSUME Unmoved, OnePlace, Supers
  PROVE  OnePlace' /\ Supers' /\ Lent' = Lent /\ LentApp' = LentApp
  <1>1. InPoll' = InPoll /\ InPollApp' = InPollApp
    BY DEF Unmoved, InPoll, InPollApp
  <1>2. InQueue' = InQueue
    BY DEF Unmoved, InQueue, buffersOf
  <1>3. InSupers' = InSupers /\ UniqueSupers'
    BY DEF Unmoved, InSupers, OnePlace, UniqueSupers
  <1>4. InThreads' = InThreads /\ UniqueThreads'
    BY DEF Unmoved, InThreads, OnePlace, UniqueThreads
  <1>5. Disjoint'
    BY <1>1, <1>2, <1>3, <1>4 DEF Unmoved, OnePlace, Disjoint
  <1>6. Supers'
    BY DEF Unmoved, Supers, SuperOk, Low
  <1>7. Lent' = Lent /\ LentApp' = LentApp
    BY <1>1, <1>2, <1>3, <1>4 DEF Unmoved, Lent, LentApp
  <1> QED BY <1>3, <1>4, <1>5, <1>6, <1>7 DEF Unmoved, OnePlace

(* A command of the HAL is no frame.                                        *)
LEMMA PostedPlaces ==
  ASSUME cmdq \in Seq(Cmd), UniqueCmds,
         \/ cmdq' = cmdq
         \/ \E x \in Cmd : ~IsFrame(x) /\ cmdq' = Append(cmdq, x)
  PROVE  InCmds' = InCmds /\ UniqueCmds'
  <1>1. CASE cmdq' = cmdq
    BY <1>1 DEF InCmds, UniqueCmds
  <1>2. CASE \E x \in Cmd : ~IsFrame(x) /\ cmdq' = Append(cmdq, x)
    <2>1. InCmds' = InCmds /\ Moved
      BY <1>2, MovedPost
    <2> QED BY <2>1, UniqueCmdsMoved
  <1> QED BY <1>1, <1>2

Steady ==
  \/ (\E s \in Streams : DropFrame(s)) \/ RequestSuperBuf \/ CancelSuperBuf \/ FlushSuperBufQueue
  \/ FlushDone \/ Start \/ Stop \/ StartStream \/ StopStream \/ UnregStream \/ StopCmdThread

LEMMA SteadyUnmoved ==
  ASSUME Inv, Steady
  PROVE  Unmoved
  <1>1. cmdq \in Seq(Cmd) /\ UniqueCmds
    BY DEF Inv, TypesOk, OnePlace
  <1>2. \/ cmdq' = cmdq
        \/ \E x \in Cmd : ~IsFrame(x) /\ cmdq' = Append(cmdq, x)
    <2>1. CASE RequestSuperBuf
      <3>1. PICK r \in Requests : cmdq' = Append(cmdq, [cmd |-> "REQ_DATA_CB", n |-> r[1], retro |-> r[2]])
        BY <2>1 DEF RequestSuperBuf, post
      <3>2. r \in Nat \X Nat
        BY ChannelAssumption
      <3> DEFINE x == [cmd |-> "REQ_DATA_CB", n |-> r[1], retro |-> r[2]]
      <3>3. x \in Cmd /\ ~IsFrame(x)
        BY <3>2 DEF Cmd, IsFrame
      <3>4. cmdq' = Append(cmdq, x)
        BY <3>1
      <3> HIDE DEF x
      <3> QED BY <3>3, <3>4
    <2>2. CASE CancelSuperBuf
      <3> DEFINE x == [cmd |-> "REQ_DATA_CB", n |-> 0, retro |-> 0]
      <3>3. x \in Cmd /\ ~IsFrame(x)
        BY DEF Cmd, IsFrame
      <3>4. cmdq' = Append(cmdq, x)
        BY <2>2 DEF CancelSuperBuf, post
      <3> HIDE DEF x
      <3> QED BY <3>3, <3>4
    <2>3. CASE FlushSuperBufQueue
      <3>1. PICK f \in FlushTo : cmdq' = Append(cmdq, [cmd |-> "FLUSH_QUEUE", frame_idx |-> f])
        BY <2>3 DEF FlushSuperBufQueue, post
      <3>2. f \in Nat
        BY ChannelAssumption
      <3> DEFINE x == [cmd |-> "FLUSH_QUEUE", frame_idx |-> f]
      <3>3. x \in Cmd /\ ~IsFrame(x)
        BY <3>2 DEF Cmd, IsFrame
      <3>4. cmdq' = Append(cmdq, x)
        BY <3>1
      <3> HIDE DEF x
      <3> QED BY <3>3, <3>4
    <2>4. CASE UnregStream
      <3> DEFINE x == [cmd |-> "FLUSH_QUEUE", frame_idx |-> 0]
      <3>3. x \in Cmd /\ ~IsFrame(x)
        BY DEF Cmd, IsFrame
      <3>4. cmdq' = cmdq \/ cmdq' = Append(cmdq, x)
        BY <2>4 DEF UnregStream, post
      <3> HIDE DEF x
      <3> QED BY <3>3, <3>4
    <2>5. CASE ~(RequestSuperBuf \/ CancelSuperBuf \/ FlushSuperBufQueue \/ UnregStream)
      BY <2>5 DEF Steady, DropFrame, FlushDone, Start, Stop, StartStream, StopStream, StopCmdThread,
                  chanVars
    <2> QED BY <2>1, <2>2, <2>3, <2>4, <2>5
  <1>3. InCmds' = InCmds /\ UniqueCmds'
    BY <1>1, <1>2, PostedPlaces
  <1>4. /\ attr' = attr /\ poll' = poll
        /\ cbq' = cbq /\ strq' = strq /\ hal' = hal /\ app' = app
    BY DEF Steady, DropFrame, RequestSuperBuf, CancelSuperBuf, FlushSuperBufQueue, FlushDone, Start, Stop,
           StartStream, StopStream, UnregStream, StopCmdThread, chanVars, bufVars
  <1>5. ch'.queue = ch.queue
    <2>1. CASE StartStream
      <3>1. ch' = ch \/ ch' = [ch EXCEPT !.bWaitForPrepSnapshotDone = FALSE]
        BY <2>1, Zenon DEF StartStream
      <3> QED BY <3>1 DEF Inv, TypesOk, Channel
    <2>2. CASE ~StartStream
      <3>1. ch' = ch
        BY <2>2 DEF Steady, DropFrame, RequestSuperBuf, CancelSuperBuf, FlushSuperBufQueue, FlushDone,
           Start, Stop, StopStream, UnregStream, StopCmdThread, chanVars, bufVars
      <3> QED BY <3>1
    <2> QED BY <2>1, <2>2
  <1> QED BY <1>3, <1>4, <1>5 DEF Unmoved

LEMMA TailAt ==
  ASSUME NEW S, NEW q \in Seq(S), q # <<>>
  PROVE  /\ Len(q) \in Nat \ {0} /\ 1 \in 1 .. Len(q) /\ Head(q) = q[1] /\ Tail(q) \in Seq(S)
         /\ \A i \in 1 .. Len(Tail(q)) : i + 1 \in 2 .. Len(q) /\ Tail(q)[i] = q[i + 1]
         /\ \A i \in 2 .. Len(q) : i - 1 \in 1 .. Len(Tail(q)) /\ Tail(q)[i - 1] = q[i]
         /\ \A i \in 1 .. Len(q) : i # 1 <=> i \in 2 .. Len(q)
  <1>1. /\ Len(q) \in Nat \ {0} /\ 1 \in 1 .. Len(q) /\ Head(q) = q[1] /\ Tail(q) \in Seq(S)
        /\ Len(Tail(q)) = Len(q) - 1 /\ \A i \in 1 .. Len(q) : i # 1 <=> i \in 2 .. Len(q)
    OBVIOUS
  <1>2. \A i \in 1 .. Len(Tail(q)) : i + 1 \in 2 .. Len(q) /\ Tail(q)[i] = q[i + 1]
    BY <1>1
  <1>3. ASSUME NEW i \in 2 .. Len(q)
        PROVE  i - 1 \in 1 .. Len(Tail(q)) /\ Tail(q)[i - 1] = q[i]
    <2> DEFINE j == i - 1
    <2>1. j \in 1 .. Len(Tail(q)) /\ j + 1 = i
      BY <1>1
    <2> HIDE DEF j
    <2>2. Tail(q)[j] = q[i]
      BY <1>2, <2>1
    <2> QED BY <2>1, <2>2 DEF j
  <1> QED BY <1>1, <1>2, <1>3

(* The buffers of the super buffer at the head.                             *)
HeadBuffers == {p \in Pairs : Head(cbq).slot[p[1]].buf = p[2]}

LEMMA InSupersTail ==
  ASSUME cbq \in Seq(Super), cbq # <<>>, cbq' = Tail(cbq), UniqueSupers, Supers, attr' = attr
  PROVE  /\ UniqueSupers' /\ Supers'
         /\ InSupers' = InSupers \ HeadBuffers /\ HeadBuffers \subseteq InSupers
         /\ HeadBuffers = {<<s, Head(cbq).slot[s].buf>> : s \in Streams}
  <1>1. /\ Len(cbq) \in Nat \ {0} /\ 1 \in 1 .. Len(cbq) /\ Head(cbq) = cbq[1]
        /\ \A i \in 1 .. Len(cbq') : i + 1 \in 2 .. Len(cbq) /\ cbq'[i] = cbq[i + 1]
        /\ \A i \in 2 .. Len(cbq) : i - 1 \in 1 .. Len(cbq') /\ cbq'[i - 1] = cbq[i]
        /\ \A i \in 1 .. Len(cbq) : i # 1 <=> i \in 2 .. Len(cbq)
        /\ \A i \in 2 .. Len(cbq) : i \in 1 .. Len(cbq)
    BY TailAt
  <1>2. UniqueSupers'
    <2> SUFFICES ASSUME NEW i \in 1 .. Len(cbq'), NEW j \in 1 .. Len(cbq'), NEW s \in Streams,
                        cbq'[i].slot[s].buf = cbq'[j].slot[s].buf
                 PROVE  i = j
      BY DEF UniqueSupers
    <2> DEFINE a == i + 1
               b == j + 1
    <2>1. a \in 1 .. Len(cbq) /\ b \in 1 .. Len(cbq) /\ cbq'[i] = cbq[a] /\ cbq'[j] = cbq[b]
      BY <1>1
    <2> HIDE DEF a, b
    <2>2. a = b
      BY <2>1 DEF UniqueSupers
    <2> QED BY <2>2 DEF a, b
  <1>3. Supers'
    <2>1. ASSUME NEW i \in 1 .. Len(cbq') PROVE SuperOk(cbq'[i].slot)
      <3> DEFINE a == i + 1
      <3>1. a \in 1 .. Len(cbq) /\ cbq'[i] = cbq[a]
        BY <1>1
      <3> HIDE DEF a
      <3> QED BY <3>1 DEF Supers
    <2> QED BY <2>1 DEF Supers, SuperOk, Low
  <1>4. \A s \in Streams : Head(cbq).slot[s].buf \in Bufs
    BY <1>1 DEF Supers, SuperOk
  <1>5. ASSUME NEW p \in Pairs
        PROVE  p \in InSupers' <=> p \in InSupers /\ p \notin HeadBuffers
    <2>1. p[1] \in Streams
      BY DEF Pairs
    <2>2. p \in InSupers' => \E i \in 2 .. Len(cbq) : cbq[i].slot[p[1]].buf = p[2]
      <3> SUFFICES ASSUME p \in InSupers'
                   PROVE  \E i \in 2 .. Len(cbq) : cbq[i].slot[p[1]].buf = p[2]
        OBVIOUS
      <3>1. PICK i \in 1 .. Len(cbq') : cbq'[i].slot[p[1]].buf = p[2]
        BY DEF InSupers
      <3> DEFINE a == i + 1
      <3>2. a \in 2 .. Len(cbq) /\ cbq'[i] = cbq[a]
        BY <1>1
      <3> HIDE DEF a
      <3> QED BY <3>1, <3>2
    <2>3. ASSUME NEW i \in 2 .. Len(cbq), cbq[i].slot[p[1]].buf = p[2]
          PROVE  p \in InSupers' /\ p \in InSupers /\ p \notin HeadBuffers
      <3>1. p \in InSupers
        BY <1>1, <2>3 DEF InSupers
      <3>2. p \notin HeadBuffers
        <4>1. i \in 1 .. Len(cbq) /\ i # 1
          BY <1>1
        <4>2. ~(cbq[1].slot[p[1]].buf = p[2])
          BY <1>1, <2>1, <2>3, <4>1 DEF UniqueSupers
        <4> QED BY <1>1, <4>2 DEF HeadBuffers
      <3> DEFINE j == i - 1
      <3>3. j \in 1 .. Len(cbq') /\ cbq'[j] = cbq[i]
        BY <1>1
      <3> HIDE DEF j
      <3>4. p \in InSupers'
        BY <2>3, <3>3 DEF InSupers
      <3> QED BY <3>1, <3>2, <3>4
    <2>4. ASSUME p \in InSupers, p \notin HeadBuffers
          PROVE  p \in InSupers'
      <3>1. PICK i \in 1 .. Len(cbq) : cbq[i].slot[p[1]].buf = p[2]
        BY <2>4 DEF InSupers
      <3>2. i # 1
        BY <1>1, <2>4, <3>1 DEF HeadBuffers
      <3> QED BY <1>1, <2>3, <3>1, <3>2
    <2> QED BY <2>2, <2>3, <2>4
  <1>6. InSupers' \subseteq Pairs /\ InSupers \subseteq Pairs
    BY DEF InSupers
  <1>7. InSupers' = InSupers \ HeadBuffers
    BY <1>5, <1>6
  <1>8. HeadBuffers \subseteq InSupers
    BY <1>1 DEF HeadBuffers, InSupers
  <1>9. HeadBuffers = {<<s, Head(cbq).slot[s].buf>> : s \in Streams}
    BY <1>4 DEF HeadBuffers, Pairs
  <1> QED BY <1>2, <1>3, <1>7, <1>8, <1>9

LEMMA ConcatLen ==
  ASSUME NEW S, NEW q \in Seq(S), NEW u \in Seq(S)
  PROVE  q \o u \in Seq(S) /\ Len(q \o u) = Len(q) + Len(u)
  OBVIOUS

(* The first n nodes of c become super buffers.                             *)
MadeOf(u, c, n) ==
  /\ Len(u) = n
  /\ \A i \in 1 .. n : u[i].slot = c.queue[i].slot /\ SuperOk(c.queue[i].slot)
  /\ \A i, j \in 1 .. n : \A s \in Streams :
       c.queue[i].slot[s].buf = c.queue[j].slot[s].buf => i = j

LEMMA InSupersMore ==
  ASSUME cbq \in Seq(Super), NEW u \in Seq(Super), NEW c, NEW n \in Nat, MadeOf(u, c, n),
         cbq' = cbq \o u, UniqueSupers, Supers, attr' = attr, Sent(c, n) \cap InSupers = {}
  PROVE  UniqueSupers' /\ Supers' /\ InSupers' = InSupers \cup Sent(c, n)
  <1>0. /\ Len(u) = n
        /\ \A i \in 1 .. n : u[i].slot = c.queue[i].slot /\ SuperOk(c.queue[i].slot)
        /\ \A i, j \in 1 .. n : \A s \in Streams :
             c.queue[i].slot[s].buf = c.queue[j].slot[s].buf => i = j
    BY DEF MadeOf
  <1> DEFINE L == Len(cbq)
  <1>1. /\ L \in Nat /\ Len(cbq') = L + n
        /\ \A i \in 1 .. L : i \in 1 .. Len(cbq') /\ cbq'[i] = cbq[i]
        /\ \A k \in 1 .. n : L + k \in 1 .. Len(cbq') /\ cbq'[L + k] = u[k]
    <2>1. L \in Nat /\ Len(cbq') = L + n /\ cbq' \in Seq(Super)
      <3>1. cbq \o u \in Seq(Super) /\ Len(cbq \o u) = Len(cbq) + Len(u)
        BY ConcatLen
      <3>2. Len(cbq) \in Nat
        BY LenProperties
      <3> QED BY <1>0, <3>1, <3>2
    <2>2. \A i \in 1 .. L : i \in 1 .. Len(cbq') /\ cbq'[i] = cbq[i]
      BY <2>1
    <2>3. \A j \in L + 1 .. L + n : cbq'[j] = u[j - L]
      BY <2>1
    <2> HIDE DEF L
    <2>4. ASSUME NEW k \in 1 .. n
          PROVE  L + k \in 1 .. Len(cbq') /\ cbq'[L + k] = u[k]
      <3> DEFINE j == L + k
      <3>1. j \in L + 1 .. L + n /\ j - L = k /\ j \in 1 .. Len(cbq')
        BY <2>1
      <3> HIDE DEF j
      <3>2. cbq'[j] = u[k]
        BY <2>3, <3>1
      <3> QED BY <3>1, <3>2 DEF j
    <2> QED BY <2>1, <2>2, <2>4
  <1>2. \A i \in 1 .. Len(cbq') : i \in 1 .. L \/ \E k \in 1 .. n : i = L + k
    <2> SUFFICES ASSUME NEW i \in 1 .. Len(cbq'), i \notin 1 .. L PROVE \E k \in 1 .. n : i = L + k
      OBVIOUS
    <2> DEFINE k == i - L
    <2>1. k \in 1 .. n /\ i = L + k
      BY <1>1
    <2> QED BY <2>1
  <1> HIDE DEF L
  <1>3. \A i \in 1 .. L : i \in 1 .. Len(cbq)
    BY DEF L
  <1>4. ASSUME NEW i \in 1 .. L, NEW k \in 1 .. n, NEW s \in Streams,
               cbq[i].slot[s].buf = c.queue[k].slot[s].buf
        PROVE  FALSE
    <2> DEFINE p == <<s, cbq[i].slot[s].buf>>
    <2>1. p \in Pairs /\ p[1] = s /\ p[2] = cbq[i].slot[s].buf
      BY <1>3 DEF Supers, SuperOk, Pairs
    <2> HIDE DEF p
    <2>2. p \in InSupers
      BY <1>3, <2>1 DEF InSupers
    <2>3. p \in Sent(c, n)
      BY <1>4, <2>1 DEF Sent
    <2> QED BY <2>2, <2>3
  <1>5. UniqueSupers'
    <2> SUFFICES ASSUME NEW i \in 1 .. Len(cbq'), NEW j \in 1 .. Len(cbq'), NEW s \in Streams,
                        cbq'[i].slot[s].buf = cbq'[j].slot[s].buf
                 PROVE  i = j
      BY DEF UniqueSupers
    <2>1. CASE i \in 1 .. L /\ j \in 1 .. L
      BY <1>1, <1>3, <2>1 DEF UniqueSupers
    <2>2. CASE i \in 1 .. L /\ j \notin 1 .. L
      <3>1. PICK k \in 1 .. n : j = L + k
        BY <1>2, <2>2
      <3>2. cbq'[j].slot = c.queue[k].slot /\ cbq'[i] = cbq[i]
        BY <1>0, <1>1, <2>2, <3>1
      <3>3. cbq[i].slot[s].buf = c.queue[k].slot[s].buf
        BY <3>2
      <3> QED BY <1>4, <2>2, <3>3
    <2>3. CASE i \notin 1 .. L /\ j \in 1 .. L
      <3>1. PICK k \in 1 .. n : i = L + k
        BY <1>2, <2>3
      <3>2. cbq'[i].slot = c.queue[k].slot /\ cbq'[j] = cbq[j]
        BY <1>0, <1>1, <2>3, <3>1
      <3>3. cbq[j].slot[s].buf = c.queue[k].slot[s].buf
        BY <3>2
      <3> QED BY <1>4, <2>3, <3>3
    <2>4. CASE i \notin 1 .. L /\ j \notin 1 .. L
      <3>1. PICK k \in 1 .. n : i = L + k
        BY <1>2, <2>4
      <3>2. PICK l \in 1 .. n : j = L + l
        BY <1>2, <2>4
      <3>3. cbq'[i].slot = c.queue[k].slot /\ cbq'[j].slot = c.queue[l].slot
        <4>1. cbq'[i] = u[k] /\ cbq'[j] = u[l]
          BY <1>1, <3>1, <3>2
        <4> QED BY <1>0, <4>1
      <3>4. k = l
        BY <1>0, <3>3
      <3> QED BY <3>1, <3>2, <3>4
    <2> QED BY <2>1, <2>2, <2>3, <2>4
  <1>6. Supers'
    <2>1. ASSUME NEW i \in 1 .. Len(cbq') PROVE SuperOk(cbq'[i].slot)
      <3>1. CASE i \in 1 .. L
        BY <1>1, <1>3, <3>1 DEF Supers
      <3>2. CASE i \notin 1 .. L
        <4>1. PICK k \in 1 .. n : i = L + k
          BY <1>2, <3>2
        <4>2. cbq'[i] = u[k]
          BY <1>1, <4>1
        <4> QED BY <1>0, <4>2
      <3> QED BY <3>1, <3>2
    <2> QED BY <2>1 DEF Supers, SuperOk, Low
  <1>7. ASSUME NEW p \in Pairs
        PROVE  p \in InSupers' <=> p \in InSupers \/ p \in Sent(c, n)
    <2>1. ASSUME NEW i \in 1 .. Len(cbq'), cbq'[i].slot[p[1]].buf = p[2]
          PROVE  p \in InSupers \/ p \in Sent(c, n)
      <3>1. CASE i \in 1 .. L
        BY <1>1, <1>3, <2>1, <3>1 DEF InSupers
      <3>2. CASE i \notin 1 .. L
        <4>1. PICK k \in 1 .. n : i = L + k
          BY <1>2, <3>2
        <4>2. c.queue[k].slot[p[1]].buf = p[2]
          BY <1>0, <1>1, <2>1, <4>1
        <4> QED BY <4>2 DEF Sent
      <3> QED BY <3>1, <3>2
    <2>2. p \in InSupers => p \in InSupers'
      BY <1>1 DEF InSupers, L
    <2>3. ASSUME NEW k \in 1 .. n, c.queue[k].slot[p[1]].buf = p[2]
          PROVE  p \in InSupers'
      <3> DEFINE j == L + k
      <3>1. j \in 1 .. Len(cbq') /\ cbq'[j] = u[k]
        BY <1>1
      <3> HIDE DEF j
      <3>2. u[k].slot = c.queue[k].slot
        BY <1>0
      <3>3. cbq'[j].slot[p[1]].buf = p[2]
        BY <2>3, <3>1, <3>2
      <3> QED BY <3>1, <3>3 DEF InSupers
    <2> QED BY <2>1, <2>2, <2>3 DEF InSupers, Sent
  <1>8. InSupers' \subseteq Pairs /\ InSupers \subseteq Pairs /\ Sent(c, n) \subseteq Pairs
    BY DEF InSupers, Sent
  <1> QED BY <1>5, <1>6, <1>7, <1>8

LEMMA InThreadsTail ==
  ASSUME strq \in [Streams -> Seq(Bufs)], NEW s \in Streams, strq[s] # <<>>,
         strq' = [strq EXCEPT ![s] = Tail(@)], UniqueThreads
  PROVE  /\ UniqueThreads'
         /\ InThreads' = InThreads \ {<<s, Head(strq[s])>>} /\ <<s, Head(strq[s])>> \in InThreads
  <1> DEFINE q == strq[s]
             r == Tail(q)
  <1>1. q \in Seq(Bufs) /\ q # <<>>
    OBVIOUS
  <1>2. strq'[s] = r /\ \A t \in Streams \ {s} : strq'[t] = strq[t]
    OBVIOUS
  <1>3. q = strq[s]
    OBVIOUS
  <1> HIDE DEF q
  <1>4. /\ Len(q) \in Nat \ {0} /\ 1 \in 1 .. Len(q) /\ Head(q) = q[1]
        /\ \A i \in 1 .. Len(r) : i + 1 \in 2 .. Len(q) /\ r[i] = q[i + 1]
        /\ \A i \in 2 .. Len(q) : i - 1 \in 1 .. Len(r) /\ r[i - 1] = q[i]
        /\ \A i \in 1 .. Len(q) : i # 1 <=> i \in 2 .. Len(q)
        /\ \A i \in 2 .. Len(q) : i \in 1 .. Len(q)
    BY <1>1, TailAt
  <1>5. Head(q) \in Bufs
    BY <1>1, <1>4
  <1> HIDE DEF r
  <1>6. \A i, j \in 1 .. Len(q) : q[i] = q[j] => i = j
    BY <1>3 DEF UniqueThreads
  <1>7. UniqueThreads'
    <2>1. \A i, j \in 1 .. Len(r) : r[i] = r[j] => i = j
      <3> SUFFICES ASSUME NEW i \in 1 .. Len(r), NEW j \in 1 .. Len(r), r[i] = r[j] PROVE i = j
        OBVIOUS
      <3> DEFINE a == i + 1
                 b == j + 1
      <3>1. a \in 1 .. Len(q) /\ b \in 1 .. Len(q) /\ q[a] = q[b]
        BY <1>4
      <3> HIDE DEF a, b
      <3>2. a = b
        BY <1>6, <3>1
      <3> QED BY <3>2 DEF a, b
    <2>2. \A t \in Streams \ {s} : \A i, j \in 1 .. Len(strq'[t]) : strq'[t][i] = strq'[t][j] => i = j
      BY <1>2 DEF UniqueThreads
    <2>3. \A i, j \in 1 .. Len(strq'[s]) : strq'[s][i] = strq'[s][j] => i = j
      <3> DEFINE w == strq'[s]
      <3>1. w = r
        BY <1>2
      <3> HIDE DEF w
      <3>2. \A i, j \in 1 .. Len(w) : w[i] = w[j] => i = j
        BY <2>1, <3>1
      <3> QED BY <3>2 DEF w
    <2> QED BY <2>2, <2>3 DEF UniqueThreads
  <1> DEFINE h == <<s, Head(q)>>
  <1>8. h \in Pairs /\ h[1] = s /\ h[2] = q[1]
    BY <1>4, <1>5 DEF Pairs
  <1>9. \A p \in Pairs : p = h <=> p[1] = s /\ p[2] = q[1]
    BY <1>4 DEF Pairs
  <1> HIDE DEF h
  <1>10. \A p \in Pairs : p[1] = s => (p \in InThreads <=> \E i \in 1 .. Len(q) : q[i] = p[2])
    BY <1>3 DEF InThreads
  <1>11. \A p \in Pairs : p[1] = s => (p \in InThreads' <=> \E i \in 1 .. Len(r) : r[i] = p[2])
    BY <1>2 DEF InThreads
  <1>12. \A p \in Pairs : p[1] # s => (p \in InThreads' <=> p \in InThreads)
    <2>1. \A p \in Pairs : p[1] # s => strq'[p[1]] = strq[p[1]]
      BY <1>2 DEF Pairs
    <2> QED BY <2>1 DEF InThreads
  <1>13. ASSUME NEW p \in Pairs, p[1] = s
         PROVE  p \in InThreads' <=> p \in InThreads /\ p # h
    <2>1. ASSUME NEW i \in 1 .. Len(r), r[i] = p[2]
          PROVE  p \in InThreads /\ p # h
      <3> DEFINE a == i + 1
      <3>1. a \in 2 .. Len(q) /\ q[a] = p[2]
        BY <1>4, <2>1
      <3> HIDE DEF a
      <3>2. a \in 1 .. Len(q) /\ a # 1
        BY <1>4, <3>1
      <3>3. q[a] # q[1]
        BY <1>4, <1>6, <3>2
      <3> QED BY <1>9, <1>10, <1>13, <3>1, <3>2, <3>3
    <2>2. ASSUME NEW i \in 1 .. Len(q), q[i] = p[2], p # h
          PROVE  \E j \in 1 .. Len(r) : r[j] = p[2]
      <3>1. i # 1
        BY <1>9, <1>13, <2>2
      <3> DEFINE j == i - 1
      <3>2. j \in 1 .. Len(r) /\ r[j] = q[i]
        BY <1>4, <3>1
      <3> HIDE DEF j
      <3> QED BY <2>2, <3>2
    <2> QED BY <1>10, <1>11, <1>13, <2>1, <2>2
  <1>14. \A p \in Pairs : p \in InThreads' <=> p \in InThreads /\ p # h
    BY <1>8, <1>12, <1>13
  <1>15. InThreads' = InThreads \ {h}
    <2>1. InThreads' \subseteq Pairs /\ InThreads \subseteq Pairs
      BY DEF InThreads
    <2> QED BY <1>14, <2>1
  <1>16. h \in InThreads
    BY <1>4, <1>8, <1>10
  <1> QED BY <1>7, <1>15, <1>16 DEF h, q

LEMMA InThreadsMore ==
  ASSUME strq \in [Streams -> Seq(Bufs)], NEW s \in Streams, NEW b \in Bufs,
         strq' = [strq EXCEPT ![s] = Append(@, b)], UniqueThreads, <<s, b>> \notin InThreads
  PROVE  UniqueThreads' /\ InThreads' = InThreads \cup {<<s, b>>}
  <1> DEFINE q == strq[s]
             r == Append(q, b)
             n == Len(q) + 1
  <1>1. strq'[s] = r /\ q = strq[s] /\ \A t \in Streams \ {s} : strq'[t] = strq[t]
    OBVIOUS
  <1>2. q \in Seq(Bufs)
    OBVIOUS
  <1> HIDE DEF q
  <1>3. /\ Len(q) \in Nat /\ Len(r) = n /\ r[n] = b /\ n \in 1 .. Len(r)
        /\ \A i \in 1 .. Len(q) : i \in 1 .. Len(r) /\ r[i] = q[i]
        /\ \A i \in 1 .. Len(r) : i \in 1 .. Len(q) \/ i = n
    BY <1>2
  <1> HIDE DEF r, n
  <1> DEFINE h == <<s, b>>
  <1>4. h \in Pairs /\ h[1] = s /\ h[2] = b /\ h \notin InThreads
    BY DEF Pairs
  <1>5. \A p \in Pairs : p = h <=> p[1] = s /\ p[2] = b
    BY DEF Pairs
  <1> HIDE DEF h
  <1>6. \A p \in Pairs : p[1] = s => (p \in InThreads <=> \E i \in 1 .. Len(q) : q[i] = p[2])
    BY <1>1 DEF InThreads
  <1>7. \A p \in Pairs : p[1] = s => (p \in InThreads' <=> \E i \in 1 .. Len(r) : r[i] = p[2])
    BY <1>1 DEF InThreads
  <1>8. \A p \in Pairs : p[1] # s => (p \in InThreads' <=> p \in InThreads)
    <2>1. \A p \in Pairs : p[1] # s => strq'[p[1]] = strq[p[1]]
      BY <1>1 DEF Pairs
    <2> QED BY <2>1 DEF InThreads
  <1>9. \A i \in 1 .. Len(q) : q[i] # b
    BY <1>4, <1>6
  <1>10. UniqueThreads'
    <2>1. \A i, j \in 1 .. Len(q) : q[i] = q[j] => i = j
      BY <1>1 DEF UniqueThreads
    <2>2. \A i, j \in 1 .. Len(r) : r[i] = r[j] => i = j
      BY <1>3, <1>9, <2>1
    <2>3. \A t \in Streams \ {s} : \A i, j \in 1 .. Len(strq'[t]) : strq'[t][i] = strq'[t][j] => i = j
      BY <1>1 DEF UniqueThreads
    <2>4. \A i, j \in 1 .. Len(strq'[s]) : strq'[s][i] = strq'[s][j] => i = j
      <3>1. strq'[s] = r
        BY <1>1
      <3> QED BY <2>2, <3>1
    <2> QED BY <2>3, <2>4 DEF UniqueThreads
  <1>11. \A p \in Pairs : p[1] = s => (p \in InThreads' <=> p \in InThreads \/ p[2] = b)
    BY <1>3, <1>6, <1>7
  <1>12. \A p \in Pairs : p \in InThreads' <=> p \in InThreads \/ p = h
    BY <1>5, <1>8, <1>11
  <1>13. InThreads \subseteq Pairs /\ InThreads' \subseteq Pairs
    BY DEF InThreads
  <1>14. InThreads' = InThreads \cup {h}
    BY <1>4, <1>12, <1>13
  <1> QED BY <1>10, <1>14 DEF h

LEMMA SameSupers ==
  ASSUME cbq' = cbq, attr' = attr, UniqueSupers, Supers
  PROVE  UniqueSupers' /\ Supers' /\ InSupers' = InSupers
  BY DEF UniqueSupers, Supers, SuperOk, Low, InSupers

LEMMA SameThreads ==
  ASSUME strq' = strq, UniqueThreads
  PROVE  UniqueThreads' /\ InThreads' = InThreads
  BY DEF UniqueThreads, InThreads

LEMMA SameCmds ==
  ASSUME cmdq' = cmdq, UniqueCmds
  PROVE  UniqueCmds' /\ InCmds' = InCmds
  BY DEF UniqueCmds, InCmds

(* What a step does to the uses of buffers: the poll thread takes one from  *)
(* the kernel; one use of each of some is given up; no count changes, and   *)
(* at most uses of buffers that are no longer registered are forgotten.     *)
Takes(s) ==
  LET p == <<s, Min(kernel[s])>>
  IN  /\ ReadFrame(s)
      /\ p \notin Lent /\ p \notin LentApp
      /\ Lent' = Lent \cup {p}
      /\ LentApp' = LentApp \cup IF s \in AppStreams THEN {p} ELSE {}
GaveBack(back) ==
  /\ bufDone(back) /\ state' = state
  /\ \/ back \subseteq Lent /\ Lent' = Lent \ back /\ LentApp' = LentApp
     \/ back \subseteq LentApp /\ LentApp' = LentApp \ back /\ Lent' = Lent
Forgets ==
  /\ state' = state /\ kernel' = kernel /\ refcnt' = refcnt
  /\ Lent' \subseteq Lent /\ LentApp' \subseteq LentApp
  /\ \A p \in Pairs : state[p[1]] # "REG" =>
       (p \in Lent' <=> p \in Lent) /\ (p \in LentApp' <=> p \in LentApp)

LEMMA ReadPlaces ==
  ASSUME Inv, NEW s \in Streams, ReadFrame(s)
  PROVE  OnePlace' /\ Supers' /\ Takes(s)
  <1> DEFINE b == Min(kernel[s])
             p == <<s, b>>
  <1>1. /\ TypesOk /\ OnePlace /\ Supers /\ Counted
        /\ refcnt \in [Streams -> [Bufs -> Nat]] /\ kernel \in [Streams -> SUBSET Bufs]
    BY DEF Inv, TypesOk
  <1>2. /\ b \in kernel[s] /\ poll' # Idle /\ poll'.s = s /\ poll'.b = b
    BY <1>1, TypesReadFrame
  <1>3. /\ poll = Idle /\ state[s] = "ACTIVE" /\ attr' = attr /\ ch' = ch /\ cmdq' = cmdq /\ cbq' = cbq
        /\ strq' = strq /\ hal' = hal /\ app' = app
    BY DEF ReadFrame
  <1> HIDE DEF b
  <1>4. b \in Bufs
    BY <1>1, <1>2
  <1>5. p \notin Lent /\ p \notin LentApp
    <2>1. refcnt[s][b] = 0 /\ refcnt[s][b] = Uses(<<s, b>>)
      BY <1>1, <1>2, <1>3, <1>4 DEF Counted
    <2> QED BY <2>1 DEF Uses
  <1>6. InPoll = {} /\ InPollApp = {} /\ InPoll' = {p}
    BY <1>2, <1>3 DEF InPoll, InPollApp
  <1>7. InPollApp' = IF s \in AppStreams THEN {p} ELSE {}
    BY <1>6 DEF InPollApp
  <1> HIDE DEF p
  <1>8. /\ UniqueSupers' /\ Supers' /\ InSupers' = InSupers /\ UniqueThreads' /\ InThreads' = InThreads
        /\ UniqueCmds' /\ InCmds' = InCmds
    BY <1>1, <1>3, SameSupers, SameThreads, SameCmds DEF OnePlace
  <1>9. InQueue' = InQueue
    BY <1>3 DEF InQueue
  <1>10. Disjoint'
    BY <1>1, <1>3, <1>5, <1>6, <1>7, <1>8, <1>9 DEF OnePlace, Disjoint, Lent, LentApp
  <1>11. Lent' = Lent \cup {p} /\ LentApp' = LentApp \cup IF s \in AppStreams THEN {p} ELSE {}
    BY <1>3, <1>6, <1>7, <1>8, <1>9 DEF Lent, LentApp
  <1>12. Takes(s)
    BY <1>5, <1>11 DEF Takes, p, b
  <1> QED BY <1>8, <1>10, <1>12 DEF OnePlace

LEMMA HandlePlaces ==
  ASSUME Inv, HandleRcvdBuf
  PROVE  OnePlace' /\ Supers' /\ Forgets
  <1> DEFINE p == <<poll.s, poll.b>>
  <1>1. TypesOk /\ OnePlace /\ Supers /\ strq \in [Streams -> Seq(Bufs)]
        /\ state \in [Streams -> {"REG", "ACTIVE", "OFF"}]
    BY DEF Inv, TypesOk
  <1>2. /\ poll # Idle /\ poll' = Idle /\ attr' = attr /\ ch' = ch /\ cbq' = cbq /\ hal' = hal
        /\ app' = app /\ state' = state /\ kernel' = kernel /\ refcnt' = refcnt
    BY DEF HandleRcvdBuf
  <1>3. /\ InCmds' = InCmds \cup InPoll /\ UniqueCmds' /\ InPoll = {p}
        /\ poll.s \in Streams /\ poll.b \in Bufs
    BY <1>1, InCmdsHandle DEF OnePlace, Disjoint
  <1>4. InPoll' = {} /\ InPollApp' = {}
    BY <1>2 DEF InPoll, InPollApp
  <1>5. UniqueSupers' /\ Supers' /\ InSupers' = InSupers
    BY <1>1, <1>2, SameSupers DEF OnePlace
  <1>6. InQueue' = InQueue
    BY <1>2 DEF InQueue
  <1>7. Lent' = Lent
    BY <1>2, <1>3, <1>4, <1>5, <1>6 DEF Lent
  <1>8. CASE poll.s \in AppStreams /\ state[poll.s] \in {"ACTIVE", "OFF"}
    <2>1. strq' = [strq EXCEPT ![poll.s] = Append(@, poll.b)]
      BY <1>8 DEF HandleRcvdBuf
    <2>2. InPollApp = {p}
      BY <1>3, <1>8 DEF InPollApp
    <2>3. UniqueThreads' /\ InThreads' = InThreads \cup {p}
      BY <1>1, <1>3, <2>1, <2>2, InThreadsMore DEF OnePlace, Disjoint
    <2>4. LentApp' = LentApp
      BY <1>2, <1>4, <2>2, <2>3 DEF LentApp
    <2> HIDE DEF p
    <2>5. Disjoint'
      BY <1>1, <1>2, <1>3, <1>4, <1>5, <1>6, <2>2, <2>3 DEF OnePlace, Disjoint
    <2>6. Forgets
      BY <1>2, <1>7, <2>4 DEF Forgets
    <2> QED BY <1>3, <1>5, <2>3, <2>5, <2>6 DEF OnePlace
  <1>9. CASE ~(poll.s \in AppStreams /\ state[poll.s] \in {"ACTIVE", "OFF"})
    <2>1. strq' = strq
      BY <1>9 DEF HandleRcvdBuf
    <2>2. UniqueThreads' /\ InThreads' = InThreads
      BY <1>1, <2>1, SameThreads DEF OnePlace
    <2>3. \A r \in Pairs : r \in InPollApp => state[r[1]] = "REG"
      BY <1>1, <1>3, <1>9 DEF InPollApp
    <2>4. LentApp' = LentApp \ InPollApp
      BY <1>1, <1>2, <1>4, <2>2 DEF LentApp, OnePlace, Disjoint
    <2>5. Disjoint'
      BY <1>1, <1>2, <1>3, <1>4, <1>5, <1>6, <2>2 DEF OnePlace, Disjoint
    <2>6. Forgets
      BY <1>2, <1>7, <2>3, <2>4 DEF Forgets
    <2> QED BY <1>3, <1>5, <2>2, <2>5, <2>6 DEF OnePlace
  <1> QED BY <1>8, <1>9

LEMMA TurnPlaces ==
  ASSUME Inv, Next, ProcessStreamBuf
  PROVE  OnePlace' /\ Supers' /\ \E back : GaveBack(back)
  <1> DEFINE m == Head(cmdq)
             t == trimmed(ch, m)
             n == Sends(m, t.c)
             u == Supers2(t, n)
  <1>1. /\ Turn(ch, m, Passed', t, n, ch')
        /\ u \in Seq(Super) /\ Len(u) = n /\ \A i \in 1 .. n : u[i].slot = t.c.queue[i].slot
    BY TurnStep
  <1>2. /\ cmdq # <<>> /\ cmdq' = Tail(cmdq) /\ cbq' = cbq \o u /\ bufDone(t.back)
        /\ attr' = attr /\ state' = state /\ poll' = poll /\ strq' = strq /\ hal' = hal /\ app' = app
    BY ThreadStep
  <1>3. OnePlace /\ Supers /\ cmdq \in Seq(Cmd) /\ cbq \in Seq(Super)
    BY DEF Inv, TypesOk
  <1>4. InCmds' = InCmds \ Brings(m) /\ Brings(m) \subseteq InCmds
    BY <1>2, <1>3, InCmdsTail DEF OnePlace
  <1>5. UniqueCmds'
    BY <1>2, <1>3, MovedTail, UniqueCmdsMoved DEF OnePlace
  <1> DEFINE B == Brings(m)
             S == Sent(t.c, n)
             Q == HeldIn(ch'.queue)
             back == t.back
  <1>6. InQueue' = Q /\ InQueue = HeldIn(ch.queue)
    BY DEF InQueue, HeldIn
  <1> HIDE DEF m, t, n, u
  <1>7. /\ n \in Nat
        /\ \A i \in 1 .. n : SuperOk(t.c.queue[i].slot)
        /\ \A i, j \in 1 .. n : \A s \in Streams :
             t.c.queue[i].slot[s].buf = t.c.queue[j].slot[s].buf => i = j
    BY <1>1 DEF Turn
  <1>8. /\ InQueue \cup B = Q \cup back \cup S
        /\ Q \cap back = {} /\ Q \cap S = {} /\ back \cap S = {}
    BY <1>1, <1>6 DEF Turn, Apart
  <1> HIDE DEF B, S, Q, back
  <1>9. InCmds' = InCmds \ B /\ B \subseteq InCmds
    BY <1>4 DEF B
  <1>10. S \cap InSupers = {}
    BY <1>3, <1>8, <1>9 DEF OnePlace, Disjoint
  <1>11. UniqueSupers' /\ Supers' /\ InSupers' = InSupers \cup S
    <2>1. Sent(t.c, n) \cap InSupers = {}
      BY <1>10 DEF S
    <2>2. UniqueSupers' /\ Supers' /\ InSupers' = InSupers \cup Sent(t.c, n)
      <3>1. MadeOf(u, t.c, n)
        BY <1>1, <1>7 DEF MadeOf
      <3>2. u \in Seq(Super) /\ cbq' = cbq \o u /\ n \in Nat /\ UniqueSupers
        BY <1>1, <1>2, <1>3, <1>7 DEF OnePlace
      <3> QED BY <1>2, <1>3, <2>1, <3>1, <3>2, InSupersMore
    <2> QED BY <2>2 DEF S
  <1>12. UniqueThreads' /\ InThreads' = InThreads
    BY <1>2, <1>3, SameThreads DEF OnePlace
  <1>13. InPoll' = InPoll /\ InPollApp' = InPollApp
    BY <1>2 DEF InPoll, InPollApp
  <1>14. Disjoint'
    BY <1>2, <1>3, <1>6, <1>8, <1>9, <1>11, <1>12, <1>13 DEF OnePlace, Disjoint
  <1>15. back \subseteq Lent /\ Lent' = Lent \ back
    <2>1. back \subseteq InQueue \cup InCmds
      BY <1>8, <1>9
    <2>2. back \cap (InPoll \cup InSupers \cup hal) = {} /\ back \cap (InCmds \ B) = {}
      BY <1>3, <1>8, <1>9 DEF OnePlace, Disjoint
    <2>3. InPoll' \cup InCmds' \cup InQueue' \cup InSupers' \cup hal'
            = (InPoll \cup InCmds \cup InQueue \cup InSupers \cup hal) \ back
      BY <1>2, <1>6, <1>8, <1>9, <1>11, <1>13, <2>2
    <2> QED BY <2>1, <2>3 DEF Lent
  <1>16. LentApp' = LentApp
    BY <1>2, <1>12, <1>13 DEF LentApp
  <1>17. GaveBack(back)
    <2>1. bufDone(back)
      BY <1>2 DEF back
    <2> QED BY <1>2, <1>15, <1>16, <2>1 DEF GaveBack
  <1> QED BY <1>5, <1>11, <1>12, <1>14, <1>17 DEF OnePlace

LEMMA DispatchPlaces ==
  ASSUME Inv, DispatchSuperBuf
  PROVE  OnePlace' /\ Supers' /\ Forgets
  <1>1. /\ cbq # <<>> /\ cbq' = Tail(cbq)
        /\ hal' = hal \cup {<<s, Head(cbq).slot[s].buf>> : s \in Streams}
        /\ attr' = attr /\ ch' = ch /\ cmdq' = cmdq /\ poll' = poll /\ strq' = strq /\ app' = app
        /\ state' = state /\ kernel' = kernel /\ refcnt' = refcnt
    BY DEF DispatchSuperBuf
  <1>2. OnePlace /\ Supers /\ cbq \in Seq(Super)
    BY DEF Inv, TypesOk
  <1>3. /\ UniqueSupers' /\ Supers'
        /\ InSupers' = InSupers \ HeadBuffers /\ HeadBuffers \subseteq InSupers
        /\ HeadBuffers = {<<s, Head(cbq).slot[s].buf>> : s \in Streams}
    BY <1>1, <1>2, InSupersTail DEF OnePlace
  <1>4. hal' = hal \cup HeadBuffers
    BY <1>1, <1>3
  <1>5. /\ UniqueThreads' /\ InThreads' = InThreads /\ UniqueCmds' /\ InCmds' = InCmds
    BY <1>1, <1>2, SameThreads, SameCmds DEF OnePlace
  <1>6. InPoll' = InPoll /\ InPollApp' = InPollApp /\ InQueue' = InQueue
    BY <1>1 DEF InPoll, InPollApp, InQueue
  <1> DEFINE H == HeadBuffers
  <1>7. InSupers' = InSupers \ H /\ H \subseteq InSupers /\ hal' = hal \cup H
    BY <1>3, <1>4
  <1> HIDE DEF H
  <1>8. Disjoint'
    BY <1>1, <1>2, <1>5, <1>6, <1>7 DEF OnePlace, Disjoint
  <1>9. Lent' = Lent /\ LentApp' = LentApp
    BY <1>1, <1>5, <1>6, <1>7 DEF Lent, LentApp
  <1> QED BY <1>1, <1>3, <1>5, <1>8, <1>9 DEF OnePlace, Forgets

LEMMA AppDataPlaces ==
  ASSUME Inv, NEW s \in Streams, DispatchAppData(s)
  PROVE  OnePlace' /\ Supers' /\ Forgets
  <1> DEFINE h == <<s, Head(strq[s])>>
  <1>1. /\ strq[s] # <<>> /\ strq' = [strq EXCEPT ![s] = Tail(@)] /\ app' = app \cup {h}
        /\ attr' = attr /\ ch' = ch /\ cmdq' = cmdq /\ cbq' = cbq /\ poll' = poll /\ hal' = hal
        /\ state' = state /\ kernel' = kernel /\ refcnt' = refcnt
    BY DEF DispatchAppData, chanVars
  <1>2. OnePlace /\ Supers /\ strq \in [Streams -> Seq(Bufs)]
    BY DEF Inv, TypesOk
  <1>3. UniqueThreads' /\ InThreads' = InThreads \ {h} /\ h \in InThreads
    BY <1>1, <1>2, InThreadsTail DEF OnePlace
  <1> HIDE DEF h
  <1>4. UniqueSupers' /\ Supers' /\ InSupers' = InSupers /\ UniqueCmds' /\ InCmds' = InCmds
    BY <1>1, <1>2, SameSupers, SameCmds DEF OnePlace
  <1>5. InPoll' = InPoll /\ InPollApp' = InPollApp /\ InQueue' = InQueue
    BY <1>1 DEF InPoll, InPollApp, InQueue
  <1>6. Disjoint'
    BY <1>1, <1>2, <1>3, <1>4, <1>5 DEF OnePlace, Disjoint
  <1>7. Lent' = Lent /\ LentApp' = LentApp
    BY <1>1, <1>3, <1>4, <1>5 DEF Lent, LentApp
  <1> QED BY <1>1, <1>3, <1>4, <1>6, <1>7 DEF OnePlace, Forgets

LEMMA ReturnPlaces ==
  ASSUME Inv, HalReturns
  PROVE  OnePlace' /\ Supers' /\ \E back : GaveBack(back)
  <1>1. OnePlace /\ Supers
    BY DEF Inv
  <1>2. /\ attr' = attr /\ ch' = ch /\ cmdq' = cmdq /\ cbq' = cbq /\ poll' = poll /\ strq' = strq
        /\ state' = state
    BY DEF HalReturns, ReturnHal, ReturnApp, chanVars
  <1>3. /\ UniqueThreads' /\ InThreads' = InThreads /\ UniqueCmds' /\ InCmds' = InCmds
        /\ UniqueSupers' /\ Supers' /\ InSupers' = InSupers
    BY <1>1, <1>2, SameSupers, SameThreads, SameCmds DEF OnePlace
  <1>4. InPoll' = InPoll /\ InPollApp' = InPollApp /\ InQueue' = InQueue
    BY <1>2 DEF InPoll, InPollApp, InQueue
  <1>5. CASE \E p \in hal : ReturnHal(p)
    <2>1. PICK p \in hal : ReturnHal(p)
      BY <1>5
    <2>2. hal' = hal \ {p} /\ app' = app /\ bufDone({p})
      BY <2>1 DEF ReturnHal
    <2>3. Disjoint'
      BY <1>1, <1>3, <1>4, <2>2 DEF OnePlace, Disjoint
    <2>4. {p} \subseteq Lent /\ Lent' = Lent \ {p} /\ LentApp' = LentApp
      BY <1>1, <1>3, <1>4, <2>2 DEF OnePlace, Disjoint, Lent, LentApp
    <2>5. GaveBack({p})
      BY <1>2, <2>2, <2>4 DEF GaveBack
    <2> QED BY <1>3, <2>3, <2>5 DEF OnePlace
  <1>6. CASE \E p \in app : ReturnApp(p)
    <2>1. PICK p \in app : ReturnApp(p)
      BY <1>6
    <2>2. app' = app \ {p} /\ hal' = hal /\ bufDone({p})
      BY <2>1 DEF ReturnApp
    <2>3. Disjoint'
      BY <1>1, <1>3, <1>4, <2>2 DEF OnePlace, Disjoint
    <2>4. {p} \subseteq LentApp /\ LentApp' = LentApp \ {p} /\ Lent' = Lent
      BY <1>1, <1>3, <1>4, <2>2 DEF OnePlace, Disjoint, Lent, LentApp
    <2>5. GaveBack({p})
      BY <1>2, <2>2, <2>4 DEF GaveBack
    <2> QED BY <1>3, <2>3, <2>5 DEF OnePlace
  <1> QED BY <1>5, <1>6 DEF HalReturns

LEMMA StopCbPlaces ==
  ASSUME Inv, StopCbThread
  PROVE  OnePlace' /\ Supers' /\ Forgets
  <1>1. /\ api.op = "exit" /\ ch' = EmptyQueue(ch) /\ cmdq' = <<>>
        /\ attr' = attr /\ cbq' = cbq /\ poll' = poll /\ strq' = strq /\ hal' = hal /\ app' = app
        /\ state' = state /\ kernel' = kernel /\ refcnt' = refcnt
    BY DEF StopCbThread, bufVars
  <1>2. OnePlace /\ Supers /\ ch \in Channel /\ AllIn("REG")
    BY <1>1 DEF Inv, TypesOk, Phase
  <1>3. InCmds' = {} /\ UniqueCmds'
    BY <1>1 DEF InCmds, UniqueCmds
  <1>4. InQueue' = {}
    <2>1. ch'.queue = <<>>
      BY <1>1, <1>2, EmptyQueueTypes
    <2> QED BY <2>1, HeldInEmpty DEF InQueue, HeldIn
  <1>5. /\ UniqueThreads' /\ InThreads' = InThreads
        /\ UniqueSupers' /\ Supers' /\ InSupers' = InSupers
    BY <1>1, <1>2, SameSupers, SameThreads DEF OnePlace
  <1>6. InPoll' = InPoll /\ InPollApp' = InPollApp
    BY <1>1 DEF InPoll, InPollApp
  <1>7. Disjoint'
    BY <1>1, <1>2, <1>3, <1>4, <1>5, <1>6 DEF OnePlace, Disjoint
  <1>8. Lent' \subseteq Lent /\ LentApp' = LentApp
    BY <1>1, <1>3, <1>4, <1>5, <1>6 DEF Lent, LentApp
  <1>9. \A p \in Pairs : state[p[1]] = "REG"
    BY <1>2 DEF AllIn, Pairs
  <1> QED BY <1>1, <1>3, <1>5, <1>7, <1>8, <1>9 DEF OnePlace, Forgets

(* What every step does.                                                    *)
LEMMA PlacesStep ==
  ASSUME Inv, Next
  PROVE  /\ OnePlace' /\ Supers'
         /\ \/ Steady /\ Lent' = Lent /\ LentApp' = LentApp
            \/ \E s \in Streams : Takes(s)
            \/ (\E back : GaveBack(back)) /\ (ProcessStreamBuf \/ HalReturns)
            \/ Forgets /\ (HandleRcvdBuf \/ DispatchSuperBuf \/ StopCbThread
                           \/ \E s \in Streams : DispatchAppData(s))
  <1>1. CASE Steady
    <2>1. Unmoved /\ OnePlace /\ Supers
      BY <1>1, SteadyUnmoved DEF Inv
    <2> QED BY <1>1, <2>1, UnmovedPlaces
  <1>2. CASE \E s \in Streams : ReadFrame(s)
    BY <1>2, ReadPlaces
  <1>3. CASE HandleRcvdBuf
    BY <1>3, HandlePlaces
  <1>4. CASE ProcessStreamBuf
    BY <1>4, TurnPlaces
  <1>5. CASE DispatchSuperBuf
    BY <1>5, DispatchPlaces
  <1>6. CASE \E s \in Streams : DispatchAppData(s)
    BY <1>6, AppDataPlaces
  <1>7. CASE HalReturns
    BY <1>7, ReturnPlaces
  <1>8. CASE StopCbThread
    BY <1>8, StopCbPlaces
  <1> QED BY <1>1, <1>2, <1>3, <1>4, <1>5, <1>6, <1>7, <1>8, NextCases DEF Steady, Hardware

LEMMA LentTypes ==
  ASSUME TypesOk
  PROVE  Lent \subseteq Pairs /\ LentApp \subseteq Pairs
  <1>1. InPoll \subseteq Pairs /\ InPollApp \subseteq Pairs
    BY DEF TypesOk, InPoll, InPollApp, Frame, Pairs
  <1>2. InCmds \subseteq Pairs /\ InSupers \subseteq Pairs /\ InThreads \subseteq Pairs
    BY DEF InCmds, InSupers, InThreads
  <1>3. InQueue \subseteq Pairs
    BY DEF InQueue, buffersOf, Pairs
  <1> QED BY <1>1, <1>2, <1>3 DEF Lent, LentApp, TypesOk

-----------------------------------------------------------------------------
(* The counts. *)

CountOk(s, b) ==
  /\ state[s] \in {"ACTIVE", "OFF"} => refcnt[s][b] = Uses(<<s, b>>)
  /\ state[s] = "ACTIVE" => (b \in kernel[s] <=> refcnt[s][b] = 0)

LEMMA CountUnchanged ==
  ASSUME NEW s, NEW b, CountOk(s, b),
         state'[s] = state[s], kernel'[s] = kernel[s], refcnt'[s][b] = refcnt[s][b],
         state[s] # "REG" => (<<s, b>> \in Lent' <=> <<s, b>> \in Lent)
                             /\ (<<s, b>> \in LentApp' <=> <<s, b>> \in LentApp)
  PROVE  CountOk(s, b)'
  BY DEF CountOk, Uses

LEMMA CountGaveBack ==
  ASSUME NEW back, GaveBack(back), NEW s \in Streams, NEW b \in Bufs, CountOk(s, b),
         refcnt \in [Streams -> [Bufs -> Nat]], state \in [Streams -> {"REG", "ACTIVE", "OFF"}]
  PROVE  CountOk(s, b)'
  <1> DEFINE p == <<s, b>>
             r == refcnt[s][b]
  <1>1. r \in Nat
    OBVIOUS
  <1>2. /\ refcnt'[s][b] = IF p \in back /\ state[s] \in {"ACTIVE", "OFF"} /\ r > 0 THEN r - 1 ELSE r
        /\ kernel'[s] = kernel[s] \cup
             {c \in Bufs : <<s, c>> \in back /\ state[s] \in {"ACTIVE", "OFF"} /\ refcnt[s][c] = 1}
        /\ state' = state
    BY DEF GaveBack, bufDone, refcntAfter, kernelAfter
  <1>3. b \in kernel'[s] <=> b \in kernel[s] \/ (p \in back /\ state[s] \in {"ACTIVE", "OFF"} /\ r = 1)
    BY <1>2
  <1>4. CASE state[s] = "REG"
    BY <1>2, <1>4 DEF CountOk
  <1>5. CASE state[s] \in {"ACTIVE", "OFF"}
    <2>1. r = Uses(p) /\ (state[s] = "ACTIVE" => (b \in kernel[s] <=> r = 0))
      BY <1>5 DEF CountOk
    <2>2. CASE p \in back
      <3>1. r > 0 /\ Uses(p)' = r - 1
        BY <1>1, <2>1, <2>2 DEF GaveBack, Uses
      <3>2. refcnt'[s][b] = r - 1
        BY <1>2, <1>5, <2>2, <3>1
      <3>3. b \in kernel'[s] <=> b \in kernel[s] \/ r = 1
        BY <1>3, <1>5, <2>2
      <3> QED BY <1>1, <1>2, <2>1, <3>1, <3>2, <3>3 DEF CountOk
    <2>3. CASE p \notin back
      <3>1. Uses(p)' = r
        BY <2>1, <2>3 DEF GaveBack, Uses
      <3> QED BY <1>2, <1>3, <2>1, <2>3, <3>1 DEF CountOk
    <2> QED BY <2>2, <2>3
  <1> QED BY <1>4, <1>5

LEMMA CountTakes ==
  ASSUME TypesOk, NEW u \in Streams, Takes(u), NEW s \in Streams, NEW b \in Bufs, CountOk(s, b)
  PROVE  CountOk(s, b)'
  <1> DEFINE m == Min(kernel[u])
  <1>1. /\ refcnt \in [Streams -> [Bufs -> Nat]] /\ kernel \in [Streams -> SUBSET Bufs]
    BY DEF TypesOk
  <1>2. ReadFrame(u)
    BY DEF Takes
  <1>3. state' = state /\ state[u] = "ACTIVE"
    BY <1>2 DEF ReadFrame
  <1>4. /\ m \in kernel[u]
        /\ kernel' = [kernel EXCEPT ![u] = @ \ {m}]
        /\ refcnt' = [refcnt EXCEPT ![u][m] = @ + 1 + IF u \in AppStreams THEN 1 ELSE 0]
    BY <1>2, TypesReadFrame
  <1>5. /\ <<u, m>> \notin Lent /\ <<u, m>> \notin LentApp
        /\ Lent' = Lent \cup {<<u, m>>}
        /\ LentApp' = LentApp \cup IF u \in AppStreams THEN {<<u, m>>} ELSE {}
    BY DEF Takes
  <1> HIDE DEF m
  <1>6. m \in Bufs
    BY <1>1, <1>4
  <1>7. CASE s = u /\ b = m
    <2>1. refcnt[s][b] = 0
      BY <1>3, <1>4, <1>7 DEF CountOk
    <2>2. refcnt'[s][b] = refcnt[s][b] + 1 + IF u \in AppStreams THEN 1 ELSE 0
      BY <1>1, <1>4, <1>7
    <2>3. Uses(<<s, b>>)' = 1 + IF u \in AppStreams THEN 1 ELSE 0
      BY <1>5, <1>7 DEF Uses
    <2>4. b \notin kernel'[s]
      BY <1>1, <1>4, <1>7
    <2> QED BY <2>1, <2>2, <2>3, <2>4 DEF CountOk
  <1>8. CASE ~(s = u /\ b = m)
    <2>1. refcnt'[s][b] = refcnt[s][b] /\ (b \in kernel'[s] <=> b \in kernel[s])
      BY <1>1, <1>4, <1>6, <1>8
    <2>2. (<<s, b>> \in Lent' <=> <<s, b>> \in Lent) /\ (<<s, b>> \in LentApp' <=> <<s, b>> \in LentApp)
      BY <1>5, <1>8
    <2> QED BY <1>3, <2>1, <2>2 DEF CountOk, Uses
  <1> QED BY <1>7, <1>8

LEMMA CountSteady ==
  ASSUME Inv, Steady, Lent' = Lent, LentApp' = LentApp, NEW s \in Streams, NEW b \in Bufs, CountOk(s, b)
  PROVE  CountOk(s, b)'
  <1>1. /\ refcnt \in [Streams -> [Bufs -> Nat]] /\ kernel \in [Streams -> SUBSET Bufs]
        /\ state \in [Streams -> {"REG", "ACTIVE", "OFF"}] /\ Phase
        /\ api.at \in 1 .. Len(StartOrder)
    BY DEF Inv, TypesOk, Call
  <1>2. CASE ~(StartStream \/ StopStream \/ UnregStream)
    <2>1. state' = state /\ kernel' = kernel /\ refcnt' = refcnt
      BY <1>2 DEF Steady, DropFrame, RequestSuperBuf, CancelSuperBuf, FlushSuperBufQueue, FlushDone, Start,
                  Stop, StopCmdThread, bufVars
    <2> QED BY <2>1, CountUnchanged
  <1>3. CASE StartStream
    <2> DEFINE t == StartOrder[api.at]
    <2>1. t \in Streams /\ state[t] = "REG"
      <3>1. api.op = "start" /\ ~(api.at < api.at)
        BY <1>1, <1>3 DEF StartStream
      <3> QED BY <1>1, <3>1, OrderOk DEF Phase
    <2>2. \A c \in Bufs : <<t, c>> \notin Lent /\ <<t, c>> \notin LentApp
      BY <1>1, <1>3, <2>1 DEF Phase, StartStream
    <2>3. /\ state' = [state EXCEPT ![t] = "ACTIVE"] /\ kernel' = [kernel EXCEPT ![t] = Bufs]
          /\ refcnt' = [refcnt EXCEPT ![t] = [c \in Bufs |-> 0]]
      BY <1>3 DEF StartStream
    <2> HIDE DEF t
    <2>4. CASE s = t
      <3>1. state'[s] = "ACTIVE" /\ b \in kernel'[s] /\ refcnt'[s][b] = 0
        BY <1>1, <2>1, <2>3, <2>4
      <3>2. Uses(<<s, b>>)' = 0
        BY <2>2, <2>4 DEF Uses
      <3> QED BY <3>1, <3>2 DEF CountOk
    <2>5. CASE s # t
      <3>1. state'[s] = state[s] /\ kernel'[s] = kernel[s] /\ refcnt'[s] = refcnt[s]
        BY <1>1, <2>1, <2>3, <2>5
      <3> QED BY <3>1, CountUnchanged
    <2> QED BY <2>4, <2>5
  <1>4. CASE StopStream
    <2> DEFINE t == stopOrder[api.at]
    <2>1. t \in Streams /\ state[t] = "ACTIVE"
      <3>1. api.op = "off" /\ ~(api.at < api.at)
        BY <1>1, <1>4 DEF StopStream
      <3> QED BY <1>1, <3>1, StopOrderOk DEF Phase
    <2>2. /\ state' = [state EXCEPT ![t] = "OFF"] /\ kernel' = [kernel EXCEPT ![t] = {}]
          /\ refcnt' = refcnt
      BY <1>4 DEF StopStream
    <2> HIDE DEF t
    <2>3. CASE s = t
      <3>1. state'[s] = "OFF"
        BY <1>1, <2>1, <2>2, <2>3
      <3> QED BY <2>1, <2>2, <2>3, <3>1 DEF CountOk, Uses
    <2>4. CASE s # t
      <3>1. state'[s] = state[s] /\ kernel'[s] = kernel[s] /\ refcnt'[s] = refcnt[s]
        BY <1>1, <2>1, <2>2, <2>4
      <3> QED BY <3>1, CountUnchanged
    <2> QED BY <2>3, <2>4
  <1>5. CASE UnregStream
    <2> DEFINE t == stopOrder[api.at]
    <2>1. t \in Streams
      BY <1>1, StopOrderOk
    <2>2. /\ state' = [state EXCEPT ![t] = "REG"] /\ kernel' = [kernel EXCEPT ![t] = {}]
          /\ refcnt' = [refcnt EXCEPT ![t] = [c \in Bufs |-> 0]]
      BY <1>5 DEF UnregStream
    <2> HIDE DEF t
    <2>3. CASE s = t
      <3>1. state'[s] = "REG"
        BY <1>1, <2>1, <2>2, <2>3
      <3> QED BY <3>1 DEF CountOk
    <2>4. CASE s # t
      <3>1. state'[s] = state[s] /\ kernel'[s] = kernel[s] /\ refcnt'[s] = refcnt[s]
        BY <1>1, <2>1, <2>2, <2>4
      <3> QED BY <3>1, CountUnchanged
    <2> QED BY <2>3, <2>4
  <1> QED BY <1>2, <1>3, <1>4, <1>5

LEMMA CountedStep ==
  ASSUME Inv, Next
  PROVE  Counted'
  <1>1. /\ TypesOk /\ refcnt \in [Streams -> [Bufs -> Nat]]
        /\ state \in [Streams -> {"REG", "ACTIVE", "OFF"}]
    BY DEF Inv, TypesOk
  <1>2. ASSUME NEW s \in Streams, NEW b \in Bufs
        PROVE  CountOk(s, b)'
    <2>1. CountOk(s, b)
      BY DEF Inv, Counted, CountOk
    <2>2. CASE Steady /\ Lent' = Lent /\ LentApp' = LentApp
      BY <2>1, <2>2, CountSteady
    <2>3. CASE \E u \in Streams : Takes(u)
      BY <1>1, <2>1, <2>3, CountTakes
    <2>4. CASE \E back : GaveBack(back)
      BY <1>1, <2>1, <2>4, CountGaveBack
    <2>5. CASE Forgets
      <3>1. <<s, b>> \in Pairs /\ <<s, b>>[1] = s
        BY DEF Pairs
      <3>2. state[s] # "REG" => (<<s, b>> \in Lent' <=> <<s, b>> \in Lent)
                                /\ (<<s, b>> \in LentApp' <=> <<s, b>> \in LentApp)
        BY <2>5, <3>1 DEF Forgets
      <3>3. state'[s] = state[s] /\ kernel'[s] = kernel[s] /\ refcnt'[s][b] = refcnt[s][b]
        BY <2>5 DEF Forgets
      <3> QED BY <2>1, <3>2, <3>3, CountUnchanged
    <2> QED BY <2>2, <2>3, <2>4, <2>5, PlacesStep
  <1> QED BY <1>2 DEF Counted, CountOk

-----------------------------------------------------------------------------
(* The progress of the HAL's call. *)

(* A thread of a stream that is not registered has nothing to do.           *)
Rested == \A s \in Streams : state[s] = "REG" => strq[s] = <<>>

LEMMA RestedStep ==
  ASSUME Inv, Next
  PROVE  Rested'
  <1>1. /\ strq \in [Streams -> Seq(Bufs)] /\ state \in [Streams -> {"REG", "ACTIVE", "OFF"}]
        /\ Rested /\ api.at \in 1 .. Len(StartOrder)
    BY DEF Inv, TypesOk, Phase, Call, Rested
  <1>2. CASE HandleRcvdBuf
    <2>1. /\ state' = state
          /\ strq' = IF poll.s \in AppStreams /\ state[poll.s] \in {"ACTIVE", "OFF"}
                     THEN [strq EXCEPT ![poll.s] = Append(@, poll.b)] ELSE strq
      BY <1>2 DEF HandleRcvdBuf
    <2>2. ASSUME NEW s \in Streams, state[s] = "REG" PROVE strq'[s] = strq[s]
      BY <1>1, <2>1, <2>2
    <2> QED BY <1>1, <2>1, <2>2 DEF Rested
  <1>3. CASE \E u \in Streams : DispatchAppData(u)
    <2>1. PICK u \in Streams : DispatchAppData(u)
      BY <1>3
    <2>2. state' = state /\ strq[u] # <<>> /\ strq' = [strq EXCEPT ![u] = Tail(@)]
      BY <2>1 DEF DispatchAppData
    <2>3. ASSUME NEW s \in Streams, state[s] = "REG" PROVE strq'[s] = strq[s]
      BY <1>1, <2>2, <2>3 DEF Rested
    <2> QED BY <1>1, <2>2, <2>3 DEF Rested
  <1>4. CASE StartStream
    <2>1. StartOrder[api.at] \in Streams /\ strq' = strq
          /\ state' = [state EXCEPT ![StartOrder[api.at]] = "ACTIVE"]
      BY <1>1, <1>4, OrderOk DEF StartStream
    <2> QED BY <1>1, <2>1 DEF Rested
  <1>5. CASE StopStream
    <2>1. stopOrder[api.at] \in Streams /\ strq' = strq
          /\ state' = [state EXCEPT ![stopOrder[api.at]] = "OFF"]
      BY <1>1, <1>5, StopOrderOk DEF StopStream
    <2> QED BY <1>1, <2>1 DEF Rested
  <1>6. CASE UnregStream
    <2>1. stopOrder[api.at] \in Streams /\ strq' = strq /\ strq[stopOrder[api.at]] = <<>>
          /\ state' = [state EXCEPT ![stopOrder[api.at]] = "REG"]
      BY <1>1, <1>6, StopOrderOk DEF UnregStream
    <2> QED BY <1>1, <2>1 DEF Rested
  <1>7. CASE ProcessStreamBuf
    BY <1>1, <1>7, ThreadStep DEF Rested
  <1>8. CASE \/ Hardware \/ DispatchSuperBuf \/ HalReturns \/ RequestSuperBuf \/ CancelSuperBuf
             \/ FlushSuperBufQueue \/ FlushDone \/ Start \/ Stop \/ StopCmdThread \/ StopCbThread
    <2>1. state' = state /\ strq' = strq
      BY <1>8 DEF Hardware, DropFrame, ReadFrame, DispatchSuperBuf, HalReturns, ReturnHal, ReturnApp,
         RequestSuperBuf, CancelSuperBuf, FlushSuperBufQueue, FlushDone, Start, Stop, StopCmdThread,
         StopCbThread, bufVars
    <2> QED BY <1>1, <2>1 DEF Rested
  <1> QED BY <1>2, <1>3, <1>4, <1>5, <1>6, <1>7, <1>8, NextCases

(* The threads and the hardware run on while a call is at the same step.    *)
Calm ==
  /\ state' = state /\ alive' = alive /\ api'.op = api.op /\ api'.at = api.at
  /\ crashed' => ~alive'
  /\ api.op = "none" /\ ~alive /\ ~crashed' => ch'.queue = <<>> /\ cmdq' = <<>> /\ cbq' = <<>>
  /\ ch'.queue = ch.queue \/ alive

LEMMA CalmActions ==
  ASSUME Inv, Next,
         Hardware \/ HandleRcvdBuf \/ ProcessStreamBuf \/ DispatchSuperBuf
         \/ (\E s \in Streams : DispatchAppData(s)) \/ HalReturns \/ RequestSuperBuf \/ CancelSuperBuf
  PROVE  Calm
  <1>1. /\ ~crashed /\ crashed \in BOOLEAN /\ alive \in BOOLEAN /\ api \in Call
        /\ (api.op = "none" /\ ~alive => ch.queue = <<>> /\ cmdq = <<>> /\ cbq = <<>>)
    BY AttrSame DEF Inv, TypesOk, Phase
  <1>2. CASE ProcessStreamBuf
    <2>1. /\ alive /\ alive' = alive /\ state' = state
          /\ api' = IF IsFlush(Head(cmdq)) THEN [api EXCEPT !.ack = TRUE] ELSE api
          /\ crashed' = crashed
      BY <1>2, ThreadStep, TurnStep
    <2>2. api'.op = api.op /\ api'.at = api.at
      BY <1>1, <2>1 DEF Call
    <2> QED BY <1>1, <2>1, <2>2 DEF Calm
  <1>3. CASE HandleRcvdBuf
    <2>1. /\ alive' = alive /\ state' = state /\ api' = api /\ ch' = ch /\ cbq' = cbq
          /\ crashed' = (crashed \/ ~alive)
      BY <1>3 DEF HandleRcvdBuf
    <2> QED BY <1>1, <2>1 DEF Calm
  <1>4. CASE DispatchSuperBuf
    <2>1. /\ alive' = alive /\ state' = state /\ api' = api /\ ch' = ch /\ cmdq' = cmdq
          /\ crashed' = crashed /\ cbq # <<>>
      BY <1>4 DEF DispatchSuperBuf
    <2> QED BY <1>1, <2>1 DEF Calm
  <1>5. CASE RequestSuperBuf \/ CancelSuperBuf
    <2>1. /\ alive' = alive /\ state' = state /\ api' = api /\ ch' = ch /\ alive
          /\ crashed' = crashed
      BY <1>5 DEF RequestSuperBuf, CancelSuperBuf, bufVars, active
    <2> QED BY <1>1, <2>1 DEF Calm
  <1>6. CASE Hardware \/ (\E s \in Streams : DispatchAppData(s)) \/ HalReturns
    <2>1. /\ alive' = alive /\ state' = state /\ api' = api /\ ch' = ch /\ cmdq' = cmdq /\ cbq' = cbq
          /\ crashed' = crashed
      BY <1>6 DEF Hardware, DropFrame, ReadFrame, DispatchAppData, HalReturns, ReturnHal, ReturnApp,
                  chanVars
    <2> QED BY <1>1, <2>1 DEF Calm
  <1> QED BY <1>2, <1>3, <1>4, <1>5, <1>6

(* A buffer of a stream that is not registered is not taken into use.       *)
LEMMA StillFree ==
  ASSUME Inv, Next, NEW s \in Streams, state[s] = "REG", NEW b \in Bufs,
         <<s, b>> \notin Lent, <<s, b>> \notin LentApp
  PROVE  <<s, b>> \notin Lent' /\ <<s, b>> \notin LentApp'
  <1>1. CASE \E u \in Streams : Takes(u)
    <2>1. PICK u \in Streams : Takes(u)
      BY <1>1
    <2>2. s # u
      BY <2>1 DEF Takes, ReadFrame
    <2> QED BY <2>1, <2>2 DEF Takes
  <1>2. CASE Lent' = Lent /\ LentApp' = LentApp
    BY <1>2
  <1>3. CASE \E back : GaveBack(back)
    BY <1>3 DEF GaveBack
  <1>4. CASE Forgets
    BY <1>4 DEF Forgets
  <1> QED BY <1>1, <1>2, <1>3, <1>4, PlacesStep

LEMMA PhaseCalm ==
  ASSUME Inv, Next, Calm
  PROVE  Phase'
  <1>1. Phase /\ Rested' /\ alive \in BOOLEAN
    BY RestedStep DEF Inv, TypesOk
  <1>2. api'.op = "start" => \A s \in Streams : state'[s] = "REG" =>
            \A b \in Bufs : <<s, b>> \notin Lent' /\ <<s, b>> \notin LentApp'
    BY <1>1, StillFree DEF Calm, Phase
  <1>3. /\ api'.op \in {"none", "flush"} /\ alive' => AllIn("ACTIVE")'
        /\ api'.op = "none" /\ ~alive' =>
             /\ AllIn("REG")' /\ ch'.queue = <<>>
             /\ ~crashed' => cmdq' = <<>> /\ cbq' = <<>>
        /\ api'.op \in {"flush", "start", "off", "join", "ack"} => alive'
    BY <1>1 DEF Calm, Phase, AllIn
  <1>4. /\ api'.op = "start" => \A i \in 1 .. Len(StartOrder) :
             state'[StartOrder[i]] = IF i < api'.at THEN "ACTIVE" ELSE "REG"
        /\ api'.op = "off" => \A i \in 1 .. Len(StartOrder) :
             state'[stopOrder[i]] = IF i < api'.at THEN "REG" ELSE "ACTIVE"
        /\ api'.op = "join" => \A i \in 1 .. Len(StartOrder) :
             state'[stopOrder[i]] = IF i < api'.at THEN "REG" ELSE IF i = api'.at THEN "OFF" ELSE "ACTIVE"
    BY <1>1 DEF Calm, Phase
  <1>5. /\ api'.op = "ack" => AllIn("REG")'
        /\ api'.op = "exit" => ~alive' /\ AllIn("REG")'
        /\ crashed' => ~alive'
    BY <1>1 DEF Calm, Phase, AllIn
  <1> QED BY <1>1, <1>2, <1>3, <1>4, <1>5 DEF Phase, Rested

LEMMA PhaseStart ==
  ASSUME Inv, Next, Start
  PROVE  Phase'
  <1>1. Rested' /\ ~crashed /\ AllIn("REG") /\ Lent = {} /\ LentApp = {} /\ Len(StartOrder) \in Nat
    BY RestedStep, AttrSame, StartEmpty, OrderOk
  <1>2. /\ alive' = TRUE /\ api' = [op |-> "start", at |-> 1, ack |-> FALSE] /\ state' = state
        /\ crashed' = crashed
    BY DEF Start, bufVars
  <1>3. Lent' = Lent /\ LentApp' = LentApp
    BY SteadyUnmoved, UnmovedPlaces DEF Steady, Inv
  <1>4. \A i \in 1 .. Len(StartOrder) : state'[StartOrder[i]] = "REG" /\ ~(i < 1)
    BY <1>1, <1>2, OrderOk DEF AllIn
  <1>5. crashed' = FALSE
    BY <1>1, <1>2 DEF Inv, TypesOk
  <1>6. api'.op = "start" /\ api'.at = 1
    BY <1>2
  <1> QED BY <1>1, <1>2, <1>3, <1>4, <1>5, <1>6 DEF Phase, Rested, AllIn

LEMMA PhaseStartStream ==
  ASSUME Inv, Next, StartStream
  PROVE  Phase'
  <1>1. /\ Rested' /\ ~crashed /\ Phase /\ state \in [Streams -> {"REG", "ACTIVE", "OFF"}] /\ api \in Call
    BY RestedStep, AttrSame DEF Inv, TypesOk
  <1>2. api.op = "start" /\ alive /\ api.at \in 1 .. Len(StartOrder) /\ Len(StartOrder) \in Nat
    BY <1>1, OrderOk DEF StartStream, Phase, Call
  <1> DEFINE k == api.at
             t == StartOrder[k]
  <1>3. /\ state' = [state EXCEPT ![t] = "ACTIVE"] /\ alive' = alive /\ crashed' = crashed
        /\ api' = IF k = Len(StartOrder) THEN [api EXCEPT !.op = "none"] ELSE [api EXCEPT !.at = @ + 1]
    BY DEF StartStream
  <1>4. t \in Streams /\ \A i \in 1 .. Len(StartOrder) : StartOrder[i] \in Streams /\ (StartOrder[i] = t <=> i = k)
    BY <1>2, OrderOk
  <1>5. \A i \in 1 .. Len(StartOrder) : state[StartOrder[i]] = IF i < k THEN "ACTIVE" ELSE "REG"
    BY <1>1, <1>2 DEF Phase
  <1>6. k \in Nat /\ k <= Len(StartOrder)
    BY <1>2
  <1> HIDE DEF t
  <1>7. \A i \in 1 .. Len(StartOrder) : state'[StartOrder[i]] = IF i <= k THEN "ACTIVE" ELSE "REG"
    <2> SUFFICES ASSUME NEW i \in 1 .. Len(StartOrder)
                 PROVE  state'[StartOrder[i]] = IF i <= k THEN "ACTIVE" ELSE "REG"
      OBVIOUS
    <2>1. CASE i = k
      BY <1>1, <1>3, <1>4, <1>6, <2>1
    <2>2. CASE i # k
      <3>1. state'[StartOrder[i]] = state[StartOrder[i]]
        BY <1>1, <1>3, <1>4, <2>2
      <3>2. i < k <=> i <= k
        BY <1>6, <2>2
      <3> QED BY <1>5, <3>1, <3>2
    <2> QED BY <2>1, <2>2
  <1>8. CASE k = Len(StartOrder)
    <2>1. api'.op = "none"
      BY <1>1, <1>3, <1>8 DEF Call
    <2>2. \A i \in 1 .. Len(StartOrder) : state'[StartOrder[i]] = "ACTIVE"
      BY <1>7, <1>8
    <2>3. AllIn("ACTIVE")'
      BY <2>2, OrderOk DEF AllIn
    <2> QED BY <1>1, <1>2, <1>3, <2>1, <2>3 DEF Phase, Rested
  <1>9. CASE k # Len(StartOrder)
    <2>1. api'.op = "start" /\ api'.at = k + 1
      BY <1>1, <1>2, <1>3, <1>9 DEF Call
    <2>2. \A i \in 1 .. Len(StartOrder) : state'[StartOrder[i]] = IF i < k + 1 THEN "ACTIVE" ELSE "REG"
      BY <1>6, <1>7
    <2>3. ASSUME NEW s \in Streams, state'[s] = "REG", NEW b \in Bufs
          PROVE  <<s, b>> \notin Lent' /\ <<s, b>> \notin LentApp'
      <3>1. state[s] = "REG"
        BY <1>1, <1>3, <1>4, <2>3
      <3>2. <<s, b>> \notin Lent /\ <<s, b>> \notin LentApp
        BY <1>1, <1>2, <3>1 DEF Phase
      <3> QED BY <3>1, <3>2, StillFree
    <2> QED BY <1>1, <1>2, <1>3, <2>1, <2>2, <2>3 DEF Phase, Rested
  <1> QED BY <1>8, <1>9

LEMMA PhaseStop ==
  ASSUME Inv, Next, Stop \/ StopStream \/ UnregStream
  PROVE  Phase'
  <1>1. /\ Rested' /\ ~crashed /\ Phase /\ state \in [Streams -> {"REG", "ACTIVE", "OFF"}] /\ api \in Call
        /\ api.at \in 1 .. Len(StartOrder) /\ Len(StartOrder) \in Nat /\ crashed' = crashed /\ alive' = alive
    BY RestedStep, AttrSame, OrderOk DEF Inv, TypesOk, Call, Stop, StopStream, UnregStream
  <1> DEFINE k == api.at
             t == stopOrder[k]
  <1>2. t \in Streams /\ \A i \in 1 .. Len(StartOrder) : stopOrder[i] \in Streams /\ (stopOrder[i] = t <=> i = k)
    BY <1>1, StopOrderOk
  <1>3. k \in Nat /\ k <= Len(StartOrder)
    BY <1>1
  <1> HIDE DEF t
  <1>4. CASE Stop
    <2>1. /\ api.op = "none" /\ alive /\ api' = [op |-> "off", at |-> 1, ack |-> FALSE]
          /\ state' = state
      BY <1>4 DEF Stop, active, bufVars
    <2>2. AllIn("ACTIVE")
      BY <1>1, <2>1 DEF Phase
    <2>3. \A i \in 1 .. Len(StartOrder) : state'[stopOrder[i]] = IF i < 1 THEN "REG" ELSE "ACTIVE"
      BY <1>2, <2>1, <2>2 DEF AllIn
    <2>4. api'.op = "off" /\ api'.at = 1
      BY <2>1
    <2> QED BY <1>1, <2>1, <2>3, <2>4 DEF Phase, Rested
  <1>5. CASE StopStream
    <2>1. /\ api.op = "off" /\ api' = [api EXCEPT !.op = "join"]
          /\ state' = [state EXCEPT ![t] = "OFF"] /\ alive
      BY <1>1, <1>5 DEF StopStream, Phase, t
    <2>2. \A i \in 1 .. Len(StartOrder) : state[stopOrder[i]] = IF i < k THEN "REG" ELSE "ACTIVE"
      BY <1>1, <2>1 DEF Phase
    <2>3. api'.op = "join" /\ api'.at = k
      BY <1>1, <2>1 DEF Call
    <2>4. ASSUME NEW i \in 1 .. Len(StartOrder)
          PROVE  state'[stopOrder[i]] = IF i < k THEN "REG" ELSE IF i = k THEN "OFF" ELSE "ACTIVE"
      <3>1. CASE i = k
        BY <1>1, <1>2, <1>3, <2>1, <3>1
      <3>2. CASE i # k
        <4>1. state'[stopOrder[i]] = state[stopOrder[i]]
          BY <1>1, <1>2, <2>1, <3>2
        <4> QED BY <2>2, <3>2, <4>1
      <3> QED BY <3>1, <3>2
    <2> HIDE DEF k
    <2> QED BY <1>1, <2>1, <2>3, <2>4 DEF Phase, Rested
  <1>6. CASE UnregStream
    <2>1. /\ api.op = "join" /\ state' = [state EXCEPT ![t] = "REG"] /\ alive
          /\ api' = IF k < Len(StartOrder) THEN [api EXCEPT !.op = "off", !.at = @ + 1]
                    ELSE [api EXCEPT !.op = "ack"]
      BY <1>1, <1>6 DEF UnregStream, Phase, t
    <2>2. \A i \in 1 .. Len(StartOrder) :
            state[stopOrder[i]] = IF i < k THEN "REG" ELSE IF i = k THEN "OFF" ELSE "ACTIVE"
      BY <1>1, <2>1 DEF Phase
    <2>3. ASSUME NEW i \in 1 .. Len(StartOrder)
          PROVE  state'[stopOrder[i]] = IF i <= k THEN "REG" ELSE "ACTIVE"
      <3>1. CASE i = k
        BY <1>1, <1>2, <1>3, <2>1, <3>1
      <3>2. CASE i # k
        <4>1. state'[stopOrder[i]] = state[stopOrder[i]]
          BY <1>1, <1>2, <2>1, <3>2
        <4>2. i < k <=> i <= k
          BY <1>3, <3>2
        <4> QED BY <2>2, <3>2, <4>1, <4>2
      <3> QED BY <3>1, <3>2
    <2>4. CASE k < Len(StartOrder)
      <3>1. api'.op = "off" /\ api'.at = k + 1
        BY <1>1, <2>1, <2>4 DEF Call
      <3>2. \A i \in 1 .. Len(StartOrder) : state'[stopOrder[i]] = IF i < k + 1 THEN "REG" ELSE "ACTIVE"
        BY <1>3, <2>3
      <3> QED BY <1>1, <2>1, <3>1, <3>2 DEF Phase, Rested
    <2>5. CASE ~(k < Len(StartOrder))
      <3>1. api'.op = "ack"
        BY <1>1, <2>1, <2>5 DEF Call
      <3>2. \A i \in 1 .. Len(StartOrder) : state'[stopOrder[i]] = "REG"
        BY <1>3, <2>3, <2>5
      <3>3. AllIn("REG")'
        BY <3>2, StopOrderOk DEF AllIn
      <3> QED BY <1>1, <2>1, <3>1, <3>3 DEF Phase, Rested
    <2> QED BY <2>4, <2>5
  <1> QED BY <1>4, <1>5, <1>6

LEMMA PhaseStep ==
  ASSUME Inv, Next
  PROVE  Phase'
  <1>1. /\ Rested' /\ ~crashed /\ Phase /\ api \in Call /\ crashed \in BOOLEAN
    BY RestedStep, AttrSame DEF Inv, TypesOk
  <1>2. CASE Hardware \/ HandleRcvdBuf \/ ProcessStreamBuf \/ DispatchSuperBuf
             \/ (\E s \in Streams : DispatchAppData(s)) \/ HalReturns \/ RequestSuperBuf \/ CancelSuperBuf
    BY <1>2, CalmActions, PhaseCalm
  <1>3. CASE FlushSuperBufQueue
    <2>1. /\ api.op = "none" /\ alive /\ api' = [op |-> "flush", at |-> 1, ack |-> FALSE]
          /\ state' = state /\ alive' = alive /\ crashed' = crashed
      BY <1>3 DEF FlushSuperBufQueue, active, bufVars
    <2>2. AllIn("ACTIVE") /\ api'.op = "flush"
      BY <1>1, <2>1 DEF Phase
    <2> QED BY <1>1, <2>1, <2>2 DEF Phase, Rested, AllIn
  <1>4. CASE FlushDone
    <2>1. /\ api.op = "flush" /\ api' = [op |-> "none", at |-> 1, ack |-> FALSE]
          /\ state' = state /\ alive' = alive /\ crashed' = crashed
      BY <1>4 DEF FlushDone, bufVars
    <2>2. alive /\ AllIn("ACTIVE") /\ api'.op = "none"
      BY <1>1, <2>1 DEF Phase
    <2> QED BY <1>1, <2>1, <2>2 DEF Phase, Rested, AllIn
  <1>5. CASE StopCmdThread
    <2>1. /\ api.op = "ack" /\ api' = [api EXCEPT !.op = "exit"]
          /\ state' = state /\ alive' = FALSE /\ crashed' = crashed
      BY <1>5 DEF StopCmdThread, bufVars
    <2>2. AllIn("REG") /\ api'.op = "exit"
      BY <1>1, <2>1 DEF Phase, Call
    <2> QED BY <1>1, <2>1, <2>2 DEF Phase, Rested, AllIn
  <1>6. CASE StopCbThread
    <2>1. /\ api.op = "exit" /\ api' = [op |-> "none", at |-> 1, ack |-> FALSE] /\ cbq = <<>>
          /\ ch' = EmptyQueue(ch) /\ cmdq' = <<>> /\ cbq' = cbq
          /\ state' = state /\ alive' = alive /\ crashed' = crashed
      BY <1>6 DEF StopCbThread, bufVars
    <2>2. AllIn("REG") /\ ~alive /\ api'.op = "none"
      BY <1>1, <2>1 DEF Phase
    <2>3. ch'.queue = <<>>
      BY <2>1, EmptyQueueTypes DEF Inv, TypesOk
    <2> QED BY <1>1, <2>1, <2>2, <2>3 DEF Phase, Rested, AllIn
  <1>7. CASE Start
    BY <1>7, PhaseStart
  <1>8. CASE StartStream
    BY <1>8, PhaseStartStream
  <1>9. CASE Stop \/ StopStream \/ UnregStream
    BY <1>9, PhaseStop
  <1> QED BY <1>2, <1>3, <1>4, <1>5, <1>6, <1>7, <1>8, <1>9, NextCases

-----------------------------------------------------------------------------
(* The invariant. *)

LEMMA InvInit ==
  ASSUME Init
  PROVE  Inv
  <1>1. /\ Len(StartOrder) \in Nat \ {0} /\ 1 \in 1 .. Len(StartOrder)
    BY OrderOk
  <1>2. attr \in Attrs /\ attr.water_mark \in Nat
    BY AttrTypes DEF Init
  <1>3. /\ ch \in Channel /\ ch.queue = <<>> /\ ch.match_cnt = 0 /\ ch.pending_cnt = 0
    BY DEF Init, NoRequest, Channel
  <1>4. TypesOk
    <2>1. api \in Call
      BY <1>1 DEF Init, Call
    <2>2. /\ state \in [Streams -> {"REG", "ACTIVE", "OFF"}] /\ kernel \in [Streams -> SUBSET Bufs]
          /\ frame \in [Streams -> Nat]
      BY DEF Init
    <2>3. refcnt \in [Streams -> [Bufs -> Nat]]
      BY DEF Init
    <2>4. strq \in [Streams -> Seq(Bufs)] /\ cmdq \in Seq(Cmd) /\ cbq \in Seq(Super)
      BY DEF Init
    <2> QED BY <1>2, <1>3, <2>1, <2>2, <2>3, <2>4 DEF Init, TypesOk
  <1>5. QueueOk(ch, Passed)
    BY <1>2, <1>3, EmptyOk
  <1>6. /\ cmdq = <<>> /\ cbq = <<>> /\ (\A s \in Streams : strq[s] = <<>>) /\ poll = Idle
        /\ hal = {} /\ app = {}
    BY DEF Init
  <1>7. InOrder
    BY <1>6 DEF InOrder
  <1>8. InPoll = {} /\ InPollApp = {} /\ InCmds = {} /\ InSupers = {}
    BY <1>6 DEF InPoll, InPollApp, InCmds, InSupers
  <1>9. InQueue = {}
    BY <1>3, HeldInEmpty DEF InQueue, HeldIn
  <1>10. InThreads = {}
    BY <1>6 DEF InThreads, Pairs
  <1>11. Disjoint
    BY <1>6, <1>8, <1>9, <1>10 DEF Disjoint
  <1>12. UniqueCmds /\ UniqueSupers /\ UniqueThreads
    BY <1>6 DEF UniqueCmds, UniqueSupers, UniqueThreads
  <1>13. Supers
    BY <1>6 DEF Supers
  <1>14. AllIn("REG") /\ api.op = "none" /\ ~alive /\ ~crashed
    BY DEF Init, AllIn
  <1>15. Counted
    BY <1>14 DEF Counted, AllIn
  <1>16. Phase
    BY <1>3, <1>6, <1>14 DEF Phase
  <1>17. Kept
    BY <1>2, <1>3 DEF Kept
  <1> QED BY <1>4, <1>5, <1>7, <1>11, <1>12, <1>13, <1>15, <1>16, <1>17 DEF Inv, OnePlace

LEMMA InvStutter ==
  ASSUME Inv, UNCHANGED vars
  PROVE  Inv'
  <1>1. /\ attr' = attr /\ ch' = ch /\ crashed' = crashed /\ api' = api /\ alive' = alive
        /\ cmdq' = cmdq /\ cbq' = cbq /\ asked' = asked /\ prep' = prep /\ calls' = calls
        /\ runs' = runs /\ state' = state /\ kernel' = kernel /\ frame' = frame
        /\ refcnt' = refcnt /\ poll' = poll /\ strq' = strq /\ hal' = hal /\ app' = app
    BY DEF vars, chanVars, bufVars
  <1>2. TypesOk'
    BY <1>1 DEF Inv, TypesOk
  <1>3. QueueOk(ch, Passed)'
    <2>1. Passed' = Passed
      BY <1>1 DEF Passed, Behind
    <2> QED BY <1>1, <2>1, QueuePrime DEF Inv
  <1>4. InOrder'
    BY <1>1 DEF Inv, InOrder
  <1>5. OnePlace' /\ Supers' /\ Lent' = Lent /\ LentApp' = LentApp
    <2>1. InCmds' = InCmds /\ UniqueCmds'
      BY <1>1, SameCmds DEF Inv, OnePlace
    <2>2. Unmoved
      BY <1>1, <2>1 DEF Unmoved
    <2> QED BY <2>2, UnmovedPlaces DEF Inv
  <1>6. Counted'
    BY <1>1, <1>5 DEF Inv, Counted, Uses
  <1>7. Phase'
    BY <1>1, <1>5 DEF Inv, Phase, AllIn
  <1>8. Kept'
    BY <1>1 DEF Inv, Kept, Burst
  <1> QED BY <1>2, <1>3, <1>4, <1>5, <1>6, <1>7, <1>8 DEF Inv

LEMMA InvStep ==
  ASSUME Inv, [Next]_vars
  PROVE  Inv'
  <1>1. CASE Next
    BY <1>1, TypesStep, QueueStep, InOrderStep, PlacesStep, CountedStep, PhaseStep, KeptStep DEF Inv
  <1>2. CASE UNCHANGED vars
    BY <1>2, InvStutter
  <1> QED BY <1>1, <1>2

LEMMA Invariance == Spec => []Inv
  BY InvInit, InvStep, PTL DEF Spec

(* Every variable keeps its type.                                           *)
THEOREM TypeCorrect == Spec => []TypesOk
  <1>1. Inv => TypesOk
    BY DEF Inv
  <1> QED BY <1>1, Invariance, PTL

-----------------------------------------------------------------------------
(* What the invariant says of the channel. *)

(* match_cnt counts the matched nodes, and these are the first of the       *)
(* queue: the loops over match_cnt of mm_channel_superbuf_skip and of       *)
(* mm_channel_superbuf_bufdone_overflow end.                                *)
THEOREM LoopsEnd == Spec => []MatchedFirst
  <1>1. ASSUME Inv PROVE MatchedFirst
    <2>1. /\ Cardinality(DOMAIN ch.queue \ unmatched(ch.queue)) = ch.match_cnt
          /\ DOMAIN ch.queue = 1 .. Len(ch.queue) /\ ch.match_cnt \in 0 .. Len(ch.queue)
      BY <1>1, UnmatchedOf DEF Inv
    <2>2. \A i \in 1 .. Len(ch.queue) : ch.queue[i].matched <=> i <= ch.match_cnt
      BY <1>1 DEF Inv, QueueOk, MatchedPrefix
    <2>3. \A i, j \in DOMAIN ch.queue : i < j /\ ch.queue[j].matched => ch.queue[i].matched
      BY <2>1, <2>2
    <2> QED BY <2>1, <2>3 DEF MatchedFirst
  <1> QED BY <1>1, Invariance, PTL

(* The queue holds at most one unmatched node over the limit, and at most   *)
(* the water mark of matched ones; nothing ever goes wrong in the command   *)
(* thread, which can only be gone when a late frame comes.                  *)
THEOREM QueueLimit == Spec => []QueueBounded
  <1>1. ASSUME Inv PROVE QueueBounded
    <2>1. Cardinality(unmatched(ch.queue)) = Len(ch.queue) - ch.match_cnt
      BY <1>1, UnmatchedOf DEF Inv
    <2>2. Len(ch.queue) - ch.match_cnt <= attr.max_unmatched_frames + 1
      BY <1>1 DEF Inv, QueueOk, Bounded
    <2> QED BY <1>1, <2>1, <2>2 DEF QueueBounded, Inv, Kept, Phase
  <1> QED BY <1>1, Invariance, PTL

(* Every super buffer on its way to the HAL is of one frame.                *)
THEOREM SuperBufferOfOneFrame == Spec => []OneFrame
  <1>1. ASSUME Inv PROVE OneFrame
    <2> SUFFICES ASSUME NEW i \in DOMAIN cbq,
                        NEW s \in IF Low THEN Streams \ {Meta} ELSE Streams,
                        NEW t \in IF Low THEN Streams \ {Meta} ELSE Streams
                 PROVE  cbq[i].slot[s].frame_idx = cbq[i].slot[t].frame_idx
      BY DEF OneFrame
    <2>1. i \in 1 .. Len(cbq)
      BY <1>1 DEF Inv, TypesOk
    <2>2. SuperOk(cbq[i].slot)
      BY <1>1, <2>1 DEF Inv, Supers
    <2>3. s \in Streams /\ t \in Streams /\ (Low => s # Meta /\ t # Meta)
      OBVIOUS
    <2> QED BY <2>2, <2>3 DEF SuperOk
  <1> QED BY <1>1, Invariance, PTL

(* While a request waits, no complete super buffer stays in the queue.      *)
THEOREM RequestServed == Spec => []NoneKeptBack
  <1>1. ASSUME Inv PROVE NoneKeptBack
    <2> SUFFICES ASSUME ch.pending_cnt > 0, ~ch.bWaitForPrepSnapshotDone, NEW i \in DOMAIN ch.queue
                 PROVE  ~ch.queue[i].matched
      BY DEF NoneKeptBack
    <2>1. ch.match_cnt = 0
      BY <1>1 DEF Inv, Kept
    <2>2. i \in 1 .. Len(ch.queue)
      BY <1>1 DEF Inv, TypesOk, Channel
    <2>3. ch.queue[i].matched <=> i <= ch.match_cnt
      BY <1>1, <2>2 DEF Inv, QueueOk, MatchedPrefix
    <2>4. ~(i <= 0)
      BY <2>2
    <2> QED BY <2>1, <2>3, <2>4
  <1> QED BY <1>1, Invariance, PTL

-----------------------------------------------------------------------------
(* The holders of a buffer. *)

In(p, X) == IF p \in X THEN 1 ELSE 0

LEMMA OneAtMost ==
  ASSUME NEW S, \A i, j \in S : i = j
  PROVE  Cardinality(S) = IF S = {} THEN 0 ELSE 1
  <1>1. CASE S = {}
    BY <1>1, FS_EmptySet
  <1>2. CASE S # {}
    <2>1. PICK x \in S : TRUE
      BY <1>2
    <2>2. S = {x}
      BY <2>1
    <2> HIDE <2>1
    <2>3. Cardinality({x}) = 1
      BY FS_Singleton
    <2> QED BY <1>2, <2>2, <2>3
  <1> QED BY <1>1, <1>2

(* In each place a buffer is held once or not at all.                       *)
LEMMA HeldOnce ==
  ASSUME Inv, NEW s \in Streams, NEW b \in Bufs, NEW p, p = <<s, b>>
  PROVE  /\ Cardinality({i \in DOMAIN cmdq : cmdq[i].cmd = "DATA_CB" /\ cmdq[i].s = s /\ cmdq[i].b = b})
              = In(p, InCmds)
         /\ Cardinality({i \in DOMAIN ch.queue : ch.queue[i].slot[s].buf = b}) = In(p, InQueue)
         /\ Cardinality({i \in DOMAIN cbq : cbq[i].slot[s].buf = b}) = In(p, InSupers)
         /\ Cardinality({i \in DOMAIN strq[s] : strq[s][i] = b}) = In(p, InThreads)
         /\ Cardinality({p} \cap hal) = In(p, hal) /\ Cardinality({p} \cap app) = In(p, app)
  <1>1. /\ OnePlace /\ QueueOk(ch, Passed)
        /\ cmdq \in Seq(Cmd) /\ cbq \in Seq(Super) /\ strq[s] \in Seq(Bufs) /\ ch.queue \in Seq(Node)
    BY DEF Inv, TypesOk, Channel
  <1>2. p \in Pairs /\ p[1] = s /\ p[2] = b
    BY DEF Pairs
  <1>3. b # NoBuf
    BY ChannelAssumption DEF Bufs, NoBuf
  <1>4. /\ DOMAIN cmdq = 1 .. Len(cmdq) /\ DOMAIN cbq = 1 .. Len(cbq)
        /\ DOMAIN strq[s] = 1 .. Len(strq[s]) /\ DOMAIN ch.queue = 1 .. Len(ch.queue)
    BY <1>1
  <1>5. Cardinality({i \in DOMAIN cmdq : cmdq[i].cmd = "DATA_CB" /\ cmdq[i].s = s /\ cmdq[i].b = b})
          = In(p, InCmds)
    <2> DEFINE S == {i \in DOMAIN cmdq : cmdq[i].cmd = "DATA_CB" /\ cmdq[i].s = s /\ cmdq[i].b = b}
    <2>1. \A i, j \in S : i = j
      BY <1>1, <1>4 DEF OnePlace, UniqueCmds
    <2>2. S = {} <=> p \notin InCmds
      BY <1>2, <1>4 DEF InCmds
    <2> HIDE DEF S
    <2>3. Cardinality(S) = IF S = {} THEN 0 ELSE 1
      BY <2>1, OneAtMost
    <2> QED BY <2>2, <2>3 DEF S, In
  <1>6. Cardinality({i \in DOMAIN ch.queue : ch.queue[i].slot[s].buf = b}) = In(p, InQueue)
    <2> DEFINE S == {i \in DOMAIN ch.queue : ch.queue[i].slot[s].buf = b}
    <2>1. \A i, j \in S : i = j
      BY <1>1, <1>3, <1>4 DEF QueueOk, Once
    <2>2. \A i \in DOMAIN ch.queue : ch.queue[i].slot[s].buf = b => ch.queue[i].slot[s].frame_idx # 0
      BY <1>1, <1>3, <1>4 DEF QueueOk, NodeOk
    <2>3. S = {} <=> p \notin InQueue
      BY <1>2, <1>4, <2>2 DEF InQueue, buffersOf, Pairs
    <2> HIDE DEF S
    <2>4. Cardinality(S) = IF S = {} THEN 0 ELSE 1
      BY <2>1, OneAtMost
    <2> QED BY <2>3, <2>4 DEF S, In
  <1>7. Cardinality({i \in DOMAIN cbq : cbq[i].slot[s].buf = b}) = In(p, InSupers)
    <2> DEFINE S == {i \in DOMAIN cbq : cbq[i].slot[s].buf = b}
    <2>1. \A i, j \in S : i = j
      BY <1>1, <1>4 DEF OnePlace, UniqueSupers
    <2>2. S = {} <=> p \notin InSupers
      BY <1>2, <1>4 DEF InSupers
    <2> HIDE DEF S
    <2>3. Cardinality(S) = IF S = {} THEN 0 ELSE 1
      BY <2>1, OneAtMost
    <2> QED BY <2>2, <2>3 DEF S, In
  <1>8. Cardinality({i \in DOMAIN strq[s] : strq[s][i] = b}) = In(p, InThreads)
    <2> DEFINE S == {i \in DOMAIN strq[s] : strq[s][i] = b}
    <2>1. \A i, j \in S : i = j
      BY <1>1, <1>4 DEF OnePlace, UniqueThreads
    <2>2. S = {} <=> p \notin InThreads
      BY <1>2, <1>4 DEF InThreads
    <2> HIDE DEF S
    <2>3. Cardinality(S) = IF S = {} THEN 0 ELSE 1
      BY <2>1, OneAtMost
    <2> QED BY <2>2, <2>3 DEF S, In
  <1>9. \A X : Cardinality({p} \cap X) = In(p, X)
    <2> SUFFICES ASSUME NEW X PROVE Cardinality({p} \cap X) = In(p, X)
      OBVIOUS
    <2> DEFINE S == {p} \cap X
    <2>1. (\A i, j \in S : i = j) /\ (S = {} <=> p \notin X)
      OBVIOUS
    <2> HIDE DEF S
    <2>2. Cardinality(S) = IF S = {} THEN 0 ELSE 1
      BY <2>1, OneAtMost
    <2> QED BY <2>1, <2>2 DEF S, In
  <1> QED BY <1>5, <1>6, <1>7, <1>8, <1>9

LEMMA HoldersAreUses ==
  ASSUME Inv, NEW s \in Streams, NEW b \in Bufs
  PROVE  holders(s, b) = Uses(<<s, b>>)
  <1> DEFINE p == <<s, b>>
             inPoll == IF poll # Idle /\ poll.s = s /\ poll.b = b
                       THEN 1 + Cardinality({s} \cap AppStreams) ELSE 0
  <1>1. holders(s, b) = In(p, InCmds) + In(p, InQueue) + In(p, InSupers) + In(p, InThreads)
                        + In(p, hal) + In(p, app) + inPoll
    BY HeldOnce DEF holders
  <1>2. inPoll = In(p, InPoll) + In(p, InPollApp)
    <2>1. Cardinality({s} \cap AppStreams) = IF s \in AppStreams THEN 1 ELSE 0
      <3> DEFINE S == {s} \cap AppStreams
      <3>1. (\A i, j \in S : i = j) /\ (S = {} <=> s \notin AppStreams)
        OBVIOUS
      <3> HIDE DEF S
      <3>2. Cardinality(S) = IF S = {} THEN 0 ELSE 1
        BY <3>1, OneAtMost
      <3> QED BY <3>1, <3>2 DEF S
    <2>2. p \in InPoll <=> poll # Idle /\ poll.s = s /\ poll.b = b
      BY DEF InPoll
    <2>3. p \in InPollApp <=> p \in InPoll /\ s \in AppStreams
      BY DEF InPollApp
    <2> QED BY <2>1, <2>2, <2>3 DEF In
  <1> HIDE DEF inPoll, p
  <1>3. Disjoint
    BY DEF Inv, OnePlace
  <1>4. In(p, InPoll) + In(p, InCmds) + In(p, InQueue) + In(p, InSupers) + In(p, hal) = In(p, Lent)
    BY <1>3 DEF Disjoint, Lent, In
  <1>5. In(p, InPollApp) + In(p, InThreads) + In(p, app) = In(p, LentApp)
    BY <1>3 DEF Disjoint, LentApp, In
  <1>6. \A X : In(p, X) \in Nat
    BY DEF In
  <1>7. holders(s, b) = In(p, Lent) + In(p, LentApp)
    BY <1>1, <1>2, <1>4, <1>5, <1>6
  <1> QED BY <1>7 DEF Uses, In, p

(* The count of every buffer of an active stream is the number of its       *)
(* holders, and the buffers nobody holds are those in the kernel, whatever  *)
(* the threads, the hardware and the HAL do in whatever order.              *)
THEOREM CountIsExact == Spec => []RefcntIsHolders
  <1>1. ASSUME Inv PROVE RefcntIsHolders
    <2> SUFFICES ASSUME NEW s \in Streams, state[s] = "ACTIVE", NEW b \in Bufs
                 PROVE  refcnt[s][b] = holders(s, b) /\ (b \in kernel[s] <=> holders(s, b) = 0)
      BY DEF RefcntIsHolders
    <2>1. holders(s, b) = Uses(<<s, b>>)
      BY <1>1, HoldersAreUses
    <2>2. refcnt[s][b] = Uses(<<s, b>>) /\ (b \in kernel[s] <=> refcnt[s][b] = 0)
      BY <1>1 DEF Inv, Counted
    <2> QED BY <2>1, <2>2
  <1> QED BY <1>1, Invariance, PTL
=============================================================================
