----------------------------- MODULE AgpsProofs -----------------------------
(***************************************************************************)
(* Proofs about Agps, for every set of handles and nifs.                   *)
(***************************************************************************)
EXTENDS Agps, TLAPS

SmTypeOK ==
    /\ state \in [Nifs -> AgpsState]
    /\ subs \in [Nifs -> SUBSET Handles]
    /\ inactive \in [Nifs -> SUBSET Handles]
    /\ told \in [Nifs -> SUBSET Handles]
    /\ toFw \in [Nifs -> Seq({"REQUEST", "RELEASE"})]
    /\ atl \in [Handles -> Atl]

(* The strengthening: the consistency of each nif needs that of what its   *)
(* subscribers were told, and the types of the values it is made from.     *)
SmInv == SmTypeOK /\ NifConsistent /\ ToldMatchesState

LEMMA ToFwAppend ==
    ASSUME SmTypeOK, NEW n \in Nifs, NEW c \in {"REQUEST", "RELEASE"},
           requestOrReleaseDataConn(n, c)
    PROVE  toFw' \in [Nifs -> Seq({"REQUEST", "RELEASE"})]
  BY DEF SmTypeOK, requestOrReleaseDataConn

LEMMA NotifyGoneType ==
    ASSUME SmTypeOK, NEW H, notifyGone(H)
    PROVE  atl' \in [Handles -> Atl]
  BY DEF SmTypeOK, notifyGone, Atl

(* Each event of a state machine preserves its types. *)
LEMMA SubscribeType ==
    ASSUME SmTypeOK, NEW n \in Nifs, NEW h \in Handles,
           processAgpsEventSubscribe(n, h)
    PROVE  SmTypeOK'
  <1>1. CASE state[n] = "RELEASED"
    <2>1. requestOrReleaseDataConn(n, "REQUEST")
      BY <1>1 DEF processAgpsEventSubscribe
    <2>2. toFw' \in [Nifs -> Seq({"REQUEST", "RELEASE"})]
      BY <2>1, ToFwAppend
    <2>3. QED
      BY <1>1, <2>2 DEF SmTypeOK, processAgpsEventSubscribe, transitionState, AgpsState
  <1>2. CASE state[n] # "RELEASED"
    <2>1. /\ subs' = [subs EXCEPT ![n] = @ \cup {h}]
          /\ told' = told \/ told' = [told EXCEPT ![n] = @ \cup {h}]
          /\ UNCHANGED <<state, inactive, toFw, atl>>
      BY <1>2 DEF processAgpsEventSubscribe
    <2>2. told' \in [Nifs -> SUBSET Handles]
      <3>1. CASE told' = told
        BY <3>1 DEF SmTypeOK
      <3>2. CASE told' = [told EXCEPT ![n] = @ \cup {h}]
        BY <3>2 DEF SmTypeOK
      <3>3. QED BY <2>1, <3>1, <3>2
    <2>3. subs' \in [Nifs -> SUBSET Handles]
      BY <2>1 DEF SmTypeOK
    <2>4. QED BY <2>1, <2>2, <2>3 DEF SmTypeOK
  <1>3. QED BY <1>1, <1>2

LEMMA LeaveType ==
    ASSUME SmTypeOK, NEW n \in Nifs, NEW h \in Handles, leaveOrWait(n, h)
    PROVE  /\ subs' \in [Nifs -> SUBSET Handles]
           /\ inactive' \in [Nifs -> SUBSET Handles]
           /\ told' \in [Nifs -> SUBSET Handles]
           /\ atl' \in [Handles -> Atl]
  <1>1. CASE h \in WaitForClose
    <2>1. /\ inactive' = [inactive EXCEPT ![n] = @ \cup {h}]
          /\ UNCHANGED <<subs, told, atl>>
      BY <1>1 DEF leaveOrWait
    <2>2. QED BY <2>1 DEF SmTypeOK
  <1>2. CASE h \notin WaitForClose
    <2>1. deleteSubscriber(n, h)
      BY <1>2 DEF leaveOrWait
    <2>2. PICK also : eraseSubscribers(n, {h} \cup also)
      BY <2>1 DEF deleteSubscriber
    <2>3. atl' \in [Handles -> Atl]
      BY <2>1, NotifyGoneType DEF deleteSubscriber
    <2>4. QED BY <2>2, <2>3 DEF SmTypeOK, eraseSubscribers
  <1>3. QED BY <1>1, <1>2

LEMMA UnsubscribeType ==
    ASSUME SmTypeOK, NEW n \in Nifs, NEW h \in Handles,
           processAgpsEventUnsubscribe(n, h)
    PROVE  SmTypeOK'
  <1>1. leaveOrWait(n, h)
    BY DEF processAgpsEventUnsubscribe
  <1>2. /\ state' \in [Nifs -> AgpsState]
        /\ toFw' \in [Nifs -> Seq({"REQUEST", "RELEASE"})]
    BY ToFwAppend DEF SmTypeOK, processAgpsEventUnsubscribe, transitionState, AgpsState
  <1>3. QED BY <1>1, <1>2, LeaveType DEF SmTypeOK

LEMMA GrantedType ==
    ASSUME SmTypeOK, NEW n \in Nifs, processAgpsEventGranted(n)
    PROVE  SmTypeOK'
  BY DEF SmTypeOK, processAgpsEventGranted, transitionState, AgpsState

LEMMA DropInactiveType ==
    ASSUME SmTypeOK, NEW n \in Nifs, dropInactive(n)
    PROVE  SmTypeOK'
  <1>1. atl' \in [Handles -> Atl]
    BY NotifyGoneType DEF dropInactive
  <1>2. toFw' \in [Nifs -> Seq({"REQUEST", "RELEASE"})]
    BY ToFwAppend DEF dropInactive, SmTypeOK
  <1>3. QED
    BY <1>1, <1>2 DEF SmTypeOK, dropInactive, transitionState, eraseSubscribers, AgpsState

LEMMA DropAllType ==
    ASSUME SmTypeOK, NEW n \in Nifs, dropAll(n)
    PROVE  SmTypeOK'
  <1>1. atl' \in [Handles -> Atl]
    BY NotifyGoneType DEF dropAll
  <1>2. QED
    BY <1>1 DEF SmTypeOK, dropAll, transitionState, eraseSubscribers, AgpsState

LEMMA ReleasedType ==
    ASSUME SmTypeOK, NEW n \in Nifs, processAgpsEventReleased(n)
    PROVE  SmTypeOK'
  BY DropAllType, DropInactiveType
  DEF processAgpsEventReleased, SmTypeOK, smVars

LEMMA DeniedType ==
    ASSUME SmTypeOK, NEW n \in Nifs, processAgpsEventDenied(n)
    PROVE  SmTypeOK'
  BY DropAllType, DropInactiveType
  DEF processAgpsEventDenied, SmTypeOK, smVars

-----------------------------------------------------------------------------
(* The invariant of one nif, of which NifConsistent and ToldMatchesState    *)
(* are the quantified form.                                                *)
NifInv(n) ==
    /\ inactive[n] \subseteq subs[n] \cap WaitForClose
    /\ state[n] = "RELEASED" => subs[n] = {}
    /\ state[n] \in {"PENDING", "ACQUIRED"} => subs[n] \ inactive[n] # {}
    /\ state[n] = "RELEASING" => subs[n] # {} /\ (inactive[n] # {} \/ StaleReads # {})
    /\ told[n] \subseteq subs[n]
    /\ state[n] = "ACQUIRED" => told[n] \ inactive[n] = subs[n] \ inactive[n]
    /\ state[n] # "ACQUIRED" => told[n] \subseteq inactive[n]

OtherNifsSame(n) ==
    \A m \in Nifs \ {n} : /\ state'[m] = state[m]
                          /\ subs'[m] = subs[m]
                          /\ inactive'[m] = inactive[m]
                          /\ told'[m] = told[m]

LEMMA SmInvByNif ==
    SmInv <=> SmTypeOK /\ \A n \in Nifs : NifInv(n)
  <1>1. NifConsistent /\ ToldMatchesState <=> \A n \in Nifs : NifInv(n)
    <2>1. ASSUME NEW n \in Nifs
          PROVE  (told[n] \ inactive[n] = {}) <=> (told[n] \subseteq inactive[n])
      OBVIOUS
    <2>2. QED
      BY <2>1 DEF NifConsistent, ToldMatchesState, NifInv, anyActiveSubscribers
  <1>2. QED BY <1>1 DEF SmInv

LEMMA OneNif ==
    ASSUME SmInv, SmTypeOK', NEW n \in Nifs, OtherNifsSame(n), NifInv(n)'
    PROVE  SmInv'
  <1>1. ASSUME NEW m \in Nifs PROVE NifInv(m)'
    <2>1. CASE m = n
      BY <2>1 DEF NifInv
    <2>2. CASE m # n
      BY <2>2, SmInvByNif DEF OtherNifsSame, NifInv
    <2>3. QED BY <2>1, <2>2
  <1>2. NifConsistent'
    BY <1>1 DEF NifConsistent, NifInv, anyActiveSubscribers
  <1>3. ToldMatchesState'
    <2>1. ASSUME NEW m \in Nifs
          PROVE  /\ told'[m] \subseteq subs'[m]
                 /\ state'[m] = "ACQUIRED" =>
                        told'[m] \ inactive'[m] = subs'[m] \ inactive'[m]
                 /\ state'[m] # "ACQUIRED" => told'[m] \ inactive'[m] = {}
      BY <1>1 DEF NifInv
    <2>2. QED BY <2>1 DEF ToldMatchesState
  <1>4. QED BY <1>2, <1>3 DEF SmInv

(* What each event does to its nif n, value by value; other nifs keep      *)
(* theirs.  The invariant and the refinement below only use these facts.   *)
LEMMA SubscribeFacts ==
    ASSUME SmTypeOK, NEW n \in Nifs, NEW h \in Handles,
           processAgpsEventSubscribe(n, h)
    PROVE  /\ OtherNifsSame(n)
           /\ subs'[n] = subs[n] \cup {h} /\ inactive'[n] = inactive[n]
           /\ \/ state[n] = "RELEASED" /\ state'[n] = "PENDING" /\ told'[n] = told[n]
              \/ /\ state[n] \in {"PENDING", "RELEASING"}
                 /\ state'[n] = state[n] /\ told'[n] = told[n]
              \/ /\ state[n] = "ACQUIRED" /\ state'[n] = "ACQUIRED"
                 /\ told'[n] = told[n] \cup {h}
  <1>1. /\ subs' = [subs EXCEPT ![n] = @ \cup {h}]
        /\ inactive' = inactive
    BY DEF processAgpsEventSubscribe
  <1>2. CASE state[n] = "RELEASED"
    <2>1. state' = [state EXCEPT ![n] = "PENDING"] /\ told' = told
      BY <1>2 DEF processAgpsEventSubscribe, transitionState
    <2>2. QED BY <1>1, <1>2, <2>1 DEF OtherNifsSame, SmTypeOK
  <1>3. CASE state[n] \in {"PENDING", "RELEASING"}
    <2>1. state' = state /\ told' = told
      BY <1>3 DEF processAgpsEventSubscribe
    <2>2. QED BY <1>1, <1>3, <2>1 DEF OtherNifsSame, SmTypeOK
  <1>4. CASE state[n] = "ACQUIRED"
    <2>1. state' = state /\ told' = [told EXCEPT ![n] = @ \cup {h}]
      BY <1>4 DEF processAgpsEventSubscribe
    <2>2. QED BY <1>1, <1>4, <2>1 DEF OtherNifsSame, SmTypeOK
  <1>5. QED BY <1>2, <1>3, <1>4 DEF SmTypeOK, AgpsState

(* Who may be lost in the release of another: nobody, or one of those the  *)
(* freed element may read as.                                              *)
Lossy == {{}} \cup {{g} : g \in StaleReads}

(* The subscriber that leaves is the only one whose place changes, beside  *)
(* the one that it may take with it.                                       *)
LEMMA LeaveFacts ==
    ASSUME SmTypeOK, NEW n \in Nifs, NEW h \in subs[n], leaveOrWait(n, h)
    PROVE  \/ /\ h \in WaitForClose
              /\ inactive' = [inactive EXCEPT ![n] = @ \cup {h}]
              /\ subs' = subs /\ told' = told
           \/ /\ h \notin WaitForClose /\ notifyGone({h})
              /\ \E also \in Lossy :
                    /\ subs' = [subs EXCEPT ![n] = @ \ ({h} \cup also)]
                    /\ inactive' = [inactive EXCEPT ![n] = @ \ ({h} \cup also)]
                    /\ told' = [told EXCEPT ![n] = @ \ ({h} \cup also)]
  <1>1. CASE h \in WaitForClose
    BY <1>1 DEF leaveOrWait
  <1>2. CASE h \notin WaitForClose
    <2>1. deleteSubscriber(n, h)
      BY <1>2 DEF leaveOrWait
    <2>2. PICK also \in {{}} \cup {{g} : g \in StaleReads \cap subs[n]} :
                  eraseSubscribers(n, {h} \cup also)
      BY <2>1 DEF deleteSubscriber
    <2>3. also \in Lossy
      BY DEF Lossy
    <2>4. QED BY <1>2, <2>1, <2>2, <2>3 DEF eraseSubscribers, deleteSubscriber
  <1>3. QED BY <1>1, <1>2

LEMMA UnsubscribeFacts ==
    ASSUME SmTypeOK, NEW n \in Nifs, NEW h \in subs[n],
           processAgpsEventUnsubscribe(n, h)
    PROVE  /\ OtherNifsSame(n)
           /\ \/ /\ h \in WaitForClose
                 /\ inactive'[n] = inactive[n] \cup {h}
                 /\ subs'[n] = subs[n] /\ told'[n] = told[n]
              \/ /\ h \notin WaitForClose /\ notifyGone({h})
                 /\ \E also \in Lossy :
                       /\ subs'[n] = subs[n] \ ({h} \cup also)
                       /\ inactive'[n] = inactive[n] \ ({h} \cup also)
                       /\ told'[n] = told[n] \ ({h} \cup also)
           /\ \/ subs'[n] = {} /\ state'[n] = "RELEASED"
              \/ /\ subs'[n] # {} /\ subs'[n] \subseteq inactive'[n]
                 /\ state'[n] = "RELEASING"
              \/ /\ subs'[n] # {}
                 /\ state[n] = "RELEASING" \/ ~(subs'[n] \subseteq inactive'[n])
                 /\ state'[n] = state[n]
  <1>1. leaveOrWait(n, h)
    BY DEF processAgpsEventUnsubscribe
  <1>2. \A m \in Nifs \ {n} : state'[m] = state[m]
    BY DEF processAgpsEventUnsubscribe, transitionState, SmTypeOK
  <1>3. \/ subs'[n] = {} /\ state'[n] = "RELEASED"
        \/ /\ subs'[n] # {} /\ subs'[n] \subseteq inactive'[n]
           /\ state'[n] = "RELEASING"
        \/ /\ subs'[n] # {}
           /\ state[n] = "RELEASING" \/ ~(subs'[n] \subseteq inactive'[n])
           /\ state'[n] = state[n]
    BY DEF processAgpsEventUnsubscribe, transitionState, SmTypeOK
  <1>4. CASE h \in WaitForClose
    <2>1. /\ inactive' = [inactive EXCEPT ![n] = @ \cup {h}]
          /\ subs' = subs /\ told' = told
      BY <1>1, <1>4, LeaveFacts
    <2>2. QED BY <1>2, <1>3, <1>4, <2>1 DEF OtherNifsSame, SmTypeOK
  <1>5. CASE h \notin WaitForClose
    <2>1. notifyGone({h})
      BY <1>1, <1>5, LeaveFacts
    <2>2. PICK also \in Lossy :
             /\ subs' = [subs EXCEPT ![n] = @ \ ({h} \cup also)]
             /\ inactive' = [inactive EXCEPT ![n] = @ \ ({h} \cup also)]
             /\ told' = [told EXCEPT ![n] = @ \ ({h} \cup also)]
      BY <1>1, <1>5, LeaveFacts
    <2>3. /\ subs'[n] = subs[n] \ ({h} \cup also)
          /\ inactive'[n] = inactive[n] \ ({h} \cup also)
          /\ told'[n] = told[n] \ ({h} \cup also)
          /\ OtherNifsSame(n)
      BY <1>2, <2>2 DEF OtherNifsSame, SmTypeOK
    <2>4. QED BY <1>3, <1>5, <2>1, <2>3
  <1>6. QED BY <1>4, <1>5

LEMMA GrantedFacts ==
    ASSUME SmTypeOK, NEW n \in Nifs, processAgpsEventGranted(n)
    PROVE  /\ OtherNifsSame(n)
           /\ subs'[n] = subs[n] /\ inactive'[n] = inactive[n]
           /\ \/ /\ state[n] = "PENDING" /\ state'[n] = "ACQUIRED"
                 /\ told'[n] = told[n] \cup (subs[n] \ inactive[n])
              \/ /\ state[n] # "PENDING" /\ state'[n] = state[n]
                 /\ told'[n] = told[n]
  <1>1. CASE state[n] = "PENDING"
    <2>1. /\ state' = [state EXCEPT ![n] = "ACQUIRED"]
          /\ told' = [told EXCEPT ![n] = @ \cup (subs[n] \ inactive[n])]
          /\ subs' = subs /\ inactive' = inactive
      BY <1>1 DEF processAgpsEventGranted, transitionState
    <2>2. QED BY <1>1, <2>1 DEF OtherNifsSame, SmTypeOK
  <1>2. CASE state[n] # "PENDING"
    <2>1. UNCHANGED <<state, subs, inactive, told>>
      BY <1>2 DEF processAgpsEventGranted
    <2>2. QED BY <1>2, <2>1 DEF OtherNifsSame
  <1>3. QED BY <1>1, <1>2

LEMMA DropInactiveFacts ==
    ASSUME SmTypeOK, NEW n \in Nifs, dropInactive(n)
    PROVE  /\ OtherNifsSame(n)
           /\ subs'[n] = subs[n] \ inactive[n] /\ inactive'[n] = {}
           /\ told'[n] = told[n] \ inactive[n]
           /\ state'[n] = IF subs[n] \ inactive[n] # {} THEN "PENDING" ELSE "RELEASED"
  <1>1. /\ subs' = [subs EXCEPT ![n] = @ \ inactive[n]]
        /\ inactive' = [inactive EXCEPT ![n] = @ \ inactive[n]]
        /\ told' = [told EXCEPT ![n] = @ \ inactive[n]]
    BY DEF dropInactive, eraseSubscribers
  <1>2. CASE anyActiveSubscribers(n)
    <2>1. state' = [state EXCEPT ![n] = "PENDING"]
      BY <1>2 DEF dropInactive, transitionState
    <2>2. QED BY <1>1, <1>2, <2>1 DEF OtherNifsSame, SmTypeOK, anyActiveSubscribers
  <1>3. CASE ~anyActiveSubscribers(n)
    <2>1. state' = [state EXCEPT ![n] = "RELEASED"]
      BY <1>3 DEF dropInactive, transitionState
    <2>2. QED BY <1>1, <1>3, <2>1 DEF OtherNifsSame, SmTypeOK, anyActiveSubscribers
  <1>4. QED BY <1>2, <1>3

LEMMA DropAllFacts ==
    ASSUME SmTypeOK, NEW n \in Nifs, dropAll(n)
    PROVE  /\ OtherNifsSame(n)
           /\ subs'[n] = {} /\ inactive'[n] = inactive[n] \ subs[n]
           /\ told'[n] = told[n] \ subs[n]
           /\ state'[n] = "RELEASED"
  <1>1. /\ subs' = [subs EXCEPT ![n] = @ \ subs[n]]
        /\ inactive' = [inactive EXCEPT ![n] = @ \ subs[n]]
        /\ told' = [told EXCEPT ![n] = @ \ subs[n]]
        /\ state' = [state EXCEPT ![n] = "RELEASED"]
    BY DEF dropAll, eraseSubscribers, transitionState
  <1>2. QED BY <1>1 DEF OtherNifsSame, SmTypeOK

-----------------------------------------------------------------------------
(* Each event preserves the invariant. *)

LEMMA SubscribeInv ==
    ASSUME SmInv, NEW n \in Nifs, NEW h \in Handles,
           processAgpsEventSubscribe(n, h)
    PROVE  SmInv'
  <1>1. SmTypeOK /\ NifInv(n)
    BY SmInvByNif
  <1>2. SmTypeOK' /\ OtherNifsSame(n)
    BY <1>1, SubscribeType, SubscribeFacts
  <1>3. NifInv(n)'
    BY <1>1, SubscribeFacts DEF NifInv
  <1>4. QED BY <1>2, <1>3, OneNif

LEMMA UnsubscribeInv ==
    ASSUME SmInv, NEW n \in Nifs, NEW h \in subs[n],
           processAgpsEventUnsubscribe(n, h)
    PROVE  SmInv'
  <1>1. SmTypeOK /\ NifInv(n) /\ h \in Handles
    BY SmInvByNif DEF SmTypeOK
  <1>2. SmTypeOK' /\ OtherNifsSame(n)
    BY <1>1, UnsubscribeType, UnsubscribeFacts
  <1>3. state[n] # "RELEASED"
    BY <1>1 DEF NifInv
  <1>4. \/ subs'[n] = {} /\ state'[n] = "RELEASED"
        \/ /\ subs'[n] # {} /\ subs'[n] \subseteq inactive'[n]
           /\ state'[n] = "RELEASING"
        \/ /\ subs'[n] # {}
           /\ state[n] = "RELEASING" \/ ~(subs'[n] \subseteq inactive'[n])
           /\ state'[n] = state[n]
    BY <1>1, UnsubscribeFacts
  <1>5. CASE h \in WaitForClose
    <2>1. /\ inactive'[n] = inactive[n] \cup {h}
          /\ subs'[n] = subs[n] /\ told'[n] = told[n]
      BY <1>1, <1>5, UnsubscribeFacts
    <2>2. NifInv(n)'
      BY <1>1, <1>3, <1>4, <1>5, <2>1 DEF NifInv, SmTypeOK, AgpsState
    <2>3. QED BY <1>2, <2>2, OneNif
  <1>6. CASE h \notin WaitForClose
    <2>1. PICK also \in Lossy :
             /\ subs'[n] = subs[n] \ ({h} \cup also)
             /\ inactive'[n] = inactive[n] \ ({h} \cup also)
             /\ told'[n] = told[n] \ ({h} \cup also)
      BY <1>1, <1>6, UnsubscribeFacts
    <2>2. also = {} \/ StaleReads # {}
      BY DEF Lossy
    <2>3. h \notin inactive[n]
      BY <1>1, <1>6 DEF NifInv
    <2>4. state[n] = "RELEASING" => inactive'[n] # {} \/ StaleReads # {}
      <3>1. ASSUME state[n] = "RELEASING", also = {} PROVE inactive'[n] # {} \/ StaleReads # {}
        BY <1>1, <2>1, <2>3, <3>1 DEF NifInv
      <3>2. QED BY <2>2, <3>1
    <2>5. inactive'[n] \subseteq subs'[n] \cap WaitForClose /\ told'[n] \subseteq subs'[n]
      BY <1>1, <2>1 DEF NifInv
    <2>6. NifInv(n)'
      <3>1. CASE subs'[n] = {} /\ state'[n] = "RELEASED"
        BY <2>5, <3>1 DEF NifInv
      <3>2. CASE /\ subs'[n] # {} /\ subs'[n] \subseteq inactive'[n]
                 /\ state'[n] = "RELEASING"
        BY <2>5, <3>2 DEF NifInv
      <3>3. CASE /\ subs'[n] # {} /\ state[n] = "RELEASING" /\ state'[n] = state[n]
        <4>1. told'[n] \subseteq inactive'[n]
          BY <1>1, <2>1, <3>3 DEF NifInv
        <4>2. QED BY <2>4, <2>5, <3>3, <4>1 DEF NifInv
      <3>4. CASE /\ subs'[n] # {} /\ ~(subs'[n] \subseteq inactive'[n])
                 /\ state[n] # "RELEASING" /\ state'[n] = state[n]
        <4>1. /\ state[n] = "ACQUIRED" => told'[n] \ inactive'[n] = subs'[n] \ inactive'[n]
              /\ state[n] # "ACQUIRED" => told'[n] \subseteq inactive'[n]
          BY <1>1, <2>1 DEF NifInv
        <4>2. QED BY <1>3, <2>5, <3>4, <4>1 DEF NifInv
      <3>5. QED BY <1>4, <3>1, <3>2, <3>3, <3>4
    <2>7. QED BY <1>2, <2>6, OneNif
  <1>7. QED BY <1>5, <1>6

LEMMA GrantedInv ==
    ASSUME SmInv, NEW n \in Nifs, processAgpsEventGranted(n)
    PROVE  SmInv'
  <1>1. SmTypeOK /\ NifInv(n)
    BY SmInvByNif
  <1>2. SmTypeOK' /\ OtherNifsSame(n)
    BY <1>1, GrantedType, GrantedFacts
  <1>3. NifInv(n)'
    BY <1>1, GrantedFacts DEF NifInv
  <1>4. QED BY <1>2, <1>3, OneNif

LEMMA DropInactiveInv ==
    ASSUME SmInv, NEW n \in Nifs, dropInactive(n), state[n] = "RELEASING"
    PROVE  SmInv'
  <1>1. SmTypeOK /\ NifInv(n)
    BY SmInvByNif
  <1>2. SmTypeOK' /\ OtherNifsSame(n)
    BY <1>1, DropInactiveType, DropInactiveFacts
  <1>3. NifInv(n)'
    BY <1>1, DropInactiveFacts DEF NifInv
  <1>4. QED BY <1>2, <1>3, OneNif

LEMMA DropAllInv ==
    ASSUME SmInv, NEW n \in Nifs, dropAll(n)
    PROVE  SmInv'
  <1>1. SmTypeOK /\ NifInv(n)
    BY SmInvByNif
  <1>2. SmTypeOK' /\ OtherNifsSame(n)
    BY <1>1, DropAllType, DropAllFacts
  <1>3. NifInv(n)'
    BY <1>1, DropAllFacts DEF NifInv
  <1>4. QED BY <1>2, <1>3, OneNif

LEMMA SmUnchanged ==
    ASSUME SmInv, UNCHANGED <<state, subs, inactive, told>>, SmTypeOK'
    PROVE  SmInv'
  BY DEF SmInv, NifConsistent, ToldMatchesState, anyActiveSubscribers

LEMMA ReleasedInv ==
    ASSUME SmInv, NEW n \in Nifs, processAgpsEventReleased(n)
    PROVE  SmInv'
  <1>1. CASE state[n] = "ACQUIRED"
    BY <1>1, DropAllInv DEF processAgpsEventReleased
  <1>2. CASE state[n] = "RELEASING"
    BY <1>2, DropInactiveInv DEF processAgpsEventReleased
  <1>3. CASE state[n] \in {"RELEASED", "PENDING"}
    BY <1>3, ReleasedType, SmUnchanged DEF processAgpsEventReleased, SmInv, smVars
  <1>4. QED BY <1>1, <1>2, <1>3 DEF processAgpsEventReleased

LEMMA DeniedInv ==
    ASSUME SmInv, NEW n \in Nifs, processAgpsEventDenied(n)
    PROVE  SmInv'
  <1>1. CASE state[n] = "PENDING"
    BY <1>1, DropAllInv DEF processAgpsEventDenied
  <1>2. CASE state[n] = "RELEASING"
    BY <1>2, DropInactiveInv DEF processAgpsEventDenied
  <1>3. CASE state[n] \in {"RELEASED", "ACQUIRED"}
    BY <1>3, DeniedType, SmUnchanged DEF processAgpsEventDenied, SmInv, smVars
  <1>4. QED BY <1>1, <1>2, <1>3 DEF processAgpsEventDenied

-----------------------------------------------------------------------------
(* Types of the whole state; the messages carry the handles and nifs the   *)
(* events are about.                                                       *)
EnvTypeOK == /\ nifs \subseteq Nifs
             /\ msgs \in Seq(Msg)
             /\ conn \in [Nifs -> Conn]

LEMMA SplitTypeOK == TypeOK <=> SmTypeOK /\ EnvTypeOK
  BY DEF TypeOK, SmTypeOK, EnvTypeOK

LEMMA MsgTail ==
    ASSUME NEW q \in Seq(Msg), q # <<>>
    PROVE  Head(q) \in Msg /\ Tail(q) \in Seq(Msg)
  OBVIOUS

LEMMA MsgFields ==
    ASSUME NEW m \in Msg
    PROVE  /\ m.kind = "requestATL" => m.h \in Handles /\ m.n \in Nifs
           /\ m.kind = "releaseATL" => m.h \in Handles
           /\ m.kind \in {"granted", "denied", "closed"} => m.n \in Nifs
  BY DEF Msg

LEMMA RequestType ==
    ASSUME SmTypeOK, NEW h \in Handles, NEW n \in Nifs, requestATL(h, n)
    PROVE  SmTypeOK'
  <1>1. CASE n \in nifs /\ processAgpsEventSubscribe(n, h)
    BY <1>1, SubscribeType
  <1>2. CASE notifyGone({h}) /\ UNCHANGED <<smVars, toFw>>
    <2>1. atl' \in [Handles -> Atl]
      BY <1>2, NotifyGoneType
    <2>2. QED BY <1>2, <2>1 DEF SmTypeOK, smVars
  <1>3. QED BY <1>1, <1>2 DEF requestATL

LEMMA ReleaseType ==
    ASSUME SmTypeOK, NEW h \in Handles, releaseATL(h)
    PROVE  SmTypeOK'
  <1>1. CASE \E n \in Nifs : processAgpsEventUnsubscribe(n, h)
    BY <1>1, UnsubscribeType
  <1>2. CASE UNCHANGED <<smVars, toFw, atl>>
    BY <1>2 DEF SmTypeOK, smVars
  <1>3. QED BY <1>1, <1>2 DEF releaseATL

LEMMA ProcMsgType == TypeOK /\ ProcMsg => TypeOK'
  <1> SUFFICES ASSUME TypeOK, ProcMsg PROVE TypeOK'
    OBVIOUS
  <1> DEFINE m == Head(msgs)
  <1>1. SmTypeOK /\ EnvTypeOK
    BY SplitTypeOK
  <1>2. m \in Msg /\ Tail(msgs) \in Seq(Msg)
    BY <1>1, MsgTail DEF EnvTypeOK, ProcMsg
  <1>3. EnvTypeOK'
    BY <1>1, <1>2 DEF EnvTypeOK, ProcMsg
  <1>4. CASE m.kind = "requestATL" /\ requestATL(m.h, m.n)
    <2>1. m.h \in Handles /\ m.n \in Nifs
      BY <1>2, <1>4, MsgFields
    <2>2. QED BY <1>1, <1>3, <1>4, <2>1, RequestType, SplitTypeOK DEF TypeOK, SmTypeOK, EnvTypeOK
  <1>5. CASE m.kind = "releaseATL" /\ releaseATL(m.h)
    <2>1. m.h \in Handles
      BY <1>2, <1>5, MsgFields
    <2>2. QED BY <1>1, <1>3, <1>5, <2>1, ReleaseType DEF TypeOK, SmTypeOK, EnvTypeOK
  <1>6. CASE m.kind = "granted" /\ processAgpsEventGranted(m.n)
    <2>1. m.n \in Nifs
      BY <1>2, <1>6, MsgFields
    <2>2. QED BY <1>1, <1>3, <1>6, <2>1, GrantedType DEF TypeOK, SmTypeOK, EnvTypeOK
  <1>7. CASE m.kind = "denied" /\ processAgpsEventDenied(m.n)
    <2>1. m.n \in Nifs
      BY <1>2, <1>7, MsgFields
    <2>2. QED BY <1>1, <1>3, <1>7, <2>1, DeniedType DEF TypeOK, SmTypeOK, EnvTypeOK
  <1>8. CASE m.kind = "closed" /\ processAgpsEventReleased(m.n)
    <2>1. m.n \in Nifs
      BY <1>2, <1>8, MsgFields
    <2>2. QED BY <1>1, <1>3, <1>8, <2>1, ReleasedType DEF TypeOK, SmTypeOK, EnvTypeOK
  <1>9. QED BY <1>4, <1>5, <1>6, <1>7, <1>8 DEF ProcMsg

LEMMA SendMsgType ==
    ASSUME EnvTypeOK, NEW m \in Msg, sendMsg(m)
    PROVE  msgs' \in Seq(Msg)
  BY DEF EnvTypeOK, sendMsg

(* The types of the modem's and the framework's steps. *)
LEMMA ModemOpenType ==
    ASSUME TypeOK, NEW h \in Handles, NEW n \in Nifs, ModemOpen(h, n)
    PROVE  TypeOK'
  <1>1. SmTypeOK /\ EnvTypeOK
    BY SplitTypeOK
  <1>2. [kind |-> "requestATL", h |-> h, n |-> n] \in Msg
    BY DEF Msg
  <1>3. msgs' \in Seq(Msg)
    BY <1>1, <1>2, SendMsgType DEF ModemOpen
  <1>4. atl' \in [Handles -> Atl]
    BY <1>1 DEF ModemOpen, SmTypeOK, Atl
  <1>5. QED BY <1>1, <1>3, <1>4 DEF ModemOpen, TypeOK, smVars

LEMMA ModemCloseType ==
    ASSUME TypeOK, NEW h \in Handles, ModemClose(h)
    PROVE  TypeOK'
  <1>1. SmTypeOK /\ EnvTypeOK
    BY SplitTypeOK
  <1>2. [kind |-> "releaseATL", h |-> h] \in Msg
    BY DEF Msg
  <1>3. msgs' \in Seq(Msg)
    BY <1>1, <1>2, SendMsgType DEF ModemClose
  <1>4. atl' \in [Handles -> Atl]
    BY <1>1 DEF ModemClose, SmTypeOK, Atl
  <1>5. QED BY <1>1, <1>3, <1>4 DEF ModemClose, TypeOK, smVars

LEMMA FwAnswerMsg ==
    \A n \in Nifs : \A k \in {"granted", "denied", "closed"} :
        [kind |-> k, n |-> n] \in Msg
  BY DEF Msg

LEMMA FwType ==
    ASSUME TypeOK, NEW n \in Nifs,
           FwCommand(n) \/ FwOpened(n) \/ FwFailed(n) \/ FwLost(n)
    PROVE  TypeOK'
  <1>1. SmTypeOK /\ EnvTypeOK
    BY SplitTypeOK
  <1>2. CASE FwCommand(n)
    <2>1. msgs' = msgs \/ msgs' \in Seq(Msg)
      BY <1>1, <1>2, FwAnswerMsg, SendMsgType DEF FwCommand
    <2>2. conn' \in [Nifs -> Conn]
      BY <1>1, <1>2 DEF FwCommand, EnvTypeOK, Conn
    <2>3. toFw' \in [Nifs -> Seq({"REQUEST", "RELEASE"})]
      BY <1>1, <1>2 DEF FwCommand, SmTypeOK
    <2>4. QED BY <1>1, <1>2, <2>1, <2>2, <2>3
          DEF FwCommand, TypeOK, smVars
  <1>3. CASE FwOpened(n) \/ FwFailed(n) \/ FwLost(n)
    <2>1. msgs' \in Seq(Msg)
      BY <1>1, <1>3, FwAnswerMsg, SendMsgType DEF FwOpened, FwFailed, FwLost
    <2>2. conn' \in [Nifs -> Conn]
      BY <1>1, <1>3 DEF FwOpened, FwFailed, FwLost, EnvTypeOK, Conn
    <2>3. UNCHANGED <<nifs, state, subs, inactive, told, toFw, atl>>
      BY <1>3 DEF FwOpened, FwFailed, FwLost, smVars
    <2>4. QED BY <1>1, <2>1, <2>2, <2>3 DEF TypeOK
  <1>4. QED BY <1>2, <1>3

LEMMA FwBadApnType ==
    ASSUME TypeOK, NEW n \in Nifs, FwOpenedBadApn(n)
    PROVE  TypeOK'
  <1>1. SmTypeOK /\ EnvTypeOK
    BY SplitTypeOK
  <1>2. SmTypeOK'
    BY <1>1, ReleasedType DEF FwOpenedBadApn
  <1>3. conn' \in [Nifs -> Conn]
    BY <1>1 DEF FwOpenedBadApn, EnvTypeOK, Conn
  <1>4. QED BY <1>1, <1>2, <1>3 DEF FwOpenedBadApn, TypeOK, SmTypeOK, EnvTypeOK

(* Every state of the model has the types TypeOK states: in particular     *)
(* every message names a handle and a nif the manager can have.            *)
THEOREM TypeCorrect == Spec => []TypeOK
  <1>1. Init => TypeOK
    BY DEF Init, TypeOK, AgpsState, Conn, Atl
  <1>2. TypeOK /\ [Next]_vars => TypeOK'
    <2> SUFFICES ASSUME TypeOK, [Next]_vars PROVE TypeOK'
      OBVIOUS
    <2>1. CASE ProcMsg
      BY <2>1, ProcMsgType
    <2>2. ASSUME NEW N \in SUBSET Nifs, initAgps(N) PROVE TypeOK'
      BY <2>2 DEF initAgps, TypeOK, smVars
    <2>3. ASSUME NEW h \in Handles, ModemClose(h) PROVE TypeOK'
      BY <2>3, ModemCloseType
    <2>4. ASSUME NEW h \in Handles, NEW n \in Nifs, ModemOpen(h, n) PROVE TypeOK'
      BY <2>4, ModemOpenType
    <2>5. ASSUME NEW n \in Nifs,
                 FwCommand(n) \/ FwOpened(n) \/ FwFailed(n) \/ FwLost(n)
          PROVE  TypeOK'
      BY <2>5, FwType
    <2>6. ASSUME NEW n \in Nifs, FwOpenedBadApn(n) PROVE TypeOK'
      BY <2>6, FwBadApnType
    <2>7. CASE UNCHANGED vars
      BY <2>7 DEF vars, TypeOK
    <2>8. QED BY <2>1, <2>2, <2>3, <2>4, <2>5, <2>6, <2>7 DEF Next
  <1>3. QED BY <1>1, <1>2, PTL DEF Spec

-----------------------------------------------------------------------------
(* The message of a subscriber that leaves, and what it does.              *)
releaseStep(n, h) ==
    /\ processAgpsEventUnsubscribe(n, h)
    /\ msgs # <<>> /\ Head(msgs) = [kind |-> "releaseATL", h |-> h]
    /\ msgs' = Tail(msgs)

(* A step is one event of one state machine, or leaves all of them alone.  *)
LEMMA StepEvents ==
    ASSUME TypeOK, [Next]_vars
    PROVE  \/ \E n \in Nifs, h \in Handles : processAgpsEventSubscribe(n, h)
           \/ \E n \in Nifs : \E h \in subs[n] : releaseStep(n, h)
           \/ \E n \in Nifs : processAgpsEventGranted(n)
           \/ \E n \in Nifs : processAgpsEventDenied(n)
           \/ \E n \in Nifs : processAgpsEventReleased(n)
           \/ UNCHANGED smVars
  <1> DEFINE m == Head(msgs)
  <1>1. CASE ProcMsg
    <2>1. m \in Msg
      BY <1>1, MsgTail DEF ProcMsg, TypeOK
    <2>2. CASE m.kind = "requestATL" /\ requestATL(m.h, m.n)
      BY <2>1, <2>2, MsgFields DEF requestATL
    <2>3. CASE m.kind = "releaseATL" /\ releaseATL(m.h)
      <3>1. CASE \E n \in Nifs : foundIn(n, m.h) /\ processAgpsEventUnsubscribe(n, m.h)
        <4>1. m = [kind |-> "releaseATL", h |-> m.h]
          BY <2>1, <2>3 DEF Msg
        <4>2. msgs # <<>> /\ msgs' = Tail(msgs)
          BY <1>1 DEF ProcMsg
        <4>3. QED BY <3>1, <4>1, <4>2 DEF releaseStep, foundIn, holds
      <3>2. CASE UNCHANGED smVars
        BY <3>2
      <3>3. QED BY <2>3, <3>1, <3>2 DEF releaseATL
    <2>4. CASE m.kind = "granted" /\ processAgpsEventGranted(m.n)
      BY <2>1, <2>4, MsgFields
    <2>5. CASE m.kind = "denied" /\ processAgpsEventDenied(m.n)
      BY <2>1, <2>5, MsgFields
    <2>6. CASE m.kind = "closed" /\ processAgpsEventReleased(m.n)
      BY <2>1, <2>6, MsgFields
    <2>7. QED BY <1>1, <2>2, <2>3, <2>4, <2>5, <2>6 DEF ProcMsg
  <1>2. ASSUME NEW n \in Nifs, FwOpenedBadApn(n)
        PROVE  processAgpsEventReleased(n)
    BY <1>2 DEF FwOpenedBadApn
  <1>3. QED
    BY <1>1, <1>2
    DEF Next, vars, smVars, initAgps, ModemOpen, ModemClose,
        FwCommand, FwOpened, FwFailed, FwLost

(* The invariant over a whole step. *)
LEMMA SmInvStep ==
    ASSUME TypeOK, SmInv, [Next]_vars, SmTypeOK'
    PROVE  SmInv'
  <1>1. CASE \E n \in Nifs, h \in Handles : processAgpsEventSubscribe(n, h)
    BY <1>1, SubscribeInv
  <1>2. CASE \E n \in Nifs : \E h \in subs[n] : releaseStep(n, h)
    BY <1>2, UnsubscribeInv DEF releaseStep
  <1>3. CASE \E n \in Nifs : processAgpsEventGranted(n)
    BY <1>3, GrantedInv
  <1>4. CASE \E n \in Nifs : processAgpsEventDenied(n)
    BY <1>4, DeniedInv
  <1>5. CASE \E n \in Nifs : processAgpsEventReleased(n)
    BY <1>5, ReleasedInv
  <1>6. CASE UNCHANGED smVars
    BY <1>6, SmUnchanged DEF smVars
  <1>7. QED BY <1>1, <1>2, <1>3, <1>4, <1>5, <1>6, StepEvents

(* The states of every nif and what its subscribers were told stay         *)
(* consistent, whatever the framework answers and when, and whoever the    *)
(* freed subscriber is taken for.                                          *)
THEOREM SmConsistent == Spec => [](NifConsistent /\ ToldMatchesState)
  <1>1. Init => SmInv
    BY DEF Init, SmInv, SmTypeOK, NifConsistent, ToldMatchesState,
           anyActiveSubscribers, AgpsState, Atl
  <1>2. TypeOK /\ TypeOK' /\ SmInv /\ [Next]_vars => SmInv'
    BY SmInvStep, SplitTypeOK DEF TypeOK, SmTypeOK
  <1>3. SmInv => NifConsistent /\ ToldMatchesState
    BY DEF SmInv
  <1>4. QED BY <1>1, <1>2, <1>3, TypeCorrect, PTL DEF Spec

(* Of the two, what the modem was told: it takes a link for open only if   *)
(* its subscriber is on an ACQUIRED nif.                                   *)
THEOREM ToldIsTrue == Spec => []ToldMatchesState
  BY SmConsistent, PTL

-----------------------------------------------------------------------------
(* The refinement: every event is a step of SharedDataConn or none.        *)
Users == [n \in Nifs |-> subs[n] \ inactive[n]]
ToldUsers == [n \in Nifs |-> told[n] \ inactive[n]]
Up == [n \in Nifs |-> state[n] = "ACQUIRED"]

SharedStep == Shared!Next \/ UNCHANGED Shared!connVars

LEMMA MappedStep ==
    ASSUME NEW n \in Nifs, OtherNifsSame(n)
    PROVE  /\ Users' = [Users EXCEPT ![n] = subs'[n] \ inactive'[n]]
           /\ ToldUsers' = [ToldUsers EXCEPT ![n] = told'[n] \ inactive'[n]]
           /\ Up' = [Up EXCEPT ![n] = (state'[n] = "ACQUIRED")]
  BY DEF OtherNifsSame, Users, ToldUsers, Up

LEMMA SharedUnchanged ==
    ASSUME UNCHANGED <<state, subs, inactive, told>>
    PROVE  SharedStep
  BY DEF SharedStep, Shared!connVars

(* A step that leaves the three mapped values of its nif as they were.     *)
LEMMA SharedStutter ==
    ASSUME NEW n \in Nifs, OtherNifsSame(n),
           subs'[n] \ inactive'[n] = subs[n] \ inactive[n],
           told'[n] \ inactive'[n] = told[n] \ inactive[n],
           (state'[n] = "ACQUIRED") <=> (state[n] = "ACQUIRED")
    PROVE  SharedStep
  <1>1. Users' = Users /\ ToldUsers' = ToldUsers
    BY DEF OtherNifsSame, Users, ToldUsers
  <1>2. Up' = Up
    BY DEF OtherNifsSame, Up
  <1>3. QED BY <1>1, <1>2 DEF SharedStep, Shared!connVars, Users, ToldUsers, Up

LEMMA SubscribeRefines ==
    ASSUME SmInv, NEW n \in Nifs, NEW h \in Handles,
           processAgpsEventSubscribe(n, h)
    PROVE  SharedStep
  <1>1. SmTypeOK /\ NifInv(n)
    BY SmInvByNif
  <1>2. OtherNifsSame(n)
    BY <1>1, SubscribeFacts
  <1>3. (state'[n] = "ACQUIRED") <=> (state[n] = "ACQUIRED")
    BY <1>1, SubscribeFacts
  <1>4. CASE h \in inactive[n]
    BY <1>1, <1>2, <1>3, <1>4, SubscribeFacts, SharedStutter DEF NifInv
  <1>5. CASE h \notin inactive[n]
    <2>1. Users' = [Users EXCEPT ![n] = @ \cup {h}]
      BY <1>1, <1>2, <1>5, SubscribeFacts, MappedStep DEF Users
    <2>2. Up' = Up
      BY <1>2, <1>3, MappedStep DEF Up
    <2>3. CASE state[n] = "ACQUIRED"
      <3>1. ToldUsers' = [ToldUsers EXCEPT ![n] = @ \cup {h}]
        BY <1>1, <1>2, <1>5, <2>3, SubscribeFacts, MappedStep DEF ToldUsers
      <3>2. Shared!Acquire(n, h)
        BY <2>1, <2>2, <2>3, <3>1 DEF Shared!Acquire, Users, ToldUsers, Up
      <3>3. QED BY <3>2 DEF SharedStep, Shared!Next
    <2>4. CASE state[n] # "ACQUIRED"
      <3>1. told'[n] = told[n] /\ inactive'[n] = inactive[n]
        BY <1>1, <2>4, SubscribeFacts
      <3>2. ToldUsers' = ToldUsers
        BY <1>2, <3>1, MappedStep DEF ToldUsers
      <3>3. Shared!Acquire(n, h)
        BY <2>1, <2>2, <2>4, <3>2 DEF Shared!Acquire, Users, ToldUsers, Up
      <3>4. QED BY <3>3 DEF SharedStep, Shared!Next
    <2>5. QED BY <2>3, <2>4
  <1>6. QED BY <1>4, <1>5

LEMMA UnsubscribeRefines ==
    ASSUME SmInv, NEW n \in Nifs, NEW h \in subs[n],
           processAgpsEventUnsubscribe(n, h)
    PROVE  SharedStep
  <1>1. SmTypeOK /\ NifInv(n) /\ h \in Handles
    BY SmInvByNif DEF SmTypeOK
  <1>2. OtherNifsSame(n)
    BY <1>1, UnsubscribeFacts
  <1>3. PICK also \in Lossy :
           /\ subs'[n] \ inactive'[n] = (subs[n] \ inactive[n]) \ ({h} \cup also)
           /\ told'[n] \ inactive'[n] = (told[n] \ inactive[n]) \ ({h} \cup also)
           /\ h \in inactive[n] => also = {}
    <2>1. CASE h \in WaitForClose
      <3>1. /\ subs'[n] \ inactive'[n] = (subs[n] \ inactive[n]) \ ({h} \cup {})
            /\ told'[n] \ inactive'[n] = (told[n] \ inactive[n]) \ ({h} \cup {})
        <4>1. /\ inactive'[n] = inactive[n] \cup {h}
              /\ subs'[n] = subs[n] /\ told'[n] = told[n]
          BY <1>1, <2>1, UnsubscribeFacts
        <4>2. QED BY <4>1
      <3>2. {} \in Lossy
        BY DEF Lossy
      <3>3. QED BY <3>1, <3>2
    <2>2. CASE h \notin WaitForClose
      <3>1. PICK also \in Lossy :
               /\ subs'[n] = subs[n] \ ({h} \cup also)
               /\ inactive'[n] = inactive[n] \ ({h} \cup also)
               /\ told'[n] = told[n] \ ({h} \cup also)
        BY <1>1, <2>2, UnsubscribeFacts
      <3>2. h \notin inactive[n]
        BY <1>1, <2>2 DEF NifInv
      <3>3. QED BY <3>1, <3>2
    <2>3. QED BY <2>1, <2>2
  <1>4. (state'[n] = "ACQUIRED") <=>
            (state[n] = "ACQUIRED" /\ subs'[n] \ inactive'[n] # {})
    BY <1>1, UnsubscribeFacts DEF NifInv
  <1>5. CASE h \in inactive[n]
    BY <1>1, <1>2, <1>3, <1>4, <1>5, SharedStutter DEF NifInv
  <1>6. CASE h \notin inactive[n]
    <2>1. /\ Users' = [Users EXCEPT ![n] = @ \ ({h} \cup also)]
          /\ ToldUsers' = [ToldUsers EXCEPT ![n] = @ \ ({h} \cup also)]
      BY <1>2, <1>3, MappedStep DEF Users, ToldUsers
    <2>2. subs'[n] \ inactive'[n] # {} <=> ~(Users[n] \subseteq {h} \cup also)
      BY <1>1, <1>3 DEF Users
    <2>3. Up' = [Up EXCEPT ![n] = @ /\ ~(Users[n] \subseteq {h} \cup also)]
      BY <1>2, <1>4, <2>2, MappedStep DEF Up
    <2>4. h \in Users[n]
      BY <1>1, <1>6 DEF Users
    <2>5. Shared!Leave(n, {h} \cup also)
      BY <2>1, <2>3 DEF Shared!Leave, Users, ToldUsers, Up
    <2>6. Shared!Leave(n, {h}) \/ \E g \in StaleReads : Shared!Leave(n, {g, h})
      <3>1. CASE also = {}
        <4>1. {h} \cup also = {h}
          BY <3>1
        <4>2. QED BY <2>5, <4>1
      <3>2. CASE \E g \in StaleReads : also = {g}
        <4>1. PICK g \in StaleReads : also = {g}
          BY <3>2
        <4>2. {h} \cup also = {g, h}
          BY <4>1
        <4>3. QED BY <2>5, <4>2
      <3>3. QED BY <3>1, <3>2 DEF Lossy
    <2>7. Shared!Release(n, h)
      BY <2>4, <2>6 DEF Shared!Release, Users
    <2>8. QED BY <1>1, <2>7 DEF SharedStep, Shared!Next
  <1>7. QED BY <1>5, <1>6

LEMMA GrantedRefines ==
    ASSUME SmInv, NEW n \in Nifs, processAgpsEventGranted(n)
    PROVE  SharedStep
  <1>1. SmTypeOK /\ NifInv(n)
    BY SmInvByNif
  <1>2. OtherNifsSame(n)
    BY <1>1, GrantedFacts
  <1>3. CASE state[n] = "PENDING"
    <2>1. /\ state'[n] = "ACQUIRED"
          /\ subs'[n] \ inactive'[n] = subs[n] \ inactive[n]
          /\ told'[n] \ inactive'[n] = subs[n] \ inactive[n]
      BY <1>1, <1>3, GrantedFacts DEF NifInv
    <2>2. /\ Users' = Users
          /\ ToldUsers' = [ToldUsers EXCEPT ![n] = Users[n]]
          /\ Up' = [Up EXCEPT ![n] = TRUE]
      BY <1>2, <2>1, MappedStep DEF Users, ToldUsers, Up
    <2>3. ~Up[n] /\ Users[n] # {}
      BY <1>1, <1>3 DEF Up, Users, NifInv
    <2>4. Shared!Connect(n)
      BY <2>2, <2>3 DEF Shared!Connect, Users, ToldUsers, Up
    <2>5. QED BY <2>4 DEF SharedStep, Shared!Next
  <1>4. CASE state[n] # "PENDING"
    BY <1>1, <1>2, <1>4, GrantedFacts, SharedStutter
  <1>5. QED BY <1>3, <1>4

LEMMA DropInactiveRefines ==
    ASSUME SmInv, NEW n \in Nifs, dropInactive(n), state[n] = "RELEASING"
    PROVE  SharedStep
  <1>1. SmTypeOK /\ NifInv(n)
    BY SmInvByNif
  <1>2. OtherNifsSame(n)
    BY <1>1, DropInactiveFacts
  <1>3. /\ subs'[n] \ inactive'[n] = subs[n] \ inactive[n]
        /\ told'[n] \ inactive'[n] = told[n] \ inactive[n]
        /\ state'[n] # "ACQUIRED"
    BY <1>1, DropInactiveFacts
  <1>4. QED BY <1>2, <1>3, SharedStutter

LEMMA DropAllRefines ==
    ASSUME SmInv, NEW n \in Nifs, dropAll(n), state[n] \in {"PENDING", "ACQUIRED"}
    PROVE  SharedStep
  <1>1. SmTypeOK /\ NifInv(n)
    BY SmInvByNif
  <1>2. OtherNifsSame(n)
    BY <1>1, DropAllFacts
  <1>3. /\ subs'[n] \ inactive'[n] = {}
        /\ told'[n] \ inactive'[n] = {}
        /\ state'[n] = "RELEASED"
    BY <1>1, DropAllFacts DEF NifInv
  <1>4. /\ Users' = [Users EXCEPT ![n] = {}]
        /\ ToldUsers' = [ToldUsers EXCEPT ![n] = {}]
        /\ Up' = [Up EXCEPT ![n] = FALSE]
    BY <1>2, <1>3, MappedStep
  <1>5. Users[n] # {}
    BY <1>1 DEF Users, NifInv
  <1>6. Shared!Fail(n)
    BY <1>4, <1>5 DEF Shared!Fail, Users, ToldUsers, Up
  <1>7. QED BY <1>6 DEF SharedStep, Shared!Next

LEMMA ReleasedRefines ==
    ASSUME SmInv, NEW n \in Nifs, processAgpsEventReleased(n)
    PROVE  SharedStep
  <1>1. CASE state[n] = "ACQUIRED"
    BY <1>1, DropAllRefines DEF processAgpsEventReleased
  <1>2. CASE state[n] = "RELEASING"
    BY <1>2, DropInactiveRefines DEF processAgpsEventReleased
  <1>3. CASE state[n] \in {"RELEASED", "PENDING"}
    BY <1>3, SharedUnchanged DEF processAgpsEventReleased, smVars
  <1>4. QED BY <1>1, <1>2, <1>3 DEF processAgpsEventReleased

LEMMA DeniedRefines ==
    ASSUME SmInv, NEW n \in Nifs, processAgpsEventDenied(n)
    PROVE  SharedStep
  <1>1. CASE state[n] = "PENDING"
    BY <1>1, DropAllRefines DEF processAgpsEventDenied
  <1>2. CASE state[n] = "RELEASING"
    BY <1>2, DropInactiveRefines DEF processAgpsEventDenied
  <1>3. CASE state[n] \in {"RELEASED", "ACQUIRED"}
    BY <1>3, SharedUnchanged DEF processAgpsEventDenied, smVars
  <1>4. QED BY <1>1, <1>2, <1>3 DEF processAgpsEventDenied

(* The AGPS manager implements the shared data connection: users join,     *)
(* leave, are told that it is up or lose it exactly as SharedDataConn says.*)
THEOREM Refinement == Spec => ImplementsShared
  <1>1. Init => Shared!Init
    BY DEF Init, Shared!Init
  <1>2. ASSUME TypeOK, SmInv, [Next]_vars PROVE SharedStep
    <2>1. CASE \E n \in Nifs, h \in Handles : processAgpsEventSubscribe(n, h)
      BY <1>2, <2>1, SubscribeRefines
    <2>2. CASE \E n \in Nifs : \E h \in subs[n] : releaseStep(n, h)
      BY <1>2, <2>2, UnsubscribeRefines DEF releaseStep
    <2>3. CASE \E n \in Nifs : processAgpsEventGranted(n)
      BY <1>2, <2>3, GrantedRefines
    <2>4. CASE \E n \in Nifs : processAgpsEventDenied(n)
      BY <1>2, <2>4, DeniedRefines
    <2>5. CASE \E n \in Nifs : processAgpsEventReleased(n)
      BY <1>2, <2>5, ReleasedRefines
    <2>6. CASE UNCHANGED smVars
      BY <2>6, SharedUnchanged DEF smVars
    <2>7. QED BY <1>2, <2>1, <2>2, <2>3, <2>4, <2>5, <2>6, StepEvents
  <1>3. TypeOK /\ SmInv /\ [Next]_vars => [Shared!Next]_(Shared!connVars)
    BY <1>2 DEF SharedStep
  <1>4. Spec => [](TypeOK /\ SmInv)
    <2>1. SmInv <=> SmTypeOK /\ NifConsistent /\ ToldMatchesState
      BY DEF SmInv
    <2>2. TypeOK => SmTypeOK
      BY SplitTypeOK
    <2>3. QED BY <2>1, <2>2, TypeCorrect, SmConsistent, PTL
  <1>5. QED BY <1>1, <1>3, <1>4, PTL DEF Spec, ImplementsShared, Shared!Spec

-----------------------------------------------------------------------------
(* What NobodyForgotten says of one step. *)
LeaversTold(n) == \A h \in leavers(n) : atl'[h] = "idle" \/ takenForFreed(n, h)

(* The release of h: h is told, and of the others one at most leaves.      *)
LEMMA ReleaseLeavers ==
    ASSUME SmTypeOK, NEW n \in Nifs, NEW g \in subs[n], releaseStep(n, g)
    PROVE  LeaversTold(n)
  <1>1. CASE leavers(n) = {}
    BY <1>1 DEF LeaversTold
  <1>2. CASE leavers(n) # {}
    <2>1. g \notin WaitForClose /\ notifyGone({g})
      <3>1. processAgpsEventUnsubscribe(n, g)
        BY DEF releaseStep
      <3>2. subs'[n] # subs[n]
        BY <1>2 DEF leavers
      <3>3. \/ subs'[n] = subs[n]
            \/ g \notin WaitForClose /\ notifyGone({g})
        BY <3>1, UnsubscribeFacts
      <3>4. QED BY <3>2, <3>3
    <2>2. PICK also \in Lossy : subs'[n] = subs[n] \ ({g} \cup also)
      <3>1. processAgpsEventUnsubscribe(n, g)
        BY DEF releaseStep
      <3>2. QED BY <2>1, <3>1, UnsubscribeFacts
    <2>3. atl'[g] = "idle"
      BY <2>1 DEF notifyGone, SmTypeOK
    <2>4. ASSUME NEW h \in leavers(n), h # g
          PROVE  takenForFreed(n, h)
      <3>1. h \in also
        BY <2>2, <2>4 DEF leavers
      <3>2. h \in StaleReads /\ also = {h}
        BY <3>1 DEF Lossy
      <3>3. leavers(n) = {g, h} /\ g \in leavers(n) \ {h}
        BY <2>2, <2>4, <3>2 DEF leavers
      <3>4. QED BY <2>3, <3>2, <3>3 DEF takenForFreed, releaseStep
    <2>5. QED BY <2>3, <2>4 DEF LeaversTold
  <1>3. QED BY <1>1, <1>2

LEMMA EventLeavers ==
    ASSUME SmTypeOK, NEW n \in Nifs,
           \/ \E h \in Handles : processAgpsEventSubscribe(n, h)
           \/ \E h \in subs[n] : releaseStep(n, h)
           \/ processAgpsEventGranted(n)
           \/ dropAll(n) \/ dropInactive(n)
    PROVE  OtherNifsSame(n) /\ LeaversTold(n)
  <1>1. CASE \E h \in Handles : processAgpsEventSubscribe(n, h)
    BY <1>1, SubscribeFacts DEF LeaversTold, leavers
  <1>2. CASE \E h \in subs[n] : releaseStep(n, h)
    <2>1. PICK h \in subs[n] : releaseStep(n, h)
      BY <1>2
    <2>2. OtherNifsSame(n)
      <3>1. processAgpsEventUnsubscribe(n, h)
        BY <2>1 DEF releaseStep
      <3>2. QED BY <3>1, UnsubscribeFacts
    <2>3. QED BY <2>1, <2>2, ReleaseLeavers
  <1>3. CASE processAgpsEventGranted(n)
    BY <1>3, GrantedFacts DEF LeaversTold, leavers
  <1>4. CASE dropAll(n)
    <2>1. OtherNifsSame(n)
      BY <1>4, DropAllFacts
    <2>2. notifyGone(subs[n])
      BY <1>4 DEF dropAll
    <2>3. QED BY <2>1, <2>2 DEF LeaversTold, leavers, notifyGone, SmTypeOK
  <1>5. CASE dropInactive(n)
    <2>1. OtherNifsSame(n) /\ subs'[n] = subs[n] \ inactive[n]
      BY <1>5, DropInactiveFacts
    <2>2. notifyGone(inactive[n])
      BY <1>5 DEF dropInactive
    <2>3. QED BY <2>1, <2>2 DEF LeaversTold, leavers, notifyGone, SmTypeOK
  <1>6. QED BY <1>1, <1>2, <1>3, <1>4, <1>5

(* No subscriber disappears from a list without the modem being told that  *)
(* its link is gone, whatever the order of requests and answers, but for   *)
(* the one that the freed element of a release is taken for.               *)
THEOREM NoSilentLoss == Spec => NobodyForgotten
  <1>1. ASSUME TypeOK, [Next]_vars
        PROVE  \A n \in Nifs : LeaversTold(n)
    <2>1. SmTypeOK
      BY <1>1, SplitTypeOK
    <2>2. ASSUME NEW n \in Nifs, OtherNifsSame(n), LeaversTold(n)
          PROVE  \A k \in Nifs : LeaversTold(k)
      <3>1. ASSUME NEW k \in Nifs, k # n PROVE leavers(k) = {}
        BY <2>2, <3>1 DEF OtherNifsSame, leavers
      <3>2. QED BY <2>2, <3>1 DEF LeaversTold
    <2>3. CASE UNCHANGED smVars
      BY <2>3 DEF smVars, LeaversTold, leavers
    <2>4. ASSUME NEW n \in Nifs, processAgpsEventReleased(n)
          PROVE  UNCHANGED smVars \/ dropAll(n) \/ dropInactive(n)
      BY <2>4 DEF processAgpsEventReleased
    <2>5. ASSUME NEW n \in Nifs, processAgpsEventDenied(n)
          PROVE  UNCHANGED smVars \/ dropAll(n) \/ dropInactive(n)
      BY <2>5 DEF processAgpsEventDenied
    <2>6. \/ UNCHANGED smVars
          \/ \E n \in Nifs :
                 \/ \E h \in Handles : processAgpsEventSubscribe(n, h)
                 \/ \E h \in subs[n] : releaseStep(n, h)
                 \/ processAgpsEventGranted(n)
                 \/ dropAll(n) \/ dropInactive(n)
      BY <1>1, <2>4, <2>5, StepEvents
    <2>7. QED BY <2>1, <2>2, <2>3, <2>6, EventLeavers
  <1>2. TypeOK /\ [Next]_vars =>
            [\A n \in Nifs : \A h \in leavers(n) :
                atl'[h] = "idle" \/ takenForFreed(n, h)]_vars
    BY <1>1 DEF LeaversTold
  <1>3. QED BY <1>2, TypeCorrect, PTL DEF Spec, NobodyForgotten
=============================================================================
