--------------------------- MODULE SharedDataConn ---------------------------
(***************************************************************************)
(* What the AGPS manager promises the modem, without its state machine: a  *)
(* network interface (nif) is shared by its users, it is asked for when    *)
(* the first one arrives, every user is told when it comes up, and a user  *)
(* is told of no connection it does not hold.  Agps is shown to implement  *)
(* this module.                                                            *)
(***************************************************************************)
CONSTANTS Nifs, Handles,
          MayLose  \* users that may be lost when another one leaves

VARIABLES users,  \* [Nifs -> SUBSET Handles]: who holds the connection
          told,   \* [Nifs -> SUBSET Handles]: who was told that it is up
          up      \* [Nifs -> BOOLEAN]

connVars == <<users, told, up>>

Init == /\ users = [n \in Nifs |-> {}]
        /\ told = [n \in Nifs |-> {}]
        /\ up = [n \in Nifs |-> FALSE]

(* A user joins; it is told at once exactly when the connection is up. *)
Acquire(n, h) ==
    /\ users' = [users EXCEPT ![n] = @ \cup {h}]
    /\ told' = IF up[n] THEN [told EXCEPT ![n] = @ \cup {h}] ELSE told
    /\ UNCHANGED up

(* Users H leave; the last ones take the connection down. *)
Leave(n, H) ==
    /\ users' = [users EXCEPT ![n] = @ \ H]
    /\ told' = [told EXCEPT ![n] = @ \ H]
    /\ up' = [up EXCEPT ![n] = @ /\ ~(users[n] \subseteq H)]

(* A user leaves, and at most one more is lost with it. *)
Release(n, h) ==
    /\ h \in users[n]
    /\ Leave(n, {h}) \/ \E g \in MayLose : Leave(n, {g, h})

(* The connection comes up and all its users hear of it. *)
Connect(n) ==
    /\ ~up[n] /\ users[n] # {}
    /\ up' = [up EXCEPT ![n] = TRUE]
    /\ told' = [told EXCEPT ![n] = users[n]]
    /\ UNCHANGED users

(* The connection is refused or lost, and nobody holds it any longer. *)
Fail(n) ==
    /\ users[n] # {}
    /\ users' = [users EXCEPT ![n] = {}]
    /\ told' = [told EXCEPT ![n] = {}]
    /\ up' = [up EXCEPT ![n] = FALSE]

Next == \E n \in Nifs : \/ \E h \in Handles : Acquire(n, h) \/ Release(n, h)
                        \/ Connect(n)
                        \/ Fail(n)

Spec == Init /\ [][Next]_connVars
=============================================================================
