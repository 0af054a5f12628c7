-------------------------- MODULE DeliveryPromise --------------------------
(***************************************************************************)
(* What the way from the agent to the parent promises: an event gets one   *)
(* outcome, and "delivered" only after a copy of it is stored, if it is an *)
(* alert; an alert is stored and told at most once per copy, and only what *)
(* is stored is told.  Handlers may still store and tell after the agent   *)
(* has made up its mind.  Queue, clock, network and database are left out. *)
(***************************************************************************)
CONSTANTS Events, Alerts,
  Copies \* pairs <<event, number>>

VARIABLES outcome, stored, told
vars == <<outcome, stored, told>>

Init == outcome = [e \in Events |-> "none"] /\ stored = {} /\ told = {}

Report(e) ==
  /\ outcome[e] = "none"
  /\ outcome' = [outcome EXCEPT ![e] = "pending"]
  /\ UNCHANGED <<stored, told>>

Store(c) ==
  /\ c[1] \in Alerts /\ outcome[c[1]] # "none" /\ c \notin stored
  /\ stored' = stored \cup {c}
  /\ UNCHANGED <<outcome, told>>

Tell(c) ==
  /\ c \in stored \ told
  /\ told' = told \cup {c}
  /\ UNCHANGED <<outcome, stored>>

Decide(e, o) ==
  /\ outcome[e] = "pending"
  /\ o = "delivered" /\ e \in Alerts => \E c \in stored : c[1] = e
  /\ outcome' = [outcome EXCEPT ![e] = o]
  /\ UNCHANGED <<stored, told>>

Next ==
  \/ \E e \in Events : Report(e)
  \/ \E e \in Events, o \in {"delivered", "rejected", "lost"} : Decide(e, o)
  \/ \E c \in Copies : Store(c) \/ Tell(c)

Spec == Init /\ [][Next]_vars
=============================================================================
