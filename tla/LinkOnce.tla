------------------------------ MODULE LinkOnce ------------------------------
(***************************************************************************)
(* What the agent's memory of links promises: a link is handed over for    *)
(* classification only when it is not remembered; a handed link is         *)
(* remembered, and is forgotten only when more than TTL has passed or when *)
(* more than Max links would have to be kept.  Which of several expired    *)
(* links is forgotten when is left open, and so is the order of the links. *)
(***************************************************************************)
EXTENDS Integers, FiniteSets

CONSTANTS URLs, TTL, Max,
  Skew,   \* a link may count as handed up to Skew ticks before it was
  Horizon \* ages above it are not told apart

VARIABLES since, \* since[u]: ticks since u was handed; -1: not remembered
          handed \* links handed over so far
vars == <<since, handed>>

Remembered == {u \in URLs : since[u] >= 0}
Expired == {u \in URLs : since[u] > TTL}
Without(F, s) == [u \in URLs |-> IF u \in F THEN -1 ELSE s[u]]

Init == since = [u \in URLs |-> -1] /\ handed = {}

Tick ==
  /\ since' = [u \in URLs |-> IF since[u] \in 0..(Horizon - 1) THEN since[u] + 1
                              ELSE since[u]]
  /\ UNCHANGED handed

Suppress(u) ==
  \E F \in SUBSET Expired :
    /\ u \in Remembered \ F
    /\ since' = Without(F, since)
    /\ UNCHANGED handed

Hand(u) ==
  \E F \in SUBSET Expired, age \in 0..Skew :
    LET kept == (Remembered \ F) \cup {u}
        now == [Without(F, since) EXCEPT ![u] = age]
    IN /\ u \notin Remembered \ F
       /\ \/ Cardinality(kept) <= Max /\ since' = now
          \/ Cardinality(kept) > Max /\ \E v \in kept : since' = Without({v}, now)
       /\ handed' = handed \cup {u}

Next == Tick \/ \E u \in URLs : Suppress(u) \/ Hand(u)

Spec == Init /\ [][Next]_vars
=============================================================================
