----------------------------- MODULE WindowLimit -----------------------------
(***************************************************************************)
(* What the classify rate limit promises (server/config.py: "Max classify  *)
(* calls per child per minute"): a call of a child is admitted if and only *)
(* if fewer than MaxRpm calls of that child were admitted in the last      *)
(* Window ticks.  Nothing is said of worker processes, of the lists they   *)
(* keep or of how these are pruned.                                        *)
(***************************************************************************)
EXTENDS Integers, Sequences

CONSTANTS
  Children,
  MaxRpm,   \* classify_max_rpm
  Window,   \* 60 s, in ticks
  MaxNow    \* bound: ticks of the clock

ASSUME LimitAssumption == MaxRpm \in Nat \ {0} /\ Window \in Nat /\ MaxNow \in Nat

VARIABLES
  now,      \* time.monotonic()
  admitted, \* times of the admitted calls of each child
  verdict   \* answer to the last call of each child at this instant

limitVars == <<now, admitted, verdict>>

Verdicts == {"none", "admitted", "refused"}

LimitInit ==
  /\ now = 0
  /\ admitted = [c \in Children |-> <<>>]
  /\ verdict = [c \in Children |-> "none"]

(* The MaxRpm-th last admitted call is still inside the window.            *)
WindowFull(c) ==
  /\ Len(admitted[c]) >= MaxRpm
  /\ admitted[c][Len(admitted[c]) - MaxRpm + 1] >= now - Window

LimitTick ==
  /\ now < MaxNow /\ now' = now + 1
  /\ verdict' = [c \in Children |-> "none"]
  /\ UNCHANGED admitted

LimitAdmit(c) ==
  /\ ~WindowFull(c)
  /\ admitted' = [admitted EXCEPT ![c] = Append(@, now)]
  /\ verdict' = [verdict EXCEPT ![c] = "admitted"]
  /\ UNCHANGED now

LimitRefuse(c) ==
  /\ WindowFull(c)
  /\ verdict' = [verdict EXCEPT ![c] = "refused"]
  /\ UNCHANGED <<now, admitted>>

LimitNext == LimitTick \/ \E c \in Children : LimitAdmit(c) \/ LimitRefuse(c)

LimitSpec == LimitInit /\ [][LimitNext]_limitVars

(* Any MaxRpm + 1 successive admitted calls of a child span more than a    *)
(* window.                                                                 *)
AtMostMaxRpm ==
  \A c \in Children : \A i \in DOMAIN admitted[c] :
    i + MaxRpm <= Len(admitted[c]) =>
      admitted[c][i + MaxRpm] > admitted[c][i] + Window
=============================================================================
