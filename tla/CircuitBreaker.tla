--------------------------- MODULE CircuitBreaker ---------------------------
(***************************************************************************)
(* The three-state circuit breaker that guards the LLM                     *)
(* (classify/circuit_breaker.py) and MongoDB (core/db_circuit_breaker.py). *)
(* The two classes have the same three critical sections: the guard before *)
(* an operation, and the recording of its success or of its tripping       *)
(* failure after it.  Between guard and record no lock is held, so any     *)
(* number of calls overlap and may end after the circuit has moved on.     *)
(*                                                                         *)
(* Time is counted in ticks.  A call lasts at most MaxCall ticks           *)
(* (asyncio.wait_for around the LLM call, the driver's timeouts around a   *)
(* database operation); sinceOpen saturates at RecoveryTimeout, the only   *)
(* value it is compared with.                                              *)
(***************************************************************************)
EXTENDS Integers, FiniteSets

CONSTANTS
  Callers,         \* concurrent callers; each makes one call at a time
  LazyCallers,     \* callers whose operation returns without any I/O
                   \* (Collection.find() hands out a cursor)
  Threshold,       \* failure_threshold
  RecoveryTimeout, \* recovery_timeout
  MaxCall          \* longest a call can take

ASSUME CallersAssumption == IsFiniteSet(Callers) /\ LazyCallers \subseteq Callers
ASSUME ThresholdAssumption == Threshold \in Nat \ {0}
ASSUME TimeAssumption == RecoveryTimeout \in Nat \ {0} /\ MaxCall \in Nat

VARIABLES
  state,     \* _state
  failures,  \* _failures
  sinceOpen, \* time.monotonic() - _opened_at, while it matters
  probe,     \* _probe_in_flight
  pc,        \* a caller's call, if it makes one; "probe" is a call let
             \* through in HALF_OPEN (a distinction the code does not make)
  age,       \* how long the current call has been running
  reachable  \* whether the LLM or the database would answer

breakerVars == <<state, failures, sinceOpen, probe>>
vars == <<breakerVars, pc, age, reachable>>

InFlight(c) == pc[c] \in {"call", "probe"}
Calls == {c \in Callers : InFlight(c)}

Init ==
  /\ state = "closed" /\ failures = 0 /\ sinceOpen = 0 /\ probe = FALSE
  /\ pc = [c \in Callers |-> "none"]
  /\ age = [c \in Callers |-> 0]
  /\ reachable = TRUE

-----------------------------------------------------------------------------
(* Environment: the dependency goes down and comes back; time passes, but  *)
(* not past the time-out of a running call.                                *)
ReachabilityChanges ==
  /\ reachable' = ~reachable
  /\ UNCHANGED <<breakerVars, pc, age>>

Tick ==
  /\ \A c \in Calls : age[c] < MaxCall
  /\ age' = [c \in Callers |-> IF InFlight(c) THEN age[c] + 1 ELSE age[c]]
  /\ sinceOpen' = IF state = "open" /\ sinceOpen < RecoveryTimeout
                  THEN sinceOpen + 1 ELSE sinceOpen
  /\ UNCHANGED <<state, failures, probe, pc, reachable>>

-----------------------------------------------------------------------------
(* The guard at the top of call() / guard(): one critical section.  An     *)
(* expired OPEN circuit becomes HALF_OPEN whether or not the caller is let *)
(* through.                                                                *)
Expired == state = "open" /\ sinceOpen >= RecoveryTimeout
GuardedState == IF Expired THEN "half_open" ELSE state

Refuses_ProbesOnly == GuardedState = "half_open" /\ probe \* faulty: not when OPEN
Refuses_NoProbeFlag == GuardedState = "open" \* faulty: any number of probes
Refuses == \/ GuardedState = "open"
           \/ GuardedState = "half_open" /\ probe

GuardMoves ==
  /\ state' = GuardedState
  /\ failures' = IF Expired THEN 0 ELSE failures
  /\ sinceOpen' = IF Expired THEN 0 ELSE sinceOpen

Admit(c) ==
  /\ ~InFlight(c) /\ ~Refuses
  /\ GuardMoves
  /\ probe' = (GuardedState = "half_open")
  /\ pc' = [pc EXCEPT ![c] = IF GuardedState = "half_open" THEN "probe"
                             ELSE "call"]
  /\ age' = [age EXCEPT ![c] = 0]
  /\ UNCHANGED reachable

Refuse(c) ==
  /\ ~InFlight(c) /\ Refuses
  /\ GuardMoves
  /\ UNCHANGED <<probe, pc, age, reachable>>

-----------------------------------------------------------------------------
(* The end of a call, with the critical section it runs.                   *)

Ends(c) ==
  /\ InFlight(c)
  /\ pc' = [pc EXCEPT ![c] = "none"]
  /\ age' = [age EXCEPT ![c] = 0]
  /\ UNCHANGED reachable

(* _record_success, from whatever state the circuit is in by now.          *)
RecordSuccess_StaysHalfOpen(c) == \* faulty: only the counters are reset
  /\ Ends(c)
  /\ failures' = 0 /\ probe' = FALSE
  /\ UNCHANGED <<state, sinceOpen>>
RecordSuccess(c) ==
  /\ Ends(c)
  /\ state' = "closed" /\ failures' = 0 /\ probe' = FALSE /\ sinceOpen' = 0

Succeed(c) == (reachable \/ c \in LazyCallers) /\ RecordSuccess(c)

(* _record_failure: LLMUnavailableError, LLMTimeoutError, ConnectionFailure. *)
Trips_OffByOne == state = "half_open" \/ failures >= Threshold \* faulty
Trips == state = "half_open" \/ failures + 1 >= Threshold

RecordFailure(c) ==
  /\ Ends(c)
  /\ failures' = failures + 1
  /\ probe' = FALSE
  /\ state' = IF Trips THEN "open" ELSE state
  /\ sinceOpen' = IF Trips THEN 0 ELSE sinceOpen

Fail(c) == ~reachable /\ c \notin LazyCallers /\ RecordFailure(c)

(* Any other exception: LLMInferenceError, LLMResponseParseError, a        *)
(* cancelled request; DuplicateKeyError, OperationFailure.  Nothing is     *)
(* recorded.                                                               *)
FailOther(c) ==
  /\ c \notin LazyCallers
  /\ Ends(c)
  /\ UNCHANGED breakerVars

-----------------------------------------------------------------------------
Enter(c) == Admit(c) \/ Refuse(c)
Leave(c) == Succeed(c) \/ Fail(c) \/ FailOther(c)

Next ==
  \/ ReachabilityChanges
  \/ Tick
  \/ \E c \in Callers : Enter(c) \/ Leave(c)

Spec == Init /\ [][Next]_vars

(* Time passes, calls end (they time out), and every caller keeps making   *)
(* calls: the agents never stop asking.                                    *)
Fairness ==
  /\ WF_vars(Tick)
  /\ \A c \in Callers : WF_vars(Enter(c)) /\ WF_vars(Leave(c))

FairSpec == Spec /\ Fairness

-----------------------------------------------------------------------------
(* Every variable stays in its range; in particular the failures reported  *)
(* by late calls cannot push the counter far beyond the threshold.         *)
TypeOK ==
  /\ state \in {"closed", "open", "half_open"}
  /\ failures \in 0..(Threshold + Cardinality(Callers))
  /\ sinceOpen \in 0..RecoveryTimeout
  /\ probe \in BOOLEAN
  /\ pc \in [Callers -> {"none", "call", "probe"}]
  /\ age \in [Callers -> 0..MaxCall]
  /\ reachable \in BOOLEAN

(* The fields of the breaker agree with each other whatever calls end in   *)
(* whatever order: a CLOSED circuit is below its threshold, a HALF_OPEN    *)
(* one starts counting from zero, an OPEN one has counted at least one     *)
(* failure, and the probe flag is up in HALF_OPEN only.                    *)
BreakerConsistent ==
  /\ state = "closed" => failures < Threshold
  /\ state = "half_open" => failures = 0
  /\ state = "open" => failures > 0
  /\ probe => state = "half_open"

(* The probes that are in flight together were let through at least        *)
(* RecoveryTimeout apart: whatever stragglers end in the meantime, only a  *)
(* circuit that was OPEN for that long lets another one through.           *)
ProbesSpaced ==
  \A c, d \in Callers :
    /\ pc[c] = "probe" /\ pc[d] = "probe" /\ c # d
    /\ age[c] >= age[d]
    => age[c] - age[d] >= RecoveryTimeout

(* Once the dependency answers for good, the circuit closes for good       *)
(* (Readme.md:551: "until the circuit self-heals").                        *)
SelfHeals == <>[]reachable => <>[](state = "closed")

(* The same, as long as the probe flag is never left behind by a probe     *)
(* that is no longer running.                                              *)
ProbeFlagBacked == probe => \E c \in Callers : pc[c] = "probe"
SelfHealsUnlessProbeLeaks ==
  ([]ProbeFlagBacked /\ <>[]reachable) => <>[](state = "closed")
=============================================================================
