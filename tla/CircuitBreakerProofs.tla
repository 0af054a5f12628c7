------------------------ MODULE CircuitBreakerProofs ------------------------
(***************************************************************************)
(* Proofs about CircuitBreaker: its fields always agree, and the probes it *)
(* lets through are at least the recovery time apart, however long a call  *)
(* lasts.                                                                  *)
(* The type invariant is kept by more steps than the module has (AnyNext), *)
(* so that what uses the breaker can cite the lemmas about it.             *)
(***************************************************************************)
EXTENDS CircuitBreaker, FiniteSetTheorems, TLAPS

(* TypeOK without the bound on failures.                                   *)
Types ==
  /\ state \in {"closed", "open", "half_open"}
  /\ failures \in Nat
  /\ sinceOpen \in 0..RecoveryTimeout
  /\ probe \in BOOLEAN
  /\ pc \in [Callers -> {"none", "call", "probe"}]
  /\ age \in [Callers -> 0..MaxCall]
  /\ reachable \in BOOLEAN

(* Nobody is admitted to an OPEN circuit, so each failure reported to it   *)
(* uses up one of the calls that were in flight when it opened.            *)
FailuresBounded ==
  state = "open" =>
    failures + Cardinality(Calls) < Threshold + Cardinality(Callers)

LEMMA CallsFinite ==
  /\ IsFiniteSet(Callers) /\ Cardinality(Callers) \in Nat
  /\ IsFiniteSet(Calls) /\ Cardinality(Calls) \in Nat
  /\ Cardinality(Calls) <= Cardinality(Callers)
<1>1. IsFiniteSet(Callers) /\ Calls \subseteq Callers
  BY CallersAssumption DEF CallersAssumption, Calls
<1>. QED
  BY <1>1, FS_Subset, FS_CardinalityType

(* The end of a call leaves one call fewer in flight.                      *)
LEMMA EndsCount ==
  ASSUME Types, NEW c \in Callers, Ends(c)
  PROVE  /\ Calls' = Calls \ {c} /\ c \in Calls
         /\ Cardinality(Calls') = Cardinality(Calls) - 1
<1>1. Calls' = Calls \ {c} /\ c \in Calls
  BY DEF Types, Ends, Calls, InFlight
<1>. QED
  BY <1>1, CallsFinite, FS_RemoveElement

LEMMA EndsTypes ==
  ASSUME Types, NEW c \in Callers, Ends(c)
  PROVE  /\ pc' \in [Callers -> {"none", "call", "probe"}]
         /\ age' \in [Callers -> 0..MaxCall]
         /\ reachable' \in BOOLEAN
<1>1. 0 \in 0..MaxCall
  BY TimeAssumption DEF TimeAssumption
<1>2. age' \in [Callers -> 0..MaxCall] /\ reachable' \in BOOLEAN
  BY <1>1 DEF Types, Ends
<1>3. pc' \in [Callers -> {"none", "call", "probe"}]
  BY DEF Types, Ends
<1>. QED
  BY <1>2, <1>3

(* A call may end in any way whether or not the dependency would answer:   *)
(* the caller decides what it records.                                     *)
AnyEnd(c) == RecordSuccess(c) \/ RecordFailure(c) \/ FailOther(c)
AnyNext ==
  \/ ReachabilityChanges
  \/ Tick
  \/ \E c \in Callers : Enter(c) \/ AnyEnd(c)

LEMMA NextIsAnyNext == [Next]_vars => [AnyNext]_vars
BY DEF Next, AnyNext, Leave, AnyEnd, Succeed, Fail

LEMMA TypesStep ==
  Types /\ BreakerConsistent /\ [AnyNext]_vars => Types' /\ BreakerConsistent'
<1>. SUFFICES ASSUME Types, BreakerConsistent, [AnyNext]_vars
             PROVE  Types' /\ BreakerConsistent'
  OBVIOUS
<1>. USE TimeAssumption, ThresholdAssumption
     DEF TimeAssumption, ThresholdAssumption, Types, BreakerConsistent
<1>1. CASE ReachabilityChanges
  BY <1>1 DEF ReachabilityChanges, breakerVars
<1>2. CASE Tick
  <2>1. age' \in [Callers -> 0..MaxCall]
    BY <1>2 DEF Tick, Calls
  <2>2. sinceOpen' \in 0..RecoveryTimeout
    BY <1>2 DEF Tick
  <2>. QED
    BY <1>2, <2>1, <2>2 DEF Tick
<1>3. ASSUME NEW c \in Callers, Admit(c)
      PROVE  Types' /\ BreakerConsistent'
  BY <1>3 DEF Admit, Refuses, GuardMoves, GuardedState, Expired
<1>4. ASSUME NEW c \in Callers, Refuse(c)
      PROVE  Types' /\ BreakerConsistent'
  BY <1>4 DEF Refuse, Refuses, GuardMoves, GuardedState, Expired
<1>5. ASSUME NEW c \in Callers, RecordSuccess(c)
      PROVE  Types' /\ BreakerConsistent'
  <2>1. Ends(c)
    BY <1>5 DEF RecordSuccess
  <2>2. /\ pc' \in [Callers -> {"none", "call", "probe"}]
         /\ age' \in [Callers -> 0..MaxCall]
         /\ reachable' \in BOOLEAN
    BY <2>1, EndsTypes
  <2>3. /\ state' \in {"closed", "open", "half_open"} /\ failures' \in Nat
         /\ sinceOpen' \in 0..RecoveryTimeout
    BY <1>5 DEF RecordSuccess
  <2>4. probe' \in BOOLEAN
    BY <1>5, Zenon DEF RecordSuccess
  <2>5. BreakerConsistent'
    BY <1>5 DEF RecordSuccess
  <2>. QED
    BY <2>2, <2>3, <2>4, <2>5, Zenon
<1>6. ASSUME NEW c \in Callers, RecordFailure(c)
      PROVE  Types' /\ BreakerConsistent'
  <2>1. Ends(c)
    BY <1>6 DEF RecordFailure
  <2>2. /\ state' \in {"closed", "open", "half_open"} /\ failures' \in Nat
         /\ sinceOpen' \in 0..RecoveryTimeout
    BY <1>6 DEF RecordFailure
  <2>3. probe' \in BOOLEAN
    BY <1>6, Zenon DEF RecordFailure
  <2>4. BreakerConsistent'
    BY <1>6 DEF RecordFailure, Trips
  <2>5. /\ pc' \in [Callers -> {"none", "call", "probe"}]
         /\ age' \in [Callers -> 0..MaxCall]
         /\ reachable' \in BOOLEAN
    BY <2>1, EndsTypes
  <2>. QED
    BY <2>2, <2>3, <2>4, <2>5, Zenon
<1>7. ASSUME NEW c \in Callers, FailOther(c)
      PROVE  Types' /\ BreakerConsistent'
  BY <1>7 DEF FailOther, Ends, breakerVars
<1>8. CASE UNCHANGED vars
  BY <1>8 DEF vars, breakerVars
<1>. QED
  BY <1>1, <1>2, <1>3, <1>4, <1>5, <1>6, <1>7, <1>8 DEF AnyNext, Enter, AnyEnd

LEMMA TypesInit == Init => Types /\ BreakerConsistent
<1>. SUFFICES ASSUME Init
             PROVE  Types /\ BreakerConsistent
  OBVIOUS
<1>1. 0 \in 0..MaxCall /\ 0 \in 0..RecoveryTimeout /\ 0 < Threshold
  BY TimeAssumption, ThresholdAssumption DEF TimeAssumption, ThresholdAssumption
<1>2. age \in [Callers -> 0..MaxCall]
  BY <1>1 DEF Init
<1>3. pc \in [Callers -> {"none", "call", "probe"}]
  BY DEF Init
<1>. QED
  BY <1>1, <1>2, <1>3 DEF Init, Types, BreakerConsistent

LEMMA TypesAlways == Spec => [](Types /\ BreakerConsistent)
BY TypesInit, TypesStep, NextIsAnyNext, PTL DEF Spec

(* Whatever calls end in whatever order, the state, the failure counter    *)
(* and the probe flag of the breaker agree (guard, _record_success and     *)
(* _record_failure of both breakers).                                      *)
THEOREM FieldsAgree == Spec => []BreakerConsistent
BY TypesAlways, PTL

-----------------------------------------------------------------------------
LEMMA BoundStep ==
  Types /\ BreakerConsistent /\ FailuresBounded /\ [AnyNext]_vars
    => FailuresBounded'
<1>. SUFFICES ASSUME Types, BreakerConsistent, FailuresBounded, [AnyNext]_vars,
                    state' = "open"
             PROVE  failures' + Cardinality(Calls')
                      < Threshold + Cardinality(Callers)
  BY DEF FailuresBounded
<1>. USE CallsFinite, ThresholdAssumption
     DEF Types, BreakerConsistent, FailuresBounded, ThresholdAssumption
<1>1. ASSUME NEW c \in Callers, Admit(c)
      PROVE  FALSE
  BY <1>1 DEF Admit, Refuses, GuardMoves, GuardedState, Expired
<1>2. ASSUME NEW c \in Callers, Refuse(c)
      PROVE  UNCHANGED <<state, failures, Calls>>
  BY <1>2 DEF Refuse, Refuses, GuardMoves, GuardedState, Expired, Calls, InFlight
<1>3. ASSUME NEW c \in Callers, RecordFailure(c)
      PROVE  failures' + Cardinality(Calls')
               < Threshold + Cardinality(Callers)
  <2>1. Cardinality(Calls') = Cardinality(Calls) - 1 /\ failures' = failures + 1
    BY <1>3, EndsCount DEF RecordFailure
  <2>2. CASE state = "open"
    BY <2>1, <2>2
  <2>3. CASE state # "open"
    <3>1. failures < Threshold
      BY <2>3
    <3>. QED
      BY <2>1, <3>1
  <2>. QED
    BY <2>2, <2>3
<1>4. ASSUME NEW c \in Callers, FailOther(c)
      PROVE  failures' + Cardinality(Calls')
               < Threshold + Cardinality(Callers)
  <2>1. Cardinality(Calls') = Cardinality(Calls) - 1
    BY <1>4, EndsCount DEF FailOther
  <2>. QED
    BY <1>4, <2>1 DEF FailOther, breakerVars
<1>5. ASSUME NEW c \in Callers, RecordSuccess(c)
      PROVE  FALSE
  BY <1>5 DEF RecordSuccess
<1>6. CASE UNCHANGED <<state, failures, Calls>>
  BY <1>6
<1>7. ReachabilityChanges \/ Tick \/ UNCHANGED vars
        => UNCHANGED <<state, failures, Calls>>
  BY DEF ReachabilityChanges, Tick, vars, breakerVars, Calls, InFlight
<1>. QED
  BY <1>1, <1>2, <1>3, <1>4, <1>5, <1>6, <1>7 DEF AnyNext, Enter, AnyEnd

LEMMA BoundInit == Init => FailuresBounded
BY DEF Init, FailuresBounded

LEMMA BoundTypes == Types /\ BreakerConsistent /\ FailuresBounded => TypeOK
BY CallsFinite, ThresholdAssumption
DEF Types, BreakerConsistent, FailuresBounded, TypeOK, ThresholdAssumption

(* The breaker's variables stay in their ranges; the failure counter never *)
(* exceeds the threshold by more than the number of concurrent callers.    *)
THEOREM TypeCorrect == Spec => []TypeOK
BY BoundInit, BoundTypes, TypesAlways, BoundStep, NextIsAnyNext, PTL DEF Spec

-----------------------------------------------------------------------------
(* Calls that are in flight while the circuit is OPEN are at least as old  *)
(* as the opening: nobody is admitted to it.  HALF_OPEN is entered by the  *)
(* guard that lets a probe through, and left when the flag falls.          *)
OpenSinceCalls == state = "open" => \A c \in Calls : age[c] >= sinceOpen
HalfOpenProbes == state = "half_open" => probe
Spacing == OpenSinceCalls /\ HalfOpenProbes /\ ProbesSpaced

(* So a probe is let through only when the circuit has been OPEN for       *)
(* RecoveryTimeout, and every call it finds in flight is that old.         *)
LEMMA ProbeMeetsStragglers ==
  ASSUME Types, BreakerConsistent, Spacing,
         NEW c \in Callers, Admit(c), GuardedState = "half_open"
  PROVE  \A d \in Calls : age[d] >= RecoveryTimeout
<1>1. Expired
  BY DEF Admit, Refuses, GuardedState, Spacing, HalfOpenProbes
<1>. QED
  BY <1>1, TimeAssumption
  DEF Expired, Spacing, OpenSinceCalls, Types, Calls, TimeAssumption

LEMMA SpacingInit == Init => Spacing
BY DEF Init, Spacing, OpenSinceCalls, HalfOpenProbes, ProbesSpaced

LEMMA AdmitSpacing ==
  ASSUME Types, BreakerConsistent, Spacing, NEW c \in Callers, Admit(c)
  PROVE  Spacing'
<1>. USE TimeAssumption DEF TimeAssumption, Types, Calls, InFlight
<1>1. GuardedState # "open" /\ state' = GuardedState
  BY DEF Admit, Refuses, GuardMoves
<1>2. OpenSinceCalls' /\ HalfOpenProbes'
  BY <1>1 DEF Admit, OpenSinceCalls, HalfOpenProbes
<1>3. \A d \in Callers \ {c} : pc'[d] = pc[d] /\ age'[d] = age[d]
  BY DEF Admit
<1>4. CASE GuardedState = "half_open"
  <2>1. age'[c] = 0 /\ \A d \in Callers : age[d] \in Nat
    BY DEF Admit
  <2>2. \A d \in Calls : age[d] >= RecoveryTimeout
    BY <1>4, ProbeMeetsStragglers
  <2>. QED
    BY <1>2, <1>3, <2>1, <2>2 DEF Spacing, ProbesSpaced
<1>5. CASE GuardedState # "half_open"
  <2>1. pc'[c] = "call"
    BY <1>5 DEF Admit
  <2>. QED
    BY <1>2, <1>3, <2>1 DEF Spacing, ProbesSpaced
<1>. QED
  BY <1>4, <1>5

(* The end of a call takes it out of the calls in flight and leaves the    *)
(* others as they are.                                                     *)
LEMMA EndsSpacing ==
  ASSUME Types, Spacing, NEW c \in Callers, Ends(c)
  PROVE  /\ ProbesSpaced'
         /\ \A d \in Calls' : d \in Calls /\ age'[d] = age[d] /\ age[d] \in Nat
<1>1. /\ pc'[c] = "none"
      /\ \A d \in Callers \ {c} : pc'[d] = pc[d] /\ age'[d] = age[d]
  BY DEF Ends, Types
<1>2. \A d \in Callers : age[d] \in Nat
  BY TimeAssumption DEF Types, TimeAssumption
<1>. QED
  BY <1>1, <1>2 DEF Spacing, ProbesSpaced, Calls, InFlight

LEMMA SpacingStep ==
  Types /\ BreakerConsistent /\ Spacing /\ [AnyNext]_vars => Spacing'
<1>. SUFFICES ASSUME Types, BreakerConsistent, Spacing, [AnyNext]_vars
             PROVE  Spacing'
  OBVIOUS
<1>1. CASE ReachabilityChanges \/ UNCHANGED vars
  BY <1>1 DEF ReachabilityChanges, vars, breakerVars, Spacing, OpenSinceCalls,
              HalfOpenProbes, ProbesSpaced, Calls, InFlight
<1>2. CASE Tick
  <2>1. /\ UNCHANGED <<state, probe, pc>>
        /\ sinceOpen' = sinceOpen \/ (state = "open" /\ sinceOpen' = sinceOpen + 1)
        /\ sinceOpen \in Nat
        /\ \A c \in Calls : age'[c] = age[c] + 1 /\ age[c] \in Nat
    <3>1. UNCHANGED <<state, probe, pc>>
      BY <1>2, Zenon DEF Tick
    <3>2. sinceOpen' = IF state = "open" /\ sinceOpen < RecoveryTimeout
                      THEN sinceOpen + 1 ELSE sinceOpen
      BY <1>2, Zenon DEF Tick
    <3>3. sinceOpen \in Nat
      BY TimeAssumption DEF Types, TimeAssumption
    <3>4. sinceOpen' = sinceOpen \/ (state = "open" /\ sinceOpen' = sinceOpen + 1)
      BY <3>2
    <3>5. \A c \in Calls : age'[c] = age[c] + 1 /\ age[c] \in Nat
      BY <1>2, TimeAssumption DEF Tick, Types, Calls, TimeAssumption
    <3>. QED
      BY <3>1, <3>3, <3>4, <3>5, Zenon
  <2>2. OpenSinceCalls' /\ HalfOpenProbes'
    BY <2>1 DEF Spacing, OpenSinceCalls, HalfOpenProbes, Calls, InFlight
  <2>3. ProbesSpaced'
    BY <2>1 DEF Spacing, ProbesSpaced, Calls, InFlight
  <2>. QED
    BY <2>2, <2>3 DEF Spacing
<1>3. ASSUME NEW c \in Callers, Refuse(c)
      PROVE  Spacing'
  <2>1. GuardedState = state /\ UNCHANGED <<state, sinceOpen, probe, pc, age>>
    BY <1>3 DEF Refuse, Refuses, GuardMoves, GuardedState, Expired, BreakerConsistent
  <2>. QED
    BY <2>1 DEF Spacing, OpenSinceCalls, HalfOpenProbes, ProbesSpaced, Calls, InFlight
<1>4. ASSUME NEW c \in Callers, AnyEnd(c)
      PROVE  Spacing'
  <2>1. Ends(c)
    BY <1>4 DEF AnyEnd, RecordSuccess, RecordFailure, FailOther
  <2>2. HalfOpenProbes'
    BY <1>4 DEF AnyEnd, RecordSuccess, RecordFailure, FailOther, Trips, breakerVars,
                Spacing, HalfOpenProbes
  <2>3. state' = "open" => sinceOpen' = 0 \/ (state = "open" /\ sinceOpen' = sinceOpen)
    BY <1>4 DEF AnyEnd, RecordSuccess, RecordFailure, FailOther, breakerVars
  <2>4. OpenSinceCalls'
    BY <2>1, <2>3, EndsSpacing DEF Spacing, OpenSinceCalls
  <2>. QED
    BY <2>1, <2>2, <2>4, EndsSpacing DEF Spacing
<1>. QED
  BY <1>1, <1>2, <1>3, <1>4, AdmitSpacing DEF AnyNext, Enter

(* Probes that are in flight together were let through at least            *)
(* RecoveryTimeout apart, for any number of calls and however long they    *)
(* last, with the time-outs the program is deployed with (120 s for a      *)
(* classify call, 60 s of recovery) as with others.                        *)
THEOREM ProbesKeepDistance == Spec => []ProbesSpaced
<1>1. Spacing => ProbesSpaced
  BY DEF Spacing
<1>. QED
  BY <1>1, SpacingInit, SpacingStep, TypesAlways, NextIsAnyNext, PTL DEF Spec
=============================================================================
