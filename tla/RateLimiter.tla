----------------------------- MODULE RateLimiter -----------------------------
(***************************************************************************)
(* The per-child limit on classify calls (server/classify/service.py):     *)
(* check_rate_limit and the background sweep over the in-process store     *)
(* _classify_call_times.  Each server worker process has a store of its    *)
(* own; the clock is the machine's.  check_rate_limit and _sweep_once hold *)
(* _classify_rate_lock and do not await under it, so each is one step.     *)
(***************************************************************************)
EXTENDS WindowLimit, FiniteSets

CONSTANTS
  Workers,  \* server worker processes (network.workers)
  RedisUrl, \* whether redis.url is set
  Live      \* whether the environment is staging or production

(* validate_startup: a live server refuses to start with several workers   *)
(* and no Redis URL (_check_multi_worker); in development it only warns.   *)
(* Redis or not, the store below is in the memory of each process.         *)
ASSUME DeploymentAssumption ==
  /\ RedisUrl \in BOOLEAN /\ Live \in BOOLEAN
  /\ Live => (RedisUrl \/ \A v, w \in Workers : v = w)

VARIABLES callTimes \* callTimes[w]: _classify_call_times of worker w; a child
                    \* without an entry has an empty list

vars == <<limitVars, callTimes>>

Init ==
  /\ LimitInit
  /\ callTimes = [w \in Workers |-> [c \in Children |-> <<>>]]

Cutoff == now - Window

(* bisect_left: how many of the times come before the cutoff.              *)
BisectLeft(ts, t) ==
  CHOOSE n \in 0..Len(ts) : /\ \A i \in 1..n : ts[i] < t
                            /\ \A i \in (n + 1)..Len(ts) : ts[i] >= t

Pruned_Inclusive(ts) == \* faulty: bisect_right drops the call at the cutoff
  SubSeq(ts, BisectLeft(ts, Cutoff + 1) + 1, Len(ts))
Pruned(ts) == SubSeq(ts, BisectLeft(ts, Cutoff) + 1, Len(ts))

Tick ==
  /\ LimitTick
  /\ UNCHANGED callTimes

Recorded_InFront(ts) == <<now>> \o ts \* faulty: insert(0, now)
Recorded(ts) == Append(ts, now)

(* check_rate_limit, in the worker that got the request.                   *)
CheckRateLimit(w, c) ==
  LET ts == Pruned(callTimes[w][c]) IN
  /\ IF Len(ts) < MaxRpm
     THEN /\ callTimes' = [callTimes EXCEPT ![w][c] = Recorded(ts)]
          /\ admitted' = [admitted EXCEPT ![c] = Append(@, now)]
          /\ verdict' = [verdict EXCEPT ![c] = "admitted"]
     ELSE /\ callTimes' = [callTimes EXCEPT ![w][c] = ts]
          /\ verdict' = [verdict EXCEPT ![c] = "refused"]
          /\ UNCHANGED admitted
  /\ UNCHANGED now

(* _sweep_once: a child whose last call is old enough loses its entry.     *)
Evicts_OldestCall(ts) == ts # <<>> /\ ts[1] < Cutoff \* faulty: ts[0], not ts[-1]
Evicts(ts) == ts # <<>> /\ ts[Len(ts)] < Cutoff

Sweep(w) ==
  /\ callTimes' = [callTimes EXCEPT ![w] =
       [c \in Children |-> IF Evicts(@[c]) THEN <<>> ELSE @[c]]]
  /\ UNCHANGED limitVars

Next ==
  \/ Tick
  \/ \E w \in Workers : Sweep(w) \/ \E c \in Children : CheckRateLimit(w, c)

Spec == Init /\ [][Next]_vars

-----------------------------------------------------------------------------
(* Times and stores stay in their ranges, and the stores are sorted: the   *)
(* binary search and the sweep rely on it ("Timestamps are always appended *)
(* in order", server/classify/service.py:55).                              *)
Sorted(s) == \A i, j \in DOMAIN s : i <= j => s[i] <= s[j]
TypeOK ==
  /\ now \in 0..MaxNow
  /\ admitted \in [Children -> Seq(0..now)]
  /\ verdict \in [Children -> Verdicts]
  /\ callTimes \in [Workers -> [Children -> Seq(0..now)]]
  /\ \A w \in Workers, c \in Children : Sorted(callTimes[w][c])

(* With one worker the pruned and swept lists decide exactly as the        *)
(* abstract limit does: nothing too early, nothing too late.               *)
ImplementsLimit == LimitSpec
=============================================================================
