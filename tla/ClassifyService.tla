-------------------------- MODULE ClassifyService --------------------------
(***************************************************************************)
(* POST /agent/classify from the agent's question to its answer:           *)
(* agent_classify (classify/router.py), run_classify with its retries      *)
(* (classify/service.py), the circuit breaker around every attempt, and    *)
(* the thread pool of asyncio.to_thread in which the provider blocks.      *)
(*                                                                         *)
(* An attempt that times out is abandoned, not ended: asyncio.wait_for     *)
(* drops a job that is still queued and leaves one that runs to itself.    *)
(* The agent waits eight seconds and then goes on without a verdict, while *)
(* its request goes on.                                                    *)
(*                                                                         *)
(* B is the breaker of module CircuitBreaker, its callers the requests.    *)
(***************************************************************************)
EXTENDS Integers, Sequences, FiniteSets

CONSTANTS
  Requests,        \* handlers that may run at once
  None,
  Pool,            \* threads of the executor
  MaxRetries,      \* _MAX_RETRIES
  Threshold,       \* failure_threshold
  RecoveryTimeout, \* recovery_timeout, in ticks
  CallTimeout      \* _CLASSIFY_TIMEOUT_SECONDS, in ticks

ASSUME ClassifyAssumption ==
  /\ None \notin Requests /\ Pool \in Nat \ {0} /\ MaxRetries \in Nat
ASSUME BreakerAssumption == \* as CircuitBreaker has it
  /\ IsFiniteSet(Requests) /\ Threshold \in Nat \ {0}
  /\ RecoveryTimeout \in Nat \ {0} /\ CallTimeout \in Nat

VARIABLES
  request,   \* a handler: its stage, what it is about, the current attempt,
             \* whether the agent still waits, the answer
  queue,     \* jobs no thread has taken yet
  thread,    \* the job a thread of the pool runs; it is stuck when it was
             \* left hanging by a provider that was not reachable
  state, failures, sinceOpen, probe, pc, age, \* see CircuitBreaker
  reachable  \* whether the provider replies, and in time

B == INSTANCE CircuitBreaker WITH
       Callers <- Requests, LazyCallers <- {}, MaxCall <- CallTimeout

breaker == <<state, failures, sinceOpen, probe, pc, age, reachable>>
vars == <<request, queue, thread, breaker>>

Contents == {"lure", "innocent", "word"}
Threads == 1..Pool
Idle == [for |-> None, content |-> "none", stuck |-> FALSE]
Job(r) == [for |-> r, content |-> request[r].content, stuck |-> FALSE]

Init ==
  /\ B!Init
  /\ request = [r \in Requests |-> [stage |-> "idle", content |-> "innocent",
                  attempt |-> 0, agent |-> "waiting", answer |-> "none"]]
  /\ queue = <<>>
  /\ thread = [i \in Threads |-> Idle]

-----------------------------------------------------------------------------
(* The handler.  A blocked word is found before the model is asked.        *)
Asked(k) ==
  [stage |-> IF k = "word" THEN "answered" ELSE "try", content |-> k,
   attempt |-> IF k = "word" THEN 0 ELSE 1, agent |-> "waiting",
   answer |-> IF k = "word" THEN "YES" ELSE "none"]

Ask(r, k) ==
  /\ request[r].stage \in {"idle", "answered"}
  /\ request' = [request EXCEPT ![r] = Asked(k)]
  /\ UNCHANGED <<queue, thread, breaker>>

Answer(r, a) ==
  request' = [request EXCEPT ![r].stage = "answered", ![r].answer = a,
                             ![r].attempt = 0]

(* agent_classify answers NO to every ClassifyError.                       *)
OnError_Cautious == "YES" \* faulty: better safe than sorry
OnError == "NO"

LLMCircuitOpenError(r) ==
  /\ request[r].stage = "try" /\ B!Refuse(r)
  /\ Answer(r, OnError)
  /\ UNCHANGED <<queue, thread>>

BeginAttempt(r) ==
  /\ request[r].stage = "try" /\ B!Admit(r)
  /\ request' = [request EXCEPT ![r].stage = "wait"]
  /\ queue' = Append(queue, Job(r))
  /\ UNCHANGED thread

(* LLMUnavailableError or LLMTimeoutError: recorded, and tried again.      *)
MayRetry_OffByOne(r) == request[r].attempt <= MaxRetries + 1 \* faulty
MayRetry(r) == request[r].attempt <= MaxRetries

RetryableError(r) ==
  /\ B!RecordFailure(r)
  /\ IF MayRetry(r)
     THEN request' = [request EXCEPT ![r].stage = "try", ![r].attempt = @ + 1]
     ELSE Answer(r, OnError)

(* wait_for covers the time in the queue as well.                          *)
Overdue(r) == age[r] = CallTimeout

Abandoned(r) ==
  [i \in Threads |-> IF thread[i].for = r THEN [thread[i] EXCEPT !.for = None]
                     ELSE thread[i]]

Queued(r) == {n \in DOMAIN queue : queue[n].for = r}
Dropped_Kept(r) == queue \* faulty: the job will still be started
Dropped(r) ==
  IF Queued(r) = {} THEN queue
  ELSE LET n == CHOOSE n \in Queued(r) : TRUE
       IN [i \in 1..(Len(queue) - 1) |-> queue[IF i < n THEN i ELSE i + 1]]

TimeOut(r) ==
  /\ request[r].stage = "wait" /\ Overdue(r)
  /\ RetryableError(r)
  /\ queue' = Dropped(r)
  /\ thread' = Abandoned(r)

-----------------------------------------------------------------------------
(* The pool.                                                               *)
Free == {i \in Threads : thread[i] = Idle}

StartThread(i) ==
  /\ i \in Free /\ queue # <<>>
  /\ thread' = [thread EXCEPT ![i] = Head(queue)]
  /\ queue' = Tail(queue)
  /\ UNCHANGED <<request, breaker>>

Released(i) == [thread EXCEPT ![i] = Idle]

ThreadEnds(i) ==
  /\ thread[i] # Idle
  /\ thread' = Released(i)
  /\ UNCHANGED queue

Unnoticed(i) == thread[i].for = None /\ UNCHANGED <<request, breaker>>

(* The provider's reply: a verdict, or one it cannot use                   *)
(* (LLMResponseParseError, LLMInferenceError), which is not retried.       *)
ModelSays(i) == IF thread[i].content = "lure" THEN "YES" ELSE "NO"

ProviderReplies(i) ==
  /\ reachable /\ ThreadEnds(i)
  /\ \/ Unnoticed(i)
     \/ \E r \in Requests :
          /\ thread[i].for = r
          /\ \/ B!RecordSuccess(r) /\ Answer(r, ModelSays(i))
             \/ B!FailOther(r) /\ Answer(r, OnError)

ProviderUnreachable(i) ==
  /\ ~reachable /\ ThreadEnds(i)
  /\ \/ Unnoticed(i)
     \/ \E r \in Requests : thread[i].for = r /\ RetryableError(r)

-----------------------------------------------------------------------------
(* The agent's eight seconds are over (_classify: via "error").            *)
AgentGivesUp(r) ==
  /\ request[r].stage \in {"try", "wait"} /\ request[r].agent = "waiting"
  /\ request' = [request EXCEPT ![r].agent = "gone"]
  /\ UNCHANGED <<queue, thread, breaker>>

(* A free thread takes a job at once; while the provider is reachable it   *)
(* replies before the next tick to every job that is not stuck already.    *)
NothingToStart == queue # <<>> => Free = {}

Tick ==
  /\ NothingToStart
  /\ reachable => \A i \in Threads : thread[i] = Idle \/ thread[i].stuck
  /\ thread' = [i \in Threads |->
                  IF thread[i] = Idle THEN Idle
                  ELSE [thread[i] EXCEPT !.stuck = TRUE]]
  /\ B!Tick
  /\ UNCHANGED <<request, queue>>

ReachabilityChanges ==
  NothingToStart /\ B!ReachabilityChanges /\ UNCHANGED <<request, queue, thread>>

Attempt(r) == BeginAttempt(r) \/ LLMCircuitOpenError(r)

Next ==
  \/ Tick \/ ReachabilityChanges
  \/ \E r \in Requests : \/ Attempt(r) \/ TimeOut(r) \/ AgentGivesUp(r)
                         \/ \E k \in Contents : Ask(r, k)
  \/ \E i \in Threads : StartThread(i) \/ ProviderReplies(i)
                        \/ ProviderUnreachable(i)

(* The server runs, and time passes even if the provider comes and goes    *)
(* between two ticks for ever (hence SF).  A thread that was left hanging  *)
(* may hang for ever, also when the provider is back: ollama.chat is       *)
(* called without a time-out (ollama_provider.py:41).                      *)
ProviderRepliesInTime(i) == ~thread[i].stuck /\ ProviderReplies(i)

Fairness ==
  /\ SF_vars(Tick)
  /\ \A r \in Requests : WF_vars(Attempt(r)) /\ WF_vars(TimeOut(r))
  /\ \A i \in Threads :
       WF_vars(StartThread(i)) /\ WF_vars(ProviderRepliesInTime(i))

(* The agents keep meeting links.                                          *)
AgentsGoOn == \A r \in Requests : WF_vars(Ask(r, "lure"))

Spec == Init /\ [][Next]_vars /\ Fairness /\ AgentsGoOn

-----------------------------------------------------------------------------
(* Types; at most one job is waited for per request (run_classify).        *)
TypeOK ==
  /\ B!TypeOK
  /\ request \in [Requests -> [stage : {"idle", "try", "wait", "answered"},
                     content : Contents, attempt : 0..(MaxRetries + 1),
                     agent : {"waiting", "gone"}, answer : {"none", "YES", "NO"}]]
  /\ \A i \in Threads : thread[i] \in [for : Requests \cup {None},
                                       content : Contents \cup {"none"},
                                       stuck : BOOLEAN]
  /\ \A i \in DOMAIN queue : queue[i] \in [for : Requests, content : Contents,
                                          stuck : {FALSE}]

(* The breaker counts every attempt once, and knows of no other: a call is *)
(* in flight in it exactly while a handler waits for an attempt, and that  *)
(* attempt has one job, in the queue or in a thread.                       *)
JobsOf(r) == Queued(r) \cup {-i : i \in {j \in Threads : thread[j].for = r}}
OneJobPerAttempt ==
  \A r \in Requests :
    /\ B!InFlight(r) <=> request[r].stage = "wait"
    /\ Cardinality(JobsOf(r)) = IF request[r].stage = "wait" THEN 1 ELSE 0

(* The endpoint, with everything behind it, is an implementation of the    *)
(* promise: an innocent link is never told YES, not even by the late       *)
(* answer of an abandoned thread that belongs to an earlier question; and  *)
(* every question ends although threads may hang and the pool be full.     *)
Phase(r) ==
  CASE request[r].stage = "idle" -> "idle"
    [] request[r].stage # "idle" /\ request[r].agent = "gone" -> "lost"
    [] request[r].stage = "answered" /\ request[r].agent # "gone" -> "told"
    [] OTHER -> "asked"
Promise == INSTANCE ClassifyPromise WITH
  phase <- [r \in Requests |-> Phase(r)],
  content <- [r \in Requests |-> request[r].content],
  verdict <- [r \in Requests |-> IF Phase(r) = "told" THEN request[r].answer
                                 ELSE "none"]
KeepsPromise == Promise!Spec

(* Once the provider is back for good, verdicts come from the model again, *)
(* if one thread of the pool is not hung: it is enough for all requests,   *)
(* and the circuit closes for good, unless a probe ends in an error that   *)
(* is not recorded.                                                        *)
SomeThreadServes == \E i \in Threads : ~thread[i].stuck
ServiceRecovers ==
  ([]B!ProbeFlagBacked /\ <>[](reachable /\ SomeThreadServes))
    => <>[](state = "closed")
=============================================================================
