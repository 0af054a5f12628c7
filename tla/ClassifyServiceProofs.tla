----------------------- MODULE ClassifyServiceProofs -----------------------
(***************************************************************************)
(* Proofs about ClassifyService: its types; that every attempt a handler   *)
(* waits for has exactly one job, and no other request has any; and that   *)
(* the endpoint keeps the safety part of ClassifyPromise.  Then, about     *)
(* WordsFilter and WordsService: the search for blocked words, which the   *)
(* endpoint asks before the model, is right for every list and every text. *)
(***************************************************************************)
EXTENDS ClassifyService, WordsService, SequenceTheorems, FiniteSetTheorems,
        WellFoundedInduction, TLAPS

(* The theorems about the breaker, for the breaker of this module.         *)
P == INSTANCE CircuitBreakerProofs WITH
       Callers <- Requests, LazyCallers <- {}, MaxCall <- CallTimeout

-----------------------------------------------------------------------------
(* The breaker.                                                            *)
Breaker == P!Types /\ P!BreakerConsistent /\ P!FailuresBounded

LEMMA SameFinite == \A S : P!IsFiniteSet(S) <=> IsFiniteSet(S)
BY DEF P!IsFiniteSet, IsFiniteSet

LEMMA BreakerAssumptions ==
  P!CallersAssumption /\ P!ThresholdAssumption /\ P!TimeAssumption
BY BreakerAssumption, SameFinite
DEF BreakerAssumption, P!CallersAssumption, P!ThresholdAssumption, P!TimeAssumption

LEMMA BreakerInit == Init => Breaker
<1>1. Init => P!Init
  BY DEF Init, B!Init, P!Init
<1>2. P!Init => P!Types /\ P!BreakerConsistent
  BY BreakerAssumptions, P!TypesInit
<1>3. P!Init => P!FailuresBounded
  BY BreakerAssumptions, P!BoundInit
<1>. QED
  BY <1>1, <1>2, <1>3 DEF Breaker

LEMMA BreakerTypes == Breaker => B!TypeOK
<1>1. Breaker => P!TypeOK
  BY BreakerAssumptions, P!BoundTypes DEF Breaker
<1>2. P!Cardinality(Requests) = B!Cardinality(Requests)
  BY DEF P!Cardinality, B!Cardinality
<1>. QED
  BY <1>1, <1>2 DEF P!TypeOK, B!TypeOK

LEMMA SameInFlight == \A r : B!InFlight(r) <=> pc[r] \in {"call", "probe"}
BY DEF B!InFlight

(* Whatever the service does with the breaker, it is a step of the breaker *)
(* in the sense of CircuitBreakerProofs: an attempt may time out although  *)
(* the provider can be reached.                                            *)
LEMMA SameAdmit == \A r : B!Admit(r) => P!Admit(r)
BY DEF B!Admit, P!Admit, B!InFlight, P!InFlight, B!Refuses, P!Refuses,
       B!GuardedState, P!GuardedState, B!Expired, P!Expired,
       B!GuardMoves, P!GuardMoves

LEMMA SameRefuse == \A r : B!Refuse(r) => P!Refuse(r)
BY DEF B!Refuse, P!Refuse, B!InFlight, P!InFlight, B!Refuses, P!Refuses,
       B!GuardedState, P!GuardedState, B!Expired, P!Expired,
       B!GuardMoves, P!GuardMoves

LEMMA SameEnd ==
  \A r : /\ B!RecordFailure(r) => P!RecordFailure(r)
         /\ B!RecordSuccess(r) => P!RecordSuccess(r)
         /\ B!FailOther(r) => P!FailOther(r)
BY DEF B!RecordFailure, P!RecordFailure, B!RecordSuccess, P!RecordSuccess,
       B!FailOther, P!FailOther, B!Ends, P!Ends, B!InFlight, P!InFlight,
       B!Trips, P!Trips, B!breakerVars, P!breakerVars

LEMMA SameEnvironment ==
  (B!Tick => P!Tick) /\ (B!ReachabilityChanges => P!ReachabilityChanges)
BY DEF B!Tick, P!Tick, B!ReachabilityChanges, P!ReachabilityChanges,
       B!Calls, P!Calls, B!InFlight, P!InFlight, B!breakerVars, P!breakerVars

LEMMA BreakerNext == [Next]_vars => [P!AnyNext]_(P!vars)
<1>. SUFFICES ASSUME [Next]_vars
             PROVE  [P!AnyNext]_(P!vars)
  OBVIOUS
<1>1. CASE UNCHANGED breaker
  BY <1>1 DEF breaker, P!vars, P!breakerVars
<1>2. CASE Tick \/ ReachabilityChanges
  BY <1>2, SameEnvironment DEF Tick, ReachabilityChanges, P!AnyNext
<1>3. ASSUME NEW r \in Requests,
             \/ B!Admit(r) \/ B!Refuse(r)
             \/ B!RecordFailure(r) \/ B!RecordSuccess(r) \/ B!FailOther(r)
      PROVE  P!AnyNext
  BY <1>3, SameAdmit, SameRefuse, SameEnd DEF P!AnyNext, P!Enter, P!AnyEnd
<1>. QED
  BY <1>1, <1>2, <1>3
  DEF Next, vars, Attempt, BeginAttempt, LLMCircuitOpenError, TimeOut,
      RetryableError, AgentGivesUp, Ask, StartThread, ProviderReplies,
      ProviderUnreachable, Unnoticed

LEMMA BreakerStep == Breaker /\ [Next]_vars => Breaker'
BY BreakerAssumptions, BreakerNext, P!TypesStep, P!BoundStep DEF Breaker
-----------------------------------------------------------------------------
(* Jobs in sequences.                                                      *)
RequestType == [stage : {"idle", "try", "wait", "answered"}, content : Contents,
                attempt : 0..(MaxRetries + 1), agent : {"waiting", "gone"},
                answer : {"none", "YES", "NO"}]
JobType == [for : Requests, content : Contents, stuck : {FALSE}]
ThreadType == [for : Requests \cup {None}, content : Contents \cup {"none"},
               stuck : BOOLEAN]

Owners(s) == {s[i].for : i \in DOMAIN s}
Distinct(s) == \A i, j \in DOMAIN s : s[i].for = s[j].for => i = j

(* t is s without its entry n.                                             *)
IsWithout(t, s, n) ==
  /\ t \in Seq(JobType) /\ Len(s) = Len(t) + 1
  /\ \A i \in 1..Len(t) : t[i] = s[IF i < n THEN i ELSE i + 1]

LEMMA JobsTyped ==
  ASSUME NEW s \in Seq(JobType)
  PROVE  /\ Len(s) \in Nat /\ DOMAIN s = 1..Len(s)
         /\ \A i \in DOMAIN s : /\ s[i] \in JobType /\ s[i].for \in Requests
                                /\ s[i].content \in Contents
<1>1. Len(s) \in Nat /\ DOMAIN s = 1..Len(s)
  BY LenProperties
<1>2. \A i \in DOMAIN s : s[i] \in JobType
  BY <1>1, ElementOfSeq
<1>. QED
  BY <1>1, <1>2 DEF JobType

LEMMA WithoutFacts ==
  ASSUME NEW s \in Seq(JobType), Distinct(s), NEW n \in DOMAIN s,
         NEW t, IsWithout(t, s, n)
  PROVE  /\ t \in Seq(JobType) /\ Distinct(t)
         /\ Owners(t) = Owners(s) \ {s[n].for}
         /\ \A i \in DOMAIN t : \E j \in DOMAIN s : t[i] = s[j]
<1>. DEFINE f(i) == IF i < n THEN i ELSE i + 1
<1>1. /\ t \in Seq(JobType) /\ Len(s) = Len(t) + 1
      /\ Len(s) \in Nat /\ DOMAIN s = 1..Len(s)
      /\ Len(t) \in Nat /\ DOMAIN t = 1..Len(t)
      /\ \A i \in DOMAIN t : t[i] = s[f(i)]
  BY JobsTyped DEF IsWithout
<1>2. \A i \in DOMAIN t : f(i) \in DOMAIN s /\ f(i) # n
  BY <1>1
<1>3. \A i, j \in DOMAIN t : f(i) = f(j) => i = j
  BY <1>1
<1>4. \A j \in DOMAIN s : j # n => \E i \in DOMAIN t : f(i) = j
  <2>1. SUFFICES ASSUME NEW j \in DOMAIN s, j # n
                 PROVE  \E i \in DOMAIN t : f(i) = j
    OBVIOUS
  <2>2. CASE j < n
    <3>1. j \in DOMAIN t /\ f(j) = j
      BY <1>1, <2>2
    <3>. QED
      BY <3>1
  <2>3. CASE n < j
    <3>1. j - 1 \in DOMAIN t /\ f(j - 1) = j
      BY <1>1, <2>3
    <3>. QED
      BY <3>1
  <2>. QED
    BY <1>1, <2>1, <2>2, <2>3
<1>. HIDE DEF f
<1>5. Distinct(t)
  BY <1>1, <1>2, <1>3 DEF Distinct
<1>6. ASSUME NEW x \in Owners(t)
      PROVE  x \in Owners(s) /\ x # s[n].for
  <2>1. PICK i \in DOMAIN t : t[i].for = x
    BY DEF Owners
  <2>2. s[f(i)].for = x /\ f(i) \in DOMAIN s /\ f(i) # n
    BY <1>1, <1>2, <2>1
  <2>. QED
    BY <2>2 DEF Owners, Distinct
<1>7. ASSUME NEW x \in Owners(s), x # s[n].for
      PROVE  x \in Owners(t)
  <2>1. PICK j \in DOMAIN s : s[j].for = x
    BY DEF Owners
  <2>2. PICK i \in DOMAIN t : f(i) = j
    BY <1>4, <1>7, <2>1
  <2>. QED
    BY <1>1, <2>1, <2>2 DEF Owners
<1>8. \A i \in DOMAIN t : \E j \in DOMAIN s : t[i] = s[j]
  BY <1>1, <1>2
<1>. QED
  BY <1>1, <1>5, <1>6, <1>7, <1>8

(* Taking the head of the queue.                                           *)
LEMMA TailIsWithout ==
  ASSUME NEW s \in Seq(JobType), s # <<>>
  PROVE  /\ 1 \in DOMAIN s /\ Head(s) = s[1] /\ Head(s) \in JobType
         /\ IsWithout(Tail(s), s, 1)
<1>1. Len(s) \in Nat \ {0} /\ DOMAIN s = 1..Len(s)
  BY EmptySeq, JobsTyped
<1>2. /\ Tail(s) \in Seq(JobType) /\ Len(Tail(s)) = Len(s) - 1
      /\ \A i \in 1..Len(Tail(s)) : Tail(s)[i] = s[i + 1]
  BY HeadTailProperties
<1>3. Head(s) = s[1] /\ 1 \in DOMAIN s
  BY <1>1
<1>4. \A i \in 1..Len(Tail(s)) : (IF i < 1 THEN i ELSE i + 1) = i + 1
  OBVIOUS
<1>5. Len(s) = Len(Tail(s)) + 1
  BY <1>1, <1>2
<1>. QED
  BY <1>2, <1>3, <1>4, <1>5, JobsTyped DEF IsWithout

(* A new job joins the queue.                                              *)
LEMMA AppendFacts ==
  ASSUME NEW s \in Seq(JobType), Distinct(s), NEW e \in JobType,
         e.for \notin Owners(s)
  PROVE  /\ Append(s, e) \in Seq(JobType) /\ Distinct(Append(s, e))
         /\ Owners(Append(s, e)) = Owners(s) \cup {e.for}
         /\ \A i \in DOMAIN Append(s, e) :
              Append(s, e)[i] = e \/ \E j \in DOMAIN s : Append(s, e)[i] = s[j]
<1>1. Len(s) \in Nat /\ DOMAIN s = 1..Len(s)
  BY JobsTyped
<1>2. PICK t \in Seq(JobType) :
        /\ t = Append(s, e) /\ Len(t) = Len(s) + 1
        /\ \A i \in 1..Len(s) : t[i] = s[i]
        /\ t[Len(s) + 1] = e
  BY AppendProperties
<1>3. DOMAIN t = DOMAIN s \cup {Len(s) + 1}
  <2>1. DOMAIN t = 1..(Len(s) + 1)
    BY <1>2, JobsTyped
  <2>. QED
    BY <1>1, <2>1
<1>4. \A i \in DOMAIN s : t[i].for # e.for
  BY <1>1, <1>2 DEF Owners
<1>5. Distinct(t)
  BY <1>1, <1>2, <1>3, <1>4 DEF Distinct
<1>6. Owners(t) = Owners(s) \cup {e.for}
  <2>1. ASSUME NEW x \in Owners(t)
        PROVE  x \in Owners(s) \cup {e.for}
    <3>1. PICK i \in DOMAIN t : t[i].for = x
      BY DEF Owners
    <3>. QED
      BY <1>1, <1>2, <1>3, <3>1 DEF Owners
  <2>2. ASSUME NEW x \in Owners(s)
        PROVE  x \in Owners(t)
    <3>1. PICK i \in DOMAIN s : s[i].for = x
      BY DEF Owners
    <3>. QED
      BY <1>1, <1>2, <1>3, <3>1 DEF Owners
  <2>3. e.for \in Owners(t)
    BY <1>2, <1>3 DEF Owners
  <2>. QED
    BY <2>1, <2>2, <2>3
<1>7. \A i \in DOMAIN t : t[i] = e \/ \E j \in DOMAIN s : t[i] = s[j]
  BY <1>1, <1>2, <1>3
<1>. QED
  BY <1>2, <1>5, <1>6, <1>7

(* wait_for cancels the job of its own attempt, and no other.              *)
LEMMA DroppedFacts ==
  ASSUME queue \in Seq(JobType), Distinct(queue), NEW r \in Requests
  PROVE  /\ Dropped(r) \in Seq(JobType) /\ Distinct(Dropped(r))
         /\ Owners(Dropped(r)) = Owners(queue) \ {r}
         /\ \A i \in DOMAIN Dropped(r) :
              \E j \in DOMAIN queue : Dropped(r)[i] = queue[j]
<1>1. /\ Len(queue) \in Nat /\ DOMAIN queue = 1..Len(queue)
      /\ \A i \in DOMAIN queue : queue[i] \in JobType
  BY JobsTyped
<1>2. CASE Queued(r) = {}
  <2>1. Dropped(r) = queue
    BY <1>2 DEF Dropped
  <2>2. r \notin Owners(queue)
    BY <1>2 DEF Owners, Queued
  <2>. QED
    BY <2>1, <2>2
<1>3. CASE Queued(r) # {}
  <2>. DEFINE n == CHOOSE n \in Queued(r) : TRUE
              t == [i \in 1..(Len(queue) - 1) |-> queue[IF i < n THEN i ELSE i + 1]]
  <2>1. n \in DOMAIN queue /\ queue[n].for = r
    <3>1. n \in Queued(r)
      BY <1>3
    <3>. QED
      BY <3>1 DEF Queued
  <2>2. Dropped(r) = t
    BY <1>3 DEF Dropped
  <2>. HIDE DEF n
  <2>3. Len(queue) - 1 \in Nat
    BY <1>1, <2>1
  <2>4. \A i \in 1..(Len(queue) - 1) : (IF i < n THEN i ELSE i + 1) \in DOMAIN queue
    BY <1>1, <2>1
  <2>5. t \in [1..(Len(queue) - 1) -> JobType]
    BY <1>1, <2>4
  <2>6. t \in Seq(JobType)
    BY <2>3, <2>5, SeqDef
  <2>7. Len(t) = Len(queue) - 1
    BY <2>3, <2>6
  <2>8. \A i \in 1..Len(t) : t[i] = queue[IF i < n THEN i ELSE i + 1]
    BY <2>7
  <2>. HIDE DEF t
  <2>9. IsWithout(t, queue, n)
    BY <1>1, <2>6, <2>7, <2>8 DEF IsWithout
  <2>. QED
    BY <2>1, <2>2, <2>9, WithoutFacts
<1>. QED
  BY <1>2, <1>3

-----------------------------------------------------------------------------
(* The inductive invariant.  Request, queue and threads are typed; a       *)
(* request has a job, and the breaker a call, exactly while its handler    *)
(* waits; and a job that is still waited for is about what its request is  *)
(* about, which is never a blocked word.                                   *)
Shape ==
  /\ request \in [Requests -> RequestType]
  /\ queue \in Seq(JobType)
  /\ thread \in [Threads -> ThreadType]

Runs(r) == \E i \in Threads : thread[i].for = r
Waits(r) == request[r].stage = "wait"

OneJob ==
  /\ Distinct(queue)
  /\ \A i, j \in Threads :
       thread[i].for = thread[j].for => i = j \/ thread[i].for = None
  /\ \A i \in Threads : thread[i].for \notin Owners(queue)
  /\ \A r \in Requests : Waits(r) <=> (r \in Owners(queue) \/ Runs(r))
  /\ \A r \in Requests : B!InFlight(r) <=> Waits(r)

SameContent ==
  /\ \A i \in DOMAIN queue : queue[i].content = request[queue[i].for].content
  /\ \A i \in Threads :
       thread[i].for # None => thread[i].content = request[thread[i].for].content
  /\ \A r \in Requests :
       request[r].stage \in {"try", "wait"} => request[r].content # "word"

IInv == Breaker /\ Shape /\ OneJob /\ SameContent

LEMMA NoneIsNoRequest ==
  /\ None \notin Requests /\ Idle \in ThreadType /\ Idle.for = None
  /\ \A s \in Seq(JobType) : None \notin Owners(s) /\ Owners(s) \subseteq Requests
<1>1. \A s \in Seq(JobType) : Owners(s) \subseteq Requests
  BY JobsTyped DEF Owners
<1>. QED
  BY <1>1, ClassifyAssumption DEF ClassifyAssumption, Idle, ThreadType

LEMMA IInvInit == Init => IInv
<1>. SUFFICES ASSUME Init
             PROVE  IInv
  OBVIOUS
<1>1. Breaker
  BY BreakerInit
<1>2. Shape
  <2>1. <<>> \in Seq(JobType)
    BY EmptySeq
  <2>2. [i \in Threads |-> Idle] \in [Threads -> ThreadType]
    BY NoneIsNoRequest
  <2>3. 0 \in 0..(MaxRetries + 1)
    BY ClassifyAssumption DEF ClassifyAssumption
  <2>. QED
    BY <2>1, <2>2, <2>3 DEF Init, Shape, RequestType, Contents
<1>3. DOMAIN queue = {} /\ Owners(queue) = {}
  BY DEF Init, Owners
<1>4. \A i \in Threads : thread[i].for = None
  BY NoneIsNoRequest DEF Init
<1>5. \A r \in Requests : request[r].stage = "idle" /\ pc[r] = "none"
  BY DEF Init, B!Init
<1>6. OneJob
  BY <1>3, <1>4, <1>5, NoneIsNoRequest DEF OneJob, Distinct, Runs, Waits, B!InFlight
<1>7. SameContent
  BY <1>3, <1>4, <1>5 DEF SameContent
<1>. QED
  BY <1>1, <1>2, <1>6, <1>7 DEF IInv

-----------------------------------------------------------------------------
(* What the steps do to one request, and to no other.                      *)
Others(r) == \A q \in Requests : q # r => request'[q] = request[q]
OtherCalls(r) == \A q \in Requests : q # r => pc'[q] = pc[q]

LEMMA AnswerFacts ==
  ASSUME Shape, NEW r \in Requests, NEW a \in {"YES", "NO"}, Answer(r, a)
  PROVE  /\ request' \in [Requests -> RequestType] /\ Others(r)
         /\ request'[r].stage = "answered" /\ request'[r].answer = a
         /\ request'[r].content = request[r].content
         /\ request'[r].agent = request[r].agent
<1>1. 0 \in 0..(MaxRetries + 1)
  BY ClassifyAssumption DEF ClassifyAssumption
<1>. QED
  BY <1>1 DEF Shape, RequestType, Answer, Others

LEMMA RetryFacts ==
  ASSUME Shape, NEW r \in Requests, RetryableError(r)
  PROVE  /\ request' \in [Requests -> RequestType] /\ Others(r)
         /\ request'[r].content = request[r].content
         /\ request'[r].agent = request[r].agent
         /\ \/ request'[r].stage = "try"
            \/ request'[r].stage = "answered" /\ request'[r].answer = "NO"
<1>1. CASE MayRetry(r)
  <2>1. request' = [request EXCEPT ![r].stage = "try", ![r].attempt = @ + 1]
    BY <1>1 DEF RetryableError
  <2>2. request[r].attempt + 1 \in 0..(MaxRetries + 1)
    BY <1>1, ClassifyAssumption DEF MayRetry, Shape, RequestType, ClassifyAssumption
  <2>. QED
    BY <2>1, <2>2 DEF Shape, RequestType, Others
<1>2. CASE ~MayRetry(r)
  <2>1. Answer(r, "NO")
    BY <1>2 DEF RetryableError, OnError
  <2>. QED
    BY <2>1, AnswerFacts
<1>. QED
  BY <1>1, <1>2

LEMMA AskFacts ==
  ASSUME Shape, NEW r \in Requests, NEW k \in Contents, Ask(r, k)
  PROVE  /\ request' \in [Requests -> RequestType] /\ Others(r)
         /\ request'[r] = Asked(k) /\ Asked(k).stage \in {"try", "answered"}
         /\ Asked(k).stage = "try" => k # "word"
<1>1. 0 \in 0..(MaxRetries + 1) /\ 1 \in 0..(MaxRetries + 1)
  BY ClassifyAssumption DEF ClassifyAssumption
<1>2. Asked(k) \in RequestType
  BY <1>1 DEF Asked, RequestType
<1>. QED
  BY <1>2 DEF Shape, Ask, Others, Asked

LEMMA EndFacts ==
  ASSUME Breaker, NEW r \in Requests,
         B!RecordFailure(r) \/ B!RecordSuccess(r) \/ B!FailOther(r)
  PROVE  pc'[r] = "none" /\ OtherCalls(r)
BY DEF Breaker, P!Types, B!RecordFailure, B!RecordSuccess, B!FailOther, B!Ends,
       OtherCalls

-----------------------------------------------------------------------------
(* The steps that neither start nor end an attempt.                        *)
LEMMA JobsKept ==
  ASSUME Shape, OneJob, queue' = queue, pc' = pc,
         \A i \in Threads : thread'[i].for = thread[i].for,
         \A r \in Requests : Waits(r)' <=> Waits(r)
  PROVE  OneJob'
BY DEF OneJob, Distinct, Owners, Runs, B!InFlight, Waits

(* An attempt of r ends: neither the queue nor a thread has a job for r.   *)
AttemptEnds(r) ==
  /\ ~Waits(r)' /\ pc'[r] = "none" /\ Others(r) /\ OtherCalls(r)
  /\ queue' \in Seq(JobType) /\ Distinct(queue')
  /\ Owners(queue') = Owners(queue) \ {r}
  /\ \A i \in DOMAIN queue' : \E j \in DOMAIN queue : queue'[i] = queue[j]
  /\ \A i \in Threads :
       \/ thread[i].for # r /\ thread'[i] = thread[i]
       \/ thread[i].for = r /\ thread'[i].for = None

LEMMA EndKeepsJobs ==
  ASSUME Shape, OneJob, NEW r \in Requests, AttemptEnds(r)
  PROVE  OneJob'
<1>1. /\ ~Waits(r)' /\ pc'[r] = "none" /\ r \notin Owners(queue')
      /\ Distinct(queue') /\ Owners(queue') \subseteq Owners(queue)
      /\ \A q : q # r => (q \in Owners(queue') <=> q \in Owners(queue))
  BY DEF AttemptEnds
<1>2. \A q \in Requests : q # r => (Waits(q)' <=> Waits(q)) /\ pc'[q] = pc[q]
  BY DEF AttemptEnds, Others, OtherCalls, Waits
<1>3. \A i \in Threads :
        \/ thread[i].for # r /\ thread'[i].for = thread[i].for
        \/ thread[i].for = r /\ thread'[i].for = None
  BY DEF AttemptEnds
<1>4. Distinct(queue)'
  BY <1>1 DEF Distinct
<1>5. \A i, j \in Threads :
        thread'[i].for = thread'[j].for => i = j \/ thread'[i].for = None
  BY <1>3 DEF OneJob
<1>6. \A i \in Threads : thread'[i].for \notin Owners(queue')
  <2>1. None \notin Owners(queue)
    BY NoneIsNoRequest DEF Shape
  <2>. QED
    BY <1>1, <1>3, <2>1 DEF OneJob
<1>7. \A q \in Requests : Waits(q)' <=> (q \in Owners(queue') \/ Runs(q)')
  <2>1. \A q \in Requests : q # r => (Runs(q)' <=> Runs(q))
    BY <1>3, NoneIsNoRequest DEF Runs
  <2>2. ~Runs(r)'
    BY <1>3, NoneIsNoRequest DEF Runs
  <2>. QED
    BY <1>1, <1>2, <2>1, <2>2 DEF OneJob
<1>8. \A q \in Requests : B!InFlight(q)' <=> Waits(q)'
  BY <1>1, <1>2 DEF OneJob, B!InFlight
<1>9. Owners(queue)' = Owners(queue')
  BY DEF Owners
<1>. QED
  BY <1>4, <1>5, <1>6, <1>7, <1>8, <1>9 DEF OneJob

LEMMA EndKeepsContent ==
  ASSUME Shape, OneJob, SameContent, NEW r \in Requests, AttemptEnds(r),
         request'[r].content = request[r].content,
         request[r].stage \in {"try", "wait"}
  PROVE  SameContent'
<1>1. \A q \in Requests : request'[q].content = request[q].content
  BY DEF AttemptEnds, Others
<1>2. \A i \in DOMAIN queue' : queue'[i].content = request'[queue'[i].for].content
  <2>1. TAKE i \in DOMAIN queue'
  <2>2. PICK j \in DOMAIN queue : queue'[i] = queue[j]
    BY DEF AttemptEnds
  <2>3. queue[j].for \in Requests /\ queue[j].content = request[queue[j].for].content
    BY JobsTyped DEF Shape, SameContent
  <2>. QED
    BY <1>1, <2>2, <2>3
<1>3. \A i \in Threads :
        thread'[i].for # None => thread'[i].content = request'[thread'[i].for].content
  <2>1. TAKE i \in Threads
  <2>2. SUFFICES ASSUME thread'[i].for # None
                 PROVE  thread'[i].content = request'[thread'[i].for].content
    OBVIOUS
  <2>3. thread'[i] = thread[i]
    BY <2>2 DEF AttemptEnds
  <2>4. thread[i].for \in Requests
    BY <2>2, <2>3 DEF Shape, ThreadType
  <2>. QED
    BY <1>1, <2>2, <2>3, <2>4 DEF SameContent
<1>4. \A q \in Requests :
        request'[q].stage \in {"try", "wait"} => request'[q].content # "word"
  BY <1>1 DEF AttemptEnds, Others, SameContent
<1>. QED
  BY <1>2, <1>3, <1>4 DEF SameContent

(* A job begins: BeginAttempt.                                             *)
LEMMA BeginFacts ==
  ASSUME IInv, NEW r \in Requests, BeginAttempt(r)
  PROVE  Shape' /\ OneJob' /\ SameContent'
<1>. USE DEF IInv
<1>1. /\ request[r].stage = "try" /\ ~B!InFlight(r)
      /\ request' = [request EXCEPT ![r].stage = "wait"]
      /\ thread' = thread /\ queue' = Append(queue, Job(r))
  BY DEF BeginAttempt, B!Admit
<1>2. /\ request' \in [Requests -> RequestType] /\ Others(r)
      /\ request'[r].stage = "wait" /\ request'[r].content = request[r].content
  BY <1>1 DEF Shape, RequestType, Others
<1>3. OtherCalls(r) /\ pc'[r] \in {"call", "probe"}
  BY DEF Breaker, P!Types, BeginAttempt, B!Admit, OtherCalls
<1>4. Job(r) \in JobType /\ Job(r).for = r /\ Job(r).content = request[r].content
  BY DEF Job, JobType, Shape, RequestType
<1>5. ~Waits(r) /\ r \notin Owners(queue) /\ ~Runs(r)
  BY <1>1 DEF Waits, OneJob
<1>6. /\ queue' \in Seq(JobType) /\ Distinct(queue')
      /\ Owners(queue') = Owners(queue) \cup {r}
      /\ \A i \in DOMAIN queue' :
           queue'[i] = Job(r) \/ \E j \in DOMAIN queue : queue'[i] = queue[j]
  BY <1>1, <1>4, <1>5, AppendFacts DEF Shape, OneJob
<1>7. Shape'
  BY <1>1, <1>2, <1>6 DEF Shape
<1>8. OneJob'
  <2>1. \A q \in Requests : q # r => (Waits(q)' <=> Waits(q))
    BY <1>2 DEF Waits, Others
  <2>2. \A i \in Threads : thread'[i].for \notin Owners(queue')
    BY <1>1, <1>5, <1>6 DEF OneJob, Runs
  <2>3. \A q \in Requests : Waits(q)' <=> (q \in Owners(queue') \/ Runs(q)')
    BY <1>1, <1>2, <1>6, <2>1 DEF OneJob, Runs, Waits
  <2>4. \A q \in Requests : B!InFlight(q)' <=> Waits(q)'
    BY <1>2, <1>3, <2>1 DEF OneJob, B!InFlight, Waits, OtherCalls
  <2>5. Distinct(queue)' /\ Owners(queue)' = Owners(queue')
    BY <1>6 DEF Distinct, Owners
  <2>6. \A i, j \in Threads :
          thread'[i].for = thread'[j].for => i = j \/ thread'[i].for = None
    BY <1>1 DEF OneJob
  <2>. QED
    BY <2>2, <2>3, <2>4, <2>5, <2>6 DEF OneJob
<1>9. SameContent'
  <2>1. \A q \in Requests : request'[q].content = request[q].content
    BY <1>2 DEF Others
  <2>2. \A i \in DOMAIN queue' : queue'[i].content = request'[queue'[i].for].content
    <3>1. TAKE i \in DOMAIN queue'
    <3>2. CASE queue'[i] = Job(r)
      BY <1>2, <1>4, <3>2
    <3>3. CASE \E j \in DOMAIN queue : queue'[i] = queue[j]
      <4>1. PICK j \in DOMAIN queue : queue'[i] = queue[j]
        BY <3>3
      <4>2. queue[j].for \in Requests /\ queue[j].content = request[queue[j].for].content
        BY JobsTyped DEF Shape, SameContent
      <4>. QED
        BY <2>1, <4>1, <4>2
    <3>. QED
      BY <1>6, <3>2, <3>3
  <2>3. \A i \in Threads :
          thread'[i].for # None => thread'[i].content = request'[thread'[i].for].content
    BY <1>1, <2>1 DEF Shape, ThreadType, SameContent
  <2>4. \A q \in Requests :
          request'[q].stage \in {"try", "wait"} => request'[q].content # "word"
    BY <1>1, <1>2, <2>1 DEF Others, SameContent
  <2>. QED
    BY <2>2, <2>3, <2>4 DEF SameContent
<1>. QED
  BY <1>7, <1>8, <1>9

(* A thread takes the job at the head of the queue.                        *)
LEMMA StartFacts ==
  ASSUME IInv, NEW i \in Threads, StartThread(i)
  PROVE  Shape' /\ OneJob' /\ SameContent'
<1>. USE DEF IInv
<1>1. /\ thread[i] = Idle /\ queue # <<>> /\ queue \in Seq(JobType)
      /\ thread' = [thread EXCEPT ![i] = Head(queue)]
      /\ queue' = Tail(queue) /\ request' = request /\ pc' = pc
  BY DEF StartThread, Free, breaker, Shape
<1>. DEFINE h == Head(queue)
<1>2. 1 \in DOMAIN queue /\ h = queue[1] /\ h \in JobType /\ IsWithout(queue', queue, 1)
  BY <1>1, TailIsWithout
<1>3. /\ queue' \in Seq(JobType) /\ Distinct(queue')
      /\ Owners(queue') = Owners(queue) \ {h.for}
      /\ \A m \in DOMAIN queue' : \E n \in DOMAIN queue : queue'[m] = queue[n]
  BY <1>1, <1>2, WithoutFacts DEF OneJob
<1>4. /\ h.for \in Owners(queue) /\ h.for \in Requests /\ h \in ThreadType
      /\ h.content = request[h.for].content
  BY <1>2 DEF Owners, JobType, ThreadType, SameContent
<1>5. thread'[i] = h /\ \A j \in Threads : j # i => thread'[j] = thread[j]
  BY <1>1 DEF Shape
<1>. HIDE DEF h
<1>6. Shape'
  BY <1>1, <1>3, <1>4, <1>5 DEF Shape
<1>7. OneJob'
  <2>1. \A j \in Threads : thread[j].for # h.for
    BY <1>4 DEF OneJob
  <2>2. \A j, k \in Threads :
          thread'[j].for = thread'[k].for => j = k \/ thread'[j].for = None
    BY <1>5, <2>1 DEF OneJob
  <2>3. \A j \in Threads : thread'[j].for \notin Owners(queue')
    BY <1>3, <1>5 DEF OneJob
  <2>4. \A q \in Requests :
          (q \in Owners(queue) \/ Runs(q)) <=> (q \in Owners(queue') \/ Runs(q)')
    <3>1. ASSUME NEW q \in Requests, Runs(q)
          PROVE  Runs(q)'
      BY <1>1, <1>5, <3>1, NoneIsNoRequest DEF Runs
    <3>2. ASSUME NEW q \in Requests, Runs(q)'
          PROVE  q = h.for \/ Runs(q)
      BY <1>5, <3>2 DEF Runs
    <3>3. ASSUME NEW q \in Requests, q = h.for
          PROVE  Runs(q)'
      BY <1>5, <3>3 DEF Runs
    <3>. QED
      BY <1>3, <1>4, <3>1, <3>2, <3>3
  <2>5. \A q \in Requests : (Waits(q)' <=> Waits(q)) /\ (B!InFlight(q)' <=> B!InFlight(q))
    BY <1>1 DEF Waits, B!InFlight
  <2>6. Distinct(queue)' /\ Owners(queue)' = Owners(queue')
    BY <1>3 DEF Distinct, Owners
  <2>. QED
    BY <2>2, <2>3, <2>4, <2>5, <2>6 DEF OneJob
<1>8. SameContent'
  <2>1. \A m \in DOMAIN queue' : queue'[m].content = request'[queue'[m].for].content
    <3>1. TAKE m \in DOMAIN queue'
    <3>2. PICK n \in DOMAIN queue : queue'[m] = queue[n]
      BY <1>3
    <3>. QED
      BY <1>1, <3>2 DEF SameContent
  <2>2. \A j \in Threads :
          thread'[j].for # None => thread'[j].content = request'[thread'[j].for].content
    BY <1>1, <1>4, <1>5 DEF SameContent
  <2>. QED
    BY <1>1, <2>1, <2>2 DEF SameContent
<1>. QED
  BY <1>6, <1>7, <1>8

(* The time-out of an attempt drops its job or abandons its thread.        *)
LEMMA TimeOutEnds ==
  ASSUME IInv, NEW r \in Requests, TimeOut(r)
  PROVE  AttemptEnds(r) /\ thread' \in [Threads -> ThreadType]
<1>. USE DEF IInv
<1>1. /\ request' \in [Requests -> RequestType] /\ Others(r)
      /\ request'[r].stage \in {"try", "answered"}
  BY RetryFacts DEF TimeOut
<1>2. pc'[r] = "none" /\ OtherCalls(r)
  BY EndFacts DEF TimeOut, RetryableError
<1>3. /\ queue' \in Seq(JobType) /\ Distinct(queue')
      /\ Owners(queue') = Owners(queue) \ {r}
      /\ \A i \in DOMAIN queue' : \E j \in DOMAIN queue : queue'[i] = queue[j]
  BY DroppedFacts DEF TimeOut, Shape, OneJob
<1>4. \A i \in Threads :
        /\ thread'[i] = IF thread[i].for = r THEN [thread[i] EXCEPT !.for = None]
                        ELSE thread[i]
        /\ thread[i] \in ThreadType
  BY DEF TimeOut, Abandoned, Shape
<1>5. \A i \in Threads :
        /\ thread'[i] \in ThreadType
        /\ \/ thread[i].for # r /\ thread'[i] = thread[i]
           \/ thread[i].for = r /\ thread'[i].for = None
  BY <1>4 DEF ThreadType
<1>6. thread' = [i \in Threads |-> thread'[i]]
  BY DEF TimeOut, Abandoned
<1>7. thread' \in [Threads -> ThreadType]
  BY <1>5, <1>6
<1>. QED
  BY <1>1, <1>2, <1>3, <1>5, <1>7 DEF AttemptEnds, Waits

(* A thread ends whose result is still awaited.                            *)
LEMMA ThreadEndsAttempt ==
  ASSUME IInv, NEW i \in Threads, NEW r \in Requests, ThreadEnds(i),
         thread[i].for = r, Others(r), ~Waits(r)',
         B!RecordFailure(r) \/ B!RecordSuccess(r) \/ B!FailOther(r)
  PROVE  AttemptEnds(r) /\ thread' \in [Threads -> ThreadType]
<1>. USE DEF IInv
<1>1. pc'[r] = "none" /\ OtherCalls(r)
  BY EndFacts
<1>2. queue' = queue /\ thread' = [thread EXCEPT ![i] = Idle]
  BY DEF ThreadEnds, Released
<1>3. r \notin Owners(queue)
  BY DEF OneJob
<1>4. \A j \in Threads :
        \/ thread[j].for # r /\ thread'[j] = thread[j]
        \/ thread[j].for = r /\ thread'[j].for = None
  BY <1>2, NoneIsNoRequest DEF OneJob, Shape
<1>5. thread' \in [Threads -> ThreadType]
  BY <1>2, NoneIsNoRequest DEF Shape
<1>. QED
  BY <1>1, <1>2, <1>3, <1>4, <1>5 DEF AttemptEnds, Shape, OneJob

LEMMA EndFollows ==
  ASSUME IInv, NEW r \in Requests, AttemptEnds(r), Waits(r),
         request' \in [Requests -> RequestType],
         thread' \in [Threads -> ThreadType],
         request'[r].content = request[r].content
  PROVE  Shape' /\ OneJob' /\ SameContent'
<1>1. Shape'
  BY DEF Shape, AttemptEnds
<1>2. OneJob'
  BY EndKeepsJobs DEF IInv
<1>3. SameContent'
  BY EndKeepsContent DEF IInv, Waits
<1>. QED
  BY <1>1, <1>2, <1>3

LEMMA ContentKept ==
  ASSUME Shape, OneJob, SameContent, queue' = queue,
         \A i \in Threads : /\ thread'[i].for = thread[i].for
                            /\ thread[i].for # None =>
                                 thread'[i].content = thread[i].content,
         \A r \in Requests : Waits(r) => request'[r].content = request[r].content,
         \A r \in Requests : request'[r].stage \in {"try", "wait"} =>
                               request'[r].content # "word"
  PROVE  SameContent'
<1>1. \A i \in DOMAIN queue : queue[i].for \in Requests /\ Waits(queue[i].for)
  BY JobsTyped DEF Shape, OneJob, Owners
<1>2. \A i \in Threads :
        thread[i].for # None => thread[i].for \in Requests /\ Waits(thread[i].for)
  BY DEF Shape, ThreadType, OneJob, Runs
<1>. QED
  BY <1>1, <1>2 DEF SameContent

(* The steps that leave the jobs alone: those of the agent, of a handler   *)
(* that is refused, of time, and the end of an abandoned thread.           *)
LEMMA QuietFollows ==
  ASSUME IInv, NEW r \in Requests, Others(r), queue' = queue, pc' = pc,
         request' \in [Requests -> RequestType], thread' \in [Threads -> ThreadType],
         \A i \in Threads : /\ thread'[i].for = thread[i].for
                            /\ thread[i].for # None =>
                                 thread'[i].content = thread[i].content,
         Waits(r)' <=> Waits(r),
         Waits(r) => request'[r].content = request[r].content,
         request'[r].stage \in {"try", "wait"} => request'[r].content # "word"
  PROVE  Shape' /\ OneJob' /\ SameContent'
<1>1. Shape'
  BY DEF Shape, IInv
<1>2. \A q \in Requests : Waits(q)' <=> Waits(q)
  BY DEF Others, Waits
<1>3. OneJob'
  BY <1>2, JobsKept DEF IInv
<1>4. /\ \A q \in Requests : Waits(q) => request'[q].content = request[q].content
      /\ \A q \in Requests :
           request'[q].stage \in {"try", "wait"} => request'[q].content # "word"
  BY DEF Others, IInv, SameContent
<1>5. SameContent'
  BY <1>4, ContentKept DEF IInv
<1>. QED
  BY <1>1, <1>3, <1>5

(* The steps in which no request changes.                                  *)
LEMMA SilentFollows ==
  ASSUME IInv, request' = request, queue' = queue, pc' = pc,
         thread' \in [Threads -> ThreadType],
         \A i \in Threads : /\ thread'[i].for = thread[i].for
                            /\ thread[i].for # None =>
                                 thread'[i].content = thread[i].content
  PROVE  Shape' /\ OneJob' /\ SameContent'
<1>1. Shape'
  BY DEF Shape, IInv
<1>2. OneJob'
  BY JobsKept DEF IInv, Waits
<1>3. SameContent'
  BY ContentKept DEF IInv, SameContent
<1>. QED
  BY <1>1, <1>2, <1>3

LEMMA IInvStep == IInv /\ [Next]_vars => IInv'
<1>. SUFFICES ASSUME IInv, [Next]_vars
             PROVE  Shape' /\ OneJob' /\ SameContent'
  BY BreakerStep DEF IInv
<1>g. thread \in [Threads -> ThreadType] /\ request \in [Requests -> RequestType]
  BY DEF IInv, Shape
<1>1. CASE UNCHANGED vars
  <2>1. request' = request /\ queue' = queue /\ pc' = pc /\ thread' = thread
    BY <1>1 DEF vars, breaker
  <2>. QED
    BY <1>g, <2>1, SilentFollows
<1>2. CASE ReachabilityChanges
  <2>1. request' = request /\ queue' = queue /\ pc' = pc /\ thread' = thread
    BY <1>2 DEF ReachabilityChanges, B!ReachabilityChanges
  <2>. QED
    BY <1>g, <2>1, SilentFollows
<1>3. CASE Tick
  <2>1. /\ request' = request /\ queue' = queue /\ pc' = pc
        /\ thread' = [i \in Threads |-> IF thread[i] = Idle THEN Idle
                                         ELSE [thread[i] EXCEPT !.stuck = TRUE]]
    BY <1>3 DEF Tick, B!Tick
  <2>2. \A i \in Threads :
          /\ thread'[i] \in ThreadType /\ thread'[i].for = thread[i].for
          /\ thread'[i].content = thread[i].content
    BY <1>g, <2>1, NoneIsNoRequest DEF ThreadType
  <2>3. thread' \in [Threads -> ThreadType]
    BY <2>1, <2>2
  <2>. QED
    BY <2>1, <2>2, <2>3, SilentFollows
<1>4. ASSUME NEW r \in Requests, NEW k \in Contents, Ask(r, k)
      PROVE  Shape' /\ OneJob' /\ SameContent'
  <2>1. /\ request' \in [Requests -> RequestType] /\ Others(r)
        /\ request'[r].stage \in {"try", "answered"}
        /\ request'[r].stage = "try" => request'[r].content # "word"
    <3>1. Asked(k).content = k
      BY DEF Asked
    <3>. QED
      BY <1>4, <3>1, AskFacts DEF IInv
  <2>2. queue' = queue /\ pc' = pc /\ thread' = thread /\ ~Waits(r)
    BY <1>4 DEF Ask, breaker, Waits
  <2>. QED
    BY <1>g, <2>1, <2>2, QuietFollows DEF Waits
<1>5. ASSUME NEW r \in Requests, LLMCircuitOpenError(r)
      PROVE  Shape' /\ OneJob' /\ SameContent'
  <2>1. /\ request' \in [Requests -> RequestType] /\ Others(r)
        /\ request'[r].stage = "answered"
    BY <1>5, AnswerFacts DEF LLMCircuitOpenError, OnError, IInv
  <2>2. queue' = queue /\ pc' = pc /\ thread' = thread /\ ~Waits(r)
    BY <1>5 DEF LLMCircuitOpenError, B!Refuse, Waits
  <2>. QED
    BY <1>g, <2>1, <2>2, QuietFollows DEF Waits
<1>6. ASSUME NEW r \in Requests, AgentGivesUp(r)
      PROVE  Shape' /\ OneJob' /\ SameContent'
  <2>1. /\ request' \in [Requests -> RequestType] /\ Others(r)
        /\ request'[r].stage = request[r].stage
        /\ request'[r].content = request[r].content
    BY <1>6, <1>g DEF AgentGivesUp, RequestType, Others
  <2>2. queue' = queue /\ pc' = pc /\ thread' = thread
    BY <1>6 DEF AgentGivesUp, breaker
  <2>3. request'[r].stage \in {"try", "wait"} => request'[r].content # "word"
    BY <2>1 DEF IInv, SameContent
  <2>. QED
    BY <1>g, <2>1, <2>2, <2>3, QuietFollows DEF Waits
<1>7. ASSUME NEW r \in Requests, BeginAttempt(r)
      PROVE  Shape' /\ OneJob' /\ SameContent'
  BY <1>7, BeginFacts
<1>8. ASSUME NEW r \in Requests, TimeOut(r)
      PROVE  Shape' /\ OneJob' /\ SameContent'
  <2>1. /\ request' \in [Requests -> RequestType]
        /\ request'[r].content = request[r].content
    BY <1>8, RetryFacts DEF TimeOut, IInv
  <2>2. Waits(r)
    BY <1>8 DEF TimeOut, Waits
  <2>. QED
    BY <1>8, <2>1, <2>2, TimeOutEnds, EndFollows
<1>9. ASSUME NEW i \in Threads, StartThread(i)
      PROVE  Shape' /\ OneJob' /\ SameContent'
  BY <1>9, StartFacts
<1>10. ASSUME NEW i \in Threads, ThreadEnds(i), Unnoticed(i)
       PROVE  Shape' /\ OneJob' /\ SameContent'
  <2>1. /\ request' = request /\ queue' = queue /\ pc' = pc
        /\ thread' = [thread EXCEPT ![i] = Idle] /\ thread[i].for = None
    BY <1>10 DEF ThreadEnds, Unnoticed, Released, breaker
  <2>2. thread' \in [Threads -> ThreadType]
    BY <1>g, <2>1, NoneIsNoRequest
  <2>3. \A j \in Threads :
          /\ thread'[j].for = thread[j].for
          /\ thread[j].for # None => thread'[j].content = thread[j].content
    BY <1>g, <2>1, NoneIsNoRequest
  <2>. QED
    BY <2>1, <2>2, <2>3, SilentFollows
<1>11. ASSUME NEW i \in Threads, NEW r \in Requests, ThreadEnds(i),
              thread[i].for = r,
              \/ RetryableError(r)
              \/ B!RecordSuccess(r) /\ Answer(r, ModelSays(i))
              \/ B!FailOther(r) /\ Answer(r, "NO")
       PROVE  Shape' /\ OneJob' /\ SameContent'
  <2>1. /\ request' \in [Requests -> RequestType] /\ Others(r)
        /\ request'[r].stage \in {"try", "answered"}
        /\ request'[r].content = request[r].content
    BY <1>11, RetryFacts, AnswerFacts DEF IInv, ModelSays
  <2>2. B!RecordFailure(r) \/ B!RecordSuccess(r) \/ B!FailOther(r)
    BY <1>11 DEF RetryableError
  <2>3. ~Waits(r)'
    BY <2>1 DEF Waits
  <2>4. AttemptEnds(r) /\ thread' \in [Threads -> ThreadType]
    BY <1>11, <2>1, <2>2, <2>3, ThreadEndsAttempt
  <2>5. Waits(r)
    BY <1>11 DEF IInv, OneJob, Runs
  <2>. QED
    BY <2>1, <2>4, <2>5, EndFollows
<1>. QED
  BY <1>1, <1>2, <1>3, <1>4, <1>5, <1>6, <1>7, <1>8, <1>9, <1>10, <1>11
  DEF Next, Attempt, ProviderReplies, ProviderUnreachable, OnError

-----------------------------------------------------------------------------
(* From the invariant to what the runs check.                              *)
LEMMA IInvTypes == IInv => TypeOK
<1>. SUFFICES ASSUME IInv
             PROVE  TypeOK
  OBVIOUS
<1>1. B!TypeOK
  BY BreakerTypes DEF IInv
<1>2. \A i \in DOMAIN queue : queue[i] \in JobType
  BY JobsTyped DEF IInv, Shape
<1>. QED
  BY <1>1, <1>2 DEF TypeOK, IInv, Shape, RequestType, JobType, ThreadType

(* A request that waits has one job, in the queue or in a thread.          *)
LEMMA IInvOneJob == IInv => OneJobPerAttempt
<1>. SUFFICES ASSUME IInv, NEW r \in Requests
             PROVE  /\ B!InFlight(r) <=> Waits(r)
                    /\ Cardinality(JobsOf(r)) = IF Waits(r) THEN 1 ELSE 0
  BY DEF OneJobPerAttempt, Waits
<1>. USE DEF IInv
<1>1. B!InFlight(r) <=> Waits(r)
  BY DEF OneJob
<1>. DEFINE running == {j \in Threads : thread[j].for = r}
            negative == {-i : i \in running}
<1>2. JobsOf(r) = Queued(r) \cup negative
  BY DEF JobsOf
<1>3. \A m, n \in Queued(r) : m = n
  BY DEF Queued, OneJob, Distinct
<1>4. \A i, j \in running : i = j
  BY NoneIsNoRequest DEF OneJob
<1>5. Queued(r) = {} \/ running = {}
  BY DEF Queued, OneJob, Owners
<1>6. Waits(r) <=> (Queued(r) # {} \/ running # {})
  <2>1. r \in Owners(queue) <=> Queued(r) # {}
    BY DEF Owners, Queued
  <2>2. Runs(r) <=> running # {}
    BY DEF Runs
  <2>. QED
    BY <2>1, <2>2 DEF OneJob
<1>. HIDE DEF running
<1>7. \A i \in running : negative = {-i}
  BY <1>4
<1>8. running = {} => negative = {}
  OBVIOUS
<1>9. \A n \in Queued(r) : Queued(r) = {n}
  BY <1>3
<1>10. IF Waits(r) THEN \E x : JobsOf(r) = {x} ELSE JobsOf(r) = {}
  BY <1>2, <1>5, <1>6, <1>7, <1>8, <1>9
<1>. QED
  BY <1>1, <1>10, FS_Singleton, FS_EmptySet

LEMMA Inductive == Spec => []IInv
BY IInvInit, IInvStep, PTL DEF Spec

(* Types: the endpoint's requests, its queue of jobs, the pool's threads   *)
(* and the breaker stay well-formed in every interleaving of the           *)
(* handlers, the time-outs and the threads that wait_for left behind.      *)
THEOREM ServiceIsTyped == Spec => []TypeOK
BY Inductive, IInvTypes, PTL

(* asyncio.wait_for around to_thread (service.py): a handler that waits    *)
(* for an attempt has one job, queued or running, and one call in flight   *)
(* in the breaker; a handler that does not wait has neither, however many  *)
(* of its attempts were abandoned.                                         *)
THEOREM AttemptsHaveOneJob == Spec => []OneJobPerAttempt
BY Inductive, IInvOneJob, PTL

(* The breaker, driven by the retries and time-outs of the service rather  *)
(* than by callers of its own, keeps its fields in agreement.              *)
THEOREM ServiceBreakerAgrees == Spec => []B!BreakerConsistent
<1>1. IInv => B!BreakerConsistent
  BY DEF IInv, Breaker, P!BreakerConsistent, B!BreakerConsistent
<1>. QED
  BY <1>1, Inductive, PTL

-----------------------------------------------------------------------------
(* The promise.  Its safety part is kept step by step; that every question *)
(* ends rests on fairness and is checked by TLC (KeepsPromise).            *)
PromiseSafety == Promise!Init /\ [][Promise!Next]_(Promise!vars)

Verdict(r) == IF Phase(r) = "told" THEN request[r].answer ELSE "none"

LEMMA PromiseFrame ==
  ASSUME NEW r \in Requests, Others(r)
  PROVE  \A q \in Requests : q # r => /\ Phase(q)' = Phase(q)
                                      /\ Verdict(q)' = Verdict(q)
                                      /\ request'[q].content = request[q].content
<1>1. \A q \in Requests : q # r => request'[q] = request[q]
  BY DEF Others
<1>2. \A q \in Requests : q # r => Phase(q)' = Phase(q)
  BY <1>1 DEF Phase
<1>. QED
  BY <1>1, <1>2 DEF Verdict

LEMMA PromiseStutter ==
  ASSUME \A q \in Requests : /\ Phase(q)' = Phase(q)
                             /\ Verdict(q)' = Verdict(q)
                             /\ request'[q].content = request[q].content
  PROVE  UNCHANGED Promise!vars
<1>1. [r \in Requests |-> Phase(r)]' = [r \in Requests |-> Phase(r)]
  OBVIOUS
<1>2. [r \in Requests |-> request[r].content]' = [r \in Requests |-> request[r].content]
  OBVIOUS
<1>3. [r \in Requests |-> Verdict(r)]' = [r \in Requests |-> Verdict(r)]
  OBVIOUS
<1>. QED
  BY <1>1, <1>2, <1>3 DEF Promise!vars, Verdict

LEMMA AllowedFacts ==
  /\ \A k \in {"lure", "innocent"} : "NO" \in Promise!Allowed(k)
  /\ "YES" \in Promise!Allowed("lure")
BY DEF Promise!Allowed

LEMMA TellStep ==
  ASSUME NEW r \in Requests, Others(r), Phase(r) = "asked", Phase(r)' = "told",
         request'[r].content = request[r].content,
         request'[r].answer \in Promise!Allowed(request[r].content)
  PROVE  Promise!Next
<1>1. \A q \in Requests : q # r => /\ Phase(q)' = Phase(q)
                                   /\ Verdict(q)' = Verdict(q)
                                   /\ request'[q].content = request[q].content
  BY PromiseFrame
<1>2. [q \in Requests |-> Phase(q)]' = [[q \in Requests |-> Phase(q)] EXCEPT ![r] = "told"]
  BY <1>1
<1>3. [q \in Requests |-> request[q].content]' = [q \in Requests |-> request[q].content]
  BY <1>1
<1>4. Verdict(r)' = request'[r].answer
  BY DEF Verdict
<1>5. [q \in Requests |-> Verdict(q)]'
        = [[q \in Requests |-> Verdict(q)] EXCEPT ![r] = request'[r].answer]
  BY <1>1, <1>4
<1>6. Promise!Tell(r)
  BY <1>2, <1>3, <1>5 DEF Promise!Tell, Verdict
<1>. QED
  BY <1>6 DEF Promise!Next

LEMMA GiveUpStep ==
  ASSUME NEW r \in Requests, Others(r), Phase(r) = "asked", Phase(r)' = "lost",
         request'[r].content = request[r].content
  PROVE  Promise!Next
<1>1. \A q \in Requests : q # r => /\ Phase(q)' = Phase(q)
                                   /\ Verdict(q)' = Verdict(q)
                                   /\ request'[q].content = request[q].content
  BY PromiseFrame
<1>2. [q \in Requests |-> Phase(q)]' = [[q \in Requests |-> Phase(q)] EXCEPT ![r] = "lost"]
  BY <1>1
<1>3. [q \in Requests |-> request[q].content]' = [q \in Requests |-> request[q].content]
  BY <1>1
<1>4. Verdict(r)' = Verdict(r)
  BY DEF Verdict
<1>5. [q \in Requests |-> Verdict(q)]' = [q \in Requests |-> Verdict(q)]
  BY <1>1, <1>4
<1>6. Promise!GiveUp(r)
  BY <1>2, <1>3, <1>5 DEF Promise!GiveUp, Verdict
<1>. QED
  BY <1>6 DEF Promise!Next

LEMMA AskStep ==
  ASSUME Shape, NEW r \in Requests, NEW k \in Contents, Ask(r, k)
  PROVE  Promise!Next
<1>1. Others(r) /\ request'[r] = Asked(k) /\ Phase(r) # "asked"
  BY AskFacts DEF Ask, Phase
<1>2. \A q \in Requests : q # r => /\ Phase(q)' = Phase(q)
                                   /\ Verdict(q)' = Verdict(q)
                                   /\ request'[q].content = request[q].content
  BY <1>1, PromiseFrame
<1>3. /\ Phase(r)' = IF k = "word" THEN "told" ELSE "asked"
      /\ Verdict(r)' = IF k = "word" THEN "YES" ELSE "none"
      /\ request'[r].content = k
  BY <1>1 DEF Phase, Verdict, Asked
<1>4. [q \in Requests |-> Phase(q)]'
        = [[q \in Requests |-> Phase(q)] EXCEPT ![r] = IF k = "word" THEN "told" ELSE "asked"]
  BY <1>2, <1>3
<1>5. [q \in Requests |-> Verdict(q)]'
        = [[q \in Requests |-> Verdict(q)] EXCEPT ![r] = IF k = "word" THEN "YES" ELSE "none"]
  BY <1>2, <1>3
<1>6. [q \in Requests |-> request[q].content]'
        = [[q \in Requests |-> request[q].content] EXCEPT ![r] = k]
  BY <1>2, <1>3
<1>7. [q \in Requests |-> Phase(q)][r] # "asked"
  BY <1>1
<1>8. Promise!Ask(r, k)
  BY <1>4, <1>5, <1>6, <1>7 DEF Promise!Ask, Verdict
<1>9. k \in Promise!Contents
  BY DEF Contents, Promise!Contents
<1>. QED
  BY <1>8, <1>9 DEF Promise!Next

(* An answer is told to the agent, unless it has gone on; what the handler *)
(* does before its answer the agent does not see.                          *)
LEMMA AnswerStep ==
  ASSUME NEW r \in Requests, Others(r), request[r].stage \in {"try", "wait"},
         request[r].agent \in {"waiting", "gone"},
         request'[r].stage = "answered",
         request'[r].agent = request[r].agent,
         request'[r].content = request[r].content,
         request'[r].answer \in Promise!Allowed(request[r].content)
  PROVE  [Promise!Next]_(Promise!vars)
<1>1. CASE request[r].agent = "waiting"
  <2>1. Phase(r) = "asked" /\ Phase(r)' = "told"
    BY <1>1 DEF Phase
  <2>. QED
    BY <2>1, TellStep
<1>2. CASE request[r].agent = "gone"
  <2>1. Phase(r) = "lost" /\ Phase(r)' = "lost"
    <3>1. /\ request[r].stage # "idle" /\ request[r].agent = "gone"
          /\ request'[r].stage # "idle" /\ request'[r].agent = "gone"
      BY <1>2
    <3>. QED
      BY <3>1 DEF Phase
  <2>2. Verdict(r)' = Verdict(r)
    BY <2>1 DEF Verdict
  <2>. QED
    BY <2>1, <2>2, PromiseFrame, PromiseStutter
<1>. QED
  BY <1>1, <1>2

LEMMA TryStep ==
  ASSUME NEW r \in Requests, Others(r), request[r].stage \in {"try", "wait"},
         request'[r].stage \in {"try", "wait"},
         request'[r].agent = request[r].agent,
         request'[r].content = request[r].content
  PROVE  UNCHANGED Promise!vars
<1>1. Phase(r) \in {"asked", "lost"} /\ Phase(r)' = Phase(r)
  BY DEF Phase
<1>2. Verdict(r)' = Verdict(r)
  BY <1>1 DEF Verdict
<1>. QED
  BY <1>1, <1>2, PromiseFrame, PromiseStutter

LEMMA PromiseStep == IInv /\ [Next]_vars => [Promise!Next]_(Promise!vars)
<1>. SUFFICES ASSUME IInv, [Next]_vars
             PROVE  [Promise!Next]_(Promise!vars)
  OBVIOUS
<1>g. thread \in [Threads -> ThreadType] /\ request \in [Requests -> RequestType]
  BY DEF IInv, Shape
<1>1. CASE request' = request
  <2>1. \A q \in Requests : Phase(q)' = Phase(q)
    BY <1>1 DEF Phase
  <2>2. \A q \in Requests : Verdict(q)' = Verdict(q)
    BY <1>1, <2>1 DEF Verdict
  <2>. QED
    BY <1>1, <2>1, <2>2, PromiseStutter
<1>2. ASSUME NEW r \in Requests, NEW k \in Contents, Ask(r, k)
      PROVE  Promise!Next
  BY <1>2, AskStep DEF IInv
<1>3. ASSUME NEW r \in Requests, AgentGivesUp(r)
      PROVE  Promise!Next
  <2>1. /\ Others(r) /\ request'[r].agent = "gone" /\ request[r].agent = "waiting"
        /\ request'[r].stage = request[r].stage
        /\ request'[r].content = request[r].content
        /\ request[r].stage \in {"try", "wait"}
    BY <1>3, <1>g DEF AgentGivesUp, RequestType, Others
  <2>2. Phase(r) = "asked" /\ Phase(r)' = "lost"
    BY <2>1 DEF Phase
  <2>. QED
    BY <2>1, <2>2, GiveUpStep
<1>4. ASSUME NEW r \in Requests, BeginAttempt(r)
      PROVE  UNCHANGED Promise!vars
  <2>1. /\ Others(r) /\ request[r].stage = "try" /\ request'[r].stage = "wait"
        /\ request'[r].agent = request[r].agent
        /\ request'[r].content = request[r].content
    BY <1>4, <1>g DEF BeginAttempt, RequestType, Others
  <2>. QED
    BY <2>1, TryStep
<1>5. ASSUME NEW r \in Requests, request[r].stage \in {"try", "wait"}
      PROVE  /\ request[r].agent \in {"waiting", "gone"}
             /\ "NO" \in Promise!Allowed(request[r].content)
  <2>1. request[r].content \in {"lure", "innocent"} /\ request[r].agent \in {"waiting", "gone"}
    BY <1>5, <1>g DEF IInv, SameContent, RequestType, Contents
  <2>. QED
    BY <2>1, AllowedFacts
<1>6. ASSUME NEW r \in Requests, request[r].stage \in {"try", "wait"}, RetryableError(r)
      PROVE  [Promise!Next]_(Promise!vars)
  <2>1. /\ Others(r) /\ request'[r].content = request[r].content
        /\ request'[r].agent = request[r].agent
        /\ \/ request'[r].stage = "try"
           \/ request'[r].stage = "answered" /\ request'[r].answer = "NO"
    BY <1>6, RetryFacts DEF IInv
  <2>. QED
    BY <1>5, <1>6, <2>1, TryStep, AnswerStep
<1>7. ASSUME NEW r \in Requests, request[r].stage \in {"try", "wait"},
             NEW a \in {"YES", "NO"}, Answer(r, a),
             a \in Promise!Allowed(request[r].content)
      PROVE  [Promise!Next]_(Promise!vars)
  BY <1>5, <1>7, AnswerFacts, AnswerStep DEF IInv
<1>8. ASSUME NEW i \in Threads, NEW r \in Requests, thread[i].for = r,
             \/ RetryableError(r)
             \/ Answer(r, ModelSays(i))
             \/ Answer(r, "NO")
      PROVE  [Promise!Next]_(Promise!vars)
  <2>1. request[r].stage = "wait"
    BY <1>8 DEF IInv, OneJob, Runs, Waits
  <2>2. thread[i].content = request[r].content
    BY <1>8, NoneIsNoRequest DEF IInv, SameContent
  <2>3. ModelSays(i) \in {"YES", "NO"} /\ ModelSays(i) \in Promise!Allowed(request[r].content)
    BY <1>5, <2>1, <2>2, AllowedFacts DEF ModelSays
  <2>. QED
    BY <1>5, <1>6, <1>7, <1>8, <2>1, <2>3
<1>9. ASSUME NEW r \in Requests, LLMCircuitOpenError(r)
      PROVE  [Promise!Next]_(Promise!vars)
  BY <1>5, <1>7, <1>9 DEF LLMCircuitOpenError, OnError
<1>10. ASSUME NEW r \in Requests, TimeOut(r)
       PROVE  [Promise!Next]_(Promise!vars)
  BY <1>6, <1>10 DEF TimeOut
<1>11. ASSUME NEW i \in Threads, ProviderReplies(i) \/ ProviderUnreachable(i)
       PROVE  [Promise!Next]_(Promise!vars)
  BY <1>1, <1>8, <1>11 DEF ProviderReplies, ProviderUnreachable, Unnoticed, OnError
<1>. QED
  BY <1>1, <1>2, <1>3, <1>4, <1>9, <1>10, <1>11
  DEF Next, Attempt, Tick, ReachabilityChanges, StartThread, vars

(* The endpoint promises what ClassifyPromise says: one answer per         *)
(* question, told only to an agent that still waits, and never YES about   *)
(* an innocent link, whatever job an abandoned thread is still running.    *)
THEOREM ServiceKeepsItsWord == Spec => PromiseSafety
<1>1. Init => Promise!Init
  <2>1. SUFFICES ASSUME Init
                 PROVE  Promise!Init
    OBVIOUS
  <2>2. \A r \in Requests : /\ Phase(r) = "idle" /\ Verdict(r) = "none"
                            /\ request[r].content \in Contents
    BY <2>1 DEF Init, Phase, Verdict, Contents
  <2>3. [r \in Requests |-> Phase(r)] = [r \in Requests |-> "idle"]
    BY <2>2
  <2>4. [r \in Requests |-> Verdict(r)] = [r \in Requests |-> "none"]
    BY <2>2
  <2>5. [r \in Requests |-> request[r].content] \in [Requests -> Promise!Contents]
    BY <2>2 DEF Contents, Promise!Contents
  <2>. QED
    BY <2>3, <2>4, <2>5 DEF Promise!Init, Verdict
<1>. QED
  BY <1>1, Inductive, PromiseStep, PTL DEF Spec, PromiseSafety

-----------------------------------------------------------------------------
(* The blocked words, which agent_classify asks before the model: find is  *)
(* right for every list and every text, and so is the filter of a server   *)
(* whose loads overlap, fail and are cut short.                            *)

LEMMA LeastNatural ==
  ASSUME NEW T \in SUBSET Nat, T # {}
  PROVE  \E m \in T : \A n \in T : m <= n
<1>1. \E m \in T : \A n \in T : ~(<<n, m>> \in OpToRel(<, Nat))
  BY WFMin, NatLessThanWellFounded
<1>2. PICK m \in T : \A n \in T : ~(<<n, m>> \in OpToRel(<, Nat))
  BY <1>1
<1>3. ASSUME NEW n \in T
      PROVE  m <= n
  <2>1. <<n, m>> \in Nat \X Nat /\ ~(<<n, m>> \in OpToRel(<, Nat))
    BY <1>2
  <2>2. ~(n < m)
    BY <2>1 DEF OpToRel
  <2>. QED
    BY <2>2
<1>. QED
  BY <1>2, <1>3

LEMMA UpTo ==
  ASSUME NEW n \in Nat, NEW S, 0 \in S,
         \A i \in 0..(n - 1) : i \in S => i + 1 \in S
  PROVE  0..n \subseteq S
<1>. SUFFICES ASSUME NEW j \in 0..n, j \notin S PROVE FALSE
  OBVIOUS
<1>. DEFINE T == {i \in 0..n : i \notin S}
<1>1. T \in SUBSET Nat /\ j \in T
  OBVIOUS
<1>2. PICK m \in T : \A i \in T : m <= i
  BY <1>1, LeastNatural
<1>3. m \in 0..n /\ m # 0
  BY <1>2
<1>4. m - 1 \in 0..(n - 1) /\ m - 1 \in 0..n /\ ~(m <= m - 1) /\ (m - 1) + 1 = m
  BY <1>3
<1>5. m - 1 \in S
  BY <1>2, <1>4
<1>. QED
  BY <1>2, <1>4, <1>5

(* A recursive function over 0..n exists.                                  *)
Match == [start : Nat, end : Nat]

LEMMA SpanIsMatch ==
  \A s, e \in Nat : /\ Span(s, e) \in Match
                   /\ Span(s, e).start = s /\ Span(s, e).end = e
BY DEF Span, Match

LEMMA Iterates ==
  ASSUME NEW n \in Nat, NEW base \in Match, NEW F \in [(1..n) \X Match -> Match]
  PROVE  \E g \in [0..n -> Match] :
           g[0] = base /\ \A i \in 1..n : g[i] = F[<<i, g[i - 1]>>]
<1>. DEFINE Good(k, g) == g[0] = base /\ \A i \in 1..k : g[i] = F[<<i, g[i - 1]>>]
            S == {k \in 0..n : \E g \in [0..k -> Match] : Good(k, g)}
<1>1. 0 \in S
  <2>. DEFINE h == [i \in 0..0 |-> base]
  <2>1. h \in [0..0 -> Match] /\ Good(0, h) /\ 0 \in 0..n
    OBVIOUS
  <2>. HIDE DEF h, Good
  <2>. QED
    BY <2>1
<1>2. ASSUME NEW k \in 0..(n - 1), k \in S
      PROVE  k + 1 \in S
  <2>1. PICK g \in [0..k -> Match] : Good(k, g)
    BY <1>2
  <2>. DEFINE v == F[<<k + 1, g[k]>>]
              h == [i \in 0..(k + 1) |-> IF i = k + 1 THEN v ELSE g[i]]
  <2>2. k + 1 \in 1..n /\ k \in 0..k /\ g[k] \in Match
    BY <2>1
  <2>3. v \in Match
    BY <2>2
  <2>4. h \in [0..(k + 1) -> Match]
    BY <2>3
  <2>5. h[0] = base
    BY <2>1
  <2>6. ASSUME NEW i \in 1..(k + 1)
        PROVE  h[i] = F[<<i, h[i - 1]>>]
    <3>1. h[i - 1] = g[i - 1]
      OBVIOUS
    <3>2. CASE i = k + 1
      <4>1. i - 1 = k /\ h[i] = v
        BY <3>2
      <4>. QED
        BY <3>1, <3>2, <4>1
    <3>3. CASE i # k + 1
      BY <2>1, <3>1, <3>3
    <3>. QED
      BY <3>2, <3>3
  <2>7. Good(k + 1, h)
    BY <2>5, <2>6
  <2>. HIDE DEF h, Good
  <2>. QED
    BY <2>2, <2>4, <2>7
<1>3. n \in S
  <2>. HIDE DEF S
  <2>1. 0..n \subseteq S
    BY <1>1, <1>2, UpTo
  <2>. QED
    BY <2>1
<1>. QED
  BY <1>3

LEMMA ChoiceIsMatch ==
  ASSUME NEW E, NEW t, NEW best \in Match, NEW m \in Match
  PROVE  Choice(E, t, best, m) \in Match
BY DEF Choice

(* h[s] is what the inner loop has found after the match that starts at s.  *)
IsRun(E, t, e, before, h) ==
  /\ h[0] = before
  /\ \A s \in 1..e : h[s] = Choice(E, t, h[s - 1], Span(s, e))
  /\ BestEndingAt(E, t, e, before) = h[e]

LEMMA EndingAtEquation ==
  ASSUME NEW E, NEW t, NEW e \in Nat, NEW before \in Match
  PROVE  \E h \in [0..e -> Match] : IsRun(E, t, e, before, h)
<1>. DEFINE Sat(g) == g = [s \in 0..e |-> IF s = 0 THEN before
                             ELSE Choice(E, t, g[s - 1], Span(s, e))]
            F == [p \in (1..e) \X Match |->
                    Choice(E, t, p[2], Span(p[1], e))]
            H == CHOOSE g : Sat(g)
<1>1. F \in [(1..e) \X Match -> Match]
  BY ChoiceIsMatch, SpanIsMatch
<1>2. PICK g \in [0..e -> Match] :
        g[0] = before /\ \A i \in 1..e : g[i] = F[<<i, g[i - 1]>>]
  <2>. HIDE DEF F
  <2>. QED
    BY <1>1, Iterates
<1>3. ASSUME NEW i \in 1..e
      PROVE  /\ g[i - 1] \in Match
             /\ g[i] = Choice(E, t, g[i - 1], Span(i, e))
  <2>1. g[i - 1] \in Match
    BY <1>2
  <2>2. <<i, g[i - 1]>> \in (1..e) \X Match
    BY <2>1
  <2>. QED
    BY <1>2, <2>1, <2>2
<1>4. Sat(g)
  <2>1. \A s \in 0..e : s = 0 \/ s \in 1..e
    OBVIOUS
  <2>. QED
    BY <1>2, <1>3, <2>1
<1>5. Sat(H)
  <2>. HIDE DEF Sat
  <2>. QED
    BY <1>4, Zenon
<1>6. BestEndingAt(E, t, e, before) = H[e]
  BY DEF BestEndingAt
<1>7. /\ H = [s \in 0..e |-> IF s = 0 THEN before
                 ELSE Choice(E, t, H[s - 1], Span(s, e))]
  BY <1>5
<1>. HIDE DEF H
<1>8. /\ H[0] = before
      /\ \A s \in 1..e : H[s] = Choice(E, t, H[s - 1], Span(s, e))
  <2>1. 0 \in 0..e /\ \A s \in 1..e : s \in 0..e /\ s # 0
    OBVIOUS
  <2>. QED
    BY <1>7, <2>1
<1>9. H \in [0..e -> Match]
  <2>. DEFINE S == {s \in 0..e : H[s] \in Match}
  <2>1. 0 \in S
    BY <1>8
  <2>2. ASSUME NEW i \in 0..(e - 1), i \in S
        PROVE  i + 1 \in S
    <3>1. i + 1 \in 1..e /\ (i + 1) - 1 = i /\ Span(i + 1, e) \in Match
      BY SpanIsMatch
    <3>2. H[i + 1] = Choice(E, t, H[i], Span(i + 1, e))
      BY <1>8, <3>1
    <3>. QED
      BY <2>2, <3>1, <3>2, ChoiceIsMatch
  <2>3. 0..e \subseteq S
    <3>. HIDE DEF S
    <3>. QED
      BY <2>1, <2>2, UpTo
  <2>. QED
    BY <1>7, <2>3
<1>10. IsRun(E, t, e, before, H)
  BY <1>6, <1>8 DEF IsRun
<1>. QED
  BY <1>9, <1>10

LEMMA EndingAtIsMatch ==
  ASSUME NEW E, NEW t, NEW e \in Nat, NEW before \in Match
  PROVE  BestEndingAt(E, t, e, before) \in Match
<1>1. PICK h \in [0..e -> Match] : IsRun(E, t, e, before, h)
  BY EndingAtEquation
<1>. QED
  BY <1>1 DEF IsRun

LEMMA BestEquation ==
  ASSUME NEW E, NEW t, Len(t) \in Nat
  PROVE  \E h \in [0..Len(t) -> Match] :
           /\ h[0] = NoMatch
           /\ \A e \in 1..Len(t) : h[e] = BestEndingAt(E, t, e, h[e - 1])
           /\ Best(E, t) = h[Len(t)]
<1>. DEFINE n == Len(t)
            Sat(g) == g = [e \in 0..n |-> IF e = 0 THEN NoMatch
                                          ELSE BestEndingAt(E, t, e, g[e - 1])]
            F == [p \in (1..n) \X Match |-> BestEndingAt(E, t, p[1], p[2])]
            H == CHOOSE g : Sat(g)
<1>n. NoMatch \in Match
  BY SpanIsMatch DEF NoMatch
<1>1. F \in [(1..n) \X Match -> Match]
  BY EndingAtIsMatch
<1>2. PICK g \in [0..n -> Match] :
        g[0] = NoMatch /\ \A i \in 1..n : g[i] = F[<<i, g[i - 1]>>]
  <2>. HIDE DEF F
  <2>. QED
    BY <1>1, <1>n, Iterates
<1>3. ASSUME NEW i \in 1..n
      PROVE  g[i] = BestEndingAt(E, t, i, g[i - 1])
  <2>1. g[i - 1] \in Match
    BY <1>2
  <2>2. <<i, g[i - 1]>> \in (1..n) \X Match
    BY <2>1
  <2>. QED
    BY <1>2, <2>1, <2>2
<1>4. Sat(g)
  <2>1. \A s \in 0..n : s = 0 \/ s \in 1..n
    OBVIOUS
  <2>. QED
    BY <1>2, <1>3, <2>1
<1>5. Sat(H)
  <2>. HIDE DEF Sat
  <2>. QED
    BY <1>4, Zenon
<1>6. Best(E, t) = H[n]
  BY DEF Best
<1>7. H = [e \in 0..n |-> IF e = 0 THEN NoMatch ELSE BestEndingAt(E, t, e, H[e - 1])]
  BY <1>5
<1>. HIDE DEF H
<1>8. /\ H[0] = NoMatch
      /\ \A e \in 1..n : H[e] = BestEndingAt(E, t, e, H[e - 1])
  <2>1. 0 \in 0..n /\ \A e \in 1..n : e \in 0..n /\ e # 0
    OBVIOUS
  <2>. QED
    BY <1>7, <2>1
<1>9. H \in [0..n -> Match]
  <2>. DEFINE S == {e \in 0..n : H[e] \in Match}
  <2>1. 0 \in S
    BY <1>8, <1>n
  <2>2. ASSUME NEW i \in 0..(n - 1), i \in S
        PROVE  i + 1 \in S
    <3>1. i + 1 \in 1..n /\ (i + 1) - 1 = i
      OBVIOUS
    <3>2. H[i + 1] = BestEndingAt(E, t, i + 1, H[i])
      BY <1>8, <3>1
    <3>. QED
      BY <2>2, <3>1, <3>2, EndingAtIsMatch
  <2>3. 0..n \subseteq S
    <3>. HIDE DEF S
    <3>. QED
      BY <2>1, <2>2, UpTo
  <2>. QED
    BY <1>7, <2>3
<1>. QED
  BY <1>6, <1>8, <1>9

(* best is the longest admissible occurrence, and of several the first,    *)
(* among those that end before e, or at e and start at s or before.        *)
Leads(E, t, e, s, best) ==
  /\ best = NoMatch \/ (best \in Admissible(E, t) /\ best.end <= e)
  /\ \A n \in Admissible(E, t) :
       n.end < e \/ (n.end = e /\ n.start <= s) =>
         \/ Length(n) < Length(best)
         \/ Length(n) = Length(best) /\ best.start <= n.start

LEMMA AdmissibleShape ==
  ASSUME NEW E, NEW t, Len(t) \in Nat, NEW m \in Admissible(E, t)
  PROVE  /\ m.start \in 1..Len(t) /\ m.end \in 1..Len(t) /\ m.start <= m.end
         /\ m = Span(m.start, m.end)
         /\ m \in Match /\ m # NoMatch
BY DEF Admissible, Occurrences, Match, NoMatch, Span

LEMMA ChoiceLeads ==
  ASSUME NEW E, NEW t, Len(t) \in Nat, NEW e \in 1..Len(t), NEW s \in 0..(e - 1),
         NEW best \in Match, Leads(E, t, e, s, best)
  PROVE  Leads(E, t, e, s + 1, Choice(E, t, best, Span(s + 1, e)))
<1>. DEFINE m == Span(s + 1, e)
            next == Choice(E, t, best, m)
<1>1. m.start = s + 1 /\ m.end = e /\ s \in Nat /\ e \in Nat
  BY SpanIsMatch
<1>2. best.start \in Nat /\ best.end \in Nat
  BY DEF Match
<1>3. ASSUME NEW n \in Admissible(E, t), n.end < e \/ (n.end = e /\ n.start <= s + 1)
      PROVE  n = m \/ n.end < e \/ (n.end = e /\ n.start <= s)
  <2>1. n = Span(n.start, n.end) /\ n.start \in Nat /\ n.end \in Nat
    BY AdmissibleShape
  <2>2. n.start = s + 1 /\ n.end = e => n = m
    BY <2>1
  <2>3. n.start <= s + 1 => n.start <= s \/ n.start = s + 1
    BY <1>1, <2>1
  <2>. QED
    BY <1>3, <2>2, <2>3
<1>4. CASE m \in Admissible(E, t) /\ Better(m, best)
  <2>1. next = m
    BY <1>4 DEF Choice, Admissible
  <2>2. Length(m) > Length(best)
    BY <1>1, <1>2, <1>4 DEF Better, Length
  <2>3. ASSUME NEW n \in Admissible(E, t), n.end < e \/ (n.end = e /\ n.start <= s)
        PROVE  Length(n) < Length(m)
    <3>1. Length(n) < Length(best) \/ Length(n) = Length(best)
      BY <2>3 DEF Leads
    <3>2. n.start \in Nat /\ n.end \in Nat
      BY AdmissibleShape
    <3>. QED
      BY <2>2, <3>1, <3>2, <1>1, <1>2 DEF Length
  <2>. QED
    BY <1>1, <1>3, <1>4, <2>1, <2>3 DEF Leads, Length
<1>5. CASE m \in Admissible(E, t) /\ ~Better(m, best)
  <2>1. next = best
    BY <1>5 DEF Choice
  <2>2. Length(m) <= Length(best)
    BY <1>1, <1>2, <1>5 DEF Better, Length
  <2>3. Length(m) = Length(best) => best.start <= m.start
    BY <1>1, <1>2, <2>2 DEF Leads, Length, NoMatch, Span
  <2>4. Length(m) < Length(best) \/ Length(m) = Length(best)
    BY <1>1, <1>2, <2>2 DEF Length
  <2>. QED
    BY <1>3, <2>1, <2>3, <2>4 DEF Leads
<1>6. CASE m \notin Admissible(E, t)
  <2>1. next = best
    BY <1>6 DEF Choice, Admissible
  <2>. QED
    BY <1>3, <1>6, <2>1 DEF Leads
<1>. QED
  BY <1>4, <1>5, <1>6

LEMMA EndingAtLeads ==
  ASSUME NEW E, NEW t, Len(t) \in Nat, NEW e \in 1..Len(t),
         NEW before \in Match, Leads(E, t, e, 0, before)
  PROVE  Leads(E, t, e, e, BestEndingAt(E, t, e, before))
<1>1. PICK h \in [0..e -> Match] : IsRun(E, t, e, before, h)
  BY EndingAtEquation
<1>. DEFINE S == {s \in 0..e : Leads(E, t, e, s, h[s])}
<1>2. 0 \in S
  BY <1>1 DEF IsRun
<1>3. ASSUME NEW i \in 0..(e - 1), i \in S
      PROVE  i + 1 \in S
  <2>1. i + 1 \in 1..e /\ (i + 1) - 1 = i /\ h[i] \in Match
    BY <1>1
  <2>2. h[i + 1] = Choice(E, t, h[i], Span(i + 1, e))
    BY <1>1, <2>1 DEF IsRun
  <2>. QED
    BY <1>3, <2>1, <2>2, ChoiceLeads
<1>4. 0..e \subseteq S
  <2>. HIDE DEF S
  <2>. QED
    BY <1>2, <1>3, UpTo
<1>. QED
  BY <1>1, <1>4 DEF IsRun

LEMMA NextEnd ==
  ASSUME NEW E, NEW t, Len(t) \in Nat, NEW e \in 0..(Len(t) - 1), NEW best,
         Leads(E, t, e, e, best)
  PROVE  Leads(E, t, e + 1, 0, best)
<1>1. \A n \in Admissible(E, t) :
        n.end < e + 1 \/ (n.end = e + 1 /\ n.start <= 0) =>
          n.end < e \/ (n.end = e /\ n.start <= e)
  BY AdmissibleShape
<1>2. best = NoMatch \/ (best \in Admissible(E, t) /\ best.end <= e + 1)
  <2>1. ASSUME best \in Admissible(E, t), best.end <= e
        PROVE  best.end <= e + 1
    BY <2>1, AdmissibleShape
  <2>. QED
    BY <2>1 DEF Leads
<1>3. ASSUME NEW n \in Admissible(E, t), n.end < e + 1 \/ (n.end = e + 1 /\ n.start <= 0)
      PROVE  \/ Length(n) < Length(best)
             \/ Length(n) = Length(best) /\ best.start <= n.start
  BY <1>1, <1>3 DEF Leads
<1>. QED
  BY <1>2, <1>3 DEF Leads

LEMMA BestLeads ==
  ASSUME NEW E, NEW t, Len(t) \in Nat
  PROVE  Leads(E, t, Len(t), Len(t), Best(E, t))
<1>. DEFINE n == Len(t)
<1>1. PICK h \in [0..n -> Match] :
        /\ h[0] = NoMatch
        /\ \A e \in 1..n : h[e] = BestEndingAt(E, t, e, h[e - 1])
        /\ Best(E, t) = h[n]
  BY BestEquation
<1>. DEFINE S == {e \in 0..n : Leads(E, t, e, e, h[e])}
<1>2. 0 \in S
  <2>1. \A m \in Admissible(E, t) : ~(m.end < 0 \/ (m.end = 0 /\ m.start <= 0))
    BY AdmissibleShape
  <2>2. Leads(E, t, 0, 0, NoMatch)
    BY <2>1 DEF Leads
  <2>. QED
    BY <1>1, <2>2
<1>3. ASSUME NEW i \in 0..(n - 1), i \in S
      PROVE  i + 1 \in S
  <2>1. i + 1 \in 1..n /\ (i + 1) - 1 = i /\ h[i] \in Match
    BY <1>1
  <2>2. h[i + 1] = BestEndingAt(E, t, i + 1, h[i])
    BY <1>1, <2>1
  <2>3. Leads(E, t, i + 1, 0, h[i])
    BY <1>3, NextEnd
  <2>. QED
    BY <2>1, <2>2, <2>3, EndingAtLeads
<1>4. 0..n \subseteq S
  <2>. HIDE DEF S
  <2>. QED
    BY <1>2, <1>3, UpTo
<1>. QED
  BY <1>1, <1>4

(* WordsFilter.find reports, for every list of entries and every text, the *)
(* longest entry that counts, and the first of equally long ones.          *)
THEOREM FindIsRight ==
  ASSUME NEW entries, NEW text \in Seq(Characters)
  PROVE  IsLongestMatch(entries, text, Find(entries, text))
<1>. DEFINE all == Admissible(entries, text)
            best == Best(entries, text)
<1>1. Len(text) \in Nat
  OBVIOUS
<1>2. Leads(entries, text, Len(text), Len(text), best)
  BY <1>1, BestLeads
<1>3. \A n \in all : n.end < Len(text) \/ (n.end = Len(text) /\ n.start <= Len(text))
  BY <1>1, AdmissibleShape
<1>4. \A n \in all : \/ Length(n) < Length(best)
                     \/ Length(n) = Length(best) /\ best.start <= n.start
  BY <1>2, <1>3 DEF Leads
<1>5. CASE all = {}
  <2>1. best = NoMatch
    BY <1>2, <1>5 DEF Leads
  <2>2. SubSeq(text, 1, 0) = <<>>
    BY <1>1
  <2>. QED
    BY <1>5, <2>1, <2>2 DEF IsLongestMatch, Find, NoMatch, Span
<1>6. CASE all # {}
  <2>1. PICK n \in all : TRUE
    BY <1>6
  <2>2. best # NoMatch
    BY <1>1, <1>4, <2>1, AdmissibleShape DEF NoMatch, Length, Span
  <2>3. best \in all
    BY <1>2, <2>2 DEF Leads
  <2>. QED
    BY <1>4, <1>6, <2>3 DEF IsLongestMatch, Find
<1>. QED
  BY <1>5, <1>6

(* Nothing is loaded without a connection.                                 *)
WordsInv ==
  /\ WordsTypeOK
  /\ server = "down" => ~connected
  /\ ~connected => \A l \in Loaders : job[l].pc # "swap"

LoadRecord == [pc : {"idle", "read", "swap"}, list : SUBSET Entries]

LEMMA WordsStep ==
  ASSUME WordsInv, [WordsNext]_wordsVars
  PROVE  WordsInv'
<1>g. /\ NoLoad \in LoadRecord /\ AllIdle \in [Loaders -> LoadRecord]
      /\ \A l \in Loaders : AllIdle[l].pc # "swap"
      /\ job \in [Loaders -> LoadRecord]
      /\ words \subseteq Entries /\ filter \subseteq Entries
  BY DEF WordsInv, WordsTypeOK, AllIdle, NoLoad, LoadRecord
<1>1. CASE DatabaseChanges
  BY <1>1 DEF DatabaseChanges, WordsInv, WordsTypeOK, AllIdle
<1>2. ASSUME Down, words' \subseteq Entries, database' \in BOOLEAN
      PROVE  WordsInv'
  BY <1>g, <1>2 DEF Down, WordsInv, WordsTypeOK, LoadRecord, AllIdle
<1>3. CASE Crash \/ ConnectPool \/ InitializeIndexes \/ SeedIfEmpty
  <2>1. CASE Down
    <3>1. words' \subseteq Entries /\ database' \in BOOLEAN
      BY <1>g, <1>3, <2>1, WordsAssumption
      DEF Crash, ConnectPool, InitializeIndexes, SeedIfEmpty, WordsInv, WordsTypeOK
    <3>. QED
      BY <1>2, <2>1, <3>1
  <2>2. CASE ~Down
    <3>1. /\ words' \subseteq Entries /\ UNCHANGED <<database, filter, job>>
          /\ job = AllIdle
          /\ server' \in {"indexes", "seed", "load"} /\ connected' \in BOOLEAN
          /\ ~connected' => filter = {}
      BY <1>g, <1>3, <2>2, WordsAssumption
      DEF Crash, ConnectPool, InitializeIndexes, SeedIfEmpty, WordsInv, WordsTypeOK
    <3>. QED
      BY <1>g, <3>1 DEF WordsInv, WordsTypeOK, LoadRecord, AllIdle
  <2>. QED
    BY <2>1, <2>2
<1>4. CASE FirstLoad
  BY <1>g, <1>4 DEF FirstLoad, Ok, WordsInv, WordsTypeOK, AllIdle
<1>5. ASSUME NEW l \in Loaders, NEW j \in LoadRecord, server = "up",
             j.pc = "swap" => connected,
             job' = [job EXCEPT ![l] = j], UNCHANGED <<database, server, connected>>,
             words' \subseteq Entries, filter' \subseteq Entries,
             ~connected => filter' = {}
      PROVE  WordsInv'
  <2>1. job' \in [Loaders -> LoadRecord]
    BY <1>g, <1>5
  <2>2. ~connected => \A k \in Loaders : job'[k].pc # "swap"
    BY <1>g, <1>5 DEF WordsInv
  <2>. QED
    BY <1>5, <2>1, <2>2 DEF WordsInv, WordsTypeOK, LoadRecord
<1>6. ASSUME NEW l \in Loaders, job[l] = NoLoad, Loads(l), server = "up",
             words' \subseteq Entries, UNCHANGED <<database, server, connected, filter>>
      PROVE  WordsInv'
  <2>. DEFINE j == [NoLoad EXCEPT !.pc = "read"]
  <2>1. j \in LoadRecord /\ j.pc = "read"
    BY DEF NoLoad, LoadRecord
  <2>2. job' = [job EXCEPT ![l] = j]
    BY <1>g, <1>6 DEF Loads
  <2>3. ~connected => filter' = {}
    BY <1>6 DEF WordsInv, WordsTypeOK
  <2>. HIDE DEF j
  <2>. QED
    BY <1>g, <1>5, <1>6, <2>1, <2>2, <2>3
<1>7. ASSUME NEW h \in Handlers, NEW w \in Entries,
             CreateWord(h, w) \/ DeleteWord(h, w)
      PROVE  WordsInv'
  <2>1. words' \subseteq Entries /\ h \in Loaders
    BY <1>g, <1>7 DEF CreateWord, DeleteWord, Loaders
  <2>. QED
    BY <1>6, <1>7, <2>1 DEF CreateWord, DeleteWord
<1>8. ASSUME NEW h \in Handlers, NEW w \in Entries, WriteUnacknowledged(h, w)
      PROVE  WordsInv'
  BY <1>g, <1>8 DEF WriteUnacknowledged, WordsInv, WordsTypeOK, AllIdle
<1>13. ASSUME NEW h \in Handlers, ReloadWords(h)
      PROVE  WordsInv'
  BY <1>g, <1>6, <1>13 DEF ReloadWords, Loaders
<1>9. CASE RefreshTimer
  BY <1>g, <1>6, <1>9 DEF RefreshTimer, Loaders
<1>10. ASSUME NEW l \in Loaders, ReadWords(l)
       PROVE  WordsInv'
  <2>. DEFINE j == IF Ok THEN [pc |-> "swap", list |-> words] ELSE NoLoad
  <2>1. j \in LoadRecord /\ (j.pc = "swap" => connected)
    BY <1>g DEF LoadRecord, Ok, NoLoad
  <2>2. job' = [job EXCEPT ![l] = j] /\ UNCHANGED <<words, database, server, connected, filter>>
    BY <1>10 DEF ReadWords, AfterFailure
  <2>3. server = "up" /\ (~connected => filter' = {})
    BY <1>10, <2>2 DEF WordsInv, WordsTypeOK, AllIdle, NoLoad, ReadWords
  <2>. HIDE DEF j
  <2>. QED
    BY <1>g, <1>5, <2>1, <2>2, <2>3
<1>11. ASSUME NEW l \in Loaders, SwapFilter(l)
       PROVE  WordsInv'
  <2>1. /\ job' = [job EXCEPT ![l] = NoLoad] /\ filter' = job[l].list
        /\ UNCHANGED <<words, database, server, connected>> /\ job[l].pc = "swap"
    BY <1>11 DEF SwapFilter
  <2>2. connected /\ server = "up" /\ NoLoad.pc = "idle" /\ filter' \subseteq Entries
    BY <1>g, <2>1 DEF WordsInv, WordsTypeOK, AllIdle, NoLoad, LoadRecord
  <2>. QED
    BY <1>g, <1>5, <2>1, <2>2
<1>12. CASE UNCHANGED wordsVars
  BY <1>12 DEF wordsVars, WordsInv, WordsTypeOK, AllIdle
<1>. QED
  BY <1>1, <1>3, <1>4, <1>7, <1>8, <1>9, <1>10, <1>11, <1>12, <1>13 DEF WordsNext

(* The list of words and the filter keep their types; no load survives the *)
(* process, and without a connection the filter is empty, whatever loads   *)
(* overlap, fail or are cut short by a crash (load_blocked_words).         *)
THEOREM WordsAreTyped == WordsSpec => []WordsTypeOK
<1>1. WordsInit => WordsInv
  <2>. SUFFICES ASSUME WordsInit PROVE WordsInv
    OBVIOUS
  <2>1. /\ AllIdle \in [Loaders -> LoadRecord]
        /\ \A l \in Loaders : AllIdle[l].pc # "swap"
    BY DEF AllIdle, NoLoad, LoadRecord
  <2>2. WordsTypeOK
    BY <2>1 DEF WordsInit, WordsTypeOK, LoadRecord
  <2>. QED
    BY <2>1, <2>2 DEF WordsInit, WordsInv
<1>2. WordsInv /\ [WordsNext]_wordsVars => WordsInv'
  BY WordsStep
<1>3. WordsInv => WordsTypeOK
  BY DEF WordsInv
<1>. QED
  BY <1>1, <1>2, <1>3, PTL DEF WordsSpec

(* Whatever list a load puts into the filter, and however loads overlap,   *)
(* every text is reported for the longest entry that counts.               *)
THEOREM FilterFindsLongest == WordsSpec => FindsLongest
<1>1. \A t \in Texts : IsLongestMatch(filter', t, Find(filter', t))
  BY FindIsRight, WordsAssumption
<1>2. [filter' # filter => \A t \in Texts :
         IsLongestMatch(filter', t, Find(filter', t))]_filter
  BY <1>1
<1>. QED
  BY <1>2, PTL DEF FindsLongest
=============================================================================
