-------------------------- MODULE HopDeliveryProofs --------------------------
(***************************************************************************)
(* Proofs about HopDelivery: an alert that the agent counts as delivered   *)
(* is in the event store, the parent is told of nothing else, and each     *)
(* step keeps the promise of DeliveryPromise, whatever is lost, late or    *)
(* restarted on the way.                                                   *)
(***************************************************************************)
EXTENDS HopDelivery, SequenceTheorems, TLAPS

-----------------------------------------------------------------------------
(* The two halves of TypeOK.                                               *)
AgentTypes ==
  /\ q \in Seq(Events)
  /\ age \in [Events -> 0..(MaxAge + 1)]
  /\ fate \in [Events -> Final \cup {"none", "queued", "sending"}]
  /\ sender \in {"idle", "ready", "waiting"}
  /\ cur \in Events \cup {NoEvent}
  /\ sender # "idle" <=> cur \in Events
  /\ \A e \in Events : fate[e] = "sending" <=> cur = e
  /\ attempt \in Attempt /\ wait \in Nat

ServerTypes ==
  /\ req \in [Requests -> Stage]
  /\ stored \subseteq Requests /\ told \subseteq Requests

LEMMA AttemptFacts ==
  /\ Len(Delay) \in Nat /\ 1 \in Attempt
  /\ \A i \in Attempt : i # Attempts => i + 1 \in Attempt /\ Delay[i] \in Nat
<1>1. Len(Delay) \in Nat /\ DOMAIN Delay = 1..Len(Delay)
      /\ \A i \in DOMAIN Delay : Delay[i] \in Nat
  BY TimeAssumption DEF TimeAssumption
<1>. QED
  BY <1>1 DEF Attempt, Attempts

LEMMA EndsTypes ==
  ASSUME AgentTypes, cur \in Events, NEW o \in Final, Ends(o)
  PROVE  /\ AgentTypes'
         /\ \A e \in Events : e # cur => fate'[e] = fate[e]
         /\ fate'[cur] = o
<1>1. NoEvent \notin Events /\ 1 \in Attempt
  BY EventAssumption, AttemptFacts DEF EventAssumption
<1>2. /\ fate' \in [Events -> Final \cup {"none", "queued", "sending"}]
      /\ fate'[cur] = o /\ o # "sending"
      /\ \A e \in Events : e # cur => fate'[e] = fate[e]
  BY DEF Ends, AgentTypes, Final
<1>3. age' \in [Events -> 0..(MaxAge + 1)]
  <2>1. 0 \in 0..(MaxAge + 1)
    BY TimeAssumption DEF TimeAssumption
  <2>. QED
    BY <2>1 DEF Ends, AgentTypes
<1>. QED
  BY <1>1, <1>2, <1>3 DEF Ends, AgentTypes

LEMMA RetryTypes ==
  ASSUME AgentTypes, cur \in Events, Retry
  PROVE  /\ AgentTypes'
         /\ \A e \in Events : fate'[e] = "delivered" => fate[e] = "delivered"
<1>1. CASE Ends("exhausted")
  BY <1>1, EndsTypes DEF Final
<1>2. CASE ~Ends("exhausted")
  <2>1. /\ sender' = "ready" /\ attempt' = attempt + 1 /\ wait' = Delay[attempt]
        /\ UNCHANGED <<q, age, fate, cur>> /\ attempt # Attempts
    BY <1>2 DEF Retry, LastAttempt
  <2>2. attempt' \in Attempt /\ wait' \in Nat
    BY <2>1, AttemptFacts DEF AgentTypes
  <2>. QED
    BY <2>1, <2>2 DEF AgentTypes
<1>. QED
  BY <1>1, <1>2

(* The steps of the sender thread, and what they can make "delivered".     *)
LEMMA SenderTypes ==
  ASSUME AgentTypes, ServerTypes, SenderStep
  PROVE  /\ AgentTypes' /\ ServerTypes'
         /\ UNCHANGED <<stored, told>>
         /\ \A e \in Events : fate'[e] = "delivered" /\ fate[e] # "delivered" =>
              e = cur /\ attempt \in Attempt /\ req[<<cur, attempt>>] = "ok"
         /\ \A r \in Requests : req'[r] # req[r] =>
              \/ req'[r] = "gone"
              \/ req'[r] = "sent" /\ fate[r[1]] = "sending"
<1>1. CASE Take
  <2>1. Head(q) \in Events /\ Tail(q) \in Seq(Events) /\ 1 \in Attempt
    BY <1>1, AttemptFacts DEF Take, AgentTypes
  <2>2. cur \notin Events
    BY <1>1 DEF Take, AgentTypes
  <2>. QED
    BY <1>1, <2>1, <2>2 DEF Take, AgentTypes, ServerTypes, serverVars
<1>2. CASE Expire
  <2>1. cur \in Events
    BY <1>2 DEF Expire, Ready, AgentTypes
  <2>2. AgentTypes' /\ \A e \in Events : fate'[e] = "delivered" => fate[e] = "delivered"
    BY <1>2, <2>1, EndsTypes DEF Expire, Final
  <2>. QED
    BY <1>2, <2>2 DEF Expire, ServerTypes, serverVars
<1>3. CASE Post
  <2>1. cur \in Events /\ fate[cur] = "sending" /\ <<cur, attempt>> \in Requests
    BY <1>3 DEF Post, Ready, AgentTypes, Requests
  <2>2. req' \in [Requests -> Stage]
    BY <1>3 DEF Post, ServerTypes, Stage, Handling
  <2>3. AgentTypes'
    BY <1>3, <2>1, TimeAssumption DEF Post, AgentTypes, TimeAssumption
  <2>. QED
    BY <1>3, <2>1, <2>2, <2>3 DEF Post, ServerTypes
<1>4. CASE ConnectionError \/ NoAnswer
  <2>1. cur \in Events /\ Retry /\ UNCHANGED serverVars
    BY <1>4 DEF ConnectionError, NoAnswer, Ready, AgentTypes
  <2>. QED
    BY <2>1, RetryTypes DEF ServerTypes, serverVars
<1>5. CASE Answer
  <2>. DEFINE r == <<cur, attempt>>
  <2>1. /\ r \in Requests /\ cur \in Events /\ attempt \in Attempt
        /\ req' = [req EXCEPT ![r] = "gone"] /\ UNCHANGED <<stored, told>>
    BY <1>5 DEF Answer, AgentTypes, Requests
  <2>2. ServerTypes' /\ \A s \in Requests : req'[s] # req[s] => req'[s] = "gone"
    BY <2>1 DEF ServerTypes, Stage
  <2>3. CASE Retry
    BY <2>1, <2>2, <2>3, RetryTypes
  <2>4. CASE ~Retry
    <3>1. Ends(Reaction(req[r])) /\ req[r] \in Answers /\ Reaction(req[r]) # "retry"
      BY <1>5, <2>4 DEF Answer
    <3>2. \/ req[r] = "ok" /\ Reaction(req[r]) = "delivered"
          \/ req[r] = "rejected" /\ Reaction(req[r]) = "rejected"
      BY <3>1 DEF Reaction, Answers
    <3>3. Reaction(req[r]) \in Final
      BY <3>2 DEF Final
    <3>4. /\ AgentTypes' /\ fate'[cur] = Reaction(req[r])
          /\ \A e \in Events : e # cur => fate'[e] = fate[e]
      BY <2>1, <3>1, <3>3, EndsTypes
    <3>. QED
      BY <2>1, <2>2, <3>2, <3>4
  <2>. QED
    BY <2>3, <2>4
<1>. QED
  BY <1>1, <1>2, <1>3, <1>4, <1>5 DEF SenderStep

(* The steps of the handlers and of the network.                           *)
LEMMA ServerStepTypes ==
  ASSUME ServerTypes, NEW r \in Requests, HandlerStep(r) \/ Lose(r)
  PROVE  /\ ServerTypes' /\ UNCHANGED <<alive, agentVars, trouble>>
         /\ \A s \in Requests : s # r => req'[s] = req[s]
         /\ req'[r] # "sent"
<1>1. CASE HandlerStep(r)
  <2>1. /\ UNCHANGED <<alive, agentVars, trouble>>
        /\ \A s \in Requests : s # r => req'[s] = req[s]
        /\ req'[r] # "sent"
    BY <1>1 DEF HandlerStep, Authenticate, InsertEvent, FindParent, Notify,
                RequestMoves, OnInsertFailure, ServerTypes
  <2>2. req' \in [Requests -> Stage]
    BY <1>1 DEF HandlerStep, Authenticate, InsertEvent, FindParent, Notify,
                RequestMoves, OnInsertFailure, ServerTypes, Stage, Handling, Answers
  <2>3. stored' \subseteq Requests /\ told' \subseteq Requests
    BY <1>1 DEF HandlerStep, Authenticate, InsertEvent, FindParent, Notify, ServerTypes
  <2>. QED
    BY <2>1, <2>2, <2>3 DEF ServerTypes
<1>2. CASE Lose(r)
  BY <1>2 DEF Lose, ServerTypes, Stage
<1>. QED
  BY <1>1, <1>2

LEMMA TypeParts == TypeOK <=> AgentTypes /\ ServerTypes /\ alive \in BOOLEAN
                              /\ trouble \in Trouble
BY DEF TypeOK, AgentTypes, ServerTypes

LEMMA TypeStep == TypeOK /\ [Next]_vars => TypeOK'
<1>. SUFFICES ASSUME AgentTypes, ServerTypes, alive \in BOOLEAN, trouble \in Trouble,
                    [Next]_vars
             PROVE  AgentTypes' /\ ServerTypes' /\ alive' \in BOOLEAN
                    /\ trouble' \in Trouble
  BY DEF TypeOK, AgentTypes, ServerTypes
<1>1. CASE Tick
  <2>1. age' \in [Events -> 0..(MaxAge + 1)] /\ wait' \in Nat
    BY <1>1, TimeAssumption DEF Tick, AgentTypes, TimeAssumption
  <2>. QED
    BY <1>1, <2>1 DEF Tick, AgentTypes, ServerTypes, serverVars
<1>2. ASSUME NEW t \in Trouble, TroubleChanges(t)
      PROVE  AgentTypes' /\ ServerTypes' /\ alive' \in BOOLEAN /\ trouble' \in Trouble
  BY <1>2 DEF TroubleChanges, AgentTypes, ServerTypes, agentVars, serverVars
<1>3. CASE AgentExits
  BY <1>3 DEF AgentExits, AgentTypes, ServerTypes, agentVars, serverVars
<1>4. CASE ServerRestarts
  <2>1. req' \in [Requests -> Stage]
    BY <1>4 DEF ServerRestarts, ServerTypes, Stage
  <2>. QED
    BY <1>4, <2>1 DEF ServerRestarts, AgentTypes, ServerTypes, agentVars
<1>5. ASSUME NEW e \in Events, Enqueue(e)
      PROVE  AgentTypes' /\ ServerTypes' /\ alive' \in BOOLEAN /\ trouble' \in Trouble
  <2>1. q' \in Seq(Events)
    BY <1>5, AppendProperties DEF Enqueue, AgentTypes
  <2>2. fate' \in [Events -> Final \cup {"none", "queued", "sending"}]
    BY <1>5 DEF Enqueue, AgentTypes
  <2>3. \A d \in Events : fate'[d] = "sending" <=> cur = d
    BY <1>5 DEF Enqueue, AgentTypes
  <2>. QED
    BY <1>5, <2>1, <2>2, <2>3 DEF Enqueue, AgentTypes, ServerTypes, serverVars
<1>6. CASE SenderStep
  <2>1. UNCHANGED <<alive, trouble>>
    BY <1>6 DEF SenderStep, Take, Expire, Post, ConnectionError, NoAnswer, Answer
  <2>. QED
    BY <1>6, <2>1, SenderTypes
<1>7. ASSUME NEW r \in Requests, Lose(r) \/ HandlerStep(r)
      PROVE  AgentTypes' /\ ServerTypes' /\ alive' \in BOOLEAN /\ trouble' \in Trouble
  BY <1>7, ServerStepTypes DEF AgentTypes, agentVars
<1>8. CASE UNCHANGED vars
  BY <1>8 DEF vars, AgentTypes, ServerTypes, agentVars, serverVars
<1>. QED
  BY <1>1, <1>2, <1>3, <1>4, <1>5, <1>6, <1>7, <1>8 DEF Next

LEMMA TypeInit == Init => TypeOK
<1>. SUFFICES ASSUME Init
             PROVE  AgentTypes /\ ServerTypes /\ alive \in BOOLEAN /\ trouble \in Trouble
  BY TypeParts
<1>1. MaxAge \in Nat /\ NoEvent \notin Events /\ 1 \in Attempt
  BY TimeAssumption, EventAssumption, AttemptFacts DEF TimeAssumption, EventAssumption
<1>2. AgentTypes
  BY <1>1 DEF Init, AgentTypes
<1>3. ServerTypes
  BY DEF Init, ServerTypes, Stage
<1>. QED
  BY <1>2, <1>3 DEF Init, Trouble

(* The sender thread sends one event at a time, never more often than      *)
(* Attempts, and all variables stay in their ranges.                       *)
THEOREM TypeCorrect == Spec => []TypeOK
BY TypeInit, TypeStep, PTL DEF Spec

-----------------------------------------------------------------------------
(* What the stages of a request say about the store.                       *)
HandlersKeepOrder ==
  /\ \A r \in Requests : req[r] \in {"lookup", "notify"} => r \in stored
  /\ \A r \in Requests : req[r] = "ok" /\ r[1] \in Alerts => r \in stored
  /\ told \subseteq stored
  /\ DeliveredMeansStored

LEMMA OrderStep ==
  TypeOK /\ HandlersKeepOrder /\ [Next]_vars => HandlersKeepOrder'
<1>. SUFFICES ASSUME AgentTypes, ServerTypes, HandlersKeepOrder, [Next]_vars
             PROVE  HandlersKeepOrder'
  BY TypeParts
<1>1. ASSUME UNCHANGED serverVars,
             \A e \in Events : fate'[e] = "delivered" => fate[e] = "delivered"
      PROVE  HandlersKeepOrder'
  BY <1>1, EventAssumption
  DEF EventAssumption, HandlersKeepOrder, DeliveredMeansStored, serverVars
<1>2. CASE Tick \/ AgentExits \/ UNCHANGED vars
  BY <1>1, <1>2 DEF Tick, AgentExits, vars, agentVars
<1>3. ASSUME NEW t \in Trouble, TroubleChanges(t)
      PROVE  HandlersKeepOrder'
  BY <1>1, <1>3 DEF TroubleChanges, agentVars
<1>4. CASE ServerRestarts
  BY <1>4 DEF ServerRestarts, HandlersKeepOrder, DeliveredMeansStored, agentVars,
              ServerTypes
<1>5. ASSUME NEW e \in Events, Enqueue(e)
      PROVE  HandlersKeepOrder'
  BY <1>1, <1>5 DEF Enqueue, AgentTypes
<1>6. CASE SenderStep
  <2>1. \A r \in Requests : req'[r] # req[r] => req'[r] \in {"gone", "sent"}
    BY <1>6, SenderTypes
  <2>2. UNCHANGED <<stored, told>>
    BY <1>6, SenderTypes
  <2>3. ASSUME NEW e \in Alerts, fate'[e] = "delivered"
        PROVE  \E i \in Attempt : <<e, i>> \in stored
    <3>1. e \in Events
      BY EventAssumption DEF EventAssumption
    <3>2. CASE fate[e] = "delivered"
      BY <3>2 DEF HandlersKeepOrder, DeliveredMeansStored
    <3>3. CASE fate[e] # "delivered"
      <4>1. e = cur /\ attempt \in Attempt /\ req[<<cur, attempt>>] = "ok"
        BY <1>6, <2>3, <3>1, <3>3, SenderTypes
      <4>2. <<e, attempt>> \in Requests /\ <<e, attempt>>[1] \in Alerts
        BY <3>1, <4>1 DEF Requests
      <4>3. <<e, attempt>> \in stored
        BY <4>1, <4>2 DEF HandlersKeepOrder
      <4>. QED
        BY <4>1, <4>3
    <3>. QED
      BY <3>2, <3>3
  <2>. QED
    BY <2>1, <2>2, <2>3 DEF HandlersKeepOrder, DeliveredMeansStored
<1>7. ASSUME NEW r \in Requests, Lose(r)
      PROVE  HandlersKeepOrder'
  BY <1>7 DEF Lose, HandlersKeepOrder, DeliveredMeansStored, agentVars, ServerTypes
<1>8. ASSUME NEW r \in Requests, HandlerStep(r)
      PROVE  HandlersKeepOrder'
  <2>1. /\ UNCHANGED fate /\ \A s \in Requests : s # r => req'[s] = req[s]
    BY <1>8, ServerStepTypes DEF agentVars
  <2>2. stored \subseteq stored'
    BY <1>8 DEF HandlerStep, Authenticate, InsertEvent, FindParent, Notify
  <2>3. told' \subseteq stored'
    BY <1>8 DEF HandlerStep, Authenticate, InsertEvent, FindParent, Notify,
                RequestMoves, HandlersKeepOrder
  <2>4. /\ req'[r] \in {"lookup", "notify"} => r \in stored'
        /\ req'[r] = "ok" /\ r[1] \in Alerts => r \in stored'
    BY <1>8 DEF HandlerStep, Authenticate, InsertEvent, FindParent, Notify,
                DatabaseFails, TokenAccepted,
                RequestMoves, OnInsertFailure, HandlersKeepOrder, ServerTypes
  <2>. QED
    BY <2>1, <2>2, <2>3, <2>4 DEF HandlersKeepOrder, DeliveredMeansStored
<1>. QED
  BY <1>2, <1>3, <1>4, <1>5, <1>6, <1>7, <1>8 DEF Next

LEMMA OrderAlways == Spec => [](TypeOK /\ HandlersKeepOrder)
<1>1. Init => HandlersKeepOrder
  BY EventAssumption DEF EventAssumption, Init, HandlersKeepOrder, DeliveredMeansStored
<1>. QED
  BY <1>1, TypeInit, TypeStep, OrderStep, PTL DEF Spec

(* An alert the agent counts as delivered is in the event store (_send_hop *)
(* and agent_hop, with any losses, time-outs and restarts between them).   *)
THEOREM DeliveredIsStored == Spec => []DeliveredMeansStored
<1>1. HandlersKeepOrder => DeliveredMeansStored
  BY DEF HandlersKeepOrder
<1>. QED
  BY <1>1, OrderAlways, PTL

(* The parent is told of stored events only.                               *)
THEOREM NothingUnstoredIsTold == Spec => []ToldIsStored
<1>1. HandlersKeepOrder => ToldIsStored
  BY DEF HandlersKeepOrder, ToldIsStored
<1>. QED
  BY <1>1, OrderAlways, PTL

(* After a success has reached the agent, no further POST of the event.    *)
THEOREM SuccessIsFinal == Spec => NothingAfterSuccess
<1>1. ASSUME TypeOK, [Next]_vars, NEW r \in Requests,
             fate[r[1]] = "delivered", req'[r] = "sent"
      PROVE  req[r] = "sent"
  <2>. USE <1>1, TypeParts
  <2>1. CASE SenderStep
    BY <2>1, SenderTypes
  <2>2. ASSUME NEW s \in Requests, Lose(s) \/ HandlerStep(s)
        PROVE  req[r] = "sent"
    BY <2>2, ServerStepTypes
  <2>3. CASE ServerRestarts
    BY <2>3 DEF ServerRestarts, ServerTypes
  <2>4. CASE UNCHANGED req
    BY <2>4
  <2>. QED
    BY <2>1, <2>2, <2>3, <2>4
    DEF Next, Tick, TroubleChanges, AgentExits, Enqueue, vars, serverVars
<1>2. TypeOK /\ [Next]_vars =>
        [\A r \in Requests : fate[r[1]] = "delivered" /\ req'[r] = "sent"
                             => req[r] = "sent"]_vars
  BY <1>1
<1>. QED
  BY <1>2, TypeCorrect, PTL DEF Spec, NothingAfterSuccess

-----------------------------------------------------------------------------
(* What the queue, the fates and the stages of the requests have to do     *)
(* with each other: an event waits in the queue once; an attempt that is   *)
(* still to come has left no trace on the server.                          *)
QueueFits ==
  /\ \A i, j \in 1..Len(q) : q[i] = q[j] => i = j
  /\ \A i \in 1..Len(q) : fate[q[i]] = "queued"

NotPosted(e, i) ==
  \/ fate[e] \in {"none", "queued"}
  \/ e = cur /\ i > attempt
  \/ e = cur /\ i = attempt /\ sender = "ready"

FreshAttempts ==
  \A e \in Events, i \in Attempt : NotPosted(e, i) => req[<<e, i>>] = "none"

StagesFit ==
  \A r \in Requests :
    /\ req[r] \in {"none", "sent", "insert"} => r \notin stored
    /\ req[r] = "insert" => r[1] \in Alerts
    /\ req[r] # "none" => fate[r[1]] # "none"
    /\ req[r] \in {"lookup", "notify"} => r \notin told

DeliveryInv ==
  TypeOK /\ HandlersKeepOrder /\ QueueFits /\ FreshAttempts /\ StagesFit

LEMMA DeliveryInit == Init => QueueFits /\ FreshAttempts /\ StagesFit
<1>. SUFFICES ASSUME Init PROVE QueueFits /\ FreshAttempts /\ StagesFit
  OBVIOUS
<1>1. QueueFits
  BY DEF Init, QueueFits
<1>2. FreshAttempts
  BY DEF Init, FreshAttempts, Requests
<1>3. StagesFit
  BY DEF Init, StagesFit
<1>. QED
  BY <1>1, <1>2, <1>3

(* Tail and Append, in terms of what QueueFits says.                       *)
LEMMA QueueStep ==
  ASSUME AgentTypes, QueueFits, [Next]_vars
  PROVE  QueueFits'
<1>. DEFINE n == Len(q)
<1>1. n \in Nat /\ \A i \in 1..n : q[i] \in Events
  BY DEF AgentTypes
<1>2. ASSUME UNCHANGED q,
             \A e \in Events : fate[e] = "queued" => fate'[e] = "queued"
      PROVE  QueueFits'
  BY <1>1, <1>2 DEF QueueFits
<1>3. CASE UNCHANGED <<q, fate>>
  BY <1>2, <1>3
<1>4. ASSUME NEW e \in Events, Enqueue(e)
      PROVE  QueueFits'
  <2>1. /\ Len(q') = n + 1 /\ q'[n + 1] = e
        /\ \A i \in 1..n : q'[i] = q[i]
    BY <1>4, <1>1, AppendProperties DEF Enqueue, AgentTypes
  <2>2. fate[e] = "none" /\ fate'[e] = "queued"
        /\ \A d \in Events : d # e => fate'[d] = fate[d]
    BY <1>4 DEF Enqueue, AgentTypes
  <2>3. \A i \in 1..n : q[i] # e /\ fate'[q[i]] = "queued"
    BY <1>1, <2>2 DEF QueueFits
  <2>4. \A i \in 1..Len(q') : i = n + 1 \/ i \in 1..n
    BY <1>1, <2>1
  <2>. QED
    BY <2>1, <2>2, <2>3, <2>4, <1>1 DEF QueueFits
<1>5. CASE Take
  <2>1. /\ q' = Tail(q) /\ q # <<>> /\ n > 0
        /\ fate' = [fate EXCEPT ![q[1]] = "sending"]
    BY <1>5, <1>1 DEF Take, AgentTypes
  <2>2. /\ Len(q') = n - 1 /\ \A i \in 1..(n - 1) : q'[i] = q[i + 1]
    BY <2>1, <1>1 DEF AgentTypes
  <2>3. \A i \in 1..(n - 1) : i + 1 \in 1..n /\ i + 1 # 1 /\ 1 \in 1..n
    BY <1>1, <2>1
  <2>4. \A i \in 1..(n - 1) : fate'[q'[i]] = "queued"
    BY <2>1, <2>2, <2>3, <1>1 DEF QueueFits, AgentTypes
  <2>5. \A i, j \in 1..(n - 1) : q'[i] = q'[j] => i = j
    BY <2>2, <2>3, <1>1 DEF QueueFits
  <2>. QED
    BY <2>2, <2>4, <2>5 DEF QueueFits
<1>6. CASE SenderStep /\ ~Take
  <2>1. cur \in Events /\ fate[cur] = "sending" /\ UNCHANGED q
    BY <1>6 DEF SenderStep, Expire, Post, ConnectionError, NoAnswer, Answer,
                Ready, Retry, Ends, AgentTypes
  <2>2. \A e \in Events : e # cur => fate'[e] = fate[e]
    BY <1>6, <2>1 DEF SenderStep, Expire, Post, ConnectionError, NoAnswer, Answer,
                Retry, Ends, AgentTypes
  <2>. QED
    BY <1>2, <2>1, <2>2
<1>7. ASSUME NEW r \in Requests, Lose(r) \/ HandlerStep(r)
      PROVE  UNCHANGED <<q, fate>>
  BY <1>7 DEF Lose, HandlerStep, Authenticate, InsertEvent, FindParent, Notify,
              RequestMoves, agentVars
<1>8. CASE Tick \/ AgentExits \/ ServerRestarts \/ UNCHANGED vars
           \/ \E t \in Trouble : TroubleChanges(t)
  BY <1>3, <1>8 DEF Tick, AgentExits, ServerRestarts, TroubleChanges, vars, agentVars
<1>. QED
  BY <1>3, <1>4, <1>5, <1>6, <1>7, <1>8 DEF Next

(* What a step of the sender thread does to an attempt that is still to    *)
(* come, and that only a fresh attempt is POSTed.                          *)
LEMMA SenderIsFresh ==
  ASSUME AgentTypes, ServerTypes, QueueFits, FreshAttempts, SenderStep
  PROVE  /\ FreshAttempts'
         /\ \A r \in Requests : req'[r] # req[r] =>
              \/ req'[r] = "gone" /\ req[r] \in Answers
              \/ req'[r] = "sent" /\ req[r] = "none" /\ fate[r[1]] = "sending"
         /\ \A e \in Events : fate[e] # "none" <=> fate'[e] # "none"
<1>g. NoEvent \notin Events /\ Attempt \subseteq Nat
  BY EventAssumption, AttemptFacts DEF EventAssumption, Attempt, Attempts
<1>f. ASSUME UNCHANGED req,
             \A e \in Events, i \in Attempt : NotPosted(e, i)' => NotPosted(e, i)
      PROVE  FreshAttempts'
  BY <1>f DEF FreshAttempts
<1>1. CASE Take
  <2>1. Head(q) \in Events /\ fate[Head(q)] = "queued" /\ cur \notin Events
    BY <1>1 DEF Take, QueueFits, AgentTypes
  <2>2. /\ fate' = [fate EXCEPT ![Head(q)] = "sending"]
        /\ cur' = Head(q) /\ UNCHANGED req
    BY <1>1 DEF Take, serverVars
  <2>3. \A e \in Events, i \in Attempt : NotPosted(e, i)' => NotPosted(e, i)
    BY <2>1, <2>2 DEF NotPosted, AgentTypes
  <2>. QED
    BY <1>f, <2>1, <2>2, <2>3 DEF AgentTypes
<1>2. CASE Post
  <2>1. /\ cur \in Events /\ fate[cur] = "sending" /\ attempt \in Attempt
        /\ sender = "ready" /\ sender' = "waiting"
        /\ req' = [req EXCEPT ![<<cur, attempt>>] = "sent"]
        /\ UNCHANGED <<cur, attempt, fate>>
    BY <1>2 DEF Post, Ready, AgentTypes
  <2>2. req[<<cur, attempt>>] = "none"
    BY <2>1 DEF FreshAttempts, NotPosted
  <2>3. ASSUME NEW e \in Events, NEW i \in Attempt, NotPosted(e, i)'
        PROVE  NotPosted(e, i) /\ <<e, i>> # <<cur, attempt>>
    BY <1>g, <2>1, <2>3 DEF NotPosted
  <2>4. \A r \in Requests : req'[r] # req[r] => r = <<cur, attempt>> /\ req'[r] = "sent"
    BY <2>1 DEF ServerTypes
  <2>5. FreshAttempts'
    BY <2>3, <2>4 DEF FreshAttempts, Requests
  <2>. QED
    BY <2>1, <2>2, <2>4, <2>5
<1>3. ASSUME NEW o \in Final, Ends(o), cur \in Events
      PROVE  /\ \A e \in Events, i \in Attempt : NotPosted(e, i)' => NotPosted(e, i) /\ e # cur
             /\ \A e \in Events : fate[e] # "none" <=> fate'[e] # "none"
  <2>1. /\ cur' \notin Events /\ fate[cur] = "sending"
        /\ \A e \in Events : e # cur => fate'[e] = fate[e]
        /\ fate'[cur] = o
    BY <1>3, <1>g, EndsTypes DEF Ends, AgentTypes
  <2>2. o \notin {"none", "queued"}
    BY DEF Final
  <2>. QED
    BY <2>1, <2>2 DEF NotPosted
<1>4. ASSUME Retry, cur \in Events
      PROVE  /\ \A e \in Events, i \in Attempt :
                  NotPosted(e, i)' => NotPosted(e, i) /\ <<e, i>> # <<cur, attempt>>
             /\ \A e \in Events : fate[e] # "none" <=> fate'[e] # "none"
  <2>1. CASE Ends("exhausted")
    BY <1>3, <1>4, <2>1 DEF Final
  <2>2. CASE ~Ends("exhausted")
    <3>1. attempt' = attempt + 1 /\ UNCHANGED <<fate, cur>> /\ attempt \in Nat
      BY <1>4, <1>g, <2>2 DEF Retry, AgentTypes
    <3>2. fate[cur] = "sending"
      BY <1>4 DEF AgentTypes
    <3>. QED
      BY <1>g, <3>1, <3>2 DEF NotPosted
  <2>. QED
    BY <2>1, <2>2
<1>5. CASE Expire \/ ConnectionError \/ NoAnswer
  <2>1. cur \in Events /\ UNCHANGED req /\ (Ends("expired") \/ Retry)
    BY <1>5 DEF Expire, ConnectionError, NoAnswer, Ready, AgentTypes, serverVars
  <2>2. "expired" \in Final
    BY DEF Final
  <2>. QED
    BY <1>3, <1>4, <1>f, <2>1, <2>2
<1>6. CASE Answer
  <2>1. /\ cur \in Events /\ attempt \in Attempt
        /\ req[<<cur, attempt>>] \in Answers
        /\ req' = [req EXCEPT ![<<cur, attempt>>] = "gone"]
        /\ Retry \/ \E o \in Final : Ends(o)
    BY <1>6 DEF Answer, AgentTypes, Reaction, Answers, Final
  <2>2. /\ \A e \in Events, i \in Attempt :
              NotPosted(e, i)' => NotPosted(e, i) /\ <<e, i>> # <<cur, attempt>>
        /\ \A e \in Events : fate[e] # "none" <=> fate'[e] # "none"
    BY <2>1, <1>3, <1>4
  <2>3. \A r \in Requests : r # <<cur, attempt>> => req'[r] = req[r]
    BY <2>1 DEF ServerTypes
  <2>4. FreshAttempts'
    BY <2>2, <2>3 DEF FreshAttempts, Requests
  <2>. QED
    BY <2>1, <2>2, <2>3, <2>4 DEF ServerTypes
<1>. QED
  BY <1>1, <1>2, <1>5, <1>6 DEF SenderStep

LEMMA StagesStep ==
  ASSUME DeliveryInv, [Next]_vars
  PROVE  FreshAttempts' /\ StagesFit'
<1>g. AgentTypes /\ ServerTypes /\ QueueFits /\ FreshAttempts /\ StagesFit
      /\ \A r \in Requests : r[1] \in Events
  BY TypeParts DEF DeliveryInv, Requests
<1>1. ASSUME UNCHANGED <<req, stored, told, cur, attempt, sender>>,
             \A e \in Events : fate'[e] = fate[e] \/ (fate[e] = "none" /\ fate'[e] = "queued")
      PROVE  FreshAttempts' /\ StagesFit'
  BY <1>1, <1>g DEF FreshAttempts, NotPosted, StagesFit
<1>2. CASE \/ Tick \/ AgentExits \/ UNCHANGED vars
           \/ \E t \in Trouble : TroubleChanges(t)
  BY <1>1, <1>2 DEF Tick, AgentExits, TroubleChanges, vars, agentVars, serverVars
<1>3. ASSUME NEW e \in Events, Enqueue(e)
      PROVE  FreshAttempts' /\ StagesFit'
  <2>1. \A d \in Events :
          fate'[d] = fate[d] \/ (fate[d] = "none" /\ fate'[d] = "queued")
    BY <1>3, <1>g DEF Enqueue, AgentTypes
  <2>. QED
    BY <1>1, <1>3, <2>1 DEF Enqueue, serverVars
<1>4. CASE SenderStep
  <2>1. UNCHANGED <<stored, told>>
    BY <1>4, <1>g, SenderTypes
  <2>2. /\ \A r \in Requests : req'[r] # req[r] =>
              \/ req'[r] = "gone" /\ req[r] \in Answers
              \/ req'[r] = "sent" /\ req[r] = "none" /\ fate[r[1]] = "sending"
        /\ \A e \in Events : fate[e] # "none" <=> fate'[e] # "none"
        /\ FreshAttempts'
    BY <1>4, <1>g, SenderIsFresh
  <2>. QED
    BY <1>g, <2>1, <2>2 DEF StagesFit, Answers
<1>5. CASE ServerRestarts
  <2>1. /\ UNCHANGED <<stored, told, fate, cur, attempt, sender>>
        /\ \A r \in Requests : req'[r] # req[r] => req'[r] = "gone" /\ req[r] # "none"
    BY <1>5, <1>g DEF ServerRestarts, Handling, agentVars, ServerTypes
  <2>2. FreshAttempts'
    BY <1>g, <2>1 DEF FreshAttempts, NotPosted, Requests
  <2>3. StagesFit'
    BY <1>g, <2>1 DEF StagesFit
  <2>. QED
    BY <2>2, <2>3
<1>6. ASSUME NEW r \in Requests, Lose(r) \/ HandlerStep(r)
      PROVE  FreshAttempts' /\ StagesFit'
  <2>1. /\ UNCHANGED <<fate, cur, attempt, sender>>
        /\ \A s \in Requests : s # r => req'[s] = req[s]
    BY <1>6, <1>g, ServerStepTypes DEF agentVars
  <2>2. req[r] # "none"
    BY <1>6 DEF Lose, HandlerStep, Authenticate, InsertEvent, FindParent, Notify,
                RequestMoves, Answers
  <2>3. \A s \in Requests : s # r => (s \in stored' <=> s \in stored)
                                     /\ (s \in told' <=> s \in told)
    BY <1>6 DEF Lose, HandlerStep, Authenticate, InsertEvent, FindParent, Notify
  <2>4. /\ req'[r] \in {"none", "sent", "insert"} => r \notin stored'
        /\ req'[r] = "insert" => r[1] \in Alerts
        /\ req'[r] \in {"lookup", "notify"} => r \notin told'
    <3>1. CASE Lose(r)
      BY <3>1, <1>g DEF Lose, StagesFit, ServerTypes
    <3>2. CASE Authenticate(r)
      BY <3>2, <1>g DEF Authenticate, RequestMoves, TokenAccepted, DatabaseFails,
                        StagesFit, ServerTypes
    <3>3. CASE InsertEvent(r)
      <4>1. r \notin told
        BY <3>3, <1>g DEF InsertEvent, RequestMoves, StagesFit, DeliveryInv, HandlersKeepOrder
      <4>. QED
        BY <3>3, <4>1, <1>g DEF InsertEvent, RequestMoves, OnInsertFailure, ServerTypes
    <3>4. CASE FindParent(r)
      BY <3>4, <1>g DEF FindParent, RequestMoves, StagesFit, ServerTypes
    <3>5. CASE Notify(r)
      BY <3>5, <1>g DEF Notify, RequestMoves, ServerTypes
    <3>. QED
      BY <1>6, <3>1, <3>2, <3>3, <3>4, <3>5 DEF HandlerStep
  <2>5. FreshAttempts'
    BY <1>g, <2>1, <2>2 DEF FreshAttempts, NotPosted, Requests
  <2>6. StagesFit'
    BY <1>g, <2>1, <2>2, <2>3, <2>4 DEF StagesFit
  <2>. QED
    BY <2>5, <2>6
<1>. QED
  BY <1>2, <1>3, <1>4, <1>5, <1>6 DEF Next

LEMMA DeliveryAlways == Spec => []DeliveryInv
<1>1. Init => DeliveryInv
  BY EventAssumption, TypeInit, DeliveryInit
  DEF EventAssumption, DeliveryInv, Init, HandlersKeepOrder, DeliveredMeansStored
<1>2. DeliveryInv /\ [Next]_vars => DeliveryInv'
  BY TypeStep, OrderStep, QueueStep, StagesStep, TypeParts DEF DeliveryInv
<1>. QED
  BY <1>1, <1>2, PTL DEF Spec

-----------------------------------------------------------------------------
(* Each step as a step of the promise, or as one it does not see.          *)
LEMMA OutcomeAt ==
  ASSUME AgentTypes, NEW e \in Events
  PROVE  /\ fate[e] = "none" <=> Outcome[e] = "none"
         /\ fate[e] \in {"queued", "sending"} <=> Outcome[e] = "pending"
         /\ fate[e] \in {"expired", "exhausted"} <=> Outcome[e] = "lost"
         /\ fate[e] = "delivered" <=> Outcome[e] = "delivered"
         /\ fate[e] = "rejected" <=> Outcome[e] = "rejected"
BY DEF Outcome, AgentTypes, Final

LEMMA SameOutcome ==
  ASSUME \A e \in Events : \/ fate'[e] = fate[e]
                           \/ fate[e] = "queued" /\ fate'[e] = "sending"
  PROVE  Outcome' = Outcome
<1>1. \A e \in Events : Outcome'[e] = Outcome[e]
  BY DEF Outcome
<1>. QED
  BY <1>1 DEF Outcome

LEMMA OneOutcome ==
  ASSUME NEW e \in Events, NEW o, Outcome'[e] = o,
         \A d \in Events : d # e => fate'[d] = fate[d]
  PROVE  Outcome' = [Outcome EXCEPT ![e] = o]
<1>1. \A d \in Events : Outcome'[d] = [Outcome EXCEPT ![e] = o][d]
  BY DEF Outcome
<1>2. DOMAIN Outcome = Events /\ DOMAIN Outcome' = Events
      /\ Outcome = [d \in Events |-> Outcome[d]]
      /\ Outcome' = [d \in Events |-> Outcome'[d]]
  BY DEF Outcome
<1>. QED
  BY <1>1, <1>2

LEMMA EndDecides ==
  ASSUME AgentTypes, cur \in Events, NEW o \in Final, Ends(o), UNCHANGED <<stored, told>>,
         o = "delivered" /\ cur \in Alerts => \E c \in stored : c[1] = cur
  PROVE  Promise!Next
<1>1. /\ AgentTypes' /\ fate'[cur] = o /\ fate[cur] = "sending"
      /\ \A e \in Events : e # cur => fate'[e] = fate[e]
  BY EndsTypes DEF AgentTypes
<1>. DEFINE out == IF o \in {"expired", "exhausted"} THEN "lost" ELSE o
<1>2. Outcome'[cur] = out /\ out \in {"delivered", "rejected", "lost"}
  BY <1>1 DEF Outcome, Final
<1>3. Outcome[cur] = "pending"
  BY <1>1, OutcomeAt
<1>4. Outcome' = [Outcome EXCEPT ![cur] = out]
  BY <1>1, <1>2, OneOutcome
<1>5. Promise!Decide(cur, out)
  BY <1>3, <1>4 DEF Promise!Decide
<1>. QED
  BY <1>2, <1>5 DEF Promise!Next

LEMMA RetryDecides ==
  ASSUME AgentTypes, cur \in Events, Retry, UNCHANGED <<stored, told>>
  PROVE  Promise!Next \/ UNCHANGED Promise!vars
<1>1. CASE Ends("exhausted")
  BY <1>1, EndDecides DEF Final
<1>2. CASE ~Ends("exhausted")
  <2>1. Outcome' = Outcome
    BY <1>2, SameOutcome DEF Retry
  <2>. QED
    BY <2>1 DEF Promise!vars
<1>. QED
  BY <1>1, <1>2

LEMMA PromiseStep ==
  ASSUME DeliveryInv, [Next]_vars
  PROVE  [Promise!Next]_(Promise!vars)
<1>g. AgentTypes /\ ServerTypes /\ StagesFit /\ HandlersKeepOrder
  BY TypeParts DEF DeliveryInv
<1>1. ASSUME UNCHANGED <<fate, stored, told>>
      PROVE  UNCHANGED Promise!vars
  BY <1>1, SameOutcome DEF Promise!vars
<1>2. CASE \/ Tick \/ AgentExits \/ ServerRestarts \/ UNCHANGED vars
           \/ \E t \in Trouble : TroubleChanges(t)
           \/ \E r \in Requests : Lose(r)
  BY <1>1, <1>2 DEF Tick, AgentExits, ServerRestarts, TroubleChanges, Lose, vars,
                    agentVars, serverVars
<1>3. ASSUME NEW e \in Events, Enqueue(e)
      PROVE  Promise!Next
  <2>1. /\ fate[e] = "none" /\ fate'[e] = "queued" /\ UNCHANGED <<stored, told>>
        /\ \A d \in Events : d # e => fate'[d] = fate[d]
    BY <1>3, <1>g DEF Enqueue, AgentTypes, serverVars
  <2>2. Outcome[e] = "none" /\ Outcome'[e] = "pending"
    BY <2>1 DEF Outcome
  <2>3. Promise!Report(e)
    BY <2>1, <2>2, OneOutcome DEF Promise!Report
  <2>. QED
    BY <2>3 DEF Promise!Next
<1>4. CASE Take
  <2>1. /\ Head(q) \in Events /\ fate[Head(q)] = "queued"
        /\ fate' = [fate EXCEPT ![Head(q)] = "sending"]
        /\ UNCHANGED <<stored, told>>
    BY <1>4, <1>g DEF Take, DeliveryInv, QueueFits, AgentTypes, serverVars
  <2>2. \A e \in Events : \/ fate'[e] = fate[e]
                          \/ fate[e] = "queued" /\ fate'[e] = "sending"
    BY <2>1, <1>g DEF AgentTypes
  <2>3. Outcome' = Outcome
    BY <2>2, SameOutcome
  <2>. QED
    BY <2>1, <2>3 DEF Promise!vars
<1>5. CASE Expire \/ Post \/ ConnectionError \/ NoAnswer
  <2>1. UNCHANGED <<stored, told>>
    BY <1>5 DEF Expire, Post, ConnectionError, NoAnswer, serverVars
  <2>2. CASE Post
    BY <1>1, <2>2 DEF Post
  <2>3. CASE ~Post
    <3>1. cur \in Events /\ (Ends("expired") \/ Retry)
      BY <1>5, <1>g, <2>3 DEF Expire, ConnectionError, NoAnswer, Ready, AgentTypes
    <3>2. "expired" \in Final
      BY DEF Final
    <3>. QED
      BY <1>g, <2>1, <3>1, <3>2, EndDecides, RetryDecides
  <2>. QED
    BY <2>2, <2>3
<1>6. CASE Answer
  <2>. DEFINE r == <<cur, attempt>>
  <2>1. /\ r \in Requests /\ cur \in Events /\ req[r] \in Answers
        /\ UNCHANGED <<stored, told>>
        /\ Retry \/ (Reaction(req[r]) # "retry" /\ Ends(Reaction(req[r])))
    BY <1>6, <1>g DEF Answer, AgentTypes, Requests
  <2>2. CASE Retry
    BY <1>g, <2>1, <2>2, RetryDecides
  <2>3. CASE ~Retry
    <3>1. \/ req[r] = "ok" /\ Reaction(req[r]) = "delivered"
          \/ req[r] = "rejected" /\ Reaction(req[r]) = "rejected"
      BY <2>1, <2>3 DEF Reaction, Answers
    <3>2. req[r] = "ok" /\ cur \in Alerts => r \in stored
      BY <1>g, <2>1 DEF HandlersKeepOrder
    <3>3. Reaction(req[r]) \in Final
      BY <3>1 DEF Final
    <3>4. Reaction(req[r]) = "delivered" /\ cur \in Alerts =>
            \E c \in stored : c[1] = cur
      BY <3>1, <3>2
    <3>. QED
      BY <1>g, <2>1, <2>3, <3>3, <3>4, EndDecides
  <2>. QED
    BY <2>2, <2>3
<1>7. ASSUME NEW r \in Requests, HandlerStep(r)
      PROVE  [Promise!Next]_(Promise!vars)
  <2>1. Outcome' = Outcome
    BY <1>7, SameOutcome DEF HandlerStep, Authenticate, InsertEvent, FindParent,
                             Notify, RequestMoves, agentVars
  <2>2. CASE UNCHANGED <<stored, told>>
    BY <2>1, <2>2 DEF Promise!vars
  <2>3. CASE stored' # stored
    <3>1. /\ req[r] = "insert" /\ stored' = stored \cup {r} /\ UNCHANGED told
      BY <1>7, <2>3 DEF HandlerStep, Authenticate, InsertEvent, FindParent, Notify,
                        RequestMoves
    <3>2. r \notin stored /\ r[1] \in Alerts /\ fate[r[1]] # "none" /\ r[1] \in Events
      BY <1>g, <3>1 DEF StagesFit, Requests
    <3>3. Promise!Store(r)
      BY <1>g, <2>1, <3>1, <3>2, OutcomeAt DEF Promise!Store
    <3>. QED
      BY <3>3 DEF Promise!Next
  <2>4. CASE told' # told
    <3>1. req[r] = "notify" /\ told' = told \cup {r} /\ UNCHANGED stored
      BY <1>7, <2>4 DEF HandlerStep, Authenticate, InsertEvent, FindParent, Notify,
                        RequestMoves
    <3>2. r \in stored \ told
      BY <1>g, <3>1 DEF StagesFit, HandlersKeepOrder
    <3>3. Promise!Tell(r)
      BY <2>1, <3>1, <3>2 DEF Promise!Tell
    <3>. QED
      BY <3>3 DEF Promise!Next
  <2>. QED
    BY <2>2, <2>3, <2>4
<1>. QED
  BY <1>2, <1>3, <1>4, <1>5, <1>6, <1>7 DEF Next, SenderStep

(* However requests and answers are lost, late or cut short by a restart,  *)
(* _send_hop, agent_hop and dispatch_hop together do nothing the promise   *)
(* does not allow: one outcome for each event, one row and one message at  *)
(* most for each POST, no message without a row, no "delivered" alert      *)
(* without one, whenever the handler of an abandoned POST gets to run.     *)
THEOREM DeliveryRefinesPromise == Spec => KeepsPromise
<1>1. Init => Promise!Init
  <2>1. Init => Outcome = [e \in Events |-> "none"]
    BY DEF Init, Outcome
  <2>. QED
    BY <2>1 DEF Init, Promise!Init
<1>. QED
  BY <1>1, PromiseStep, DeliveryAlways, PTL DEF Spec, KeepsPromise, Promise!Spec
=============================================================================
