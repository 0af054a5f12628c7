----------------------------- MODULE HopDelivery -----------------------------
(***************************************************************************)
(* From the agent's send queue to the parent: the sender thread            *)
(* (agent/agent.py, _send_hop and _sender_loop), the network, the endpoint *)
(* agent_hop (server/classify/router.py), the event store and the Telegram *)
(* notification (server/notifications/service.py).                         *)
(*                                                                         *)
(* The i-th POST of event e is the request <<e, i>>.  Its handler runs on  *)
(* the server whether or not the agent still waits for the answer.         *)
(*                                                                         *)
(* Time is counted in ticks.  The troubles of the environment come one at  *)
(* a time, in any order and for any time.                                  *)
(***************************************************************************)
EXTENDS Integers, Sequences, FiniteSets

CONSTANTS
  Events,    \* hop events that the agent may report
  Alerts,    \* those agent_hop stores: confirmed hops, not "switch_only"
  Delay,     \* Delay[i]: pause after the i-th attempt (_HOP_RETRY_DELAYS_S)
  MaxAge,    \* _HOP_MAX_AGE_S
  Timeout,   \* _HTTP_TIMEOUT_S
  NoEvent

Attempts == Len(Delay) + 1
Attempt == 1..Attempts
Requests == Events \X Attempt

ASSUME EventAssumption == Alerts \subseteq Events /\ NoEvent \notin Events
ASSUME TimeAssumption ==
  Delay \in Seq(Nat) /\ MaxAge \in Nat /\ Timeout \in Nat \ {0}

VARIABLES
  alive,   \* the agent process runs
  q,       \* _send_queue
  age,     \* time since _enqueue_hop, up to MaxAge + 1; 0 when decided
  fate,    \* what the agent knows of each event
  sender,  \* the sender thread: "idle", "ready" to POST, "waiting"
  cur,     \* the event in _send_hop
  attempt, \* which attempt it is
  wait,    \* ticks left of the pause or of the request's time-out
  req,     \* stage of each request
  stored,  \* requests that have inserted a document into the event store
  told,    \* requests that have sent a Telegram message
  trouble  \* what the environment is up to

agentVars  == <<q, age, fate, sender, cur, attempt, wait>>
serverVars == <<req, stored, told>>
vars == <<alive, agentVars, serverVars, trouble>>

Handling == {"sent", "insert", "lookup", "notify"}
Answers  == {"ok", "failed", "rejected"}
Stage    == Handling \cup Answers \cup {"none", "gone"}
Final    == {"delivered", "rejected", "expired", "exhausted"}
Trouble  == {"none", "outage", "database", "token", "telegram"}

Init ==
  /\ alive = TRUE /\ trouble = "none"
  /\ q = <<>> /\ sender = "idle" /\ cur = NoEvent /\ attempt = 1 /\ wait = 0
  /\ age = [e \in Events |-> 0]
  /\ fate = [e \in Events |-> "none"]
  /\ req = [r \in Requests |-> "none"]
  /\ stored = {} /\ told = {}

-----------------------------------------------------------------------------
(* Environment.                                                            *)

TroubleChanges(t) ==
  /\ t # trouble /\ trouble' = t
  /\ UNCHANGED <<alive, agentVars, serverVars>>

(* What the agent's time-out does not strike: a backend without troubles,  *)
(* and, while Telegram hangs, all that happens outside Notify.  Notify     *)
(* itself is awaited before the answer and may last 10 s (telegram.py:32), *)
(* longer than the agent waits.                                            *)
Prompt(r) ==
  /\ req[r] \in Handling \cup Answers
  /\ \/ trouble = "none"
     \/ trouble = "telegram" /\ req[r] # "notify"

Pending(e) == fate[e] \in {"queued", "sending"}
Tick ==
  /\ sender = "waiting" => ~Prompt(<<cur, attempt>>)
  /\ age' = [e \in Events |-> IF Pending(e) /\ age[e] <= MaxAge
                              THEN age[e] + 1 ELSE age[e]]
  /\ wait' = IF wait > 0 THEN wait - 1 ELSE 0
  /\ UNCHANGED <<alive, q, fate, sender, cur, attempt, serverVars, trouble>>

(* The sender is a daemon thread: it dies with the process.                *)
AgentExits ==
  /\ alive /\ alive' = FALSE
  /\ UNCHANGED <<agentVars, serverVars, trouble>>

(* A request or an answer is lost without a sign.                          *)
Lose(r) ==
  /\ trouble = "outage" /\ req[r] \in Answers \cup {"sent"}
  /\ req' = [req EXCEPT ![r] = "gone"]
  /\ UNCHANGED <<alive, agentVars, stored, told, trouble>>

(* The server restarts: its handlers stop where they are.                  *)
ServerRestarts ==
  /\ trouble = "outage"
  /\ \E r \in Requests : req[r] \in Handling \ {"sent"}
  /\ req' = [r \in Requests |->
               IF req[r] \in Handling \ {"sent"} THEN "gone" ELSE req[r]]
  /\ UNCHANGED <<alive, agentVars, stored, told, trouble>>

-----------------------------------------------------------------------------
(* The sender thread.                                                      *)

Enqueue(e) ==
  /\ alive /\ fate[e] = "none"
  /\ q' = Append(q, e)
  /\ fate' = [fate EXCEPT ![e] = "queued"]
  /\ UNCHANGED <<alive, age, sender, cur, attempt, wait, serverVars, trouble>>

Take ==
  /\ alive /\ sender = "idle" /\ q # <<>>
  /\ q' = Tail(q)
  /\ cur' = Head(q) /\ attempt' = 1 /\ wait' = 0
  /\ sender' = "ready"
  /\ fate' = [fate EXCEPT ![Head(q)] = "sending"]
  /\ UNCHANGED <<alive, age, serverVars, trouble>>

Ends_NoReturn(outcome) == \* faulty: logged, but the retry loop goes on
  /\ fate' = [fate EXCEPT ![cur] = outcome]
  /\ sender' = "ready"
  /\ UNCHANGED <<q, age, cur, attempt, wait>>
Ends(outcome) ==
  /\ fate' = [fate EXCEPT ![cur] = outcome]
  /\ age' = [age EXCEPT ![cur] = 0]
  /\ sender' = "idle" /\ cur' = NoEvent /\ attempt' = 1 /\ wait' = 0
  /\ UNCHANGED q

Ready == alive /\ sender = "ready" /\ wait = 0

Expire ==
  /\ Ready /\ age[cur] > MaxAge
  /\ Ends("expired")
  /\ UNCHANGED <<alive, serverVars, trouble>>

Post ==
  /\ Ready /\ age[cur] <= MaxAge
  /\ req' = [req EXCEPT ![<<cur, attempt>>] = "sent"]
  /\ sender' = "waiting" /\ wait' = Timeout
  /\ UNCHANGED <<alive, q, age, fate, cur, attempt, stored, told, trouble>>

(* The attempt failed in a way that is worth a retry.                      *)
LastAttempt_OffByOne(i) == i + 1 >= Attempts \* faulty
LastAttempt(i) == i = Attempts

Retry ==
  \/ /\ LastAttempt(attempt)
     /\ Ends("exhausted")
  \/ /\ ~LastAttempt(attempt)
     /\ sender' = "ready" /\ attempt' = attempt + 1
     /\ wait' = Delay[attempt]
     /\ UNCHANGED <<q, age, fate, cur>>

(* The connection is refused, nothing was sent.                            *)
ConnectionError ==
  /\ Ready /\ age[cur] <= MaxAge /\ trouble = "outage"
  /\ Retry
  /\ UNCHANGED <<alive, serverVars, trouble>>

(* No answer within _HTTP_TIMEOUT_S.                                       *)
TimesOut_Never == FALSE \* faulty: a POST without a time-out
TimesOut == wait = 0

NoAnswer ==
  /\ alive /\ sender = "waiting" /\ TimesOut
  /\ Retry
  /\ UNCHANGED <<alive, serverVars, trouble>>

(* 2xx is delivered, 4xx is dropped, 5xx is retried.                       *)
Reaction_NoStatusCheck(answer) == "delivered" \* faulty: no raise_for_status()
Reaction(answer) == CASE answer = "ok"       -> "delivered"
                      [] answer = "rejected" -> "rejected"
                      [] OTHER               -> "retry"

Answer ==
  LET r == <<cur, attempt>> IN
  /\ alive /\ sender = "waiting" /\ req[r] \in Answers
  /\ req' = [req EXCEPT ![r] = "gone"]
  /\ IF Reaction(req[r]) = "retry" THEN Retry ELSE Ends(Reaction(req[r]))
  /\ UNCHANGED <<alive, stored, told, trouble>>

-----------------------------------------------------------------------------
(* The handler of a request: get_agent_child, agent_hop, dispatch_hop.     *)
(* Each database operation of it can fail on its own.                      *)

RequestMoves(r, from, to) ==
  /\ req[r] = from
  /\ req' = [req EXCEPT ![r] = to]
  /\ UNCHANGED <<alive, agentVars, trouble>>

DatabaseFails == trouble = "database"
TokenAccepted == trouble \notin {"database", "token"}

Authenticate(r) ==
  /\ RequestMoves(r, "sent",
       CASE DatabaseFails                    -> "failed"
         [] trouble = "token"                -> "rejected"
         [] TokenAccepted /\ r[1] \in Alerts -> "insert"
         [] OTHER                            -> "ok")
  /\ UNCHANGED <<stored, told>>

(* insert_event; a failure propagates out of the handler.                  *)
OnInsertFailure_Swallow == "lookup" \* faulty: logged and ignored
OnInsertFailure == "failed"

InsertEvent(r) ==
  /\ RequestMoves(r, "insert",
                  IF DatabaseFails THEN OnInsertFailure ELSE "lookup")
  /\ stored' = IF DatabaseFails THEN stored ELSE stored \cup {r}
  /\ UNCHANGED told

(* get_user_by_id, before the try block of dispatch_hop.                   *)
FindParent(r) ==
  /\ RequestMoves(r, "lookup", IF DatabaseFails THEN "failed" ELSE "notify")
  /\ UNCHANGED <<stored, told>>

(* The message goes out, or it does not: no chat, Telegram is not enabled, *)
(* or it fails and the failure is logged, possibly after a time-out.       *)
Notify(r) ==
  /\ RequestMoves(r, "notify", "ok")
  /\ told' \in {told, told \cup {r}}
  /\ UNCHANGED stored

HandlerStep(r) ==
  Authenticate(r) \/ InsertEvent(r) \/ FindParent(r) \/ Notify(r)

-----------------------------------------------------------------------------
SenderStep ==
  Take \/ Expire \/ Post \/ ConnectionError \/ NoAnswer \/ Answer

Next ==
  \/ Tick
  \/ \E t \in Trouble : TroubleChanges(t)
  \/ AgentExits
  \/ ServerRestarts
  \/ \E e \in Events : Enqueue(e)
  \/ SenderStep
  \/ \E r \in Requests : Lose(r) \/ HandlerStep(r)

Spec == Init /\ [][Next]_vars

(* Time passes, the sender thread runs, and a handler ends: every          *)
(* operation it makes has a time-out.                                      *)
Fairness ==
  /\ WF_vars(Tick) /\ WF_vars(SenderStep)
  /\ \A r \in Requests : WF_vars(HandlerStep(r))

FairSpec == Spec /\ Fairness

-----------------------------------------------------------------------------
(* Every variable stays in its range; the sender sends the event whose     *)
(* fate is "sending" and no other.                                         *)
TypeOK ==
  /\ alive \in BOOLEAN /\ trouble \in Trouble
  /\ q \in Seq(Events)
  /\ age \in [Events -> 0..(MaxAge + 1)]
  /\ fate \in [Events -> Final \cup {"none", "queued", "sending"}]
  /\ sender \in {"idle", "ready", "waiting"}
  /\ cur \in Events \cup {NoEvent}
  /\ sender # "idle" <=> cur \in Events
  /\ \A e \in Events : fate[e] = "sending" <=> cur = e
  /\ attempt \in Attempt /\ wait \in Nat
  /\ req \in [Requests -> Stage]
  /\ stored \subseteq Requests /\ told \subseteq Requests

(* An alert that the agent counts as delivered is in the event store,      *)
(* whatever was lost, timed out or restarted on the way (_send_hop returns *)
(* on a 2xx answer and forgets the event).                                 *)
DeliveredMeansStored ==
  \A e \in Alerts : fate[e] = "delivered" => \E i \in Attempt : <<e, i>> \in stored

(* The parent gets no Telegram message about a hop that the dashboard does *)
(* not show (agent_hop inserts before it notifies).                        *)
ToldIsStored == told \subseteq stored

(* Agent, network and server together keep the promise: one outcome for    *)
(* each event, one row and one message at most for each POST, no message   *)
(* without a row, and no "delivered" alert without one.                    *)
Outcome == [e \in Events |->
  CASE fate[e] \in {"queued", "sending"}    -> "pending"
    [] fate[e] \in {"expired", "exhausted"} -> "lost"
    [] OTHER                                -> fate[e]]
Promise == INSTANCE DeliveryPromise WITH Copies <- Requests, outcome <- Outcome
KeepsPromise == Promise!Spec

(* Once a success has reached the agent, the event is never POSTed again:  *)
(* a second copy in the store goes back to an answer that was lost, late   *)
(* or an error.                                                            *)
NothingAfterSuccess ==
  [][\A r \in Requests : fate[r[1]] = "delivered" /\ req'[r] = "sent"
                           => req[r] = "sent"]_vars

(* The sender gets every event off its hands: a dead backend cannot stop   *)
(* the queue.                                                              *)
EveryEventDecided ==
  \A e \in Events : fate[e] = "queued" ~> (fate[e] \in Final \/ ~alive)

HasAttemptLeft(e) ==
  fate[e] = "queued" \/ (fate[e] = "sending" /\ attempt < Attempts)
Healthy == alive /\ trouble = "none"
HealthyBarTelegram == alive /\ trouble \in {"none", "telegram"}

(* Once the backend and Telegram have no more troubles, an event that has  *)
(* an attempt left gets through, unless it is too old by then.             *)
DeliveredOnceHealthy ==
  \A e \in Events :
    (HasAttemptLeft(e) /\ []Healthy)
      ~> fate[e] \in {"delivered", "expired", "rejected"}

(* A Telegram that hangs does not keep an alert from the dashboard: once   *)
(* all else is well, an alert that has an attempt left gets into the event *)
(* store, or is too old, even if every answer comes too late for the agent *)
(* (agent_hop inserts before it notifies).                                 *)
StoredDespiteTelegram ==
  \A e \in Alerts :
    (HasAttemptLeft(e) /\ []HealthyBarTelegram)
      ~> \/ fate[e] \in {"expired", "rejected"}
         \/ \E i \in Attempt : <<e, i>> \in stored
=============================================================================
