-------------------------- MODULE ClassifyPromise --------------------------
(***************************************************************************)
(* What an agent is promised when it asks the server to classify a link:   *)
(* its question ends, with a verdict or without one, and a verdict YES is  *)
(* never about an innocent link.  Nothing is promised about a lure: when   *)
(* the model is out of reach the verdict is NO (agent.py: "no false        *)
(* positives").  A context with a blocked word is always YES.              *)
(***************************************************************************)
CONSTANTS Requests

VARIABLES phase, content, verdict
vars == <<phase, content, verdict>>

Contents == {"lure", "innocent", "word"}

Init ==
  /\ phase = [r \in Requests |-> "idle"]
  /\ content \in [Requests -> Contents]
  /\ verdict = [r \in Requests |-> "none"]

Ask(r, k) ==
  /\ phase[r] # "asked"
  /\ \/ /\ phase' = [phase EXCEPT ![r] = "asked"]
        /\ verdict' = [verdict EXCEPT ![r] = "none"]
     \/ /\ phase' = [phase EXCEPT ![r] = "told"] \* a blocked word: at once
        /\ verdict' = [verdict EXCEPT ![r] = "YES"]
        /\ k = "word"
  /\ content' = [content EXCEPT ![r] = k]

Allowed(k) == [lure |-> {"YES", "NO"}, innocent |-> {"NO"}, word |-> {"YES"}][k]

Tell(r) ==
  /\ phase[r] = "asked"
  /\ \E v \in Allowed(content[r]) : verdict' = [verdict EXCEPT ![r] = v]
  /\ phase' = [phase EXCEPT ![r] = "told"]
  /\ UNCHANGED content

GiveUp(r) ==
  /\ phase[r] = "asked"
  /\ phase' = [phase EXCEPT ![r] = "lost"]
  /\ UNCHANGED <<content, verdict>>

Next == \E r \in Requests : Tell(r) \/ GiveUp(r) \/ \E k \in Contents : Ask(r, k)

Spec == Init /\ [][Next]_vars /\ \A r \in Requests : WF_vars(Tell(r) \/ GiveUp(r))
=============================================================================
