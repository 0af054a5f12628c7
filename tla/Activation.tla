----------------------------- MODULE Activation -----------------------------
(***************************************************************************)
(* How an agent gets its identity.  The dashboard registers a child and    *)
(* downloads an installer with a one-time setup code; the installer writes *)
(* the code into agent_config.json; the agent exchanges it for a token     *)
(* (_activate), keeps the token in the credential store and asks the       *)
(* server which child it is (_register_child).                             *)
(*                                                                         *)
(* A database operation of the server is a step; so is each file or        *)
(* credential the agent writes.  A handler goes on when the agent that     *)
(* waits for it has died, but is over before that agent is started again   *)
(* (Task Scheduler waits a minute).  Faults, bounded by MaxFaults: a       *)
(* crash, a lost answer, a server that is unreachable, a write that fails. *)
(***************************************************************************)
EXTENDS Integers, FiniteSets

CONSTANTS
  Children,    \* child ids the dashboard may register, each once (uuid4)
  PCs,         \* machines the installers are run on
  None,
  MaxChildren, \* the plan's limit (plans.MAX_CHILDREN)
  NumCodes,    \* bound: installers downloaded
  NumTokens,   \* bound: activations
  MaxFaults    \* bound: faults

Codes  == 1..NumCodes
Tokens == 1..NumTokens

ASSUME ActivationAssumption ==
  /\ None \notin Children /\ None \notin Nat /\ IsFiniteSet(Children)
  /\ MaxChildren \in Nat /\ NumCodes \in Nat /\ NumTokens \in Nat
  /\ MaxFaults \in Nat

VARIABLES
  child,      \* "new", "counted", "registered" or "deleted"
  overlapped, \* two registrations were between count and insert at once
  codeFor,    \* the child an issued code was made for
  codeOf,     \* setupCodeHash of a child's document, until it expires
  burnt,      \* codes exchanged so far
  tokenOf,    \* agentTokenHash, once it is one an agent asked for
  owner,      \* the child a token was issued for
  request,    \* a PC's POST /agent/activate, as far as the server got
  config,     \* setup_code in a PC's agent_config.json
  keyring,    \* the PC's agent_token in the credential store
  cached,     \* the PC's .child_id file
  agent,      \* the PC's agent process; its code until that is sent
              \* or not needed
  exchanged,  \* ghost: PCs whose agent was there when its code was burnt
  faults

serverVars == <<child, overlapped, codeFor, codeOf, burnt, tokenOf,
                owner>>
pcVars == <<config, keyring, cached>>
vars == <<serverVars, request, pcVars, agent, exchanged, faults>>

Registered == {c \in Children : child[c] = "registered"}
NextFree(made) == {i \in DOMAIN made : /\ made[i] = None
                                       /\ \A j \in 1..(i-1) : made[j] # None}

Request(stage, k, c, t) == [stage |-> stage, code |-> k, child |-> c, token |-> t]
NoRequest == Request("none", None, None, None)
Process(pc, k, t, c) == [pc |-> pc, code |-> k, token |-> t, child |-> c]
Off == Process("off", None, None, None)

Init ==
  /\ child = [c \in Children |-> "new"] /\ overlapped = FALSE
  /\ codeFor = [k \in Codes |-> None] /\ owner = [t \in Tokens |-> None]
  /\ codeOf = [c \in Children |-> None] /\ tokenOf = [c \in Children |-> None]
  /\ burnt = {}
  /\ request = [p \in PCs |-> NoRequest]
  /\ config = [p \in PCs |-> None] /\ keyring = [p \in PCs |-> None]
  /\ cached = [p \in PCs |-> None]
  /\ agent = [p \in PCs |-> Off]
  /\ exchanged = {} /\ faults = 0

-----------------------------------------------------------------------------
(* The dashboard.  The limit is checked against a count that is read       *)
(* before the child is inserted.                                           *)
BelowLimit_OffByOne == Cardinality(Registered) <= MaxChildren \* faulty
BelowLimit == Cardinality(Registered) < MaxChildren

CountChildren(c) ==
  /\ child[c] = "new" /\ BelowLimit
  /\ child' = [child EXCEPT ![c] = "counted"]
  /\ overlapped' = (overlapped \/ \E d \in Children : child[d] = "counted")
  /\ UNCHANGED <<codeFor, codeOf, burnt, tokenOf, owner, request,
                 pcVars, agent, exchanged, faults>>

InsertChild(c) ==
  /\ child[c] = "counted"
  /\ child' = [child EXCEPT ![c] = "registered"]
  /\ UNCHANGED <<overlapped, codeFor, codeOf, burnt, tokenOf, owner,
                 request, pcVars, agent, exchanged, faults>>

DeleteChild(c) ==
  /\ child[c] = "registered"
  /\ child' = [child EXCEPT ![c] = "deleted"]
  /\ codeOf' = [codeOf EXCEPT ![c] = None]
  /\ tokenOf' = [tokenOf EXCEPT ![c] = None]
  /\ UNCHANGED <<overlapped, codeFor, burnt, owner, request, pcVars,
                 agent, exchanged, faults>>

(* A fresh code replaces the one on the child's document.                  *)
DownloadInstaller(c) ==
  /\ child[c] = "registered"
  /\ \E k \in NextFree(codeFor) :
       /\ codeFor' = [codeFor EXCEPT ![k] = c]
       /\ codeOf' = [codeOf EXCEPT ![c] = k]
  /\ UNCHANGED <<child, overlapped, burnt, tokenOf, owner, request,
                 pcVars, agent, exchanged, faults>>

CodeExpires(c) ==
  /\ codeOf[c] # None
  /\ codeOf' = [codeOf EXCEPT ![c] = None]
  /\ UNCHANGED <<child, overlapped, codeFor, burnt, tokenOf, owner,
                 request, pcVars, agent, exchanged, faults>>

DashboardStep(c) ==
  \/ CountChildren(c) \/ InsertChild(c) \/ DeleteChild(c)
  \/ DownloadInstaller(c) \/ CodeExpires(c)

-----------------------------------------------------------------------------
(* POST /agent/activate: find the child by the code's hash, then update    *)
(* the child found, whatever its document holds by now.                    *)
Acceptable(k) == {c \in Children : k # None /\ codeOf[c] = k}

LookUpCode(p) ==
  /\ request[p].stage = "sent"
  /\ LET k == request[p].code IN
       \/ /\ Acceptable(k) = {}
          /\ request' = [request EXCEPT ![p] = Request("answered", k, None, None)]
       \/ \E c \in Acceptable(k) :
            request' = [request EXCEPT ![p] = Request("found", k, c, None)]
  /\ UNCHANGED <<serverVars, pcVars, agent, exchanged, faults>>

CodeAfterUse_Kept(c) == codeOf[c] \* faulty: only the token is set
CodeAfterUse(c) == None

ConsumeCode(p) ==
  LET c == request[p].child IN
  /\ request[p].stage = "found"
  /\ \E t \in NextFree(owner) :
       /\ owner' = [owner EXCEPT ![t] = c]
       /\ request' = [request EXCEPT ![p] =
                        Request("answered", request[p].code, c, t)]
       /\ IF child[c] = "registered"
          THEN /\ tokenOf' = [tokenOf EXCEPT ![c] = t]
               /\ codeOf' = [codeOf EXCEPT ![c] = CodeAfterUse(c)]
          ELSE UNCHANGED <<tokenOf, codeOf>>
  /\ burnt' = burnt \cup {request[p].code}
  /\ exchanged' = IF agent[p].pc = "activate" THEN exchanged \cup {p}
                  ELSE exchanged
  /\ UNCHANGED <<child, overlapped, codeFor, pcVars, agent, faults>>

-----------------------------------------------------------------------------
Fault == faults < MaxFaults /\ faults' = faults + 1

(* The PC.  The installer overwrites the configuration and leaves the      *)
(* credential alone.                                                       *)
Install(p, k) ==
  /\ codeFor[k] # None /\ config[p] # k
  /\ config' = [config EXCEPT ![p] = k]
  /\ UNCHANGED <<serverVars, request, keyring, cached, agent, exchanged,
                 faults>>

(* The uninstaller ends the agent, removes its files, then its credential; *)
(* it may stop before it has removed all files, and ignores an error of    *)
(* cmdkey.                                                                 *)
Uninstall(p) ==
  /\ <<config[p], cached[p], keyring[p]>> # <<None, None, None>>
  /\ agent' = [agent EXCEPT ![p] = Off]
  /\ \/ /\ config' = [config EXCEPT ![p] = None]
        /\ cached' = [cached EXCEPT ![p] = None]
        /\ keyring' = [keyring EXCEPT ![p] = None]
        /\ UNCHANGED faults
     \/ /\ config' \in {config, [config EXCEPT ![p] = None]}
        /\ cached' \in {cached, [cached EXCEPT ![p] = None]}
        /\ UNCHANGED keyring
        /\ Fault
  /\ exchanged' = exchanged \ {p}
  /\ UNCHANGED <<serverVars, request>>

Ended(p) == agent[p].pc \in {"off", "rejected"}

(* Task Scheduler starts the agent; it reads its settings once.            *)
FirstCall_AlwaysActivate(p) == \* faulty: a token does not stop _activate
  IF config[p] # None THEN "activate" ELSE "register"
FirstCall(p) == IF config[p] # None /\ keyring[p] = None THEN "activate"
                ELSE "register"

StartAgent(p) ==
  /\ Ended(p) /\ request[p].stage \in {"none", "answered"}
  /\ config[p] # None \/ keyring[p] # None
  /\ agent' = [agent EXCEPT ![p] =
                 Process(FirstCall(p), config[p], keyring[p], None)]
  /\ request' = [request EXCEPT ![p] = NoRequest]
  /\ UNCHANGED <<serverVars, pcVars, exchanged, faults>>

(* The process ends; the answer is lost or takes more than ten seconds; a  *)
(* write fails (sys.exit(1)); the PC is restarted.                         *)
AgentDies(p) ==
  /\ ~Ended(p) /\ Fault
  /\ agent' = [agent EXCEPT ![p] = Off]
  /\ exchanged' = IF agent[p].pc \in {"activate", "store"} THEN exchanged \ {p}
                  ELSE exchanged
  /\ UNCHANGED <<serverVars, request, pcVars>>

PostActivate(p) ==
  /\ agent[p].pc = "activate" /\ agent[p].code # None
  /\ request' = [request EXCEPT ![p] = Request("sent", agent[p].code, None, None)]
  /\ agent' = [agent EXCEPT ![p] = Process("activate", None, agent[p].token, None)]
  /\ UNCHANGED <<serverVars, pcVars, exchanged, faults>>

(* _activate after the answer: store the token, clear the code, go on.     *)
NextStep_Swapped == \* faulty: the code is cleared before the token is safe
  [activate |-> "clear", clear |-> "store", store |-> "register"]
NextStep == [activate |-> "store", store |-> "clear", clear |-> "register"]

ReceiveAnswer(p) ==
  /\ agent[p].pc = "activate" /\ request[p].stage = "answered"
  /\ agent' = [agent EXCEPT ![p] =
       IF request[p].token = None THEN Off
       ELSE Process(NextStep["activate"], agent[p].code, request[p].token, None)]
  /\ request' = [request EXCEPT ![p] = NoRequest]
  /\ UNCHANGED <<serverVars, pcVars, exchanged, faults>>

StoreToken(p) ==
  /\ agent[p].pc = "store"
  /\ keyring' = [keyring EXCEPT ![p] = agent[p].token]
  /\ agent' = [agent EXCEPT ![p] =
                 Process(NextStep["store"], agent[p].code, agent[p].token, None)]
  /\ UNCHANGED <<serverVars, request, config, cached, exchanged, faults>>

(* Reads the file again and clears whatever setup code it holds by now.    *)
ClearSetupCode(p) ==
  /\ agent[p].pc = "clear"
  /\ config' = [config EXCEPT ![p] = None]
  /\ agent' = [agent EXCEPT ![p] =
                 Process(NextStep["clear"], agent[p].code, agent[p].token, None)]
  /\ UNCHANGED <<serverVars, request, keyring, cached, exchanged, faults>>

(* GET /agent/me.  The file is written if that succeeds.                   *)
Confirmed(p) ==
  {c \in Children : tokenOf[c] = agent[p].token /\ agent[p].token # None}

RegisterChild(p) ==
  /\ agent[p].pc = "register"
  /\ \E c \in Confirmed(p) :
       /\ cached' \in {[cached EXCEPT ![p] = c], cached}
       /\ agent' = [agent EXCEPT ![p] =
                      Process("running", None, agent[p].token, c)]
  /\ UNCHANGED <<serverVars, request, config, keyring, exchanged, faults>>

RegisterRejected(p) ==
  /\ agent[p].pc = "register" /\ Confirmed(p) = {}
  /\ agent' = [agent EXCEPT ![p] =
                 Process("rejected", agent[p].code, None, None)]
  /\ UNCHANGED <<serverVars, request, pcVars, exchanged, faults>>

(* No answer, or an error of the server: the cached id, if there is one.   *)
HasCachedId_Unchecked(p) == TRUE \* faulty: an empty file will do
HasCachedId(p) == cached[p] # None

RegisterOffline(p) ==
  /\ agent[p].pc = "register" /\ HasCachedId(p) /\ Fault
  /\ agent' = [agent EXCEPT ![p] =
                 Process("running", None, agent[p].token, cached[p])]
  /\ UNCHANGED <<serverVars, request, pcVars, exchanged>>

ServerStep(p) == LookUpCode(p) \/ ConsumeCode(p)
AgentStep(p) ==
  \/ PostActivate(p) \/ ReceiveAnswer(p) \/ StoreToken(p) \/ ClearSetupCode(p)
  \/ RegisterChild(p) \/ RegisterRejected(p)

Next ==
  \/ \E c \in Children : DashboardStep(c)
  \/ \E p \in PCs : \/ ServerStep(p) \/ AgentStep(p)
                    \/ StartAgent(p) \/ Uninstall(p)
                    \/ AgentDies(p) \/ RegisterOffline(p)
                    \/ \E k \in Codes : Install(p, k)

Spec == Init /\ [][Next]_vars

-----------------------------------------------------------------------------
(* Types; an agent that runs has a token and a child (_register_child).    *)
TypeOK ==
  /\ child \in [Children -> {"new", "counted", "registered", "deleted"}]
  /\ overlapped \in BOOLEAN
  /\ codeFor \in [Codes -> Children \cup {None}]
  /\ owner \in [Tokens -> Children \cup {None}]
  /\ codeOf \in [Children -> Codes \cup {None}]
  /\ tokenOf \in [Children -> Tokens \cup {None}]
  /\ burnt \subseteq Codes
  /\ request \in [PCs -> [stage : {"none", "sent", "found", "answered"},
                         code : Codes \cup {None},
                         child : Children \cup {None},
                         token : Tokens \cup {None}]]
  /\ config \in [PCs -> Codes \cup {None}]
  /\ keyring \in [PCs -> Tokens \cup {None}]
  /\ cached \in [PCs -> Children \cup {None}]
  /\ \A p \in PCs :
       /\ agent[p] \in [pc : {"off", "activate", "store", "clear", "register",
                             "running", "rejected"},
                       code : Codes \cup {None}, token : Tokens \cup {None},
                       child : Children \cup {None}]
       /\ agent[p].pc = "running" =>
            agent[p].token \in Tokens /\ agent[p].child \in Children
  /\ DOMAIN agent = PCs
  /\ exchanged \subseteq PCs /\ faults \in 0..MaxFaults

(* A running agent acts for the child its token was issued for: whatever   *)
(* was installed, removed half-way or re-installed on the PC before, the   *)
(* cached id of an earlier child never takes the place of an answer of the *)
(* server (_register_child, the uninstaller).                              *)
RunsAsItself ==
  \A p \in PCs : agent[p].pc = "running" =>
                 agent[p].child = owner[agent[p].token]

(* A code is not accepted again once it was exchanged, even if a second    *)
(* activation, a new download or the deletion of the child interleaves     *)
(* with the exchange.  Two activations that both looked it up before are   *)
(* both served; see the README (agent_activate).                           *)
NoSecondLookUp ==
  [][\A p \in PCs : request[p].stage = "sent" /\ request'[p].stage = "found"
                    => request[p].code \notin burnt]_vars

(* An agent that received its token and did not die before it had stored   *)
(* it can be started again: no later crash leaves it with neither token    *)
(* nor code (_activate stores before it clears).                           *)
StrandedOnlyBeforeStore ==
  \A p \in exchanged : Ended(p) => keyring[p] # None

(* More children than the plan allows exist only after two registrations   *)
(* that overlapped (add_child).                                            *)
PlanLimitKept == ~overlapped => Cardinality(Registered) <= MaxChildren

(* The agent says, when its token is rejected: "Re-register the child from *)
(* the parent dashboard."  An agent started after that was done, and the   *)
(* new installer was run, is not rejected while the server would accept    *)
(* the code it was started with.                                           *)
(* Violated: _activate does not use the code while a token is stored.      *)
FreshCodeIsUsed ==
  \A p \in PCs : agent[p].pc = "rejected" => Acceptable(agent[p].code) = {}
=============================================================================
