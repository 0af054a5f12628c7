-------------------------- MODULE ActivationProofs --------------------------
(***************************************************************************)
(* Proofs about Activation: an agent runs as the child its token belongs   *)
(* to, a burnt code is not looked up again, an agent that has stored its   *)
(* token can be started again, and the plan's limit is kept.               *)
(***************************************************************************)
EXTENDS Activation, FiniteSetTheorems, TLAPS

(* What the server knows of codes and tokens: a token is a child's only if *)
(* it was issued for it, a code that can still be exchanged was made for   *)
(* the registered child that has it and was not exchanged before, and a    *)
(* request that found a child found the one its code was made for.         *)
ServerKeepsOrder ==
  /\ \A c \in Children : tokenOf[c] # None => owner[tokenOf[c]] = c
  /\ \A c \in Children : codeOf[c] # None =>
       /\ child[c] = "registered"
       /\ codeFor[codeOf[c]] = c
       /\ codeOf[c] \notin burnt
  /\ \A k \in burnt : codeFor[k] # None
  /\ \A p \in PCs : request[p].stage = "found" =>
       /\ request[p].child \in Children
       /\ codeFor[request[p].code] = request[p].child
  /\ \A p \in PCs : request[p].stage \in {"sent", "found"} =>
       request[p].code \in Codes

(* What a PC holds fits together: the cached id is that of the stored      *)
(* token, an agent past _activate uses the stored token, and there is none *)
(* before.                                                                 *)
PCKeepsOrder ==
  \A p \in PCs :
    /\ cached[p] # None => keyring[p] # None /\ owner[keyring[p]] = cached[p]
    /\ agent[p].pc \in {"clear", "register", "running"} =>
         agent[p].token = keyring[p]
    /\ agent[p].pc \in {"activate", "store"} => keyring[p] = None
    /\ agent[p].pc = "running" =>
         /\ agent[p].token \in Tokens /\ agent[p].child \in Children
         /\ agent[p].child = owner[agent[p].token]

(* An agent in whose presence its code was burnt has its token in the      *)
(* answer, in memory or in the credential store.                           *)
TokenOnItsWay ==
  \A p \in PCs :
    /\ agent[p].pc = "activate" /\ agent[p].code # None =>
         request[p].stage = "none"
    /\ p \in exchanged =>
         \/ /\ agent[p].pc = "activate" /\ request[p].stage = "answered"
            /\ request[p].token # None
         \/ agent[p].pc = "store" /\ agent[p].token # None
         \/ keyring[p] # None

(* The parts of TypeOK.                                                    *)
RequestType == [stage : {"none", "sent", "found", "answered"},
                code : Codes \cup {None}, child : Children \cup {None},
                token : Tokens \cup {None}]
ProcessType == [pc : {"off", "activate", "store", "clear", "register",
                      "running", "rejected"},
                code : Codes \cup {None}, token : Tokens \cup {None},
                child : Children \cup {None}]

ServerTypes ==
  /\ child \in [Children -> {"new", "counted", "registered", "deleted"}]
  /\ overlapped \in BOOLEAN
  /\ codeFor \in [Codes -> Children \cup {None}]
  /\ owner \in [Tokens -> Children \cup {None}]
  /\ codeOf \in [Children -> Codes \cup {None}]
  /\ tokenOf \in [Children -> Tokens \cup {None}]
  /\ burnt \subseteq Codes
  /\ request \in [PCs -> RequestType]

PCTypes ==
  /\ config \in [PCs -> Codes \cup {None}]
  /\ keyring \in [PCs -> Tokens \cup {None}]
  /\ cached \in [PCs -> Children \cup {None}]
  /\ agent \in [PCs -> ProcessType]
  /\ exchanged \subseteq PCs /\ faults \in 0..MaxFaults

LEMMA RequestTyped ==
  ASSUME NEW s \in {"none", "sent", "found", "answered"},
         NEW k \in Codes \cup {None}, NEW c \in Children \cup {None},
         NEW t \in Tokens \cup {None}
  PROVE  Request(s, k, c, t) \in RequestType
BY DEF Request, RequestType

LEMMA ProcessTyped ==
  ASSUME NEW s \in {"off", "activate", "store", "clear", "register", "running",
                   "rejected"},
         NEW k \in Codes \cup {None}, NEW c \in Children \cup {None},
         NEW t \in Tokens \cup {None}
  PROVE  Process(s, k, t, c) \in ProcessType
BY DEF Process, ProcessType

LEMMA FaultBound ==
  ASSUME faults \in 0..MaxFaults, Fault
  PROVE  faults' \in 0..MaxFaults
BY ActivationAssumption DEF ActivationAssumption, Fault

LEMMA ServerTypesStep ==
  ASSUME ServerTypes, PCTypes, ServerKeepsOrder, [Next]_vars
  PROVE  ServerTypes'
<1>. USE DEF ServerTypes
<1>1. ASSUME NEW c \in Children, DashboardStep(c)
      PROVE  ServerTypes'
  <2>1. CASE CountChildren(c)
    BY <2>1 DEF CountChildren
  <2>2. CASE InsertChild(c)
    BY <2>2 DEF InsertChild
  <2>3. CASE DeleteChild(c)
    BY <2>3 DEF DeleteChild
  <2>4. CASE DownloadInstaller(c)
    BY <2>4 DEF DownloadInstaller, NextFree
  <2>5. CASE CodeExpires(c)
    BY <2>5 DEF CodeExpires
  <2>. QED
    BY <1>1, <2>1, <2>2, <2>3, <2>4, <2>5 DEF DashboardStep
<1>2. ASSUME NEW p \in PCs, LookUpCode(p)
      PROVE  ServerTypes'
  <2>. DEFINE k == request[p].code
  <2>1. k \in Codes \cup {None}
    BY DEF RequestType
  <2>2. PICK c \in Children \cup {None}, s \in {"answered", "found"} :
          request' = [request EXCEPT ![p] = Request(s, k, c, None)]
    BY <1>2 DEF LookUpCode, Acceptable
  <2>3. Request(s, k, c, None) \in RequestType
    BY <2>1, <2>2, RequestTyped
  <2>. QED
    BY <1>2, <2>2, <2>3 DEF LookUpCode, serverVars
<1>3. ASSUME NEW p \in PCs, ConsumeCode(p)
      PROVE  ServerTypes'
  <2>. DEFINE k == request[p].code
             c == request[p].child
  <2>1. k \in Codes /\ c \in Children
    BY <1>3 DEF ConsumeCode, ServerKeepsOrder
  <2>2. PICK t \in NextFree(owner) :
          /\ owner' = [owner EXCEPT ![t] = c]
          /\ request' = [request EXCEPT ![p] = Request("answered", k, c, t)]
          /\ \/ /\ tokenOf' = [tokenOf EXCEPT ![c] = t]
                /\ codeOf' = [codeOf EXCEPT ![c] = None]
             \/ UNCHANGED <<tokenOf, codeOf>>
    BY <1>3 DEF ConsumeCode, CodeAfterUse
  <2>3. t \in Tokens
    BY DEF NextFree
  <2>4. Request("answered", k, c, t) \in RequestType
    BY <2>1, <2>3, RequestTyped
  <2>5. burnt' = burnt \cup {k} /\ UNCHANGED <<child, overlapped, codeFor>>
    BY <1>3 DEF ConsumeCode
  <2>. HIDE DEF k, c
  <2>. QED
    BY <2>1, <2>2, <2>3, <2>4, <2>5
<1>4. ASSUME NEW p \in PCs, StartAgent(p) \/ PostActivate(p) \/ ReceiveAnswer(p)
      PROVE  ServerTypes'
  <2>1. agent[p].code \in Codes \cup {None}
    BY DEF PCTypes, ProcessType
  <2>2. NoRequest \in RequestType
    BY RequestTyped DEF NoRequest
  <2>3. Request("sent", agent[p].code, None, None) \in RequestType
    BY <2>1, RequestTyped
  <2>. QED
    BY <1>4, <2>2, <2>3 DEF StartAgent, PostActivate, ReceiveAnswer, serverVars
<1>5. ASSUME UNCHANGED serverVars, UNCHANGED request
      PROVE  ServerTypes'
  BY <1>5 DEF serverVars
<1>6. ASSUME NEW p \in PCs,
             \/ Uninstall(p) \/ AgentDies(p) \/ RegisterOffline(p)
             \/ StoreToken(p) \/ ClearSetupCode(p) \/ RegisterChild(p)
             \/ RegisterRejected(p) \/ \E k \in Codes : Install(p, k)
      PROVE  UNCHANGED serverVars /\ UNCHANGED request
  BY <1>6 DEF Uninstall, AgentDies, RegisterOffline, StoreToken, ClearSetupCode,
              RegisterChild, RegisterRejected, Install
<1>. QED
  BY <1>1, <1>2, <1>3, <1>4, <1>5, <1>6 DEF Next, AgentStep, ServerStep, vars

LEMMA PCTypesStep ==
  ASSUME ServerTypes, PCTypes, [Next]_vars
  PROVE  PCTypes'
<1>. USE DEF PCTypes
<1>1. ASSUME UNCHANGED <<pcVars, agent, exchanged, faults>>
      PROVE  PCTypes'
  BY <1>1 DEF pcVars
<1>2. ASSUME NEW c \in Children, DashboardStep(c)
      PROVE  UNCHANGED <<pcVars, agent, exchanged, faults>>
  BY <1>2 DEF DashboardStep, CountChildren, InsertChild, DeleteChild,
              DownloadInstaller, CodeExpires
<1>0. ASSUME NEW p \in PCs
      PROVE  /\ agent[p].code \in Codes \cup {None}
             /\ agent[p].token \in Tokens \cup {None}
             /\ request[p].token \in Tokens \cup {None}
             /\ Off \in ProcessType
  <2>1. agent[p] \in ProcessType /\ request[p] \in RequestType
    BY DEF ServerTypes
  <2>2. Off \in ProcessType
    BY ProcessTyped DEF Off
  <2>. QED
    BY <2>1, <2>2 DEF ProcessType, RequestType
<1>3. ASSUME NEW p \in PCs, ServerStep(p)
      PROVE  PCTypes'
  <2>1. exchanged' \subseteq PCs /\ UNCHANGED <<pcVars, agent, faults>>
    BY <1>3 DEF ServerStep, LookUpCode, ConsumeCode
  <2>. QED
    BY <2>1 DEF pcVars
<1>4. ASSUME NEW p \in PCs, StartAgent(p)
      PROVE  PCTypes'
  <2>1. Process(FirstCall(p), config[p], keyring[p], None) \in ProcessType
    BY ProcessTyped DEF FirstCall
  <2>. QED
    BY <1>4, <2>1 DEF StartAgent, pcVars
<1>5. ASSUME NEW p \in PCs, NEW k \in Codes, Install(p, k)
      PROVE  PCTypes'
  BY <1>5 DEF Install
<1>6. ASSUME NEW p \in PCs, Uninstall(p)
      PROVE  PCTypes'
  <2>1. faults' \in 0..MaxFaults
    BY <1>6, FaultBound DEF Uninstall
  <2>. QED
    BY <1>0, <1>6, <2>1 DEF Uninstall
<1>7. ASSUME NEW p \in PCs, AgentDies(p)
      PROVE  PCTypes'
  <2>1. faults' \in 0..MaxFaults
    BY <1>7, FaultBound DEF AgentDies
  <2>. QED
    BY <1>0, <1>7, <2>1 DEF AgentDies, pcVars
<1>8. ASSUME NEW p \in PCs, PostActivate(p)
      PROVE  PCTypes'
  <2>1. Process("activate", None, agent[p].token, None) \in ProcessType
    BY <1>0, ProcessTyped
  <2>. QED
    BY <1>8, <2>1 DEF PostActivate, pcVars
<1>9. ASSUME NEW p \in PCs, ReceiveAnswer(p)
      PROVE  PCTypes'
  <2>1. Process("store", agent[p].code, request[p].token, None) \in ProcessType
    BY <1>0, ProcessTyped
  <2>. QED
    BY <1>0, <1>9, <2>1 DEF ReceiveAnswer, NextStep, pcVars
<1>10. ASSUME NEW p \in PCs, StoreToken(p) \/ ClearSetupCode(p)
      PROVE  PCTypes'
  <2>1. \A s \in {"clear", "register"} :
          Process(s, agent[p].code, agent[p].token, None) \in ProcessType
    BY <1>0, ProcessTyped
  <2>. QED
    BY <1>0, <1>10, <2>1 DEF StoreToken, ClearSetupCode, NextStep
<1>11. ASSUME NEW p \in PCs, RegisterChild(p)
      PROVE  PCTypes'
  <2>1. \A c \in Children :
          Process("running", None, agent[p].token, c) \in ProcessType
    BY <1>0, ProcessTyped
  <2>. QED
    BY <1>11, <2>1 DEF RegisterChild, Confirmed
<1>12. ASSUME NEW p \in PCs, RegisterRejected(p)
      PROVE  PCTypes'
  <2>1. Process("rejected", agent[p].code, None, None) \in ProcessType
    BY <1>0, ProcessTyped
  <2>. QED
    BY <1>12, <2>1 DEF RegisterRejected, pcVars
<1>13. ASSUME NEW p \in PCs, RegisterOffline(p)
      PROVE  PCTypes'
  <2>1. faults' \in 0..MaxFaults
    BY <1>13, FaultBound DEF RegisterOffline
  <2>2. Process("running", None, agent[p].token, cached[p]) \in ProcessType
    BY <1>0, ProcessTyped
  <2>. QED
    BY <1>13, <2>1, <2>2 DEF RegisterOffline, pcVars
<1>. QED
  BY <1>1, <1>2, <1>3, <1>4, <1>5, <1>6, <1>7, <1>8, <1>9, <1>10, <1>11, <1>12,
     <1>13 DEF Next, AgentStep, vars

-----------------------------------------------------------------------------
LEMMA RequestFields ==
  ASSUME NEW s, NEW k, NEW c, NEW t
  PROVE  /\ Request(s, k, c, t).stage = s /\ Request(s, k, c, t).code = k
         /\ Request(s, k, c, t).child = c /\ Request(s, k, c, t).token = t
BY DEF Request

LEMMA ProcessFields ==
  ASSUME NEW s, NEW k, NEW c, NEW t
  PROVE  /\ Process(s, k, t, c).pc = s /\ Process(s, k, t, c).code = k
         /\ Process(s, k, t, c).child = c /\ Process(s, k, t, c).token = t
BY DEF Process

(* What the exchange of a code does.                                       *)
LEMMA Exchange ==
  ASSUME ServerTypes, ServerKeepsOrder, NEW p \in PCs, ConsumeCode(p)
  PROVE  \E k \in Codes, c \in Children, t \in Tokens :
           /\ request[p].stage = "found" /\ codeFor[k] = c
           /\ owner[t] = None /\ owner' = [owner EXCEPT ![t] = c]
           /\ request' = [request EXCEPT ![p] = Request("answered", k, c, t)]
           /\ burnt' = burnt \cup {k}
           /\ \/ /\ tokenOf' = [tokenOf EXCEPT ![c] = t]
                 /\ codeOf' = [codeOf EXCEPT ![c] = None]
              \/ /\ UNCHANGED <<tokenOf, codeOf>>
                 /\ codeOf[c] = None
           /\ UNCHANGED <<child, codeFor, pcVars, agent, overlapped>>
           /\ exchanged' = IF agent[p].pc = "activate" THEN exchanged \cup {p}
                           ELSE exchanged
<1>. DEFINE k == request[p].code
            c == request[p].child
<1>1. k \in Codes /\ c \in Children /\ codeFor[k] = c /\ request[p].stage = "found"
  BY DEF ConsumeCode, ServerKeepsOrder
<1>2. PICK t \in NextFree(owner) :
        /\ owner' = [owner EXCEPT ![t] = c]
        /\ request' = [request EXCEPT ![p] = Request("answered", k, c, t)]
        /\ IF child[c] = "registered"
           THEN /\ tokenOf' = [tokenOf EXCEPT ![c] = t]
                /\ codeOf' = [codeOf EXCEPT ![c] = None]
           ELSE UNCHANGED <<tokenOf, codeOf>>
  BY DEF ConsumeCode, CodeAfterUse
<1>3. t \in Tokens /\ owner[t] = None
  BY <1>2 DEF NextFree, ServerTypes
<1>4. child[c] # "registered" => codeOf[c] = None
  BY <1>1 DEF ServerKeepsOrder
<1>5. /\ burnt' = burnt \cup {k}
      /\ UNCHANGED <<child, codeFor, pcVars, agent, overlapped>>
      /\ exchanged' = IF agent[p].pc = "activate" THEN exchanged \cup {p}
                      ELSE exchanged
  BY DEF ConsumeCode
<1>. HIDE DEF k, c
<1>. QED
  BY <1>1, <1>2, <1>3, <1>4, <1>5

LEMMA ServerOrderStep ==
  ASSUME ServerTypes, PCTypes, ServerKeepsOrder, [Next]_vars
  PROVE  ServerKeepsOrder'
<1>0. None \notin Children /\ None \notin Codes /\ None \notin Tokens
  BY ActivationAssumption DEF ActivationAssumption, Codes, Tokens
<1>. USE DEF ServerTypes, ServerKeepsOrder
<1>1. ASSUME NEW c \in Children, DashboardStep(c)
      PROVE  ServerKeepsOrder'
  <2>1. CASE CountChildren(c)
    BY <2>1 DEF CountChildren
  <2>2. CASE InsertChild(c)
    BY <2>2 DEF InsertChild
  <2>3. CASE DeleteChild(c)
    BY <2>3 DEF DeleteChild
  <2>4. CASE DownloadInstaller(c)
    <3>1. PICK k \in Codes : /\ codeFor[k] = None
                             /\ codeFor' = [codeFor EXCEPT ![k] = c]
                             /\ codeOf' = [codeOf EXCEPT ![c] = k]
      BY <2>4 DEF DownloadInstaller, NextFree
    <3>2. k \notin burnt /\ \A d \in Children : codeOf[d] # k
      BY <1>0, <3>1
    <3>3. \A p \in PCs : request[p].stage = "found" => request[p].code # k
      BY <1>0, <3>1
    <3>. QED
      BY <1>0, <2>4, <3>1, <3>2, <3>3 DEF DownloadInstaller
  <2>5. CASE CodeExpires(c)
    BY <2>5 DEF CodeExpires
  <2>. QED
    BY <1>1, <2>1, <2>2, <2>3, <2>4, <2>5 DEF DashboardStep
<1>2. ASSUME NEW p \in PCs, LookUpCode(p)
      PROVE  ServerKeepsOrder'
  <2>. DEFINE k == request[p].code
  <2>1. k \in Codes
    BY <1>2 DEF LookUpCode
  <2>2. \/ request' = [request EXCEPT ![p] = Request("answered", k, None, None)]
        \/ \E c \in Children :
             /\ codeOf[c] = k
             /\ request' = [request EXCEPT ![p] = Request("found", k, c, None)]
    BY <1>2 DEF LookUpCode, Acceptable
  <2>3. UNCHANGED serverVars
    BY <1>2 DEF LookUpCode
  <2>. HIDE DEF k
  <2>. QED
    BY <1>0, <2>1, <2>2, <2>3, RequestFields DEF serverVars
<1>3. ASSUME NEW p \in PCs, ConsumeCode(p)
      PROVE  ServerKeepsOrder'
  <2>1. PICK k \in Codes, c \in Children, t \in Tokens :
           /\ codeFor[k] = c
           /\ owner[t] = None /\ owner' = [owner EXCEPT ![t] = c]
           /\ request' = [request EXCEPT ![p] = Request("answered", k, c, t)]
           /\ burnt' = burnt \cup {k}
           /\ \/ /\ tokenOf' = [tokenOf EXCEPT ![c] = t]
                 /\ codeOf' = [codeOf EXCEPT ![c] = None]
              \/ /\ UNCHANGED <<tokenOf, codeOf>>
                 /\ codeOf[c] = None
           /\ UNCHANGED <<child, codeFor>>
    BY <1>3, Exchange
  <2>2. \A d \in Children : tokenOf'[d] # None => owner'[tokenOf'[d]] = d
    BY <1>0, <2>1
  <2>3. \A d \in Children : codeOf'[d] # None =>
          codeOf'[d] = codeOf[d] /\ d # c
    BY <1>0, <2>1
  <2>4. \A q \in PCs : request'[q].stage \in {"sent", "found"} =>
          request'[q] = request[q]
    BY <2>1, RequestFields
  <2>. QED
    BY <1>0, <2>1, <2>2, <2>3, <2>4
<1>4. ASSUME NEW p \in PCs, StartAgent(p) \/ PostActivate(p) \/ ReceiveAnswer(p)
      PROVE  ServerKeepsOrder'
  <2>1. /\ UNCHANGED serverVars
        /\ \/ request' = [request EXCEPT ![p] = Request("none", None, None, None)]
           \/ \E k \in Codes :
                request' = [request EXCEPT ![p] = Request("sent", k, None, None)]
    BY <1>4 DEF StartAgent, PostActivate, ReceiveAnswer, NoRequest, PCTypes,
                ProcessType
  <2>. QED
    BY <2>1, RequestFields DEF serverVars
<1>5. ASSUME UNCHANGED serverVars, UNCHANGED request
      PROVE  ServerKeepsOrder'
  BY <1>5 DEF serverVars
<1>6. ASSUME NEW p \in PCs,
             \/ Uninstall(p) \/ AgentDies(p) \/ RegisterOffline(p)
             \/ StoreToken(p) \/ ClearSetupCode(p) \/ RegisterChild(p)
             \/ RegisterRejected(p) \/ \E k \in Codes : Install(p, k)
      PROVE  UNCHANGED serverVars /\ UNCHANGED request
  BY <1>6 DEF Uninstall, AgentDies, RegisterOffline, StoreToken, ClearSetupCode,
              RegisterChild, RegisterRejected, Install
<1>. QED
  BY <1>1, <1>2, <1>3, <1>4, <1>5, <1>6 DEF Next, AgentStep, ServerStep, vars

LEMMA PCOrderStep ==
  ASSUME ServerTypes, PCTypes, ServerKeepsOrder, PCKeepsOrder, [Next]_vars
  PROVE  PCKeepsOrder'
<1>0. None \notin Children /\ None \notin Codes /\ None \notin Tokens
  BY ActivationAssumption DEF ActivationAssumption, Codes, Tokens
<1>. USE DEF PCTypes, PCKeepsOrder
<1>1. ASSUME UNCHANGED <<pcVars, agent, owner>>
      PROVE  PCKeepsOrder'
  BY <1>1 DEF pcVars
<1>2. ASSUME NEW c \in Children, DashboardStep(c)
      PROVE  UNCHANGED <<pcVars, agent, owner>>
  BY <1>2 DEF DashboardStep, CountChildren, InsertChild, DeleteChild,
              DownloadInstaller, CodeExpires
<1>3. ASSUME NEW p \in PCs, LookUpCode(p)
      PROVE  UNCHANGED <<pcVars, agent, owner>>
  BY <1>3 DEF LookUpCode, serverVars
<1>4. ASSUME NEW p \in PCs, ConsumeCode(p)
      PROVE  PCKeepsOrder'
  <2>1. PICK c \in Children, t \in Tokens :
          /\ owner[t] = None /\ owner' = [owner EXCEPT ![t] = c]
          /\ UNCHANGED <<pcVars, agent>>
    BY <1>4, Exchange
  <2>2. \A u \in Tokens : owner[u] # None => owner'[u] = owner[u]
    BY <2>1 DEF ServerTypes
  <2>. QED
    BY <1>0, <2>1, <2>2 DEF pcVars
<1>5. ASSUME NEW p \in PCs, StartAgent(p)
      PROVE  PCKeepsOrder'
  <2>1. /\ agent' = [agent EXCEPT ![p] =
                       Process(FirstCall(p), config[p], keyring[p], None)]
        /\ UNCHANGED <<pcVars, owner>>
    BY <1>5 DEF StartAgent, serverVars
  <2>2. \/ FirstCall(p) = "register"
        \/ FirstCall(p) = "activate" /\ keyring[p] = None
    BY DEF FirstCall
  <2>. QED
    BY <2>1, <2>2, ProcessFields DEF pcVars
<1>6. ASSUME NEW p \in PCs, NEW k \in Codes, Install(p, k)
      PROVE  PCKeepsOrder'
  BY <1>6 DEF Install, serverVars
<1>7. ASSUME NEW p \in PCs, Uninstall(p) \/ AgentDies(p)
      PROVE  PCKeepsOrder'
  <2>1. /\ agent' = [agent EXCEPT ![p] = Off] /\ UNCHANGED owner
        /\ \/ /\ cached' = [cached EXCEPT ![p] = None]
              /\ keyring' = [keyring EXCEPT ![p] = None]
           \/ /\ cached' \in {cached, [cached EXCEPT ![p] = None]}
              /\ UNCHANGED keyring
    BY <1>7 DEF Uninstall, AgentDies, serverVars, pcVars
  <2>2. Off.pc = "off"
    BY ProcessFields DEF Off
  <2>. QED
    BY <2>1, <2>2
<1>8. ASSUME NEW p \in PCs, PostActivate(p)
      PROVE  PCKeepsOrder'
  <2>1. /\ agent' = [agent EXCEPT ![p] =
                       Process("activate", None, agent[p].token, None)]
        /\ agent[p].pc = "activate" /\ UNCHANGED <<pcVars, owner>>
    BY <1>8 DEF PostActivate, serverVars
  <2>. QED
    BY <2>1, ProcessFields DEF pcVars
<1>9. ASSUME NEW p \in PCs, ReceiveAnswer(p)
      PROVE  PCKeepsOrder'
  <2>1. /\ \/ agent' = [agent EXCEPT ![p] = Off]
           \/ agent' = [agent EXCEPT ![p] =
                Process("store", agent[p].code, request[p].token, None)]
        /\ agent[p].pc = "activate" /\ UNCHANGED <<pcVars, owner>>
    BY <1>9 DEF ReceiveAnswer, serverVars, NextStep
  <2>2. Off.pc = "off"
    BY ProcessFields DEF Off
  <2>. QED
    BY <2>1, <2>2, ProcessFields DEF pcVars
<1>10. ASSUME NEW p \in PCs, StoreToken(p)
      PROVE  PCKeepsOrder'
  <2>1. /\ agent' = [agent EXCEPT ![p] =
                       Process("clear", agent[p].code, agent[p].token, None)]
        /\ agent[p].pc = "store" /\ UNCHANGED <<cached, owner>>
        /\ keyring' = [keyring EXCEPT ![p] = agent[p].token]
    BY <1>10 DEF StoreToken, serverVars, NextStep
  <2>2. cached[p] = None
    BY <2>1
  <2>. QED
    BY <2>1, <2>2, ProcessFields
<1>11. ASSUME NEW p \in PCs, ClearSetupCode(p)
      PROVE  PCKeepsOrder'
  <2>1. /\ agent' = [agent EXCEPT ![p] =
                       Process("register", agent[p].code, agent[p].token, None)]
        /\ agent[p].pc = "clear" /\ UNCHANGED <<keyring, cached, owner>>
    BY <1>11 DEF ClearSetupCode, serverVars, NextStep
  <2>. QED
    BY <2>1, ProcessFields
<1>12. ASSUME NEW p \in PCs, RegisterChild(p)
      PROVE  PCKeepsOrder'
  <2>1. PICK c \in Children :
          /\ tokenOf[c] = agent[p].token /\ agent[p].token # None
          /\ cached' \in {[cached EXCEPT ![p] = c], cached}
          /\ agent' = [agent EXCEPT ![p] =
                         Process("running", None, agent[p].token, c)]
          /\ agent[p].pc = "register" /\ UNCHANGED <<keyring, owner>>
    BY <1>12 DEF RegisterChild, Confirmed, serverVars
  <2>2. /\ owner[agent[p].token] = c /\ agent[p].token \in Tokens
        /\ keyring[p] = agent[p].token
    BY <2>1 DEF ServerKeepsOrder, ServerTypes
  <2>. QED
    BY <1>0, <2>1, <2>2, ProcessFields
<1>13. ASSUME NEW p \in PCs, RegisterRejected(p)
      PROVE  PCKeepsOrder'
  <2>1. /\ agent' = [agent EXCEPT ![p] =
                       Process("rejected", agent[p].code, None, None)]
        /\ UNCHANGED <<pcVars, owner>>
    BY <1>13 DEF RegisterRejected, serverVars
  <2>. QED
    BY <2>1, ProcessFields DEF pcVars
<1>14. ASSUME NEW p \in PCs, RegisterOffline(p)
      PROVE  PCKeepsOrder'
  <2>1. /\ agent' = [agent EXCEPT ![p] =
                       Process("running", None, agent[p].token, cached[p])]
        /\ agent[p].pc = "register" /\ cached[p] # None
        /\ UNCHANGED <<pcVars, owner>>
    BY <1>14 DEF RegisterOffline, HasCachedId, serverVars
  <2>2. /\ owner[agent[p].token] = cached[p] /\ agent[p].token \in Tokens
        /\ keyring[p] = agent[p].token /\ cached[p] \in Children
    BY <2>1
  <2>. QED
    BY <1>0, <2>1, <2>2, ProcessFields DEF pcVars
<1>. QED
  BY <1>1, <1>2, <1>3, <1>4, <1>5, <1>6, <1>7, <1>8, <1>9, <1>10, <1>11, <1>12,
     <1>13, <1>14 DEF Next, AgentStep, ServerStep, vars, serverVars

LEMMA TokenStep ==
  ASSUME ServerTypes, PCTypes, ServerKeepsOrder, PCKeepsOrder, TokenOnItsWay,
         [Next]_vars
  PROVE  TokenOnItsWay'
<1>0. None \notin Children /\ None \notin Codes /\ None \notin Tokens
  BY ActivationAssumption DEF ActivationAssumption, Codes, Tokens
<1>. USE DEF PCTypes, TokenOnItsWay
<1>1. ASSUME UNCHANGED <<agent, request, keyring, exchanged>>
      PROVE  TokenOnItsWay'
  BY <1>1
<1>2. ASSUME NEW c \in Children, DashboardStep(c)
      PROVE  UNCHANGED <<agent, request, keyring, exchanged>>
  BY <1>2 DEF DashboardStep, CountChildren, InsertChild, DeleteChild,
              DownloadInstaller, CodeExpires, pcVars
<1>3. ASSUME NEW p \in PCs, LookUpCode(p)
      PROVE  TokenOnItsWay'
  <2>1. PICK s \in {"answered", "found"}, c \in Children \cup {None} :
          request' = [request EXCEPT ![p] = Request(s, request[p].code, c, None)]
    BY <1>3 DEF LookUpCode, Acceptable
  <2>2. /\ request[p].stage = "sent"
        /\ UNCHANGED <<agent, keyring, exchanged>>
    BY <1>3 DEF LookUpCode, pcVars
  <2>. QED
    BY <2>1, <2>2 DEF ServerTypes
<1>4. ASSUME NEW p \in PCs, ConsumeCode(p)
      PROVE  TokenOnItsWay'
  <2>1. PICK k \in Codes, c \in Children, t \in Tokens :
          /\ request[p].stage = "found"
          /\ request' = [request EXCEPT ![p] = Request("answered", k, c, t)]
          /\ UNCHANGED <<pcVars, agent>>
          /\ exchanged' = IF agent[p].pc = "activate" THEN exchanged \cup {p}
                          ELSE exchanged
    BY <1>4, Exchange
  <2>2. request'[p].stage = "answered" /\ request'[p].token = t
    BY <2>1, RequestFields DEF ServerTypes
  <2>3. \A q \in PCs : q # p => request'[q] = request[q]
    BY <2>1 DEF ServerTypes
  <2>. QED
    BY <1>0, <2>1, <2>2, <2>3 DEF pcVars
<1>5. ASSUME NEW p \in PCs, StartAgent(p)
      PROVE  TokenOnItsWay'
  <2>1. /\ agent' = [agent EXCEPT ![p] =
                       Process(FirstCall(p), config[p], keyring[p], None)]
        /\ request' = [request EXCEPT ![p] = Request("none", None, None, None)]
        /\ agent[p].pc \in {"off", "rejected"} /\ UNCHANGED <<keyring, exchanged>>
    BY <1>5 DEF StartAgent, Ended, NoRequest, pcVars
  <2>2. request'[p].stage = "none"
    BY <2>1, RequestFields DEF ServerTypes
  <2>3. \A q \in PCs : q # p => request'[q] = request[q] /\ agent'[q] = agent[q]
    BY <2>1 DEF ServerTypes
  <2>. QED
    BY <2>1, <2>2, <2>3
<1>6. ASSUME NEW p \in PCs, NEW k \in Codes, Install(p, k)
      PROVE  UNCHANGED <<agent, request, keyring, exchanged>>
  BY <1>6 DEF Install
<1>7. ASSUME NEW p \in PCs, Uninstall(p)
      PROVE  TokenOnItsWay'
  <2>1. /\ agent' = [agent EXCEPT ![p] = Off] /\ UNCHANGED request
        /\ \A q \in PCs : q # p => keyring'[q] = keyring[q]
        /\ exchanged' = exchanged \ {p}
    BY <1>7 DEF Uninstall
  <2>2. Off.pc = "off"
    BY ProcessFields DEF Off
  <2>. QED
    BY <2>1, <2>2
<1>8. ASSUME NEW p \in PCs, AgentDies(p)
      PROVE  TokenOnItsWay'
  <2>1. /\ agent' = [agent EXCEPT ![p] = Off] /\ UNCHANGED <<request, keyring>>
        /\ exchanged' = IF agent[p].pc \in {"activate", "store"}
                        THEN exchanged \ {p} ELSE exchanged
    BY <1>8 DEF AgentDies, pcVars
  <2>2. Off.pc = "off"
    BY ProcessFields DEF Off
  <2>. QED
    BY <2>1, <2>2
<1>9. ASSUME NEW p \in PCs, PostActivate(p)
      PROVE  TokenOnItsWay'
  <2>1. /\ agent' = [agent EXCEPT ![p] =
                       Process("activate", None, agent[p].token, None)]
        /\ agent[p].pc = "activate" /\ agent[p].code # None
        /\ UNCHANGED <<keyring, exchanged>>
    BY <1>9 DEF PostActivate, pcVars
  <2>2. \A q \in PCs : q # p => request'[q] = request[q] /\ agent'[q] = agent[q]
    BY <1>9, <2>1 DEF PostActivate, ServerTypes
  <2>3. agent'[p].code = None
    BY <2>1, ProcessFields
  <2>4. p \in exchanged => keyring[p] # None
    BY <2>1
  <2>. QED
    BY <2>1, <2>2, <2>3, <2>4
<1>10. ASSUME NEW p \in PCs, ReceiveAnswer(p)
      PROVE  TokenOnItsWay'
  <2>1. /\ \/ request[p].token = None /\ agent' = [agent EXCEPT ![p] = Off]
           \/ /\ request[p].token # None
              /\ agent' = [agent EXCEPT ![p] =
                   Process("store", agent[p].code, request[p].token, None)]
        /\ request' = [request EXCEPT ![p] = Request("none", None, None, None)]
        /\ agent[p].pc = "activate" /\ UNCHANGED <<keyring, exchanged>>
    BY <1>10 DEF ReceiveAnswer, NextStep, NoRequest, pcVars
  <2>2. Off.pc = "off"
    BY ProcessFields DEF Off
  <2>3. \A q \in PCs : q # p => request'[q] = request[q] /\ agent'[q] = agent[q]
    BY <2>1 DEF ServerTypes
  <2>4. \/ agent'[p].pc = "off" /\ request[p].token = None
        \/ agent'[p].pc = "store" /\ agent'[p].token # None
    BY <2>1, <2>2, ProcessFields
  <2>. QED
    BY <2>1, <2>3, <2>4
<1>11. ASSUME NEW p \in PCs, StoreToken(p)
      PROVE  TokenOnItsWay'
  <2>1. /\ agent' = [agent EXCEPT ![p] =
                       Process("clear", agent[p].code, agent[p].token, None)]
        /\ agent[p].pc = "store" /\ UNCHANGED <<request, exchanged>>
        /\ keyring' = [keyring EXCEPT ![p] = agent[p].token]
    BY <1>11 DEF StoreToken, NextStep
  <2>2. keyring[p] = None
    BY <2>1 DEF PCKeepsOrder
  <2>. QED
    BY <2>1, <2>2, ProcessFields
<1>12. ASSUME NEW p \in PCs,
              \/ ClearSetupCode(p) \/ RegisterChild(p) \/ RegisterRejected(p)
              \/ RegisterOffline(p)
      PROVE  TokenOnItsWay'
  <2>1. PICK x : /\ agent' = [agent EXCEPT ![p] = x]
                 /\ x.pc \in {"register", "running", "rejected"}
    BY <1>12, ProcessFields DEF ClearSetupCode, RegisterChild, RegisterRejected,
                                RegisterOffline, NextStep
  <2>2. /\ agent[p].pc \in {"clear", "register"}
        /\ UNCHANGED <<request, keyring, exchanged>>
    BY <1>12 DEF ClearSetupCode, RegisterChild, RegisterRejected, RegisterOffline,
                 pcVars
  <2>3. agent'[p].pc \in {"register", "running", "rejected"}
    BY <2>1
  <2>. QED
    BY <2>1, <2>2, <2>3
<1>. QED
  BY <1>1, <1>2, <1>3, <1>4, <1>5, <1>6, <1>7, <1>8, <1>9, <1>10, <1>11, <1>12
     DEF Next, AgentStep, ServerStep, vars, serverVars, pcVars

-----------------------------------------------------------------------------
Inv == ServerTypes /\ PCTypes /\ ServerKeepsOrder /\ PCKeepsOrder /\ TokenOnItsWay

LEMMA InitInv == Init => Inv
<1>. SUFFICES ASSUME Init PROVE Inv
  OBVIOUS
<1>1. NoRequest \in RequestType /\ NoRequest.stage = "none"
  BY RequestTyped, RequestFields DEF NoRequest
<1>2. Off \in ProcessType /\ Off.pc = "off"
  BY ProcessTyped, ProcessFields DEF Off
<1>3. ServerTypes
  BY <1>1, Zenon DEF Init, ServerTypes
<1>4. PCTypes
  <2>1. 0 \in 0..MaxFaults
    BY ActivationAssumption DEF ActivationAssumption
  <2>. QED
    BY <1>2, <2>1 DEF Init, PCTypes
<1>5. ServerKeepsOrder
  BY <1>1 DEF Init, ServerKeepsOrder
<1>6. PCKeepsOrder
  BY <1>2 DEF Init, PCKeepsOrder
<1>7. TokenOnItsWay
  BY <1>2 DEF Init, TokenOnItsWay
<1>. QED
  BY <1>3, <1>4, <1>5, <1>6, <1>7 DEF Inv

LEMMA InvAlways == Spec => []Inv
<1>1. Inv /\ [Next]_vars => Inv'
  BY ServerTypesStep, PCTypesStep, ServerOrderStep, PCOrderStep, TokenStep DEF Inv
<1>. QED
  BY <1>1, InitInv, PTL DEF Spec

(* Every variable stays in its type, and an agent that runs has a token    *)
(* and a child id (Activation).                                            *)
THEOREM TypeCorrect == Spec => []TypeOK
<1>1. Inv => TypeOK
  BY DEF Inv, TypeOK, ServerTypes, PCTypes, PCKeepsOrder, RequestType, ProcessType
<1>. QED
  BY <1>1, InvAlways, PTL

(* Whatever is installed, removed or interrupted on a PC, an agent that    *)
(* runs acts for the child its token was issued for (_register_child with  *)
(* the cached id).                                                         *)
THEOREM AgentsRunAsThemselves == Spec => []RunsAsItself
<1>1. Inv => RunsAsItself
  BY DEF Inv, PCKeepsOrder, RunsAsItself
<1>. QED
  BY <1>1, InvAlways, PTL

(* An agent that was there when its code was burnt is not left without     *)
(* token and code unless it died before it had stored the token            *)
(* (_activate).                                                            *)
THEOREM StoredTokenSurvives == Spec => []StrandedOnlyBeforeStore
<1>1. Inv => StrandedOnlyBeforeStore
  BY DEF Inv, PCTypes, TokenOnItsWay, StrandedOnlyBeforeStore, Ended
<1>. QED
  BY <1>1, InvAlways, PTL

(* A setup code that was exchanged once is not accepted again, for any     *)
(* number of children, PCs, codes and interleavings (agent_activate).      *)
THEOREM BurntCodesStayBurnt == Spec => NoSecondLookUp
<1>. DEFINE NotAgain ==
       \A p \in PCs : request[p].stage = "sent" /\ request'[p].stage = "found"
                      => request[p].code \notin burnt
<1>1. ASSUME Inv, [Next]_vars, NEW p \in PCs,
             request[p].stage = "sent", request'[p].stage = "found"
      PROVE  request[p].code \notin burnt
  <2>1. LookUpCode(p) \/ request'[p] = request[p] \/ request'[p].stage # "found"
    <3>1. ASSUME NEW q \in PCs, LookUpCode(q)
          PROVE  q = p \/ request'[p] = request[p]
      <4>1. PICK x : request' = [request EXCEPT ![q] = x]
        BY <3>1 DEF LookUpCode
      <4>. QED
        BY <4>1 DEF Inv, ServerTypes
    <3>2. ASSUME NEW q \in PCs, ConsumeCode(q)
          PROVE  request'[p] = request[p] \/ request'[p].stage # "found"
      <4>1. PICK k \in Codes, c \in Children, t \in Tokens :
              request' = [request EXCEPT ![q] = Request("answered", k, c, t)]
        BY <1>1, <3>2, Exchange DEF Inv
      <4>. QED
        BY <4>1, RequestFields DEF Inv, ServerTypes
    <3>3. ASSUME NEW q \in PCs, StartAgent(q) \/ PostActivate(q) \/ ReceiveAnswer(q)
          PROVE  request'[p] = request[p] \/ request'[p].stage # "found"
      <4>1. PICK x : /\ request' = [request EXCEPT ![q] = x]
                     /\ x.stage \in {"none", "sent"}
        BY <3>3, RequestFields
           DEF StartAgent, PostActivate, ReceiveAnswer, NoRequest
      <4>. QED
        BY <4>1 DEF Inv, ServerTypes
    <3>4. ASSUME NEW q \in PCs,
                 \/ Uninstall(q) \/ AgentDies(q) \/ RegisterOffline(q)
                 \/ StoreToken(q) \/ ClearSetupCode(q) \/ RegisterChild(q)
                 \/ RegisterRejected(q) \/ \E k \in Codes : Install(q, k)
          PROVE  UNCHANGED request
      BY <3>4 DEF Uninstall, AgentDies, RegisterOffline, StoreToken,
                  ClearSetupCode, RegisterChild, RegisterRejected, Install
    <3>5. ASSUME NEW c \in Children, DashboardStep(c)
          PROVE  UNCHANGED request
      BY <3>5 DEF DashboardStep, CountChildren, InsertChild, DeleteChild,
                  DownloadInstaller, CodeExpires
    <3>. QED
      BY <1>1, <3>1, <3>2, <3>3, <3>4, <3>5 DEF Next, AgentStep, ServerStep, vars
  <2>2. LookUpCode(p)
    BY <1>1, <2>1
  <2>3. PICK c \in Children : codeOf[c] = request[p].code /\ codeOf[c] # None
    <3>1. Acceptable(request[p].code) # {}
      <4>1. SUFFICES ASSUME Acceptable(request[p].code) = {}
                     PROVE  FALSE
        OBVIOUS
      <4>2. request' = [request EXCEPT ![p] =
                          Request("answered", request[p].code, None, None)]
        BY <2>2, <4>1 DEF LookUpCode
      <4>. QED
        BY <1>1, <4>2, RequestFields DEF Inv, ServerTypes
    <3>. QED
      BY <3>1 DEF Acceptable
  <2>. QED
    BY <1>1, <2>3 DEF Inv, ServerKeepsOrder
<1>2. Inv /\ [Next]_vars => [NotAgain]_vars
  BY <1>1
<1>. QED
  BY <1>2, InvAlways, PTL DEF Spec, NoSecondLookUp

-----------------------------------------------------------------------------
(* Children that are registered or about to be.                            *)
Taken == {c \in Children : child[c] \in {"counted", "registered"}}
TakenWithinLimit ==
  /\ child \in [Children -> {"new", "counted", "registered", "deleted"}]
  /\ overlapped \in BOOLEAN
  /\ ~overlapped => Cardinality(Taken) <= MaxChildren

LEMMA ChildrenFinite ==
  ASSUME NEW S, S \subseteq Children
  PROVE  IsFiniteSet(S) /\ Cardinality(S) \in Nat
BY ActivationAssumption, FS_Subset, FS_CardinalityType DEF ActivationAssumption

LEMMA LimitStep == TakenWithinLimit /\ [Next]_vars => TakenWithinLimit'
<1>. SUFFICES ASSUME TakenWithinLimit, [Next]_vars
             PROVE  TakenWithinLimit'
  OBVIOUS
<1>. USE DEF TakenWithinLimit
<1>1. ASSUME UNCHANGED <<child, overlapped>>
      PROVE  TakenWithinLimit'
  BY <1>1 DEF Taken
<1>2. ASSUME NEW c \in Children, CountChildren(c)
      PROVE  TakenWithinLimit'
  <2>1. Taken' = Taken \cup {c}
    BY <1>2 DEF CountChildren, Taken
  <2>2. /\ overlapped' = (overlapped \/ \E d \in Children : child[d] = "counted")
        /\ child' \in [Children -> {"new", "counted", "registered", "deleted"}]
    BY <1>2 DEF CountChildren
  <2>3. ASSUME ~overlapped'
        PROVE  Cardinality(Taken') <= MaxChildren
    <3>1. Taken = Registered
      BY <2>2, <2>3 DEF Taken, Registered
    <3>2. Cardinality(Taken) < MaxChildren /\ c \notin Taken
      BY <1>2, <3>1 DEF CountChildren, BelowLimit, Taken
    <3>3. Cardinality(Taken \cup {c}) = Cardinality(Taken) + 1
      BY <3>2, ChildrenFinite, FS_AddElement DEF Taken
    <3>4. Cardinality(Taken) \in Nat /\ MaxChildren \in Nat
      BY ChildrenFinite, ActivationAssumption DEF Taken, ActivationAssumption
    <3>. QED
      BY <2>1, <3>2, <3>3, <3>4
  <2>4. overlapped' \in BOOLEAN
    BY <2>2, Zenon
  <2>. QED
    BY <2>2, <2>3, <2>4, Zenon
<1>3. ASSUME NEW c \in Children, InsertChild(c) \/ DeleteChild(c)
      PROVE  TakenWithinLimit'
  <2>1. Taken' \subseteq Taken /\ UNCHANGED overlapped
        /\ child' \in [Children -> {"new", "counted", "registered", "deleted"}]
    BY <1>3 DEF InsertChild, DeleteChild, Taken
  <2>2. /\ Cardinality(Taken) \in Nat /\ Cardinality(Taken') \in Nat
        /\ Cardinality(Taken') <= Cardinality(Taken)
    BY <2>1, ChildrenFinite, FS_Subset DEF Taken
  <2>3. MaxChildren \in Nat
    BY ActivationAssumption DEF ActivationAssumption
  <2>4. ~overlapped => Cardinality(Taken') <= MaxChildren
    BY <2>2, <2>3
  <2>. QED
    BY <2>1, <2>4, Zenon
<1>4. ASSUME NEW c \in Children, DownloadInstaller(c) \/ CodeExpires(c)
      PROVE  UNCHANGED <<child, overlapped>>
  BY <1>4 DEF DownloadInstaller, CodeExpires
<1>5. ASSUME NEW p \in PCs, ServerStep(p) \/ AgentStep(p)
      PROVE  UNCHANGED <<child, overlapped>>
  BY <1>5 DEF ServerStep, AgentStep, LookUpCode, ConsumeCode, PostActivate,
              ReceiveAnswer, StoreToken, ClearSetupCode, RegisterChild,
              RegisterRejected, serverVars
<1>6. ASSUME NEW p \in PCs,
             \/ StartAgent(p) \/ Uninstall(p) \/ AgentDies(p)
             \/ RegisterOffline(p) \/ \E k \in Codes : Install(p, k)
      PROVE  UNCHANGED <<child, overlapped>>
  BY <1>6 DEF StartAgent, Uninstall, AgentDies, RegisterOffline, Install, serverVars
<1>. QED
  BY <1>1, <1>2, <1>3, <1>4, <1>5, <1>6
     DEF Next, DashboardStep, vars, serverVars

(* No plan is exceeded unless two registrations overlapped (add_child).    *)
THEOREM LimitHolds == Spec => []PlanLimitKept
<1>1. Init => TakenWithinLimit
  <2>1. SUFFICES ASSUME Init PROVE TakenWithinLimit
    OBVIOUS
  <2>2. Taken = {} /\ overlapped = FALSE
        /\ child \in [Children -> {"new", "counted", "registered", "deleted"}]
    BY <2>1 DEF Init, Taken
  <2>3. Cardinality({}) = 0
    BY FS_EmptySet
  <2>4. 0 <= MaxChildren
    BY ActivationAssumption DEF ActivationAssumption
  <2>. QED
    BY <2>2, <2>3, <2>4, Zenon DEF TakenWithinLimit
<1>2. TakenWithinLimit => PlanLimitKept
  <2>1. SUFFICES ASSUME TakenWithinLimit, ~overlapped
                 PROVE  Cardinality(Registered) <= MaxChildren
    BY DEF PlanLimitKept
  <2>2. Registered \subseteq Taken
    BY DEF Registered, Taken
  <2>3. /\ Cardinality(Taken) \in Nat /\ Cardinality(Registered) \in Nat
        /\ Cardinality(Registered) <= Cardinality(Taken)
    BY <2>2, ChildrenFinite, FS_Subset DEF Taken, Registered
  <2>. QED
    BY <2>1, <2>3, ActivationAssumption DEF TakenWithinLimit, ActivationAssumption
<1>. QED
  BY <1>1, <1>2, LimitStep, PTL DEF Spec
=============================================================================
