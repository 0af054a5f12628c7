------------------------- MODULE AuthSessionProofs -------------------------
(***************************************************************************)
(* Proofs about AuthSession: as long as nothing fails, refreshes that      *)
(* overlap leave a live session in the browser's jar and refuse none that  *)
(* had the cookie for itself, and rotation does not multiply sessions.     *)
(***************************************************************************)
EXTENDS AuthSession, FiniteSetTheorems, TLAPS

CallRecord ==
  [purpose : {"none", "fetch", "mount", "login", "logout", "gone"},
   stage : {"none", "unauthorized", "lookup", "revoke", "create", "answer"},
   sent : Nat \cup {None}, new : Nat \cup {None}, raced : BOOLEAN]

(* TypeOK without the bound on sessions.                                   *)
Types ==
  /\ created \in Nat /\ live \subseteq 1..created /\ logins \in 0..created
  /\ cookie \in 1..created \cup {None}
  /\ token \in [Tabs -> {"none", "fresh", "expired"}]
  /\ created = 0 => \A t \in Tabs : token[t] = "none"
  /\ faults \in 0..MaxFaults /\ raced \in BOOLEAN
  /\ call \in [Calls -> CallRecord]
  /\ \A c \in Calls : /\ call[c].sent \in 1..created \cup {None}
                      /\ call[c].new \in 1..created \cup {None}

BoundKept == created + Cardinality(Pending) <= NumSessions

(* Which calls carry which cookies.                                        *)
Orderly ==
  \A c \in Calls :
    /\ call[c].stage \in {"none", "unauthorized"} =>
         call[c].sent = None /\ call[c].new = None
    /\ call[c].new # None => call[c].stage = "answer"
    /\ call[c].purpose = "logout" =>
         call[c].stage = "answer" /\ call[c].sent = None /\ call[c].new = None
    /\ call[c].purpose = "gone" => faults > 0

(* Two refreshes with one cookie both count as raced.                      *)
RacesSeen ==
  \A c, d \in Calls :
    c # d /\ call[c].sent = call[d].sent /\ call[c].sent # None =>
      call[c].raced /\ call[d].raced /\ raced

(* Before the first fault: a session that waits in an answer is live, is   *)
(* nobody else's, and was not sent by anyone;                              *)
AnswersFresh ==
  \A c \in Calls : call[c].new # None =>
    /\ call[c].new \in live /\ call[c].new # cookie
    /\ \A d \in Calls : call[d].sent # call[c].new
    /\ \A d \in Calls : d # c => call[d].new # call[c].new

(* a cookie that is no longer live is being replaced;                      *)
Replaces(c) ==
  /\ call[c].sent = cookie
  /\ \/ call[c].stage = "create"
     \/ call[c].stage = "answer" /\ call[c].new # None
CookieReplaced ==
  cookie # None /\ cookie \notin live => \E c \in Calls : Replaces(c)

(* and a refresh that has its cookie for itself will find it live.         *)
LookUpsLive ==
  \A c \in Calls :
    call[c].stage = "lookup" /\ call[c].sent # None /\ ~call[c].raced =>
      call[c].sent \in live

Untroubled ==
  faults = 0 => AnswersFresh /\ CookieReplaced /\ LookUpsLive /\ RefusedForCause

(* Sessions that are live or being rotated: rotation keeps their number.   *)
Rotated == {k \in 1..created : \E c \in Calls :
              call[c].stage \in {"revoke", "create"} /\ call[c].sent = k}
Revoking ==
  \A c \in Calls : call[c].stage = "create" => call[c].sent \notin live
CountKept == ~raced => Cardinality(live \cup Rotated) <= logins

-----------------------------------------------------------------------------
(* What a step makes of the record of a call.                              *)
Others(c) == \A d \in Calls : d # c => call'[d] = call[d]
Keeps(c) == /\ call'[c].sent = call[c].sent /\ call'[c].new = call[c].new
            /\ call'[c].raced = call[c].raced /\ Others(c)
Starts(c, p, s) ==
  /\ call'[c].purpose = p /\ call'[c].stage = s
  /\ call'[c].sent = None /\ call'[c].new = None
  /\ Others(c)

LEMMA Fetches ==
  ASSUME Types, NEW c \in Calls, Fetch(c)
  PROVE  Starts(c, "fetch", "unauthorized") /\ call' \in [Calls -> CallRecord]
BY DEF Types, CallRecord, Fetch, Idle, NoCall, Starts, Others

LEMMA Logins ==
  ASSUME Types, NEW c \in Calls, Login(c)
  PROVE  /\ Starts(c, "login", "create") /\ call' \in [Calls -> CallRecord]
         /\ call[c].stage = "none"
BY DEF Types, CallRecord, Login, Idle, NoCall, Starts, Others

LEMMA Logouts ==
  ASSUME Types, NEW c \in Calls, Logout(c)
  PROVE  Starts(c, "logout", "answer") /\ call' \in [Calls -> CallRecord]
BY DEF Types, CallRecord, Logout, Idle, NoCall, Starts, Others

LEMMA EndsOfCalls ==
  ASSUME Types, NEW c \in Calls, call' = [call EXCEPT ![c] = NoCall]
  PROVE  Starts(c, "none", "none") /\ call' \in [Calls -> CallRecord]
BY DEF Types, CallRecord, NoCall, Starts, Others

LEMMA LookUps ==
  ASSUME Types, NEW c \in Calls, LookUp(c)
  PROVE  /\ Keeps(c) /\ call'[c].purpose = call[c].purpose
         /\ \/ call'[c].stage = "revoke" /\ call[c].sent \in live
            \/ call'[c].stage = "answer" /\ call[c].sent \notin live
         /\ call' \in [Calls -> CallRecord]
BY DEF Types, CallRecord, LookUp, Keeps, Others

LEMMA Revokes ==
  ASSUME Types, NEW c \in Calls, RevokeOld(c)
  PROVE  /\ Keeps(c) /\ call'[c].purpose = call[c].purpose
         /\ call'[c].stage = "create" /\ call' \in [Calls -> CallRecord]
BY DEF Types, CallRecord, RevokeOld, Keeps, Others

LEMMA FailuresOfDatabase ==
  ASSUME Types, NEW c \in Calls, DatabaseFails(c)
  PROVE  /\ Keeps(c) /\ call'[c].purpose = call[c].purpose
         /\ call'[c].stage = "answer" /\ call' \in [Calls -> CallRecord]
BY DEF Types, CallRecord, DatabaseFails, Keeps, Others

LEMMA Losses ==
  ASSUME Types, NEW c \in Calls, AnswerLost(c)
  PROVE  /\ Keeps(c) /\ call'[c].purpose = "gone"
         /\ call'[c].stage = call[c].stage /\ call' \in [Calls -> CallRecord]
BY DEF Types, CallRecord, AnswerLost, Keeps, Others

LEMMA Creations ==
  ASSUME Types, NEW c \in Calls, CreateSession(c)
  PROVE  /\ call'[c].sent = call[c].sent /\ call'[c].new = created + 1
         /\ call'[c].purpose = call[c].purpose
         /\ call'[c].raced = call[c].raced /\ Others(c)
         /\ call'[c].stage = "answer" /\ call' \in [Calls -> CallRecord]
<1>1. created + 1 \in Nat
  BY DEF Types
<1>. QED
  BY <1>1 DEF Types, CallRecord, CreateSession, Others

(* A refresh is sent: those with the same cookie, and it, have raced.      *)
LEMMA Posts ==
  ASSUME Types, NEW c \in Calls, NEW p \in {"fetch", "mount"}, PostRefresh(c, p)
  PROVE  /\ call'[c].purpose = p /\ call'[c].stage = "lookup"
         /\ call'[c].sent = cookie /\ call'[c].new = None
         /\ \A d \in Calls : d # c =>
              /\ call'[d].purpose = call[d].purpose
              /\ call'[d].stage = call[d].stage
              /\ call'[d].sent = call[d].sent /\ call'[d].new = call[d].new
              /\ call[d].raced => call'[d].raced
              /\ d \in Sharing(cookie) => call'[d].raced /\ call'[c].raced /\ raced'
         /\ raced => raced'
         /\ call' \in [Calls -> CallRecord]
<1>1. cookie \in Nat \cup {None}
  BY DEF Types
<1>2. call'[c] = [purpose |-> p, stage |-> "lookup", sent |-> cookie,
                  new |-> None, raced |-> Sharing(cookie) # {}]
  BY DEF PostRefresh
<1>3. \A d \in Calls : d # c =>
        call'[d] = IF d \in Sharing(cookie) THEN [call[d] EXCEPT !.raced = TRUE]
                   ELSE call[d]
  BY DEF PostRefresh
<1>4. call'[c] \in CallRecord
  BY <1>1, <1>2 DEF CallRecord
<1>5. \A d \in Calls : d # c => call'[d] \in CallRecord
  <2>1. \A d \in Calls : [call[d] EXCEPT !.raced = TRUE] \in CallRecord
    BY DEF CallRecord, Types
  <2>. QED
    BY <1>3, <2>1 DEF Types
<1>6. call' \in [Calls -> CallRecord]
  BY <1>4, <1>5, Zenon DEF PostRefresh
<1>7. \A d \in Calls : d # c =>
        /\ call'[d].purpose = call[d].purpose
        /\ call'[d].stage = call[d].stage
        /\ call'[d].sent = call[d].sent /\ call'[d].new = call[d].new
        /\ call[d].raced => call'[d].raced
        /\ d \in Sharing(cookie) => call'[d].raced
  <2>1. ASSUME NEW d \in Calls
        PROVE  LET r == [call[d] EXCEPT !.raced = TRUE]
               IN  /\ r.purpose = call[d].purpose /\ r.stage = call[d].stage
                   /\ r.sent = call[d].sent /\ r.new = call[d].new
                   /\ r.raced = TRUE
    BY DEF CallRecord, Types
  <2>. QED
    BY <1>3, <2>1
<1>8. \A d \in Calls : d \in Sharing(cookie) => call'[c].raced /\ raced'
  BY <1>2 DEF PostRefresh
<1>9. raced => raced'
  BY DEF PostRefresh
<1>. QED
  BY <1>2, <1>6, <1>7, <1>8, <1>9

(* A reload ends the calls that wait for nothing.                          *)
LEMMA Reloads ==
  ASSUME Types, Orderly, NEW t \in Tabs, Reload(t)
  PROVE  /\ \A c \in Calls :
              \/ call'[c] = call[c]
              \/ /\ call[c].stage \in {"none", "unauthorized"}
                 /\ call'[c].stage = "none" /\ call'[c].purpose = "none"
                 /\ call'[c].sent = None /\ call'[c].new = None
              \/ /\ call'[c].stage = call[c].stage /\ call'[c].purpose = "gone"
                 /\ call'[c].sent = call[c].sent /\ call'[c].new = call[c].new
                 /\ call'[c].raced = call[c].raced
                 /\ faults' = faults + 1
         /\ call' \in [Calls -> CallRecord]
         /\ faults' = faults \/ Fault
<1>1. \A c \in Calls : call'[c] = IF TabOf[c] = t THEN Forget(c) ELSE call[c]
  BY DEF Reload
<1>2. ASSUME NEW c \in Calls
      PROVE  /\ \/ call'[c] = call[c]
                \/ call[c].stage \in {"none", "unauthorized"} /\ call'[c] = NoCall
                \/ call'[c] = [call[c] EXCEPT !.purpose = "gone"]
                   /\ call[c].stage \notin {"none", "unauthorized"}
                   /\ TabOf[c] = t
             /\ call'[c] \in CallRecord
  <2>1. Forget(c) \in CallRecord
    BY DEF Forget, NoCall, CallRecord, Types
  <2>. QED
    BY <1>1, <2>1 DEF Forget, Types
<1>3. ASSUME NEW c \in Calls, TabOf[c] = t,
             call[c].stage \notin {"none", "unauthorized"}
      PROVE  faults' = faults + 1
  <2>1. Forget(c) = [call[c] EXCEPT !.purpose = "gone"]
    BY <1>3 DEF Forget
  <2>2. [call[c] EXCEPT !.purpose = "gone"].purpose = "gone"
    BY DEF CallRecord, Types
  <2>3. NoCall.purpose = "none"
    BY DEF NoCall
  <2>4. Forget(c) # NoCall
    BY <2>1, <2>2, <2>3
  <2>. QED
    BY <1>3, <2>4 DEF Reload, Fault
<1>4. call' \in [Calls -> CallRecord]
  BY <1>2, Zenon DEF Reload
<1>5. faults' = faults \/ Fault
  BY DEF Reload
<1>. QED
  BY <1>2, <1>3, <1>4, <1>5 DEF NoCall, CallRecord, Types

-----------------------------------------------------------------------------
(* Types.                                                                  *)
Ending(c) == Succeeds(c) \/ Fails(c) \/ LoggedOut(c) \/ Unheard(c)

LEMMA FaultBound ==
  ASSUME faults \in 0..MaxFaults, Fault
  PROVE  faults' \in 0..MaxFaults /\ faults' = faults + 1 /\ faults' > 0
BY AuthAssumption DEF AuthAssumption, Fault

LEMMA TokenTypes ==
  ASSUME Types, NEW t \in Tabs, NEW v \in {"none", "fresh", "expired"},
         \/ UNCHANGED token
         \/ token' = [token EXCEPT ![t] = v] /\ (created' = 0 => v = "none"),
         created' \in Nat, created' = 0 => created = 0
  PROVE  /\ token' \in [Tabs -> {"none", "fresh", "expired"}]
         /\ created' = 0 => \A u \in Tabs : token'[u] = "none"
BY DEF Types

LEMMA TypesStep == Types /\ Orderly /\ [Next]_vars => Types'
<1>. SUFFICES ASSUME Types, Orderly, [Next]_vars
             PROVE  Types'
  OBVIOUS
<1>0. /\ \A c \in Calls : TabOf[c] \in Tabs
      /\ None \notin Nat
  BY AuthAssumption DEF AuthAssumption
<1>1. ASSUME NEW c \in Calls, Fetch(c) \/ Login(c) \/ Logout(c)
      PROVE  Types'
  <2>1. /\ UNCHANGED <<live, created, logins, cookie, token, faults, raced>>
        /\ call' \in [Calls -> CallRecord]
        /\ call'[c].sent = None /\ call'[c].new = None /\ Others(c)
    BY <1>1, Fetches, Logins, Logouts DEF Fetch, Login, Logout, Starts
  <2>. QED
    BY <2>1, Zenon DEF Types, Others
<1>2. ASSUME NEW c \in Calls, Refresh(c) \/ Mount(c)
      PROVE  Types'
  <2>1. PICK p \in {"fetch", "mount"} : PostRefresh(c, p)
    BY <1>2 DEF Refresh, Mount
  <2>2. /\ UNCHANGED <<live, created, logins, cookie, token, faults>>
        /\ raced' \in BOOLEAN
    BY <1>2, Zenon DEF Refresh, Mount, PostRefresh
  <2>3. /\ call' \in [Calls -> CallRecord]
        /\ \A d \in Calls : /\ call'[d].sent \in 1..created \cup {None}
                            /\ call'[d].new \in 1..created \cup {None}
    BY <2>1, Posts DEF Types
  <2>. QED
    BY <2>2, <2>3, Zenon DEF Types
<1>3. ASSUME NEW c \in Calls, LookUp(c) \/ RevokeOld(c) \/ DatabaseFails(c)
      PROVE  Types'
  <2>1. call' \in [Calls -> CallRecord] /\ Keeps(c)
    BY <1>3, LookUps, Revokes, FailuresOfDatabase
  <2>2. /\ live' \subseteq 1..created
        /\ UNCHANGED <<created, logins, cookie, token, raced>>
    BY <1>3 DEF LookUp, RevokeOld, DatabaseFails, Types
  <2>3. faults' \in 0..MaxFaults
    BY <1>3, FaultBound DEF LookUp, RevokeOld, DatabaseFails, Types
  <2>. QED
    BY <2>1, <2>2, <2>3, Zenon DEF Types, Keeps, Others
<1>4. ASSUME NEW c \in Calls, CreateSession(c)
      PROVE  Types'
  <2>1. /\ call' \in [Calls -> CallRecord] /\ Others(c)
        /\ call'[c].sent = call[c].sent /\ call'[c].new = created + 1
    BY <1>4, Creations
  <2>2. /\ created' = created + 1 /\ live' = live \cup {created + 1}
        /\ UNCHANGED <<cookie, token, faults, raced>>
        /\ logins' \in {logins, logins + 1}
    BY <1>4 DEF CreateSession, Types
  <2>3. /\ created' \in Nat /\ live' \subseteq 1..created'
        /\ 1..created \subseteq 1..created' /\ created + 1 \in 1..created'
        /\ logins' \in 0..created' /\ created' # 0
    BY <2>2 DEF Types
  <2>. QED
    BY <2>1, <2>2, <2>3, Zenon DEF Types, Others
<1>5. ASSUME NEW c \in Calls, Ending(c)
      PROVE  Types'
  <2>1. call' = [call EXCEPT ![c] = NoCall]
    BY <1>5 DEF Ending, Succeeds, Fails, LoggedOut, Unheard
  <2>2. /\ call' \in [Calls -> CallRecord]
        /\ call'[c].sent = None /\ call'[c].new = None /\ Others(c)
    BY <2>1, EndsOfCalls DEF Starts
  <2>3. /\ UNCHANGED <<live, created, logins, faults, raced>>
        /\ cookie' \in 1..created \cup {None}
    BY <1>5 DEF Ending, Succeeds, Fails, LoggedOut, Unheard, NewCookie, Types
  <2>4. \/ UNCHANGED token
        \/ \E v \in {"none", "fresh"} :
             token' = [token EXCEPT ![TabOf[c]] = v] /\ (created' = 0 => v = "none")
    <3>1. CASE Succeeds(c)
      <4>1. call[c].new \in 1..created
        BY <3>1 DEF Succeeds, Ok, Types
      <4>. QED
        BY <3>1, <4>1, <2>3 DEF Succeeds, SetToken, Types
    <3>2. CASE Fails(c) \/ LoggedOut(c) \/ Unheard(c)
      BY <3>2 DEF Fails, LoggedOut, Unheard, SetToken
    <3>. QED
      BY <1>5, <3>1, <3>2 DEF Ending
  <2>5. /\ token' \in [Tabs -> {"none", "fresh", "expired"}]
        /\ created' = 0 => \A u \in Tabs : token'[u] = "none"
    BY <1>0, <2>3, <2>4, TokenTypes DEF Types
  <2>. QED
    BY <2>2, <2>3, <2>5, Zenon DEF Types, Others
<1>6. ASSUME NEW c \in Calls, AnswerLost(c)
      PROVE  Types'
  <2>1. call' \in [Calls -> CallRecord] /\ Keeps(c)
    BY <1>6, Losses
  <2>2. UNCHANGED <<live, created, logins, cookie, raced>> /\ Fault
        /\ (UNCHANGED token \/ token' = [token EXCEPT ![TabOf[c]] = "none"])
    BY <1>6 DEF AnswerLost, SetToken
  <2>3. faults' \in 0..MaxFaults
    BY <2>2, FaultBound DEF Types
  <2>4. /\ token' \in [Tabs -> {"none", "fresh", "expired"}]
        /\ created' = 0 => \A u \in Tabs : token'[u] = "none"
    BY <1>0, <2>2, TokenTypes DEF Types
  <2>. QED
    BY <2>1, <2>2, <2>3, <2>4, Zenon DEF Types, Keeps, Others
<1>7. ASSUME NEW t \in Tabs, Reload(t)
      PROVE  Types'
  <2>1. /\ call' \in [Calls -> CallRecord]
        /\ \A c \in Calls : /\ call'[c].sent \in {call[c].sent, None}
                            /\ call'[c].new \in {call[c].new, None}
        /\ faults' = faults \/ Fault
    BY <1>7, Reloads
  <2>2. faults' \in 0..MaxFaults
    BY <2>1, FaultBound DEF Types
  <2>3. UNCHANGED <<live, created, logins, cookie, raced>>
        /\ token' = [token EXCEPT ![t] = "none"]
    BY <1>7 DEF Reload
  <2>4. /\ token' \in [Tabs -> {"none", "fresh", "expired"}]
        /\ created' = 0 => \A u \in Tabs : token'[u] = "none"
    BY <2>3, TokenTypes DEF Types
  <2>5. \A c \in Calls : /\ call'[c].sent \in 1..created \cup {None}
                         /\ call'[c].new \in 1..created \cup {None}
    BY <2>1 DEF Types
  <2>. QED
    BY <2>1, <2>2, <2>3, <2>4, <2>5, Zenon DEF Types
<1>8. ASSUME NEW t \in Tabs, AccessTokenExpires(t)
      PROVE  Types'
  <2>1. UNCHANGED <<live, created, logins, cookie, call, faults, raced>>
        /\ token' = [token EXCEPT ![t] = "expired"] /\ created # 0
    BY <1>8 DEF AccessTokenExpires, Types
  <2>2. /\ token' \in [Tabs -> {"none", "fresh", "expired"}]
        /\ created' = 0 => \A u \in Tabs : token'[u] = "none"
    BY <2>1, TokenTypes DEF Types
  <2>. QED
    BY <2>1, <2>2, Zenon DEF Types
<1>9. ASSUME NEW k \in Sessions, SessionExpires(k)
      PROVE  Types'
  <2>1. /\ UNCHANGED <<created, logins, cookie, token, call, raced>>
        /\ live' \subseteq 1..created /\ Fault
    BY <1>9 DEF SessionExpires, Types
  <2>2. faults' \in 0..MaxFaults
    BY <2>1, FaultBound DEF Types
  <2>. QED
    BY <2>1, <2>2, Zenon DEF Types
<1>10. CASE UNCHANGED vars
  BY <1>10, Zenon DEF vars, Types
<1>. QED
  BY <1>1, <1>2, <1>3, <1>4, <1>5, <1>6, <1>7, <1>8, <1>9, <1>10
     DEF Next, Ending

LEMMA OrderlyStep == Types /\ Orderly /\ [Next]_vars => Orderly'
<1>. SUFFICES ASSUME Types, Orderly, [Next]_vars
             PROVE  Orderly'
  OBVIOUS
<1>0. faults' >= faults /\ faults \in Nat /\ faults' \in Nat
  <2>1. faults' = faults \/ Fault
    BY DEF Next, vars, Fetch, Refresh, Mount, Login, Logout, LookUp, RevokeOld,
           CreateSession, DatabaseFails, Succeeds, Fails, LoggedOut, AnswerLost,
           Unheard, Reload, AccessTokenExpires, SessionExpires
  <2>. QED
    BY <2>1, FaultBound DEF Types
<1>. USE <1>0 DEF Orderly
<1>1. ASSUME NEW c \in Calls, Fetch(c) \/ Login(c) \/ Logout(c)
      PROVE  Orderly'
  BY <1>1, Fetches, Logins, Logouts DEF Starts, Others
<1>2. ASSUME NEW c \in Calls, Refresh(c) \/ Mount(c)
      PROVE  Orderly'
  <2>1. PICK p \in {"fetch", "mount"} : PostRefresh(c, p)
    BY <1>2 DEF Refresh, Mount
  <2>. QED
    BY <2>1, Posts
<1>3. ASSUME NEW c \in Calls, LookUp(c) \/ RevokeOld(c) \/ DatabaseFails(c)
      PROVE  Orderly'
  <2>1. call[c].stage \in {"lookup", "revoke", "create"} /\ call[c].new = None
    BY <1>3 DEF LookUp, RevokeOld, DatabaseFails, Types
  <2>2. /\ Keeps(c) /\ call'[c].purpose = call[c].purpose
        /\ call'[c].stage \in {"revoke", "create", "answer"}
    BY <1>3, LookUps, Revokes, FailuresOfDatabase
  <2>. QED
    BY <2>1, <2>2 DEF Keeps, Others
<1>4. ASSUME NEW c \in Calls, CreateSession(c)
      PROVE  Orderly'
  <2>1. call[c].stage = "create" /\ call[c].purpose \notin {"logout"}
    BY <1>4 DEF CreateSession, Types
  <2>. QED
    BY <1>4, <2>1, Creations DEF Others
<1>5. ASSUME NEW c \in Calls, Ending(c)
      PROVE  Orderly'
  <2>1. call' = [call EXCEPT ![c] = NoCall]
    BY <1>5 DEF Ending, Succeeds, Fails, LoggedOut, Unheard
  <2>2. /\ call'[c].purpose = "none" /\ call'[c].stage = "none"
        /\ call'[c].sent = None /\ call'[c].new = None
        /\ \A d \in Calls : d # c => call'[d] = call[d]
    BY <2>1, EndsOfCalls DEF Starts, Others
  <2>. QED
    BY <2>2
<1>6. ASSUME NEW c \in Calls, AnswerLost(c)
      PROVE  Orderly'
  <2>1. faults' > 0
    BY <1>6, FaultBound DEF AnswerLost, Types
  <2>. QED
    BY <1>6, <2>1, Losses DEF Keeps, Others
<1>7. ASSUME NEW t \in Tabs, Reload(t)
      PROVE  Orderly'
  BY <1>7, Reloads
<1>8. ASSUME UNCHANGED call
      PROVE  Orderly'
  BY <1>8
<1>9. ASSUME \/ \E t \in Tabs : AccessTokenExpires(t)
             \/ \E k \in Sessions : SessionExpires(k)
             \/ UNCHANGED vars
      PROVE  UNCHANGED call
  BY <1>9 DEF AccessTokenExpires, SessionExpires, vars
<1>. QED
  BY <1>1, <1>2, <1>3, <1>4, <1>5, <1>6, <1>7, <1>8, <1>9 DEF Next, Ending

-----------------------------------------------------------------------------
(* The bound on sessions.                                                  *)
LEMMA PendingFinite ==
  ASSUME NEW S, S \subseteq Calls
  PROVE  IsFiniteSet(S) /\ Cardinality(S) \in Nat
BY AuthAssumption, FS_Subset, FS_CardinalityType DEF AuthAssumption

LEMMA BoundStep == Types /\ Orderly /\ BoundKept /\ [Next]_vars => BoundKept'
<1>. SUFFICES ASSUME Types, Orderly, BoundKept, [Next]_vars
             PROVE  BoundKept'
  OBVIOUS
<1>0. /\ Pending \subseteq Calls /\ Cardinality(Pending) \in Nat
      /\ created \in Nat /\ NumSessions \in Nat
  BY PendingFinite, AuthAssumption DEF Pending, Types, AuthAssumption
<1>1. ASSUME Pending' \subseteq Pending, UNCHANGED created
      PROVE  BoundKept'
  <2>1. /\ Cardinality(Pending') \in Nat
        /\ Cardinality(Pending') <= Cardinality(Pending)
    BY <1>0, <1>1, PendingFinite, FS_Subset
  <2>. QED
    BY <1>0, <1>1, <2>1 DEF BoundKept
<1>2. ASSUME NEW c \in Calls, Pending' \subseteq Pending \cup {c},
             UNCHANGED created, Bound
      PROVE  BoundKept'
  <2>1. /\ Cardinality(Pending \cup {c}) \in Nat
        /\ Cardinality(Pending \cup {c}) <= Cardinality(Pending) + 1
    BY <1>0, PendingFinite, FS_AddElement
  <2>2. /\ Cardinality(Pending') \in Nat
        /\ Cardinality(Pending') <= Cardinality(Pending \cup {c})
    BY <1>0, <1>2, PendingFinite, FS_Subset
  <2>. QED
    BY <1>0, <1>2, <2>1, <2>2 DEF BoundKept, Bound
<1>3. ASSUME NEW c \in Calls, Fetch(c) \/ Logout(c)
      PROVE  Pending' \subseteq Pending /\ UNCHANGED created
  BY <1>3, Fetches, Logouts DEF Starts, Others, Pending, Fetch, Logout
<1>4. ASSUME NEW c \in Calls, Login(c)
      PROVE  BoundKept'
  <2>1. Pending' \subseteq Pending \cup {c} /\ UNCHANGED created /\ Bound
    BY <1>4, Logins DEF Starts, Others, Pending, Login
  <2>. QED
    BY <1>2, <2>1
<1>5. ASSUME NEW c \in Calls, Refresh(c) \/ Mount(c)
      PROVE  BoundKept'
  <2>1. PICK p \in {"fetch", "mount"} : PostRefresh(c, p)
    BY <1>5 DEF Refresh, Mount
  <2>2. UNCHANGED created /\ Bound
    BY <1>5 DEF Refresh, Mount, PostRefresh
  <2>3. Pending' \subseteq Pending \cup {c}
    BY <2>1, Posts DEF Pending
  <2>. QED
    BY <1>2, <2>2, <2>3
<1>6. ASSUME NEW c \in Calls, LookUp(c) \/ RevokeOld(c) \/ DatabaseFails(c)
      PROVE  Pending' \subseteq Pending /\ UNCHANGED created
  <2>1. c \in Pending /\ UNCHANGED created
    BY <1>6 DEF LookUp, RevokeOld, DatabaseFails, Pending
  <2>2. Others(c)
    BY <1>6, LookUps, Revokes, FailuresOfDatabase DEF Keeps
  <2>. QED
    BY <2>1, <2>2 DEF Pending, Others
<1>7. ASSUME NEW c \in Calls, CreateSession(c)
      PROVE  BoundKept'
  <2>1. c \in Pending /\ created' = created + 1
    BY <1>7 DEF CreateSession, Pending
  <2>2. Pending' = Pending \ {c}
    BY <1>7, Creations DEF Pending, Others
  <2>3. Cardinality(Pending') = Cardinality(Pending) - 1
    BY <1>0, <2>1, <2>2, PendingFinite, FS_RemoveElement
  <2>. QED
    BY <1>0, <2>1, <2>3 DEF BoundKept
<1>8. ASSUME NEW c \in Calls, Ending(c)
      PROVE  Pending' \subseteq Pending /\ UNCHANGED created
  <2>1. call' = [call EXCEPT ![c] = NoCall] /\ UNCHANGED created
    BY <1>8 DEF Ending, Succeeds, Fails, LoggedOut, Unheard
  <2>. QED
    BY <2>1, EndsOfCalls DEF Starts, Others, Pending
<1>9. ASSUME NEW c \in Calls, AnswerLost(c)
      PROVE  Pending' \subseteq Pending /\ UNCHANGED created
  BY <1>9, Losses DEF Keeps, Others, Pending, AnswerLost
<1>10. ASSUME NEW t \in Tabs, Reload(t)
      PROVE  Pending' \subseteq Pending /\ UNCHANGED created
  <2>1. UNCHANGED created
    BY <1>10 DEF Reload
  <2>. QED
    BY <1>10, <2>1, Reloads DEF Pending
<1>11. ASSUME \/ \E t \in Tabs : AccessTokenExpires(t)
              \/ \E k \in Sessions : SessionExpires(k)
              \/ UNCHANGED vars
      PROVE  Pending' \subseteq Pending /\ UNCHANGED created
  BY <1>11 DEF AccessTokenExpires, SessionExpires, vars, Pending
<1>. QED
  BY <1>1, <1>3, <1>4, <1>5, <1>6, <1>7, <1>8, <1>9, <1>10, <1>11 DEF Next, Ending

-----------------------------------------------------------------------------
(* Races.                                                                  *)
LEMMA RacesStep == Types /\ Orderly /\ RacesSeen /\ [Next]_vars => RacesSeen'
<1>. SUFFICES ASSUME Types, Orderly, RacesSeen, [Next]_vars
             PROVE  RacesSeen'
  OBVIOUS
<1>. USE DEF RacesSeen
<1>1. ASSUME \A c \in Calls : \/ call'[c].sent = None
                              \/ /\ call'[c].sent = call[c].sent
                                 /\ call'[c].raced = call[c].raced,
             UNCHANGED raced
      PROVE  RacesSeen'
  BY <1>1
<1>2. ASSUME NEW c \in Calls, Refresh(c) \/ Mount(c)
      PROVE  RacesSeen'
  <2>1. PICK p \in {"fetch", "mount"} : PostRefresh(c, p)
    BY <1>2 DEF Refresh, Mount
  <2>2. /\ call'[c].sent = cookie
        /\ \A d \in Calls : d # c =>
              /\ call'[d].sent = call[d].sent
              /\ call[d].raced => call'[d].raced
              /\ d \in Sharing(cookie) => call'[d].raced /\ call'[c].raced /\ raced'
        /\ raced => raced'
    BY <2>1, Posts
  <2>3. \A d \in Calls : call[d].sent = cookie /\ cookie # None => d \in Sharing(cookie)
    BY DEF Sharing
  <2>4. ASSUME NEW d \in Calls, NEW e \in Calls, d # e,
               call'[d].sent = call'[e].sent, call'[d].sent # None
        PROVE  call'[d].raced /\ call'[e].raced /\ raced'
    <3>1. CASE d # c /\ e # c
      BY <2>2, <2>4, <3>1
    <3>2. CASE d = c
      BY <2>2, <2>3, <2>4, <3>2
    <3>3. CASE e = c
      BY <2>2, <2>3, <2>4, <3>3
    <3>. QED
      BY <3>1, <3>2, <3>3
  <2>. QED
    BY <2>4
<1>3. ASSUME NEW c \in Calls,
             \/ Fetch(c) \/ Login(c) \/ Logout(c) \/ Ending(c)
             \/ LookUp(c) \/ RevokeOld(c) \/ DatabaseFails(c)
             \/ CreateSession(c) \/ AnswerLost(c)
      PROVE  RacesSeen'
  <2>1. UNCHANGED raced
    BY <1>3 DEF Fetch, Login, Logout, Ending, Succeeds, Fails, LoggedOut, Unheard,
                LookUp, RevokeOld, DatabaseFails, CreateSession, AnswerLost
  <2>2. CASE Ending(c)
    <3>1. call' = [call EXCEPT ![c] = NoCall]
      BY <2>2 DEF Ending, Succeeds, Fails, LoggedOut, Unheard
    <3>2. call'[c].sent = None /\ Others(c)
      BY <3>1, EndsOfCalls DEF Starts
    <3>. QED
      BY <1>1, <2>1, <3>2 DEF Others
  <2>3. CASE Fetch(c) \/ Login(c) \/ Logout(c)
    <3>1. call'[c].sent = None /\ Others(c)
      BY <2>3, Fetches, Logins, Logouts DEF Starts
    <3>. QED
      BY <1>1, <2>1, <3>1 DEF Others
  <2>4. CASE \/ LookUp(c) \/ RevokeOld(c) \/ DatabaseFails(c)
             \/ CreateSession(c) \/ AnswerLost(c)
    <3>1. /\ call'[c].sent = call[c].sent /\ call'[c].raced = call[c].raced
          /\ Others(c)
      BY <2>4, LookUps, Revokes, FailuresOfDatabase, Creations, Losses DEF Keeps
    <3>. QED
      BY <1>1, <2>1, <3>1 DEF Others
  <2>. QED
    BY <1>3, <2>2, <2>3, <2>4
<1>4. ASSUME NEW t \in Tabs, Reload(t)
      PROVE  RacesSeen'
  <2>1. UNCHANGED raced
    BY <1>4 DEF Reload
  <2>. QED
    BY <1>1, <1>4, <2>1, Reloads
<1>5. ASSUME \/ \E t \in Tabs : AccessTokenExpires(t)
             \/ \E k \in Sessions : SessionExpires(k)
             \/ UNCHANGED vars
      PROVE  UNCHANGED <<call, raced>>
  BY <1>5 DEF AccessTokenExpires, SessionExpires, vars
<1>. QED
  BY <1>1, <1>2, <1>3, <1>4, <1>5 DEF Next, Ending

-----------------------------------------------------------------------------
(* Before the first fault.                                                 *)
LEMMA UntroubledStep ==
  Types /\ Orderly /\ RacesSeen /\ Untroubled /\ [Next]_vars => Untroubled'
<1>. SUFFICES ASSUME Types, Orderly, RacesSeen, Untroubled, [Next]_vars, faults' = 0
             PROVE  /\ AnswersFresh' /\ CookieReplaced' /\ LookUpsLive'
                    /\ RefusedForCause'
  BY DEF Untroubled
<1>0. ~Fault /\ faults = 0
  <2>1. faults' = faults \/ Fault
    BY DEF Next, vars, Fetch, Refresh, Mount, Login, Logout, LookUp, RevokeOld,
           CreateSession, DatabaseFails, Succeeds, Fails, LoggedOut, AnswerLost,
           Unheard, Reload, AccessTokenExpires, SessionExpires
  <2>. QED
    BY <2>1, FaultBound DEF Types
<1>. DEFINE Good == AnswersFresh /\ CookieReplaced /\ LookUpsLive /\ RefusedForCause
<1>. SUFFICES Good'
  OBVIOUS
<1>h. Good
  BY <1>0 DEF Untroubled
<1>g. None \notin Nat /\ None \notin live
  <2>1. live \subseteq Nat
    BY DEF Types
  <2>. QED
    BY <2>1, AuthAssumption DEF AuthAssumption
<1>. USE DEF AnswersFresh, CookieReplaced, LookUpsLive, RefusedForCause, Replaces
(* A call begins, or ends without a session of its own.                    *)
<1>1. ASSUME NEW c \in Calls,
             \/ call[c].stage \in {"none", "unauthorized"}
             \/ call[c].stage = "answer" /\ call[c].new = None,
             call'[c].sent = None, call'[c].new = None, Others(c),
             UNCHANGED live, cookie' \in {cookie, None}
      PROVE  Good'
  <2>1. AnswersFresh'
    <3>1. \A d \in Calls : call'[d].new # None => d # c /\ call'[d] = call[d]
      BY <1>1 DEF Others
    <3>2. \A d \in Calls : call[d].new # None => call[d].new \in live /\ call[d].new # None
      BY <1>h
    <3>. QED
      BY <1>h, <1>1, <3>1, <3>2 DEF Others
  <2>2. CookieReplaced'
    BY <1>h, <1>1 DEF Others
  <2>3. LookUpsLive' /\ RefusedForCause'
    BY <1>0, <1>h, <1>1 DEF Others
  <2>. QED
    BY <2>1, <2>2, <2>3
<1>2. ASSUME NEW c \in Calls, Fetch(c) \/ Login(c) \/ Logout(c)
      PROVE  Good'
  <2>1. /\ call'[c].sent = None /\ call'[c].new = None /\ Others(c)
    BY <1>2, Fetches, Logins, Logouts DEF Starts
  <2>2. UNCHANGED <<live, cookie>> /\ call[c].stage = "none"
    BY <1>2 DEF Fetch, Login, Logout, Idle, NoCall
  <2>. QED
    BY <1>1, <2>1, <2>2
<1>3. ASSUME NEW c \in Calls, Fails(c) \/ LoggedOut(c) \/ Unheard(c)
      PROVE  Good'
  <2>1. call' = [call EXCEPT ![c] = NoCall]
    BY <1>3 DEF Fails, LoggedOut, Unheard
  <2>2. /\ call'[c].sent = None /\ call'[c].new = None /\ Others(c)
    BY <2>1, EndsOfCalls DEF Starts
  <2>3. UNCHANGED live /\ cookie' \in {cookie, None}
    BY <1>3 DEF Fails, LoggedOut, Unheard
  <2>4. call[c].stage = "answer" /\ call[c].new = None
    BY <1>0, <1>3 DEF Fails, LoggedOut, Unheard, Orderly
  <2>. QED
    BY <1>1, <2>2, <2>3, <2>4
<1>4. ASSUME NEW c \in Calls, Succeeds(c)
      PROVE  Good'
  <2>1. /\ call' = [call EXCEPT ![c] = NoCall] /\ UNCHANGED live
        /\ cookie' = call[c].new /\ call[c].new # None
    BY <1>4 DEF Succeeds, Ok, NewCookie
  <2>2. /\ call'[c].sent = None /\ call'[c].new = None /\ call'[c].stage = "none"
        /\ \A d \in Calls : d # c => call'[d] = call[d]
    BY <2>1, EndsOfCalls DEF Starts, Others
  <2>3. /\ call[c].new \in live
        /\ \A d \in Calls : d # c => call[d].new # call[c].new
    BY <1>h, <2>1
  <2>4. AnswersFresh'
    <3>1. \A d \in Calls : call'[d].new # None => d # c /\ call'[d] = call[d]
      BY <2>2
    <3>. QED
      BY <1>h, <2>1, <2>2, <2>3, <3>1
  <2>5. CookieReplaced'
    BY <2>1, <2>3
  <2>6. LookUpsLive' /\ RefusedForCause'
    BY <1>0, <1>h, <2>1, <2>2
  <2>. QED
    BY <2>4, <2>5, <2>6
<1>5. ASSUME NEW c \in Calls, Refresh(c) \/ Mount(c)
      PROVE  Good'
  <2>1. PICK p \in {"fetch", "mount"} : PostRefresh(c, p)
    BY <1>5 DEF Refresh, Mount
  <2>2. /\ call'[c].stage = "lookup" /\ call'[c].sent = cookie /\ call'[c].new = None
        /\ \A d \in Calls : d # c =>
              /\ call'[d].stage = call[d].stage
              /\ call'[d].sent = call[d].sent /\ call'[d].new = call[d].new
              /\ call[d].raced => call'[d].raced
              /\ d \in Sharing(cookie) => call'[c].raced
    BY <2>1, Posts
  <2>3. /\ UNCHANGED <<live, cookie>> /\ call[c].sent = None /\ call[c].new = None
        /\ call[c].stage \in {"none", "unauthorized"}
    BY <1>5 DEF Refresh, Mount, Orderly, Idle, NoCall
  <2>4. AnswersFresh'
    BY <1>h, <2>2, <2>3
  <2>5. CookieReplaced'
    BY <1>h, <2>2, <2>3
  <2>6. LookUpsLive'
    <3>1. ASSUME cookie # None, ~call'[c].raced
          PROVE  cookie \in live
      <4>1. \A d \in Calls : ~Replaces(d)
        BY <2>2, <2>3, <3>1 DEF Sharing
      <4>. QED
        BY <1>h, <3>1, <4>1
    <3>. QED
      BY <1>h, <2>2, <2>3, <3>1
  <2>7. RefusedForCause'
    BY <1>0, <1>h, <2>2
  <2>. QED
    BY <2>4, <2>5, <2>6, <2>7
<1>6. ASSUME NEW c \in Calls, LookUp(c)
      PROVE  Good'
  <2>1. /\ UNCHANGED <<live, cookie>> /\ call[c].stage = "lookup"
        /\ call[c].new = None
    BY <1>6 DEF LookUp, Orderly
  <2>2. /\ call'[c].sent = call[c].sent /\ call'[c].new = call[c].new
        /\ call'[c].raced = call[c].raced
        /\ \/ call'[c].stage = "revoke" /\ call[c].sent \in live
           \/ call'[c].stage = "answer" /\ call[c].sent \notin live
        /\ \A d \in Calls : d # c => call'[d] = call[d]
    BY <1>6, LookUps DEF Keeps, Others
  <2>3. AnswersFresh'
    BY <1>h, <2>1, <2>2
  <2>4. CookieReplaced'
    BY <1>h, <2>1, <2>2
  <2>5. LookUpsLive' /\ RefusedForCause'
    BY <1>0, <1>h, <2>1, <2>2
  <2>. QED
    BY <2>3, <2>4, <2>5
<1>7. ASSUME NEW c \in Calls, RevokeOld(c)
      PROVE  Good'
  <2>1. /\ live' = live \ {call[c].sent} /\ UNCHANGED cookie
        /\ call[c].new = None /\ call[c].stage = "revoke"
    BY <1>7 DEF RevokeOld, Revoked, Orderly
  <2>2. /\ call'[c].sent = call[c].sent /\ call'[c].new = call[c].new
        /\ call'[c].raced = call[c].raced /\ call'[c].stage = "create"
        /\ \A d \in Calls : d # c => call'[d] = call[d]
    BY <1>7, Revokes DEF Keeps, Others
  <2>3. AnswersFresh'
    BY <1>h, <2>1, <2>2
  <2>4. CookieReplaced'
    BY <1>h, <2>1, <2>2
  <2>5. LookUpsLive'
    <3>1. \A d \in Calls : d # c /\ call[d].sent = call[c].sent /\ call[d].sent # None
                            => call[d].raced
      BY DEF RacesSeen
    <3>. QED
      BY <1>h, <2>1, <2>2, <3>1
  <2>6. RefusedForCause'
    BY <1>0, <1>h, <2>1, <2>2
  <2>. QED
    BY <2>3, <2>4, <2>5, <2>6
<1>8. ASSUME NEW c \in Calls, CreateSession(c)
      PROVE  Good'
  <2>. DEFINE n == created + 1
  <2>1. /\ live' = live \cup {n} /\ UNCHANGED cookie
        /\ call[c].new = None /\ call[c].stage = "create"
    BY <1>8 DEF CreateSession, Orderly
  <2>2. /\ call'[c].sent = call[c].sent /\ call'[c].new = n
        /\ call'[c].raced = call[c].raced /\ call'[c].stage = "answer"
        /\ \A d \in Calls : d # c => call'[d] = call[d]
    BY <1>8, Creations DEF Others
  <2>3. /\ n # None /\ n # cookie
        /\ \A d \in Calls : call[d].sent # n /\ call[d].new # n
    BY <1>g DEF Types
  <2>. HIDE DEF n
  <2>4. AnswersFresh'
    <3>1. /\ call'[c].new \in live' /\ call'[c].new # cookie'
          /\ \A d \in Calls : call'[d].sent # call'[c].new
          /\ \A d \in Calls : d # c => call'[d].new # call'[c].new
      BY <2>1, <2>2, <2>3
    <3>2. ASSUME NEW d \in Calls, d # c, call'[d].new # None
          PROVE  /\ call'[d].new \in live' /\ call'[d].new # cookie'
                 /\ \A e \in Calls : call'[e].sent # call'[d].new
                 /\ \A e \in Calls : e # d => call'[e].new # call'[d].new
      BY <1>h, <2>1, <2>2, <2>3, <3>2
    <3>. QED
      BY <3>1, <3>2
  <2>5. CookieReplaced'
    BY <1>h, <2>1, <2>2, <2>3
  <2>6. LookUpsLive' /\ RefusedForCause'
    BY <1>0, <1>h, <2>1, <2>2, <2>3
  <2>. QED
    BY <2>4, <2>5, <2>6
<1>9. ASSUME NEW c \in Calls, DatabaseFails(c) \/ AnswerLost(c)
      PROVE  FALSE
  BY <1>0, <1>9 DEF DatabaseFails, AnswerLost
<1>10. ASSUME NEW t \in Tabs, Reload(t)
      PROVE  Good'
  <2>1. UNCHANGED <<live, cookie>>
    BY <1>10 DEF Reload
  <2>2. \A c \in Calls :
          \/ call'[c] = call[c]
          \/ /\ call[c].stage \in {"none", "unauthorized"}
             /\ call'[c].sent = None /\ call'[c].new = None
    BY <1>0, <1>10, Reloads
  <2>3. AnswersFresh'
    <3>1. \A d \in Calls : call'[d].new # None => call'[d] = call[d]
      BY <2>2
    <3>. QED
      BY <1>h, <2>1, <2>2, <3>1
  <2>4. CookieReplaced'
    BY <1>h, <2>1, <2>2
  <2>5. LookUpsLive' /\ RefusedForCause'
    BY <1>0, <1>h, <2>1, <2>2
  <2>. QED
    BY <2>3, <2>4, <2>5
<1>11. ASSUME UNCHANGED <<call, live, cookie>>
      PROVE  Good'
  BY <1>0, <1>h, <1>11
<1>12. ASSUME \/ \E t \in Tabs : AccessTokenExpires(t)
              \/ UNCHANGED vars
      PROVE  UNCHANGED <<call, live, cookie>>
  BY <1>12 DEF AccessTokenExpires, vars
<1>13. ASSUME NEW k \in Sessions, SessionExpires(k)
      PROVE  FALSE
  BY <1>0, <1>13 DEF SessionExpires
<1>. QED
  BY <1>2, <1>3, <1>4, <1>5, <1>6, <1>7, <1>8, <1>9, <1>10, <1>11, <1>12, <1>13
     DEF Next
-----------------------------------------------------------------------------
(* The number of sessions.                                                 *)
LEMMA KeptFinite ==
  ASSUME Types, NEW S, S \subseteq live \cup Rotated
  PROVE  /\ live \cup Rotated \subseteq 1..created
         /\ IsFiniteSet(S) /\ Cardinality(S) \in Nat
         /\ IsFiniteSet(live \cup Rotated) /\ Cardinality(live \cup Rotated) \in Nat
         /\ Cardinality(S) <= Cardinality(live \cup Rotated)
<1>1. live \cup Rotated \subseteq 1..created /\ created \in Int /\ 1 \in Int
  <2>1. Rotated \subseteq 1..created
    BY Zenon DEF Rotated
  <2>2. live \subseteq 1..created /\ created \in Int /\ 1 \in Int
    BY DEF Types
  <2>. QED
    BY <2>1, <2>2
<1>2. IsFiniteSet(1..created)
  BY <1>1, FS_Interval
<1>3. IsFiniteSet(live \cup Rotated)
  BY <1>1, <1>2, FS_Subset
<1>4. IsFiniteSet(S) /\ Cardinality(S) <= Cardinality(live \cup Rotated)
  BY <1>3, FS_Subset
<1>. QED
  BY <1>1, <1>3, <1>4, FS_CardinalityType

(* What keeps the sessions that are live or being rotated.                 *)
Kept ==
  /\ live' \cup Rotated' \subseteq live \cup Rotated
  /\ \A c \in Calls : call'[c].stage = "create" => call'[c].sent \notin live'
  /\ UNCHANGED logins /\ (raced => raced')

LEMMA KeptCounts == Types /\ CountKept /\ Kept => CountKept' /\ Revoking'
<1>. SUFFICES ASSUME Types, CountKept, Kept, ~raced'
             PROVE  Cardinality(live' \cup Rotated') <= logins'
  BY DEF Kept, CountKept, Revoking
<1>1. ~raced /\ logins' = logins /\ logins \in Nat
  BY DEF Kept, Types
<1>2. /\ Cardinality(live' \cup Rotated') <= Cardinality(live \cup Rotated)
      /\ Cardinality(live' \cup Rotated') \in Nat
      /\ Cardinality(live \cup Rotated) \in Nat
  BY KeptFinite DEF Kept
<1>. QED
  BY <1>1, <1>2 DEF CountKept

LEMMA KeptByAll ==
  ASSUME Types, Orderly, Revoking, [Next]_vars,
         \A c \in Calls : ~CreateSession(c)
  PROVE  Kept
<1>0. None \notin live /\ None \notin 1..created
  <2>1. live \subseteq Nat /\ 1..created \subseteq Nat
    BY DEF Types
  <2>. QED
    BY <2>1, AuthAssumption DEF AuthAssumption
<1>. USE DEF Kept, Rotated, Revoking
<1>1. ASSUME NEW c \in Calls, Fetch(c) \/ Login(c) \/ Logout(c)
      PROVE  Kept
  <2>1. /\ call'[c].sent = None /\ \A d \in Calls : d # c => call'[d] = call[d]
    BY <1>1, Fetches, Logins, Logouts DEF Starts, Others
  <2>2. UNCHANGED <<live, created, logins, raced>>
    BY <1>1 DEF Fetch, Login, Logout
  <2>. QED
    BY <1>0, <2>1, <2>2
<1>2. ASSUME NEW c \in Calls, Refresh(c) \/ Mount(c)
      PROVE  Kept
  <2>1. PICK p \in {"fetch", "mount"} : PostRefresh(c, p)
    BY <1>2 DEF Refresh, Mount
  <2>2. /\ call'[c].stage = "lookup" /\ (raced => raced')
        /\ \A d \in Calls : d # c => call'[d].stage = call[d].stage
                                     /\ call'[d].sent = call[d].sent
    BY <2>1, Posts
  <2>3. UNCHANGED <<live, created, logins>>
    BY <1>2 DEF Refresh, Mount
  <2>. QED
    BY <2>2, <2>3
<1>3. ASSUME NEW c \in Calls, LookUp(c)
      PROVE  Kept
  <2>1. UNCHANGED <<live, created, logins, raced>>
    BY <1>3 DEF LookUp
  <2>2. /\ call'[c].sent = call[c].sent
        /\ call'[c].stage # "create"
        /\ call'[c].stage = "revoke" => call[c].sent \in live
        /\ \A d \in Calls : d # c => call'[d] = call[d]
    BY <1>3, LookUps DEF Keeps, Others
  <2>. QED
    BY <2>1, <2>2
<1>4. ASSUME NEW c \in Calls, RevokeOld(c)
      PROVE  Kept
  <2>1. /\ UNCHANGED <<created, logins, raced>> /\ live' = live \ {call[c].sent}
        /\ call[c].stage = "revoke"
    BY <1>4 DEF RevokeOld, Revoked
  <2>2. /\ call'[c].sent = call[c].sent
        /\ \A d \in Calls : d # c => call'[d] = call[d]
    BY <1>4, Revokes DEF Keeps, Others
  <2>. QED
    BY <2>1, <2>2
<1>5. ASSUME NEW c \in Calls, DatabaseFails(c) \/ AnswerLost(c)
      PROVE  Kept
  <2>1. UNCHANGED <<live, created, logins, raced>>
    BY <1>5 DEF DatabaseFails, AnswerLost
  <2>2. /\ call'[c].sent = call[c].sent
        /\ call'[c].stage \in {call[c].stage, "answer"}
        /\ \A d \in Calls : d # c => call'[d] = call[d]
    BY <1>5, FailuresOfDatabase, Losses DEF Keeps, Others
  <2>. QED
    BY <2>1, <2>2
<1>6. ASSUME NEW c \in Calls, Ending(c)
      PROVE  Kept
  <2>1. call' = [call EXCEPT ![c] = NoCall] /\ UNCHANGED <<live, created, logins, raced>>
    BY <1>6 DEF Ending, Succeeds, Fails, LoggedOut, Unheard
  <2>2. call'[c].sent = None /\ \A d \in Calls : d # c => call'[d] = call[d]
    BY <2>1, EndsOfCalls DEF Starts, Others
  <2>. QED
    BY <1>0, <2>1, <2>2
<1>7. ASSUME NEW t \in Tabs, Reload(t)
      PROVE  Kept
  <2>1. UNCHANGED <<live, created, logins, raced>>
    BY <1>7 DEF Reload
  <2>2. \A c \in Calls :
          \/ call'[c].sent = None
          \/ call'[c].sent = call[c].sent /\ call'[c].stage = call[c].stage
    BY <1>7, Reloads
  <2>. QED
    BY <1>0, <2>1, <2>2
<1>8. ASSUME \/ \E t \in Tabs : AccessTokenExpires(t)
             \/ \E k \in Sessions : SessionExpires(k)
             \/ UNCHANGED vars
      PROVE  Kept
  <2>1. UNCHANGED <<created, logins, raced, call>> /\ live' \subseteq live
    BY <1>8 DEF AccessTokenExpires, SessionExpires, vars
  <2>. QED
    BY <2>1
<1>. QED
  BY <1>1, <1>2, <1>3, <1>4, <1>5, <1>6, <1>7, <1>8 DEF Next, Ending

(* A rotation puts a session in the place of another; a login adds one.    *)
LEMMA CountedAtCreation ==
  ASSUME Types, Orderly, RacesSeen, Revoking, CountKept,
         NEW c \in Calls, CreateSession(c)
  PROVE  CountKept' /\ Revoking'
<1>. DEFINE W == live \cup Rotated
            n == created + 1
            k == call[c].sent
<1>1. /\ created' = n /\ live' = live \cup {n} /\ UNCHANGED raced
      /\ call[c].stage = "create" /\ logins \in Nat
      /\ logins' = logins + (IF k = None THEN 1 ELSE 0)
  BY DEF CreateSession, Types
<1>2. /\ call'[c].stage = "answer"
      /\ \A d \in Calls : d # c => call'[d] = call[d]
  BY Creations DEF Others
<1>3. /\ W \subseteq 1..created /\ IsFiniteSet(W) /\ Cardinality(W) \in Nat
  BY KeptFinite
<1>4. /\ n \notin 1..created /\ n # None
      /\ None \notin 1..created /\ None \notin 1..n
      /\ \A d \in Calls : call[d].sent \in 1..created \cup {None}
  BY AuthAssumption DEF AuthAssumption, Types
<1>. HIDE DEF n
<1>5. Revoking'
  BY <1>1, <1>2, <1>4 DEF Revoking
<1>6. Rotated' \subseteq Rotated
  BY <1>1, <1>2, <1>4 DEF Rotated
<1>7. ASSUME ~raced
      PROVE  Cardinality(live' \cup Rotated') <= logins'
  <2>0. Cardinality(W) <= logins
    BY <1>7 DEF CountKept
  <2>1. CASE k = None
    <3>1. live' \cup Rotated' \subseteq W \cup {n}
      BY <1>1, <1>6
    <3>2. /\ IsFiniteSet(W \cup {n}) /\ Cardinality(W \cup {n}) = Cardinality(W) + 1
      BY <1>3, <1>4, FS_AddElement
    <3>3. /\ IsFiniteSet(live' \cup Rotated')
          /\ Cardinality(live' \cup Rotated') <= Cardinality(W \cup {n})
      BY <3>1, <3>2, FS_Subset
    <3>4. Cardinality(live' \cup Rotated') \in Nat
      BY <3>3, FS_CardinalityType
    <3>. QED
      BY <1>1, <1>3, <2>0, <2>1, <3>2, <3>3, <3>4
  <2>2. CASE k # None
    <3>1. k \in Rotated /\ k \notin live
      BY <1>1, <1>4, <2>2 DEF Rotated, Revoking
    <3>2. k \notin Rotated'
      <4>1. \A d \in Calls : d # c => call[d].sent # k
        BY <1>7, <2>2 DEF RacesSeen
      <4>. QED
        BY <1>2, <4>1 DEF Rotated
    <3>3. live' \cup Rotated' \subseteq (W \ {k}) \cup {n}
      BY <1>1, <1>6, <3>1, <3>2
    <3>4. /\ IsFiniteSet(W \ {k}) /\ Cardinality(W \ {k}) = Cardinality(W) - 1
      BY <1>3, <3>1, FS_RemoveElement
    <3>5. /\ IsFiniteSet((W \ {k}) \cup {n})
          /\ Cardinality((W \ {k}) \cup {n}) = Cardinality(W \ {k}) + 1
      BY <1>3, <1>4, <3>4, FS_AddElement
    <3>6. /\ IsFiniteSet(live' \cup Rotated')
          /\ Cardinality(live' \cup Rotated') <= Cardinality((W \ {k}) \cup {n})
      BY <3>3, <3>5, FS_Subset
    <3>7. Cardinality(live' \cup Rotated') \in Nat
      BY <3>6, FS_CardinalityType
    <3>. QED
      BY <1>1, <1>3, <2>0, <2>2, <3>4, <3>5, <3>6, <3>7
  <2>. QED
    BY <2>1, <2>2
<1>. QED
  BY <1>1, <1>5, <1>7 DEF CountKept

-----------------------------------------------------------------------------
(* The inductive invariant.                                                *)
IInv ==
  /\ Types /\ Orderly /\ BoundKept
  /\ RacesSeen /\ Untroubled
  /\ Revoking /\ CountKept

LEMMA InitIInv == Init => IInv
<1>. SUFFICES ASSUME Init
             PROVE  IInv
  OBVIOUS
<1>1. Types
  <2>1. call \in [Calls -> CallRecord]
    <3>1. NoCall \in CallRecord
      BY DEF NoCall, CallRecord
    <3>. QED
      BY <3>1 DEF Init
  <2>2. \A c \in Calls : call[c].sent = None /\ call[c].new = None
    BY DEF Init, NoCall
  <2>3. faults \in 0..MaxFaults
    BY AuthAssumption DEF AuthAssumption, Init
  <2>4. created \in Nat /\ live \subseteq 1..created /\ logins \in 0..created
    BY DEF Init
  <2>5. /\ cookie = None /\ raced \in BOOLEAN
        /\ token \in [Tabs -> {"none", "fresh", "expired"}]
        /\ \A t \in Tabs : token[t] = "none"
    BY DEF Init
  <2>. QED
    BY <2>1, <2>2, <2>3, <2>4, <2>5, Zenon DEF Types
<1>2. Orderly /\ RacesSeen /\ Revoking
  BY DEF Init, NoCall, Orderly, RacesSeen, Revoking
<1>3. BoundKept
  <2>1. Pending = {}
    BY DEF Init, NoCall, Pending
  <2>. QED
    BY <2>1, FS_EmptySet, AuthAssumption DEF AuthAssumption, BoundKept, Init
<1>4. Untroubled
  BY DEF Init, NoCall, Untroubled, AnswersFresh, CookieReplaced, LookUpsLive,
         RefusedForCause
<1>5. CountKept
  <2>1. live \cup Rotated = {}
    BY DEF Init, NoCall, Rotated
  <2>. QED
    BY <2>1, FS_EmptySet DEF CountKept, Init
<1>. QED
  BY <1>1, <1>2, <1>3, <1>4, <1>5 DEF IInv

LEMMA IInvStep == IInv /\ [Next]_vars => IInv'
<1>. SUFFICES ASSUME IInv, [Next]_vars
             PROVE  IInv'
  OBVIOUS
<1>1. Revoking' /\ CountKept'
  <2>1. CASE \E c \in Calls : CreateSession(c)
    BY <2>1, CountedAtCreation DEF IInv
  <2>2. CASE \A c \in Calls : ~CreateSession(c)
    BY <2>2, KeptByAll, KeptCounts DEF IInv
  <2>. QED
    BY <2>1, <2>2
<1>. QED
  BY <1>1, TypesStep, OrderlyStep, BoundStep, RacesStep, UntroubledStep DEF IInv

LEMMA Invariance == Spec => []IInv
BY InitIInv, IInvStep, PTL DEF Spec

(* Every variable keeps its type, the bound on sessions is kept, and no    *)
(* tab has an access token before the first session exists.                *)
THEOREM TypeCorrect == Spec => []TypeOK
<1>1. IInv => TypeOK
  <2>. SUFFICES ASSUME IInv
               PROVE  TypeOK
    OBVIOUS
  <2>1. created \in 0..NumSessions
    <3>1. Pending \subseteq Calls
      BY DEF Pending
    <3>2. Cardinality(Pending) \in Nat
      BY <3>1, PendingFinite
    <3>. QED
      BY <3>2, AuthAssumption DEF AuthAssumption, IInv, Types, BoundKept
  <2>2. call \in [Calls ->
          [purpose : {"none", "fetch", "mount", "login", "logout", "gone"},
           stage : {"none", "unauthorized", "lookup", "revoke", "create", "answer"},
           sent : 1..created \cup {None}, new : 1..created \cup {None},
           raced : BOOLEAN]]
    BY DEF IInv, Types, CallRecord
  <2>. QED
    BY <2>1, <2>2, Zenon DEF IInv, Types, TypeOK
<1>. QED
  BY <1>1, Invariance, PTL

(* While nothing has failed and no rotation is in flight, the cookie in    *)
(* the browser's jar is a live session, in whatever order the answers to   *)
(* refreshes, logins and logouts of all tabs have arrived.                 *)
THEOREM CookieStaysLive == Spec => []CookieLive
<1>1. IInv => CookieLive
  BY DEF IInv, Untroubled, CookieReplaced, Replaces, CookieLive, Rotating
<1>. QED
  BY <1>1, Invariance, PTL

(* A refresh that was sent a cookie is refused only after a fault, or      *)
(* because another refresh was sent the same cookie.                       *)
THEOREM NoRefusalWithoutCause == Spec => []RefusedForCause
<1>1. IInv => RefusedForCause
  <2>. SUFFICES ASSUME IInv, faults # 0
               PROVE  RefusedForCause
    BY DEF IInv, Untroubled
  <2>1. faults > 0
    BY DEF IInv, Types
  <2>. QED
    BY <2>1 DEF RefusedForCause
<1>. QED
  BY <1>1, Invariance, PTL

(* Rotation replaces sessions one for one: unless two refreshes have been  *)
(* in flight with one cookie, there are never more live sessions than      *)
(* logins, whatever fails.                                                 *)
THEOREM RotationReplaces == Spec => []RotationKeepsCount
<1>1. IInv => RotationKeepsCount
  <2>. SUFFICES ASSUME IInv, ~raced
               PROVE  Cardinality(live) <= logins
    BY DEF RotationKeepsCount
  <2>1. /\ Cardinality(live) \in Nat /\ Cardinality(live \cup Rotated) \in Nat
        /\ Cardinality(live) <= Cardinality(live \cup Rotated)
    BY KeptFinite DEF IInv
  <2>. QED
    BY <2>1 DEF IInv, CountKept, Types
<1>. QED
  BY <1>1, Invariance, PTL
=============================================================================
