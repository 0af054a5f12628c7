---------------------------- MODULE AuthSession ----------------------------
(***************************************************************************)
(* Refresh-token rotation between the dashboard and the server.  A browser *)
(* has one cookie jar and several tabs; a tab keeps its access token in a  *)
(* ref (AuthContext.jsx) and runs any number of authFetch calls.  A call   *)
(* that gets a 401 posts /auth/refresh with the cookie of that moment; the *)
(* server looks the session up, revokes it and creates its successor, each *)
(* an operation of its own (auth/service.py).  The new cookie is in place  *)
(* when the answer arrives, in whatever order answers arrive.              *)
(*                                                                         *)
(* Faults: an answer is lost, a tab is reloaded while it waits, a database *)
(* operation fails, a session expires.                                     *)
(***************************************************************************)
EXTENDS Integers, FiniteSets

CONSTANTS
  Tabs,
  Calls,       \* slots for calls that may be in flight at once
  TabOf,       \* the tab a slot belongs to
  None,
  NumSessions, \* bound: sessions created
  MaxFaults    \* bound: faults

Sessions == 1..NumSessions

ASSUME AuthAssumption ==
  /\ TabOf \in [Calls -> Tabs] /\ IsFiniteSet(Calls)
  /\ None \notin Nat /\ NumSessions \in Nat /\ MaxFaults \in Nat

VARIABLES
  live,    \* sessions that are neither revoked nor expired
  created, \* number of sessions created so far
  logins,  \* how many of them by login or register
  cookie,  \* the refresh cookie in the browser's jar
  token,   \* a tab's access token: none, fresh or expired
  call,    \* a tab's call: what waits for the answer (purpose), how far the
           \* server is (stage), the cookie that was sent, the new session,
           \* whether another refresh was sent the same cookie meanwhile
  faults,  \* number of faults so far
  raced    \* ghost: two refreshes were in flight with one cookie

vars == <<live, created, logins, cookie, token, call, faults, raced>>

NoCall == [purpose |-> "none", stage |-> "none", sent |-> None, new |-> None,
           raced |-> FALSE]

Init ==
  /\ live = {} /\ created = 0 /\ logins = 0
  /\ cookie = None
  /\ token = [t \in Tabs |-> "none"]
  /\ call = [c \in Calls |-> NoCall]
  /\ faults = 0 /\ raced = FALSE

Fault == faults < MaxFaults /\ faults' = faults + 1

Pending == {c \in Calls : call[c].stage \in {"lookup", "revoke", "create"}}
Bound == created + Cardinality(Pending) < NumSessions

Idle(c) == call[c] = NoCall
SetToken(c, v) == token' = [token EXCEPT ![TabOf[c]] = v]

-----------------------------------------------------------------------------
(* The dashboard.  authFetch with a fresh token succeeds at once;          *)
(* otherwise its 401 arrives some time later.                              *)
Fetch(c) ==
  /\ Idle(c) /\ token[TabOf[c]] # "fresh"
  /\ call' = [call EXCEPT ![c].purpose = "fetch", ![c].stage = "unauthorized"]
  /\ UNCHANGED <<live, created, logins, cookie, token, faults, raced>>

(* The cookie is read when the request leaves the browser.                 *)
Sharing(k) == {d \in Calls : call[d].sent = k /\ k # None}

PostRefresh(c, purpose) ==
  /\ Bound
  /\ call' = [d \in Calls |->
       IF d = c THEN [purpose |-> purpose, stage |-> "lookup", sent |-> cookie,
                      new |-> None, raced |-> Sharing(cookie) # {}]
       ELSE IF d \in Sharing(cookie) THEN [call[d] EXCEPT !.raced = TRUE]
       ELSE call[d]]
  /\ raced' = (raced \/ Sharing(cookie) # {})

Refresh(c) ==
  /\ call[c].stage = "unauthorized"
  /\ PostRefresh(c, "fetch")
  /\ UNCHANGED <<live, created, logins, cookie, token, faults>>

(* The provider is mounted again: the tab's token and its waiting calls    *)
(* are gone, and a first refresh is sent.                                  *)
Forget(c) ==
  IF call[c].stage \in {"none", "unauthorized"} THEN NoCall
  ELSE [call[c] EXCEPT !.purpose = "gone"]

Reload(t) ==
  /\ token[t] # "none" \/ \E c \in Calls : TabOf[c] = t /\ ~Idle(c)
  /\ token' = [token EXCEPT ![t] = "none"]
  /\ call' = [c \in Calls |-> IF TabOf[c] = t THEN Forget(c) ELSE call[c]]
  /\ IF \E c \in Calls : TabOf[c] = t /\ Forget(c) # NoCall THEN Fault
     ELSE UNCHANGED faults
  /\ UNCHANGED <<live, created, logins, cookie, raced>>

Mount(c) ==
  /\ Idle(c) /\ token[TabOf[c]] = "none"
  /\ PostRefresh(c, "mount")
  /\ UNCHANGED <<live, created, logins, cookie, token, faults>>

Login(c) ==
  /\ Idle(c) /\ token[TabOf[c]] = "none" /\ Bound
  /\ call' = [call EXCEPT ![c].purpose = "login", ![c].stage = "create"]
  /\ UNCHANGED <<live, created, logins, cookie, token, faults, raced>>

(* The cookie is restricted to /auth/refresh, so the request carries none  *)
(* and the server revokes nothing.                                         *)
Logout(c) ==
  /\ Idle(c) /\ token[TabOf[c]] # "none"
  /\ call' = [call EXCEPT ![c].purpose = "logout", ![c].stage = "answer"]
  /\ UNCHANGED <<live, created, logins, cookie, token, faults, raced>>

-----------------------------------------------------------------------------
(* The server (service.refresh, service.login).                            *)
LookUp(c) ==
  /\ call[c].stage = "lookup"
  /\ call' = [call EXCEPT ![c].stage =
                IF call[c].sent \in live THEN "revoke" ELSE "answer"]
  /\ UNCHANGED <<live, created, logins, cookie, token, faults, raced>>

Revoked_All(k) == live  \* faulty: every session of the user
Revoked_None(k) == {}   \* faulty: the old token stays valid
Revoked(k) == {k}

RevokeOld(c) ==
  /\ call[c].stage = "revoke"
  /\ live' = live \ Revoked(call[c].sent)
  /\ call' = [call EXCEPT ![c].stage = "create"]
  /\ UNCHANGED <<created, logins, cookie, token, faults, raced>>

CreateSession(c) ==
  /\ call[c].stage = "create"
  /\ created' = created + 1
  /\ live' = live \cup {created + 1}
  /\ logins' = logins + (IF call[c].sent = None THEN 1 ELSE 0)
  /\ call' = [call EXCEPT ![c].stage = "answer", ![c].new = created + 1]
  /\ UNCHANGED <<cookie, token, faults, raced>>

DatabaseFails(c) ==
  /\ call[c].stage \in {"lookup", "revoke", "create"}
  /\ call' = [call EXCEPT ![c].stage = "answer"]
  /\ Fault
  /\ UNCHANGED <<live, created, logins, cookie, token, raced>>

SessionExpires(s) ==
  /\ s \in live
  /\ live' = live \ {s} /\ Fault
  /\ UNCHANGED <<created, logins, cookie, token, call, raced>>

AccessTokenExpires(t) ==
  /\ token[t] = "fresh"
  /\ token' = [token EXCEPT ![t] = "expired"]
  /\ UNCHANGED <<live, created, logins, cookie, call, faults, raced>>

-----------------------------------------------------------------------------
(* The answer.  The browser stores the cookie, then the tab goes on.       *)
NewCookie_Kept(c) == \* faulty: auth_refresh does not set the cookie
  IF call[c].purpose = "login" THEN call[c].new ELSE cookie
NewCookie(c) == call[c].new

Ok_Unchecked(c) == call[c].stage = "answer" \* faulty: res.ok is not checked
Ok(c) == call[c].stage = "answer" /\ call[c].new # None

Succeeds(c) ==
  /\ Ok(c) /\ call[c].purpose \notin {"gone", "logout"}
  /\ cookie' = NewCookie(c)
  /\ SetToken(c, "fresh")
  /\ call' = [call EXCEPT ![c] = NoCall]
  /\ UNCHANGED <<live, created, logins, faults, raced>>

(* Not ok, or no answer: a refresh by authFetch clears the token whatever  *)
(* another call has put there; the one at mount and a failed login do not. *)
ClearsToken(c) == call[c].purpose = "fetch"

Fails(c) ==
  /\ call[c].stage = "answer" /\ call[c].new = None
  /\ call[c].purpose \in {"fetch", "mount", "login"}
  /\ IF ClearsToken(c) THEN SetToken(c, "none") ELSE UNCHANGED token
  /\ call' = [call EXCEPT ![c] = NoCall]
  /\ UNCHANGED <<live, created, logins, cookie, faults, raced>>

LoggedOut(c) ==
  /\ call[c].purpose = "logout"
  /\ cookie' = None
  /\ SetToken(c, "none")
  /\ call' = [call EXCEPT ![c] = NoCall]
  /\ UNCHANGED <<live, created, logins, faults, raced>>

(* The network fails; the server does not notice.                          *)
AnswerLost(c) ==
  /\ call[c].stage \in {"lookup", "revoke", "create", "answer"}
  /\ call[c].purpose # "gone"
  /\ call' = [call EXCEPT ![c].purpose = "gone"]
  /\ IF ClearsToken(c) \/ call[c].purpose = "logout" THEN SetToken(c, "none")
     ELSE UNCHANGED token
  /\ Fault
  /\ UNCHANGED <<live, created, logins, cookie, raced>>

Unheard(c) ==
  /\ call[c].purpose = "gone" /\ call[c].stage = "answer"
  /\ call' = [call EXCEPT ![c] = NoCall]
  /\ UNCHANGED <<live, created, logins, cookie, token, faults, raced>>

Next ==
  \/ \E c \in Calls :
       \/ Fetch(c) \/ Refresh(c) \/ Mount(c) \/ Login(c) \/ Logout(c)
       \/ LookUp(c) \/ RevokeOld(c) \/ CreateSession(c) \/ DatabaseFails(c)
       \/ Succeeds(c) \/ Fails(c) \/ LoggedOut(c) \/ AnswerLost(c) \/ Unheard(c)
  \/ \E t \in Tabs : Reload(t) \/ AccessTokenExpires(t)
  \/ \E s \in Sessions : SessionExpires(s)

Spec == Init /\ [][Next]_vars

-----------------------------------------------------------------------------
(* Types; and no tab has an access token before the first session exists.  *)
TypeOK ==
  /\ live \subseteq 1..created /\ created \in 0..NumSessions
  /\ logins \in 0..created /\ cookie \in 1..created \cup {None}
  /\ token \in [Tabs -> {"none", "fresh", "expired"}]
  /\ created = 0 => \A t \in Tabs : token[t] = "none"
  /\ faults \in 0..MaxFaults /\ raced \in BOOLEAN
  /\ call \in [Calls ->
       [purpose : {"none", "fetch", "mount", "login", "logout", "gone"},
        stage : {"none", "unauthorized", "lookup", "revoke", "create", "answer"},
        sent : 1..created \cup {None}, new : 1..created \cup {None},
        raced : BOOLEAN]]

(* While no rotation is in flight and no fault has happened, the browser's *)
(* cookie is a live session: concurrent refreshes, logins and logouts may  *)
(* answer in any order without leaving a revoked token in the jar.         *)
Rotating(c) == call[c].sent # None
CookieLive ==
  /\ faults = 0
  /\ cookie # None
  /\ \A c \in Calls : ~Rotating(c)
  => cookie \in live

(* A refresh that had a cookie to send is refused only after a fault or    *)
(* because another one was sent the same cookie (refresh, authFetch).      *)
RefusedForCause ==
  \A c \in Calls :
    call[c].stage = "answer" /\ call[c].sent # None /\ call[c].new = None
    => faults > 0 \/ call[c].raced

(* Rotation does not multiply sessions: there are more live sessions than  *)
(* logins only after two refreshes raced with one cookie.                  *)
RotationKeepsCount == ~raced => Cardinality(live) <= logins
=============================================================================
