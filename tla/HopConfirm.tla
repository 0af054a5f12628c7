----------------------------- MODULE HopConfirm -----------------------------
(***************************************************************************)
(* The agent's confirmation pipeline (agent/agent.py).                     *)
(*                                                                         *)
(* Four kinds of threads share state without a common lock:                *)
(*   - the child (through the Win32 hook) moves the foreground window;     *)
(*   - the event processor drains the HWND queue and runs                  *)
(*     _process_foreground_change, one lock region after the other;        *)
(*   - scanner threads and the clipboard monitor detect lures and submit   *)
(*     them to a pool of Workers classify-dispatch threads;                *)
(*   - a dispatch thread parks a lure the server calls a hop and then      *)
(*     tries to confirm it late against a switch that already happened.    *)
(* A step of the model is one lock region, or one read or write of shared  *)
(* state, of one thread.                                                   *)
(*                                                                         *)
(* A window is represented by the process that owns it.  A lure stands for *)
(* one URL within one lifetime of its entry in _url_seen_global (300 s),   *)
(* so it is detected at most once.                                         *)
(***************************************************************************)
EXTENDS Integers, Sequences, FiniteSets

CONSTANTS
  Lures,        \* URLs that the detectors may come across
  Games,        \* processes for which _is_game holds
  Transit,      \* _transit_processes (shells on the way to somewhere)
  Browsers,     \* _browser_processes
  PlatformApps, \* _platform_app_procs
  OtherApps,    \* every other process: editors, tools, ...
  Unknown,      \* "unknown.exe": the window's process is gone
  AppOf,        \* AppOf[l]: the native apps of the platform of l
  StartProcs,   \* what may own the foreground when run() starts
  Workers,      \* size of the classify-dispatch pool (2 in run())
  LateMaxAge,   \* _LATE_CONFIRM_MAX_AGE, in ticks
  MaxNow,       \* bound: ticks of the clock
  MaxMoves,     \* bound: foreground changes by the child
  MayStop,      \* bound: whether the agent may be shut down
  NoProc,       \* no process / no game
  Ep            \* the event-processor thread

Procs == Games \cup Transit \cup Browsers \cup PlatformApps \cup OtherApps
           \cup {Unknown}

ASSUME ProcAssumption ==
  /\ NoProc \notin Procs
  /\ Unknown \notin Games \cup Transit \cup Browsers \cup PlatformApps
  /\ StartProcs \subseteq Procs
  /\ AppOf \in [Lures -> SUBSET Procs]
ASSUME ThreadAssumption == Ep \notin Lures
ASSUME NumAssumption ==
  /\ Workers \in Nat \ {0}
  /\ LateMaxAge \in Nat /\ MaxNow \in Nat /\ MaxMoves \in Nat
  /\ MayStop \in BOOLEAN

VARIABLES
  now,       \* time.monotonic()
  up,        \* FALSE once run()'s finally block has executed
  fg,        \* the foreground window
  moves,     \* foreground changes so far (bounds the model)
  evq,       \* _hwnd_event_queue
  prev,      \* _prev_proc
  ep,        \* where the event processor is in _process_foreground_change
  pending,   \* keys of _pending_hop_attempts
  last,      \* _last_non_game_switch: [to, at], to = NoProc for None
  curGame,   \* _current_game
  initial,   \* game of the scanner that run() itself starts, or NoProc
  tracked,   \* game of the running thread in _scanner_thread, or NoProc
  stale,     \* games a told-to-stop scanner, or a clipboard monitor that
             \* read _current_game earlier, may still report a lure from
  poolq,     \* tasks submitted to _classify_pool, not started
  task,      \* where the dispatch of each lure is in _decide_and_send
  game,      \* game_proc argument of the task
  at,        \* detected_at argument of the task
  snap,      \* lures a thread has taken from pending and not yet confirmed
  dest,      \* the switch a thread is confirming against, or NoSwitch
  hop,       \* confirmations of each lure: [to, via, since]
  plain,     \* plain "foreground_hook" hops reported, as <<from, to>>
  cleared    \* lures dropped as false alarms (the log line of the code)

childVars  == <<fg, moves>>
epVars     == <<evq, prev, ep, plain>>
scanVars   == <<curGame, initial, tracked, stale>>
lureVars   == <<game, at>>
clockVars  == <<now, up>>
vars == <<childVars, epVars, scanVars, lureVars, clockVars, pending, last,
          poolq, task, snap, dest, hop, cleared>>

Threads == Lures \cup {Ep}

(* States of a dispatch task.  "safe" is a task whose verdict was NO or    *)
(* whose request failed; the states after "classifying" follow a YES.      *)
Running   == {"classifying", "check1", "check2", "drain", "confirm"}
TaskState == Running \cup {"unseen", "queued", "safe", "done", "cancelled"}
Parked(l) == task[l] \in {"check1", "check2", "drain", "confirm", "done"}

IsDestination(p) == p \in Browsers \cup PlatformApps
NonGameSwitch(p) == p \notin Games /\ p \notin Transit

(* _current_game, and the thread in _scanner_thread, once p is in front.   *)
GameOrNone_Any(p) == p \* faulty: any process counts as a game
GameOrNone(p) == IF p \in Games THEN p ELSE NoProc

ScannerFor(p) == IF p \in Games THEN p ELSE NoProc

(* The click-confidence tier that _confirm_pending starts with.            *)
Tier(l, p) == IF p \in AppOf[l] THEN "app_match"
              ELSE IF p \in Browsers THEN "polling"
              ELSE "switch_only"
Tiers == {"app_match", "polling", "title_match", "browser_switch",
          "switch_only", "lost"}

NoSwitch == [to |-> NoProc, at |-> 0]
Switch == [to : Procs \cup {NoProc}, at : 0..MaxNow]
Hop    == [to : Procs, via : Tiers, since : 0..MaxNow]

-----------------------------------------------------------------------------
(* run(): the foreground is sampled, then the hook is installed, so fg may *)
(* already differ from prev.  A game in the foreground gets a scanner that *)
(* is not stored in _scanner_thread.                                       *)
Init ==
  /\ now = 0 /\ up = TRUE /\ moves = 0
  /\ prev \in StartProcs /\ fg \in StartProcs
  /\ evq = <<>> /\ ep = "idle" /\ plain = {}
  /\ pending = {} /\ cleared = {}
  /\ last = NoSwitch
  /\ curGame = GameOrNone(prev)
  /\ initial = curGame
  /\ tracked = NoProc /\ stale = {}
  /\ poolq = <<>>
  /\ task = [l \in Lures |-> "unseen"]
  /\ game = [l \in Lures |-> NoProc]
  /\ at = [l \in Lures |-> 0]
  /\ snap = [a \in Threads |-> {}]
  /\ dest = [a \in Threads |-> NoSwitch]
  /\ hop = [l \in Lures |-> <<>>]

-----------------------------------------------------------------------------
(* Environment.                                                            *)

Tick ==
  /\ now < MaxNow
  /\ now' = now + 1
  /\ UNCHANGED <<up, childVars, epVars, scanVars, lureVars, pending, last,
                 poolq, task, snap, dest, hop, cleared>>

(* The child brings another window to the front; _on_foreground_change     *)
(* only enqueues it.                                                       *)
ChildSwitch(p) ==
  /\ up /\ p # fg /\ moves < MaxMoves
  /\ fg' = p /\ moves' = moves + 1
  /\ evq' = Append(evq, p)
  /\ UNCHANGED <<prev, ep, plain, scanVars, lureVars, clockVars, pending,
                 last, poolq, task, snap, dest, hop, cleared>>

(* Ctrl-C: the finally block of run().  Queued tasks are cancelled; the    *)
(* running ones, and the events already queued, may still be processed.    *)
Shutdown ==
  /\ up /\ MayStop
  /\ up' = FALSE
  /\ poolq' = <<>>
  /\ task' = [l \in Lures |->
                IF task[l] = "queued" THEN "cancelled" ELSE task[l]]
  /\ UNCHANGED <<now, childVars, epVars, scanVars, lureVars, pending, last,
                 snap, dest, hop, cleared>>

-----------------------------------------------------------------------------
(* Detection.                                                              *)

(* Games whose chat some detector may be reading at this moment.           *)
Observed == ({initial, tracked, curGame} \ {NoProc}) \cup stale

(* _scanner_loop and _clipboard_monitor_loop: the URL is new to            *)
(* _url_seen_global, so it is time-stamped and submitted to the pool.      *)
Detect(l, g) ==
  /\ up /\ g \in Observed
  /\ task[l] = "unseen"
  /\ task' = [task EXCEPT ![l] = "queued"]
  /\ game' = [game EXCEPT ![l] = g]
  /\ at' = [at EXCEPT ![l] = now]
  /\ poolq' = Append(poolq, l)
  /\ UNCHANGED <<clockVars, childVars, epVars, scanVars, pending, last, snap,
                 dest, hop, cleared>>

(* A stopped scanner leaves its loop; a stale clipboard pass ends.         *)
DetectorStops(g) ==
  /\ g \in stale
  /\ stale' = stale \ {g}
  /\ UNCHANGED <<curGame, initial, tracked, clockVars, childVars, epVars,
                 lureVars, pending, last, poolq, task, snap, dest, hop,
                 cleared>>

-----------------------------------------------------------------------------
(* _process_foreground_change, on the event-processor thread.              *)

(* A window that is no longer in front may have been closed by now.        *)
Resolve(w) == IF w = fg THEN {w} ELSE {w, Unknown}

(* Same process as before: the event is dropped.                           *)
HandleSame ==
  /\ ep = "idle" /\ evq # <<>>
  /\ prev \in Resolve(Head(evq))
  /\ evq' = Tail(evq)
  /\ UNCHANGED <<prev, ep, plain, clockVars, childVars, scanVars, lureVars,
                 pending, last, poolq, task, snap, dest, hop, cleared>>

(* What a switch to p takes out of the pending store to confirm it, and    *)
(* what it leaves there.                                                   *)
TakenBy_DestinationsOnly(p) == IF IsDestination(p) THEN pending ELSE {} \* faulty
TakenBy(p) == IF NonGameSwitch(p) THEN pending ELSE {}

LeftBy_ClearsOnGameOnly(p) == IF p \in Games THEN {} ELSE pending \* faulty
LeftBy(p) == IF p \in Transit THEN pending ELSE {}

(* Snapshot and clear the pending store, unless the process is a transit   *)
(* shell.  A game turns the snapshot into false alarms.                    *)
HandleSwitch(p) ==
  /\ ep = "idle" /\ evq # <<>>
  /\ p \in Resolve(Head(evq)) /\ p # prev
  /\ evq' = Tail(evq)
  /\ ep' = "confirm"
  /\ dest' = [dest EXCEPT ![Ep] = [to |-> p, at |-> now]]
  /\ pending' = LeftBy(p)
  /\ snap' = [snap EXCEPT ![Ep] = TakenBy(p)]
  /\ cleared' = IF p \in Games /\ p \notin Transit THEN cleared \cup pending
                ELSE cleared
  /\ UNCHANGED <<prev, plain, clockVars, childVars, scanVars, lureVars, last,
                 poolq, task, hop>>

(* Record the switch for _try_late_confirm.                                *)
RecordSwitch ==
  /\ ep = "confirm" /\ snap[Ep] = {}
  /\ ep' = "lifecycle"
  /\ last' = IF NonGameSwitch(dest[Ep].to)
             THEN [to |-> dest[Ep].to, at |-> now] ELSE last
  /\ UNCHANGED <<evq, prev, plain, clockVars, childVars, scanVars, lureVars,
                 pending, poolq, task, snap, dest, hop, cleared>>

(* Stop the tracked scanner; start one on game entry, report a plain hop   *)
(* on leaving a game; remember the process.                                *)
FinishSwitch ==
  LET p == dest[Ep].to IN
  /\ ep = "lifecycle"
  /\ ep' = "idle"
  /\ curGame' = GameOrNone(p)
  /\ tracked' = ScannerFor(p)
  /\ stale' = stale \cup ({tracked, curGame} \ {NoProc})
  /\ plain' = IF NonGameSwitch(p) /\ prev \in Games
              THEN plain \cup {<<prev, p>>} ELSE plain
  /\ prev' = p
  /\ dest' = [dest EXCEPT ![Ep] = NoSwitch]
  /\ UNCHANGED <<evq, initial, clockVars, childVars, lureVars, pending, last,
                 poolq, task, snap, hop, cleared>>

-----------------------------------------------------------------------------
(* _decide_and_send, on a classify-dispatch thread.                        *)

TaskMoves(l, from, to) ==
  /\ task[l] = from
  /\ task' = [task EXCEPT ![l] = to]

Busy == Cardinality({l \in Lures : task[l] \in Running})
FreeWorker == Busy < Workers

StartTask(l) ==
  /\ poolq # <<>> /\ l = Head(poolq)
  /\ FreeWorker
  /\ TaskMoves(l, "queued", "classifying")
  /\ poolq' = Tail(poolq)
  /\ UNCHANGED <<clockVars, childVars, epVars, scanVars, lureVars, pending,
                 last, snap, dest, hop, cleared>>

(* The verdict is NO, or the request failed and the URL counts as safe.    *)
ClassifySafe(l) ==
  /\ TaskMoves(l, "classifying", "safe")
  /\ UNCHANGED <<clockVars, childVars, epVars, scanVars, lureVars, pending,
                 last, poolq, snap, dest, hop, cleared>>

(* The verdict is YES: the lure is parked under _pending_lock.             *)
ClassifyHop(l) ==
  /\ TaskMoves(l, "classifying", "check1")
  /\ pending' = pending \cup {l}
  /\ UNCHANGED <<clockVars, childVars, epVars, scanVars, lureVars, last,
                 poolq, snap, dest, hop, cleared>>

(* Check 1 of _try_late_confirm: the recorded switch.                      *)
SwitchQualifies_AnyAge(l) == \* faulty: the switch may predate the lure
  last.to # NoProc /\ now - last.at <= LateMaxAge /\ IsDestination(last.to)
SwitchQualifies(l) ==
  /\ last.to # NoProc
  /\ now - last.at <= LateMaxAge
  /\ last.at >= at[l]
  /\ IsDestination(last.to)

CheckRecordedSwitch(l) ==
  /\ TaskMoves(l, "check1", IF SwitchQualifies(l) THEN "drain" ELSE "check2")
  /\ dest' = [dest EXCEPT ![l] = IF SwitchQualifies(l) THEN last ELSE @]
  /\ UNCHANGED <<clockVars, childVars, epVars, scanVars, lureVars, pending,
                 last, poolq, snap, hop, cleared>>

(* Check 2: the window in front right now.                                 *)
ForegroundQualifies_AppsOnly(l) == \* faulty: browsers are forgotten
  NonGameSwitch(fg) /\ fg # game[l] /\ fg \in PlatformApps
ForegroundQualifies(l) ==
  NonGameSwitch(fg) /\ fg # game[l] /\ IsDestination(fg)

AfterForeground_Waits(l) == \* faulty: waits until the child gets there
  IF ForegroundQualifies(l) THEN "drain" ELSE "check2"
AfterForeground(l) == IF ForegroundQualifies(l) THEN "drain" ELSE "done"

CheckForeground(l) ==
  /\ TaskMoves(l, "check2", AfterForeground(l))
  /\ dest' = [dest EXCEPT ![l] = IF ForegroundQualifies(l)
                                 THEN [to |-> fg, at |-> now] ELSE @]
  /\ UNCHANGED <<clockVars, childVars, epVars, scanVars, lureVars, pending,
                 last, poolq, snap, hop, cleared>>

(* _drain_and_confirm: take everything that is parked, whoever parked it.  *)
DrainPending(l) ==
  /\ TaskMoves(l, "drain", "confirm")
  /\ snap' = [snap EXCEPT ![l] = pending]
  /\ pending' = {}
  /\ UNCHANGED <<clockVars, childVars, epVars, scanVars, lureVars, last,
                 poolq, dest, hop, cleared>>

FinishTask(l) ==
  /\ snap[l] = {}
  /\ TaskMoves(l, "confirm", "done")
  /\ dest' = [dest EXCEPT ![l] = NoSwitch]
  /\ UNCHANGED <<clockVars, childVars, epVars, scanVars, lureVars, pending,
                 last, poolq, snap, hop, cleared>>

-----------------------------------------------------------------------------
(* _confirm_pending: one lure of the snapshot of thread a.  The event goes *)
(* to the send queue at once, or after a browser-title poll.               *)
Confirm(a, l) ==
  /\ l \in snap[a]
  /\ snap' = [snap EXCEPT ![a] = @ \ {l}]
  /\ hop' = [hop EXCEPT ![l] = Append(@, [to    |-> dest[a].to,
                                          via   |-> Tier(l, dest[a].to),
                                          since |-> dest[a].at])]
  /\ UNCHANGED <<clockVars, childVars, epVars, scanVars, lureVars, pending,
                 last, poolq, task, dest, cleared>>

(* _poll_browser_title, for a confirmation h that waits for it: the title  *)
(* matches; the time is over, or the window is gone, and the switch alone  *)
(* is reported; or the agent is stopping and nothing is sent.              *)
PollResults_MatchOnly(h) == IF fg = h.to THEN {"title_match"} ELSE {} \* faulty
PollResults(h) == {"title_match", "browser_switch"} \cup
                    (IF up THEN {} ELSE {"lost"})

PollEnds(l) ==
  /\ \E i \in DOMAIN hop[l] :
       /\ hop[l][i].via = "polling"
       /\ \E via \in PollResults(hop[l][i]) :
            hop' = [hop EXCEPT ![l][i].via = via]
  /\ UNCHANGED <<clockVars, childVars, epVars, scanVars, lureVars, pending,
                 last, poolq, task, snap, dest, cleared>>

-----------------------------------------------------------------------------
EpStep ==
  \/ HandleSame
  \/ \E p \in Procs : HandleSwitch(p)
  \/ \E l \in Lures : Confirm(Ep, l)
  \/ RecordSwitch
  \/ FinishSwitch

TaskStep(l) ==
  \/ StartTask(l)
  \/ ClassifySafe(l)
  \/ ClassifyHop(l)
  \/ CheckRecordedSwitch(l)
  \/ CheckForeground(l)
  \/ DrainPending(l)
  \/ \E m \in Lures : Confirm(l, m)
  \/ FinishTask(l)

Next ==
  \/ Tick
  \/ \E p \in Procs \ {Unknown} : ChildSwitch(p)
  \/ Shutdown
  \/ \E l \in Lures, g \in Games : Detect(l, g)
  \/ \E g \in Games : DetectorStops(g)
  \/ EpStep
  \/ \E l \in Lures : TaskStep(l) \/ PollEnds(l)

Spec == Init /\ [][Next]_vars

(* The event processor and the pool workers are threads that the OS        *)
(* schedules; the classify request has an 8 s timeout and the title poll a *)
(* 10 s deadline, so each of their steps ends.  Neither the child nor the  *)
(* detectors owe anything.                                                 *)
(* After shutdown the daemon threads may die at any point.                 *)
Fairness ==
  /\ WF_vars(up /\ EpStep)
  /\ \A l \in Lures : WF_vars(up /\ TaskStep(l)) /\ WF_vars(up /\ PollEnds(l))

FairSpec == Spec /\ Fairness

-----------------------------------------------------------------------------
(* Every variable stays in its range.                                      *)
TypeOK ==
  /\ now \in 0..MaxNow /\ up \in BOOLEAN
  /\ fg \in Procs /\ prev \in Procs /\ moves \in 0..MaxMoves
  /\ evq \in Seq(Procs)
  /\ ep \in {"idle", "confirm", "lifecycle"}
  /\ pending \in SUBSET Lures /\ cleared \in SUBSET Lures
  /\ last \in Switch
  /\ curGame \in Games \cup {NoProc} /\ initial \in Games \cup {NoProc}
  /\ tracked \in Games \cup {NoProc} /\ stale \in SUBSET Games
  /\ poolq \in Seq(Lures)
  /\ task \in [Lures -> TaskState]
  /\ game \in [Lures -> Games \cup {NoProc}]
  /\ at \in [Lures -> 0..MaxNow]
  /\ snap \in [Threads -> SUBSET Lures]
  /\ dest \in [Threads -> Switch]
  /\ hop \in [Lures -> Seq(Hop)]
  /\ plain \in SUBSET (Procs \X Procs)

(* However the event processor and the dispatch threads interleave their   *)
(* snapshots of _pending_hop_attempts, a lure is confirmed at most once,   *)
(* never while it is still parked or held by a second thread, and never    *)
(* after it was dropped as a false alarm ("exactly one caller wins the     *)
(* snapshot", agent.py:991).                                               *)
NoDoubleConfirmation ==
  \A l \in Lures :
    /\ Len(hop[l]) <= 1
    /\ hop[l] # <<>> => l \notin pending \cup cleared
    /\ l \in pending => l \notin cleared
    /\ \A a \in Threads : l \in snap[a] =>
         /\ hop[l] = <<>> /\ l \notin pending \cup cleared
         /\ \A b \in Threads : l \in snap[b] => a = b

(* A lure the server called a hop never gets lost between the threads: it  *)
(* is parked, in the hands of a thread, confirmed, or dropped because the  *)
(* child returned to a game; and nothing else is ever in those places.     *)
NoLureLost ==
  \A l \in Lures :
    Parked(l) <=> \/ l \in pending \cup cleared
                  \/ \E a \in Threads : l \in snap[a]
                  \/ hop[l] # <<>>

(* When everything has settled and the child is on a browser or a chat     *)
(* app, no lure is left parked: whichever of the event processor and the   *)
(* late confirm came first, one of them saw the switch.                    *)
Settled == ep = "idle" /\ evq = <<>>
             /\ \A l \in Lures : task[l] \notin Running \cup {"queued"}
NoLureLeftOnDestination ==
  Settled /\ NonGameSwitch(fg) /\ IsDestination(fg) /\ up => pending = {}

(* Lures that one thread confirms together share one switch.  It may       *)
(* precede the detection of some of them, but never of all the lures that  *)
(* were parked by then (_try_late_confirm looks at the age of one lure and *)
(* drains all of them, agent.py:1049-1060).                                *)
SwitchFollowsSomeLure ==
  \A l \in Lures : \A i \in DOMAIN hop[l] :
    \E m \in Lures : Parked(m) /\ hop[l][i].since >= at[m]

(* Every detected lure's dispatch ends, however long the pool's queue is.  *)
EveryDispatchEnds ==
  \A l \in Lures : task[l] = "queued" ~>
    (task[l] \in {"safe", "done", "cancelled"} \/ ~up)

(* Every lure taken from the store becomes an event in the send queue with *)
(* its final tier, unless the agent is stopped first.                      *)
EveryConfirmationIsSent ==
  \A l \in Lures :
    (\E a \in Threads : l \in snap[a]) ~>
      (~up \/ (hop[l] # <<>> /\ hop[l][1].via # "polling"))
=============================================================================
