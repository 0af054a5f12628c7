-------------------------- MODULE HopConfirmProofs --------------------------
(***************************************************************************)
(* Proofs about HopConfirm: its type invariant; that every lure the server *)
(* calls a hop is at any time in exactly one place; that none is left      *)
(* behind while the child is on a destination; and that no confirmation    *)
(* uses a switch that is older than all the lures.                         *)
(***************************************************************************)
EXTENDS HopConfirm, SequenceTheorems, TLAPS

(* The locals of a thread are set before they are used: a thread holds     *)
(* lures only while it confirms them, and then it knows the destination.   *)
Locals ==
  /\ ep \in {"confirm", "lifecycle"} => dest[Ep].to \in Procs
  /\ ep # "confirm" => snap[Ep] = {}
  /\ \A l \in Lures :
       /\ task[l] \in {"drain", "confirm"} => dest[l].to \in Procs
       /\ task[l] # "confirm" => snap[l] = {}

LEMMA ExceptHop ==
  ASSUME NEW s \in Seq(Hop), NEW i \in DOMAIN s, NEW v \in Tiers
  PROVE  /\ [s EXCEPT ![i].via = v] \in Seq(Hop)
         /\ Len([s EXCEPT ![i].via = v]) = Len(s)
<1>1. s[i] \in Hop
  BY ElementOfSeq
<1>2. [s[i] EXCEPT !.via = v] \in Hop
  BY <1>1 DEF Hop
<1>. QED
  BY <1>2, ExceptSeq

(* TypeOK and Locals together are inductive.                               *)
LEMMA TypeStep == TypeOK /\ Locals /\ [Next]_vars => TypeOK' /\ Locals'
<1>. SUFFICES ASSUME TypeOK, Locals, [Next]_vars
             PROVE  TypeOK' /\ Locals'
  OBVIOUS
<1>. USE DEF childVars, epVars, scanVars, lureVars, clockVars
<1>1. CASE Tick
  <2>1. TypeOK'
    BY <1>1, NumAssumption DEF TypeOK, Locals, Tick, NumAssumption
  <2>2. Locals'
    BY <1>1 DEF TypeOK, Locals, Tick
  <2>. QED
    BY <2>1, <2>2
<1>2. ASSUME NEW p \in Procs \ {Unknown}, ChildSwitch(p)
      PROVE  TypeOK' /\ Locals'
  <2>1. TypeOK'
    BY <1>2, NumAssumption DEF TypeOK, Locals, ChildSwitch, NumAssumption
  <2>2. Locals'
    BY <1>2 DEF TypeOK, Locals, ChildSwitch
  <2>. QED
    BY <2>1, <2>2
<1>3. CASE Shutdown
  <2>1. TypeOK'
    <3>1. task' \in [Lures -> TaskState]
      BY <1>3 DEF TypeOK, Shutdown, TaskState, Running
    <3>2. up' \in BOOLEAN /\ poolq' = <<>> /\ <<>> \in Seq(Lures)
      BY <1>3, EmptySeq DEF Shutdown
    <3>. QED
      BY <1>3, <3>1, <3>2 DEF TypeOK, Shutdown
  <2>2. Locals'
    BY <1>3 DEF TypeOK, Locals, Shutdown
  <2>. QED
    BY <2>1, <2>2
<1>4. ASSUME NEW l \in Lures, NEW g \in Games, Detect(l, g)
      PROVE  TypeOK' /\ Locals'
  <2>1. TypeOK'
    BY <1>4 DEF TypeOK, Locals, Detect, TaskState
  <2>2. Locals'
    BY <1>4 DEF TypeOK, Locals, Detect
  <2>. QED
    BY <2>1, <2>2
<1>5. ASSUME NEW g \in Games, DetectorStops(g)
      PROVE  TypeOK' /\ Locals'
  <2>1. TypeOK'
    BY <1>5 DEF TypeOK, Locals, DetectorStops
  <2>2. Locals'
    BY <1>5 DEF TypeOK, Locals, DetectorStops
  <2>. QED
    BY <2>1, <2>2
<1>6. CASE HandleSame
  <2>1. TypeOK'
    BY <1>6 DEF TypeOK, Locals, HandleSame
  <2>2. Locals'
    BY <1>6 DEF TypeOK, Locals, HandleSame
  <2>. QED
    BY <2>1, <2>2
<1>7. ASSUME NEW p \in Procs, HandleSwitch(p)
      PROVE  TypeOK' /\ Locals'
  <2>1. TypeOK'
    BY <1>7, ProcAssumption DEF TypeOK, Locals, HandleSwitch, ProcAssumption, Switch, NonGameSwitch, TakenBy, LeftBy, Threads
  <2>2. Locals'
    BY <1>7, ThreadAssumption
    DEF TypeOK, Locals, HandleSwitch, Threads, ThreadAssumption, Switch
  <2>. QED
    BY <2>1, <2>2
<1>8. CASE RecordSwitch
  <2>1. TypeOK'
    BY <1>8, ProcAssumption DEF TypeOK, Locals, RecordSwitch, ProcAssumption, Switch, NonGameSwitch
  <2>2. Locals'
    BY <1>8 DEF TypeOK, Locals, RecordSwitch
  <2>. QED
    BY <2>1, <2>2
<1>9. CASE FinishSwitch
  <2>1. TypeOK'
    <3>1. NoSwitch \in Switch
      BY NumAssumption DEF NumAssumption, NoSwitch, Switch
    <3>2. dest' \in [Threads -> Switch]
      BY <1>9, <3>1 DEF TypeOK, FinishSwitch, Threads
    <3>3. prev' \in Procs
      BY <1>9 DEF Locals, FinishSwitch
    <3>4. plain' \in SUBSET (Procs \X Procs)
      BY <1>9 DEF TypeOK, Locals, FinishSwitch
    <3>5. /\ curGame' \in Games \cup {NoProc}
          /\ tracked' \in Games \cup {NoProc}
          /\ stale' \in SUBSET Games
      BY <1>9 DEF TypeOK, FinishSwitch, GameOrNone, ScannerFor
    <3>. QED
      BY <1>9, <3>2, <3>3, <3>4, <3>5 DEF TypeOK, FinishSwitch
  <2>2. Locals'
    BY <1>9, ThreadAssumption
    DEF TypeOK, Locals, FinishSwitch, Threads, ThreadAssumption
  <2>. QED
    BY <2>1, <2>2
<1>10. ASSUME NEW l \in Lures, StartTask(l)
      PROVE  TypeOK' /\ Locals'
  <2>1. TypeOK'
    BY <1>10 DEF TypeOK, Locals, StartTask, TaskMoves, TaskState, Running
  <2>2. Locals'
    BY <1>10 DEF TypeOK, Locals, StartTask, TaskMoves
  <2>. QED
    BY <2>1, <2>2
<1>11. ASSUME NEW l \in Lures, ClassifySafe(l)
      PROVE  TypeOK' /\ Locals'
  <2>1. TypeOK'
    BY <1>11 DEF TypeOK, Locals, ClassifySafe, TaskMoves, TaskState
  <2>2. Locals'
    BY <1>11 DEF TypeOK, Locals, ClassifySafe, TaskMoves
  <2>. QED
    BY <2>1, <2>2
<1>12. ASSUME NEW l \in Lures, ClassifyHop(l)
      PROVE  TypeOK' /\ Locals'
  <2>1. TypeOK'
    BY <1>12 DEF TypeOK, Locals, ClassifyHop, TaskMoves, TaskState, Running
  <2>2. Locals'
    BY <1>12 DEF TypeOK, Locals, ClassifyHop, TaskMoves
  <2>. QED
    BY <2>1, <2>2
<1>13. ASSUME NEW l \in Lures, CheckRecordedSwitch(l)
      PROVE  TypeOK' /\ Locals'
  <2>1. TypeOK'
    BY <1>13 DEF TypeOK, Locals, CheckRecordedSwitch, TaskMoves, TaskState, Running, Threads
  <2>2. Locals'
    BY <1>13 DEF TypeOK, Locals, CheckRecordedSwitch, TaskMoves, Switch, SwitchQualifies, Threads
  <2>. QED
    BY <2>1, <2>2
<1>14. ASSUME NEW l \in Lures, CheckForeground(l)
      PROVE  TypeOK' /\ Locals'
  <2>1. TypeOK'
    BY <1>14 DEF TypeOK, Locals, CheckForeground, AfterForeground, TaskMoves, TaskState, Running, Threads, Switch
  <2>2. Locals'
    BY <1>14 DEF TypeOK, Locals, CheckForeground, AfterForeground, TaskMoves, ForegroundQualifies, Threads
  <2>. QED
    BY <2>1, <2>2
<1>15. ASSUME NEW l \in Lures, DrainPending(l)
      PROVE  TypeOK' /\ Locals'
  <2>1. TypeOK'
    BY <1>15 DEF TypeOK, Locals, DrainPending, TaskMoves, TaskState, Running, Threads
  <2>2. Locals'
    BY <1>15, ThreadAssumption
    DEF TypeOK, Locals, DrainPending, TaskMoves, Threads, ThreadAssumption
  <2>. QED
    BY <2>1, <2>2
<1>16. ASSUME NEW l \in Lures, FinishTask(l)
      PROVE  TypeOK' /\ Locals'
  <2>1. TypeOK'
    BY <1>16, NumAssumption
    DEF TypeOK, FinishTask, TaskMoves, TaskState, Threads, NoSwitch, Switch,
        NumAssumption
  <2>2. Locals'
    BY <1>16, ThreadAssumption
    DEF TypeOK, Locals, FinishTask, TaskMoves, Threads, ThreadAssumption
  <2>. QED
    BY <2>1, <2>2
<1>17. ASSUME NEW a \in Threads, NEW l \in Lures, Confirm(a, l)
      PROVE  TypeOK' /\ Locals'
  <2>1. TypeOK'
    <3>. DEFINE h == [to |-> dest[a].to, via |-> Tier(l, dest[a].to),
                      since |-> dest[a].at]
    <3>1. dest[a].to \in Procs
      BY <1>17 DEF TypeOK, Locals, Confirm, Threads
    <3>2. dest[a].at \in 0..MaxNow
      BY <1>17 DEF TypeOK, Switch
    <3>3. h \in Hop
      BY <3>1, <3>2 DEF Hop, Tier, Tiers
    <3>4. hop[l] \in Seq(Hop)
      BY DEF TypeOK
    <3>5. Append(hop[l], h) \in Seq(Hop)
      BY <3>3, <3>4, AppendProperties
    <3>6. hop' = [hop EXCEPT ![l] = Append(hop[l], h)]
      BY <1>17 DEF Confirm
    <3>7. hop' \in [Lures -> Seq(Hop)]
      BY <3>5, <3>6 DEF TypeOK
    <3>8. snap' \in [Threads -> SUBSET Lures]
      BY <1>17 DEF TypeOK, Confirm
    <3>. QED
      BY <1>17, <3>7, <3>8 DEF TypeOK, Confirm
  <2>2. Locals'
    BY <1>17 DEF TypeOK, Locals, Confirm, Threads
  <2>. QED
    BY <2>1, <2>2
<1>18. ASSUME NEW l \in Lures, PollEnds(l)
      PROVE  TypeOK' /\ Locals'
  <2>1. TypeOK'
    <3>0. PICK i \in DOMAIN hop[l] :
            \E via \in PollResults(hop[l][i]) :
              hop' = [hop EXCEPT ![l][i].via = via]
      BY <1>18 DEF PollEnds
    <3>1. PICK via \in PollResults(hop[l][i]) :
            hop' = [hop EXCEPT ![l][i].via = via]
      BY <3>0
    <3>2. via \in Tiers
      BY DEF PollResults, Tiers
    <3>3. [hop[l] EXCEPT ![i].via = via] \in Seq(Hop)
      BY <3>2, ExceptHop DEF TypeOK
    <3>4. hop' = [hop EXCEPT ![l] = [hop[l] EXCEPT ![i].via = via]]
      BY <3>1
    <3>5. hop' \in [Lures -> Seq(Hop)]
      BY <3>3, <3>4 DEF TypeOK
    <3>. QED
      BY <1>18, <3>5 DEF TypeOK, PollEnds
  <2>2. Locals'
    BY <1>18 DEF TypeOK, Locals, PollEnds
  <2>. QED
    BY <2>1, <2>2
<1>19. CASE UNCHANGED vars
  BY <1>19 DEF vars, TypeOK, Locals
<1>. QED
  BY <1>1, <1>2, <1>3, <1>4, <1>5, <1>6, <1>7, <1>8, <1>9, <1>10,
     <1>11, <1>12, <1>13, <1>14, <1>15, <1>16, <1>17, <1>18, <1>19
  DEF Next, EpStep, TaskStep, Threads

(* The initial state satisfies both.                                       *)
LEMMA TypeInit == Init => TypeOK /\ Locals
<1>. SUFFICES ASSUME Init PROVE TypeOK /\ Locals
  OBVIOUS
<1>1. NoSwitch \in Switch
  BY NumAssumption DEF NumAssumption, NoSwitch, Switch
<1>2. TypeOK
  BY <1>1, ProcAssumption, NumAssumption, EmptySeq
  DEF Init, TypeOK, ProcAssumption, NumAssumption, GameOrNone, TaskState,
      Threads
<1>3. Locals
  BY DEF Init, Locals, Threads
<1>. QED
  BY <1>2, <1>3

(* Every variable of the agent stays in its range, for any number of lures,*)
(* processes and workers.                                                  *)
THEOREM TypeCorrect == Spec => [](TypeOK /\ Locals)
  BY TypeInit, TypeStep, PTL DEF Spec

-----------------------------------------------------------------------------
Custody == NoDoubleConfirmation /\ NoLureLost

(* A step that moves no lure between its places, and parks none, keeps     *)
(* Custody.                                                                *)
LEMMA CustodyFrame ==
  ASSUME Custody, UNCHANGED <<pending, cleared, snap, hop>>,
         \A l \in Lures : Parked(l)' <=> Parked(l)
  PROVE  Custody'
BY DEF Custody, NoDoubleConfirmation, NoLureLost

(* Custody is inductive relative to the type invariant.                    *)
LEMMA CustodyStep == TypeOK /\ Locals /\ Custody /\ [Next]_vars => Custody'
<1>. SUFFICES ASSUME TypeOK, Locals, Custody, [Next]_vars
             PROVE  Custody'
  OBVIOUS
<1>1. CASE Tick
  BY <1>1, CustodyFrame DEF Tick, Parked
<1>2. ASSUME NEW p \in Procs \ {Unknown}, ChildSwitch(p)
      PROVE  Custody'
  BY <1>2, CustodyFrame DEF ChildSwitch, Parked
<1>3. ASSUME NEW g \in Games, DetectorStops(g)
      PROVE  Custody'
  BY <1>3, CustodyFrame DEF DetectorStops, Parked
<1>4. CASE HandleSame
  BY <1>4, CustodyFrame DEF HandleSame, Parked
<1>5. CASE RecordSwitch
  BY <1>5, CustodyFrame DEF RecordSwitch, Parked
<1>6. CASE FinishSwitch
  BY <1>6, CustodyFrame DEF FinishSwitch, Parked
<1>7. CASE Shutdown
  <2>1. \A m \in Lures : Parked(m)' <=> Parked(m)
    BY <1>7 DEF TypeOK, Shutdown, Parked
  <2>. QED
    BY <1>7, <2>1, CustodyFrame DEF Shutdown
<1>8. ASSUME NEW l \in Lures, NEW g \in Games, Detect(l, g)
      PROVE  Custody'
  <2>1. \A m \in Lures : Parked(m)' <=> Parked(m)
    BY <1>8 DEF TypeOK, Detect, Parked
  <2>. QED
    BY <1>8, <2>1, CustodyFrame DEF Detect
<1>9. ASSUME NEW l \in Lures, StartTask(l)
      PROVE  Custody'
  <2>1. \A m \in Lures : Parked(m)' <=> Parked(m)
    BY <1>9 DEF TypeOK, StartTask, TaskMoves, Parked
  <2>. QED
    BY <1>9, <2>1, CustodyFrame DEF StartTask
<1>10. ASSUME NEW l \in Lures, ClassifySafe(l)
      PROVE  Custody'
  <2>1. \A m \in Lures : Parked(m)' <=> Parked(m)
    BY <1>10 DEF TypeOK, ClassifySafe, TaskMoves, Parked
  <2>. QED
    BY <1>10, <2>1, CustodyFrame DEF ClassifySafe
<1>11. ASSUME NEW l \in Lures, CheckRecordedSwitch(l)
      PROVE  Custody'
  <2>1. \A m \in Lures : Parked(m)' <=> Parked(m)
    BY <1>11 DEF TypeOK, CheckRecordedSwitch, TaskMoves, Parked
  <2>. QED
    BY <1>11, <2>1, CustodyFrame DEF CheckRecordedSwitch
<1>12. ASSUME NEW l \in Lures, CheckForeground(l)
      PROVE  Custody'
  <2>1. \A m \in Lures : Parked(m)' <=> Parked(m)
    BY <1>12 DEF TypeOK, CheckForeground, AfterForeground, TaskMoves, Parked
  <2>. QED
    BY <1>12, <2>1, CustodyFrame DEF CheckForeground, AfterForeground
<1>13. ASSUME NEW l \in Lures, FinishTask(l)
      PROVE  Custody'
  <2>1. \A m \in Lures : Parked(m)' <=> Parked(m)
    BY <1>13 DEF TypeOK, FinishTask, TaskMoves, Parked
  <2>. QED
    BY <1>13, <2>1, CustodyFrame DEF FinishTask
<1>14. ASSUME NEW p \in Procs, HandleSwitch(p)
      PROVE  Custody'
  <2>1. \A m \in Lures : Parked(m)' <=> Parked(m)
    BY <1>14 DEF HandleSwitch, Parked
  <2>2. snap[Ep] = {}
    BY <1>14 DEF HandleSwitch, Locals
  <2>3. CASE p \in Transit
    <3>1. UNCHANGED <<pending, cleared, snap, hop>>
      BY <1>14, <2>2, <2>3 DEF HandleSwitch, LeftBy, TakenBy, NonGameSwitch, TypeOK
    <3>. QED
      BY <2>1, <3>1, CustodyFrame
  <2>4. CASE p \notin Transit /\ p \in Games
    <3>1. /\ UNCHANGED <<snap, hop>>
          /\ pending' = {} /\ cleared' = cleared \cup pending
      BY <1>14, <2>2, <2>4 DEF HandleSwitch, LeftBy, TakenBy, NonGameSwitch, TypeOK
    <3>. QED
      BY <2>1, <3>1 DEF Custody, NoDoubleConfirmation, NoLureLost
  <2>5. CASE NonGameSwitch(p)
    <3>1. /\ UNCHANGED <<cleared, hop>>
          /\ pending' = {} /\ snap' = [snap EXCEPT ![Ep] = pending]
      BY <1>14, <2>5 DEF HandleSwitch, LeftBy, TakenBy, NonGameSwitch
    <3>. QED
      BY <2>1, <2>2, <3>1 DEF TypeOK, Threads, Custody, NoDoubleConfirmation, NoLureLost
  <2>. QED
    BY <2>3, <2>4, <2>5 DEF NonGameSwitch
<1>15. ASSUME NEW l \in Lures, ClassifyHop(l)
      PROVE  Custody'
  <2>1. ~Parked(l) /\ Parked(l)'
    BY <1>15 DEF ClassifyHop, TaskMoves, Parked, TypeOK
  <2>2. \A m \in Lures \ {l} : Parked(m)' <=> Parked(m)
    BY <1>15 DEF ClassifyHop, TaskMoves, Parked, TypeOK
  <2>3. /\ UNCHANGED <<cleared, snap, hop>>
        /\ pending' = pending \cup {l}
    BY <1>15 DEF ClassifyHop
  <2>. QED
    BY <2>1, <2>2, <2>3 DEF Custody, NoDoubleConfirmation, NoLureLost
<1>16. ASSUME NEW l \in Lures, DrainPending(l)
      PROVE  Custody'
  <2>1. \A m \in Lures : Parked(m)' <=> Parked(m)
    BY <1>16 DEF DrainPending, TaskMoves, Parked, TypeOK
  <2>2. snap[l] = {}
    BY <1>16 DEF DrainPending, TaskMoves, Locals
  <2>3. /\ UNCHANGED <<cleared, hop>>
        /\ pending' = {} /\ snap' = [snap EXCEPT ![l] = pending]
    BY <1>16 DEF DrainPending
  <2>. QED
    BY <2>1, <2>2, <2>3 DEF TypeOK, Threads, Custody, NoDoubleConfirmation, NoLureLost
<1>17. ASSUME NEW a \in Threads, NEW l \in Lures, Confirm(a, l)
      PROVE  Custody'
  <2>. DEFINE h == [to |-> dest[a].to, via |-> Tier(l, dest[a].to),
                    since |-> dest[a].at]
  <2>1. \A m \in Lures : Parked(m)' <=> Parked(m)
    BY <1>17 DEF Confirm, Parked
  <2>2. /\ UNCHANGED <<cleared, pending>>
        /\ l \in snap[a] /\ snap' = [snap EXCEPT ![a] = snap[a] \ {l}]
        /\ hop' = [hop EXCEPT ![l] = Append(hop[l], h)]
    BY <1>17 DEF Confirm
  <2>3. hop[l] = <<>> /\ l \notin pending \cup cleared
        /\ \A b \in Threads : l \in snap[b] => a = b
    BY <2>2 DEF Custody, NoDoubleConfirmation
  <2>4. hop'[l] # <<>> /\ Len(hop'[l]) = 1
    BY <2>2, <2>3 DEF TypeOK
  <2>5. \A m \in Lures \ {l} : hop'[m] = hop[m]
    BY <2>2 DEF TypeOK
  <2>6. \A b \in Threads : snap'[b] = snap[b] \ {l}
    BY <2>2, <2>3 DEF TypeOK
  <2>. HIDE DEF h
  <2>7. NoDoubleConfirmation'
    BY <2>2, <2>3, <2>4, <2>5, <2>6 DEF Custody, NoDoubleConfirmation
  <2>8. NoLureLost'
    BY <2>1, <2>2, <2>4, <2>5, <2>6 DEF Custody, NoLureLost
  <2>. QED
    BY <2>7, <2>8 DEF Custody
<1>18. ASSUME NEW l \in Lures, PollEnds(l)
      PROVE  Custody'
  <2>1. /\ UNCHANGED <<pending, cleared, snap>>
        /\ \A m \in Lures : Parked(m)' <=> Parked(m)
    BY <1>18 DEF PollEnds, Parked
  <2>2. PICK i \in DOMAIN hop[l] :
          \E via \in PollResults(hop[l][i]) :
            hop' = [hop EXCEPT ![l][i].via = via]
    BY <1>18 DEF PollEnds
  <2>3. PICK via \in PollResults(hop[l][i]) :
          hop' = [hop EXCEPT ![l][i].via = via]
    BY <2>2
  <2>4. hop[l] \in Seq(Hop) /\ hop[l] # <<>> /\ via \in Tiers
    BY EmptySeq DEF TypeOK, PollResults, Tiers
  <2>5. /\ Len([hop[l] EXCEPT ![i].via = via]) = Len(hop[l])
        /\ [hop[l] EXCEPT ![i].via = via] \in Seq(Hop)
    BY <2>4, ExceptHop
  <2>6. hop'[l] = [hop[l] EXCEPT ![i].via = via]
    BY <2>3 DEF TypeOK
  <2>7. Len(hop'[l]) = Len(hop[l]) /\ hop'[l] # <<>>
    BY <2>4, <2>5, <2>6, EmptySeq
  <2>8. \A m \in Lures \ {l} : hop'[m] = hop[m]
    BY <2>3 DEF TypeOK
  <2>. QED
    BY <2>1, <2>4, <2>7, <2>8 DEF Custody, NoDoubleConfirmation, NoLureLost
<1>19. CASE UNCHANGED vars
  BY <1>19, CustodyFrame DEF vars, childVars, epVars, Parked
<1>. QED
  BY <1>1, <1>2, <1>3, <1>4, <1>5, <1>6, <1>7, <1>8, <1>9, <1>10,
     <1>11, <1>12, <1>13, <1>14, <1>15, <1>16, <1>17, <1>18, <1>19
  DEF Next, EpStep, TaskStep, Threads

LEMMA CustodyInit == Init => Custody
BY EmptySeq DEF Init, Custody, NoDoubleConfirmation, NoLureLost, Parked, Threads

LEMMA CustodyAlways == Spec => []Custody
BY CustodyInit, CustodyStep, TypeCorrect, PTL DEF Spec

(* Whatever threads race for the pending store, a lure is confirmed at     *)
(* most once and never after it was dropped (_drain_and_confirm,           *)
(* _process_foreground_change).                                            *)
THEOREM ConfirmedAtMostOnce == Spec => []NoDoubleConfirmation
BY CustodyAlways, PTL DEF Custody

(* A lure the server calls a hop is, until the end, parked, in the hands   *)
(* of one thread, confirmed or dropped: no interleaving loses it.          *)
THEOREM NothingGetsLost == Spec => []NoLureLost
BY CustodyAlways, PTL DEF Custody

-----------------------------------------------------------------------------
(* Why no lure is left behind.  A destination that is in front has been    *)
(* confirmed against, or its event is still to come and differs from the   *)
(* process that the event processor saw last.                              *)

(* The process of the last event that was taken up.                        *)
Newest == IF ep = "idle" THEN prev ELSE dest[Ep].to

Catches(p) == NonGameSwitch(p) /\ IsDestination(p)

(* run() samples the foreground before the hook is installed, so a return  *)
(* to the sampled process may be dropped as "same process".  That can only *)
(* be the first event, and no lure has been seen by then.                  *)
Quiet == ep = "idle" /\ Observed = {} /\ \A l \in Lures : task[l] = "unseen"

EventsInOrder ==
  /\ \A i \in DOMAIN evq : evq[i] # Unknown
  /\ \A i \in DOMAIN evq : i + 1 \in DOMAIN evq => evq[i] # evq[i + 1]
  /\ evq # <<>> => evq[Len(evq)] = fg
  /\ evq = <<>> => Newest = fg \/ ~Catches(Newest) \/ Quiet
  /\ Len(evq) = 1 /\ Catches(evq[1]) => Newest # evq[1] \/ Quiet

NothingOverlooked ==
  \A l \in pending :
    /\ task[l] \in {"check1", "check2", "drain", "done"}
    /\ task[l] = "done" /\ Catches(fg) => evq # <<>>

LEMMA SeqFacts ==
  ASSUME NEW S, NEW s \in Seq(S)
  PROVE  /\ s # <<>> =>
              /\ Len(s) \in Nat \ {0} /\ Head(s) = s[1]
              /\ Tail(s) \in Seq(S) /\ Len(Tail(s)) = Len(s) - 1
              /\ \A i \in 1..(Len(s) - 1) : Tail(s)[i] = s[i + 1]
         /\ \A x \in S :
              /\ Append(s, x) \in Seq(S) /\ Len(Append(s, x)) = Len(s) + 1
              /\ Append(s, x)[Len(s) + 1] = x
              /\ \A i \in 1..Len(s) : Append(s, x)[i] = s[i]
         /\ DOMAIN s = 1..Len(s) /\ Len(s) \in Nat /\ (s = <<>> <=> Len(s) = 0)
BY HeadTailProperties, AppendProperties, EmptySeq, LenProperties

(* The event processor takes the next event and resolves it to p.          *)
LEMMA TakeEvent ==
  ASSUME TypeOK, EventsInOrder, evq # <<>>, evq' = Tail(evq), fg' = fg,
         NEW p \in Resolve(Head(evq)), Newest' = p
  PROVE  EventsInOrder' /\ (evq' = <<>> => p = fg)
<1>. DEFINE n == Len(evq)
<1>1. evq \in Seq(Procs)
  BY DEF TypeOK
<1>2. /\ n \in Nat \ {0} /\ Head(evq) = evq[1] /\ DOMAIN evq = 1..n
      /\ evq' \in Seq(Procs) /\ Len(evq') = n - 1
      /\ \A i \in 1..(n - 1) : evq'[i] = evq[i + 1]
  BY <1>1, SeqFacts
<1>3. DOMAIN evq' = 1..(n - 1) /\ (evq' = <<>> <=> n = 1)
  <2>1. DOMAIN evq' = 1..Len(evq') /\ (evq' = <<>> <=> Len(evq') = 0)
    BY <1>2, SeqFacts
  <2>. HIDE DEF n
  <2>. QED
    BY <1>2, <2>1
<1>4. p \in {evq[1], Unknown} /\ (evq[1] = fg => p = fg)
  BY <1>2 DEF Resolve
<1>5. CASE n = 1
  <2>1. p = fg
    BY <1>2, <1>4, <1>5 DEF EventsInOrder
  <2>. QED
    BY <1>2, <1>3, <1>5, <2>1 DEF EventsInOrder
<1>6. CASE n # 1
  <2>. HIDE DEF n
  <2>1. \A i \in 1..(n - 1) : i \in 1..n /\ i + 1 \in 1..n /\ n - 1 \in 1..(n - 1)
    BY <1>2, <1>6
  <2>2. \A i \in 1..(n - 1) : evq'[i] # Unknown
    BY <1>2, <2>1 DEF EventsInOrder
  <2>3. \A i \in 1..(n - 1) : i + 1 \in 1..(n - 1) => evq'[i] # evq'[i + 1]
    BY <1>2, <2>1 DEF EventsInOrder
  <2>4. evq'[n - 1] = fg
    <3>1. n - 1 \in 1..(n - 1) /\ (n - 1) + 1 = n
      BY <1>2, <1>6
    <3>2. evq'[n - 1] = evq[n]
      BY <1>2, <3>1
    <3>. QED
      BY <3>2 DEF EventsInOrder, n
  <2>5. evq'[1] # p
    <3>1. 1 \in 1..(n - 1) /\ 1 \in 1..n /\ 1 + 1 \in 1..n
      BY <1>2, <1>6
    <3>2. evq[1] # evq[1 + 1] /\ evq[1 + 1] # Unknown
      BY <1>2, <3>1 DEF EventsInOrder
    <3>. QED
      BY <1>2, <1>4, <3>1, <3>2
  <2>. QED
    BY <1>2, <1>3, <1>6, <2>2, <2>3, <2>4, <2>5 DEF EventsInOrder
<1>. QED
  BY <1>5, <1>6

LEMMA NewEvent ==
  ASSUME TypeOK, EventsInOrder, NEW p \in Procs \ {Unknown}, ChildSwitch(p)
  PROVE  EventsInOrder' /\ evq' # <<>>
<1>. DEFINE n == Len(evq)
<1>1. evq \in Seq(Procs)
  BY DEF TypeOK
<1>2. evq' = Append(evq, p) /\ p # fg /\ fg' = p /\ UNCHANGED <<Newest, Quiet>>
  BY DEF ChildSwitch, Newest, Quiet, Observed, scanVars
<1>3. /\ n \in Nat /\ DOMAIN evq = 1..n /\ (evq = <<>> <=> n = 0)
      /\ evq' \in Seq(Procs) /\ Len(evq') = n + 1 /\ evq'[n + 1] = p
      /\ \A i \in 1..n : evq'[i] = evq[i]
  BY <1>1, <1>2, SeqFacts
<1>4. DOMAIN evq' = 1..(n + 1) /\ evq' # <<>>
  BY <1>3, SeqFacts
<1>. HIDE DEF n
<1>5. \A i \in 1..(n + 1) : evq'[i] # Unknown
  BY <1>3 DEF EventsInOrder
<1>6. ASSUME NEW i \in 1..(n + 1), i + 1 \in 1..(n + 1)
      PROVE  evq'[i] # evq'[i + 1]
  <2>1. i \in 1..n
    BY <1>3, <1>6
  <2>2. CASE i = n
    <3>1. evq[n] = fg
      BY <1>3, <2>1 DEF EventsInOrder, n
    <3>. QED
      BY <1>2, <1>3, <2>1, <2>2, <3>1
  <2>3. CASE i # n
    <3>1. i + 1 \in 1..n
      BY <1>3, <2>1, <2>3
    <3>. QED
      BY <1>3, <2>1, <3>1 DEF EventsInOrder
  <2>. QED
    BY <2>2, <2>3
<1>7. n + 1 = 1 /\ Catches(p) => Newest # p \/ Quiet
  BY <1>2, <1>3 DEF EventsInOrder
<1>8. evq'[Len(evq')] = fg'
  BY <1>2, <1>3
<1>9. Len(evq') = 1 /\ Catches(evq'[1]) => Newest' # evq'[1] \/ Quiet'
  <2>. SUFFICES ASSUME Len(evq') = 1, Catches(evq'[1])
               PROVE  Newest # evq'[1] \/ Quiet
    BY <1>2
  <2>1. n = 0 /\ evq'[1] = p
    BY <1>3
  <2>. QED
    BY <1>7, <2>1
<1>. QED
  BY <1>4, <1>5, <1>6, <1>8, <1>9
  DEF EventsInOrder, Catches, NonGameSwitch, IsDestination

LEMMA OrderFrame ==
  ASSUME EventsInOrder, UNCHANGED <<evq, fg, Newest>>, Quiet => Quiet'
  PROVE  EventsInOrder'
BY DEF EventsInOrder, Catches, NonGameSwitch, IsDestination

(* A step of a dispatch or poll thread does not concern the events.        *)
LEMMA OthersKeepOrder ==
  ASSUME TypeOK, NEW l \in Lures, TaskStep(l) \/ PollEnds(l)
  PROVE  UNCHANGED <<evq, fg, Newest>> /\ (Quiet => Quiet')
<1>1. UNCHANGED <<evq, fg, ep, prev, scanVars>>
  BY DEF TaskStep, PollEnds, StartTask, ClassifySafe, ClassifyHop, CheckRecordedSwitch,
         CheckForeground, AfterForeground, DrainPending, Confirm, FinishTask, childVars, epVars
<1>2. dest'[Ep] = dest[Ep]
  BY ThreadAssumption
  DEF ThreadAssumption, TypeOK, Threads, TaskStep, PollEnds, StartTask, ClassifySafe,
      ClassifyHop, CheckRecordedSwitch, CheckForeground, AfterForeground, DrainPending, Confirm,
      FinishTask
<1>3. Quiet => task' = task
  BY DEF Quiet, TaskMoves, TaskStep, PollEnds, StartTask, ClassifySafe, ClassifyHop,
         CheckRecordedSwitch, CheckForeground, AfterForeground, DrainPending, Confirm, FinishTask
<1>. QED
  BY <1>1, <1>2, <1>3 DEF Newest, Quiet, Observed, scanVars

LEMMA OrderStep ==
  TypeOK /\ Locals /\ EventsInOrder /\ [Next]_vars => EventsInOrder'
<1>. SUFFICES ASSUME TypeOK, Locals, EventsInOrder, [Next]_vars
             PROVE  EventsInOrder'
  OBVIOUS
<1>1. CASE HandleSame
  BY <1>1, TakeEvent DEF HandleSame, Newest, childVars
<1>2. ASSUME NEW p \in Procs, HandleSwitch(p)
      PROVE  EventsInOrder'
  <2>1. Newest' = p
    BY <1>2 DEF HandleSwitch, Newest, TypeOK, Threads
  <2>. QED
    BY <1>2, <2>1, TakeEvent DEF HandleSwitch, childVars
<1>3. ASSUME NEW p \in Procs \ {Unknown}, ChildSwitch(p)
      PROVE  EventsInOrder'
  BY <1>3, NewEvent
<1>4. CASE RecordSwitch \/ \E l \in Lures : Confirm(Ep, l)
  <2>1. UNCHANGED <<evq, fg, dest, prev, scanVars, task>>
        /\ (ep = "idle" <=> ep' = "idle")
    BY <1>4 DEF RecordSwitch, Confirm, childVars, epVars
  <2>2. UNCHANGED Newest /\ (Quiet => Quiet')
    BY <2>1 DEF Newest, Quiet, Observed, scanVars
  <2>. QED
    BY <2>1, <2>2, OrderFrame
<1>5. CASE FinishSwitch
  <2>1. UNCHANGED <<evq, fg, Newest>> /\ ~Quiet
    BY <1>5 DEF FinishSwitch, Newest, Quiet, childVars
  <2>. QED
    BY <2>1, OrderFrame
<1>6. ASSUME NEW l \in Lures, TaskStep(l) \/ PollEnds(l)
      PROVE  EventsInOrder'
  BY <1>6, OthersKeepOrder, OrderFrame
<1>7. CASE Tick \/ Shutdown \/ (\E l \in Lures, g \in Games : Detect(l, g))
             \/ (\E g \in Games : DetectorStops(g)) \/ UNCHANGED vars
  <2>1. UNCHANGED <<evq, fg, ep, prev, dest>>
    BY <1>7 DEF Tick, Shutdown, Detect, DetectorStops, vars, childVars, epVars
  <2>2. Quiet => UNCHANGED <<scanVars, task>>
    BY <1>7 DEF Quiet, Observed, Tick, Shutdown, Detect, DetectorStops, vars, TypeOK,
                scanVars
  <2>. QED
    BY <2>1, <2>2, OrderFrame DEF Newest, Quiet, Observed, scanVars
<1>. QED
  BY <1>1, <1>2, <1>3, <1>4, <1>5, <1>6, <1>7 DEF Next, EpStep

(* A step that leaves the foreground, the events and the parked lures'     *)
(* positions alone overlooks nothing.                                      *)
LEMMA OverlookFrame ==
  ASSUME NothingOverlooked, UNCHANGED <<fg, evq>>, pending' \subseteq pending,
         \A l \in pending' : task'[l] = task[l]
  PROVE  NothingOverlooked'
BY DEF NothingOverlooked, Catches, NonGameSwitch, IsDestination

LEMMA OverlookStep ==
  TypeOK /\ EventsInOrder /\ NothingOverlooked /\ [Next]_vars => NothingOverlooked'
<1>. SUFFICES ASSUME TypeOK, EventsInOrder, NothingOverlooked, [Next]_vars
             PROVE  NothingOverlooked'
  OBVIOUS
<1>. pending \subseteq Lures /\ task \in [Lures -> TaskState]
  BY DEF TypeOK
<1>1. CASE HandleSame
  <2>1. evq' = <<>> => Len(evq) = 1 /\ evq[1] = fg /\ Newest = fg
    <3>1. evq \in Seq(Procs) /\ evq # <<>> /\ evq' = Tail(evq)
          /\ prev \in Resolve(Head(evq)) /\ Newest = prev
      BY <1>1 DEF HandleSame, Newest, TypeOK
    <3>2. Head(evq) = evq[1] /\ Len(evq) \in Nat \ {0} /\ Len(Tail(evq)) = Len(evq) - 1
      BY <3>1, SeqFacts
    <3>3. evq' = <<>> => Len(evq) = 1
      BY <3>1, <3>2, EmptySeq
    <3>. QED
      BY <3>1, <3>2, <3>3 DEF EventsInOrder, Resolve
  <2>2. Catches(fg) /\ evq' = <<>> => Quiet
    BY <2>1 DEF EventsInOrder
  <2>3. UNCHANGED <<pending, task, fg>>
    BY <1>1 DEF HandleSame, childVars
  <2>4. Quiet => pending = {}
    BY DEF Quiet, NothingOverlooked
  <2>. QED
    BY <2>2, <2>3, <2>4 DEF NothingOverlooked, Catches, NonGameSwitch, IsDestination
<1>2. ASSUME NEW p \in Procs, HandleSwitch(p)
      PROVE  NothingOverlooked'
  <2>1. CASE p \notin Transit
    BY <1>2, <2>1 DEF HandleSwitch, LeftBy, NothingOverlooked
  <2>2. CASE p \in Transit
    <3>1. Newest' = p
      BY <1>2 DEF HandleSwitch, Newest, TypeOK, Threads
    <3>2. evq' = <<>> => p = fg
      BY <1>2, <3>1, TakeEvent DEF HandleSwitch, childVars
    <3>3. UNCHANGED <<pending, task, fg>>
      BY <1>2, <2>2 DEF HandleSwitch, LeftBy, childVars
    <3>4. Catches(fg) => evq' # <<>>
      BY <2>2, <3>2 DEF Catches, NonGameSwitch
    <3>. QED
      BY <3>3, <3>4 DEF NothingOverlooked, Catches, NonGameSwitch, IsDestination
  <2>. QED
    BY <2>1, <2>2
<1>3. ASSUME NEW p \in Procs \ {Unknown}, ChildSwitch(p)
      PROVE  NothingOverlooked'
  <2>1. evq' # <<>> /\ UNCHANGED <<pending, task>>
    BY <1>3, NewEvent DEF ChildSwitch
  <2>. QED
    BY <2>1 DEF NothingOverlooked
<1>4. CASE RecordSwitch \/ FinishSwitch \/ Tick \/ UNCHANGED vars
             \/ (\E a \in Threads, l \in Lures : Confirm(a, l))
             \/ (\E g \in Games : DetectorStops(g))
             \/ (\E l \in Lures : PollEnds(l))
  <2>1. UNCHANGED <<evq, fg, pending, task>>
    BY <1>4 DEF RecordSwitch, FinishSwitch, Tick, Confirm, DetectorStops, PollEnds,
                vars, childVars, epVars
  <2>. QED
    BY <2>1, OverlookFrame
<1>5. CASE Shutdown
  <2>1. UNCHANGED <<evq, fg, pending>>
    BY <1>5 DEF Shutdown, childVars, epVars
  <2>2. \A l \in pending : task'[l] = task[l]
    BY <1>5 DEF Shutdown, NothingOverlooked
  <2>. QED
    BY <2>1, <2>2, OverlookFrame
<1>6. ASSUME NEW l \in Lures, NEW g \in Games, Detect(l, g)
      PROVE  NothingOverlooked'
  <2>1. UNCHANGED <<evq, fg, pending>> /\ l \notin pending
    BY <1>6 DEF Detect, childVars, epVars, NothingOverlooked
  <2>2. \A m \in pending : task'[m] = task[m]
    BY <1>6, <2>1 DEF Detect
  <2>. QED
    BY <2>1, <2>2, OverlookFrame
<1>7. ASSUME NEW l \in Lures, StartTask(l) \/ ClassifySafe(l) \/ FinishTask(l)
      PROVE  NothingOverlooked'
  <2>1. UNCHANGED <<evq, fg, pending>> /\ l \notin pending
    BY <1>7 DEF StartTask, ClassifySafe, FinishTask, TaskMoves, childVars, epVars,
                NothingOverlooked
  <2>2. \A m \in pending : task'[m] = task[m]
    BY <1>7, <2>1 DEF StartTask, ClassifySafe, FinishTask, TaskMoves
  <2>. QED
    BY <2>1, <2>2, OverlookFrame
<1>8. ASSUME NEW l \in Lures, ClassifyHop(l) \/ CheckRecordedSwitch(l)
      PROVE  NothingOverlooked'
  <2>1. UNCHANGED <<evq, fg>> /\ pending' \subseteq pending \cup {l}
    BY <1>8 DEF ClassifyHop, CheckRecordedSwitch, childVars, epVars
  <2>2. /\ task'[l] \in {"check1", "check2", "drain"}
        /\ \A m \in Lures \ {l} : task'[m] = task[m]
    BY <1>8 DEF ClassifyHop, CheckRecordedSwitch, TaskMoves
  <2>. QED
    BY <2>1, <2>2 DEF NothingOverlooked, Catches, NonGameSwitch, IsDestination
<1>9. ASSUME NEW l \in Lures, CheckForeground(l)
      PROVE  NothingOverlooked'
  <2>1. UNCHANGED <<evq, fg, pending>>
    BY <1>9 DEF CheckForeground, AfterForeground, childVars, epVars
  <2>2. /\ task'[l] \in {"drain", "done"}
        /\ task'[l] = "done" => ~ForegroundQualifies(l)
        /\ \A m \in Lures \ {l} : task'[m] = task[m]
    BY <1>9 DEF CheckForeground, AfterForeground, TaskMoves
  <2>3. fg = game[l] => fg \in Games
    BY ProcAssumption DEF ProcAssumption, TypeOK
  <2>4. ~ForegroundQualifies(l) => ~Catches(fg)
    BY <2>3 DEF ForegroundQualifies, Catches, NonGameSwitch
  <2>. QED
    BY <2>1, <2>2, <2>4 DEF NothingOverlooked, Catches, NonGameSwitch, IsDestination
<1>10. ASSUME NEW l \in Lures, DrainPending(l)
       PROVE  NothingOverlooked'
  BY <1>10 DEF DrainPending, NothingOverlooked
<1>. QED
  BY <1>1, <1>2, <1>3, <1>4, <1>5, <1>6, <1>7, <1>8, <1>9, <1>10
  DEF Next, EpStep, TaskStep, Threads

(* Once everything has settled with the child on a browser or chat app, no *)
(* lure is left parked, whatever the event processor                       *)
(* (_process_foreground_change) and the late confirmations                 *)
(* (_try_late_confirm) did in which order.                                 *)
THEOREM NoLureIsOverlooked == Spec => []NoLureLeftOnDestination
<1>1. Init => EventsInOrder /\ NothingOverlooked
  <2>. SUFFICES ASSUME Init
               PROVE  EventsInOrder /\ NothingOverlooked
    OBVIOUS
  <2>1. evq = <<>> /\ Len(evq) = 0 /\ DOMAIN evq = {} /\ Newest = prev
    BY DEF Init, Newest
  <2>2. ~Catches(Newest) \/ Quiet
    BY <2>1 DEF Init, Catches, NonGameSwitch, Quiet, Observed, GameOrNone
  <2>. QED
    BY <2>1, <2>2 DEF EventsInOrder, NothingOverlooked, Init
<1>2. TypeOK /\ NothingOverlooked => NoLureLeftOnDestination
  BY DEF TypeOK, NothingOverlooked, NoLureLeftOnDestination, Settled, Catches,
         Running
<1>. QED
  BY <1>1, <1>2, OrderStep, OverlookStep, TypeInit, TypeStep, PTL DEF Spec

-----------------------------------------------------------------------------
(* Why a switch is never older than all the lures: a thread's switch is    *)
(* not older than one lure the thread answers for, its own or, for the     *)
(* event processor, any that it holds.                                     *)
Timely ==
  /\ \A l \in Lures : at[l] <= now
  /\ \A l \in Lures : task[l] \in {"drain", "confirm"} => dest[l].at >= at[l]
  /\ \A l \in snap[Ep] : Parked(l) /\ dest[Ep].at >= at[l]
  /\ SwitchFollowsSomeLure

Times == now \in Int /\ \A l \in Lures : at[l] \in Int
LEMMA TimesAreNumbers == TypeOK => Times
BY DEF TypeOK, Times

(* A step that confirms nothing and touches no switch in use.              *)
LEMMA TimelyFrame ==
  ASSUME Timely, UNCHANGED <<hop, snap, at>>, dest'[Ep] = dest[Ep], Times,
         now' \in Int, now' >= now,
         \A l \in Lures : Parked(l) => Parked(l)',
         \A l \in Lures : task'[l] \in {"drain", "confirm"} =>
           \/ task[l] \in {"drain", "confirm"} /\ dest'[l] = dest[l]
           \/ dest'[l].at >= at[l],
         snap[Ep] \subseteq Lures
  PROVE  Timely'
<1>1. \A l \in Lures : at'[l] <= now'
  BY DEF Timely, Times
<1>2. \A l \in Lures : task'[l] \in {"drain", "confirm"} => dest'[l].at >= at'[l]
  BY DEF Timely
<1>3. \A l \in snap'[Ep] : Parked(l)' /\ dest'[Ep].at >= at'[l]
  BY DEF Timely
<1>4. SwitchFollowsSomeLure'
  BY DEF Timely, SwitchFollowsSomeLure
<1>. QED
  BY <1>1, <1>2, <1>3, <1>4 DEF Timely

LEMMA TimelyStep ==
  TypeOK /\ Locals /\ Custody /\ Timely /\ [Next]_vars => Timely'
<1>. SUFFICES ASSUME TypeOK, Locals, Custody, Timely, [Next]_vars
             PROVE  Timely'
  OBVIOUS
<1>. snap[Ep] \subseteq Lures /\ Times /\ now \in Int /\ now >= now
  BY TimesAreNumbers DEF TypeOK, Threads, Times
<1>1. CASE Tick
  <2>1. now' \in Int /\ now' >= now
    BY <1>1 DEF Tick, Times
  <2>. QED
    BY <1>1, <2>1, TimelyFrame DEF Tick, lureVars, Parked, Timely
<1>2. CASE (\E p \in Procs \ {Unknown} : ChildSwitch(p)) \/ HandleSame \/ RecordSwitch
             \/ (\E g \in Games : DetectorStops(g)) \/ UNCHANGED vars
  <2>1. UNCHANGED <<hop, snap, at, dest, now, task>>
    BY <1>2 DEF ChildSwitch, HandleSame, RecordSwitch, DetectorStops, vars, lureVars,
                clockVars
  <2>. QED
    BY <2>1, TimelyFrame DEF Parked, Timely
<1>3. CASE Shutdown
  <2>1. UNCHANGED <<hop, snap, at, dest, now>>
    BY <1>3 DEF Shutdown, lureVars
  <2>2. \A l \in Lures : task[l] # "queued" => task'[l] = task[l]
    BY <1>3 DEF Shutdown
  <2>3. \A l \in Lures : task[l] = "queued" => task'[l] = "cancelled"
    BY <1>3 DEF Shutdown
  <2>. QED
    BY <2>1, <2>2, <2>3, TimelyFrame DEF Parked, Timely
<1>4. ASSUME NEW l \in Lures, NEW g \in Games, Detect(l, g)
      PROVE  Timely'
  <2>1. /\ UNCHANGED <<hop, snap, dest, now>> /\ task[l] = "unseen"
        /\ task' = [task EXCEPT ![l] = "queued"] /\ at' = [at EXCEPT ![l] = now]
    BY <1>4 DEF Detect, clockVars
  <2>2. ~Parked(l) /\ \A m \in Lures \ {l} : at'[m] = at[m] /\ task'[m] = task[m]
    BY <2>1 DEF Parked, TypeOK
  <2>3. at'[l] = now /\ task'[l] = "queued"
    BY <2>1 DEF TypeOK
  <2>4. \A m \in Lures : Parked(m) => m # l /\ Parked(m)' /\ at'[m] = at[m]
    BY <2>2 DEF Parked
  <2>5. SwitchFollowsSomeLure'
    BY <2>1, <2>4 DEF Timely, SwitchFollowsSomeLure
  <2>6. \A m \in Lures : at'[m] <= now'
    BY <2>1, <2>2, <2>3 DEF Timely
  <2>7. \A m \in Lures : task'[m] \in {"drain", "confirm"} => dest'[m].at >= at'[m]
    BY <2>1, <2>2, <2>3 DEF Timely
  <2>8. \A m \in snap'[Ep] : Parked(m)' /\ dest'[Ep].at >= at'[m]
    BY <2>1, <2>4 DEF Timely
  <2>. QED
    BY <2>5, <2>6, <2>7, <2>8 DEF Timely
<1>5. ASSUME NEW p \in Procs, HandleSwitch(p)
      PROVE  Timely'
  <2>1. /\ UNCHANGED <<hop, at, now, task>>
        /\ dest' = [dest EXCEPT ![Ep] = [to |-> p, at |-> now]]
        /\ snap' = [snap EXCEPT ![Ep] = TakenBy(p)]
    BY <1>5 DEF HandleSwitch, lureVars, clockVars
  <2>2. /\ snap'[Ep] \subseteq pending /\ dest'[Ep].at = now
        /\ \A l \in Lures : dest'[l] = dest[l]
    BY <2>1, ThreadAssumption DEF TypeOK, Threads, TakenBy, ThreadAssumption
  <2>3. \A l \in pending : l \in Lures /\ Parked(l)
    BY DEF TypeOK, Custody, NoLureLost
  <2>4. \A l \in snap'[Ep] : Parked(l)' /\ dest'[Ep].at >= at'[l]
    BY <2>1, <2>2, <2>3 DEF Timely, Times, Parked
  <2>5. \A l \in Lures : task'[l] \in {"drain", "confirm"} => dest'[l].at >= at'[l]
    BY <2>1, <2>2 DEF Timely
  <2>6. SwitchFollowsSomeLure'
    BY <2>1 DEF Timely, SwitchFollowsSomeLure, Parked
  <2>. QED
    BY <2>1, <2>4, <2>5, <2>6 DEF Timely
<1>6. CASE FinishSwitch
  <2>1. /\ UNCHANGED <<hop, at, now, task, snap>> /\ snap[Ep] = {}
        /\ dest' = [dest EXCEPT ![Ep] = NoSwitch]
    BY <1>6 DEF FinishSwitch, Locals, lureVars, clockVars
  <2>2. \A l \in Lures : dest'[l] = dest[l]
    BY <2>1, ThreadAssumption DEF TypeOK, Threads, ThreadAssumption
  <2>3. SwitchFollowsSomeLure'
    BY <2>1 DEF Timely, SwitchFollowsSomeLure, Parked
  <2>. QED
    BY <2>1, <2>2, <2>3 DEF Timely
<1>7. ASSUME NEW l \in Lures,
             StartTask(l) \/ ClassifySafe(l) \/ ClassifyHop(l) \/ FinishTask(l)
      PROVE  Timely'
  <2>1. /\ UNCHANGED <<hop, at, now, snap>>
        /\ \A m \in Lures \ {l} : task'[m] = task[m] /\ dest'[m] = dest[m]
        /\ task'[l] \notin {"drain", "confirm"}
    BY <1>7 DEF StartTask, ClassifySafe, ClassifyHop, FinishTask, TaskMoves, TypeOK,
                Threads, lureVars, clockVars
  <2>2. Parked(l) => Parked(l)'
    BY <1>7 DEF StartTask, ClassifySafe, ClassifyHop, FinishTask, TaskMoves, TypeOK,
                Parked
  <2>3. dest'[Ep] = dest[Ep]
    BY <1>7, ThreadAssumption
    DEF StartTask, ClassifySafe, ClassifyHop, FinishTask, TypeOK, Threads,
        ThreadAssumption
  <2>4. \A m \in Lures : Parked(m) => Parked(m)'
    BY <2>1, <2>2 DEF Parked
  <2>. QED
    BY <2>1, <2>3, <2>4, TimelyFrame
<1>8. ASSUME NEW l \in Lures, CheckRecordedSwitch(l) \/ CheckForeground(l)
      PROVE  Timely'
  <2>1. /\ UNCHANGED <<hop, at, now, snap>> /\ task[l] \in {"check1", "check2"}
        /\ \A m \in Lures \ {l} : task'[m] = task[m] /\ dest'[m] = dest[m]
        /\ task'[l] \in {"check2", "drain", "done"}
    BY <1>8 DEF CheckRecordedSwitch, CheckForeground, AfterForeground, TaskMoves, TypeOK, Threads,
                lureVars, clockVars
  <2>2. task'[l] = "drain" => dest'[l].at >= at[l]
    <3>1. CASE CheckRecordedSwitch(l)
      BY <3>1 DEF CheckRecordedSwitch, TaskMoves, SwitchQualifies, TypeOK, Threads
    <3>2. CASE CheckForeground(l)
      <4>1. task'[l] = "drain" => dest'[l].at = now
        BY <3>2 DEF CheckForeground, AfterForeground, TaskMoves, TypeOK, Threads
      <4>. QED
        BY <4>1 DEF Timely, Times
    <3>. QED
      BY <1>8, <3>1, <3>2
  <2>3. dest'[Ep] = dest[Ep]
    BY <1>8, ThreadAssumption
    DEF CheckRecordedSwitch, CheckForeground, AfterForeground, TypeOK, Threads, ThreadAssumption
  <2>4. \A m \in Lures : Parked(m) => Parked(m)'
    BY <2>1 DEF Parked
  <2>. QED
    BY <2>1, <2>2, <2>3, <2>4, TimelyFrame
<1>9. ASSUME NEW l \in Lures, DrainPending(l)
      PROVE  Timely'
  <2>1. /\ UNCHANGED <<hop, at, now, dest>> /\ task[l] = "drain"
        /\ task' = [task EXCEPT ![l] = "confirm"]
        /\ snap' = [snap EXCEPT ![l] = pending]
    BY <1>9 DEF DrainPending, TaskMoves, lureVars, clockVars
  <2>2. snap'[Ep] = snap[Ep] /\ \A m \in Lures : Parked(m) => Parked(m)'
    BY <2>1, ThreadAssumption DEF TypeOK, Threads, ThreadAssumption, Parked
  <2>3. \A m \in Lures : task'[m] \in {"drain", "confirm"} => task[m] \in {"drain", "confirm"}
    BY <2>1 DEF TypeOK
  <2>4. SwitchFollowsSomeLure'
    BY <2>1, <2>2 DEF Timely, SwitchFollowsSomeLure
  <2>. QED
    BY <2>1, <2>2, <2>3, <2>4 DEF Timely
<1>10. ASSUME NEW a \in Threads, NEW l \in Lures, Confirm(a, l)
       PROVE  Timely'
  <2>. DEFINE h == [to |-> dest[a].to, via |-> Tier(l, dest[a].to),
                    since |-> dest[a].at]
  <2>1. /\ UNCHANGED <<at, now, dest, task>> /\ l \in snap[a]
        /\ snap' = [snap EXCEPT ![a] = snap[a] \ {l}]
        /\ hop' = [hop EXCEPT ![l] = Append(hop[l], h)]
    BY <1>10 DEF Confirm, lureVars, clockVars
  <2>2. snap'[Ep] \subseteq snap[Ep]
    BY <2>1 DEF TypeOK, Threads
  <2>3. \E m \in Lures : Parked(m) /\ h.since >= at[m]
    <3>1. CASE a = Ep
      BY <2>1, <3>1 DEF Timely
    <3>2. CASE a \in Lures
      <4>1. task[a] = "confirm"
        BY <2>1, <3>2 DEF Locals
      <4>. QED
        BY <3>2, <4>1 DEF Timely, Parked
    <3>. QED
      BY <3>1, <3>2 DEF Threads
  <2>4. hop[l] = <<>>
    BY <2>1 DEF Custody, NoDoubleConfirmation
  <2>5. hop'[l] = <<h>> /\ \A m \in Lures \ {l} : hop'[m] = hop[m]
    BY <2>1, <2>4 DEF TypeOK
  <2>6. \A i \in DOMAIN hop'[l] : hop'[l][i] = h
    BY <2>5
  <2>. HIDE DEF h
  <2>7. SwitchFollowsSomeLure'
    BY <2>1, <2>3, <2>5, <2>6 DEF Timely, SwitchFollowsSomeLure, Parked
  <2>. QED
    BY <2>1, <2>2, <2>7 DEF Timely, Parked
<1>11. ASSUME NEW l \in Lures, PollEnds(l)
       PROVE  Timely'
  <2>1. UNCHANGED <<at, now, dest, task, snap>>
    BY <1>11 DEF PollEnds, lureVars, clockVars
  <2>2. PICK i \in DOMAIN hop[l] :
          \E via \in PollResults(hop[l][i]) :
            hop' = [hop EXCEPT ![l][i].via = via]
    BY <1>11 DEF PollEnds
  <2>3. PICK via \in PollResults(hop[l][i]) :
          hop' = [hop EXCEPT ![l][i].via = via]
    BY <2>2
  <2>4. hop[l] \in Seq(Hop) /\ hop'[l] = [hop[l] EXCEPT ![i].via = via]
    BY <2>3 DEF TypeOK
  <2>5. /\ DOMAIN hop'[l] = DOMAIN hop[l]
        /\ \A j \in DOMAIN hop[l] : hop'[l][j].since = hop[l][j].since
    <3>1. \A j \in DOMAIN hop[l] : hop[l][j] \in Hop
      BY <2>4, ElementOfSeq
    <3>. QED
      BY <2>4, <3>1 DEF Hop
  <2>6. \A m \in Lures \ {l} : hop'[m] = hop[m]
    BY <2>3 DEF TypeOK
  <2>7. SwitchFollowsSomeLure'
    BY <2>1, <2>5, <2>6 DEF Timely, SwitchFollowsSomeLure, Parked
  <2>. QED
    BY <2>1, <2>7 DEF Timely, Parked
<1>. QED
  BY <1>1, <1>2, <1>3, <1>4, <1>5, <1>6, <1>7, <1>8, <1>9, <1>10, <1>11
  DEF Next, EpStep, TaskStep, Threads

(* A confirmation never uses a switch that is older than every lure parked *)
(* by then, whichever lure's dispatch looked at the switch                 *)
(* (_try_late_confirm) and whichever lures it drained.                     *)
THEOREM SwitchesAreTimely == Spec => []SwitchFollowsSomeLure
<1>1. Init => Timely
  <2>. SUFFICES ASSUME Init PROVE Timely
    OBVIOUS
  <2>1. /\ now = 0 /\ \A l \in Lures : at[l] = 0 /\ task[l] = "unseen" /\ hop[l] = <<>>
        /\ snap[Ep] = {}
    BY DEF Init, Threads
  <2>. QED
    BY <2>1 DEF Timely, SwitchFollowsSomeLure
<1>2. Timely => SwitchFollowsSomeLure
  BY DEF Timely
<1>. QED
  BY <1>1, <1>2, TimelyStep, TypeInit, TypeStep, CustodyInit, CustodyStep, PTL DEF Spec
=============================================================================
