-------------------------- MODULE RateLimiterProofs --------------------------
(***************************************************************************)
(* Proofs about RateLimiter: with one worker process the pruned and swept  *)
(* lists implement the abstract limit, hence they never admit more than    *)
(* MaxRpm calls of a child in a window.                                    *)
(***************************************************************************)
EXTENDS RateLimiter, SequenceTheorems, WellFoundedInduction, TLAPS

-----------------------------------------------------------------------------
(* The abstract limit.                                                     *)

LimitTypes ==
  /\ now \in Nat
  /\ admitted \in [Children -> Seq(Nat)]
  /\ verdict \in [Children -> Verdicts]
  /\ \A c \in Children : Sorted(admitted[c])
  /\ \A c \in Children : \A i \in DOMAIN admitted[c] : admitted[c][i] <= now

(* What appending the current time to a sorted list of past times keeps.   *)
LEMMA AppendNow ==
  ASSUME NEW s \in Seq(Nat), NEW t \in Nat, Sorted(s),
         \A i \in DOMAIN s : s[i] <= t
  PROVE  /\ Append(s, t) \in Seq(Nat)
         /\ Len(Append(s, t)) = Len(s) + 1
         /\ \A i \in 1..Len(s) : Append(s, t)[i] = s[i]
         /\ Append(s, t)[Len(s) + 1] = t
         /\ DOMAIN Append(s, t) = 1..(Len(s) + 1)
         /\ Sorted(Append(s, t))
         /\ \A i \in DOMAIN Append(s, t) : Append(s, t)[i] <= t
<1>1. /\ Append(s, t) \in Seq(Nat)
      /\ Len(Append(s, t)) = Len(s) + 1
      /\ \A i \in 1..Len(s) : Append(s, t)[i] = s[i]
      /\ Append(s, t)[Len(s) + 1] = t
      /\ DOMAIN Append(s, t) = 1..(Len(s) + 1)
  BY AppendProperties
<1>2. DOMAIN s = 1..Len(s) /\ \A i \in DOMAIN s : s[i] \in Nat
  OBVIOUS
<1>3. \A i \in DOMAIN Append(s, t) : i \in 1..Len(s) \/ i = Len(s) + 1
  BY <1>1
<1>4. \A i \in DOMAIN Append(s, t) : Append(s, t)[i] <= t
  BY <1>1, <1>2, <1>3
<1>5. Sorted(Append(s, t))
  BY <1>1, <1>2, <1>3 DEF Sorted
<1>. QED
  BY <1>1, <1>4, <1>5

LEMMA LimitTypesInit == LimitInit => LimitTypes
BY DEF LimitInit, LimitTypes, Verdicts, Sorted

LEMMA LimitTypesStep == LimitTypes /\ [LimitNext]_limitVars => LimitTypes'
<1>. SUFFICES ASSUME LimitTypes, [LimitNext]_limitVars
             PROVE  LimitTypes'
  OBVIOUS
<1>1. CASE LimitTick
  <2>1. now' = now + 1 /\ admitted' = admitted /\ verdict' \in [Children -> Verdicts]
    BY <1>1 DEF LimitTick, Verdicts
  <2>2. \A c \in Children : \A i \in DOMAIN admitted[c] : admitted[c][i] \in Nat
    BY DEF LimitTypes
  <2>. QED
    BY <2>1, <2>2 DEF LimitTypes
<1>2. ASSUME NEW c \in Children, LimitAdmit(c)
      PROVE  LimitTypes'
  <2>1. /\ now' = now
        /\ admitted' = [admitted EXCEPT ![c] = Append(@, now)]
        /\ verdict' \in [Children -> Verdicts]
    BY <1>2 DEF LimitAdmit, LimitTypes, Verdicts
  <2>2. /\ Append(admitted[c], now) \in Seq(Nat)
        /\ Sorted(Append(admitted[c], now))
        /\ \A i \in DOMAIN Append(admitted[c], now) : Append(admitted[c], now)[i] <= now
    BY AppendNow DEF LimitTypes
  <2>3. \A d \in Children :
          admitted'[d] = IF d = c THEN Append(admitted[c], now) ELSE admitted[d]
    BY <2>1 DEF LimitTypes
  <2>4. admitted' \in [Children -> Seq(Nat)]
    BY <2>1, <2>2 DEF LimitTypes
  <2>5. \A d \in Children : Sorted(admitted'[d])
    BY <2>2, <2>3 DEF LimitTypes
  <2>6. \A d \in Children : \A i \in DOMAIN admitted'[d] : admitted'[d][i] <= now'
    BY <2>1, <2>2, <2>3 DEF LimitTypes
  <2>7. \A d \in Children : Sorted(admitted[d])'
    BY <2>5 DEF Sorted
  <2>. QED
    BY <2>1, <2>4, <2>6, <2>7 DEF LimitTypes
<1>3. ASSUME NEW c \in Children, LimitRefuse(c)
      PROVE  LimitTypes'
  BY <1>3 DEF LimitRefuse, LimitTypes, Verdicts, Sorted
<1>4. CASE UNCHANGED limitVars
  BY <1>4 DEF limitVars, LimitTypes, Sorted
<1>. QED
  BY <1>1, <1>2, <1>3, <1>4 DEF LimitNext

LEMMA AtMostStep ==
  LimitTypes /\ AtMostMaxRpm /\ [LimitNext]_limitVars => AtMostMaxRpm'
<1>. SUFFICES ASSUME LimitTypes, AtMostMaxRpm, [LimitNext]_limitVars
             PROVE  AtMostMaxRpm'
  OBVIOUS
<1>1. CASE UNCHANGED admitted
  BY <1>1 DEF AtMostMaxRpm
<1>2. ASSUME NEW c \in Children, LimitAdmit(c)
      PROVE  AtMostMaxRpm'
  <2>. DEFINE s == admitted[c]
              t == Append(s, now)
  <2>1. \A d \in Children : admitted'[d] = IF d = c THEN t ELSE admitted[d]
    BY <1>2 DEF LimitAdmit, LimitTypes
  <2>2. /\ s \in Seq(Nat) /\ now \in Nat /\ Sorted(s) /\ DOMAIN s = 1..Len(s)
        /\ \A i \in DOMAIN s : s[i] <= now /\ s[i] \in Nat
    BY DEF LimitTypes
  <2>3. /\ Len(t) = Len(s) + 1 /\ DOMAIN t = 1..(Len(s) + 1)
        /\ \A i \in 1..Len(s) : t[i] = s[i]
        /\ t[Len(s) + 1] = now
    BY <2>2, AppendNow
  <2>4. ASSUME NEW i \in DOMAIN t, i + MaxRpm <= Len(t)
        PROVE  t[i + MaxRpm] > t[i] + Window
    <3>. USE LimitAssumption DEF LimitAssumption
    <3>1. i \in 1..Len(s) /\ t[i] = s[i]
      BY <2>2, <2>3, <2>4
    <3>2. CASE i + MaxRpm <= Len(s)
      <4>1. i + MaxRpm \in 1..Len(s) /\ t[i + MaxRpm] = s[i + MaxRpm]
        BY <2>3, <3>1, <3>2
      <4>. QED
        BY <2>2, <3>1, <3>2, <4>1 DEF AtMostMaxRpm
    <3>3. CASE i + MaxRpm = Len(s) + 1
      <4>1. i = Len(s) - MaxRpm + 1 /\ Len(s) >= MaxRpm
        BY <2>2, <3>1, <3>3
      <4>2. ~(s[i] >= now - Window)
        BY <1>2, <4>1 DEF LimitAdmit, WindowFull
      <4>. QED
        BY <2>2, <2>3, <3>1, <3>3, <4>2
    <3>4. i \in Nat /\ Len(s) \in Nat /\ MaxRpm \in Nat
      BY <2>2, <3>1
    <3>5. i + MaxRpm <= Len(s) + 1
      BY <2>3, <2>4
    <3>6. i + MaxRpm <= Len(s) \/ i + MaxRpm = Len(s) + 1
      BY <3>4, <3>5
    <3>. QED
      BY <3>2, <3>3, <3>6
  <2>. QED
    BY <2>1, <2>4 DEF AtMostMaxRpm
<1>. QED
  BY <1>1, <1>2 DEF LimitNext, LimitTick, LimitRefuse, limitVars

(* The abstract limit does limit: more than MaxRpm calls of one child      *)
(* never fit into a window.                                                *)
THEOREM LimitHolds == LimitSpec => []AtMostMaxRpm
<1>1. LimitInit => AtMostMaxRpm
  BY DEF LimitInit, AtMostMaxRpm
<1>. QED
  BY <1>1, LimitTypesInit, LimitTypesStep, AtMostStep, PTL DEF LimitSpec

-----------------------------------------------------------------------------
(* The lists the workers keep.                                             *)

(* What a worker's list is to the history of a child's admitted calls: its *)
(* end, after k calls that are no longer inside the window.                *)
IsPartAfter(ts, s, t, k) ==
  /\ Len(s) = k + Len(ts)
  /\ \A i \in 1..Len(ts) : ts[i] = s[k + i]
  /\ \A i \in 1..k : s[i] < t

IsRecentPart(ts, s, t) == \E k \in Nat : IsPartAfter(ts, s, t, k)

Lists ==
  /\ callTimes \in [Workers -> [Children -> Seq(Nat)]]
  /\ \A w \in Workers, c \in Children :
       IsRecentPart(callTimes[w][c], admitted[c], Cutoff)

(* A non-empty set of natural numbers has a least element.                 *)
LEMMA LeastNatural ==
  ASSUME NEW T \in SUBSET Nat, T # {}
  PROVE  \E m \in T : \A n \in T : m <= n
<1>1. \E m \in T : \A n \in T : ~(<<n, m>> \in OpToRel(<, Nat))
  BY WFMin, NatLessThanWellFounded
<1>2. PICK m \in T : \A n \in T : ~(<<n, m>> \in OpToRel(<, Nat))
  BY <1>1
<1>3. ASSUME NEW n \in T
      PROVE  m <= n
  <2>1. <<n, m>> \in Nat \X Nat /\ ~(<<n, m>> \in OpToRel(<, Nat))
    BY <1>2
  <2>2. ~(n < m)
    BY <2>1 DEF OpToRel
  <2>. QED
    BY <2>2
<1>. QED
  BY <1>3

(* In a sorted list, what comes no later is no greater.                    *)
LEMMA SortedPair ==
  ASSUME NEW s \in Seq(Nat), Sorted(s),
         NEW i \in 1..Len(s), NEW j \in 1..Len(s), i <= j
  PROVE  s[i] \in Nat /\ s[j] \in Nat /\ s[i] <= s[j]
<1>1. i \in DOMAIN s /\ j \in DOMAIN s
  BY LenProperties
<1>2. s[i] <= s[j]
  BY <1>1 DEF Sorted
<1>. QED
  BY <1>2, ElementOfSeq

(* The binary search finds the border between old and recent calls.        *)
LEMMA BisectFinds ==
  ASSUME NEW s \in Seq(Nat), Sorted(s), NEW t \in Int
  PROVE  /\ BisectLeft(s, t) \in 0..Len(s)
         /\ \A i \in 1..BisectLeft(s, t) : s[i] < t
         /\ \A i \in (BisectLeft(s, t) + 1)..Len(s) : s[i] >= t
<1>. DEFINE Border(n) == \A i \in (n + 1)..Len(s) : s[i] >= t
            Borders == {n \in 0..Len(s) : Border(n)}
<1>1. /\ Len(s) \in Nat /\ DOMAIN s = 1..Len(s)
      /\ \A i \in 1..Len(s) : s[i] \in Nat
  OBVIOUS
<1>2. Len(s) \in Borders /\ Borders \in SUBSET Nat
  BY <1>1
<1>3. PICK m \in Borders : \A n \in Borders : m <= n
  BY <1>2, LeastNatural
<1>4. ASSUME NEW i \in 1..m
      PROVE  s[i] < t
  <2>1. m \in 1..Len(s) /\ m - 1 \in 0..Len(s) /\ i \in 1..Len(s)
    BY <1>1, <1>3, <1>4
  <2>2. ~Border(m - 1)
    <3>1. ~(m <= m - 1)
      BY <2>1
    <3>2. m - 1 \notin Borders
      BY <1>3, <3>1
    <3>. QED
      BY <2>1, <3>2
  <2>3. s[m] < t
    BY <1>1, <1>3, <2>1, <2>2
  <2>4. s[i] \in Nat /\ s[m] \in Nat /\ s[i] <= s[m]
    <3>1. i <= m
      BY <2>1
    <3>. QED
      BY <2>1, <3>1, SortedPair
  <2>. QED
    BY <2>3, <2>4
<1>5. /\ m \in 0..Len(s)
      /\ \A i \in 1..m : s[i] < t
      /\ \A i \in (m + 1)..Len(s) : s[i] >= t
  BY <1>3, <1>4
<1>. HIDE DEF Borders, Border
<1>. QED
  BY <1>5 DEF BisectLeft

(* A recent part of a sorted history is sorted.                            *)
LEMMA RecentSorted ==
  ASSUME NEW s \in Seq(Nat), NEW ts \in Seq(Nat), NEW t \in Int,
         Sorted(s), IsRecentPart(ts, s, t)
  PROVE  Sorted(ts)
<1>1. PICK k \in Nat : IsPartAfter(ts, s, t, k)
  BY DEF IsRecentPart
<1>2. /\ Len(s) \in Nat /\ DOMAIN s = 1..Len(s)
      /\ Len(ts) \in Nat /\ DOMAIN ts = 1..Len(ts)
  OBVIOUS
<1>3. ASSUME NEW i \in DOMAIN ts, NEW j \in DOMAIN ts, i <= j
      PROVE  ts[i] <= ts[j]
  <2>1. k + i \in DOMAIN s /\ k + j \in DOMAIN s /\ k + i <= k + j
    BY <1>1, <1>2, <1>3 DEF IsPartAfter
  <2>2. ts[i] = s[k + i] /\ ts[j] = s[k + j]
    BY <1>1, <1>2 DEF IsPartAfter
  <2>. QED
    BY <2>1, <2>2 DEF Sorted
<1>. QED
  BY <1>3 DEF Sorted

(* Dropping b calls that are too old leaves a recent part.                 *)
LEMMA DropOld ==
  ASSUME NEW s \in Seq(Nat), NEW ts \in Seq(Nat), NEW t \in Int,
         IsRecentPart(ts, s, t),
         NEW b \in 0..Len(ts), \A i \in 1..b : ts[i] < t,
         NEW p \in Seq(Nat), Len(ts) = b + Len(p),
         \A i \in 1..Len(p) : p[i] = ts[b + i]
  PROVE  IsRecentPart(p, s, t)
<1>1. PICK k \in Nat : IsPartAfter(ts, s, t, k)
  BY DEF IsRecentPart
<1>2. Len(s) \in Nat /\ Len(ts) \in Nat /\ Len(p) \in Nat /\ b \in Nat
  OBVIOUS
<1>3. Len(s) = (k + b) + Len(p)
  BY <1>1, <1>2 DEF IsPartAfter
<1>4. ASSUME NEW i \in 1..Len(p)
      PROVE  p[i] = s[(k + b) + i]
  <2>1. b + i \in 1..Len(ts) /\ k + (b + i) = (k + b) + i
    BY <1>2
  <2>2. ts[b + i] = s[k + (b + i)]
    BY <1>1, <2>1 DEF IsPartAfter
  <2>. QED
    BY <2>1, <2>2
<1>5. ASSUME NEW i \in 1..(k + b)
      PROVE  s[i] < t
  <2>1. CASE i \in 1..k
    BY <1>1, <2>1 DEF IsPartAfter
  <2>2. CASE i \notin 1..k
    <3>1. PICK j \in 1..b : i = k + j
      <4>1. i - k \in 1..b /\ i = k + (i - k)
        BY <1>2, <2>2
      <4>. QED
        BY <4>1
    <3>2. j \in 1..Len(ts)
      BY <1>2
    <3>. QED
      BY <1>1, <3>1, <3>2 DEF IsPartAfter
  <2>. QED
    BY <2>1, <2>2
<1>6. IsPartAfter(p, s, t, k + b) /\ k + b \in Nat
  BY <1>2, <1>3, <1>4, <1>5 DEF IsPartAfter
<1>. QED
  BY <1>6 DEF IsRecentPart

(* What SubSeq leaves after b elements.                                    *)
LEMMA DropProperties ==
  ASSUME NEW ts \in Seq(Nat), NEW b \in 0..Len(ts)
  PROVE  /\ SubSeq(ts, b + 1, Len(ts)) \in Seq(Nat)
         /\ Len(ts) = b + Len(SubSeq(ts, b + 1, Len(ts)))
         /\ \A i \in 1..Len(SubSeq(ts, b + 1, Len(ts))) :
              SubSeq(ts, b + 1, Len(ts))[i] = ts[b + i]
<1>1. b + 1 \in Int /\ Len(ts) \in Nat /\ \A i \in (b + 1)..Len(ts) : ts[i] \in Nat
  OBVIOUS
<1>. DEFINE p == SubSeq(ts, b + 1, Len(ts))
<1>2. p \in Seq(Nat)
  BY <1>1, SubSeqProperties
<1>3. Len(p) = IF b + 1 <= Len(ts) THEN Len(ts) - (b + 1) + 1 ELSE 0
  BY <1>1, SubSeqProperties
<1>4. \A i \in 1..(Len(ts) - (b + 1) + 1) : p[i] = ts[b + 1 + i - 1]
  BY <1>1, SubSeqProperties
<1>. HIDE DEF p
<1>5. Len(ts) = b + Len(p)
  BY <1>1, <1>3
<1>6. ASSUME NEW i \in 1..Len(p)
      PROVE  p[i] = ts[b + i]
  <2>1. Len(p) \in Nat
    BY <1>2
  <2>2. i \in 1..(Len(ts) - (b + 1) + 1) /\ b + 1 + i - 1 = b + i
    BY <1>1, <1>5, <2>1
  <2>. QED
    BY <1>4, <2>2
<1>. QED
  BY <1>2, <1>5, <1>6 DEF p

(* Pruning keeps exactly the recent calls.                                 *)
LEMMA PrunedRecent ==
  ASSUME NEW s \in Seq(Nat), NEW ts \in Seq(Nat), now \in Nat,
         Sorted(s), IsRecentPart(ts, s, Cutoff)
  PROVE  /\ Pruned(ts) \in Seq(Nat) /\ IsRecentPart(Pruned(ts), s, Cutoff)
         /\ \A i \in 1..Len(Pruned(ts)) : Pruned(ts)[i] >= Cutoff
<1>1. Cutoff \in Int
  BY LimitAssumption DEF LimitAssumption, Cutoff
<1>2. PICK b \in 0..Len(ts) :
        /\ b = BisectLeft(ts, Cutoff)
        /\ \A i \in 1..b : ts[i] < Cutoff
        /\ \A i \in (b + 1)..Len(ts) : ts[i] >= Cutoff
  BY <1>1, RecentSorted, BisectFinds
<1>3. PICK p \in Seq(Nat) :
        /\ p = Pruned(ts)
        /\ Len(ts) = b + Len(p)
        /\ \A i \in 1..Len(p) : p[i] = ts[b + i]
  BY <1>2, DropProperties DEF Pruned
<1>4. IsRecentPart(p, s, Cutoff)
  BY <1>1, <1>2, <1>3, DropOld
<1>5. ASSUME NEW i \in 1..Len(p)
      PROVE  p[i] >= Cutoff
  <2>1. Len(p) \in Nat /\ Len(ts) \in Nat /\ b \in Nat
    OBVIOUS
  <2>2. b + i \in (b + 1)..Len(ts)
    BY <1>3, <2>1
  <2>. QED
    BY <1>2, <1>3, <2>2
<1>. QED
  BY <1>3, <1>4, <1>5

(* The window is full exactly if the pruned list is.                       *)
LEMMA FullIffLong ==
  ASSUME NEW c \in Children, LimitTypes, NEW p \in Seq(Nat),
         IsRecentPart(p, admitted[c], Cutoff), \A i \in 1..Len(p) : p[i] >= Cutoff
  PROVE  WindowFull(c) <=> ~(Len(p) < MaxRpm)
<1>. DEFINE s == admitted[c]
            m == Len(s) - MaxRpm + 1
<1>1. /\ Len(s) \in Nat /\ Len(p) \in Nat /\ MaxRpm \in Nat \ {0}
      /\ \A i \in 1..Len(s) : s[i] \in Nat
  BY LimitAssumption DEF LimitAssumption, LimitTypes
<1>2. Cutoff \in Int
  BY LimitAssumption DEF LimitAssumption, LimitTypes, Cutoff
<1>3. PICK k \in Nat : IsPartAfter(p, s, Cutoff, k)
  BY DEF IsRecentPart
<1>4. Len(s) = k + Len(p)
  BY <1>3 DEF IsPartAfter
<1>5. CASE Len(p) >= MaxRpm
  <2>1. PICK j \in 1..Len(p) : k + j = m
    <3>1. Len(p) - MaxRpm + 1 \in 1..Len(p) /\ k + (Len(p) - MaxRpm + 1) = m
      BY <1>1, <1>4, <1>5
    <3>. QED
      BY <3>1
  <2>2. s[m] >= Cutoff
    <3>1. p[j] = s[k + j] /\ p[j] >= Cutoff
      BY <1>3, <2>1 DEF IsPartAfter
    <3>. QED
      BY <2>1, <3>1
  <2>3. Len(s) >= MaxRpm
    BY <1>1, <1>4, <1>5
  <2>. QED
    BY <1>1, <1>5, <2>2, <2>3 DEF WindowFull, Cutoff
<1>6. CASE Len(p) < MaxRpm /\ Len(s) >= MaxRpm
  <2>1. m \in 1..k /\ m \in 1..Len(s)
    BY <1>1, <1>4, <1>6
  <2>2. s[m] < Cutoff /\ s[m] \in Nat
    BY <1>1, <1>3, <2>1 DEF IsPartAfter
  <2>3. ~(s[m] >= Cutoff)
    BY <1>2, <2>2
  <2>. QED
    BY <1>6, <2>3 DEF WindowFull, Cutoff
<1>7. CASE Len(p) < MaxRpm /\ ~(Len(s) >= MaxRpm)
  BY <1>7 DEF WindowFull
<1>. QED
  BY <1>1, <1>5, <1>6, <1>7

-----------------------------------------------------------------------------
(* One worker process.                                                     *)

OneWorker == \A v, w \in Workers : v = w

LEMMA OneMore ==
  ASSUME NEW n \in Nat, NEW i \in 1..(n + 1)
  PROVE  i \in 1..n \/ i = n + 1
OBVIOUS

(* Recording the current call keeps a recent part recent.                  *)
LEMMA RecordRecent ==
  ASSUME NEW s \in Seq(Nat), NEW p \in Seq(Nat), NEW t \in Int, NEW n \in Nat,
         IsRecentPart(p, s, t)
  PROVE  IsRecentPart(Append(p, n), Append(s, n), t)
<1>1. PICK k \in Nat : IsPartAfter(p, s, t, k)
  BY DEF IsRecentPart
<1>2. Len(s) \in Nat /\ Len(p) \in Nat /\ Len(s) = k + Len(p)
  BY <1>1 DEF IsPartAfter
<1>3. PICK pp \in Seq(Nat) :
        /\ pp = Append(p, n) /\ Len(pp) = Len(p) + 1
        /\ \A i \in 1..Len(p) : pp[i] = p[i]
        /\ pp[Len(p) + 1] = n
  BY AppendProperties
<1>4. PICK ss \in Seq(Nat) :
        /\ ss = Append(s, n) /\ Len(ss) = Len(s) + 1
        /\ \A i \in 1..Len(s) : ss[i] = s[i]
        /\ ss[Len(s) + 1] = n
  BY AppendProperties
<1>5. Len(ss) = k + Len(pp)
  BY <1>2, <1>3, <1>4
<1>6. ASSUME NEW i \in 1..Len(pp)
      PROVE  pp[i] = ss[k + i]
  <2>1. CASE i \in 1..Len(p)
    <3>1. k + i \in 1..Len(s)
      BY <1>2, <2>1
    <3>. QED
      BY <1>1, <1>3, <1>4, <2>1, <3>1 DEF IsPartAfter
  <2>2. CASE i = Len(p) + 1
    <3>1. k + i = Len(s) + 1
      BY <1>2, <2>2
    <3>. QED
      BY <1>3, <1>4, <2>2, <3>1
  <2>3. i \in 1..(Len(p) + 1)
    BY <1>3
  <2>4. i \in 1..Len(p) \/ i = Len(p) + 1
    BY <1>2, <2>3, OneMore
  <2>. QED
    BY <2>1, <2>2, <2>4
<1>7. ASSUME NEW i \in 1..k
      PROVE  ss[i] < t
  BY <1>1, <1>2, <1>4 DEF IsPartAfter
<1>8. IsPartAfter(pp, ss, t, k)
  BY <1>5, <1>6, <1>7 DEF IsPartAfter
<1>. QED
  BY <1>3, <1>4, <1>8 DEF IsRecentPart

LEMMA TickStep ==
  ASSUME LimitTypes, Lists, Tick
  PROVE  Lists'
<1>1. now \in Nat /\ now' = now + 1 /\ admitted' = admitted /\ callTimes' = callTimes
  BY DEF Tick, LimitTick, LimitTypes
<1>2. Cutoff \in Int /\ Cutoff' = Cutoff + 1
  BY <1>1, LimitAssumption DEF LimitAssumption, Cutoff
<1>3. ASSUME NEW w \in Workers, NEW c \in Children
      PROVE  IsRecentPart(callTimes[w][c], admitted[c], Cutoff')
  <2>1. PICK k \in Nat : IsPartAfter(callTimes[w][c], admitted[c], Cutoff, k)
    BY DEF Lists, IsRecentPart
  <2>2. \A i \in 1..k : admitted[c][i] \in Nat
    <3>1. admitted[c] \in Seq(Nat) /\ Len(admitted[c]) = k + Len(callTimes[w][c])
      BY <2>1 DEF LimitTypes, IsPartAfter
    <3>2. Len(callTimes[w][c]) \in Nat
      BY DEF Lists
    <3>. QED
      BY <3>1, <3>2
  <2>3. IsPartAfter(callTimes[w][c], admitted[c], Cutoff + 1, k)
    BY <1>2, <2>1, <2>2 DEF IsPartAfter
  <2>. QED
    BY <1>2, <2>3 DEF IsRecentPart
<1>. QED
  BY <1>1, <1>3 DEF Lists

LEMMA CheckStep ==
  ASSUME OneWorker, LimitTypes, Lists,
         NEW w \in Workers, NEW c \in Children, CheckRateLimit(w, c)
  PROVE  (LimitAdmit(c) \/ LimitRefuse(c)) /\ Lists'
<1>1. /\ callTimes[w][c] \in Seq(Nat) /\ admitted[c] \in Seq(Nat)
      /\ Sorted(admitted[c]) /\ now \in Nat
      /\ IsRecentPart(callTimes[w][c], admitted[c], Cutoff)
  BY DEF LimitTypes, Lists
<1>2. PICK p \in Seq(Nat) :
        /\ p = Pruned(callTimes[w][c])
        /\ IsRecentPart(p, admitted[c], Cutoff)
        /\ \A i \in 1..Len(p) : p[i] >= Cutoff
  BY <1>1, PrunedRecent
<1>3. WindowFull(c) <=> ~(Len(p) < MaxRpm)
  BY <1>2, FullIffLong
<1>4. Cutoff \in Int /\ now' = now /\ Cutoff' = Cutoff
  BY <1>1, LimitAssumption DEF LimitAssumption, Cutoff, CheckRateLimit
<1>5. CASE Len(p) < MaxRpm
  <2>1. /\ callTimes' = [callTimes EXCEPT ![w][c] = Append(p, now)]
        /\ admitted' = [admitted EXCEPT ![c] = Append(@, now)]
        /\ verdict' = [verdict EXCEPT ![c] = "admitted"]
    BY <1>2, <1>5 DEF CheckRateLimit, Recorded
  <2>2. LimitAdmit(c)
    BY <1>3, <1>4, <1>5, <2>1 DEF LimitAdmit
  <2>3. Append(p, now) \in Seq(Nat)
    BY <1>1, AppendProperties
  <2>4. callTimes' \in [Workers -> [Children -> Seq(Nat)]]
    BY <2>1, <2>3 DEF Lists
  <2>5. IsRecentPart(Append(p, now), Append(admitted[c], now), Cutoff)
    BY <1>1, <1>2, <1>4, RecordRecent
  <2>6. ASSUME NEW v \in Workers, NEW d \in Children
        PROVE  IsRecentPart(callTimes'[v][d], admitted'[d], Cutoff')
    <3>1. CASE d = c
      <4>1. v = w /\ callTimes'[v][d] = Append(p, now)
        BY <2>1, <3>1 DEF OneWorker, Lists
      <4>2. admitted'[d] = Append(admitted[c], now)
        BY <2>1, <3>1 DEF LimitTypes
      <4>. QED
        BY <1>4, <2>5, <4>1, <4>2
    <3>2. CASE d # c
      <4>1. callTimes'[v][d] = callTimes[v][d] /\ admitted'[d] = admitted[d]
        BY <2>1, <3>2 DEF LimitTypes, Lists
      <4>. QED
        BY <1>4, <4>1 DEF Lists
    <3>. QED
      BY <3>1, <3>2
  <2>. QED
    BY <2>2, <2>4, <2>6 DEF Lists
<1>6. CASE ~(Len(p) < MaxRpm)
  <2>1. /\ callTimes' = [callTimes EXCEPT ![w][c] = p]
        /\ verdict' = [verdict EXCEPT ![c] = "refused"]
        /\ admitted' = admitted
    BY <1>2, <1>6 DEF CheckRateLimit
  <2>2. LimitRefuse(c)
    BY <1>3, <1>4, <1>6, <2>1 DEF LimitRefuse
  <2>3. callTimes' \in [Workers -> [Children -> Seq(Nat)]]
    BY <2>1 DEF Lists
  <2>4. ASSUME NEW v \in Workers, NEW d \in Children
        PROVE  IsRecentPart(callTimes'[v][d], admitted'[d], Cutoff')
    <3>1. callTimes'[v][d] = IF v = w /\ d = c THEN p ELSE callTimes[v][d]
      BY <2>1 DEF Lists
    <3>. QED
      BY <1>2, <1>4, <2>1, <3>1 DEF Lists
  <2>. QED
    BY <2>2, <2>3, <2>4 DEF Lists
<1>. QED
  BY <1>5, <1>6

LEMMA SweepStep ==
  ASSUME LimitTypes, Lists, NEW w \in Workers, Sweep(w)
  PROVE  Lists'
<1>1. /\ UNCHANGED <<now, admitted>> /\ now \in Nat /\ Cutoff \in Int
      /\ Cutoff' = Cutoff
  BY LimitAssumption DEF LimitAssumption, Cutoff, Sweep, limitVars, LimitTypes
<1>2. \A v \in Workers, d \in Children :
        callTimes'[v][d] = IF v = w /\ Evicts(callTimes[v][d])
                           THEN <<>> ELSE callTimes[v][d]
  BY DEF Sweep, Lists
<1>3. callTimes' \in [Workers -> [Children -> Seq(Nat)]]
  <2>1. [c \in Children |-> IF Evicts(callTimes[w][c]) THEN <<>>
                            ELSE callTimes[w][c]] \in [Children -> Seq(Nat)]
    BY DEF Lists
  <2>. QED
    BY <2>1 DEF Sweep, Lists
<1>4. ASSUME NEW v \in Workers, NEW d \in Children, Evicts(callTimes[v][d])
      PROVE  IsRecentPart(<<>>, admitted[d], Cutoff)
  <2>. DEFINE ts == callTimes[v][d]
              s == admitted[d]
  <2>1. /\ ts \in Seq(Nat) /\ s \in Seq(Nat) /\ Sorted(s)
        /\ IsRecentPart(ts, s, Cutoff)
    BY DEF LimitTypes, Lists
  <2>2. Sorted(ts)
    BY <1>1, <2>1, RecentSorted
  <2>3. /\ Len(ts) \in 1..Len(ts) /\ ts[Len(ts)] < Cutoff
        /\ DOMAIN ts = 1..Len(ts) /\ \A i \in 1..Len(ts) : ts[i] \in Nat
    BY <1>4, <2>1 DEF Evicts
  <2>. HIDE DEF ts
  <2>4. ASSUME NEW i \in 1..Len(ts)
        PROVE  ts[i] < Cutoff
    <3>1. i <= Len(ts)
      BY <2>3
    <3>2. ts[i] \in Nat /\ ts[Len(ts)] \in Nat /\ ts[i] <= ts[Len(ts)]
      BY <2>1, <2>2, <2>3, <3>1, SortedPair
    <3>. QED
      BY <1>1, <2>3, <3>2
  <2>5. Len(ts) \in 0..Len(ts) /\ Len(ts) = Len(ts) + 0 /\ \A i \in 1..0 : FALSE
    BY <2>3
  <2>6. PICK e \in Seq(Nat) : e = <<>> /\ Len(e) = 0
    <3>1. <<>> \in Seq(Nat) /\ Len(<<>>) = 0
      BY EmptySeq
    <3>. QED
      BY <3>1, Zenon
  <2>7. IsRecentPart(e, s, Cutoff)
    BY <1>1, <2>1, <2>4, <2>5, <2>6, DropOld, Zenon
  <2>. QED
    BY <2>6, <2>7
<1>. QED
  BY <1>1, <1>2, <1>3, <1>4 DEF Lists

(* With one worker process, every call is admitted or refused exactly as   *)
(* the abstract limit says, whatever is pruned or swept in between.        *)
THEOREM Refinement == OneWorker => (Spec => ImplementsLimit)
<1>. SUFFICES ASSUME OneWorker
             PROVE  Spec => LimitSpec
  BY DEF ImplementsLimit
<1>1. Init => LimitInit /\ LimitTypes /\ Lists
  <2>1. ASSUME Init
        PROVE  Lists
    <3>1. \A w \in Workers, c \in Children :
            callTimes[w][c] = <<>> /\ admitted[c] = <<>>
      BY <2>1 DEF Init, LimitInit
    <3>2. IsPartAfter(<<>>, <<>>, Cutoff, 0)
      BY DEF IsPartAfter
    <3>3. callTimes \in [Workers -> [Children -> Seq(Nat)]]
      BY <2>1 DEF Init
    <3>. QED
      BY <3>1, <3>2, <3>3 DEF Lists, IsRecentPart
  <2>. QED
    BY <2>1, LimitTypesInit DEF Init
<1>2. LimitTypes /\ Lists /\ [Next]_vars => [LimitNext]_limitVars /\ Lists'
  <2>. SUFFICES ASSUME LimitTypes, Lists, [Next]_vars
               PROVE  [LimitNext]_limitVars /\ Lists'
    OBVIOUS
  <2>1. CASE Tick
    BY <2>1, TickStep DEF Tick, LimitNext
  <2>2. ASSUME NEW w \in Workers, NEW c \in Children, CheckRateLimit(w, c)
        PROVE  [LimitNext]_limitVars /\ Lists'
    BY <2>2, CheckStep DEF LimitNext
  <2>3. ASSUME NEW w \in Workers, Sweep(w)
        PROVE  [LimitNext]_limitVars /\ Lists'
    BY <2>3, SweepStep DEF Sweep
  <2>4. CASE UNCHANGED vars
    BY <2>4 DEF vars, limitVars, Lists, Cutoff
  <2>. QED
    BY <2>1, <2>2, <2>3, <2>4 DEF Next
<1>3. LimitTypes /\ [LimitNext]_limitVars => LimitTypes'
  BY LimitTypesStep
<1>. QED
  BY <1>1, <1>2, <1>3, PTL DEF Spec, LimitSpec

(* With one worker process, more than MaxRpm classify calls of one child   *)
(* never fit into a window.                                                *)
THEOREM OneWorkerLimit == OneWorker => (Spec => []AtMostMaxRpm)
BY Refinement, LimitHolds, PTL DEF ImplementsLimit
-----------------------------------------------------------------------------
(* Any number of worker processes: the stores are sorted lists of past     *)
(* times, which is what the binary search and the sweep rely on.           *)

History(ts, t) ==
  /\ ts \in Seq(Nat)
  /\ Sorted(ts)
  /\ \A i \in DOMAIN ts : ts[i] <= t

Histories ==
  /\ now \in 0..MaxNow
  /\ admitted \in [Children -> Seq(Nat)] /\ verdict \in [Children -> Verdicts]
  /\ callTimes \in [Workers -> [Children -> Seq(Nat)]]
  /\ \A c \in Children : History(admitted[c], now)
  /\ \A w \in Workers, c \in Children : History(callTimes[w][c], now)

LEMMA HistoryRange ==
  ASSUME NEW t \in Nat, NEW ts, History(ts, t)
  PROVE  ts \in Seq(0..t)
<1>1. /\ ts \in Seq(Nat) /\ Len(ts) \in Nat /\ ts \in [1..Len(ts) -> Nat]
      /\ DOMAIN ts = 1..Len(ts)
  BY LenProperties DEF History
<1>2. \A i \in 1..Len(ts) : ts[i] \in 0..t
  BY <1>1 DEF History
<1>3. ts \in [1..Len(ts) -> 0..t]
  BY <1>1, <1>2
<1>. QED
  BY <1>1, <1>3, SeqDef

(* What was past stays past.                                               *)
LEMMA HistoryLater ==
  ASSUME NEW t \in Nat, NEW u \in Nat, t <= u, NEW ts, History(ts, t)
  PROVE  History(ts, u)
<1>1. \A i \in DOMAIN ts : ts[i] \in Nat
  BY DEF History
<1>. QED
  BY <1>1 DEF History

LEMMA HistoryEmpty == \A t : History(<<>>, t)
<1>1. <<>> \in Seq(Nat) /\ DOMAIN <<>> = {}
  OBVIOUS
<1>. QED
  BY <1>1 DEF History, Sorted

(* insort / append: the current time goes to the end.                      *)
LEMMA HistoryRecorded ==
  ASSUME NEW t \in Nat, NEW ts, History(ts, t)
  PROVE  History(Append(ts, t), t)
BY AppendNow DEF History

(* Dropping what comes before the cutoff keeps a history one.              *)
LEMMA HistoryPruned ==
  ASSUME now \in Nat, NEW ts, History(ts, now)
  PROVE  History(Pruned(ts), now)
<1>1. /\ ts \in Seq(Nat) /\ Sorted(ts) /\ Cutoff \in Int
      /\ Len(ts) \in Nat /\ DOMAIN ts = 1..Len(ts)
  BY LimitAssumption DEF LimitAssumption, Cutoff, History
<1>2. PICK b \in 0..Len(ts) : b = BisectLeft(ts, Cutoff)
  BY <1>1, BisectFinds
<1>3. PICK p \in Seq(Nat) :
        /\ p = Pruned(ts)
        /\ Len(ts) = b + Len(p)
        /\ \A i \in 1..Len(p) : p[i] = ts[b + i]
  BY <1>1, <1>2, DropProperties DEF Pruned
<1>4. Len(p) \in Nat /\ DOMAIN p = 1..Len(p)
  OBVIOUS
<1>5. \A i \in DOMAIN p : b + i \in DOMAIN ts
  BY <1>1, <1>3, <1>4
<1>6. \A i \in DOMAIN p : p[i] <= now
  BY <1>3, <1>4, <1>5 DEF History
<1>7. \A i, j \in DOMAIN p : i <= j => p[i] <= p[j]
  <2>1. SUFFICES ASSUME NEW i \in DOMAIN p, NEW j \in DOMAIN p, i <= j
                 PROVE  p[i] <= p[j]
    OBVIOUS
  <2>2. b + i <= b + j
    BY <1>4, <2>1
  <2>. QED
    BY <1>1, <1>3, <1>4, <1>5, <2>2 DEF Sorted
<1>. QED
  BY <1>3, <1>6, <1>7 DEF History, Sorted

LEMMA HistoriesInit == Init => Histories
BY HistoryEmpty, LimitAssumption
DEF Init, LimitInit, Histories, LimitAssumption, Verdicts

LEMMA HistoriesStep == Histories /\ [Next]_vars => Histories'
<1>. SUFFICES ASSUME Histories, [Next]_vars
             PROVE  Histories'
  OBVIOUS
<1>g. MaxNow \in Nat /\ now \in Nat
  BY LimitAssumption DEF LimitAssumption, Histories
<1>1. CASE Tick
  <2>1. /\ now' \in 0..MaxNow /\ now' \in Nat /\ now <= now'
        /\ UNCHANGED <<admitted, callTimes>> /\ verdict' \in [Children -> Verdicts]
    BY <1>1, <1>g DEF Tick, LimitTick, Histories, Verdicts
  <2>2. \A c \in Children : History(admitted[c], now')
    BY <1>g, <2>1, HistoryLater DEF Histories
  <2>3. \A w \in Workers, c \in Children : History(callTimes[w][c], now')
    BY <1>g, <2>1, HistoryLater DEF Histories
  <2>. QED
    BY <2>1, <2>2, <2>3 DEF Histories
<1>2. ASSUME NEW w \in Workers, NEW c \in Children, CheckRateLimit(w, c)
      PROVE  Histories'
  <2>. DEFINE ts == Pruned(callTimes[w][c])
  <2>1. History(ts, now) /\ History(Append(ts, now), now)
    BY <1>g, HistoryPruned, HistoryRecorded DEF Histories
  <2>2. /\ now' = now
        /\ verdict' \in [Children -> Verdicts]
        /\ \/ /\ callTimes' = [callTimes EXCEPT ![w][c] = Append(ts, now)]
              /\ admitted' = [admitted EXCEPT ![c] = Append(@, now)]
           \/ /\ callTimes' = [callTimes EXCEPT ![w][c] = ts]
              /\ admitted' = admitted
    BY <1>2 DEF CheckRateLimit, Recorded, Histories, Verdicts
  <2>. HIDE DEF ts
  <2>3. PICK p \in Seq(Nat) :
          History(p, now) /\ callTimes' = [callTimes EXCEPT ![w][c] = p]
    BY <2>1, <2>2 DEF History
  <2>4. /\ callTimes' \in [Workers -> [Children -> Seq(Nat)]]
        /\ \A v \in Workers, d \in Children :
             callTimes'[v][d] = IF v = w /\ d = c THEN p ELSE callTimes[v][d]
    BY <2>3 DEF Histories
  <2>5. \A v \in Workers, d \in Children : History(callTimes'[v][d], now)
    BY <2>3, <2>4 DEF Histories
  <2>6. History(Append(admitted[c], now), now)
    BY <1>g, HistoryRecorded DEF Histories
  <2>7. /\ admitted' \in [Children -> Seq(Nat)]
        /\ \A d \in Children : History(admitted'[d], now)
    <3>1. Append(admitted[c], now) \in Seq(Nat)
      BY <2>6 DEF History
    <3>. QED
      BY <2>2, <2>6, <3>1 DEF Histories
  <2>. QED
    BY <2>2, <2>4, <2>5, <2>7 DEF Histories
<1>3. ASSUME NEW w \in Workers, Sweep(w)
      PROVE  Histories'
  <2>1. /\ UNCHANGED <<now, admitted, verdict>>
        /\ callTimes' \in [Workers -> [Children -> Seq(Nat)]]
        /\ \A v \in Workers, d \in Children :
             callTimes'[v][d] = <<>> \/ callTimes'[v][d] = callTimes[v][d]
    <3>1. [c \in Children |-> IF Evicts(callTimes[w][c]) THEN <<>>
                              ELSE callTimes[w][c]] \in [Children -> Seq(Nat)]
      BY DEF Histories
    <3>. QED
      BY <1>3, <3>1 DEF Sweep, Histories, limitVars
  <2>2. \A v \in Workers, d \in Children : History(callTimes'[v][d], now)
    BY <2>1, HistoryEmpty DEF Histories
  <2>. QED
    BY <2>1, <2>2 DEF Histories
<1>4. CASE UNCHANGED vars
  BY <1>4 DEF vars, limitVars, Histories
<1>. QED
  BY <1>1, <1>2, <1>3, <1>4 DEF Next

(* With any number of workers, every worker's store holds past times in    *)
(* ascending order, so that bisect_left in check_rate_limit and the test   *)
(* of the last time in _sweep_once see what they assume to see.            *)
THEOREM StoresAreSorted == Spec => []TypeOK
<1>1. Histories => TypeOK
  <2>. SUFFICES ASSUME Histories PROVE TypeOK
    OBVIOUS
  <2>1. now \in Nat
    BY LimitAssumption DEF LimitAssumption, Histories
  <2>2. \A c \in Children : admitted[c] \in Seq(0..now)
    BY <2>1, HistoryRange DEF Histories
  <2>3. admitted \in [Children -> Seq(0..now)]
    BY <2>2 DEF Histories
  <2>4. \A w \in Workers, c \in Children :
          callTimes[w][c] \in Seq(0..now) /\ Sorted(callTimes[w][c])
    BY <2>1, HistoryRange DEF Histories, History
  <2>5. callTimes \in [Workers -> [Children -> Seq(0..now)]]
    BY <2>4 DEF Histories
  <2>. QED
    BY <2>3, <2>4, <2>5 DEF Histories, TypeOK
<1>. QED
  BY <1>1, HistoriesInit, HistoriesStep, PTL DEF Spec
=============================================================================
