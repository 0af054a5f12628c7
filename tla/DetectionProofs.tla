-------------------------- MODULE DetectionProofs --------------------------
(***************************************************************************)
(* Proofs about Detection: the memory of links keeps its shape (no link    *)
(* twice, never more than Max, entries at most Skew ticks out of order);   *)
(* a link that is passed over was handed over recently; and the two-step   *)
(* look-up of scanner and clipboard monitor implements LinkOnce.           *)
(***************************************************************************)
EXTENDS Detection, SequenceTheorems, FiniteSetTheorems, TLAPS

Entry == [url : URLs, age : 0..Horizon]

LEMMA Numbers ==
  /\ TTL \in Nat /\ Skew \in Nat /\ Max \in Nat \ {0} /\ Horizon \in Nat
  /\ Horizon = TTL + 2 * Skew + 1 /\ Skew <= Horizon
BY DetectionAssumption DEF DetectionAssumption, Horizon

LEMMA EntryFields ==
  ASSUME NEW e \in Entry
  PROVE  e.url \in URLs /\ e.age \in Nat /\ e.age <= Horizon
BY Numbers DEF Entry

-----------------------------------------------------------------------------
(* The ordered dictionary.                                                 *)

Injective(s) == \A i, j \in DOMAIN s : s[i].url = s[j].url => i = j
InOrder(s) == \A i, j \in DOMAIN s : i <= j => s[j].age <= s[i].age + Skew
Dictionary(s) == s \in Seq(Entry) /\ Injective(s) /\ InOrder(s)

(* t is what follows the first k entries of s.                             *)
IsRest(t, s, k) ==
  /\ t \in Seq(Entry) /\ Len(s) = k + Len(t)
  /\ \A i \in 1..Len(t) : t[i] = s[k + i]

FirstKeys(s, k) == {s[i].url : i \in 1..k}

(* The age a dictionary has for a link, -1 if it has none.                 *)
AgeIn(s, u) == IF u \in Keys(s)
               THEN LET i == CHOOSE i \in DOMAIN s : s[i].url = u IN s[i].age
               ELSE -1

LEMMA AgeIsAgeIn == \A u : Age(u) = AgeIn(store, u)
BY DEF Age, AgeIn

LEMMA SeqTyped ==
  ASSUME NEW s \in Seq(Entry)
  PROVE  /\ Len(s) \in Nat /\ DOMAIN s = 1..Len(s)
         /\ \A i \in 1..Len(s) : /\ s[i] \in Entry /\ s[i].url \in URLs
                                 /\ s[i].age \in Nat /\ s[i].age <= Horizon
<1>1. Len(s) \in Nat /\ DOMAIN s = 1..Len(s)
  BY LenProperties
<1>2. \A i \in 1..Len(s) : s[i] \in Entry
  BY ElementOfSeq
<1>. QED
  BY <1>1, <1>2, EntryFields

LEMMA AgeOfEntry ==
  ASSUME NEW s, Injective(s), NEW i \in DOMAIN s
  PROVE  s[i].url \in Keys(s) /\ AgeIn(s, s[i].url) = s[i].age
<1>1. s[i].url \in Keys(s)
  BY DEF Keys
<1>2. (CHOOSE j \in DOMAIN s : s[j].url = s[i].url) = i
  BY DEF Injective
<1>. QED
  BY <1>1, <1>2 DEF AgeIn

LEMMA KeyHasIndex ==
  ASSUME NEW s, NEW u \in Keys(s)
  PROVE  \E i \in DOMAIN s : s[i].url = u
BY DEF Keys

(* A dictionary with no link twice has as many links as entries.           *)
LEMMA KeysCounted ==
  ASSUME NEW s \in Seq(Entry), Injective(s)
  PROVE  IsFiniteSet(Keys(s)) /\ Cardinality(Keys(s)) = Len(s)
<1>1. Len(s) \in Nat /\ DOMAIN s = 1..Len(s)
  BY SeqTyped
<1>. DEFINE f == [i \in 1..Len(s) |-> s[i].url]
<1>2. f \in [1..Len(s) -> Keys(s)]
  BY <1>1 DEF Keys
<1>3. \A i, j \in 1..Len(s) : f[i] = f[j] => i = j
  BY <1>1 DEF Injective
<1>4. \A u \in Keys(s) : \E i \in 1..Len(s) : f[i] = u
  BY <1>1 DEF Keys
<1>. HIDE DEF f
<1>5. f \in Bijection(1..Len(s), Keys(s))
  BY <1>2, <1>3, <1>4 DEF Bijection, Injection, Surjection, IsInjective
<1>6. ExistsBijection(1..Len(s), Keys(s))
  BY <1>5 DEF ExistsBijection
<1>7. IsFiniteSet(Keys(s))
  BY <1>1, <1>6, FS_NatBijection
<1>. QED
  BY <1>1, <1>6, <1>7, FS_CountingElements
-----------------------------------------------------------------------------
(* Removing entries at the front.                                          *)
LEMMA RestIndex ==
  ASSUME NEW s \in Seq(Entry), NEW t, NEW k \in Nat, IsRest(t, s, k)
  PROVE  /\ t \in Seq(Entry) /\ Len(t) \in Nat /\ DOMAIN t = 1..Len(t)
         /\ Len(s) \in Nat /\ DOMAIN s = 1..Len(s) /\ Len(s) = k + Len(t)
         /\ \A i \in DOMAIN t : k + i \in DOMAIN s /\ t[i] = s[k + i]
<1>1. t \in Seq(Entry) /\ Len(s) = k + Len(t) /\ \A i \in 1..Len(t) : t[i] = s[k + i]
  BY DEF IsRest
<1>2. /\ Len(t) \in Nat /\ DOMAIN t = 1..Len(t)
      /\ Len(s) \in Nat /\ DOMAIN s = 1..Len(s)
  BY <1>1, SeqTyped
<1>3. \A i \in DOMAIN t : k + i \in DOMAIN s
  BY <1>1, <1>2
<1>. QED
  BY <1>1, <1>2, <1>3

LEMMA RestIsDictionary ==
  ASSUME NEW s, Dictionary(s), NEW t, NEW k \in Nat, IsRest(t, s, k)
  PROVE  Dictionary(t)
<1>1. s \in Seq(Entry) /\ Injective(s) /\ InOrder(s)
  BY DEF Dictionary
<1>2. /\ t \in Seq(Entry) /\ Len(t) \in Nat /\ DOMAIN t = 1..Len(t)
      /\ \A i \in DOMAIN t : k + i \in DOMAIN s /\ t[i] = s[k + i]
  BY <1>1, RestIndex
<1>3. ASSUME NEW i \in DOMAIN t, NEW j \in DOMAIN t, t[i].url = t[j].url
      PROVE  i = j
  <2>1. k + i = k + j
    BY <1>1, <1>2, <1>3 DEF Injective
  <2>. QED
    BY <1>2, <2>1
<1>4. ASSUME NEW i \in DOMAIN t, NEW j \in DOMAIN t, i <= j
      PROVE  t[j].age <= t[i].age + Skew
  <2>1. k + i <= k + j
    BY <1>2, <1>4
  <2>. QED
    BY <1>1, <1>2, <2>1 DEF InOrder
<1>. QED
  BY <1>2, <1>3, <1>4 DEF Dictionary, Injective, InOrder

LEMMA RestKeys ==
  ASSUME NEW s, Dictionary(s), NEW t, NEW k \in Nat, IsRest(t, s, k)
  PROVE  Keys(t) = Keys(s) \ FirstKeys(s, k)
<1>1. s \in Seq(Entry) /\ Injective(s)
  BY DEF Dictionary
<1>2. /\ Len(t) \in Nat /\ DOMAIN t = 1..Len(t)
      /\ Len(s) \in Nat /\ DOMAIN s = 1..Len(s) /\ Len(s) = k + Len(t)
      /\ \A i \in DOMAIN t : k + i \in DOMAIN s /\ t[i] = s[k + i]
  BY <1>1, RestIndex
<1>3. ASSUME NEW u \in Keys(t)
      PROVE  u \in Keys(s) /\ u \notin FirstKeys(s, k)
  <2>1. PICK i \in DOMAIN t : t[i].url = u
    BY KeyHasIndex
  <2>2. k + i \in DOMAIN s /\ s[k + i].url = u
    BY <1>2, <2>1
  <2>3. ASSUME NEW j \in 1..k, s[j].url = u
        PROVE  FALSE
    <3>1. j \in DOMAIN s /\ j # k + i
      BY <1>2
    <3>. QED
      BY <1>1, <2>2, <2>3, <3>1 DEF Injective
  <2>. QED
    BY <2>2, <2>3 DEF Keys, FirstKeys
<1>4. ASSUME NEW u \in Keys(s), u \notin FirstKeys(s, k)
      PROVE  u \in Keys(t)
  <2>1. PICK j \in DOMAIN s : s[j].url = u
    BY KeyHasIndex
  <2>2. j \notin 1..k
    BY <1>4, <2>1 DEF FirstKeys
  <2>3. j - k \in DOMAIN t /\ k + (j - k) = j
    BY <1>2, <2>2
  <2>4. t[j - k].url = u
    BY <1>2, <2>1, <2>3
  <2>. QED
    BY <2>3, <2>4 DEF Keys
<1>. QED
  BY <1>3, <1>4

LEMMA RestAge ==
  ASSUME NEW s, Dictionary(s), NEW t, NEW k \in Nat, IsRest(t, s, k), NEW u
  PROVE  AgeIn(t, u) = IF u \in FirstKeys(s, k) THEN -1 ELSE AgeIn(s, u)
<1>1. s \in Seq(Entry) /\ Injective(s) /\ Injective(t)
  BY RestIsDictionary DEF Dictionary
<1>2. Keys(t) = Keys(s) \ FirstKeys(s, k)
  BY RestKeys
<1>3. CASE u \in Keys(t)
  <2>1. PICK i \in DOMAIN t : t[i].url = u
    BY <1>3, KeyHasIndex
  <2>2. k + i \in DOMAIN s /\ t[i] = s[k + i]
    BY <1>1, RestIndex
  <2>3. AgeIn(t, u) = t[i].age /\ AgeIn(s, u) = t[i].age
    BY <1>1, <2>1, <2>2, AgeOfEntry
  <2>. QED
    BY <1>2, <1>3, <2>3
<1>4. CASE u \notin Keys(t)
  BY <1>2, <1>4 DEF AgeIn
<1>. QED
  BY <1>3, <1>4

-----------------------------------------------------------------------------
(* Adding an entry at the end.                                             *)
LEMMA AppendTyped ==
  ASSUME NEW s \in Seq(Entry), NEW e \in Entry
  PROVE  /\ Append(s, e) \in Seq(Entry) /\ Len(Append(s, e)) = Len(s) + 1
         /\ DOMAIN s = 1..Len(s) /\ Len(s) \in Nat
         /\ DOMAIN Append(s, e) = DOMAIN s \cup {Len(s) + 1}
         /\ \A i \in DOMAIN s : Append(s, e)[i] = s[i]
         /\ Append(s, e)[Len(s) + 1] = e
<1>1. /\ Append(s, e) \in Seq(Entry) /\ Len(Append(s, e)) = Len(s) + 1
      /\ \A i \in 1..Len(s) : Append(s, e)[i] = s[i]
      /\ Append(s, e)[Len(s) + 1] = e
  BY AppendProperties
<1>2. DOMAIN s = 1..Len(s) /\ Len(s) \in Nat
  BY SeqTyped
<1>3. DOMAIN Append(s, e) = 1..(Len(s) + 1)
  BY <1>1, SeqTyped
<1>4. 1..(Len(s) + 1) = (1..Len(s)) \cup {Len(s) + 1}
  BY <1>2
<1>. QED
  BY <1>1, <1>2, <1>3, <1>4

LEMMA AppendIsDictionary ==
  ASSUME NEW s, Dictionary(s), NEW e \in Entry,
         e.url \notin Keys(s), e.age <= Skew
  PROVE  /\ Dictionary(Append(s, e))
         /\ Keys(Append(s, e)) = Keys(s) \cup {e.url}
<1>1. s \in Seq(Entry) /\ Injective(s) /\ InOrder(s)
  BY DEF Dictionary
<1>2. PICK t \in Seq(Entry) :
        /\ t = Append(s, e) /\ DOMAIN s = 1..Len(s) /\ Len(s) \in Nat
        /\ DOMAIN t = DOMAIN s \cup {Len(s) + 1}
        /\ \A i \in DOMAIN s : t[i] = s[i]
        /\ t[Len(s) + 1] = e
  BY <1>1, AppendTyped
<1>3. \A i \in DOMAIN s : t[i].url # e.url
  BY <1>2 DEF Keys
<1>4. ASSUME NEW i \in DOMAIN t, NEW j \in DOMAIN t, t[i].url = t[j].url
      PROVE  i = j
  BY <1>1, <1>2, <1>3, <1>4 DEF Injective
<1>5. ASSUME NEW i \in DOMAIN t, NEW j \in DOMAIN t, i <= j
      PROVE  t[j].age <= t[i].age + Skew
  <2>1. CASE j \in DOMAIN s
    <3>1. i \in DOMAIN s
      BY <1>2, <1>5, <2>1
    <3>. QED
      BY <1>1, <1>2, <1>5, <2>1, <3>1 DEF InOrder
  <2>2. CASE j = Len(s) + 1
    <3>1. t[j] = e
      BY <1>2, <2>2
    <3>2. t[i].age \in Nat /\ e.age \in Nat
      BY <1>2, SeqTyped, EntryFields
    <3>. QED
      BY <3>1, <3>2, Numbers
  <2>. QED
    BY <1>2, <2>1, <2>2
<1>6. Keys(t) = Keys(s) \cup {e.url}
  <2>1. ASSUME NEW u \in Keys(t)
        PROVE  u \in Keys(s) \cup {e.url}
    <3>1. PICK i \in DOMAIN t : t[i].url = u
      BY KeyHasIndex
    <3>. QED
      BY <1>2, <3>1 DEF Keys
  <2>2. ASSUME NEW u \in Keys(s)
        PROVE  u \in Keys(t)
    <3>1. PICK i \in DOMAIN s : s[i].url = u
      BY KeyHasIndex
    <3>. QED
      BY <1>2, <3>1 DEF Keys
  <2>3. e.url \in Keys(t)
    BY <1>2 DEF Keys
  <2>. QED
    BY <2>1, <2>2, <2>3
<1>. QED
  BY <1>2, <1>4, <1>5, <1>6 DEF Dictionary, Injective, InOrder

LEMMA AppendAge ==
  ASSUME NEW s, Dictionary(s), NEW e \in Entry,
         e.url \notin Keys(s), e.age <= Skew, NEW u
  PROVE  AgeIn(Append(s, e), u) = IF u = e.url THEN e.age ELSE AgeIn(s, u)
<1>1. /\ s \in Seq(Entry) /\ Injective(s) /\ Injective(Append(s, e))
      /\ Keys(Append(s, e)) = Keys(s) \cup {e.url}
  BY AppendIsDictionary DEF Dictionary
<1>2. PICK t \in Seq(Entry) :
        /\ t = Append(s, e)
        /\ DOMAIN t = DOMAIN s \cup {Len(s) + 1}
        /\ \A i \in DOMAIN s : t[i] = s[i]
        /\ t[Len(s) + 1] = e
  BY <1>1, AppendTyped
<1>3. CASE u = e.url
  <2>1. Len(s) + 1 \in DOMAIN t /\ Injective(t)
    BY <1>1, <1>2
  <2>2. AgeIn(t, t[Len(s) + 1].url) = t[Len(s) + 1].age
    BY <2>1, AgeOfEntry
  <2>. QED
    BY <1>2, <1>3, <2>2
<1>4. CASE u # e.url /\ u \in Keys(s)
  <2>1. PICK i \in DOMAIN s : s[i].url = u
    BY <1>4, KeyHasIndex
  <2>2. i \in DOMAIN t /\ t[i] = s[i] /\ Injective(t)
    BY <1>1, <1>2
  <2>3. AgeIn(t, u) = s[i].age /\ AgeIn(s, u) = s[i].age
    BY <1>1, <2>1, <2>2, AgeOfEntry
  <2>. QED
    BY <1>2, <1>4, <2>3
<1>5. CASE u # e.url /\ u \notin Keys(s)
  BY <1>1, <1>5 DEF AgeIn
<1>. QED
  BY <1>3, <1>4, <1>5
-----------------------------------------------------------------------------
(* The operators of seen.                                                  *)

(* A non-empty set of natural numbers has a least element.                 *)
LEMMA LeastNatural ==
  ASSUME NEW T \in SUBSET Nat, T # {}
  PROVE  \E m \in T : \A n \in T : m <= n
<1>1. \E m \in T : \A n \in T : ~(<<n, m>> \in OpToRel(<, Nat))
  BY WFMin, NatLessThanWellFounded
<1>2. PICK m \in T : \A n \in T : ~(<<n, m>> \in OpToRel(<, Nat))
  BY <1>1
<1>3. ASSUME NEW n \in T
      PROVE  m <= n
  <2>1. <<n, m>> \in Nat \X Nat /\ ~(<<n, m>> \in OpToRel(<, Nat))
    BY <1>2
  <2>2. ~(n < m)
    BY <2>1 DEF OpToRel
  <2>. QED
    BY <2>2
<1>. QED
  BY <1>3

(* _evict drops entries that have expired, from the front, and stops at    *)
(* one that has not.                                                       *)
LEMMA EvictedIsRest ==
  ASSUME NEW s \in Seq(Entry), NEW back \in Nat
  PROVE  \E k \in Nat :
           /\ IsRest(Evicted(s, back), s, k) /\ k <= Len(s)
           /\ \A i \in 1..k : s[i].age - back > TTL
           /\ k + 1 <= Len(s) => s[k + 1].age - back <= TTL
<1>. DEFINE live == {i \in DOMAIN s : ~ExpiredAt(s[i], back)}
            first == IF live = {} THEN Len(s) + 1
                     ELSE CHOOSE i \in live : \A j \in live : i <= j
<1>1. /\ Len(s) \in Nat /\ DOMAIN s = 1..Len(s)
      /\ \A i \in 1..Len(s) : s[i] \in Entry /\ s[i].age \in Nat
  BY SeqTyped
<1>2. live \subseteq 1..Len(s) /\ live \in SUBSET Nat
  BY <1>1
<1>3. /\ first \in 1..(Len(s) + 1)
      /\ \A i \in 1..Len(s) : i < first => i \notin live
      /\ first <= Len(s) => first \in live
  <2>1. CASE live = {}
    <3>1. first = Len(s) + 1
      BY <2>1
    <3>. QED
      BY <1>1, <2>1, <3>1
  <2>2. CASE live # {}
    <3>1. \E i \in live : \A j \in live : i <= j
      BY <1>2, <2>2, LeastNatural
    <3>2. first \in live /\ \A j \in live : first <= j
      BY <2>2, <3>1
    <3>. QED
      BY <1>1, <1>2, <3>2
  <2>. QED
    BY <2>1, <2>2
<1>4. Evicted(s, back) = SubSeq(s, first, Len(s))
  BY DEF Evicted
<1>5. \A i \in 1..Len(s) : i \in live <=> ~(s[i].age - back > TTL)
  BY <1>1 DEF ExpiredAt
<1>. HIDE DEF first, live
<1>. DEFINE k == first - 1
            t == SubSeq(s, first, Len(s))
<1>6. k \in Nat /\ k <= Len(s) /\ first = k + 1 /\ first \in Int /\ Len(s) \in Int
  BY <1>1, <1>3
<1>7. \A i \in first..Len(s) : s[i] \in Entry
  BY <1>1, <1>3
<1>8. /\ t \in Seq(Entry)
      /\ Len(t) = IF first <= Len(s) THEN Len(s) - first + 1 ELSE 0
      /\ \A i \in 1..(Len(s) - first + 1) : t[i] = s[first + i - 1]
  BY <1>6, <1>7, SubSeqProperties
<1>. HIDE DEF t
<1>9. Len(s) = k + Len(t)
  BY <1>1, <1>3, <1>6, <1>8
<1>10. ASSUME NEW i \in 1..Len(t)
       PROVE  t[i] = s[k + i]
  <2>1. i \in 1..(Len(s) - first + 1) /\ first + i - 1 = k + i
    BY <1>1, <1>6, <1>9
  <2>. QED
    BY <1>8, <2>1
<1>11. IsRest(t, s, k)
  BY <1>8, <1>9, <1>10 DEF IsRest
<1>12. \A i \in 1..k : s[i].age - back > TTL
  <2>1. \A i \in 1..k : i \in 1..Len(s) /\ i < first
    BY <1>1, <1>3, <1>6
  <2>. QED
    BY <1>3, <1>5, <2>1
<1>13. k + 1 <= Len(s) => s[k + 1].age - back <= TTL
  <2>1. SUFFICES ASSUME k + 1 <= Len(s)
                 PROVE  s[k + 1].age - back <= TTL
    OBVIOUS
  <2>2. k + 1 \in live /\ k + 1 \in 1..Len(s)
    BY <1>3, <1>6, <2>1
  <2>3. ~(s[k + 1].age - back > TTL)
    BY <1>5, <2>2
  <2>. QED
    BY <1>1, <2>2, <2>3, Numbers
<1>. QED
  BY <1>4, <1>6, <1>11, <1>12, <1>13 DEF t

(* Adding appends, and drops the first entry if there are too many.        *)
LEMMA AddedIsRest ==
  ASSUME NEW s \in Seq(Entry), NEW e \in Entry, Len(s) <= Max
  PROVE  \E k \in 0..1 :
           /\ IsRest(Added(s, e), Append(s, e), k)
           /\ Len(Added(s, e)) <= Max
           /\ k = 1 <=> Len(s) + 1 > Max
<1>1. PICK t \in Seq(Entry) : t = Append(s, e) /\ Len(t) = Len(s) + 1
  BY AppendTyped
<1>2. Len(s) \in Nat /\ Len(t) \in Nat /\ DOMAIN t = 1..Len(t) /\ Max \in Nat
  BY SeqTyped, Numbers
<1>3. CASE Len(s) + 1 > Max
  <2>1. t # <<>>
    BY <1>1, AppendProperties
  <2>2. /\ Tail(t) \in Seq(Entry) /\ Len(Tail(t)) = Len(t) - 1
        /\ \A i \in 1..Len(Tail(t)) : Tail(t)[i] = t[i + 1]
    BY <2>1, HeadTailProperties
  <2>3. /\ Len(t) = 1 + Len(Tail(t)) /\ Len(Tail(t)) <= Max
        /\ \A i \in 1..Len(Tail(t)) : i + 1 = 1 + i
    BY <1>1, <1>2, <2>2
  <2>4. IsRest(Tail(t), t, 1)
    BY <2>2, <2>3 DEF IsRest
  <2>5. Added(s, e) = Tail(t)
    BY <1>1, <1>3 DEF Added
  <2>. QED
    BY <1>1, <1>3, <2>3, <2>4, <2>5
<1>4. CASE ~(Len(s) + 1 > Max)
  <2>1. Len(t) = 0 + Len(t) /\ Len(t) <= Max /\ \A i \in 1..Len(t) : i = 0 + i
    BY <1>1, <1>2, <1>4
  <2>2. IsRest(t, t, 0)
    BY <2>1 DEF IsRest
  <2>3. Added(s, e) = t
    BY <1>1, <1>4 DEF Added
  <2>. QED
    BY <1>1, <1>4, <2>1, <2>2, <2>3
<1>. QED
  BY <1>3, <1>4
(* What a tick makes of the dictionary.                                    *)
Aged(s) == [i \in DOMAIN s |-> Older(s[i])]

LEMMA OlderEntry ==
  ASSUME NEW e \in Entry
  PROVE  /\ Older(e) \in Entry /\ Older(e).url = e.url
         /\ Older(e).age = IF e.age < Horizon THEN e.age + 1 ELSE e.age
<1>1. CASE e.age < Horizon
  <2>1. Older(e) = [e EXCEPT !.age = e.age + 1]
    BY <1>1 DEF Older
  <2>2. e.age + 1 \in 0..Horizon
    BY <1>1, EntryFields, Numbers
  <2>. QED
    BY <1>1, <2>1, <2>2 DEF Entry
<1>2. CASE ~(e.age < Horizon)
  BY <1>2 DEF Older
<1>. QED
  BY <1>1, <1>2

LEMMA SameInterval ==
  ASSUME NEW m \in Nat, NEW n \in Nat, 1..m = 1..n
  PROVE  m = n
<1>1. Cardinality(1..m) = m /\ Cardinality(1..n) = n
  BY FS_Interval
<1>. QED
  BY <1>1

LEMMA OlderPair ==
  ASSUME NEW a \in Nat, NEW b \in Nat, NEW h \in Nat, NEW k \in Nat, b <= a + k,
         a <= h
  PROVE  (IF b < h THEN b + 1 ELSE b) <= (IF a < h THEN a + 1 ELSE a) + k
OBVIOUS

LEMMA AgedTyped ==
  ASSUME NEW s \in Seq(Entry)
  PROVE  /\ Aged(s) \in Seq(Entry) /\ Len(Aged(s)) = Len(s)
         /\ DOMAIN Aged(s) = DOMAIN s
         /\ \A i \in DOMAIN s :
              /\ Aged(s)[i].url = s[i].url
              /\ Aged(s)[i].age = IF s[i].age < Horizon THEN s[i].age + 1
                                  ELSE s[i].age
<1>1. /\ Len(s) \in Nat /\ DOMAIN s = 1..Len(s)
      /\ \A i \in DOMAIN s : s[i] \in Entry
  BY SeqTyped
<1>2. Aged(s) \in [1..Len(s) -> Entry]
  BY <1>1, OlderEntry DEF Aged
<1>3. Aged(s) \in Seq(Entry)
  BY <1>1, <1>2, SeqDef
<1>4. DOMAIN Aged(s) = 1..Len(s) /\ Len(Aged(s)) = Len(s)
  <2>1. DOMAIN Aged(s) = 1..Len(Aged(s)) /\ Len(Aged(s)) \in Nat
    BY <1>3, SeqTyped
  <2>2. DOMAIN Aged(s) = 1..Len(s)
    BY <1>2
  <2>. QED
    BY <1>1, <2>1, <2>2, SameInterval
<1>5. \A i \in DOMAIN s :
        /\ Aged(s)[i].url = s[i].url
        /\ Aged(s)[i].age = IF s[i].age < Horizon THEN s[i].age + 1 ELSE s[i].age
  BY <1>1, OlderEntry DEF Aged
<1>. QED
  BY <1>1, <1>3, <1>4, <1>5

LEMMA AgedIsDictionary ==
  ASSUME NEW s, Dictionary(s)
  PROVE  Dictionary(Aged(s)) /\ Len(Aged(s)) = Len(s)
<1>1. s \in Seq(Entry) /\ Injective(s) /\ InOrder(s)
  BY DEF Dictionary
<1>2. PICK t \in Seq(Entry) :
        /\ t = Aged(s) /\ Len(t) = Len(s) /\ DOMAIN t = DOMAIN s
        /\ \A i \in DOMAIN s :
             /\ t[i].url = s[i].url
             /\ t[i].age = IF s[i].age < Horizon THEN s[i].age + 1 ELSE s[i].age
  BY <1>1, AgedTyped
<1>3. \A i \in DOMAIN s : s[i].age \in Nat /\ s[i].age <= Horizon
  BY <1>1, SeqTyped
<1>4. Injective(t)
  BY <1>1, <1>2 DEF Injective
<1>5. ASSUME NEW i \in DOMAIN t, NEW j \in DOMAIN t, i <= j
      PROVE  t[j].age <= t[i].age + Skew
  <2>1. s[j].age <= s[i].age + Skew
    BY <1>1, <1>2, <1>5 DEF InOrder
  <2>2. /\ t[i].age = IF s[i].age < Horizon THEN s[i].age + 1 ELSE s[i].age
        /\ t[j].age = IF s[j].age < Horizon THEN s[j].age + 1 ELSE s[j].age
        /\ s[i].age \in Nat /\ s[j].age \in Nat
        /\ s[i].age <= Horizon /\ s[j].age <= Horizon
    BY <1>2, <1>3
  <2>3. Horizon \in Nat /\ Skew \in Nat
    BY Numbers
  <2>4. PICK a \in Nat, b \in Nat : a = s[i].age /\ b = s[j].age
    BY <2>2
  <2>5. b <= a + Skew /\ a <= Horizon
    BY <2>1, <2>2, <2>4
  <2>6. (IF b < Horizon THEN b + 1 ELSE b) <= (IF a < Horizon THEN a + 1 ELSE a) + Skew
    BY <2>3, <2>5, OlderPair
  <2>. QED
    BY <2>2, <2>4, <2>6
<1>. QED
  BY <1>2, <1>4, <1>5 DEF Dictionary, InOrder

LEMMA AgedAge ==
  ASSUME NEW s, Dictionary(s), NEW u
  PROVE  AgeIn(Aged(s), u) = IF AgeIn(s, u) \in 0..(Horizon - 1)
                             THEN AgeIn(s, u) + 1 ELSE AgeIn(s, u)
<1>1. s \in Seq(Entry) /\ Injective(s) /\ Injective(Aged(s))
  BY AgedIsDictionary DEF Dictionary
<1>2. /\ DOMAIN Aged(s) = DOMAIN s
      /\ \A i \in DOMAIN s :
           /\ Aged(s)[i].url = s[i].url
           /\ Aged(s)[i].age = IF s[i].age < Horizon THEN s[i].age + 1
                               ELSE s[i].age
           /\ s[i].age \in Nat
  BY <1>1, AgedTyped, SeqTyped
<1>3. CASE u \in Keys(s)
  <2>1. PICK i \in DOMAIN s : s[i].url = u
    BY <1>3, KeyHasIndex
  <2>2. AgeIn(s, u) = s[i].age /\ AgeIn(Aged(s), u) = Aged(s)[i].age
    BY <1>1, <1>2, <2>1, AgeOfEntry
  <2>3. s[i].age < Horizon <=> s[i].age \in 0..(Horizon - 1)
    BY <1>2, Numbers
  <2>. QED
    BY <1>2, <2>2, <2>3
<1>4. CASE u \notin Keys(s)
  <2>1. u \notin Keys(Aged(s))
    BY <1>2, <1>4 DEF Keys
  <2>. QED
    BY <1>4, <2>1 DEF AgeIn
<1>. QED
  BY <1>3, <1>4
-----------------------------------------------------------------------------
(* The two-step look-up.                                                   *)

(* What is kept is the rest after some expired entries; and since entries  *)
(* are at most Skew out of order behind one that has not expired, all of   *)
(* it is recent.                                                           *)
LEMMA KeptFacts ==
  ASSUME NEW d \in Detectors, Dictionary(store), lag[d] \in 0..Skew
  PROVE  \E k \in Nat :
           /\ IsRest(Kept(d), store, k) /\ k <= Len(store)
           /\ \A u \in FirstKeys(store, k) : AgeIn(store, u) > TTL
           /\ \A i \in DOMAIN Kept(d) : Kept(d)[i].age <= TTL + 2 * Skew
<1>1. /\ store \in Seq(Entry) /\ Injective(store) /\ InOrder(store)
      /\ lag[d] \in Nat /\ lag[d] <= Skew /\ TTL \in Nat /\ Skew \in Nat
  BY Numbers DEF Dictionary
<1>2. PICK k \in Nat :
        /\ IsRest(Kept(d), store, k) /\ k <= Len(store)
        /\ \A i \in 1..k : store[i].age - lag[d] > TTL
        /\ k + 1 <= Len(store) => store[k + 1].age - lag[d] <= TTL
  BY <1>1, EvictedIsRest DEF Kept
<1>3. /\ Len(store) \in Nat /\ DOMAIN store = 1..Len(store)
      /\ \A i \in 1..Len(store) : store[i].age \in Nat
  BY <1>1, SeqTyped
<1>4. ASSUME NEW u \in FirstKeys(store, k)
      PROVE  AgeIn(store, u) > TTL
  <2>1. PICK i \in 1..k : store[i].url = u
    BY DEF FirstKeys
  <2>2. i \in DOMAIN store /\ store[i].age \in Nat
    BY <1>2, <1>3
  <2>3. AgeIn(store, u) = store[i].age
    BY <1>1, <2>1, <2>2, AgeOfEntry
  <2>4. store[i].age - lag[d] > TTL
    BY <1>2
  <2>. QED
    BY <1>1, <2>2, <2>3, <2>4
<1>5. ASSUME NEW i \in DOMAIN Kept(d)
      PROVE  Kept(d)[i].age <= TTL + 2 * Skew
  <2>1. /\ k + i \in DOMAIN store /\ Kept(d)[i] = store[k + i]
        /\ DOMAIN Kept(d) = 1..Len(Kept(d)) /\ Len(Kept(d)) \in Nat
        /\ Len(store) = k + Len(Kept(d))
    BY <1>1, <1>2, RestIndex
  <2>2. k + 1 \in DOMAIN store /\ k + 1 <= k + i /\ k + 1 <= Len(store)
    BY <1>3, <2>1
  <2>3. store[k + i].age <= store[k + 1].age + Skew
    BY <1>1, <2>1, <2>2 DEF InOrder
  <2>4. store[k + 1].age - lag[d] <= TTL
    BY <1>2, <2>2
  <2>5. store[k + 1].age \in Nat /\ store[k + i].age \in Nat
    BY <1>3, <2>1, <2>2
  <2>. QED
    BY <1>1, <2>1, <2>3, <2>4, <2>5
<1>. QED
  BY <1>2, <1>4, <1>5

(* Every step leaves a dictionary within its size.                         *)
LEMMA PassOverKeeps ==
  ASSUME NEW d \in Detectors, Dictionary(store), Len(store) <= Max,
         lag[d] \in 0..Skew, PassOver(d)
  PROVE  Dictionary(store') /\ Len(store') <= Max
<1>1. PICK k \in Nat : IsRest(Kept(d), store, k)
  BY KeptFacts
<1>2. store' = Kept(d) /\ store \in Seq(Entry)
  BY DEF PassOver, Dictionary
<1>3. Dictionary(Kept(d))
  BY <1>1, RestIsDictionary
<1>4. Len(store) = k + Len(Kept(d)) /\ Len(Kept(d)) \in Nat
  BY <1>1, <1>2, RestIndex
<1>. QED
  BY <1>2, <1>3, <1>4, Numbers

LEMMA HandOverKeeps ==
  ASSUME NEW d \in Detectors, Dictionary(store), Len(store) <= Max,
         lag[d] \in 0..Skew, HandOver(d)
  PROVE  /\ Dictionary(store') /\ Len(store') <= Max
         /\ \E e \in Entry :
              /\ e.url = looked[d] /\ e.age = lag[d]
              /\ Dictionary(Kept(d)) /\ e.url \notin Keys(Kept(d))
              /\ Len(Kept(d)) <= Max
              /\ store' = Added(Kept(d), e)
<1>1. PICK k \in Nat : IsRest(Kept(d), store, k)
  BY KeptFacts
<1>2. Dictionary(Kept(d)) /\ Kept(d) \in Seq(Entry)
  BY <1>1, RestIsDictionary DEF Dictionary
<1>3. Len(Kept(d)) <= Max
  <2>1. Len(store) = k + Len(Kept(d)) /\ Len(Kept(d)) \in Nat
    BY <1>1, RestIndex DEF Dictionary
  <2>. QED
    BY <2>1, Numbers
<1>. DEFINE e == [url |-> looked[d], age |-> lag[d]]
<1>4. e \in Entry /\ e.url = looked[d] /\ e.age = lag[d]
  <2>1. looked[d] \in URLs
    BY DEF HandOver
  <2>2. lag[d] \in 0..Horizon
    BY Numbers
  <2>. QED
    BY <2>1, <2>2 DEF Entry
<1>5. store' = Added(Kept(d), e) /\ e.url \notin Keys(Kept(d))
  BY DEF HandOver
<1>. HIDE DEF e
<1>6. Dictionary(Append(Kept(d), e))
  <2>1. e.age <= Skew
    BY <1>4, Numbers
  <2>. QED
    BY <1>2, <1>4, <1>5, <2>1, AppendIsDictionary
<1>7. PICK m \in 0..1 : /\ IsRest(Added(Kept(d), e), Append(Kept(d), e), m)
                        /\ Len(Added(Kept(d), e)) <= Max
  BY <1>2, <1>3, <1>4, AddedIsRest
<1>8. Dictionary(Added(Kept(d), e))
  <2>1. m \in Nat
    OBVIOUS
  <2>. QED
    BY <1>6, <1>7, <2>1, RestIsDictionary
<1>. QED
  BY <1>2, <1>3, <1>4, <1>5, <1>7, <1>8
-----------------------------------------------------------------------------
(* The inductive invariant: the types, and the shape of the dictionary.    *)
Shape ==
  /\ game \in BOOLEAN /\ during \in BOOLEAN /\ screen \in Frames /\ copied \in Contents
  /\ last \in [scanner : Frames \cup {None}, clipboard : Contents \cup {{}}]
  /\ todo \in [Detectors -> SUBSET URLs]
  /\ looked \in [Detectors -> URLs \cup {None}]
  /\ lag \in [Detectors -> 0..Skew]
  /\ handed \subseteq URLs
  /\ Dictionary(store) /\ Len(store) <= Max

LEMMA ShapeTypes == Shape => TypeOK
<1>. SUFFICES ASSUME Shape PROVE TypeOK
  OBVIOUS
<1>1. last.scanner \in Frames \cup {None} /\ last.clipboard \in Contents \cup {{}}
  BY DEF Shape
<1>2. store \in Seq(Entry) /\ Injective(store)
  BY DEF Shape, Dictionary
<1>3. \A i \in DOMAIN store : store[i] \in [url : URLs, age : 0..Horizon]
  BY <1>2, SeqTyped DEF Entry
<1>4. Cardinality(Keys(store)) = Len(store)
  BY <1>2, KeysCounted
<1>. QED
  BY <1>1, <1>3, <1>4 DEF Shape, TypeOK

LEMMA EmptyDictionary == Dictionary(<<>>) /\ Len(<<>>) = 0
<1>1. <<>> \in Seq(Entry) /\ Len(<<>>) = 0 /\ DOMAIN <<>> = {}
  BY EmptySeq
<1>. QED
  BY <1>1 DEF Dictionary, Injective, InOrder

LEMMA ShapeInit == Init => Shape
<1>. SUFFICES ASSUME Init PROVE Shape
  OBVIOUS
<1>1. Dictionary(store) /\ Len(store) <= Max
  BY EmptyDictionary, Numbers DEF Init
<1>2. lag \in [Detectors -> 0..Skew]
  BY Numbers DEF Init
<1>3. /\ todo \in [Detectors -> SUBSET URLs] /\ handed \subseteq URLs
      /\ looked \in [Detectors -> URLs \cup {None}]
  BY DEF Init
<1>4. last \in [scanner : Frames \cup {None}, clipboard : Contents \cup {{}}]
  BY DEF Init
<1>. QED
  BY <1>1, <1>2, <1>3, <1>4 DEF Init, Shape

(* The steps before the look-up leave the dictionary alone.                *)
LEMMA BeforeLookUp ==
  ASSUME [Next]_vars
  PROVE  \/ UNCHANGED <<store, handed, lag, looked>>
         \/ Tick
         \/ \E d \in Detectors : PassOver(d) \/ HandOver(d)
         \/ \E d \in Detectors, u \in URLs : ReadClock(d, u)
BY DEF Next, vars, ScreenChanges, ClipboardChanges, EnterGame, LeaveGame,
       ScanFrame, ScanFails, ReadClipboard, ForgetContent, Found, Seen

LEMMA ShapeStep == Shape /\ [Next]_vars => Shape'
<1>. SUFFICES ASSUME Shape, [Next]_vars
             PROVE  Shape'
  OBVIOUS
<1>1. CASE ScreenChanges
  BY <1>1 DEF ScreenChanges, Shape
<1>2. CASE ClipboardChanges
  BY <1>2 DEF ClipboardChanges, Shape
<1>3. CASE EnterGame
  BY <1>3 DEF EnterGame, Shape
<1>4. CASE LeaveGame
  BY <1>4 DEF LeaveGame, Shape
<1>5. CASE ScanFrame
  <2>1. /\ last' = [last EXCEPT !.scanner = screen]
        /\ todo' = [todo EXCEPT !["scanner"] = screen]
        /\ UNCHANGED <<game, screen, copied, during, looked, lag, store, handed>>
    BY <1>5 DEF ScanFrame, Found
  <2>2. screen \in SUBSET URLs
    BY DetectionAssumption DEF DetectionAssumption, Shape
  <2>3. last' \in [scanner : Frames \cup {None}, clipboard : Contents \cup {{}}]
    BY <2>1 DEF Shape
  <2>. QED
    BY <2>1, <2>2, <2>3 DEF Shape, Detectors
<1>6. CASE ScanFails
  BY <1>6 DEF ScanFails, HashAfterFailure, Shape
<1>7. CASE ReadClipboard
  <2>1. /\ last' = [last EXCEPT !.clipboard = copied]
        /\ todo' = [todo EXCEPT !["clipboard"] = copied]
        /\ UNCHANGED <<game, screen, copied, during, looked, lag, store, handed>>
    BY <1>7 DEF ReadClipboard, Found
  <2>2. copied \in SUBSET URLs
    BY DetectionAssumption DEF DetectionAssumption, Shape
  <2>3. last' \in [scanner : Frames \cup {None}, clipboard : Contents \cup {{}}]
    BY <2>1 DEF Shape
  <2>. QED
    BY <2>1, <2>2, <2>3 DEF Shape, Detectors
<1>8. CASE ForgetContent
  BY <1>8 DEF ForgetContent, Shape
<1>9. CASE Tick
  <2>1. lag' \in [Detectors -> 0..Skew]
    <3>1. \A d \in Detectors : looked[d] # None => lag[d] + 1 \in 0..Skew
      BY <1>9, Numbers DEF Tick, Shape
    <3>2. 0 \in 0..Skew
      BY Numbers
    <3>. QED
      BY <1>9, <3>1, <3>2 DEF Tick
  <2>2. store' = Aged(store)
    BY <1>9 DEF Tick, Aged
  <2>3. Dictionary(store') /\ Len(store') <= Max
    BY <2>2, AgedIsDictionary DEF Shape
  <2>. QED
    BY <1>9, <2>1, <2>3 DEF Tick, Shape
<1>10. ASSUME NEW d \in Detectors, NEW u \in URLs, ReadClock(d, u)
       PROVE  Shape'
  BY <1>10 DEF ReadClock, Shape
<1>11. ASSUME NEW d \in Detectors, PassOver(d) \/ HandOver(d)
       PROVE  Shape'
  <2>1. Dictionary(store') /\ Len(store') <= Max
    BY <1>11, PassOverKeeps, HandOverKeeps DEF Shape
  <2>2. /\ UNCHANGED <<game, screen, copied, during, last, todo>>
        /\ looked' = [looked EXCEPT ![d] = None]
        /\ lag' = [lag EXCEPT ![d] = 0]
    BY <1>11 DEF PassOver, HandOver, LookedUp
  <2>3. handed' \subseteq URLs
    BY <1>11 DEF PassOver, HandOver, Shape
  <2>4. lag' \in [Detectors -> 0..Skew]
    BY <2>2, Numbers DEF Shape
  <2>. QED
    BY <2>1, <2>2, <2>3, <2>4 DEF Shape
<1>12. CASE UNCHANGED vars
  BY <1>12 DEF vars, Shape
<1>. QED
  BY <1>1, <1>2, <1>3, <1>4, <1>5, <1>6, <1>7, <1>8, <1>9, <1>10, <1>11,
     <1>12
  DEF Next, Seen

LEMMA ShapeAlways == Spec => []Shape
BY ShapeInit, ShapeStep, PTL DEF Spec

(* However scanner and clipboard monitor interleave their look-ups, the    *)
(* memory of links (_TTLCache) holds no link twice and at most Max links.  *)
THEOREM MemoryIsSound == Spec => []TypeOK
BY ShapeAlways, ShapeTypes, PTL

(* For any number of links and any sizes, a link that is passed over was   *)
(* handed over at most TTL ticks and two waits for the lock ago: an entry  *)
(* that _evict leaves behind one that has not expired is not much older    *)
(* than that one.                                                          *)
THEOREM SuppressionIsRecent == Spec => SuppressedIsRecent
<1>1. ASSUME Shape, NEW d \in Detectors, PassOver(d)
      PROVE  \E i \in DOMAIN store :
               store[i].url = looked[d] /\ store[i].age <= TTL + 2 * Skew
  <2>1. Dictionary(store) /\ lag[d] \in 0..Skew /\ store \in Seq(Entry)
    BY <1>1 DEF Shape, Dictionary
  <2>2. PICK k \in Nat :
          /\ IsRest(Kept(d), store, k)
          /\ \A i \in DOMAIN Kept(d) : Kept(d)[i].age <= TTL + 2 * Skew
    BY <2>1, KeptFacts
  <2>3. PICK i \in DOMAIN Kept(d) : Kept(d)[i].url = looked[d]
    <3>1. looked[d] \in Keys(Kept(d))
      BY <1>1 DEF PassOver
    <3>. QED
      BY <3>1, KeyHasIndex
  <2>4. k + i \in DOMAIN store /\ Kept(d)[i] = store[k + i]
    BY <2>1, <2>2, RestIndex
  <2>. QED
    BY <2>2, <2>3, <2>4
<1>2. Shape /\ [Next]_vars =>
        [\A d \in Detectors : PassOver(d) =>
           \E i \in DOMAIN store :
             store[i].url = looked[d] /\ store[i].age <= TTL + 2 * Skew]_vars
  BY <1>1
<1>. QED
  BY <1>2, ShapeAlways, PTL DEF Spec, SuppressedIsRecent
-----------------------------------------------------------------------------
(* The refinement of LinkOnce.  Its variable since is the age the          *)
(* dictionary has for each link.                                           *)
Since(s) == [u \in URLs |-> AgeIn(s, u)]

LEMMA SinceIs == [u \in URLs |-> Age(u)] = Since(store)
BY AgeIsAgeIn DEF Since

LEMMA SinceWillBe == [u \in URLs |-> Age(u)]' = Since(store')
BY DEF Since, Age, AgeIn

(* The links a dictionary holds are the ones with an age.                  *)
LEMMA RememberedKeys ==
  ASSUME NEW s, Dictionary(s)
  PROVE  /\ Keys(s) \subseteq URLs
         /\ \A u \in URLs : u \in Keys(s) <=> AgeIn(s, u) >= 0
         /\ \A u \in URLs : AgeIn(s, u) \in Int
<1>1. s \in Seq(Entry) /\ Injective(s)
  BY DEF Dictionary
<1>2. \A i \in DOMAIN s : s[i].url \in URLs /\ s[i].age \in Nat
  BY <1>1, SeqTyped
<1>3. ASSUME NEW u \in Keys(s)
      PROVE  u \in URLs /\ AgeIn(s, u) \in Nat
  <2>1. PICK i \in DOMAIN s : s[i].url = u
    BY KeyHasIndex
  <2>. QED
    BY <1>1, <1>2, <2>1, AgeOfEntry
<1>4. \A u : u \notin Keys(s) => AgeIn(s, u) = -1
  BY DEF AgeIn
<1>. QED
  BY <1>3, <1>4

LEMMA OnceInit == Init => Once!Init
<1>. SUFFICES ASSUME Init PROVE Once!Init
  OBVIOUS
<1>1. store = <<>> /\ handed = {}
  BY DEF Init
<1>2. \A u : u \notin Keys(<<>>)
  BY DEF Keys
<1>3. Since(store) = [u \in URLs |-> -1]
  BY <1>1, <1>2 DEF Since, AgeIn
<1>. QED
  BY <1>1, <1>3, SinceIs DEF Once!Init

LEMMA OnceTick ==
  ASSUME Shape, Tick
  PROVE  Once!Tick
<1>1. store' = Aged(store) /\ handed' = handed /\ Dictionary(store)
  BY DEF Tick, Aged, Shape
<1>2. Since(store') = [u \in URLs |->
                         IF Since(store)[u] \in 0..(Horizon - 1)
                         THEN Since(store)[u] + 1 ELSE Since(store)[u]]
  BY <1>1, AgedAge DEF Since
<1>. QED
  BY <1>1, <1>2, SinceIs, SinceWillBe DEF Once!Tick

(* Forgetting the links F is removing them from the abstract memory.       *)
LEMMA SinceRest ==
  ASSUME NEW s, Dictionary(s), NEW t, NEW k \in Nat, IsRest(t, s, k)
  PROVE  /\ Since(t) = Once!Without(FirstKeys(s, k), Since(s))
         /\ Keys(t) = Keys(s) \ FirstKeys(s, k)
<1>1. \A u \in URLs : AgeIn(t, u) = IF u \in FirstKeys(s, k) THEN -1 ELSE AgeIn(s, u)
  BY RestAge
<1>. QED
  BY <1>1, RestKeys DEF Since, Once!Without

LEMMA OnceSuppress ==
  ASSUME Shape, NEW d \in Detectors, PassOver(d)
  PROVE  Once!Suppress(looked[d]) /\ looked[d] \in URLs
<1>1. Dictionary(store) /\ lag[d] \in 0..Skew
  BY DEF Shape
<1>2. PICK k \in Nat :
        /\ IsRest(Kept(d), store, k) /\ k <= Len(store)
        /\ \A u \in FirstKeys(store, k) : AgeIn(store, u) > TTL
  BY <1>1, KeptFacts
<1>. DEFINE F == FirstKeys(store, k)
<1>3. F \subseteq URLs
  <2>1. \A i \in 1..k : store[i].url \in URLs
    BY <1>1, <1>2, SeqTyped DEF Dictionary
  <2>. QED
    BY <2>1 DEF FirstKeys
<1>4. F \in SUBSET Once!Expired
  BY <1>2, <1>3, SinceIs DEF Once!Expired, Since
<1>5. /\ Since(store') = Once!Without(F, Since(store))
      /\ looked[d] \in Keys(store) \ F /\ UNCHANGED handed
  BY <1>1, <1>2, SinceRest DEF PassOver
<1>6. looked[d] \in Once!Remembered \ F /\ looked[d] \in URLs
  BY <1>1, <1>5, RememberedKeys, SinceIs DEF Once!Remembered, Since
<1>. QED
  BY <1>4, <1>5, <1>6, SinceIs, SinceWillBe DEF Once!Suppress
LEMMA SameCardinality == \A S : Once!Cardinality(S) = Cardinality(S)
BY DEF Once!Cardinality, Cardinality, Once!IsFiniteSet, IsFiniteSet

(* The abstract step, for the links F forgotten and the age counted from.  *)
LEMMA OnceHandBy ==
  ASSUME NEW u, NEW F \in SUBSET Once!Expired, NEW age \in 0..Skew, NEW kept, NEW after,
         kept = (Once!Remembered \ F) \cup {u},
         after = [Once!Without(F, Since(store)) EXCEPT ![u] = age],
         u \notin Once!Remembered \ F, handed' = handed \cup {u},
         \/ Cardinality(kept) <= Max /\ Since(store') = after
         \/ /\ Cardinality(kept) > Max
            /\ \E v \in kept : Since(store') = Once!Without({v}, after)
  PROVE  Once!Hand(u)
<1>1. /\ [v \in URLs |-> Age(v)] = Since(store)
      /\ [v \in URLs |-> Age(v)]' = Since(store')
  BY SinceIs, SinceWillBe
<1>2. \E G \in SUBSET Once!Expired, a \in 0..Skew :
        LET all == (Once!Remembered \ G) \cup {u}
            new == [Once!Without(G, Since(store)) EXCEPT ![u] = a]
        IN  /\ u \notin Once!Remembered \ G
            /\ \/ Cardinality(all) <= Max /\ Since(store') = new
               \/ Cardinality(all) > Max
                  /\ \E v \in all : Since(store') = Once!Without({v}, new)
            /\ handed' = handed \cup {u}
  <2>. WITNESS F \in SUBSET Once!Expired, age \in 0..Skew
  <2>. QED
    OBVIOUS
<1>. QED
  BY <1>1, <1>2, SameCardinality DEF Once!Hand

LEMMA OnceHand ==
  ASSUME Shape, NEW d \in Detectors, HandOver(d)
  PROVE  Once!Hand(looked[d]) /\ looked[d] \in URLs
<1>1. /\ Dictionary(store) /\ Len(store) <= Max /\ lag[d] \in 0..Skew
      /\ looked[d] \in URLs /\ handed' = handed \cup {looked[d]}
  BY DEF Shape, HandOver
<1>2. PICK k \in Nat :
        /\ IsRest(Kept(d), store, k) /\ k <= Len(store)
        /\ \A u \in FirstKeys(store, k) : AgeIn(store, u) > TTL
  BY <1>1, KeptFacts
<1>3. PICK e \in Entry :
        /\ e.url = looked[d] /\ e.age = lag[d]
        /\ Dictionary(Kept(d)) /\ e.url \notin Keys(Kept(d))
        /\ Len(Kept(d)) <= Max
        /\ store' = Added(Kept(d), e)
  BY <1>1, HandOverKeeps
<1>. DEFINE F == FirstKeys(store, k)
            S == Since(store)
            A == Append(Kept(d), e)
            kept == (Once!Remembered \ F) \cup {looked[d]}
            after == [Once!Without(F, S) EXCEPT ![looked[d]] = lag[d]]
<1>4. F \in SUBSET Once!Expired
  <2>1. \A i \in 1..k : store[i].url \in URLs
    BY <1>1, <1>2, SeqTyped DEF Dictionary
  <2>2. F \subseteq URLs
    BY <2>1 DEF FirstKeys
  <2>. QED
    BY <1>2, <2>2, SinceIs DEF Once!Expired, Since
<1>5. Since(Kept(d)) = Once!Without(F, S) /\ Keys(Kept(d)) = Keys(store) \ F
  BY <1>1, <1>2, SinceRest
<1>6. Keys(Kept(d)) = Once!Remembered \ F
  <2>1. Once!Remembered = Keys(store)
    BY <1>1, RememberedKeys, SinceIs DEF Once!Remembered, Since
  <2>. QED
    BY <1>5, <2>1
<1>7. /\ Dictionary(A) /\ Keys(A) = kept /\ A \in Seq(Entry)
      /\ Kept(d) \in Seq(Entry) /\ Len(A) = Len(Kept(d)) + 1
      /\ Len(A) \in Nat /\ Len(Kept(d)) \in Nat /\ DOMAIN A = 1..Len(A)
  <2>1. Kept(d) \in Seq(Entry) /\ e.age <= Skew
    BY <1>1, <1>3, Numbers DEF Dictionary
  <2>2. Dictionary(A) /\ Keys(A) = Keys(Kept(d)) \cup {e.url}
    BY <1>3, <2>1, AppendIsDictionary
  <2>3. A \in Seq(Entry) /\ Len(A) = Len(Kept(d)) + 1
    BY <2>1, AppendTyped
  <2>4. Len(A) \in Nat /\ Len(Kept(d)) \in Nat /\ DOMAIN A = 1..Len(A)
    BY <2>1, <2>3, SeqTyped
  <2>. QED
    BY <1>3, <1>6, <2>1, <2>2, <2>3, <2>4
<1>8. Since(A) = after
  <2>1. e.age <= Skew
    BY <1>1, <1>3, Numbers
  <2>2. \A u \in URLs : AgeIn(A, u) = IF u = e.url THEN e.age ELSE AgeIn(Kept(d), u)
    BY <1>3, <2>1, AppendAge
  <2>3. Since(A) = [Since(Kept(d)) EXCEPT ![e.url] = e.age]
    BY <2>2 DEF Since
  <2>. QED
    BY <1>3, <1>5, <2>3
<1>9. Cardinality(kept) = Len(A)
  BY <1>7, KeysCounted DEF Dictionary
<1>10. looked[d] \notin Once!Remembered \ F
  BY <1>3, <1>6
<1>11. PICK m \in 0..1 :
         /\ IsRest(store', A, m)
         /\ m = 1 <=> Len(Kept(d)) + 1 > Max
  BY <1>3, <1>7, AddedIsRest
<1>12. Since(store') = Once!Without(FirstKeys(A, m), after)
  <2>1. m \in Nat
    OBVIOUS
  <2>. QED
    BY <1>7, <1>8, <1>11, <2>1, SinceRest
<1>13. CASE m = 0
  <2>1. Cardinality(kept) <= Max
    BY <1>7, <1>9, <1>11, <1>13, Numbers
  <2>2. FirstKeys(A, m) = {}
    BY <1>13 DEF FirstKeys
  <2>3. Once!Without({}, after) = after
    BY <1>8 DEF Once!Without, Since
  <2>4. Since(store') = after
    BY <1>12, <2>2, <2>3
  <2>. QED
    BY <1>1, <1>4, <1>10, <2>1, <2>4, OnceHandBy
<1>14. CASE m = 1
  <2>1. Cardinality(kept) > Max
    BY <1>7, <1>9, <1>11, <1>14
  <2>2. FirstKeys(A, m) = {A[1].url}
    BY <1>14 DEF FirstKeys
  <2>3. A[1].url \in kept
    <3>1. 1 \in DOMAIN A
      BY <1>7
    <3>2. A[1].url \in Keys(A)
      BY <3>1 DEF Keys
    <3>. QED
      BY <1>7, <3>2
  <2>4. Since(store') = Once!Without({A[1].url}, after)
    BY <1>12, <2>2
  <2>5. \E v \in kept : Since(store') = Once!Without({v}, after)
    BY <2>3, <2>4
  <2>. QED
    BY <1>1, <1>4, <1>10, <2>1, <2>5, OnceHandBy
<1>. QED
  BY <1>1, <1>11, <1>13, <1>14

(* The scanner, the clipboard monitor and their shared, ordered, lazily    *)
(* evicted dictionary implement LinkOnce: a link is handed over only when  *)
(* it is not remembered, is remembered once handed, and is forgotten only  *)
(* when more than TTL has passed or more than Max would have to be kept.   *)
THEOREM ImplementsLinkOnce == Spec => HandsOnce
<1>1. Init => Once!Init
  BY OnceInit
<1>2. Shape /\ [Next]_vars => [Once!Next]_(Once!vars)
  <2>. SUFFICES ASSUME Shape, [Next]_vars
               PROVE  [Once!Next]_(Once!vars)
    OBVIOUS
  <2>1. CASE UNCHANGED <<store, handed>>
    <3>1. Since(store') = Since(store) /\ handed' = handed
      BY <2>1
    <3>. QED
      BY <3>1, SinceIs, SinceWillBe DEF Once!vars
  <2>2. CASE Tick
    BY <2>2, OnceTick DEF Once!Next
  <2>3. ASSUME NEW d \in Detectors, PassOver(d)
        PROVE  Once!Next
    BY <2>3, OnceSuppress DEF Once!Next
  <2>4. ASSUME NEW d \in Detectors, HandOver(d)
        PROVE  Once!Next
    BY <2>4, OnceHand DEF Once!Next
  <2>5. ASSUME NEW d \in Detectors, NEW u \in URLs, ReadClock(d, u)
        PROVE  UNCHANGED <<store, handed>>
    BY <2>5 DEF ReadClock
  <2>. QED
    BY <2>1, <2>2, <2>3, <2>4, <2>5, BeforeLookUp
<1>. QED
  BY <1>1, <1>2, ShapeAlways, PTL DEF Spec, HandsOnce, Once!Spec
=============================================================================
