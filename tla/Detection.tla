----------------------------- MODULE Detection -----------------------------
(***************************************************************************)
(* How the agent finds links: the scanner of the game window               *)
(* (_scanner_loop), the clipboard monitor (_clipboard_monitor_loop) and    *)
(* the memory of links that they share (_TTLCache).                        *)
(*                                                                         *)
(* A frame of the screen and a content of the clipboard are the set of     *)
(* links in them; two frames have the same hash iff they are equal.  Time  *)
(* is counted in ticks: an entry of the cache has an age, and a detector   *)
(* that has read the clock but has not yet got the lock has a lag.         *)
(***************************************************************************)
EXTENDS Integers, Sequences, FiniteSets

CONSTANTS
  URLs,
  Frames,   \* what the window may show, subsets of URLs
  Contents, \* what may be copied, subsets of URLs
  None,
  TTL,      \* ttl_seconds
  Max,      \* max_size
  Skew      \* bound: ticks a thread waits between its clock and the lock

ASSUME DetectionAssumption ==
  /\ Frames \subseteq SUBSET URLs /\ Contents \subseteq SUBSET URLs
  /\ None \notin URLs
  /\ TTL \in Nat /\ Max \in Nat \ {0} /\ Skew \in Nat

Detectors == {"scanner", "clipboard"}
Horizon == TTL + 2 * Skew + 1 \* older ages are not told apart

VARIABLES
  game,   \* whether a game is in front, as _current_game has it
  screen, \* what its window shows
  copied, \* what the clipboard holds
  during, \* ghost: it was copied while a game was in front
  last,   \* last_frame_hash (None: no frame yet), last_content ({}: empty)
  todo,   \* links found and not yet looked up, per detector
  looked, \* the link a detector has read the clock for
  lag,    \* how long ago that was
  store,  \* _store: a sequence of links with their ages
  handed  \* ghost: the links submitted so far

vars == <<game, screen, copied, during, last, todo, looked, lag, store, handed>>

Init ==
  /\ game = FALSE
  /\ screen \in Frames /\ copied \in Contents /\ during = FALSE
  /\ last = [scanner |-> None, clipboard |-> {}]
  /\ todo = [d \in Detectors |-> {}]
  /\ looked = [d \in Detectors |-> None]
  /\ lag = [d \in Detectors |-> 0]
  /\ store = <<>>
  /\ handed = {}

-----------------------------------------------------------------------------
(* The child plays, reads, copies.                                         *)
ScreenChanges ==
  /\ screen' \in Frames \ {screen}
  /\ UNCHANGED <<game, copied, during, last, todo, looked, lag, store, handed>>

ClipboardChanges ==
  /\ copied' \in Contents \ {copied}
  /\ during' = game
  /\ UNCHANGED <<game, screen, last, todo, looked, lag, store, handed>>

(* A new scanner starts without a hash.  Bound: it does so when the old    *)
(* one, told to stop, has looked up what it had found.                     *)
AtRest(d) == todo[d] = {} /\ looked[d] = None

EnterGame ==
  /\ ~game /\ AtRest("scanner")
  /\ game' = TRUE
  /\ last' = [last EXCEPT !.scanner = None]
  /\ UNCHANGED <<screen, copied, during, todo, looked, lag, store, handed>>

LeaveGame ==
  /\ game /\ game' = FALSE
  /\ UNCHANGED <<screen, copied, during, last, todo, looked, lag, store, handed>>

-----------------------------------------------------------------------------
(* The detectors.                                                          *)
Found(d, text) ==
  /\ last' = [last EXCEPT ![d] = text]
  /\ todo' = [todo EXCEPT ![d] = text]
  /\ UNCHANGED <<game, screen, copied, during, looked, lag, store, handed>>

NewFrame == game /\ AtRest("scanner") /\ screen # last["scanner"]

ScanFrame == NewFrame /\ Found("scanner", screen)

(* Tesseract fails or times out: the frame will be tried again.  (A missing *)
(* Tesseract ends the scanner: it is assumed to be installed.)             *)
HashAfterFailure_Recorded == screen \* faulty: the hash is set before the OCR
HashAfterFailure == last["scanner"]

ScanFails ==
  /\ NewFrame
  /\ last' = [last EXCEPT !.scanner = HashAfterFailure]
  /\ UNCHANGED <<game, screen, copied, during, todo, looked, lag, store, handed>>

ReadClipboard ==
  /\ game /\ AtRest("clipboard") /\ copied # last["clipboard"]
  /\ Found("clipboard", copied)

(* Outside a game the monitor forgets what it has read.                    *)
ForgetContent ==
  /\ ~game /\ AtRest("clipboard") /\ last["clipboard"] # {}
  /\ last' = [last EXCEPT !.clipboard = {}]
  /\ UNCHANGED <<game, screen, copied, during, todo, looked, lag, store, handed>>

(* seen(url): the clock is read first ...                                  *)
ReadClock(d, u) ==
  /\ u \in todo[d] /\ looked[d] = None
  /\ looked' = [looked EXCEPT ![d] = u]
  /\ todo' = [todo EXCEPT ![d] = @ \ {u}]
  /\ UNCHANGED <<game, screen, copied, during, last, lag, store, handed>>

(* ... then, under the lock, expired entries are removed from the front up *)
(* to the first that has not expired, the link is looked up, and it is     *)
(* added at the end with the time that was read.                           *)
ExpiredAt_AtTTL(e, back) == e.age - back >= TTL \* faulty: a tick early
ExpiredAt(e, back) == e.age - back > TTL

Evicted_Nothing(s, back) == s \* faulty: _evict is not called
Evicted(s, back) ==
  LET live == {i \in DOMAIN s : ~ExpiredAt(s[i], back)}
      first == IF live = {} THEN Len(s) + 1
               ELSE CHOOSE i \in live : \A j \in live : i <= j
  IN SubSeq(s, first, Len(s))

Keys(s) == {s[i].url : i \in DOMAIN s}

Added_Unbounded(s, e) == Append(s, e) \* faulty: the size is not checked
Added(s, e) == IF Len(s) + 1 > Max THEN Tail(Append(s, e)) ELSE Append(s, e)

Kept(d) == Evicted(store, lag[d])

LookedUp(d) ==
  /\ looked' = [looked EXCEPT ![d] = None]
  /\ lag' = [lag EXCEPT ![d] = 0]
  /\ UNCHANGED <<game, screen, copied, during, last, todo>>

PassOver(d) ==
  /\ looked[d] \in Keys(Kept(d))
  /\ store' = Kept(d)
  /\ LookedUp(d) /\ UNCHANGED handed

HandOver(d) ==
  /\ looked[d] \in URLs \ Keys(Kept(d))
  /\ store' = Added(Kept(d), [url |-> looked[d], age |-> lag[d]])
  /\ handed' = handed \cup {looked[d]}
  /\ LookedUp(d)

Seen(d) == PassOver(d) \/ HandOver(d)

Older(e) == IF e.age < Horizon THEN [e EXCEPT !.age = @ + 1] ELSE e

Tick ==
  /\ \A d \in Detectors : looked[d] # None => lag[d] < Skew
  /\ lag' = [d \in Detectors |-> IF looked[d] # None THEN lag[d] + 1 ELSE 0]
  /\ store' = [i \in DOMAIN store |-> Older(store[i])]
  /\ UNCHANGED <<game, screen, copied, during, last, todo, looked, handed>>

Next ==
  \/ ScreenChanges \/ ClipboardChanges \/ EnterGame \/ LeaveGame
  \/ ScanFrame \/ ScanFails \/ ReadClipboard \/ ForgetContent \/ Tick
  \/ \E d \in Detectors : Seen(d) \/ \E u \in URLs : ReadClock(d, u)

(* The threads run; Tesseract does not fail for ever.                      *)
Fairness ==
  /\ SF_vars(ScanFrame) /\ WF_vars(ReadClipboard)
  /\ \A d \in Detectors :
       WF_vars(Seen(d)) /\ WF_vars(\E u \in URLs : ReadClock(d, u))

Spec == Init /\ [][Next]_vars /\ Fairness

-----------------------------------------------------------------------------
(* Types; the memory holds no link twice and at most Max (_TTLCache).      *)
TypeOK ==
  /\ game \in BOOLEAN /\ during \in BOOLEAN
  /\ screen \in Frames /\ copied \in Contents
  /\ last.scanner \in Frames \cup {None} /\ last.clipboard \in Contents \cup {{}}
  /\ todo \in [Detectors -> SUBSET URLs]
  /\ looked \in [Detectors -> URLs \cup {None}]
  /\ lag \in [Detectors -> 0..Skew]
  /\ \A i \in DOMAIN store : store[i] \in [url : URLs, age : 0..Horizon]
  /\ Len(store) <= Max /\ Cardinality(Keys(store)) = Len(store)
  /\ handed \subseteq URLs

(* A link that is passed over was handed at most TTL and two waits for the *)
(* lock ago: entries out of order, behind one that has not expired, are    *)
(* removed late, but not much later (_TTLCache.seen, _evict).              *)
SuppressedIsRecent ==
  [][\A d \in Detectors : PassOver(d) =>
       \E i \in DOMAIN store :
         store[i].url = looked[d] /\ store[i].age <= TTL + 2 * Skew]_vars

(* The ordered dictionary and its two-step look-up implement LinkOnce:     *)
(* however scanner and clipboard interleave, a link is handed over only    *)
(* when it is not remembered, and is not forgotten early.                  *)
Age(u) == IF u \in Keys(store)
          THEN LET i == CHOOSE i \in DOMAIN store : store[i].url = u
               IN store[i].age
          ELSE -1
Once == INSTANCE LinkOnce WITH since <- [u \in URLs |-> Age(u)]
HandsOnce == Once!Spec

(* A link that stays in the window of a running game, or in the clipboard  *)
(* once it was copied there during a game, is handed over at last, whatever *)
(* OCR failures come first (_scanner_loop, _clipboard_monitor_loop).       *)
EveryLinkFound ==
  \A u \in URLs :
    <>[](game /\ (u \in screen \/ (u \in copied /\ during))) => <>(u \in handed)
=============================================================================
