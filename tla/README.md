# HopMap in TLA+

HopMap warns a parent when a child, lured by a link in a game's chat, hops from
the game to a browser or a chat app. A Windows **agent** watches the foreground
window, reads the game's screen and the clipboard, and has links classified by
a **server** (FastAPI, MongoDB, an LLM). The server stores confirmed hops and
tells the parent on Telegram; a React **dashboard** shows them.

This directory holds specifications of that system: modules (`*.tla`), TLC
configurations (`*.cfg`), proofs checked by TLAPS (`*Proofs.tla`) and
`PROJECT.json`, which maps every definition to the lines it models.

    tlc -config HopConfirm_pairs.cfg MCHopConfirm.tla      # a run
    tlapm HopConfirmProofs.tla                             # the proofs

Paths below are relative to `src/`.

## 1. Inventory

| Component | State | Operations | Hard because |
|---|---|---|---|
| Confirmation pipeline, `agent/agent.py` | `_hwnd_event_queue`, `_prev_proc`, `_pending_hop_attempts`, `_last_non_game_switch`, `_current_game`, `_scanner_thread`, the classify-dispatch pool | foreground hook, `_process_foreground_change`, scanner and clipboard loops, `_decide_and_send`, `_try_late_confirm`, `_confirm_pending`, title polls, shutdown | five kinds of threads share the store and the record of the switch under several small locks |
| Hop delivery, `agent/agent.py` | `_send_queue`, the event in `_send_hop` | `_enqueue_hop`, `_sender_loop`, `_send_hop` | lost and late answers, retries, an age bound, one dead backend holds up the queue |
| Lure detection, `agent/agent.py` | frame hash, last clipboard content, `_url_seen_global` | `_scanner_loop`, `_clipboard_monitor_loop`, `_TTLCache` | a cache bounded in size and age, shared by threads that read the clock before they get the lock |
| Activation and identity, `agent/agent.py`, `agent/config.py`, `server/agent_installer/` | credential store, `agent_config.json`, `.child_id` | `_activate`, `_register_child`, installer, uninstaller | a crash or a lost answer between two writes; what an earlier installation left behind |
| Game registry, platform map, `agent/agent.py` | a 60 s cache; a table fetched once | `_is_game`, `_fetch_platforms` | I/O |
| Hop endpoint and notification, `server/classify/router.py`, `server/notifications/` | event store | `agent_hop`, `insert_event`, `dispatch_hop` | each database operation can fail on its own, in concurrent handlers |
| LLM and MongoDB circuit breakers, `server/classify/circuit_breaker.py`, `server/core/db_circuit_breaker.py` | state, failures, time of opening, probe flag | guard, record success, record failure | no lock is held during the call they guard |
| Classify endpoint and LLM providers, `server/classify/`, `server/llm/` | the executor's threads and queue | `agent_classify`, `run_classify`, `classify` of a provider | retries over the breaker; threads nobody waits for any more |
| Classify rate limit, `server/classify/service.py` | call times per child and worker | `check_rate_limit`, `_sweep_once` | window edges; several worker processes |
| Children and setup codes, `server/children/`, `server/classify/router.py` | children, setup codes, agent tokens | `add_child`, `agent_activate`, download, delete | find-then-write operations |
| Accounts and sessions, `server/auth/` | users, sessions, reset tokens | register, login, refresh, logout, password reset | token rotation in three operations |
| Dashboard contexts, `dashboard/src/context/` | access token, children | `authFetch`, login, logout, polling | overlapping refreshes of several tabs with one cookie jar |
| Blocked words, `server/words/`, `server/words_filter.py` | the collection, the loaded filter | create, delete, reload, periodic task, `find` | loads that overlap; a database that is away when the process starts |
| Telegram linking, `server/telegram/` | link tokens, chat ids | create link, webhook, unlink | one-time token in two writes |
| Health, start-up checks, plans, event queries, pages | none or constant | | I/O, text or presentation |

How they meet: the hook and the detectors feed the pipeline; its dispatch
threads POST `/agent/classify/{childId}` (rate limit, LLM breaker) and its
confirmations go through the send queue to `/agent/hop/{childId}`, whose handler
uses MongoDB through the other breaker and then Telegram. What makes each
component correct is in section 4; why some are left out is in section 7.
`PROJECT.json` lists the components, with their status, and the hazards,
each at its line.

## 2. Modules

| Module | Models |
|---|---|
| `HopConfirm` | the confirmation pipeline, one step per lock region or shared access of a thread |
| `DeliveryPromise` | what the way from the agent to the parent promises |
| `HopDelivery` | send queue, network, `agent_hop`, event store, notification; implements `DeliveryPromise` |
| `CircuitBreaker` | either circuit breaker with any number of overlapping calls |
| `WindowLimit` | what the rate limit promises: a sliding-window limit |
| `RateLimiter` | the code of the rate limit; implements `WindowLimit` |
| `ClassifyPromise` | what the agent is promised when it asks for a verdict |
| `ClassifyService` | the classify endpoint with retries and thread pool, over an instance of `CircuitBreaker`; implements `ClassifyPromise` |
| `LinkOnce` | what the agent's memory of links promises |
| `Detection` | scanner, clipboard monitor and `_TTLCache`; implements `LinkOnce` |
| `Activation` | dashboard, installer, agent and server from a registered child to a running agent |
| `AuthSession` | accounts' sessions on the server, cookie and access tokens in the browser |
| `WordsFilter` | `WordsFilter.find` as a loop over the automaton's matches, and its definition |
| `WordsService` | the list of blocked words, its loads, start-up, the connection to the database |
| `MC...` | finite instances of these for TLC |
| `...Proofs` | theorems, with proofs |

### HopConfirm

A window is represented by its process; processes are sorted into games,
transit shells, browsers, platform apps and the rest, as `_is_game` and the
fetched platform table sort them. A *lure* is one URL during one lifetime of
its entry in `_url_seen_global`, so it is detected at most once, which is what
`Detection` checks.

| Threads | Actions | Code |
|---|---|---|
| child, hook | `ChildSwitch` | `_on_foreground_change` only enqueues the window |
| event processor | `HandleSame`, `HandleSwitch`, `Confirm(Ep, _)`, `RecordSwitch`, `FinishSwitch` | `_process_foreground_change`: snapshot of the store under `_pending_lock`, confirmation, record of the switch under `_last_switch_lock`, scanner and clipboard state |
| scanners, clipboard monitor | `Detect`, `DetectorStops` | a lure is submitted with the game it is attributed to; a stopped scanner, or a monitor that read `_current_game` before, may still submit (`stale`) |
| dispatch pool | `StartTask`, `ClassifySafe`, `ClassifyHop`, `CheckRecordedSwitch`, `CheckForeground`, `DrainPending`, `Confirm(l, _)`, `FinishTask` | `_decide_and_send`, `_try_late_confirm`, `_drain_and_confirm` |
| poll threads | `PollEnds` | `_poll_browser_title` |
| main thread | `Init`, `Shutdown` | `run()`: the foreground is sampled before the hook exists; the first scanner is not stored in `_scanner_thread` (`initial`) |

The position of the event processor is `ep`, that of a dispatch is `task[l]`;
locals that outlive a lock region (`snap`, `dest`) are variables. Classification
is a choice of verdict. Polling is one step for its outcome.

### HopDelivery

The i-th POST of an event is a *request* with a stage of its own, so a handler
goes on after the agent has given up waiting. One step per database or Telegram
operation: `Authenticate`, `InsertEvent`, `FindParent`, `Notify`. `trouble` is
what the environment does at the moment: an outage (connections refused,
requests and answers lost, server restarts), a database that fails, a rejected
token, a Telegram that hangs, or nothing. A message that does not go out at once
(no chat, a refusal of Telegram) is a choice of `Notify`. The endpoint waits for
Telegram before it answers, up to 10 s (`server/notifications/telegram.py:32`), the
agent 5 s for the answer (`agent/agent.py:232`): `Prompt` says which requests are
answered before the agent's time-out, and while Telegram hangs those in `Notify`
are not, though they end. `age` stops when the event is decided, because the code
does not look at it again.

`DeliveryPromise` knows neither queue nor clock nor network: an event is reported,
gets one outcome (delivered, rejected, lost), and may be stored once and told once
for each *copy*, also after its outcome is known. `HopDelivery` implements it with
its requests as copies; `Outcome` maps the sender's `fate`: "queued" and "sending"
are pending, "expired" and "exhausted" are lost.

### CircuitBreaker

The two classes have the same three critical sections, `Admit`/`Refuse`,
`Succeed`, `Fail`; `FailOther` is every exception that neither class records.
`LazyCallers` call a method that returns without I/O (`Collection.find()`),
which `ProtectedCollection` records as a success. `pc[c] = "probe"` remembers
which calls were let through in HALF_OPEN; the code does not know.

### RateLimiter

Every worker process has its own `_classify_call_times`. `check_rate_limit` and
`_sweep_once` run under a lock without awaiting, so each is one step. Pruning
is `bisect_left` by definition. `DeploymentAssumption` is what `validate_startup`
enforces: in staging and production (`Live`) several workers need a Redis URL; in
development it only warns. `WindowLimit` knows only when calls of a child
were admitted.

### ClassifyService

The breaker is `B == INSTANCE CircuitBreaker`, its callers are the handlers: a
step of a handler that begins or ends an attempt is, in the same action, a step of
the breaker (`BeginAttempt` and `B!Admit`, `TimeOut` and `B!RecordFailure`, and so
on). `queue` and `thread` are the executor behind `asyncio.to_thread`; `TimeOut`
is `wait_for`, which drops a queued job and abandons a running one. A job is
`stuck` when it has been left hanging by a provider that was not reachable, and
may stay so for ever: `ollama.chat` is called without a time-out
(`server/llm/ollama_provider.py:41`). `OnError` is the verdict `agent_classify`
answers with when an attempt's error, the last one, reaches it.
`AgentGivesUp` is the agent's own time-out of 8 s; its request goes on. The
content of a question is a lure, an innocent link, or one with a blocked word
near it; the provider, when it says anything, is right about it.

### Detection

A frame or a clipboard content is the set of links in it. `ReadClock` and
`PassOver`/`HandOver` are the two halves of `_TTLCache.seen`, before and under
the lock; `lag` is the time between them. Entries carry ages instead of times.
`ScanFails` is an OCR that fails or times out. `during` is a ghost: whether what
is in the clipboard was copied while a game was in front. `LinkOnce` knows only which links
are remembered and since when; `Detection!Age` is the mapping.

### Activation

| Part | Actions | Code |
|---|---|---|
| dashboard | `CountChildren`, `InsertChild`, `DownloadInstaller`, `DeleteChild`, `CodeExpires` | `add_child` in its two operations; the download's new setup code |
| installer | `Install`, `Uninstall` | `generator.py`: which files are written and removed, in which order, and where an uninstaller may stop |
| agent | `StartAgent`, `PostActivate`, `ReceiveAnswer`, `StoreToken`, `ClearSetupCode`, `RegisterChild`, `RegisterRejected`, `RegisterOffline`, `AgentDies` | `_activate` sends the code, stores the token and clears the code, in this order; `_register_child` falls back to the cached id |
| server | `LookUpCode`, `ConsumeCode` | `agent_activate`: look the code up, then consume it and store the token's hash |

Tokens and codes are numbers in the order they were made; a hash is the thing it
hashes. A handler goes on when its agent has died.

### AuthSession

A call of a tab has a purpose (`authFetch`, mount, login, logout; `"gone"` when
nobody waits for the answer any more) and a stage on the server. `LookUp`,
`RevokeOld` and `CreateSession` are the three operations of `service.refresh`; a
login is the last of them alone. The cookie is read when a refresh leaves the
browser and stored when its answer arrives. Register and login are the same
action: an account is not told apart from its sessions.

### WordsService and WordsFilter

A load (`ReadWords`, `SwapFilter`) runs in a thread of its own for each handler
and for the periodic task. `ConnectPool`, `InitializeIndexes`, `SeedIfEmpty` and
`FirstLoad` are `lifespan` with what its failures do. `WriteUnacknowledged` is a
write that takes effect although its handler gets an error: the list has changed
and nothing is loaded. `WordsFilter` takes what the
Aho-Corasick automaton yields (every occurrence, by its end, the longest first)
and keeps the better of two as the loop of `find` does: `Best` is a function over
the ends of matches, `BestEndingAt` one over the starts of those that end at one
place, so that the first of these is the longest. Both are written as recursive
functions, because theorems about them are proved. What kind a character is
(ASCII, a letter, or neither) is a constant.

## 3. Runs

Ten runs pass.

| Run | States | Shows |
|---|---|---|
| `HopConfirm_pairs` | 5.9 M (with symmetry) | safety of the pending store with two lures, two pool threads, the event processor and three window changes, from a game or from a browser |
| `HopConfirm_live` | 145 k | liveness, with shutdown, one pool thread, a shell and a tool |
| `HopDelivery_faults` | 108 k | refinement of `DeliveryPromise`, delivery once healthy, storage while Telegram hangs, two events with two attempts each, under every fault |
| `CircuitBreaker_overlaps` | 42 k | the fields, the distance of probes and recovery, for four overlapping calls of up to twice the recovery time-out |
| `RateLimiter_one_worker` | 79 k | refinement of `WindowLimit`, two children, three windows |
| `ClassifyService_hangs` | 236 k | refinement of `ClassifyPromise`, two requests, two threads, one retry, a provider whose calls may hang for ever; recovery |
| `Detection_threads` | 476 k | refinement of `LinkOnce`, scanner and clipboard monitor, three links and room for two |
| `Activation_pcs` | 2.2 M (with symmetry) | identity, setup codes and the plan's limit, two children, PCs, codes and tokens, two faults |
| `AuthSession_tabs` | 1.4 M (with symmetry) | cookie, refusals and number of sessions, two tabs, three calls in flight, one fault |
| `WordsService_races` | 66 k | overlapping loads, start-up and search, two handlers and the periodic task |

Two runs end in a counterexample to something the program or a doc says:
`CircuitBreaker_wedge` and `Activation_reinstall`. Section 6 tells what they show.

**Bounds.**

- `HopConfirm`: `MaxMoves` (window changes) and `MaxNow` (ticks). Three changes
  are away, back and away again: the shortest history in which a lure of the
  first visit can meet the switch of the second. `HopConfirm_pairs` starts in the
  game or in a browser, where the first foreground event may be missing; transit
  shells are in `HopConfirm_live` and in the theorems. Two lures are needed because one
  thread's drain takes what another parked; a third would be drained in the same
  way as the second. One tick tells before from after, and `LateMaxAge = 1` and
  `MaxNow = 1` keep every recorded switch fresh; staleness is exercised as "older
  than the lure".
- `HopDelivery`: two events are the one being sent and the one behind it; two
  attempts are a retry and a last attempt; `MaxAge` lets an event expire before
  and after its first POST.
- `CircuitBreaker`: four callers are a probe, a straggler, one that is refused and
  one that does no I/O; `Threshold = 3` separates the first failure, the next and
  the tripping one. A call may last `MaxCall = 4` ticks, the recovery time-out is
  two, in the proportion of the LLM breaker's defaults (120 s and 60 s), so that a
  call can outlive an OPEN period and meet the next probe.
- `RateLimiter`: six ticks are three windows of two.
- `ClassifyService`: two requests are one whose thread was abandoned and the one
  that takes over its place; one retry is a first and a last attempt. Two threads:
  none, one or both of them hang for ever, so that jobs wait in the queue and time
  out there.
- `Detection`: three links and a memory of two make the memory overflow; `Skew = 1`
  lets entries get out of order; ages above `TTL + 2 * Skew` are not told apart.
  A new scanner starts when the old one has looked up what it found.
- `Activation`: two PCs run for one child or for two; two codes are an old and a
  fresh one; two faults are, say, a lost answer and a crash later; the limit of one
  child is reached by the first registration.
- `AuthSession`: four sessions are a login and its successors in two tabs; three
  calls let two of one tab race with one of another; one fault anywhere.
- `WordsService`: three entries, one of them a prefix of another and one with a
  character that is no letter; texts of up to three of four characters (ASCII
  letters, a letter of another alphabet, a sign) hold two overlapping entries
  with or without a boundary.

`CHECK_DEADLOCK FALSE` stands where the bounds make the model stop (`HopConfirm`
after the last window change, `Activation` when codes, tokens and faults are used
up).

## 4. Properties

`HopConfirm`
- `NoDoubleConfirmation`: "exactly one caller wins the snapshot" – no lure is
  confirmed twice, held by two threads, or confirmed after it was dropped.
- `NoLureLost`: a lure with verdict YES is parked, held, confirmed or dropped.
- `NoLureLeftOnDestination`: when everything has settled and the child is on a
  destination, the store is empty. The event processor and the two checks of
  `_try_late_confirm` run under different locks; this is the property their
  order (park first, check then) is for.
- `SwitchFollowsSomeLure`: a confirmation never uses a switch that is older than
  every lure parked by then. The comment promises more; see section 6.
- `EveryDispatchEnds`, `EveryConfirmationIsSent`: nobody waits for ever, neither a
  lure in the pool's queue nor one whose title is polled.

`HopDelivery`
- `DeliveredMeansStored`: what the agent counts as delivered is in the event store.
- `KeepsPromise` (refinement of `DeliveryPromise`): an event is decided once, stored
  and told at most once per POST, and told of only if it is stored – whatever is
  retried, comes too late, or fails between two operations of a handler.
- `EveryEventDecided`: a dead backend cannot stop the queue.
- `DeliveredOnceHealthy`: with an attempt left, a healthy backend and a Telegram
  that does not hang, an event gets through, unless it is older than `_HOP_MAX_AGE_S`.
- `StoredDespiteTelegram`: with a Telegram that hangs it is stored all the same, although
  the agent may never learn of it.

`CircuitBreaker`
- `BreakerConsistent`: state, counter and flag agree, whatever stragglers end when.
- `ProbesSpaced`: probes in flight together were let through at least a recovery
  time-out apart. The documents promise one probe; section 6 says why that does
  not hold, and this is what does.
- `SelfHealsUnlessProbeLeaks`: once the dependency answers for good the circuit
  closes for good, unless a probe leaves its flag behind.

`RateLimiter`: `AtMostMaxRpm`, and `ImplementsLimit` (it is exactly the abstract
limit: nothing is refused too early either).

`ClassifyService`
- `OneJobPerAttempt`: breaker, handlers, queue and threads agree on what is in
  flight; nothing is counted twice or by somebody who has given up.
- `KeepsPromise` (refinement of `ClassifyPromise`): every question ends, and an
  innocent link is never told YES – not by the late answer of an abandoned
  thread, not when the agent has asked anew.
- `ServiceRecovers`: once the provider is back for good the circuit closes for good,
  if one thread of the pool is not left hanging – it is enough for all requests,
  although jobs go on timing out in the queue – and no probe leaks.

`Detection`
- `SuppressedIsRecent`: a link is passed over only if it was handed on at most
  `TTL` and two waits for the lock ago, although entries may be out of order and
  `_evict` stops at the first that has not expired.
- `HandsOnce` (refinement of `LinkOnce`): no link is handed on while it is
  remembered, and none is forgotten early.
- `EveryLinkFound`: a link that stays in the game's window, or was copied during a
  game and stays in the clipboard, is handed on, whatever OCR failures, switches
  and forgotten contents come first.

`Activation`
- `RunsAsItself`: an agent acts for the child its token was issued for.
- `StrandedOnlyBeforeStore`: no crash after the token was stored leaves an agent
  with neither token nor code; `_activate` stores before it clears.
- `NoSecondLookUp`: a burnt code is not accepted again, whatever downloads,
  deletions and activations interleave.
- `PlanLimitKept`: the limit is exceeded only by registrations that overlap.

`AuthSession`
- `CookieLive`: while nothing has failed and no rotation is in flight, the cookie
  in the jar is a live session.
- `RefusedForCause`: a refresh that sent a cookie is refused only after a fault or
  a race for that cookie.
- `RotationKeepsCount`: only such a race makes more live sessions than logins.

`WordsService`: `FindsLongest` (whatever list is loaded, `find` reports the longest
admissible match, of several the first) and `FilterCatchesUp` (in a connected
server the filter ends up being the list).

**Fairness.** `HopConfirm`: the event processor and the pool's threads are
scheduled by the OS, a classify request has a time-out (8 s) and so has a title
poll (10 s), so each step that is enabled is taken – while the agent is up:
after shutdown daemon threads may die anywhere, and nothing is assumed. The child
and the detectors owe nothing. `HopDelivery`: time passes, the sender runs, and
each handler ends, since its database and Telegram calls have time-outs; no
fairness on the environment. Time does not pass a prompt answer (`Prompt`): without
troubles an answer takes less than the agent's 5 s; it does pass a handler that
waits for a Telegram that hangs. `CircuitBreaker`: calls end by their
time-out and callers go on calling. `ClassifyService`: handlers and threads run, a
provider that can be reached replies, time passes (strongly, since the provider
may come and go between two ticks), and agents go on asking, without which a
circuit would stay open. A thread whose provider cannot be reached owes nothing,
nor does one that was left hanging, when the provider is back: `ollama.chat` has no
time-out (the NVIDIA client has one of 600 s). Only a call that was not left hanging is sure to end.
`Detection`: the threads run, and Tesseract does not fail for ever on a frame that
is there again and again (`SF` on `ScanFrame`). `WordsService`: the timer fires and
loads run; clients owe nothing. `Activation` and `AuthSession` are about safety
only: an agent waits for the Task Scheduler and a tab for its user.

## 5. Proofs

All theorems hold for every value of the constants under the named assumptions
of the modules, which TLC evaluates on every run.

| Theorem | States | Argument |
|---|---|---|
| `HopConfirmProofs!TypeCorrect` | `Spec => []TypeOK` | `TypeOK` with: a thread that is past a check has a real `dest` |
| `HopConfirmProofs!ConfirmedAtMostOnce`, `NothingGetsLost` | `NoDoubleConfirmation`, `NoLureLost` | together they are nearly inductive: every lure is in exactly one of the places "store", "a thread's snapshot", "confirmed", "dropped", and in none of them before its verdict; each action moves it between two |
| `HopConfirmProofs!NoLureIsOverlooked` | `NoLureLeftOnDestination` | two invariants: `EventsInOrder` (the queue ends with the window in front, neighbours in it differ, and a destination that is last differs from what the processor saw before, so it is not dropped as "same process" – except before any lure was seen, because `run()` samples the foreground before it installs the hook) and `NothingOverlooked` (a lure is left parked at a destination only while an event is still queued) |
| `HopConfirmProofs!SwitchesAreTimely` | `SwitchFollowsSomeLure` | invariant `Timely`: a dispatch thread's switch is not older than its own lure, the event processor's not older than any it holds; it needs that parked lures are accounted for (`Custody`) |
| `HopDeliveryProofs!TypeCorrect` | `TypeOK` | split into the agent's and the server's half |
| `HopDeliveryProofs!DeliveredIsStored`, `NothingUnstoredIsTold` | `DeliveredMeansStored`; `ToldIsStored` (proved, not run, since `KeepsPromise` implies it) | invariant `HandlersKeepOrder`: a request beyond `InsertEvent`, or answered "ok", has stored its event |
| `HopDeliveryProofs!DeliveryRefinesPromise` | `KeepsPromise`: all of `DeliveryPromise`, which has no fairness | `HandlersKeepOrder` with `QueueFits` (an event waits in the queue once, and only while its fate is "queued"), `FreshAttempts` (an attempt still to come has left no trace on the server, so a POST never meets a handler of the same request) and `StagesFit` (a request that is not past `InsertEvent` has no row, one not past `Notify` no message). Step by step: `Enqueue` maps to `Report`, the last look at an event to `Decide`, `InsertEvent` and `Notify` to `Store` and `Tell` or to nothing; the agent's exit, restarts, losses and retries stutter |
| `HopDeliveryProofs!SuccessIsFinal` | `NothingAfterSuccess` (proved, not run) | the sender only POSTs an event whose fate is "sending" |
| `CircuitBreakerProofs!FieldsAgree`, `TypeCorrect` | `BreakerConsistent`, `TypeOK` | the counter is bounded by the threshold and the calls in flight, whatever order they end in |
| `CircuitBreakerProofs!ProbesKeepDistance` | `ProbesSpaced`, for calls of any length | invariant `Spacing`: when the circuit has been OPEN for k ticks, every call in flight is at least that old (`OpenSinceCalls`), and HALF_OPEN is never without its probe flag (`HalfOpenProbes`: the guard that enters it sets the flag, and a failure that clears the flag leaves it). So a probe is let through only at k = the recovery time-out, and every call it meets is that old |
| `RateLimiterProofs!LimitHolds` | `LimitSpec => []AtMostMaxRpm` | admitted times are sorted |
| `RateLimiterProofs!StoresAreSorted` | `TypeOK`, any number of workers | every store is a sorted list of past times: pruning takes a suffix, and an admitted call is appended with the time that is now |
| `RateLimiterProofs!Refinement`, `OneWorkerLimit` | `Spec => LimitSpec` with one worker | a worker's list is a suffix of the admitted times that has lost only calls outside the window |
| `ActivationProofs!TypeCorrect`, `AgentsRunAsThemselves`, `StoredTokenSurvives` | `TypeOK`, `RunsAsItself`, `StrandedOnlyBeforeStore` | invariant `Inv`: `ServerKeepsOrder` (a child's token is owned by that child, its code was made for it and is not burnt, a request that was found carries a code of its child), `PCKeepsOrder` (a cached id belongs to the stored token, an agent past `_activate` uses the stored token) and `TokenOnItsWay` (a PC whose code was burnt has the token in its store, in its agent's hands, or in an answer that its agent waits for) |
| `ActivationProofs!BurntCodesStayBurnt` | `NoSecondLookUp` | an action property: no child's document holds a burnt code, as downloads make fresh ones |
| `ActivationProofs!LimitHolds` | `PlanLimitKept` | `TakenWithinLimit`: without an overlap, registered children and the one being counted are within the limit |
| `AuthSessionProofs!TypeCorrect` | `TypeOK` | `BoundKept`: sessions and rotations in flight are within the bound |
| `AuthSessionProofs!CookieStaysLive`, `NoRefusalWithoutCause` | `CookieLive`, `RefusedForCause` | invariant `Untroubled`, before the first fault: an answer's session is live and nobody else's, a cookie that is not live is being replaced by some call, a refresh with its cookie for itself will find it live; with `RacesSeen`: two calls that carry one cookie both count as raced |
| `DetectionProofs!MemoryIsSound` | `TypeOK` | invariant `Shape`: no link is in the store twice (`Injective`), there are at most `Max`, and no entry is more than `Skew` older than one in front of it (`InOrder`) |
| `DetectionProofs!SuppressionIsRecent` | `SuppressedIsRecent` | `_evict` stops at the first entry that has not expired; by `InOrder` nothing behind that one is older than `TTL + 2 * Skew` when it is looked up |
| `DetectionProofs!ImplementsLinkOnce` | `HandsOnce`: all of `LinkOnce`, which has no fairness | step by step: a tick ages what is remembered, `PassOver` maps to `Suppress` and `HandOver` to `Hand`, which forget at most what may be forgotten; the other steps stutter |
| `ClassifyServiceProofs!ServiceIsTyped`, `AttemptsHaveOneJob` | `TypeOK`, `OneJobPerAttempt` | invariant `OneJob`: the owners of queued jobs are distinct, so are those of running jobs, and no request owns one of each; a request waits iff it owns a job iff the breaker counts a call of it. Every end of an attempt – reply, error, time-out of a queued or of a running job – takes its request out of all of these (`AttemptEnds`) |
| `ClassifyServiceProofs!ServiceBreakerAgrees` | `B!BreakerConsistent` (proved, not run) | a step of the service is a step of the breaker in the sense of `CircuitBreakerProofs!AnyNext`, so the lemmas about the breaker apply, through `P == INSTANCE CircuitBreakerProofs` |
| `ClassifyServiceProofs!ServiceKeepsItsWord` | `PromiseSafety`: `KeepsPromise` without its fairness | invariant `SameContent`: a job that is still waited for is about what its request is about, which is no blocked word; so a verdict is one that `ClassifyPromise` allows. Answers map to `Tell` if the agent waits; attempts, retries and the pool stutter |
| `ClassifyServiceProofs!FindIsRight` | `IsLongestMatch(entries, text, Find(entries, text))` for all entries and all texts | loop invariant `Leads`: the best so far is admissible, and no admissible match seen so far is longer, or as long and further left. A match that ends later starts later too if it is as long, so the odd tie-break never has to undo a choice. It rests on two recursive functions; that they exist and equal their defining equations is shown for every `0..n` by the least counterexample (`LeastNatural`, `UpTo`, `Iterates`) |
| `ClassifyServiceProofs!FilterFindsLongest` | `FindsLongest` | an instance of `FindIsRight` for the list just swapped in; it depends on no invariant of the loads |
| `ClassifyServiceProofs!WordsAreTyped` | `WordsTypeOK` | invariant `WordsInv`: a process that is down has no connection, and without one no load holds a list it could swap in, so the filter stays empty whatever loads overlap or are cut short |
| `AuthSessionProofs!RotationReplaces` | `RotationKeepsCount` | `CountKept`: sessions that are live *or being rotated* are at most as many as logins; `CreateSession` puts the new one in the place of the rotated one, which no other call carries |

`CircuitBreakerProofs` shows its type invariant for more steps than `CircuitBreaker`
has (`AnyNext`: a call may end in any way whether or not the dependency would
answer), because a caller may time out on its own; this is what
`ClassifyServiceProofs` uses.

Only model-checked:

- Liveness, since fairness and ENABLED are outside the prover's reach: `EveryDispatchEnds`,
  `EveryConfirmationIsSent`, `EveryEventDecided`, `DeliveredOnceHealthy`,
  `StoredDespiteTelegram`,
  `SelfHealsUnlessProbeLeaks`, `EveryLinkFound`, `ServiceRecovers`,
  `FilterCatchesUp`, and that every question ends (the rest of `KeepsPromise`).

Every invariant and every safety property that a run expects to hold is also a
theorem. Of `KeepsPromise` of `ClassifyService`, `PromiseSafety` is the part proved.

The theorems about the blocked words are the last section of `ClassifyServiceProofs`:
`agent_classify` asks the filter before the model, and what an innocent link is
depends on it. That module extends `ClassifyService` and `WordsService`, which is why
the latter calls its parts `WordsInit`, `WordsNext` and so on. What the proofs take from outside the code is that the Aho-Corasick
automaton yields exactly the occurrences of the entries, ordered by their end, and
that text and entries are lower-cased alike. Induction over 0..n is done by hand
from the well-foundedness of `<` (`WFMin`), as the induction theorems of the library
take an operator as a parameter, which the provers cannot instantiate.

## 6. Where code and documentation disagree

- **The probe flag that stays** (`server/core/db_circuit_breaker.py:186`,
  `CircuitBreaker_wedge`). A probe that ends in an exception that is not recorded
  leaves the flag up, and every later call is refused.
- **The dead token that wins** (`agent/agent.py:269`, `Activation_reinstall`).
  An agent whose token is rejected says "Re-register the child from the parent
  dashboard". The new installer's setup code is then not used, because a token –
  the dead one – is in the credential store.

Noticed while modelling, not made into runs.

*Agent, confirmation.*
- One lure's age, every lure's drain (`agent/agent.py:1060`). The docstring (`:1022`)
  has "The switch must have occurred *after* the URL was first detected", but
  `_try_late_confirm` compares the recorded switch with the detection time of the
  lure just parked and then drains the whole store, so that a lure detected
  after the switch is attributed to it. `SwitchFollowsSomeLure` is what holds.
- The docstring goes on that the recorded switch "captures where the child
  *actually* went rather than wherever they happen to be right now (which may be a
  completely unrelated app opened after Discord)" (`:1020`); but the app opened after
  Discord overwrites the record (`:1360`) while the classify request is on its way.
- The scanner that `run()` starts for a game already in front
  (`agent/agent.py:1518`) is not in `_scanner_thread`, so nobody stops it: it goes on
  after the child has left the game, although scanning is for "while a recognised
  game owns the foreground" (`:19`).
- Snapshot and record of the switch are under two locks (`agent/agent.py:1343`,
  `:880`). A dispatch thread between the two finds neither; if the child is back
  in a game by its second check, a visit the agent noticed confirms nothing.
- The pending store is drained on any switch to a non-transit process, not only
  when leaving a game, although the module doc speaks of leaving the game
  (`agent/agent.py:33`).

*Agent, detection.*
- The clipboard monitor's docstring (`agent/agent.py:1234`) rules out alerts about
  links copied outside games; but the content is forgotten there (`:1245`), so a
  link that was copied before is new, and classified, when the child enters one.
  `EveryLinkFound` demands nothing of such a link.
- The comment on the frame hash (`agent/agent.py:1167`) calls another look at the
  same frame a no-op; after the time to live of an entry it would not be.
- Entries of `_TTLCache` may be out of order, since `seen` reads the clock before
  the lock; an expired entry then stays for as long as one in front of it
  (`SuppressedIsRecent` bounds this).
- A verdict that comes after the agent's 8 s is lost, and its link is remembered
  for 300 s all the same.

*Classification and breakers.*
- HALF_OPEN "must allow exactly one probe" (`server/tests/unit_tests/test_circuit_breaker.py:258`;
  the module docs say the same). But `_record_failure` does not ask whose failure it
  is (`server/classify/circuit_breaker.py:118`): a call from before the circuit
  opened fails late, the circuit is OPEN again with the flag down although the probe
  is running, and after another recovery time-out a second probe joins it. With the
  defaults of the LLM breaker (120 s a call, 60 s of recovery) there is time for it.
  States with two probes in flight are among those of `CircuitBreaker_overlaps`;
  `ProbesSpaced` is what holds.
- An OPEN circuit forwards no call "until recovery_timeout elapses"
  (`server/classify/circuit_breaker.py:5`), but the late success of a call from before
  closes it at once (`:111`).
- `find()` as a probe closes the circuit of an unreachable database
  (`server/core/db_circuit_breaker.py:185`, `server/core/database.py:16`).
- Several workers are allowed with a Redis URL (`server/core/startup.py:77`), and with
  a warning in development, but the call times stay in each process
  (`server/classify/service.py:56`): the rule does not ensure "this dict is only used
  safely" (`:53`), and the limit is multiplied by the number of workers.
- Threads that `wait_for` abandons share the process's default executor with
  everything else that uses `asyncio.to_thread`. When all of them hang in calls
  without a time-out (`server/llm/ollama_provider.py:41`), jobs time out in the queue
  and count as failures although the provider is back, against "they indicate the LLM
  daemon is unreachable or unresponsive" (`server/classify/circuit_breaker.py:8`).
- In `server/llm/nvidia_provider.py:89` the clause for `APITimeoutError` is never
  reached: it is a subclass of `APIConnectionError`, which is caught before.

*Delivery.*
- `dispatch_hop` "never raises", but its `get_user_by_id` is outside the `try`
  (`server/notifications/service.py:41`): a stored hop can be answered with an
  error, and the retry stores it again. It also says that "the caller (hop endpoint)
  is unaffected" (`:36`), but it is awaited and waits up to 10 s for Telegram: while
  Telegram hangs, the agent's 5 s strike on every attempt, each attempt stores the hop
  once more, and the agent gives up an event that the store holds
  (`StoredDespiteTelegram` is what holds). The store has no key on hops, so a lost
  answer has the same effect.

*Children and activation.*
- Two activations that both looked a code up before either consumed it are both
  served, and the first token is dead, although "the setup code is burned immediately
  so re-use returns the same 400" (`server/classify/router.py:136`).
  `NoSecondLookUp` is what holds.
- `consume_setup_code` promises that a valid code and a valid token never coexist;
  `add_child` makes a token, and the download after it a code. Consuming an old
  code also unsets a fresh one.
- There is one token per child: a second PC for a child ends the first one's.
- Installing another child's package on a PC keeps the old identity, as long as
  its token is stored.
- Renaming a child to the name it has is answered with 404; `add_child` with an
  existing id returns a token that was never stored.

*Accounts and the dashboard.*
- Logout revokes nothing: the cookie's path is `/auth/refresh`
  (`server/auth/router.py:31`), so `/auth/logout` (`:68`) does not see it, while
  `Readme.md:326` says that it is revoked. A refresh that is in flight when the
  user logs out sets the cookie again.
- Two refreshes with one cookie can both succeed and leave an orphan session; one
  that is refused clears the token the other has just obtained
  (`dashboard/src/context/AuthContext.jsx:55`).
- An answer lost after `RevokeOld` loses the session; sessions outlive a password
  reset.

*Blocked words and start-up.*
- A database that is away when the process starts leaves the pool without a client
  for good (`server/core/database.py:53`): requests end in a `RuntimeError`, where
  `server/server.py:159` announces "503 … until connectivity recovers". One that
  goes away a moment later ends the start-up, since only `RuntimeError` is caught.
- Loads that overlap may leave the older list in the filter until the next refresh.
- The tie-break of `find` (`server/words_filter.py:121`) is right only because the
  automaton reports matches by their end.

## 7. Plan

The plan is carried out: each part of the program that has state of its own and
is reached by more than one actor has a module, four of them implement an abstract
specification, and what is left to the model checker is liveness.

Runs are kept few: one passing run per module (`HopConfirm` has two), safety and
liveness together where the state space allows, and the two counterexample runs for
what leaves a system stuck until somebody intervenes.

**Not modelled and why.** Telegram linking is two operations of one handler, whose
one failure a parent repairs by asking for a new link. A password reset changes no
session, renaming a child nothing that others read. Health checks, event queries
and profiles are single reads or updates; the generation of the installer's text
and ZIP, and the pages, are presentation. The game registry and the platform table
are read from Windows and the server and enter as constants. OCR and the extraction
of URLs from text are data; a missing Tesseract ends the scanner and is assumed
not to happen. Parsing of settings is left out except for the rule on workers.
