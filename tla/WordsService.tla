---------------------------- MODULE WordsService ----------------------------
(***************************************************************************)
(* The blocked words: the collection in MongoDB, the filter that every     *)
(* classify request uses, and the loads that bring the one into the other: *)
(* at start-up (lifespan), after each change by a handler, and by a        *)
(* periodic task.  A load reads the list and swaps the filter in two       *)
(* steps, without a lock, in a thread of its own.                          *)
(*                                                                         *)
(* Faults: the database comes and goes, the server crashes and is started  *)
(* again; its connection is made when the process starts, or never.        *)
(*                                                                         *)
(* ClassifyServiceProofs extends ClassifyService and this module, hence    *)
(* the names WordsInit, WordsNext and so on.                               *)
(***************************************************************************)
EXTENDS WordsFilter, FiniteSets

CONSTANTS
  Entries,  \* entries the list may hold
  Seeds,    \* those of the Excel file
  Texts,    \* texts the filter is asked about
  Handlers, \* requests to /api/words in progress at a time
  Refresh   \* the periodic task

ASSUME WordsAssumption ==
  /\ Seeds \subseteq Entries /\ Refresh \notin Handlers
  /\ Texts \subseteq Seq(Characters)

Loaders == Handlers \cup {Refresh}

VARIABLES
  words,     \* the collection
  database,  \* whether operations get through: MongoDB answers and its
             \* circuit is not open
  server,    \* "down", "indexes", "seed", "load" (lifespan), "up"
  connected, \* the pool has a client (_db is not None)
  filter,    \* entries of _filter
  job        \* a load: its next step, and the list it has read

wordsVars == <<words, database, server, connected, filter, job>>

NoLoad == [pc |-> "idle", list |-> {}]
AllIdle == [l \in Loaders |-> NoLoad]

WordsInit ==
  /\ words = {} /\ database \in BOOLEAN
  /\ server = "down" /\ connected = FALSE
  /\ filter = {} /\ job = AllIdle

Ok_NoClientCheck == database \* faulty: get_collection does not check _db
Ok == connected /\ database

-----------------------------------------------------------------------------
DatabaseChanges ==
  /\ database' = ~database
  /\ UNCHANGED <<words, server, connected, filter, job>>

Down == server' = "down" /\ connected' = FALSE /\ filter' = {} /\ job' = AllIdle

Crash == server # "down" /\ Down /\ UNCHANGED <<words, database>>

(* MongoClient and its ping: the module is imported.                       *)
ConnectPool ==
  /\ server = "down"
  /\ server' = "indexes" /\ connected' = database
  /\ UNCHANGED <<words, database, filter, job>>

(* A pool without a client raises RuntimeError, which lifespan catches;    *)
(* any other failure of the database ends the start-up.                    *)
InitializeIndexes ==
  /\ server = "indexes"
  /\ IF connected /\ ~database THEN Down
     ELSE /\ server' = IF connected THEN "seed" ELSE "load"
          /\ UNCHANGED <<connected, filter, job>>
  /\ UNCHANGED <<words, database>>

(* A bulk write that fails half-way is swallowed.                          *)
SeedIfEmpty ==
  /\ server = "seed"
  /\ IF ~database THEN Down /\ UNCHANGED words
     ELSE /\ words' \in IF words = {} THEN SUBSET Seeds ELSE {words}
          /\ server' = "load"
          /\ UNCHANGED <<connected, filter, job>>
  /\ UNCHANGED database

FirstLoad ==
  /\ server = "load"
  /\ filter' = IF Ok THEN words ELSE filter
  /\ server' = "up"
  /\ UNCHANGED <<words, database, connected, job>>

-----------------------------------------------------------------------------
(* The handlers.  A write that fails is an error for the client and no     *)
(* load; a word that is there already, or was not, is loaded all the same. *)
Loads(l) == job' = [job EXCEPT ![l].pc = "read"]

CreateWord(h, w) ==
  /\ server = "up" /\ job[h] = NoLoad /\ Ok
  /\ words' = words \cup {w} /\ Loads(h)
  /\ UNCHANGED <<database, server, connected, filter>>

DeleteWord(h, w) ==
  /\ server = "up" /\ job[h] = NoLoad /\ Ok
  /\ words' = words \ {w} /\ Loads(h)
  /\ UNCHANGED <<database, server, connected, filter>>

(* The write took effect, but the database or the connection failed before *)
(* it was acknowledged: the handler raises, and loads nothing.             *)
WriteUnacknowledged(h, w) ==
  /\ server = "up" /\ job[h] = NoLoad /\ Ok
  /\ words' \in {words \cup {w}, words \ {w}}
  /\ UNCHANGED <<database, server, connected, filter, job>>

ReloadWords(h) ==
  /\ server = "up" /\ job[h] = NoLoad /\ Loads(h)
  /\ UNCHANGED <<words, database, server, connected, filter>>

(* The task sleeps, then waits for its load to end.                        *)
RefreshTimer ==
  /\ server = "up" /\ job[Refresh] = NoLoad /\ Loads(Refresh)
  /\ UNCHANGED <<words, database, server, connected, filter>>

(* load_blocked_words: an exception is logged, the filter stays.           *)
AfterFailure_Raised(l) == \* faulty: it escapes, and ends the task
  IF l = Refresh THEN [NoLoad EXCEPT !.pc = "ended"] ELSE NoLoad
AfterFailure(l) == NoLoad

ReadWords(l) ==
  /\ job[l].pc = "read"
  /\ job' = [job EXCEPT ![l] = IF Ok THEN [pc |-> "swap", list |-> words]
                               ELSE AfterFailure(l)]
  /\ UNCHANGED <<words, database, server, connected, filter>>

SwapFilter(l) ==
  /\ job[l].pc = "swap"
  /\ filter' = job[l].list
  /\ job' = [job EXCEPT ![l] = NoLoad]
  /\ UNCHANGED <<words, database, server, connected>>

WordsNext ==
  \/ DatabaseChanges \/ Crash \/ ConnectPool
  \/ InitializeIndexes \/ SeedIfEmpty \/ FirstLoad
  \/ \E h \in Handlers : \/ ReloadWords(h)
                         \/ \E w \in Entries : \/ CreateWord(h, w) \/ DeleteWord(h, w)
                                                \/ WriteUnacknowledged(h, w)
  \/ RefreshTimer
  \/ \E l \in Loaders : ReadWords(l) \/ SwapFilter(l)

(* The timer fires, and threads run.                                       *)
WordsFairness ==
  /\ WF_wordsVars(RefreshTimer)
  /\ \A l \in Loaders : WF_wordsVars(ReadWords(l)) /\ WF_wordsVars(SwapFilter(l))

WordsSpec == WordsInit /\ [][WordsNext]_wordsVars /\ WordsFairness

-----------------------------------------------------------------------------
(* Types; nothing is loaded without a connection, and no load outlives the *)
(* process (DatabasePool, load_blocked_words).                             *)
WordsTypeOK ==
  /\ words \subseteq Entries /\ database \in BOOLEAN
  /\ server \in {"down", "indexes", "seed", "load", "up"}
  /\ connected \in BOOLEAN /\ filter \subseteq Entries
  /\ job \in [Loaders -> [pc : {"idle", "read", "swap"}, list : SUBSET Entries]]
  /\ ~connected => filter = {}
  /\ server # "up" => job = AllIdle

(* Whatever list gets into the filter, a text is reported for the longest  *)
(* entry in it, of equally long ones the first, and an ASCII word only     *)
(* where it stands alone (find, with its unusual tie-break).               *)
FindsLongest ==
  [][filter' # filter =>
       \A t \in Texts : IsLongestMatch(filter', t, Find(filter', t))]_filter

(* Loads that overlap may leave an old list in the filter, and loads fail  *)
(* while the database is away; but if a connected server stays up, and the *)
(* database stays with it, the filter ends up being the list.              *)
FilterCatchesUp ==
  (<>[](server = "up" /\ Ok) /\ <>[][UNCHANGED words]_words)
  => <>[](filter = words)
=============================================================================
