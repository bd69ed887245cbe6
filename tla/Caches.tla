------------------------------- MODULE Caches --------------------------------
(***************************************************************************)
(* What a process remembers of three tables: settings                      *)
(* (src/services/settings.js), send_schedule (src/services/                *)
(* send-schedule.js) and blacklist_patterns (src/services/blacklist.js),   *)
(* with the admin handlers that write them.                                *)
(*                                                                         *)
(* The settings are read in the background, one read at a time, and served *)
(* meanwhile; the other two are read by whoever finds them missing or old, *)
(* and thrown away by a write.  The tables do not interact: a behaviour    *)
(* follows one of them and one process, others only write.  A value is the *)
(* number of writes it has seen.                                           *)
(***************************************************************************)
EXTENDS Integers, FiniteSets

CONSTANTS
    Reader,     \* calls that read the table
    MaxWrites   \* bound: writes of the table

ASSUME CacheConstants == IsFiniteSet(Reader) /\ MaxWrites \in Nat

Missing == -1

VARIABLES
    table,      \* the one this behaviour follows
    stored,     \* its value
    cached,     \* the variable of the module, or Missing
    old,        \* the age has passed 60 s (5 min for the patterns), or was set to 0
    loaded,     \* the flag of settings.js
    reader,     \* a SELECT under way, and its answer
    writer,     \* writes of this process that have not touched the cache yet
    over,       \* history: the newest write of this process that is over
    least       \* history: what was over when the cached value was asked for

cacheVars == <<table, stored, cached, old, loaded, reader, writer, over, least>>

\* since: history, what was over when the SELECT was issued.
CacheTypeOK ==
    /\ table \in {"settings", "schedule", "patterns"}
    /\ stored \in 0..MaxWrites /\ over \in 0..MaxWrites /\ least \in 0..MaxWrites
    /\ cached \in Missing..MaxWrites
    /\ old \in BOOLEAN /\ loaded \in BOOLEAN
    /\ reader \in [Reader -> [pc : {"rest", "asked", "told"},
                              value : 0..MaxWrites, since : 0..MaxWrites]]
    /\ writer \subseteq 1..MaxWrites

Resting == [pc |-> "rest", value |-> 0, since |-> 0]

\* After loadSettings of start(), which goes on when the settings cannot be read.
CacheInit ==
    /\ table \in {"settings", "schedule", "patterns"}
    /\ stored = 0 /\ over = 0 /\ least = 0
    /\ loaded \in IF table = "settings" THEN BOOLEAN ELSE {TRUE}
    /\ cached = IF table = "settings" /\ loaded THEN 0 ELSE Missing
    /\ old = FALSE
    /\ reader = [r \in Reader |-> Resting]
    /\ writer = {}

-----------------------------------------------------------------------------
Newer(m, n) == IF m < n THEN n ELSE m

\* Mutated forms of the operators below.
MayLoadOnce == cached = Missing
LeftByWrite(n) == cached

\* getSetting; getSchedule and getActivePatterns
MayLoad ==
    IF table = "settings" THEN loaded /\ old /\ \A r \in Reader : reader[r] = Resting
    ELSE cached = Missing \/ old

\* cache[key] = value; clearScheduleCache, clearPatternCache
AfterWrite(n) == IF table = "settings" THEN n ELSE Missing

-----------------------------------------------------------------------------
StartLoad(r) ==
    /\ reader[r] = Resting /\ MayLoad
    /\ reader' = [reader EXCEPT ![r].pc = "asked", ![r].since = over]
    /\ UNCHANGED <<table, stored, cached, old, loaded, writer, over, least>>

AnswerLoad(r) ==
    /\ reader[r].pc = "asked"
    /\ reader' = [reader EXCEPT ![r].pc = "told", ![r].value = stored]
    /\ UNCHANGED <<table, stored, cached, old, loaded, writer, over, least>>

\* The rows replace what was there.
FinishLoad(r) ==
    /\ reader[r].pc = "told"
    /\ cached' = reader[r].value /\ old' = FALSE /\ loaded' = TRUE
    /\ least' = reader[r].since
    /\ reader' = [reader EXCEPT ![r] = Resting]
    /\ UNCHANGED <<table, stored, writer, over>>

\* No answer: the caller of a schedule or of the patterns gets an empty list
\* and the cache stays; the settings are marked as not loaded.
FailLoad(r) ==
    /\ reader[r].pc # "rest"
    /\ loaded' = (table # "settings")
    /\ reader' = [reader EXCEPT ![r] = Resting]
    /\ UNCHANGED <<table, stored, cached, old, writer, over, least>>

Expire ==
    /\ ~old /\ cached # Missing
    /\ old' = TRUE
    /\ UNCHANGED <<table, stored, cached, loaded, reader, writer, over, least>>

\* A handler of this process, or of another, writes the table, ...
StoreValue(here) ==
    /\ stored < MaxWrites
    /\ stored' = stored + 1
    /\ writer' = IF here THEN writer \cup {stored + 1} ELSE writer
    /\ UNCHANGED <<table, cached, old, loaded, reader, over, least>>

\* ... and this one touches its cache when the statement is answered.
TouchCache(n) ==
    /\ n \in writer
    /\ cached' = AfterWrite(n) /\ old' = TRUE
    /\ least' = n
    /\ over' = Newer(over, n)
    /\ writer' = writer \ {n}
    /\ UNCHANGED <<table, stored, loaded, reader>>

-----------------------------------------------------------------------------
CacheNext ==
    \/ \E r \in Reader : StartLoad(r) \/ AnswerLoad(r) \/ FinishLoad(r) \/ FailLoad(r)
    \/ Expire \/ \E here \in BOOLEAN : StoreValue(here)
    \/ \E n \in 1..MaxWrites : TouchCache(n)

CacheSpec == CacheInit /\ [][CacheNext]_cacheVars

-----------------------------------------------------------------------------
\* What a call may be given.  The settings are served whatever their age.
Serves(n) == cached = n /\ (table = "settings" \/ ~old)

\* A process sees its own writes: what it serves is no older than the newest
\* write of its own that was over when it asked for it.  An administrator who was
\* answered finds the change, unless a SELECT issued before brings the old rows or
\* an earlier write of the same process is answered later.
OwnWriteSeen == \A n \in 0..MaxWrites : Serves(n) => n >= least

\* When nobody writes any more the process stops serving what is not stored,
\* unless one failed read has frozen its settings.
CacheCatchesUp == <>[]((\A n \in 0..MaxWrites : Serves(n) => n = stored) \/ ~loaded)
=============================================================================
