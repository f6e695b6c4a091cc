---------------------------- MODULE LearningCache ----------------------------
(***************************************************************************)
(* The table learning_cache (SqliteLearningCacheStore), which the engine     *)
(* writes: record_choice reads the clock, waits for the mutex of the         *)
(* connection, then upserts, counts and evicts in statements of their own.   *)
(***************************************************************************)
EXTENDS Database

CONSTANTS
    Picks,          \* pairs of a kana input and the kanji chosen for it
    CacheMaxRows,   \* LEARNING_CACHE_MAX_ROWS
    EvictLimits,    \* the arguments evict_lru is called with
    MaxClock        \* bound of the clock, in seconds

ASSUME CacheAssumption ==
    /\ Picks # {}
    /\ CacheMaxRows \in Nat \ {0}
    /\ EvictLimits \subseteq Nat
    /\ MaxClock \in Nat

VARIABLES
    cache,          \* the rows
    cacheId,        \* sqlite_sequence: the greatest id ever given
    clock,          \* the wall clock
    call,           \* the engine's call: what it records, when, its limit, its excess
    steppedBack,    \* history: the clock was set back
    lapses          \* history: calls that stopped between upsert and eviction

cacheVars == <<cache, cacheId, clock, call, steppedBack, lapses>>

Times == 0..MaxClock
CacheRows == [id : Nat \ {0}, key : Picks, frequency : Nat \ {0}, used : Times]
Calls == [records : BOOLEAN, key : Picks, now : Times, limit : Nat, excess : Nat]

CacheInit ==
    /\ cache = {}
    /\ cacheId = 0
    /\ clock = 0
    /\ call = [records |-> FALSE, key |-> CHOOSE k \in Picks : TRUE,
               now |-> 0, limit |-> 0, excess |-> 0]
    /\ steppedBack = FALSE
    /\ lapses = 0

\* record_choice up to lock_conn.
RecordChoice(k) ==
    /\ at[Engine] = "idle"
    /\ Goes(Engine, "stamped")
    /\ call' = [records |-> TRUE, key |-> k, now |-> clock, limit |-> CacheMaxRows, excess |-> 0]
    /\ UNCHANGED <<cache, cacheId, clock, steppedBack, lapses>>

RowsOf(k) == {r \in cache : r.key = k}

NewChoice ==
    [id |-> cacheId + 1, key |-> call.key, frequency |-> 1, used |-> call.now]

\* Mutant: the time of the first choice stays.
OnlyCounted(r) == [r EXCEPT !.frequency = @ + 1]

ChosenAgain(r) == [r EXCEPT !.frequency = @ + 1, !.used = call.now]

\* UPSERT_SQL.
Upsert ==
    /\ at[Engine] = "stamped"
    /\ Goes(Engine, "counting")
    /\ IF RowsOf(call.key) = {}
       THEN cache' = cache \cup {NewChoice} /\ cacheId' = cacheId + 1
       ELSE /\ cache' = (cache \ RowsOf(call.key)) \cup {ChosenAgain(r) : r \in RowsOf(call.key)}
            /\ UNCHANGED cacheId
    /\ UNCHANGED <<clock, call, steppedBack, lapses>>

EvictLru(limit) ==
    /\ at[Engine] = "idle"
    /\ Goes(Engine, "counting")
    /\ call' = [call EXCEPT !.records = FALSE, !.limit = limit, !.excess = 0]
    /\ UNCHANGED <<cache, cacheId, clock, steppedBack, lapses>>

\* A call that reached its limit made up for all that lapsed before.
Repaired == IF call.limit <= CacheMaxRows THEN 0 ELSE lapses

\* Mutant: the row beyond the limit is not counted.
TooMany(total) == total > call.limit + 1

\* evict_to_cap looks for an excess of rows.
BeyondLimit(total) == total > call.limit

\* evict_to_cap, COUNT_SQL.
Counts ==
    /\ at[Engine] = "counting"
    /\ IF BeyondLimit(Cardinality(cache))
       THEN /\ Goes(Engine, "evicting")
            /\ call' = [call EXCEPT !.excess = Cardinality(cache) - call.limit]
            /\ UNCHANGED lapses
       ELSE /\ Goes(Engine, "idle")
            /\ lapses' = Repaired
            /\ UNCHANGED call
    /\ UNCHANGED <<cache, cacheId, clock, steppedBack>>

\* The order of EVICT_SQL.
Older(r, s) == r.used < s.used \/ (r.used = s.used /\ r.id < s.id)

\* The n rows that were used the longest ago.
Victims(n) == {r \in cache : Cardinality({s \in cache : Older(s, r)}) < n}

\* evict_to_cap, EVICT_SQL.
Evicts ==
    /\ at[Engine] = "evicting"
    /\ cache' = cache \ Victims(call.excess)
    /\ Goes(Engine, "idle")
    /\ lapses' = Repaired
    /\ UNCHANGED <<cacheId, clock, call, steppedBack>>

\* A statement fails, and with it the call: what ran before it stays.  Also
\* the end of the process in the middle of a call.
CallLapses ==
    /\ lapses' = IF at[Engine] \in {"counting", "evicting"} /\ call.records
                 THEN lapses + 1 ELSE lapses
    /\ UNCHANGED <<cache, cacheId, clock, call, steppedBack>>

Ticks ==
    /\ clock < MaxClock
    /\ clock' = clock + 1
    /\ UNCHANGED <<cache, cacheId, call, steppedBack, lapses>>

\* The clock is set back; for a time before the epoch record_choice takes 0.
StepsBack ==
    /\ clock > 0
    /\ clock' = clock - 1
    /\ steppedBack' = TRUE
    /\ UNCHANGED <<cache, cacheId, call, lapses>>

-----------------------------------------------------------------------------

CacheTypeOK ==
    /\ cache \subseteq CacheRows
    /\ cacheId \in Nat
    /\ clock \in Times
    /\ call \in Calls
    /\ steppedBack \in BOOLEAN
    /\ lapses \in Nat

InCall == IF at[Engine] \in {"counting", "evicting"} /\ call.records THEN 1 ELSE 0

\* The cache exceeds its limit only by the call in progress and by calls that
\* failed or died between their upsert and their eviction, and the next call
\* that ends well makes up for all of those (record_choice, evict_to_cap).
CacheBounded == Cardinality(cache) <= CacheMaxRows + lapses + InCall

\* A choice that was recorded is in the cache with its time when the call
\* returns, unless the clock was set back or an earlier call lapsed: it is
\* never itself the row that its own eviction takes (record_choice).
Kept ==
    (Counts \/ Evicts) /\ call.records /\ at'[Engine] = "idle" /\ ~ steppedBack /\ lapses = 0 =>
        \E r \in cache' : r.key = call.key /\ r.used >= call.now
=============================================================================
