------------------------------ MODULE QueryCache ------------------------------
(***************************************************************************)
(* The answers to one query of one data source, as the processes cache     *)
(* them: in Redis and in a copy of their own memory (FallbackCache).  An   *)
(* answer is the version of the data it was computed from; 0 is no answer. *)
(***************************************************************************)
EXTENDS Naturals

CONSTANTS
    Procs,     \* processes of the application, each with its memory
    Readers,   \* requests that run at a time
    MaxData    \* bound: versions of the data

ASSUME CacheAssumption == MaxData \in Nat \ {0} /\ Procs # {}

Versions == 0 .. MaxData

VARIABLES
    data,     \* version of the data behind the source
    redisUp,
    redis,    \* the entry in Redis
    memory,   \* memory[p]: the entry of InMemoryCacheRepository._store
    reader,   \* what each request does
    cleared   \* ghost: version of the data at p's last clear that reached all there was

cacheVars == <<data, redisUp, redis, memory, reader, cleared>>

NoReader == [pc |-> "idle", proc |-> CHOOSE p \in Procs : TRUE, forced |-> FALSE, val |-> 0]

\* An answer is of data there was, however the request ended up with it.
CacheTypeOK ==
    /\ data \in Versions \ {0} /\ redisUp \in BOOLEAN
    /\ redis \in 0 .. data /\ memory \in [Procs -> 0 .. data]
    /\ reader \in [Readers -> [pc : {"idle", "run", "ran"}, proc : Procs,
                               forced : BOOLEAN, val : 0 .. data]]
    /\ cleared \in [Procs -> 0 .. data]
    /\ \A r \in Readers : reader[r].pc = "ran" <=> reader[r].val # 0

CacheInit ==
    /\ data = 1 /\ redisUp = TRUE /\ redis = 0 /\ memory = [p \in Procs |-> 0]
    /\ reader = [r \in Readers |-> NoReader]
    /\ cleared = [p \in Procs |-> 0]

-----------------------------------------------------------------------------
\* FallbackCacheRepository.get: Redis first, and the copy in memory when it has
\* nothing or does not answer.
Cached(p) == IF redisUp /\ redis # 0 THEN redis ELSE memory[p]

\* execute_chart_query.  A hit is the answer and leaves everything as it was; a
\* forced request does not look.
Ask(r, p, forced) ==
    /\ reader[r].pc = "idle"
    /\ forced \/ Cached(p) = 0
    /\ reader' = [reader EXCEPT ![r] = [pc |-> "run", proc |-> p, forced |-> forced, val |-> 0]]
    /\ UNCHANGED <<data, redisUp, redis, memory, cleared>>

\* The SQL runs in a thread; it may fail, and the request with it.
\* Mutation: a failure is kept as an empty answer.
Failed_stored(r) == [reader EXCEPT ![r].pc = "ran"]
Failed(r) == [reader EXCEPT ![r] = NoReader]
RunSql(r) ==
    /\ reader[r].pc = "run"
    /\ reader' \in {[reader EXCEPT ![r].pc = "ran", ![r].val = data], Failed(r)}
    /\ UNCHANGED <<data, redisUp, redis, memory, cleared>>

\* The request goes on when the loop comes back to it: FallbackCache.set writes
\* both, unless it was forced.
Store(r) ==
    /\ reader[r].pc = "ran"
    /\ reader' = [reader EXCEPT ![r] = NoReader]
    /\ IF reader[r].forced THEN UNCHANGED <<redis, memory>>
       ELSE /\ redis' = IF redisUp THEN reader[r].val ELSE redis
            /\ memory' = [memory EXCEPT ![reader[r].proc] = reader[r].val]
    /\ UNCHANGED <<data, redisUp, cleared>>

\* The data changes: rows of an attached database, or a synchronised source,
\* which clears nothing.
DataChange ==
    /\ data < MaxData /\ data' = data + 1
    /\ UNCHANGED <<redisUp, redis, memory, reader, cleared>>

\* update_schema and delete of a data source: the queries of the source are
\* removed from Redis and from this process.  The clear reaches everything when
\* Redis answers and no request is about to store what it computed before.
\* Mutation: only Redis is cleared.
ClearedMemory_kept(p) == memory
ClearedMemory(p) == [memory EXCEPT ![p] = 0]
Reaches ==
    redisUp /\ \A r \in Readers :
                  reader[r].pc = "ran" /\ ~reader[r].forced => reader[r].val = data
Clear(p) ==
    /\ redis' = IF redisUp THEN 0 ELSE redis
    /\ memory' = ClearedMemory(p)
    /\ cleared' = IF Reaches THEN [cleared EXCEPT ![p] = data] ELSE cleared
    /\ UNCHANGED <<data, redisUp, reader>>

\* setex.  The copy in memory is set without an expiry and has none.
KeyExpires ==
    /\ redis # 0 /\ redis' = 0
    /\ UNCHANGED <<data, redisUp, memory, reader, cleared>>

Outage ==
    /\ redisUp' = ~redisUp
    /\ UNCHANGED <<data, redis, memory, reader, cleared>>

ProcessRestart(p) ==
    /\ memory' = [memory EXCEPT ![p] = 0]
    /\ reader' = [r \in Readers |-> IF reader[r].proc = p THEN NoReader ELSE reader[r]]
    /\ UNCHANGED <<data, redisUp, redis, cleared>>

CacheNext ==
    \/ \E r \in Readers :
          \/ \E p \in Procs, forced \in BOOLEAN : Ask(r, p, forced)
          \/ RunSql(r) \/ Store(r)
    \/ \E p \in Procs : Clear(p) \/ ProcessRestart(p)
    \/ DataChange \/ KeyExpires \/ Outage

CacheSpec == CacheInit /\ [][CacheNext]_cacheVars

-----------------------------------------------------------------------------
\* After a process cleared a source with Redis at hand and no older answer on its
\* way, its queries never show data from before the clear, through outages,
\* expiries, restarts and what the other processes kept (_invalidate_query_cache):
\* neither what is found nor what will be stored is older.
ClearedHere ==
    \A p \in Procs :
        /\ Cached(p) # 0 => Cached(p) >= cleared[p]
        /\ \A r \in Readers : reader[r].pc = "ran" /\ ~reader[r].forced
                                 => reader[r].val >= cleared[p]
=============================================================================
