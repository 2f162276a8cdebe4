------------------------- MODULE PersistenceManager -------------------------
(***************************************************************************)
(* The persistence manager, which connects the store of the relayer and      *)
(* keeps it connected (persistence-manager.ts), over the providers of the    *)
(* stores (postgres-provider.ts, redis-provider.ts, hybrid-provider.ts).     *)
(*                                                                         *)
(* A failure reaches the manager by two ways: connect() rejects, which       *)
(* initialize catches, and the provider's event 'error', whose handler hands *)
(* it on before it schedules a retry.  Without a listener of the manager's   *)
(* own 'error' (the relayer has none) that emit throws: out of a connect()   *)
(* it is caught on the way, out of a socket's callback nobody catches it and *)
(* the process ends.  The hybrid provider hands on the events of both        *)
(* stores and adds its own when connect() rejects.                          *)
(***************************************************************************)
EXTENDS Integers, Sequences, FiniteSets

CONSTANTS Modes,           \* kinds of store, of those the configuration knows
          MaxStoreRetries, \* maxRetries of the configuration
          MaxTroubles      \* bound: how often a store fails

ASSUME PersistenceManagerAssumption ==
    /\ Modes \subseteq {"postgres", "redis", "hybrid"}
    /\ {MaxStoreRetries, MaxTroubles} \subseteq Nat

VARIABLES
    mode,       \* the kind of store
    heard,      \* somebody listens to the manager's 'error'
    up,         \* the process runs
    phase,      \* of the manager: "new", "open", "closing", "closed"
    pool,       \* PostgreSQL's pool: "open" or "ended"
    redis,      \* the Redis client: "wait", "connecting", "ready", "lost", "end"
    attempts,   \* calls of connect(): what each store answered it
    isHealthy, storeRetries, \* fields of the manager (the second is retryCount)
    retryTimers,     \* retries scheduled and not begun
    intervals,  \* health checks that repeat
    named,      \* whether healthCheckTimer names one of them
    troubles    \* failures so far
managerVars == <<mode, heard, up, phase, pool, redis, attempts, isHealthy, storeRetries,
                 retryTimers, intervals, named, troubles>>

Stores == CASE mode = "hybrid" -> {"postgres", "redis"} [] OTHER -> {mode}

ManagerInit ==
    /\ mode \in Modes /\ heard \in BOOLEAN /\ up = TRUE /\ phase = "new"
    /\ pool = "open" /\ redis = "wait" /\ attempts = << >>
    /\ isHealthy = FALSE /\ storeRetries = 0 /\ retryTimers = 0
    /\ intervals = 0 /\ named = FALSE /\ troubles = 0

Rejected(a) == \E s \in DOMAIN a : a[s] = "failed"
Resolved(a) == \A s \in DOMAIN a : a[s] = "ok"
Pending(a)  == \E s \in DOMAIN a : a[s] = "out"

\* Schedules n retries as far as the limit allows, with t others scheduled before.
ScheduleRetries(t, n) ==
    LET left    == MaxStoreRetries - storeRetries
        allowed == IF n < left THEN n ELSE left
    IN  /\ storeRetries' = storeRetries + allowed
        /\ retryTimers' = t + allowed

\* Seeded fault: initialize leaves the retry to the handler.
FaultFailureRetries(a) ==
    IF ~heard THEN 0 ELSE IF mode = "hybrid" /\ ~Rejected(a) THEN 2 ELSE 1

\* Who schedules a retry when a store of attempt a fails: the handler of the
\* provider's event, in hybrid mode also of the one for the rejection of both,
\* and initialize itself, which is told of the first failure only.
FailureRetries(a) ==
    IF Rejected(a)
    THEN IF heard THEN 1 ELSE 0
    ELSE 1 + (IF ~heard THEN 0 ELSE IF mode = "hybrid" THEN 2 ELSE 1)

\* Attempt i becomes a; one that waits for no store any more is over.
AttemptBecomes(i, a) ==
    attempts' = IF Pending(a) THEN [attempts EXCEPT ![i] = a]
                ELSE SubSeq(attempts, 1, i - 1) \o SubSeq(attempts, i + 1, Len(attempts))

\* initialize calls connect().  A Redis client that connects or is connected
\* refuses at once, also when it reconnected by itself.
ConnectProvider(t) ==
    LET asked   == [s \in Stores |-> "out"]
        refused == "redis" \in Stores /\ redis \in {"connecting", "ready"}
        begun   == IF refused THEN [asked EXCEPT !["redis"] = "failed"] ELSE asked
    IN  /\ attempts' = IF Pending(begun) THEN Append(attempts, begun) ELSE attempts
        /\ redis' = IF "redis" \in Stores /\ ~refused THEN "connecting" ELSE redis
        /\ IF refused
           THEN isHealthy' = FALSE /\ ScheduleRetries(t, FailureRetries(asked))
           ELSE retryTimers' = t /\ UNCHANGED <<isHealthy, storeRetries>>
        /\ UNCHANGED <<mode, heard, up, pool, intervals, named, troubles>>

Initialize == phase = "new" /\ phase' = "open" /\ ConnectProvider(0)
RetryFires == retryTimers > 0 /\ ConnectProvider(retryTimers - 1) /\ UNCHANGED phase

\* Store s answers attempt i; when all have, 'connected' resets the count and
\* initialize starts an interval, whose timer takes the place of another's.
PartConnects(i, s) ==
    LET answered == [attempts[i] EXCEPT ![s] = "ok"]
    IN  /\ AttemptBecomes(i, answered)
        /\ IF Resolved(answered)
           THEN /\ isHealthy' = TRUE /\ storeRetries' = 0
                /\ intervals' = intervals + 1 /\ named' = TRUE
           ELSE UNCHANGED <<isHealthy, storeRetries, intervals, named>>
        /\ UNCHANGED retryTimers

\* Store s fails attempt i, after `events' errors of its connection.
PartFails(i, s, events) ==
    /\ AttemptBecomes(i, [attempts[i] EXCEPT ![s] = "failed"])
    /\ isHealthy' = FALSE
    /\ ScheduleRetries(retryTimers, FailureRetries(attempts[i]) + (IF heard THEN events ELSE 0))

Awaits(i, s) == s \in Stores /\ attempts[i][s] = "out"

PostgresConnects(i) ==
    /\ Awaits(i, "postgres") /\ pool = "open" /\ PartConnects(i, "postgres")
    /\ UNCHANGED <<mode, heard, up, phase, pool, redis, troubles>>

PostgresRefuses(i) ==
    /\ Awaits(i, "postgres")
    /\ IF pool = "open" THEN troubles < MaxTroubles /\ troubles' = troubles + 1
                        ELSE UNCHANGED troubles
    /\ PartFails(i, "postgres", 0)
    /\ UNCHANGED <<mode, heard, up, phase, pool, redis, intervals, named>>

\* An error that no call waits for: the handler hands it on.
ErrorEvent ==
    /\ isHealthy' = FALSE
    /\ up' = heard
    /\ ScheduleRetries(retryTimers, IF heard THEN 1 ELSE 0)

\* An idle client of the pool breaks.
PoolError ==
    /\ phase # "new" /\ "postgres" \in Stores /\ pool = "open"
    /\ troubles < MaxTroubles /\ troubles' = troubles + 1
    /\ ErrorEvent
    /\ UNCHANGED <<mode, heard, phase, pool, redis, attempts, intervals, named>>

RedisReady ==
    /\ redis = "connecting" /\ redis' = "ready"
    /\ \/ \E i \in DOMAIN attempts : Awaits(i, "redis") /\ PartConnects(i, "redis")
       \/ /\ \A i \in DOMAIN attempts : ~Awaits(i, "redis")
          /\ UNCHANGED <<attempts, isHealthy, storeRetries, retryTimers, intervals, named>>
    /\ UNCHANGED <<mode, heard, up, phase, pool, troubles>>

\* The connection to Redis breaks, with an 'error' of its own or just closed.
RedisBreaks(withError) ==
    /\ redis \in {"connecting", "ready"} /\ redis' = "lost"
    /\ troubles < MaxTroubles /\ troubles' = troubles + 1
    /\ \/ \E i \in DOMAIN attempts :
              /\ Awaits(i, "redis") /\ (heard \/ ~withError)
              /\ PartFails(i, "redis", IF withError THEN 1 ELSE 0) /\ UNCHANGED up
       \/ /\ withError /\ (~heard \/ \A i \in DOMAIN attempts : ~Awaits(i, "redis"))
          /\ ErrorEvent /\ UNCHANGED attempts
       \/ /\ ~withError /\ \A i \in DOMAIN attempts : ~Awaits(i, "redis")
          /\ UNCHANGED <<up, attempts, isHealthy, storeRetries, retryTimers>>
    /\ UNCHANGED <<mode, heard, phase, pool, intervals, named>>

RedisReconnects ==
    /\ redis = "lost" /\ redis' = "connecting"
    /\ UNCHANGED <<mode, heard, up, phase, pool, attempts, isHealthy, storeRetries,
                   retryTimers, intervals, named, troubles>>

\* Every store answers a ping.
Reachable == ("postgres" \in Stores => pool = "open") /\ ("redis" \in Stores => redis = "ready")

\* An interval's check or one that was asked for; a write that fails (in
\* executeWithMetrics) is the same step as a check without an answer.
PerformHealthCheck(answer) ==
    /\ phase # "new" /\ (answer => Reachable)
    /\ isHealthy' = answer
    /\ UNCHANGED <<mode, heard, up, phase, pool, redis, attempts, storeRetries,
                   retryTimers, intervals, named, troubles>>

\* shutdown clears the interval it knows of and asks the stores to end; the
\* retries that are scheduled stay.
ShutdownManager ==
    /\ phase = "open" /\ phase' = "closing"
    /\ pool' = IF "postgres" \in Stores THEN "ended" ELSE pool
    /\ intervals' = intervals - (IF named THEN 1 ELSE 0) /\ named' = FALSE
    /\ UNCHANGED <<mode, heard, up, redis, attempts, isHealthy, storeRetries, retryTimers, troubles>>

ShutdownEnds ==
    /\ phase = "closing" /\ phase' = "closed" /\ isHealthy' = FALSE
    /\ \A i \in DOMAIN attempts : ~Awaits(i, "redis")
    /\ redis' = IF "redis" \in Stores THEN "end" ELSE redis
    /\ UNCHANGED <<mode, heard, up, pool, attempts, storeRetries, retryTimers, intervals,
                   named, troubles>>

\* quit() of a Redis client without a connection rejects.
ShutdownFails ==
    /\ phase = "closing" /\ "redis" \in Stores /\ redis # "ready" /\ phase' = "closed"
    /\ UNCHANGED <<mode, heard, up, pool, redis, attempts, isHealthy, storeRetries, retryTimers,
                   intervals, named, troubles>>

ManagerNext ==
    /\ up
    /\ \/ Initialize \/ RetryFires \/ PoolError
       \/ \E i \in DOMAIN attempts : PostgresConnects(i) \/ PostgresRefuses(i)
       \/ RedisReady \/ RedisReconnects
       \/ \E b \in BOOLEAN : RedisBreaks(b) \/ PerformHealthCheck(b)
       \/ ShutdownManager \/ ShutdownEnds \/ ShutdownFails

ManagerSpec == ManagerInit /\ [][ManagerNext]_managerVars
-----------------------------------------------------------------------------
\* However failures, retries and lost connections meet, a manager that was not
\* shut down watches its store, tries to connect it or has used up its retries:
\* no failure falls between initialize and the handler of the event.  Where
\* nobody hears the errors, as in the relayer, it does so once: there is one
\* interval, one retry or one attempt, and never a second that shutdown misses.
KeepsTrying ==
    LET trying == Cardinality({i \in DOMAIN attempts : ~Rejected(attempts[i])})
    IN  up /\ phase = "open" =>
            /\ intervals + retryTimers + trying > 0 \/ storeRetries = MaxStoreRetries
            /\ heard \/ intervals + retryTimers + trying <= 1
=============================================================================
