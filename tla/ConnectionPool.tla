--------------------------- MODULE ConnectionPool ---------------------------
(***************************************************************************)
(* BaseConnectionPool of libs/connection-pool/src/base-pool.ts, with what    *)
(* the Ethereum and Cosmos pools add: callers who take a connection to an   *)
(* endpoint and give it back, a timer that closes idle ones, another that   *)
(* tests the endpoints, and start and stop.                                 *)
(*                                                                         *)
(* The lists of connections are JavaScript arrays.  Whoever awaits something *)
(* goes on with the array it had read before, whatever array has taken its   *)
(* place in the map since, so arrays have names here: their numbers.         *)
(* An action is what runs between two awaits.  Which healthy endpoint a call *)
(* gets, and which idle connections are old enough to go, is left open.      *)
(***************************************************************************)
EXTENDS Integers, Sequences, FiniteSets

CONSTANTS
    Callers, Endpoints,
    Cleaners,           \* names of the runs of cleanupIdleConnections
    MaxConnections,     \* config.maxConnections, of an endpoint
    Prewarmed,          \* connections opened per endpoint on start
    BreakerThreshold,   \* config.circuitBreakerThreshold
    None,
    MaxOpened, MaxArrays, MaxStarts  \* bounds: connections ever opened, arrays, starts

VARIABLES
    poolRunning,
    arrays,      \* the arrays made so far, as the sets of their connections
    current,     \* per endpoint: the array in the map, None if there is none
    conns,       \* the connections opened so far: state and endpoint
    inUse,       \* the connections marked as used
    caller,      \* per caller: where it is, and its array or connection
    prewarming,  \* per endpoint: connections being opened by start
    starts,      \* calls of start so far, and those that wait for their connections
    stopping,    \* calls of stop that have closed what was there and not yet cleared
                 \* the map
    timers,      \* intervals that fire, and whether the fields hold the last ones
    cleaner,     \* per run: the endpoint, its array, what it has kept and not yet seen
    healthy, errors

poolVars == <<poolRunning, arrays, current, conns, inUse, caller, prewarming, starts, stopping,
              timers, cleaner, healthy, errors>>

ASSUME PoolAssumption ==
    /\ IsFiniteSet(Callers) /\ IsFiniteSet(Endpoints)
    /\ MaxConnections \in Nat \ {0} /\ Prewarmed \in Nat
    /\ None \notin Nat

Idle(c) == c \notin inUse
BreakerOpen(e) == errors[e] >= BreakerThreshold
Content(a) == IF a = None THEN {} ELSE arrays[a]
OutOfPool == [at |-> "out"]
NotCleaning == [at |-> None]

PoolInit ==
    /\ poolRunning = FALSE
    /\ arrays = [n \in 1 .. Cardinality(Endpoints) |-> {}]
    /\ current \in [Endpoints -> 1 .. Cardinality(Endpoints)]
    /\ \A e, f \in Endpoints : current[e] = current[f] => e = f
    /\ conns = <<>> /\ inUse = {}
    /\ caller = [p \in Callers |-> OutOfPool]
    /\ prewarming = [e \in Endpoints |-> 0]
    /\ starts = [made |-> 0, waiting |-> 0] /\ stopping = 0
    /\ timers = [firing |-> 0, held |-> FALSE]
    /\ cleaner = [k \in Cleaners |-> NotCleaning]
    /\ healthy = [e \in Endpoints |-> TRUE]
    /\ errors = [e \in Endpoints |-> 0]
-----------------------------------------------------------------------------
\* A connection to e is opened, with the next number.
Opens(e) == Len(conns) < MaxOpened /\ conns' = Append(conns, [state |-> "open", to |-> e])
New == Len(conns) + 1
Closed(c) == conns' = [conns EXCEPT ![c].state = "closed"]

\* recordError: the count never falls and the breaker never closes.
RecordError(e) ==
    errors' = [errors EXCEPT ![e] = IF @ < BreakerThreshold THEN @ + 1 ELSE @]

\* start and the connections it opens: stop may come before they are there.
PoolStart ==
    /\ ~poolRunning /\ starts.made < MaxStarts
    /\ poolRunning' = TRUE
    /\ prewarming' = [e \in Endpoints |-> prewarming[e] + Prewarmed]
    /\ starts' = [made |-> starts.made + 1, waiting |-> starts.waiting + 1]
    /\ UNCHANGED <<arrays, current, conns, inUse, caller, stopping, timers, cleaner, healthy, errors>>

\* The new connection goes into the array of this moment.
Prewarm(e) ==
    /\ prewarming[e] > 0
    /\ prewarming' = [prewarming EXCEPT ![e] = @ - 1]
    /\ \/ /\ Opens(e) /\ UNCHANGED errors
          /\ IF current[e] = None
             THEN /\ Len(arrays) < MaxArrays
                  /\ arrays' = Append(arrays, {New})
                  /\ current' = [current EXCEPT ![e] = Len(arrays) + 1]
             ELSE /\ arrays' = [arrays EXCEPT ![current[e]] = @ \cup {New}]
                  /\ UNCHANGED current
       \/ RecordError(e) /\ UNCHANGED <<arrays, current, conns>>
    /\ UNCHANGED <<poolRunning, inUse, caller, starts, stopping, timers, cleaner, healthy>>

\* The timers are started without a look at isRunning, over those of an
\* earlier start that are still there.
Prewarmings ==
    /\ starts.waiting > 0 /\ \A e \in Endpoints : prewarming[e] = 0
    /\ starts' = [starts EXCEPT !.waiting = @ - 1]
    /\ timers' = [firing |-> timers.firing + 1, held |-> TRUE]
    /\ UNCHANGED <<poolRunning, arrays, current, conns, inUse, caller, prewarming,
                   stopping, cleaner, healthy, errors>>

\* stop and closeAllConnections: whatever is in the map is closed at once, used
\* or not, and stays there until the map is cleared, some awaits later.
PoolStop ==
    /\ poolRunning
    /\ poolRunning' = FALSE
    /\ timers' = [firing |-> IF timers.held THEN timers.firing - 1 ELSE timers.firing,
                  held |-> FALSE]
    /\ conns' = [c \in DOMAIN conns |->
            IF \E e \in Endpoints : c \in Content(current[e])
            THEN [conns[c] EXCEPT !.state = "stopped"] ELSE conns[c]]
    /\ stopping' = stopping + 1
    /\ UNCHANGED <<arrays, current, inUse, caller, prewarming, starts, cleaner, healthy, errors>>

PoolCleared ==
    /\ stopping > 0
    /\ stopping' = stopping - 1
    /\ current' = [e \in Endpoints |-> None]
    /\ UNCHANGED <<poolRunning, arrays, conns, inUse, caller, prewarming, starts, timers,
                   cleaner, healthy, errors>>
-----------------------------------------------------------------------------
\* Seeded fault: only connections that are still open are counted.
FaultHasRoom(a) == Cardinality({c \in Content(a) : conns[c].state = "open"}) < MaxConnections
HasRoom(a) == Cardinality(Content(a)) < MaxConnections

Usable(e) == poolRunning /\ healthy[e] /\ ~BreakerOpen(e)
Ready(e) == {c \in Content(current[e]) : Idle(c) /\ conns[c].state = "open"}

Take(p, c) == inUse' = inUse \cup {c} /\ caller' = [caller EXCEPT ![p] = [at |-> "has", conn |-> c]]

\* getConnection and getConnectionFromEndpoint: an idle connection at once, or
\* a new one if the array has room now.  Otherwise another endpoint is tried,
\* and then the call fails.
GetIdle(p, e) ==
    /\ caller[p] = OutOfPool /\ Usable(e)
    /\ \E c \in Ready(e) : Take(p, c)
    /\ UNCHANGED <<poolRunning, arrays, current, conns, prewarming, starts, stopping, timers, cleaner,
                   healthy, errors>>

GetNew(p, e) ==
    /\ caller[p] = OutOfPool /\ Usable(e)
    /\ Ready(e) = {} /\ HasRoom(current[e])
    /\ IF current[e] = None
       THEN Len(arrays) < MaxArrays /\ arrays' = Append(arrays, {})
       ELSE UNCHANGED arrays
    /\ caller' = [caller EXCEPT ![p] =
            [at |-> "opening", to |-> e,
             array |-> IF current[e] = None THEN Len(arrays) + 1 ELSE current[e]]]
    /\ UNCHANGED <<poolRunning, current, conns, inUse, prewarming, starts, stopping, timers, cleaner,
                   healthy, errors>>

\* The array read before the await is put back into the map.
GetOpened(p) ==
    /\ caller[p].at = "opening"
    /\ LET e == caller[p].to
           a == caller[p].array
       IN
       /\ Opens(e) /\ Take(p, New)
       /\ arrays' = [arrays EXCEPT ![a] = @ \cup {New}]
       /\ current' = [current EXCEPT ![e] = a]
    /\ UNCHANGED <<poolRunning, prewarming, starts, stopping, timers, cleaner, healthy, errors>>

GetFails(p) ==
    /\ caller[p].at = "opening"
    /\ caller' = [caller EXCEPT ![p] = OutOfPool]
    /\ UNCHANGED <<poolRunning, arrays, current, conns, inUse, prewarming, starts, stopping, timers,
                   cleaner, healthy, errors>>

Release(p) ==
    /\ caller[p].at = "has"
    /\ inUse' = inUse \ {caller[p].conn}
    /\ caller' = [caller EXCEPT ![p] = OutOfPool]
    /\ UNCHANGED <<poolRunning, arrays, current, conns, prewarming, starts, stopping, timers, cleaner,
                   healthy, errors>>

\* The provider reports an error of a connection, which does not count towards
\* the breaker.
ProviderError(c) ==
    /\ conns[c].state = "open"
    /\ conns' = [conns EXCEPT ![c].state = "broken"]
    /\ UNCHANGED <<poolRunning, arrays, current, inUse, caller, prewarming, starts, stopping,
                   timers, cleaner, healthy, errors>>
-----------------------------------------------------------------------------
\* cleanupIdleConnections: one connection after the other, with an await after
\* each that is closed; the array to be is put into the map at the end.  The
\* interval does not wait for an earlier run.
CleanBegin(k, e) ==
    /\ timers.firing > 0 /\ cleaner[k] = NotCleaning /\ current[e] # None
    /\ cleaner' = [cleaner EXCEPT ![k] = [at |-> e, array |-> current[e], seen |-> {}, kept |-> {}]]
    /\ UNCHANGED <<poolRunning, arrays, current, conns, inUse, caller, prewarming, starts, stopping,
                   timers, healthy, errors>>

\* Connections added meanwhile are visited too.
Unseen(k) == Content(cleaner[k].array) \ cleaner[k].seen

\* Seeded fault: what was in use when the run began is what counts.
FaultCleanVisit(k) ==
    /\ cleaner[k] # NotCleaning
    /\ \E c \in Unseen(k) :
        /\ cleaner' = [cleaner EXCEPT ![k].seen = @ \cup {c}]
        /\ Closed(c)
    /\ UNCHANGED <<poolRunning, arrays, current, inUse, caller, prewarming, starts, stopping,
                   timers, healthy, errors>>

CleanVisit(k) ==
    /\ cleaner[k] # NotCleaning
    /\ \E c \in Unseen(k) :
        \/ /\ cleaner' = [cleaner EXCEPT ![k].seen = @ \cup {c}, ![k].kept = @ \cup {c}]
           /\ UNCHANGED conns
        \/ /\ Idle(c)
           /\ cleaner' = [cleaner EXCEPT ![k].seen = @ \cup {c}]
           /\ Closed(c)
    /\ UNCHANGED <<poolRunning, arrays, current, inUse, caller, prewarming, starts, stopping,
                   timers, healthy, errors>>

CleanEnd(k) ==
    /\ cleaner[k] # NotCleaning /\ Unseen(k) = {}
    /\ Len(arrays) < MaxArrays
    /\ arrays' = Append(arrays, cleaner[k].kept)
    /\ current' = [current EXCEPT ![cleaner[k].at] = Len(arrays) + 1]
    /\ cleaner' = [cleaner EXCEPT ![k] = NotCleaning]
    /\ UNCHANGED <<poolRunning, conns, inUse, caller, prewarming, starts, stopping, timers, healthy, errors>>

\* performEndpointHealthCheck tests an unused connection, closed or not, or one
\* of its own that it closes again, and sets the endpoint's health to what comes
\* out; only a connection that cannot be opened counts as an error.
HealthCheck(e) ==
    /\ timers.firing > 0 /\ current[e] # None
    /\ \E ok \in BOOLEAN : healthy' = [healthy EXCEPT ![e] = ok]
    /\ \/ UNCHANGED errors
       \/ Content(current[e]) \subseteq inUse /\ ~healthy'[e] /\ RecordError(e)
    /\ UNCHANGED <<poolRunning, arrays, current, conns, inUse, caller, prewarming, starts, stopping,
                   timers, cleaner>>

PoolNext ==
    \/ PoolStart \/ Prewarmings \/ PoolStop \/ PoolCleared
    \/ \E e \in Endpoints :
        \/ Prewarm(e) \/ HealthCheck(e)
        \/ \E p \in Callers : GetIdle(p, e) \/ GetNew(p, e)
        \/ \E k \in Cleaners : CleanBegin(k, e)
    \/ \E p \in Callers : GetOpened(p) \/ GetFails(p) \/ Release(p)
    \/ \E c \in DOMAIN conns : ProviderError(c)
    \/ \E k \in Cleaners : CleanVisit(k) \/ CleanEnd(k)

PoolSpec == PoolInit /\ [][PoolNext]_poolVars
-----------------------------------------------------------------------------
\* A connection has one user at a time, and nobody but stop closes it under
\* the user: neither the cleanups, which decide for each connection while
\* callers come and go, nor an array of old that comes back.
OneUserWhileOpen ==
    \A p \in Callers : caller[p].at = "has" =>
        /\ caller[p].conn \in inUse
        /\ conns[caller[p].conn].state # "closed"
        /\ \A q \in Callers \ {p} : caller[q].at = "has" => caller[q].conn # caller[p].conn

\* The limit is compared before a connection is opened and the connection is
\* added after, to an array that may have been replaced: an array exceeds the
\* limit by those who passed the comparison together, and by what a start adds
\* without one, and by no more however often arrays are exchanged.
OvershootBounded ==
    \A a \in DOMAIN arrays :
        Cardinality(arrays[a]) <=
            MaxConnections + Cardinality(Callers) - 1 + Prewarmed * starts.made
=============================================================================
