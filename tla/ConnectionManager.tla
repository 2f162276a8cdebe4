------------------------- MODULE ConnectionManager -------------------------
(***************************************************************************)
(* PostgreSQLConnectionManager: reads and writes take a client of the pool   *)
(* of one endpoint, as do the health checks that decide which endpoints are  *)
(* used.  An action is what happens between two awaits: a client is had, a    *)
(* statement is answered.  Every connect and every statement may fail.       *)
(***************************************************************************)
EXTENDS Integers, FiniteSets

CONSTANTS
    LastEndpoint,       \* the endpoints are 1 .. LastEndpoint by priority
    MaxConnections,     \* clients of a pool
    MaxConsecutiveFailures,
    ReadPreference,     \* "primary", "secondary" or "any"
    Operations,         \* calls of query and transaction
    CheckRounds         \* rounds of health checks that overlap, at most

VARIABLES
    out,            \* clients checked out of each pool
    health,         \* endpointStats: healthy and consecutiveFailures
    operation,
    check,          \* check[round][endpoint]
    kept,           \* clients that a failed check did not release
    shutdown        \* "no", "asked" or "done"

connectionVars == <<out, health, operation, check, kept, shutdown>>
Endpoints == 1 .. LastEndpoint

ASSUME ConnectionAssumption ==
    /\ {LastEndpoint, MaxConnections, MaxConsecutiveFailures} \subseteq Nat \ {0}
    /\ IsFiniteSet(Operations) /\ IsFiniteSet(CheckRounds)

ConnectionInit ==
    /\ out = [e \in Endpoints |-> 0]
    /\ health = [e \in Endpoints |-> [healthy |-> TRUE, failures |-> 0]]
    /\ operation = [o \in Operations |-> [pc |-> "none", kind |-> "read", endpoint |-> 1]]
    /\ check = [c \in CheckRounds |-> [e \in Endpoints |-> "none"]]
    /\ kept = [e \in Endpoints |-> 0]
    /\ shutdown = "no"
-----------------------------------------------------------------------------
\* Empty after the shutdown, which clears the statistics.
Healthy == {e \in Endpoints : health[e].healthy /\ shutdown # "done"}
First(S) == CHOOSE e \in S : \A f \in S : e <= f

ReadEndpoints ==
    LET secondary == {e \in Healthy : e > 1}
    IN  IF ReadPreference = "secondary" /\ secondary # {} THEN secondary ELSE Healthy

Kinds == {"read", "write", "read transaction", "transaction"}
ReadKinds == {"read", "read transaction"}

GoesTo(o, pc) == operation' = [operation EXCEPT ![o].pc = pc]
\* A pool that is being ended gives out no client.
TakesClient(e) ==
    /\ shutdown = "no" /\ out[e] < MaxConnections
    /\ out' = [out EXCEPT ![e] = @ + 1]
Returned(e) == out' = [out EXCEPT ![e] = @ - 1]

\* Which of the endpoints for reads, the load balancing decides.  Writes go to the
\* first healthy one, be it one for reads only.
Begin(o, kind) ==
    /\ operation[o].pc = "none"
    /\ \E e \in IF kind \in ReadKinds THEN ReadEndpoints ELSE Healthy :
          /\ kind \notin ReadKinds => e = First(Healthy)
          /\ operation' = [operation EXCEPT ![o] = [pc |-> "connect", kind |-> kind, endpoint |-> e]]
    /\ UNCHANGED <<out, health, check, kept, shutdown>>

Connected(o) ==
    /\ operation[o].pc \in {"connect", "failover"}
    /\ TakesClient(operation[o].endpoint)
    /\ GoesTo(o, IF operation[o].kind \in {"read", "write"} THEN "statement" ELSE "begin")
    /\ UNCHANGED <<health, check, kept, shutdown>>

\* No client in time.  A write fails over to another endpoint, once.
ConnectFails(o) ==
    /\ operation[o].pc \in {"connect", "failover"}
    /\ LET others == Healthy \ {operation[o].endpoint}
       IN  IF operation[o].pc = "connect" /\ operation[o].kind \notin ReadKinds /\ others # {}
           THEN operation' = [operation EXCEPT ![o].pc = "failover", ![o].endpoint = First(others)]
           ELSE GoesTo(o, "none")
    /\ UNCHANGED <<out, health, check, kept, shutdown>>

\* The statements of a transaction: BEGIN, those of the callback, COMMIT, and
\* ROLLBACK when one of the last two fails.
StatementSucceeds(o) ==
    /\ \/ operation[o].pc = "begin" /\ GoesTo(o, "callback")
       \/ operation[o].pc = "callback" /\ GoesTo(o, "commit")
    /\ UNCHANGED <<out, health, check, kept, shutdown>>

CallbackFails(o) ==
    /\ operation[o].pc \in {"callback", "commit"}
    /\ GoesTo(o, "rollback")
    /\ UNCHANGED <<out, health, check, kept, shutdown>>

\* Seeded fault: a ROLLBACK that throws passes over the release.
FaultOperationEnds(o) ==
    /\ operation[o].pc \in {"statement", "begin", "commit", "rollback"}
    /\ GoesTo(o, "none")
    /\ \/ Returned(operation[o].endpoint)
       \/ operation[o].pc = "rollback" /\ UNCHANGED out
    /\ UNCHANGED <<health, check, kept, shutdown>>

\* The finally clause, whatever became of the last statement: a query or a ROLLBACK
\* answered or not, COMMIT answered, BEGIN not.
OperationEnds(o) ==
    /\ operation[o].pc \in {"statement", "begin", "commit", "rollback"}
    /\ GoesTo(o, "none")
    /\ Returned(operation[o].endpoint)
    /\ UNCHANGED <<health, check, kept, shutdown>>
-----------------------------------------------------------------------------
(* Health checks: neither the interval nor forceHealthCheck waits for a round. *)

StartChecks(c) ==
    /\ shutdown # "done"
    /\ \A e \in Endpoints : check[c][e] = "none"
    /\ check' = [check EXCEPT ![c] = [e \in Endpoints |-> "connect"]]
    /\ UNCHANGED <<out, health, operation, kept, shutdown>>

CheckConnects(c, e) ==
    /\ check[c][e] = "connect"
    /\ TakesClient(e)
    /\ check' = [check EXCEPT ![c][e] = "select"]
    /\ UNCHANGED <<health, operation, kept, shutdown>>

CheckSucceeds(c, e) ==
    /\ check[c][e] = "select"
    /\ Returned(e)
    /\ check' = [check EXCEPT ![c][e] = "none"]
    /\ health' = [health EXCEPT ![e] = [healthy |-> TRUE, failures |-> 0]]
    /\ UNCHANGED <<operation, kept, shutdown>>

\* Healthy until so many checks in a row have failed, in the order of their ends;
\* consecutiveFailures counts no further here.
\* The client of a check whose SELECT fails is not released.
CheckFails(c, e) ==
    /\ check[c][e] # "none"
    /\ kept' = IF check[c][e] = "select" THEN [kept EXCEPT ![e] = @ + 1] ELSE kept
    /\ check' = [check EXCEPT ![c][e] = "none"]
    /\ health' = [health EXCEPT ![e] =
                      [failures |-> IF @.failures < MaxConsecutiveFailures THEN @.failures + 1
                                    ELSE @.failures,
                       healthy |-> @.healthy /\ @.failures + 1 < MaxConsecutiveFailures]]
    /\ UNCHANGED <<out, operation, shutdown>>

Shutdown ==
    /\ shutdown = "no"
    /\ shutdown' = "asked"
    /\ UNCHANGED <<out, health, operation, check, kept>>

\* pool.end() waits for every client of the pool.
PoolsEnded ==
    /\ shutdown = "asked"
    /\ \A e \in Endpoints : out[e] = 0
    /\ shutdown' = "done"
    /\ UNCHANGED <<out, health, operation, check, kept>>

ConnectionNext ==
    \/ \E o \in Operations :
          \/ \E kind \in Kinds : Begin(o, kind)
          \/ Connected(o) \/ ConnectFails(o) \/ StatementSucceeds(o) \/ CallbackFails(o)
          \/ OperationEnds(o)
    \/ \E c \in CheckRounds :
          \/ StartChecks(c)
          \/ \E e \in Endpoints :
                CheckConnects(c, e) \/ CheckSucceeds(c, e) \/ CheckFails(c, e)
    \/ Shutdown \/ PoolsEnded

ConnectionSpec == ConnectionInit /\ [][ConnectionNext]_connectionVars
-----------------------------------------------------------------------------
Holding(e) ==
    {o \in Operations : operation[o].endpoint = e
                        /\ operation[o].pc \notin {"none", "connect", "failover"}}
Checking(e) == {c \in CheckRounds : check[c][e] = "select"}

\* No client is lost but by a health check whose query failed: every other one that
\* is out serves an operation or a check under way, through failovers, failing
\* statements and a ROLLBACK that throws.
ClientsAccountedFor ==
    \A e \in Endpoints :
        out[e] = Cardinality(Holding(e)) + Cardinality(Checking(e)) + kept[e]
=============================================================================
