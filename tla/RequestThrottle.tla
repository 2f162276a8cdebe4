-------------------------- MODULE RequestThrottle --------------------------
(***************************************************************************)
(* The SDK's queue in front of the Cosmos endpoint: requests wait by         *)
(* priority, as many run as the configuration allows, and every request that  *)
(* ends sets a timer which starts one other.  The delays before a request and *)
(* before a retry are arbitrary here.                                        *)
(***************************************************************************)
EXTENDS Integers, Sequences, FiniteSets, Functions

CONSTANTS
    Calls,              \* calls of execute
    Limits,             \* values of maxConcurrent
    QueueLimit, MaxRetryCount,
    MaxUpdates          \* bound of the model: calls of updateConfig

VARIABLES
    call,           \* where each call is, its priority and its retries
    waiting,        \* the queue
    timers,         \* pending setTimeouts of requests that ended
    maxConcurrent,
    configured,     \* every maxConcurrent there has been
    updates

throttleVars == <<call, waiting, timers, maxConcurrent, configured, updates>>

ASSUME ThrottleAssumption ==
    /\ Limits \subseteq Nat \ {0}
    /\ {QueueLimit, MaxRetryCount, MaxUpdates} \subseteq Nat
    /\ IsFiniteSet(Calls)

ThrottleInit ==
    /\ call = [c \in Calls |-> [at |-> "new", priority |-> "medium", retries |-> 0]]
    /\ waiting = << >>
    /\ timers = 0
    /\ maxConcurrent \in Limits
    /\ configured = {maxConcurrent}
    /\ updates = 0

\* activeRequests counts them.
Active == {c \in Calls : call[c].at = "active"}
Urgency == [high |-> 1, medium |-> 2, low |-> 3]
MoveCall(c, at) == [call EXCEPT ![c].at = at]
-----------------------------------------------------------------------------
(* processQueue *)

\* The sort is stable: a call stays behind those of its priority that were before it.
ByPriority(queue, calls) ==
    LET rank(i) == Urgency[calls[queue[i]].priority]
        stable(order) == \A i, j \in DOMAIN queue :
            i < j => \/ rank(order[i]) < rank(order[j])
                     \/ rank(order[i]) = rank(order[j]) /\ order[i] < order[j]
    IN  {[i \in DOMAIN queue |-> queue[order[i]]] :
             order \in {o \in Bijection(DOMAIN queue, DOMAIN queue) : stable(o)}}

\* The first n of the queue have waited longer than their timeout.
TimedOut(queue, n, calls) ==
    [c \in Calls |-> IF \E i \in 1 .. n : queue[i] = c
                     THEN [calls[c] EXCEPT !.at = "settled"] ELSE calls[c]]

\* Seeded fault: a request that timed out takes the turn of the next one.
FaultServeFirst(queue, n, calls) ==
    IF n > 0
    THEN /\ waiting' = Tail(queue)
         /\ call' = TimedOut(queue, 1, calls)
    ELSE /\ waiting' = Tail(queue)
         /\ call' = [calls EXCEPT ![Head(queue)].at = "active"]

ServeFirst(queue, n, calls) ==
    LET left == TimedOut(queue, n, calls)
    IN  /\ waiting' = SubSeq(queue, n + 2, Len(queue))
        /\ call' = IF n < Len(queue) THEN [left EXCEPT ![queue[n + 1]].at = "active"] ELSE left

\* Rejects the requests that waited too long and starts the first that did not, if
\* any.  A request that has just been queued has not waited.
ProcessQueue(queue, calls, justQueued) ==
    IF Cardinality(Active) >= maxConcurrent \/ queue = << >>
    THEN waiting' = queue /\ call' = calls
    ELSE \E sorted \in ByPriority(queue, calls), n \in 0 .. Len(queue) :
             /\ \A i \in 1 .. n : sorted[i] \notin justQueued
             /\ ServeFirst(sorted, n, calls)
-----------------------------------------------------------------------------
Execute(c, priority) ==
    /\ call[c].at = "new"
    /\ IF Len(waiting) >= QueueLimit
       THEN call' = MoveCall(c, "settled") /\ UNCHANGED waiting
       ELSE ProcessQueue(Append(waiting, c),
                         [call EXCEPT ![c].at = "queued", ![c].priority = priority], {c})
    /\ UNCHANGED <<timers, maxConcurrent, configured, updates>>

\* Answered, or failed for good.
RequestEnds(c) ==
    /\ c \in Active
    /\ call' = MoveCall(c, "settled")
    /\ timers' = timers + 1
    /\ UNCHANGED <<waiting, maxConcurrent, configured, updates>>

\* handleRequestError, when shouldRetry.
RequestFails(c) ==
    /\ c \in Active /\ call[c].retries < MaxRetryCount
    /\ call' = [call EXCEPT ![c].at = "retrying", ![c].retries = @ + 1]
    /\ timers' = timers + 1
    /\ UNCHANGED <<waiting, maxConcurrent, configured, updates>>

\* The retry goes to the front of the queue, full or not.
RequestRetries(c) ==
    /\ call[c].at = "retrying"
    /\ ProcessQueue(<<c>> \o waiting, MoveCall(c, "queued"), {c})
    /\ UNCHANGED <<timers, maxConcurrent, configured, updates>>

TimerFires ==
    /\ timers > 0
    /\ timers' = timers - 1
    /\ ProcessQueue(waiting, call, {})
    /\ UNCHANGED <<maxConcurrent, configured, updates>>

UpdateConfig(limit) ==
    /\ updates < MaxUpdates
    /\ updates' = updates + 1
    /\ maxConcurrent' = limit
    /\ configured' = configured \cup {limit}
    /\ UNCHANGED <<call, waiting, timers>>

\* reset does so too.  A retry whose timer is running is not cleared.
ClearQueue ==
    /\ waiting # << >>
    /\ waiting' = << >>
    /\ call' = TimedOut(waiting, Len(waiting), call)
    /\ UNCHANGED <<timers, maxConcurrent, configured, updates>>

ThrottleNext ==
    \/ \E c \in Calls :
          \/ \E priority \in DOMAIN Urgency : Execute(c, priority)
          \/ RequestEnds(c) \/ RequestFails(c) \/ RequestRetries(c)
    \/ TimerFires \/ ClearQueue
    \/ \E limit \in Limits : UpdateConfig(limit)

ThrottleSpec == ThrottleInit /\ [][ThrottleNext]_throttleVars
-----------------------------------------------------------------------------
\* While requests wait, no slot is lost for good: there are as many requests under
\* way or timers that will start one as the configuration has always allowed,
\* although only the end of a request, and not a timeout or a raised limit, starts
\* the next, and one only.
NoSlotIsLost ==
    waiting # << >> => \E limit \in configured : Cardinality(Active) + timers >= limit
=============================================================================
