-------------------------- MODULE RecoveryService --------------------------
(***************************************************************************)
(* The relayer's recovery service (relayer/src/recovery/recovery-service.ts)*)
(* over the HTLCs of an Ethereum contract and a Cosmos contract: a loop that *)
(* looks for expired HTLCs of the relayer once per CheckInterval and takes  *)
(* them back, with retries.  The contracts are instances of HashTimeLock:   *)
(* they accept what it allows and nothing else.                             *)
(*                                                                         *)
(* Time passes in the code's own delays and, for as long as they like, in    *)
(* calls to the chains: no call of the code has a timeout, so that a receipt *)
(* that never comes (tx.wait) stops its loop for good.  A call ends in a     *)
(* step of its own, before which others claim, lock or stop.                *)
(***************************************************************************)
EXTENDS Integers, FiniteSets

CONSTANTS
    EthereumIds, CosmosIds,   \* HTLC ids on the two chains
    Ours,                     \* those whose sender is the relayer
    Deadlines,                \* timelocks an HTLC may have
    Window,                   \* blocks looked back for HTLCCreated events
    CheckInterval, RetryDelay, MaxRetries, BatchSize,
    Loops,                    \* names of the runs of monitorExpiredHTLCs
    LastTime, MaxFaults, MaxSlow   \* bounds: the clock, failing calls, time in calls

VARIABLES
    locked, claimed, returned, blockTime, \* the HTLC contracts and their clock
    slow,        \* time that has passed while a loop waited for a call
    created,     \* block in which an HTLC was created; a block per time unit
    isRunning,
    client,      \* cosmosClients has an entry for the chain
    loop,        \* per loop: where it is, what is left of its sleep, the
                 \* block time it read, the ids it has yet to look at
    task,        \* per loop and id: the look at one HTLC under way
    refunded,    \* stats.htlcsRefunded
    upSince,     \* when the service was started last, or got its client
    faults       \* calls that failed so far

lockVars == <<locked, claimed, returned, blockTime, slow, created>>
recoveryVars == <<lockVars, isRunning, client, loop, task, refunded, upSince, faults>>

ASSUME RecoveryAssumption ==
    /\ IsFiniteSet(EthereumIds) /\ IsFiniteSet(CosmosIds) /\ IsFiniteSet(Loops)
    /\ Deadlines \subseteq Nat /\ {Window, CheckInterval, RetryDelay} \subseteq Nat
    \* The delays of an attempt grow, but not beyond a round.
    /\ MaxRetries \in Nat \ {0} /\ RetryDelay * (MaxRetries - 1) <= CheckInterval

Contracts == INSTANCE HashTimeLock WITH clock <- blockTime

Ids == EthereumIds \cup CosmosIds
IsOpen(i) == \E l \in locked : l.id = i
IsExpired(i, t) == \A l \in locked : l.id = i => l.deadline <= t

Done == [at |-> "done", attempt |-> 0, left |-> 0]
NoLoop == [at |-> "none", left |-> 0, time |-> 0, pending |-> {}]
Busy(k) == \E i \in Ids : task[k][i] # Done

RecoveryInit ==
    /\ locked = {} /\ claimed = {} /\ returned = {} /\ blockTime = 0 /\ slow = 0
    /\ created = [i \in Ids |-> 0]
    /\ isRunning = FALSE /\ client = FALSE
    /\ loop = [k \in Loops |-> NoLoop]
    /\ task = [k \in Loops |-> [i \in Ids |-> Done]]
    /\ refunded = 0 /\ upSince = 0 /\ faults = 0
-----------------------------------------------------------------------------
\* A call fails: the bound of the model on how often.
CallFails == faults < MaxFaults /\ faults' = faults + 1

At(k, place) == loop[k].at = place /\ loop[k].left = 0 /\ ~Busy(k)
Move(k, place) == loop' = [loop EXCEPT ![k].at = place]
Sleep(k) == loop' = [loop EXCEPT ![k] = [NoLoop EXCEPT !.at = "top", !.left = CheckInterval]]

\* start(): the flag is read before the connections are made and set after,
\* so two calls may both get through.
Start(k) ==
    /\ ~isRunning /\ loop[k] = NoLoop
    /\ Move(k, "connecting")
    /\ UNCHANGED <<lockVars, isRunning, client, task, refunded, upSince, faults>>

\* A Cosmos chain that cannot be reached is logged and left without a client.
Connected(k) ==
    /\ At(k, "connecting")
    /\ \/ client' = TRUE /\ UNCHANGED faults
       \/ CallFails /\ UNCHANGED client
    /\ Move(k, "top")
    /\ isRunning' = TRUE
    /\ upSince' = IF isRunning /\ client' = client THEN upSince ELSE blockTime
    /\ UNCHANGED <<lockVars, task, refunded>>

Stop ==
    /\ isRunning
    /\ isRunning' = FALSE
    /\ UNCHANGED <<lockVars, client, loop, task, refunded, upSince, faults>>

\* while (this.isRunning): a loop that slept through a stop and a start goes on
\* next to the new one.
LoopEnds(k) ==
    /\ At(k, "top") /\ ~isRunning
    /\ loop' = [loop EXCEPT ![k] = NoLoop]
    /\ UNCHANGED <<lockVars, isRunning, client, task, refunded, upSince, faults>>

\* checkEthereumHTLCs: the latest block's time, and the ids of the events of
\* the last Window blocks.
CheckEthereum(k) ==
    /\ At(k, "top") /\ isRunning
    /\ loop' = [loop EXCEPT ![k] = [NoLoop EXCEPT
            !.at = "ethereum",
            !.time = blockTime,
            !.pending = {i \in EthereumIds :
                /\ \E l \in locked \cup claimed \cup returned : l.id = i
                /\ created[i] >= blockTime - Window}]]
    /\ UNCHANGED <<lockVars, isRunning, client, task, refunded, upSince, faults>>

\* Seeded fault: an error of the Ethereum check ends the round, so that the
\* Cosmos chains wait for the next one, and that one too.
FaultCheckEthereumFails(k) ==
    /\ At(k, "top") /\ isRunning /\ CallFails
    /\ loop' = [loop EXCEPT ![k].at = "none"]
    /\ UNCHANGED <<lockVars, isRunning, client, task, refunded, upSince>>

CheckEthereumFails(k) ==
    /\ At(k, "top") /\ isRunning /\ CallFails
    /\ Move(k, "listing")
    /\ UNCHANGED <<lockVars, isRunning, client, task, refunded, upSince>>

\* The looks at a batch of HTLCs begin.
Looks(batch, first) ==
    [i \in Ids |-> IF i \in batch THEN [at |-> first, attempt |-> 1, left |-> 0] ELSE Done]

\* Up to BatchSize HTLCs on Ethereum at once (Promise.all), on Cosmos one after
\* the other.  The Cosmos ones were read by the listing already.
NextBatch(k) ==
    LET size == IF loop[k].at = "ethereum" THEN BatchSize ELSE 1
        first == IF loop[k].at = "ethereum" THEN "read" ELSE "verify"
    IN
    /\ loop[k].at \in {"ethereum", "cosmos"} /\ ~Busy(k)
    /\ \E batch \in (SUBSET loop[k].pending) \ {{}} :
        /\ Cardinality(batch) <= size
        /\ Cardinality(batch) < size => batch = loop[k].pending
        /\ loop' = [loop EXCEPT ![k].pending = @ \ batch]
        /\ task' = [task EXCEPT ![k] = Looks(batch, first)]
    /\ UNCHANGED <<lockVars, isRunning, client, refunded, upSince, faults>>

EthereumDone(k) ==
    /\ At(k, "ethereum") /\ loop[k].pending = {}
    /\ Move(k, "listing")
    /\ UNCHANGED <<lockVars, isRunning, client, task, refunded, upSince, faults>>

\* checkCosmosChainHTLCs: the pages of the listing, and what it says is open,
\* expired and ours.  No client or a failing page: the chain is left out.
ListCosmos(k) ==
    /\ At(k, "listing")
    /\ \/ /\ client
          /\ loop' = [loop EXCEPT ![k].at = "cosmos",
                ![k].pending = {i \in CosmosIds \cap Ours : IsOpen(i) /\ IsExpired(i, blockTime)}]
          /\ UNCHANGED faults
       \/ ~client /\ Sleep(k) /\ UNCHANGED faults
       \/ client /\ CallFails /\ Sleep(k)
    /\ UNCHANGED <<lockVars, isRunning, client, task, refunded, upSince>>

RoundEnds(k) ==
    /\ At(k, "cosmos") /\ loop[k].pending = {}
    /\ Sleep(k)
    /\ UNCHANGED <<lockVars, isRunning, client, task, refunded, upSince, faults>>
-----------------------------------------------------------------------------
Step(k, i, t) == task' = [task EXCEPT ![k][i] = t]
Doing(k, i, place) == task[k][i].at = place

\* refund...WithRetry catches the error of an attempt: wait longer each time,
\* and give up after MaxRetries.
AttemptFails(k, i) ==
    LET n == task[k][i].attempt IN
    Step(k, i, IF n < MaxRetries
               THEN [at |-> "delay", attempt |-> n, left |-> RetryDelay * n]
               ELSE Done)

\* Of the HTLC itself, against the block time of the check.
Read(k, i) ==
    /\ Doing(k, i, "read")
    /\ \/ /\ i \in Ours /\ IsOpen(i) /\ IsExpired(i, loop[k].time)
          /\ Step(k, i, [task[k][i] EXCEPT !.at = "verify"])
          /\ UNCHANGED faults
       \/ /\ ~(i \in Ours /\ IsOpen(i) /\ IsExpired(i, loop[k].time))
          /\ Step(k, i, Done) /\ UNCHANGED faults
       \/ CallFails /\ Step(k, i, Done)
    /\ UNCHANGED <<lockVars, isRunning, client, loop, refunded, upSince>>

\* Seeded fault: an HTLC that is resolved already is counted as refunded.
FaultVerify(k, i) ==
    /\ Doing(k, i, "verify")
    /\ \/ IsOpen(i) /\ Step(k, i, [task[k][i] EXCEPT !.at = "send"]) /\ UNCHANGED <<faults, refunded>>
       \/ ~IsOpen(i) /\ Step(k, i, Done) /\ refunded' = refunded + 1 /\ UNCHANGED faults
       \/ CallFails /\ AttemptFails(k, i) /\ UNCHANGED refunded
    /\ UNCHANGED <<lockVars, isRunning, client, loop, upSince>>

\* "Check if HTLC still exists and is refundable."
Verify(k, i) ==
    /\ Doing(k, i, "verify")
    /\ \/ IsOpen(i) /\ Step(k, i, [task[k][i] EXCEPT !.at = "send"]) /\ UNCHANGED faults
       \/ ~IsOpen(i) /\ Step(k, i, Done) /\ UNCHANGED faults
       \/ CallFails /\ AttemptFails(k, i)
    /\ UNCHANGED <<lockVars, isRunning, client, loop, refunded, upSince>>

\* The gas estimate and the transaction: the contract accepts it or it throws.
Send(k, i) ==
    /\ Doing(k, i, "send")
    /\ \/ /\ \E l \in locked : l.id = i /\ Contracts!TakeBack(l)
          /\ Step(k, i, [task[k][i] EXCEPT !.at = "confirm"])
          /\ UNCHANGED faults
       \/ /\ ~(IsOpen(i) /\ IsExpired(i, blockTime))
          /\ AttemptFails(k, i) /\ UNCHANGED <<locked, claimed, returned, blockTime, faults>>
       \/ /\ CallFails /\ AttemptFails(k, i)
          /\ UNCHANGED <<locked, claimed, returned, blockTime>>
    /\ UNCHANGED <<created, slow, isRunning, client, loop, refunded, upSince>>

\* The receipt; when the wait for it fails, the refund has taken place.
Confirm(k, i) ==
    /\ Doing(k, i, "confirm")
    /\ \/ Step(k, i, Done) /\ refunded' = refunded + 1 /\ UNCHANGED faults
       \/ CallFails /\ AttemptFails(k, i) /\ UNCHANGED refunded
    /\ UNCHANGED <<lockVars, isRunning, client, loop, upSince>>

Retry(k, i) ==
    /\ Doing(k, i, "delay") /\ task[k][i].left = 0
    /\ Step(k, i, [at |-> "verify", attempt |-> task[k][i].attempt + 1, left |-> 0])
    /\ UNCHANGED <<lockVars, isRunning, client, loop, refunded, upSince, faults>>
-----------------------------------------------------------------------------
\* The relayer and the users lock, and who knows the secret claims.
LockCreated(i) ==
    /\ \E d \in Deadlines : Contracts!Lock([id |-> i, deadline |-> d])
    /\ created' = [created EXCEPT ![i] = blockTime]
    /\ UNCHANGED <<slow, isRunning, client, loop, task, refunded, upSince, faults>>

LockClaimed ==
    /\ \E l \in locked : Contracts!Claim(l)
    /\ UNCHANGED <<created, slow, isRunning, client, loop, task, refunded, upSince, faults>>

\* Nothing runs in loop k but timers.
Waiting(k) ==
    \/ loop[k] = NoLoop
    \/ loop[k].left > 0
    \/ Busy(k) /\ \A i \in Ids : task[k][i] = Done \/ task[k][i].left > 0

Less(n) == IF n = 0 THEN 0 ELSE n - 1

TimePasses ==
    /\ blockTime < LastTime
    /\ blockTime' = blockTime + 1
    /\ slow' = IF \A k \in Loops : Waiting(k) THEN slow ELSE slow + 1
    /\ slow' <= MaxSlow
    /\ loop' = [k \in Loops |-> [loop[k] EXCEPT !.left = Less(@)]]
    /\ task' = [k \in Loops |-> [i \in Ids |-> [task[k][i] EXCEPT !.left = Less(@)]]]
    /\ UNCHANGED <<locked, claimed, returned, created, isRunning, client, refunded, upSince, faults>>

RecoveryNext ==
    \/ \E k \in Loops :
        \/ Start(k) \/ Connected(k) \/ LoopEnds(k)
        \/ CheckEthereum(k) \/ CheckEthereumFails(k) \/ NextBatch(k) \/ EthereumDone(k)
        \/ ListCosmos(k) \/ RoundEnds(k)
        \/ \E i \in Ids : Read(k, i) \/ Verify(k, i) \/ Send(k, i) \/ Confirm(k, i) \/ Retry(k, i)
    \/ Stop
    \/ \E i \in Ids : LockCreated(i)
    \/ LockClaimed
    \/ TimePasses

RecoverySpec == RecoveryInit /\ [][RecoveryNext]_recoveryVars
-----------------------------------------------------------------------------
\* The longest an expired HTLC waits: a round, a round more for every call that
\* failed, the delay of every attempt that lost a race, with a claim or with
\* another loop's refund, and the time the calls took.
Delay == CheckInterval * (1 + faults) + RetryDelay * Cardinality(claimed \cup returned) + slow

\* The moment from which the service has to see to lock l.
Due(l) == IF l.deadline >= upSince THEN l.deadline ELSE upSince

\* While the service runs, calls that take their time delay a refund by that time
\* and no more, and calls that fail by a round each: an expired HTLC of the relayer
\* is taken back within Delay, whatever loops and races there are, unless its chain
\* has no client, or its creation is older than the window of events by then.
TakenBackInTime ==
    \A l \in locked :
        \/ ~isRunning \/ l.id \notin Ours
        \/ l.id \in CosmosIds /\ ~client
        \/ l.id \in EthereumIds /\ created[l.id] + Window < Due(l) + Delay
        \/ blockTime <= Due(l) + Delay

\* However many loops try at once and whatever answers get lost, no refund is
\* counted that did not take place, and none twice.
RefundsCounted == refunded <= Cardinality(returned)
=============================================================================
