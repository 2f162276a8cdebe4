# EVMore in TLA+

Specifications of the cross-chain swap protocol of this repository: the hash
time lock contracts on Ethereum and on Cosmos chains, the contracts around
them, and the parts of the relayer that connect the two.  TLC checks small
instances; TLAPS proves nearly all of the safety properties for every value of
the constants.

Contents: [the system](#1-the-system), [the modules](#2-the-modules),
[the runs](#3-the-runs), [fairness](#4-fairness), [the proofs](#5-the-proofs),
[where code and text disagree](#6-where-the-code-and-its-text-disagree),
[what is not modelled](#7-what-is-not-modelled), [the plan](#8-the-plan),
[how to run it](#9-running).

## 1. The system

A user locks tokens in an HTLC on Ethereum under a hash and a timelock.  The
relayer sees the event and is to create an HTLC with the same hash for the user's
receiver on a Cosmos chain, directly or over several IBC hops.  The receiver
withdraws with the secret, which makes the secret public.  If the secret never
appears, both sides are refunded from their timelocks on.

That is the design.  In the code as it is, relays that start on Ethereum fail
before they lock the target (`multi-hop-manager.ts:155` finds no handler for
Ethereum), and nothing claims the source with a secret that became public
(`handleCosmosHTLC`, `relay-service.ts:153`, does nothing; the relayer calls
`refund` only).  A swap over both chains is therefore not modelled as one
system: each contract, the relayer's way up to the packet, and what takes back
expired HTLCs are.

```
 user --> FusionResolver --> CrossChainHTLC <-- FusionConfig (limits)
                                 |  HTLCCreated
                                 v
   BlockMonitor --> RelayService --(ErrorRecovery, CircuitBreaker)--> Cosmos HTLC
                        |                                               ^
                        +--> MultiHopManager --> IBC, Router ----------+
   RecoveryService --> refund on both          Registry --> FindRoute (routers)
```

### Components, their state and what makes them correct

| Component (source) | State | Operations | Correct if |
|---|---|---|---|
| CrossChainHTLC (`contracts/ethereum/contracts/CrossChainHTLC.sol`) | `htlcs` with two flags, `addressHtlcs`, `addressHtlcTimestamps`, blacklist, token balance | createHTLC, withdraw, refund, clean-up, blacklist, setFusionConfig | holds what it owes, settles once, refund is never barred, per-address limits hold of the real HTLCs |
| FusionConfig (`FusionConfig.sol`) | limits, cascade, pause flag | eight setters | the fields stay consistent with each other under every order of setters |
| FusionResolver (`FusionResolver.sol`) | authorized resolvers, its own config | createCrossChainOrder, authorization, emergencyWithdraw | an order spends its maker's tokens and no others, its timelock is one the HTLC contract admits, it is refundable (it is not: section 6) |
| Cosmos HTLC (`contracts/cosmwasm/htlc`) | `HTLCS`, `HTLC_COUNT`, bank balance | create (with swap), withdraw, refund, execute swap | every open HTLC is covered, is settled once, balance is explained |
| Registry (`contracts/cosmwasm/registry`) | chains, paths, connection index, counters | register, update, remove, FindRoute | the index never dangles, counters are exact, routes are simple and shortest |
| Router (`contracts/cosmwasm/router`) | pools, pairs, chain configs, routers | register and update pools, chains and routers; find routes; estimate and send a swap | a route found is no longer than it has to be, a swap that leaves keeps the caller's minimum (if its hops chain: section 6) |
| Block monitors (`libs/utils/src/monitors`) | `lastProcessedBlock`, `isRunning`, `processingBatch`, `pollingTimer` | start, stop, poll, process, reset | every final event is delivered once, in order, at last; polling never dies |
| Relay service (`relayer/src/relay`) | pending relays, metrics | handle event, direct and multi-hop transfer | a relay is tried again, comes to an end, and is begun once |
| Error recovery (`relayer/src/security`) | breaker state, counts, timers, stop flag | execute with retries, trip, reset, emergency stop | attempts are bounded, a breaker closes at last and afresh, a stop stops |
| Multi-hop manager, IBC handlers (`relayer/src/ibc`) | transfers, packets | plan, validate, broadcast, track | what was sent can come back over every hop before the HTLC expires |
| Recovery service (`relayer/src/recovery`) | isRunning, statistics | loop: find expired HTLCs and refund them | an expired HTLC of ours is refunded as soon as its calls allow, never twice |
| Route discovery (`relayer/src/routes`) | channels, routes, one date for both | find routes, refresh | a route used for a transfer suits its timelock |
| Chain registry client, router resolution (`relayer/src/registry`) | two caches of router addresses | resolve with retries, update, expire | no answer is older than both caches allow together |
| Connection pools (`libs/connection-pool`) | arrays of connections, breakers, timers | start, stop, get, release, clean up, test | each connection used by one caller, the limit exceeded by no more than the requests that meet |
| Hybrid persistence (`relayer/src/persistence`) | a row in PostgreSQL, its copy and indexes in Redis | save, update, delete, read, expire | what was acknowledged stays, what is cached is indexed |
| Persistence manager (`persistence-manager.ts` over the providers) | connection attempts, retries, health intervals, pool, Redis client | initialize, retry, shutdown, health check | it never stops trying before its retries are used up |
| Archival (`archival-manager.ts`) | policies, jobs, files | run, cancel, delete policies | a run takes its share of the backlog: into files and out of the table for an archive (they stay in it: section 6), out of the table otherwise |
| Migrations (`migrations.ts`) | lock row, applied versions, clients | migrate, roll back, check | one migrator at a time, none waits for itself |
| PostgreSQL connections (`connection-manager.ts`) | clients per endpoint, health | query, transaction, health round, shut down | every client taken is released or accounted for |
| SDK request queue (`sdk/src/utils/request-throttle.ts`) | queue, running requests, timers | execute, clear, reconfigure | a waiting request never stays behind a free slot |
| Vault secrets (`relayer/src/secrets`) | a cached copy, a token and the timer that renews it | get, refresh, renew, destroy | a token that is lent long enough outlasts its renewals, an answer is recent |
| Relayer process (`relayer/src/index.ts`) | the stage of `main()`; all that the monitor and the relays know, in memory | start the services in order, register the handlers, shut down, exit, start again | an event has a handler unless the start was slow, no final relay is taken back, repeats are recent, a short outage loses nothing |
| Request security, monitoring, frontend, configuration | | | peripheral to the protocol, see [section 7](#7-what-is-not-modelled) |

Components interact through transactions and messages (atomic on their chain),
through events (delivered late, in batches, from blocks that may be replaced)
and, inside the relayer, through callbacks on one JavaScript thread: an
interleaving point is every `await` and every timer.

### What is hard here

* From the timelock on, withdraw and refund of one HTLC are both open, to
  different callers: neither contract forbids a late withdrawal.
* The resolver contract moves tokens twice per order, reads no result of the
  first transfer, and goes by a configuration of its own.
* The per-address lists of the Ethereum contract are pruned by time, by
  settlement and by clean-up, while the owner moves the limits.
* The monitor reads the head, awaits, reads events, awaits handlers, and can
  be stopped and started between any two; requests fail; blocks are replaced.
* The relayer's process may end between any two steps and keeps nothing: the next
  one chooses its first block anew, wherever the one before it stood.
* Results of operations come in after the breaker they went through has
  changed; retries are nested behind one breaker.
* Index and counters of the registry are kept by hand next to the data.
* The recovery loop sleeps, is stopped and started again, and acts on what it
  read before an await while users and a second loop act on the same HTLCs.
* The services of the relayer start one after the other while the first of them
  polls already, and no call to a chain has a timeout.
* A pool's arrays are replaced while requests that await a connection still hold
  the old ones; what is checked before an await is changed after it.
* One relay is written to two stores, partly in the background, and either may
  fail or answer late; statements to one of them overtake each other.
* Locks, clients and slots are given back on some paths and not on others.

`PROJECT.json` lists these hazards with lines and the properties that watch them.

## 2. The modules

| Module | Stands for | Uses |
|---|---|---|
| `HashTimeLock` | abstract specification: a lock is made ahead of its deadline, resolved at most once, taken back only from the deadline on | |
| `FusionConfig` | `FusionConfig.sol`, any number of deployments | |
| `EthereumHTLC` | `CrossChainHTLC.sol`; implements `HashTimeLock` | `FusionConfig` |
| `FusionResolver` | `FusionResolver.sol` in front of the HTLC contract | `EthereumHTLC` |
| `SwapAndPop` | the deletion loops of `CrossChainHTLC.sol`, step by step | |
| `CosmosHTLC` | the CosmWasm HTLC contract with its bank and swap messages; implements `HashTimeLock` | |
| `Registry` | the registry contract's messages | |
| `RegistryRoutes` | `FindRoute`, the breadth-first search, against the registry as it changes | `Registry` |
| `BlockMonitor` | `BaseMonitor` and the Ethereum monitor, with the chain they poll | |
| `RelayerLives` | the relayer's process around its Ethereum monitor: start-up, handlers, shutdown, exits and new lives | `BlockMonitor` |
| `CosmosMonitor` | `BaseMonitor` and the Cosmos monitor, its heights and the form of its events | |
| `ErrorRecovery` | `CircuitBreaker` and `ErrorRecoveryManager`, called as a relay calls them | |
| `RecoveryService` | the loops that take back expired HTLCs on both chains | two chains' contracts as one instance of `HashTimeLock` |
| `MultiHopTransfer` | a relay's way through `RelayService`, `MultiHopManager`, the packet forwarding and `RouteDiscovery` | |
| `Router` | the CosmWasm router: tables, route search, estimate and packets | |
| `RouterResolution` | `ChainRegistryClient` under `RouterResolutionService` | |
| `ConnectionPool` | `BaseConnectionPool` with the connections of the Ethereum pool | |
| `HybridPersistence` | one relay in the hybrid provider over PostgreSQL and Redis | |
| `PersistenceManager` | `PersistenceManager` over one of its providers: attempts, errors, retries, health checks | |
| `VaultSecrets` | one secret and the token in `VaultSecretsProvider`, read through the secrets manager | |
| `ArchivalManager` | the jobs of one archival policy | |
| `Migrations` | `DatabaseMigrator`: processes, lock row, clients | |
| `ConnectionManager` | `PostgreSQLConnectionManager`: endpoints, health rounds, shutdown | |
| `RequestThrottle` | the SDK's request queue | |

Each `MC...` module instantiates one of these for TLC, except that
`MCComponents` (eight components), `MCMoreComponents` (seven),
`MCMonitorAndRecovery` and `MCResolverAndLives` (two each) take several that
share no state: a variable chosen by the initial state says which one the behaviour explores, while the
others stay where they began.  The states of such a run are the sum of its
components' and not their product, and every property is checked of its own
component.  `archival_deletes` checks `ArchivalManager` as it is.  The theorems stand in modules of their own, next to which
`FiniteSums` holds the laws of sums over finite sets that several of them need:

| Proof module | Theorems about |
|---|---|
| `EthereumContractsProofs` | `FusionConfig`, `EthereumHTLC`, `FusionResolver` |
| `CosmosHTLCProofs` | `CosmosHTLC` |
| `RegistryProofs` | `Registry`, `RegistryRoutes` |
| `MonitorAndRecoveryProofs` | `BlockMonitor`, `RelayerLives`, `ErrorRecovery` |
| `ComponentsProofs` | `SwapAndPop`, `RecoveryService`, `CosmosMonitor`, `ConnectionPool`, `RouterResolution`, `Router` |
| `MoreComponentsProofs` | `MultiHopTransfer`, `Migrations`, `ConnectionManager`, `RequestThrottle`, `VaultSecrets` |
| `PersistenceProofs` | `PersistenceManager`, `HybridPersistence`, `ArchivalManager` |

Operators named `Fault...` are variants of the
definition that follows them with a seeded fault.  No specification uses them;
each property of a passing run is violated when the fault its entry under
`mutants` names takes the place of the real definition.

How the models correspond to the code:

* **Ethereum contracts.** One action per external function.  A revert undoes
  the transaction, so `require` and modifiers are guards and there are no error
  branches.  keccak256 is injective: the id of an HTLC is the record of what it
  hashes.  The two arrays per address are sets, whose loops `SwapAndPop`
  justifies.  Time is `block.timestamp`; one unit stands for the shortest
  duration of the configuration.  An order of the resolver contract is one
  transaction and so one action, but its two transfers are two steps of it:
  `Collect` is what `transferFrom` leaves behind, and `createHTLC` takes the
  tokens from there.  `transferFrom`'s result is not read, so for a token of
  `SilentTokens`, which returns false, the order goes on without having collected
  anything; the HTLC contract uses `safeTransferFrom` and reverts.
* **Cosmos contract.** One action per `ExecuteMsg`, the bank and swap messages
  it emits included, because a message that fails rolls everything back.
  The output of a swap is what the pool gives, at least the minimum.
* **Registry.** Only what the contract looks at is kept of chains and paths.
  `FindRoute` runs step by step but, being a query, with the storage at rest.
* **Monitor.** One action per stretch between two awaits.  A block has one event
  named by its height and version; a replaced block has another version.  `log`
  and `first` are history: what the handlers were given since delivery began.
* **Relayer's lives.** `stage` says which `await` of `main()` the process is in:
  the relay service, the Ethereum monitor's `start`, the services after it, or
  none any more.  `Exit` is a kill, the `process.exit(1)` after a service that
  did not start, and the exit at the end of the shutdown; it empties what is in
  memory, while the chain goes on.  A handler is a step (`HandOver`), by which
  `RelayService` begins a relay.  `waited` measures the time from the monitor's
  start to its first poll only.  The services in between take any time, since
  `main()` does not bound it, and the lives in which they take the polling
  interval or longer are in `late`: the monitor polls then, and what it delivers
  before the handlers are registered is heard by nobody.  `handed`, `late` and
  `began` are history.
* **Cosmos monitor.** Every height is asked for by itself and left out when that
  fails, so a range may end with holes; `FetchedIsHandled` and `EachHeightOnce`
  speak about those that were read.
* **Recovery service.** Time passes in the service's delays and in its calls: a
  call takes as long as the chain likes, or never ends, since none has a timeout.
  `slow` is the time that passed while a loop waited for one.  `upSince` is
  history: an HTLC is owed its refund by the service only while it ran and could
  see the HTLC.
* **Transfer.** An action is a stretch between two awaits.  The three questions
  for a route are three steps, between which the network and the caches may
  change.  A packet is remembered with its route and its timeouts.  Messages with
  source = destination are outside the assumption (the search answers the empty
  route).
* **Router.** Tables and messages as in the contract; the search runs step by
  step because pools come out of a `HashSet` in no order.  Fractions are integers
  in units of `One`, rounded down like `Decimal`.  A swap takes any hops its caller
  names (`CallerRoutes`), of a query or not: whether they chain, or are on the
  chain of their pool, the contract does not check.
* **Pools, stores, clients.** Arrays that a late caller still holds have names of
  their own (`ConnectionPool`); statements and commands on their way are
  messages, reordered for PostgreSQL's pool and in order for Redis' one
  connection (`HybridPersistence`); every checkout and statement may fail.  A
  pipeline of Redis is a set of commands of which any may be lost: it is no
  transaction, and its results are not looked at.  A stop of the pool closes
  what is there and clears the map some awaits later.
* **Archival.** What becomes of a batch depends on the destination: the stream of
  an archive takes the records out of the array whose ids are deleted afterwards,
  so that its rows are written and stay; rows to compress are written nowhere and
  go; an archive without a location throws.
* **Persistence manager.** An error reaches the manager by two ways, as the
  rejection of `connect()` and as an event of the provider, which it hands on
  before it schedules a retry.  `heard` says whether anybody listens: nobody in
  the relayer does, so that handing it on throws, inside a `connect()` to whoever
  called it, and from a socket to nobody, which ends the process (`up`).
* **Vault secrets.** A request is sent, served and answered at three moments: the
  provider reckons a lease from the answer, Vault from the request, and an answer
  may bring a version that was replaced on its way.  A configured token comes with
  any remainder of its life (`VaultInit`).  `lent` is what the token was given
  last; `replaced` and `answered` are history.
* **Error recovery.** One breaker, the relay's execution and within it the
  creation of the HTLC, both behind that breaker as in
  `processRelayWithRecovery`.  Operations succeed or fail by chance, delays are
  arbitrary, the breaker's two times are counters that `Tick` lowers.

## 3. The runs

Passing runs explore every reachable state of their instance.

| Run | Question | Bounds | States |
|---|---|---|---|
| `eth_htlc` | Does the contract stay solvent, settle once, leave refunds open and keep lists and limits honest whatever owner and users do? Does it implement `HashTimeLock`? | 2 accounts, 1 token, timelocks 2 and 4, clock to 4, limits 1 or 2 | 721,440 |
| `resolver_and_lives` | Resolver: does the HTLC contract stay solvent behind orders, paid or not, do makers pay for them, are their timelocks admitted, and are the configurations consistent under every setter? Lives: are the relays of all lives together final and repeated for recent blocks only, do short outages leave no gap, and has an event that nobody hears a cause other than a slow start? | resolver: 3 accounts, a token of each kind, 2 HTLCs, 2 configurations, clock to 2, arguments on both sides of every check; lives: 3 lives, head 3 to 5, buffer 1, batches of 2, 2 blocks back, polling every unit | 1,316,015 |
| `registry` | Do index, counters and routes agree with the paths? | 3 chains, 3 paths, 2 accounts, up to 2 hops | 664,182 |
| `monitor_and_recovery` | Does polling go on, and is delivery exactly once, in order, final and at last? Is the breaker's timer exact, does it close afresh and at last, do calls end? | monitor: buffer 2, batches of 2, head 4 to 5, 3 starts, 1 reset; recovery: 2 relays, 2 attempts of 2, thresholds 2, times 1 and 3 | 138,114 |
| `components` | Eight components, each with its own question: see below | see below | 2,779,952 |
| `more_components` | Seven components, each with its own question: see below | see below | 1,520,554 |

| Component in `components` | Property | Bounds |
|---|---|---|
| arrays (`SwapAndPop`) | `RemovesExactly`: the loops delete what they select | up to 4 elements, every subset |
| recovery (`RecoveryService`) | `TakenBackInTime`, `RefundsCounted` | one HTLC on each chain, two loops, window 6, clock to 6, one failing call, calls that take 1 unit together |
| monitor (`CosmosMonitor`) | `EachHeightOnce` | heights to 4, batches of 2, 2 starts, a reset |
| pool (`ConnectionPool`) | `OneUserWhileOpen`, `OvershootBounded` | 2 callers, 1 endpoint, limit 1, 4 connections, 1 start |
| persistence (`HybridPersistence`) | `DurableUnlessLeft`, `CachedIsIndexed` | 3 calls, 2 failures |
| archival (`ArchivalManager`) | `RunsDoTheirShare` | 3 rows, 2 jobs, batches of 1, 2 rows a run at most, policies that archive and that delete, 1 change by others |
| router (`Router`) | `FindsShortest`, `MinimumKept` | 4 denominations, pools of each kind, 3 hops, 4 changes; swaps along routes of a query and along hops that do not chain, leave their chain or have no pool |
| resolution (`RouterResolution`) | `AnswerAge` | lives 2 and 3, latency 1, clock to 5 |

| Component in `more_components` | Property | Bounds |
|---|---|---|
| htlc (`CosmosHTLC`) | `BalanceExplained`, `ImplementsHashTimeLock` | 2 accounts, 2 denominations, amounts 1 and 2, 2 HTLCs, clock to 2 |
| transfer (`MultiHopTransfer`) | `HopsReturnInTime` | 2 relays with different requests, 4 chains in two layouts, 3 requests, clock to 2, 2 attempts, one failed fetch |
| migrations (`Migrations`) | `NeverWaitsForItself` | 2 processes with 1 and 2 clients, 2 versions, 2 commands each |
| connections (`ConnectionManager`) | `ClientsAccountedFor` | 2 endpoints of 2 clients, 1 call, 2 overlapping health rounds |
| throttle (`RequestThrottle`) | `NoSlotIsLost` | 3 calls, limits 1 and 2, queue of 2, 1 retry, 1 update |
| manager (`PersistenceManager`) | `KeepsTrying` | the 3 kinds of store, heard or not, 2 retries, 4 failures |
| secrets (`VaultSecrets`) | `SecretsStayGood` | 2 readers, leases 4 and none, any remainder up to 6, token life 6, cache life 2, a unit in transit, 2 versions, 1 failure, clock to 7 |

Six runs show a violation ([section 6](#6-where-the-code-and-its-text-disagree)):
`resolver_refund`, `cosmos_covered`, `error_recovery_stop`,
`cosmos_monitor_handled`, `migrations_lock`, `archival_deletes`.

What each property says stands above it in its module.  Why the bounds are
enough to mean something:

* `eth_htlc`: an account can hold as many HTLCs as either limit allows and one
  more; timelocks lie inside, at and beyond the longest duration allowed; the
  clock passes the first timelock while a second HTLC is open, and the window
  slides once past everything stamped in it.  The owner changes the limits but not
  the window (`SameWindow`): see the hazard about `CrossChainHTLC.sol:285`.
* Resolver: maker, owner and the resolver contract are different accounts; each of
  the two contracts is pointed to either of two configurations, which the setters
  change apart from each other, so that the two maxima differ in both directions.
  With one token that reverts and one that does not, the contract holds some of
  the silent one when an order in it is not paid for.
* Registry: three paths suffice for parallel paths, for moving one over the
  other's entries and for the detour of a triangle.  Queries are asked with all
  chains registered (`MCNext`), since the search never reads `CHAINS`.
* Monitors: two blocks above the safe one, a batch smaller than what is left to
  read, a restart inside a batch and a second one with the first's poller still
  there, a reset behind and ahead of delivery, between two cycles, while the head or
  the events are asked for, and while they are delivered.
* Relayer's lives: a block above the safe one can be replaced before and after a
  life ends; with 2 blocks back and the head moving by 2, a life can begin among
  the blocks its predecessor handed over, just behind them, or too late for
  some, and three lives let the last repeat what the first or the second relayed.  With an
  interval of one unit the services are ready before the first poll, at it, or after
  it.
* Error recovery: enough attempts for the threshold to be reached inside one
  relay, across two attempts of one and across two relays; the reset timer
  outlasts one open period and a test, as 180 s outlasts 30 s in the code.
* Cosmos HTLC: two HTLCs can share a denomination or not, so that one may be
  paid with the coins of the other; both sides of a timelock occur.
* Recovery: the loop is stopped in its sleep and started again, so that two loops
  run; the clock goes beyond the bound of an HTLC that met a failing call, and
  beyond that of one that met a slow one; a clock that ends a unit
  earlier hides the seeded fault.
* Pool: with a limit of 1 two callers are enough to pass the check together; an
  endpoint's array is emptied, replaced and found again by a late caller;
  four connections are one more than an array may hold.
* Persistence: three calls are a write, what overtakes it and what reads after
  both; two failures let both stores fail in one call.
* Persistence manager: two retries can be used up by one attempt that both stores
  fail and by two attempts of one store; the failures left over come after that
  and while the first interval runs.
* Vault secrets: a lease of 4 is one unit longer than the wait and both ways
  together, and remainders of the configured token lie on both sides of that (up
  to its whole life); the token's life ends inside the
  second lease, and the clock goes beyond it; two readers overtake each other
  around a rotation.
* Archival: more rows than a run may take and more than one batch a run, so that
  the offset passes over rows; a policy that is replaced under a run, dry runs, a
  row that changes between selection and deletion, a file that is cut off.
* Router: two pools that change places under one id, a pool without liquidity
  in one of its denominations, a pool outside the discovery range, a cycle.
* Transfer: timelocks 8, 9 and 13 lie on both sides of what two and three hops
  need; the clock passes the caches' life between two questions for a route.
* Migrations: the two pools that the code makes, of one client and of more;
  a stale lock; two commands per process, so that the lock is met again.
* Connections and throttle: as many failing checks as an endpoint has clients; a
  limit that is raised and lowered while requests wait and retry.

`CHECK_DEADLOCK FALSE`: clocks, heights, calls and starts are bounded and the
loops of `SwapAndPop` end, so that every instance comes to rest.

Bounds that only the models have (their names begin with `Max` or `Last`):
`MaxTime`, `MaxHtlcs`, `MaxHead`, `MaxHeight`, `MaxStarts`, `MaxMonitorStarts`,
`MaxResets`, `MaxLength`, `LastTime`, `LastMoment`, `LastTick`, `LastHour`,
`MaxFaults`, `MaxSlow`, `MaxOpened`, `MaxArrays`, `MaxCalls`, `MaxFailures`,
`MaxRowChanges`, `MaxChanges`, `MaxFetchFailures`, `MaxRuns`, `MaxUpdates`,
`MaxTroubles`, `MaxLives`, `MaxVersions`, `MaxFailed`, `LastMinute`, and `Transit`.
Symmetry (accounts, secrets, denominations, path ids, callers, readers and jobs) is used
in runs without liveness properties only.

## 4. Fairness

Safety runs assume none.  `monitor_and_recovery` checks liveness of two components:

* the monitor (`EventuallyDelivered`): weak fairness for the timer, for
  handing an event to the handlers and for the end of a batch, because the
  runtime fires timers and resolves promises; strong fairness for the two
  requests, because a failed request is repeated every polling interval and the
  claim is about a node that answers again and again.  There is none for `Start`,
  `Stop`, the chain or failures.
* error recovery (`OpenEventuallyCloses`, `EveryCallEnds`): weak fairness for
  time, for the breaker's timer and for each call that was begun: its delays
  elapse and its operation has some result, which the code leaves to the
  timeouts of its clients.  No success is assumed, and trips by hand may go on
  for ever: `scheduleReset` keeps the first timer, which is why the breaker
  closes nevertheless.

`TakenBackInTime` says the same kind of thing with a bound, as safety: timers of the
service fire when they are due, and the time its calls take is counted and part
of the bound.  That a call ends is not assumed, and what its loop has still to
visit is not promised then.

## 5. The proofs

All theorems hold for every value of the constants that satisfies the named
assumption of their module: `ConfigAssumption`, `HTLCAssumption`,
`ResolverAssumption`, `CosmosAssumption`, `LengthAssumption`,
`RouteAssumption`, `MonitorAssumption`, `RelayerAssumption`, `RecoveryAssumption` (one of
`ErrorRecovery` and one of `RecoveryService`), `CosmosMonitorAssumption`,
`ResolutionAssumption`, `PoolAssumption`, `RouterAssumption`,
`MultiHopAssumption`, `MigrationAssumption`, `ConnectionAssumption`,
`ThrottleAssumption`, `VaultSecretsAssumption`, `PersistenceManagerAssumption`,
`ArchivalAssumption`.  Each stands at the head of its module with the values of
the code that meet it, and TLC evaluates it in the runs.  One theorem asks for more and says so:
`LimitsAreRespected` that the owner leaves the rate window alone (`SameWindow`;
without it the property is false, see the hazard about `CrossChainHTLC.sol:285`).
Where the code gives no guarantee the property carries the condition, not the
assumption: hops that chain, a token lent long enough, tokens that revert, the
time that calls took, the lives that were late.

The pattern is the same throughout: an inductive invariant, which TLC checked
before it was proved, one lemma for the initial states, one step per action, and
a temporal step.

| Module | Theorems | Argument |
|---|---|---|
| `FiniteSums` | laws of `SumFunctionOnSet` | The fold is a recursive function and the library's induction theorems take a predicate, which no prover here can instantiate.  Induction is therefore about a SET of good numbers or of good subsets (`NaturalsAreGood`, `SubsetsAreGood`): the least element outside of it would have a predecessor inside.  From there: the fold agrees with a sum computed element by element, in whichever order (`SumTakes`), and changes by one term when one element or one value does. |
| `EthereumContractsProofs` | `TypeCorrect`, `SettledAtMostOnce`, `TrackingIsExact`, `ConfigAlwaysConsistent`, `ContractIsHashTimeLock` | `IInv` adds `ConfigConsistent`, finiteness and `Solvent` to the three invariants. The list of an account loses an entry only by clean-up (expired or settled) or by the settlement of that entry, and time only takes obligations away from the lower bound. The refinement maps create to `Lock`, withdraw to `Claim`, refund to `TakeBack`, `Tick` to `TimePasses` and the rest to stuttering; `LockOf` is injective, which a claim of exactly one lock needs. |
| | `AlwaysSolvent` | the sum of what open HTLCs of a token hold moves with the balance: one term more by a creation, one less by a settlement, which `SettledOnce` allows only once. |
| | `RefundIsAlwaysOpen` | whatever refund can revert on is the guard `MayRefund`, the balance of the transfer included. An open HTLC was not executed, its sender is the caller, its timelock is over; and one term of a sum of non-negative terms is no more than the sum, which `Solvent` makes the balance. |
| | `LimitsAreRespected` | the lists bound what they list; `StampsComplete` says the real HTLCs of an account are among them, and of the stamps those inside the window are still there, because the sweep drops older ones only. |
| | `SolventBehindResolver`, `MakersPay`, `OrdersFitTheirTimelocks` | `RInv` is `IInv` with the resolver's configuration one of the deployed ones: an order is a creation in the name of the resolver contract, which the lemmas of `EthereumHTLC` cover. `CollectStep` says what the first transfer leaves in the resolver contract, by cases of approved and held, and `OrderStep` that the second takes as much of it, except of a silent token. `ClampBounds`: the cut deadline is one of two; that it is ahead of the clock needs a positive maximum, which is `ConfigConsistent`. |
| `CosmosHTLCProofs` | `TypeCorrect`, `ContractIsHashTimeLock` | types suffice: open, withdrawn and refunded are read off each HTLC's flags, a swap changes neither them nor the timelock (`SwapStep`). |
| | `BalanceAccountedFor` | a creation adds a term to the sum of what the HTLCs hold, and a settlement or a swap changes one term, as it changes the balance (of two denominations, for a swap). |
| `RegistryProofs` | `IndexIsSound` and `CountersAreExact`, together `RegistryIsConsistent` | soundness is inductive with types because every write and removal of the index treats both directions; counting uses the cardinality of a set with one element more, less or the same. |
| | `RoutesAreShortest` | `SearchInv` has an invisible companion of the search: a function `depth` that gives every chain met so far the level it was met on.  The queue is sorted by level and spans two of them, every link of a chain already expanded has been followed; so a chain at distance n has been met once level n is expanded, by induction along any walk. |
| `MonitorAndRecoveryProofs` | `PollingIsSound`, `DeliveryIsExactlyOnce`, `DeliveryIsFinal`, `TypeCorrect` | `MonitorInv`. `Chosen`: before a start block is chosen, and while a start asks for one, nothing polls. `StartsCounted`: a start under way counts as a poller to be. `Pipeline`: what is logged or queued lies at or below the safe block, with the version the chain has there, which no reorganisation of the assumed depth changes; the range of a batch is fixed when the head was read, whatever a reset does to `lastProcessedBlock` meanwhile. `DeliveryRestarts` is where a reset, or the failure of a batch after one, leaves delivery. |
| | `LivesTypeCorrect`, and `OnlyLateStartsLoseEvents` for `NothingIsEverMissed` (`RelayerLives`) | `LivesInv` is `MonitorInv` with what the process adds. `PhaseInv`: while `main()` is ahead of the handlers the monitor is freshly started, and in a life that is not late nothing has polled; nothing in `main()` resets the monitor, so a cycle that fails takes nothing back (`FailureKeeps`). |
| | `RelaysStaySound` (`RelaysStayTrue` and `OnlyRecentRepeats`), `NothingIsEverMissed` (with `ShortOutagesLoseNothing`) (`RelayerLives`) | `RecordInv`: this life's relays are exactly what its monitor delivered, so `MonitorInv` speaks of them; those of earlier lives were final when this one began, so they stay as they are and lie below its safe block. For the gap: a relay either follows one of its own life, which is the next height by exactly-once delivery, or is its life's first, and then the short outage supplies a relay at or beyond the height this life starts from. |
| | `BreakerTypeCorrect`, `TimerIsExact` and `ClosesAfresh`, together `BreakerIsSound` | each method of the breaker maps a good breaker to a good one (`Good`); then one step per action. |
| `ComponentsProofs` | `LoopsRemoveExactly`, `SweepStaysInBounds` (`SwapAndPop`) | `Progress`: everything above the index is kept for good, nothing was duplicated, what must stay is still there. `DropRemovesOne` is the heart: moving the last element into the hole loses exactly the element of the hole. |
| | `RefundsAreCounted` (`RecoveryService`) | `RefundInv`: refunds counted and looks that wait for a receipt together are no more than the locks taken back; only the transaction that succeeds enters the wait. |
| | `TakenBackWithinDelay` (`RecoveryService`) | `TimeInv`: while the service runs, some loop keeps its times (`Keeps`). A loop does if the sleep and the look under way end early enough for every HTLC that is owed (`OnTime`), and a round earlier if the rest of the round passes that HTLC by. `Ahead` is what is allowed for a look: the delay it waits out and, while its HTLC is open, a reserve that earlier failures paid for (each is charged a whole round) and that makes up for the longer delay when a late attempt loses a race. A failed call and a lost race lengthen it by no more than they add to the bound (`Charged`); a tick takes from what lies ahead of a loop that sleeps or waits what it adds to the clock, and where a loop is in a call it adds as much to `slow` (`TickKeeps`). The window of events matters once: an owed HTLC is still inside it when the round begins (`CheckStep`). |
| | `HeightsOnceInOrder` (`CosmosMonitor`) | what was handled lies at or below the end of the range under way, in order; a reset or a restart begins the count anew. |
| | `AnswersAreRecent` (`RouterResolution`) | both caches, every resolution under way and every answer are no older than the lives they still have to go through. |
| | `UsersAreAlone`, `ArraysStayBounded` (`ConnectionPool`) | `UserInv`: a caller between two awaits holds an open connection that is marked in use and that no other caller holds. `RoomInv`: an array, the callers about to add to it and the warm-up still to come stay below the limit by the number of callers that may have passed the check together. |
| | `PacketsKeepTheMinimum` (`Router`) | `AmountsExist`: the amounts along a chain of swaps exist for every length, by induction over a set of good lengths. So both recursive functions are what they say (`EstimatesAre`, `PacketsAre`), and equal hop by hop where each hop begins with what the one before gave (`PacketsAsEstimated`); without that they are not, and the theorem says nothing. |
| | `TheShortestIsFound` (`Router`) | `DistanceInv`, the same argument as for the registry's search with ghosts for what was marked and at which depth; marks are set when a denomination is met and pools of one id differ (`PoolsApart`). |
| `MoreComponentsProofs` | `HopsAlwaysReturn` (`MultiHopTransfer`) | `HopsInv` keeps of a planned transfer: its timeouts, computed at some earlier moment, are good if two units of time per hop were left then. Validation happens later and leaves `TimelockReductionPerHop + MinTimeBuffer`, which the assumption makes at least `2 * MaxTransferHops`. |
| | `OneClientIsEnough` (`Migrations`) | `MigrationInv`: every process is in place, that is ended or waiting without a client, or at a statement with exactly one; each helper releases before the next one connects. The integrity check is the exception, and is what waits for itself in a pool of one. |
| | `NoOtherClientIsLost` (`ConnectionManager`) | the clients out of an endpoint are those of its operations, of the rounds at their query, and those a failed check kept: three counts, each changed by one by every step of its own. |
| | `QueueGoesOn` (`RequestThrottle`) | `ThrottleInv`: every call waits once at most and only while it is queued. A request that ends trades its slot for a timer, and a timer starts the next request unless nothing waits or the present limit is used up already, which then is the limit the property asks for. |
| | `SecretsAreGood` (`VaultSecrets`) | `TokenInv`: the timer, the request or the answer under way leaves room for all that must still happen before the lease ends (`RenewedInTime`), or the token was lent less than `2 * Transit` and the delay (`IsLentLong`). `RecentInv`: a copy's life and the age it had when it arrived add up to the bound. `RefusedInv`: only a token that is not valid any more refuses. |
| `PersistenceProofs` | `ManagerNeverGivesUp` (`PersistenceManager`) | `ManagerInv`: intervals, retry timers and attempts that were not refused are counted together; whatever ends one of them starts another, or uses up a retry. Where nobody hears errors there is never more than one. |
| | `AnswersAreKept` (`HybridPersistence`) | `DurableInv`: as long as no write was left to itself, every statement under way belongs to the call in progress, and the row is what was promised before it or what it writes. |
| | `QueriesMissNothing` (`HybridPersistence`) | `AgainInv` and `IndexedInv`: Redis takes its commands in order, and what a command has read of the copy it is about to replace is still in the sets when it writes. |
| | `RunsDoWhatTheyMay` (`ArchivalManager`) | `BacklogInv`, of runs that nobody disturbed. One that deletes has a `Pace`: until half of the rows are gone, as many are gone as the offset passes over, since each batch takes what it selected and moves the offset by as much. One that archives makes `Progress`: the rows of as many places as the offset counts are in a file. `BatchSize` counts what LIMIT and OFFSET select. |

Only model-checked, and why:

* liveness (`EventuallyDelivered`, `OpenEventuallyCloses`, `EveryCallEnds`): the
  prover has no fairness.

Every other invariant and action property of the runs that pass is a theorem.

## 6. Where the code and its text disagree

Each has a run in which TLC finds the behaviour.

1. `resolver_refund`: the HTLC of an order belongs to the resolver contract,
   which has no function that calls `refund` (`FusionResolver.sol:90`).  Once
   expired and not withdrawn, nobody can refund it, where the repository's
   `README.md:16` promises refunds.
2. `cosmos_covered`: `execute_swap_and_lock` sells an HTLC's deposit and leaves
   its amount as it was (`contract.rs:389`), so withdraw and refund send coins
   that are gone, or another HTLC's, where `README.md:149` says "All-or-nothing".
3. `error_recovery_stop`: `emergencyStopSystem` resets the breakers under the
   comment "Trip all circuit breakers" (`error-recovery.ts:245`) and its flag is
   read before the first attempt only, so a call whose first attempt began before
   the stop goes on with its retries after it.
4. `cosmos_monitor_handled`: the test of an event wants attributes in plain
   form, its parser wants base64 (`cosmos-monitor-unified.ts:281` and `:370`, where
   a comment says "If not base64, return as-is"): whichever form a node uses, an
   event that was fetched reaches no handler.
5. `migrations_lock`: a lock that is gone between INSERT and SELECT is taken for
   one's own (`migrations.ts:491`), where `:65` says "Create migration lock table
   for concurrent safety": two migrators work at a time.
6. `archival_deletes`: `recordsToStream` shifts the records out of the array that
   the job holds (`archival-manager.ts:666`), so that the `DELETE` under the comment
   "Delete records if not dry run" (`:580`) gets no ids: a job that archives deletes
   nothing, counts nothing, and files the same rows again an hour later.

Met on the way, without a sentence in the repository to hold them against or
without a run of their own:

* Ethereum HTLC and configuration: lengthening the rate window lets an account
  exceed the rate; `setTimelockCascade` compares with a minimum that other
  setters change.  The Cosmos contract accepts a timelock a moment after the
  block time (`MIN_TIMELOCK_DURATION` is used nowhere) and executes a swap after
  its HTLC was settled.
* Resolver: the result of `transferFrom` is not read (`FusionResolver.sol:77`): an
  order in a token that returns false, whose maker has not paid, is paid for with
  what the resolver contract holds of it, if it holds enough.  That of `transfer`
  (`:111`) is not read either: a withdrawal that failed looks as one that did not.
* Registry: parallel paths take each other out of the index.
* Relayer: relays and the last block are in memory (`relay-service.ts:138`,
  `ethereum-monitor-unified.ts:80`), so that a new process begins recent relays a
  second time as new ones (`cross-chain-swap-e2e.test.ts:440` expects a swap to be
  "resumed from correct state", from a store the relay service does not use).
* Monitors: a reset during a batch is lost, unless the batch fails (`ResetToBlock`);
  handlers are registered after the
  monitor started (`index.ts:148`), and what a first poll delivers before that, since
  the services in between took a polling interval or longer, is lost; events of
  an outage of more than 100 blocks are never seen; on an Ethereum chain younger than 100 blocks the start block
  zero means "not chosen" (excluded by `MonitorAssumption`).  A height the Cosmos
  monitor could not read is lost for good.  The contract emits `withdraw` and
  `refund` where the monitor expects `withdraw_htlc` and `refund_htlc`.
* Relays: `multi-hop-manager.ts:155` finds no handler for Ethereum, since only
  `config.cosmos.chainId` has one, so every relay that starts there fails; a
  failed relay stays `relaying` and counts as pending for ever.
  `handleCosmosHTLC` does nothing (`relay-service.ts:153`), and no code withdraws the
  source with a secret that became public.  `README.md:150` says "Each hop has
  decreasing timelock": a direct transfer takes 3600 seconds off (`:336`), a
  multi-hop one passes the source's own timelock (`:361`), so that a withdrawal at
  the end of both would leave no time for the source, if a relay came that far.
* Recovery service: no call has a timeout.  One that never ends (`tx.wait()`,
  `recovery-service.ts:421`; `execute`, `:510`) stops its loop for good, without an
  error and with every HTLC it has still to visit.  HTLCs older than the window of
  events are not found.  `TakenBackInTime` counts the time of calls and excuses the
  latter.
* Acknowledgements: the handler passes the HTLC's id where the transfer's is
  wanted (`acknowledgment-handler.ts:131`), so that none is found.
* Router: the hops of a swap are the caller's (`contract.rs:196`), and nobody checks
  that one begins with what the one before gives, nor that a pool is on the chain
  named: the check of the minimum prices the denominations in the hops, the packets
  what is in hand (`:436`), so that the last packet may be worth less than the
  minimum.  The memo of a swap cannot be parsed by `ibc.rs`; acknowledgements and
  timeouts refund nobody; denominations are marked as visited for all routes
  together; one pool without liquidity fails a whole query; a price of zero
  divides by zero; pairs stay after a pool is updated; pools outside the
  discovery range are not found.
* Registry clients: an update by hand is overwritten by a resolution under way;
  the routes' cache lives as long as the last refresh of the channels' cache, so
  that routes come back to life, although a test says "should refresh cache when
  expired" (`route-discovery.test.ts:118`).
* Connection pool: errors that a provider reports (`ethereum-pool.ts:66`) do not count
  towards the breaker; a breaker never closes and its errors are never reset; a stop
  during the warm-up starts timers after it; connections in an array that was
  replaced are lost.
* Hybrid persistence: "Use pipeline for atomic operations"
  (`redis-provider.ts:102`) holds of no `pipeline()`, which is not `multi()`: single
  commands may fail, the result of `exec()` with their errors is not looked at, and
  a relay that was saved in part is missing from its sets until it changes again;
  completed relays stay in the pending set of Redis; a
  delete that races a background copy leaves the relay cached; an acknowledged
  write can be undone by a late statement of an earlier one, which is what
  `DurableUnlessLeft` leaves out.
* Persistence manager: once Redis is connected every retry is refused ("already
  connecting/connected"), so that with PostgreSQL down at the start a hybrid store
  stays unconnected until a restart; `gracefulDegradation` ("Allow fallback to
  single provider", `persistence-manager.ts:35`) is read nowhere; nobody hears the
  manager's `error` in `index.ts`, so an error of an idle connection ends the
  process; where somebody does, retries outlive `shutdown` and intervals that a
  later one took the name of go on for ever.
* Vault secrets: the token is renewed after a quarter of the lease, where the
  comment says "75% of the way to expiry" (`vault-secrets-provider.ts:528`); a
  configured token with little of its life left (`:413`) lapses before the renewal,
  which waits a minute at least (`:530`); a
  renewal that fails is the last one and the provider is never healthy again; at
  the end of the token's life reads fail while it calls itself healthy; a renewal
  under way at `destroy` sets the next timer.
* Archival: a policy that compresses writes nothing (`compressRecords` is a
  placeholder), deletes the rows all the same and counts them as archived (`:572`);
  cancelling changes a status only; the default archive policy has no location and
  always throws; intervals are scheduled twice and the first is
  lost; a row that changes between selection and deletion is deleted.
* Migrations: the release of a stale lock deletes whichever lock is there;
  `checkIntegrity` connects while it holds a client, and the persistence
  manager's pool has one ("Only need one connection for migrations",
  `enhanced-persistence-manager.ts:405`): it waits for itself for ever.
* PostgreSQL connections: a health check whose query fails keeps its client; after
  as many as the pool has, the endpoint never answers again (its header says
  "automatic recovery") and `shutdown` never ends; writes go to the first healthy
  endpoint even if it is read-only.
* Request queue: a raised limit is not used until a new request arrives; retries
  exceed the queue's limit; clearing it does not cancel them.

## 7. What is not modelled

* **The swap over both chains**: relays from Ethereum fail before they lock the
  target and nothing claims the source, so that there is no protocol in the code
  whose atomicity could be checked; see section 6.  The contracts' halves of it are
  `ImplementsHashTimeLock`, on both chains.
* **Relay service**: `handleCosmosHTLC`, which does nothing, and the branch of
  `processRelay` that is never taken.
* **Acknowledgement handler and packets on the other chains** (`ibc.rs` of the
  router): no live code calls the first, and the second parses another memo than
  the one that is sent.
* **Signing and pooled variants**: the signing pool creates a client per request
  and closes it on release; `PooledRecoveryService` is started by nothing; the
  pool manager is a map of pools.
* **Fusion relay service**: its transfers are placeholders that throw or do
  nothing.
* **Persistence**: opened by `index.ts` (`PersistenceManager`), used by no part of
  the protocol (relays live in memory, and a restart of the relayer forgets them, as
  `RelayerLives` has it).  Chain states,
  breaker states and metrics take the paths that `HybridPersistence` models for
  relays; the backup manager's incremental, log and restore functions are stubs;
  Redis' own connection manager repeats that of PostgreSQL.
* **Relayer's start-up** beyond the Ethereum monitor: the HTTP endpoints, which
  read and pass on, and the service container, which `main()` does not use.
* **Secrets** of the other providers, which hold no state beyond a cache like
  Vault's; in `VaultSecrets` the automatic refresh, which is off by default and
  reads like any caller, and `setSecret`, `deleteSecret` and `refreshSecret`, which
  nothing calls.
* **Request security, monitoring, tracing, configuration, shared
  libraries, frontend, scripts**: input and output, pure functions, or records
  of what happens.
* Inside the modelled parts: events and logs, gas, the contents of errors,
  amounts beyond small numbers (Solidity checks overflow and reverts), the
  breaker's `monitoringPeriod` (a failure just recorded is always inside it).

## 8. The plan

Order: first what holds funds, then what decides about them, then what drives
it, then what stores it.  Done: the modules of section 2 and the proofs of
section 5.  Left, in this order:

1. The router's packets on the other chains, once sender and receiver agree on a
   memo, over a channel that delivers once or times out.
2. `RelayerLives` composed with the Cosmos side: what a relay that is begun twice
   does to the second HTLC, whose id the contract chooses anew.

## 9. Running

```
tlc -workers 2 -config EthereumHTLC.cfg MCEthereumHTLC
tlapm RegistryProofs.tla
```

`PROJECT.json` names the module and the configuration of every run, the source
lines every definition stands for, the seeded fault of every property, the
hazards and the theorems.  The longest run takes three to four minutes with two
workers, all proofs together less than twenty minutes.
