-------------------------- MODULE MultiHopTransfer --------------------------
(***************************************************************************)
(* The way of a relay through the relayer: RelayService keeps it and tries   *)
(* again, MultiHopManager plans, validates and sends the transfer, and       *)
(* RouteDiscovery answers from two caches with one date.  A transfer asks    *)
(* for its route three times, with awaits in between: for the source         *)
(* channel, for the timeouts of its hops and for what is validated and       *)
(* tracked.  An action is what runs between two awaits.                      *)
(*                                                                         *)
(* A route is the sequence of its chains, << >> when there is none.          *)
(***************************************************************************)
EXTENDS Integers, Sequences

CONSTANTS
    Networks,           \* the sets of open channels the registry may list
    Relays,             \* names of the relays
    Requests,           \* their source, destination and timelock
    HandlerChains,      \* chains with an IBC handler: config.cosmos.chainId
    CacheTimeout,
    MaxPathLength,      \* chains on a route, at most
    MaxTransferHops,    \* config.maxHops
    HopTimeout,
    TimelockReductionPerHop,
    MinTimeBuffer,      \* half of timeoutBuffer
    MaxRelayAttempts,
    LastTick, MaxFetchFailures  \* bounds of the model

VARIABLES
    network,        \* what the registry lists, directed channels
    clock,
    channelCache, routeCache, lastCacheUpdate,
    relay,          \* pendingRelays with the execution of each
    transfers,      \* MultiHopManager.transfers, by relay in order of creation
    packets,        \* what was broadcast: the relay, its route and the timeouts
    fetchFailures

multiHopVars == <<network, clock, channelCache, routeCache, lastCacheUpdate,
                  relay, transfers, packets, fetchFailures>>
discoveryVars == <<channelCache, routeCache, lastCacheUpdate>>

NoRoute == << >>

ASSUME MultiHopAssumption ==
    /\ {CacheTimeout, MaxPathLength, MaxTransferHops, HopTimeout, MaxRelayAttempts}
            \subseteq Nat \ {0}
    /\ {TimelockReductionPerHop, MinTimeBuffer} \subseteq Nat
    /\ TimelockReductionPerHop + MinTimeBuffer >= 2 * MaxTransferHops
    /\ \A q \in Requests : q.source # q.dest /\ q.timelock \in Nat

Hops(route) == Len(route) - 1

New(q) == [request |-> q, pc |-> "event", status |-> "pending", attempts |-> 0,
           fetching |-> FALSE, timeouts |-> << >>]

MultiHopInit ==
    /\ network \in Networks
    /\ clock = 0
    /\ \/ channelCache = network /\ lastCacheUpdate = 0
       \/ channelCache = {} /\ lastCacheUpdate = -CacheTimeout
    /\ routeCache = << >>
    /\ relay \in [Relays -> {New(q) : q \in Requests}]
    /\ transfers = [r \in Relays |-> << >>]
    /\ packets = {}
    /\ fetchFailures = 0
-----------------------------------------------------------------------------
(* RouteDiscovery *)

\* The search marks chains when it queues them, the target too, so that it finds
\* one route at most: a shortest one, which of them the registry's order decides.
Walks(links, from, to) ==
    {w \in UNION {[1 .. n -> {from, to} \cup UNION {{l[1], l[2]} : l \in links}] :
                                                         n \in 1 .. MaxPathLength} :
        /\ w[1] = from /\ w[Len(w)] = to
        /\ \A i \in 1 .. Hops(w) : <<w[i], w[i + 1]>> \in links}

CalculateRoutes(links, from, to) ==
    LET walks == Walks(links, from, to)
    IN  IF walks = {} THEN {NoRoute}
        ELSE {w \in walks : \A v \in walks : Len(w) <= Len(v)}

CacheValid == clock - lastCacheUpdate < CacheTimeout
Key(r) == <<relay[r].request.source, relay[r].request.dest>>
Searches(r) == relay[r].pc \in {"channel", "plan", "track"}

Cached(key, route) == [k \in DOMAIN routeCache \cup {key} |->
                            IF k = key THEN route ELSE routeCache[k]]
-----------------------------------------------------------------------------
(* MultiHopManager and PacketForwardMiddleware *)

Transfer(status, route) == [status |-> status, route |-> route]
\* The last transfer of a relay is the one under way.
Tracked(r, status, route) ==
    [transfers EXCEPT ![r] = [@ EXCEPT ![Len(transfers[r])] = Transfer(status, route)]]
Route(r) == transfers[r][Len(transfers[r])].route

\* buildForwardPaths: each hop times out one share after the one it forwards to.
Half(timelock, hops) == ((timelock - clock) \div hops) \div 2
\* Seeded fault: the hops share all of the time that is left.
FaultShare(timelock, hops) ==
    IF (timelock - clock) \div hops < HopTimeout THEN (timelock - clock) \div hops ELSE HopTimeout

Share(timelock, hops) ==
    IF Half(timelock, hops) < HopTimeout THEN Half(timelock, hops) ELSE HopTimeout
Timeouts(timelock, hops) ==
    [i \in 1 .. hops |-> clock + Share(timelock, hops) * (hops - i + 1)]

\* validateTimelocksForRoute
InTime(timelock, hops) ==
    \A i \in 1 .. hops :
        timelock - TimelockReductionPerHop * i - clock >= MinTimeBuffer

Goes(r, pc) == [relay EXCEPT ![r].pc = pc, ![r].fetching = FALSE]

\* The transfer fails, and executeWithRecovery waits for the next attempt or gives
\* up.  No status says so: the relay stays "relaying".
Fails(r, route) ==
    /\ transfers' = Tracked(r, "failed", route)
    /\ relay' = Goes(r, IF relay[r].attempts < MaxRelayAttempts THEN "sleep" ELSE "failed")

\* getSourceChannel: no route is no reason to stop, channel-0 is the fallback.
ChannelChosen(r) ==
    /\ relay[r].pc = "channel"
    /\ transfers' = [transfers EXCEPT ![r] = Append(@, Transfer("routing", NoRoute))]
    /\ relay' = Goes(r, "plan")

CanPlan(route) == route # NoRoute /\ Len(route) <= MaxTransferHops + 1
Planned(r, route) ==
    /\ relay[r].pc = "plan" /\ CanPlan(route)
    /\ relay' = [Goes(r, "track") EXCEPT
                     ![r].timeouts = Timeouts(relay[r].request.timelock, Hops(route))]
    /\ UNCHANGED transfers

\* An empty answer leaves routes[0] undefined, which throws in the validation.
CanSend(r, route) ==
    /\ route # NoRoute /\ InTime(relay[r].request.timelock, Hops(route))
    /\ relay[r].request.source \in HandlerChains
Validated(r, route) ==
    /\ relay[r].pc = "track" /\ CanSend(r, route)
    /\ transfers' = Tracked(r, "transferring", route)
    /\ relay' = Goes(r, "send")

Found(r, route) ==
    /\ \/ ChannelChosen(r)
       \/ Planned(r, route)
       \/ Validated(r, route)
       \/ relay[r].pc = "plan" /\ ~CanPlan(route) /\ Fails(r, NoRoute)
       \/ relay[r].pc = "track" /\ ~CanSend(r, route) /\ Fails(r, route)
    /\ UNCHANGED packets

FoundAmong(r, links) ==
    \E route \in CalculateRoutes(links, Key(r)[1], Key(r)[2]) :
        routeCache' = Cached(Key(r), route) /\ Found(r, route)

\* findRoutes, answered from the cache.  One date stands for both caches, so that
\* a route of an earlier reading is valid again when another search renews it.
AnsweredFromCache(r) ==
    /\ Searches(r) /\ ~relay[r].fetching
    /\ CacheValid /\ Key(r) \in DOMAIN routeCache
    /\ Found(r, routeCache[Key(r)])
    /\ UNCHANGED <<network, clock, discoveryVars, fetchFailures>>

\* findRoutes, the channels being recent but not this route.
Calculate(r) ==
    /\ Searches(r) /\ ~relay[r].fetching
    /\ CacheValid /\ Key(r) \notin DOMAIN routeCache
    /\ FoundAmong(r, channelCache)
    /\ UNCHANGED <<network, clock, channelCache, lastCacheUpdate, fetchFailures>>

AskRegistry(r) ==
    /\ Searches(r) /\ ~relay[r].fetching
    /\ ~CacheValid
    /\ relay' = [relay EXCEPT ![r].fetching = TRUE]
    /\ UNCHANGED <<network, clock, discoveryVars, transfers, packets, fetchFailures>>

RegistryListsChannels(r) ==
    /\ relay[r].fetching
    /\ FoundAmong(r, network)
    /\ channelCache' = network
    /\ lastCacheUpdate' = clock
    /\ UNCHANGED <<network, clock, fetchFailures>>

\* A failed update is logged; the search goes on with the channels of old, and its
\* answer is cached all the same.
RegistryFails(r) ==
    /\ relay[r].fetching
    /\ fetchFailures < MaxFetchFailures
    /\ fetchFailures' = fetchFailures + 1
    /\ FoundAmong(r, channelCache)
    /\ UNCHANGED <<network, clock, channelCache, lastCacheUpdate>>
-----------------------------------------------------------------------------
(* RelayService and IBCPacketHandler *)

RelayAttempt(r) ==
    /\ relay[r].pc \in {"event", "sleep"}
    /\ relay' = [relay EXCEPT ![r].pc = "channel", ![r].status = "relaying",
                              ![r].attempts = @ + 1]
    /\ UNCHANGED <<network, clock, discoveryVars, transfers, packets, fetchFailures>>

Packet(r) == [relay |-> r, attempt |-> relay[r].attempts, timeouts |-> relay[r].timeouts]

\* A transfer counts as completed when it was broadcast.
Broadcast(r) ==
    /\ relay[r].pc = "send"
    /\ packets' = packets \cup {Packet(r)}
    /\ transfers' = Tracked(r, "completed", Route(r))
    /\ relay' = [Goes(r, "completed") EXCEPT ![r].status = "completed"]
    /\ UNCHANGED <<network, clock, discoveryVars, fetchFailures>>

\* signAndBroadcast throws, after the transaction was included or without it.
BroadcastFails(r) ==
    /\ relay[r].pc = "send"
    /\ packets' \in {packets, packets \cup {Packet(r)}}
    /\ Fails(r, Route(r))
    /\ UNCHANGED <<network, clock, discoveryVars, fetchFailures>>
-----------------------------------------------------------------------------
NetworkChanges ==
    /\ network' \in Networks \ {network}
    /\ UNCHANGED <<clock, discoveryVars, relay, transfers, packets, fetchFailures>>

ClockTicks ==
    /\ clock < LastTick
    /\ clock' = clock + 1
    /\ UNCHANGED <<network, discoveryVars, relay, transfers, packets, fetchFailures>>

MultiHopNext ==
    \/ \E r \in Relays :
          \/ RelayAttempt(r) \/ AnsweredFromCache(r) \/ Calculate(r) \/ AskRegistry(r)
          \/ RegistryListsChannels(r) \/ RegistryFails(r)
          \/ Broadcast(r) \/ BroadcastFails(r)
    \/ NetworkChanges \/ ClockTicks

MultiHopSpec == MultiHopInit /\ [][MultiHopNext]_multiHopVars
-----------------------------------------------------------------------------
\* Every hop of a packet gives up before the one that forwarded to it, so that it
\* can still return the tokens, and the first before the HTLC can be refunded:
\* although the timeouts were computed for one reading of the registry and the
\* time was validated for another route, at a later moment.
HopsReturnInTime ==
    \A p \in packets :
        /\ p.timeouts # << >> /\ p.timeouts[1] < relay[p.relay].request.timelock
        /\ \A i \in 1 .. Len(p.timeouts) - 1 : p.timeouts[i] > p.timeouts[i + 1]
=============================================================================
