-------------------------- MODULE RouterResolution --------------------------
(***************************************************************************)
(* The router address of one chain, through the two caches of               *)
(* relayer/src/registry: that of ChainRegistryClient, which asks the        *)
(* registry contract or the chain registries of the web, and over it that   *)
(* of RouterResolutionService, with retries and one resolution at a time.   *)
(* An address is modelled by the moment at which it was true: when a         *)
(* registry was read, or when an admin set it.                              *)
(***************************************************************************)
EXTENDS Integers

CONSTANTS
    ClientTimeout,      \* ChainRegistryClient.cacheTimeout
    ServiceTimeout,     \* config.cacheTimeout of the service; of an address an
                        \* admin took from a configuration, half of it
    RetryAttempts, ResolveDelay,
    Latency,            \* the longest a registry takes to answer
    Askers,             \* other callers of getRouterAddress (verifyRouterAddress)
    LastMoment          \* bound of the clock

ASSUME ResolutionAssumption ==
    /\ ClientTimeout \in Nat \ {0} /\ ServiceTimeout \in Nat \ {0}
    /\ Latency \in Nat

VARIABLES
    moment,
    clientCache,   \* routerCache of the client: how old the address was when it
                   \* was put there, and when that was; NoAddress
    serviceCache,  \* routerCache of the service, with the time it is good for
    lookups,       \* queries of registries under way, by who asks
    resolution,    \* the resolution in progress
    answer         \* the last address the service gave out, and when

resolutionVars == <<moment, clientCache, serviceCache, lookups, resolution, answer>>

Resolver == "resolver"
NoAddress == [asOf |-> -1, at |-> -1]
NoResolution == [at |-> "none", attempt |-> 0, wait |-> 0]
NoLookup == [at |-> "none", since |-> 0, asOf |-> -1]

ResolutionInit ==
    /\ moment = 0
    /\ clientCache = NoAddress /\ serviceCache = NoAddress
    /\ lookups = [k \in Askers \cup {Resolver} |-> NoLookup]
    /\ resolution = NoResolution
    /\ answer = NoAddress
-----------------------------------------------------------------------------
CachedByClient == clientCache # NoAddress /\ moment - clientCache.at < ClientTimeout
IsCacheValid == serviceCache # NoAddress /\ moment - serviceCache.at < serviceCache.for

Resolved(asOf) ==
    /\ serviceCache' = [asOf |-> asOf, at |-> moment, for |-> ServiceTimeout]
    /\ resolution' = NoResolution
    /\ answer' = [asOf |-> asOf, at |-> moment]

\* A registry is asked, and reads the address before it answers.
QueryRegistry(k) == lookups' = [lookups EXCEPT ![k] = [at |-> "asked", since |-> moment, asOf |-> -1]]

RegistryReads(k) ==
    /\ lookups[k].at = "asked"
    /\ lookups' = [lookups EXCEPT ![k].at = "read", ![k].asOf = moment]
    /\ UNCHANGED <<moment, clientCache, serviceCache, resolution, answer>>

\* The first registry that has an address: updateRouterCache.
RegistryAnswers(k) ==
    /\ lookups[k].at = "read"
    /\ clientCache' = [asOf |-> lookups[k].asOf, at |-> moment]
    /\ lookups' = [lookups EXCEPT ![k] = NoLookup]
    /\ IF k = Resolver THEN Resolved(lookups[k].asOf)
       ELSE UNCHANGED <<serviceCache, resolution, answer>>
    /\ UNCHANGED moment

\* None has: getRouterAddress throws, and the service tries again or gives up.
NoRegistryAnswers(k) ==
    /\ lookups[k] # NoLookup
    /\ lookups' = [lookups EXCEPT ![k] = NoLookup]
    /\ resolution' =
        IF k # Resolver THEN resolution
        ELSE IF resolution.attempt < RetryAttempts
        THEN [at |-> "delay", attempt |-> resolution.attempt, wait |-> ResolveDelay * resolution.attempt]
        ELSE NoResolution
    /\ UNCHANGED <<moment, clientCache, serviceCache, answer>>

\* An attempt: getRouterAddress of the client, for the service.
Attempt(n) ==
    IF CachedByClient
    THEN Resolved(clientCache.asOf) /\ UNCHANGED lookups
    ELSE /\ resolution' = [at |-> "lookup", attempt |-> n, wait |-> 0]
         /\ QueryRegistry(Resolver)
         /\ UNCHANGED <<serviceCache, answer>>

\* resolveRouterAddress; who asks during a resolution waits for its answer.
Resolve ==
    /\ resolution = NoResolution /\ ~IsCacheValid
    /\ Attempt(1)
    /\ UNCHANGED <<moment, clientCache>>

\* Seeded fault: an address in use stays in the cache.
FaultCacheHit ==
    /\ resolution = NoResolution /\ IsCacheValid
    /\ answer' = [asOf |-> serviceCache.asOf, at |-> moment]
    /\ serviceCache' = [serviceCache EXCEPT !.at = moment]
    /\ UNCHANGED <<moment, clientCache, lookups, resolution>>

CacheHit ==
    /\ resolution = NoResolution /\ IsCacheValid
    /\ answer' = [asOf |-> serviceCache.asOf, at |-> moment]
    /\ UNCHANGED <<moment, clientCache, serviceCache, lookups, resolution>>

ResolveAgain ==
    /\ resolution.at = "delay" /\ resolution.wait = 0
    /\ Attempt(resolution.attempt + 1)
    /\ UNCHANGED <<moment, clientCache>>

VerifyRouterAddress(k) ==
    /\ lookups[k] = NoLookup /\ ~CachedByClient
    /\ QueryRegistry(k)
    /\ UNCHANGED <<moment, clientCache, serviceCache, resolution, answer>>

\* A resolution under way overwrites it when it ends.
UpdateRouterAddress ==
    /\ \E time \in {ServiceTimeout, ServiceTimeout \div 2} :
        serviceCache' = [asOf |-> moment, at |-> moment, for |-> time]
    /\ UNCHANGED <<moment, clientCache, lookups, resolution, answer>>

ClearCache ==
    /\ serviceCache' = NoAddress
    /\ UNCHANGED <<moment, clientCache, lookups, resolution, answer>>

\* refreshAllData throws out what has expired long ago.
RefreshAllData ==
    /\ clientCache # NoAddress /\ moment - clientCache.at > 2 * ClientTimeout
    /\ clientCache' = NoAddress
    /\ UNCHANGED <<moment, serviceCache, lookups, resolution, answer>>

MomentPasses ==
    /\ moment < LastMoment
    /\ \A k \in DOMAIN lookups : lookups[k] # NoLookup => moment - lookups[k].since < Latency
    /\ resolution.at = "delay" => resolution.wait > 0
    /\ moment' = moment + 1
    /\ resolution' = [resolution EXCEPT !.wait = IF @ = 0 THEN 0 ELSE @ - 1]
    /\ UNCHANGED <<clientCache, serviceCache, lookups, answer>>

ResolutionNext ==
    \/ Resolve \/ CacheHit \/ ResolveAgain \/ UpdateRouterAddress \/ ClearCache
    \/ RefreshAllData \/ MomentPasses
    \/ \E k \in Askers : VerifyRouterAddress(k)
    \/ \E k \in Askers \cup {Resolver} : RegistryReads(k) \/ RegistryAnswers(k) \/ NoRegistryAnswers(k)

ResolutionSpec == ResolutionInit /\ [][ResolutionNext]_resolutionVars
-----------------------------------------------------------------------------
\* An address is old when the service gives it out, but never older than an
\* answer's latency and the lives of both caches together: an address of the
\* client that is about to expire begins a new life in the service, and that
\* happens once, whatever lookups overtake each other.
AnswerAge ==
    answer.at - answer.asOf <= Latency + (ClientTimeout - 1) + (ServiceTimeout - 1)
=============================================================================
