---------------------------- MODULE MCComponents ----------------------------
(***************************************************************************)
(* Components that share no state with each other, checked in one run: the  *)
(* initial state chooses the component to explore, and the others stay in   *)
(* one of their own initial states.                                         *)
(***************************************************************************)
EXTENDS SwapAndPop, RecoveryService, CosmosMonitor, ConnectionPool,
        HybridPersistence, ArchivalManager, Router, RouterResolution, TLC

VARIABLE part

Parts == {"arrays", "recovery", "monitor", "pool", "persistence", "archival",
          "router", "resolution"}

PoolRecord(id, chain, kind, fee, denoms, liquidity) ==
    [id |-> id, chain |-> chain, kind |-> kind, fee |-> fee, denoms |-> denoms,
     liquidity |-> liquidity]

\* Pools of each kind on two chains: two that change places under one id, one
\* emptied of a denomination, one without another and outside the discovery range.
MCPoolInfos == {
    PoolRecord(1, "x", "balancer", 1, {"a", "b"}, ("a" :> 8) @@ ("b" :> 8)),
    PoolRecord(1, "x", "stable", 1, {"a", "c"}, ("a" :> 8) @@ ("c" :> 8)),
    PoolRecord(2, "y", "concentrated", 0, {"b", "c"}, ("b" :> 4) @@ ("c" :> 8)),
    PoolRecord(3, "y", "stable", 0, {"c", "d"}, ("c" :> 9) @@ ("d" :> 9)),
    PoolRecord(3, "y", "concentrated", 0, {"c", "d"}, ("c" :> 0) @@ ("d" :> 9)),
    PoolRecord(4, "x", "stable", 2, {"b", "c", "d"}, ("b" :> 9) @@ ("c" :> 8) @@ ("d" :> 7)),
    PoolRecord(9, "x", "stable", 0, {"a", "d"}, "a" :> 9)}

\* What a caller may name: routes a search finds, of one to three hops, and hops
\* that do not chain, leave their chain, or that no pool prices.
HopOf(id, chain, in, out) == [pool |-> id, chain |-> chain, in |-> in, out |-> out]
MCRoutes == {
    <<>>,
    <<HopOf(1, "x", "a", "b")>>,
    <<HopOf(9, "x", "a", "d")>>,
    <<HopOf(1, "x", "a", "b"), HopOf(4, "x", "b", "d")>>,
    <<HopOf(1, "y", "a", "c"), HopOf(3, "y", "c", "d")>>,
    <<HopOf(2, "y", "b", "c"), HopOf(3, "y", "c", "d")>>,
    <<HopOf(4, "x", "b", "d"), HopOf(2, "y", "b", "c")>>,
    <<HopOf(4, "x", "c", "b"), HopOf(1, "x", "a", "b"), HopOf(2, "y", "b", "c")>>,
    <<HopOf(1, "x", "a", "b"), HopOf(2, "y", "b", "c"), HopOf(3, "y", "c", "d")>>}
MCQueries == {<<"a", "d">>, <<"b", "d">>}

\* The callers of the pool, the recovery loops and the archival jobs are names
\* of the same two values, so that one permutation serves all three.
MCSymmetry == Permutations(Callers)

MCInit ==
    /\ part \in Parts
    /\ Init /\ (part # "arrays" => given = << >> /\ pc = "sweep" /\ doomed = {})
    /\ RecoveryInit
    /\ CosmosMonitorInit
    /\ (part # "monitor" => /\ lastHeight = 0 /\ encoding = "plain"
                            /\ \A h \in DOMAIN events : events[h] = "create_htlc")
    /\ PoolInit /\ HybridInit /\ ArchivalInit /\ RouterInit /\ ResolutionInit

MCNext ==
    /\ UNCHANGED part
    /\ \/ part = "arrays" /\ Next
          /\ UNCHANGED <<recoveryVars, cosmosMonitorVars, poolVars,
                         hybridVars, archivalVars, routerVars, resolutionVars>>
       \/ part = "recovery" /\ RecoveryNext
          /\ UNCHANGED <<vars, cosmosMonitorVars, poolVars,
                         hybridVars, archivalVars, routerVars, resolutionVars>>
       \/ part = "monitor" /\ CosmosMonitorNext
          /\ UNCHANGED <<vars, recoveryVars, poolVars,
                         hybridVars, archivalVars, routerVars, resolutionVars>>
       \/ part = "pool" /\ PoolNext
          /\ UNCHANGED <<vars, recoveryVars, cosmosMonitorVars,
                         hybridVars, archivalVars, routerVars, resolutionVars>>
       \/ part = "persistence" /\ HybridNext
          /\ UNCHANGED <<vars, recoveryVars, cosmosMonitorVars,
                         poolVars, archivalVars, routerVars, resolutionVars>>
       \/ part = "archival" /\ ArchivalNext
          /\ UNCHANGED <<vars, recoveryVars, cosmosMonitorVars,
                         poolVars, hybridVars, routerVars, resolutionVars>>
       \/ part = "router" /\ RouterNext
          /\ UNCHANGED <<vars, recoveryVars, cosmosMonitorVars,
                         poolVars, hybridVars, archivalVars, resolutionVars>>
       \/ part = "resolution" /\ ResolutionNext
          /\ UNCHANGED <<vars, recoveryVars, cosmosMonitorVars,
                         poolVars, hybridVars, archivalVars, routerVars>>

MCSpec == MCInit /\ [][MCNext]_<<part, vars, recoveryVars, cosmosMonitorVars, poolVars,
                                hybridVars, archivalVars, routerVars, resolutionVars>>
=============================================================================
