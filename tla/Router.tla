------------------------------- MODULE Router -------------------------------
(***************************************************************************)
(* The router contract (contracts/cosmwasm/router/src): the admin's tables  *)
(* of pools, chains and routers, the search for swap routes over the pools, *)
(* and the packets a swap sends along a route.                              *)
(*                                                                         *)
(* The search is one query of the contract and shown step by step, since    *)
(* the pools of a denomination come out of a HashSet in no order; that of   *)
(* the denominations within a pool is left open too.  Amounts are integers, *)
(* fractions are in units of One, rounded down as the contract's are.       *)
(***************************************************************************)
EXTENDS Integers, Sequences, FiniteSets

CONSTANTS
    Denoms,
    PoolInfos,     \* pools an admin may register: id, chain, kind, denoms,
                   \* liquidity (of some of the denoms), fee
    Discovered,    \* pool ids in config.routing.pool_discovery_range
    MaxHops, MaxRoutes, MinimalAmount,  \* config.routing
    SupportedChains, RegistryRouters,   \* chains known from the beginning, here
                                        \* and with a router in the registry contract
    MaxAnswers,    \* routes a query returns at most
    Queries, Amounts, MinOutputs,       \* what callers ask for and send
    CallerRoutes,  \* the hops callers may name in a swap, whatever they are
    One,           \* the unit of Decimal
    NoNode,
    MaxChanges     \* bound: changes of the tables

VARIABLES
    pools,       \* POOL_REGISTRY: the pools, no two of an id
    pairs,       \* POOL_PAIRS: <<denom, denom, pool id>>
    configured,  \* chains with an entry of CHAIN_CONFIGS
    routers,     \* chains with a router, in the registry contract or here
    search,      \* the query under way
    sent,        \* the packets that left in the step just taken, by a swap
    changes

routerVars == <<pools, pairs, configured, routers, search, sent, changes>>

ASSUME RouterAssumption ==
    /\ Queries \subseteq Denoms \X Denoms /\ MaxHops \in Nat
    /\ \A r \in CallerRoutes : r \in Seq({r[k] : k \in 1 .. Len(r)})

PoolIds == {p.id : p \in PoolInfos}
Chains == {p.chain : p \in PoolInfos}
Pool(id) == CHOOSE p \in pools : p.id = id
Registered(id) == \E p \in pools : p.id = id

NoSearch == [at |-> "none", routes |-> {}]
NoSwap == [packets |-> <<>>, route |-> <<>>, minOutput |-> 0]

RouterInit ==
    /\ pools = {} /\ pairs = {}
    /\ configured = SupportedChains /\ routers = RegistryRouters
    /\ search = NoSearch /\ sent = NoSwap /\ changes = 0
-----------------------------------------------------------------------------
\* The admin's operations; others are refused.
Changes ==
    /\ search.at # "searching"
    /\ changes < MaxChanges /\ changes' = changes + 1
    /\ sent' = NoSwap /\ UNCHANGED search

RegisterPool(p) ==
    /\ Changes
    /\ ~Registered(p.id) /\ Cardinality(p.denoms) >= 2
    /\ pools' = pools \cup {p}
    /\ pairs' = pairs \cup {t \in p.denoms \X p.denoms \X {p.id} : t[1] # t[2]}
    /\ UNCHANGED <<configured, routers>>

\* The index of pairs stays as it was.
UpdatePoolInfo(p) ==
    /\ Changes
    /\ Registered(p.id) /\ Cardinality(p.denoms) >= 2
    /\ pools' = {q \in pools : q.id # p.id} \cup {p}
    /\ UNCHANGED <<pairs, configured, routers>>

UpdateChainConfig(c) ==
    /\ Changes /\ configured' = configured \cup {c}
    /\ UNCHANGED <<pools, pairs, routers>>

RegisterRouter(c) ==
    /\ Changes /\ routers' = routers \cup {c}
    /\ UNCHANGED <<pools, pairs, configured>>

\* Here, in the registry contract, or by another registry contract.
RemoveRouter(c) ==
    /\ Changes /\ c \in routers /\ routers' = routers \ {c}
    /\ UNCHANGED <<pools, pairs, configured>>
-----------------------------------------------------------------------------
AfterFee(p, amount) == (amount * (One - p.fee)) \div One

\* What calculate_swap_output needs to give an answer: the denominations in the
\* pool's liquidity, and no division by zero in the formula of its kind.
Priced(p, in, out, amount) ==
    /\ {in, out} \subseteq DOMAIN p.liquidity
    /\ p.kind = "balancer" => p.liquidity[in] + AfterFee(p, amount) > 0
    /\ p.kind = "concentrated" => p.liquidity[in] > 0

\* calculate_swap_output
SwapOutput(p, in, out, amount) ==
    LET net == AfterFee(p, amount)
        left == p.liquidity[in]
        right == p.liquidity[out]
    IN
    CASE p.kind = "balancer" -> (right * (One - (left * One) \div (left + net))) \div One
      [] p.kind = "stable" -> net
      [] p.kind = "concentrated" -> (net * ((right * One) \div left)) \div One

\* estimate_multi_hop_swap: the amount before each hop, and after the last.
Estimates(route, amount) ==
    LET e[k \in 1 .. Len(route) + 1] ==
            IF k = 1 THEN amount
            ELSE SwapOutput(Pool(route[k - 1].pool), route[k - 1].in, route[k - 1].out, e[k - 1])
    IN e
Estimate(route, amount) == Estimates(route, amount)[Len(route) + 1]
Estimable(route, amount) ==
    \A k \in 1 .. Len(route) :
        /\ Registered(route[k].pool)
        /\ Priced(Pool(route[k].pool), route[k].in, route[k].out, Estimates(route, amount)[k])

Hop(p, in, out) == [pool |-> p.id, chain |-> p.chain, in |-> in, out |-> out]

\* find_best_routes
FindBestRoute(from, to, amount, hops) ==
    /\ search.at # "searching"
    /\ search' = [at |-> "searching", from |-> from, to |-> to, amount |-> amount, hops |-> hops,
                  queue |-> <<[denom |-> from, amount |-> amount, path |-> <<>>]>>,
                  visited |-> {from}, node |-> NoNode, todo |-> {}, found |-> {}, routes |-> {}]
    /\ sent' = NoSwap /\ UNCHANGED <<pools, pairs, configured, routers, changes>>

Searching ==
    /\ search.at = "searching" /\ sent' = NoSwap
    /\ UNCHANGED <<pools, pairs, configured, routers, changes>>

\* Marks stop, and the exploring goes on, once the routes are many.
Explored(denom) ==
    IF Cardinality(search.found) < MaxRoutes THEN search.visited \cup {denom} ELSE search.visited

\* Seeded fault: one hop too many.
FaultGoesOn(node) == Len(node.path) <= search.hops
GoesOn(node) == Len(node.path) < search.hops

Dequeue ==
    /\ Searching /\ search.todo = {} /\ search.queue # <<>>
    /\ LET node == Head(search.queue) IN
       search' = [search EXCEPT
            !.queue = Tail(@), !.node = node,
            !.todo = {t \in Discovered \X Denoms :
                        /\ GoesOn(node)
                        /\ Registered(t[1]) /\ t[2] # node.denom
                        /\ {node.denom, t[2]} \subseteq Pool(t[1]).denoms}]

\* One denomination of one pool of the node taken out.  A pool that cannot
\* price the hop ends the whole search with an error.
Visit(t) ==
    /\ Searching /\ t \in search.todo
    /\ LET p == Pool(t[1])
           n == search.node
           next == [denom |-> t[2], amount |-> SwapOutput(p, n.denom, t[2], n.amount),
                    path |-> Append(n.path, Hop(p, n.denom, t[2]))]
           rest == [search EXCEPT !.todo = @ \ {t}]
       IN
       \/ t[2] \in search.visited /\ search' = rest
       \/ t[2] \notin search.visited /\ ~Priced(p, n.denom, t[2], n.amount) /\ search' = NoSearch
       \/ /\ t[2] \notin search.visited /\ Priced(p, n.denom, t[2], n.amount)
          /\ \/ t[2] = search.to /\ search' = [rest EXCEPT !.found = @ \cup {next}]
             \/ /\ t[2] # search.to
                /\ search' = [rest EXCEPT !.queue = Append(@, next), !.visited = Explored(t[2])]

\* The price impact of the best route: a swap of the minimal amount that yields
\* nothing is a division by zero, and the query fails though it has routes.
Impact(route) ==
    \A amount \in {MinimalAmount, search.amount} :
        Estimable(route, amount) /\ Estimate(route, amount) > 0

\* The routes a query returns: the best found, ties left open.
Best(kept) ==
    /\ Cardinality(kept) <= MaxAnswers
    /\ \A r \in search.found \ kept :
        Cardinality(kept) = MaxAnswers /\ \A k \in kept : r.amount <= k.amount

Answer ==
    /\ Searching /\ search.todo = {} /\ search.queue = <<>>
    /\ \/ search.found = {} /\ search' = [search EXCEPT !.at = "answered"]
       \/ \E kept \in SUBSET search.found : \E first \in kept :
            /\ Best(kept) /\ \A r \in kept : r.amount <= first.amount
            /\ search' = IF Impact(first.path)
                         THEN [search EXCEPT !.at = "answered", !.routes = {r.path : r \in kept}]
                         ELSE NoSearch
-----------------------------------------------------------------------------
\* The denomination in hand at a hop: the one sent, then what the hop before gave.
InHand(route, denom, k) == IF k = 1 THEN denom ELSE route[k - 1].out

\* Seeded fault: the swap at a hop is priced with the amount that came in.
FaultPacketAmounts(route, denom, amount) == [k \in 1 .. Len(route) |-> amount]

\* build_multi_hop_messages: the amounts, each priced where the one before ends.
PacketAmounts(route, denom, amount) ==
    LET a[k \in 1 .. Len(route)] ==
            IF k = 1 THEN amount
            ELSE SwapOutput(Pool(route[k - 1].pool), InHand(route, denom, k - 1),
                            route[k - 1].out, a[k - 1])
    IN a

Buildable(route, denom, amount) ==
    /\ \A k \in 1 .. Len(route) :
        /\ route[k].chain \in configured
        /\ k < Len(route) => {route[k].chain, route[k + 1].chain} \subseteq routers
    /\ \A k \in 1 .. Len(route) - 1 :
        Priced(Pool(route[k].pool), InHand(route, denom, k), route[k].out,
               PacketAmounts(route, denom, amount)[k])

\* execute_multi_hop_swap, along hops the caller names: nobody checks that one
\* begins where the one before ends, nor the chain of the pool.  All packets
\* leave this contract at once; the last one carries the minimum.
ExecuteMultiHopSwap(route, denom, amount, minOutput) ==
    /\ search.at # "searching"
    /\ route # <<>> /\ Estimable(route, amount) /\ Estimate(route, amount) >= minOutput
    /\ Buildable(route, denom, amount)
    /\ sent' = [route |-> route, minOutput |-> minOutput,
                packets |-> [k \in 1 .. Len(route) |->
                    [denom |-> InHand(route, denom, k),
                     amount |-> PacketAmounts(route, denom, amount)[k]]]]
    /\ UNCHANGED <<pools, pairs, configured, routers, search, changes>>

RouterNext ==
    \/ \E p \in PoolInfos : RegisterPool(p) \/ UpdatePoolInfo(p)
    \/ \E c \in Chains : UpdateChainConfig(c) \/ RegisterRouter(c) \/ RemoveRouter(c)
    \/ \E q \in Queries, a \in Amounts, h \in 1 .. MaxHops : FindBestRoute(q[1], q[2], a, h)
    \/ Dequeue \/ Answer
    \/ \E t \in PoolIds \X Denoms : Visit(t)
    \/ \E r \in CallerRoutes, d \in Denoms, a \in Amounts, m \in MinOutputs :
            ExecuteMultiHopSwap(r, d, a, m)

RouterSpec == RouterInit /\ [][RouterNext]_routerVars
-----------------------------------------------------------------------------
\* There is a walk of k hops over discovered pools.
Walk(from, to, k) ==
    \E w \in [0 .. k -> Denoms] :
        /\ w[0] = from /\ w[k] = to
        /\ \A j \in 1 .. k : \E p \in pools :
            p.id \in Discovered /\ {w[j - 1], w[j]} \subseteq p.denoms /\ w[j - 1] # w[j]

\* A search that marks denominations for all routes at once loses routes, but
\* never the last one, nor all shortest ones, in whatever order the pools come:
\* it has a route of k hops and none shorter if that is how far apart the two
\* are, and none exactly if they are more than the hops allowed apart.
FindsShortest ==
    search.at = "searching" /\ search.queue = <<>> /\ search.todo = {} /\ search.from # search.to =>
        LET apart == {k \in 1 .. search.hops : Walk(search.from, search.to, k)}
            lengths == {Len(r.path) : r \in search.found}
        IN /\ (apart = {}) <=> (lengths = {})
           /\ \A k \in lengths : \E m \in lengths : m <= k /\ m \in apart /\ \A j \in apart : m <= j

\* The hops begin with the denomination, and each with what the one before gives.
Chained(route, denom) == \A k \in 1 .. Len(route) : route[k].in = InHand(route, denom, k)

\* A swap along hops that chain keeps the minimum the sender asked for: the last
\* packet, swapped as the pools are, yields it, though the check prices the hops
\* by the names in the route and the packets by what is in hand.  Along other
\* hops the two price different swaps and the check guards nothing.
MinimumKept ==
    sent # NoSwap /\ Chained(sent.route, sent.packets[1].denom) =>
        LET k == Len(sent.route) IN
        SwapOutput(Pool(sent.route[k].pool), sent.packets[k].denom, sent.route[k].out,
                   sent.packets[k].amount) >= sent.minOutput
=============================================================================
