--------------------------- MODULE RegistryRoutes ---------------------------
(***************************************************************************)
(* FindRoute, the query of the registry contract that routers and relayers  *)
(* ask for paths between two chains: a breadth-first search over the        *)
(* connection index.  A query sees one state of the storage, so the         *)
(* registry does not move while the search runs; its steps are those of the *)
(* two loops.  Chain ids are numbers, the order the index is ranged in.     *)
(***************************************************************************)
EXTENDS Registry, Sequences

CONSTANTS
    MaxRouteHops,       \* MAX_ROUTE_HOPS
    None                \* no query, no chain

VARIABLES
    query,              \* the query being answered, None between queries
    queue,              \* entries still to expand
    current,            \* the entry being expanded
    pending,            \* its neighbours still to look at
    visited,
    routes              \* the routes found, as sequences of path ids

searchVars == <<query, queue, current, pending, visited, routes>>

Query == [source: Chains, dest: Chains, maxHops: 0 .. MaxRouteHops]

ASSUME RouteAssumption ==
    Chains \subseteq Nat /\ MaxRouteHops \in Nat /\ None \notin Chains \cup Query

Entry(c, path) == [chain |-> c, path |-> path]

RoutesInit ==
    /\ RegistryInit
    /\ query = None
    /\ queue = << >> /\ current = Entry(None, << >>)
    /\ pending = {} /\ visited = {} /\ routes = {}
-----------------------------------------------------------------------------
Ask(q) ==
    /\ query = None
    /\ query' = q
    /\ queue' = <<Entry(q.source, << >>)>>
    /\ visited' = {q.source}
    /\ UNCHANGED <<current, pending, routes, registryVars>>

Neighbours(c) == {d \in Chains : <<c, d>> \in DOMAIN connections}

ToLookAt(entry) == IF Len(entry.path) >= query.maxHops THEN {} ELSE Neighbours(entry.chain)

Pop ==
    /\ pending = {} /\ queue # << >>
    /\ current' = Head(queue)
    /\ queue' = Tail(queue)
    /\ pending' = ToLookAt(Head(queue))
    /\ UNCHANGED <<query, visited, routes, registryVars>>

\* The neighbour d, over the active path that the index names for it.
Link(d) == connections[<<current.chain, d>>]
IsActive(d) == Link(d) \in DOMAIN paths /\ paths[Link(d)].active
Extended(d) == Append(current.path, Link(d))

\* Neighbours are looked at in ascending order.
IsNext(d) == d \in pending /\ \A e \in pending : d <= e

Skip(d) ==
    /\ ~IsActive(d)
    /\ UNCHANGED <<queue, visited, routes>>

Arrive(d) ==
    /\ IsActive(d) /\ d = query.dest
    /\ routes' = routes \cup {Extended(d)}
    /\ UNCHANGED <<queue, visited>>

\* Seeded fault: chains in the last but one place of a route are not expanded.
FaultTooShort(d) == d \notin visited /\ Len(Extended(d)) + 1 < query.maxHops
IsFresh(d) == d \notin visited /\ Len(Extended(d)) < query.maxHops

Enqueue(d) ==
    /\ IsActive(d) /\ d # query.dest
    /\ IF IsFresh(d)
       THEN /\ visited' = visited \cup {d}
            /\ queue' = Append(queue, Entry(d, Extended(d)))
       ELSE UNCHANGED <<visited, queue>>
    /\ UNCHANGED routes

LookAt ==
    \E d \in pending :
        /\ IsNext(d)
        /\ pending' = pending \ {d}
        /\ Skip(d) \/ Arrive(d) \/ Enqueue(d)
        /\ UNCHANGED <<query, current, registryVars>>

Done == query # None /\ queue = << >> /\ pending = {}

Answer ==
    /\ Done
    /\ query' = None
    /\ current' = Entry(None, << >>)
    /\ visited' = {} /\ routes' = {}
    /\ UNCHANGED <<queue, pending, registryVars>>

RoutesNext ==
    \/ query = None /\ RegistryNext /\ UNCHANGED searchVars
    \/ \E q \in Query : Ask(q)
    \/ Pop \/ LookAt \/ Answer

RoutesSpec == RoutesInit /\ [][RoutesNext]_<<searchVars, registryVars>>
-----------------------------------------------------------------------------
ActiveLink(a, b) ==
    <<a, b>> \in DOMAIN connections /\ paths[connections[<<a, b>>]].active

\* The chains within n active links of a.
Within(a, n) ==
    LET Ball[k \in 0 .. n] ==
            IF k = 0 THEN {a}
            ELSE Ball[k - 1] \cup {c \in Chains : \E b \in Ball[k - 1] : ActiveLink(b, c)}
    IN Ball[n]

\* The chains a route visits after a, one per link.
Visits(a, route, stops) ==
    /\ Len(stops) = Len(route)
    /\ \A i \in 1 .. Len(route) :
          LET from == IF i = 1 THEN a ELSE stops[i - 1] IN
          ActiveLink(from, stops[i]) /\ connections[<<from, stops[i]>>] = route[i]

IsSimpleRoute(route) ==
    \E stops \in [1 .. Len(route) -> Chains] :
        /\ Visits(query.source, route, stops)
        /\ stops[Len(route)] = query.dest
        /\ \A i, j \in 1 .. Len(route) : stops[i] = stops[j] => i = j
        /\ \A i \in 1 .. Len(route) : stops[i] # query.source

BetweenTwoChains == query # None /\ query.source # query.dest

RoutesAreSimple ==
    \A r \in routes : r # << >> /\ Len(r) <= query.maxHops /\ IsSimpleRoute(r)

\* Every route returned is a walk over active paths from the source to the
\* destination, no longer than asked for, that meets no chain twice, even when
\* chains were removed, paths moved and index entries overwritten before; and
\* shortest_path_length is the distance: a route exists in the answer exactly
\* when the destination is within reach, and one of them is as short as can be.
ShortestIsDistance ==
    Done /\ BetweenTwoChains =>
        /\ RoutesAreSimple
        /\ \A n \in 1 .. query.maxHops :
              query.dest \in Within(query.source, n) <=> \E r \in routes : Len(r) <= n
=============================================================================
