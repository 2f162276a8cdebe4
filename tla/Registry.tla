------------------------------ MODULE Registry ------------------------------
(***************************************************************************)
(* The chain registry contract (contracts/cosmwasm/registry).  The admin    *)
(* registers chains and the IBC paths between them; CHAIN_CONNECTIONS is    *)
(* the index the routing query walks, one path per ordered pair of chains,  *)
(* kept by hand next to the paths.  Of ChainInfo and IBCPath the model      *)
(* keeps what the contract looks at: ids, ends and the active flags.        *)
(***************************************************************************)
EXTENDS Integers, FiniteSets, Functions

CONSTANTS
    Chains,     \* chain ids
    PathIds,
    Senders

VARIABLES
    admin,          \* CONFIG.admin
    chains,         \* CHAINS: the active flag of every registered chain
    paths,          \* IBC_PATHS
    connections,    \* CHAIN_CONNECTIONS: (source, destination) -> path id
    chainCount,     \* CHAIN_COUNT
    pathCount       \* PATH_COUNT

registryVars == <<admin, chains, paths, connections, chainCount, pathCount>>

IBCPath == [source: Chains, dest: Chains, active: BOOLEAN]

\* The two entries of the index for a path, forth and back.
Ends(p) == {<<p.source, p.dest>>, <<p.dest, p.source>>}

Put(f, keys, v) == [k \in DOMAIN f \cup keys |-> IF k \in keys THEN v ELSE f[k]]
Without(f, keys) == Restrict(f, DOMAIN f \ keys)

SaturatingPred(n) == IF n > 0 THEN n - 1 ELSE 0

RegistryInit ==
    /\ admin \in Senders
    /\ chains = << >> /\ paths = << >> /\ connections = << >>
    /\ chainCount = 0 /\ pathCount = 0
-----------------------------------------------------------------------------
RegisterChain(sender, c, active) ==
    /\ sender = admin
    /\ c \notin DOMAIN chains
    /\ chains' = Put(chains, {c}, active)
    /\ chainCount' = chainCount + 1
    /\ UNCHANGED <<admin, paths, connections, pathCount>>

UpdateChain(sender, c, active) ==
    /\ sender = admin
    /\ c \in DOMAIN chains
    /\ chains' = Put(chains, {c}, active)
    /\ UNCHANGED <<admin, paths, connections, chainCount, pathCount>>

\* A connection of other paths between the same chains is overwritten.
RegisterIBCPath(sender, id, p) ==
    /\ sender = admin
    /\ id \notin DOMAIN paths
    /\ {p.source, p.dest} \subseteq DOMAIN chains
    /\ paths' = Put(paths, {id}, p)
    /\ connections' = Put(connections, Ends(p), id)
    /\ pathCount' = pathCount + 1
    /\ UNCHANGED <<admin, chains, chainCount>>

\* The index is touched only when an end changes.
Reindexed(id, old, p) ==
    IF old.source = p.source /\ old.dest = p.dest
    THEN connections
    ELSE Put(Without(connections, Ends(old)), Ends(p), id)

\* Unlike registration, an update does not ask whether the chains exist.
UpdateIBCPath(sender, id, p) ==
    /\ sender = admin
    /\ id \in DOMAIN paths
    /\ paths' = Put(paths, {id}, p)
    /\ connections' = Reindexed(id, paths[id], p)
    /\ UNCHANGED <<admin, chains, chainCount, pathCount>>

\* The chain's paths and connections stay.
RemoveChain(sender, c) ==
    /\ sender = admin
    /\ c \in DOMAIN chains
    /\ chains' = Without(chains, {c})
    /\ chainCount' = SaturatingPred(chainCount)
    /\ UNCHANGED <<admin, paths, connections, pathCount>>

\* Seeded fault: the way back stays in the index.
FaultHalfRemoved(sender, id) ==
    /\ sender = admin
    /\ id \in DOMAIN paths
    /\ paths' = Without(paths, {id})
    /\ connections' = Without(connections, {<<paths[id].source, paths[id].dest>>})
    /\ pathCount' = SaturatingPred(pathCount)
    /\ UNCHANGED <<admin, chains, chainCount>>

\* Both entries go, even when they have come to belong to another path.
RemoveIBCPath(sender, id) ==
    /\ sender = admin
    /\ id \in DOMAIN paths
    /\ paths' = Without(paths, {id})
    /\ connections' = Without(connections, Ends(paths[id]))
    /\ pathCount' = SaturatingPred(pathCount)
    /\ UNCHANGED <<admin, chains, chainCount>>

UpdateAdmin(sender, new) ==
    /\ sender = admin
    /\ admin' = new
    /\ UNCHANGED <<chains, paths, connections, chainCount, pathCount>>

RegistryNext ==
    \E sender \in Senders :
        \/ \E c \in Chains, active \in BOOLEAN :
              RegisterChain(sender, c, active) \/ UpdateChain(sender, c, active)
        \/ \E id \in PathIds, p \in IBCPath :
              RegisterIBCPath(sender, id, p) \/ UpdateIBCPath(sender, id, p)
        \/ \E c \in Chains : RemoveChain(sender, c)
        \/ \E id \in PathIds : RemoveIBCPath(sender, id)
        \/ \E new \in Senders : UpdateAdmin(sender, new)

RegistrySpec == RegistryInit /\ [][RegistryNext]_registryVars
-----------------------------------------------------------------------------
RegistryTypeOK ==
    /\ admin \in Senders
    /\ DOMAIN chains \subseteq Chains /\ chains \in [DOMAIN chains -> BOOLEAN]
    /\ DOMAIN paths \subseteq PathIds /\ paths \in [DOMAIN paths -> IBCPath]
    /\ DOMAIN connections \subseteq Chains \X Chains
    /\ connections \in [DOMAIN connections -> PathIds]
    /\ chainCount \in Nat /\ pathCount \in Nat

\* The index never dangles: whatever was registered, moved or removed over it,
\* an entry names an existing path between exactly its two chains, and the way
\* back is the same path.
ConnectionsSound ==
    \A e \in DOMAIN connections :
        /\ connections[e] \in DOMAIN paths
        /\ e \in Ends(paths[connections[e]])
        /\ <<e[2], e[1]>> \in DOMAIN connections
        /\ connections[<<e[2], e[1]>>] = connections[e]

\* The counters, kept by hand with saturating subtraction, are the numbers of
\* registered chains and paths.
CountsExact ==
    /\ chainCount = Cardinality(DOMAIN chains)
    /\ pathCount = Cardinality(DOMAIN paths)

\* What the messages keep by hand next to the chains and paths agrees with them.
RegistryConsistent == ConnectionsSound /\ CountsExact
=============================================================================
