--------------------------- MODULE RegistryProofs ---------------------------
(***************************************************************************)
(* The registry's index and counters are right for any number of chains,    *)
(* paths and accounts, and FindRoute is a breadth-first search: every chain *)
(* it visits has a depth, none lies more than one below an entry that still *)
(* waits, and the links of an expanded chain were all followed.             *)
(***************************************************************************)
EXTENDS RegistryRoutes, FiniteSums, FiniteSetTheorems, TLAPS

LEMMA WithoutValues ==
    ASSUME NEW f, NEW keys
    PROVE  /\ DOMAIN Without(f, keys) = DOMAIN f \ keys
           /\ \A k \in DOMAIN f \ keys : Without(f, keys)[k] = f[k]
BY DEF Without, Restrict

LEMMA PutType ==
    ASSUME NEW S, NEW D, NEW f \in [D -> S], NEW keys, NEW v \in S
    PROVE  Put(f, keys, v) \in [D \cup keys -> S]
BY DEF Put

LEMMA WithoutType ==
    ASSUME NEW S, NEW D, NEW f \in [D -> S], NEW keys
    PROVE  Without(f, keys) \in [D \ keys -> S]
BY DEF Without, Restrict

LEMMA EndsSymmetric ==
    ASSUME NEW p \in IBCPath, NEW e
    PROVE  /\ Ends(p) \subseteq Chains \X Chains
           /\ e \in Ends(p) => <<e[2], e[1]>> \in Ends(p)
           /\ e \in Chains \X Chains /\ <<e[2], e[1]>> \in Ends(p) => e \in Ends(p)
BY DEF Ends, IBCPath

\* A path is stored and indexed over an index that has nothing of its id left.
LEMMA IndexedSound ==
    ASSUME RegistryTypeOK, ConnectionsSound, NEW id \in PathIds, NEW p \in IBCPath, NEW C,
           paths' = Put(paths, {id}, p), connections' = Put(C, Ends(p), id),
           DOMAIN C \subseteq DOMAIN connections,
           \A e \in DOMAIN C : /\ C[e] = connections[e] /\ C[e] # id
                               /\ <<e[2], e[1]>> \in DOMAIN C
    PROVE  ConnectionsSound'
<1>1. /\ DOMAIN paths' = DOMAIN paths \cup {id} /\ paths'[id] = p
      /\ \A q \in DOMAIN paths \ {id} : paths'[q] = paths[q]
  BY DEF Put
<1>2. /\ DOMAIN connections' = DOMAIN C \cup Ends(p)
      /\ \A e \in Ends(p) : connections'[e] = id
      /\ \A e \in DOMAIN C \ Ends(p) : connections'[e] = C[e]
  BY DEF Put
<1> SUFFICES ASSUME NEW e \in DOMAIN connections'
             PROVE  /\ connections'[e] \in DOMAIN paths'
                    /\ e \in Ends(paths'[connections'[e]])
                    /\ <<e[2], e[1]>> \in DOMAIN connections'
                    /\ connections'[<<e[2], e[1]>>] = connections'[e]
  BY DEF ConnectionsSound
<1>3. CASE e \in Ends(p)
  BY <1>1, <1>2, <1>3, EndsSymmetric
<1>4. CASE e \notin Ends(p)
  <2> DEFINE r == <<e[2], e[1]>>
  <2>1. e \in DOMAIN C /\ r \in DOMAIN C /\ e \in Chains \X Chains
    BY <1>2, <1>4 DEF RegistryTypeOK
  <2>2. r \notin Ends(p)
    BY <1>4, <2>1, EndsSymmetric
  <2>3. connections'[e] = connections[e] /\ connections'[r] = connections[r]
    BY <1>2, <1>4, <2>1, <2>2
  <2>4. /\ connections[e] \in DOMAIN paths \ {id} /\ e \in Ends(paths[connections[e]])
        /\ connections[r] = connections[e]
    BY <2>1 DEF ConnectionsSound
  <2>5. QED BY <1>1, <1>2, <2>1, <2>3, <2>4
<1>5. QED BY <1>3, <1>4

LEMMA RemovedSound ==
    ASSUME RegistryTypeOK, ConnectionsSound, NEW id \in DOMAIN paths,
           paths' = Without(paths, {id}),
           connections' = Without(connections, Ends(paths[id]))
    PROVE  ConnectionsSound'
<1>1. /\ DOMAIN paths' = DOMAIN paths \ {id}
      /\ \A q \in DOMAIN paths \ {id} : paths'[q] = paths[q]
  BY WithoutValues
<1>2. /\ DOMAIN connections' = DOMAIN connections \ Ends(paths[id])
      /\ \A e \in DOMAIN connections \ Ends(paths[id]) : connections'[e] = connections[e]
  BY WithoutValues
<1>3. paths[id] \in IBCPath
  BY DEF RegistryTypeOK
<1> SUFFICES ASSUME NEW e \in DOMAIN connections'
             PROVE  /\ connections'[e] \in DOMAIN paths'
                    /\ e \in Ends(paths'[connections'[e]])
                    /\ <<e[2], e[1]>> \in DOMAIN connections'
                    /\ connections'[<<e[2], e[1]>>] = connections'[e]
  BY DEF ConnectionsSound
<1> DEFINE r == <<e[2], e[1]>>
<1>4. e \in DOMAIN connections /\ e \notin Ends(paths[id]) /\ e \in Chains \X Chains
  BY <1>2 DEF RegistryTypeOK
<1>5. r \in DOMAIN connections /\ r \notin Ends(paths[id])
  BY <1>3, <1>4, EndsSymmetric DEF ConnectionsSound
<1>6. connections[e] \in DOMAIN paths \ {id} /\ e \in Ends(paths[connections[e]])
  BY <1>4 DEF ConnectionsSound
<1>7. QED BY <1>1, <1>2, <1>4, <1>5, <1>6 DEF ConnectionsSound

LEMMA RegisterPathSound ==
    ASSUME RegistryTypeOK, ConnectionsSound, NEW a, NEW id \in PathIds, NEW p \in IBCPath,
           RegisterIBCPath(a, id, p)
    PROVE  ConnectionsSound'
<1>1. /\ id \notin DOMAIN paths /\ paths' = Put(paths, {id}, p)
      /\ connections' = Put(connections, Ends(p), id)
  BY DEF RegisterIBCPath
<1>2. \A e \in DOMAIN connections : /\ connections[e] # id
                                    /\ <<e[2], e[1]>> \in DOMAIN connections
  BY <1>1 DEF ConnectionsSound
<1>3. QED BY <1>1, <1>2, IndexedSound

LEMMA UpdatePathSound ==
    ASSUME RegistryTypeOK, ConnectionsSound, NEW a, NEW id \in PathIds, NEW p \in IBCPath,
           UpdateIBCPath(a, id, p)
    PROVE  ConnectionsSound'
<1>1. /\ id \in DOMAIN paths /\ paths' = Put(paths, {id}, p)
      /\ connections' = Reindexed(id, paths[id], p)
  BY DEF UpdateIBCPath
<1> DEFINE old == paths[id]
<1>2. old \in IBCPath
  BY <1>1 DEF RegistryTypeOK
<1>3. CASE old.source = p.source /\ old.dest = p.dest
  <2>1. connections' = connections /\ Ends(p) = Ends(old)
    BY <1>1, <1>3 DEF Reindexed, Ends
  <2>2. /\ DOMAIN paths' = DOMAIN paths /\ Ends(paths'[id]) = Ends(old)
        /\ \A q \in DOMAIN paths \ {id} : paths'[q] = paths[q]
    BY <1>1, <2>1 DEF Put
  <2>3. QED BY <2>1, <2>2 DEF ConnectionsSound
<1>4. CASE ~(old.source = p.source /\ old.dest = p.dest)
  <2> DEFINE C == Without(connections, Ends(old))
  <2>1. connections' = Put(C, Ends(p), id)
    BY <1>1, <1>4 DEF Reindexed
  <2>2. /\ DOMAIN C = DOMAIN connections \ Ends(old)
        /\ \A e \in DOMAIN connections \ Ends(old) : C[e] = connections[e]
    BY WithoutValues
  <2>3. \A e \in DOMAIN C : /\ C[e] # id
                            /\ <<e[2], e[1]>> \in DOMAIN C
    <3> SUFFICES ASSUME NEW e \in DOMAIN C
                 PROVE  C[e] # id /\ <<e[2], e[1]>> \in DOMAIN C
      OBVIOUS
    <3>1. /\ e \in DOMAIN connections /\ e \notin Ends(old) /\ C[e] = connections[e]
          /\ e \in Chains \X Chains
      BY <2>2 DEF RegistryTypeOK
    <3>2. <<e[2], e[1]>> \in DOMAIN connections /\ e \in Ends(paths[connections[e]])
      BY <3>1 DEF ConnectionsSound
    <3>3. <<e[2], e[1]>> \notin Ends(old)
      BY <1>2, <3>1, EndsSymmetric
    <3>4. QED BY <2>2, <3>1, <3>2, <3>3
  <2> HIDE DEF C
  <2>4. QED BY <1>1, <2>1, <2>2, <2>3, IndexedSound
<1>5. QED BY <1>3, <1>4

LEMMA NextTypeOK == RegistryTypeOK /\ [RegistryNext]_registryVars => RegistryTypeOK'
<1> SUFFICES ASSUME RegistryTypeOK, [RegistryNext]_registryVars PROVE RegistryTypeOK'
  OBVIOUS
<1>1. CASE UNCHANGED registryVars
  BY <1>1 DEF registryVars, RegistryTypeOK
<1>2. ASSUME NEW a \in Senders, NEW c \in Chains, NEW active \in BOOLEAN,
             RegisterChain(a, c, active) \/ UpdateChain(a, c, active)
      PROVE  RegistryTypeOK'
  <2>1. chains' = Put(chains, {c}, active)
    BY <1>2 DEF RegisterChain, UpdateChain
  <2>2. DOMAIN chains' = DOMAIN chains \cup {c} /\ chains' \in [DOMAIN chains' -> BOOLEAN]
    BY <2>1 DEF Put, RegistryTypeOK
  <2>3. QED BY <1>2, <2>2 DEF RegistryTypeOK, RegisterChain, UpdateChain
<1>3. ASSUME NEW a \in Senders, NEW id \in PathIds, NEW p \in IBCPath,
             RegisterIBCPath(a, id, p) \/ UpdateIBCPath(a, id, p)
      PROVE  RegistryTypeOK'
  <2>1. paths' = Put(paths, {id}, p)
    BY <1>3 DEF RegisterIBCPath, UpdateIBCPath
  <2>2. DOMAIN paths' = DOMAIN paths \cup {id} /\ paths' \in [DOMAIN paths' -> IBCPath]
    BY <2>1 DEF Put, RegistryTypeOK
  <2>3. ASSUME NEW C, DOMAIN C \subseteq Chains \X Chains, C \in [DOMAIN C -> PathIds],
               connections' = Put(C, Ends(p), id)
        PROVE  /\ DOMAIN connections' \subseteq Chains \X Chains
               /\ connections' \in [DOMAIN connections' -> PathIds]
    BY <2>3, EndsSymmetric DEF Put
  <2>4. /\ DOMAIN connections' \subseteq Chains \X Chains
        /\ connections' \in [DOMAIN connections' -> PathIds]
    <3>1. CASE RegisterIBCPath(a, id, p)
      BY <2>3, <3>1 DEF RegisterIBCPath, RegistryTypeOK
    <3>2. CASE UpdateIBCPath(a, id, p)
      <4> DEFINE C == Without(connections, Ends(paths[id]))
      <4>1. connections' = connections \/ connections' = Put(C, Ends(p), id)
        BY <3>2 DEF UpdateIBCPath, Reindexed
      <4>2. DOMAIN C \subseteq Chains \X Chains /\ C \in [DOMAIN C -> PathIds]
        BY DEF Without, Restrict, RegistryTypeOK
      <4> HIDE DEF C
      <4>3. QED BY <2>3, <4>1, <4>2 DEF RegistryTypeOK
    <3>3. QED BY <1>3, <3>1, <3>2
  <2>5. admin' = admin /\ chains' = chains /\ chainCount' = chainCount /\ pathCount' \in Nat
    BY <1>3 DEF RegisterIBCPath, UpdateIBCPath, RegistryTypeOK
  <2>6. QED BY <2>2, <2>4, <2>5 DEF RegistryTypeOK
<1>4. ASSUME NEW a \in Senders, NEW c \in Chains, RemoveChain(a, c)
      PROVE  RegistryTypeOK'
  <2>1. DOMAIN chains' = DOMAIN chains \ {c} /\ chains' \in [DOMAIN chains' -> BOOLEAN]
    BY <1>4 DEF RemoveChain, Without, Restrict, RegistryTypeOK
  <2>2. chainCount' \in Nat
    BY <1>4 DEF RemoveChain, SaturatingPred, RegistryTypeOK
  <2>3. QED BY <1>4, <2>1, <2>2 DEF RegistryTypeOK, RemoveChain
<1>5. ASSUME NEW a \in Senders, NEW id \in PathIds, RemoveIBCPath(a, id)
      PROVE  RegistryTypeOK'
  <2>1. DOMAIN paths' = DOMAIN paths \ {id} /\ paths' \in [DOMAIN paths' -> IBCPath]
    BY <1>5 DEF RemoveIBCPath, Without, Restrict, RegistryTypeOK
  <2>2. /\ DOMAIN connections' \subseteq Chains \X Chains
        /\ connections' \in [DOMAIN connections' -> PathIds]
    BY <1>5 DEF RemoveIBCPath, Without, Restrict, RegistryTypeOK
  <2>3. pathCount' \in Nat
    BY <1>5 DEF RemoveIBCPath, SaturatingPred, RegistryTypeOK
  <2>4. QED BY <1>5, <2>1, <2>2, <2>3 DEF RegistryTypeOK, RemoveIBCPath
<1>6. ASSUME NEW a \in Senders, NEW new \in Senders, UpdateAdmin(a, new)
      PROVE  RegistryTypeOK'
  BY <1>6 DEF UpdateAdmin, RegistryTypeOK
<1>7. QED BY <1>1, <1>2, <1>3, <1>4, <1>5, <1>6 DEF RegistryNext

LEMMA NextConnectionsSound ==
    RegistryTypeOK /\ ConnectionsSound /\ [RegistryNext]_registryVars => ConnectionsSound'
<1> SUFFICES ASSUME RegistryTypeOK, ConnectionsSound, [RegistryNext]_registryVars PROVE ConnectionsSound'
  OBVIOUS
<1>1. ASSUME UNCHANGED <<paths, connections>> PROVE ConnectionsSound'
  BY <1>1 DEF ConnectionsSound
<1>2. CASE UNCHANGED registryVars
  BY <1>1, <1>2 DEF registryVars
<1>3. ASSUME NEW a \in Senders, NEW c \in Chains, NEW active \in BOOLEAN,
             RegisterChain(a, c, active) \/ UpdateChain(a, c, active)
      PROVE  ConnectionsSound'
  BY <1>1, <1>3 DEF RegisterChain, UpdateChain
<1>4. ASSUME NEW a \in Senders, NEW id \in PathIds, NEW p \in IBCPath,
             RegisterIBCPath(a, id, p) \/ UpdateIBCPath(a, id, p)
      PROVE  ConnectionsSound'
  BY <1>4, RegisterPathSound, UpdatePathSound
<1>5. ASSUME NEW a \in Senders, NEW c \in Chains, RemoveChain(a, c)
      PROVE  ConnectionsSound'
  BY <1>1, <1>5 DEF RemoveChain
<1>6. ASSUME NEW a \in Senders, NEW id \in PathIds, RemoveIBCPath(a, id)
      PROVE  ConnectionsSound'
  BY <1>6, RemovedSound DEF RemoveIBCPath
<1>7. ASSUME NEW a \in Senders, NEW new \in Senders, UpdateAdmin(a, new)
      PROVE  ConnectionsSound'
  BY <1>1, <1>7 DEF UpdateAdmin
<1>8. QED BY <1>2, <1>3, <1>4, <1>5, <1>6, <1>7 DEF RegistryNext

Counted(f, n) == IsFiniteSet(DOMAIN f) /\ n = Cardinality(DOMAIN f)

LEMMA CountAdded ==
    ASSUME NEW f, NEW n, Counted(f, n), NEW k, k \notin DOMAIN f, NEW v
    PROVE  Counted(Put(f, {k}, v), n + 1)
<1>1. DOMAIN Put(f, {k}, v) = DOMAIN f \cup {k}
  BY DEF Put
<1>2. QED BY <1>1, FS_AddElement DEF Counted

LEMMA CountRemoved ==
    ASSUME NEW f, NEW n, Counted(f, n), NEW k \in DOMAIN f
    PROVE  Counted(Without(f, {k}), SaturatingPred(n))
<1>1. DOMAIN Without(f, {k}) = DOMAIN f \ {k}
  BY WithoutValues
<1>2. IsFiniteSet(DOMAIN f \ {k}) /\ Cardinality(DOMAIN f \ {k}) = n - 1
  BY FS_RemoveElement DEF Counted
<1>3. n \in Nat /\ n - 1 \in Nat
  BY <1>2, FS_CardinalityType DEF Counted
<1>4. QED BY <1>1, <1>2, <1>3 DEF Counted, SaturatingPred

LEMMA CountReplaced ==
    ASSUME NEW f, NEW n, Counted(f, n), NEW k \in DOMAIN f, NEW v
    PROVE  Counted(Put(f, {k}, v), n)
<1>1. DOMAIN Put(f, {k}, v) = DOMAIN f
  BY DEF Put
<1>2. QED BY <1>1 DEF Counted

Counts == Counted(chains, chainCount) /\ Counted(paths, pathCount)

LEMMA NextCounts == Counts /\ [RegistryNext]_registryVars => Counts'
<1> SUFFICES ASSUME Counts, [RegistryNext]_registryVars PROVE Counts'
  OBVIOUS
<1>1. CASE UNCHANGED registryVars
  BY <1>1 DEF registryVars, Counts, Counted
<1>2. ASSUME NEW a \in Senders, NEW c \in Chains, NEW active \in BOOLEAN,
             RegisterChain(a, c, active) \/ UpdateChain(a, c, active)
      PROVE  Counts'
  BY <1>2, CountAdded, CountReplaced DEF RegisterChain, UpdateChain, Counts
<1>3. ASSUME NEW a \in Senders, NEW id \in PathIds, NEW p \in IBCPath,
             RegisterIBCPath(a, id, p) \/ UpdateIBCPath(a, id, p)
      PROVE  Counts'
  BY <1>3, CountAdded, CountReplaced DEF RegisterIBCPath, UpdateIBCPath, Counts
<1>4. ASSUME NEW a \in Senders, NEW c \in Chains, RemoveChain(a, c)
      PROVE  Counts'
  BY <1>4, CountRemoved DEF RemoveChain, Counts
<1>5. ASSUME NEW a \in Senders, NEW id \in PathIds, RemoveIBCPath(a, id)
      PROVE  Counts'
  BY <1>5, CountRemoved DEF RemoveIBCPath, Counts
<1>6. ASSUME NEW a \in Senders, NEW new \in Senders, UpdateAdmin(a, new)
      PROVE  Counts'
  BY <1>6 DEF UpdateAdmin, Counts
<1>7. QED BY <1>1, <1>2, <1>3, <1>4, <1>5, <1>6 DEF RegistryNext

IInv == RegistryTypeOK /\ ConnectionsSound /\ Counts

LEMMA InitIInv == RegistryInit => IInv
<1> SUFFICES ASSUME RegistryInit PROVE IInv
  OBVIOUS
<1>1. DOMAIN chains = {} /\ DOMAIN paths = {} /\ DOMAIN connections = {}
  BY DEF RegistryInit
<1>2. IsFiniteSet({}) /\ Cardinality({}) = 0
  BY FS_EmptySet
<1>3. RegistryTypeOK
  BY <1>1 DEF RegistryInit, RegistryTypeOK
<1>4. Counts
  BY <1>1, <1>2 DEF RegistryInit, Counts, Counted
<1>5. QED BY <1>1, <1>3, <1>4 DEF IInv, ConnectionsSound

LEMMA NextIInv == IInv /\ [RegistryNext]_registryVars => IInv'
BY NextTypeOK, NextConnectionsSound, NextCounts DEF IInv

\* No sequence of registrations, moves and removals leaves an entry of the
\* routing index that dangles, joins the wrong chains or works one way only.
THEOREM IndexIsSound == RegistrySpec => []ConnectionsSound
BY InitIInv, NextIInv, PTL DEF RegistrySpec, IInv

\* The counters of the registry are the numbers of its chains and paths.
THEOREM CountersAreExact == RegistrySpec => []CountsExact
<1>1. IInv => CountsExact
  BY DEF IInv, Counts, Counted, CountsExact
<1>2. QED BY <1>1, InitIInv, NextIInv, PTL DEF RegistrySpec

\* The index and the counters that the registry keeps by hand agree with what it
\* stores.
THEOREM RegistryIsConsistent == RegistrySpec => []RegistryConsistent
BY IndexIsSound, CountersAreExact, PTL DEF RegistryConsistent
-----------------------------------------------------------------------------
(* FindRoute. *)

\* What lies one active link from a chain of S.
Beside(S) == {c \in Chains : \E b \in S : ActiveLink(b, c)}

Balls(f, a, n) == f = [k \in 0 .. n |-> IF k = 0 THEN {a} ELSE f[k - 1] \cup Beside(f[k - 1])]

LEMMA BallsExist == ASSUME NEW a, NEW n \in Nat PROVE \E f : Balls(f, a, n)
<1> DEFINE Next1(f, k) == IF k = 0 THEN {a} ELSE f[k - 1] \cup Beside(f[k - 1])
           Good == {m \in Nat : \E f : f = [k \in 0 .. m |-> Next1(f, k)]}
<1>1. 0 \in Good
  <2> DEFINE f == [k \in 0 .. 0 |-> {a}]
  <2>1. f = [k \in 0 .. 0 |-> Next1(f, k)]
    OBVIOUS
  <2>2. QED BY <2>1
<1>2. \A m \in Nat : m \in Good => m + 1 \in Good
  <2>1. SUFFICES ASSUME NEW m \in Nat, m \in Good PROVE m + 1 \in Good
    OBVIOUS
  <2>2. PICK f : f = [k \in 0 .. m |-> Next1(f, k)]
    BY <2>1
  <2> DEFINE g == [k \in 0 .. m + 1 |-> Next1(f, k)]
  <2>3. \A k \in 0 .. m : g[k] = f[k]
    <3> HIDE DEF Next1
    <3>1. \A k \in 0 .. m : k \in 0 .. m + 1 /\ f[k] = Next1(f, k)
      BY <2>2
    <3>2. QED BY <3>1
  <2>4. \A k \in 0 .. m + 1 : Next1(f, k) = Next1(g, k)
    <3>1. \A k \in 0 .. m + 1 : k # 0 => k - 1 \in 0 .. m
      OBVIOUS
    <3> HIDE DEF g
    <3>2. QED BY <2>3, <3>1
  <2>5. g = [k \in 0 .. m + 1 |-> Next1(g, k)]
    BY <2>4
  <2> HIDE DEF g
  <2>6. m + 1 \in Nat /\ \E h : h = [k \in 0 .. m + 1 |-> Next1(h, k)]
    BY <2>5
  <2>7. QED BY <2>6
<1> HIDE DEF Good
<1>3. n \in Good
  BY <1>1, <1>2, NaturalsAreGood
<1>4. PICK f : f = [k \in 0 .. n |-> Next1(f, k)]
  BY <1>3 DEF Good
<1>5. QED BY <1>4 DEF Balls

LEMMA BallsAre ==
    ASSUME NEW f, NEW a, NEW n \in Nat, Balls(f, a, n)
    PROVE  /\ f[0] = {a}
           /\ \A k \in 0 .. n : k + 1 <= n => f[k + 1] = f[k] \cup Beside(f[k])
<1>1. \A k \in 0 .. n : f[k] = IF k = 0 THEN {a} ELSE f[k - 1] \cup Beside(f[k - 1])
  BY Zenon DEF Balls
<1>2. 0 \in 0 .. n
  OBVIOUS
<1>3. \A k \in 0 .. n : k + 1 <= n => k + 1 \in 0 .. n /\ k + 1 # 0 /\ (k + 1) - 1 = k
  OBVIOUS
<1>4. QED BY <1>1, <1>2, <1>3

LEMMA BallsAgree ==
    ASSUME NEW a, NEW n \in Nat, NEW m \in Nat, n <= m,
           NEW f, NEW g, Balls(f, a, n), Balls(g, a, m)
    PROVE  f[n] = g[n]
<1> DEFINE Good == {k \in Nat : k <= n => f[k] = g[k]}
<1>1. 0 \in Good
  BY BallsAre
<1>2. \A k \in Nat : k \in Good => k + 1 \in Good
  <2>1. SUFFICES ASSUME NEW k \in Nat, k \in Good, k + 1 <= n PROVE f[k + 1] = g[k + 1]
    OBVIOUS
  <2>2. k \in 0 .. n /\ k \in 0 .. m /\ k + 1 <= m /\ f[k] = g[k]
    BY <2>1
  <2>3. f[k + 1] = f[k] \cup Beside(f[k]) /\ g[k + 1] = g[k] \cup Beside(g[k])
    BY <2>1, <2>2, BallsAre
  <2>4. QED BY <2>2, <2>3
<1> HIDE DEF Good
<1>3. n \in Good
  BY <1>1, <1>2, NaturalsAreGood
<1>4. QED BY <1>3 DEF Good

LEMMA WithinIsBall == ASSUME NEW a, NEW n \in Nat PROVE \E f : Balls(f, a, n) /\ Within(a, n) = f[n]
<1> DEFINE Step(f, k) == IF k = 0 THEN {a} ELSE f[k - 1] \cup {c \in Chains : \E b \in f[k - 1] : ActiveLink(b, c)}
<1>1. Within(a, n) = (CHOOSE f : f = [k \in 0 .. n |-> Step(f, k)])[n]
  BY DEF Within
<1>2. PICK g : Balls(g, a, n)
  BY BallsExist
<1>3. g = [k \in 0 .. n |-> Step(g, k)]
  BY <1>2, Zenon DEF Balls, Beside
<1>4. PICK f : f = (CHOOSE h : h = [k \in 0 .. n |-> Step(h, k)]) /\ f = [k \in 0 .. n |-> Step(f, k)]
  <2> HIDE DEF Step
  <2>1. QED BY <1>3, Zenon
<1>5. Balls(f, a, n)
  BY <1>4, Zenon DEF Balls, Beside
<1>6. QED BY <1>1, <1>4, <1>5

\* What is within n + 1 links is within n, or beside that.
LEMMA WithinGrows ==
    ASSUME NEW a
    PROVE  /\ Within(a, 0) = {a}
           /\ \A n \in Nat : Within(a, n + 1) = Within(a, n) \cup Beside(Within(a, n))
<1>1. Within(a, 0) = {a}
  BY WithinIsBall, BallsAre
<1>2. ASSUME NEW n \in Nat PROVE Within(a, n + 1) = Within(a, n) \cup Beside(Within(a, n))
  <2>1. n + 1 \in Nat /\ n <= n + 1 /\ n \in 0 .. n + 1 /\ n + 1 <= n + 1
    OBVIOUS
  <2>2. PICK f : Balls(f, a, n) /\ Within(a, n) = f[n]
    BY WithinIsBall
  <2>3. PICK g : Balls(g, a, n + 1) /\ Within(a, n + 1) = g[n + 1]
    BY <2>1, WithinIsBall
  <2>4. f[n] = g[n]
    BY <2>1, <2>2, <2>3, BallsAgree
  <2>5. g[n + 1] = g[n] \cup Beside(g[n])
    BY <2>1, <2>3, BallsAre
  <2>6. QED BY <2>2, <2>3, <2>4, <2>5
<1>3. QED BY <1>1, <1>2

LEMMA WithinMonotone ==
    ASSUME NEW a, NEW n \in Nat, NEW m \in Nat, n <= m
    PROVE  Within(a, n) \subseteq Within(a, m)
<1> DEFINE Good == {k \in Nat : Within(a, n) \subseteq Within(a, n + k)}
<1>1. 0 \in Good
  OBVIOUS
<1>2. \A k \in Nat : k \in Good => k + 1 \in Good
  <2>1. SUFFICES ASSUME NEW k \in Nat, k \in Good PROVE Within(a, n) \subseteq Within(a, n + (k + 1))
    OBVIOUS
  <2>2. n + k \in Nat /\ n + (k + 1) = (n + k) + 1
    OBVIOUS
  <2>3. Within(a, n + k) \subseteq Within(a, (n + k) + 1)
    BY <2>2, WithinGrows
  <2>4. QED BY <2>1, <2>2, <2>3
<1> HIDE DEF Good
<1>3. m - n \in Nat /\ n + (m - n) = m
  OBVIOUS
<1>4. m - n \in Good
  BY <1>1, <1>2, <1>3, NaturalsAreGood
<1>5. QED BY <1>3, <1>4 DEF Good

\* A walk of n links ends within n.
LEMMA WalkEndsWithin ==
    ASSUME NEW a, NEW route, Len(route) \in Nat, NEW stops \in [1 .. Len(route) -> Chains],
           Visits(a, route, stops), Len(route) # 0
    PROVE  stops[Len(route)] \in Within(a, Len(route))
<1> DEFINE Good == {k \in Nat : k + 1 <= Len(route) => stops[k + 1] \in Within(a, k + 1)}
<1>0. \A i \in 1 .. Len(route) : ActiveLink(IF i = 1 THEN a ELSE stops[i - 1], stops[i])
  BY DEF Visits
<1>1. 0 \in Good
  <2>1. SUFFICES ASSUME 1 <= Len(route) PROVE stops[1] \in Within(a, 1)
    OBVIOUS
  <2>2. 1 \in 1 .. Len(route) /\ stops[1] \in Chains /\ ActiveLink(a, stops[1])
    BY <1>0, <2>1
  <2>3. Within(a, 0) = {a} /\ Within(a, 0 + 1) = Within(a, 0) \cup Beside(Within(a, 0))
    BY WithinGrows
  <2>4. QED BY <2>2, <2>3 DEF Beside
<1>2. \A k \in Nat : k \in Good => k + 1 \in Good
  <2>1. SUFFICES ASSUME NEW k \in Nat, k \in Good, (k + 1) + 1 <= Len(route)
                 PROVE  stops[(k + 1) + 1] \in Within(a, (k + 1) + 1)
    OBVIOUS
  <2>2. /\ (k + 1) + 1 \in 1 .. Len(route) /\ (k + 1) + 1 # 1 /\ ((k + 1) + 1) - 1 = k + 1
        /\ k + 1 <= Len(route) /\ k + 1 \in Nat
    BY <2>1
  <2>3. ActiveLink(stops[k + 1], stops[(k + 1) + 1]) /\ stops[(k + 1) + 1] \in Chains
    BY <1>0, <2>2
  <2>4. stops[k + 1] \in Within(a, k + 1)
    BY <2>1, <2>2
  <2>5. Within(a, (k + 1) + 1) = Within(a, k + 1) \cup Beside(Within(a, k + 1))
    BY <2>2, WithinGrows
  <2>6. QED BY <2>3, <2>4, <2>5 DEF Beside
<1> HIDE DEF Good
<1>3. Len(route) - 1 \in Nat /\ (Len(route) - 1) + 1 = Len(route)
  OBVIOUS
<1>4. Len(route) - 1 \in Good
  BY <1>1, <1>2, <1>3, NaturalsAreGood
<1>5. QED BY <1>3, <1>4 DEF Good
-----------------------------------------------------------------------------
\* The chains that path visits from a to c, none twice.
Walk(a, c, path, stops) ==
    /\ stops \in Seq(Chains) /\ path \in Seq(PathIds)
    /\ Visits(a, path, stops)
    /\ stops = << >> => c = a
    /\ stops # << >> => c = stops[Len(stops)]
    /\ \A i, j \in 1 .. Len(stops) : stops[i] = stops[j] => i = j
    /\ \A i \in 1 .. Len(stops) : stops[i] # a

\* A walk goes on over an active link to a chain it has not visited.
LEMMA WalkGoesOn ==
    ASSUME RegistryTypeOK, NEW a, NEW c, NEW path, NEW stops, Walk(a, c, path, stops),
           NEW d \in Chains, ActiveLink(c, d), d # a, \A i \in 1 .. Len(stops) : stops[i] # d
    PROVE  Walk(a, d, Append(path, connections[<<c, d>>]), Append(stops, d))
<1> DEFINE p == Append(path, connections[<<c, d>>])
           s == Append(stops, d)
<1>1. stops \in Seq(Chains) /\ path \in Seq(PathIds) /\ Len(stops) = Len(path) /\ Len(path) \in Nat
  BY DEF Walk, Visits
<1>2. connections[<<c, d>>] \in PathIds
  BY DEF ActiveLink, RegistryTypeOK
<1>3. /\ s \in Seq(Chains) /\ p \in Seq(PathIds) /\ Len(p) = Len(path) + 1 /\ Len(s) = Len(p)
      /\ s[Len(s)] = d /\ p[Len(p)] = connections[<<c, d>>]
      /\ \A i \in 1 .. Len(path) : s[i] = stops[i] /\ p[i] = path[i]
  BY <1>1, <1>2
<1> HIDE DEF p, s
<1>4. \A i \in 1 .. Len(s) : i \in 1 .. Len(path) \/ i = Len(path) + 1
  BY <1>1, <1>3
<1>5. Visits(a, p, s)
  <2>1. SUFFICES ASSUME NEW i \in 1 .. Len(p)
                 PROVE  /\ ActiveLink(IF i = 1 THEN a ELSE s[i - 1], s[i])
                        /\ connections[<<IF i = 1 THEN a ELSE s[i - 1], s[i]>>] = p[i]
    BY <1>3 DEF Visits
  <2>2. CASE i \in 1 .. Len(path)
    <3>1. /\ ActiveLink(IF i = 1 THEN a ELSE stops[i - 1], stops[i])
          /\ connections[<<IF i = 1 THEN a ELSE stops[i - 1], stops[i]>>] = path[i]
      BY <2>2 DEF Walk, Visits
    <3>2. i # 1 => i - 1 \in 1 .. Len(path)
      BY <1>1, <2>2
    <3>3. (IF i = 1 THEN a ELSE s[i - 1]) = (IF i = 1 THEN a ELSE stops[i - 1])
      BY <1>3, <3>2
    <3>4. s[i] = stops[i] /\ p[i] = path[i]
      BY <1>3, <2>2
    <3>5. QED BY <3>1, <3>3, <3>4
  <2>3. CASE i = Len(path) + 1
    <3>1. (IF i = 1 THEN a ELSE s[i - 1]) = c
      <4>1. CASE Len(path) = 0
        <5>1. stops = << >>
          BY <1>1, <4>1
        <5>2. QED BY <1>1, <2>3, <4>1, <5>1 DEF Walk
      <4>2. CASE Len(path) # 0
        <5>1. i - 1 = Len(stops) /\ i # 1 /\ i - 1 \in 1 .. Len(path) /\ stops # << >>
          BY <1>1, <2>3, <4>2
        <5>2. s[i - 1] = stops[i - 1] /\ c = stops[Len(stops)]
          BY <1>3, <5>1 DEF Walk
        <5>3. QED BY <5>1, <5>2
      <4>3. QED BY <4>1, <4>2
    <3>2. s[i] = d /\ p[i] = connections[<<c, d>>]
      BY <1>3, <2>3
    <3>3. QED BY <3>1, <3>2
  <2>4. QED BY <1>3, <1>4, <2>2, <2>3
<1>6. \A i, j \in 1 .. Len(s) : s[i] = s[j] => i = j
  <2>1. \A i, j \in 1 .. Len(path) : stops[i] = stops[j] => i = j
    BY <1>1 DEF Walk
  <2>2. \A i \in 1 .. Len(path) : stops[i] # d
    BY <1>1
  <2>3. s[Len(path) + 1] = d
    BY <1>3
  <2>4. QED BY <1>3, <1>4, <2>1, <2>2, <2>3
<1>7. \A i \in 1 .. Len(s) : s[i] # a
  <2>1. \A i \in 1 .. Len(path) : stops[i] # a
    BY <1>1 DEF Walk
  <2>2. s[Len(path) + 1] = d
    BY <1>3
  <2>3. QED BY <1>3, <1>4, <2>1, <2>2
<1>8. s # << >> /\ d = s[Len(s)]
  BY <1>1, <1>3
<1>9. Walk(a, d, p, s)
  BY <1>3, <1>5, <1>6, <1>7, <1>8 DEF Walk
<1>10. QED BY <1>9 DEF p, s

LEMMA WalkIsSimple ==
    ASSUME NEW route, NEW stops, Walk(query.source, query.dest, route, stops), stops # << >>
    PROVE  IsSimpleRoute(route)
<1>1. /\ stops \in [1 .. Len(route) -> Chains] /\ Len(stops) = Len(route)
  BY DEF Walk, Visits
<1>2. QED BY <1>1 DEF Walk, IsSimpleRoute
-----------------------------------------------------------------------------
Entries == [chain: Chains, path: Seq(PathIds)]

\* The entries that are not expanded yet, the one at work included.
Unexpanded == {queue[i] : i \in DOMAIN queue} \cup {e \in {current} : pending # {}}

SearchType ==
    /\ query \in Query \cup {None}
    /\ queue \in Seq(Entries)
    /\ pending # {} => current \in Entries
    /\ pending # {} => Len(current.path) < query.maxHops
    /\ pending \subseteq Neighbours(current.chain)
    /\ visited \subseteq Chains /\ routes \subseteq Seq(PathIds)
    /\ query = None => queue = << >> /\ pending = {} /\ visited = {} /\ routes = {}

Reached(e) ==
    /\ e.chain \in visited
    /\ \E stops \in Seq(Chains) :
          /\ Walk(query.source, e.chain, e.path, stops)
          /\ \A i \in 1 .. Len(stops) : stops[i] \in visited

\* What the search owes for the link from b, which it found at depth[b], to c.
Followed(depth, b, c) ==
    ActiveLink(b, c) =>
        /\ c = query.dest /\ depth[b] + 1 <= query.maxHops =>
              \E r \in routes : Len(r) <= depth[b] + 1
        /\ c # query.dest /\ depth[b] + 1 < query.maxHops =>
              c \in visited /\ depth[c] <= depth[b] + 1

EndsKnown == query.source \in visited /\ query.dest \notin visited
EntriesReached(depth) == \A e \in Unexpanded : Reached(e) /\ depth[e.chain] = Len(e.path)
LevelByLevel(depth) == \A c \in visited, e \in Unexpanded : depth[c] <= Len(e.path) + 1
InOrder ==
    /\ \A i, j \in DOMAIN queue : i <= j => Len(queue[i].path) <= Len(queue[j].path)
    /\ pending # {} => \A i \in DOMAIN queue : Len(current.path) <= Len(queue[i].path)
LinksFollowed(depth) ==
    \A b \in visited, c \in Chains :
        \/ Followed(depth, b, c)
        \/ \E i \in DOMAIN queue : queue[i].chain = b
        \/ b = current.chain /\ c \in pending

Breadth(depth) ==
    /\ depth \in [Chains -> Nat] /\ depth[query.source] = 0
    /\ EndsKnown /\ EntriesReached(depth) /\ LevelByLevel(depth) /\ InOrder
    /\ LinksFollowed(depth) /\ RoutesAreSimple

SearchInv == SearchType /\ (BetweenTwoChains => \E depth : Breadth(depth))

LEMMA SearchInitInv == RoutesInit => SearchInv
BY DEF RoutesInit, SearchInv, SearchType, BetweenTwoChains, Neighbours, Entry

LEMMA WalkStays ==
    ASSUME UNCHANGED <<paths, connections>>, NEW a, NEW c, NEW path, NEW stops
    PROVE  Walk(a, c, path, stops)' <=> Walk(a, c, path, stops)
BY DEF Walk, Visits, ActiveLink

LEMMA AskSearches ==
    ASSUME SearchInv, NEW q \in Query, Ask(q)
    PROVE  SearchInv'
<1>0. PICK e : e = Entry(q.source, << >>)
  OBVIOUS
<1>1. /\ query' = q /\ queue' = <<e>> /\ visited' = {q.source}
      /\ pending' = {} /\ routes' = {} /\ current' = current
      /\ paths' = paths /\ connections' = connections
  BY <1>0 DEF Ask, SearchInv, SearchType, registryVars
<1>2. q.source \in Chains /\ q.dest \in Chains /\ q.maxHops \in Nat /\ q # None
  BY RouteAssumption DEF Query
<1>3. /\ e \in Entries /\ e.chain = q.source /\ e.path = << >> /\ Len(e.path) = 0
      /\ DOMAIN queue' = {1} /\ queue'[1] = e
  BY <1>0, <1>1, <1>2 DEF Entries, Entry
<1>4. SearchType'
  BY <1>1, <1>2, <1>3 DEF SearchType
<1>5. ASSUME BetweenTwoChains' PROVE \E depth : Breadth(depth)'
  <2> DEFINE depth == [c \in Chains |-> 0]
  <2>1. /\ depth \in [Chains -> Nat] /\ \A c \in Chains : depth[c] = 0
    OBVIOUS
  <2> HIDE DEF depth
  <2>2. Unexpanded' = {e}
    BY <1>1, <1>3 DEF Unexpanded
  <2>3. q.source # q.dest
    BY <1>1, <1>5 DEF BetweenTwoChains
  <2>4. EndsKnown'
    BY <1>1, <2>3 DEF EndsKnown
  <2>5. Reached(e)'
    <3>1. PICK s : s = << >>
      OBVIOUS
    <3>2. s \in Seq(Chains) /\ Len(s) = 0 /\ s \in Seq(PathIds) /\ 1 .. Len(s) = {}
      BY <3>1
    <3>3. e.path = s
      BY <1>3, <3>1
    <3>4. Walk(query.source, e.chain, e.path, s)'
      BY <1>1, <1>3, <3>1, <3>2, <3>3 DEF Walk, Visits
    <3>5. e.chain \in visited'
      BY <1>1, <1>3
    <3>6. QED BY <3>2, <3>4, <3>5 DEF Reached
  <2>6. EntriesReached(depth)'
    BY <1>2, <1>3, <2>1, <2>2, <2>5 DEF EntriesReached
  <2>7. LevelByLevel(depth)'
    <3>1. \A c \in {q.source}, x \in {e} : depth[c] <= Len(x.path) + 1
      BY <1>2, <1>3, <2>1
    <3>2. QED BY <1>1, <2>2, <3>1 DEF LevelByLevel
  <2>8. InOrder'
    BY <1>1, <1>3 DEF InOrder
  <2>9. LinksFollowed(depth)'
    BY <1>1, <1>3 DEF LinksFollowed
  <2>10. RoutesAreSimple'
    BY <1>1 DEF RoutesAreSimple
  <2>11. Breadth(depth)'
    BY <1>1, <1>2, <2>1, <2>4, <2>6, <2>7, <2>8, <2>9, <2>10 DEF Breadth
  <2>12. QED BY <2>11
<1>6. QED BY <1>4, <1>5 DEF SearchInv

LEMMA PopSearches ==
    ASSUME SearchInv, query # None, Pop
    PROVE  SearchInv'
<1> DEFINE h == Head(queue)
<1>1. /\ pending = {} /\ queue # << >> /\ current' = h /\ queue' = Tail(queue)
      /\ pending' = ToLookAt(h) /\ query' = query /\ visited' = visited /\ routes' = routes
      /\ paths' = paths /\ connections' = connections
  BY DEF Pop, registryVars
<1>2. queue \in Seq(Entries) /\ Len(queue) \in Nat \ {0} /\ 1 \in DOMAIN queue /\ h = queue[1]
  BY <1>1 DEF SearchInv, SearchType
<1>3. /\ Tail(queue) \in Seq(Entries) /\ h \in Entries
      /\ \A i \in DOMAIN Tail(queue) : i \in Nat /\ i + 1 \in DOMAIN queue /\ Tail(queue)[i] = queue[i + 1]
      /\ \A i \in DOMAIN queue : i # 1 => i - 1 \in DOMAIN Tail(queue) /\ i = (i - 1) + 1
  BY <1>2
<1>4. query \in Query /\ query.maxHops \in Nat /\ Len(h.path) \in Nat
  BY <1>3, RouteAssumption DEF SearchInv, SearchType, Query, Entries
<1> HIDE DEF h
<1>5. /\ ToLookAt(h) \subseteq Neighbours(h.chain)
      /\ ToLookAt(h) # {} => Len(h.path) < query.maxHops
      /\ \A c \in Chains : c \in Neighbours(h.chain) /\ c \notin ToLookAt(h) => Len(h.path) >= query.maxHops
  BY <1>4 DEF ToLookAt
<1>6. SearchType'
  <2>1. Neighbours(current.chain)' = Neighbours(h.chain)
    BY <1>1 DEF Neighbours
  <2>2. QED BY <1>1, <1>3, <1>4, <1>5, <2>1 DEF SearchInv, SearchType
<1>7. ASSUME BetweenTwoChains' PROVE \E depth : Breadth(depth)'
  <2>1. PICK depth : Breadth(depth)
    BY <1>1, <1>7 DEF SearchInv, BetweenTwoChains
  <2>2. depth \in [Chains -> Nat]
    BY <2>1 DEF Breadth
  <2>3. Unexpanded' \subseteq Unexpanded
    <3>1. \A i \in DOMAIN Tail(queue) : Tail(queue)[i] \in Unexpanded
      BY <1>3 DEF Unexpanded
    <3>2. h \in Unexpanded
      BY <1>2 DEF Unexpanded
    <3>3. QED BY <1>1, <3>1, <3>2 DEF Unexpanded
  <2>4. EntriesReached(depth)'
    <3>1. SUFFICES ASSUME NEW e \in Unexpanded PROVE Reached(e)' /\ depth[e.chain] = Len(e.path)
      BY <2>3 DEF EntriesReached
    <3>2. Reached(e) /\ depth[e.chain] = Len(e.path)
      BY <2>1 DEF Breadth, EntriesReached
    <3>3. Reached(e)'
      BY <1>1, <3>2, WalkStays DEF Reached
    <3>4. QED BY <3>2, <3>3
  <2>5. LevelByLevel(depth)'
    BY <1>1, <2>1, <2>3 DEF Breadth, LevelByLevel
  <2>6. InOrder'
    <3>1. \A i, j \in DOMAIN Tail(queue) : i <= j => Len(Tail(queue)[i].path) <= Len(Tail(queue)[j].path)
      <4>1. SUFFICES ASSUME NEW i \in DOMAIN Tail(queue), NEW j \in DOMAIN Tail(queue), i <= j
                     PROVE  Len(Tail(queue)[i].path) <= Len(Tail(queue)[j].path)
        OBVIOUS
      <4>2. i + 1 <= j + 1
        BY <1>3, <4>1
      <4>3. QED BY <1>3, <2>1, <4>2 DEF Breadth, InOrder
    <3>2. \A i \in DOMAIN Tail(queue) : Len(h.path) <= Len(Tail(queue)[i].path)
      <4>1. \A i \in DOMAIN Tail(queue) : 1 <= i + 1
        BY <1>3
      <4>2. QED BY <1>2, <1>3, <2>1, <4>1 DEF Breadth, InOrder
    <3>3. QED BY <1>1, <3>1, <3>2 DEF InOrder
  <2>7. LinksFollowed(depth)'
    <3>1. SUFFICES ASSUME NEW b \in visited, NEW c \in Chains
                   PROVE  \/ Followed(depth, b, c)'
                          \/ \E i \in DOMAIN Tail(queue) : Tail(queue)[i].chain = b
                          \/ b = h.chain /\ c \in ToLookAt(h)
      BY <1>1 DEF LinksFollowed
    <3>2. Followed(depth, b, c)' <=> Followed(depth, b, c)
      BY <1>1 DEF Followed, ActiveLink
    <3>3. CASE Followed(depth, b, c)
      BY <3>2, <3>3
    <3>4. ASSUME NEW i \in DOMAIN queue, queue[i].chain = b, i # 1
          PROVE  \E k \in DOMAIN Tail(queue) : Tail(queue)[k].chain = b
      BY <1>3, <3>4
    <3>5. ASSUME b = h.chain, c \notin ToLookAt(h)
          PROVE  Followed(depth, b, c)
      <4>1. h \in Unexpanded
        BY <1>2 DEF Unexpanded
      <4>2. depth[b] = Len(h.path)
        BY <2>1, <3>5, <4>1 DEF Breadth, EntriesReached
      <4>3. SUFFICES ASSUME ActiveLink(b, c)
                     PROVE  ~(depth[b] + 1 <= query.maxHops)
        <5>1. depth[b] + 1 < query.maxHops => depth[b] + 1 <= query.maxHops
          BY <1>4, <4>2
        <5>2. QED BY <4>3, <5>1 DEF Followed
      <4>4. c \in Neighbours(h.chain)
        BY <3>5, <4>3 DEF Neighbours, ActiveLink
      <4>5. QED BY <1>4, <1>5, <3>5, <4>2, <4>4
    <3>6. \/ Followed(depth, b, c)
          \/ \E i \in DOMAIN queue : queue[i].chain = b
      BY <1>1, <2>1 DEF Breadth, LinksFollowed
    <3>7. QED BY <1>2, <3>2, <3>3, <3>4, <3>5, <3>6
  <2>8. RoutesAreSimple' /\ EndsKnown'
    <3>1. RoutesAreSimple /\ EndsKnown
      BY <2>1 DEF Breadth
    <3>2. \A r : IsSimpleRoute(r)' <=> IsSimpleRoute(r)
      BY <1>1 DEF IsSimpleRoute, Visits, ActiveLink
    <3>3. QED BY <1>1, <3>1, <3>2 DEF RoutesAreSimple, EndsKnown
  <2>9. Breadth(depth)'
    BY <1>1, <2>1, <2>4, <2>5, <2>6, <2>7, <2>8 DEF Breadth
  <2>10. QED BY <2>9
<1>8. QED BY <1>6, <1>7 DEF SearchInv

\* What a look at the neighbour d leaves as it is.
LEMMA LookLeaves ==
    ASSUME SearchInv, NEW d \in pending, IsNext(d), pending' = pending \ {d},
           Skip(d) \/ Arrive(d) \/ Enqueue(d), UNCHANGED <<query, current, registryVars>>
    PROVE  /\ current \in Entries /\ query \in Query /\ query.maxHops \in Nat /\ d \in Chains
           /\ Len(current.path) \in Nat /\ Len(current.path) < query.maxHops
           /\ query' = query /\ current' = current /\ paths' = paths /\ connections' = connections
           /\ <<current.chain, d>> \in DOMAIN connections
           /\ visited \subseteq visited' /\ routes \subseteq routes'
           /\ current \in Unexpanded
<1>1. pending # {}
  OBVIOUS
<1>2. /\ current \in Entries /\ query \in Query /\ Len(current.path) < query.maxHops
      /\ d \in Neighbours(current.chain)
  BY <1>1, RouteAssumption DEF SearchInv, SearchType
<1>3. /\ query.maxHops \in Nat /\ Len(current.path) \in Nat
      /\ d \in Chains /\ <<current.chain, d>> \in DOMAIN connections
  BY <1>2, RouteAssumption DEF Query, Entries, Neighbours
<1>4. visited \subseteq visited' /\ routes \subseteq routes'
  BY DEF Skip, Arrive, Enqueue
<1>5. QED BY <1>1, <1>2, <1>3, <1>4 DEF registryVars, Unexpanded

LEMMA LookKeepsType ==
    ASSUME SearchInv, RegistryTypeOK, NEW d \in pending, IsNext(d), pending' = pending \ {d},
           Skip(d) \/ Arrive(d) \/ Enqueue(d), UNCHANGED <<query, current, registryVars>>
    PROVE  SearchType'
<1>1. /\ current \in Entries /\ query \in Query /\ query.maxHops \in Nat /\ d \in Chains
      /\ query' = query /\ current' = current /\ paths' = paths /\ connections' = connections
      /\ <<current.chain, d>> \in DOMAIN connections
  BY LookLeaves
<1>2. Extended(d) \in Seq(PathIds)
  BY <1>1 DEF Extended, Link, Entries, RegistryTypeOK
<1>3. Entry(d, Extended(d)) \in Entries
  BY <1>1, <1>2 DEF Entry, Entries
<1>4. queue \in Seq(Entries) /\ visited \subseteq Chains
  BY DEF SearchInv, SearchType
<1>5. queue' \in Seq(Entries) /\ visited' \subseteq Chains
  <2>1. PICK e : e = Entry(d, Extended(d))
    OBVIOUS
  <2>2. queue' = queue \/ queue' = Append(queue, e)
    BY <2>1 DEF Skip, Arrive, Enqueue
  <2>3. Append(queue, e) \in Seq(Entries)
    BY <1>3, <1>4, <2>1
  <2>4. visited' = visited \/ visited' = visited \cup {d}
    BY DEF Skip, Arrive, Enqueue
  <2>5. QED BY <1>1, <1>4, <2>2, <2>3, <2>4
<1>6. query # None
  BY <1>1, RouteAssumption
<1>7. pending' \subseteq Neighbours(current.chain)'
  <2>1. pending \subseteq Neighbours(current.chain)
    BY DEF SearchInv, SearchType
  <2>2. Neighbours(current.chain)' = Neighbours(current.chain)
    BY <1>1 DEF Neighbours
  <2>3. QED BY <2>1, <2>2
<1>8. Len(current.path) < query.maxHops
  BY LookLeaves
<1>9. routes' \subseteq Seq(PathIds)
  <2>1. routes' = routes \/ routes' = routes \cup {Extended(d)}
    BY DEF Skip, Arrive, Enqueue
  <2>2. routes \subseteq Seq(PathIds)
    BY DEF SearchInv, SearchType
  <2>3. QED BY <1>2, <2>1, <2>2
<1>10. QED BY <1>1, <1>5, <1>6, <1>7, <1>8, <1>9 DEF SearchType

LEMMA ReachedStays ==
    ASSUME NEW e, Reached(e), query' = query, UNCHANGED <<paths, connections>>, visited \subseteq visited'
    PROVE  Reached(e)'
BY WalkStays DEF Reached

LEMMA RoutesStay ==
    ASSUME query' = query, UNCHANGED <<paths, connections>>
    PROVE  \A r : IsSimpleRoute(r)' <=> IsSimpleRoute(r)
BY DEF IsSimpleRoute, Visits, ActiveLink

\* A link that was followed stays followed: depths are kept and nothing that was
\* found is lost.
LEMMA FollowedStays ==
    ASSUME NEW depth, NEW b, NEW c, Followed(depth, b, c), NEW depth2, depth2[b] = depth[b],
           c \in visited => depth2[c] = depth[c],
           query' = query, UNCHANGED <<paths, connections>>,
           visited \subseteq visited', routes \subseteq routes'
    PROVE  Followed(depth2, b, c)'
<1>1. ActiveLink(b, c)' <=> ActiveLink(b, c)
  BY DEF ActiveLink
<1>2. QED BY <1>1 DEF Followed

\* A neighbour that is passed over, or found before.
LEMMA SkipSearches ==
    ASSUME SearchInv, RegistryTypeOK, ConnectionsSound, NEW d \in pending, IsNext(d),
           pending' = pending \ {d}, UNCHANGED <<query, current, registryVars>>,
           Skip(d) \/ Arrive(d) \/ Enqueue(d),
           NEW depth, Breadth(depth), queue' = queue, visited' = visited,
           Followed(depth, current.chain, d)', RoutesAreSimple'
    PROVE  Breadth(depth)'
<1>1. /\ query' = query /\ current' = current /\ paths' = paths /\ connections' = connections
      /\ routes \subseteq routes'
  BY LookLeaves
<1>2. Unexpanded' \subseteq Unexpanded
  BY <1>1 DEF Unexpanded
<1>3. EntriesReached(depth)'
  <2>1. SUFFICES ASSUME NEW e \in Unexpanded PROVE Reached(e)' /\ depth[e.chain] = Len(e.path)
    BY <1>2 DEF EntriesReached
  <2>2. Reached(e) /\ depth[e.chain] = Len(e.path)
    BY DEF Breadth, EntriesReached
  <2>3. QED BY <1>1, <2>2, ReachedStays
<1>4. LevelByLevel(depth)'
  BY <1>1, <1>2 DEF Breadth, LevelByLevel
<1>5. InOrder'
  BY <1>1 DEF Breadth, InOrder
<1>6. LinksFollowed(depth)'
  <2>1. SUFFICES ASSUME NEW b \in visited, NEW c \in Chains
                 PROVE  \/ Followed(depth, b, c)'
                        \/ \E i \in DOMAIN queue : queue[i].chain = b
                        \/ b = current.chain /\ c \in pending'
    BY <1>1 DEF LinksFollowed
  <2>2. CASE Followed(depth, b, c)
    BY <1>1, <2>2, FollowedStays
  <2>3. \/ Followed(depth, b, c)
        \/ \E i \in DOMAIN queue : queue[i].chain = b
        \/ b = current.chain /\ c \in pending
    BY DEF Breadth, LinksFollowed
  <2>4. QED BY <2>2, <2>3
<1>7. EndsKnown' /\ depth[query.source]' = 0
  BY <1>1 DEF Breadth, EndsKnown
<1>8. QED BY <1>1, <1>3, <1>4, <1>5, <1>6, <1>7 DEF Breadth

\* The way to the entry at work, over the link to d.
LEMMA WayToNeighbour ==
    ASSUME SearchInv, RegistryTypeOK, NEW d \in pending, IsNext(d), pending' = pending \ {d},
           Skip(d) \/ Arrive(d) \/ Enqueue(d), UNCHANGED <<query, current, registryVars>>,
           BetweenTwoChains, NEW depth, Breadth(depth),
           IsActive(d), d \notin visited
    PROVE  /\ Len(Extended(d)) = Len(current.path) + 1 /\ Extended(d) \in Seq(PathIds)
           /\ \E stops \in Seq(Chains) :
                 /\ Walk(query.source, d, Extended(d), stops) /\ stops # << >>
                 /\ \A i \in 1 .. Len(stops) : stops[i] \in visited \cup {d}
<1>1. /\ current \in Entries /\ query \in Query /\ query.maxHops \in Nat /\ d \in Chains
      /\ <<current.chain, d>> \in DOMAIN connections
      /\ current \in Unexpanded
  BY LookLeaves
<1>2. ActiveLink(current.chain, d) /\ Extended(d) = Append(current.path, connections[<<current.chain, d>>])
  BY <1>1 DEF IsActive, Link, ActiveLink, Extended
<1>3. d # query.source
  BY DEF Breadth, EndsKnown
<1>4. Reached(current)
  BY <1>1 DEF Breadth, EntriesReached
<1>5. PICK stops \in Seq(Chains) : /\ Walk(query.source, current.chain, current.path, stops)
                                   /\ \A i \in 1 .. Len(stops) : stops[i] \in visited
  BY <1>4 DEF Reached
<1>6. \A i \in 1 .. Len(stops) : stops[i] # d
  BY <1>5
<1>7. PICK s : s = Append(stops, d)
  OBVIOUS
<1>8. Walk(query.source, d, Extended(d), s)
  BY <1>1, <1>2, <1>3, <1>5, <1>6, <1>7, WalkGoesOn
<1>9. s \in Seq(Chains) /\ s # << >> /\ \A i \in 1 .. Len(s) : s[i] \in visited \cup {d}
  BY <1>1, <1>5, <1>7
<1>10. connections[<<current.chain, d>>] \in PathIds /\ current.path \in Seq(PathIds)
  BY <1>1 DEF RegistryTypeOK, Entries
<1>11. Len(Extended(d)) = Len(current.path) + 1 /\ Extended(d) \in Seq(PathIds)
  BY <1>2, <1>10
<1>12. QED BY <1>8, <1>9, <1>11

\* A neighbour that is found: it joins the end of the queue.
LEMMA FindSearches ==
    ASSUME SearchInv, RegistryTypeOK, ConnectionsSound, BetweenTwoChains, NEW d \in pending, IsNext(d),
           pending' = pending \ {d}, UNCHANGED <<query, current, registryVars>>,
           Enqueue(d), IsFresh(d), NEW depth, Breadth(depth)
    PROVE  \E depth2 : Breadth(depth2)'
<1>1. /\ current \in Entries /\ query \in Query /\ query.maxHops \in Nat /\ d \in Chains
      /\ Len(current.path) \in Nat
      /\ query' = query /\ current' = current /\ paths' = paths /\ connections' = connections
      /\ visited \subseteq visited' /\ routes \subseteq routes' /\ current \in Unexpanded
  BY LookLeaves
<1>2. PICK new : new = Entry(d, Extended(d))
  OBVIOUS
<1>3. PICK L \in Nat : L = Len(current.path)
  BY <1>1
<1>4. /\ IsActive(d) /\ d # query.dest /\ d \notin visited
      /\ visited' = visited \cup {d} /\ queue' = Append(queue, new) /\ routes' = routes
  BY <1>2 DEF Enqueue, IsFresh
<1>5. /\ new.chain = d /\ Len(new.path) = L + 1 /\ new.path \in Seq(PathIds)
      /\ \E stops \in Seq(Chains) :
            /\ Walk(query.source, d, new.path, stops)
            /\ \A i \in 1 .. Len(stops) : stops[i] \in visited \cup {d}
  <2>1. new.chain = d /\ new.path = Extended(d)
    BY <1>2 DEF Entry
  <2>2. QED BY <1>3, <1>4, <2>1, WayToNeighbour
<1>6. depth \in [Chains -> Nat] /\ depth[query.source] = 0
  BY DEF Breadth
<1>7. PICK depth2 : depth2 = [depth EXCEPT ![d] = L + 1]
  OBVIOUS
<1>8. depth2 \in [Chains -> Nat] /\ depth2[d] = L + 1 /\ \A c \in Chains \ {d} : depth2[c] = depth[c]
  BY <1>1, <1>6, <1>7
<1>9. queue \in Seq(Entries) /\ visited \subseteq Chains
  BY DEF SearchInv, SearchType
<1>10. PICK n \in Nat : n = Len(queue) /\ DOMAIN queue = 1 .. n
  BY <1>9
<1>11. /\ DOMAIN queue' = 1 .. n + 1 /\ queue'[n + 1] = new
       /\ \A i \in 1 .. n : queue'[i] = queue[i]
  BY <1>4, <1>9, <1>10
<1>12. \A i \in 1 .. n + 1 : i \in 1 .. n \/ i = n + 1
  OBVIOUS
<1>13. \A e \in Unexpanded' : e \in Unexpanded \/ e = new
  BY <1>1, <1>10, <1>11, <1>12 DEF Unexpanded
<1>14. \A e \in Unexpanded : Reached(e) /\ depth[e.chain] = Len(e.path) /\ e.chain \in visited
  BY DEF Breadth, EntriesReached, Reached
<1>15. EntriesReached(depth2)'
  <2>1. ASSUME NEW e \in Unexpanded PROVE Reached(e)' /\ depth2[e.chain] = Len(e.path)
    <3>1. Reached(e)'
      BY <1>1, <1>14, ReachedStays
    <3>2. e.chain \in Chains \ {d}
      BY <1>4, <1>9, <1>14
    <3>3. QED BY <1>8, <1>14, <3>1, <3>2
  <2>2. Reached(new)'
    <3>1. PICK stops \in Seq(Chains) : /\ Walk(query.source, d, new.path, stops)
                                       /\ \A i \in 1 .. Len(stops) : stops[i] \in visited \cup {d}
      BY <1>5
    <3>2. Walk(query.source, new.chain, new.path, stops)'
      BY <1>1, <1>5, <3>1, WalkStays
    <3>3. QED BY <1>4, <1>5, <3>1, <3>2 DEF Reached
  <2>3. depth2[new.chain] = Len(new.path)
    BY <1>5, <1>8
  <2>4. QED BY <1>13, <2>1, <2>2, <2>3 DEF EntriesReached
<1>16. \A e \in Unexpanded : \A c \in visited : depth[c] <= Len(e.path) + 1
  BY DEF Breadth, LevelByLevel
<1>17. \A i \in DOMAIN queue : queue[i] \in Unexpanded
  BY DEF Unexpanded
<1>18. \A i \in DOMAIN queue : L <= Len(queue[i].path) /\ Len(queue[i].path) <= L + 1
  <2>1. \A i \in DOMAIN queue : L <= Len(queue[i].path)
    BY <1>3 DEF Breadth, InOrder
  <2>2. ASSUME NEW i \in DOMAIN queue PROVE Len(queue[i].path) <= L + 1
    <3>1. queue[i] \in Unexpanded
      BY <1>17
    <3>2. queue[i].chain \in visited /\ depth[queue[i].chain] = Len(queue[i].path)
      BY <1>14, <3>1
    <3>3. QED BY <1>1, <1>3, <1>16, <3>2
  <2>3. QED BY <2>1, <2>2
<1>19. \A e \in Unexpanded : Len(e.path) \in Nat /\ L <= Len(e.path)
  <2>1. \A e \in Unexpanded : e = current \/ \E i \in DOMAIN queue : e = queue[i]
    BY DEF Unexpanded
  <2>2. \A i \in DOMAIN queue : Len(queue[i].path) \in Nat
    BY <1>9 DEF Entries
  <2>3. QED BY <1>3, <1>18, <2>1, <2>2
<1>20. LevelByLevel(depth2)'
  <2>1. ASSUME NEW e \in Unexpanded, NEW c \in visited PROVE depth2[c] <= Len(e.path) + 1
    BY <1>4, <1>8, <1>9, <1>16, <2>1
  <2>2. ASSUME NEW e \in Unexpanded PROVE depth2[d] <= Len(e.path) + 1
    BY <1>8, <1>19, <2>2
  <2>3. ASSUME NEW c \in visited PROVE depth2[c] <= Len(new.path) + 1
    <3>1. depth[c] <= L + 1 /\ depth[c] \in Nat /\ depth2[c] = depth[c]
      BY <1>1, <1>3, <1>4, <1>6, <1>8, <1>9, <1>16
    <3>2. QED BY <1>5, <3>1
  <2>4. depth2[d] <= Len(new.path) + 1
    BY <1>5, <1>8
  <2>5. QED BY <1>4, <1>13, <2>1, <2>2, <2>3, <2>4 DEF LevelByLevel
<1>21. InOrder'
  <2>1. \A i, j \in 1 .. n + 1 : i <= j => Len(queue'[i].path) <= Len(queue'[j].path)
    <3>1. \A i, j \in 1 .. n : i <= j => Len(queue'[i].path) <= Len(queue'[j].path)
      BY <1>10, <1>11 DEF Breadth, InOrder
    <3>2. \A i \in 1 .. n : Len(queue'[i].path) <= Len(queue'[n + 1].path)
      BY <1>5, <1>10, <1>11, <1>18
    <3>3. Len(queue'[n + 1].path) <= Len(queue'[n + 1].path)
      BY <1>5, <1>11
    <3>4. \A i \in 1 .. n : ~(n + 1 <= i)
      OBVIOUS
    <3>5. QED BY <1>12, <3>1, <3>2, <3>3, <3>4
  <2>2. \A i \in 1 .. n + 1 : L <= Len(queue'[i].path)
    <3>1. \A i \in 1 .. n : L <= Len(queue'[i].path)
      BY <1>10, <1>11, <1>18
    <3>2. L <= Len(queue'[n + 1].path)
      BY <1>5, <1>11
    <3>3. QED BY <1>12, <3>1, <3>2
  <2>3. Len(current.path)' = L
    BY <1>1, <1>3
  <2>4. \A i, j \in DOMAIN queue' : i <= j => Len(queue'[i].path) <= Len(queue'[j].path)
    BY <1>11, <2>1
  <2>5. \A i \in DOMAIN queue' : Len(current.path)' <= Len(queue'[i].path)
    BY <1>11, <2>2, <2>3
  <2>6. QED BY <2>4, <2>5 DEF InOrder
<1>22. LinksFollowed(depth2)'
  <2>1. SUFFICES ASSUME NEW b \in visited \cup {d}, NEW c \in Chains
                 PROVE  \/ Followed(depth2, b, c)'
                        \/ \E i \in DOMAIN queue' : queue'[i].chain = b
                        \/ b = current.chain /\ c \in pending'
    BY <1>1, <1>4 DEF LinksFollowed
  <2>2. CASE b = d
    <3>1. n + 1 \in DOMAIN queue' /\ queue'[n + 1].chain = b
      BY <1>5, <1>11, <2>2
    <3>2. QED BY <3>1
  <2>3. ASSUME b \in visited, b # d, Followed(depth, b, c) PROVE Followed(depth2, b, c)'
    <3>1. depth2[b] = depth[b] /\ (c \in visited => depth2[c] = depth[c])
      BY <1>4, <1>8, <1>9, <2>3
    <3>2. QED BY <1>1, <2>3, <3>1, FollowedStays
  <2>4. ASSUME NEW i \in DOMAIN queue, queue[i].chain = b
        PROVE  \E j \in DOMAIN queue' : queue'[j].chain = b
    BY <1>10, <1>11, <2>4
  <2>5. ASSUME b = current.chain, c = d PROVE Followed(depth2, b, c)'
    <3>1. depth2[b] = L
      BY <1>1, <1>3, <1>4, <1>8, <1>9, <1>14, <2>5
    <3>2. d \in visited' /\ d # query'.dest /\ depth2[d] = L + 1 /\ depth2[d] <= depth2[b] + 1
      BY <1>1, <1>4, <1>8, <3>1
    <3>3. QED BY <2>5, <3>2 DEF Followed
  <2>6. b \in visited => \/ Followed(depth, b, c)
                         \/ \E i \in DOMAIN queue : queue[i].chain = b
                         \/ b = current.chain /\ c \in pending
    BY DEF Breadth, LinksFollowed
  <2>7. QED BY <1>4, <2>2, <2>3, <2>4, <2>5, <2>6
<1>23. EndsKnown' /\ depth2[query.source]' = 0
  <2>1. query.source \in visited /\ query.dest \notin visited
    BY DEF Breadth, EndsKnown
  <2>2. query.source # d /\ query.source \in Chains
    BY <1>4, <1>9, <2>1
  <2>3. QED BY <1>1, <1>4, <1>6, <1>8, <2>1, <2>2 DEF EndsKnown
<1>24. RoutesAreSimple'
  BY <1>1, <1>4, RoutesStay DEF Breadth, RoutesAreSimple
<1>25. Breadth(depth2)'
  BY <1>8, <1>15, <1>20, <1>21, <1>22, <1>23, <1>24 DEF Breadth
<1>26. QED BY <1>25

LEMMA LookSearches ==
    ASSUME SearchInv, RegistryTypeOK, ConnectionsSound, LookAt
    PROVE  SearchInv'
<1>1. PICK d \in pending : /\ IsNext(d) /\ pending' = pending \ {d}
                           /\ Skip(d) \/ Arrive(d) \/ Enqueue(d)
                           /\ UNCHANGED <<query, current, registryVars>>
  BY DEF LookAt
<1>2. SearchType'
  BY <1>1, LookKeepsType
<1>3. /\ current \in Entries /\ query \in Query /\ query.maxHops \in Nat /\ d \in Chains
      /\ Len(current.path) \in Nat /\ Len(current.path) < query.maxHops
      /\ query' = query /\ current' = current /\ paths' = paths /\ connections' = connections
      /\ <<current.chain, d>> \in DOMAIN connections
      /\ current \in Unexpanded
  BY <1>1, LookLeaves
<1>4. ASSUME BetweenTwoChains' PROVE \E depth : Breadth(depth)'
  <2>1. BetweenTwoChains
    BY <1>3, <1>4 DEF BetweenTwoChains
  <2>2. PICK depth : Breadth(depth)
    BY <2>1 DEF SearchInv
  <2>3. /\ depth \in [Chains -> Nat] /\ depth[current.chain] = Len(current.path)
        /\ current.chain \in visited /\ RoutesAreSimple /\ query.dest \notin visited
    BY <1>3, <2>2 DEF Breadth, EntriesReached, Reached, EndsKnown
  <2>4. PICK L \in Nat : L = Len(current.path) /\ depth[current.chain] = L
    BY <1>3, <2>3
  <2>5. CASE Skip(d)
    <3>1. ~ActiveLink(current.chain, d)
      BY <1>3, <2>5 DEF Skip, IsActive, Link, ActiveLink, ConnectionsSound
    <3>2. Followed(depth, current.chain, d)'
      BY <1>3, <3>1 DEF Followed, ActiveLink
    <3>3. queue' = queue /\ visited' = visited /\ routes' = routes
      BY <2>5 DEF Skip
    <3>4. RoutesAreSimple'
      BY <1>3, <2>3, <3>3, RoutesStay DEF RoutesAreSimple
    <3>5. Breadth(depth)'
      BY <1>1, <2>2, <3>2, <3>3, <3>4, SkipSearches
    <3>6. QED BY <3>5
  <2>6. CASE Arrive(d)
    <3>1. /\ IsActive(d) /\ d = query.dest /\ routes' = routes \cup {Extended(d)}
          /\ queue' = queue /\ visited' = visited
      BY <2>6 DEF Arrive
    <3>2. d \notin visited
      BY <2>3, <3>1
    <3>3. PICK r, stops : /\ r = Extended(d) /\ Len(r) = L + 1 /\ r \in Seq(PathIds)
                          /\ Walk(query.source, query.dest, r, stops) /\ stops # << >>
      BY <1>1, <2>1, <2>2, <2>4, <3>1, <3>2, WayToNeighbour
    <3>4. r \in routes' /\ r # << >> /\ Len(r) <= query.maxHops
      BY <1>3, <2>4, <3>1, <3>3
    <3>5. Followed(depth, current.chain, d)'
      BY <1>3, <2>4, <3>1, <3>3, <3>4 DEF Followed
    <3>6. IsSimpleRoute(r)
      BY <3>3, WalkIsSimple
    <3>7. \A x \in routes' : x # << >> /\ Len(x) <= query.maxHops /\ IsSimpleRoute(x)
      BY <2>3, <3>1, <3>3, <3>4, <3>6 DEF RoutesAreSimple
    <3>8. RoutesAreSimple'
      BY <1>3, <3>7, RoutesStay DEF RoutesAreSimple
    <3>9. Breadth(depth)'
      BY <1>1, <2>2, <3>1, <3>5, <3>8, SkipSearches
    <3>10. QED BY <3>9
  <2>7. CASE Enqueue(d) /\ IsFresh(d)
    BY <1>1, <2>1, <2>2, <2>7, FindSearches
  <2>8. CASE Enqueue(d) /\ ~IsFresh(d)
    <3>1. d # query.dest /\ queue' = queue /\ visited' = visited /\ routes' = routes
      BY <2>8 DEF Enqueue
    <3>2. d \in visited \/ ~(L + 1 < query.maxHops)
      <4>1. current.path \in Seq(PathIds) /\ Link(d) \in PathIds
        BY <1>3 DEF Entries, Link, RegistryTypeOK
      <4>2. Len(Extended(d)) = L + 1
        BY <2>4, <4>1 DEF Extended
      <4>3. QED BY <2>8, <4>2 DEF IsFresh
    <3>3. d \in visited => depth[d] <= L + 1
      BY <1>3, <2>2, <2>4 DEF Breadth, LevelByLevel
    <3>4. Followed(depth, current.chain, d)'
      BY <1>3, <2>4, <3>1, <3>2, <3>3 DEF Followed
    <3>5. RoutesAreSimple'
      BY <1>3, <2>3, <3>1, RoutesStay DEF RoutesAreSimple
    <3>6. Breadth(depth)'
      BY <1>1, <2>2, <3>1, <3>4, <3>5, SkipSearches
    <3>7. QED BY <3>6
  <2>9. QED BY <1>1, <2>5, <2>6, <2>7, <2>8
<1>5. QED BY <1>2, <1>4 DEF SearchInv

\* At the end all that is within n links was found, as long as the destination
\* is not among it.
LEMMA AllWithinFound ==
    ASSUME SearchInv, Done, BetweenTwoChains, NEW depth, Breadth(depth), NEW n \in Nat,
           n < query.maxHops, query.dest \notin Within(query.source, n)
    PROVE  \A c \in Within(query.source, n) : c \in visited /\ depth[c] \in Nat /\ depth[c] <= n
<1> DEFINE Ball(k) == Within(query.source, k)
           Good == {k \in Nat : k < query.maxHops /\ query.dest \notin Ball(k) =>
                       \A c \in Ball(k) : c \in visited /\ depth[c] \in Nat /\ depth[c] <= k}
<1>1. depth \in [Chains -> Nat] /\ depth[query.source] = 0 /\ query.source \in visited
  BY DEF Breadth, EndsKnown
<1>2. query \in Query /\ query.maxHops \in Nat /\ visited \subseteq Chains
  BY RouteAssumption DEF SearchInv, SearchType, Done, Query
<1>3. Ball(0) = {query.source} /\ \A k \in Nat : Ball(k + 1) = Ball(k) \cup Beside(Ball(k))
  BY WithinGrows
<1> HIDE DEF Ball
<1>4. 0 \in Good
  BY <1>1, <1>3
<1>5. \A k \in Nat : k \in Good => k + 1 \in Good
  <2>1. SUFFICES ASSUME NEW k \in Nat, k \in Good, k + 1 < query.maxHops, query.dest \notin Ball(k + 1),
                        NEW c \in Ball(k + 1)
                 PROVE  c \in visited /\ depth[c] \in Nat /\ depth[c] <= k + 1
    OBVIOUS
  <2>2. k < query.maxHops /\ query.dest \notin Ball(k) /\ c # query.dest
    BY <1>2, <1>3, <2>1
  <2>3. \A b \in Ball(k) : b \in visited /\ depth[b] \in Nat /\ depth[b] <= k
    BY <2>1, <2>2
  <2>4. CASE c \in Ball(k)
    BY <2>3, <2>4
  <2>5. CASE c \in Beside(Ball(k))
    <3>1. PICK b \in Ball(k) : ActiveLink(b, c) /\ c \in Chains
      BY <2>5 DEF Beside
    <3>2. b \in visited /\ depth[b] \in Nat /\ depth[b] <= k
      BY <2>3
    <3>3. Followed(depth, b, c)
      BY <3>1, <3>2 DEF Breadth, LinksFollowed, Done
    <3>4. depth[b] + 1 < query.maxHops
      BY <1>2, <2>1, <3>2
    <3>5. c \in visited /\ depth[c] <= depth[b] + 1
      BY <2>2, <3>1, <3>3, <3>4 DEF Followed
    <3>6. depth[c] \in Nat
      BY <1>1, <1>2, <3>5
    <3>7. QED BY <3>2, <3>5, <3>6
  <2>6. QED BY <1>3, <2>1, <2>4, <2>5
<1> HIDE DEF Good
<1>6. n \in Good
  BY <1>4, <1>5, NaturalsAreGood
<1>7. QED BY <1>6 DEF Good, Ball

LEMMA DistanceFound ==
    ASSUME SearchInv, Done, BetweenTwoChains, NEW n \in 1 .. query.maxHops,
           query.dest \in Within(query.source, n)
    PROVE  \E r \in routes : Len(r) <= n
<1>1. PICK depth : Breadth(depth)
  BY DEF SearchInv
<1>2. query.maxHops \in Nat /\ n \in Nat /\ n <= query.maxHops
  BY RouteAssumption DEF SearchInv, SearchType, Done, Query
<1>3. PICK m \in Nat : /\ query.dest \in Within(query.source, m)
                       /\ \A k \in Nat : query.dest \in Within(query.source, k) => m <= k
  <2> DEFINE T == {k \in Nat : query.dest \in Within(query.source, k)}
  <2>1. PICK k \in T : \A j \in T : k <= j
    <3>1. T \in SUBSET Nat /\ T # {}
      BY <1>2
    <3> HIDE DEF T
    <3>2. QED BY <3>1, LeastNatural
  <2>2. QED BY <2>1
<1>4. m # 0
  BY <1>3, WithinGrows DEF BetweenTwoChains
<1>5. PICK k \in Nat : m = k + 1
  <2>1. m - 1 \in Nat /\ m = (m - 1) + 1
    BY <1>4
  <2>2. QED BY <2>1
<1>6. m <= n /\ k < query.maxHops /\ ~(m <= k)
  BY <1>2, <1>3, <1>5
<1>7. query.dest \notin Within(query.source, k)
  BY <1>3, <1>6
<1>8. query.dest \in Beside(Within(query.source, k))
  BY <1>3, <1>5, <1>7, WithinGrows
<1>9. PICK b \in Within(query.source, k) : ActiveLink(b, query.dest) /\ query.dest \in Chains
  BY <1>8 DEF Beside
<1>10. b \in visited /\ depth[b] \in Nat /\ depth[b] <= k
  BY <1>1, <1>6, <1>7, <1>9, AllWithinFound
<1>11. Followed(depth, b, query.dest)
  BY <1>1, <1>9, <1>10 DEF Breadth, LinksFollowed, Done
<1>12. depth[b] + 1 <= query.maxHops /\ depth[b] + 1 <= n
  BY <1>2, <1>5, <1>6, <1>10
<1>13. PICK r \in routes : Len(r) <= depth[b] + 1
  BY <1>9, <1>11, <1>12 DEF Followed
<1>14. r \in Seq(PathIds)
  BY DEF SearchInv, SearchType
<1>15. Len(r) <= n
  BY <1>2, <1>10, <1>12, <1>13, <1>14
<1>16. QED BY <1>15

LEMMA FoundWithin ==
    ASSUME SearchInv, BetweenTwoChains, RoutesAreSimple, NEW n \in Nat,
           NEW r \in routes, Len(r) <= n
    PROVE  query.dest \in Within(query.source, n)
<1>1. r \in Seq(PathIds) /\ r # << >> /\ IsSimpleRoute(r)
  BY DEF SearchInv, SearchType, RoutesAreSimple
<1>2. Len(r) \in Nat /\ Len(r) # 0
  BY <1>1
<1>3. PICK stops \in [1 .. Len(r) -> Chains] :
          Visits(query.source, r, stops) /\ stops[Len(r)] = query.dest
  BY <1>1 DEF IsSimpleRoute
<1>4. query.dest \in Within(query.source, Len(r))
  BY <1>2, <1>3, WalkEndsWithin
<1>5. QED BY <1>2, <1>4, WithinMonotone

LEMMA DoneIsDistance == SearchInv => ShortestIsDistance
<1> SUFFICES ASSUME SearchInv, Done, BetweenTwoChains
             PROVE  /\ RoutesAreSimple
                    /\ \A n \in 1 .. query.maxHops :
                          query.dest \in Within(query.source, n) <=> \E r \in routes : Len(r) <= n
  BY DEF ShortestIsDistance
<1>1. RoutesAreSimple
  BY DEF SearchInv, Breadth
<1>2. \A n \in 1 .. query.maxHops : n \in Nat
  BY RouteAssumption DEF SearchInv, SearchType, Done, Query
<1>3. QED BY <1>1, <1>2, DistanceFound, FoundWithin

RoutesInv == IInv /\ SearchInv

LEMMA NextRoutesInv == RoutesInv /\ [RoutesNext]_<<searchVars, registryVars>> => RoutesInv'
<1> SUFFICES ASSUME IInv, SearchInv, [RoutesNext]_<<searchVars, registryVars>>
             PROVE  IInv' /\ SearchInv'
  BY DEF RoutesInv
<1>1. ASSUME UNCHANGED searchVars, query = None \/ UNCHANGED registryVars PROVE SearchInv'
  <2>1. CASE query = None
    BY <1>1, <2>1 DEF searchVars, SearchInv, SearchType, BetweenTwoChains
  <2>2. CASE UNCHANGED registryVars
    <3>1. /\ query' = query /\ queue' = queue /\ current' = current /\ pending' = pending
          /\ visited' = visited /\ routes' = routes /\ paths' = paths /\ connections' = connections
      BY <1>1, <2>2 DEF searchVars, registryVars
    <3>2. SearchType' /\ (BetweenTwoChains' <=> BetweenTwoChains)
      BY <3>1 DEF SearchInv, SearchType, Neighbours, BetweenTwoChains
    <3>3. ASSUME NEW depth, Breadth(depth) PROVE Breadth(depth)'
      <4>1. Unexpanded' = Unexpanded /\ EndsKnown' /\ InOrder' /\ RoutesAreSimple'
        BY <3>1, <3>3, RoutesStay DEF Unexpanded, Breadth, EndsKnown, InOrder, RoutesAreSimple
      <4>2. EntriesReached(depth)'
        <5>1. \A e \in Unexpanded : Reached(e)' /\ depth[e.chain] = Len(e.path)
          BY <3>1, <3>3, ReachedStays DEF Breadth, EntriesReached
        <5>2. QED BY <4>1, <5>1 DEF EntriesReached
      <4>3. LevelByLevel(depth)'
        BY <3>1, <3>3, <4>1 DEF Breadth, LevelByLevel
      <4>4. LinksFollowed(depth)'
        <5>1. \A b, c : Followed(depth, b, c) => Followed(depth, b, c)'
          BY <3>1, FollowedStays
        <5>2. QED BY <3>1, <3>3, <5>1 DEF Breadth, LinksFollowed
      <4>5. QED BY <3>1, <3>3, <4>1, <4>2, <4>3, <4>4 DEF Breadth
    <3>4. QED BY <3>2, <3>3 DEF SearchInv
  <2>3. QED BY <1>1, <2>1, <2>2
<1>2. CASE UNCHANGED <<searchVars, registryVars>>
  BY <1>1, <1>2, NextIInv
<1>3. CASE query = None /\ RegistryNext /\ UNCHANGED searchVars
  BY <1>1, <1>3, NextIInv
<1>4. ASSUME NEW q \in Query, Ask(q) PROVE IInv' /\ SearchInv'
  <2>1. UNCHANGED registryVars
    BY <1>4 DEF Ask
  <2>2. QED BY <1>4, <2>1, NextIInv, AskSearches
<1>5. CASE Pop
  <2>1. UNCHANGED registryVars /\ query # None
    BY <1>5 DEF Pop, SearchInv, SearchType
  <2>2. QED BY <1>5, <2>1, NextIInv, PopSearches
<1>6. CASE LookAt
  <2>1. UNCHANGED registryVars
    BY <1>6 DEF LookAt
  <2>2. QED BY <1>6, <2>1, NextIInv, LookSearches DEF IInv
<1>7. CASE Answer
  <2>1. UNCHANGED registryVars
    BY <1>7 DEF Answer
  <2>2. SearchInv'
    BY <1>7 DEF Answer, Done, SearchInv, SearchType, BetweenTwoChains
  <2>3. QED BY <2>1, <2>2, NextIInv
<1>8. QED BY <1>2, <1>3, <1>4, <1>5, <1>6, <1>7 DEF RoutesNext

\* FindRoute answers with simple walks over active paths only, and with one as
\* short as can be whenever the destination is within reach, for any number of
\* chains and paths, any limit of hops and after whatever sequence of
\* registrations, moves and removals.
THEOREM RoutesAreShortest == RoutesSpec => []ShortestIsDistance
<1>1. RoutesInit => RoutesInv
  BY InitIInv, SearchInitInv DEF RoutesInit, RoutesInv
<1>2. RoutesInv => ShortestIsDistance
  BY DoneIsDistance DEF RoutesInv
<1>3. QED BY <1>1, <1>2, NextRoutesInv, PTL DEF RoutesSpec
=============================================================================
