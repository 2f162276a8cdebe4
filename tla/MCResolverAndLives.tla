------------------------- MODULE MCResolverAndLives -------------------------
(***************************************************************************)
(* Components that share no state, in one run: the initial state chooses    *)
(* the one to explore, and the others stay where they began.                *)
(*                                                                         *)
(* Orders: MCFusionResolver with a token that reverts and one that does not, *)
(* and two configuration contracts whose longest timelocks are changed; no   *)
(* account is blacklisted, the owner locks nothing itself, and two HTLCs     *)
(* are created at most.                                                      *)
(* Setters: every setter of one configuration contract after another.       *)
(* Lives: three lives of the relayer over a chain that grows by two         *)
(* blocks, whose last block may be replaced.                                *)
(***************************************************************************)
EXTENDS MCFusionResolver, RelayerLives, TLC

VARIABLE part

MCInit ==
    /\ part \in {"orders", "setters", "lives"}
    /\ ResolverInit /\ RelayerInit
    /\ part # "lives" =>
           \A h \in DOMAIN chain : chain[h] = CHOOSE v \in Versions : TRUE
    /\ part # "orders" => resolverConfig = fusionConfig

OwnerOnlyAdministers ==
    Owner \notin authorized' /\ CreatedBy(Owner)' = {} /\ blacklisted' = {}

FewHTLCs == Cardinality(htlcs') <= 2

OnlyMaxTimelocks ==
    \A k \in ConfigContracts :
        configs'[k] = [configs[k] EXCEPT !.maxTimelock = configs'[k].maxTimelock]

OneIsConfigured ==
    Cardinality({k \in ConfigContracts : configs'[k] # InitialConfig}) <= 1

MCNext ==
    /\ UNCHANGED part
    /\ \/ part = "orders" /\ ResolverNext /\ OnlyMaxTimelocks /\ OwnerOnlyAdministers /\ FewHTLCs
          /\ UNCHANGED relayerVars
       \/ part = "setters" /\ Configure /\ OneIsConfigured /\ UNCHANGED <<resolverVars, relayerVars>>
       \/ part = "lives" /\ RelayerNext /\ UNCHANGED allVars

MCSymmetry == Permutations(ConfigContracts)

MCSpec == MCInit /\ [][MCNext]_<<part, allVars, relayerVars>>
=============================================================================
