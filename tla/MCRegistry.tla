----------------------------- MODULE MCRegistry -----------------------------
(***************************************************************************)
(* Three chains and three paths: a triangle, parallel paths between two     *)
(* chains, a path that moves over another one's entries.  To keep the       *)
(* instance small, queries are asked when every chain is registered and     *)
(* active: the search never looks at CHAINS.                                *)
(***************************************************************************)
EXTENDS RegistryRoutes, TLC

MCChains == 1 .. 3

MCNext == RoutesNext /\ (query' # None => chains = [c \in Chains |-> TRUE])
MCSpec == RoutesInit /\ [][MCNext]_<<searchVars, registryVars>>

MCSymmetry == Permutations(PathIds) \cup Permutations(Senders)
=============================================================================
