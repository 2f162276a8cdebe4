---------------------------- MODULE MCCosmosHTLC ----------------------------
(* The Cosmos HTLC contract by itself.                                     *)
EXTENDS CosmosHTLC, TLC

MCSymmetry == Permutations(Denoms) \cup Permutations(Accounts \ {Admin})
=============================================================================
