--------------------------- MODULE FusionResolver ---------------------------
(***************************************************************************)
(* The FusionResolver contract (contracts/ethereum/contracts/               *)
(* FusionResolver.sol) in front of CrossChainHTLC: an authorized resolver   *)
(* locks a maker's tokens, and to CrossChainHTLC the sender of that HTLC is *)
(* the resolver contract.  A contract calls nothing on its own: what the    *)
(* resolver contract does is what its functions make it do.                 *)
(***************************************************************************)
EXTENDS EthereumHTLC

CONSTANTS
    ResolverContract,  \* the account of the FusionResolver contract
    Owner,             \* its owner
    SilentTokens       \* tokens whose transferFrom returns FALSE where that of
                       \* the others reverts

VARIABLES
    authorized,        \* accounts with authorizedResolvers set
    resolverConfig     \* the resolver contract's own fusionConfig

resolverVars == <<authorized, resolverConfig>>
allVars == <<vars, authorized, resolverConfig>>

ASSUME ResolverAssumption ==
    /\ IsFiniteSet(Accounts)
    /\ {ResolverContract, Owner} \subseteq Accounts /\ ResolverContract # Owner
    /\ SilentTokens \subseteq Tokens

Users == Accounts \ {ResolverContract}

ResolverInit ==
    /\ Init
    /\ authorized = {}
    /\ resolverConfig \in ConfigContracts

SetResolverAuthorization(r, allowed) ==
    /\ authorized' = IF allowed THEN authorized \cup {r} ELSE authorized \ {r}
    /\ UNCHANGED <<vars, resolverConfig>>

SetResolverConfig(k) ==
    /\ resolverConfig' = k
    /\ UNCHANGED <<vars, authorized>>

\* Seeded fault: the deadline is passed on as it is.
FaultUnclamped(deadline) == deadline

\* The deadline, cut to the longest timelock the RESOLVER's configuration
\* allows; createHTLC checks it against its own.
ClampedTimelock(deadline) ==
    Min({deadline, now + configs[resolverConfig].maxTimelock})

OrderId(token, amount, hashlock, deadline) ==
    [sender |-> ResolverContract, token |-> token, amount |-> amount,
     hashlock |-> hashlock, timelock |-> ClampedTimelock(deadline), created |-> now]

\* Seeded fault: the maker's tokens are not collected.
FaultNotCollected(maker, token, amount, approved) == wallet

\* transferFrom(maker, resolver contract), whose result the contract does not
\* read: it moves the amount if the maker holds and has approved it; if not, it
\* reverts, or with a silent token moves nothing and the order goes on.
Collect(maker, token, amount, approved) ==
    IF approved /\ wallet[maker][token] >= amount
    THEN [wallet EXCEPT ![maker][token] = @ - amount,
                        ![ResolverContract][token] = @ + amount]
    ELSE wallet

CollectReverts(maker, token, amount, approved) ==
    token \notin SilentTokens /\ ~(approved /\ wallet[maker][token] >= amount)

\* Seeded fault: the HTLC contract does not notice either that it got nothing.
FaultLockUnchecked(caller, maker, token, amount, hashlock, deadline, approved) ==
    LET id == OrderId(token, amount, hashlock, deadline)
    IN  /\ caller \in authorized \cup {Owner}
        /\ token \in SilentTokens
        /\ Admissible(id)
        /\ htlcs' = htlcs \cup {id}
        /\ tracked' = [tracked EXCEPT ![id.sender] = CleanedUp(id.sender) \cup {id}]
        /\ stamps' = [stamps EXCEPT ![id.sender] = InWindow(id.sender) \cup {id}]
        /\ UNCHANGED <<configs, fusionConfig, withdrawn, refunded, blacklisted,
                       wallet, vault, now, resolverVars>>

\* An order collects the maker's tokens into the resolver contract, and
\* createHTLC takes them from there (safeTransferFrom, which reverts).
CreateCrossChainOrder(caller, maker, token, amount, hashlock, deadline, approved) ==
    LET id == OrderId(token, amount, hashlock, deadline)
        collected == Collect(maker, token, amount, approved)
    IN  /\ caller \in authorized \cup {Owner}
        /\ deadline > now
        /\ amount > 0
        /\ ~CollectReverts(maker, token, amount, approved)
        /\ collected[ResolverContract][token] >= amount
        /\ wallet' = [collected EXCEPT ![ResolverContract][token] = @ - amount]
        /\ Admissible(id)
        /\ Store(id)
        /\ UNCHANGED resolverVars

\* transfer's result is not read either: where it fails, nothing changes.
EmergencyWithdraw(token, amount, to) ==
    /\ wallet[ResolverContract][token] >= amount
    /\ wallet' = [wallet EXCEPT ![ResolverContract][token] = @ - amount,
                                ![to][token] = @ + amount]
    /\ UNCHANGED <<configs, fusionConfig, htlcs, withdrawn, refunded, tracked,
                   stamps, blacklisted, vault, now, resolverVars>>

ResolverNext ==
    \/ \E r \in Users, allowed \in BOOLEAN : SetResolverAuthorization(r, allowed)
    \/ \E k \in ConfigContracts : SetResolverConfig(k)
    \/ \E caller \in Users, maker \in Users, t \in Tokens, n \in Amounts,
          s \in Secrets, d \in Timelocks, approved \in BOOLEAN :
             CreateCrossChainOrder(caller, maker, t, n, s, d, approved)
    \/ \E t \in Tokens, n \in Amounts, to \in Users : EmergencyWithdraw(t, n, to)
    \/ NextBy(Users) /\ UNCHANGED resolverVars

ResolverSpec == ResolverInit /\ [][ResolverNext]_allVars
-----------------------------------------------------------------------------
\* An order in a token that reverts is paid for by its maker: what the resolver
\* contract holds of it is the same after both transfers.  Of a silent token an
\* order may spend what the contract held already.
OrdersDoNotSpendResolverFunds ==
    [][htlcs' # htlcs =>
         \A t \in Tokens \ SilentTokens :
             wallet'[ResolverContract][t] = wallet[ResolverContract][t]]_allVars

\* No order fails for its timelock: a deadline ahead of the clock is still ahead
\* of it once it is cut, and createHTLC admits it as long as the configuration
\* of the resolver contract allows no longer timelocks than that of the HTLC
\* contract, however either was set and whichever contract was pointed elsewhere.
ClampedTimelocksFit ==
    configs[resolverConfig].maxTimelock <= cfg.maxTimelock =>
        \A d \in Timelocks : d > now =>
            /\ now < ClampedTimelock(d)
            /\ ClampedTimelock(d) <= now + cfg.maxTimelock

\* An expired HTLC nobody withdrew can be refunded by some caller ("Automatic
\* Recovery: Timeout handling and refund mechanisms", README.md).
SomeoneCanRefund ==
    \A id \in Open : now >= id.timelock => \E u \in Users : MayRefund(u, id)
=============================================================================
