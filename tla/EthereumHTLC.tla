---------------------------- MODULE EthereumHTLC ----------------------------
(***************************************************************************)
(* The CrossChainHTLC contract (contracts/ethereum/contracts/               *)
(* CrossChainHTLC.sol) together with the FusionConfig contracts it reads.   *)
(* A transaction is atomic (nonReentrant, and a revert undoes all of it),   *)
(* so each external function is one action.                                 *)
(*                                                                         *)
(* An HTLC's id is the keccak256 of its parameters and the block time; the *)
(* hash is taken to be injective, so here the id IS the record of what it  *)
(* hashes.  Those are also the immutable fields of struct HTLC: the set    *)
(* htlcs is the domain of the mapping, and the two flags of the struct are *)
(* the sets withdrawn and refunded.  A secret opens exactly one hashlock,  *)
(* and the two are the same value.  The arrays addressHtlcs[a] and         *)
(* addressHtlcTimestamps[a] hold no element twice and are read for their   *)
(* members and length only: they are the sets tracked[a] and stamps[a], a  *)
(* timestamp being named by the HTLC that pushed it.  That the contract's  *)
(* swap-and-pop loops remove from an array exactly what is removed here    *)
(* from a set is module SwapAndPop's claim.                                *)
(***************************************************************************)
EXTENDS FusionConfig, FiniteSets, FiniteSetsExt, Functions

CONSTANTS
    Accounts,       \* callers, each with a token balance
    Tokens,         \* ERC-20 contracts
    Amounts,        \* amounts a caller may try to lock
    Secrets,        \* preimages, each standing for its hashlock too
    Timelocks,      \* absolute timelocks a caller may pass
    InitialFunds,   \* what each account holds of each token at the start
    MaxTime         \* bound of the model's clock

VARIABLES
    fusionConfig,   \* the config contract in use
    htlcs,          \* ids of the HTLCs ever created
    withdrawn,      \* ids whose withdrawn flag is set
    refunded,       \* ids whose refunded flag is set
    tracked,        \* addressHtlcs
    stamps,         \* addressHtlcTimestamps
    blacklisted,    \* accounts whose blacklistedAddresses entry is true
    wallet,         \* wallet[a][t]: balance of account a in token t
    vault,          \* vault[t]: balance of the HTLC contract in token t
    now             \* block.timestamp

htlcVars == <<fusionConfig, htlcs, withdrawn, refunded, tracked, stamps,
              blacklisted, wallet, vault>>
vars == <<configs, fusionConfig, htlcs, withdrawn, refunded, tracked, stamps,
          blacklisted, wallet, vault, now>>

ASSUME HTLCAssumption ==
    /\ Amounts \subseteq Nat
    /\ Timelocks \subseteq Nat
    /\ InitialFunds \in Nat
    /\ MaxTime \in Nat

HTLCIds == [sender: Accounts, token: Tokens, amount: Nat,
            hashlock: Secrets, timelock: Nat, created: Nat]

cfg == configs[fusionConfig]
Open == htlcs \ (withdrawn \cup refunded)
OpenOf(a) == {id \in Open : id.sender = a}

Init ==
    /\ ConfigInit
    /\ fusionConfig \in ConfigContracts
    /\ htlcs = {} /\ withdrawn = {} /\ refunded = {}
    /\ tracked = [a \in Accounts |-> {}]
    /\ stamps = [a \in Accounts |-> {}]
    /\ blacklisted = {}
    /\ wallet = [a \in Accounts |-> [t \in Tokens |-> InitialFunds]]
    /\ vault = [t \in Tokens |-> 0]
    /\ now = 0
-----------------------------------------------------------------------------
\* Operators named Fault... are variants of the definition that follows with a
\* seeded fault: what the properties below are there to notice.

\* The clean-up drops an HTLC one time unit early.
FaultEarlyCleanup(a) == {id \in tracked[a] : id.timelock > now + 1 /\ id \in Open}

\* _cleanupExpiredHtlcs: what is left of the account's list.
CleanedUp(a) == {id \in tracked[a] : id.timelock > now /\ id \in Open}

\* The window's first instant is not counted.
FaultShortWindow(a) == {id \in stamps[a] : id.created > now - cfg.window}

\* _enforceRateLimit and _cleanupOldTimestamps: the stamps still in the window.
InWindow(a) == {id \in stamps[a] : id.created >= now - cfg.window}

BelowActiveLimit(a) == Cardinality(CleanedUp(a)) < cfg.maxHtlcs

BelowRateLimit(a) ==
    /\ cfg.window <= now          \* the subtraction reverts on underflow
    /\ Cardinality(InWindow(a)) < cfg.perWindow

\* A refunded HTLC can still be withdrawn.
FaultNotWithdrawn(id) == id \in htlcs \ withdrawn
\* The modifiers htlcExists and notExecuted.
NotExecuted(id) == id \in htlcs /\ id \notin withdrawn /\ id \notin refunded

\* The refund opens one time unit late.
FaultLateExpiry(id) == now > id.timelock
Expired(id) == now >= id.timelock

\* safeTransfer reverts if the contract's balance does not cover the amount.
Covers(t, amount) == vault[t] >= amount

Pay(a, t, amount) ==
    /\ vault' = [vault EXCEPT ![t] = @ - amount]
    /\ wallet' = [wallet EXCEPT ![a][t] = @ + amount]

\* The require statements of createHTLC and the checks of the two limits.
Admissible(id) ==
    LET a == id.sender IN
    /\ a \notin blacklisted
    /\ ~cfg.paused
    /\ cfg.minAmount <= id.amount /\ id.amount <= cfg.maxAmount
    /\ now < id.timelock /\ id.timelock <= now + cfg.maxTimelock
    /\ BelowActiveLimit(a)
    /\ BelowRateLimit(a)
    /\ id.created = now
    /\ id \notin htlcs

\* What createHTLC stores, the balance of the contract included.
Store(id) ==
    LET a == id.sender IN
    /\ htlcs' = htlcs \cup {id}
    /\ tracked' = [tracked EXCEPT ![a] = CleanedUp(a) \cup {id}]
    /\ stamps' = [stamps EXCEPT ![a] = InWindow(a) \cup {id}]
    /\ vault' = [vault EXCEPT ![id.token] = @ + id.amount]
    /\ UNCHANGED <<configs, fusionConfig, withdrawn, refunded, blacklisted, now>>

CreateHTLC(id) ==
    /\ Admissible(id)
    /\ wallet[id.sender][id.token] >= id.amount
    /\ wallet' = [wallet EXCEPT ![id.sender][id.token] = @ - id.amount]
    /\ Store(id)

\* Anyone may withdraw, at any time, with the secret.
Withdraw(caller, id, secret) ==
    /\ NotExecuted(id)
    /\ secret = id.hashlock
    /\ Covers(id.token, id.amount)
    /\ withdrawn' = withdrawn \cup {id}
    /\ tracked' = [tracked EXCEPT ![id.sender] = @ \ {id}]
    /\ Pay(caller, id.token, id.amount)
    /\ UNCHANGED <<configs, fusionConfig, htlcs, refunded, stamps, blacklisted, now>>

\* All that refund requires of the state it finds.
MayRefund(caller, id) ==
    /\ NotExecuted(id)
    /\ Expired(id)
    /\ caller = id.sender
    /\ Covers(id.token, id.amount)

Refund(caller, id) ==
    /\ MayRefund(caller, id)
    /\ refunded' = refunded \cup {id}
    /\ tracked' = [tracked EXCEPT ![id.sender] = @ \ {id}]
    /\ Pay(id.sender, id.token, id.amount)
    /\ UNCHANGED <<configs, fusionConfig, htlcs, withdrawn, stamps, blacklisted, now>>

CleanupExpiredHtlcs(a) ==
    /\ tracked' = [tracked EXCEPT ![a] = CleanedUp(a)]
    /\ UNCHANGED <<configs, fusionConfig, htlcs, withdrawn, refunded, stamps,
                   blacklisted, wallet, vault, now>>

BlacklistAddress(a) ==
    /\ blacklisted' = blacklisted \cup {a}
    /\ UNCHANGED <<configs, fusionConfig, htlcs, withdrawn, refunded, tracked,
                   stamps, wallet, vault, now>>

WhitelistAddress(a) ==
    /\ blacklisted' = blacklisted \ {a}
    /\ UNCHANGED <<configs, fusionConfig, htlcs, withdrawn, refunded, tracked,
                   stamps, wallet, vault, now>>

SetFusionConfig(k) ==
    /\ fusionConfig' = k
    /\ UNCHANGED <<configs, htlcs, withdrawn, refunded, tracked, stamps,
                   blacklisted, wallet, vault, now>>

Configure == ConfigNext /\ UNCHANGED <<htlcVars, now>>

\* Blocks are mined: time passes between transactions.
Tick ==
    /\ now < MaxTime
    /\ now' = now + 1
    /\ UNCHANGED <<configs, htlcVars>>

Create(callers) ==
    \E a \in callers, t \in Tokens, n \in Amounts, s \in Secrets, l \in Timelocks :
        CreateHTLC([sender |-> a, token |-> t, amount |-> n, hashlock |-> s,
                    timelock |-> l, created |-> now])

\* The transactions that the given accounts (and the owner) may send.
NextBy(callers) ==
    \/ Create(callers)
    \/ \E a \in callers, id \in htlcs, s \in Secrets : Withdraw(a, id, s)
    \/ \E a \in callers, id \in htlcs : Refund(a, id)
    \/ \E a \in Accounts : CleanupExpiredHtlcs(a)
    \/ \E a \in Accounts : BlacklistAddress(a) \/ WhitelistAddress(a)
    \/ \E k \in ConfigContracts : SetFusionConfig(k)
    \/ Configure
    \/ Tick

Next == NextBy(Accounts)

Spec == Init /\ [][Next]_vars
-----------------------------------------------------------------------------
TypeOK ==
    /\ ConfigTypeOK
    /\ fusionConfig \in ConfigContracts
    /\ htlcs \subseteq HTLCIds
    /\ withdrawn \subseteq htlcs /\ refunded \subseteq htlcs
    /\ tracked \in [Accounts -> SUBSET HTLCIds]
    /\ stamps \in [Accounts -> SUBSET HTLCIds]
    /\ blacklisted \subseteq Accounts
    /\ wallet \in [Accounts -> [Tokens -> Nat]]
    /\ vault \in [Tokens -> Int]
    /\ now \in Nat

\* The amounts of the HTLCs of S in token t.
Owed(S, t) == SumFunctionOnSet([id \in S |-> id.amount], {id \in S : id.token = t})

\* The contract holds exactly what it owes: its balance in a token is the sum
\* of the HTLCs neither withdrawn nor refunded.  A double payment, or a payment
\* racing another for the same HTLC at its expiry, breaks it.
Solvent == \A t \in Tokens : vault[t] = Owed(Open, t)

\* An HTLC is settled one way only, although from its timelock on both ways
\* are open to different callers.
SettledOnce == withdrawn \cap refunded = {}

\* The list the per-address limit counts is neither short nor polluted: it has
\* every open HTLC of the account that has not expired (one missing lets the
\* account exceed the limit) and nothing but the account's own open HTLCs (one
\* too many locks the account out).  Clean-ups, settlements and the passing of
\* time all touch one side only.
TrackedExactly ==
    \A a \in Accounts :
        /\ {id \in OpenOf(a) : id.timelock > now} \subseteq tracked[a]
        /\ tracked[a] \subseteq OpenOf(a)

\* The sender of an expired open HTLC can take it back whatever the owner has
\* done and whoever was paid before: neither the pause, nor the blacklist, nor a
\* change of configuration or of tracking list stands in the way of refund, and
\* the tokens are still there.  What Refund says beyond MayRefund is the value
\* each variable takes.
AlwaysRefundable ==
    \A id \in Open : now >= id.timelock => MayRefund(id.sender, id)

CreatedBy(a) == {id \in htlcs : id.sender = a}

\* A creation leaves its account with at most maxHtlcsPerAddress open HTLCs
\* that have not expired and at most maxHtlcsPerWindow in the current window
\* ("Max HTLCs per address per window", FusionConfig.sol:31): both counted on
\* the HTLCs themselves, not on the list and the stamps that were kept.
LimitsRespected ==
    [][\A a \in Accounts :
         CreatedBy(a)' # CreatedBy(a) =>
            /\ Cardinality({id \in OpenOf(a)' : id.timelock > now}) <= cfg.maxHtlcs
            /\ Cardinality({id \in CreatedBy(a)' : id.created >= now - cfg.window})
                  <= cfg.perWindow]_vars

LockOf(id) == [id |-> id, deadline |-> id.timelock]
Abstract == INSTANCE HashTimeLock WITH
                locked <- {LockOf(id) : id \in Open},
                claimed <- {LockOf(id) : id \in withdrawn},
                returned <- {LockOf(id) : id \in refunded},
                clock <- now

\* Every step of the contract is a step of the abstract hash time lock, or
\* one it does not see: limits, clean-ups and configuration never lock,
\* release or re-date an HTLC.
ImplementsHashTimeLock == Abstract!LockSpec
=============================================================================
