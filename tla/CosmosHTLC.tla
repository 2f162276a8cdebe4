----------------------------- MODULE CosmosHTLC -----------------------------
(***************************************************************************)
(* The CosmWasm HTLC contract (contracts/cosmwasm/htlc).  A message is      *)
(* executed atomically together with the bank and swap messages it emits:   *)
(* when one of those fails, for lack of balance for instance, everything is *)
(* rolled back.  So one action per ExecuteMsg.                              *)
(*                                                                         *)
(* HTLC number i is "htlc_<i-1>".  Funds are one coin, as the swap code      *)
(* ("Assume single token").  A secret stands for its hash.                  *)
(***************************************************************************)
EXTENDS Integers, Sequences, FiniteSets, Functions

CONSTANTS
    Accounts, Admin,   \* callers; the admin named at instantiation
    Denoms,            \* coin denominations
    Amounts,           \* amounts of a deposit, a swap output or a minimum
    Secrets,
    MaxTimelock,       \* get_max_timelock_duration of ProtocolConfig
    InitialFunds,
    MaxHtlcs, MaxTime  \* bounds of the model

VARIABLES
    htlcs,    \* HTLCS: the stored HTLC of every number below HTLC_COUNT
    wallet,   \* wallet[a][d]: balance of a caller
    bank,     \* bank[d]: balance of the contract
    now       \* env.block.time

vars == <<htlcs, wallet, bank, now>>

ASSUME CosmosAssumption ==
    /\ Admin \in Accounts
    /\ Amounts \subseteq Nat \ {0}
    /\ {MaxTimelock, InitialFunds, MaxHtlcs, MaxTime} \subseteq Nat

Ids == DOMAIN htlcs
Count == Cardinality(Ids)     \* HTLC_COUNT

\* swapOut is what the swap of the deposit brought in: the chain's bank knows
\* it, the contract does not record it.  0: no swap was executed.
NoSwap == 0
Htlc == [sender: Accounts, receiver: Accounts, denom: Denoms, amount: Nat,
         hashlock: Secrets, timelock: Nat, withdrawn: BOOLEAN,
         refunded: BOOLEAN, swapMin: Nat, swapDenom: Denoms, swapOut: Nat]

IsOpen(i) == ~htlcs[i].withdrawn /\ ~htlcs[i].refunded
SwapExecuted(i) == htlcs[i].swapOut # NoSwap

Init ==
    /\ htlcs = << >>
    /\ wallet = [a \in Accounts |-> [d \in Denoms |-> InitialFunds]]
    /\ bank = [d \in Denoms |-> 0]
    /\ now = 0
-----------------------------------------------------------------------------
ValidTimelock(t) == now < t /\ t <= now + MaxTimelock

Deposit(a, d, n) ==
    /\ wallet[a][d] >= n
    /\ wallet' = [wallet EXCEPT ![a][d] = @ - n]
    /\ bank' = [bank EXCEPT ![d] = @ + n]

\* BankMsg::Send; it fails, and the message with it, when the contract's
\* balance does not cover it.
Send(a, d, n) ==
    /\ bank[d] >= n
    /\ wallet' = [wallet EXCEPT ![a][d] = @ + n]
    /\ bank' = [bank EXCEPT ![d] = @ - n]

NewHtlc(a, r, d, n, h, t, min) ==
    [sender |-> a, receiver |-> r, denom |-> d, amount |-> n, hashlock |-> h,
     timelock |-> t, withdrawn |-> FALSE, refunded |-> FALSE,
     swapMin |-> min, swapDenom |-> d, swapOut |-> NoSwap]

Save(h) == htlcs' = Append(htlcs, h)

CreateHtlc(a, r, d, n, h, t) ==
    /\ ValidTimelock(t)
    /\ Deposit(a, d, n)
    /\ Save(NewHtlc(a, r, d, n, h, t, NoSwap))
    /\ UNCHANGED now

\* The pool's estimate must reach the minimum the caller asks for; the minimum
\* is stored with the HTLC.
CreateHtlcWithSwap(a, r, d, n, h, t, min, estimate) ==
    /\ min > 0
    /\ estimate >= min
    /\ ValidTimelock(t)
    /\ Deposit(a, d, n)
    /\ Save(NewHtlc(a, r, d, n, h, t, min))
    /\ UNCHANGED now

\* Anyone may send the secret, at any time; the receiver is paid.
Withdraw(i, secret) ==
    /\ IsOpen(i)
    /\ secret = htlcs[i].hashlock
    /\ htlcs' = [htlcs EXCEPT ![i].withdrawn = TRUE]
    /\ Send(htlcs[i].receiver, htlcs[i].denom, htlcs[i].amount)
    /\ UNCHANGED now

\* Seeded fault: the withdrawn flag is not consulted.
FaultRefundWithdrawn(caller, i) ==
    /\ ~htlcs[i].refunded
    /\ caller = htlcs[i].sender
    /\ now >= htlcs[i].timelock
    /\ htlcs' = [htlcs EXCEPT ![i].refunded = TRUE]
    /\ Send(htlcs[i].sender, htlcs[i].denom, htlcs[i].amount)
    /\ UNCHANGED now

Refund(caller, i) ==
    /\ IsOpen(i)
    /\ caller = htlcs[i].sender
    /\ now >= htlcs[i].timelock
    /\ htlcs' = [htlcs EXCEPT ![i].refunded = TRUE]
    /\ Send(htlcs[i].sender, htlcs[i].denom, htlcs[i].amount)
    /\ UNCHANGED now

\* Seeded fault: the flag that says the swap was done is not set, so neither is
\* its output remembered.
FaultSwapForgotten(caller, i, out, min, denom) ==
    /\ caller \in {htlcs[i].sender, Admin}
    /\ ~SwapExecuted(i)
    /\ min > 0 /\ out >= min
    /\ bank[htlcs[i].denom] >= htlcs[i].amount
    /\ bank' = [bank EXCEPT ![htlcs[i].denom] = @ - htlcs[i].amount, ![denom] = @ + out]
    /\ UNCHANGED <<htlcs, wallet, now>>

\* MsgSwapExactAmountIn with the contract's own balance: the pool pays out at
\* least min or fails.  The caller's parameters replace the stored ones.  The
\* HTLC's amount and denomination stay what they were, and nothing asks
\* whether the HTLC is still open.
ExecuteSwapAndLock(caller, i, out, min, denom) ==
    /\ caller \in {htlcs[i].sender, Admin}
    /\ ~SwapExecuted(i)
    /\ min > 0 /\ out >= min
    /\ bank[htlcs[i].denom] >= htlcs[i].amount
    /\ bank' = [bank EXCEPT ![htlcs[i].denom] = @ - htlcs[i].amount, ![denom] = @ + out]
    /\ htlcs' = [htlcs EXCEPT ![i].swapOut = out, ![i].swapMin = min, ![i].swapDenom = denom]
    /\ UNCHANGED <<wallet, now>>

Tick == now < MaxTime /\ now' = now + 1 /\ UNCHANGED <<htlcs, wallet, bank>>

Create ==
    /\ Count < MaxHtlcs
    /\ \E a, r \in Accounts, d \in Denoms, n \in Amounts, h \in Secrets,
          t \in now .. now + MaxTimelock + 1 :
            \/ CreateHtlc(a, r, d, n, h, t)
            \/ \E min, estimate \in Amounts :
                  CreateHtlcWithSwap(a, r, d, n, h, t, min, estimate)

Next ==
    \/ Create
    \/ \E i \in Ids, s \in Secrets : Withdraw(i, s)
    \/ \E i \in Ids, a \in Accounts : Refund(a, i)
    \/ \E i \in Ids, a \in Accounts, out, min \in Amounts, d \in Denoms :
          d # htlcs[i].denom /\ ExecuteSwapAndLock(a, i, out, min, d)
    \/ Tick

Spec == Init /\ [][Next]_vars
-----------------------------------------------------------------------------
TypeOK ==
    /\ htlcs \in Seq(Htlc)
    /\ wallet \in [Accounts -> [Denoms -> Nat]]
    /\ bank \in [Denoms -> Nat]
    /\ now \in Nat

\* What an HTLC lets the contract hold of a denomination: what it still owes,
\* what its swap took, and what its swap brought in.
Owed(h, d) == IF ~h.withdrawn /\ ~h.refunded /\ h.denom = d THEN h.amount ELSE 0
SwappedAway(h, d) == IF h.swapOut # NoSwap /\ h.denom = d THEN h.amount ELSE 0
SwappedIn(h, d) == IF h.swapOut # NoSwap /\ h.swapDenom = d THEN h.swapOut ELSE 0
HeldFor(h, d) == Owed(h, d) - SwappedAway(h, d) + SwappedIn(h, d)

\* Up to the swaps, the contract holds in each denomination exactly what its
\* open HTLCs are owed: no HTLC is paid twice, and each swap happened once.
BalanceExplained ==
    \A d \in Denoms : bank[d] = SumFunction([i \in Ids |-> HeldFor(htlcs[i], d)])

\* "Atomic Execution: All-or-nothing via HTLCs" (README.md): what an open HTLC
\* pays out is there, in the denomination it pays it in.
EveryOpenHtlcCovered ==
    \A d \in Denoms : bank[d] >= SumFunction([i \in Ids |-> Owed(htlcs[i], d)])

LockOf(i) == [id |-> i, deadline |-> htlcs[i].timelock]
Abstract == INSTANCE HashTimeLock WITH
                locked <- {LockOf(i) : i \in {j \in Ids : IsOpen(j)}},
                claimed <- {LockOf(i) : i \in {j \in Ids : htlcs[j].withdrawn}},
                returned <- {LockOf(i) : i \in {j \in Ids : htlcs[j].refunded}},
                clock <- now

\* The contract keeps the promise of a hash time lock; a swap of an HTLC's
\* deposit in particular neither releases nor re-dates it.
ImplementsHashTimeLock == Abstract!LockSpec
=============================================================================
