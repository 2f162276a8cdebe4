---------------------- MODULE EthereumContractsProofs -----------------------
(***************************************************************************)
(* What holds of CrossChainHTLC, FusionConfig and FusionResolver, for every*)
(* set of accounts, tokens, secrets, amounts and configurations that the   *)
(* assumptions of their modules allow, and every argument of the owner's   *)
(* calls.                                                                  *)
(***************************************************************************)
EXTENDS FusionResolver, FiniteSums

-----------------------------------------------------------------------------
(* CrossChainHTLC.                                                         *)

\* The owner's calls preserve the type and the consistency of every config.
LEMMA ConfigStep ==
    ASSUME ConfigTypeOK, ConfigConsistent, [ConfigNext]_configs
    PROVE  ConfigTypeOK' /\ ConfigConsistent'
<1> USE ConfigAssumption DEF ConfigTypeOK, ConfigConsistent
<1>1. CASE UNCHANGED configs
  BY <1>1
<1>2. ASSUME NEW k \in ConfigContracts, NEW c \in ConfigRecord, Consistent(c),
             configs' = [configs EXCEPT ![k] = c]
      PROVE  ConfigTypeOK' /\ ConfigConsistent'
  BY <1>2
<1>3. ASSUME NEW k \in ConfigContracts, NEW d \in Durations,
             SetMaxTimelockDuration(k, d)
      PROVE  ConfigTypeOK' /\ ConfigConsistent'
  <2>1. Consistent([configs[k] EXCEPT !.maxTimelock = d])
    BY <1>3 DEF Consistent, SetMaxTimelockDuration, StrictlyDecreasing, ConfigRecord
  <2>2. [configs[k] EXCEPT !.maxTimelock = d] \in ConfigRecord
    BY DEF ConfigRecord
  <2>3. configs' = [configs EXCEPT ![k] = [configs[k] EXCEPT !.maxTimelock = d]]
    BY <1>3 DEF SetMaxTimelockDuration
  <2>4. QED BY <1>2, <2>1, <2>2, <2>3
<1>4. ASSUME NEW k \in ConfigContracts, NEW d \in Durations,
             SetMinTimelockDuration(k, d)
      PROVE  ConfigTypeOK' /\ ConfigConsistent'
  <2>1. Consistent([configs[k] EXCEPT !.minTimelock = d])
    BY <1>4 DEF Consistent, SetMinTimelockDuration, StrictlyDecreasing, ConfigRecord
  <2>2. [configs[k] EXCEPT !.minTimelock = d] \in ConfigRecord
    BY DEF ConfigRecord
  <2>3. configs' = [configs EXCEPT ![k] = [configs[k] EXCEPT !.minTimelock = d]]
    BY <1>4 DEF SetMinTimelockDuration
  <2>4. QED BY <1>2, <2>1, <2>2, <2>3
<1>5. ASSUME NEW k \in ConfigContracts, NEW d \in Durations,
             SetRecoveryBuffer(k, d)
      PROVE  ConfigTypeOK' /\ ConfigConsistent'
  <2>1. Consistent([configs[k] EXCEPT !.recoveryBuffer = d])
    BY <1>5 DEF Consistent, SetRecoveryBuffer, StrictlyDecreasing, ConfigRecord
  <2>2. [configs[k] EXCEPT !.recoveryBuffer = d] \in ConfigRecord
    BY DEF ConfigRecord
  <2>3. configs' = [configs EXCEPT ![k] = [configs[k] EXCEPT !.recoveryBuffer = d]]
    BY <1>5 DEF SetRecoveryBuffer
  <2>4. QED BY <1>2, <2>1, <2>2, <2>3
<1>6. ASSUME NEW k \in ConfigContracts, NEW d \in Durations,
             SetTimeoutBuffer(k, d)
      PROVE  ConfigTypeOK' /\ ConfigConsistent'
  <2>1. Consistent([configs[k] EXCEPT !.timeoutBuffer = d])
    BY <1>6 DEF Consistent, SetTimeoutBuffer, StrictlyDecreasing, ConfigRecord
  <2>2. [configs[k] EXCEPT !.timeoutBuffer = d] \in ConfigRecord
    BY DEF ConfigRecord
  <2>3. configs' = [configs EXCEPT ![k] = [configs[k] EXCEPT !.timeoutBuffer = d]]
    BY <1>6 DEF SetTimeoutBuffer
  <2>4. QED BY <1>2, <2>1, <2>2, <2>3
<1>7. ASSUME NEW k \in ConfigContracts, NEW c \in Cascades,
             SetTimelockCascade(k, c)
      PROVE  ConfigTypeOK' /\ ConfigConsistent'
  <2>1. Consistent([configs[k] EXCEPT !.cascade = c])
    BY <1>7 DEF Consistent, SetTimelockCascade, StrictlyDecreasing, ConfigRecord
  <2>2. [configs[k] EXCEPT !.cascade = c] \in ConfigRecord
    BY DEF ConfigRecord
  <2>3. configs' = [configs EXCEPT ![k] = [configs[k] EXCEPT !.cascade = c]]
    BY <1>7 DEF SetTimelockCascade
  <2>4. QED BY <1>2, <2>1, <2>2, <2>3
<1>8. ASSUME NEW k \in ConfigContracts, NEW l \in DoSLimits,
             SetDoSLimits(k, l[1], l[2], l[3])
      PROVE  ConfigTypeOK' /\ ConfigConsistent'
  <2> DEFINE c == [configs[k] EXCEPT !.maxHtlcs = l[1], !.window = l[2],
                                     !.perWindow = l[3]]
  <2>1. Consistent(c)
    BY <1>8 DEF Consistent, SetDoSLimits, StrictlyDecreasing, ConfigRecord
  <2>2. c \in ConfigRecord
    BY DEF ConfigRecord
  <2>3. configs' = [configs EXCEPT ![k] = c]
    BY <1>8 DEF SetDoSLimits
  <2>4. QED BY <1>2, <2>1, <2>2, <2>3
<1>9. ASSUME NEW k \in ConfigContracts, NEW a \in AmountLimits,
             SetHtlcAmountLimits(k, a[1], a[2])
      PROVE  ConfigTypeOK' /\ ConfigConsistent'
  <2> DEFINE c == [configs[k] EXCEPT !.minAmount = a[1], !.maxAmount = a[2]]
  <2>1. Consistent(c)
    BY <1>9 DEF Consistent, SetHtlcAmountLimits, StrictlyDecreasing, ConfigRecord
  <2>2. c \in ConfigRecord
    BY DEF ConfigRecord
  <2>3. configs' = [configs EXCEPT ![k] = c]
    BY <1>9 DEF SetHtlcAmountLimits
  <2>4. QED BY <1>2, <2>1, <2>2, <2>3
<1>10. ASSUME NEW k \in ConfigContracts, NEW enabled \in BOOLEAN,
              SetEmergencyPause(k, enabled)
       PROVE  ConfigTypeOK' /\ ConfigConsistent'
  <2>1. Consistent([configs[k] EXCEPT !.paused = enabled])
    BY DEF Consistent, StrictlyDecreasing, ConfigRecord
  <2>2. [configs[k] EXCEPT !.paused = enabled] \in ConfigRecord
    BY DEF ConfigRecord
  <2>3. configs' = [configs EXCEPT ![k] = [configs[k] EXCEPT !.paused = enabled]]
    BY <1>10 DEF SetEmergencyPause
  <2>4. QED BY <1>2, <2>1, <2>2, <2>3
<1>11. QED
  BY <1>1, <1>3, <1>4, <1>5, <1>6, <1>7, <1>8, <1>9, <1>10 DEF ConfigNext

\* In whatever order the owner calls the setters, every stored configuration
\* stays well typed and consistent.
THEOREM ConfigAlwaysConsistent == ConfigSpec => [](ConfigTypeOK /\ ConfigConsistent)
<1>1. ConfigInit => ConfigTypeOK /\ ConfigConsistent
  BY ConfigAssumption DEF ConfigInit, ConfigTypeOK, ConfigConsistent
<1>2. ConfigTypeOK /\ ConfigConsistent /\ [ConfigNext]_configs
         => (ConfigTypeOK /\ ConfigConsistent)'
  BY ConfigStep
<1>3. QED BY <1>1, <1>2, PTL DEF ConfigSpec
-----------------------------------------------------------------------------
(* What an HTLC more or less means for what the contract owes.              *)

LEMMA OwedWithOneMore ==
    ASSUME NEW S \in SUBSET HTLCIds, IsFiniteSet(S), NEW id \in HTLCIds \ S, NEW t
    PROVE  /\ Owed(S, t) \in Nat
           /\ Owed(S \cup {id}, t) = Owed(S, t) + IF id.token = t THEN id.amount ELSE 0
<1> DEFINE amount == [x \in S |-> x.amount]
           more == [x \in S \cup {id} |-> x.amount]
           old == {x \in S : x.token = t}
<1>0. id.amount \in Nat /\ \A x \in S : x.amount \in Nat
  BY DEF HTLCIds
<1>1. IsFiniteSet(old)
  BY FS_Subset
<1>2. /\ \A x \in old : amount[x] = more[x] /\ amount[x] \in Nat /\ more[x] \in Nat
      /\ more[id] = id.amount /\ id \notin old
  BY <1>0
<1>3. Owed(S, t) = SumFunctionOnSet(amount, old)
  BY DEF Owed
<1>4. Owed(S \cup {id}, t) = SumFunctionOnSet(more, IF id.token = t THEN old \cup {id} ELSE old)
  <2>1. {x \in S \cup {id} : x.token = t} = IF id.token = t THEN old \cup {id} ELSE old
    OBVIOUS
  <2>2. QED BY <2>1 DEF Owed
<1> HIDE DEF amount, more, old
<1>5. SumFunctionOnSet(amount, old) = SumFunctionOnSet(more, old)
  BY <1>1, <1>2, SumOfSame
<1>6. SumFunctionOnSet(amount, old) \in Nat
  BY <1>1, <1>2, SumIsNatural
<1>7. SumFunctionOnSet(more, old \cup {id}) = SumFunctionOnSet(more, old) + id.amount
  BY <1>0, <1>1, <1>2, SumWithOneMore
<1>8. QED BY <1>3, <1>4, <1>5, <1>6, <1>7

LEMMA NothingOwed == ASSUME NEW t PROVE Owed({}, t) = 0
<1>1. {id \in {} : id.token = t} = {}
  OBVIOUS
<1>2. QED BY <1>1, SumOfNone DEF Owed
-----------------------------------------------------------------------------
IInv ==
    /\ TypeOK /\ ConfigConsistent /\ SettledOnce /\ TrackedExactly
    /\ IsFiniteSet(htlcs) /\ Solvent

LEMMA InitIInv == Init => IInv
<1> SUFFICES ASSUME Init PROVE IInv
  OBVIOUS
<1>1. TypeOK /\ ConfigConsistent
  BY ConfigAssumption, HTLCAssumption
  DEF Init, TypeOK, ConfigInit, ConfigTypeOK, ConfigConsistent
<1>2. SettledOnce /\ TrackedExactly
  BY DEF Init, SettledOnce, TrackedExactly, OpenOf, Open
<1>3. IsFiniteSet(htlcs) /\ Open = {} /\ \A t \in Tokens : vault[t] = 0
  BY FS_EmptySet DEF Init, Open
<1>4. Solvent
  BY <1>3, NothingOwed DEF Solvent
<1>5. QED BY <1>1, <1>2, <1>3, <1>4 DEF IInv

\* A creation adds one open HTLC that has not expired, and tracks it, whoever
\* pays for it.
LEMMA CreateStep ==
    ASSUME IInv, NEW id \in HTLCIds, Admissible(id), Store(id),
           wallet' \in [Accounts -> [Tokens -> Nat]]
    PROVE  IInv'
<1> USE DEF IInv, Store
<1>1. /\ id \notin htlcs /\ now < id.timelock
      /\ now \in Nat /\ id.timelock \in Nat /\ id.sender \in Accounts
      /\ id.token \in Tokens /\ id.amount \in Nat
  BY DEF Admissible, TypeOK, HTLCIds
<1>2. Open' = Open \cup {id}
  BY <1>1 DEF Open, TypeOK
<1>3. \A a \in Accounts :
         /\ CleanedUp(a) \subseteq tracked[a]
         /\ {x \in OpenOf(a) : x.timelock > now} \subseteq CleanedUp(a)
  BY DEF CleanedUp, OpenOf, TrackedExactly
<1>4. TypeOK'
  <2>2. vault' \in [Tokens -> Int]
    BY <1>1 DEF TypeOK
  <2>3. tracked' \in [Accounts -> SUBSET HTLCIds]
    BY <1>1, <1>3 DEF TypeOK
  <2>4. stamps' \in [Accounts -> SUBSET HTLCIds]
    BY <1>1 DEF TypeOK, InWindow
  <2>5. QED BY <2>2, <2>3, <2>4 DEF TypeOK, ConfigTypeOK
<1>5. SettledOnce'
  BY DEF SettledOnce
<1>6. TrackedExactly'
  BY <1>1, <1>2, <1>3 DEF TrackedExactly, OpenOf, TypeOK
<1>7. IsFiniteSet(htlcs)'
  BY FS_AddElement
<1>8. Solvent'
  <2>1. Open \in SUBSET HTLCIds /\ IsFiniteSet(Open) /\ id \notin Open
    BY <1>1, FS_Subset DEF Open, TypeOK
  <2>2. \A t \in Tokens :
           Owed(Open', t) = Owed(Open, t) + IF id.token = t THEN id.amount ELSE 0
    BY <1>2, <2>1, OwedWithOneMore
  <2>3. \A t \in Tokens : vault'[t] = vault[t] + IF id.token = t THEN id.amount ELSE 0
    BY <1>1 DEF TypeOK
  <2>4. QED BY <2>2, <2>3 DEF Solvent
<1>9. QED BY <1>4, <1>5, <1>6, <1>7, <1>8 DEF ConfigConsistent

\* What withdraw and refund have in common: one open HTLC leaves Open and its
\* sender's list, and the contract's balance falls by what it no longer owes.
LEMMA SettleStep ==
    ASSUME IInv, NEW id \in Open, NEW a \in Accounts,
           tracked' = [tracked EXCEPT ![id.sender] = @ \ {id}],
           Pay(a, id.token, id.amount),
           \/ withdrawn' = withdrawn \cup {id} /\ UNCHANGED refunded
           \/ refunded' = refunded \cup {id} /\ UNCHANGED withdrawn,
           UNCHANGED <<configs, fusionConfig, htlcs, stamps, blacklisted, now>>
    PROVE  IInv'
<1> USE DEF IInv
<1>1. /\ id \in HTLCIds /\ id.sender \in Accounts /\ id.token \in Tokens
      /\ id.amount \in Nat /\ id \in htlcs
      /\ id \notin withdrawn /\ id \notin refunded
  BY DEF Open, TypeOK, HTLCIds
<1>2. Open' = Open \ {id}
  BY DEF Open
<1>3. TypeOK'
  <2>1. wallet' \in [Accounts -> [Tokens -> Nat]]
    BY <1>1 DEF TypeOK, Pay
  <2>2. vault' \in [Tokens -> Int]
    BY <1>1 DEF TypeOK, Pay
  <2>3. tracked' \in [Accounts -> SUBSET HTLCIds]
    BY <1>1 DEF TypeOK
  <2>4. QED BY <1>1, <2>1, <2>2, <2>3 DEF TypeOK, ConfigTypeOK
<1>4. SettledOnce'
  BY <1>1 DEF SettledOnce
<1>5. TrackedExactly'
  BY <1>1, <1>2 DEF TrackedExactly, OpenOf, TypeOK
<1>6. Solvent'
  <2>1. Open' \in SUBSET HTLCIds /\ IsFiniteSet(Open') /\ id \notin Open' /\ Open = Open' \cup {id}
    BY <1>1, <1>2, FS_Subset DEF Open, TypeOK
  <2>2. \A t \in Tokens :
           /\ Owed(Open', t) \in Nat
           /\ Owed(Open, t) = Owed(Open', t) + IF id.token = t THEN id.amount ELSE 0
    BY <1>1, <2>1, OwedWithOneMore
  <2>3. \A t \in Tokens : vault'[t] = vault[t] - IF id.token = t THEN id.amount ELSE 0
    BY <1>1 DEF TypeOK, Pay
  <2>4. QED BY <1>1, <2>2, <2>3 DEF Solvent
<1>7. QED BY <1>3, <1>4, <1>5, <1>6 DEF ConfigConsistent

\* Steps that leave the HTLCs and the balance alone.
LEMMA SameDebts ==
    ASSUME IInv, UNCHANGED <<htlcs, withdrawn, refunded, vault>>
    PROVE  IsFiniteSet(htlcs)' /\ Solvent' /\ SettledOnce' /\ Open' = Open
BY DEF IInv, Solvent, SettledOnce, Open

LEMMA UnchangedIInv == IInv /\ UNCHANGED vars => IInv'
<1> SUFFICES ASSUME IInv, UNCHANGED vars PROVE IInv'
  OBVIOUS
<1>1. IsFiniteSet(htlcs)' /\ Solvent' /\ SettledOnce' /\ Open' = Open
  BY SameDebts DEF vars
<1>2. QED
  BY <1>1 DEF IInv, vars, TypeOK, ConfigTypeOK, ConfigConsistent, TrackedExactly, OpenOf

\* One step for each transaction that the accounts of callers may send.
LEMMA NextByIInv == ASSUME IInv, NEW callers \in SUBSET Accounts, NextBy(callers) PROVE IInv'
<1>2. CASE Create(callers)
  <2>1. PICK a \in callers, t \in Tokens, n \in Amounts, s \in Secrets,
             l \in Timelocks :
                CreateHTLC([sender |-> a, token |-> t, amount |-> n,
                            hashlock |-> s, timelock |-> l, created |-> now])
    BY <1>2 DEF Create
  <2> DEFINE id == [sender |-> a, token |-> t, amount |-> n, hashlock |-> s,
                    timelock |-> l, created |-> now]
  <2>2. id \in HTLCIds /\ id.amount \in Nat
    BY HTLCAssumption DEF HTLCIds, IInv, TypeOK
  <2>3. wallet' \in [Accounts -> [Tokens -> Nat]]
    BY <2>1, <2>2 DEF CreateHTLC, IInv, TypeOK
  <2>4. QED BY <2>1, <2>2, <2>3, CreateStep DEF CreateHTLC
<1>3. ASSUME NEW a \in callers, NEW id \in htlcs, NEW s \in Secrets,
             Withdraw(a, id, s)
      PROVE  IInv'
  <2>1. id \in Open
    BY <1>3 DEF Withdraw, NotExecuted, Open
  <2>2. QED BY <1>3, <2>1, SettleStep DEF Withdraw
<1>4. ASSUME NEW a \in callers, NEW id \in htlcs, Refund(a, id)
      PROVE  IInv'
  <2>1. id \in Open /\ id.sender = a
    BY <1>4 DEF Refund, MayRefund, NotExecuted, Open
  <2>2. QED BY <1>4, <2>1, SettleStep DEF Refund
<1>5. ASSUME NEW a \in Accounts, CleanupExpiredHtlcs(a)
      PROVE  IInv'
  <2>1. TypeOK'
    BY <1>5 DEF CleanupExpiredHtlcs, CleanedUp, IInv, TypeOK, ConfigTypeOK
  <2>2. IsFiniteSet(htlcs)' /\ Solvent' /\ SettledOnce' /\ Open' = Open
    BY <1>5, SameDebts DEF CleanupExpiredHtlcs
  <2>3. TrackedExactly'
    BY <1>5, <2>2 DEF CleanupExpiredHtlcs, CleanedUp, IInv, TypeOK, TrackedExactly, OpenOf
  <2>4. QED BY <1>5, <2>1, <2>2, <2>3 DEF CleanupExpiredHtlcs, IInv, ConfigConsistent
<1>6. ASSUME NEW a \in Accounts, BlacklistAddress(a) \/ WhitelistAddress(a)
      PROVE  IInv'
  <2>1. IsFiniteSet(htlcs)' /\ Solvent' /\ SettledOnce' /\ Open' = Open
    BY <1>6, SameDebts DEF BlacklistAddress, WhitelistAddress
  <2>2. QED
    BY <1>6, <2>1 DEF BlacklistAddress, WhitelistAddress, IInv, TypeOK, ConfigTypeOK,
                      ConfigConsistent, TrackedExactly, OpenOf
<1>7. ASSUME NEW k \in ConfigContracts, SetFusionConfig(k)
      PROVE  IInv'
  <2>1. IsFiniteSet(htlcs)' /\ Solvent' /\ SettledOnce' /\ Open' = Open
    BY <1>7, SameDebts DEF SetFusionConfig
  <2>2. QED
    BY <1>7, <2>1 DEF SetFusionConfig, IInv, TypeOK, ConfigTypeOK, ConfigConsistent,
                      TrackedExactly, OpenOf
<1>8. CASE Configure
  <2>1. ConfigTypeOK' /\ ConfigConsistent'
    BY <1>8, ConfigStep DEF Configure, IInv, TypeOK
  <2>2. IsFiniteSet(htlcs)' /\ Solvent' /\ SettledOnce' /\ Open' = Open
    BY <1>8, SameDebts DEF Configure, htlcVars
  <2>3. QED
    BY <1>8, <2>1, <2>2 DEF Configure, htlcVars, IInv, TypeOK, TrackedExactly, OpenOf
<1>9. CASE Tick
  \* Time only takes HTLCs out of the set the list must contain.
  <2>1. now \in Nat /\ now' = now + 1 /\ tracked' = tracked
    BY <1>9 DEF Tick, htlcVars, IInv, TypeOK
  <2>2. IsFiniteSet(htlcs)' /\ Solvent' /\ SettledOnce' /\ Open' = Open
    BY <1>9, SameDebts DEF Tick, htlcVars
  <2>3. \A id \in Open : id.timelock \in Nat
    BY DEF Open, IInv, TypeOK, HTLCIds
  <2>4. TrackedExactly'
    BY <2>1, <2>2, <2>3 DEF IInv, TrackedExactly, OpenOf
  <2>5. QED
    BY <1>9, <2>1, <2>2, <2>4 DEF Tick, htlcVars, IInv, TypeOK, ConfigTypeOK,
                      ConfigConsistent
<1>10. QED
  BY <1>2, <1>3, <1>4, <1>5, <1>6, <1>7, <1>8, <1>9 DEF NextBy

LEMMA NextIInv == IInv /\ [Next]_vars => IInv'
BY UnchangedIInv, NextByIInv DEF Next

\* The state of the contract always has its declared types; account balances
\* in particular never go negative.
THEOREM TypeCorrect == Spec => []TypeOK
BY InitIInv, NextIInv, PTL DEF Spec, IInv

\* No HTLC is ever both withdrawn and refunded, although after its timelock
\* both calls are open.
THEOREM SettledAtMostOnce == Spec => []SettledOnce
BY InitIInv, NextIInv, PTL DEF Spec, IInv

\* In every token the contract holds what it owes and no more: whatever order
\* creations, withdrawals and refunds come in, none is paid from another's funds.
THEOREM AlwaysSolvent == Spec => []Solvent
BY InitIInv, NextIInv, PTL DEF Spec, IInv

\* What is owed for the open HTLCs of a token includes what each of them holds.
LEMMA OpenIsCovered ==
    ASSUME IInv, NEW id \in Open
    PROVE  Covers(id.token, id.amount)
<1>1. id \in HTLCIds /\ id.token \in Tokens /\ id.amount \in Nat
  BY DEF IInv, Open, TypeOK, HTLCIds
<1>2. PICK others : others = Open \ {id}
  OBVIOUS
<1>3. /\ others \in SUBSET HTLCIds /\ IsFiniteSet(others)
      /\ id \in HTLCIds \ others /\ Open = others \cup {id}
  BY <1>1, <1>2, FS_Subset DEF IInv, Open, TypeOK
<1>4. /\ Owed(others, id.token) \in Nat
      /\ Owed(Open, id.token) = Owed(others, id.token) + id.amount
  BY <1>3, OwedWithOneMore
<1>5. vault[id.token] = Owed(Open, id.token)
  BY <1>1 DEF IInv, Solvent
<1>6. QED BY <1>1, <1>4, <1>5 DEF Covers

LEMMA IInvRefundable == IInv => AlwaysRefundable
BY OpenIsCovered DEF AlwaysRefundable, MayRefund, NotExecuted, Expired, Open

\* Whatever the owner sets, pauses or blacklists and whoever is paid before,
\* refund accepts the sender of every open HTLC from its timelock on, and the
\* contract can pay.
THEOREM RefundIsAlwaysOpen == Spec => []AlwaysRefundable
BY InitIInv, NextIInv, IInvRefundable, PTL DEF Spec

\* The list the per-address limit counts holds every open HTLC of the account
\* that has not expired, and only open HTLCs of the account.
THEOREM TrackingIsExact == Spec => []TrackedExactly
BY InitIInv, NextIInv, PTL DEF Spec, IInv
-----------------------------------------------------------------------------
(* The limits, on the HTLCs themselves.  The list of an account never lacks  *)
(* one that counts (TrackedExactly); its stamps lack none of the window as   *)
(* long as no window is longer than the one they were thrown away for: here   *)
(* the owner leaves the length of the window alone.                          *)
SameWindow == \A l \in DoSLimits : l[2] = InitialConfig.window

StampsComplete ==
    /\ \A k \in ConfigContracts : configs[k].window = InitialConfig.window
    /\ \A a \in Accounts :
          /\ stamps[a] \subseteq htlcs
          /\ {id \in CreatedBy(a) : id.created >= now - InitialConfig.window} \subseteq stamps[a]

\* The owner's calls leave the window as it is.
LEMMA WindowStep ==
    ASSUME SameWindow, ConfigTypeOK, ConfigNext,
           \A k \in ConfigContracts : configs[k].window = InitialConfig.window
    PROVE  \A k \in ConfigContracts : configs'[k].window = InitialConfig.window
<1> USE DEF ConfigTypeOK, ConfigRecord
<1>1. ASSUME NEW k \in ConfigContracts, NEW c \in ConfigRecord, c.window = InitialConfig.window,
             configs' = [configs EXCEPT ![k] = c]
      PROVE  \A j \in ConfigContracts : configs'[j].window = InitialConfig.window
  BY <1>1
<1>2. ASSUME NEW k \in ConfigContracts, NEW d \in Durations,
             \/ SetMaxTimelockDuration(k, d) \/ SetMinTimelockDuration(k, d)
             \/ SetRecoveryBuffer(k, d) \/ SetTimeoutBuffer(k, d)
      PROVE  \A j \in ConfigContracts : configs'[j].window = InitialConfig.window
  BY <1>2 DEF SetMaxTimelockDuration, SetMinTimelockDuration, SetRecoveryBuffer, SetTimeoutBuffer
<1>3. ASSUME NEW k \in ConfigContracts, NEW c \in Cascades, SetTimelockCascade(k, c)
      PROVE  \A j \in ConfigContracts : configs'[j].window = InitialConfig.window
  BY <1>3 DEF SetTimelockCascade
<1>4. ASSUME NEW k \in ConfigContracts, NEW l \in DoSLimits, SetDoSLimits(k, l[1], l[2], l[3])
      PROVE  \A j \in ConfigContracts : configs'[j].window = InitialConfig.window
  BY <1>4 DEF SetDoSLimits, SameWindow
<1>5. ASSUME NEW k \in ConfigContracts, NEW a \in AmountLimits,
             SetHtlcAmountLimits(k, a[1], a[2])
      PROVE  \A j \in ConfigContracts : configs'[j].window = InitialConfig.window
  BY <1>5 DEF SetHtlcAmountLimits
<1>6. ASSUME NEW k \in ConfigContracts, NEW enabled \in BOOLEAN, SetEmergencyPause(k, enabled)
      PROVE  \A j \in ConfigContracts : configs'[j].window = InitialConfig.window
  BY <1>6 DEF SetEmergencyPause
<1>7. QED BY <1>2, <1>3, <1>4, <1>5, <1>6 DEF ConfigNext

LEMMA InitStamps == Init => StampsComplete
BY DEF Init, ConfigInit, StampsComplete, CreatedBy

\* Only a creation adds to the HTLCs.
LEMMA OnlyCreateAdds ==
    ASSUME NEW callers, NextBy(callers), htlcs' # htlcs
    PROVE  Create(callers)
BY DEF NextBy, Withdraw, Refund, CleanupExpiredHtlcs, BlacklistAddress,
       WhitelistAddress, SetFusionConfig, Configure, Tick, htlcVars

\* A step that creates an HTLC creates one, and pays for it with its sender's tokens.
LEMMA CreatesOne ==
    ASSUME IInv, [Next]_vars, htlcs' # htlcs
    PROVE  \E id \in HTLCIds : CreateHTLC(id)
<1>1. Create(Accounts)
  BY OnlyCreateAdds DEF vars, Next
<1>2. PICK a \in Accounts, t \in Tokens, n \in Amounts, s \in Secrets, l \in Timelocks :
              CreateHTLC([sender |-> a, token |-> t, amount |-> n, hashlock |-> s,
                          timelock |-> l, created |-> now])
  BY <1>1 DEF Create
<1>3. [sender |-> a, token |-> t, amount |-> n, hashlock |-> s, timelock |-> l,
       created |-> now] \in HTLCIds
  BY HTLCAssumption DEF HTLCIds, IInv, TypeOK
<1>4. QED BY <1>2, <1>3

LEMMA NextStamps == SameWindow /\ IInv /\ StampsComplete /\ [Next]_vars => StampsComplete'
<1> SUFFICES ASSUME SameWindow, IInv, StampsComplete, [Next]_vars PROVE StampsComplete'
  OBVIOUS
<1>1. InitialConfig.window \in Nat /\ now \in Nat /\ \A id \in htlcs : id.created \in Nat
  BY ConfigAssumption DEF ConfigRecord, IInv, TypeOK, HTLCIds
<1>2. \A k \in ConfigContracts : configs'[k].window = InitialConfig.window
  <2>1. CASE UNCHANGED configs
    BY <2>1 DEF StampsComplete
  <2>2. CASE configs' # configs
    <3>1. Configure
      <4>1. NextBy(Accounts)
        BY <2>2 DEF vars, Next
      <4>2. ASSUME Create(Accounts) PROVE FALSE
        BY <2>2, <4>2 DEF Create, CreateHTLC, Store
      <4>3. ASSUME NEW c \in Accounts, NEW id \in htlcs, NEW s \in Secrets,
                   Withdraw(c, id, s)
            PROVE  FALSE
        BY <2>2, <4>3 DEF Withdraw
      <4>4. ASSUME NEW a \in Accounts,
                   \/ CleanupExpiredHtlcs(a) \/ BlacklistAddress(a) \/ WhitelistAddress(a)
            PROVE  FALSE
        BY <2>2, <4>4 DEF CleanupExpiredHtlcs, BlacklistAddress, WhitelistAddress
      <4>5. ASSUME NEW k \in ConfigContracts, SetFusionConfig(k) PROVE FALSE
        BY <2>2, <4>5 DEF SetFusionConfig
      <4>6. ~ Tick
        BY <2>2 DEF Tick
      <4>7. ASSUME NEW c \in Accounts, NEW id \in htlcs, Refund(c, id) PROVE FALSE
        BY <2>2, <4>7 DEF Refund
      <4>8. QED BY <4>1, <4>2, <4>3, <4>4, <4>5, <4>6, <4>7 DEF NextBy
    <3>2. QED BY <3>1, WindowStep DEF Configure, IInv, TypeOK, StampsComplete
  <2>3. QED BY <2>1, <2>2
<1>3. CASE htlcs' # htlcs
  <2>1. PICK id \in HTLCIds : CreateHTLC(id)
    BY <1>3, CreatesOne
  <2>2. /\ htlcs' = htlcs \cup {id} /\ now' = now
        /\ stamps' = [stamps EXCEPT ![id.sender] = InWindow(id.sender) \cup {id}]
        /\ stamps \in [Accounts -> SUBSET HTLCIds]
    BY <2>1 DEF CreateHTLC, Store, IInv, TypeOK
  <2>3. cfg.window = InitialConfig.window
    BY DEF StampsComplete, IInv, TypeOK, cfg
  <2>4. \A a \in Accounts :
           /\ stamps'[a] \subseteq htlcs'
           /\ {x \in CreatedBy(a)' : x.created >= now' - InitialConfig.window} \subseteq stamps'[a]
    <3>1. TAKE a \in Accounts
    <3>2. CASE a = id.sender
      <4>1. stamps'[a] = InWindow(a) \cup {id} /\ InWindow(a) \subseteq stamps[a]
        BY <2>2, <3>2 DEF InWindow
      <4>2. InWindow(a) = {x \in stamps[a] : x.created >= now - InitialConfig.window}
        BY <2>3 DEF InWindow
      <4>3. CreatedBy(a)' = CreatedBy(a) \cup {id}
        BY <2>2, <3>2 DEF CreatedBy
      <4>4. {x \in CreatedBy(a) : x.created >= now - InitialConfig.window} \subseteq InWindow(a)
        BY <4>2 DEF StampsComplete
      <4>5. QED BY <2>2, <4>1, <4>3, <4>4 DEF StampsComplete
    <3>3. CASE a # id.sender
      <4>1. stamps'[a] = stamps[a] /\ CreatedBy(a)' = CreatedBy(a)
        BY <2>2, <3>3 DEF CreatedBy
      <4>2. QED BY <2>2, <4>1 DEF StampsComplete
    <3>4. QED BY <3>2, <3>3
  <2>5. QED BY <1>2, <2>4 DEF StampsComplete
<1>4. CASE htlcs' = htlcs
  <2>1. stamps' = stamps /\ now' \in {now, now + 1}
    <3>1. CASE UNCHANGED vars
      BY <3>1 DEF vars
    <3>2. ASSUME Create(Accounts) PROVE FALSE
      BY <1>4, <3>2 DEF Create, CreateHTLC, Admissible, Store
    <3>3. ASSUME NEW c \in Accounts, NEW id \in htlcs, NEW s \in Secrets,
                 Withdraw(c, id, s)
          PROVE  stamps' = stamps /\ now' = now
      BY <3>3 DEF Withdraw
    <3>4. ASSUME NEW a \in Accounts,
                 \/ CleanupExpiredHtlcs(a) \/ BlacklistAddress(a) \/ WhitelistAddress(a)
          PROVE  stamps' = stamps /\ now' = now
      BY <3>4 DEF CleanupExpiredHtlcs, BlacklistAddress, WhitelistAddress
    <3>5. ASSUME NEW k \in ConfigContracts, SetFusionConfig(k)
          PROVE  stamps' = stamps /\ now' = now
      BY <3>5 DEF SetFusionConfig
    <3>6. CASE Configure
      BY <3>6 DEF Configure, htlcVars
    <3>7. CASE Tick
      BY <3>7 DEF Tick, htlcVars
    <3>8. ASSUME NEW c \in Accounts, NEW id \in htlcs, Refund(c, id)
          PROVE  stamps' = stamps /\ now' = now
      BY <3>8 DEF Refund
    <3>9. QED BY <3>1, <3>2, <3>3, <3>4, <3>5, <3>6, <3>7, <3>8 DEF Next, NextBy
  <2>2. \A a \in Accounts : CreatedBy(a)' = CreatedBy(a) /\ CreatedBy(a) \subseteq htlcs
    BY <1>4 DEF CreatedBy
  <2>3. \A a \in Accounts :
           {x \in CreatedBy(a) : x.created >= now' - InitialConfig.window} \subseteq stamps[a]
    BY <1>1, <2>1, <2>2 DEF StampsComplete
  <2>4. QED BY <1>2, <1>4, <2>1, <2>2, <2>3 DEF StampsComplete
<1>5. QED BY <1>3, <1>4

\* A creation counts its account's HTLCs before it adds one.
LEMMA CreationRespectsLimits ==
    ASSUME IInv, StampsComplete, NEW id \in HTLCIds, CreateHTLC(id)
    PROVE  LET a == id.sender
           IN  /\ Cardinality({x \in OpenOf(a)' : x.timelock > now}) <= cfg.maxHtlcs
               /\ Cardinality({x \in CreatedBy(a)' : x.created >= now - cfg.window})
                     <= cfg.perWindow
<1> DEFINE a == id.sender
<1>1. /\ a \in Accounts /\ id \notin htlcs /\ htlcs' = htlcs \cup {id}
      /\ UNCHANGED <<withdrawn, refunded>>
  BY DEF CreateHTLC, Admissible, Store, HTLCIds
<1>2. /\ cfg.maxHtlcs \in Nat /\ cfg.perWindow \in Nat
      /\ cfg.window = InitialConfig.window
  BY DEF IInv, TypeOK, ConfigTypeOK, ConfigRecord, cfg, StampsComplete
<1>3. {x \in OpenOf(a)' : x.timelock > now} \subseteq CleanedUp(a) \cup {id}
  BY <1>1 DEF OpenOf, Open, CleanedUp, IInv, TrackedExactly
<1>4. {x \in CreatedBy(a)' : x.created >= now - cfg.window} \subseteq InWindow(a) \cup {id}
  BY <1>1, <1>2 DEF CreatedBy, InWindow, StampsComplete
<1>5. IsFiniteSet(CleanedUp(a)) /\ IsFiniteSet(InWindow(a))
  <2>1. CleanedUp(a) \subseteq htlcs /\ InWindow(a) \subseteq htlcs
    BY <1>1 DEF CleanedUp, InWindow, Open, StampsComplete
  <2>2. QED BY <2>1, FS_Subset DEF IInv
<1>6. Cardinality(CleanedUp(a)) < cfg.maxHtlcs /\ Cardinality(InWindow(a)) < cfg.perWindow
  BY DEF CreateHTLC, Admissible, BelowActiveLimit, BelowRateLimit
<1> HIDE DEF a
<1>7. ASSUME NEW S, IsFiniteSet(S), NEW n \in Nat, Cardinality(S) < n, NEW T, T \subseteq S \cup {id}
      PROVE  Cardinality(T) <= n
  <2>1. IsFiniteSet(S \cup {id}) /\ Cardinality(S \cup {id}) <= Cardinality(S) + 1
    BY <1>7, FS_AddElement, FS_CardinalityType
  <2>2. Cardinality(S) \in Nat /\ Cardinality(S \cup {id}) \in Nat
    BY <1>7, <2>1, FS_CardinalityType
  <2>3. Cardinality(T) <= Cardinality(S \cup {id}) /\ Cardinality(T) \in Nat
    BY <1>7, <2>1, FS_Subset, FS_CardinalityType
  <2>4. QED BY <1>7, <2>1, <2>2, <2>3
<1>8. /\ Cardinality({x \in OpenOf(a)' : x.timelock > now}) <= cfg.maxHtlcs
      /\ Cardinality({x \in CreatedBy(a)' : x.created >= now - cfg.window}) <= cfg.perWindow
  BY <1>2, <1>3, <1>4, <1>5, <1>6, <1>7
<1>9. QED BY <1>8 DEF a

\* A creation leaves its account within both limits, counted on the HTLCs
\* themselves, if the owner never changes the length of the window.
THEOREM LimitsAreRespected == ASSUME SameWindow PROVE Spec => LimitsRespected
<1> DEFINE Within(a) ==
              CreatedBy(a)' # CreatedBy(a) =>
                 /\ Cardinality({id \in OpenOf(a)' : id.timelock > now}) <= cfg.maxHtlcs
                 /\ Cardinality({id \in CreatedBy(a)' : id.created >= now - cfg.window})
                       <= cfg.perWindow
<1>1. IInv /\ StampsComplete /\ [Next]_vars => \A a \in Accounts : Within(a)
  <2>1. SUFFICES ASSUME IInv, StampsComplete, [Next]_vars,
                        NEW a \in Accounts, CreatedBy(a)' # CreatedBy(a)
                 PROVE  Within(a)
    OBVIOUS
  <2>2. PICK id \in HTLCIds : CreateHTLC(id)
    BY <2>1, CreatesOne DEF CreatedBy
  <2>3. id.sender = a
    BY <2>1, <2>2 DEF CreateHTLC, Store, CreatedBy
  <2>4. LET b == id.sender
        IN  /\ Cardinality({x \in OpenOf(b)' : x.timelock > now}) <= cfg.maxHtlcs
            /\ Cardinality({x \in CreatedBy(b)' : x.created >= now - cfg.window})
                  <= cfg.perWindow
    BY <2>1, <2>2, CreationRespectsLimits
  <2>5. QED BY <2>3, <2>4
<1>2. QED
  BY <1>1, InitIInv, NextIInv, InitStamps, NextStamps, PTL DEF Spec, LimitsRespected
-----------------------------------------------------------------------------
(* Refinement.  The three sets of the abstract lock are images of Open,    *)
(* withdrawn and refunded under LockOf, which is injective.                *)
Locks(S) == {LockOf(id) : id \in S}

LEMMA LockOfInjective ==
    ASSUME NEW a, NEW b, LockOf(a) = LockOf(b) PROVE a = b
BY DEF LockOf

LEMMA ClaimStep ==
    ASSUME TypeOK, NEW id \in Open, withdrawn' = withdrawn \cup {id},
           UNCHANGED <<htlcs, refunded, now>>
    PROVE  Abstract!Claim(LockOf(id))
<1>1. Open' = Open \ {id}
  BY DEF Open
<1>2. Locks(Open)' = Locks(Open) \ {LockOf(id)}
  BY <1>1, LockOfInjective DEF Locks
<1>3. Locks(withdrawn)' = Locks(withdrawn) \cup {LockOf(id)}
  BY DEF Locks
<1>4. Locks(refunded)' = Locks(refunded)
  BY DEF Locks
<1>5. QED BY <1>2, <1>3, <1>4 DEF Abstract!Claim, Locks

LEMMA TakeBackStep ==
    ASSUME TypeOK, NEW id \in Open, refunded' = refunded \cup {id},
           now >= id.timelock, UNCHANGED <<htlcs, withdrawn, now>>
    PROVE  Abstract!TakeBack(LockOf(id))
<1>1. Open' = Open \ {id}
  BY DEF Open
<1>2. Locks(Open)' = Locks(Open) \ {LockOf(id)}
  BY <1>1, LockOfInjective DEF Locks
<1>3. Locks(refunded)' = Locks(refunded) \cup {LockOf(id)}
  BY DEF Locks
<1>4. Locks(withdrawn)' = Locks(withdrawn)
  BY DEF Locks
<1>5. LockOf(id).deadline = id.timelock
  BY DEF LockOf
<1>6. QED BY <1>2, <1>3, <1>4, <1>5 DEF Abstract!TakeBack, Locks

LEMMA LockStep ==
    ASSUME TypeOK, NEW id \in HTLCIds, CreateHTLC(id)
    PROVE  \E l \in Locks(Open)' \ Locks(Open) : Abstract!Lock(l)
<1>1. /\ id \notin htlcs /\ now < id.timelock
      /\ htlcs' = htlcs \cup {id} /\ UNCHANGED <<withdrawn, refunded, now>>
      /\ now \in Nat /\ id.timelock \in Nat
  BY DEF CreateHTLC, Admissible, Store, TypeOK, HTLCIds
<1>2. Open' = Open \cup {id} /\ Open \subseteq htlcs
  BY <1>1 DEF Open, TypeOK
<1>3. Locks(Open)' = Locks(Open) \cup {LockOf(id)}
  BY <1>2 DEF Locks
<1>4. LockOf(id) \notin Locks(Open)
  BY <1>1, <1>2, LockOfInjective DEF Locks
<1>5. \A k \in Locks(Open) \cup Locks(withdrawn) \cup Locks(refunded) : k.id # LockOf(id).id
  BY <1>1, <1>2 DEF Locks, LockOf, TypeOK
<1>6. LockOf(id).deadline > now
  BY <1>1 DEF LockOf
<1>7. Locks(withdrawn)' = Locks(withdrawn) /\ Locks(refunded)' = Locks(refunded)
  BY <1>1 DEF Locks
<1>8. Abstract!Lock(LockOf(id))
  BY <1>1, <1>3, <1>5, <1>6, <1>7 DEF Abstract!Lock, Locks
<1>9. QED BY <1>3, <1>4, <1>8

LEMMA StepRefines == IInv /\ [Next]_vars => [Abstract!LockNext]_Abstract!lockVars
<1> SUFFICES ASSUME IInv, [Next]_vars
             PROVE  Abstract!LockNext \/ UNCHANGED Abstract!lockVars
  OBVIOUS
<1> USE DEF IInv
<1>1. ASSUME UNCHANGED <<htlcs, withdrawn, refunded, now>>
      PROVE  UNCHANGED Abstract!lockVars
  BY <1>1 DEF Abstract!lockVars, Open
<1>2. CASE UNCHANGED vars
  BY <1>1, <1>2 DEF vars
<1>3. CASE Create(Accounts)
  <2>1. PICK a \in Accounts, t \in Tokens, n \in Amounts, s \in Secrets,
             l \in Timelocks :
                CreateHTLC([sender |-> a, token |-> t, amount |-> n,
                            hashlock |-> s, timelock |-> l, created |-> now])
    BY <1>3 DEF Create
  <2> DEFINE id == [sender |-> a, token |-> t, amount |-> n, hashlock |-> s,
                    timelock |-> l, created |-> now]
  <2>2. id \in HTLCIds
    BY HTLCAssumption DEF HTLCIds, TypeOK
  <2>3. \E k \in Locks(Open)' \ Locks(Open) : Abstract!Lock(k)
    BY <2>1, <2>2, LockStep
  <2>4. QED BY <2>3 DEF Abstract!LockNext, Locks
<1>4. ASSUME NEW a \in Accounts, NEW id \in htlcs, NEW s \in Secrets,
             Withdraw(a, id, s)
      PROVE  Abstract!LockNext
  <2>1. id \in Open
    BY <1>4 DEF Withdraw, NotExecuted, Open
  <2>2. Abstract!Claim(LockOf(id))
    BY <1>4, <2>1, ClaimStep DEF Withdraw
  <2>3. QED BY <2>1, <2>2 DEF Abstract!LockNext
<1>5. ASSUME NEW a \in Accounts, NEW id \in htlcs, Refund(a, id)
      PROVE  Abstract!LockNext
  <2>1. id \in Open
    BY <1>5 DEF Refund, MayRefund, NotExecuted, Open
  <2>2. Abstract!TakeBack(LockOf(id))
    BY <1>5, <2>1, TakeBackStep DEF Refund, MayRefund, Expired
  <2>3. QED BY <2>1, <2>2 DEF Abstract!LockNext
<1>6. ASSUME NEW a \in Accounts,
             CleanupExpiredHtlcs(a) \/ BlacklistAddress(a) \/ WhitelistAddress(a)
      PROVE  UNCHANGED Abstract!lockVars
  BY <1>1, <1>6 DEF CleanupExpiredHtlcs, BlacklistAddress, WhitelistAddress
<1>7. ASSUME NEW k \in ConfigContracts, SetFusionConfig(k)
      PROVE  UNCHANGED Abstract!lockVars
  BY <1>1, <1>7 DEF SetFusionConfig
<1>8. CASE Configure
  BY <1>1, <1>8 DEF Configure, htlcVars
<1>9. CASE Tick
  BY <1>9 DEF Tick, htlcVars, TypeOK, Abstract!LockNext, Abstract!TimePasses, Open
<1>10. QED
  BY <1>2, <1>3, <1>4, <1>5, <1>6, <1>7, <1>8, <1>9 DEF Next, NextBy

\* The contract implements the abstract hash time lock.
THEOREM ContractIsHashTimeLock == Spec => ImplementsHashTimeLock
<1>1. Init => Abstract!LockInit
  BY DEF Init, Abstract!LockInit, Open
<1>2. QED
  BY <1>1, InitIInv, NextIInv, StepRefines, PTL
  DEF Spec, ImplementsHashTimeLock, Abstract!LockSpec
-----------------------------------------------------------------------------
(* FusionResolver.  The HTLC contract is called by the resolver contract    *)
(* and by the users, so its invariant carries over (NextByIInv, CreateStep).  *)

RInv == IInv /\ resolverConfig \in ConfigContracts

\* The cut deadline is one of the two it is the lesser of.
LEMMA ClampBounds ==
    ASSUME RInv, NEW d \in Nat
    PROVE  /\ ClampedTimelock(d) \in Nat
           /\ ClampedTimelock(d) \in {d, now + configs[resolverConfig].maxTimelock}
           /\ ClampedTimelock(d) <= now + configs[resolverConfig].maxTimelock
<1>1. d \in Nat /\ now + configs[resolverConfig].maxTimelock \in Nat
  BY DEF RInv, IInv, TypeOK, ConfigTypeOK, ConfigRecord
<1> DEFINE S == {d, now + configs[resolverConfig].maxTimelock}
<1>2. \E x \in S : \A y \in S : x <= y
  BY <1>1
<1>3. Min(S) \in S /\ \A y \in S : Min(S) <= y
  BY <1>2 DEF Min
<1>4. QED BY <1>1, <1>3 DEF ClampedTimelock

\* What the first transfer leaves: balances, and with a token that reverts the
\* resolver contract richer by the amount.
LEMMA CollectStep ==
    ASSUME RInv, NEW maker \in Users, NEW t \in Tokens, NEW n \in Nat, NEW ok \in BOOLEAN
    PROVE  /\ Collect(maker, t, n, ok) \in [Accounts -> [Tokens -> Nat]]
           /\ \A u \in Tokens \ {t} :
                 Collect(maker, t, n, ok)[ResolverContract][u] = wallet[ResolverContract][u]
           /\ ~CollectReverts(maker, t, n, ok) /\ t \notin SilentTokens =>
                 Collect(maker, t, n, ok)[ResolverContract][t] = wallet[ResolverContract][t] + n
<1>1. /\ wallet \in [Accounts -> [Tokens -> Nat]]
      /\ maker \in Accounts /\ ResolverContract \in Accounts /\ maker # ResolverContract
  BY ResolverAssumption DEF RInv, IInv, TypeOK, Users
<1>2. CASE ok /\ wallet[maker][t] >= n
  <2>1. PICK out, in : out = wallet[maker][t] - n /\ in = wallet[ResolverContract][t] + n
    OBVIOUS
  <2>2. out \in Nat /\ in \in Nat
    BY <1>1, <1>2, <2>1
  <2>3. PICK less : less = [wallet EXCEPT ![maker][t] = out]
    OBVIOUS
  <2>4. less \in [Accounts -> [Tokens -> Nat]] /\ less[ResolverContract] = wallet[ResolverContract]
    BY <1>1, <2>2, <2>3
  <2>5. Collect(maker, t, n, ok) = [less EXCEPT ![ResolverContract][t] = in]
    BY <1>1, <1>2, <2>1, <2>3, <2>4 DEF Collect
  <2>6. QED BY <1>1, <2>1, <2>2, <2>4, <2>5
<1>3. CASE ~(ok /\ wallet[maker][t] >= n)
  BY <1>1, <1>3 DEF Collect, CollectReverts
<1>4. QED BY <1>2, <1>3

\* An order is a creation in the name of the resolver contract, which spends
\* what it collected; only of a silent token may it have collected nothing.
LEMMA OrderStep ==
    ASSUME RInv, NEW caller, NEW maker \in Users, NEW t \in Tokens, NEW n \in Amounts,
           NEW s \in Secrets, NEW d \in Timelocks, NEW ok \in BOOLEAN,
           CreateCrossChainOrder(caller, maker, t, n, s, d, ok)
    PROVE  /\ RInv'
           /\ \A u \in Tokens \ SilentTokens :
                 wallet'[ResolverContract][u] = wallet[ResolverContract][u]
<1> DEFINE id == OrderId(t, n, s, d)
<1>1. PICK collected : collected = Collect(maker, t, n, ok)
  OBVIOUS
<1>2. /\ Admissible(id) /\ Store(id) /\ ~CollectReverts(maker, t, n, ok)
      /\ collected[ResolverContract][t] >= n
      /\ wallet' = [collected EXCEPT ![ResolverContract][t] = @ - n]
      /\ resolverConfig' = resolverConfig
  BY <1>1 DEF CreateCrossChainOrder, resolverVars
<1>3. n \in Nat /\ d \in Nat /\ ResolverContract \in Accounts
  BY HTLCAssumption, ResolverAssumption
<1>4. collected \in [Accounts -> [Tokens -> Nat]]
  BY <1>1, <1>3, CollectStep
<1>5. ClampedTimelock(d) \in Nat
  BY <1>3, ClampBounds
<1>6. id \in HTLCIds
  BY <1>3, <1>5 DEF OrderId, HTLCIds, RInv, IInv, TypeOK
<1> HIDE DEF id
<1>7. wallet' \in [Accounts -> [Tokens -> Nat]]
  <2>1. PICK left : left = collected[ResolverContract][t] - n
    OBVIOUS
  <2>2. left \in Nat
    BY <1>2, <1>3, <1>4, <2>1
  <2>3. wallet' = [collected EXCEPT ![ResolverContract][t] = left]
    BY <1>2, <2>1
  <2>4. QED BY <1>3, <1>4, <2>2, <2>3
<1>8. RInv'
  <2>1. IInv'
    BY <1>2, <1>6, <1>7, CreateStep DEF RInv
  <2>2. ConfigContracts' = ConfigContracts
    OBVIOUS
  <2>3. QED BY <1>2, <2>1 DEF RInv
<1>9. ASSUME NEW u \in Tokens \ SilentTokens
      PROVE  wallet'[ResolverContract][u] = wallet[ResolverContract][u]
  <2>1. wallet[ResolverContract][u] \in Nat
    BY <1>3 DEF RInv, IInv, TypeOK
  <2>2. CASE u = t
    <3>1. collected[ResolverContract][t] = wallet[ResolverContract][t] + n
      BY <1>1, <1>2, <1>3, <2>2, CollectStep
    <3>2. wallet'[ResolverContract][t] = collected[ResolverContract][t] - n
      BY <1>2, <1>3, <1>4
    <3>3. QED BY <1>3, <2>1, <2>2, <3>1, <3>2
  <2>3. CASE u # t
    <3>1. collected[ResolverContract][u] = wallet[ResolverContract][u]
      BY <1>1, <1>3, <2>3, CollectStep
    <3>2. QED BY <1>2, <1>3, <1>4, <2>3, <3>1
  <2>4. QED BY <2>2, <2>3
<1>10. QED BY <1>8, <1>9

\* An emergency withdrawal moves tokens from one account to another.
LEMMA EmergencyStep ==
    ASSUME RInv, NEW t \in Tokens, NEW n \in Amounts, NEW to \in Users,
           EmergencyWithdraw(t, n, to)
    PROVE  RInv'
<1>1. /\ n \in Nat /\ to \in Accounts /\ ResolverContract \in Accounts
      /\ to # ResolverContract
      /\ wallet \in [Accounts -> [Tokens -> Nat]] /\ vault \in [Tokens -> Int]
  BY HTLCAssumption, ResolverAssumption DEF Users, RInv, IInv, TypeOK
<1>2. /\ wallet' = [wallet EXCEPT ![ResolverContract][t] = @ - n, ![to][t] = @ + n]
      /\ wallet[ResolverContract][t] >= n
      /\ UNCHANGED <<configs, fusionConfig, htlcs, withdrawn, refunded, tracked,
                     stamps, blacklisted, vault, now, resolverConfig>>
  BY DEF EmergencyWithdraw, resolverVars
<1>3. PICK out, in : out = wallet[ResolverContract][t] - n /\ in = wallet[to][t] + n
  OBVIOUS
<1>4. PICK less : less = [wallet EXCEPT ![ResolverContract][t] = out]
  OBVIOUS
<1>5. out \in Nat /\ in \in Nat
  BY <1>1, <1>2, <1>3
<1>6. less \in [Accounts -> [Tokens -> Nat]] /\ less[to][t] = wallet[to][t]
  BY <1>1, <1>4, <1>5
<1>7. wallet' = [less EXCEPT ![to][t] = in]
  BY <1>1, <1>2, <1>3, <1>4
<1>8. wallet' \in [Accounts -> [Tokens -> Nat]]
  BY <1>1, <1>5, <1>6, <1>7
<1>9. IInv'
  <2>1. IsFiniteSet(htlcs)' /\ Solvent' /\ SettledOnce' /\ Open' = Open
    BY <1>2, SameDebts DEF RInv
  <2>2. QED
    BY <1>2, <1>8, <2>1
    DEF RInv, IInv, TypeOK, ConfigTypeOK, ConfigConsistent, TrackedExactly, OpenOf
<1>10. QED BY <1>2, <1>9 DEF RInv

LEMMA NextRInv == RInv /\ [ResolverNext]_allVars => RInv'
<1> SUFFICES ASSUME RInv, [ResolverNext]_allVars PROVE RInv'
  OBVIOUS
<1>1. ASSUME UNCHANGED vars, resolverConfig' \in ConfigContracts PROVE RInv'
  BY <1>1, UnchangedIInv DEF RInv, vars
<1>2. ASSUME NEW r \in Users, NEW allowed \in BOOLEAN, SetResolverAuthorization(r, allowed)
      PROVE  RInv'
  BY <1>1, <1>2 DEF SetResolverAuthorization, RInv
<1>3. ASSUME NEW k \in ConfigContracts, SetResolverConfig(k)
      PROVE  RInv'
  BY <1>1, <1>3 DEF SetResolverConfig
<1>4. ASSUME NEW caller \in Users, NEW maker \in Users, NEW t \in Tokens, NEW n \in Amounts,
             NEW s \in Secrets, NEW d \in Timelocks, NEW ok \in BOOLEAN,
             CreateCrossChainOrder(caller, maker, t, n, s, d, ok)
      PROVE  RInv'
  BY <1>4, OrderStep
<1>5. ASSUME NEW t \in Tokens, NEW n \in Amounts, NEW to \in Users, EmergencyWithdraw(t, n, to)
      PROVE  RInv'
  BY <1>5, EmergencyStep
<1>6. CASE NextBy(Users) /\ UNCHANGED resolverVars
  <2>1. Users \in SUBSET Accounts
    BY DEF Users
  <2>2. QED BY <1>6, <2>1, NextByIInv DEF RInv, resolverVars
<1>7. CASE UNCHANGED allVars
  BY <1>1, <1>7 DEF allVars, RInv
<1>8. QED BY <1>2, <1>3, <1>4, <1>5, <1>6, <1>7 DEF ResolverNext

LEMMA AlwaysRInv == ResolverSpec => []RInv
<1>1. ResolverInit => RInv
  BY InitIInv DEF ResolverInit, RInv
<1>2. QED BY <1>1, NextRInv, PTL DEF ResolverSpec

\* Behind the resolver contract, too, the HTLC contract can pay what it owes
\* and no HTLC is settled twice, even of tokens whose failing transfers the
\* resolver contract does not notice; the configuration stays consistent.
THEOREM SolventBehindResolver ==
    ResolverSpec => [](Solvent /\ SettledOnce /\ ConfigConsistent)
BY AlwaysRInv, PTL DEF RInv, IInv

\* A deadline ahead of the clock is never cut to one that createHTLC refuses,
\* unless its configuration allows less than the resolver contract's.
THEOREM OrdersFitTheirTimelocks == ResolverSpec => []ClampedTimelocksFit
<1>1. ASSUME RInv PROVE ClampedTimelocksFit
  <2> SUFFICES ASSUME configs[resolverConfig].maxTimelock <= cfg.maxTimelock,
                      NEW d \in Timelocks, d > now
               PROVE  now < ClampedTimelock(d) /\ ClampedTimelock(d) <= now + cfg.maxTimelock
    BY DEF ClampedTimelocksFit
  <2>1. /\ now \in Nat /\ d \in Nat
        /\ configs[resolverConfig].maxTimelock \in Nat /\ cfg.maxTimelock \in Nat
    BY <1>1, HTLCAssumption DEF RInv, IInv, TypeOK, ConfigTypeOK, ConfigRecord, cfg
  <2>2. 0 < configs[resolverConfig].maxTimelock
    BY <1>1 DEF RInv, IInv, TypeOK, ConfigTypeOK, ConfigRecord, ConfigConsistent, Consistent
  <2>3. /\ ClampedTimelock(d) \in {d, now + configs[resolverConfig].maxTimelock}
        /\ ClampedTimelock(d) <= now + configs[resolverConfig].maxTimelock
    BY <1>1, <2>1, ClampBounds
  <2>4. QED BY <2>1, <2>2, <2>3
<1>2. QED BY <1>1, AlwaysRInv, PTL

\* An order in a token that reverts is paid for by its maker, whatever was
\* approved and whoever holds what: both transfers of it cancel out in the
\* resolver contract, and nothing else that creates an HTLC spends its tokens.
THEOREM MakersPay == ResolverSpec => OrdersDoNotSpendResolverFunds
<1>1. RInv /\ [ResolverNext]_allVars
         => [htlcs' # htlcs =>
               \A t \in Tokens \ SilentTokens :
                   wallet'[ResolverContract][t] = wallet[ResolverContract][t]]_allVars
  <2> SUFFICES ASSUME RInv, ResolverNext, htlcs' # htlcs,
                      NEW u \in Tokens \ SilentTokens
               PROVE  wallet'[ResolverContract][u] = wallet[ResolverContract][u]
    OBVIOUS
  <2>1. ASSUME NEW r \in Users, NEW allowed \in BOOLEAN, SetResolverAuthorization(r, allowed)
        PROVE  FALSE
    BY <2>1 DEF SetResolverAuthorization, vars
  <2>2. ASSUME NEW k \in ConfigContracts, SetResolverConfig(k) PROVE FALSE
    BY <2>2 DEF SetResolverConfig, vars
  <2>3. ASSUME NEW t \in Tokens, NEW n \in Amounts, NEW to \in Users, EmergencyWithdraw(t, n, to)
        PROVE  FALSE
    BY <2>3 DEF EmergencyWithdraw
  <2>4. CASE NextBy(Users)
    <3>1. ~ UNCHANGED vars /\ Users \subseteq Accounts
      BY DEF vars, Users
    <3>2. Create(Users)
      BY <2>4, OnlyCreateAdds
    <3>3. PICK a \in Users, t \in Tokens, n \in Amounts, s \in Secrets, l \in Timelocks :
                CreateHTLC([sender |-> a, token |-> t, amount |-> n,
                            hashlock |-> s, timelock |-> l, created |-> now])
      BY <3>2 DEF Create
    <3>4. wallet' = [wallet EXCEPT ![a][t] = @ - n] /\ a # ResolverContract /\ a \in Accounts
      BY <3>3 DEF CreateHTLC, Users
    <3>5. QED BY <3>4, ResolverAssumption DEF RInv, IInv, TypeOK
  <2>5. ASSUME NEW caller \in Users, NEW maker \in Users, NEW t \in Tokens, NEW n \in Amounts,
               NEW s \in Secrets, NEW d \in Timelocks, NEW ok \in BOOLEAN,
               CreateCrossChainOrder(caller, maker, t, n, s, d, ok)
        PROVE  wallet'[ResolverContract][u] = wallet[ResolverContract][u]
    BY <2>5, OrderStep
  <2>6. QED BY <2>1, <2>2, <2>3, <2>4, <2>5 DEF ResolverNext
<1>2. QED BY <1>1, AlwaysRInv, PTL DEF ResolverSpec, OrdersDoNotSpendResolverFunds
=============================================================================
