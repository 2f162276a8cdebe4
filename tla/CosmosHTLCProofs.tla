-------------------------- MODULE CosmosHTLCProofs --------------------------
(***************************************************************************)
(* What holds of the CosmWasm HTLC contract for every set of accounts,      *)
(* denominations, amounts and secrets, swaps included.                      *)
(***************************************************************************)
EXTENDS CosmosHTLC, SequenceTheorems, FiniteSums

LEMMA InitTypeOK == Init => TypeOK
BY CosmosAssumption DEF Init, TypeOK

\* A new HTLC takes the next number and leaves the others alone.
LEMMA SaveAppends ==
    ASSUME TypeOK, NEW h \in Htlc, Save(h)
    PROVE  /\ htlcs' \in Seq(Htlc)
           /\ Len(htlcs') = Len(htlcs) + 1
           /\ Ids = 1 .. Len(htlcs) /\ Ids' = 1 .. (Len(htlcs) + 1)
           /\ \A i \in Ids : htlcs'[i] = htlcs[i]
           /\ htlcs'[Len(htlcs) + 1] = h
<1>1. htlcs \in Seq(Htlc) /\ htlcs' = Append(htlcs, h)
  BY DEF TypeOK, Save
<1>2. QED BY <1>1 DEF Ids

\* The flags and the swap fields are all a later message changes of an HTLC.
LEMMA UpdateKeeps ==
    ASSUME TypeOK, NEW i \in Ids, NEW h \in Htlc, htlcs' = [htlcs EXCEPT ![i] = h]
    PROVE  /\ htlcs' \in Seq(Htlc)
           /\ Ids' = Ids
           /\ htlcs'[i] = h
           /\ \A j \in Ids \ {i} : htlcs'[j] = htlcs[j]
<1>1. htlcs \in Seq(Htlc) /\ i \in 1 .. Len(htlcs)
  BY DEF TypeOK, Ids
<1>2. QED BY <1>1 DEF Ids

LEMMA StoredIsHtlc ==
    ASSUME TypeOK, NEW i \in Ids
    PROVE  /\ htlcs[i] \in Htlc
           /\ htlcs[i].sender \in Accounts /\ htlcs[i].receiver \in Accounts
           /\ htlcs[i].denom \in Denoms /\ htlcs[i].amount \in Nat
<1>1. htlcs[i] \in Htlc
  BY DEF TypeOK, Ids
<1>2. QED BY <1>1 DEF Htlc

\* The HTLC that each of Withdraw, Refund and ExecuteSwapAndLock stores.
LEMMA SettledTypes ==
    ASSUME NEW h \in Htlc
    PROVE  [h EXCEPT !.withdrawn = TRUE] \in Htlc /\ [h EXCEPT !.refunded = TRUE] \in Htlc
BY DEF Htlc

LEMMA SwappedTypes ==
    ASSUME NEW h \in Htlc, NEW out \in Nat, NEW min \in Nat, NEW d \in Denoms
    PROVE  [h EXCEPT !.swapOut = out, !.swapMin = min, !.swapDenom = d] \in Htlc
BY DEF Htlc

\* An exchange that the balance covers leaves no balance below zero.
LEMMA ExchangeKeepsNat ==
    ASSUME NEW b \in [Denoms -> Nat], NEW e \in Denoms, NEW n \in Nat, b[e] >= n,
           NEW d \in Denoms, NEW out \in Nat
    PROVE  [b EXCEPT ![e] = @ - n, ![d] = @ + out] \in [Denoms -> Nat]
OBVIOUS

LEMMA NextTypeOK == TypeOK /\ [Next]_vars => TypeOK'
<1> SUFFICES ASSUME TypeOK, [Next]_vars PROVE TypeOK'
  OBVIOUS
<1>1. CASE UNCHANGED vars
  BY <1>1 DEF vars, TypeOK
<1>2. ASSUME NEW a \in Accounts, NEW r \in Accounts, NEW d \in Denoms, NEW n \in Amounts,
             NEW h \in Secrets, NEW t \in now .. now + MaxTimelock + 1,
             NEW min \in Amounts \cup {NoSwap},
             Deposit(a, d, n), Save(NewHtlc(a, r, d, n, h, t, min)), UNCHANGED now
      PROVE  TypeOK'
  <2>1. n \in Nat /\ min \in Nat /\ t \in Nat
    BY CosmosAssumption DEF NoSwap, TypeOK
  <2>2. NewHtlc(a, r, d, n, h, t, min) \in Htlc
    BY <2>1 DEF NewHtlc, Htlc, NoSwap
  <2>3. htlcs' \in Seq(Htlc)
    BY <1>2, <2>2, SaveAppends
  <2>4. QED BY <1>2, <2>1, <2>3 DEF TypeOK, Deposit
<1>3. CASE Create
  <2>1. PICK a \in Accounts, r \in Accounts, d \in Denoms, n \in Amounts, h \in Secrets,
             t \in now .. now + MaxTimelock + 1 :
                \/ CreateHtlc(a, r, d, n, h, t)
                \/ \E min, estimate \in Amounts :
                      CreateHtlcWithSwap(a, r, d, n, h, t, min, estimate)
    BY <1>3 DEF Create
  <2>2. CASE CreateHtlc(a, r, d, n, h, t)
    BY <1>2, <2>2 DEF CreateHtlc
  <2>3. ASSUME NEW min \in Amounts, NEW estimate \in Amounts,
               CreateHtlcWithSwap(a, r, d, n, h, t, min, estimate)
        PROVE  TypeOK'
    BY <1>2, <2>3 DEF CreateHtlcWithSwap
  <2>4. QED BY <2>1, <2>2, <2>3
<1>4. ASSUME NEW i \in Ids, NEW h \in Htlc, htlcs' = [htlcs EXCEPT ![i] = h],
             NEW a \in Accounts, Send(a, htlcs[i].denom, htlcs[i].amount), UNCHANGED now
      PROVE  TypeOK'
  <2>1. htlcs[i].denom \in Denoms /\ htlcs[i].amount \in Nat
    BY StoredIsHtlc
  <2>2. htlcs' \in Seq(Htlc)
    BY <1>4, UpdateKeeps
  <2>3. wallet' \in [Accounts -> [Denoms -> Nat]] /\ bank' \in [Denoms -> Nat]
    BY <1>4, <2>1 DEF TypeOK, Send
  <2>4. QED BY <1>4, <2>2, <2>3 DEF TypeOK
<1>5. ASSUME NEW i \in Ids, NEW s \in Secrets, Withdraw(i, s)
      PROVE  TypeOK'
  <2>1. htlcs' = [htlcs EXCEPT ![i] = [htlcs[i] EXCEPT !.withdrawn = TRUE]]
    BY <1>5 DEF Withdraw
  <2>2. htlcs[i] \in Htlc /\ htlcs[i].receiver \in Accounts
    BY StoredIsHtlc
  <2> DEFINE h == [htlcs[i] EXCEPT !.withdrawn = TRUE]
  <2>3. h \in Htlc
    BY <2>2, SettledTypes
  <2>4. Send(htlcs[i].receiver, htlcs[i].denom, htlcs[i].amount) /\ UNCHANGED now
    BY <1>5 DEF Withdraw
  <2> HIDE DEF h
  <2>5. htlcs' = [htlcs EXCEPT ![i] = h]
    BY <2>1 DEF h
  <2>6. QED BY <1>4, <2>2, <2>3, <2>4, <2>5
<1>6. ASSUME NEW i \in Ids, NEW a \in Accounts, Refund(a, i)
      PROVE  TypeOK'
  <2>1. htlcs' = [htlcs EXCEPT ![i] = [htlcs[i] EXCEPT !.refunded = TRUE]]
    BY <1>6 DEF Refund
  <2>2. htlcs[i] \in Htlc /\ htlcs[i].sender \in Accounts
    BY StoredIsHtlc
  <2> DEFINE h == [htlcs[i] EXCEPT !.refunded = TRUE]
  <2>3. h \in Htlc
    BY <2>2, SettledTypes
  <2>4. Send(htlcs[i].sender, htlcs[i].denom, htlcs[i].amount) /\ UNCHANGED now
    BY <1>6 DEF Refund
  <2> HIDE DEF h
  <2>5. htlcs' = [htlcs EXCEPT ![i] = h]
    BY <2>1 DEF h
  <2>6. QED BY <1>4, <2>2, <2>3, <2>4, <2>5
<1>7. ASSUME NEW i \in Ids, NEW a \in Accounts, NEW out \in Amounts, NEW min \in Amounts,
             NEW d \in Denoms, d # htlcs[i].denom, ExecuteSwapAndLock(a, i, out, min, d)
      PROVE  TypeOK'
  <2> DEFINE h == [htlcs[i] EXCEPT !.swapOut = out, !.swapMin = min, !.swapDenom = d]
  <2>1. htlcs' = [htlcs EXCEPT ![i] = h]
    BY <1>7 DEF ExecuteSwapAndLock
  <2>2. out \in Nat /\ min \in Nat
    BY CosmosAssumption
  <2>3. h \in Htlc
    BY <2>2, StoredIsHtlc, SwappedTypes
  <2>4. htlcs' \in Seq(Htlc)
    BY <2>1, <2>3, UpdateKeeps
  <2>5. htlcs[i].denom \in Denoms /\ htlcs[i].amount \in Nat
    BY StoredIsHtlc
  <2>6. /\ bank \in [Denoms -> Nat] /\ bank[htlcs[i].denom] >= htlcs[i].amount
        /\ bank' = [bank EXCEPT ![htlcs[i].denom] = @ - htlcs[i].amount, ![d] = @ + out]
        /\ UNCHANGED <<wallet, now>>
    BY <1>7 DEF ExecuteSwapAndLock, TypeOK
  <2>7. bank' \in [Denoms -> Nat]
    BY <2>2, <2>5, <2>6, ExchangeKeepsNat
  <2>8. QED BY <2>4, <2>6, <2>7 DEF TypeOK
<1>8. CASE Tick
  BY <1>8 DEF Tick, TypeOK
<1>9. QED
  BY <1>1, <1>3, <1>5, <1>6, <1>7, <1>8 DEF Next

\* The contract's balance never goes below zero in any denomination, and every
\* stored HTLC is well formed: a payout the balance does not cover fails.
THEOREM TypeCorrect == Spec => []TypeOK
BY InitTypeOK, NextTypeOK, PTL DEF Spec
-----------------------------------------------------------------------------
(* The balance.  It is a sum with a term per HTLC: a message adds a term or  *)
(* changes one, and by as much as the bank moves.                           *)

LEMMA TermsAreNumbers ==
    ASSUME NEW h \in Htlc, NEW d
    PROVE  /\ Owed(h, d) \in Int /\ SwappedAway(h, d) \in Int /\ SwappedIn(h, d) \in Int
           /\ HeldFor(h, d) \in Int
<1>1. Owed(h, d) \in Int /\ SwappedAway(h, d) \in Int /\ SwappedIn(h, d) \in Int
  BY DEF Htlc, Owed, SwappedAway, SwappedIn
<1>2. QED BY <1>1 DEF HeldFor

Held(d) == SumFunction([i \in Ids |-> HeldFor(htlcs[i], d)])

LEMMA FiniteIds == ASSUME TypeOK PROVE Ids = 1 .. Len(htlcs) /\ IsFiniteSet(Ids)
<1>1. Ids = 1 .. Len(htlcs) /\ Len(htlcs) \in Nat
  BY DEF TypeOK, Ids
<1>2. QED BY <1>1, FS_Interval

\* A new HTLC adds its term.
LEMMA HeldWithNew ==
    ASSUME TypeOK, NEW h \in Htlc, Save(h), NEW d \in Denoms
    PROVE  Held(d) \in Int /\ Held(d)' = Held(d) + HeldFor(h, d)
<1>1. PICK x : x = Len(htlcs) + 1
  OBVIOUS
<1>2. /\ IsFiniteSet(Ids) /\ x \notin Ids /\ Ids' = Ids \cup {x}
      /\ \A i \in Ids : htlcs'[i] = htlcs[i]
      /\ htlcs'[x] = h
  <2>1. Len(htlcs) \in Nat
    BY DEF TypeOK
  <2>2. QED BY <1>1, <2>1, SaveAppends, FiniteIds
<1>3. \A i \in Ids' : htlcs'[i] \in Htlc
  BY <1>2, StoredIsHtlc
<1>4. PICK f, g : /\ f = [i \in Ids |-> HeldFor(htlcs[i], d)]
                  /\ g = [i \in Ids' |-> HeldFor(htlcs'[i], d)]
  OBVIOUS
<1>5. /\ DOMAIN f = Ids /\ DOMAIN g = Ids \cup {x}
      /\ \A y \in Ids : f[y] = g[y]
      /\ g[x] = HeldFor(h, d)
  BY <1>2, <1>4
<1>6. \A y \in DOMAIN g : g[y] \in Int
  BY <1>3, <1>4, TermsAreNumbers
<1>7. SumFunction(f) \in Int /\ SumFunction(g) = SumFunction(f) + HeldFor(h, d)
  BY <1>2, <1>5, <1>6, SumFunctionWithOneMore
<1>8. QED BY <1>4, <1>7 DEF Held

\* A message to an HTLC changes its term and no others.
LEMMA HeldWithChanged ==
    ASSUME TypeOK, NEW i \in Ids, NEW h \in Htlc, htlcs' = [htlcs EXCEPT ![i] = h],
           NEW d \in Denoms
    PROVE  /\ Held(d) \in Int
           /\ Held(d)' = Held(d) - HeldFor(htlcs[i], d) + HeldFor(h, d)
<1>1. /\ IsFiniteSet(Ids) /\ Ids' = Ids
      /\ \A j \in Ids : htlcs[j] \in Htlc /\ htlcs'[j] \in Htlc
      /\ htlcs'[i] = h /\ \A j \in Ids \ {i} : htlcs'[j] = htlcs[j]
  BY UpdateKeeps, FiniteIds, StoredIsHtlc
<1>2. PICK f, g : /\ f = [j \in Ids |-> HeldFor(htlcs[j], d)]
                  /\ g = [j \in Ids' |-> HeldFor(htlcs'[j], d)]
  OBVIOUS
<1>3. /\ DOMAIN f = Ids /\ DOMAIN g = Ids
      /\ \A j \in Ids \ {i} : g[j] = f[j]
      /\ f[i] = HeldFor(htlcs[i], d) /\ g[i] = HeldFor(h, d)
  BY <1>1, <1>2
<1>4. \A j \in Ids : f[j] \in Int /\ g[j] \in Int
  BY <1>1, <1>2, TermsAreNumbers
<1>5. SumFunction(f) \in Int /\ SumFunction(g) = SumFunction(f) - f[i] + g[i]
  BY <1>1, <1>3, <1>4, SumFunctionWithOneChanged
<1>6. QED BY <1>2, <1>3, <1>5 DEF Held

LEMMA InitBalance == Init => BalanceExplained
<1> SUFFICES ASSUME Init, NEW d \in Denoms
             PROVE  bank[d] = SumFunction([i \in Ids |-> HeldFor(htlcs[i], d)])
  BY DEF BalanceExplained
<1>1. Ids = {} /\ bank[d] = 0
  BY DEF Init, Ids
<1>2. SumFunction([i \in Ids |-> HeldFor(htlcs[i], d)]) = 0
  BY <1>1, SumFunctionOfNone
<1>3. QED BY <1>1, <1>2

LEMMA NextBalance == TypeOK /\ BalanceExplained /\ [Next]_vars => BalanceExplained'
<1> SUFFICES ASSUME TypeOK, BalanceExplained, [Next]_vars PROVE BalanceExplained'
  OBVIOUS
<1>0. bank \in [Denoms -> Nat] /\ \A e \in Denoms : bank[e] = Held(e)
  BY DEF TypeOK, BalanceExplained, Held
<1> DEFINE Explained == \A e \in Denoms : bank'[e] = Held(e)'
<1> SUFFICES Explained
  BY DEF BalanceExplained, Held
<1>1. CASE UNCHANGED <<htlcs, bank>>
  BY <1>0, <1>1 DEF Held, Ids
\* A deposit is owed to the new HTLC.
<1>2. ASSUME NEW a \in Accounts, NEW r \in Accounts, NEW d \in Denoms, NEW n \in Amounts,
             NEW s \in Secrets, NEW t \in now .. now + MaxTimelock + 1,
             NEW min \in Amounts \cup {NoSwap},
             Deposit(a, d, n), Save(NewHtlc(a, r, d, n, s, t, min))
      PROVE  Explained
  <2>1. PICK h : h = NewHtlc(a, r, d, n, s, t, min)
    OBVIOUS
  <2>2. n \in Nat /\ min \in Nat /\ t \in Nat
    BY CosmosAssumption DEF NoSwap, TypeOK
  <2>3. h \in Htlc /\ Save(h)
    BY <1>2, <2>1, <2>2 DEF NewHtlc, Htlc, NoSwap
  <2>4. \A e \in Denoms : HeldFor(h, e) = IF e = d THEN n ELSE 0
    BY <2>1, <2>2 DEF NewHtlc, HeldFor, Owed, SwappedAway, SwappedIn, NoSwap
  <2>5. \A e \in Denoms : bank'[e] = bank[e] + IF e = d THEN n ELSE 0
    BY <1>0, <1>2, <2>2 DEF Deposit
  <2>6. \A e \in Denoms : Held(e)' = Held(e) + HeldFor(h, e)
    BY <2>3, HeldWithNew
  <2>7. QED BY <1>0, <2>4, <2>5, <2>6
\* A payout ends what the HTLC is owed.
<1>3. ASSUME NEW i \in Ids, NEW h \in Htlc, htlcs' = [htlcs EXCEPT ![i] = h],
             \A e \in Denoms : HeldFor(h, e) = HeldFor(htlcs[i], e) - Owed(htlcs[i], e),
             IsOpen(i), NEW a \in Accounts, Send(a, htlcs[i].denom, htlcs[i].amount)
      PROVE  Explained
  <2>1. /\ htlcs[i] \in Htlc /\ htlcs[i].denom \in Denoms /\ htlcs[i].amount \in Nat
    BY StoredIsHtlc
  <2>2. \A e \in Denoms : bank'[e] = bank[e] - Owed(htlcs[i], e)
    BY <1>0, <1>3, <2>1 DEF Send, Owed, IsOpen
  <2>3. SUFFICES ASSUME NEW e \in Denoms PROVE bank'[e] = Held(e)'
    OBVIOUS
  <2>4. Held(e) \in Int /\ Held(e)' = Held(e) - HeldFor(htlcs[i], e) + HeldFor(h, e)
    BY <1>3, <2>3, HeldWithChanged
  <2>5. Owed(htlcs[i], e) \in Int /\ HeldFor(htlcs[i], e) \in Int
    BY <2>1, TermsAreNumbers
  <2>6. QED BY <1>0, <1>3, <2>2, <2>3, <2>4, <2>5
<1>4. ASSUME NEW h \in Htlc, ~h.withdrawn, ~h.refunded, NEW e \in Denoms
      PROVE  /\ HeldFor([h EXCEPT !.withdrawn = TRUE], e) = HeldFor(h, e) - Owed(h, e)
             /\ HeldFor([h EXCEPT !.refunded = TRUE], e) = HeldFor(h, e) - Owed(h, e)
  <2>1. PICK w, r : w = [h EXCEPT !.withdrawn = TRUE] /\ r = [h EXCEPT !.refunded = TRUE]
    OBVIOUS
  <2>2. /\ w.withdrawn = TRUE /\ r.refunded = TRUE
        /\ w.amount = h.amount /\ w.denom = h.denom /\ w.swapOut = h.swapOut
        /\ w.swapDenom = h.swapDenom
        /\ r.amount = h.amount /\ r.denom = h.denom /\ r.swapOut = h.swapOut
        /\ r.swapDenom = h.swapDenom
    BY <2>1 DEF Htlc
  <2>3. /\ Owed(w, e) = 0 /\ SwappedAway(w, e) = SwappedAway(h, e)
        /\ SwappedIn(w, e) = SwappedIn(h, e)
        /\ Owed(r, e) = 0 /\ SwappedAway(r, e) = SwappedAway(h, e)
        /\ SwappedIn(r, e) = SwappedIn(h, e)
    BY <2>2 DEF Owed, SwappedAway, SwappedIn
  <2>4. QED BY <2>1, <2>3, TermsAreNumbers DEF HeldFor
<1>5. ASSUME NEW i \in Ids, NEW s \in Secrets, Withdraw(i, s)
      PROVE  Explained
  <2>1. PICK h : h = [htlcs[i] EXCEPT !.withdrawn = TRUE]
    OBVIOUS
  <2>2. htlcs[i] \in Htlc /\ htlcs[i].receiver \in Accounts /\ IsOpen(i)
    BY <1>5, StoredIsHtlc DEF Withdraw
  <2>3. h \in Htlc /\ htlcs' = [htlcs EXCEPT ![i] = h]
    BY <1>5, <2>1, <2>2, SettledTypes DEF Withdraw
  <2>4. \A e \in Denoms : HeldFor(h, e) = HeldFor(htlcs[i], e) - Owed(htlcs[i], e)
    BY <1>4, <2>1, <2>2 DEF IsOpen
  <2>5. QED BY <1>3, <1>5, <2>2, <2>3, <2>4 DEF Withdraw
<1>6. ASSUME NEW i \in Ids, NEW a \in Accounts, Refund(a, i)
      PROVE  Explained
  <2>1. PICK h : h = [htlcs[i] EXCEPT !.refunded = TRUE]
    OBVIOUS
  <2>2. htlcs[i] \in Htlc /\ htlcs[i].sender \in Accounts /\ IsOpen(i)
    BY <1>6, StoredIsHtlc DEF Refund
  <2>3. h \in Htlc /\ htlcs' = [htlcs EXCEPT ![i] = h]
    BY <1>6, <2>1, <2>2, SettledTypes DEF Refund
  <2>4. \A e \in Denoms : HeldFor(h, e) = HeldFor(htlcs[i], e) - Owed(htlcs[i], e)
    BY <1>4, <2>1, <2>2 DEF IsOpen
  <2>5. QED BY <1>3, <1>6, <2>2, <2>3, <2>4 DEF Refund
\* A swap takes the deposit out and brings its output in, once.
<1>7. ASSUME NEW i \in Ids, NEW a \in Accounts, NEW out \in Amounts, NEW min \in Amounts,
             NEW d \in Denoms, d # htlcs[i].denom, ExecuteSwapAndLock(a, i, out, min, d)
      PROVE  Explained
  <2>1. PICK h : h = [htlcs[i] EXCEPT !.swapOut = out, !.swapMin = min, !.swapDenom = d]
    OBVIOUS
  <2>2. /\ htlcs[i] \in Htlc /\ htlcs[i].swapOut = NoSwap
        /\ htlcs[i].denom \in Denoms /\ htlcs[i].amount \in Nat
        /\ out \in Nat /\ out # NoSwap /\ min \in Nat
    BY <1>7, StoredIsHtlc, CosmosAssumption DEF ExecuteSwapAndLock, SwapExecuted, NoSwap
  <2>3. h \in Htlc /\ htlcs' = [htlcs EXCEPT ![i] = h]
    BY <1>7, <2>1, <2>2, SwappedTypes DEF ExecuteSwapAndLock
  <2>4. /\ h.swapOut = out /\ h.swapDenom = d /\ h.amount = htlcs[i].amount
        /\ h.denom = htlcs[i].denom /\ h.withdrawn = htlcs[i].withdrawn
        /\ h.refunded = htlcs[i].refunded
    BY <2>1, <2>2 DEF Htlc
  <2>5. \A e \in Denoms :
           /\ Owed(h, e) = Owed(htlcs[i], e)
           /\ SwappedAway(h, e) = (IF e = htlcs[i].denom THEN htlcs[i].amount ELSE 0)
           /\ SwappedAway(htlcs[i], e) = 0
           /\ SwappedIn(h, e) = (IF e = d THEN out ELSE 0)
           /\ SwappedIn(htlcs[i], e) = 0
    BY <2>2, <2>4 DEF Owed, SwappedAway, SwappedIn
  <2>6. \A e \in Denoms :
           bank'[e] = bank[e] - (IF e = htlcs[i].denom THEN htlcs[i].amount ELSE 0)
                              + (IF e = d THEN out ELSE 0)
    BY <1>0, <1>7, <2>2 DEF ExecuteSwapAndLock
  <2>7. SUFFICES ASSUME NEW e \in Denoms PROVE bank'[e] = Held(e)'
    OBVIOUS
  <2>8. Held(e) \in Int /\ Held(e)' = Held(e) - HeldFor(htlcs[i], e) + HeldFor(h, e)
    BY <2>3, <2>7, HeldWithChanged
  <2>9. Owed(htlcs[i], e) \in Int
    BY <2>2, TermsAreNumbers
  <2>10. /\ HeldFor(htlcs[i], e) = Owed(htlcs[i], e)
         /\ HeldFor(h, e) = Owed(htlcs[i], e)
               - (IF e = htlcs[i].denom THEN htlcs[i].amount ELSE 0)
               + (IF e = d THEN out ELSE 0)
    BY <2>2, <2>5, <2>7, <2>9 DEF HeldFor
  <2>11. QED BY <1>0, <2>2, <2>6, <2>7, <2>8, <2>9, <2>10
<1>8. CASE Create
  <2>1. PICK a \in Accounts, r \in Accounts, d \in Denoms, n \in Amounts, h \in Secrets,
             t \in now .. now + MaxTimelock + 1 :
                \/ CreateHtlc(a, r, d, n, h, t)
                \/ \E min, estimate \in Amounts :
                      CreateHtlcWithSwap(a, r, d, n, h, t, min, estimate)
    BY <1>8 DEF Create
  <2>2. CASE CreateHtlc(a, r, d, n, h, t)
    BY <1>2, <2>2 DEF CreateHtlc
  <2>3. ASSUME NEW min \in Amounts, NEW estimate \in Amounts,
               CreateHtlcWithSwap(a, r, d, n, h, t, min, estimate)
        PROVE  Explained
    BY <1>2, <2>3 DEF CreateHtlcWithSwap
  <2>4. QED BY <2>1, <2>2, <2>3
<1>9. QED
  BY <1>1, <1>5, <1>6, <1>7, <1>8 DEF Next, vars, Tick

\* Up to the swaps the contract holds in each denomination exactly what its
\* open HTLCs are owed: no HTLC is paid twice, and each is swapped at most once.
THEOREM BalanceAccountedFor == Spec => []BalanceExplained
BY InitTypeOK, NextTypeOK, InitBalance, NextBalance, PTL DEF Spec
-----------------------------------------------------------------------------
(* Refinement.  The sets of the abstract lock are images of these under     *)
(* LockOf.                                                                  *)
OpenIds == {j \in Ids : IsOpen(j)}
WithdrawnIds == {j \in Ids : htlcs[j].withdrawn}
RefundedIds == {j \in Ids : htlcs[j].refunded}
Locks(S) == {LockOf(i) : i \in S}

\* What a step that rewrites HTLC i with the same timelock means for the locks.
LEMMA SameTimelock ==
    ASSUME TypeOK, NEW i \in Ids, NEW h \in Htlc, htlcs' = [htlcs EXCEPT ![i] = h],
           h.timelock = htlcs[i].timelock, NEW S \in SUBSET Ids
    PROVE  {LockOf(j)' : j \in S} = Locks(S)
<1>1. htlcs'[i] = h /\ \A j \in Ids \ {i} : htlcs'[j] = htlcs[j]
  BY UpdateKeeps
<1>2. \A j \in S : LockOf(j)' = LockOf(j)
  BY <1>1 DEF LockOf
<1>3. QED BY <1>2 DEF Locks

LEMMA SettleStep ==
    ASSUME TypeOK, NEW i \in OpenIds, NEW h \in Htlc, htlcs' = [htlcs EXCEPT ![i] = h],
           h.timelock = htlcs[i].timelock, h.withdrawn # h.refunded, UNCHANGED now,
           h.refunded => now >= h.timelock
    PROVE  \E l \in Locks(OpenIds) :
              IF h.withdrawn THEN Abstract!Claim(l) ELSE Abstract!TakeBack(l)
<1>0. PICK l : l = LockOf(i)
  OBVIOUS
<1>1. i \in Ids /\ ~htlcs[i].withdrawn /\ ~htlcs[i].refunded
  BY DEF OpenIds, IsOpen
<1>2. h.withdrawn \in BOOLEAN /\ h.refunded \in BOOLEAN
  BY DEF Htlc
<1>3. Ids' = Ids /\ htlcs'[i] = h /\ \A j \in Ids \ {i} : htlcs'[j] = htlcs[j]
  BY <1>1, UpdateKeeps
<1>4. OpenIds' = OpenIds \ {i}
  BY <1>1, <1>2, <1>3 DEF OpenIds, IsOpen
<1>5. /\ WithdrawnIds' = IF h.withdrawn THEN WithdrawnIds \cup {i} ELSE WithdrawnIds
      /\ RefundedIds' = IF h.refunded THEN RefundedIds \cup {i} ELSE RefundedIds
  BY <1>1, <1>2, <1>3 DEF WithdrawnIds, RefundedIds
<1>6. \A S \in SUBSET Ids : {LockOf(j)' : j \in S} = Locks(S)
  BY <1>1, SameTimelock
<1>7. /\ Locks(OpenIds)' = Locks(OpenIds \ {i})
      /\ Locks(WithdrawnIds)' = Locks(IF h.withdrawn THEN WithdrawnIds \cup {i} ELSE WithdrawnIds)
      /\ Locks(RefundedIds)' = Locks(IF h.refunded THEN RefundedIds \cup {i} ELSE RefundedIds)
  BY <1>1, <1>4, <1>5, <1>6 DEF Locks, OpenIds, WithdrawnIds, RefundedIds
<1>8. Locks(OpenIds \ {i}) = Locks(OpenIds) \ {l}
  BY <1>0 DEF Locks, LockOf
<1>9. l \in Locks(OpenIds) /\ l.deadline = h.timelock
  BY <1>0 DEF Locks, LockOf
<1>10. CASE h.withdrawn
  <2>1. ~h.refunded
    BY <1>2, <1>10
  <2>2. Locks(WithdrawnIds)' = Locks(WithdrawnIds) \cup {l}
    BY <1>0, <1>7, <1>10 DEF Locks
  <2>3. Abstract!Claim(l)
    BY <1>7, <1>8, <1>9, <1>10, <2>1, <2>2
    DEF Abstract!Claim, Locks, OpenIds, WithdrawnIds, RefundedIds
  <2>4. QED BY <1>9, <1>10, <2>3
<1>11. CASE ~h.withdrawn
  <2>1. h.refunded
    BY <1>2, <1>11
  <2>2. Locks(RefundedIds)' = Locks(RefundedIds) \cup {l}
    BY <1>0, <1>7, <2>1 DEF Locks
  <2>3. Abstract!TakeBack(l)
    BY <1>7, <1>8, <1>9, <1>11, <2>1, <2>2
    DEF Abstract!TakeBack, Locks, OpenIds, WithdrawnIds, RefundedIds
  <2>4. QED BY <1>9, <1>11, <2>3
<1>12. QED BY <1>10, <1>11

LEMMA LockStep ==
    ASSUME TypeOK, NEW h \in Htlc, Save(h), ~h.withdrawn, ~h.refunded,
           now < h.timelock, UNCHANGED now
    PROVE  \E l \in Locks(OpenIds)' \ Locks(OpenIds) : Abstract!Lock(l)
<1>0. PICK n : n = Len(htlcs) + 1
  OBVIOUS
<1> DEFINE l == [id |-> n, deadline |-> h.timelock]
<1>1. /\ Ids = 1 .. Len(htlcs) /\ Ids' = Ids \cup {n} /\ n \notin Ids
      /\ htlcs'[n] = h /\ \A i \in Ids : htlcs'[i] = htlcs[i]
  <2>1. Len(htlcs) \in Nat
    BY DEF TypeOK
  <2>2. QED BY <1>0, <2>1, SaveAppends
<1>2. OpenIds' = OpenIds \cup {n} /\ WithdrawnIds' = WithdrawnIds /\ RefundedIds' = RefundedIds
  BY <1>1 DEF OpenIds, WithdrawnIds, RefundedIds, IsOpen
<1>3. LockOf(n)' = l /\ \A i \in Ids : LockOf(i)' = LockOf(i)
  BY <1>1 DEF LockOf
<1>4. /\ Locks(OpenIds)' = Locks(OpenIds) \cup {l}
      /\ Locks(WithdrawnIds)' = Locks(WithdrawnIds)
      /\ Locks(RefundedIds)' = Locks(RefundedIds)
  BY <1>2, <1>3 DEF Locks, OpenIds, WithdrawnIds, RefundedIds
<1>5. \A k \in Locks(OpenIds) \cup Locks(WithdrawnIds) \cup Locks(RefundedIds) : k.id # n
  BY <1>1 DEF Locks, LockOf, OpenIds, WithdrawnIds, RefundedIds
<1>6. l.id = n /\ l.deadline > now
  BY DEF TypeOK, Htlc
<1>7. Abstract!Lock(l)
  BY <1>4, <1>5, <1>6 DEF Abstract!Lock, Locks, OpenIds, WithdrawnIds, RefundedIds
<1>8. QED BY <1>4, <1>5, <1>6, <1>7

LEMMA SwapStep ==
    ASSUME TypeOK, NEW i \in Ids, NEW h \in Htlc, htlcs' = [htlcs EXCEPT ![i] = h],
           h.timelock = htlcs[i].timelock, h.withdrawn = htlcs[i].withdrawn,
           h.refunded = htlcs[i].refunded, UNCHANGED now
    PROVE  UNCHANGED Abstract!lockVars
<1>1. Ids' = Ids /\ htlcs'[i] = h /\ \A j \in Ids \ {i} : htlcs'[j] = htlcs[j]
  BY UpdateKeeps
<1>2. OpenIds' = OpenIds /\ WithdrawnIds' = WithdrawnIds /\ RefundedIds' = RefundedIds
  BY <1>1 DEF OpenIds, WithdrawnIds, RefundedIds, IsOpen
<1>3. \A S \in SUBSET Ids : {LockOf(j)' : j \in S} = Locks(S)
  BY SameTimelock
<1>4. /\ Locks(OpenIds)' = Locks(OpenIds)
      /\ Locks(WithdrawnIds)' = Locks(WithdrawnIds)
      /\ Locks(RefundedIds)' = Locks(RefundedIds)
  BY <1>2, <1>3 DEF Locks, OpenIds, WithdrawnIds, RefundedIds
<1>5. QED BY <1>4 DEF Abstract!lockVars, Locks, OpenIds, WithdrawnIds, RefundedIds

LEMMA ResolveStep ==
    ASSUME NEW l \in Locks(OpenIds), Abstract!Claim(l) \/ Abstract!TakeBack(l)
    PROVE  Abstract!LockNext
BY DEF Abstract!LockNext, Locks, OpenIds

LEMMA StepRefines == TypeOK /\ [Next]_vars => [Abstract!LockNext]_Abstract!lockVars
<1> SUFFICES ASSUME TypeOK, [Next]_vars
             PROVE  Abstract!LockNext \/ UNCHANGED Abstract!lockVars
  OBVIOUS
<1>1. CASE UNCHANGED vars
  BY <1>1 DEF vars, Abstract!lockVars, Ids, IsOpen, LockOf
<1>2. ASSUME NEW a \in Accounts, NEW r \in Accounts, NEW d \in Denoms, NEW n \in Amounts,
             NEW s \in Secrets, NEW t \in now .. now + MaxTimelock + 1,
             NEW min \in Amounts \cup {NoSwap},
             ValidTimelock(t), Save(NewHtlc(a, r, d, n, s, t, min)), UNCHANGED now
      PROVE  Abstract!LockNext
  <2> DEFINE h == NewHtlc(a, r, d, n, s, t, min)
  <2>1. n \in Nat /\ min \in Nat /\ t \in Nat /\ now < t
    BY <1>2, CosmosAssumption DEF NoSwap, TypeOK, ValidTimelock
  <2>2. h \in Htlc
    BY <2>1 DEF NewHtlc, Htlc, NoSwap
  <2>3. ~h.withdrawn /\ ~h.refunded /\ h.timelock = t
    BY DEF NewHtlc
  <2>4. \E l \in Locks(OpenIds)' \ Locks(OpenIds) : Abstract!Lock(l)
    BY <1>2, <2>1, <2>2, <2>3, LockStep
  <2>5. QED BY <2>4 DEF Abstract!LockNext, Locks, OpenIds
<1>3. CASE Create
  <2>1. PICK a \in Accounts, r \in Accounts, d \in Denoms, n \in Amounts, s \in Secrets,
             t \in now .. now + MaxTimelock + 1 :
                \/ CreateHtlc(a, r, d, n, s, t)
                \/ \E min, estimate \in Amounts :
                      CreateHtlcWithSwap(a, r, d, n, s, t, min, estimate)
    BY <1>3 DEF Create
  <2>2. CASE CreateHtlc(a, r, d, n, s, t)
    BY <1>2, <2>2 DEF CreateHtlc
  <2>3. ASSUME NEW min \in Amounts, NEW estimate \in Amounts,
               CreateHtlcWithSwap(a, r, d, n, s, t, min, estimate)
        PROVE  Abstract!LockNext
    BY <1>2, <2>3 DEF CreateHtlcWithSwap
  <2>4. QED BY <2>1, <2>2, <2>3
<1>4. ASSUME NEW i \in Ids, NEW s \in Secrets, Withdraw(i, s)
      PROVE  Abstract!LockNext
  <2> DEFINE h == [htlcs[i] EXCEPT !.withdrawn = TRUE]
  <2>1. i \in OpenIds /\ htlcs' = [htlcs EXCEPT ![i] = h] /\ UNCHANGED now
    BY <1>4 DEF Withdraw, OpenIds
  <2>2. htlcs[i] \in Htlc /\ h \in Htlc
    BY StoredIsHtlc, SettledTypes
  <2>3. h.withdrawn /\ ~h.refunded /\ h.timelock = htlcs[i].timelock
    BY <1>4, <2>2 DEF Htlc, Withdraw, IsOpen
  <2> HIDE DEF h
  <2>4. \E l \in Locks(OpenIds) : Abstract!Claim(l)
    BY <2>1, <2>2, <2>3, SettleStep
  <2>5. QED BY <2>4, ResolveStep
<1>5. ASSUME NEW i \in Ids, NEW a \in Accounts, Refund(a, i)
      PROVE  Abstract!LockNext
  <2> DEFINE h == [htlcs[i] EXCEPT !.refunded = TRUE]
  <2>1. i \in OpenIds /\ htlcs' = [htlcs EXCEPT ![i] = h] /\ UNCHANGED now
    BY <1>5 DEF Refund, OpenIds
  <2>2. htlcs[i] \in Htlc /\ h \in Htlc
    BY StoredIsHtlc, SettledTypes
  <2>3. ~h.withdrawn /\ h.refunded /\ h.timelock = htlcs[i].timelock /\ now >= h.timelock
    BY <1>5, <2>2 DEF Htlc, Refund, IsOpen
  <2> HIDE DEF h
  <2>4. \E l \in Locks(OpenIds) : Abstract!TakeBack(l)
    BY <2>1, <2>2, <2>3, SettleStep
  <2>5. QED BY <2>4, ResolveStep
<1>6. ASSUME NEW i \in Ids, NEW a \in Accounts, NEW out \in Amounts, NEW min \in Amounts,
             NEW d \in Denoms, ExecuteSwapAndLock(a, i, out, min, d)
      PROVE  UNCHANGED Abstract!lockVars
  <2> DEFINE h == [htlcs[i] EXCEPT !.swapOut = out, !.swapMin = min, !.swapDenom = d]
  <2>1. htlcs' = [htlcs EXCEPT ![i] = h] /\ UNCHANGED now
    BY <1>6 DEF ExecuteSwapAndLock
  <2>2. out \in Nat /\ min \in Nat
    BY CosmosAssumption
  <2>3. htlcs[i] \in Htlc /\ h \in Htlc
    BY <2>2, StoredIsHtlc, SwappedTypes
  <2>4. /\ h.withdrawn = htlcs[i].withdrawn /\ h.refunded = htlcs[i].refunded
        /\ h.timelock = htlcs[i].timelock
    BY <2>3 DEF Htlc
  <2> HIDE DEF h
  <2>5. QED BY <2>1, <2>3, <2>4, SwapStep
<1>7. CASE Tick
  BY <1>7 DEF Tick, TypeOK, Abstract!LockNext, Abstract!TimePasses, Ids, IsOpen, LockOf
<1>8. QED
  BY <1>1, <1>3, <1>4, <1>5, <1>6, <1>7 DEF Next

\* The contract implements the abstract hash time lock.
THEOREM ContractIsHashTimeLock == Spec => ImplementsHashTimeLock
<1>1. Init => Abstract!LockInit
  BY DEF Init, Abstract!LockInit, Ids
<1>2. QED
  BY <1>1, InitTypeOK, NextTypeOK, StepRefines, PTL
  DEF Spec, ImplementsHashTimeLock, Abstract!LockSpec
=============================================================================
