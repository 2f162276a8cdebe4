------------------------- MODULE PersistenceProofs --------------------------
(***************************************************************************)
(* The stores of the relayer: the manager that connects to them, the writes*)
(* to two of them at once, and the jobs that archive rows, for every number*)
(* of calls, failures, rows and jobs.                                      *)
(***************************************************************************)
EXTENDS PersistenceManager, HybridPersistence, ArchivalManager, FiniteSums, FunctionTheorems

-----------------------------------------------------------------------------
(* The manager of the store.                                                *)

Answers == {"ok", "out", "failed"}
Trying(tries) == {i \in DOMAIN tries : ~Rejected(tries[i])}

ManagerInv ==
    /\ mode \in {"postgres", "redis", "hybrid"} /\ heard \in BOOLEAN
    /\ phase \in {"new", "open", "closing", "closed"}
    /\ attempts \in Seq([Stores -> Answers])
    /\ storeRetries \in Nat /\ storeRetries <= MaxStoreRetries
    /\ retryTimers \in Nat /\ intervals \in Nat /\ (named => intervals > 0)
    /\ phase = "new" => /\ attempts = << >> /\ intervals = 0 /\ retryTimers = 0
                        /\ redis = "wait"
    /\ KeepsTrying

LEMMA TryingIsFinite ==
    ASSUME NEW S, NEW tries \in Seq(S)
    PROVE  IsFiniteSet(Trying(tries)) /\ Cardinality(Trying(tries)) \in Nat
<1>1. DOMAIN tries = 1 .. Len(tries) /\ Len(tries) \in Nat
  OBVIOUS
<1>2. IsFiniteSet(1 .. Len(tries))
  BY <1>1, FS_Interval
<1>3. Trying(tries) \in SUBSET (1 .. Len(tries))
  BY <1>1 DEF Trying
<1>4. QED BY <1>2, <1>3, FS_Subset, FS_CardinalityType

\* An attempt more.
LEMMA TryingOneMore ==
    ASSUME NEW S, NEW tries \in Seq(S), NEW a \in S, ~Rejected(a)
    PROVE  Cardinality(Trying(Append(tries, a))) = Cardinality(Trying(tries)) + 1
<1> DEFINE n == Len(tries) + 1
           bs == Append(tries, a)
<1>1. /\ Len(tries) \in Nat /\ DOMAIN tries = 1 .. Len(tries) /\ DOMAIN bs = 1 .. n /\ bs[n] = a
      /\ \A i \in DOMAIN tries : bs[i] = tries[i]
  OBVIOUS
<1>2. DOMAIN bs = DOMAIN tries \cup {n} /\ n \notin DOMAIN tries
  BY <1>1
<1> HIDE DEF n, bs
<1>3. Trying(bs) = Trying(tries) \cup {n} /\ n \notin Trying(tries)
  BY <1>1, <1>2 DEF Trying
<1>4. Cardinality(Trying(bs)) = Cardinality(Trying(tries)) + 1
  BY <1>3, TryingIsFinite, FS_AddElement
<1>5. QED BY <1>4 DEF bs

\* The attempts without the i-th.
Without(tries, i) == SubSeq(tries, 1, i - 1) \o SubSeq(tries, i + 1, Len(tries))

LEMMA SecondPart ==
    ASSUME NEW S, NEW f \in Seq(S), NEW g \in Seq(S), NEW j \in Len(f) + 1 .. Len(f) + Len(g)
    PROVE  (f \o g)[j] = g[j - Len(f)]
OBVIOUS

LEMMA WithoutIs ==
    ASSUME NEW S, NEW tries \in Seq(S), NEW i \in DOMAIN tries
    PROVE  /\ Without(tries, i) \in Seq(S)
           /\ DOMAIN Without(tries, i) = 1 .. Len(tries) - 1
           /\ \A j \in 1 .. Len(tries) - 1 : j < i => Without(tries, i)[j] = tries[j]
           /\ \A j \in 1 .. Len(tries) - 1 : j >= i => Without(tries, i)[j] = tries[j + 1]
<1>1. Len(tries) \in Nat /\ i \in 1 .. Len(tries) /\ i \in Int
  OBVIOUS
<1> DEFINE front == SubSeq(tries, 1, i - 1)
           rest == SubSeq(tries, i + 1, Len(tries))
<1>2. /\ front \in Seq(S) /\ Len(front) = i - 1
      /\ \A j \in 1 .. i - 1 : front[j] = tries[j]
  BY <1>1
<1>3. /\ rest \in Seq(S) /\ Len(rest) = Len(tries) - i
      /\ \A j \in 1 .. Len(tries) - i : rest[j] = tries[i + j]
  BY <1>1
<1> HIDE DEF front, rest
<1>4. front \o rest \in Seq(S) /\ Len(front \o rest) = Len(tries) - 1
  BY <1>1, <1>2, <1>3
<1>5. \A j \in 1 .. Len(tries) - 1 : j < i => (front \o rest)[j] = tries[j]
  BY <1>1, <1>2, <1>3
<1>6. ASSUME NEW j \in 1 .. Len(tries) - 1, j >= i
      PROVE  (front \o rest)[j] = tries[j + 1]
  <2>1. (front \o rest)[j] = rest[j - Len(front)]
    <3>1. j \in Len(front) + 1 .. Len(front) + Len(rest)
      <4>1. PICK n, a, b : n = Len(tries) /\ a = Len(front) /\ b = Len(rest)
        OBVIOUS
      <4>2. n \in Nat /\ i \in Int /\ a = i - 1 /\ b = n - i
        BY <1>1, <1>2, <1>3, <4>1
      <4>3. j \in 1 .. n - 1 /\ j >= i
        BY <1>6, <4>1
      <4>4. j \in a + 1 .. a + b
        BY <4>2, <4>3
      <4>5. QED BY <4>1, <4>4
    <3>2. QED BY <1>2, <1>3, <3>1, SecondPart
  <2>2. j - (i - 1) \in 1 .. Len(tries) - i /\ i + (j - (i - 1)) = j + 1
    BY <1>1, <1>6
  <2>3. QED BY <2>1, <2>2, <1>2, <1>3
<1>7. DOMAIN (front \o rest) = 1 .. Len(tries) - 1
  BY <1>4
<1>8. QED BY <1>4, <1>5, <1>6, <1>7 DEF Without, front, rest

LEMMA TryingWithout ==
    ASSUME NEW S, NEW tries \in Seq(S), NEW i \in DOMAIN tries
    PROVE  Cardinality(Trying(Without(tries, i))) = Cardinality(Trying(tries) \ {i})
<1> DEFINE bs == Without(tries, i)
           place(j) == IF j < i THEN j ELSE j + 1
           f == [j \in Trying(bs) |-> place(j)]
<1>1. /\ bs \in Seq(S) /\ DOMAIN bs = 1 .. Len(tries) - 1
      /\ \A j \in DOMAIN bs : bs[j] = tries[place(j)]
  <2>1. /\ bs \in Seq(S) /\ DOMAIN bs = 1 .. Len(tries) - 1
        /\ \A j \in 1 .. Len(tries) - 1 : j < i => bs[j] = tries[j]
        /\ \A j \in 1 .. Len(tries) - 1 : j >= i => bs[j] = tries[j + 1]
    BY WithoutIs
  <2>2. Len(tries) \in Nat /\ i \in Int
    OBVIOUS
  <2> HIDE DEF bs
  <2>3. \A j \in DOMAIN bs : j < i \/ (~(j < i) /\ j >= i)
    BY <2>1, <2>2
  <2>4. QED BY <2>1, <2>3
<1>2. Len(tries) \in Nat /\ DOMAIN tries = 1 .. Len(tries) /\ i \in 1 .. Len(tries)
  OBVIOUS
<1> HIDE DEF bs
<1>3. f \in [Trying(bs) -> Trying(tries) \ {i}]
  BY <1>1, <1>2 DEF Trying
<1>4. \A j, k \in Trying(bs) : f[j] = f[k] => j = k
  BY <1>1, <1>2 DEF Trying
<1>5. ASSUME NEW k \in Trying(tries) \ {i}
      PROVE  \E j \in Trying(bs) : f[j] = k
  <2>1. k \in 1 .. Len(tries) /\ k # i /\ ~Rejected(tries[k])
    BY <1>2 DEF Trying
  <2>2. CASE k < i
    <3>1. k \in DOMAIN bs /\ bs[k] = tries[k]
      BY <1>1, <1>2, <2>1, <2>2
    <3>2. k \in Trying(bs)
      BY <3>1, <2>1 DEF Trying
    <3>3. QED BY <3>2, <2>2
  <2>3. CASE k > i
    <3>1. k - 1 \in DOMAIN bs /\ ~(k - 1 < i) /\ (k - 1) + 1 = k
      BY <1>1, <1>2, <2>1, <2>3
    <3>2. bs[k - 1] = tries[k]
      BY <1>1, <3>1
    <3>3. k - 1 \in Trying(bs)
      BY <3>1, <3>2, <2>1 DEF Trying
    <3>4. QED BY <3>1, <3>3
  <2>4. QED BY <2>1, <2>2, <2>3, <1>2
<1>6. f \in Bijection(Trying(bs), Trying(tries) \ {i})
  BY <1>3, <1>4, <1>5, Fun_IsBij
<1>7. ExistsBijection(Trying(bs), Trying(tries) \ {i})
  BY <1>6 DEF ExistsBijection
<1>8. Cardinality(Trying(tries) \ {i}) = Cardinality(Trying(bs))
  BY <1>1, <1>7, TryingIsFinite, FS_Bijection
<1>9. QED BY <1>8 DEF bs

\* An attempt goes on or is over.
LEMMA TryingLess ==
    ASSUME NEW S, attempts \in Seq(S), NEW i \in DOMAIN attempts, NEW a \in S,
           AttemptBecomes(i, a)
    PROVE  /\ attempts' \in Seq(S)
           /\ Pending(a) /\ (Rejected(a) <=> Rejected(attempts[i])) =>
                Cardinality(Trying(attempts')) = Cardinality(Trying(attempts))
           /\ (~Pending(a) \/ Rejected(a)) /\ Rejected(attempts[i]) =>
                Cardinality(Trying(attempts')) = Cardinality(Trying(attempts))
           /\ (~Pending(a) \/ Rejected(a)) /\ ~Rejected(attempts[i]) =>
                Cardinality(Trying(attempts')) = Cardinality(Trying(attempts)) - 1
<1>1. IsFiniteSet(Trying(attempts)) /\ Cardinality(Trying(attempts)) \in Nat
  BY TryingIsFinite
<1>2. /\ Rejected(attempts[i]) => Trying(attempts) \ {i} = Trying(attempts)
      /\ ~Rejected(attempts[i]) =>
           Cardinality(Trying(attempts) \ {i}) = Cardinality(Trying(attempts)) - 1
  <2>1. Rejected(attempts[i]) => Trying(attempts) \ {i} = Trying(attempts)
    BY DEF Trying
  <2>2. ~Rejected(attempts[i]) => i \in Trying(attempts)
    BY DEF Trying
  <2>3. QED BY <2>1, <2>2, <1>1, FS_RemoveElement
<1>3. CASE Pending(a)
  <2>1. PICK bs : bs = attempts' /\ bs = [attempts EXCEPT ![i] = a]
    BY <1>3 DEF AttemptBecomes
  <2>2. bs \in Seq(S)
    BY <2>1
  <2>3. Rejected(a) => Trying(bs) = Trying(attempts) \ {i}
    BY <2>1 DEF Trying
  <2>4. (Rejected(a) <=> Rejected(attempts[i])) => Trying(bs) = Trying(attempts)
    BY <2>1 DEF Trying
  <2>5. QED BY <2>1, <2>2, <2>3, <2>4, <1>2, <1>3
<1>4. CASE ~Pending(a)
  <2>1. PICK bs : bs = attempts' /\ bs = Without(attempts, i)
    BY <1>4 DEF AttemptBecomes, Without
  <2>2. bs \in Seq(S) /\ Cardinality(Trying(bs)) = Cardinality(Trying(attempts) \ {i})
    BY <2>1, WithoutIs, TryingWithout
  <2>3. QED BY <2>1, <2>2, <1>2, <1>4
<1>5. QED BY <1>3, <1>4

\* An attempt that was refused at once adds none.
LEMMA TryingNoMore ==
    ASSUME NEW S, NEW tries \in Seq(S), NEW a \in S, Rejected(a)
    PROVE  Trying(Append(tries, a)) = Trying(tries)
<1> DEFINE n == Len(tries) + 1
           more == Append(tries, a)
<1>1. /\ Len(tries) \in Nat /\ DOMAIN tries = 1 .. Len(tries) /\ DOMAIN more = 1 .. n
      /\ more[n] = a /\ \A i \in DOMAIN tries : more[i] = tries[i]
  OBVIOUS
<1>2. DOMAIN more = DOMAIN tries \cup {n} /\ n \notin DOMAIN tries
  BY <1>1
<1> HIDE DEF n, more
<1>3. Trying(more) = Trying(tries)
  BY <1>1, <1>2 DEF Trying
<1>4. QED BY <1>3 DEF more

LEMMA RetriesScheduled ==
    ASSUME ManagerInv, NEW t \in Nat, NEW n \in Nat, ScheduleRetries(t, n)
    PROVE  \E k \in Nat, retries \in Nat, ticking \in Nat :
               /\ k <= n
               /\ storeRetries' = retries /\ retries = storeRetries + k /\ retries <= MaxStoreRetries
               /\ retryTimers' = ticking /\ ticking = t + k
               /\ n > 0 => k > 0 \/ retries = MaxStoreRetries
<1>1. storeRetries \in Nat /\ storeRetries <= MaxStoreRetries /\ MaxStoreRetries \in Nat
  BY PersistenceManagerAssumption DEF ManagerInv
<1>2. PICK k : /\ k = (IF n < MaxStoreRetries - storeRetries THEN n ELSE MaxStoreRetries - storeRetries)
               /\ storeRetries' = storeRetries + k /\ retryTimers' = t + k
  BY DEF ScheduleRetries
<1>3. k \in Nat /\ k <= n /\ storeRetries + k <= MaxStoreRetries
      /\ (n > 0 => k > 0 \/ storeRetries + k = MaxStoreRetries)
  BY <1>1, <1>2
<1>4. storeRetries + k \in Nat /\ t + k \in Nat
  BY <1>1, <1>3
<1>5. QED BY <1>2, <1>3, <1>4

LEMMA RetriesOfFailure ==
    ASSUME ManagerInv, NEW a
    PROVE  /\ FailureRetries(a) \in Nat
           /\ ~Rejected(a) => FailureRetries(a) > 0
           /\ ~heard => FailureRetries(a) <= 1
           /\ ~heard /\ Rejected(a) => FailureRetries(a) = 0
<1>1. CASE Rejected(a) /\ heard
  <2>1. FailureRetries(a) = 1
    BY <1>1, Zenon DEF FailureRetries
  <2>2. QED BY <2>1, <1>1
<1>2. CASE Rejected(a) /\ ~heard
  <2>1. FailureRetries(a) = 0
    BY <1>2, Zenon DEF FailureRetries
  <2>2. QED BY <2>1, <1>2
<1>3. CASE ~Rejected(a) /\ ~heard
  <2>1. FailureRetries(a) = 1 + 0
    BY <1>3, Zenon DEF FailureRetries
  <2>2. QED BY <2>1, <1>3
<1>4. CASE ~Rejected(a) /\ heard
  <2>1. FailureRetries(a) = 1 + 2 \/ FailureRetries(a) = 1 + 1
    BY <1>4, Zenon DEF FailureRetries
  <2>2. QED BY <2>1, <1>4
<1>5. QED BY <1>1, <1>2, <1>3, <1>4

\* What the manager does about its store is enough, and no more than that where
\* nobody hears its errors.
Enough == intervals + retryTimers + Cardinality(Trying(attempts)) > 0 \/ storeRetries = MaxStoreRetries
Single == heard \/ intervals + retryTimers + Cardinality(Trying(attempts)) <= 1

LEMMA KeepsTryingIs == KeepsTrying <=> (up /\ phase = "open" => Enough /\ Single)
<1>1. Trying(attempts) = {i \in DOMAIN attempts : ~Rejected(attempts[i])}
  BY DEF Trying
<1>2. QED BY <1>1 DEF KeepsTrying, Enough, Single

\* The numbers change together.
LEMMA EffortsAdd ==
    ASSUME NEW i \in Nat, NEW r \in Nat, NEW c \in Nat, NEW t \in Nat, NEW d \in Nat,
           NEW k \in Nat, NEW lost \in Nat, t + d + lost = r + c + k, lost <= 1
    PROVE  /\ i + r + c <= 1 /\ k <= lost => i + t + d <= 1
           /\ i + r + c > 0 /\ lost = 0 => i + t + d > 0
           /\ t + d > 0 => i + t + d > 0
  OBVIOUS

\* What is done is enough still, and not more.
LEMMA StillTrying ==
    ASSUME ManagerInv, up, NEW k \in Nat, NEW lost \in Nat,
           UNCHANGED <<mode, heard>>, phase' = phase, phase # "new",
           attempts' \in Seq([Stores -> Answers]),
           UNCHANGED <<intervals, named>>,
           NEW retries \in Nat, storeRetries' = retries, retries = storeRetries + k,
           retries <= MaxStoreRetries,
           NEW ticking \in Nat, retryTimers' = ticking,
           NEW c \in Nat, c = Cardinality(Trying(attempts)),
           NEW d \in Nat, d = Cardinality(Trying(attempts')),
           ticking + d + lost = retryTimers + c + k, lost <= 1,
           lost = 1 => ticking + d > 0 \/ retries = MaxStoreRetries,
           ~heard /\ up' => k <= lost
    PROVE  ManagerInv'
<1>1. /\ intervals \in Nat /\ retryTimers \in Nat /\ storeRetries \in Nat
      /\ storeRetries <= MaxStoreRetries /\ MaxStoreRetries \in Nat
  BY PersistenceManagerAssumption DEF ManagerInv
<1>2. phase = "open" => Enough /\ Single
  BY KeepsTryingIs DEF ManagerInv
<1>3. up' /\ phase = "open" => Enough' /\ Single'
  <2> SUFFICES ASSUME up', phase = "open" PROVE Enough' /\ Single'
    OBVIOUS
  <2>1. intervals + retryTimers + c > 0 \/ storeRetries = MaxStoreRetries
    BY <1>2 DEF Enough
  <2>2. heard \/ intervals + retryTimers + c <= 1
    BY <1>2 DEF Single
  <2>3. heard \/ k <= lost
    OBVIOUS
  <2>4. intervals + ticking + d > 0 \/ retries = MaxStoreRetries
    <3>1. lost = 0 \/ lost = 1
      OBVIOUS
    <3>2. storeRetries = MaxStoreRetries => retries = MaxStoreRetries
      BY <1>1
    <3>3. intervals + retryTimers + c > 0 /\ lost = 0 => intervals + ticking + d > 0
      BY <1>1, EffortsAdd
    <3>4. ticking + d > 0 => intervals + ticking + d > 0
      BY <1>1, EffortsAdd
    <3>5. QED BY <2>1, <3>1, <3>2, <3>3, <3>4
  <2>5. intervals + retryTimers + c <= 1 /\ k <= lost => intervals + ticking + d <= 1
    BY <1>1, EffortsAdd
  <2>6. heard \/ intervals + ticking + d <= 1
    BY <2>2, <2>3, <2>5
  <2>7. QED BY <2>4, <2>6 DEF Enough, Single
<1>4. KeepsTrying'
  <2>1. KeepsTrying' <=> (up' /\ phase' = "open" => Enough' /\ Single')
    BY DEF KeepsTrying, Enough, Single, Trying
  <2>2. QED BY <2>1, <1>3
<1>5. Stores' = Stores
  BY DEF Stores
<1>6. QED BY <1>1, <1>4, <1>5 DEF ManagerInv

\* A failure is met by a retry or by the limit, and by one retry only where nobody
\* hears it.
LEMMA FailureIsMet ==
    ASSUME ManagerInv, up, NEW i \in DOMAIN attempts, NEW s \in Stores, NEW events \in Nat,
           attempts[i][s] = "out", PartFails(i, s, events),
           UNCHANGED <<mode, heard, phase, intervals, named>>
    PROVE  ManagerInv'
<1> DEFINE a == [attempts[i] EXCEPT ![s] = "failed"]
           n == FailureRetries(attempts[i]) + (IF heard THEN events ELSE 0)
<1>1. /\ attempts \in Seq([Stores -> Answers]) /\ attempts[i] \in [Stores -> Answers]
      /\ attempts # << >>
  BY DEF ManagerInv
<1>2. phase # "new"
  BY <1>1 DEF ManagerInv
<1>3. a \in [Stores -> Answers] /\ Rejected(a)
  <2>1. a \in [Stores -> Answers] /\ a[s] = "failed"
    BY <1>1 DEF Answers
  <2>2. QED BY <2>1 DEF Rejected
<1>4. AttemptBecomes(i, a) /\ ScheduleRetries(retryTimers, n)
  BY DEF PartFails
<1>5. n \in Nat /\ (~Rejected(attempts[i]) => n > 0)
      /\ (~heard => n <= 1) /\ (~heard /\ Rejected(attempts[i]) => n = 0)
  <2>1. /\ FailureRetries(attempts[i]) \in Nat
        /\ ~Rejected(attempts[i]) => FailureRetries(attempts[i]) > 0
        /\ ~heard => FailureRetries(attempts[i]) <= 1
        /\ ~heard /\ Rejected(attempts[i]) => FailureRetries(attempts[i]) = 0
    BY RetriesOfFailure
  <2>2. CASE heard
    <3>1. n = FailureRetries(attempts[i]) + events
      BY <2>2, Zenon
    <3> HIDE DEF n
    <3>2. QED BY <2>1, <2>2, <3>1
  <2>3. CASE ~heard
    <3>1. n = FailureRetries(attempts[i]) + 0
      BY <2>3, Zenon
    <3> HIDE DEF n
    <3>2. QED BY <2>1, <2>3, <3>1
  <2>4. QED BY <2>2, <2>3
<1> HIDE DEF a, n
<1>6. PICK k \in Nat, retries \in Nat, ticking \in Nat :
          /\ k <= n
          /\ storeRetries' = retries /\ retries = storeRetries + k /\ retries <= MaxStoreRetries
          /\ retryTimers' = ticking /\ ticking = retryTimers + k
          /\ n > 0 => k > 0 \/ retries = MaxStoreRetries
  <2>1. retryTimers \in Nat
    BY DEF ManagerInv
  <2>2. QED BY <1>4, <1>5, <2>1, RetriesScheduled
<1>7. /\ attempts' \in Seq([Stores -> Answers])
      /\ Rejected(attempts[i]) => Cardinality(Trying(attempts')) = Cardinality(Trying(attempts))
      /\ ~Rejected(attempts[i]) =>
           Cardinality(Trying(attempts')) = Cardinality(Trying(attempts)) - 1
  BY <1>1, <1>3, <1>4, TryingLess
<1>8. PICK c \in Nat, d \in Nat :
          c = Cardinality(Trying(attempts)) /\ d = Cardinality(Trying(attempts'))
  BY <1>1, <1>7, TryingIsFinite
<1>9. retryTimers \in Nat
  BY DEF ManagerInv
<1>10. /\ UNCHANGED <<mode, heard>> /\ phase' = phase /\ UNCHANGED <<intervals, named>>
       /\ attempts' \in Seq([Stores -> Answers]) /\ retryTimers' = ticking
       /\ storeRetries' = retries /\ retries = storeRetries + k /\ retries <= MaxStoreRetries
  BY <1>6, <1>7
<1>11. CASE Rejected(attempts[i])
  <2>1. PICK lost \in Nat : lost = 0
    OBVIOUS
  <2>2. lost <= 1 /\ lost # 1 /\ ticking + d + lost = retryTimers + c + k
    BY <1>6, <1>7, <1>8, <1>9, <1>11, <2>1
  <2>3. ~heard => k <= lost
    BY <1>5, <1>6, <1>11, <2>1
  <2>4. QED BY <1>2, <1>8, <1>10, <2>2, <2>3, StillTrying, Zenon
<1>12. CASE ~Rejected(attempts[i])
  <2>1. PICK lost \in Nat : lost = 1
    OBVIOUS
  <2>2. lost <= 1 /\ ticking + d + lost = retryTimers + c + k
    <3>1. d = c - 1
      BY <1>7, <1>8, <1>12
    <3>2. ticking = retryTimers + k
      BY <1>6
    <3>3. PICK t : t = retryTimers /\ t \in Nat
      BY <1>9
    <3>4. QED BY <1>6, <1>8, <2>1, <3>1, <3>2, <3>3
  <2>3. ~heard => k <= lost
    BY <1>5, <1>6, <2>1
  <2>4. ticking + d > 0 \/ retries = MaxStoreRetries
    BY <1>5, <1>6, <1>8, <1>9, <1>12
  <2>5. QED BY <1>2, <1>8, <1>10, <2>2, <2>3, <2>4, StillTrying, Zenon
<1>13. QED BY <1>11, <1>12

\* An answer of a store leaves the attempt to go on, or starts an interval.
LEMMA AnswerIsMet ==
    ASSUME ManagerInv, up, up' = up, NEW i \in DOMAIN attempts, NEW s \in Stores,
           attempts[i][s] = "out", PartConnects(i, s), UNCHANGED <<mode, heard, phase>>
    PROVE  ManagerInv'
<1> DEFINE a == [attempts[i] EXCEPT ![s] = "ok"]
<1>1. /\ attempts \in Seq([Stores -> Answers]) /\ attempts[i] \in [Stores -> Answers]
      /\ attempts # << >>
  BY DEF ManagerInv
<1>2. phase # "new"
  BY <1>1 DEF ManagerInv
<1>3. a \in [Stores -> Answers] /\ (Rejected(a) <=> Rejected(attempts[i]))
  <2>1. /\ a \in [Stores -> Answers] /\ a[s] = "ok"
        /\ \A r \in Stores : r # s => a[r] = attempts[i][r]
    BY <1>1 DEF Answers
  <2>2. DOMAIN a = Stores /\ DOMAIN attempts[i] = Stores
    BY <1>1
  <2> HIDE DEF a
  <2>3. QED BY <2>1, <2>2 DEF Rejected
<1>4. AttemptBecomes(i, a)
  BY DEF PartConnects
<1>5. /\ Resolved(a) => /\ storeRetries' = 0 /\ intervals' = intervals + 1 /\ named' = TRUE
      /\ ~Resolved(a) => UNCHANGED <<storeRetries, intervals, named>>
      /\ retryTimers' = retryTimers
  BY DEF PartConnects
<1> HIDE DEF a
<1>6. /\ attempts' \in Seq([Stores -> Answers])
      /\ Pending(a) \/ Rejected(a) => Cardinality(Trying(attempts')) = Cardinality(Trying(attempts))
      /\ ~Pending(a) /\ ~Rejected(a) =>
           Cardinality(Trying(attempts')) = Cardinality(Trying(attempts)) - 1
  BY <1>1, <1>3, <1>4, TryingLess
<1>7. PICK c \in Nat, d \in Nat :
          c = Cardinality(Trying(attempts)) /\ d = Cardinality(Trying(attempts'))
  BY <1>1, <1>6, TryingIsFinite
<1>8. /\ retryTimers \in Nat /\ intervals \in Nat /\ storeRetries \in Nat
      /\ storeRetries <= MaxStoreRetries /\ MaxStoreRetries \in Nat
  BY PersistenceManagerAssumption DEF ManagerInv
<1>9. CASE ~Resolved(a)
  <2>1. Pending(a) \/ Rejected(a)
    BY <1>3, <1>9 DEF Resolved, Pending, Rejected, Answers
  <2>2. PICK none \in Nat : none = 0
    OBVIOUS
  <2>3. /\ none <= 1 /\ none # 1 /\ none <= none
        /\ retryTimers + d + none = retryTimers + c + none /\ storeRetries = storeRetries + none
    BY <2>1, <2>2, <1>6, <1>7, <1>8
  <2>4. UNCHANGED <<storeRetries, intervals, named, retryTimers>>
    BY <1>5, <1>9
  <2>5. attempts' \in Seq([Stores -> Answers])
    BY <1>6
  <2>6. QED BY <1>2, <1>7, <1>8, <2>3, <2>4, <2>5, StillTrying, Zenon
<1>10. CASE Resolved(a)
  <2>1. ~Pending(a) /\ ~Rejected(a)
    BY <1>10 DEF Resolved, Pending, Rejected
  <2>2. d + 1 = c
    BY <2>1, <1>6, <1>7
  <2>3. PICK watches \in Nat : watches = intervals' /\ watches = intervals + 1
    BY <1>5, <1>8, <1>10
  <2>4. watches + retryTimers + d > 0
    BY <1>8, <2>3
  <2>5. watches + retryTimers + d = intervals + retryTimers + c
    BY <1>8, <2>2, <2>3
  <2>6. phase = "open" => Single
    BY KeepsTryingIs DEF ManagerInv
  <2>7. up' /\ phase' = "open" => Enough' /\ Single'
    BY <1>5, <1>7, <2>3, <2>4, <2>5, <2>6 DEF Enough, Single
  <2>8. KeepsTrying'
    <3>1. KeepsTrying' <=> (up' /\ phase' = "open" => Enough' /\ Single')
      BY DEF KeepsTrying, Enough, Single, Trying
    <3>2. QED BY <3>1, <2>7
  <2>9. Stores' = Stores
    BY DEF Stores
  <2>10. intervals' \in Nat /\ intervals' > 0 /\ storeRetries' \in Nat /\ storeRetries' <= MaxStoreRetries
    BY <1>5, <1>8, <1>10, <2>3
  <2>11. QED BY <1>2, <1>5, <1>6, <1>10, <2>8, <2>9, <2>10 DEF ManagerInv
<1>11. QED BY <1>9, <1>10

\* connect() is called for a retry that was scheduled, or by the first initialize.
LEMMA ConnectIsMet ==
    ASSUME ManagerInv, up, NEW t \in Nat, ConnectProvider(t),
           \/ phase = "new" /\ phase' = "open" /\ retryTimers = t
           \/ phase # "new" /\ phase' = phase /\ retryTimers = t + 1
    PROVE  ManagerInv'
<1> DEFINE begins == [s \in Stores |-> "out"]
           refused == "redis" \in Stores /\ redis \in {"connecting", "ready"}
           begun == IF refused THEN [begins EXCEPT !["redis"] = "failed"] ELSE begins
<1>1. Stores # {} /\ Stores' = Stores
  BY DEF Stores, ConnectProvider, ManagerInv
<1>2. attempts \in Seq([Stores -> Answers])
  BY DEF ManagerInv
<1>3. /\ begins \in [Stores -> Answers] /\ Pending(begins) /\ ~Rejected(begins)
      /\ begun \in [Stores -> Answers]
      /\ refused => Rejected(begun)
  BY <1>1 DEF Answers, Pending, Rejected
<1>4. /\ attempts' = IF Pending(begun) THEN Append(attempts, begun) ELSE attempts
      /\ refused => ScheduleRetries(t, FailureRetries(begins))
      /\ ~refused => retryTimers' = t /\ UNCHANGED storeRetries
      /\ UNCHANGED <<mode, heard, up, intervals, named>>
  BY DEF ConnectProvider
<1>5. ~refused => begun = begins
  OBVIOUS
<1> HIDE DEF begins, refused, begun
<1>6. /\ attempts' \in Seq([Stores -> Answers])
      /\ refused => Cardinality(Trying(attempts')) = Cardinality(Trying(attempts))
      /\ ~refused => Cardinality(Trying(attempts')) = Cardinality(Trying(attempts)) + 1
  <2>1. CASE refused
    <3>1. PICK tries : tries = attempts' /\ (tries = Append(attempts, begun) \/ tries = attempts)
      BY <1>4
    <3>2. Append(attempts, begun) \in Seq([Stores -> Answers])
      BY <1>2, <1>3
    <3>3. Trying(Append(attempts, begun)) = Trying(attempts)
      BY <2>1, <1>2, <1>3, TryingNoMore
    <3>4. tries \in Seq([Stores -> Answers]) /\ Trying(tries) = Trying(attempts)
      BY <3>1, <3>2, <3>3, <1>2
    <3>5. QED BY <3>1, <3>4, <2>1
  <2>2. CASE ~refused
    <3>1. PICK tries : tries = attempts' /\ tries = Append(attempts, begins)
      BY <1>3, <1>4, <1>5, <2>2
    <3>2. /\ tries \in Seq([Stores -> Answers])
          /\ Cardinality(Trying(tries)) = Cardinality(Trying(attempts)) + 1
      BY <3>1, <1>2, <1>3, TryingOneMore
    <3>3. QED BY <3>1, <3>2, <2>2
  <2>3. QED BY <2>1, <2>2
<1>7. PICK k \in Nat, retries \in Nat, ticking \in Nat :
          /\ storeRetries' = retries /\ retries = storeRetries + k /\ retries <= MaxStoreRetries
          /\ retryTimers' = ticking /\ ticking = t + k
          /\ refused => k > 0 \/ retries = MaxStoreRetries
          /\ refused /\ ~heard => k <= 1
          /\ ~refused => k = 0
  <2>1. CASE refused
    <3>1. PICK n \in Nat : n = FailureRetries(begins) /\ n > 0 /\ (~heard => n <= 1)
      BY <1>3, RetriesOfFailure
    <3>2. ScheduleRetries(t, n)
      BY <1>4, <2>1, <3>1
    <3>3. PICK k \in Nat, retries \in Nat, ticking \in Nat :
              /\ k <= n
              /\ storeRetries' = retries /\ retries = storeRetries + k /\ retries <= MaxStoreRetries
              /\ retryTimers' = ticking /\ ticking = t + k
              /\ n > 0 => k > 0 \/ retries = MaxStoreRetries
      BY <3>2, RetriesScheduled
    <3>4. ~heard => k <= 1
      BY <3>1, <3>3
    <3>5. QED BY <2>1, <3>1, <3>3, <3>4
  <2>2. CASE ~refused
    <3>1. /\ storeRetries \in Nat /\ storeRetries <= MaxStoreRetries
          /\ storeRetries' = storeRetries /\ retryTimers' = t
      BY <1>4, <2>2 DEF ManagerInv
    <3>2. storeRetries = storeRetries + 0 /\ t = t + 0
      BY <3>1
    <3>3. QED BY <2>2, <3>1, <3>2
  <2>3. QED BY <2>1, <2>2
<1>8. PICK c \in Nat, d \in Nat :
          c = Cardinality(Trying(attempts)) /\ d = Cardinality(Trying(attempts'))
  BY <1>2, <1>6, TryingIsFinite
<1>9. intervals \in Nat /\ retryTimers \in Nat
  BY DEF ManagerInv
<1>10. phase = "new" => intervals = 0 /\ t = 0 /\ c = 0
  <2>1. phase = "new" => attempts = << >> /\ intervals = 0 /\ retryTimers = 0
    BY DEF ManagerInv
  <2>2. attempts = << >> => Trying(attempts) = {}
    BY DEF Trying
  <2>3. QED BY <2>1, <2>2, <1>8, FS_EmptySet
<1>11. phase = "open" => heard \/ intervals + retryTimers + c <= 1
  BY <1>8, KeepsTryingIs DEF ManagerInv, Single
<1>12. ticking + d > 0 \/ retries = MaxStoreRetries
  BY <1>6, <1>7, <1>8
<1>13. intervals + ticking + d > 0 \/ retries = MaxStoreRetries
  BY <1>9, <1>12
<1>14. phase' = "open" => heard \/ intervals + ticking + d <= 1
  <2> SUFFICES ASSUME phase' = "open", ~heard PROVE intervals + ticking + d <= 1
    OBVIOUS
  <2>1. k + d <= c + 1
    BY <1>6, <1>7, <1>8
  <2>2. CASE phase = "new"
    BY <1>7, <1>8, <1>10, <2>1, <2>2
  <2>3. CASE phase # "new"
    <3>1. phase = "open"
      BY <2>3
    <3>2. retryTimers = t + 1 /\ intervals + retryTimers + c <= 1
      BY <1>11, <2>3, <3>1
    <3>3. ticking + d <= t + c + 1
      BY <1>7, <1>8, <2>1
    <3>4. QED BY <1>7, <1>8, <1>9, <3>2, <3>3
  <2>4. QED BY <2>2, <2>3
<1>15. up' /\ phase' = "open" => Enough' /\ Single'
  BY <1>4, <1>7, <1>8, <1>13, <1>14 DEF Enough, Single
<1>16. KeepsTrying'
  <2>1. KeepsTrying' <=> (up' /\ phase' = "open" => Enough' /\ Single')
    BY DEF KeepsTrying, Enough, Single, Trying
  <2>2. QED BY <2>1, <1>15
<1>17. phase' # "new" /\ phase' \in {"new", "open", "closing", "closed"}
  BY DEF ManagerInv
<1>18. QED BY <1>1, <1>4, <1>6, <1>7, <1>9, <1>16, <1>17 DEF ManagerInv

LEMMA ErrorIsMet ==
    ASSUME ManagerInv, up, phase # "new", ErrorEvent,
           UNCHANGED <<mode, heard, phase, attempts, intervals, named>>
    PROVE  ManagerInv'
<1> DEFINE n == IF heard THEN 1 ELSE 0
<1>1. up' = heard /\ ScheduleRetries(retryTimers, n)
  BY DEF ErrorEvent
<1>2. n \in Nat
  OBVIOUS
<1> HIDE DEF n
<1>3. retryTimers \in Nat /\ attempts \in Seq([Stores -> Answers])
  BY DEF ManagerInv
<1>4. PICK k \in Nat, retries \in Nat, ticking \in Nat :
          /\ storeRetries' = retries /\ retries = storeRetries + k /\ retries <= MaxStoreRetries
          /\ retryTimers' = ticking /\ ticking = retryTimers + k
  BY <1>1, <1>2, <1>3, RetriesScheduled
<1>5. PICK c \in Nat : c = Cardinality(Trying(attempts))
  BY <1>3, TryingIsFinite
<1>6. PICK lost \in Nat : lost = 0
  OBVIOUS
<1>7. lost <= 1 /\ lost # 1 /\ ticking + c + lost = retryTimers + c + k
  BY <1>3, <1>4, <1>6
<1>8. /\ UNCHANGED <<mode, heard>> /\ phase' = phase /\ UNCHANGED <<intervals, named>>
      /\ attempts' \in Seq([Stores -> Answers]) /\ c = Cardinality(Trying(attempts'))
      /\ ~heard => ~up'
  BY <1>1, <1>3, <1>5
<1>9. QED BY <1>4, <1>5, <1>7, <1>8, StillTrying, Zenon

\* Where the manager does not change, neither does what it does.
LEMMA StaysTrying ==
    ASSUME ManagerInv, up, up' = up,
           UNCHANGED <<mode, heard, attempts, storeRetries, retryTimers>>,
           \/ UNCHANGED <<phase, intervals, named>> /\ (phase = "new" => UNCHANGED redis)
           \/ /\ phase' \in {"closing", "closed"}
              /\ intervals' \in Nat /\ (named' => intervals' > 0)
    PROVE  ManagerInv'
<1>1. Stores' = Stores
  BY DEF Stores
<1>2. CASE UNCHANGED <<phase, intervals, named>> /\ (phase = "new" => UNCHANGED redis)
  BY <1>1, <1>2 DEF ManagerInv, KeepsTrying
<1>3. CASE phase' \in {"closing", "closed"} /\ intervals' \in Nat /\ (named' => intervals' > 0)
  BY <1>1, <1>3 DEF ManagerInv, KeepsTrying
<1>4. QED BY <1>2, <1>3

LEMMA ManagerNextInv == ManagerInv /\ [ManagerNext]_managerVars => ManagerInv'
<1> SUFFICES ASSUME ManagerInv, [ManagerNext]_managerVars PROVE ManagerInv'
  OBVIOUS
<1>1. ASSUME up, Initialize PROVE ManagerInv'
  <2>1. phase = "new" /\ phase' = "open" /\ ConnectProvider(0) /\ retryTimers = 0
    BY <1>1 DEF Initialize, ManagerInv
  <2>2. QED BY <1>1, <2>1, ConnectIsMet
<1>2. ASSUME up, RetryFires PROVE ManagerInv'
  <2>1. PICK t : t = retryTimers - 1
    OBVIOUS
  <2>2. t \in Nat /\ retryTimers = t + 1 /\ ConnectProvider(t) /\ phase' = phase /\ phase # "new"
    BY <1>2, <2>1 DEF RetryFires, ManagerInv
  <2>3. QED BY <1>2, <2>2, ConnectIsMet
<1>3. ASSUME up, PoolError PROVE ManagerInv'
  BY <1>3, ErrorIsMet DEF PoolError
<1>4. ASSUME up, NEW i \in DOMAIN attempts, PostgresConnects(i) PROVE ManagerInv'
  BY <1>4, AnswerIsMet DEF PostgresConnects, Awaits
<1>5. ASSUME up, NEW i \in DOMAIN attempts, PostgresRefuses(i) PROVE ManagerInv'
  BY <1>5, FailureIsMet DEF PostgresRefuses, Awaits
<1>6. ASSUME up, RedisReady PROVE ManagerInv'
  <2>1. up' = up /\ UNCHANGED <<mode, heard, phase>> /\ redis = "connecting"
    BY <1>6 DEF RedisReady
  <2>2. CASE \E i \in DOMAIN attempts : Awaits(i, "redis") /\ PartConnects(i, "redis")
    BY <1>6, <2>1, <2>2, AnswerIsMet DEF Awaits
  <2>3. CASE UNCHANGED <<attempts, isHealthy, storeRetries, retryTimers, intervals, named>>
    <3>1. phase # "new"
      BY <2>1 DEF ManagerInv
    <3>2. QED BY <1>6, <2>1, <2>3, <3>1, StaysTrying
  <2>4. QED BY <1>6, <2>2, <2>3 DEF RedisReady
<1>7. ASSUME up, RedisReconnects PROVE ManagerInv'
  <2>1. phase # "new"
    BY <1>7 DEF RedisReconnects, ManagerInv
  <2>2. QED BY <1>7, <2>1, StaysTrying DEF RedisReconnects
<1>8. ASSUME up, NEW withError \in BOOLEAN, RedisBreaks(withError) PROVE ManagerInv'
  <2>1. UNCHANGED <<mode, heard, phase, pool, intervals, named>> /\ phase # "new"
    BY <1>8 DEF RedisBreaks, ManagerInv
  <2>2. CASE \E i \in DOMAIN attempts :
                 /\ Awaits(i, "redis")
                 /\ PartFails(i, "redis", IF withError THEN 1 ELSE 0)
    <3>1. PICK i \in DOMAIN attempts : Awaits(i, "redis")
                                       /\ PartFails(i, "redis", IF withError THEN 1 ELSE 0)
      BY <2>2
    <3>2. PICK events \in Nat : events = IF withError THEN 1 ELSE 0
      OBVIOUS
    <3>3. QED BY <1>8, <2>1, <3>1, <3>2, FailureIsMet DEF Awaits
  <2>3. CASE ErrorEvent /\ UNCHANGED attempts
    BY <1>8, <2>1, <2>3, ErrorIsMet
  <2>4. CASE UNCHANGED <<up, attempts, isHealthy, storeRetries, retryTimers>>
    BY <1>8, <2>1, <2>4, StaysTrying
  <2>5. QED BY <1>8, <2>2, <2>3, <2>4 DEF RedisBreaks
<1>9. ASSUME up, NEW answer \in BOOLEAN, PerformHealthCheck(answer) PROVE ManagerInv'
  BY <1>9, StaysTrying DEF PerformHealthCheck
<1>10. ASSUME up, ShutdownManager PROVE ManagerInv'
  <2>1. /\ up' = up /\ phase' = "closing" /\ named' = FALSE
        /\ UNCHANGED <<mode, heard, attempts, storeRetries, retryTimers>>
        /\ intervals' = intervals - (IF named THEN 1 ELSE 0)
    BY <1>10 DEF ShutdownManager
  <2>2. intervals' \in Nat
    BY <2>1 DEF ManagerInv
  <2>3. QED BY <1>10, <2>1, <2>2, StaysTrying
<1>11. ASSUME up, ShutdownEnds \/ ShutdownFails PROVE ManagerInv'
  <2>1. /\ up' = up /\ phase' = "closed" /\ UNCHANGED <<intervals, named>>
        /\ UNCHANGED <<mode, heard, attempts, storeRetries, retryTimers>>
    BY <1>11 DEF ShutdownEnds, ShutdownFails
  <2>2. intervals' \in Nat /\ (named' => intervals' > 0)
    BY <2>1 DEF ManagerInv
  <2>3. QED BY <1>11, <2>1, <2>2, StaysTrying
<1>12. ASSUME UNCHANGED managerVars PROVE ManagerInv'
  BY <1>12 DEF managerVars, ManagerInv, KeepsTrying, Stores
<1>13. QED
  BY <1>1, <1>2, <1>3, <1>4, <1>5, <1>6, <1>7, <1>8, <1>9, <1>10, <1>11, <1>12 DEF ManagerNext

\* Whatever the limit of the retries and however often the stores fail: a manager
\* that was not shut down watches its store, tries to connect it or has used up its
\* retries, and where nobody hears the errors it does so once.
THEOREM ManagerNeverGivesUp == ManagerSpec => []KeepsTrying
<1>1. ManagerInit => ManagerInv
  <2> SUFFICES ASSUME ManagerInit PROVE ManagerInv
    OBVIOUS
  <2>1. mode \in {"postgres", "redis", "hybrid"} /\ 0 <= MaxStoreRetries
    BY PersistenceManagerAssumption DEF ManagerInit
  <2>2. QED BY <2>1 DEF ManagerInit, ManagerInv, KeepsTrying
<1>2. ManagerInv => KeepsTrying
  BY DEF ManagerInv
<1>3. QED BY <1>1, <1>2, ManagerNextInv, PTL DEF ManagerSpec
-----------------------------------------------------------------------------
(* The hybrid persistence: the row is what was promised.                    *)

Ops == {"save", "update", "delete"}

\* A call under way, by what it still awaits.
Awaiting == {{"postgres", "redis"}, {"postgres"}, {"redis"}, {"again"}}
Calling(a) == DOMAIN a = {"op", "write", "awaits"} /\ a.awaits \in Awaiting /\ a.write.op \in Ops

\* A write that is tried again is awaited, and nothing else is.
TriedAgain(s, a) ==
    /\ s = Statement(s.write, s.by)
    /\ s.by = "again" => Calling(a) /\ a.write = s.write /\ a.awaits = {"again"}

\* Statements on their way belong to the call that awaits them, or bring the
\* cache up to date.
OfTheCall(s, a) ==
    /\ TriedAgain(s, a) /\ s.by \in {"both", "again", "sync"}
    /\ s.by = "both" => Calling(a) /\ a.write = s.write /\ "postgres" \in a.awaits

After(w, p) == {Applied(w, r) : r \in p}

\* Before PostgreSQL has answered the row is as promised, then as promised after
\* the write; a write that is tried again may have taken place or not.
Expected(r, p, a) ==
    /\ a = NoCall => r \in p
    /\ Calling(a) /\ "postgres" \in a.awaits => r \in p
    /\ Calling(a) /\ a.awaits = {"redis"} => r \in After(a.write, p)
    /\ Calling(a) /\ a.awaits = {"again"} => r \in p \cup After(a.write, p)

AskedTyped == asked = NoCall \/ Calling(asked)

DurableInv ==
    /\ AskedTyped
    /\ "postgres" \notin left =>
          Expected(row, promised, asked) /\ \A s \in statements : OfTheCall(s, asked)

LEMMA NoCallIsNone == ~Calling(NoCall)
<1>1. "write" \notin DOMAIN NoCall
  BY DEF NoCall
<1>2. QED BY <1>1 DEF Calling

\* A write that is tried again changes nothing more.
LEMMA AppliedTwice ==
    ASSUME NEW w, w.op \in Ops, NEW r
    PROVE  Applied(w, Applied(w, r)) = Applied(w, r)
<1>1. CASE w.op = "save"
  BY <1>1 DEF Applied
<1>2. CASE w.op = "delete"
  BY <1>2 DEF Applied
<1>3. CASE w.op = "update"
  <2>1. \A x : Applied(w, x) = IF x = NoRelay THEN NoRelay
                               ELSE [n |-> w.n, status |-> IF w.status = Keep THEN x.status ELSE w.status]
    BY <1>3 DEF Applied
  <2>2. CASE r = NoRelay
    BY <2>1, <2>2
  <2>3. CASE r # NoRelay
    <3>1. PICK v : v = Applied(w, r)
      OBVIOUS
    <3>2. v = [n |-> w.n, status |-> IF w.status = Keep THEN r.status ELSE w.status]
      BY <2>1, <2>3, <3>1
    <3>3. v.status = (IF w.status = Keep THEN r.status ELSE w.status)
      BY <3>2
    <3>4. v # NoRelay => Applied(w, v) = v
      <4>1. v # NoRelay => Applied(w, v) =
                [n |-> w.n, status |-> IF w.status = Keep THEN v.status ELSE w.status]
        BY <2>1
      <4>2. (IF w.status = Keep THEN v.status ELSE w.status)
                = (IF w.status = Keep THEN r.status ELSE w.status)
        BY <3>3
      <4>3. QED BY <3>2, <4>1, <4>2
    <3>5. v = NoRelay => Applied(w, v) = v
      BY <2>1
    <3>6. QED BY <3>1, <3>4, <3>5
  <2>4. QED BY <2>2, <2>3
<1>4. QED BY <1>1, <1>2, <1>3 DEF Ops

LEMMA AfterHolds ==
    ASSUME NEW w, w.op \in Ops, NEW p, NEW r
    PROVE  /\ r \in p => Applied(w, r) \in After(w, p)
           /\ r \in After(w, p) => Applied(w, r) \in After(w, p)
<1>1. r \in p => Applied(w, r) \in After(w, p)
  BY DEF After
<1>2. r \in After(w, p) => Applied(w, r) \in After(w, p)
  <2>1. SUFFICES ASSUME NEW x \in p, r = Applied(w, x) PROVE Applied(w, r) \in After(w, p)
    BY DEF After
  <2>2. Applied(w, r) = r
    BY <2>1, AppliedTwice
  <2>3. QED BY <2>1, <2>2 DEF After
<1>3. QED BY <1>1, <1>2

LEMMA DurableInit == HybridInit => DurableInv
BY DEF HybridInit, DurableInv, AskedTyped, Expected, Calling, NoCall

LEMMA AskIsDurable ==
    ASSUME DurableInv, Ask
    PROVE  DurableInv'
<1>1. PICK w : /\ w.op \in Ops
               /\ asked' = [op |-> w.op, write |-> w, awaits |-> {"postgres", "redis"}]
               /\ statements' = statements \cup {Statement(w, "both")}
  <2>1. PICK x, w :
            /\ x \in Write
            /\ w = [op |-> x.op, status |-> x.status, n |-> calls + 1]
            /\ asked' = [op |-> w.op, write |-> w, awaits |-> {"postgres", "redis"}]
            /\ statements' = statements \cup {Statement(w, "both")}
    BY DEF Ask
  <2>2. w.op \in Ops
    BY <2>1 DEF Write, Ops
  <2>3. QED BY <2>1, <2>2
<1>2. asked = NoCall /\ row' = row /\ promised' = promised /\ left' = left
  BY DEF Ask, storeVars
<1>3. PICK a : a = asked'
  OBVIOUS
<1>4. Calling(a) /\ a.write = w /\ a.awaits = {"postgres", "redis"}
  BY <1>1, <1>3 DEF Calling, Awaiting
<1>5. SUFFICES ASSUME "postgres" \notin left
               PROVE  Expected(row, promised, a) /\ \A s \in statements' : OfTheCall(s, a)
  BY <1>2, <1>3, <1>4 DEF DurableInv, AskedTyped
<1>6. Expected(row, promised, a)
  <2>1. row \in promised
    BY <1>2, <1>5 DEF DurableInv, Expected
  <2>2. QED BY <1>4, <2>1 DEF Expected, NoCall, Calling
<1>7. \A s \in statements : OfTheCall(s, a)
  <2>1. \A s \in statements : OfTheCall(s, NoCall)
    BY <1>2, <1>5 DEF DurableInv
  <2>2. QED BY <2>1, NoCallIsNone DEF OfTheCall, TriedAgain
<1>8. OfTheCall(Statement(w, "both"), a)
  BY <1>4 DEF OfTheCall, TriedAgain, Statement
<1>9. QED BY <1>1, <1>6, <1>7, <1>8

\* PostgreSQL has taken a statement, and answers it.
LEMMA PostgresIsDurable ==
    ASSUME DurableInv, NEW s \in statements, NEW ok \in BOOLEAN, PostgresAnswers(s, ok), s.by # "sync",
           row' \in {row, Applied(s.write, row)}, ok => row' = Applied(s.write, row)
    PROVE  DurableInv'
<1> DEFINE others == statements \ {s}
<1>0. "postgres" \notin left' => "postgres" \notin left
  BY DEF PostgresAnswers, GoesOnWithout
<1>1. AskedTyped'
  BY DEF PostgresAnswers, Fulfilled, Answered, Throws, AskedTyped, DurableInv, Awaited, Calling, Awaiting
<1>2. SUFFICES ASSUME "postgres" \notin left
               PROVE  Expected(row, promised, asked)' /\ \A x \in statements' : OfTheCall(x, asked')
  BY <1>0, <1>1 DEF DurableInv
<1>3. PICK a, b, w : a = asked /\ b = asked' /\ w = s.write
  OBVIOUS
<1>4. /\ Expected(row, promised, a) /\ \A x \in statements : OfTheCall(x, a)
      /\ Calling(a) /\ a.write = w /\ w.op \in Ops /\ s = Statement(w, s.by)
      /\ \/ s.by = "both" /\ "postgres" \in a.awaits
         \/ s.by = "again" /\ a.awaits = {"again"}
  BY <1>2, <1>3 DEF DurableInv, OfTheCall, TriedAgain, Calling
<1>5. \A x \in others : \A c : OfTheCall(x, c)
  <2>1. SUFFICES ASSUME NEW x \in others PROVE x.by = "sync" /\ x = Statement(x.write, x.by)
    BY DEF OfTheCall, TriedAgain
  <2>2. OfTheCall(x, a) /\ x # s
    BY <1>4, <2>1
  <2>3. x.by # "both"
    <3>1. SUFFICES ASSUME x.by = "both" PROVE FALSE
      OBVIOUS
    <3>2. x = Statement(w, "both") /\ "postgres" \in a.awaits
      BY <1>4, <2>2, <3>1 DEF OfTheCall, TriedAgain
    <3>3. s.by = "both"
      BY <1>4, <3>2
    <3>4. QED BY <1>4, <2>2, <3>2, <3>3
  <2>4. x.by # "again"
    <3>1. SUFFICES ASSUME x.by = "again" PROVE FALSE
      OBVIOUS
    <3>2. x = Statement(w, "again") /\ a.awaits = {"again"}
      BY <1>4, <2>2, <3>1 DEF OfTheCall, TriedAgain
    <3>3. s.by = "again"
      BY <1>4, <3>2
    <3>4. QED BY <1>4, <2>2, <3>2, <3>3
  <2>5. QED BY <2>2, <2>3, <2>4 DEF OfTheCall, TriedAgain
<1>6. CASE s.by = "both" /\ ok
  <2>1. Awaited(s) /\ row \in promised /\ row' = Applied(w, row)
    BY <1>3, <1>4, <1>6, NoCallIsNone DEF Awaited, Expected, Calling, Awaiting
  <2>2. Fulfilled("postgres") /\ statements' = others
    BY <1>6, <2>1 DEF PostgresAnswers
  <2>3. row' \in After(w, promised)
    BY <1>4, <2>1, AfterHolds
  <2>4. CASE a.awaits = {"postgres"}
    <3>1. b = NoCall /\ promised' = After(w, promised)
      BY <1>3, <1>4, <2>2, <2>4 DEF Fulfilled, Answered, After
    <3>2. Expected(row', promised', b)
      BY <2>3, <3>1, NoCallIsNone DEF Expected
    <3>3. QED BY <1>3, <1>5, <2>2, <3>2
  <2>5. CASE a.awaits # {"postgres"}
    <3>1. /\ b = [a EXCEPT !.awaits = @ \ {"postgres"}] /\ promised' = promised
      BY <1>3, <1>4, <2>2, <2>5 DEF Fulfilled
    <3>2. a.awaits = {"postgres", "redis"}
      BY <1>4, <1>6, <2>5 DEF Calling, Awaiting
    <3>3. Calling(b) /\ b.write = w /\ b.awaits = {"redis"}
      BY <1>4, <3>1, <3>2 DEF Calling, Awaiting
    <3>4. Expected(row', promised', b)
      BY <2>3, <3>1, <3>3, NoCallIsNone DEF Expected
    <3>5. QED BY <1>3, <1>5, <2>2, <3>4
  <2>6. QED BY <2>4, <2>5
<1>7. CASE s.by = "both" /\ ~ok
  <2>1. Awaited(s) /\ row \in promised
    BY <1>3, <1>4, <1>7, NoCallIsNone DEF Awaited, Expected, Calling, Awaiting
  <2>2. row' \in promised \cup After(w, promised)
    BY <1>3, <1>4, <2>1, AfterHolds
  <2>3. CASE w.op = "delete"
    <3>1. statements' = others /\ b = NoCall /\ promised' = promised \cup After(w, promised)
      BY <1>3, <1>4, <1>7, <2>1, <2>3 DEF PostgresAnswers, Throws, After
    <3>2. Expected(row', promised', b)
      BY <2>2, <3>1, NoCallIsNone DEF Expected
    <3>3. QED BY <1>3, <1>5, <3>1, <3>2
  <2>4. CASE w.op # "delete"
    <3>1. /\ statements' = others \cup {Statement(w, "again")} /\ promised' = promised
          /\ b = [a EXCEPT !.awaits = {"again"}]
      BY <1>3, <1>4, <1>7, <2>1, <2>4 DEF PostgresAnswers
    <3>2. Calling(b) /\ b.write = w /\ b.awaits = {"again"}
      BY <1>4, <3>1 DEF Calling, Awaiting
    <3>3. Expected(row', promised', b)
      BY <2>2, <3>1, <3>2, NoCallIsNone DEF Expected
    <3>4. OfTheCall(Statement(w, "again"), b)
      BY <3>2 DEF OfTheCall, TriedAgain, Statement
    <3>5. QED BY <1>3, <1>5, <3>1, <3>3, <3>4
  <2>5. QED BY <2>3, <2>4
<1>8. CASE s.by = "again"
  <2>1. ~Awaited(s) /\ row \in promised \cup After(w, promised)
    BY <1>3, <1>4, <1>8 DEF Awaited, Expected
  <2>2. Applied(w, row) \in After(w, promised)
    BY <1>4, <2>1, AfterHolds
  <2>3. /\ IF ok THEN Answered ELSE Throws
        /\ statements' \subseteq others \cup {Statement(w, "sync")}
    BY <1>3, <1>8, <2>1 DEF PostgresAnswers
  <2>4. /\ b = NoCall
        /\ promised' = IF ok THEN After(w, promised) ELSE promised \cup After(w, promised)
    BY <1>3, <1>4, <2>3 DEF Answered, Throws, After
  <2>5. row' \in promised'
    BY <1>3, <1>4, <2>1, <2>2, <2>4
  <2>6. Expected(row', promised', b)
    BY <2>4, <2>5, NoCallIsNone DEF Expected
  <2>7. OfTheCall(Statement(w, "sync"), b)
    BY DEF OfTheCall, TriedAgain, Statement
  <2>8. QED BY <1>3, <1>5, <2>3, <2>6, <2>7
<1>9. QED BY <1>4, <1>6, <1>7, <1>8

\* Redis answers a command; the row is not touched.
LEMMA RedisIsDurable ==
    ASSUME DurableInv, NEW c, NEW ok \in BOOLEAN, RedisAnswers(c, ok), row' = row
    PROVE  DurableInv'
<1>0. "postgres" \notin left' => "postgres" \notin left
  BY DEF RedisAnswers, GoesOnWithout
<1>1. CASE UNCHANGED <<asked, statements, promised, left>>
  BY <1>1 DEF DurableInv, AskedTyped
<1>2. CASE /\ Awaited(c) /\ Fulfilled("redis") /\ UNCHANGED <<statements, left>>
  <2>1. PICK a, b : a = asked /\ b = asked'
    OBVIOUS
  <2>2. Calling(a) /\ "again" \notin a.awaits
    BY <1>2, <2>1 DEF Awaited, DurableInv, AskedTyped
  <2>3. CASE a.awaits = {"redis"}
    <3>1. b = NoCall /\ promised' = After(a.write, promised)
      BY <1>2, <2>1, <2>3 DEF Fulfilled, Answered, After
    <3>2. SUFFICES ASSUME "postgres" \notin left
                   PROVE  row \in promised' /\ \A s \in statements : OfTheCall(s, NoCall)
      BY <1>2, <2>1, <3>1, NoCallIsNone DEF DurableInv, AskedTyped, Expected
    <3>3. row \in promised'
      BY <2>1, <2>2, <2>3, <3>1, <3>2 DEF DurableInv, Expected
    <3>4. \A s \in statements : OfTheCall(s, NoCall)
      BY <2>1, <2>3, <3>2 DEF DurableInv, OfTheCall, TriedAgain
    <3>5. QED BY <3>3, <3>4
  <2>4. CASE a.awaits # {"redis"}
    <3>1. /\ b = [a EXCEPT !.awaits = @ \ {"redis"}] /\ promised' = promised
      BY <1>2, <2>1, <2>4 DEF Fulfilled
    <3>2. "postgres" \in a.awaits
      BY <2>2, <2>4 DEF Calling, Awaiting
    <3>3. Calling(b) /\ b.write = a.write /\ "postgres" \in b.awaits /\ b.awaits # {"redis"}
                     /\ b.awaits # {"again"}
      BY <2>2, <3>1, <3>2 DEF Calling, Awaiting
    <3>4. SUFFICES ASSUME "postgres" \notin left
                   PROVE  Expected(row, promised, b) /\ \A s \in statements : OfTheCall(s, b)
      BY <1>2, <2>1, <3>1, <3>3 DEF DurableInv, AskedTyped
    <3>5. Expected(row, promised, b)
      BY <2>1, <2>2, <3>2, <3>3, <3>4, NoCallIsNone DEF DurableInv, Expected
    <3>6. \A s \in statements : OfTheCall(s, b)
      BY <2>1, <2>2, <3>3, <3>4 DEF DurableInv, OfTheCall, TriedAgain
    <3>7. QED BY <3>5, <3>6
  <2>5. QED BY <2>3, <2>4
<1>3. CASE /\ Awaited(c) /\ asked' = [asked EXCEPT !.awaits = {"again"}]
           /\ statements' = statements \cup {Statement(c.write, "again")}
           /\ GoesOnWithout("postgres") /\ UNCHANGED promised
  <2>1. PICK a, b : a = asked /\ b = asked'
    OBVIOUS
  <2>2. Calling(a) /\ "again" \notin a.awaits /\ c.write = a.write
    BY <1>3, <2>1 DEF Awaited, DurableInv, AskedTyped
  <2>3. Calling(b) /\ b.write = a.write /\ b.awaits = {"again"}
    BY <1>3, <2>1, <2>2 DEF Calling, Awaiting
  <2>4. SUFFICES ASSUME "postgres" \notin left'
                 PROVE  Expected(row, promised, b) /\ \A s \in statements' : OfTheCall(s, b)
    BY <1>3, <2>1, <2>3 DEF DurableInv, AskedTyped
  <2>5. a.awaits = {"redis"} /\ "postgres" \notin left
    BY <1>3, <2>1, <2>2, <2>4 DEF GoesOnWithout, Calling, Awaiting
  <2>6. Expected(row, promised, b)
    BY <2>1, <2>2, <2>3, <2>5, NoCallIsNone DEF DurableInv, Expected
  <2>7. \A s \in statements : OfTheCall(s, b)
    BY <2>1, <2>5 DEF DurableInv, OfTheCall, TriedAgain
  <2>8. OfTheCall(Statement(c.write, "again"), b)
    BY <2>2, <2>3 DEF OfTheCall, TriedAgain, Statement
  <2>9. QED BY <1>3, <2>6, <2>7, <2>8
<1>4. QED BY <1>1, <1>2, <1>3 DEF RedisAnswers

LEMMA DurableStep ==
    ASSUME DurableInv, HybridNext
    PROVE  DurableInv'
<1>1. CASE Ask
  BY <1>1, AskIsDurable
<1>2. CASE ReadThrough \/ Expires
  <2>1. UNCHANGED <<row, asked, statements, promised, left>>
    BY <1>2 DEF ReadThrough, Expires, storeVars
  <2>2. QED BY <2>1 DEF DurableInv, AskedTyped
<1>3. ASSUME NEW s \in statements, PostgresWrites(s) PROVE DurableInv'
  BY <1>3, PostgresIsDurable DEF PostgresWrites
<1>4. ASSUME NEW s \in statements, PostgresFails(s) PROVE DurableInv'
  BY <1>4, PostgresIsDurable DEF PostgresFails
<1>5. ASSUME NEW s \in statements, SyncReads(s) PROVE DurableInv'
  <2>1. UNCHANGED <<row, asked, promised, left>> /\ statements' \subseteq statements
    BY <1>5 DEF SyncReads, storeVars
  <2>2. QED BY <2>1 DEF DurableInv, AskedTyped
<1>6. CASE RedisReads
  <2>1. row' = row
    BY <1>6 DEF RedisReads, storeVars
  <2>2. \/ UNCHANGED <<asked, statements, promised, left>>
        \/ RedisAnswers(Head(wire), Head(wire).write.op = "delete")
    BY <1>6 DEF RedisReads
  <2>3. CASE UNCHANGED <<asked, statements, promised, left>>
    BY <2>1, <2>3 DEF DurableInv, AskedTyped
  <2>4. PICK ok \in BOOLEAN : ok = (Head(wire).write.op = "delete")
    OBVIOUS
  <2>5. CASE RedisAnswers(Head(wire), ok)
    BY <2>1, <2>5, RedisIsDurable
  <2>6. QED BY <2>2, <2>3, <2>4, <2>5
<1>7. CASE RedisWrites
  BY <1>7, RedisIsDurable DEF RedisWrites
<1>8. CASE RedisFails
  <2>1. row' = row
    BY <1>8 DEF RedisFails
  <2>2. PICK ok \in {FALSE, ~Reading(Head(wire))} : RedisAnswers(Head(wire), ok)
    BY <1>8 DEF RedisFails
  <2>3. ok \in BOOLEAN
    BY <2>2 DEF Reading
  <2>4. QED BY <2>1, <2>2, <2>3, RedisIsDurable
<1>9. QED BY <1>1, <1>2, <1>3, <1>4, <1>5, <1>6, <1>7, <1>8 DEF HybridNext

\* Failures and repetitions included, the row is what the answers promised once
\* no call is under way, unless one went on while its statement was.
THEOREM AnswersAreKept == HybridSpec => []DurableUnlessLeft
<1>1. DurableInv /\ UNCHANGED hybridVars => DurableInv'
  BY DEF hybridVars, storeVars, DurableInv, AskedTyped
<1>2. DurableInv => DurableUnlessLeft
  BY DEF DurableInv, DurableUnlessLeft, Expected
<1>3. QED BY <1>1, <1>2, DurableInit, DurableStep, PTL DEF HybridSpec
-----------------------------------------------------------------------------
(* The hybrid persistence: what is cached is in the sets of its status.     *)

AgainInv == AskedTyped /\ \A s \in statements : TriedAgain(s, asked)

InSets(r, sets, pends) == r.status \in sets /\ (r.status \in Active => pends)

\* A command under way belongs to the call that awaits it, or saves in the
\* background; what it has read is in the sets.
OnTheWire(c, a, sets, pends) ==
    /\ DOMAIN c = {"write", "by", "existing"} /\ c.write.op \in Ops
    /\ c.by = "both" => Calling(a) /\ a.write = c.write /\ "redis" \in a.awaits
    /\ c.by # "both" => c.write.op = "save" /\ c.existing = NoRelay
    /\ c.existing # NoRelay => InSets(c.existing, sets, pends)

Commands(q, a, sets, pends) ==
    /\ \E S : q \in Seq(S)
    /\ \A i \in 1 .. Len(q) : OnTheWire(q[i], a, sets, pends)
    /\ \A i, j \in 1 .. Len(q) : q[i].by = "both" /\ q[j].by = "both" => i = j

InBackground(q) == \A i \in 1 .. Len(q) : q[i].by # "both"

IndexedInv ==
    "redis" \notin left /\ ~cut =>
        /\ cached # NoRelay => InSets(cached, indexed, pendingSet)
        /\ Commands(wire, asked, indexed, pendingSet)

LEMMA FirstIsSent ==
    ASSUME NEW q, NEW a, NEW sets, NEW pends, Commands(q, a, sets, pends), q # << >>
    PROVE  /\ OnTheWire(Head(q), a, sets, pends)
           /\ Head(q).by = "both" => InBackground(Tail(q))
           /\ Commands(Tail(q), a, sets, pends)
<1>1. PICK S : q \in Seq(S)
  BY DEF Commands
<1>2. /\ Head(q) = q[1] /\ 1 \in 1 .. Len(q)
      /\ Tail(q) \in Seq(S)
      /\ \A i \in 1 .. Len(Tail(q)) : Tail(q)[i] = q[i + 1] /\ i + 1 \in 1 .. Len(q) /\ i + 1 # 1
  BY <1>1
<1>3. PICK t : t = Tail(q)
  OBVIOUS
<1>4. OnTheWire(Head(q), a, sets, pends)
  BY <1>2 DEF Commands
<1>5. q[1].by = "both" => InBackground(t)
  BY <1>2, <1>3 DEF Commands, InBackground
<1>6. \A i \in 1 .. Len(t) : OnTheWire(t[i], a, sets, pends)
  BY <1>2, <1>3 DEF Commands
<1>7. \A i, j \in 1 .. Len(t) : t[i].by = "both" /\ t[j].by = "both" => i = j
  <2>1. SUFFICES ASSUME NEW i \in 1 .. Len(t), NEW j \in 1 .. Len(t), t[i].by = "both", t[j].by = "both"
                 PROVE  i = j
    OBVIOUS
  <2>2. i + 1 \in 1 .. Len(q) /\ j + 1 \in 1 .. Len(q) /\ q[i + 1].by = "both" /\ q[j + 1].by = "both"
    BY <1>2, <1>3, <2>1
  <2>3. i + 1 = j + 1
    BY <2>2 DEF Commands
  <2>4. QED BY <2>1, <2>3
<1>8. QED BY <1>2, <1>3, <1>4, <1>5, <1>6, <1>7 DEF Commands

\* Commands in the background belong to no call, whichever is under way.
LEMMA BackgroundStays ==
    ASSUME NEW q, NEW a, NEW sets, NEW pends, Commands(q, a, sets, pends), InBackground(q),
           NEW b, NEW sets2, NEW pends2
    PROVE  Commands(q, b, sets2, pends2)
BY DEF Commands, InBackground, OnTheWire

LEMMA CommandsStay ==
    ASSUME NEW q, NEW a, NEW sets, NEW pends, Commands(q, a, sets, pends),
           NEW b, Calling(a) /\ "redis" \in a.awaits =>
                      Calling(b) /\ "redis" \in b.awaits /\ b.write = a.write,
           NEW sets2, NEW pends2, sets \subseteq sets2, pends => pends2
    PROVE  Commands(q, b, sets2, pends2)
BY DEF Commands, OnTheWire, InSets

LEMMA OneMoreIsSent ==
    ASSUME NEW q, NEW a, NEW sets, NEW pends, Commands(q, a, sets, pends),
           NEW c, OnTheWire(c, a, sets, pends), c.by = "both" => InBackground(q)
    PROVE  Commands(Append(q, c), a, sets, pends)
<1>1. PICK S : q \in Seq(S)
  BY DEF Commands
<1>2. PICK t : t = Append(q, c)
  OBVIOUS
<1>3. q \in Seq(S \cup {c}) /\ c \in S \cup {c}
  BY <1>1
<1>4. /\ t \in Seq(S \cup {c}) /\ Len(t) = Len(q) + 1
      /\ \A i \in 1 .. Len(t) : \/ i \in 1 .. Len(q) /\ t[i] = q[i]
                                \/ i = Len(t) /\ t[i] = c
  BY <1>2, <1>3
<1>5. \A i \in 1 .. Len(t) : OnTheWire(t[i], a, sets, pends)
  BY <1>4 DEF Commands
<1>6. \A i, j \in 1 .. Len(t) : t[i].by = "both" /\ t[j].by = "both" => i = j
  BY <1>4 DEF Commands, InBackground
<1>7. QED BY <1>2, <1>4, <1>5, <1>6 DEF Commands

\* What a whole pipeline does, for a command that is on the wire as it should be.
LEMMA PipelineIndexes ==
    ASSUME NEW c, NEW a, OnTheWire(c, a, indexed, pendingSet), ~Reading(c), Execute(c, Pipeline(c))
    PROVE  /\ cached' # NoRelay => InSets(cached', indexed', pendingSet')
           /\ c.by # "both" => indexed \subseteq indexed' /\ (pendingSet => pendingSet')
<1>1. CASE c.write.op = "save"
  <2>1. /\ {"set", "sadd"} \subseteq Pipeline(c) /\ "srem" \notin Pipeline(c)
        /\ "srem pending" \notin Pipeline(c)
        /\ c.write.status \in Active => "sadd pending" \in Pipeline(c)
    BY <1>1 DEF Pipeline
  <2>2. cached' = [n |-> c.write.n, status |-> c.write.status]
    BY <1>1, <2>1 DEF Execute, Applied
  <2>3. /\ indexed' = indexed \cup {c.write.status}
        /\ c.write.status \in Active => pendingSet'
        /\ pendingSet => pendingSet'
    BY <2>1 DEF Execute
  <2>4. cached'.status = c.write.status
    BY <2>2
  <2>5. QED BY <2>3, <2>4 DEF InSets
<1>2. CASE c.write.op = "update"
  <2>1. /\ c.existing # NoRelay /\ c.by = "both" /\ InSets(c.existing, indexed, pendingSet)
        /\ "set" \in Pipeline(c)
    BY <1>2 DEF Pipeline, Reading, OnTheWire
  <2>2. cached' = [n |-> c.write.n,
                   status |-> IF c.write.status = Keep THEN c.existing.status ELSE c.write.status]
    BY <1>2, <2>1 DEF Execute, Applied
  <2>3. cached'.status = (IF c.write.status = Keep THEN c.existing.status ELSE c.write.status)
    BY <2>2
  <2>4. CASE ~Moved(c)
    <3>1. Pipeline(c) = {"set"} /\ cached'.status = c.existing.status
      BY <1>2, <2>3, <2>4 DEF Pipeline, Moved
    <3>2. indexed' = indexed /\ (pendingSet => pendingSet')
      BY <3>1 DEF Execute
    <3>3. QED BY <2>1, <3>1, <3>2 DEF InSets
  <2>5. CASE Moved(c)
    <3>1. /\ "sadd" \in Pipeline(c)
          /\ c.write.status \in Active => "sadd pending" \in Pipeline(c)
          /\ cached'.status = c.write.status
      BY <1>2, <2>3, <2>5 DEF Pipeline, Moved
    <3>2. /\ c.write.status \in indexed' /\ (c.write.status \in Active => pendingSet')
      BY <3>1 DEF Execute
    <3>3. QED BY <2>1, <3>1, <3>2 DEF InSets
  <2>6. QED BY <2>4, <2>5
<1>3. CASE c.write.op = "delete"
  <2>1. cached' = NoRelay
    BY <1>3 DEF Execute, Pipeline, Applied
  <2>2. QED BY <1>3, <2>1 DEF OnTheWire
<1>4. QED BY <1>1, <1>2, <1>3 DEF OnTheWire, Ops

LEMMA AgainInit == HybridInit => AgainInv
BY DEF HybridInit, AgainInv, AskedTyped

\* A statement is answered: of those that are left none is tried again, unless
\* the call is.
LEMMA PostgresAgain ==
    ASSUME AgainInv, NEW s \in statements, NEW ok \in BOOLEAN, PostgresAnswers(s, ok)
    PROVE  AgainInv'
<1>1. PICK a, b : a = asked /\ b = asked'
  OBVIOUS
<1>2. AskedTyped'
  BY DEF PostgresAnswers, Fulfilled, Answered, Throws, AskedTyped, AgainInv, Awaited, Calling, Awaiting
<1>3. SUFFICES \A x \in statements' : TriedAgain(x, b)
  BY <1>1, <1>2 DEF AgainInv
<1>4. CASE asked' = asked /\ statements' = statements \ {s}
  BY <1>1, <1>4 DEF AgainInv
<1>5. CASE Awaited(s)
  <2>1. Calling(a) /\ "again" \notin a.awaits /\ a.write = s.write
    BY <1>1, <1>5 DEF Awaited, AgainInv, AskedTyped
  <2>2. \A x \in statements : x = Statement(x.write, x.by) /\ x.by # "again"
    BY <1>1, <2>1 DEF AgainInv, TriedAgain
  <2>3. \A x \in statements : TriedAgain(x, b)
    BY <2>2 DEF TriedAgain
  <2>4. \/ statements' \subseteq statements
        \/ /\ statements' = (statements \ {s}) \cup {Statement(s.write, "again")}
           /\ b = [a EXCEPT !.awaits = {"again"}]
    BY <1>1, <1>5 DEF PostgresAnswers, Throws, Awaited
  <2>5. CASE b = [a EXCEPT !.awaits = {"again"}]
    <3>1. Calling(b) /\ b.write = s.write /\ b.awaits = {"again"}
      BY <2>1, <2>5 DEF Calling, Awaiting
    <3>2. TriedAgain(Statement(s.write, "again"), b)
      BY <3>1 DEF TriedAgain, Statement
    <3>3. QED BY <2>3, <2>4, <3>2
  <2>6. QED BY <2>3, <2>4, <2>5
<1>6. CASE ~Awaited(s) /\ s.by = "again"
  <2>1. statements' \subseteq (statements \ {s}) \cup {Statement(s.write, "sync")}
    BY <1>6 DEF PostgresAnswers
  <2>2. \A x \in statements \ {s} : x = Statement(x.write, x.by) /\ x.by # "again"
    BY <1>6 DEF AgainInv, TriedAgain
  <2>3. \A x \in statements' : x = Statement(x.write, x.by) /\ x.by # "again"
    BY <2>1, <2>2 DEF Statement
  <2>4. QED BY <2>3 DEF TriedAgain
<1>7. QED BY <1>4, <1>5, <1>6 DEF PostgresAnswers

LEMMA RedisAgain ==
    ASSUME AgainInv, NEW c, NEW ok \in BOOLEAN, RedisAnswers(c, ok)
    PROVE  AgainInv'
<1>1. PICK a, b : a = asked /\ b = asked'
  OBVIOUS
<1>2. AskedTyped'
  BY DEF RedisAnswers, Fulfilled, Answered, AskedTyped, AgainInv, Awaited, Calling, Awaiting
<1>3. CASE UNCHANGED <<asked, statements>>
  BY <1>3 DEF AgainInv, AskedTyped
<1>4. CASE Awaited(c)
  <2>1. Calling(a) /\ "again" \notin a.awaits /\ a.write = c.write
    BY <1>1, <1>4 DEF Awaited, AgainInv, AskedTyped
  <2>2. \A x \in statements : x = Statement(x.write, x.by) /\ x.by # "again"
    BY <1>1, <2>1 DEF AgainInv, TriedAgain
  <2>3. \A x \in statements : TriedAgain(x, b)
    BY <2>2 DEF TriedAgain
  <2>4. \/ statements' = statements
        \/ /\ statements' = statements \cup {Statement(c.write, "again")}
           /\ b = [a EXCEPT !.awaits = {"again"}]
    BY <1>1, <1>4 DEF RedisAnswers
  <2>5. CASE b = [a EXCEPT !.awaits = {"again"}]
    <3>1. Calling(b) /\ b.write = c.write /\ b.awaits = {"again"}
      BY <2>1, <2>5 DEF Calling, Awaiting
    <3>2. TriedAgain(Statement(c.write, "again"), b)
      BY <3>1 DEF TriedAgain, Statement
    <3>3. \A x \in statements' : TriedAgain(x, b)
      BY <2>3, <2>4, <3>2
    <3>4. QED BY <1>1, <1>2, <3>3 DEF AgainInv
  <2>6. CASE statements' = statements
    BY <1>1, <1>2, <2>3, <2>6 DEF AgainInv
  <2>7. QED BY <2>4, <2>5, <2>6
<1>5. QED BY <1>3, <1>4 DEF RedisAnswers

LEMMA AskAgain ==
    ASSUME AgainInv, Ask
    PROVE  AgainInv'
<1>1. PICK x, w :
          /\ x \in Write
          /\ w = [op |-> x.op, status |-> x.status, n |-> calls + 1]
          /\ asked' = [op |-> w.op, write |-> w, awaits |-> {"postgres", "redis"}]
          /\ statements' = statements \cup {Statement(w, "both")}
  BY DEF Ask
<1>2. Calling(asked')
  BY <1>1 DEF Calling, Awaiting, Write, Ops
<1>3. \A y \in statements : y = Statement(y.write, y.by) /\ y.by # "again"
  <2>1. \A y \in statements : TriedAgain(y, NoCall)
    BY DEF Ask, AgainInv
  <2>2. QED BY <2>1, NoCallIsNone DEF TriedAgain
<1>4. \A y \in statements' : y = Statement(y.write, y.by) /\ y.by # "again"
  BY <1>1, <1>3 DEF Statement
<1>5. QED BY <1>2, <1>4 DEF AgainInv, AskedTyped, TriedAgain

LEMMA AgainStep ==
    ASSUME AgainInv, HybridNext
    PROVE  AgainInv'
<1>1. CASE Ask
  BY <1>1, AskAgain
<1>2. CASE ReadThrough \/ Expires
  BY <1>2 DEF ReadThrough, Expires, AgainInv, AskedTyped
<1>3. ASSUME NEW s \in statements, PostgresWrites(s) PROVE AgainInv'
  BY <1>3, PostgresAgain DEF PostgresWrites
<1>4. ASSUME NEW s \in statements, PostgresFails(s) PROVE AgainInv'
  BY <1>4, PostgresAgain DEF PostgresFails
<1>5. ASSUME NEW s \in statements, SyncReads(s) PROVE AgainInv'
  BY <1>5 DEF SyncReads, AgainInv, AskedTyped
<1>6. CASE RedisReads
  <2>1. \/ UNCHANGED <<asked, statements>>
        \/ RedisAnswers(Head(wire), Head(wire).write.op = "delete")
    BY <1>6 DEF RedisReads
  <2>2. PICK ok \in BOOLEAN : ok = (Head(wire).write.op = "delete")
    OBVIOUS
  <2>3. CASE RedisAnswers(Head(wire), ok)
    BY <2>3, RedisAgain
  <2>4. CASE UNCHANGED <<asked, statements>>
    BY <2>4 DEF AgainInv, AskedTyped
  <2>5. QED BY <2>1, <2>2, <2>3, <2>4
<1>7. CASE RedisWrites
  BY <1>7, RedisAgain DEF RedisWrites
<1>8. CASE RedisFails
  <2>1. PICK ok \in {FALSE, ~Reading(Head(wire))} : RedisAnswers(Head(wire), ok)
    BY <1>8 DEF RedisFails
  <2>2. ok \in BOOLEAN
    BY <2>1 DEF Reading
  <2>3. QED BY <2>1, <2>2, RedisAgain
<1>9. QED BY <1>1, <1>2, <1>3, <1>4, <1>5, <1>6, <1>7, <1>8 DEF HybridNext

LEMMA IndexedInit == HybridInit => IndexedInv
<1>1. Commands(<< >>, NoCall, {}, FALSE)
  <2>1. << >> \in Seq({}) /\ Len(<< >>) = 0
    OBVIOUS
  <2>2. QED BY <2>1 DEF Commands
<1>2. QED BY <1>1 DEF HybridInit, IndexedInv

LEMMA AskIsIndexed ==
    ASSUME IndexedInv, Ask
    PROVE  IndexedInv'
<1>1. PICK x, w :
          /\ x \in Write
          /\ w = [op |-> x.op, status |-> x.status, n |-> calls + 1]
          /\ asked' = [op |-> w.op, write |-> w, awaits |-> {"postgres", "redis"}]
          /\ wire' = Append(wire, Command(w, "both"))
  BY DEF Ask
<1>2. /\ asked = NoCall /\ left' = left /\ cut' = cut
      /\ cached' = cached /\ indexed' = indexed /\ pendingSet' = pendingSet
  BY DEF Ask, storeVars
<1>3. PICK b : b = asked'
  OBVIOUS
<1>4. Calling(b) /\ b.write = w /\ "redis" \in b.awaits /\ w.op \in Ops
  BY <1>1, <1>3 DEF Calling, Awaiting, Write, Ops
<1>5. SUFFICES ASSUME "redis" \notin left, ~cut
               PROVE  Commands(Append(wire, Command(w, "both")), b, indexed, pendingSet)
  BY <1>1, <1>2, <1>3 DEF IndexedInv
<1>6. Commands(wire, NoCall, indexed, pendingSet)
  BY <1>2, <1>5 DEF IndexedInv
<1>7. InBackground(wire)
  BY <1>6, NoCallIsNone DEF Commands, OnTheWire, InBackground
<1>8. Commands(wire, b, indexed, pendingSet)
  BY <1>6, <1>7, BackgroundStays
<1>9. OnTheWire(Command(w, "both"), b, indexed, pendingSet)
  BY <1>4 DEF OnTheWire, Command
<1>10. QED BY <1>7, <1>8, <1>9, OneMoreIsSent

\* A save in the background is put on the wire.
LEMMA BackgroundIsIndexed ==
    ASSUME IndexedInv, NEW r, CacheInBackground(r),
           UNCHANGED <<cached, indexed, pendingSet, asked, left, cut>>
    PROVE  IndexedInv'
<1>1. PICK w : /\ w.op = "save" /\ wire' = Append(wire, Command(w, "background"))
  <2>1. PICK w : /\ w = [op |-> "save", status |-> r.status, n |-> r.n]
                 /\ wire' = Append(wire, Command(w, "background"))
    BY DEF CacheInBackground
  <2>2. QED BY <2>1
<1>2. SUFFICES ASSUME "redis" \notin left, ~cut
               PROVE  Commands(Append(wire, Command(w, "background")), asked, indexed, pendingSet)
  BY <1>1 DEF IndexedInv
<1>3. PICK c : c = Command(w, "background")
  OBVIOUS
<1>4. OnTheWire(c, asked, indexed, pendingSet) /\ c.by # "both"
  BY <1>1, <1>3 DEF OnTheWire, Command, Ops
<1>5. Commands(wire, asked, indexed, pendingSet)
  BY <1>2 DEF IndexedInv
<1>6. QED BY <1>3, <1>4, <1>5, OneMoreIsSent

LEMMA PostgresIsIndexed ==
    ASSUME AgainInv, IndexedInv, NEW s \in statements, NEW ok \in BOOLEAN, PostgresAnswers(s, ok),
           UNCHANGED <<cached, indexed, pendingSet, wire, cut>>
    PROVE  IndexedInv'
<1>1. PICK a, b : a = asked /\ b = asked'
  OBVIOUS
<1>2. SUFFICES ASSUME "redis" \notin left', ~cut
               PROVE  Commands(wire, b, indexed, pendingSet) /\ "redis" \notin left
  BY <1>1 DEF IndexedInv
<1>3. "redis" \notin left
  BY <1>2 DEF PostgresAnswers, GoesOnWithout
<1>4. Commands(wire, a, indexed, pendingSet)
  BY <1>1, <1>2, <1>3 DEF IndexedInv
<1>5. Calling(a) /\ "redis" \in a.awaits => Calling(b) /\ "redis" \in b.awaits /\ b.write = a.write
  <2>1. SUFFICES ASSUME Calling(a), "redis" \in a.awaits
                 PROVE  Calling(b) /\ "redis" \in b.awaits /\ b.write = a.write
    OBVIOUS
  <2>2. CASE asked' = asked
    BY <1>1, <2>1, <2>2
  <2>3. CASE Awaited(s) /\ ok
    <3>1. Fulfilled("postgres")
      BY <2>3 DEF PostgresAnswers, Awaited
    <3>2. a.awaits # {"postgres"}
      BY <2>1
    <3>3. b = [a EXCEPT !.awaits = @ \ {"postgres"}]
      BY <1>1, <3>1, <3>2 DEF Fulfilled
    <3>4. QED BY <2>1, <3>3 DEF Calling, Awaiting
  <2>4. CASE Awaited(s) /\ ~ok
    <3>1. GoesOnWithout("redis")
      BY <2>4 DEF PostgresAnswers, Awaited
    <3>2. "redis" \in left'
      BY <1>1, <2>1, <3>1 DEF GoesOnWithout
    <3>3. QED BY <1>2, <3>2
  <2>5. CASE s.by = "again"
    <3>1. a.awaits = {"again"}
      BY <1>1, <2>5 DEF AgainInv, TriedAgain
    <3>2. QED BY <2>1, <3>1
  <2>6. QED BY <2>2, <2>3, <2>4, <2>5 DEF PostgresAnswers
<1>6. Commands(wire, b, indexed, pendingSet)
  BY <1>4, <1>5, CommandsStay
<1>7. QED BY <1>3, <1>6

\* The first command is answered, and taken off the wire.
LEMMA RedisIsIndexed ==
    ASSUME IndexedInv, wire # << >>, NEW ok \in BOOLEAN, RedisAnswers(Head(wire), ok),
           wire' = Tail(wire),
           \/ UNCHANGED <<cached, indexed, pendingSet, cut>>
           \/ ~Reading(Head(wire)) /\ Execute(Head(wire), Pipeline(Head(wire))) /\ (cut => cut')
           \/ cut'
    PROVE  IndexedInv'
<1>1. SUFFICES ASSUME "redis" \notin left', ~cut' PROVE IndexedInv'
  BY DEF IndexedInv
<1>2. "redis" \notin left /\ ~cut
  BY <1>1 DEF RedisAnswers, GoesOnWithout
<1>3. PICK c, t : c = Head(wire) /\ t = Tail(wire)
  OBVIOUS
<1>4. Commands(wire, asked, indexed, pendingSet)
  BY <1>2 DEF IndexedInv
<1>5. /\ OnTheWire(c, asked, indexed, pendingSet)
      /\ c.by = "both" => InBackground(t)
      /\ Commands(t, asked, indexed, pendingSet)
  BY <1>3, <1>4, FirstIsSent
<1>6. /\ cached' # NoRelay => InSets(cached', indexed', pendingSet')
      /\ c.by # "both" => indexed \subseteq indexed' /\ (pendingSet => pendingSet')
  <2>1. CASE UNCHANGED <<cached, indexed, pendingSet>>
    BY <1>2, <2>1 DEF IndexedInv
  <2>2. CASE ~Reading(Head(wire)) /\ Execute(Head(wire), Pipeline(Head(wire)))
    BY <1>3, <1>5, <2>2, PipelineIndexes
  <2>3. QED BY <1>1, <2>1, <2>2
<1>7. PICK b, sets2, pends2 : b = asked' /\ sets2 = indexed' /\ pends2 = pendingSet'
  OBVIOUS
<1>8. CASE c.by = "both"
  <2>1. Commands(t, b, sets2, pends2)
    BY <1>5, <1>8, BackgroundStays
  <2>2. QED BY <1>3, <1>6, <1>7, <2>1 DEF IndexedInv
<1>9. CASE c.by # "both"
  <2>1. asked' = asked
    BY <1>3, <1>9 DEF RedisAnswers, Awaited
  <2>2. Commands(t, b, sets2, pends2)
    <3>1. /\ indexed \subseteq sets2 /\ (pendingSet => pends2)
          /\ Calling(asked) /\ "redis" \in asked.awaits =>
                Calling(b) /\ "redis" \in b.awaits /\ b.write = asked.write
      BY <1>6, <1>7, <1>9, <2>1
    <3>2. Commands(t, asked, indexed, pendingSet)
      BY <1>5
    <3>3. QED BY <3>1, <3>2 DEF Commands, OnTheWire, InSets
  <2>3. QED BY <1>3, <1>6, <1>7, <2>2 DEF IndexedInv
<1>10. QED BY <1>8, <1>9

\* Its pipeline goes to the end of the wire, with what it has read.
LEMMA ReadIsIndexed ==
    ASSUME IndexedInv, wire # << >>, Reading(Head(wire)), cached # NoRelay,
           wire' = Append(Tail(wire), [Head(wire) EXCEPT !.existing = cached]),
           UNCHANGED <<cached, indexed, pendingSet, asked, left, cut>>
    PROVE  IndexedInv'
<1>1. PICK c, t, d : c = Head(wire) /\ t = Tail(wire) /\ d = [c EXCEPT !.existing = cached]
  OBVIOUS
<1>2. SUFFICES ASSUME "redis" \notin left, ~cut
               PROVE  Commands(Append(t, d), asked, indexed, pendingSet)
  BY <1>1 DEF IndexedInv
<1>3. Commands(wire, asked, indexed, pendingSet) /\ InSets(cached, indexed, pendingSet)
  BY <1>2 DEF IndexedInv
<1>4. /\ OnTheWire(c, asked, indexed, pendingSet)
      /\ c.by = "both" => InBackground(t)
      /\ Commands(t, asked, indexed, pendingSet)
  BY <1>1, <1>3, FirstIsSent
<1>5. c.by = "both"
  BY <1>1, <1>4 DEF Reading, OnTheWire
<1>6. /\ DOMAIN d = {"write", "by", "existing"} /\ d.write = c.write /\ d.by = "both"
      /\ d.existing = cached
  BY <1>1, <1>4, <1>5 DEF OnTheWire
<1>7. OnTheWire(d, asked, indexed, pendingSet)
  BY <1>3, <1>4, <1>5, <1>6 DEF OnTheWire
<1>8. QED BY <1>4, <1>5, <1>7, OneMoreIsSent

LEMMA IndexedStep ==
    ASSUME AgainInv, IndexedInv, HybridNext
    PROVE  IndexedInv'
<1>1. CASE Ask
  BY <1>1, AskIsIndexed
<1>2. CASE ReadThrough
  BY <1>2, BackgroundIsIndexed DEF ReadThrough, storeVars
<1>3. CASE Expires
  BY <1>3 DEF Expires, IndexedInv
<1>4. ASSUME NEW s \in statements, PostgresWrites(s) PROVE IndexedInv'
  BY <1>4, PostgresIsIndexed DEF PostgresWrites
<1>5. ASSUME NEW s \in statements, PostgresFails(s) PROVE IndexedInv'
  BY <1>5, PostgresIsIndexed DEF PostgresFails
<1>6. ASSUME NEW s \in statements, SyncReads(s) PROVE IndexedInv'
  <2>1. UNCHANGED <<cached, indexed, pendingSet, asked, left, cut>>
    BY <1>6 DEF SyncReads, storeVars
  <2>2. CASE CacheInBackground(row)
    BY <2>1, <2>2, BackgroundIsIndexed
  <2>3. CASE wire' = wire
    BY <2>1, <2>3 DEF IndexedInv
  <2>4. QED BY <1>6, <2>2, <2>3 DEF SyncReads
<1>7. CASE RedisReads
  <2>1. wire # << >> /\ Reading(Head(wire)) /\ UNCHANGED <<cached, indexed, pendingSet, cut>>
    BY <1>7 DEF RedisReads, storeVars
  <2>2. CASE cached = NoRelay
    <3>1. wire' = Tail(wire) /\ RedisAnswers(Head(wire), Head(wire).write.op = "delete")
      BY <1>7, <2>2 DEF RedisReads
    <3>2. PICK ok \in BOOLEAN : ok = (Head(wire).write.op = "delete")
      OBVIOUS
    <3>3. QED BY <2>1, <3>1, <3>2, RedisIsIndexed
  <2>3. CASE cached # NoRelay
    <3>1. /\ wire' = Append(Tail(wire), [Head(wire) EXCEPT !.existing = cached])
          /\ UNCHANGED <<asked, left>>
      BY <1>7, <2>3 DEF RedisReads
    <3>2. QED BY <2>1, <2>3, <3>1, ReadIsIndexed
  <2>4. QED BY <2>2, <2>3
<1>8. CASE RedisWrites
  BY <1>8, RedisIsIndexed DEF RedisWrites
<1>9. CASE RedisFails
  <2>1. PICK ok \in {FALSE, ~Reading(Head(wire))} : RedisAnswers(Head(wire), ok)
    BY <1>9 DEF RedisFails
  <2>2. ok \in BOOLEAN
    BY <2>1 DEF Reading
  <2>3. /\ wire # << >> /\ wire' = Tail(wire)
        /\ \/ UNCHANGED <<cached, indexed, pendingSet, cut>>
           \/ ~Reading(Head(wire)) /\ Execute(Head(wire), Pipeline(Head(wire))) /\ (cut => cut')
           \/ cut'
    <3>1. CASE UNCHANGED <<cached, expires, indexed, pendingSet, cut>>
      BY <1>9, <3>1 DEF RedisFails
    <3>2. ASSUME NEW done \in SUBSET Pipeline(Head(wire)), ~Reading(Head(wire)),
                 Execute(Head(wire), done), cut' = (cut \/ done # Pipeline(Head(wire)))
          PROVE  (cut' \/ Execute(Head(wire), Pipeline(Head(wire)))) /\ (cut => cut')
      <4>1. cut => cut'
        BY <3>2
      <4>2. CASE done = Pipeline(Head(wire))
        BY <3>2, <4>1, <4>2
      <4>3. CASE done # Pipeline(Head(wire))
        BY <3>2, <4>3
      <4>4. QED BY <4>2, <4>3
    <3>3. QED BY <1>9, <3>1, <3>2 DEF RedisFails
  <2>4. QED BY <2>1, <2>2, <2>3, RedisIsIndexed
<1>10. QED
  BY <1>1, <1>2, <1>3, <1>4, <1>5, <1>6, <1>7, <1>8, <1>9 DEF HybridNext

\* Whatever background saves, updates that read before them and lost answers
\* follow each other, a query by status misses no cached relay, unless a call
\* went on while its commands were under way, or some of a pipeline were lost.
THEOREM QueriesMissNothing == HybridSpec => []CachedIsIndexed
<1>1. AgainInv /\ UNCHANGED hybridVars => AgainInv'
  BY DEF hybridVars, storeVars, AgainInv, AskedTyped
<1>2. IndexedInv /\ UNCHANGED hybridVars => IndexedInv'
  BY DEF hybridVars, storeVars, IndexedInv
<1>3. IndexedInv => CachedIsIndexed
  BY DEF IndexedInv, CachedIsIndexed, InSets
<1>4. QED
  BY <1>1, <1>2, <1>3, AgainInit, AgainStep, IndexedInit, IndexedStep, PTL DEF HybridSpec
-----------------------------------------------------------------------------
(* The archival jobs do their share.                                        *)

\* The place of a row among those that match.
Place(M, r) == Cardinality({s \in M : s < r})
Between(M, a, b) == {r \in M : Place(M, r) \in a .. b}

\* Every place below their number is that of exactly one of them.
LEMMA PlacesAreTaken ==
    ASSUME NEW M, IsFiniteSet(M), M \subseteq Int
    PROVE  [r \in M |-> Place(M, r)] \in Bijection(M, 0 .. Cardinality(M) - 1)
<1> DEFINE f == [r \in M |-> Place(M, r)]
           before(r) == {s \in M : s < r}
<1>0. PICK n \in Nat : n = Cardinality(M)
  BY FS_CardinalityType
<1>1. \A r : IsFiniteSet(before(r)) /\ Cardinality(before(r)) \in Nat
  <2>1. \A r : before(r) \subseteq M
    OBVIOUS
  <2> HIDE DEF before
  <2>2. QED BY <2>1, FS_Subset, FS_CardinalityType
<1>2. \A r \in M : f[r] \in 0 .. n - 1
  <2>1. SUFFICES ASSUME NEW r \in M PROVE Cardinality(before(r)) \in 0 .. n - 1
    BY DEF Place
  <2>2. before(r) \subseteq M \ {r} /\ IsFiniteSet(M \ {r}) /\ Cardinality(M \ {r}) = n - 1
    <3>1. r \in Int /\ ~(r < r)
      BY <2>1
    <3>2. before(r) \subseteq M \ {r}
      BY <3>1
    <3>3. IsFiniteSet(M \ {r}) /\ Cardinality(M \ {r}) = n - 1
      BY <1>0, <2>1, FS_RemoveElement
    <3>4. QED BY <3>2, <3>3
  <2> HIDE DEF before
  <2>3. Cardinality(before(r)) <= n - 1
    BY <2>2, FS_Subset
  <2>4. QED BY <1>0, <1>1, <2>3
<1>3. \A r, q \in M : r < q => f[r] # f[q]
  <2>1. SUFFICES ASSUME NEW r \in M, NEW q \in M, r < q
                 PROVE  Cardinality(before(r)) # Cardinality(before(q))
    BY DEF Place
  <2>2. before(r) \cup {r} \subseteq before(q) /\ r \notin before(r)
    <3>1. r \in Int /\ q \in Int /\ \A s \in M : s \in Int
      BY <2>1
    <3>2. \A s \in M : s < r => s < q
      BY <2>1, <3>1
    <3>3. ~(r < r)
      BY <3>1
    <3>4. QED BY <2>1, <3>2, <3>3
  <2> HIDE DEF before
  <2>3. Cardinality(before(r) \cup {r}) = Cardinality(before(r)) + 1
    BY <1>1, <2>2, FS_AddElement
  <2>4. Cardinality(before(r) \cup {r}) <= Cardinality(before(q))
    BY <1>1, <2>2, FS_Subset
  <2>5. QED BY <1>1, <2>3, <2>4
<1>4. f \in Injection(M, 0 .. n - 1)
  <2>1. f \in [M -> 0 .. n - 1] /\ DOMAIN f = M
    BY <1>2
  <2>2. \A r, q \in M : r # q => r < q \/ q < r
    OBVIOUS
  <2> HIDE DEF f
  <2>3. QED BY <1>3, <2>1, <2>2 DEF Injection, IsInjective
<1>5. IsFiniteSet(0 .. n - 1) /\ Cardinality(0 .. n - 1) = n
  <2>1. 0 \in Int /\ n - 1 \in Int
    OBVIOUS
  <2>2. IsFiniteSet(0 .. n - 1) /\ Cardinality(0 .. n - 1) = IF 0 > n - 1 THEN 0 ELSE (n - 1) - 0 + 1
    BY <2>1, FS_Interval
  <2>3. QED BY <2>2
<1> HIDE DEF f
<1>6. f \in Surjection(M, 0 .. n - 1)
  BY <1>0, <1>4, <1>5, FS_Injection
<1>7. QED BY <1>0, <1>4, <1>6 DEF Bijection, f

\* So as many rows have places from a to b as there are such places.
LEMMA PlacesBetween ==
    ASSUME NEW M, IsFiniteSet(M), M \subseteq Int, NEW a \in Nat, NEW b \in Int,
           a <= b + 1, b < Cardinality(M)
    PROVE  Cardinality(Between(M, a, b)) = (b + 1) - a
<1> DEFINE f == [r \in M |-> Place(M, r)]
           B == Between(M, a, b)
           g == [r \in B |-> Place(M, r)]
<1>0. PICK n \in Nat : n = Cardinality(M)
  BY FS_CardinalityType
<1>1. f \in Bijection(M, 0 .. n - 1)
  BY <1>0, PlacesAreTaken
<1>2. /\ \A r, q \in M : Place(M, r) = Place(M, q) => r = q
      /\ \A k \in 0 .. n - 1 : \E r \in M : Place(M, r) = k
  BY <1>1 DEF Bijection, Injection, Surjection, IsInjective
<1>3. \A k \in a .. b : k \in 0 .. n - 1
  BY <1>0
<1>4. g \in Injection(B, a .. b)
  BY <1>2 DEF Injection, IsInjective, Between
<1>5. g \in Surjection(B, a .. b)
  BY <1>2, <1>3 DEF Surjection, Between
<1>6. IsFiniteSet(B)
  BY FS_Subset DEF Between
<1> HIDE DEF g, B
<1>7. Cardinality(B) = Cardinality(a .. b)
  <2>1. ExistsBijection(B, a .. b)
    BY <1>4, <1>5 DEF Bijection, ExistsBijection
  <2>2. QED BY <1>6, <2>1, FS_Bijection
<1>8. Cardinality(a .. b) = IF a > b THEN 0 ELSE b - a + 1
  <2>1. a \in Int /\ b \in Int
    OBVIOUS
  <2>2. QED BY <2>1, FS_Interval
<1>9. QED BY <1>7, <1>8 DEF B

\* What a batch is: full, or the last that the offset does not pass over; none
\* when the offset has passed over all.
LEMMA BatchSize ==
    ASSUME ArchivalAssumption, NEW limit \in Nat \ {0}, NEW offset \in Nat
    PROVE  /\ IsFiniteSet(Matching) /\ Selected(limit, offset) \subseteq Matching
           /\ Selected(limit, offset) = {} => Cardinality(Matching) <= offset
           /\ \/ Cardinality(Selected(limit, offset)) = limit
              \/ Cardinality(Matching \ Selected(limit, offset)) <= offset
<1>1. IsFiniteSet(Matching) /\ Matching \subseteq Int
  BY FS_Subset DEF ArchivalAssumption, Matching
<1>2. PICK M, n : M = Matching /\ n = Cardinality(M) /\ n \in Nat
  BY <1>1, FS_CardinalityType
<1>3. PICK B : B = Selected(limit, offset)
  OBVIOUS
<1>4. B = {r \in M : Place(M, r) \in offset .. (offset + limit) - 1}
  BY <1>2, <1>3 DEF Selected, Place
<1>5. \A r \in M : Place(M, r) \in 0 .. n - 1
  BY <1>1, <1>2, PlacesAreTaken DEF Bijection, Injection
<1>6. CASE offset + limit <= n
  <2>1. PICK b \in Int : b = (offset + limit) - 1 /\ offset <= b + 1 /\ b < n /\ (b + 1) - offset = limit
    BY <1>2, <1>6
  <2>2. Cardinality(Between(M, offset, b)) = (b + 1) - offset
    BY <1>1, <1>2, <2>1, PlacesBetween
  <2>3. Cardinality(B) = limit
    BY <1>4, <2>1, <2>2 DEF Between
  <2>4. B # {}
    BY <2>3, FS_EmptySet
  <2>5. QED BY <1>1, <1>2, <1>3, <1>4, <2>3, <2>4
<1>7. CASE offset <= n /\ n < offset + limit
  <2>1. PICK b \in Int : b = offset - 1 /\ 0 <= b + 1 /\ b < n /\ (b + 1) - 0 = offset
    BY <1>2, <1>7
  <2>2. Cardinality(Between(M, 0, b)) = (b + 1) - 0
    BY <1>1, <1>2, <2>1, PlacesBetween
  <2>3. M \ B = Between(M, 0, b)
    BY <1>2, <1>4, <1>5, <1>7, <2>1 DEF Between
  <2>4. Cardinality(M \ B) = offset
    BY <2>1, <2>2, <2>3
  <2>5. B = {} => n = offset
    <3>1. B = {} => M \ B = M
      OBVIOUS
    <3>2. QED BY <1>2, <2>4, <3>1
  <2>6. QED BY <1>1, <1>2, <1>3, <1>4, <2>4, <2>5
<1>8. CASE n < offset
  <2>1. Cardinality(M \ B) <= n
    BY <1>1, <1>2, FS_Subset
  <2>2. Cardinality(M \ B) \in Nat
    BY <1>1, <1>2, FS_Subset, FS_CardinalityType
  <2>3. QED BY <1>1, <1>2, <1>3, <1>4, <1>8, <2>1, <2>2
<1>9. QED BY <1>2, <1>6, <1>7, <1>8

-----------------------------------------------------------------------------
Fields == {"at", "to", "dry", "total", "offset", "batch", "alone"}

\* The limit of a run and the size of its next batch.
LimitOf(v) == Least(v.total, MaxRecordsPerRun)
SizeOf(v) == Least(RowsPerBatch, LimitOf(v) - v.offset)

RunTyped(v) ==
    /\ DOMAIN v = Fields
    /\ v.total \in Nat /\ v.offset \in Nat
    /\ v.at = "count" => v.offset = 0
    /\ v.at \in {"select", "file", "delete", "next"} => v.offset < LimitOf(v)

\* A run that deletes, over the rows that match: what the offset counts is gone,
\* unless a batch was not full, and then so is half of the rows.
Pace(v, M) ==
    LET n == Cardinality(M) IN
    /\ v.at = "select" => 2 * n <= v.total \/ v.total = n + v.offset
    /\ v.at \in {"file", "delete"} =>
          /\ v.batch \subseteq M
          /\ \/ 2 * n <= v.total
             \/ /\ v.total = n + v.offset
                /\ Cardinality(v.batch) = SizeOf(v) \/ Cardinality(M \ v.batch) <= v.offset
    /\ v.at = "next" => 2 * n <= v.total \/ v.total = n + (v.offset + SizeOf(v))
    /\ v.at = "done" => 2 * n <= v.total \/ v.total - n >= LimitOf(v)

\* The rows of the first n places are in a file.
FirstFiled(M, n, files) == \A r \in M : Place(M, r) < n => r \in files

\* A run that archives: what the offset counts is in a file, and then the batch.
Progress(v, files, M) ==
    /\ v.at = "select" => FirstFiled(M, v.offset, files)
    /\ v.at = "file" =>
          /\ FirstFiled(M, v.offset, files)
          /\ \A r \in M : Place(M, r) \in v.offset .. (v.offset + SizeOf(v)) - 1 => r \in v.batch
    /\ v.at \in {"delete", "next"} => FirstFiled(M, v.offset + SizeOf(v), files)
    /\ v.at = "delete" => v.batch = {}
    /\ v.at = "done" => FirstFiled(M, LimitOf(v), files)

\* Of a run, as it is between steps, beside the runs of other names.
RunIs(v, files, M) ==
    /\ RunTyped(v)
    /\ v.alone /\ v.to \in {"compress", "delete"} /\ ~v.dry => Pace(v, M)
    /\ v.alone /\ v.to = "archive" => Progress(v, files, M)

BacklogInv ==
    /\ DOMAIN table = Rows /\ DOMAIN job = Jobs
    /\ \A j \in Jobs : Running(j) =>
          /\ RunIs(job[j], filed, Matching)
          /\ job[j].alone => \A k \in Jobs \ {j} : ~Running(k)

LEMMA PlaceIsNatural ==
    ASSUME NEW M, IsFiniteSet(M), M \subseteq Int
    PROVE  \A r \in M : Place(M, r) \in Nat /\ Place(M, r) < Cardinality(M)
<1>1. \A r \in M : Place(M, r) \in 0 .. Cardinality(M) - 1
  BY PlacesAreTaken DEF Bijection, Injection
<1>2. Cardinality(M) \in Nat
  BY FS_CardinalityType
<1>3. QED BY <1>1, <1>2

\* More files do not take a row out of one.
LEMMA ProgressStays ==
    ASSUME NEW v, NEW M, NEW files, NEW more, files \subseteq more, Progress(v, files, M)
    PROVE  Progress(v, more, M)
BY DEF Progress, FirstFiled

LEMMA RunIsNotIdle == ASSUME NEW v, RunTyped(v) PROVE v # NotRunning
<1>1. "dry" \notin DOMAIN NotRunning
  BY DEF NotRunning
<1>2. QED BY <1>1 DEF RunTyped, Fields

LEMMA MatchingIsFinite == ArchivalAssumption => IsFiniteSet(Matching) /\ Cardinality(Matching) \in Nat
BY FS_Subset, FS_CardinalityType DEF ArchivalAssumption, Matching

LEMMA LeastIs ==
    ASSUME NEW a \in Int, NEW b \in Int
    PROVE  Least(a, b) \in Int /\ Least(a, b) <= a /\ Least(a, b) <= b /\ Least(a, b) \in {a, b}
BY DEF Least

\* The limits of a typed run.
LEMMA RunNumbers ==
    ASSUME ArchivalAssumption, NEW v, RunTyped(v)
    PROVE  /\ LimitOf(v) \in Nat /\ LimitOf(v) <= v.total
           /\ SizeOf(v) \in Int
           /\ v.offset < LimitOf(v) =>
                SizeOf(v) \in Nat \ {0} /\ v.offset + SizeOf(v) <= LimitOf(v)
<1>1. PICK t, o, r, b : t = v.total /\ o = v.offset /\ r = RowsPerBatch /\ b = MaxRecordsPerRun
  OBVIOUS
<1>2. t \in Nat /\ o \in Nat /\ r \in Nat \ {0} /\ b \in Nat \ {0}
  BY <1>1 DEF ArchivalAssumption, RunTyped
<1>3. PICK l : l = Least(t, b) /\ l \in Int /\ l <= t /\ l <= b /\ l \in {t, b}
  BY <1>2, LeastIs
<1>d. PICK d : d = l - o /\ d \in Int
  BY <1>2, <1>3
<1>4. PICK s : s = Least(r, d) /\ s \in Int /\ s <= r /\ s <= d /\ s \in {r, d}
  <2>1. r \in Int /\ d \in Int
    BY <1>2, <1>d
  <2>2. Least(r, d) \in Int /\ Least(r, d) <= r /\ Least(r, d) <= d /\ Least(r, d) \in {r, d}
    BY <2>1, LeastIs
  <2>3. QED BY <2>2
<1>5. l = LimitOf(v) /\ s = SizeOf(v)
  BY <1>1, <1>3, <1>4, <1>d DEF LimitOf, SizeOf
<1>6. /\ l \in Nat /\ l <= t
      /\ s \in Int
      /\ o < l => s \in Nat \ {0} /\ o + s <= l
  BY <1>2, <1>3, <1>4, <1>d
<1>7. t = v.total /\ o = v.offset
  BY <1>1
<1>8. QED BY <1>5, <1>6, <1>7

LEMMA BacklogInit == ArchivalInit => BacklogInv
BY DEF ArchivalInit, BacklogInv, Running

\* One job goes on, and the table stays as it is.
LEMMA OneJobGoesOn ==
    ASSUME BacklogInv, NEW j \in Jobs, NEW v, job' = [job EXCEPT ![j] = v], table' = table,
           filed \subseteq filed', Running(j),
           v # NotRunning => RunIs(v, filed', Matching) /\ v.alone = job[j].alone
    PROVE  BacklogInv'
<1>1. PICK g, F : g = job' /\ F = filed'
  OBVIOUS
<1>2. DOMAIN g = Jobs /\ g[j] = v /\ \A k \in Jobs \ {j} : g[k] = job[k]
  BY <1>1 DEF BacklogInv
<1>3. Matching' = Matching
  BY DEF Matching
<1>4. \A k \in Jobs : g[k] # NotRunning =>
          /\ RunIs(g[k], F, Matching)
          /\ g[k].alone => \A l \in Jobs \ {k} : g[l] = NotRunning
  <2>1. SUFFICES ASSUME NEW k \in Jobs, g[k] # NotRunning
                 PROVE  /\ RunIs(g[k], F, Matching)
                        /\ g[k].alone => \A l \in Jobs \ {k} : g[l] = NotRunning
    OBVIOUS
  <2>2. CASE k = j
    BY <1>1, <1>2, <2>1, <2>2 DEF BacklogInv, Running
  <2>3. CASE k # j
    <3>1. g[k] = job[k] /\ Running(k)
      BY <1>2, <2>1, <2>3 DEF Running
    <3>2. RunIs(job[k], filed, Matching) /\ ~job[k].alone
      BY <2>3, <3>1 DEF BacklogInv
    <3>3. RunIs(job[k], F, Matching)
      BY <3>2 DEF RunIs
    <3>4. QED BY <3>1, <3>2, <3>3
  <2>4. QED BY <2>2, <2>3
<1>5. QED BY <1>1, <1>2, <1>3, <1>4 DEF BacklogInv, Running

LEMMA ExecuteIsKept ==
    ASSUME BacklogInv, NEW j \in Jobs, ExecutePolicy(j)
    PROVE  BacklogInv'
<1>1. PICK d \in BOOLEAN :
        job' = [k \in Jobs |->
            IF k = j THEN [at |-> "count", to |-> policy, dry |-> d, total |-> 0, offset |-> 0,
                           batch |-> {}, alone |-> \A l \in Jobs : ~Running(l)]
            ELSE IF Running(k) THEN [job[k] EXCEPT !.alone = FALSE] ELSE job[k]]
  BY DEF ExecutePolicy
<1>2. PICK g : g = job'
  OBVIOUS
<1>3. table' = table /\ filed' = filed /\ Matching' = Matching /\ ~Running(j)
  BY DEF ExecutePolicy, Matching
<1>4. /\ DOMAIN g = Jobs
      /\ g[j] = [at |-> "count", to |-> policy, dry |-> d, total |-> 0, offset |-> 0,
                 batch |-> {}, alone |-> \A l \in Jobs : ~Running(l)]
      /\ \A k \in Jobs \ {j} : g[k] = IF Running(k) THEN [job[k] EXCEPT !.alone = FALSE] ELSE job[k]
  BY <1>1, <1>2
<1>5. RunIs(g[j], filed, Matching)
  BY <1>4 DEF RunIs, RunTyped, Fields, Pace, Progress
<1>6. g[j].alone => \A k \in Jobs \ {j} : g[k] = NotRunning
  BY <1>4 DEF Running
<1>7. \A k \in Jobs \ {j} : g[k] # NotRunning => RunIs(g[k], filed, Matching) /\ g[k].alone = FALSE
  <2>1. SUFFICES ASSUME NEW k \in Jobs \ {j}, g[k] # NotRunning
                 PROVE  RunIs(g[k], filed, Matching) /\ g[k].alone = FALSE
    OBVIOUS
  <2>2. Running(k) /\ g[k] = [job[k] EXCEPT !.alone = FALSE]
    BY <1>4, <2>1 DEF Running
  <2>3. RunIs(job[k], filed, Matching)
    BY <2>2 DEF BacklogInv
  <2>4. QED BY <2>2, <2>3 DEF RunIs, RunTyped, LimitOf, Fields
<1>8. QED BY <1>2, <1>3, <1>4, <1>5, <1>6, <1>7 DEF BacklogInv, Running


LEMMA CountIsKept ==
    ASSUME ArchivalAssumption, BacklogInv, NEW j \in Jobs, Count(j)
    PROVE  BacklogInv'
<1>1. PICK v : v = job[j] /\ v.at = "count" /\ RunIs(v, filed, Matching) /\ Running(j) /\ DOMAIN job = Jobs
  BY DEF Count, AtStep, BacklogInv
<1>2. PICK n : n = Cardinality(Matching) /\ n \in Nat
  BY MatchingIsFinite
<1>3. CASE Matching = {}
  <2>1. job' = [job EXCEPT ![j] = NotRunning] /\ table' = table /\ filed' = filed
    BY <1>3 DEF Count
  <2>2. QED BY <1>1, <2>1, OneJobGoesOn
<1>4. CASE Matching # {}
  <2>1. /\ job' = [job EXCEPT ![j] = [v EXCEPT !.at = "select", !.total = n]]
        /\ table' = table /\ filed' = filed
    BY <1>1, <1>2, <1>4 DEF Count
  <2>2. PICK w : w = [v EXCEPT !.at = "select", !.total = n]
    OBVIOUS
  <2>3. /\ DOMAIN w = Fields /\ w.at = "select" /\ w.total = n /\ w.offset = 0 /\ w.alone = v.alone
    BY <1>1, <2>2 DEF RunIs, RunTyped, Fields
  <2>4. n > 0
    BY <1>2, <1>4, MatchingIsFinite, FS_EmptySet
  <2>5. 0 < LimitOf(w)
    BY <1>2, <2>3, <2>4 DEF LimitOf, Least, ArchivalAssumption
  <2>6. RunTyped(w)
    BY <1>2, <2>3, <2>5 DEF RunTyped
  <2>7. Pace(w, Matching)
    BY <1>2, <2>3 DEF Pace
  <2>8. Progress(w, filed, Matching)
    <3>1. IsFiniteSet(Matching) /\ Matching \subseteq Int
      BY MatchingIsFinite DEF ArchivalAssumption, Matching
    <3>2. \A r \in Matching : ~(Place(Matching, r) < 0)
      <4>1. \A r \in Matching : Place(Matching, r) \in Nat
        BY <3>1, PlaceIsNatural
      <4>2. QED BY <4>1
    <3>3. QED BY <2>3, <3>2 DEF Progress, FirstFiled
  <2>9. RunIs(w, filed, Matching)
    BY <2>3, <2>6, <2>7, <2>8 DEF RunIs
  <2>10. QED BY <1>1, <2>1, <2>2, <2>3, <2>9, OneJobGoesOn
<1>5. QED BY <1>3, <1>4

LEMMA SelectIsKept ==
    ASSUME ArchivalAssumption, BacklogInv, NEW j \in Jobs, Select(j)
    PROVE  BacklogInv'
<1>1. PICK v : v = job[j] /\ v.at = "select" /\ RunIs(v, filed, Matching) /\ Running(j) /\ DOMAIN job = Jobs
  BY DEF Select, AtStep, BacklogInv
<1>2. RunTyped(v) /\ v.offset \in Nat /\ v.total \in Nat /\ v.offset < LimitOf(v)
  BY <1>1 DEF RunIs, RunTyped
<1>3. PICK M, n, o, t : M = Matching /\ n = Cardinality(M) /\ n \in Nat /\ o = v.offset /\ t = v.total
  BY MatchingIsFinite
<1>4. PICK size \in Nat \ {0} : size = SizeOf(v)
  BY <1>2, RunNumbers
<1>5. PICK batch : batch = Selected(size, o)
  OBVIOUS
<1>6. /\ batch \subseteq M
      /\ batch = {} => n <= o
      /\ Cardinality(batch) = size \/ Cardinality(M \ batch) <= o
  BY <1>2, <1>3, <1>4, <1>5, BatchSize
<1>7. PICK w : w = [v EXCEPT !.at = IF batch = {} THEN "done" ELSE "file", !.batch = batch]
  OBVIOUS
<1>8. job' = [job EXCEPT ![j] = w] /\ table' = table /\ filed' = filed
  <2>1. Least(RowsPerBatch, Limit(j) - job[j].offset) = size
    BY <1>1, <1>4 DEF SizeOf, LimitOf, Limit
  <2>2. QED BY <1>1, <1>3, <1>5, <1>7, <2>1 DEF Select
<1>9. /\ DOMAIN w = Fields /\ w.at = (IF batch = {} THEN "done" ELSE "file") /\ w.batch = batch
      /\ w.total = t /\ w.offset = o /\ w.alone = v.alone /\ w.dry = v.dry /\ w.to = v.to
  BY <1>2, <1>3, <1>7 DEF RunTyped, Fields
<1>10. LimitOf(w) = LimitOf(v) /\ SizeOf(w) = size
  BY <1>3, <1>4, <1>9 DEF LimitOf, SizeOf
<1>11. RunTyped(w)
  BY <1>2, <1>3, <1>9, <1>10 DEF RunTyped
<1>12. Pace(v, M) => Pace(w, M)
  <2>1. SUFFICES ASSUME Pace(v, M) PROVE Pace(w, M)
    OBVIOUS
  <2>2. 2 * n <= t \/ t = n + o
    BY <1>1, <1>3, <2>1 DEF Pace
  <2>3. CASE batch = {}
    <3>1. w.at = "done" /\ n <= o
      BY <1>6, <1>9, <2>3
    <3>2. 2 * n <= t
      BY <1>2, <1>3, <2>2, <3>1
    <3>3. QED BY <1>3, <1>9, <3>1, <3>2 DEF Pace
  <2>4. CASE batch # {}
    <3>1. w.at = "file"
      BY <1>9, <2>4
    <3>2. QED BY <1>3, <1>6, <1>9, <1>10, <2>2, <3>1 DEF Pace
  <2>5. QED BY <2>3, <2>4
<1>13. Progress(v, filed, M) => Progress(w, filed, M)
  <2>1. SUFFICES ASSUME Progress(v, filed, M) PROVE Progress(w, filed, M)
    OBVIOUS
  <2>2. FirstFiled(M, o, filed)
    BY <1>1, <1>3, <2>1 DEF Progress
  <2>3. CASE batch = {}
    <3>1. w.at = "done" /\ n <= o
      BY <1>6, <1>9, <2>3
    <3>2. IsFiniteSet(M) /\ M \subseteq Int
      BY <1>3, MatchingIsFinite DEF ArchivalAssumption, Matching
    <3>3. \A r \in M : Place(M, r) \in Nat /\ Place(M, r) < n
      BY <1>3, <3>2, PlaceIsNatural
    <3>4. \A r \in M : Place(M, r) < o
      BY <1>2, <1>3, <3>1, <3>3
    <3>5. M \subseteq filed
      BY <2>2, <3>4 DEF FirstFiled
    <3>6. QED BY <3>1, <3>5 DEF Progress, FirstFiled
  <2>4. CASE batch # {}
    <3>1. w.at = "file"
      BY <1>9, <2>4
    <3>2. batch = {r \in M : Place(M, r) \in o .. (o + size) - 1}
      <4>1. o \in Nat /\ o + size - 1 = (o + size) - 1
        BY <1>2, <1>3
      <4>2. Selected(size, o) = {r \in Matching : Place(Matching, r) \in o .. (o + size) - 1}
        BY <4>1 DEF Selected, Place
      <4>3. QED BY <1>3, <1>5, <4>2
    <3>3. \A r \in M : Place(M, r) \in w.offset .. (w.offset + SizeOf(w)) - 1 => r \in w.batch
      BY <1>9, <1>10, <3>2
    <3>4. FirstFiled(M, w.offset, filed)
      BY <1>9, <2>2
    <3>5. QED BY <3>1, <3>3, <3>4 DEF Progress
  <2>5. QED BY <2>3, <2>4
<1>14. RunIs(w, filed, Matching)
  BY <1>1, <1>3, <1>9, <1>11, <1>12, <1>13 DEF RunIs
<1>15. QED BY <1>1, <1>8, <1>9, <1>14, OneJobGoesOn

LEMMA FileIsKept ==
    ASSUME ArchivalAssumption, BacklogInv, NEW j \in Jobs, File(j)
    PROVE  BacklogInv'
<1>1. PICK v : v = job[j] /\ v.at = "file" /\ RunIs(v, filed, Matching) /\ Running(j) /\ DOMAIN job = Jobs
  BY DEF File, AtStep, BacklogInv
<1>2. PICK w, F, B : /\ w = [v EXCEPT !.batch = B, !.at = IF v.dry THEN "next" ELSE "delete"]
                     /\ F = (IF v.to = "archive" THEN filed \cup v.batch ELSE filed)
                     /\ B = (IF v.to = "archive" THEN {} ELSE v.batch)
  OBVIOUS
<1>3. job' = [job EXCEPT ![j] = w] /\ table' = table /\ filed' = F
  BY <1>1, <1>2 DEF File
<1>4. /\ DOMAIN w = Fields /\ w.at = (IF v.dry THEN "next" ELSE "delete") /\ w.batch = B
      /\ w.total = v.total /\ w.offset = v.offset /\ w.alone = v.alone /\ w.dry = v.dry /\ w.to = v.to
  BY <1>1, <1>2 DEF RunIs, RunTyped, Fields
<1>5. LimitOf(w) = LimitOf(v) /\ SizeOf(w) = SizeOf(v)
  BY <1>4 DEF LimitOf, SizeOf
<1>6. RunTyped(w)
  BY <1>1, <1>4, <1>5 DEF RunIs, RunTyped
<1>7. v.to # "archive" /\ ~v.dry /\ Pace(v, Matching) => Pace(w, Matching)
  BY <1>1, <1>2, <1>4, <1>5 DEF Pace
<1>8. v.to = "archive" /\ Progress(v, filed, Matching) => Progress(w, F, Matching)
  <2>1. SUFFICES ASSUME v.to = "archive", Progress(v, filed, Matching)
                 PROVE  Progress(w, F, Matching)
    OBVIOUS
  <2>2. PICK o, size : o = v.offset /\ size = SizeOf(v) /\ o \in Nat /\ size \in Nat \ {0}
    BY <1>1, RunNumbers DEF RunIs, RunTyped
  <2>3. IsFiniteSet(Matching) /\ Matching \subseteq Int
    BY MatchingIsFinite DEF ArchivalAssumption, Matching
  <2>4. \A r \in Matching : Place(Matching, r) \in Nat
    BY <2>3, PlaceIsNatural
  <2>5. /\ \A r \in Matching : Place(Matching, r) < o => r \in F
        /\ \A r \in Matching : Place(Matching, r) \in o .. (o + size) - 1 => r \in F
    BY <1>1, <1>2, <2>1, <2>2 DEF Progress, FirstFiled
  <2>6. \A r \in Matching : Place(Matching, r) < o + size => r \in F
    BY <2>2, <2>4, <2>5
  <2>7. FirstFiled(Matching, w.offset + SizeOf(w), F)
    BY <1>4, <1>5, <2>2, <2>6 DEF FirstFiled
  <2>8. w.batch = {}
    BY <1>2, <1>4, <2>1
  <2>9. QED BY <1>4, <2>7, <2>8 DEF Progress
<1>9. RunIs(w, F, Matching)
  BY <1>1, <1>4, <1>6, <1>7, <1>8 DEF RunIs
<1>10. filed \subseteq F
  BY <1>2
<1>11. QED BY <1>1, <1>3, <1>4, <1>9, <1>10, OneJobGoesOn

\* The rows of the batch go.
LEMMA DeleteIsKept ==
    ASSUME ArchivalAssumption, BacklogInv, NEW j \in Jobs, Delete(j)
    PROVE  BacklogInv'
<1>1. PICK v : v = job[j] /\ v.at = "delete" /\ RunIs(v, filed, Matching) /\ Running(j) /\ DOMAIN job = Jobs
  BY DEF Delete, AtStep, BacklogInv
<1>2. PICK w, g : w = [v EXCEPT !.at = "next"] /\ g = job' /\ g = [job EXCEPT ![j] = w]
  BY <1>1 DEF Delete
<1>3. /\ DOMAIN w = Fields /\ w.at = "next" /\ w.batch = v.batch
      /\ w.total = v.total /\ w.offset = v.offset /\ w.alone = v.alone /\ w.dry = v.dry /\ w.to = v.to
  BY <1>1, <1>2 DEF RunIs, RunTyped, Fields
<1>4. PICK M, N, B : M = Matching /\ N = Matching' /\ B = v.batch
  OBVIOUS
<1>5. /\ table' = [r \in Rows |-> IF r \in B THEN "gone" ELSE table[r]] /\ filed' = filed
  BY <1>1, <1>4 DEF Delete
<1>6. N = M \ B
  <2>1. \A r \in Rows : table'[r] = "ended" <=> table[r] = "ended" /\ r \notin B
    BY <1>5
  <2>2. QED BY <1>4, <2>1 DEF Matching
<1>7. B = {} => N = M
  BY <1>6
<1>8. PICK n, m, o, t, size : /\ n = Cardinality(M) /\ m = Cardinality(N) /\ n \in Nat /\ m \in Nat
                              /\ o = v.offset /\ t = v.total /\ size = SizeOf(v) /\ m <= n
                              /\ o \in Nat /\ t \in Nat /\ size \in Nat \ {0}
  <2>1. IsFiniteSet(M) /\ IsFiniteSet(N) /\ Cardinality(N) <= Cardinality(M)
    BY <1>4, <1>6, MatchingIsFinite, FS_Subset
  <2>2. Cardinality(M) \in Nat /\ Cardinality(N) \in Nat
    BY <2>1, FS_CardinalityType
  <2>3. RunTyped(v) /\ v.offset < LimitOf(v)
    BY <1>1 DEF RunIs, RunTyped
  <2>4. SizeOf(v) \in Nat \ {0}
    BY <2>3, RunNumbers
  <2>5. v.offset \in Nat /\ v.total \in Nat
    BY <2>3 DEF RunTyped
  <2>6. QED BY <2>1, <2>2, <2>4, <2>5
<1>9. LimitOf(w) = LimitOf(v) /\ SizeOf(w) = size
  BY <1>3, <1>8 DEF LimitOf, SizeOf
<1>10. RunTyped(w)
  BY <1>1, <1>3, <1>9 DEF RunIs, RunTyped
<1>11. Pace(v, M) => Pace(w, N)
  <2>1. SUFFICES ASSUME Pace(v, M) PROVE Pace(w, N)
    OBVIOUS
  <2>2. B \subseteq M /\ (2 * n <= t \/ (t = n + o /\ (Cardinality(B) = size \/ m <= o)))
    BY <1>1, <1>4, <1>6, <1>8, <2>1 DEF Pace
  <2>3. Cardinality(B) = size => m = n - size
    <3>1. IsFiniteSet(M) /\ IsFiniteSet(B) /\ M \cap B = B
      BY <1>4, <2>2, MatchingIsFinite, FS_Subset
    <3>2. Cardinality(M \ B) = Cardinality(M) - Cardinality(M \cap B)
      BY <3>1, FS_Difference
    <3>3. QED BY <1>6, <1>8, <3>1, <3>2
  <2>4. 2 * m <= t \/ t = m + (o + size)
    <3>1. CASE 2 * n <= t
      BY <1>8, <3>1
    <3>2. CASE t = n + o /\ Cardinality(B) = size
      BY <1>8, <2>3, <3>2
    <3>3. CASE t = n + o /\ m <= o
      BY <1>8, <3>3
    <3>4. QED BY <2>2, <3>1, <3>2, <3>3
  <2>5. QED BY <1>3, <1>8, <1>9, <2>4 DEF Pace
<1>12. RunIs(w, filed, N)
  <2>1. Progress(v, filed, M) => Progress(w, filed, N)
    BY <1>1, <1>3, <1>4, <1>7, <1>8, <1>9 DEF Progress
  <2>2. QED BY <1>1, <1>3, <1>4, <1>10, <1>11, <2>1 DEF RunIs
<1>13. \A k \in Jobs \ {j} : g[k] # NotRunning => RunIs(g[k], filed, N) /\ ~g[k].alone
  <2>1. SUFFICES ASSUME NEW k \in Jobs \ {j}, g[k] # NotRunning
                 PROVE  RunIs(g[k], filed, N) /\ ~g[k].alone
    OBVIOUS
  <2>2. g[k] = job[k] /\ Running(k)
    BY <1>1, <1>2, <2>1 DEF Running
  <2>3. RunIs(job[k], filed, Matching) /\ ~job[k].alone
    BY <1>1, <2>1, <2>2 DEF BacklogInv
  <2>4. QED BY <2>2, <2>3 DEF RunIs
<1>14. DOMAIN g = Jobs /\ g[j] = w /\ \A k \in Jobs \ {j} : g[k] = job[k]
  BY <1>1, <1>2
<1>15. w.alone => \A k \in Jobs \ {j} : g[k] = NotRunning
  BY <1>1, <1>3, <1>14 DEF BacklogInv, Running
<1>16. DOMAIN table' = Rows
  BY <1>5
<1>17. QED
  BY <1>2, <1>4, <1>5, <1>12, <1>13, <1>14, <1>15, <1>16 DEF BacklogInv, Running

LEMMA NextIsKept ==
    ASSUME ArchivalAssumption, BacklogInv, NEW j \in Jobs, NextRows(j)
    PROVE  BacklogInv'
<1>1. PICK v : v = job[j] /\ v.at = "next" /\ RunIs(v, filed, Matching) /\ Running(j) /\ DOMAIN job = Jobs
  BY DEF NextRows, AtStep, BacklogInv
<1>2. RunTyped(v) /\ v.offset \in Nat /\ v.total \in Nat /\ v.offset < LimitOf(v)
  BY <1>1 DEF RunIs, RunTyped
<1>3. PICK lim, size : /\ lim = LimitOf(v) /\ size = SizeOf(v) /\ lim \in Nat /\ size \in Nat \ {0}
  BY <1>2, RunNumbers
<1>4. PICK n, o, t, p : /\ n = Cardinality(Matching) /\ n \in Nat /\ o = v.offset /\ t = v.total
                        /\ p = o + size /\ p \in Nat /\ o \in Nat /\ t \in Nat
  BY <1>2, <1>3, MatchingIsFinite
<1>5. PICK w : w = [v EXCEPT !.offset = p, !.at = IF p < lim THEN "select" ELSE "done"]
  OBVIOUS
<1>6. job' = [job EXCEPT ![j] = w] /\ table' = table /\ filed' = filed
  <2>1. job[j].offset + Least(RowsPerBatch, Limit(j) - job[j].offset) = p /\ Limit(j) = lim
    BY <1>1, <1>3, <1>4 DEF SizeOf, LimitOf, Limit
  <2>2. QED BY <1>1, <1>5, <2>1 DEF NextRows
<1>7. /\ DOMAIN w = Fields /\ w.at = (IF p < lim THEN "select" ELSE "done")
      /\ w.total = t /\ w.offset = p /\ w.alone = v.alone /\ w.dry = v.dry /\ w.to = v.to
  BY <1>2, <1>4, <1>5 DEF RunTyped, Fields
<1>8. LimitOf(w) = lim
  BY <1>3, <1>4, <1>7 DEF LimitOf
<1>9. RunTyped(w)
  BY <1>4, <1>7, <1>8 DEF RunTyped
<1>10. Pace(v, Matching) => Pace(w, Matching)
  <2>1. SUFFICES ASSUME Pace(v, Matching) PROVE Pace(w, Matching)
    OBVIOUS
  <2>2. 2 * n <= t \/ t = n + p
    BY <1>1, <1>3, <1>4, <2>1 DEF Pace
  <2>3. CASE p < lim
    <3>1. w.at = "select"
      BY <1>7, <2>3
    <3>2. QED BY <1>4, <1>7, <2>2, <3>1 DEF Pace
  <2>4. CASE ~(p < lim)
    <3>1. w.at = "done"
      BY <1>7, <2>4
    <3>2. t = n + p => t - n >= lim
      BY <1>3, <1>4, <2>4
    <3>3. QED BY <1>4, <1>7, <1>8, <2>2, <3>1, <3>2 DEF Pace
  <2>5. QED BY <2>3, <2>4
<1>11. Progress(v, filed, Matching) => Progress(w, filed, Matching)
  <2>1. SUFFICES ASSUME Progress(v, filed, Matching) PROVE Progress(w, filed, Matching)
    OBVIOUS
  <2>2. FirstFiled(Matching, p, filed)
    BY <1>1, <1>3, <1>4, <2>1 DEF Progress
  <2>3. CASE p < lim
    BY <1>7, <2>2, <2>3 DEF Progress
  <2>4. CASE ~(p < lim)
    <3>1. IsFiniteSet(Matching) /\ Matching \subseteq Int
      BY MatchingIsFinite DEF ArchivalAssumption, Matching
    <3>2. \A r \in Matching : Place(Matching, r) \in Nat
      BY <3>1, PlaceIsNatural
    <3>3. FirstFiled(Matching, lim, filed)
      BY <1>3, <1>4, <2>2, <2>4, <3>2 DEF FirstFiled
    <3>4. QED BY <1>7, <1>8, <2>4, <3>3 DEF Progress
  <2>5. QED BY <2>3, <2>4
<1>12. RunIs(w, filed, Matching)
  BY <1>1, <1>7, <1>9, <1>10, <1>11 DEF RunIs
<1>13. QED BY <1>1, <1>6, <1>7, <1>12, OneJobGoesOn

LEMMA RowChangeIsKept ==
    ASSUME BacklogInv, NEW r \in Rows, RowChanges(r)
    PROVE  BacklogInv'
<1>1. PICK g : g = job' /\ g = [j \in Jobs |-> IF Running(j) THEN [job[j] EXCEPT !.alone = FALSE] ELSE job[j]]
  BY DEF RowChanges
<1>2. DOMAIN table' = Rows /\ filed' = filed
  BY DEF RowChanges, BacklogInv
<1>3. \A j \in Jobs : g[j] # NotRunning => RunIs(g[j], filed, Matching') /\ g[j].alone = FALSE
  <2>1. SUFFICES ASSUME NEW j \in Jobs, g[j] # NotRunning
                 PROVE  RunIs(g[j], filed, Matching') /\ g[j].alone = FALSE
    OBVIOUS
  <2>2. Running(j) /\ g[j] = [job[j] EXCEPT !.alone = FALSE]
    BY <1>1, <2>1 DEF Running
  <2>3. RunIs(job[j], filed, Matching)
    BY <2>2 DEF BacklogInv
  <2>4. QED BY <2>2, <2>3 DEF RunIs, RunTyped, LimitOf, Fields
<1>4. QED BY <1>1, <1>2, <1>3 DEF BacklogInv, Running

LEMMA BacklogStep ==
    ASSUME ArchivalAssumption, BacklogInv, ArchivalNext
    PROVE  BacklogInv'
<1>1. CASE SetPolicy
  BY <1>1 DEF SetPolicy, BacklogInv, Running, Matching
<1>2. ASSUME NEW j \in Jobs, Ends(j) PROVE BacklogInv'
  BY <1>2, OneJobGoesOn DEF Ends
<1>3. QED
  BY <1>1, <1>2, ExecuteIsKept, CountIsKept, SelectIsKept, FileIsKept, DeleteIsKept, NextIsKept,
     RowChangeIsKept DEF ArchivalNext

\* For any number of rows, any sizes of batches and runs and any interleaving: a
\* run that nobody disturbs files the first rows it may take, every one of them,
\* if it archives; and if it deletes, takes half of what it counted, or all it
\* may, though its offset passes over rows.
THEOREM RunsDoWhatTheyMay == ArchivalSpec => []RunsDoTheirShare
<1>1. BacklogInv /\ UNCHANGED archivalVars => BacklogInv'
  BY DEF archivalVars, BacklogInv, Running, Matching
<1>2. BacklogInv => RunsDoTheirShare
  <2>1. SUFFICES ASSUME BacklogInv, NEW j \in Jobs, AtStep(j, "done"), job[j].alone
                 PROVE  /\ job[j].to = "archive" => FilesAll(j)
                        /\ job[j].to \in {"compress", "delete"} /\ ~job[j].dry => TakesHalf(j)
    BY DEF RunsDoTheirShare
  <2>2. Limit(j) = LimitOf(job[j]) /\ job[j].at = "done" /\ RunIs(job[j], filed, Matching)
    BY <2>1 DEF Limit, LimitOf, BacklogInv, AtStep
  <2>3. ASSUME job[j].to = "archive" PROVE FilesAll(j)
    <3>1. PICK n : n = LimitOf(job[j]) /\ n \in Nat
      BY <2>2, ArchivalAssumption, RunNumbers DEF RunIs
    <3>2. FirstFiled(Matching, n, filed)
      BY <2>1, <2>2, <2>3, <3>1 DEF RunIs, Progress
    <3>3. \A r \in Selected(n, 0) : r \in Matching /\ Place(Matching, r) \in 0 .. 0 + n - 1
      BY DEF Selected, Place
    <3>4. \A r \in Selected(n, 0) : r \in Matching /\ Place(Matching, r) < n
      BY <3>1, <3>3
    <3>5. QED BY <2>2, <3>1, <3>2, <3>4 DEF FilesAll, FirstFiled
  <2>4. ASSUME job[j].to \in {"compress", "delete"}, ~job[j].dry PROVE TakesHalf(j)
    BY <2>1, <2>2, <2>4 DEF RunIs, Pace, TakesHalf
  <2>5. QED BY <2>3, <2>4
<1>3. QED
  BY <1>1, <1>2, BacklogInit, BacklogStep, ArchivalAssumption, PTL DEF ArchivalSpec
=============================================================================
