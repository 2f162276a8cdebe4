-------------------------- MODULE ComponentsProofs --------------------------
(***************************************************************************)
(* What holds of the components that Components checks, for every value of  *)
(* their constants.                                                         *)
(***************************************************************************)
EXTENDS SwapAndPop, RecoveryService, CosmosMonitor, ConnectionPool, RouterResolution,
        Router, FiniteSums, TLAPS

-----------------------------------------------------------------------------
(* The loops that delete from an array, for arrays of every length.         *)

\* What the loops keep true: nothing is lost that is not doomed, nothing comes
\* back, and what the index has passed is not doomed.
Progress ==
    /\ Distinct(list) /\ Members(list) \subseteq Members(given)
    /\ Members(given) \ doomed \subseteq Members(list)
    /\ pc = "sweep" => /\ i <= Len(list)
                       /\ \A j \in i + 1 .. Len(list) : list[j] \notin doomed
    /\ pc = "remove" => /\ i >= 1
                        /\ \A j \in 1 .. i - 1 : j <= Len(list) => list[j] \notin doomed
    /\ pc = "remove" => \E e \in Elements : doomed = {e}
    /\ pc = "done" => Members(list) \cap doomed = {}

LoopInv == TypeOK /\ Progress

\* What the move and the pop leave of a list without duplicates.
LEMMA DropRemovesOne ==
    ASSUME NEW l \in Seq(Elements), NEW k \in 1 .. Len(l), Distinct(l),
           NEW m, m = [j \in 1 .. Len(l) - 1 |-> IF j = k THEN l[Len(l)] ELSE l[j]]
    PROVE  /\ m \in Seq(Elements) /\ Len(m) = Len(l) - 1
           /\ Distinct(m)
           /\ Members(m) = Members(l) \ {l[k]}
<1>1. Len(l) \in Nat /\ Len(l) >= 1 /\ \A j \in 1 .. Len(l) : l[j] \in Elements
  OBVIOUS
<1>2. m \in Seq(Elements) /\ Len(m) = Len(l) - 1
  BY <1>1
<1>3. \A j \in 1 .. Len(m) : m[j] = IF j = k THEN l[Len(l)] ELSE l[j]
  BY <1>1, <1>2
<1>4. Distinct(m)
  BY <1>1, <1>2, <1>3 DEF Distinct
<1>5. ASSUME NEW j \in 1 .. Len(m) PROVE m[j] \in Members(l) \ {l[k]}
  BY <1>1, <1>2, <1>3 DEF Members, Distinct
<1>6. ASSUME NEW j \in 1 .. Len(l), l[j] # l[k] PROVE l[j] \in Members(m)
  <2>1. CASE j = Len(l)
    <3>1. k \in 1 .. Len(m) /\ m[k] = l[j]
      BY <1>1, <1>2, <1>3, <1>6, <2>1
    <3>2. QED BY <3>1 DEF Members
  <2>2. CASE j < Len(l)
    <3>1. j \in 1 .. Len(m) /\ m[j] = l[j]
      BY <1>1, <1>2, <1>3, <1>6, <2>2
    <3>2. QED BY <3>1 DEF Members
  <2>3. QED BY <1>1, <2>1, <2>2
<1>7. Members(m) \subseteq Members(l) \ {l[k]}
  BY <1>5 DEF Members
<1>8. Members(l) \ {l[k]} \subseteq Members(m)
  BY <1>6 DEF Members
<1>9. QED BY <1>2, <1>4, <1>7, <1>8

LEMMA InitLoopInv == Init => LoopInv
<1> SUFFICES ASSUME Init PROVE LoopInv
  OBVIOUS
<1>1. given \in Seq(Elements) /\ list = given /\ Distinct(list)
  BY LengthAssumption DEF Init, Arrays
<1>2. Len(given) \in Nat
  BY <1>1
<1>3. TypeOK
  BY <1>1, <1>2 DEF Init, TypeOK
<1>4. Progress
  BY <1>1, <1>2 DEF Init, Progress
<1>5. QED BY <1>3, <1>4 DEF LoopInv

LEMMA NextLoopInv == LoopInv /\ [Next]_vars => LoopInv'
<1> SUFFICES ASSUME LoopInv, [Next]_vars PROVE LoopInv'
  OBVIOUS
<1> USE DEF LoopInv
<1>0. Len(list) \in Nat /\ list \in Seq(Elements) /\ i \in Nat
  BY DEF TypeOK
<1>1. CASE UNCHANGED vars
  BY <1>1 DEF vars, TypeOK, Progress, Distinct, Members
<1>2. ASSUME i \in 1 .. Len(list), Drop(i), list[i] \in doomed
      PROVE  /\ list' \in Seq(Elements) /\ Len(list') = Len(list) - 1
             /\ Distinct(list')
             /\ Members(list') = Members(list) \ {list[i]}
  BY <1>0, <1>2, DropRemovesOne DEF Drop, Progress
<1>3. CASE Sweep /\ SweepDrop
  <2>1. i \in 1 .. Len(list) /\ Drop(i) /\ list[i] \in doomed /\ pc = "sweep"
    BY <1>0, <1>3 DEF Sweep, SweepDrop, Progress
  <2>2. i' = i - 1 /\ pc' = pc /\ doomed' = doomed /\ given' = given
    BY <1>3 DEF Sweep, SweepDrop
  <2>3. ASSUME NEW j \in i' + 1 .. Len(list') PROVE list'[j] \notin doomed
    <3>1. list'[j] = IF j = i THEN list[Len(list)] ELSE list[j]
      BY <1>0, <1>2, <2>1, <2>2 DEF Drop
    <3>2. \A n \in i + 1 .. Len(list) : list[n] \notin doomed
      BY <2>1 DEF Progress
    <3>3. QED BY <1>0, <1>2, <2>1, <2>2, <3>1, <3>2
  <2>4. TypeOK'
    BY <1>0, <1>2, <2>1, <2>2 DEF TypeOK
  <2>5. Distinct(list') /\ Members(list') \subseteq Members(given') /\ Members(given') \ doomed' \subseteq Members(list')
    BY <1>2, <2>1, <2>2 DEF Progress
  <2>6. i' <= Len(list')
    BY <1>0, <1>2, <2>1, <2>2
  <2>7. QED BY <2>1, <2>2, <2>3, <2>4, <2>5, <2>6 DEF Progress
<1>4. CASE Sweep /\ SweepKeep
  <2>1. /\ i > 0 /\ i' = i - 1 /\ list[i] \notin doomed /\ pc = "sweep"
        /\ UNCHANGED <<given, list, doomed, pc>>
    BY <1>4 DEF Sweep, SweepKeep
  <2>2. TypeOK'
    BY <1>0, <2>1 DEF TypeOK
  <2>3. ASSUME NEW j \in i' + 1 .. Len(list) PROVE list[j] \notin doomed
    <3>1. j = i \/ j \in i + 1 .. Len(list)
      BY <1>0, <2>1
    <3>2. QED BY <2>1, <3>1 DEF Progress
  <2>4. i' <= Len(list)
    BY <1>0, <2>1 DEF Progress
  <2>5. QED BY <2>1, <2>2, <2>3, <2>4 DEF Progress
<1>5. CASE SweepEnd
  <2>1. pc = "sweep" /\ i = 0 /\ pc' = "done" /\ UNCHANGED <<given, list, doomed, i>>
    BY <1>5 DEF SweepEnd
  <2>2. \A j \in 1 .. Len(list) : list[j] \notin doomed
    BY <1>0, <2>1 DEF Progress
  <2>3. Members(list) \cap doomed = {}
    BY <2>2 DEF Members
  <2>4. TypeOK'
    BY <2>1 DEF TypeOK
  <2>5. Distinct(list') /\ Members(list') = Members(list) /\ Members(given') = Members(given)
    BY <2>1 DEF Progress
  <2>6. QED BY <2>1, <2>3, <2>4, <2>5 DEF Progress
<1>6. CASE RemoveFound
  <2>1. i \in 1 .. Len(list) /\ Drop(i) /\ list[i] \in doomed /\ pc = "remove"
    BY <1>0, <1>6 DEF RemoveFound, Progress
  <2>2. i' = i /\ pc' = "done" /\ doomed' = doomed /\ given' = given
    BY <1>6 DEF RemoveFound
  <2>3. doomed = {list[i]}
    BY <2>1 DEF Progress
  <2>4. TypeOK'
    BY <1>2, <2>1, <2>2 DEF TypeOK
  <2>5. QED BY <1>2, <2>1, <2>2, <2>3, <2>4 DEF Progress
<1>7. CASE RemoveNext
  <2>1. /\ i' = i + 1 /\ list[i] \notin doomed /\ pc = "remove"
        /\ UNCHANGED <<given, list, doomed, pc>>
    BY <1>7 DEF RemoveNext
  <2>2. TypeOK'
    BY <1>0, <2>1 DEF TypeOK
  <2>3. ASSUME NEW j \in 1 .. i' - 1, j <= Len(list) PROVE list[j] \notin doomed
    <3>1. j = i \/ j \in 1 .. i - 1
      BY <1>0, <2>1
    <3>2. QED BY <2>1, <2>3, <3>1 DEF Progress
  <2>4. i' >= 1
    BY <1>0, <2>1
  <2>5. QED BY <2>1, <2>2, <2>3, <2>4 DEF Progress
<1>8. CASE RemoveEnd
  BY <1>0, <1>8 DEF RemoveEnd, Progress, TypeOK, Distinct, Members
<1>9. QED
  BY <1>1, <1>3, <1>4, <1>5, <1>6, <1>7, <1>8 DEF Next, Sweep

\* Each loop removes exactly the elements its condition selects.
THEOREM LoopsRemoveExactly == Spec => []RemovesExactly
<1>1. LoopInv => RemovesExactly
  BY DEF LoopInv, Progress, RemovesExactly
<1>2. QED BY <1>1, InitLoopInv, NextLoopInv, PTL DEF Spec

\* The backward sweep never reads past the end of the shrinking array.
THEOREM SweepStaysInBounds == Spec => []InBounds
<1>1. LoopInv => InBounds
  BY DEF LoopInv, Progress, InBounds
<1>2. QED BY <1>1, InitLoopInv, NextLoopInv, PTL DEF Spec

-----------------------------------------------------------------------------
(* In which order the Cosmos monitor asks for heights.                      *)

\* Where the next height is read from: a batch that reads heights knows, and
\* else lastProcessedBlock.  Before there is one nothing polls.
NoPolls == range = NoRange /\ polls.named = FALSE /\ polls.others = 0

Place ==
    IF range.at = "fetch"
    THEN /\ range.to \in Nat \ {0} /\ range.next \in Int /\ range.next <= range.to + 1
         /\ range.next = firstHeight + Len(fetched) + 1
    ELSE lastHeight = firstHeight + Len(fetched)

HeightsInv ==
    /\ lastHeight \in Nat /\ firstHeight \in Int
    /\ events \in Seq(Methods)
    /\ range.at \in {"none", "head", "fetch"} /\ (range.at = "none" <=> range = NoRange)
    /\ polls \in [named : BOOLEAN, others : Nat]
    /\ fetched \in Seq([height : Int, ok : BOOLEAN])
    /\ choosing \in {"no", "asking", "resuming"} /\ (choosing = "resuming" => lastHeight # 0)
    /\ lastHeight = 0 \/ choosing = "asking" => NoPolls
    /\ Place
    /\ EachHeightOnce

LEMMA HeightsInit == CosmosMonitorInit => HeightsInv
<1> SUFFICES ASSUME CosmosMonitorInit PROVE HeightsInv
  OBVIOUS
<1>1. /\ lastHeight \in Nat /\ firstHeight = lastHeight /\ fetched = <<>>
      /\ range = NoRange /\ polls = [named |-> FALSE, others |-> 0] /\ choosing = "no"
      /\ events \in [1 .. InitialHeight -> Methods]
  BY CosmosMonitorAssumption DEF CosmosMonitorInit
<1>2. events \in Seq(Methods)
  BY <1>1, CosmosMonitorAssumption
<1>3. QED BY <1>1, <1>2 DEF HeightsInv, NoPolls, NoRange, Place, EachHeightOnce

\* SchedulePoll keeps the timers' type.
LEMMA PollsKept ==
    ASSUME polls \in [named : BOOLEAN, others : Nat], SchedulePoll
    PROVE  polls' \in [named : BOOLEAN, others : Nat]
BY DEF SchedulePoll

\* A height counted from an empty log is the first one.
LEMMA NothingFetched ==
  ASSUME NEW last \in Int, NEW first, NEW read, first = last, read = 0
  PROVE  last = first + read
  OBVIOUS

LEMMA HeightsNext == HeightsInv /\ [CosmosMonitorNext]_cosmosMonitorVars => HeightsInv'
<1> SUFFICES ASSUME HeightsInv, [CosmosMonitorNext]_cosmosMonitorVars PROVE HeightsInv'
  OBVIOUS
<1>1. CASE UNCHANGED cosmosMonitorVars
  BY <1>1 DEF cosmosMonitorVars, HeightsInv, NoPolls, Place, EachHeightOnce
<1>2. CASE NewHeight
  <2>1. PICK m \in Methods : events' = Append(events, m)
    BY <1>2 DEF NewHeight
  <2>2. events' \in Seq(Methods)
    BY <2>1 DEF HeightsInv
  <2>3. QED BY <1>2, <2>2 DEF NewHeight, HeightsInv, NoPolls, Place, EachHeightOnce
<1>3. CASE StartMonitor
  BY <1>3 DEF StartMonitor, HeightsInv, NoPolls, Place, EachHeightOnce
<1>4. CASE InitializeStartingHeight
  <2>1. polls' \in [named : BOOLEAN, others : Nat]
    BY <1>4, PollsKept DEF InitializeStartingHeight, HeightsInv
  <2>2. CASE choosing = "asking"
    <3>1. lastHeight' \in Nat \ {0} /\ firstHeight' = lastHeight' /\ fetched' = <<>>
      BY <1>4, <2>2, CosmosMonitorAssumption DEF InitializeStartingHeight, Height, HeightsInv
    <3>2. range = NoRange /\ range' = NoRange /\ events' = events /\ choosing' = "no"
      BY <1>4, <2>2 DEF InitializeStartingHeight, HeightsInv, NoPolls
    <3>3. Len(fetched') = 0 /\ DOMAIN fetched' = {}
      BY <3>1
    <3>4. lastHeight' = firstHeight' + Len(fetched')
      <4>1. lastHeight' \in Int /\ firstHeight' = lastHeight'
        BY <3>1
      <4>2. Len(fetched') = 0
        BY <3>3
      <4>3. QED BY <4>1, <4>2, NothingFetched
    <3>5. range'.at # "fetch"
      BY <3>2 DEF NoRange
    <3>6. Place'
      BY <3>4, <3>5 DEF Place
    <3>7. EachHeightOnce'
      BY <3>3 DEF EachHeightOnce
    <3>8. fetched' \in Seq([height : Int, ok : BOOLEAN])
      BY <3>1
    <3>9. QED BY <2>1, <3>1, <3>2, <3>6, <3>7, <3>8 DEF HeightsInv, NoRange, NoPolls
  <2>3. CASE choosing # "asking"
    <3>1. UNCHANGED <<lastHeight, firstHeight, fetched, range, events>> /\ choosing' = "no"
      BY <1>4, <2>3 DEF InitializeStartingHeight
    <3>2. lastHeight # 0
      BY <1>4, <2>3 DEF InitializeStartingHeight, HeightsInv
    <3>3. QED BY <2>1, <3>1, <3>2 DEF HeightsInv, Place, EachHeightOnce
  <2>4. QED BY <2>2, <2>3
<1>5. CASE StartFails
  BY <1>5 DEF StartFails, HeightsInv, NoPolls, Place, EachHeightOnce
<1>6. CASE StopMonitor
  <2>1. polls' \in [named : BOOLEAN, others : Nat]
    BY <1>6 DEF StopMonitor, HeightsInv
  <2>2. ASSUME NoPolls PROVE NoPolls'
    <3>1. polls' = [polls EXCEPT !.named = FALSE] /\ range' = NoRange
      BY <1>6, <2>2 DEF StopMonitor, NoPolls
    <3>2. polls \in [named : BOOLEAN, others : Nat] /\ polls.others = 0
      BY <2>2 DEF HeightsInv, NoPolls
    <3>3. QED BY <3>1, <3>2 DEF NoPolls
  <2>3. QED BY <1>6, <2>1, <2>2 DEF StopMonitor, HeightsInv, Place, EachHeightOnce
<1>7. CASE Poll
  <2>1. lastHeight # 0 /\ choosing # "asking"
    BY <1>7 DEF Poll, HeightsInv, NoPolls
  <2>2. polls' \in [named : BOOLEAN, others : Nat]
    <3>1. polls \in [named : BOOLEAN, others : Nat]
      BY DEF HeightsInv
    <3>2. CASE polls' = [polls EXCEPT !.named = FALSE]
      BY <3>1, <3>2
    <3>3. CASE polls.others > 0 /\ polls' = [polls EXCEPT !.others = @ - 1]
      <4>1. polls.others - 1 \in Nat
        BY <3>1, <3>3
      <4>2. QED BY <3>1, <3>3, <4>1
    <3>4. QED BY <1>7, <3>2, <3>3 DEF Poll
  <2>3. range' = range \/ (range = NoRange /\ range' = [at |-> "head"])
    BY <1>7 DEF Poll, MayPoll
  <2>4. Place' /\ range'.at \in {"none", "head", "fetch"} /\ (range'.at = "none" <=> range' = NoRange)
    BY <1>7, <2>3 DEF Poll, HeightsInv, Place, NoRange
  <2>5. QED BY <1>7, <2>1, <2>2, <2>4 DEF Poll, HeightsInv, EachHeightOnce
<1>8. CASE ReadHeight \/ PollFails
  <2>1. range.at = "head" /\ range # NoRange /\ lastHeight \in Nat \ {0} /\ choosing # "asking"
    BY <1>8 DEF ReadHeight, PollFails, HeightsInv, NoPolls, NoRange
  <2>2. UNCHANGED <<events, choosing, lastHeight, firstHeight, fetched>>
    BY <1>8 DEF ReadHeight, PollFails
  <2>3. lastHeight = firstHeight + Len(fetched) /\ firstHeight \in Int /\ Len(fetched) \in Nat
    BY <2>1 DEF HeightsInv, Place
  <2>4. CASE PollEnds
    <3>1. range' = NoRange /\ polls' \in [named : BOOLEAN, others : Nat]
      BY <2>4, PollsKept DEF PollEnds, HeightsInv
    <3>2. Place' BY <2>2, <2>3, <3>1 DEF Place, NoRange
    <3>3. QED BY <2>1, <2>2, <3>1, <3>2 DEF HeightsInv, NoRange, EachHeightOnce
  <2>5. CASE ReadHeight /\ lastHeight < Height
    <3> DEFINE to == Lower(Height, lastHeight + MaxHeightsPerBatch)
    <3>1. range' = [at |-> "fetch", to |-> to, next |-> lastHeight + 1, found |-> {}] /\ polls' = polls
      BY <2>1, <2>5 DEF ReadHeight, HeightsInv, Height
    <3>2. to \in Nat \ {0} /\ lastHeight + 1 <= to + 1
      BY <2>1, <2>5, CosmosMonitorAssumption DEF Lower, Height, HeightsInv
    <3> HIDE DEF to
    <3>3. Place'
      BY <2>1, <2>2, <2>3, <3>1, <3>2 DEF Place
    <3>4. range'.at = "fetch" /\ range' # NoRange
      BY <3>1 DEF NoRange
    <3>5. QED BY <2>1, <2>2, <3>1, <3>3, <3>4 DEF HeightsInv, EachHeightOnce
  <2>6. QED BY <1>8, <2>1, <2>4, <2>5 DEF ReadHeight, PollFails, HeightsInv, Height
<1>9. CASE FetchHeight
  <2>1. PICK ok \in BOOLEAN : fetched' = Append(fetched, [height |-> range.next, ok |-> ok])
    BY <1>9 DEF FetchHeight
  <2>2. /\ range.at = "fetch" /\ range.next <= range.to
        /\ range'.at = "fetch" /\ range'.next = range.next + 1 /\ range'.to = range.to
        /\ UNCHANGED <<events, choosing, polls, lastHeight, firstHeight>>
    BY <1>9 DEF FetchHeight, HeightsInv
  <2>3. range # NoRange /\ range' # NoRange /\ lastHeight # 0 /\ choosing # "asking"
    BY <2>2 DEF HeightsInv, NoPolls, NoRange
  <2>4. /\ fetched \in Seq([height : Int, ok : BOOLEAN]) /\ range.next \in Int /\ range.to \in Nat \ {0}
        /\ range.next = firstHeight + Len(fetched) + 1 /\ firstHeight \in Int
    BY <2>2 DEF HeightsInv, Place
  <2>5. fetched' \in Seq([height : Int, ok : BOOLEAN]) /\ Len(fetched') = Len(fetched) + 1
    BY <2>1, <2>4
  <2>6. EachHeightOnce'
    BY <2>1, <2>2, <2>4 DEF EachHeightOnce, HeightsInv
  <2>7. Place'
    BY <2>2, <2>4, <2>5 DEF Place
  <2>8. QED BY <2>2, <2>3, <2>5, <2>6, <2>7 DEF HeightsInv
<1>10. CASE RangeEnds
  <2>1. /\ range.at = "fetch" /\ range.next > range.to /\ lastHeight' = range.to
        /\ range' = NoRange /\ SchedulePoll
        /\ UNCHANGED <<events, choosing, firstHeight, fetched>>
    BY <1>10 DEF RangeEnds, PollEnds
  <2>2. polls' \in [named : BOOLEAN, others : Nat]
    BY <2>1, PollsKept DEF HeightsInv
  <2>3. range # NoRange /\ choosing # "asking"
    BY <2>1 DEF HeightsInv, NoPolls, NoRange
  <2>4. lastHeight' \in Nat \ {0} /\ lastHeight' = firstHeight + Len(fetched)
    <3>1. firstHeight \in Int /\ Len(fetched) \in Nat
      BY DEF HeightsInv
    <3>2. /\ range.to \in Nat \ {0} /\ range.next \in Int /\ range.next <= range.to + 1
          /\ range.next = firstHeight + Len(fetched) + 1
      BY <2>1 DEF HeightsInv, Place
    <3>3. QED BY <2>1, <3>1, <3>2
  <2>5. Place'
    BY <2>1, <2>4 DEF Place, NoRange
  <2>6. QED BY <2>1, <2>2, <2>3, <2>4, <2>5 DEF HeightsInv, NoRange, EachHeightOnce
<1>11. CASE \E h \in ResetHeights : ResetToHeight(h)
  <2>1. PICK h \in ResetHeights : ResetToHeight(h)
    BY <1>11
  <2>2. lastHeight' \in Nat \ {0} /\ UNCHANGED <<events, choosing, polls, range>>
    BY <2>1, CosmosMonitorAssumption DEF ResetToHeight
  <2>3. CASE range.at = "fetch"
    BY <2>1, <2>2, <2>3 DEF ResetToHeight, HeightsInv, NoPolls, Place, EachHeightOnce
  <2>4. CASE range.at # "fetch"
    <3>1. firstHeight' = lastHeight' /\ fetched' = <<>>
      BY <2>1, <2>4 DEF ResetToHeight
    <3>2. fetched' \in Seq([height : Int, ok : BOOLEAN]) /\ Len(fetched') = 0 /\ EachHeightOnce'
      BY <3>1 DEF EachHeightOnce
    <3>3. lastHeight' = firstHeight' + Len(fetched')
      <4>1. lastHeight' \in Int /\ firstHeight' = lastHeight' /\ Len(fetched') = 0
        BY <2>2, <3>1, <3>2
      <4>2. QED BY <4>1, NothingFetched
    <3>4. Place'
      BY <2>2, <2>4, <3>3 DEF Place
    <3>5. QED BY <2>2, <3>1, <3>2, <3>4 DEF HeightsInv, NoPolls
  <2>5. QED BY <2>3, <2>4
<1>12. QED
  BY <1>1, <1>2, <1>3, <1>4, <1>5, <1>6, <1>7, <1>8, <1>9, <1>10, <1>11 DEF CosmosMonitorNext

\* For every chain, batch size and start, and however often the monitor is
\* stopped, restarted and reset, heights are asked for once each and in order.
THEOREM HeightsOnceInOrder == CosmosMonitorSpec => []EachHeightOnce
<1>1. HeightsInv => EachHeightOnce
  BY DEF HeightsInv
<1>2. QED BY <1>1, HeightsInit, HeightsNext, PTL DEF CosmosMonitorSpec

-----------------------------------------------------------------------------
(* How old a router address can be.                                         *)

\* What is known of an entry of either cache and of a lookup.
ClientEntry(c) == c.asOf \in Int /\ c.at \in Int /\ c.at <= moment /\ c.at - c.asOf <= Latency

ServiceEntry(c) ==
    /\ c.asOf \in Int /\ c.at \in Int /\ c.for \in Int
    /\ c.at - c.asOf <= Latency + (ClientTimeout - 1)
    /\ c.for <= ServiceTimeout

Lookup(l) ==
    /\ l \in [at : {"asked", "read"}, since : Int, asOf : Int]
    /\ l.since <= moment /\ moment - l.since <= Latency
    /\ l.at = "read" => l.since <= l.asOf

AgesInv ==
    /\ moment \in Int
    /\ clientCache # NoAddress => ClientEntry(clientCache)
    /\ serviceCache # NoAddress => ServiceEntry(serviceCache)
    /\ DOMAIN lookups = Askers \cup {Resolver}
    /\ \A k \in Askers \cup {Resolver} : lookups[k] # NoLookup => Lookup(lookups[k])
    /\ answer.asOf \in Int /\ answer.at \in Int
    /\ AnswerAge

LEMMA AgesInit == ResolutionInit => AgesInv
BY ResolutionAssumption DEF ResolutionInit, AgesInv, AnswerAge, NoAddress

\* Only a query, an answer and a failure change a lookup, each of one asker.
LEMMA LookupSet ==
    ASSUME AgesInv, NEW k \in Askers \cup {Resolver}, NEW l,
           lookups' = [lookups EXCEPT ![k] = l], moment' = moment,
           l # NoLookup => Lookup(l)
    PROVE  /\ DOMAIN lookups' = Askers \cup {Resolver}
           /\ \A j \in Askers \cup {Resolver} : lookups'[j] # NoLookup => Lookup(lookups[j])'
<1>1. \A j \in Askers \cup {Resolver} : lookups'[j] = IF j = k THEN l ELSE lookups[j]
  BY DEF AgesInv
<1>2. \A j \in Askers \cup {Resolver} : lookups'[j] # NoLookup => Lookup(lookups[j])'
  BY <1>1 DEF AgesInv, Lookup
<1>3. QED BY <1>2 DEF AgesInv

\* A query under way has just begun.
LEMMA QueryBegins ==
    ASSUME AgesInv
    PROVE  Lookup([at |-> "asked", since |-> moment, asOf |-> -1])
BY ResolutionAssumption DEF AgesInv, Lookup

LEMMA AttemptAges ==
    ASSUME AgesInv, NEW n, Attempt(n), moment' = moment, clientCache' = clientCache
    PROVE  AgesInv'
<1>1. CASE CachedByClient
  <2>1. ClientEntry(clientCache) /\ moment - clientCache.at <= ClientTimeout - 1
    BY <1>1, ResolutionAssumption DEF CachedByClient, AgesInv, ClientEntry
  <2>2. /\ serviceCache' = [asOf |-> clientCache.asOf, at |-> moment, for |-> ServiceTimeout]
        /\ answer' = [asOf |-> clientCache.asOf, at |-> moment]
        /\ lookups' = lookups
    BY <1>1 DEF Attempt, Resolved
  <2>3. ServiceEntry(serviceCache)'
    BY <2>1, <2>2, ResolutionAssumption DEF ServiceEntry, ClientEntry, AgesInv
  <2>4. AnswerAge' /\ answer'.asOf \in Int /\ answer'.at \in Int
    BY <2>1, <2>2, ResolutionAssumption DEF AnswerAge, ClientEntry, AgesInv
  <2>5. \A k \in Askers \cup {Resolver} : lookups'[k] # NoLookup => Lookup(lookups[k])'
    BY <2>2 DEF AgesInv, Lookup
  <2>6. QED BY <2>2, <2>3, <2>4, <2>5 DEF AgesInv, ClientEntry
<1>2. CASE ~CachedByClient
  <2>1. /\ lookups' = [lookups EXCEPT ![Resolver] = [at |-> "asked", since |-> moment, asOf |-> -1]]
        /\ UNCHANGED <<serviceCache, answer>>
    BY <1>2 DEF Attempt, QueryRegistry
  <2>2. /\ DOMAIN lookups' = Askers \cup {Resolver}
        /\ \A j \in Askers \cup {Resolver} : lookups'[j] # NoLookup => Lookup(lookups[j])'
    BY <2>1, QueryBegins, LookupSet
  <2>3. QED BY <2>1, <2>2 DEF AgesInv, ClientEntry, ServiceEntry, AnswerAge
<1>3. QED BY <1>1, <1>2

LEMMA AgesNext == AgesInv /\ [ResolutionNext]_resolutionVars => AgesInv'
<1> SUFFICES ASSUME AgesInv, [ResolutionNext]_resolutionVars PROVE AgesInv'
  OBVIOUS
<1>1. CASE Resolve
  BY <1>1, AttemptAges DEF Resolve
<1>2. CASE CacheHit
  <2>1. /\ answer' = [asOf |-> serviceCache.asOf, at |-> moment]
        /\ UNCHANGED <<moment, clientCache, serviceCache, lookups>>
        /\ ServiceEntry(serviceCache) /\ moment - serviceCache.at < serviceCache.for
    BY <1>2 DEF CacheHit, IsCacheValid, AgesInv
  <2>2. AnswerAge' /\ answer'.asOf \in Int /\ answer'.at \in Int
    BY <2>1, ResolutionAssumption DEF AnswerAge, ServiceEntry, AgesInv
  <2>3. QED BY <2>1, <2>2 DEF AgesInv, ClientEntry, ServiceEntry, Lookup
<1>3. CASE ResolveAgain
  BY <1>3, AttemptAges DEF ResolveAgain
<1>4. CASE UpdateRouterAddress
  <2>1. PICK time \in {ServiceTimeout, ServiceTimeout \div 2} :
            serviceCache' = [asOf |-> moment, at |-> moment, for |-> time]
    BY <1>4 DEF UpdateRouterAddress
  <2>2. time \in Int /\ time <= ServiceTimeout
    BY ResolutionAssumption
  <2>3. ServiceEntry(serviceCache)'
    BY <2>1, <2>2, ResolutionAssumption DEF ServiceEntry, AgesInv
  <2>4. QED BY <1>4, <2>3 DEF UpdateRouterAddress, AgesInv, ClientEntry, Lookup, AnswerAge
<1>5. CASE ClearCache \/ RefreshAllData \/ UNCHANGED resolutionVars
  BY <1>5 DEF ClearCache, RefreshAllData, resolutionVars, AgesInv, ClientEntry, ServiceEntry,
     Lookup, AnswerAge
<1>6. CASE MomentPasses
  <2>1. /\ moment' = moment + 1
        /\ UNCHANGED <<clientCache, serviceCache, lookups, answer>>
        /\ \A k \in Askers \cup {Resolver} : lookups[k] # NoLookup => moment - lookups[k].since < Latency
    BY <1>6 DEF MomentPasses, AgesInv
  <2>2. \A k \in Askers \cup {Resolver} : lookups'[k] # NoLookup => Lookup(lookups[k])'
    BY <2>1, ResolutionAssumption DEF AgesInv, Lookup
  <2>3. QED BY <2>1, <2>2 DEF AgesInv, ClientEntry, ServiceEntry, AnswerAge
<1>7. CASE \E k \in Askers : VerifyRouterAddress(k)
  <2>1. PICK k \in Askers : VerifyRouterAddress(k)
    BY <1>7
  <2>2. /\ DOMAIN lookups' = Askers \cup {Resolver}
        /\ \A j \in Askers \cup {Resolver} : lookups'[j] # NoLookup => Lookup(lookups[j])'
    BY <2>1, QueryBegins, LookupSet DEF VerifyRouterAddress, QueryRegistry
  <2>3. QED BY <2>1, <2>2 DEF VerifyRouterAddress, AgesInv, ClientEntry, ServiceEntry, AnswerAge
<1>8. CASE \E k \in Askers \cup {Resolver} : RegistryReads(k)
  <2>1. PICK k \in Askers \cup {Resolver} : RegistryReads(k)
    BY <1>8
  <2>2. lookups[k] # NoLookup /\ Lookup(lookups[k])
    BY <2>1 DEF RegistryReads, AgesInv, NoLookup
  <2> DEFINE l == [lookups[k] EXCEPT !.at = "read", !.asOf = moment]
  <2>3. lookups' = [lookups EXCEPT ![k] = l]
    BY <2>1 DEF RegistryReads
  <2>4. Lookup(l)
    <3>1. lookups[k] \in [at : {"asked", "read"}, since : Int, asOf : Int]
      BY <2>2 DEF Lookup
    <3>2. l \in [at : {"asked", "read"}, since : Int, asOf : Int]
          /\ l.since = lookups[k].since /\ l.asOf = moment
      BY <3>1 DEF AgesInv
    <3>3. lookups[k].since <= moment
      BY <2>2 DEF Lookup
    <3>4. QED BY <2>2, <3>1, <3>2, <3>3 DEF Lookup
  <2>5. /\ DOMAIN lookups' = Askers \cup {Resolver}
        /\ \A j \in Askers \cup {Resolver} : lookups'[j] # NoLookup => Lookup(lookups[j])'
    <3> HIDE DEF l
    <3>1. QED BY <2>1, <2>3, <2>4, LookupSet DEF RegistryReads
  <2>6. QED BY <2>1, <2>5 DEF RegistryReads, AgesInv, ClientEntry, ServiceEntry, AnswerAge
<1>9. CASE \E k \in Askers \cup {Resolver} : RegistryAnswers(k) \/ NoRegistryAnswers(k)
  <2>1. PICK k \in Askers \cup {Resolver} : RegistryAnswers(k) \/ NoRegistryAnswers(k)
    BY <1>9
  <2>2. /\ DOMAIN lookups' = Askers \cup {Resolver}
        /\ \A j \in Askers \cup {Resolver} : lookups'[j] # NoLookup => Lookup(lookups[j])'
    <3>1. lookups' = [lookups EXCEPT ![k] = NoLookup] /\ moment' = moment
      BY <2>1 DEF RegistryAnswers, NoRegistryAnswers
    <3>2. QED BY <3>1, LookupSet
  <2>3. CASE NoRegistryAnswers(k)
    BY <2>2, <2>3 DEF NoRegistryAnswers, AgesInv, ClientEntry, ServiceEntry, AnswerAge
  <2>4. CASE RegistryAnswers(k)
    <3>1. Lookup(lookups[k]) /\ lookups[k].at = "read" /\ moment \in Int /\ moment' = moment
      BY <2>4 DEF RegistryAnswers, AgesInv, NoLookup
    <3>2. lookups[k].asOf \in Int /\ moment - lookups[k].asOf <= Latency
      BY <3>1, ResolutionAssumption DEF Lookup
    <3>3. ClientEntry(clientCache)'
      BY <2>4, <3>1, <3>2 DEF RegistryAnswers, ClientEntry
    <3>4. CASE k = Resolver
      <4>1. /\ serviceCache' = [asOf |-> lookups[k].asOf, at |-> moment, for |-> ServiceTimeout]
            /\ answer' = [asOf |-> lookups[k].asOf, at |-> moment]
        BY <2>4, <3>4 DEF RegistryAnswers, Resolved
      <4>2. ServiceEntry(serviceCache)' /\ AnswerAge' /\ answer'.asOf \in Int /\ answer'.at \in Int
        BY <3>1, <3>2, <4>1, ResolutionAssumption DEF ServiceEntry, AnswerAge
      <4>3. QED BY <2>2, <3>1, <3>3, <4>2 DEF AgesInv
    <3>5. CASE k # Resolver
      <4>1. UNCHANGED <<serviceCache, answer>>
        BY <2>4, <3>5 DEF RegistryAnswers
      <4>2. QED BY <2>2, <3>1, <3>3, <4>1 DEF AgesInv, ServiceEntry, AnswerAge
    <3>6. QED BY <3>4, <3>5
  <2>5. QED BY <2>1, <2>3, <2>4
<1>10. QED
  BY <1>1, <1>2, <1>3, <1>4, <1>5, <1>6, <1>7, <1>8, <1>9 DEF ResolutionNext

\* For all timeouts and latencies, no address is older than both caches allow,
\* however lookups, updates and retries interleave.
THEOREM AnswersAreRecent == ResolutionSpec => []AnswerAge
<1>1. AgesInv => AnswerAge
  BY DEF AgesInv
<1>2. QED BY <1>1, AgesInit, AgesNext, PTL DEF ResolutionSpec
-----------------------------------------------------------------------------
(* The connection pools.                                                    *)

States == {"open", "closed", "stopped", "broken"}

PoolTypes ==
    /\ conns \in Seq([state : States, to : Endpoints])
    /\ arrays \in Seq(SUBSET Nat)
    /\ \A a \in 1 .. Len(arrays) : arrays[a] \subseteq 1 .. Len(conns)
    /\ inUse \subseteq 1 .. Len(conns)
    /\ current \in [Endpoints -> (1 .. Len(arrays)) \cup {None}]

CallerTyped(p) ==
    \/ caller[p] = OutOfPool
    \/ /\ caller[p].at = "opening" /\ caller[p].to \in Endpoints
       /\ caller[p].array \in 1 .. Len(arrays)
    \/ caller[p].at = "has" /\ caller[p].conn \in 1 .. Len(conns)

\* What a cleanup keeps is from its array.
CleanerTyped(k) ==
    \/ cleaner[k] = NotCleaning
    \/ /\ DOMAIN cleaner[k] = {"at", "array", "seen", "kept"}
       /\ cleaner[k].at \in Endpoints /\ cleaner[k].array \in 1 .. Len(arrays)
       /\ cleaner[k].kept \subseteq arrays[cleaner[k].array]

UsersTyped ==
    /\ DOMAIN caller = Callers /\ \A p \in Callers : CallerTyped(p)
    /\ DOMAIN cleaner = Cleaners /\ \A k \in Cleaners : CleanerTyped(k)

UserInv == PoolTypes /\ UsersTyped /\ OneUserWhileOpen

\* Arrays only grow, and what there is keeps its number.
Grown ==
    /\ Len(arrays') \in Nat /\ Len(arrays) <= Len(arrays')
    /\ Len(conns') \in Nat /\ Len(conns) <= Len(conns')
    /\ \A a \in 1 .. Len(arrays) : arrays[a] \subseteq arrays'[a]

LEMMA TypedStill ==
    ASSUME PoolTypes, Grown
    PROVE  /\ \A p \in Callers : CallerTyped(p) /\ caller'[p] = caller[p] => CallerTyped(p)'
           /\ \A k \in Cleaners : CleanerTyped(k) /\ cleaner'[k] = cleaner[k] => CleanerTyped(k)'
<1>1. Len(arrays) \in Nat /\ Len(conns) \in Nat
      /\ 1 .. Len(arrays) \subseteq 1 .. Len(arrays') /\ 1 .. Len(conns) \subseteq 1 .. Len(conns')
  BY DEF PoolTypes, Grown
<1>2. \A p \in Callers : CallerTyped(p) /\ caller'[p] = caller[p] => CallerTyped(p)'
  BY <1>1 DEF CallerTyped
<1>3. ASSUME NEW k \in Cleaners, CleanerTyped(k), cleaner'[k] = cleaner[k]
      PROVE  CleanerTyped(k)'
  <2>1. CASE cleaner[k] = NotCleaning
    BY <2>1, <1>3 DEF CleanerTyped
  <2>2. CASE cleaner[k] # NotCleaning
    <3>1. /\ DOMAIN cleaner[k] = {"at", "array", "seen", "kept"}
          /\ cleaner[k].at \in Endpoints /\ cleaner[k].array \in 1 .. Len(arrays)
          /\ cleaner[k].kept \subseteq arrays[cleaner[k].array]
      BY <2>2, <1>3 DEF CleanerTyped
    <3>2. cleaner[k].kept \subseteq arrays'[cleaner[k].array]
      BY <3>1 DEF Grown
    <3>3. QED BY <3>1, <3>2, <1>1, <1>3 DEF CleanerTyped
  <2>3. QED BY <2>1, <2>2
<1>4. QED BY <1>2, <1>3

\* A connection changes its state, or several do.
LEMMA ConnsChange ==
    ASSUME PoolTypes, NEW f, conns' = [c \in 1 .. Len(conns) |-> f[c]],
           \A c \in 1 .. Len(conns) : f[c] \in [state : States, to : Endpoints],
           UNCHANGED <<arrays, inUse>>, current' \in [Endpoints -> (1 .. Len(arrays)) \cup {None}]
    PROVE  PoolTypes' /\ Grown /\ \A c \in 1 .. Len(conns) : conns'[c] = f[c]
<1>1. Len(conns) \in Nat
  BY DEF PoolTypes
<1>2. conns' \in Seq([state : States, to : Endpoints]) /\ Len(conns') = Len(conns)
  BY <1>1
<1>3. QED BY <1>1, <1>2 DEF PoolTypes, Grown

LEMMA NothingAdded ==
    ASSUME PoolTypes, UNCHANGED <<arrays, current, conns, inUse>>
    PROVE  PoolTypes' /\ Grown
<1>1. PoolTypes'
  BY DEF PoolTypes
<1>2. Len(arrays) \in Nat /\ Len(conns) \in Nat
  BY DEF PoolTypes
<1>3. Grown
  BY <1>2 DEF Grown
<1>4. QED BY <1>1, <1>3

LEMMA ElementsOf ==
    ASSUME NEW S, NEW s \in Seq(S)
    PROVE  DOMAIN s = 1 .. Len(s) /\ \A n \in 1 .. Len(s) : s[n] \in S
  OBVIOUS

LEMMA ContentIs ==
    ASSUME PoolTypes, NEW e \in Endpoints
    PROVE  Content(current[e]) \subseteq 1 .. Len(conns)
  BY PoolAssumption DEF PoolTypes, Content

\* A connection is opened: its number was nobody's.
LEMMA OpenedIs ==
    ASSUME PoolTypes, NEW e \in Endpoints, Opens(e)
    PROVE  /\ conns' \in Seq([state : States, to : Endpoints])
           /\ New \in Nat /\ New = Len(conns) + 1 /\ New \notin inUse
           /\ New \notin 1 .. Len(conns) /\ 1 .. Len(conns') = (1 .. Len(conns)) \cup {New}
           /\ conns'[New].state = "open"
           /\ \A c \in 1 .. Len(conns) : conns'[c] = conns[c]
<1>1. conns \in Seq([state : States, to : Endpoints]) /\ Len(conns) \in Nat
  BY DEF PoolTypes
<1>2. conns' = Append(conns, [state |-> "open", to |-> e])
      /\ [state |-> "open", to |-> e] \in [state : States, to : Endpoints]
  BY DEF Opens, States
<1>3. Len(conns') = Len(conns) + 1 /\ 1 .. Len(conns') = (1 .. Len(conns)) \cup {Len(conns) + 1}
  BY <1>1, <1>2
<1>4. QED BY <1>1, <1>2, <1>3 DEF PoolTypes, New

\* An array more.
LEMMA ArrayAdded ==
    ASSUME PoolTypes, NEW A \in SUBSET Nat, arrays' = Append(arrays, A)
    PROVE  /\ arrays' \in Seq(SUBSET Nat) /\ Len(arrays') = Len(arrays) + 1 /\ Len(arrays) \in Nat
           /\ 1 .. Len(arrays') = (1 .. Len(arrays)) \cup {Len(arrays) + 1}
           /\ Len(arrays) + 1 \notin 1 .. Len(arrays)
           /\ arrays'[Len(arrays) + 1] = A
           /\ \A a \in 1 .. Len(arrays) : arrays'[a] = arrays[a]
<1>1. arrays \in Seq(SUBSET Nat) /\ Len(arrays) \in Nat
  BY DEF PoolTypes
<1>2. Len(arrays') = Len(arrays) + 1
  BY <1>1
<1>3. QED BY <1>1, <1>2

\* A connection is added to an array.
LEMMA ArrayGrows ==
    ASSUME PoolTypes, NEW a \in 1 .. Len(arrays), NEW c \in Nat,
           arrays' = [arrays EXCEPT ![a] = @ \cup {c}]
    PROVE  /\ arrays' \in Seq(SUBSET Nat) /\ Len(arrays') = Len(arrays)
           /\ arrays'[a] = arrays[a] \cup {c}
           /\ \A b \in 1 .. Len(arrays) : b # a => arrays'[b] = arrays[b]
  BY DEF PoolTypes

\* The connections somebody has stay open under what closes others.
LEMMA UsersStay ==
    ASSUME UserInv, PoolTypes', UsersTyped', UNCHANGED <<caller, inUse>>,
           \A c \in inUse : conns[c].state # "closed" => conns'[c].state # "closed"
    PROVE  UserInv'
  BY DEF UserInv, OneUserWhileOpen

\* A caller that has none afterwards changes where it is.
LEMMA UsersAsBefore ==
    ASSUME UserInv, PoolTypes', UsersTyped', NEW p \in Callers, NEW place, place.at # "has",
           caller' = [caller EXCEPT ![p] = place],
           UNCHANGED <<inUse, conns>>
    PROVE  UserInv'
  BY DEF UserInv, OneUserWhileOpen, UsersTyped

\* One caller more has a connection that nobody had.
LEMMA OneUserMore ==
    ASSUME UserInv, PoolTypes', UsersTyped', NEW p \in Callers, NEW c, c \notin inUse,
           caller' = [caller EXCEPT ![p] = [at |-> "has", conn |-> c]],
           inUse' = inUse \cup {c},
           conns'[c].state # "closed", \A d \in inUse : conns'[d] = conns[d]
    PROVE  UserInv'
<1>1. /\ caller'[p].at = "has" /\ caller'[p].conn = c
      /\ \A q \in Callers : q # p => caller'[q] = caller[q]
  BY DEF UserInv, UsersTyped
<1>2. \A q \in Callers : caller[q].at = "has" =>
          caller[q].conn \in inUse /\ caller[q].conn # c /\ conns[caller[q].conn].state # "closed"
  BY DEF UserInv, OneUserWhileOpen
<1>3. OneUserWhileOpen'
  <2> SUFFICES ASSUME NEW q \in Callers, caller'[q].at = "has"
               PROVE  /\ caller'[q].conn \in inUse'
                      /\ conns'[caller'[q].conn].state # "closed"
                      /\ \A r \in Callers \ {q} : caller'[r].at = "has" => caller'[r].conn # caller'[q].conn
    BY DEF OneUserWhileOpen
  <2>1. CASE q = p
    BY <2>1, <1>1, <1>2
  <2>2. CASE q # p
    <3>1. caller'[q] = caller[q]
      BY <2>2, <1>1
    <3>2. \A r \in Callers \ {q, p} : caller[r].at = "has" => caller[r].conn # caller[q].conn
      BY <3>1 DEF UserInv, OneUserWhileOpen
    <3>3. QED BY <3>1, <3>2, <2>2, <1>1, <1>2
  <2>3. QED BY <2>1, <2>2
<1>4. QED BY <1>3 DEF UserInv
-----------------------------------------------------------------------------
\* Start opens connections without asking for room.
LEMMA PrewarmKeeps ==
    ASSUME UserInv, NEW e \in Endpoints, Prewarm(e)
    PROVE  UserInv' /\ Grown
<1>1. UNCHANGED <<inUse, caller, cleaner>> /\ PoolTypes /\ UsersTyped
  BY DEF Prewarm, UserInv
<1>2. CASE Opens(e) /\ current[e] = None /\ arrays' = Append(arrays, {New})
           /\ current' = [current EXCEPT ![e] = Len(arrays) + 1]
  <2>1. /\ conns' \in Seq([state : States, to : Endpoints])
        /\ New \in Nat /\ 1 .. Len(conns') = (1 .. Len(conns)) \cup {New}
        /\ \A c \in 1 .. Len(conns) : conns'[c] = conns[c]
    BY <1>1, <1>2, OpenedIs
  <2>2. /\ arrays' \in Seq(SUBSET Nat) /\ Len(arrays') = Len(arrays) + 1 /\ Len(arrays) \in Nat
        /\ 1 .. Len(arrays') = (1 .. Len(arrays)) \cup {Len(arrays) + 1}
        /\ arrays'[Len(arrays) + 1] = {New}
        /\ \A a \in 1 .. Len(arrays) : arrays'[a] = arrays[a]
    <3>1. {New} \in SUBSET Nat
      BY <2>1
    <3>2. QED BY <3>1, <1>1, <1>2, ArrayAdded
  <2>3. PoolTypes'
    BY <1>1, <1>2, <2>1, <2>2 DEF PoolTypes
  <2>4. Grown
    BY <1>1, <1>2, <2>1, <2>2 DEF PoolTypes, Grown, Opens
  <2>5. UsersTyped'
    BY <1>1, <2>4, TypedStill DEF UsersTyped
  <2>6. \A c \in inUse : conns[c].state # "closed" => conns'[c].state # "closed"
    BY <1>1, <2>1 DEF PoolTypes
  <2>7. QED BY <1>1, <2>3, <2>4, <2>5, <2>6, UsersStay
<1>3. CASE Opens(e) /\ current[e] # None /\ arrays' = [arrays EXCEPT ![current[e]] = @ \cup {New}]
           /\ UNCHANGED current
  <2>1. /\ conns' \in Seq([state : States, to : Endpoints])
        /\ New \in Nat /\ 1 .. Len(conns') = (1 .. Len(conns)) \cup {New}
        /\ \A c \in 1 .. Len(conns) : conns'[c] = conns[c]
    BY <1>1, <1>3, OpenedIs
  <2>2. /\ arrays' \in Seq(SUBSET Nat) /\ Len(arrays') = Len(arrays)
        /\ arrays'[current[e]] = arrays[current[e]] \cup {New}
        /\ \A b \in 1 .. Len(arrays) : b # current[e] => arrays'[b] = arrays[b]
    <3>1. current[e] \in 1 .. Len(arrays)
      BY <1>1, <1>3 DEF PoolTypes
    <3>2. QED BY <3>1, <2>1, <1>1, <1>3, ArrayGrows
  <2>3. PoolTypes'
    BY <1>1, <1>3, <2>1, <2>2 DEF PoolTypes
  <2>4. Grown
    BY <1>1, <1>3, <2>1, <2>2 DEF PoolTypes, Grown, Opens
  <2>5. UsersTyped'
    BY <1>1, <2>4, TypedStill DEF UsersTyped
  <2>6. \A c \in inUse : conns[c].state # "closed" => conns'[c].state # "closed"
    BY <1>1, <2>1 DEF PoolTypes
  <2>7. QED BY <1>1, <2>3, <2>4, <2>5, <2>6, UsersStay
<1>4. CASE UNCHANGED <<arrays, current, conns>>
  <2>1. PoolTypes' /\ Grown
    BY <1>1, <1>4 DEF PoolTypes, Grown
  <2>2. UsersTyped'
    BY <1>1, <2>1, TypedStill DEF UsersTyped
  <2>3. QED BY <1>1, <1>4, <2>1, <2>2, UsersStay
<1>5. QED BY <1>2, <1>3, <1>4 DEF Prewarm

\* Steps that touch neither the users nor what they have.
LEMMA NothingMoves ==
    ASSUME UserInv, UNCHANGED <<arrays, current, conns, inUse, caller, cleaner>>
    PROVE  UserInv' /\ Grown
<1>1. PoolTypes' /\ Grown
  BY NothingAdded DEF UserInv
<1>2. UsersTyped'
  BY <1>1, TypedStill DEF UsersTyped, UserInv
<1>3. QED BY <1>1, <1>2, UsersStay

\* Stop marks what it closes as stopped.
LEMMA PoolStopKeeps ==
    ASSUME UserInv, PoolStop
    PROVE  UserInv' /\ Grown
<1> DEFINE After(c) == IF \E e \in Endpoints : c \in Content(current[e])
                       THEN [conns[c] EXCEPT !.state = "stopped"] ELSE conns[c]
           f == [c \in 1 .. Len(conns) |-> After(c)]
<1>1. UNCHANGED <<arrays, inUse, caller, cleaner>> /\ PoolTypes /\ UsersTyped
  BY DEF PoolStop, UserInv
<1>2. \A c \in 1 .. Len(conns) : conns[c] \in [state : States, to : Endpoints]
  BY <1>1, ElementsOf DEF PoolTypes
<1>3. \A c \in 1 .. Len(conns) :
         /\ f[c] \in [state : States, to : Endpoints]
         /\ conns[c].state # "closed" => f[c].state # "closed"
  BY <1>2 DEF States
<1>4. conns' = [c \in 1 .. Len(conns) |-> f[c]]
  <2>1. DOMAIN conns = 1 .. Len(conns)
    BY <1>1 DEF PoolTypes
  <2>2. conns' = [c \in DOMAIN conns |-> After(c)]
    BY DEF PoolStop
  <2>3. QED BY <2>1, <2>2
<1>5. current' \in [Endpoints -> (1 .. Len(arrays)) \cup {None}]
  BY <1>1 DEF PoolStop, PoolTypes
<1> HIDE DEF f
<1>6. PoolTypes' /\ Grown /\ \A c \in 1 .. Len(conns) : conns'[c] = f[c]
  BY <1>1, <1>3, <1>4, <1>5, ConnsChange
<1>7. UsersTyped'
  BY <1>1, <1>6, TypedStill DEF UsersTyped
<1>8. \A c \in inUse : conns[c].state # "closed" => conns'[c].state # "closed"
  BY <1>1, <1>3, <1>6 DEF PoolTypes
<1>9. QED BY <1>1, <1>6, <1>7, <1>8, UsersStay

\* Nothing is in the map any more; the arrays are there for those who read them.
LEMMA PoolClearedKeeps ==
    ASSUME UserInv, PoolCleared
    PROVE  UserInv' /\ Grown
<1>1. UNCHANGED <<arrays, conns, inUse, caller, cleaner>> /\ PoolTypes /\ UsersTyped
      /\ current' = [e \in Endpoints |-> None]
  BY DEF PoolCleared, UserInv
<1>2. PoolTypes' /\ Grown
  <2>1. Len(arrays) \in Nat /\ Len(conns) \in Nat
    BY <1>1 DEF PoolTypes
  <2>2. QED BY <1>1, <2>1 DEF PoolTypes, Grown
<1>3. UsersTyped'
  BY <1>1, <1>2, TypedStill DEF UsersTyped
<1>4. QED BY <1>1, <1>2, <1>3, UsersStay

\* One connection changes its state.
LEMMA ConnChanges ==
    ASSUME PoolTypes, NEW c \in 1 .. Len(conns), NEW s \in States,
           conns' = [conns EXCEPT ![c].state = s], UNCHANGED <<arrays, inUse, current>>
    PROVE  /\ PoolTypes' /\ Grown /\ conns'[c].state = s
           /\ \A d \in 1 .. Len(conns) : d # c => conns'[d] = conns[d]
<1> DEFINE f == [conns EXCEPT ![c].state = s]
<1>1. DOMAIN conns = 1 .. Len(conns)
      /\ \A d \in 1 .. Len(conns) : conns[d] \in [state : States, to : Endpoints]
  BY ElementsOf DEF PoolTypes
<1>2. conns' = [d \in 1 .. Len(conns) |-> f[d]]
  BY <1>1
<1>3. \A d \in 1 .. Len(conns) : f[d] \in [state : States, to : Endpoints]
  BY <1>1
<1>4. f[c].state = s /\ \A d \in 1 .. Len(conns) : d # c => f[d] = conns[d]
  BY <1>1
<1>5. current' \in [Endpoints -> (1 .. Len(arrays)) \cup {None}]
  BY DEF PoolTypes
<1> HIDE DEF f
<1>6. PoolTypes' /\ Grown /\ \A d \in 1 .. Len(conns) : conns'[d] = f[d]
  BY <1>2, <1>3, <1>5, ConnsChange
<1>7. QED BY <1>4, <1>6

LEMMA ProviderErrorKeeps ==
    ASSUME UserInv, NEW c \in DOMAIN conns, ProviderError(c)
    PROVE  UserInv' /\ Grown
<1>1. UNCHANGED <<arrays, current, inUse, caller, cleaner>> /\ PoolTypes /\ UsersTyped
  BY DEF ProviderError, UserInv
<1>2. c \in 1 .. Len(conns) /\ "broken" \in States
  BY <1>1 DEF PoolTypes, States
<1>3. /\ PoolTypes' /\ Grown /\ conns'[c].state = "broken"
      /\ \A d \in 1 .. Len(conns) : d # c => conns'[d] = conns[d]
  BY <1>1, <1>2, ConnChanges DEF ProviderError
<1>4. UsersTyped'
  BY <1>1, <1>3, TypedStill DEF UsersTyped
<1>5. \A d \in inUse : conns[d].state # "closed" => conns'[d].state # "closed"
  BY <1>1, <1>3 DEF PoolTypes
<1>6. QED BY <1>1, <1>3, <1>4, <1>5, UsersStay

\* An idle connection is nobody's, whatever array it was found in.
LEMMA GetIdleKeeps ==
    ASSUME UserInv, NEW p \in Callers, NEW e \in Endpoints, GetIdle(p, e)
    PROVE  UserInv' /\ Grown
<1>1. UNCHANGED <<arrays, current, conns, cleaner>> /\ PoolTypes /\ UsersTyped
  BY DEF GetIdle, UserInv
<1>2. PICK c \in Ready(e) : Take(p, c)
  BY DEF GetIdle
<1>3. c \in 1 .. Len(conns) /\ c \notin inUse /\ conns[c].state = "open"
  BY <1>1, <1>2, ContentIs DEF Ready, Idle
<1>4. /\ inUse' = inUse \cup {c}
      /\ caller' = [caller EXCEPT ![p] = [at |-> "has", conn |-> c]]
  BY <1>2 DEF Take
<1>5. PoolTypes' /\ Grown
  <2>1. Len(arrays') = Len(arrays) /\ Len(conns') = Len(conns) /\ Len(arrays) \in Nat /\ Len(conns) \in Nat
    BY <1>1 DEF PoolTypes
  <2>2. inUse' \subseteq 1 .. Len(conns)
    BY <1>1, <1>3, <1>4 DEF PoolTypes
  <2>3. PoolTypes'
    BY <1>1, <2>1, <2>2 DEF PoolTypes
  <2>4. Grown
    BY <1>1, <2>1 DEF Grown
  <2>5. QED BY <2>3, <2>4
<1>6. UsersTyped'
  <2>1. DOMAIN caller' = Callers /\ DOMAIN cleaner' = Cleaners
    BY <1>1, <1>4 DEF UsersTyped
  <2>2. CallerTyped(p)'
    <3>1. caller'[p] = [at |-> "has", conn |-> c]
      BY <1>1, <1>4 DEF UsersTyped
    <3>2. QED BY <3>1, <1>1, <1>3 DEF CallerTyped
  <2>3. \A q \in Callers \ {p} : CallerTyped(q)'
    BY <1>1, <1>4, <1>5, TypedStill DEF UsersTyped
  <2>4. \A k \in Cleaners : CleanerTyped(k)'
    BY <1>1, <1>5, TypedStill DEF UsersTyped
  <2>5. QED BY <2>1, <2>2, <2>3, <2>4 DEF UsersTyped
<1>7. conns'[c].state # "closed" /\ \A d \in inUse : conns'[d] = conns[d]
  BY <1>1, <1>3
<1>8. UserInv'
  BY <1>3, <1>4, <1>5, <1>6, <1>7, OneUserMore
<1>9. QED BY <1>5, <1>8

\* A caller that begins to open a connection, and one that could not.
LEMMA GetNewKeeps ==
    ASSUME UserInv, NEW p \in Callers, NEW e \in Endpoints, GetNew(p, e)
    PROVE  UserInv' /\ Grown
<1> DEFINE a == IF current[e] = None THEN Len(arrays) + 1 ELSE current[e]
           place == [at |-> "opening", to |-> e, array |-> a]
<1>1. UNCHANGED <<current, conns, inUse, cleaner>> /\ PoolTypes /\ UsersTyped
      /\ caller' = [caller EXCEPT ![p] = place]
  BY DEF GetNew, UserInv
<1>2. PoolTypes' /\ Grown /\ a \in 1 .. Len(arrays')
  <2>1. CASE current[e] = None
    <3>1. /\ arrays' \in Seq(SUBSET Nat) /\ Len(arrays') = Len(arrays) + 1 /\ Len(arrays) \in Nat
          /\ 1 .. Len(arrays') = (1 .. Len(arrays)) \cup {Len(arrays) + 1}
          /\ arrays'[Len(arrays) + 1] = {}
          /\ \A b \in 1 .. Len(arrays) : arrays'[b] = arrays[b]
      <4>1. arrays' = Append(arrays, {}) /\ {} \in SUBSET Nat
        BY <2>1 DEF GetNew
      <4>2. QED BY <4>1, <1>1, ArrayAdded
    <3>2. PoolTypes'
      BY <3>1, <1>1 DEF PoolTypes
    <3>3. Grown
      BY <3>1, <1>1 DEF PoolTypes, Grown
    <3>4. QED BY <3>1, <3>2, <3>3, <2>1
  <2>2. CASE current[e] # None
    <3>1. UNCHANGED arrays
      BY <2>2 DEF GetNew
    <3>2. QED BY <3>1, <2>2, <1>1 DEF PoolTypes, Grown
  <2>3. QED BY <2>1, <2>2
<1>3. UsersTyped'
  <2>1. DOMAIN caller' = Callers /\ DOMAIN cleaner' = Cleaners
    BY <1>1 DEF UsersTyped
  <2>2. CallerTyped(p)'
    <3>1. caller'[p] = place
      BY <1>1 DEF UsersTyped
    <3>2. QED BY <3>1, <1>2 DEF CallerTyped
  <2>3. \A q \in Callers \ {p} : CallerTyped(q)'
    BY <1>1, <1>2, TypedStill DEF UsersTyped
  <2>4. \A k \in Cleaners : CleanerTyped(k)'
    BY <1>1, <1>2, TypedStill DEF UsersTyped
  <2>5. QED BY <2>1, <2>2, <2>3, <2>4 DEF UsersTyped
<1>4. place.at # "has"
  OBVIOUS
<1> HIDE DEF place
<1>5. UserInv'
  BY <1>1, <1>2, <1>3, <1>4, UsersAsBefore
<1>6. QED BY <1>2, <1>5

LEMMA GetFailsKeeps ==
    ASSUME UserInv, NEW p \in Callers, GetFails(p)
    PROVE  UserInv' /\ Grown
<1>1. UNCHANGED <<arrays, current, conns, inUse, cleaner>> /\ PoolTypes /\ UsersTyped
      /\ caller' = [caller EXCEPT ![p] = OutOfPool]
  BY DEF GetFails, UserInv
<1>2. PoolTypes' /\ Grown
  BY <1>1, NothingAdded
<1>3. UsersTyped'
  <2>1. CallerTyped(p)'
    BY <1>1 DEF CallerTyped, UsersTyped
  <2>2. QED BY <2>1, <1>1, <1>2, TypedStill DEF UsersTyped
<1>4. OutOfPool.at # "has"
  BY DEF OutOfPool
<1>5. UserInv'
  BY <1>1, <1>2, <1>3, <1>4, UsersAsBefore
<1>6. QED BY <1>2, <1>5

\* The new connection comes into the array the caller had read.
LEMMA GetOpenedKeeps ==
    ASSUME UserInv, NEW p \in Callers, GetOpened(p)
    PROVE  UserInv' /\ Grown
<1>1. UNCHANGED cleaner /\ PoolTypes /\ UsersTyped
  BY DEF GetOpened, UserInv
<1>2. PICK e, a : e = caller[p].to /\ a = caller[p].array
  OBVIOUS
<1>3. e \in Endpoints /\ a \in 1 .. Len(arrays)
  BY <1>1, <1>2 DEF GetOpened, UsersTyped, CallerTyped, OutOfPool
<1>4. /\ Opens(e) /\ arrays' = [arrays EXCEPT ![a] = @ \cup {New}]
      /\ current' = [current EXCEPT ![e] = a]
      /\ inUse' = inUse \cup {New}
      /\ caller' = [caller EXCEPT ![p] = [at |-> "has", conn |-> New]]
  BY <1>2 DEF GetOpened, Take
<1>5. /\ conns' \in Seq([state : States, to : Endpoints])
      /\ New \in Nat /\ New \notin inUse
      /\ 1 .. Len(conns') = (1 .. Len(conns)) \cup {New}
      /\ conns'[New].state = "open"
      /\ \A c \in 1 .. Len(conns) : conns'[c] = conns[c]
  BY <1>1, <1>3, <1>4, OpenedIs
<1>6. /\ arrays' \in Seq(SUBSET Nat) /\ Len(arrays') = Len(arrays)
      /\ arrays'[a] = arrays[a] \cup {New}
      /\ \A b \in 1 .. Len(arrays) : b # a => arrays'[b] = arrays[b]
  BY <1>1, <1>3, <1>4, <1>5, ArrayGrows
<1>7. PoolTypes'
  BY <1>1, <1>3, <1>4, <1>5, <1>6 DEF PoolTypes
<1>8. Grown
  BY <1>1, <1>3, <1>4, <1>5, <1>6 DEF PoolTypes, Grown, Opens
<1>9. UsersTyped'
  <2>1. DOMAIN caller' = Callers /\ DOMAIN cleaner' = Cleaners
    BY <1>1, <1>4 DEF UsersTyped
  <2>2. CallerTyped(p)'
    <3>1. caller'[p].at = "has" /\ caller'[p].conn = New
      BY <1>1, <1>4 DEF UsersTyped
    <3>2. QED BY <3>1, <1>5 DEF CallerTyped
  <2>3. \A q \in Callers \ {p} : CallerTyped(q)'
    BY <1>1, <1>4, <1>8, TypedStill DEF UsersTyped
  <2>4. \A k \in Cleaners : CleanerTyped(k)'
    BY <1>1, <1>8, TypedStill DEF UsersTyped
  <2>5. QED BY <2>1, <2>2, <2>3, <2>4 DEF UsersTyped
<1>10. conns'[New].state # "closed" /\ \A d \in inUse : conns'[d] = conns[d]
  BY <1>1, <1>5 DEF PoolTypes
<1>11. UserInv'
  <2>1. PICK c : c = New
    OBVIOUS
  <2>2. c \notin inUse /\ conns'[c].state # "closed" /\ inUse' = inUse \cup {c}
        /\ caller' = [caller EXCEPT ![p] = [at |-> "has", conn |-> c]]
    BY <2>1, <1>4, <1>5, <1>10
  <2>3. QED BY <2>2, <1>7, <1>9, <1>10, OneUserMore
<1>12. QED BY <1>8, <1>11

\* Who gives a connection back had it alone.
LEMMA ReleaseKeeps ==
    ASSUME UserInv, NEW p \in Callers, Release(p)
    PROVE  UserInv' /\ Grown
<1>1. UNCHANGED <<arrays, current, conns, cleaner>> /\ PoolTypes /\ UsersTyped
      /\ inUse' = inUse \ {caller[p].conn} /\ caller' = [caller EXCEPT ![p] = OutOfPool]
      /\ caller[p].at = "has"
  BY DEF Release, UserInv
<1>2. PoolTypes' /\ Grown
  <2>1. Len(arrays') = Len(arrays) /\ Len(conns') = Len(conns) /\ Len(arrays) \in Nat /\ Len(conns) \in Nat
    BY <1>1 DEF PoolTypes
  <2>2. inUse' \subseteq 1 .. Len(conns)
    BY <1>1 DEF PoolTypes
  <2>3. PoolTypes'
    BY <1>1, <2>1, <2>2 DEF PoolTypes
  <2>4. Grown
    BY <1>1, <2>1 DEF Grown
  <2>5. QED BY <2>3, <2>4
<1>3. UsersTyped'
  <2>1. CallerTyped(p)'
    BY <1>1 DEF CallerTyped, UsersTyped
  <2>2. QED BY <2>1, <1>1, <1>2, TypedStill DEF UsersTyped
<1>4. caller'[p] = OutOfPool /\ \A q \in Callers : q # p => caller'[q] = caller[q]
  BY <1>1 DEF UsersTyped
<1>5. \A q \in Callers : caller'[q].at = "has" => q # p /\ caller[q].at = "has" /\ caller'[q] = caller[q]
  BY <1>4 DEF OutOfPool
<1>6. OneUserWhileOpen'
  BY <1>1, <1>5 DEF UserInv, OneUserWhileOpen
<1>7. QED BY <1>2, <1>3, <1>6 DEF UserInv

\* A cleanup begins with the array of this moment.
LEMMA CleanBeginKeeps ==
    ASSUME UserInv, NEW k \in Cleaners, NEW e \in Endpoints, CleanBegin(k, e)
    PROVE  UserInv' /\ Grown
<1>1. UNCHANGED <<arrays, current, conns, inUse, caller>> /\ PoolTypes /\ UsersTyped
      /\ current[e] # None
      /\ cleaner' = [cleaner EXCEPT ![k] = [at |-> e, array |-> current[e], seen |-> {}, kept |-> {}]]
  BY DEF CleanBegin, UserInv
<1>2. PoolTypes' /\ Grown
  BY <1>1, NothingAdded
<1>3. CleanerTyped(k)'
  <2>1. cleaner'[k] = [at |-> e, array |-> current[e], seen |-> {}, kept |-> {}]
    BY <1>1 DEF UsersTyped
  <2>2. current[e] \in 1 .. Len(arrays')
    BY <1>1 DEF PoolTypes
  <2>3. QED BY <2>1, <2>2 DEF CleanerTyped
<1>4. UsersTyped'
  <2>1. DOMAIN caller' = Callers /\ DOMAIN cleaner' = Cleaners
    BY <1>1 DEF UsersTyped
  <2>2. \A q \in Callers : CallerTyped(q)'
    BY <1>1, <1>2, TypedStill DEF UsersTyped
  <2>3. \A j \in Cleaners \ {k} : CleanerTyped(j)'
    BY <1>1, <1>2, TypedStill DEF UsersTyped
  <2>4. QED BY <1>3, <2>1, <2>2, <2>3 DEF UsersTyped
<1>5. \A c \in inUse : conns[c].state # "closed" => conns'[c].state # "closed"
  BY <1>1
<1>6. QED BY <1>1, <1>2, <1>4, <1>5, UsersStay

\* A cleanup closes what is idle at this moment, and nobody has that.
LEMMA CleanVisitKeeps ==
    ASSUME UserInv, NEW k \in Cleaners, CleanVisit(k)
    PROVE  UserInv' /\ Grown
<1>1. UNCHANGED <<arrays, current, inUse, caller>> /\ PoolTypes /\ UsersTyped /\ cleaner[k] # NotCleaning
  BY DEF CleanVisit, UserInv
<1>2. PICK c \in Unseen(k) :
        \/ /\ cleaner' = [cleaner EXCEPT ![k].seen = @ \cup {c}, ![k].kept = @ \cup {c}]
           /\ UNCHANGED conns
        \/ /\ Idle(c) /\ Closed(c)
           /\ cleaner' = [cleaner EXCEPT ![k].seen = @ \cup {c}]
  BY DEF CleanVisit
<1>3. /\ DOMAIN cleaner[k] = {"at", "array", "seen", "kept"}
      /\ cleaner[k].at \in Endpoints /\ cleaner[k].array \in 1 .. Len(arrays)
      /\ cleaner[k].kept \subseteq arrays[cleaner[k].array]
  BY <1>1 DEF UsersTyped, CleanerTyped
<1>4. c \in arrays[cleaner[k].array] /\ c \in 1 .. Len(conns)
  <2>1. cleaner[k].array # None
    BY <1>1, <1>3, PoolAssumption DEF PoolTypes
  <2>2. c \in arrays[cleaner[k].array]
    BY <1>2, <2>1 DEF Unseen, Content
  <2>3. QED BY <2>2, <1>1, <1>3 DEF PoolTypes
<1>5. PoolTypes' /\ Grown /\ \A d \in inUse : conns[d].state # "closed" => conns'[d].state # "closed"
  <2>1. CASE UNCHANGED conns
    BY <2>1, <1>1 DEF PoolTypes, Grown
  <2>2. CASE Idle(c) /\ Closed(c)
    <3>1. conns' = [conns EXCEPT ![c].state = "closed"] /\ "closed" \in States
      BY <2>2 DEF Closed, States
    <3>2. PoolTypes' /\ Grown /\ \A d \in 1 .. Len(conns) : d # c => conns'[d] = conns[d]
      BY <3>1, <1>1, <1>4, ConnChanges
    <3>3. QED BY <3>2, <2>2, <1>1 DEF Idle, PoolTypes
  <2>3. QED BY <2>1, <2>2, <1>2
<1>6. CleanerTyped(k)'
  <2>1. /\ DOMAIN cleaner'[k] = {"at", "array", "seen", "kept"}
        /\ cleaner'[k].at = cleaner[k].at /\ cleaner'[k].array = cleaner[k].array
        /\ cleaner'[k].kept \subseteq cleaner[k].kept \cup {c}
    BY <1>1, <1>2, <1>3 DEF UsersTyped
  <2>2. QED BY <2>1, <1>1, <1>3, <1>4 DEF CleanerTyped
<1>7. UsersTyped'
  <2>1. DOMAIN caller' = Callers /\ DOMAIN cleaner' = Cleaners
    BY <1>1, <1>2 DEF UsersTyped
  <2>2. \A q \in Callers : CallerTyped(q)'
    BY <1>1, <1>5, TypedStill DEF UsersTyped
  <2>3. \A j \in Cleaners \ {k} : CleanerTyped(j)'
    BY <1>1, <1>2, <1>5, TypedStill DEF UsersTyped
  <2>4. QED BY <1>6, <2>1, <2>2, <2>3 DEF UsersTyped
<1>8. QED BY <1>1, <1>5, <1>7, UsersStay

\* The array a cleanup has built takes the place of the one in the map.
LEMMA CleanEndKeeps ==
    ASSUME UserInv, NEW k \in Cleaners, CleanEnd(k)
    PROVE  UserInv' /\ Grown
<1>1. UNCHANGED <<conns, inUse, caller>> /\ PoolTypes /\ UsersTyped /\ cleaner[k] # NotCleaning
      /\ cleaner' = [cleaner EXCEPT ![k] = NotCleaning]
  BY DEF CleanEnd, UserInv
<1>2. PICK e, kept : /\ e = cleaner[k].at /\ kept = cleaner[k].kept
                     /\ arrays' = Append(arrays, kept)
                     /\ current' = [current EXCEPT ![e] = Len(arrays) + 1]
  BY DEF CleanEnd
<1>3. e \in Endpoints /\ kept \subseteq 1 .. Len(conns)
  BY <1>1, <1>2 DEF UsersTyped, CleanerTyped, PoolTypes
<1>4. /\ arrays' \in Seq(SUBSET Nat) /\ Len(arrays') = Len(arrays) + 1 /\ Len(arrays) \in Nat
      /\ 1 .. Len(arrays') = (1 .. Len(arrays)) \cup {Len(arrays) + 1}
      /\ arrays'[Len(arrays) + 1] = kept
      /\ \A a \in 1 .. Len(arrays) : arrays'[a] = arrays[a]
  <2>1. kept \in SUBSET Nat
    BY <1>3
  <2>2. QED BY <2>1, <1>1, <1>2, ArrayAdded
<1>5. PoolTypes'
  BY <1>1, <1>2, <1>3, <1>4 DEF PoolTypes
<1>6. Grown
  BY <1>1, <1>4 DEF PoolTypes, Grown
<1>7. UsersTyped'
  <2>1. DOMAIN caller' = Callers /\ DOMAIN cleaner' = Cleaners
    BY <1>1 DEF UsersTyped
  <2>2. \A q \in Callers : CallerTyped(q)'
    BY <1>1, <1>6, TypedStill DEF UsersTyped
  <2>3. \A j \in Cleaners \ {k} : CleanerTyped(j)'
    BY <1>1, <1>6, TypedStill DEF UsersTyped
  <2>4. CleanerTyped(k)'
    BY <1>1 DEF UsersTyped, CleanerTyped
  <2>5. QED BY <2>1, <2>2, <2>3, <2>4 DEF UsersTyped
<1>8. \A c \in inUse : conns[c].state # "closed" => conns'[c].state # "closed"
  BY <1>1
<1>9. QED BY <1>1, <1>5, <1>6, <1>7, <1>8, UsersStay

LEMMA UserInitInv == ASSUME PoolInit PROVE UserInv
<1>1. Cardinality(Endpoints) \in Nat
  BY PoolAssumption, FS_CardinalityType
<1>2. PoolTypes
  <2>1. Len(arrays) = Cardinality(Endpoints) /\ arrays \in Seq(SUBSET Nat)
        /\ \A a \in 1 .. Len(arrays) : arrays[a] = {}
    BY <1>1 DEF PoolInit
  <2>2. conns \in Seq([state : States, to : Endpoints]) /\ inUse = {}
    BY DEF PoolInit
  <2>3. current \in [Endpoints -> (1 .. Len(arrays)) \cup {None}]
    BY <2>1 DEF PoolInit
  <2>4. QED BY <2>1, <2>2, <2>3 DEF PoolTypes
<1>3. UsersTyped
  BY DEF PoolInit, UsersTyped, CallerTyped, CleanerTyped
<1>4. OneUserWhileOpen
  BY DEF PoolInit, OneUserWhileOpen, OutOfPool
<1>5. QED BY <1>2, <1>3, <1>4 DEF UserInv

LEMMA UserNextInv ==
    ASSUME UserInv, [PoolNext]_poolVars
    PROVE  UserInv' /\ Grown
<1>1. CASE PoolStart \/ Prewarmings \/ UNCHANGED poolVars
  BY <1>1, NothingMoves DEF PoolStart, Prewarmings, poolVars
<1>2. CASE PoolStop \/ PoolCleared
  BY <1>2, PoolStopKeeps, PoolClearedKeeps
<1>3. ASSUME NEW e \in Endpoints, Prewarm(e)
      PROVE  UserInv' /\ Grown
  BY <1>3, PrewarmKeeps
<1>4. ASSUME NEW e \in Endpoints, HealthCheck(e)
      PROVE  UserInv' /\ Grown
  BY <1>4, NothingMoves DEF HealthCheck
<1>5. ASSUME NEW e \in Endpoints, NEW p \in Callers, GetIdle(p, e) \/ GetNew(p, e)
      PROVE  UserInv' /\ Grown
  BY <1>5, GetIdleKeeps, GetNewKeeps
<1>6. ASSUME NEW e \in Endpoints, NEW k \in Cleaners, CleanBegin(k, e)
      PROVE  UserInv' /\ Grown
  BY <1>6, CleanBeginKeeps
<1>7. ASSUME NEW p \in Callers, GetOpened(p) \/ GetFails(p) \/ Release(p)
      PROVE  UserInv' /\ Grown
  BY <1>7, GetOpenedKeeps, GetFailsKeeps, ReleaseKeeps
<1>8. ASSUME NEW c \in DOMAIN conns, ProviderError(c)
      PROVE  UserInv' /\ Grown
  BY <1>8, ProviderErrorKeeps
<1>9. ASSUME NEW k \in Cleaners, CleanVisit(k) \/ CleanEnd(k)
      PROVE  UserInv' /\ Grown
  BY <1>9, CleanVisitKeeps, CleanEndKeeps
<1>10. QED BY <1>1, <1>2, <1>3, <1>4, <1>5, <1>6, <1>7, <1>8, <1>9 DEF PoolNext

\* A connection of the pool has one user at a time, and while it has one no
\* cleanup closes it, for any number of callers, cleanups and endpoints and
\* whatever arrays of old come back.
THEOREM UsersAreAlone == PoolSpec => []OneUserWhileOpen
<1>1. PoolInit => UserInv
  BY UserInitInv
<1>2. UserInv /\ [PoolNext]_poolVars => UserInv'
  BY UserNextInv
<1>3. UserInv => OneUserWhileOpen
  BY DEF UserInv
<1>4. QED BY <1>1, <1>2, <1>3, PTL DEF PoolSpec
-----------------------------------------------------------------------------
\* An endpoint uses an array when it is the one in the map, when a caller of
\* the endpoint will put it there, or when a cleanup of the endpoint reads it.
OpensFor(p, e, a) == caller[p].at = "opening" /\ caller[p].to = e /\ caller[p].array = a
CleansFor(k, e, a) == cleaner[k] # NotCleaning /\ cleaner[k].at = e /\ cleaner[k].array = a
Uses(e, a) ==
    \/ current[e] = a
    \/ \E p \in Callers : OpensFor(p, e, a)
    \/ \E k \in Cleaners : CleansFor(k, e, a)

Openers(a) == {p \in Callers : caller[p].at = "opening" /\ caller[p].array = a}

\* One more than an array may come to have.
Beyond == MaxConnections + Cardinality(Callers) + Prewarmed * starts.made

StartsTyped ==
    /\ starts.made \in Nat /\ prewarming \in [Endpoints -> Nat]
    /\ \A e \in Endpoints : prewarming[e] <= Prewarmed * starts.made

\* Two endpoints never use the same array.
NotShared ==
    \A a \in 1 .. Len(arrays) : \A e, f \in Endpoints : Uses(e, a) /\ Uses(f, a) => e = f

\* There is room for all that will still come into the array, except for what
\* later callers add, who look at the limit themselves.
RoomForAll ==
    \A a \in 1 .. Len(arrays) : \A e \in Endpoints : Uses(e, a) =>
        Cardinality(arrays[a]) + Cardinality(Openers(a)) + prewarming[e] < Beyond

RoomInv ==
    /\ StartsTyped /\ NotShared /\ RoomForAll
    /\ \A a \in 1 .. Len(arrays) : Cardinality(arrays[a]) < Beyond

\* What is counted is finite.
LEMMA CountsAreNaturals ==
    ASSUME UserInv
    PROVE  /\ \A a \in 1 .. Len(arrays) : IsFiniteSet(arrays[a]) /\ Cardinality(arrays[a]) \in Nat
           /\ \A a : IsFiniteSet(Openers(a)) /\ Cardinality(Openers(a)) \in Nat
           /\ Cardinality(Callers) \in Nat
<1>0. Len(conns) \in Nat
  BY DEF UserInv, PoolTypes
<1>1. IsFiniteSet(1 .. Len(conns))
  BY <1>0, PrefixIsFinite
<1>2. \A a \in 1 .. Len(arrays) : arrays[a] \in SUBSET (1 .. Len(conns))
  BY DEF UserInv, PoolTypes
<1>3. \A a \in 1 .. Len(arrays) : IsFiniteSet(arrays[a]) /\ Cardinality(arrays[a]) \in Nat
  BY <1>1, <1>2, FS_Subset, FS_CardinalityType
<1>4. \A a : Openers(a) \in SUBSET Callers
  BY DEF Openers
<1>5. \A a : IsFiniteSet(Openers(a)) /\ Cardinality(Openers(a)) \in Nat
  BY <1>4, PoolAssumption, FS_Subset, FS_CardinalityType
<1>6. QED BY <1>3, <1>5, PoolAssumption, FS_CardinalityType

LEMMA BeyondIsNatural ==
    ASSUME UserInv, StartsTyped
    PROVE  /\ Prewarmed * starts.made \in Nat /\ Beyond \in Nat
           /\ Beyond = MaxConnections + Cardinality(Callers) + Prewarmed * starts.made
<1>1. Cardinality(Callers) \in Nat /\ MaxConnections \in Nat /\ Prewarmed \in Nat /\ starts.made \in Nat
  BY CountsAreNaturals, PoolAssumption DEF StartsTyped
<1>2. QED BY <1>1 DEF Beyond

\* An array that is used is there.
LEMMA UsedIsThere ==
    ASSUME UserInv, NEW e \in Endpoints, NEW a \in Nat, Uses(e, a)
    PROVE  a \in 1 .. Len(arrays)
<1>1. CASE current[e] = a
  BY <1>1, PoolAssumption DEF UserInv, PoolTypes
<1>2. ASSUME NEW p \in Callers, OpensFor(p, e, a)
      PROVE  a \in 1 .. Len(arrays)
  BY <1>2 DEF OpensFor, UserInv, UsersTyped, CallerTyped, OutOfPool
<1>3. ASSUME NEW k \in Cleaners, CleansFor(k, e, a)
      PROVE  a \in 1 .. Len(arrays)
  BY <1>3 DEF CleansFor, UserInv, UsersTyped, CleanerTyped
<1>4. QED BY <1>1, <1>2, <1>3 DEF Uses

\* Steps that change no array, and after which nobody uses one who did not.
LEMMA RoomQuiet ==
    ASSUME UserInv, UserInv', RoomInv, UNCHANGED <<arrays, prewarming>>, starts'.made = starts.made,
           \A a \in 1 .. Len(arrays) : Openers(a)' \subseteq Openers(a),
           \A a \in 1 .. Len(arrays) : \A e \in Endpoints : Uses(e, a)' => Uses(e, a)
    PROVE  RoomInv'
<1>1. StartsTyped' /\ Beyond' = Beyond /\ NotShared'
  BY DEF RoomInv, StartsTyped, Beyond, NotShared
<1>2. \A a \in 1 .. Len(arrays) : Cardinality(Openers(a)') \in Nat /\ Cardinality(Openers(a)') <= Cardinality(Openers(a))
  <2>1. \A a \in 1 .. Len(arrays) : Openers(a)' \in SUBSET Openers(a) /\ IsFiniteSet(Openers(a))
    BY CountsAreNaturals
  <2>2. QED BY <2>1, FS_Subset, FS_CardinalityType
<1>3. RoomForAll'
  <2> SUFFICES ASSUME NEW a \in 1 .. Len(arrays), NEW e \in Endpoints, Uses(e, a)'
               PROVE  Cardinality(arrays[a]) + Cardinality(Openers(a)') + prewarming[e] < Beyond
    BY <1>1 DEF RoomForAll
  <2>1. Cardinality(arrays[a]) + Cardinality(Openers(a)) + prewarming[e] < Beyond
    BY DEF RoomInv, RoomForAll
  <2>2. Cardinality(arrays[a]) \in Nat /\ Cardinality(Openers(a)) \in Nat /\ prewarming[e] \in Nat /\ Beyond \in Nat
    BY CountsAreNaturals, BeyondIsNatural DEF RoomInv, StartsTyped
  <2>3. QED BY <1>2, <2>1, <2>2
<1>4. \A a \in 1 .. Len(arrays') : Cardinality(arrays'[a]) < Beyond'
  BY <1>1 DEF RoomInv
<1>5. QED BY <1>1, <1>3, <1>4 DEF RoomInv

\* Steps that add to one array, or make it.
LEMMA RoomInOne ==
    ASSUME UserInv, UserInv', RoomInv, NEW e \in Endpoints, NEW a \in 1 .. Len(arrays'),
           starts'.made = starts.made, prewarming' \in [Endpoints -> Nat],
           \A f \in Endpoints : prewarming'[f] <= prewarming[f],
           \A b \in (1 .. Len(arrays')) \ {a} :
               b \in 1 .. Len(arrays) /\ arrays'[b] = arrays[b] /\ Openers(b)' \subseteq Openers(b),
           \A b \in (1 .. Len(arrays')) \ {a} : \A f \in Endpoints : Uses(f, b)' => Uses(f, b),
           \A f \in Endpoints : Uses(f, a)' => f = e,
           Cardinality(arrays'[a]) + Cardinality(Openers(a)') + prewarming'[e] < Beyond
    PROVE  RoomInv'
<1>1. Beyond' = Beyond /\ Beyond \in Nat
  BY BeyondIsNatural DEF RoomInv, Beyond
<1>2. StartsTyped'
  <2>1. \A f \in Endpoints : prewarming[f] \in Nat /\ prewarming'[f] \in Nat /\ prewarming[f] <= Prewarmed * starts.made
    BY DEF RoomInv, StartsTyped
  <2>2. Prewarmed * starts.made \in Nat
    BY BeyondIsNatural DEF RoomInv
  <2>3. \A f \in Endpoints : prewarming'[f] <= Prewarmed * starts.made
    BY <2>1, <2>2
  <2>4. QED BY <2>3 DEF RoomInv, StartsTyped
<1>3. NotShared'
  BY DEF RoomInv, NotShared
<1>4. \A b \in (1 .. Len(arrays')) \ {a} :
        Cardinality(Openers(b)') \in Nat /\ Cardinality(Openers(b)') <= Cardinality(Openers(b))
  <2>1. \A b \in (1 .. Len(arrays')) \ {a} : Openers(b)' \in SUBSET Openers(b) /\ IsFiniteSet(Openers(b))
    BY CountsAreNaturals
  <2>2. QED BY <2>1, FS_Subset, FS_CardinalityType
<1>5. RoomForAll'
  <2> SUFFICES ASSUME NEW b \in 1 .. Len(arrays'), NEW f \in Endpoints, Uses(f, b)'
               PROVE  Cardinality(arrays'[b]) + Cardinality(Openers(b)') + prewarming'[f] < Beyond
    BY <1>1 DEF RoomForAll
  <2>1. CASE b = a
    BY <2>1
  <2>2. CASE b # a
    <3>1. /\ b \in 1 .. Len(arrays) /\ arrays'[b] = arrays[b]
          /\ Cardinality(arrays[b]) + Cardinality(Openers(b)) + prewarming[f] < Beyond
      BY <2>2 DEF RoomInv, RoomForAll
    <3>2. /\ Cardinality(arrays[b]) \in Nat /\ Cardinality(Openers(b)) \in Nat
          /\ prewarming[f] \in Nat /\ prewarming'[f] \in Nat /\ prewarming'[f] <= prewarming[f]
      BY <3>1, CountsAreNaturals DEF RoomInv, StartsTyped
    <3>3. Cardinality(Openers(b)') \in Nat /\ Cardinality(Openers(b)') <= Cardinality(Openers(b))
      BY <2>2, <1>4
    <3>4. QED BY <3>1, <3>2, <3>3, <1>1
  <2>3. QED BY <2>1, <2>2
<1>6. \A b \in 1 .. Len(arrays') : Cardinality(arrays'[b]) < Beyond
  <2>1. Cardinality(arrays'[a]) < Beyond
    <3>1. IsFiniteSet(arrays'[a]) /\ Cardinality(arrays'[a]) \in Nat
      <4>0. Len(conns') \in Nat
        BY DEF UserInv, PoolTypes
      <4>1. IsFiniteSet(1 .. Len(conns'))
        BY <4>0, PrefixIsFinite
      <4>2. arrays'[a] \in SUBSET (1 .. Len(conns'))
        BY DEF UserInv, PoolTypes
      <4>3. QED BY <4>1, <4>2, FS_Subset, FS_CardinalityType
    <3>2. Cardinality(Openers(a)') \in Nat
      <4>1. Openers(a)' \in SUBSET Callers
        BY DEF Openers
      <4>2. QED BY <4>1, PoolAssumption, FS_Subset, FS_CardinalityType
    <3>3. prewarming'[e] \in Nat
      OBVIOUS
    <3>4. QED BY <3>1, <3>2, <3>3, <1>1
  <2>2. QED BY <2>1 DEF RoomInv
<1>7. QED BY <1>1, <1>2, <1>3, <1>5, <1>6 DEF RoomInv

\* What does not touch the arrays, nor who opens or cleans.
LEMMA RoomUntouched ==
    ASSUME UserInv, UserInv', RoomInv, UNCHANGED <<arrays, prewarming, caller, cleaner>>,
           starts'.made = starts.made,
           current' = current \/ current' = [e \in Endpoints |-> None]
    PROVE  RoomInv'
<1>1. \A a \in 1 .. Len(arrays) : Openers(a)' \subseteq Openers(a)
  BY DEF Openers
<1>2. \A a \in 1 .. Len(arrays) : \A e \in Endpoints : Uses(e, a)' => Uses(e, a)
  <2>1. \A a \in 1 .. Len(arrays) : \A e \in Endpoints : current'[e] = a => current[e] = a
    BY PoolAssumption DEF UserInv, PoolTypes
  <2>2. QED BY <2>1 DEF Uses, OpensFor, CleansFor
<1>3. QED BY <1>1, <1>2, RoomQuiet

\* A caller that is not opening afterwards.
LEMMA RoomCaller ==
    ASSUME UserInv, UserInv', RoomInv, UNCHANGED <<arrays, current, prewarming, starts, cleaner>>,
           NEW p \in Callers, NEW place, place.at # "opening", caller' = [caller EXCEPT ![p] = place]
    PROVE  RoomInv'
<1>1. \A q \in Callers : caller'[q].at = "opening" => caller'[q] = caller[q]
  BY DEF UserInv, UsersTyped
<1>2. \A a \in 1 .. Len(arrays) : Openers(a)' \subseteq Openers(a)
  BY <1>1 DEF Openers
<1>3. \A a \in 1 .. Len(arrays) : \A e \in Endpoints : Uses(e, a)' => Uses(e, a)
  BY <1>1 DEF Uses, OpensFor, CleansFor
<1>4. QED BY <1>2, <1>3, RoomQuiet

\* A cleanup reads the array of its endpoint, or goes on with the one it has.
LEMMA RoomCleaner ==
    ASSUME UserInv, UserInv', RoomInv, UNCHANGED <<arrays, current, prewarming, starts, caller>>,
           NEW k \in Cleaners, \A j \in Cleaners \ {k} : cleaner'[j] = cleaner[j],
           \A a \in 1 .. Len(arrays) : \A e \in Endpoints : CleansFor(k, e, a)' => Uses(e, a)
    PROVE  RoomInv'
<1>1. \A a \in 1 .. Len(arrays) : Openers(a)' \subseteq Openers(a)
  BY DEF Openers
<1>2. \A a \in 1 .. Len(arrays) : \A e \in Endpoints : Uses(e, a)' => Uses(e, a)
  BY DEF Uses, OpensFor, CleansFor
<1>3. QED BY <1>1, <1>2, RoomQuiet

LEMMA CleanBeginRoom ==
    ASSUME UserInv, UserInv', RoomInv, NEW k \in Cleaners, NEW e \in Endpoints, CleanBegin(k, e)
    PROVE  RoomInv'
<1>1. UNCHANGED <<arrays, current, prewarming, starts, caller>>
      /\ cleaner' = [cleaner EXCEPT ![k] = [at |-> e, array |-> current[e], seen |-> {}, kept |-> {}]]
  BY DEF CleanBegin
<1>2. /\ \A j \in Cleaners \ {k} : cleaner'[j] = cleaner[j]
      /\ cleaner'[k].at = e /\ cleaner'[k].array = current[e]
  BY <1>1 DEF UserInv, UsersTyped
<1>3. \A a \in 1 .. Len(arrays) : \A f \in Endpoints : CleansFor(k, f, a)' => Uses(f, a)
  BY <1>2 DEF CleansFor, Uses
<1>4. QED BY <1>1, <1>2, <1>3, RoomCleaner

LEMMA CleanVisitRoom ==
    ASSUME UserInv, UserInv', RoomInv, NEW k \in Cleaners, CleanVisit(k)
    PROVE  RoomInv'
<1>1. UNCHANGED <<arrays, current, prewarming, starts, caller>> /\ cleaner[k] # NotCleaning
  BY DEF CleanVisit
<1>2. PICK c \in Unseen(k) :
        \/ cleaner' = [cleaner EXCEPT ![k].seen = @ \cup {c}, ![k].kept = @ \cup {c}]
        \/ cleaner' = [cleaner EXCEPT ![k].seen = @ \cup {c}]
  BY DEF CleanVisit
<1>3. DOMAIN cleaner = Cleaners /\ DOMAIN cleaner[k] = {"at", "array", "seen", "kept"}
  BY <1>1 DEF UserInv, UsersTyped, CleanerTyped
<1>4. /\ \A j \in Cleaners \ {k} : cleaner'[j] = cleaner[j]
      /\ cleaner'[k].at = cleaner[k].at /\ cleaner'[k].array = cleaner[k].array
  BY <1>2, <1>3
<1>5. \A a \in 1 .. Len(arrays) : \A f \in Endpoints : CleansFor(k, f, a)' => Uses(f, a)
  BY <1>1, <1>4 DEF CleansFor, Uses
<1>6. QED BY <1>1, <1>4, <1>5, RoomCleaner

\* A start may add to every array of the map.
LEMMA PoolStartRoom ==
    ASSUME UserInv, UserInv', RoomInv, PoolStart
    PROVE  RoomInv'
<1>1. /\ UNCHANGED <<arrays, current, caller, cleaner>>
      /\ prewarming' = [e \in Endpoints |-> prewarming[e] + Prewarmed]
      /\ starts'.made = starts.made + 1
  BY DEF PoolStart
<1>2. PICK m, pm, M, C : /\ m = starts.made /\ pm = Prewarmed * m
                         /\ M = MaxConnections /\ C = Cardinality(Callers)
  OBVIOUS
<1>3. m \in Nat /\ Prewarmed \in Nat /\ pm \in Nat /\ M \in Nat /\ C \in Nat /\ Beyond = M + C + pm
  BY <1>2, BeyondIsNatural, CountsAreNaturals, PoolAssumption DEF RoomInv, StartsTyped
<1>4. Prewarmed * (m + 1) = pm + Prewarmed
  BY <1>2, <1>3
<1>5. Beyond' = M + C + (pm + Prewarmed)
  BY <1>1, <1>2, <1>4 DEF Beyond
<1>6. \A e \in Endpoints : /\ prewarming[e] \in Nat /\ prewarming[e] <= pm
                             /\ prewarming'[e] = prewarming[e] + Prewarmed
  BY <1>1, <1>2 DEF RoomInv, StartsTyped
<1>7. StartsTyped'
  <2>1. starts'.made = m + 1 /\ starts'.made \in Nat
    BY <1>1, <1>2, <1>3
  <2>2. prewarming' \in [Endpoints -> Nat]
    BY <1>1, <1>3, <1>6
  <2>3. \A e \in Endpoints : prewarming'[e] <= pm + Prewarmed
    BY <1>3, <1>6
  <2>4. Prewarmed * starts'.made = pm + Prewarmed
    BY <2>1, <1>4
  <2>5. QED BY <2>1, <2>2, <2>3, <2>4 DEF StartsTyped
<1>8. /\ \A a : Openers(a)' = Openers(a)
      /\ \A a : \A e \in Endpoints : Uses(e, a)' <=> Uses(e, a)
  BY <1>1 DEF Openers, Uses, OpensFor, CleansFor
<1>9. NotShared'
  BY <1>1, <1>8 DEF RoomInv, NotShared
<1>10. RoomForAll'
  <2> SUFFICES ASSUME NEW a \in 1 .. Len(arrays), NEW e \in Endpoints, Uses(e, a)
               PROVE  Cardinality(arrays[a]) + Cardinality(Openers(a)) + (prewarming[e] + Prewarmed) < Beyond'
    BY <1>1, <1>6, <1>8 DEF RoomForAll
  <2>1. Cardinality(arrays[a]) + Cardinality(Openers(a)) + prewarming[e] < Beyond
    BY DEF RoomInv, RoomForAll
  <2>2. Cardinality(arrays[a]) \in Nat /\ Cardinality(Openers(a)) \in Nat /\ prewarming[e] \in Nat
    BY CountsAreNaturals, <1>6
  <2>3. QED BY <1>3, <1>5, <2>1, <2>2
<1>11. \A a \in 1 .. Len(arrays') : Cardinality(arrays'[a]) < Beyond'
  <2>1. \A a \in 1 .. Len(arrays) : Cardinality(arrays[a]) \in Nat /\ Cardinality(arrays[a]) < Beyond
    BY CountsAreNaturals DEF RoomInv
  <2>2. QED BY <2>1, <1>1, <1>3, <1>5
<1>12. QED BY <1>7, <1>9, <1>10, <1>11 DEF RoomInv

\* The connection of a start was counted when the start began.
LEMMA PrewarmRoom ==
    ASSUME UserInv, UserInv', RoomInv, NEW e \in Endpoints, Prewarm(e)
    PROVE  RoomInv'
<1>1. /\ UNCHANGED <<caller, cleaner, starts>> /\ starts'.made = starts.made
      /\ prewarming[e] > 0 /\ prewarming' = [prewarming EXCEPT ![e] = @ - 1]
  BY DEF Prewarm
<1>2. PICK d \in Nat : prewarming[e] = d + 1
  <2>1. prewarming[e] \in Nat
    BY DEF RoomInv, StartsTyped
  <2>2. prewarming[e] - 1 \in Nat /\ prewarming[e] = (prewarming[e] - 1) + 1
    BY <2>1, <1>1
  <2>3. QED BY <2>2
<1>3. /\ prewarming' \in [Endpoints -> Nat] /\ prewarming'[e] = d
      /\ \A f \in Endpoints : prewarming'[f] <= prewarming[f]
  BY <1>1, <1>2 DEF RoomInv, StartsTyped
<1>4. /\ \A b : Openers(b)' = Openers(b)
      /\ Beyond \in Nat /\ Prewarmed * starts.made \in Nat
      /\ Beyond = MaxConnections + Cardinality(Callers) + Prewarmed * starts.made
  BY <1>1, BeyondIsNatural DEF Openers, RoomInv
<1>5. CASE current[e] = None /\ arrays' = Append(arrays, {New})
           /\ current' = [current EXCEPT ![e] = Len(arrays) + 1]
  <2>1. PICK a : a = Len(arrays) + 1
    OBVIOUS
  <2>2. /\ Len(arrays') = a /\ arrays'[a] = {New} /\ a \in Nat
        /\ 1 .. Len(arrays') = (1 .. Len(arrays)) \cup {a} /\ a \notin 1 .. Len(arrays)
        /\ \A b \in 1 .. Len(arrays) : arrays'[b] = arrays[b]
    <3>1. New \in Nat
      BY DEF UserInv, PoolTypes, New
    <3>2. QED BY <1>5, <2>1, <3>1, ArrayAdded DEF UserInv
  <2>3. \A f \in Endpoints : \A b \in Nat : Uses(f, b)' => Uses(f, b) \/ (f = e /\ b = a)
    BY <1>1, <1>5, <2>1 DEF Uses, OpensFor, CleansFor, UserInv, PoolTypes
  <2>4. \A f \in Endpoints : ~ Uses(f, a)
    BY <2>2, UsedIsThere
  <2>5. Cardinality(arrays'[a]) = 1
    BY <2>2, FS_Singleton
  <2>6. Cardinality(Openers(a)') = 0
    <3>0. \A p \in Callers : caller[p].at = "opening" => caller[p].array \in 1 .. Len(arrays)
      BY DEF UserInv, UsersTyped, CallerTyped, OutOfPool
    <3>1. Openers(a) = {}
      BY <3>0, <2>2 DEF Openers
    <3>2. QED BY <3>1, <1>4, FS_EmptySet
  <2>7. 1 + 0 + d < Beyond
    <3>1. d + 1 <= Prewarmed * starts.made
      BY <1>2 DEF RoomInv, StartsTyped
    <3>2. MaxConnections \in Nat \ {0} /\ Cardinality(Callers) \in Nat
      BY PoolAssumption, CountsAreNaturals
    <3>3. QED BY <3>1, <3>2, <1>4
  <2>8. a \in 1 .. Len(arrays')
    BY <2>2
  <2>9. \A b \in (1 .. Len(arrays')) \ {a} :
           b \in 1 .. Len(arrays) /\ arrays'[b] = arrays[b] /\ Openers(b)' \subseteq Openers(b)
    BY <2>2, <1>4
  <2>10. \A b \in (1 .. Len(arrays')) \ {a} : \A f \in Endpoints : Uses(f, b)' => Uses(f, b)
    BY <2>3, <2>2
  <2>11. \A f \in Endpoints : Uses(f, a)' => f = e
    BY <2>2, <2>3, <2>4
  <2>12. Cardinality(arrays'[a]) + Cardinality(Openers(a)') + prewarming'[e] < Beyond
    BY <2>5, <2>6, <2>7, <1>3
  <2>13. QED BY <1>1, <1>3, <2>8, <2>9, <2>10, <2>11, <2>12, RoomInOne
<1>6. CASE current[e] # None /\ arrays' = [arrays EXCEPT ![current[e]] = @ \cup {New}]
           /\ UNCHANGED current
  <2>1. PICK a : a = current[e]
    OBVIOUS
  <2>2. a \in 1 .. Len(arrays) /\ Uses(e, a)
    BY <1>6, <2>1 DEF UserInv, PoolTypes, Uses
  <2>3. /\ Len(arrays') = Len(arrays) /\ arrays'[a] = arrays[a] \cup {New}
        /\ \A b \in 1 .. Len(arrays) : b # a => arrays'[b] = arrays[b]
    <3>1. New \in Nat
      BY DEF UserInv, PoolTypes, New
    <3>2. QED BY <1>6, <2>1, <2>2, <3>1, ArrayGrows DEF UserInv
  <2>4. \A f \in Endpoints : \A b : Uses(f, b)' => Uses(f, b)
    BY <1>1, <1>6 DEF Uses, OpensFor, CleansFor
  <2>5. \A f \in Endpoints : Uses(f, a)' => f = e
    BY <2>2, <2>4 DEF RoomInv, NotShared
  <2>6. Cardinality(arrays'[a]) + Cardinality(Openers(a)') + prewarming'[e] < Beyond
    <3>1. PICK x, y, z : x = Cardinality(arrays[a]) /\ y = Cardinality(arrays'[a]) /\ z = Cardinality(Openers(a))
      OBVIOUS
    <3>2. x \in Nat /\ z \in Nat /\ IsFiniteSet(arrays[a])
      BY <3>1, <2>2, CountsAreNaturals
    <3>3. y \in Nat /\ y <= x + 1
      BY <3>1, <3>2, <2>3, OneMoreAtMost
    <3>4. x + z + (d + 1) < Beyond
      BY <3>1, <2>2, <1>2 DEF RoomInv, RoomForAll
    <3>5. y + z + d < Beyond
      BY <3>2, <3>3, <3>4, <1>4
    <3>6. QED BY <3>1, <3>5, <1>3, <1>4
  <2>7. a \in 1 .. Len(arrays')
    BY <2>2, <2>3
  <2>8. \A b \in (1 .. Len(arrays')) \ {a} :
           b \in 1 .. Len(arrays) /\ arrays'[b] = arrays[b] /\ Openers(b)' \subseteq Openers(b)
    BY <2>3, <1>4
  <2>9. \A b \in (1 .. Len(arrays')) \ {a} : \A f \in Endpoints : Uses(f, b)' => Uses(f, b)
    BY <2>4
  <2>10. QED BY <1>1, <1>3, <2>5, <2>6, <2>7, <2>8, <2>9, RoomInOne
<1>7. CASE UNCHANGED <<arrays, current>>
  <2>1. NotShared' /\ Beyond' = Beyond
    BY <1>1, <1>7 DEF RoomInv, NotShared, Uses, OpensFor, CleansFor, Beyond
  <2>2. StartsTyped'
    <3>1. \A f \in Endpoints : prewarming'[f] <= Prewarmed * starts.made
      BY <1>3, <1>4 DEF RoomInv, StartsTyped
    <3>2. QED BY <3>1, <1>1, <1>3 DEF RoomInv, StartsTyped
  <2>3. RoomForAll'
    <3> SUFFICES ASSUME NEW a \in 1 .. Len(arrays), NEW f \in Endpoints, Uses(f, a)
                 PROVE  Cardinality(arrays[a]) + Cardinality(Openers(a)) + prewarming'[f] < Beyond
      BY <1>1, <1>4, <1>7, <2>1 DEF RoomForAll, Uses, OpensFor, CleansFor
    <3>1. Cardinality(arrays[a]) + Cardinality(Openers(a)) + prewarming[f] < Beyond
      BY DEF RoomInv, RoomForAll
    <3>2. /\ Cardinality(arrays[a]) \in Nat /\ Cardinality(Openers(a)) \in Nat
          /\ prewarming[f] \in Nat /\ prewarming'[f] \in Nat /\ prewarming'[f] <= prewarming[f]
      BY CountsAreNaturals, <1>3 DEF RoomInv, StartsTyped
    <3>3. QED BY <3>1, <3>2, <1>4
  <2>4. QED BY <1>7, <2>1, <2>2, <2>3 DEF RoomInv
<1>8. QED BY <1>5, <1>6, <1>7 DEF Prewarm

\* Who begins to open has seen an array below the limit.
LEMMA GetNewRoom ==
    ASSUME UserInv, UserInv', RoomInv, NEW p \in Callers, NEW e \in Endpoints, GetNew(p, e)
    PROVE  RoomInv'
<1>1. /\ UNCHANGED <<current, conns, cleaner, prewarming, starts>> /\ starts'.made = starts.made
      /\ HasRoom(current[e]) /\ caller[p] = OutOfPool
  BY DEF GetNew
<1>2. PICK a : /\ a = (IF current[e] = None THEN Len(arrays) + 1 ELSE current[e])
               /\ caller' = [caller EXCEPT ![p] = [at |-> "opening", to |-> e, array |-> a]]
  BY DEF GetNew
<1>3. /\ prewarming' \in [Endpoints -> Nat] /\ \A f \in Endpoints : prewarming'[f] <= prewarming[f]
      /\ prewarming[e] \in Nat /\ prewarming[e] <= Prewarmed * starts.made
  BY <1>1 DEF RoomInv, StartsTyped
<1>4. /\ caller'[p].at = "opening" /\ caller'[p].to = e /\ caller'[p].array = a
      /\ \A q \in Callers \ {p} : caller'[q] = caller[q]
      /\ caller[p].at # "opening"
  BY <1>1, <1>2 DEF UserInv, UsersTyped, OutOfPool
<1>5. /\ \A b : b # a => Openers(b)' \subseteq Openers(b)
      /\ Openers(a)' \in SUBSET Callers
  BY <1>4 DEF Openers
<1>6. \A f \in Endpoints : \A b : Uses(f, b)' => Uses(f, b) \/ (f = e /\ b = a)
  BY <1>1, <1>4 DEF Uses, OpensFor, CleansFor
<1>7. \A b : b # a => \A f \in Endpoints : Uses(f, b)' => Uses(f, b)
  BY <1>6
<1>8. /\ Cardinality(Openers(a)') \in Nat /\ Cardinality(Openers(a)') <= Cardinality(Callers)
      /\ Cardinality(Callers) \in Nat
  BY <1>5, PoolAssumption, FS_Subset, FS_CardinalityType
<1>9. /\ Beyond \in Nat /\ Prewarmed * starts.made \in Nat /\ MaxConnections \in Nat
      /\ Beyond = MaxConnections + Cardinality(Callers) + Prewarmed * starts.made
  BY BeyondIsNatural, PoolAssumption DEF RoomInv
<1>10. CASE current[e] = None
  <2>1. a = Len(arrays) + 1 /\ arrays' = Append(arrays, {}) /\ {} \in SUBSET Nat
    BY <1>2, <1>10 DEF GetNew
  <2>2. /\ Len(arrays') = a /\ arrays'[a] = {} /\ a \in Nat
        /\ 1 .. Len(arrays') = (1 .. Len(arrays)) \cup {a} /\ a \notin 1 .. Len(arrays)
        /\ \A b \in 1 .. Len(arrays) : arrays'[b] = arrays[b]
    BY <2>1, ArrayAdded DEF UserInv
  <2>3. \A f \in Endpoints : Uses(f, a)' => f = e
    BY <2>2, <1>6, UsedIsThere
  <2>4. \A b \in (1 .. Len(arrays')) \ {a} :
           b \in 1 .. Len(arrays) /\ arrays'[b] = arrays[b] /\ Openers(b)' \subseteq Openers(b)
    BY <2>2, <1>5
  <2>5. \A b \in (1 .. Len(arrays')) \ {a} : \A f \in Endpoints : Uses(f, b)' => Uses(f, b)
    BY <1>7
  <2>6. Cardinality(arrays'[a]) + Cardinality(Openers(a)') + prewarming'[e] < Beyond
    <3>1. Cardinality(arrays'[a]) = 0
      BY <2>2, FS_EmptySet
    <3>2. prewarming'[e] = prewarming[e] /\ MaxConnections > 0
      BY <1>1, PoolAssumption
    <3>3. QED BY <3>1, <3>2, <1>3, <1>8, <1>9
  <2>7. a \in 1 .. Len(arrays')
    BY <2>2
  <2>8. QED BY <1>1, <1>3, <2>3, <2>4, <2>5, <2>6, <2>7, RoomInOne
<1>11. CASE current[e] # None
  <2>1. a = current[e] /\ UNCHANGED arrays
    BY <1>2, <1>11 DEF GetNew
  <2>2. a \in 1 .. Len(arrays) /\ Uses(e, a) /\ a \in 1 .. Len(arrays')
    BY <2>1, <1>11 DEF UserInv, PoolTypes, Uses
  <2>3. \A f \in Endpoints : Uses(f, a)' => f = e
    BY <2>2, <1>6 DEF RoomInv, NotShared
  <2>4. \A b \in (1 .. Len(arrays')) \ {a} :
           b \in 1 .. Len(arrays) /\ arrays'[b] = arrays[b] /\ Openers(b)' \subseteq Openers(b)
    BY <2>1, <1>5
  <2>5. \A b \in (1 .. Len(arrays')) \ {a} : \A f \in Endpoints : Uses(f, b)' => Uses(f, b)
    BY <1>7
  <2>6. Cardinality(arrays'[a]) + Cardinality(Openers(a)') + prewarming'[e] < Beyond
    <3>1. Cardinality(arrays[a]) < MaxConnections
      BY <1>1, <1>11, <2>1 DEF HasRoom, Content
    <3>2. prewarming'[e] = prewarming[e] /\ arrays'[a] = arrays[a] /\ Cardinality(arrays[a]) \in Nat
      BY <1>1, <2>1, <2>2, CountsAreNaturals
    <3>3. QED BY <3>1, <3>2, <1>3, <1>8, <1>9
  <2>7. QED BY <1>1, <1>3, <2>2, <2>3, <2>4, <2>5, <2>6, RoomInOne
<1>12. QED BY <1>10, <1>11

\* Who opened adds what had been counted since it began.
LEMMA GetOpenedRoom ==
    ASSUME UserInv, UserInv', RoomInv, NEW p \in Callers, GetOpened(p)
    PROVE  RoomInv'
<1>1. PICK e, a : e = caller[p].to /\ a = caller[p].array
  OBVIOUS
<1>2. caller[p].at = "opening" /\ e \in Endpoints /\ a \in 1 .. Len(arrays)
  BY <1>1 DEF GetOpened, UserInv, UsersTyped, CallerTyped, OutOfPool
<1>3. /\ UNCHANGED <<cleaner, prewarming, starts>> /\ starts'.made = starts.made
      /\ arrays' = [arrays EXCEPT ![a] = @ \cup {New}]
      /\ current' = [current EXCEPT ![e] = a]
      /\ caller' = [caller EXCEPT ![p] = [at |-> "has", conn |-> New]]
  BY <1>1 DEF GetOpened, Take
<1>4. Uses(e, a)
  BY <1>1, <1>2 DEF Uses, OpensFor
<1>5. caller'[p].at = "has" /\ \A q \in Callers \ {p} : caller'[q] = caller[q]
  BY <1>3 DEF UserInv, UsersTyped
<1>6. /\ Len(arrays') = Len(arrays) /\ arrays'[a] = arrays[a] \cup {New}
      /\ \A b \in 1 .. Len(arrays) : b # a => arrays'[b] = arrays[b]
  <2>1. New \in Nat
    BY DEF UserInv, PoolTypes, New
  <2>2. QED BY <1>2, <1>3, <2>1, ArrayGrows DEF UserInv
<1>7. /\ \A b : Openers(b)' \subseteq Openers(b)
      /\ p \in Openers(a) /\ Openers(a)' = Openers(a) \ {p}
  BY <1>1, <1>2, <1>5 DEF Openers
<1>8. \A f \in Endpoints : \A b : Uses(f, b)' => Uses(f, b)
  <2>1. \A f \in Endpoints : \A b : current'[f] = b => Uses(f, b)
    BY <1>3, <1>4 DEF Uses, UserInv, PoolTypes
  <2>2. \A f \in Endpoints : \A b : (\E q \in Callers : OpensFor(q, f, b)') => Uses(f, b)
    BY <1>5 DEF Uses, OpensFor
  <2>3. \A f \in Endpoints : \A b : (\E k \in Cleaners : CleansFor(k, f, b)') => Uses(f, b)
    BY <1>3 DEF Uses, CleansFor
  <2>4. QED BY <2>1, <2>2, <2>3 DEF Uses
<1>9. \A f \in Endpoints : Uses(f, a)' => f = e
  BY <1>2, <1>4, <1>8 DEF RoomInv, NotShared
<1>10. Cardinality(arrays'[a]) + Cardinality(Openers(a)') + prewarming'[e] < Beyond
  <2>1. PICK x, y, z, w, d : /\ x = Cardinality(arrays[a]) /\ y = Cardinality(arrays'[a])
                             /\ z = Cardinality(Openers(a)) /\ w = Cardinality(Openers(a)')
                             /\ d = prewarming[e]
    OBVIOUS
  <2>2. x \in Nat /\ z \in Nat /\ d \in Nat /\ Beyond \in Nat /\ IsFiniteSet(arrays[a]) /\ IsFiniteSet(Openers(a))
    BY <2>1, <1>2, CountsAreNaturals, BeyondIsNatural DEF RoomInv, StartsTyped
  <2>3. y \in Nat /\ y <= x + 1
    BY <2>1, <2>2, <1>6, OneMoreAtMost
  <2>4. w = z - 1
    BY <2>1, <2>2, <1>7, FS_RemoveElement
  <2>5. x + z + d < Beyond
    BY <2>1, <1>2, <1>4 DEF RoomInv, RoomForAll
  <2>6. y + w + d < Beyond
    BY <2>2, <2>3, <2>4, <2>5
  <2>7. prewarming'[e] = d
    BY <1>3, <2>1
  <2>8. QED BY <2>1, <2>6, <2>7
<1>11. a \in 1 .. Len(arrays')
  BY <1>2, <1>6
<1>12. \A b \in (1 .. Len(arrays')) \ {a} :
         b \in 1 .. Len(arrays) /\ arrays'[b] = arrays[b] /\ Openers(b)' \subseteq Openers(b)
  BY <1>6, <1>7
<1>13. \A b \in (1 .. Len(arrays')) \ {a} : \A f \in Endpoints : Uses(f, b)' => Uses(f, b)
  BY <1>8
<1>14. prewarming' \in [Endpoints -> Nat] /\ \A f \in Endpoints : prewarming'[f] <= prewarming[f]
  BY <1>3 DEF RoomInv, StartsTyped
<1>15. QED BY <1>2, <1>3, <1>9, <1>10, <1>11, <1>12, <1>13, <1>14, RoomInOne

\* The new array has no more than the one it was made from.
LEMMA CleanEndRoom ==
    ASSUME UserInv, UserInv', RoomInv, NEW k \in Cleaners, CleanEnd(k)
    PROVE  RoomInv'
<1>1. PICK e, kept, o, a : /\ e = cleaner[k].at /\ kept = cleaner[k].kept
                           /\ o = cleaner[k].array /\ a = Len(arrays) + 1
  OBVIOUS
<1>2. /\ cleaner[k] # NotCleaning
      /\ UNCHANGED <<caller, prewarming, starts>> /\ starts'.made = starts.made
      /\ arrays' = Append(arrays, kept)
      /\ current' = [current EXCEPT ![e] = a]
      /\ cleaner' = [cleaner EXCEPT ![k] = NotCleaning]
  BY <1>1 DEF CleanEnd
<1>3. e \in Endpoints /\ o \in 1 .. Len(arrays) /\ kept \subseteq arrays[o] /\ Uses(e, o)
  BY <1>1, <1>2 DEF UserInv, UsersTyped, CleanerTyped, Uses, CleansFor
<1>4. /\ Len(arrays') = a /\ arrays'[a] = kept /\ a \in Nat
      /\ 1 .. Len(arrays') = (1 .. Len(arrays)) \cup {a} /\ a \notin 1 .. Len(arrays)
      /\ \A b \in 1 .. Len(arrays) : arrays'[b] = arrays[b]
  <2>1. kept \in SUBSET Nat
    BY <1>3 DEF UserInv, PoolTypes
  <2>2. QED BY <1>1, <1>2, <2>1, ArrayAdded DEF UserInv
<1>5. \A b : Openers(b)' = Openers(b)
  BY <1>2 DEF Openers
<1>6. \A f \in Endpoints : \A b : Uses(f, b)' => Uses(f, b) \/ (f = e /\ b = a)
  <2>1. \A f \in Endpoints : \A b : current'[f] = b => current[f] = b \/ (f = e /\ b = a)
    BY <1>2 DEF UserInv, PoolTypes
  <2>2. \A f \in Endpoints : \A b : (\E j \in Cleaners : CleansFor(j, f, b)') => \E j \in Cleaners : CleansFor(j, f, b)
    BY <1>2 DEF CleansFor, UserInv, UsersTyped
  <2>3. QED BY <1>2, <2>1, <2>2 DEF Uses, OpensFor
<1>7. \A f \in Endpoints : Uses(f, a)' => f = e
  BY <1>4, <1>6, UsedIsThere
<1>8. Cardinality(arrays'[a]) + Cardinality(Openers(a)') + prewarming'[e] < Beyond
  <2>1. Openers(a)' = {}
    <3>1. \A p \in Callers : caller[p].at = "opening" => caller[p].array \in 1 .. Len(arrays)
      BY DEF UserInv, UsersTyped, CallerTyped, OutOfPool
    <3>2. Openers(a) = {}
      BY <3>1, <1>4 DEF Openers
    <3>3. QED BY <3>2, <1>5
  <2>2. Cardinality(Openers(a)') = 0
    BY <2>1, FS_EmptySet
  <2>3. Cardinality(kept) \in Nat /\ Cardinality(kept) <= Cardinality(arrays[o])
    BY <1>3, CountsAreNaturals, FS_Subset, FS_CardinalityType
  <2>4. Cardinality(arrays[o]) + Cardinality(Openers(o)) + prewarming[e] < Beyond
    BY <1>3 DEF RoomInv, RoomForAll
  <2>5. /\ Cardinality(arrays[o]) \in Nat /\ Cardinality(Openers(o)) \in Nat /\ Beyond \in Nat
        /\ prewarming[e] \in Nat /\ prewarming'[e] = prewarming[e]
    BY <1>2, <1>3, CountsAreNaturals, BeyondIsNatural DEF RoomInv, StartsTyped
  <2>6. QED BY <1>4, <2>2, <2>3, <2>4, <2>5
<1>9. a \in 1 .. Len(arrays')
  BY <1>4
<1>10. \A b \in (1 .. Len(arrays')) \ {a} :
         b \in 1 .. Len(arrays) /\ arrays'[b] = arrays[b] /\ Openers(b)' \subseteq Openers(b)
  BY <1>4, <1>5
<1>11. \A b \in (1 .. Len(arrays')) \ {a} : \A f \in Endpoints : Uses(f, b)' => Uses(f, b)
  BY <1>6
<1>12. prewarming' \in [Endpoints -> Nat] /\ \A f \in Endpoints : prewarming'[f] <= prewarming[f]
  BY <1>2 DEF RoomInv, StartsTyped
<1>13. QED BY <1>2, <1>3, <1>7, <1>8, <1>9, <1>10, <1>11, <1>12, RoomInOne

LEMMA RoomInitInv == ASSUME PoolInit PROVE RoomInv
<1>1. UserInv
  BY UserInitInv
<1>2. /\ starts.made = 0 /\ prewarming = [e \in Endpoints |-> 0]
      /\ caller = [p \in Callers |-> OutOfPool] /\ cleaner = [k \in Cleaners |-> NotCleaning]
      /\ \A e, f \in Endpoints : current[e] = current[f] => e = f
  BY DEF PoolInit
<1>3. Prewarmed * starts.made = 0
  BY <1>2, PoolAssumption
<1>4. StartsTyped
  BY <1>2, <1>3 DEF StartsTyped
<1>5. Beyond \in Nat /\ 0 < Beyond
  BY <1>1, <1>3, CountsAreNaturals, PoolAssumption DEF Beyond
<1>6. /\ \A a : \A e \in Endpoints : Uses(e, a) => current[e] = a
      /\ \A a : Openers(a) = {}
  BY <1>2 DEF Uses, OpensFor, CleansFor, Openers, OutOfPool
<1>7. NotShared
  BY <1>2, <1>6 DEF NotShared
<1>8. \A a \in 1 .. Len(arrays) : Cardinality(arrays[a]) = 0
  <2>1. \A a \in 1 .. Len(arrays) : arrays[a] = {}
    <3>1. Cardinality(Endpoints) \in Nat
      BY PoolAssumption, FS_CardinalityType
    <3>2. QED BY <3>1 DEF PoolInit
  <2>2. QED BY <2>1, FS_EmptySet
<1>9. RoomForAll
  <2>1. \A a : Cardinality(Openers(a)) = 0
    BY <1>6, FS_EmptySet
  <2>2. QED BY <2>1, <1>2, <1>5, <1>8 DEF RoomForAll
<1>10. QED BY <1>4, <1>5, <1>7, <1>8, <1>9 DEF RoomInv

LEMMA RoomNextInv ==
    ASSUME UserInv, UserInv', RoomInv, [PoolNext]_poolVars
    PROVE  RoomInv'
<1>1. CASE PoolStart
  BY <1>1, PoolStartRoom
<1>2. CASE Prewarmings \/ UNCHANGED poolVars
  <2>1. UNCHANGED <<arrays, prewarming, caller, cleaner, current>> /\ starts'.made = starts.made
    <3>1. CASE Prewarmings
      <4>1. UNCHANGED <<arrays, prewarming, caller, cleaner, current>>
        BY <3>1 DEF Prewarmings
      <4>2. starts' = [starts EXCEPT !.waiting = @ - 1]
        BY <3>1 DEF Prewarmings
      <4>3. QED BY <4>1, <4>2
    <3>2. CASE UNCHANGED poolVars
      BY <3>2 DEF poolVars
    <3>3. QED BY <3>1, <3>2, <1>2
  <2>2. QED BY <2>1, RoomUntouched
<1>3. CASE PoolStop \/ PoolCleared
  BY <1>3, RoomUntouched DEF PoolStop, PoolCleared
<1>4. ASSUME NEW e \in Endpoints, Prewarm(e)
      PROVE  RoomInv'
  BY <1>4, PrewarmRoom
<1>5. ASSUME NEW e \in Endpoints, HealthCheck(e)
      PROVE  RoomInv'
  BY <1>5, RoomUntouched DEF HealthCheck
<1>6. ASSUME NEW e \in Endpoints, NEW p \in Callers, GetIdle(p, e)
      PROVE  RoomInv'
  <2>1. PICK c : Take(p, c)
    BY <1>6 DEF GetIdle
  <2>2. PICK place : place = [at |-> "has", conn |-> c]
    OBVIOUS
  <2>3. caller' = [caller EXCEPT ![p] = place] /\ place.at # "opening"
    BY <2>1, <2>2 DEF Take
  <2>4. UNCHANGED <<arrays, current, prewarming, starts, cleaner>>
    BY <1>6 DEF GetIdle
  <2>5. QED BY <2>3, <2>4, RoomCaller
<1>7. ASSUME NEW e \in Endpoints, NEW p \in Callers, GetNew(p, e)
      PROVE  RoomInv'
  BY <1>7, GetNewRoom
<1>8. ASSUME NEW e \in Endpoints, NEW k \in Cleaners, CleanBegin(k, e)
      PROVE  RoomInv'
  BY <1>8, CleanBeginRoom
<1>9. ASSUME NEW p \in Callers, GetOpened(p)
      PROVE  RoomInv'
  BY <1>9, GetOpenedRoom
<1>10. ASSUME NEW p \in Callers, GetFails(p) \/ Release(p)
       PROVE  RoomInv'
  <2>1. OutOfPool.at # "opening"
    BY DEF OutOfPool
  <2>2. caller' = [caller EXCEPT ![p] = OutOfPool] /\ UNCHANGED <<arrays, current, prewarming, starts, cleaner>>
    BY <1>10 DEF GetFails, Release
  <2>3. QED BY <2>1, <2>2, RoomCaller
<1>11. ASSUME NEW c \in DOMAIN conns, ProviderError(c)
       PROVE  RoomInv'
  BY <1>11, RoomUntouched DEF ProviderError
<1>12. ASSUME NEW k \in Cleaners, CleanVisit(k)
       PROVE  RoomInv'
  BY <1>12, CleanVisitRoom
<1>13. ASSUME NEW k \in Cleaners, CleanEnd(k)
       PROVE  RoomInv'
  BY <1>13, CleanEndRoom
<1>14. QED BY <1>1, <1>2, <1>3, <1>4, <1>5, <1>6, <1>7, <1>8, <1>9, <1>10, <1>11, <1>12, <1>13
           DEF PoolNext

\* An array exceeds the limit by the callers that passed the comparison
\* together and by what the starts add, for any limits and however often the
\* arrays are exchanged: nobody adds to an array that was not counted there,
\* because two endpoints never use the same one.
THEOREM ArraysStayBounded == PoolSpec => []OvershootBounded
<1>1. PoolInit => UserInv /\ RoomInv
  BY UserInitInv, RoomInitInv
<1>2. UserInv /\ RoomInv /\ [PoolNext]_poolVars => UserInv' /\ RoomInv'
  BY UserNextInv, RoomNextInv
<1>3. UserInv /\ RoomInv => OvershootBounded
  <2> SUFFICES ASSUME UserInv, RoomInv, NEW a \in DOMAIN arrays
               PROVE  Cardinality(arrays[a]) <=
                          MaxConnections + Cardinality(Callers) - 1 + Prewarmed * starts.made
    BY DEF OvershootBounded
  <2>1. a \in 1 .. Len(arrays)
    BY DEF UserInv, PoolTypes
  <2>2. Cardinality(arrays[a]) \in Nat /\ Cardinality(arrays[a]) < Beyond /\ Cardinality(Callers) \in Nat
    BY <2>1, CountsAreNaturals DEF RoomInv
  <2>3. Prewarmed * starts.made \in Nat /\ Beyond = MaxConnections + Cardinality(Callers) + Prewarmed * starts.made
    BY BeyondIsNatural DEF RoomInv
  <2>4. QED BY <2>2, <2>3, PoolAssumption
<1>4. QED BY <1>1, <1>2, <1>3, PTL DEF PoolSpec
-----------------------------------------------------------------------------
(* The recovery service counts its refunds.                                 *)

\* The looks whose refund has taken place and is not counted yet.
Confirming == {x \in Loops \X Ids : task[x[1]][x[2]].at = "confirm"}

TasksTyped ==
    /\ DOMAIN task = Loops
    /\ \A k \in Loops : DOMAIN task[k] = Ids
    /\ \A k \in Loops, u \in Ids : DOMAIN task[k][u] = {"at", "attempt", "left"}

\* Every refund counted, and every look that waits for the receipt of one,
\* stands for another lock that was taken back.
RefundInv ==
    /\ TasksTyped
    /\ IsFiniteSet(returned) /\ locked \cap returned = {}
    /\ refunded \in Nat /\ refunded + Cardinality(Confirming) <= Cardinality(returned)

LEMMA ConfirmingIsFinite == IsFiniteSet(Confirming) /\ Cardinality(Confirming) \in Nat
<1>1. IsFiniteSet(Ids)
  BY RecoveryAssumption, FS_Union DEF Ids
<1>2. IsFiniteSet(Loops \X Ids)
  BY <1>1, RecoveryAssumption, FS_Product
<1>3. Confirming \in SUBSET (Loops \X Ids)
  BY DEF Confirming
<1>4. QED BY <1>2, <1>3, FS_Subset, FS_CardinalityType

\* One look goes on to t.
LEMMA LookGoesOn ==
    ASSUME TasksTyped, NEW k \in Loops, NEW u \in Ids, NEW t, Step(k, u, t),
           DOMAIN t = {"at", "attempt", "left"}
    PROVE  /\ TasksTyped'
           /\ t.at # "confirm" => Confirming' = Confirming \ {<<k, u>>}
           /\ t.at = "confirm" => Confirming' = Confirming \cup {<<k, u>>}
<1>1. task' = [task EXCEPT ![k] = [task[k] EXCEPT ![u] = t]]
  BY DEF Step, TasksTyped
<1>2. /\ DOMAIN task' = Loops
      /\ \A l \in Loops : DOMAIN task'[l] = Ids
      /\ task'[k][u] = t
      /\ \A l \in Loops, j \in Ids : <<l, j>> # <<k, u>> => task'[l][j] = task[l][j]
  BY <1>1 DEF TasksTyped
<1>3. TasksTyped'
  BY <1>2 DEF TasksTyped
<1>4. \A x \in Loops \X Ids : x # <<k, u>> => task'[x[1]][x[2]] = task[x[1]][x[2]]
  BY <1>2
<1>5. <<k, u>> \in Loops \X Ids /\ task'[<<k, u>>[1]][<<k, u>>[2]] = t
  BY <1>2
<1>6. QED BY <1>3, <1>4, <1>5 DEF Confirming

\* A look that is not confirmed goes on, and nothing is taken back or counted.
LEMMA LookDropped ==
    ASSUME RefundInv, NEW k \in Loops, NEW u \in Ids, NEW t, Step(k, u, t),
           DOMAIN t = {"at", "attempt", "left"}, t.at # "confirm",
           UNCHANGED <<returned, refunded>>, locked' \cap returned = {}
    PROVE  RefundInv'
<1>1. TasksTyped' /\ Confirming' \in SUBSET Confirming
  BY LookGoesOn DEF RefundInv
<1>2. Cardinality(Confirming') \in Nat /\ Cardinality(Confirming') <= Cardinality(Confirming)
  BY <1>1, ConfirmingIsFinite, FS_Subset, FS_CardinalityType
<1>3. Cardinality(returned) \in Nat
  BY FS_CardinalityType DEF RefundInv
<1>4. QED BY <1>1, <1>2, <1>3, ConfirmingIsFinite DEF RefundInv

\* Tasks stay, and so do returned and refunded.
LEMMA LooksStay ==
    ASSUME RefundInv, UNCHANGED <<task, returned, refunded>>, locked' \cap returned = {}
    PROVE  RefundInv'
  BY DEF RefundInv, TasksTyped, Confirming

\* The looks of a loop that has none are replaced by ones that read first.
LEMMA NextBatchKeepsCount ==
    ASSUME RefundInv, NEW k \in Loops, NextBatch(k)
    PROVE  RefundInv'
<1>1. UNCHANGED <<locked, returned, refunded>>
  BY DEF NextBatch, lockVars
<1>2. PICK batch, first : first \in {"read", "verify"} /\ task' = [task EXCEPT ![k] = Looks(batch, first)]
  <2>1. CASE loop[k].at = "ethereum"
    BY <2>1, Zenon DEF NextBatch
  <2>2. CASE loop[k].at # "ethereum"
    BY <2>2, Zenon DEF NextBatch
  <2>3. QED BY <2>1, <2>2
<1>3. /\ DOMAIN task' = Loops /\ task'[k] = Looks(batch, first)
      /\ \A l \in Loops \ {k} : task'[l] = task[l]
  BY <1>2 DEF RefundInv, TasksTyped
<1>4. DOMAIN task'[k] = Ids /\ \A u \in Ids : DOMAIN task'[k][u] = {"at", "attempt", "left"} /\ task'[k][u].at # "confirm"
  BY <1>2, <1>3 DEF Done, Looks
<1>5. TasksTyped'
  BY <1>3, <1>4 DEF RefundInv, TasksTyped
<1>6. Confirming' \in SUBSET Confirming
  BY <1>3, <1>4 DEF Confirming
<1>7. Cardinality(Confirming') \in Nat /\ Cardinality(Confirming') <= Cardinality(Confirming)
  BY <1>6, ConfirmingIsFinite, FS_Subset, FS_CardinalityType
<1>8. Cardinality(returned) \in Nat
  BY FS_CardinalityType DEF RefundInv
<1>9. QED BY <1>1, <1>5, <1>7, <1>8, ConfirmingIsFinite DEF RefundInv

\* Every millisecond counts alike.
LEMMA TimeKeepsCount ==
    ASSUME RefundInv, TimePasses
    PROVE  RefundInv'
<1>1. /\ UNCHANGED <<locked, returned, refunded>>
      /\ task' = [k \in Loops |-> [u \in Ids |-> [task[k][u] EXCEPT !.left = Less(@)]]]
  BY DEF TimePasses
<1>2. \A k \in Loops, u \in Ids : /\ task'[k][u] = [task[k][u] EXCEPT !.left = Less(@)]
                                  /\ DOMAIN task'[k][u] = DOMAIN task[k][u]
                                  /\ task'[k][u].at = task[k][u].at
  <2> SUFFICES ASSUME NEW k \in Loops, NEW u \in Ids
               PROVE  /\ task'[k][u] = [task[k][u] EXCEPT !.left = Less(@)]
                      /\ DOMAIN task'[k][u] = DOMAIN task[k][u]
                      /\ task'[k][u].at = task[k][u].at
    OBVIOUS
  <2>1. task'[k] = [j \in Ids |-> [task[k][j] EXCEPT !.left = Less(@)]]
    BY <1>1
  <2>2. task'[k][u] = [task[k][u] EXCEPT !.left = Less(@)]
    BY <2>1
  <2>3. DOMAIN task[k][u] = {"at", "attempt", "left"}
    BY DEF RefundInv, TasksTyped
  <2>4. QED BY <2>2, <2>3
<1>3. TasksTyped'
  BY <1>1, <1>2 DEF RefundInv, TasksTyped
<1>4. \A x \in Loops \X Ids : task'[x[1]][x[2]].at = task[x[1]][x[2]].at
  BY <1>2
<1>5. Confirming' = Confirming
  BY <1>4 DEF Confirming
<1>6. QED BY <1>1, <1>3, <1>5 DEF RefundInv

\* After an error an attempt waits, or is the last.
LEMMA FailedAttempt ==
    ASSUME NEW k \in Loops, NEW u \in Ids, AttemptFails(k, u)
    PROVE  \E t : Step(k, u, t) /\ DOMAIN t = {"at", "attempt", "left"} /\ t.at # "confirm"
<1>1. PICK n : Step(k, u, IF n < MaxRetries
                          THEN [at |-> "delay", attempt |-> n, left |-> RetryDelay * n]
                          ELSE Done)
  BY DEF AttemptFails
<1>2. CASE n < MaxRetries
  <2>1. Step(k, u, [at |-> "delay", attempt |-> n, left |-> RetryDelay * n])
    BY <1>1, <1>2
  <2>2. QED BY <2>1
<1>3. CASE ~(n < MaxRetries)
  <2>1. Step(k, u, Done)
    BY <1>1, <1>3
  <2>2. QED BY <2>1 DEF Done
<1>4. QED BY <1>2, <1>3

\* The refund takes place: a lock more is back, and one look will count it.
LEMMA SendKeepsCount ==
    ASSUME RefundInv, NEW k \in Loops, NEW u \in Ids, Send(k, u)
    PROVE  RefundInv'
<1>1. UNCHANGED refunded /\ DOMAIN task[k][u] = {"at", "attempt", "left"}
  BY DEF Send, RefundInv, TasksTyped
<1>2. CASE AttemptFails(k, u) /\ UNCHANGED <<locked, claimed, returned, blockTime>>
  <2>1. locked' \cap returned = {} /\ UNCHANGED <<returned, refunded>>
    BY <1>1, <1>2 DEF RefundInv
  <2>2. PICK t : Step(k, u, t) /\ DOMAIN t = {"at", "attempt", "left"} /\ t.at # "confirm"
    BY <1>2, FailedAttempt
  <2>3. QED BY <2>1, <2>2, LookDropped
<1>3. ASSUME NEW l \in locked, Contracts!TakeBack(l), Step(k, u, [task[k][u] EXCEPT !.at = "confirm"])
      PROVE  RefundInv'
  <2>1. locked' = locked \ {l} /\ returned' = returned \cup {l} /\ l \notin returned
    BY <1>3 DEF Contracts!TakeBack, RefundInv
  <2>2. PICK t : /\ t = [task[k][u] EXCEPT !.at = "confirm"] /\ Step(k, u, t)
                 /\ DOMAIN t = {"at", "attempt", "left"} /\ t.at = "confirm"
    BY <1>1, <1>3
  <2>3. TasksTyped' /\ Confirming' = Confirming \cup {<<k, u>>}
    BY <2>2, LookGoesOn DEF RefundInv
  <2>4. Cardinality(Confirming') \in Nat /\ Cardinality(Confirming') <= Cardinality(Confirming) + 1
    BY <2>3, ConfirmingIsFinite, OneMoreAtMost
  <2>5. IsFiniteSet(returned') /\ Cardinality(returned') = Cardinality(returned) + 1 /\ Cardinality(returned) \in Nat
    BY <2>1, FS_AddElement, FS_CardinalityType DEF RefundInv
  <2>6. locked' \cap returned' = {}
    BY <2>1 DEF RefundInv
  <2>7. QED BY <1>1, <2>3, <2>4, <2>5, <2>6, ConfirmingIsFinite DEF RefundInv
<1>4. QED BY <1>2, <1>3 DEF Send

\* The receipt is counted, and the look is over.
LEMMA ConfirmKeepsCount ==
    ASSUME RefundInv, NEW k \in Loops, NEW u \in Ids, Confirm(k, u)
    PROVE  RefundInv'
<1>1. UNCHANGED <<locked, returned>> /\ task[k][u].at = "confirm"
  BY DEF Confirm, lockVars, Doing
<1>2. CASE AttemptFails(k, u) /\ UNCHANGED refunded
  <2>1. locked' \cap returned = {} /\ UNCHANGED <<returned, refunded>>
    BY <1>1, <1>2 DEF RefundInv
  <2>2. PICK t : Step(k, u, t) /\ DOMAIN t = {"at", "attempt", "left"} /\ t.at # "confirm"
    BY <1>2, FailedAttempt
  <2>3. QED BY <2>1, <2>2, LookDropped
<1>3. CASE Step(k, u, Done) /\ refunded' = refunded + 1
  <2>1. DOMAIN Done = {"at", "attempt", "left"} /\ Done.at # "confirm"
    BY DEF Done
  <2>2. TasksTyped' /\ Confirming' = Confirming \ {<<k, u>>}
    BY <1>3, <2>1, LookGoesOn DEF RefundInv
  <2>3. <<k, u>> \in Confirming
    BY <1>1 DEF Confirming
  <2>4. Cardinality(Confirming') = Cardinality(Confirming) - 1
    BY <2>2, <2>3, ConfirmingIsFinite, FS_RemoveElement
  <2>5. PICK n, c, d, r : n = refunded /\ c = Cardinality(Confirming) /\ d = Cardinality(Confirming') /\ r = Cardinality(returned)
    OBVIOUS
  <2>6. n \in Nat /\ c \in Nat /\ r \in Nat /\ n + c <= r /\ d = c - 1
    BY <2>4, <2>5, ConfirmingIsFinite, FS_CardinalityType DEF RefundInv
  <2>7. (n + 1) \in Nat /\ (n + 1) + d <= r
    BY <2>6
  <2>8. refunded' \in Nat /\ refunded' + Cardinality(Confirming') <= Cardinality(returned)
    BY <1>3, <2>5, <2>7
  <2>9. QED BY <1>1, <2>2, <2>8 DEF RefundInv
<1>4. QED BY <1>2, <1>3 DEF Confirm

\* Who locks takes an id that was not there, and who claims takes none back.
LEMMA UsersKeepCount ==
    ASSUME RefundInv, (\E u \in Ids : LockCreated(u)) \/ LockClaimed
    PROVE  RefundInv'
<1>1. UNCHANGED <<task, returned, refunded>>
  BY DEF LockCreated, LockClaimed, Contracts!Lock, Contracts!Claim
<1>2. ASSUME NEW u \in Ids, LockCreated(u)
      PROVE  locked' \cap returned = {}
  <2>1. PICK l : Contracts!Lock(l)
    BY <1>2 DEF LockCreated
  <2>2. locked' = locked \cup {l} /\ l \notin returned
    BY <2>1 DEF Contracts!Lock
  <2>3. QED BY <2>2 DEF RefundInv
<1>3. ASSUME LockClaimed
      PROVE  locked' \cap returned = {}
  <2>1. locked' \subseteq locked
    BY <1>3 DEF LockClaimed, Contracts!Claim
  <2>2. QED BY <2>1 DEF RefundInv
<1>4. QED BY <1>1, <1>2, <1>3, LooksStay

LEMMA RefundInitInv == ASSUME RecoveryInit PROVE RefundInv
<1>1. TasksTyped /\ Confirming = {}
  BY DEF RecoveryInit, TasksTyped, Done, Confirming
<1>2. returned = {} /\ locked = {} /\ refunded = 0
  BY DEF RecoveryInit
<1>3. QED BY <1>1, <1>2, FS_EmptySet DEF RefundInv

LEMMA RefundNextInv ==
    ASSUME RefundInv, [RecoveryNext]_recoveryVars
    PROVE  RefundInv'
<1>0. locked' = locked => locked' \cap returned = {}
  BY DEF RefundInv
<1>1. CASE UNCHANGED recoveryVars \/ Stop
  BY <1>0, <1>1, LooksStay DEF recoveryVars, lockVars, Stop
<1>2. ASSUME NEW k \in Loops, \/ Start(k) \/ Connected(k) \/ LoopEnds(k)
                              \/ CheckEthereum(k) \/ CheckEthereumFails(k) \/ EthereumDone(k)
                              \/ ListCosmos(k) \/ RoundEnds(k)
      PROVE  RefundInv'
  <2>1. UNCHANGED <<locked, task, returned, refunded>>
    BY <1>2, Zenon DEF Start, Connected, LoopEnds, CheckEthereum, CheckEthereumFails, EthereumDone,
                       ListCosmos, RoundEnds, lockVars
  <2>2. QED BY <1>0, <2>1, LooksStay
<1>3. ASSUME NEW k \in Loops, NextBatch(k)
      PROVE  RefundInv'
  BY <1>3, NextBatchKeepsCount
<1>4. ASSUME NEW k \in Loops, NEW u \in Ids, Read(k, u) \/ Verify(k, u) \/ Retry(k, u)
      PROVE  RefundInv'
  <2>1. UNCHANGED <<locked, returned, refunded>>
    BY <1>4, Zenon DEF Read, Verify, Retry, lockVars
  <2>2. \E t : Step(k, u, t) /\ DOMAIN t = {"at", "attempt", "left"} /\ t.at # "confirm"
    <3>1. DOMAIN task[k][u] = {"at", "attempt", "left"}
      BY DEF RefundInv, TasksTyped
    <3>2. CASE Step(k, u, [task[k][u] EXCEPT !.at = "verify"])
      BY <3>1, <3>2
    <3>3. CASE Step(k, u, [task[k][u] EXCEPT !.at = "send"])
      BY <3>1, <3>3
    <3>4. CASE Step(k, u, Done)
      BY <3>4 DEF Done
    <3>5. CASE AttemptFails(k, u)
      BY <3>5, FailedAttempt
    <3>6. CASE Step(k, u, [at |-> "verify", attempt |-> task[k][u].attempt + 1, left |-> 0])
      BY <3>6
    <3>7. QED BY <1>4, <3>2, <3>3, <3>4, <3>5, <3>6 DEF Read, Verify, Retry
  <2>3. PICK t : Step(k, u, t) /\ DOMAIN t = {"at", "attempt", "left"} /\ t.at # "confirm"
    BY <2>2
  <2>4. QED BY <1>0, <2>1, <2>3, LookDropped
<1>5. ASSUME NEW k \in Loops, NEW u \in Ids, Send(k, u) \/ Confirm(k, u)
      PROVE  RefundInv'
  BY <1>5, SendKeepsCount, ConfirmKeepsCount
<1>6. CASE (\E u \in Ids : LockCreated(u)) \/ LockClaimed
  BY <1>6, UsersKeepCount
<1>7. CASE TimePasses
  BY <1>7, TimeKeepsCount
<1>8. QED BY <1>1, <1>2, <1>3, <1>4, <1>5, <1>6, <1>7 DEF RecoveryNext

\* The service counts no refund that did not take place, and none twice, for
\* any number of loops and HTLCs: each refund counted, and each whose receipt
\* is awaited, stands for another lock taken back.
THEOREM RefundsAreCounted == RecoverySpec => []RefundsCounted
<1>1. RecoveryInit => RefundInv
  BY RefundInitInv
<1>2. RefundInv /\ [RecoveryNext]_recoveryVars => RefundInv'
  BY RefundNextInv
<1>3. RefundInv => RefundsCounted
  <2> SUFFICES ASSUME RefundInv PROVE RefundsCounted
    OBVIOUS
  <2>1. Cardinality(returned) \in Nat
    BY FS_CardinalityType DEF RefundInv
  <2>2. QED BY <2>1, ConfirmingIsFinite DEF RefundInv, RefundsCounted
<1>4. QED BY <1>1, <1>2, <1>3, PTL DEF RecoverySpec
-----------------------------------------------------------------------------
(* The recovery service is in time: one loop at least keeps its times, and  *)
(* every failed call, every lost race and the time calls take pay for what   *)
(* they cost.                                                               *)

\* What is claimed or taken back, and what was ever locked.
Settled == claimed \cup returned
Used(u) == \E l \in locked \cup Settled : l.id = u

\* A look at one HTLC.
Looking == {"read", "verify", "send", "confirm", "delay"}
IsTask(t) ==
    /\ DOMAIN t = {"at", "attempt", "left"} /\ t.left \in Nat
    /\ t = Done \/ (t.at \in Looking /\ t.attempt \in 1 .. MaxRetries)
    /\ t.at # "delay" => t.left = 0
    /\ t.at = "delay" => t.attempt < MaxRetries
    /\ t.at = "read" => t.attempt = 1

\* A loop that goes on by itself, and all places.
InRound == {"top", "ethereum", "listing", "cosmos"}
IsLoop(p) ==
    /\ DOMAIN p = {"at", "left", "time", "pending"}
    /\ p.at \in InRound \cup {"none", "connecting"}
    /\ p.left \in 0 .. CheckInterval /\ p.time \in Nat /\ p.pending \in SUBSET Ids
    /\ p.at # "top" => p.left = 0
    /\ p.at = "none" => p = NoLoop
    /\ p.at \notin {"ethereum", "cosmos"} => p.pending = {}

\* The HTLCs: one per id, open or settled.
LocksTyped ==
    /\ blockTime \in Nat /\ upSince \in 0 .. blockTime /\ faults \in Nat /\ slow \in Nat
    /\ \A l \in locked : l.id \in Ids /\ l.deadline \in Nat
    /\ created \in [Ids -> Nat]
    /\ IsFiniteSet(Settled) /\ locked \cap Settled = {}
    /\ \A l, m \in locked \cup Settled : l.id = m.id => l = m

\* What is looked at exists, and may be taken back if it is still there.
LookIs(p, t, u) ==
    /\ IsTask(t)
    /\ u \in p.pending \/ t # Done => Used(u)
    /\ t.at \in {"verify", "send", "delay"} => IsExpired(u, blockTime)
    /\ p.at = "cosmos" /\ u \in p.pending => IsExpired(u, blockTime)
    /\ t.at = "confirm" => ~IsOpen(u)
    /\ t.at = "read" => p.at = "ethereum"
    /\ p.at = "ethereum" /\ (u \in p.pending \/ t # Done) => u \in EthereumIds

\* A loop and its looks: at work in a check only.
LoopIs(p, ts) ==
    /\ IsLoop(p) /\ p.time <= blockTime /\ DOMAIN ts = Ids
    /\ p.at \notin {"ethereum", "cosmos"} => \A u \in Ids : ts[u] = Done
    /\ \A u \in Ids : LookIs(p, ts[u], u)

\* All of them.
LoopsTyped ==
    /\ DOMAIN loop = Loops /\ DOMAIN task = Loops
    /\ \A k \in Loops : LoopIs(loop[k], task[k])

\* What is allowed for a look: the delay it waits out, and while its HTLC is open
\* a reserve, which the failures so far have paid for with a round each and which
\* makes up for the longer delay should a late attempt lose a race.  Once the HTLC
\* is gone, an attempt at sending will wait and find out.
Reserve(n) == IF n < MaxRetries THEN RetryDelay * (n - 1) ELSE 0
Wait(n) == IF n < MaxRetries THEN RetryDelay * n ELSE 0
WhileOpen(t) ==
    CASE t.at \in {"verify", "send", "confirm"} -> Reserve(t.attempt)
      [] t.at = "delay" -> t.left + Reserve(t.attempt + 1)
      [] OTHER -> 0
OnceGone(t) ==
    CASE t.at = "send" -> Wait(t.attempt)
      [] t.at = "delay" -> t.left
      [] OTHER -> 0
Ahead(t, u) == IF IsOpen(u) THEN WhileOpen(t) ELSE OnceGone(t)

\* The time that failures, lost races and slow calls account for.
Debt == CheckInterval * faults + RetryDelay * Cardinality(Settled) + slow

\* What the property promises: ours, reachable, and inside the window by then.
Owed(l) ==
    /\ l.id \in Ours
    /\ l.id \in CosmosIds => client
    /\ l.id \in EthereumIds => created[l.id] + Window >= Due(l) + CheckInterval + Debt

\* The round under way, or the one that begins after the sleep, gets to l.
Coming(p, ts, l) ==
    \/ p.at = "top"
    \/ /\ p.at = "ethereum" /\ l.id \in EthereumIds /\ l.deadline <= p.time
       /\ l.id \in p.pending \/ ts[l.id] # Done
    \/ p.at \in {"ethereum", "listing"} /\ l.id \notin EthereumIds
    \/ /\ p.at = "cosmos" /\ l.id \notin EthereumIds
       /\ l.id \in p.pending \/ ts[l.id] # Done

\* The sleep and the look at u end early enough for l, and if the round does not
\* get to l any more, without the next one.
OnTime(p, ts, l, u) ==
    /\ blockTime + p.left + Ahead(ts[u], u) <= Due(l) + CheckInterval + Debt
    /\ Coming(p, ts, l) \/ blockTime + Ahead(ts[u], u) <= Due(l) + Debt

\* A loop with these looks takes back in time whatever is owed.
Keeps(p, ts) ==
    /\ p.at \in InRound
    /\ \A u \in Ids : Ahead(ts[u], u) <= Debt
    /\ \A l \in locked : Owed(l) => \A u \in Ids : OnTime(p, ts, l, u)

\* The invariant: while the service runs some loop keeps its times.
TimeInv ==
    /\ LocksTyped /\ LoopsTyped
    /\ isRunning => \E k \in Loops : Keeps(loop[k], task[k])

\* Products with a delay are ordered like their factors.
LEMMA TimesGrow ==
    ASSUME NEW r \in Nat, NEW a \in Nat, NEW b \in Nat, a <= b
    PROVE  r * a \in Nat /\ r * b \in Nat /\ r * a <= r * b
<1>1. PICK d \in Nat : b = a + d
  OBVIOUS
<1>2. r * b = r * a + r * d /\ r * a \in Nat /\ r * d \in Nat
  BY <1>1
<1>3. QED BY <1>2

\* What an attempt waits after an error, and may have to wait later on, fits
\* into what it had in reserve and a round.
LEMMA WaitFits ==
    ASSUME NEW n \in 1 .. MaxRetries
    PROVE  /\ Reserve(n) \in Nat /\ Wait(n) \in Nat /\ CheckInterval \in Nat /\ RetryDelay \in Nat
           /\ Wait(n) <= Reserve(n) + RetryDelay
           /\ n = 1 => Reserve(n) = 0
           /\ n < MaxRetries => /\ Wait(n) = RetryDelay * n /\ RetryDelay * n \in Nat
                                /\ RetryDelay * n <= CheckInterval
                                /\ Reserve(n + 1) \in Nat /\ Reserve(n + 1) <= RetryDelay * n
                                /\ RetryDelay * n + Reserve(n + 1) <= Reserve(n) + CheckInterval
<1>1. PICK r, c, m : r = RetryDelay /\ c = CheckInterval /\ m = MaxRetries
  OBVIOUS
<1>2. r \in Nat /\ c \in Nat /\ m \in Nat \ {0} /\ r * (m - 1) <= c
  BY <1>1, RecoveryAssumption
<1>3. n \in Nat /\ 1 <= n /\ n <= m /\ n - 1 \in Nat /\ m - 1 \in Nat
  BY <1>1, <1>2
<1>4. r * n \in Nat /\ r * (n - 1) \in Nat /\ r * n = r * (n - 1) + r
  BY <1>2, <1>3
<1>5. n = 1 => r * (n - 1) = 0
  BY <1>2
<1>6. Reserve(n) = (IF n < m THEN r * (n - 1) ELSE 0) /\ Wait(n) = (IF n < m THEN r * n ELSE 0)
  BY <1>1 DEF Reserve, Wait
<1>7. ASSUME n < m
      PROVE  /\ r * n <= c /\ Reserve(n + 1) \in Nat /\ Reserve(n + 1) <= r * n
             /\ r * n + Reserve(n + 1) <= r * (n - 1) + c
  <2>1. n <= m - 1
    BY <1>2, <1>3, <1>7
  <2>2. r * n <= r * (m - 1) /\ r * (m - 1) \in Nat
    BY <1>2, <1>3, <2>1, TimesGrow
  <2>3. CASE n + 1 < m
    <3>1. n + 1 \in Nat /\ n + 1 <= m - 1
      BY <1>2, <1>3, <2>3
    <3>2. r * (n + 1) <= r * (m - 1)
      BY <1>2, <1>3, <3>1, TimesGrow
    <3>3. r * (n + 1) = r * n + r /\ r * ((n + 1) - 1) = r * n
      BY <1>2, <1>3
    <3>4. Reserve(n + 1) = r * n
      BY <1>1, <2>3, <3>3 DEF Reserve
    <3>5. QED BY <1>2, <1>4, <2>2, <3>2, <3>3, <3>4
  <2>4. CASE ~(n + 1 < m)
    <3>1. Reserve(n + 1) = 0
      BY <1>1, <2>4 DEF Reserve
    <3>2. r * 1 <= r * (m - 1) /\ r * 1 = r
      <4>1. 1 <= m - 1
        BY <1>2, <1>3, <1>7
      <4>2. QED BY <1>2, <1>3, <4>1, TimesGrow
    <3>3. QED BY <1>2, <1>4, <2>2, <3>1, <3>2
  <2>5. QED BY <2>3, <2>4
<1>8. CASE n < m
  BY <1>1, <1>2, <1>4, <1>5, <1>6, <1>7, <1>8
<1>9. CASE ~(n < m)
  BY <1>1, <1>2, <1>6, <1>9
<1>10. QED BY <1>8, <1>9

\* An HTLC that is gone costs a look at most one delay more than an open one.
LEMMA AheadIsNatural ==
    ASSUME NEW t, IsTask(t)
    PROVE  /\ WhileOpen(t) \in Nat /\ OnceGone(t) \in Nat /\ RetryDelay \in Nat
           /\ OnceGone(t) <= WhileOpen(t) + RetryDelay
           /\ t = Done \/ t.at = "read" => WhileOpen(t) = 0 /\ OnceGone(t) = 0
<1>0. RetryDelay \in Nat
  BY RecoveryAssumption
<1>1. CASE t = Done
  BY <1>0, <1>1 DEF WhileOpen, OnceGone, Done
<1>2. CASE t # Done
  <2>1. t.at \in Looking /\ t.attempt \in 1 .. MaxRetries /\ t.left \in Nat
    BY <1>2 DEF IsTask
  <2>2. Reserve(t.attempt) \in Nat /\ Wait(t.attempt) \in Nat
        /\ Wait(t.attempt) <= Reserve(t.attempt) + RetryDelay
    BY <2>1, WaitFits
  <2>3. CASE t.at = "delay"
    <3>1. Reserve(t.attempt + 1) \in Nat
      BY <2>1, <2>3, WaitFits DEF IsTask
    <3>2. QED BY <1>0, <1>2, <2>1, <2>3, <3>1 DEF WhileOpen, OnceGone
  <2>4. CASE t.at # "delay"
    BY <1>0, <1>2, <2>1, <2>2, <2>4 DEF WhileOpen, OnceGone, Looking
  <2>5. QED BY <2>3, <2>4
<1>3. QED BY <1>1, <1>2

\* An attempt fails.
Fails(t) ==
    IF t.attempt < MaxRetries
    THEN [at |-> "delay", attempt |-> t.attempt, left |-> RetryDelay * t.attempt]
    ELSE Done

\* An attempt that fails costs at most a round, and a lost race nothing new.
LEMMA AheadFails ==
    ASSUME NEW t, IsTask(t), t.at \in {"verify", "send", "confirm"}
    PROVE  /\ IsTask(Fails(t)) /\ (Fails(t) # Done => Fails(t).at = "delay")
           /\ WhileOpen(Fails(t)) <= WhileOpen(t) + CheckInterval
           /\ OnceGone(Fails(t)) <= OnceGone(t) + CheckInterval
           /\ t.at = "send" => OnceGone(Fails(t)) <= OnceGone(t)
<1>0. t # Done /\ t.attempt \in 1 .. MaxRetries /\ t.at \in Looking
  BY DEF IsTask, Done
<1>1. CheckInterval \in Nat /\ WhileOpen(t) \in Nat /\ OnceGone(t) \in Nat
  BY RecoveryAssumption, AheadIsNatural
<1>2. CASE ~(t.attempt < MaxRetries)
  <2>1. Fails(t) = Done
    BY <1>2 DEF Fails
  <2>2. IsTask(Done)
    BY DEF IsTask, Done
  <2>3. WhileOpen(Done) = 0 /\ OnceGone(Done) = 0
    BY <2>2, AheadIsNatural
  <2>4. QED BY <1>1, <2>1, <2>2, <2>3
<1>3. CASE t.attempt < MaxRetries
  <2>1. PICK n : n = t.attempt
    OBVIOUS
  <2>2. /\ n \in 1 .. MaxRetries /\ n < MaxRetries /\ RetryDelay * n \in Nat
        /\ RetryDelay * n <= CheckInterval /\ Reserve(n + 1) \in Nat /\ Wait(n) = RetryDelay * n
        /\ RetryDelay * n + Reserve(n + 1) <= Reserve(n) + CheckInterval /\ Reserve(n) \in Nat
    BY <1>0, <1>3, <2>1, WaitFits
  <2>3. PICK f : f = [at |-> "delay", attempt |-> n, left |-> RetryDelay * n]
    OBVIOUS
  <2>4. Fails(t) = f /\ f.at = "delay" /\ f.attempt = n /\ f.left = RetryDelay * n
        /\ DOMAIN f = {"at", "attempt", "left"} /\ f # Done
    BY <1>3, <2>1, <2>3 DEF Fails, Done
  <2>5. IsTask(f)
    BY <2>2, <2>4 DEF IsTask, Looking
  <2>6. WhileOpen(f) = RetryDelay * n + Reserve(n + 1) /\ OnceGone(f) = RetryDelay * n
    BY <2>4 DEF WhileOpen, OnceGone
  <2>7. WhileOpen(t) = Reserve(n) /\ (t.at = "send" => OnceGone(t) = Wait(n))
    BY <2>1 DEF WhileOpen, OnceGone
  <2>8. QED BY <1>1, <2>2, <2>4, <2>5, <2>6, <2>7
<1>4. QED BY <1>2, <1>3

\* An attempt goes on.
LEMMA ReadGoesOn ==
    ASSUME NEW t, IsTask(t), t.at = "read", NEW f, f = [t EXCEPT !.at = "verify"]
    PROVE  IsTask(f) /\ f.at = "verify" /\ f # Done /\ WhileOpen(f) = 0 /\ OnceGone(f) = 0
<1>1. DOMAIN t = {"at", "attempt", "left"} /\ t # Done /\ t.attempt = 1 /\ 1 \in 1 .. MaxRetries /\ t.left = 0
  BY DEF IsTask, Done
<1>2. DOMAIN f = {"at", "attempt", "left"} /\ f.at = "verify" /\ f.attempt = 1 /\ f.left = 0
  BY <1>1
<1>3. Reserve(1) = 0
  BY <1>1, WaitFits
<1>4. QED BY <1>1, <1>2, <1>3 DEF IsTask, Looking, WhileOpen, OnceGone, Done

\* It is about to be sent.
LEMMA VerifyGoesOn ==
    ASSUME NEW t, IsTask(t), t.at = "verify", NEW f, f = [t EXCEPT !.at = "send"]
    PROVE  IsTask(f) /\ f.at = "send" /\ f # Done /\ WhileOpen(f) = WhileOpen(t)
<1>1. DOMAIN t = {"at", "attempt", "left"} /\ t # Done /\ t.attempt \in 1 .. MaxRetries /\ t.left = 0
  BY DEF IsTask, Done
<1>2. DOMAIN f = {"at", "attempt", "left"} /\ f.at = "send" /\ f.attempt = t.attempt /\ f.left = 0
  BY <1>1
<1>3. QED BY <1>1, <1>2 DEF IsTask, Looking, WhileOpen, Done

\* It is taken back: nothing more lies ahead.
LEMMA SendGoesOn ==
    ASSUME NEW t, IsTask(t), t.at = "send", NEW f, f = [t EXCEPT !.at = "confirm"]
    PROVE  IsTask(f) /\ f.at = "confirm" /\ f # Done /\ OnceGone(f) = 0
<1>1. DOMAIN t = {"at", "attempt", "left"} /\ t # Done /\ t.attempt \in 1 .. MaxRetries /\ t.left = 0
  BY DEF IsTask, Done
<1>2. DOMAIN f = {"at", "attempt", "left"} /\ f.at = "confirm" /\ f.attempt = t.attempt /\ f.left = 0
  BY <1>1
<1>3. QED BY <1>1, <1>2 DEF IsTask, Looking, OnceGone, Done

\* A delay ends in the next attempt, and a tick shortens it.
LEMMA DelayGoesOn ==
    ASSUME NEW t, IsTask(t), t.at = "delay"
    PROVE  /\ \A f : t.left = 0 /\ f = [at |-> "verify", attempt |-> t.attempt + 1, left |-> 0] =>
                  /\ IsTask(f) /\ f.at = "verify" /\ f # Done
                  /\ WhileOpen(f) = WhileOpen(t) /\ OnceGone(f) = OnceGone(t)
           /\ \A f : t.left > 0 /\ f = [t EXCEPT !.left = t.left - 1] =>
                  /\ IsTask(f) /\ f.at = "delay" /\ f # Done
                  /\ WhileOpen(f) = WhileOpen(t) - 1 /\ OnceGone(f) = OnceGone(t) - 1
                  /\ WhileOpen(t) > 0 /\ OnceGone(t) > 0
<1>1. /\ DOMAIN t = {"at", "attempt", "left"} /\ t.left \in Nat
      /\ t.attempt \in 1 .. MaxRetries /\ t.attempt < MaxRetries
  BY DEF IsTask, Done
<1>2. Reserve(t.attempt + 1) \in Nat /\ t.attempt + 1 \in 1 .. MaxRetries
  BY <1>1, WaitFits, RecoveryAssumption
<1>3. ASSUME NEW f, t.left = 0, f = [at |-> "verify", attempt |-> t.attempt + 1, left |-> 0]
      PROVE  /\ IsTask(f) /\ f.at = "verify" /\ f # Done
             /\ WhileOpen(f) = WhileOpen(t) /\ OnceGone(f) = OnceGone(t)
  <2>1. DOMAIN f = {"at", "attempt", "left"} /\ f.at = "verify" /\ f.attempt = t.attempt + 1 /\ f.left = 0
    BY <1>3
  <2>2. IsTask(f) /\ f # Done
    BY <1>2, <2>1 DEF IsTask, Looking, Done
  <2>3. WhileOpen(f) = WhileOpen(t) /\ OnceGone(f) = OnceGone(t)
    BY <1>2, <1>3, <2>1 DEF WhileOpen, OnceGone
  <2>4. QED BY <2>1, <2>2, <2>3
<1>4. ASSUME NEW f, t.left > 0, f = [t EXCEPT !.left = t.left - 1]
      PROVE  /\ IsTask(f) /\ f.at = "delay" /\ f # Done
             /\ WhileOpen(f) = WhileOpen(t) - 1 /\ OnceGone(f) = OnceGone(t) - 1
             /\ WhileOpen(t) > 0 /\ OnceGone(t) > 0
  <2>1. DOMAIN f = {"at", "attempt", "left"} /\ f.at = "delay" /\ f.attempt = t.attempt
        /\ f.left = t.left - 1 /\ f.left \in Nat
    BY <1>1, <1>4
  <2>2. IsTask(f) /\ f # Done
    BY <1>1, <2>1 DEF IsTask, Looking, Done
  <2>3. /\ WhileOpen(f) = WhileOpen(t) - 1 /\ OnceGone(f) = OnceGone(t) - 1
        /\ WhileOpen(t) > 0 /\ OnceGone(t) > 0
    BY <1>1, <1>2, <1>4, <2>1 DEF WhileOpen, OnceGone
  <2>4. QED BY <2>1, <2>2, <2>3
<1>5. QED BY <1>3, <1>4

\* What lies ahead of a look, now and in the next state.
LEMMA AheadTyped ==
    ASSUME NEW t, IsTask(t), NEW u
    PROVE  /\ Ahead(t, u) \in Nat /\ Ahead(t, u)' \in Nat
           /\ t = Done \/ t.at = "read" => Ahead(t, u) = 0 /\ Ahead(t, u)' = 0
           /\ (~IsOpen(u) => ~IsOpen(u)') => Ahead(t, u)' <= Ahead(t, u) + RetryDelay
           /\ (IsOpen(u)' <=> IsOpen(u)) => Ahead(t, u)' = Ahead(t, u)
<1>1. /\ WhileOpen(t) \in Nat /\ OnceGone(t) \in Nat /\ RetryDelay \in Nat
      /\ OnceGone(t) <= WhileOpen(t) + RetryDelay
      /\ t = Done \/ t.at = "read" => WhileOpen(t) = 0 /\ OnceGone(t) = 0
  BY AheadIsNatural
<1>2. /\ IsOpen(u) => Ahead(t, u) = WhileOpen(t)
      /\ ~IsOpen(u) => Ahead(t, u) = OnceGone(t)
      /\ IsOpen(u)' => Ahead(t, u)' = WhileOpen(t)
      /\ ~IsOpen(u)' => Ahead(t, u)' = OnceGone(t)
  BY DEF Ahead
<1>3. QED BY <1>1, <1>2

\* The bound of the property is a round and the debt.
LEMMA DebtTyped == ASSUME LocksTyped PROVE Debt \in Nat /\ Delay = CheckInterval + Debt
<1>1. PICK c, f, r, n, s : /\ c = CheckInterval /\ f = faults /\ r = RetryDelay
                           /\ n = Cardinality(Settled) /\ s = slow
  OBVIOUS
<1>2. c \in Nat /\ f \in Nat /\ r \in Nat /\ n \in Nat /\ s \in Nat
  BY <1>1, RecoveryAssumption, FS_CardinalityType DEF LocksTyped
<1>3. c * f \in Nat /\ r * n \in Nat /\ c * (1 + f) = c + c * f
  BY <1>2
<1>4. Debt = c * f + r * n + s /\ Delay = c * (1 + f) + r * n + s
  BY <1>1 DEF Debt, Delay, Settled
<1>5. QED BY <1>1, <1>2, <1>3, <1>4

\* A failed call adds a round to the debt.
LEMMA DebtFaults ==
    ASSUME LocksTyped, faults' = faults + 1, UNCHANGED <<claimed, returned, slow>>
    PROVE  Debt' = Debt + CheckInterval
<1>1. PICK c, f, x, s : c = CheckInterval /\ f = faults /\ x = RetryDelay * Cardinality(Settled) /\ s = slow
  OBVIOUS
<1>2. c \in Nat /\ f \in Nat /\ x \in Nat /\ s \in Nat
  BY <1>1, RecoveryAssumption, FS_CardinalityType DEF LocksTyped
<1>3. Debt = c * f + x + s /\ Debt' = c * (f + 1) + x + s
  BY <1>1 DEF Debt, Settled
<1>4. QED BY <1>1, <1>2, <1>3

\* A resolved HTLC adds a delay to it.
LEMMA DebtRaces ==
    ASSUME LocksTyped, NEW l, l \notin Settled, Settled' = Settled \cup {l}, UNCHANGED <<faults, slow>>
    PROVE  Debt' = Debt + RetryDelay
<1>1. PICK r, n, x, s : r = RetryDelay /\ n = Cardinality(Settled) /\ x = CheckInterval * faults /\ s = slow
  OBVIOUS
<1>2. r \in Nat /\ n \in Nat /\ x \in Nat /\ s \in Nat
  BY <1>1, RecoveryAssumption, FS_CardinalityType DEF LocksTyped
<1>3. Cardinality(Settled \cup {l}) = n + 1
  BY <1>1, FS_AddElement DEF LocksTyped
<1>4. Debt = x + r * n + s /\ Debt' = x + r * (n + 1) + s
  BY <1>1, <1>3 DEF Debt
<1>5. QED BY <1>1, <1>2, <1>4

\* What is due is so at its deadline or when the service is up.
LEMMA DueTyped ==
    ASSUME LocksTyped, NEW l, l.deadline \in Nat
    PROVE  Due(l) \in Nat /\ Due(l) >= l.deadline /\ Due(l) >= upSince
BY DEF LocksTyped, Due

\* What failures and lost races cost a loop, they add to the bound.
LEMMA Charged ==
    ASSUME NEW p, NEW ts, NEW q, NEW us, NEW e \in Nat, LocksTyped, LocksTyped', Keeps(p, ts),
           IsLoop(p), IsLoop(q), q.at \in InRound, q.left = p.left,
           \A u \in Ids : IsTask(ts[u]) /\ IsTask(us[u]),
           UNCHANGED <<blockTime, upSince>>, Debt' = Debt + e,
           \A u \in Ids : Ahead(us[u], u)' <= Ahead(ts[u], u) + e,
           \A l \in locked' : Owed(l)' =>
               \/ blockTime <= Due(l)
               \/ /\ l \in locked /\ Owed(l)
                  /\ \/ Coming(p, ts, l) => Coming(q, us, l)
                     \/ CheckInterval <= e /\ \A u \in Ids : Ahead(us[u], u)' <= Ahead(ts[u], u)
    PROVE  Keeps(q, us)'
<1>1. PICK n, c, d, g : n = blockTime /\ c = CheckInterval /\ d = Debt /\ g = q.left
  OBVIOUS
<1>2. n \in Nat /\ c \in Nat /\ d \in Nat /\ g \in Nat /\ g <= c
  BY <1>1, DebtTyped, RecoveryAssumption DEF LocksTyped, IsLoop
<1>3. \A u \in Ids : Ahead(us[u], u)' \in Nat /\ Ahead(ts[u], u) \in Nat
  BY AheadTyped
<1>4. \A u \in Ids : Ahead(us[u], u)' <= Debt'
  <2> SUFFICES ASSUME NEW u \in Ids PROVE Ahead(us[u], u)' <= Debt'
    OBVIOUS
  <2>1. PICK a, b : a = Ahead(ts[u], u) /\ b = Ahead(us[u], u)'
    OBVIOUS
  <2>2. a \in Nat /\ b \in Nat /\ a <= d /\ b <= a + e
    BY <1>1, <1>3, <2>1 DEF Keeps
  <2>3. Debt' = d + e
    BY <1>1
  <2>4. QED BY <1>2, <2>1, <2>2, <2>3
<1>5. ASSUME NEW l \in locked', Owed(l)', NEW u \in Ids
      PROVE  OnTime(q, us, l, u)'
  <2>1. PICK a, b, w : a = Ahead(ts[u], u) /\ b = Ahead(us[u], u)' /\ w = Due(l)
    OBVIOUS
  <2>2. a \in Nat /\ b \in Nat /\ a <= d /\ b <= a + e
    BY <1>1, <1>3, <2>1 DEF Keeps
  <2>3. l.deadline \in Nat
    BY <1>5 DEF LocksTyped
  <2>4. w \in Nat /\ Due(l)' = w
    BY <2>1, <2>3, DueTyped DEF Due
  <2>5. /\ n + g + b <= w + c + (d + e)
        /\ Coming(q, us, l) \/ n + b <= w + (d + e)
        => OnTime(q, us, l, u)'
    <3>1. blockTime' = n /\ q.left = g /\ CheckInterval = c /\ Debt' = d + e
      BY <1>1
    <3>2. QED BY <2>1, <2>4, <3>1 DEF OnTime
  <2>6. CASE blockTime <= Due(l)
    <3>1. n <= w
      BY <1>1, <2>1, <2>6
    <3>2. n + g + b <= w + c + (d + e) /\ n + b <= w + (d + e)
      BY <1>2, <2>2, <2>4, <3>1
    <3>3. QED BY <2>5, <3>2
  <2>7. ASSUME l \in locked, Owed(l)
        PROVE  /\ n + g + a <= w + c + d
               /\ Coming(p, ts, l) \/ n + a <= w + d
    <3>1. OnTime(p, ts, l, u)
      BY <2>7 DEF Keeps
    <3>2. p.left = g
      BY <1>1
    <3>3. QED BY <1>1, <2>1, <3>1, <3>2 DEF OnTime
  <2>8. CASE l \in locked /\ Owed(l) /\ (Coming(p, ts, l) => Coming(q, us, l))
    <3>1. n + g + b <= w + c + (d + e) /\ (Coming(q, us, l) \/ n + b <= w + (d + e))
      BY <1>2, <2>2, <2>4, <2>7, <2>8
    <3>2. QED BY <2>5, <3>1
  <2>9. CASE l \in locked /\ Owed(l) /\ CheckInterval <= e /\ Ahead(us[u], u)' <= Ahead(ts[u], u)
    <3>1. c <= e /\ b <= a
      BY <1>1, <2>1, <2>9
    <3>2. n + g + b <= w + c + (d + e) /\ n + b <= w + (d + e)
      BY <1>2, <2>2, <2>4, <2>7, <2>9, <3>1
    <3>3. QED BY <2>5, <3>2
  <2>10. QED BY <1>5, <2>6, <2>8, <2>9
<1>6. QED BY <1>4, <1>5 DEF Keeps

\* A loop that has just started is in time for whatever falls due from now on.
LEMMA FreshKeeps ==
    ASSUME NEW q, NEW us, LocksTyped', IsLoop(q), q.at = "top", \A u \in Ids : us[u] = Done,
           upSince' = blockTime'
    PROVE  Keeps(q, us)'
<1>1. IsTask(Done)
  BY DEF IsTask, Done
<1>2. \A u \in Ids : Ahead(us[u], u)' = 0
  BY <1>1, AheadTyped
<1>3. Debt' \in Nat
  <2>1. PICK c, f, r, n, s : /\ c = CheckInterval /\ f = faults' /\ r = RetryDelay
                             /\ n = Cardinality(Settled') /\ s = slow'
    OBVIOUS
  <2>2. c \in Nat /\ f \in Nat /\ r \in Nat /\ n \in Nat /\ s \in Nat
    BY <2>1, RecoveryAssumption, FS_CardinalityType DEF LocksTyped
  <2>3. c * f \in Nat /\ r * n \in Nat
    BY <2>2
  <2>4. Debt' = c * f + r * n + s
    BY <2>1 DEF Debt
  <2>5. QED BY <2>2, <2>3, <2>4
<1>4. ASSUME NEW l \in locked', NEW u \in Ids
      PROVE  OnTime(q, us, l, u)'
  <2>1. PICK n, g, c, d, w : n = blockTime' /\ g = q.left /\ c = CheckInterval /\ d = Debt' /\ w = Due(l)'
    OBVIOUS
  <2>2. n \in Nat /\ g \in Nat /\ c \in Nat /\ g <= c /\ d \in Nat
    BY <1>3, <2>1, RecoveryAssumption DEF LocksTyped, IsLoop
  <2>3. l.deadline \in Nat
    BY <1>4 DEF LocksTyped
  <2>4. w \in Nat /\ n <= w
    BY <2>1, <2>2, <2>3 DEF Due
  <2>5. Coming(q, us, l) /\ Ahead(us[u], u)' = 0
    BY <1>2 DEF Coming
  <2>6. n + g + 0 <= w + c + d
    BY <2>2, <2>4
  <2>7. QED BY <2>1, <2>5, <2>6 DEF OnTime
<1>5. QED BY <1>2, <1>3, <1>4 DEF Keeps, InRound

\* What is owed after a step was owed before it: debt grows, creations stay.
LEMMA OwedBefore ==
    ASSUME LocksTyped, NEW e \in Nat, Debt' = Debt + e, NEW l, l.deadline \in Nat, l.id \in Ids,
           created'[l.id] = created[l.id], UNCHANGED <<client, upSince>>, Owed(l)'
    PROVE  Owed(l)
<1>1. PICK b, d, w, c : /\ b = created[l.id] + Window /\ d = Debt /\ w = Due(l) /\ c = CheckInterval
  OBVIOUS
<1>2. b \in Nat /\ d \in Nat /\ w \in Nat /\ c \in Nat
  <2>1. created[l.id] \in Nat
    BY DEF LocksTyped
  <2>2. QED BY <1>1, <2>1, DebtTyped, DueTyped, RecoveryAssumption
<1>3. Due(l)' = w /\ Debt' = d + e /\ created'[l.id] + Window = b
  BY <1>1 DEF Due
<1>4. l.id \in EthereumIds => b >= w + c + (d + e)
  BY <1>1, <1>3 DEF Owed
<1>5. l.id \in EthereumIds => b >= w + c + d
  BY <1>2, <1>4
<1>6. l.id \in Ours /\ (l.id \in CosmosIds => client)
  BY DEF Owed
<1>7. QED BY <1>1, <1>5, <1>6 DEF Owed

\* What a step may do to the HTLCs: what there is stays, expired and resolved
\* ones stay so.
LocksGoOn ==
    /\ \A n \in Nat : n <= blockTime => n <= blockTime'
    /\ \A u : Used(u) => /\ Used(u)'
                         /\ IsExpired(u, blockTime) => IsExpired(u, blockTime)'
                         /\ ~IsOpen(u) => ~IsOpen(u)'

\* A loop that takes no step itself stays in time.
Rests == \A p, ts : LoopIs(p, ts) /\ Keeps(p, ts) => Keeps(p, ts)'

\* A loop that takes no step keeps its looks right.
LEMMA LooksGoOn ==
    ASSUME LocksGoOn, NEW p, NEW ts, LoopIs(p, ts)
    PROVE  LoopIs(p, ts)'
<1>1. ASSUME NEW u \in Ids PROVE LookIs(p, ts[u], u)'
  <2>1. PICK t : t = ts[u]
    OBVIOUS
  <2>2. LookIs(p, t, u)
    BY <2>1 DEF LoopIs
  <2>3. t.at \in {"verify", "send", "delay", "confirm"} => t # Done
    BY DEF Done
  <2>4. Used(u) => /\ Used(u)'
                   /\ IsExpired(u, blockTime) => IsExpired(u, blockTime)'
                   /\ ~IsOpen(u) => ~IsOpen(u)'
    BY DEF LocksGoOn
  <2>5. LookIs(p, t, u)'
    BY <2>2, <2>3, <2>4 DEF LookIs
  <2>6. QED BY <2>1, <2>5
<1>2. p.time <= blockTime'
  BY DEF LoopIs, IsLoop, LocksGoOn
<1>3. QED BY <1>1, <1>2 DEF LoopIs

\* And its times, if what happens to the HTLCs is paid for.
LEMMA KeeperRests ==
    ASSUME LocksTyped, LocksTyped', NEW e \in Nat, Debt' = Debt + e, LocksGoOn,
           UNCHANGED <<blockTime, upSince, client>>,
           RetryDelay <= e \/ \A u \in Ids : Used(u) => (IsOpen(u)' <=> IsOpen(u)),
           \A l \in locked' : (l \in locked /\ created'[l.id] = created[l.id]) \/ blockTime <= Due(l)
    PROVE  Rests
<1> SUFFICES ASSUME NEW p, NEW ts, LoopIs(p, ts), Keeps(p, ts) PROVE Keeps(p, ts)'
  BY DEF Rests
<1>1. IsLoop(p) /\ p.at \in InRound /\ \A u \in Ids : IsTask(ts[u])
  BY DEF LoopIs, LookIs, Keeps
<1>2. ASSUME NEW u \in Ids PROVE Ahead(ts[u], u)' <= Ahead(ts[u], u) + e
  <2>1. PICK a, b, r : a = Ahead(ts[u], u) /\ b = Ahead(ts[u], u)' /\ r = RetryDelay
    OBVIOUS
  <2>2. a \in Nat /\ b \in Nat /\ r \in Nat /\ (ts[u] = Done => b = 0)
        /\ ((~IsOpen(u) => ~IsOpen(u)') => b <= a + r)
        /\ ((IsOpen(u)' <=> IsOpen(u)) => b = a)
    BY <1>1, <2>1, AheadTyped, RecoveryAssumption
  <2>3. ts[u] # Done => Used(u) /\ (~IsOpen(u) => ~IsOpen(u)')
    BY DEF LoopIs, LookIs, LocksGoOn
  <2>4. r <= e \/ (Used(u) => (IsOpen(u)' <=> IsOpen(u)))
    BY <2>1
  <2>5. b <= a + e
    BY <2>2, <2>3, <2>4
  <2>6. QED BY <2>1, <2>5
<1>3. ASSUME NEW l \in locked', Owed(l)', l \in locked, created'[l.id] = created[l.id]
      PROVE  Owed(l)
  <2>1. l.deadline \in Nat /\ l.id \in Ids
    BY <1>3 DEF LocksTyped
  <2>2. QED BY <1>3, <2>1, OwedBefore
<1>4. \A l \in locked' : Owed(l)' =>
          \/ blockTime <= Due(l)
          \/ /\ l \in locked /\ Owed(l)
             /\ \/ Coming(p, ts, l) => Coming(p, ts, l)
                \/ CheckInterval <= e /\ \A u \in Ids : Ahead(ts[u], u)' <= Ahead(ts[u], u)
  BY <1>3
<1>5. QED BY <1>1, <1>2, <1>4, Charged

\* Steps after which the HTLCs are as they were.
LEMMA NothingLocked ==
    ASSUME LocksTyped, UNCHANGED <<lockVars, upSince, client>>,
           UNCHANGED faults \/ faults' = faults + 1
    PROVE  /\ LocksTyped' /\ LocksGoOn /\ Rests
           /\ UNCHANGED faults => Debt' = Debt
           /\ faults' = faults + 1 => Debt' = Debt + CheckInterval
<1>1. UNCHANGED <<locked, claimed, returned, blockTime, slow, created>>
  BY DEF lockVars
<1>2. Settled' = Settled
  BY <1>1 DEF Settled
<1>3. faults \in Nat /\ faults' \in Nat
  BY DEF LocksTyped
<1>4. LocksTyped'
  BY <1>1, <1>2, <1>3 DEF LocksTyped
<1>5. \A u : (Used(u)' <=> Used(u)) /\ (IsOpen(u)' <=> IsOpen(u))
             /\ (IsExpired(u, blockTime)' <=> IsExpired(u, blockTime))
  BY <1>1, <1>2 DEF Used, IsOpen, IsExpired
<1>6. LocksGoOn
  BY <1>1, <1>5 DEF LocksGoOn
<1>7. UNCHANGED faults => Debt' = Debt
  BY <1>1, <1>2 DEF Debt
<1>8. faults' = faults + 1 => Debt' = Debt + CheckInterval
  BY <1>1, DebtFaults
<1>9. Debt \in Nat /\ CheckInterval \in Nat
  BY DebtTyped, RecoveryAssumption
<1>10. \A l \in locked' : l \in locked /\ created'[l.id] = created[l.id]
  BY <1>1
<1>11. Rests
  <2>1. CASE UNCHANGED faults
    <3>1. Debt' = Debt + 0
      BY <1>7, <1>9, <2>1
    <3>2. QED BY <1>1, <1>4, <1>5, <1>6, <1>10, <3>1, KeeperRests
  <2>2. CASE faults' = faults + 1
    BY <1>1, <1>4, <1>5, <1>6, <1>8, <1>9, <1>10, <2>2, KeeperRests
  <2>3. QED BY <2>1, <2>2
<1>12. QED BY <1>4, <1>6, <1>7, <1>8, <1>11

\* A claim or a refund: one race more that looks may lose.
LEMMA OneResolved ==
    ASSUME LocksTyped, NEW l \in locked, Contracts!Claim(l) \/ Contracts!TakeBack(l),
           UNCHANGED <<created, slow, upSince, client, faults>>
    PROVE  /\ LocksTyped' /\ LocksGoOn /\ Rests
           /\ Debt' = Debt + RetryDelay /\ UNCHANGED blockTime
           /\ locked' = locked \ {l} /\ \A u : IsOpen(u)' <=> IsOpen(u) /\ u # l.id
<1>1. /\ locked' = locked \ {l} /\ Settled' = Settled \cup {l} /\ l \notin Settled
      /\ UNCHANGED blockTime
  BY DEF Contracts!Claim, Contracts!TakeBack, Settled, LocksTyped
<1>2. locked' \cup Settled' = locked \cup Settled
  BY <1>1
<1>3. LocksTyped'
  <2>1. IsFiniteSet(Settled')
    BY <1>1, FS_AddElement DEF LocksTyped
  <2>2. locked' \cap Settled' = {} /\ \A m \in locked' : m \in locked
    BY <1>1 DEF LocksTyped
  <2>3. QED BY <1>1, <1>2, <2>1, <2>2 DEF LocksTyped
<1>4. \A u : Used(u)' <=> Used(u)
  BY <1>2 DEF Used
<1>5. \A u : IsOpen(u)' <=> IsOpen(u) /\ u # l.id
  BY <1>1 DEF IsOpen, LocksTyped
<1>6. \A u : IsExpired(u, blockTime) => IsExpired(u, blockTime)'
  BY <1>1 DEF IsExpired
<1>7. LocksGoOn
  BY <1>1, <1>4, <1>5, <1>6 DEF LocksGoOn
<1>8. Debt' = Debt + RetryDelay /\ RetryDelay \in Nat /\ RetryDelay <= RetryDelay
  <2>1. RetryDelay \in Nat
    BY RecoveryAssumption
  <2>2. QED BY <1>1, <2>1, DebtRaces
<1>9. \A m \in locked' : m \in locked /\ created'[m.id] = created[m.id]
  BY <1>1
<1>10. Rests
  BY <1>1, <1>3, <1>7, <1>8, <1>9, KeeperRests
<1>11. QED BY <1>1, <1>3, <1>5, <1>7, <1>8, <1>10

\* A new HTLC: nobody has looked at it, and it falls due later.
LEMMA OneCreated ==
    ASSUME LocksTyped, NEW u \in Ids, LockCreated(u)
    PROVE  LocksTyped' /\ LocksGoOn /\ Rests
<1>1. PICK d \in Deadlines : Contracts!Lock([id |-> u, deadline |-> d])
  BY DEF LockCreated
<1>2. PICK l : l = [id |-> u, deadline |-> d] /\ l.id = u /\ l.deadline = d
  <2>1. [id |-> u, deadline |-> d].id = u /\ [id |-> u, deadline |-> d].deadline = d
    OBVIOUS
  <2>2. QED BY <2>1
<1>3. /\ d > blockTime /\ d \in Nat /\ ~Used(u)
      /\ locked' = locked \cup {l} /\ Settled' = Settled /\ UNCHANGED <<blockTime, claimed, returned>>
  BY <1>1, <1>2, RecoveryAssumption DEF Contracts!Lock, Used, Settled
<1>4. /\ created' = [created EXCEPT ![u] = blockTime]
      /\ UNCHANGED <<slow, isRunning, client, loop, task, refunded, upSince, faults>>
  BY DEF LockCreated
<1>5. created' \in [Ids -> Nat] /\ \A v \in Ids : v # u => created'[v] = created[v]
  BY <1>4 DEF LocksTyped
<1>6. \A m \in locked : m.id # u
  BY <1>3 DEF Used
<1>7. LocksTyped'
  <2>1. \A m \in locked' : m.id \in Ids /\ m.deadline \in Nat
    BY <1>2, <1>3 DEF LocksTyped
  <2>2. l \notin Settled
    BY <1>2, <1>3 DEF Used
  <2>3. \A m, o \in locked' \cup Settled' : m.id = o.id => m = o
    BY <1>2, <1>3 DEF LocksTyped, Used
  <2>4. QED BY <1>3, <1>4, <1>5, <2>1, <2>2, <2>3 DEF LocksTyped
<1>8. \A v : Used(v) => v # u
  BY <1>3
<1>9. \A v : v # u => (IsOpen(v)' <=> IsOpen(v)) /\ (Used(v) => Used(v)')
                      /\ (IsExpired(v, blockTime)' <=> IsExpired(v, blockTime))
  BY <1>2, <1>3 DEF IsOpen, Used, IsExpired
<1>10. LocksGoOn
  BY <1>3, <1>8, <1>9 DEF LocksGoOn
<1>11. \A m \in locked' : (m \in locked /\ created'[m.id] = created[m.id]) \/ blockTime <= Due(m)
  <2>1. ASSUME NEW m \in locked PROVE created'[m.id] = created[m.id]
    BY <1>5, <1>6, <2>1 DEF LocksTyped
  <2>2. Due(l) >= d /\ Due(l) \in Nat /\ blockTime \in Nat
    BY <1>2, <1>3, DueTyped DEF LocksTyped
  <2>3. blockTime <= Due(l)
    BY <1>3, <2>2
  <2>4. QED BY <1>3, <2>1, <2>3
<1>12. Debt' = Debt + 0
  BY <1>3, <1>4, DebtTyped DEF Debt
<1>13. QED BY <1>3, <1>4, <1>7, <1>8, <1>9, <1>10, <1>11, <1>12, KeeperRests

\* One loop takes a step, the others rest.
OneMoves(k, q, us) ==
    /\ DOMAIN loop' = Loops /\ DOMAIN task' = Loops
    /\ loop'[k] = q /\ task'[k] = us
    /\ \A j \in Loops \ {k} : loop'[j] = loop[j] /\ task'[j] = task[j]

\* Such a step keeps the invariant when the loop that takes it stays right and in time.
LEMMA OneLoop ==
    ASSUME TimeInv, NEW k \in Loops, NEW q, NEW us, OneMoves(k, q, us),
           UNCHANGED <<isRunning, upSince, blockTime>>, LocksTyped', LocksGoOn, Rests,
           LoopIs(q, us)',
           isRunning /\ Keeps(loop[k], task[k]) => Keeps(q, us)'
    PROVE  TimeInv'
<1>1. /\ DOMAIN loop' = Loops /\ DOMAIN task' = Loops
      /\ loop'[k] = q /\ task'[k] = us
      /\ \A j \in Loops \ {k} : loop'[j] = loop[j] /\ task'[j] = task[j]
  BY DEF OneMoves
<1>2. ASSUME NEW j \in Loops \ {k} PROVE LoopIs(loop[j], task[j])' /\ (Keeps(loop[j], task[j]) => Keeps(loop[j], task[j])')
  <2>1. PICK p, ts : p = loop[j] /\ ts = task[j]
    OBVIOUS
  <2>2. LoopIs(p, ts)
    BY <2>1 DEF TimeInv, LoopsTyped
  <2>4. LoopIs(p, ts)'
    BY <2>2, LooksGoOn
  <2>5. Keeps(p, ts) => Keeps(p, ts)'
    BY <2>2 DEF Rests
  <2>6. loop'[j] = p /\ task'[j] = ts
    BY <1>1, <2>1
  <2>7. LoopIs(loop[j], task[j])'
    BY <2>4, <2>6 DEF LoopIs
  <2>8. Keeps(p, ts)' => Keeps(loop[j], task[j])'
    BY <2>6 DEF Keeps, OnTime
  <2>9. Keeps(loop[j], task[j]) => Keeps(p, ts)
    BY <2>1
  <2>10. QED BY <2>5, <2>7, <2>8, <2>9
<1>3. LoopIs(loop[k], task[k])' /\ (Keeps(q, us)' => Keeps(loop[k], task[k])')
  <2>1. LoopIs(loop[k], task[k])'
    BY <1>1 DEF LoopIs
  <2>2. QED BY <1>1, <2>1 DEF Keeps, OnTime
<1>4. LoopsTyped'
  BY <1>1, <1>2, <1>3 DEF LoopsTyped
<1>5. ASSUME isRunning' PROVE \E j \in Loops : Keeps(loop[j], task[j])'
  <2>1. PICK j \in Loops : Keeps(loop[j], task[j])
    BY <1>5 DEF TimeInv
  <2>2. CASE j = k
    BY <1>3, <1>5, <2>1, <2>2
  <2>3. CASE j # k
    BY <1>2, <2>1, <2>3
  <2>4. QED BY <2>2, <2>3
<1>6. QED BY <1>4, <1>5 DEF TimeInv

\* What the invariant says of one loop.
LEMMA LoopTaken ==
    ASSUME TimeInv, NEW k \in Loops
    PROVE  /\ LocksTyped /\ LoopIs(loop[k], task[k]) /\ IsLoop(loop[k])
           /\ \A u \in Ids : LookIs(loop[k], task[k][u], u) /\ IsTask(task[k][u])
           /\ ~Busy(k) => \A u \in Ids : task[k][u] = Done
           /\ \A u \in Ids : task[k][u] # Done => loop[k].at \in {"ethereum", "cosmos"} /\ Used(u)
           /\ CheckInterval \in Nat /\ blockTime \in Nat /\ loop[k].time <= blockTime
<1>1. LoopIs(loop[k], task[k])
  BY DEF TimeInv, LoopsTyped
<1>2. CheckInterval \in Nat /\ blockTime \in Nat
  BY RecoveryAssumption DEF TimeInv, LocksTyped
<1>3. QED BY <1>1, <1>2 DEF TimeInv, LoopIs, LookIs, Busy

\* A loop without looks goes to another place.
LEMMA IdleMoves ==
    ASSUME TimeInv, NEW k \in Loops, \A u \in Ids : task[k][u] = Done,
           NEW q, IsLoop(q), q.time <= blockTime, loop' = [loop EXCEPT ![k] = q],
           UNCHANGED <<lockVars, task, isRunning, upSince, client>>,
           UNCHANGED faults \/ faults' = faults + 1,
           \A u \in q.pending : /\ Used(u) /\ (q.at = "cosmos" => IsExpired(u, blockTime))
                                /\ q.at = "ethereum" => u \in EthereumIds,
           isRunning /\ Keeps(loop[k], task[k]) => Keeps(q, task[k])'
    PROVE  TimeInv'
<1>1. LocksTyped /\ LoopIs(loop[k], task[k])
  BY LoopTaken
<1>2. LocksTyped' /\ LocksGoOn /\ Rests /\ UNCHANGED blockTime
  BY <1>1, NothingLocked DEF lockVars
<1>3. OneMoves(k, q, task[k])
  BY DEF OneMoves, TimeInv, LoopsTyped
<1>4. PICK us : us = task[k]
  OBVIOUS
<1>5. \A u : /\ Used(u) => Used(u)'
             /\ Used(u) /\ IsExpired(u, blockTime) => IsExpired(u, blockTime)'
  BY <1>2 DEF LocksGoOn
<1>6. DOMAIN us = Ids /\ \A u \in Ids : us[u] = Done
  BY <1>1, <1>4 DEF LoopIs
<1>7. ASSUME NEW u \in Ids PROVE LookIs(q, us[u], u)'
  <2>1. IsTask(Done) /\ Done.at = "done"
    BY DEF IsTask, Done
  <2>2. u \in q.pending => /\ Used(u)' /\ (q.at = "cosmos" => IsExpired(u, blockTime)')
                           /\ q.at = "ethereum" => u \in EthereumIds
    BY <1>5
  <2>3. LookIs(q, Done, u)'
    BY <2>1, <2>2 DEF LookIs
  <2>4. QED BY <1>6, <2>3
<1>11. q.time <= blockTime'
  BY <1>2
<1>8. LoopIs(q, us)'
  BY <1>6, <1>7, <1>11 DEF LoopIs
<1>9. isRunning /\ Keeps(loop[k], task[k]) => Keeps(q, us)'
  BY <1>4 DEF Keeps, OnTime
<1>10. QED BY <1>2, <1>3, <1>4, <1>8, <1>9, OneLoop

\* A loop that rounds off a check goes to sleep.
LEMMA SleepKeeps ==
    ASSUME LocksTyped, NEW p, NEW ts, NEW q, Keeps(p, ts), IsLoop(p), p.left = 0,
           \A u \in Ids : ts[u] = Done,
           q.at = "top", q.left = CheckInterval,
           UNCHANGED <<lockVars, upSince, client>>, NEW e \in Nat,
           (UNCHANGED faults /\ e = 0) \/ (faults' = faults + 1 /\ e = CheckInterval),
           \A l \in locked : Owed(l) => ~Coming(p, ts, l) \/ e = CheckInterval
    PROVE  Keeps(q, ts)'
<1>1. IsTask(Done)
  BY DEF IsTask, Done
<1>2. \A u \in Ids : Ahead(ts[u], u) = 0 /\ Ahead(ts[u], u)' = 0
  BY <1>1, AheadTyped
<1>3. LocksTyped' /\ UNCHANGED <<locked, blockTime, created>>
  BY NothingLocked DEF lockVars
<1>4. PICK d, c, n : d = Debt /\ c = CheckInterval /\ n = blockTime
  OBVIOUS
<1>5. d \in Nat /\ c \in Nat /\ n \in Nat
  BY <1>4, DebtTyped, RecoveryAssumption DEF LocksTyped
<1>6. Debt' = d + e
  BY <1>4, <1>5, NothingLocked
<1>7. ASSUME NEW l \in locked', Owed(l)', NEW u \in Ids
      PROVE  OnTime(q, ts, l, u)'
  <2>1. l \in locked /\ l.deadline \in Nat /\ l.id \in Ids
    BY <1>3, <1>7 DEF LocksTyped
  <2>2. Owed(l)
    BY <1>3, <1>4, <1>6, <1>7, <2>1, OwedBefore
  <2>3. OnTime(p, ts, l, u) /\ (~Coming(p, ts, l) \/ e = CheckInterval)
    BY <1>7, <2>1, <2>2 DEF Keeps
  <2>4. PICK w : w = Due(l)
    OBVIOUS
  <2>5. w \in Nat /\ Due(l)' = w
    BY <2>1, <2>4, DueTyped DEF Due
  <2>6. n + 0 + 0 <= w + c + d /\ (Coming(p, ts, l) \/ n + 0 <= w + d)
    BY <1>2, <1>4, <2>3, <2>4 DEF OnTime
  <2>7. n + c + 0 <= w + c + (d + e)
    BY <1>4, <1>5, <2>3, <2>5, <2>6
  <2>8. Coming(q, ts, l)
    BY DEF Coming
  <2>9. blockTime' = n /\ q.left = c /\ Ahead(ts[u], u)' = 0
    BY <1>2, <1>3, <1>4
  <2>10. QED BY <1>4, <1>6, <2>5, <2>7, <2>8, <2>9 DEF OnTime
<1>8. \A u \in Ids : Ahead(ts[u], u)' <= Debt'
  BY <1>2, <1>5, <1>6
<1>9. QED BY <1>7, <1>8 DEF Keeps, InRound

\* Charged, for a loop without looks that changes places.
LEMMA IdleCharged ==
    ASSUME LocksTyped, NEW p, NEW ts, NEW q, Keeps(p, ts), IsLoop(p), IsLoop(q),
           q.at \in InRound, q.left = p.left, \A u \in Ids : ts[u] = Done,
           UNCHANGED <<lockVars, upSince, client>>, NEW e \in Nat,
           (UNCHANGED faults /\ e = 0) \/ (faults' = faults + 1 /\ e = CheckInterval),
           \A l \in locked : Owed(l) =>
               \/ blockTime <= Due(l)
               \/ Coming(p, ts, l) => Coming(q, ts, l)
               \/ CheckInterval <= e
    PROVE  Keeps(q, ts)'
<1>1. IsTask(Done)
  BY DEF IsTask, Done
<1>2. \A u \in Ids : /\ Ahead(ts[u], u)' <= Ahead(ts[u], u) /\ Ahead(ts[u], u)' <= Ahead(ts[u], u) + e
                     /\ IsTask(ts[u])
  BY <1>1, AheadTyped
<1>3. LocksTyped' /\ UNCHANGED <<locked, blockTime, created>>
  BY NothingLocked DEF lockVars
<1>4. Debt' = Debt + e
  BY NothingLocked, DebtTyped
<1>5. ASSUME NEW l \in locked', Owed(l)'
      PROVE  l \in locked /\ Owed(l)
  <2>1. l \in locked /\ l.deadline \in Nat /\ l.id \in Ids
    BY <1>3, <1>5 DEF LocksTyped
  <2>2. QED BY <1>3, <1>4, <1>5, <2>1, OwedBefore
<1>6. \A l \in locked' : Owed(l)' =>
          \/ blockTime <= Due(l)
          \/ /\ l \in locked /\ Owed(l)
             /\ \/ Coming(p, ts, l) => Coming(q, ts, l)
                \/ CheckInterval <= e /\ \A u \in Ids : Ahead(ts[u], u)' <= Ahead(ts[u], u)
  BY <1>2, <1>5
<1>7. QED BY <1>2, <1>3, <1>4, <1>6, Charged

\* The steps of a loop between its looks.
LEMMA StartStep == ASSUME TimeInv, NEW k \in Loops, Start(k) PROVE TimeInv'
<1>1. PICK q : q = [NoLoop EXCEPT !.at = "connecting"]
  OBVIOUS
<1>2. /\ DOMAIN q = {"at", "left", "time", "pending"} /\ q.at = "connecting"
      /\ q.left = 0 /\ q.time = 0 /\ q.pending = {}
  BY <1>1 DEF NoLoop
<1>3. IsLoop(q)
  BY <1>2, RecoveryAssumption DEF IsLoop, InRound
<1>4. loop[k].at \notin {"ethereum", "cosmos"}
  BY DEF Start, NoLoop
<1>5. \A u \in Ids : task[k][u] = Done
  BY <1>4, LoopTaken
<1>6. loop' = [loop EXCEPT ![k] = q]
  <2>1. loop' = [loop EXCEPT ![k] = [loop[k] EXCEPT !.at = "connecting"]]
    BY DEF Start, Move, TimeInv, LoopsTyped
  <2>2. QED BY <1>1, <2>1 DEF Start
<1>7. ~isRunning /\ UNCHANGED <<lockVars, task, isRunning, upSince, client, faults>>
  BY DEF Start
<1>8. q.time <= blockTime
  BY <1>2, LoopTaken
<1>9. QED BY <1>2, <1>3, <1>5, <1>6, <1>7, <1>8, IdleMoves

LEMMA LoopEndsStep == ASSUME TimeInv, NEW k \in Loops, LoopEnds(k) PROVE TimeInv'
<1>1. NoLoop.at = "none" /\ NoLoop.pending = {} /\ NoLoop.left = 0 /\ NoLoop.time = 0
      /\ DOMAIN NoLoop = {"at", "left", "time", "pending"}
  BY DEF NoLoop
<1>2. IsLoop(NoLoop)
  BY <1>1, RecoveryAssumption DEF IsLoop
<1>3. \A u \in Ids : task[k][u] = Done
  BY LoopTaken DEF LoopEnds, At
<1>4. ~isRunning /\ loop' = [loop EXCEPT ![k] = NoLoop]
      /\ UNCHANGED <<lockVars, task, isRunning, upSince, client, faults>>
  BY DEF LoopEnds
<1>5. NoLoop.time <= blockTime
  BY <1>1, LoopTaken
<1>6. QED BY <1>1, <1>2, <1>3, <1>4, <1>5, IdleMoves

\* A loop goes to another place, nothing else of it changes.
LEMMA MovedLoop ==
    ASSUME TimeInv, NEW k \in Loops, NEW place, Move(k, place)
    PROVE  \E q : /\ loop' = [loop EXCEPT ![k] = q] /\ DOMAIN q = {"at", "left", "time", "pending"}
                  /\ q.at = place /\ q.left = loop[k].left /\ q.time = loop[k].time
                  /\ q.pending = loop[k].pending
<1>1. PICK q : q = [loop[k] EXCEPT !.at = place]
  OBVIOUS
<1>2. loop' = [loop EXCEPT ![k] = q]
  BY <1>1 DEF Move, TimeInv, LoopsTyped
<1>3. DOMAIN loop[k] = {"at", "left", "time", "pending"}
  BY LoopTaken DEF IsLoop
<1>4. /\ DOMAIN q = {"at", "left", "time", "pending"}
      /\ q.at = place /\ q.left = loop[k].left /\ q.time = loop[k].time
      /\ q.pending = loop[k].pending
  BY <1>1, <1>3
<1>5. QED BY <1>2, <1>4, Zenon

\* Where the service runs already and gets no client, the loop joins the others.
LEMMA JoinsStep ==
    ASSUME TimeInv, NEW k \in Loops, Connected(k), isRunning, client' = client
    PROVE  TimeInv'
<1>1. PICK q : /\ loop' = [loop EXCEPT ![k] = q] /\ DOMAIN q = {"at", "left", "time", "pending"}
               /\ q.at = "top" /\ q.left = loop[k].left /\ q.time = loop[k].time
               /\ q.pending = loop[k].pending
  BY MovedLoop DEF Connected
<1>2. loop[k].at = "connecting" /\ loop[k].left = 0 /\ \A u \in Ids : task[k][u] = Done
  BY LoopTaken DEF Connected, At
<1>3. IsLoop(q) /\ q.time <= blockTime /\ q.pending = {}
  BY <1>1, <1>2, LoopTaken DEF IsLoop, InRound
<1>4. /\ UNCHANGED <<lockVars, task, upSince, client>> /\ isRunning'
      /\ UNCHANGED faults \/ faults' = faults + 1
  BY DEF Connected, CallFails
<1>5. ~Keeps(loop[k], task[k])
  BY <1>2 DEF Keeps, InRound
<1>6. LocksTyped' /\ LocksGoOn /\ Rests /\ UNCHANGED blockTime
  BY <1>4, LoopTaken, NothingLocked DEF lockVars
<1>7. OneMoves(k, q, task[k])
  BY <1>1, <1>4 DEF OneMoves, TimeInv, LoopsTyped
<1>8. LoopIs(q, task[k])'
  <2>1. PICK us : us = task[k]
    OBVIOUS
  <2>2. DOMAIN us = Ids /\ \A u \in Ids : us[u] = Done
    BY <1>2, <2>1, LoopTaken DEF LoopIs
  <2>3. ASSUME NEW u \in Ids PROVE LookIs(q, us[u], u)'
    <3>1. LookIs(q, Done, u)'
      BY <1>1, <1>3 DEF LookIs, IsTask, Done
    <3>2. QED BY <2>2, <3>1
  <2>4. LoopIs(q, us)'
    BY <1>1, <1>3, <1>6, <2>2, <2>3 DEF LoopIs
  <2>5. task'[k] = us
    BY <1>4, <2>1
  <2>6. QED BY <2>4, <2>5 DEF LoopIs
<1>9. PICK us : us = task[k]
  OBVIOUS
<1>10. LoopIs(q, us)' /\ OneMoves(k, q, us)
  <2>1. task'[k] = us
    BY <1>4, <1>9
  <2>2. QED BY <1>7, <1>8, <1>9, <2>1 DEF LoopIs
<1>11. QED BY <1>4, <1>5, <1>6, <1>10, OneLoop

\* The service is up from this moment, and the loop that starts keeps all times.
LEMMA UpStep ==
    ASSUME TimeInv, NEW k \in Loops, Connected(k), ~(isRunning /\ client' = client)
    PROVE  TimeInv'
<1>1. PICK q : /\ loop' = [loop EXCEPT ![k] = q] /\ DOMAIN q = {"at", "left", "time", "pending"}
               /\ q.at = "top" /\ q.left = loop[k].left /\ q.time = loop[k].time
               /\ q.pending = loop[k].pending
  BY MovedLoop DEF Connected
<1>2. loop[k].at = "connecting" /\ loop[k].left = 0 /\ \A u \in Ids : task[k][u] = Done
  BY LoopTaken DEF Connected, At
<1>3. IsLoop(q)
  BY <1>1, <1>2, LoopTaken DEF IsLoop, InRound
<1>4. isRunning' /\ UNCHANGED <<lockVars, task>> /\ (UNCHANGED faults \/ faults' = faults + 1)
  BY DEF Connected, CallFails
<1>5. upSince' = blockTime' /\ UNCHANGED <<locked, claimed, returned, blockTime, slow, created>>
  BY <1>4 DEF Connected, lockVars
<1>6. LocksTyped'
  <2>1. Settled' = Settled
    BY <1>5 DEF Settled
  <2>2. blockTime \in Nat /\ faults \in Nat
    BY LoopTaken DEF LocksTyped
  <2>3. faults' \in Nat /\ upSince' \in 0 .. blockTime'
    BY <1>4, <1>5, <2>2
  <2>4. QED BY <1>5, <2>1, <2>3, LoopTaken DEF LocksTyped
<1>7. LocksGoOn
  BY <1>5 DEF LocksGoOn, Used, IsExpired, IsOpen, Settled
<1>8. /\ DOMAIN loop' = Loops /\ loop'[k] = q /\ \A j \in Loops \ {k} : loop'[j] = loop[j]
  BY <1>1 DEF TimeInv, LoopsTyped
<1>9. ASSUME NEW j \in Loops \ {k} PROVE LoopIs(loop[j], task[j])'
  <2>1. PICK p, ts : p = loop[j] /\ ts = task[j]
    OBVIOUS
  <2>2. LoopIs(p, ts)
    BY <2>1, LoopTaken
  <2>3. LoopIs(p, ts)'
    BY <1>5, <1>7, <2>2, LooksGoOn
  <2>4. loop'[j] = p /\ task'[j] = ts
    BY <1>4, <1>8, <2>1
  <2>5. QED BY <2>3, <2>4 DEF LoopIs
<1>10. PICK us : us = task[k]
  OBVIOUS
<1>11. DOMAIN us = Ids /\ \A u \in Ids : us[u] = Done
  BY <1>2, <1>10, LoopTaken DEF LoopIs
<1>12. q.pending = {}
  BY <1>1, <1>2, LoopTaken DEF IsLoop
<1>13. LoopIs(q, us)'
  <2>1. ASSUME NEW u \in Ids PROVE LookIs(q, us[u], u)'
    <3>1. LookIs(q, Done, u)'
      BY <1>1, <1>12 DEF LookIs, IsTask, Done
    <3>2. QED BY <1>11, <3>1
  <2>2. q.time <= blockTime'
    BY <1>1, <1>5, LoopTaken
  <2>3. QED BY <1>1, <1>3, <1>11, <2>1, <2>2 DEF LoopIs
<1>14. Keeps(q, us)'
  BY <1>1, <1>3, <1>5, <1>6, <1>11, FreshKeeps
<1>15. loop'[k] = q /\ task'[k] = us
  BY <1>4, <1>8, <1>10
<1>16. LoopIs(loop[k], task[k])'
  BY <1>13, <1>15 DEF LoopIs
<1>17. Keeps(loop[k], task[k])'
  BY <1>14, <1>15 DEF Keeps, OnTime
<1>18. LoopsTyped'
  <2>1. DOMAIN task' = Loops
    BY <1>4 DEF TimeInv, LoopsTyped
  <2>2. QED BY <1>8, <1>9, <1>16, <2>1 DEF LoopsTyped
<1>19. QED BY <1>6, <1>17, <1>18 DEF TimeInv

LEMMA ConnectedStep == ASSUME TimeInv, NEW k \in Loops, Connected(k) PROVE TimeInv'
BY JoinsStep, UpStep

\* A service that is stopped owes nothing.
LEMMA StopStep == ASSUME TimeInv, Stop PROVE TimeInv'
<1>1. ~isRunning' /\ UNCHANGED <<lockVars, client, loop, task, upSince, faults>>
  BY DEF Stop
<1>2. LocksTyped' /\ LocksGoOn
  BY <1>1, NothingLocked DEF TimeInv
<1>3. ASSUME NEW j \in Loops PROVE LoopIs(loop[j], task[j])'
  <2>1. PICK p, ts : p = loop[j] /\ ts = task[j]
    OBVIOUS
  <2>2. LoopIs(p, ts)
    BY <2>1, LoopTaken
  <2>3. LoopIs(p, ts)'
    BY <1>1, <1>2, <2>2, LooksGoOn
  <2>4. loop'[j] = p /\ task'[j] = ts
    BY <1>1, <2>1
  <2>5. QED BY <2>3, <2>4 DEF LoopIs
<1>4. LoopsTyped'
  BY <1>1, <1>3 DEF LoopsTyped, TimeInv
<1>5. QED BY <1>1, <1>2, <1>4 DEF TimeInv

\* What is owed and expired is among the events of the window.
LEMMA CheckStep == ASSUME TimeInv, NEW k \in Loops, CheckEthereum(k) PROVE TimeInv'
<1>1. PICK P : P = {u \in EthereumIds : /\ \E l \in locked \cup claimed \cup returned : l.id = u
                                        /\ created[u] >= blockTime - Window}
  OBVIOUS
<1>2. PICK q : q = [NoLoop EXCEPT !.at = "ethereum", !.time = blockTime, !.pending = P]
  OBVIOUS
<1>3. /\ DOMAIN q = {"at", "left", "time", "pending"} /\ q.at = "ethereum"
      /\ q.left = 0 /\ q.time = blockTime /\ q.pending = P
  BY <1>2 DEF NoLoop
<1>4. loop' = [loop EXCEPT ![k] = q] /\ loop[k].at = "top" /\ loop[k].left = 0 /\ ~Busy(k)
  BY <1>1, <1>2 DEF CheckEthereum, At
<1>5. UNCHANGED <<lockVars, task, isRunning, upSince, client, faults>>
  BY DEF CheckEthereum
<1>6. \A u \in Ids : task[k][u] = Done
  BY <1>4, LoopTaken
<1>7. P \in SUBSET Ids /\ \A u \in P : Used(u) /\ u \in EthereumIds
  BY <1>1 DEF Ids, Used, Settled
<1>8. IsLoop(q)
  <2>1. blockTime \in Nat /\ 0 \in 0 .. CheckInterval
    BY LoopTaken DEF LocksTyped
  <2>2. QED BY <1>3, <1>7, <2>1 DEF IsLoop, InRound
<1>9. ASSUME Keeps(loop[k], task[k]) PROVE Keeps(q, task[k])'
  <2>1. PICK p, ts : p = loop[k] /\ ts = task[k]
    OBVIOUS
  <2>2. Keeps(p, ts) /\ IsLoop(p) /\ p.at = "top" /\ p.left = 0 /\ \A u \in Ids : ts[u] = Done
    BY <1>4, <1>6, <1>9, <2>1, LoopTaken
  <2>3. ASSUME NEW l \in locked, Owed(l)
        PROVE  blockTime <= Due(l) \/ Coming(q, ts, l)
    <3>1. l.deadline \in Nat /\ l.id \in Ids /\ blockTime \in Nat /\ created[l.id] \in Nat
      BY LoopTaken DEF LocksTyped
    <3>2. Due(l) \in Nat /\ Due(l) >= l.deadline
      BY <3>1, LoopTaken, DueTyped
    <3>3. CASE l.id \notin EthereumIds
      BY <1>3, <3>3 DEF Coming
    <3>4. CASE l.id \in EthereumIds /\ l.deadline > blockTime
      BY <3>1, <3>2, <3>4
    <3>5. CASE l.id \in EthereumIds /\ l.deadline <= blockTime
      <4>1. PICK n, b, y, w, c, d, a : /\ n = blockTime /\ b = created[l.id] /\ y = Window /\ w = Due(l)
                                       /\ c = CheckInterval /\ d = Debt /\ a = Ahead(ts[l.id], l.id)
        OBVIOUS
      <4>2. b + y >= w + c + d
        BY <2>3, <3>5, <4>1 DEF Owed
      <4>3. OnTime(p, ts, l, l.id)
        BY <2>2, <2>3, <3>1 DEF Keeps
      <4>4. n + 0 + a <= w + c + d
        BY <2>2, <4>1, <4>3 DEF OnTime
      <4>5. IsTask(ts[l.id])
        BY <2>1, <3>1, LoopTaken
      <4>6. n \in Nat /\ b \in Nat /\ y \in Nat /\ w \in Nat /\ c \in Nat /\ d \in Nat /\ a \in Nat
        BY <3>1, <3>2, <4>1, <4>5, AheadTyped, DebtTyped, LoopTaken, RecoveryAssumption
      <4>7. b >= n - y
        BY <4>2, <4>4, <4>6
      <4>8. l.id \in P
        BY <1>1, <3>5, <4>1, <4>7
      <4>9. QED BY <1>3, <3>5, <4>8 DEF Coming
    <3>6. QED BY <3>1, <3>3, <3>4, <3>5
  <2>4. \A l \in locked : Owed(l) =>
               \/ blockTime <= Due(l)
               \/ Coming(p, ts, l) => Coming(q, ts, l)
               \/ CheckInterval <= 0
    BY <2>3
  <2>5. q.at \in InRound /\ q.left = p.left /\ (UNCHANGED faults /\ 0 = 0) /\ 0 \in Nat
    BY <1>3, <1>5, <2>2 DEF InRound
  <2>6. Keeps(q, ts)'
    BY <1>5, <1>8, <2>2, <2>4, <2>5, LoopTaken, IdleCharged
  <2>7. ts = task'[k]
    BY <1>5, <2>1
  <2>8. QED BY <2>6, <2>7 DEF Keeps, OnTime
<1>10. q.time <= blockTime
  BY <1>3, LoopTaken
<1>11. QED BY <1>3, <1>4, <1>5, <1>6, <1>7, <1>8, <1>9, <1>10, IdleMoves

\* The check fails, or has come to its end: the listing is next.
LEMMA ListingStep ==
    ASSUME TimeInv, NEW k \in Loops, CheckEthereumFails(k) \/ EthereumDone(k)
    PROVE  TimeInv'
<1>1. PICK q : /\ loop' = [loop EXCEPT ![k] = q] /\ DOMAIN q = {"at", "left", "time", "pending"}
               /\ q.at = "listing" /\ q.left = loop[k].left /\ q.time = loop[k].time
               /\ q.pending = loop[k].pending
  BY MovedLoop DEF CheckEthereumFails, EthereumDone
<1>2. /\ loop[k].left = 0 /\ ~Busy(k) /\ UNCHANGED <<lockVars, task, isRunning, upSince, client>>
      /\ \/ loop[k].at = "top" /\ faults' = faults + 1
         \/ loop[k].at = "ethereum" /\ loop[k].pending = {} /\ UNCHANGED faults
  BY DEF CheckEthereumFails, EthereumDone, At, CallFails
<1>3. \A u \in Ids : task[k][u] = Done
  BY <1>2, LoopTaken
<1>4. q.pending = {} /\ IsLoop(loop[k])
  BY <1>1, <1>2, LoopTaken DEF IsLoop
<1>5. IsLoop(q)
  BY <1>1, <1>2, <1>4 DEF IsLoop, InRound
<1>6. ASSUME Keeps(loop[k], task[k]) PROVE Keeps(q, task[k])'
  <2>1. PICK p, ts : p = loop[k] /\ ts = task[k]
    OBVIOUS
  <2>2. Keeps(p, ts) /\ IsLoop(p) /\ p.left = 0 /\ \A u \in Ids : ts[u] = Done
    BY <1>2, <1>3, <1>6, <2>1, LoopTaken
  <2>3. q.at \in InRound /\ q.left = p.left
    BY <1>1, <2>1 DEF InRound
  <2>0. LocksTyped /\ UNCHANGED <<lockVars, upSince, client>>
    BY <1>2, LoopTaken
  <2>4. ASSUME p.at = "top", faults' = faults + 1 PROVE Keeps(q, ts)'
    <3>1. CheckInterval \in Nat /\ faults' = faults + 1 /\ CheckInterval = CheckInterval
          /\ \A l \in locked : Owed(l) =>
               \/ blockTime <= Due(l)
               \/ Coming(p, ts, l) => Coming(q, ts, l)
               \/ CheckInterval <= CheckInterval
      BY <2>4, RecoveryAssumption
    <3>2. QED BY <1>5, <2>0, <2>2, <2>3, <3>1, IdleCharged
  <2>5. ASSUME p.at = "ethereum", p.pending = {}, UNCHANGED faults PROVE Keeps(q, ts)'
    <3>1. ASSUME NEW l \in locked, Coming(p, ts, l) PROVE Coming(q, ts, l)
      <4>1. l.id \in Ids
        BY LoopTaken DEF LocksTyped
      <4>2. QED BY <1>1, <2>2, <2>5, <3>1, <4>1 DEF Coming
    <3>2. 0 \in Nat /\ (UNCHANGED faults /\ 0 = 0)
          /\ \A l \in locked : Owed(l) =>
               \/ blockTime <= Due(l)
               \/ Coming(p, ts, l) => Coming(q, ts, l)
               \/ CheckInterval <= 0
      BY <2>5, <3>1
    <3>3. QED BY <1>5, <2>0, <2>2, <2>3, <3>2, IdleCharged
  <2>6. Keeps(q, ts)'
    BY <1>2, <2>1, <2>4, <2>5
  <2>7. ts = task'[k]
    BY <1>2, <2>1
  <2>8. QED BY <2>6, <2>7 DEF Keeps, OnTime
<1>7. UNCHANGED faults \/ faults' = faults + 1
  BY <1>2
<1>8. q.at # "connecting" /\ q.time <= blockTime
  BY <1>1, LoopTaken
<1>9. QED BY <1>1, <1>2, <1>3, <1>4, <1>5, <1>6, <1>7, <1>8, IdleMoves

\* The round ends, with or without the Cosmos chain.
LEMMA SleepStep ==
    ASSUME TimeInv, NEW k \in Loops, Sleep(k), UNCHANGED <<lockVars, task, isRunning, upSince, client>>,
           loop[k].left = 0, ~Busy(k), loop[k].at \in InRound,
           \/ UNCHANGED faults /\ \A l \in locked : Owed(l) => ~Coming(loop[k], task[k], l)
           \/ faults' = faults + 1
    PROVE  TimeInv'
<1>1. PICK q : q = [NoLoop EXCEPT !.at = "top", !.left = CheckInterval]
  OBVIOUS
<1>2. /\ DOMAIN q = {"at", "left", "time", "pending"} /\ q.at = "top"
      /\ q.left = CheckInterval /\ q.time = 0 /\ q.pending = {}
  BY <1>1 DEF NoLoop
<1>3. loop' = [loop EXCEPT ![k] = q]
  BY <1>1 DEF Sleep
<1>4. \A u \in Ids : task[k][u] = Done
  BY LoopTaken
<1>5. IsLoop(q)
  BY <1>2, RecoveryAssumption DEF IsLoop, InRound
<1>6. ASSUME Keeps(loop[k], task[k]) PROVE Keeps(q, task[k])'
  <2>1. PICK p, ts : p = loop[k] /\ ts = task[k]
    OBVIOUS
  <2>2. LocksTyped /\ Keeps(p, ts) /\ IsLoop(p) /\ p.left = 0 /\ \A u \in Ids : ts[u] = Done
    BY <1>4, <1>6, <2>1, LoopTaken
  <2>3. UNCHANGED <<lockVars, upSince, client>>
    OBVIOUS
  <2>4. ASSUME UNCHANGED faults, \A l \in locked : Owed(l) => ~Coming(p, ts, l)
        PROVE  Keeps(q, ts)'
    <3>1. 0 \in Nat /\ (UNCHANGED faults /\ 0 = 0)
          /\ \A l \in locked : Owed(l) => ~Coming(p, ts, l) \/ 0 = CheckInterval
      BY <2>4
    <3>2. QED BY <1>2, <2>2, <2>3, <3>1, SleepKeeps
  <2>5. ASSUME faults' = faults + 1 PROVE Keeps(q, ts)'
    <3>1. CheckInterval \in Nat /\ (faults' = faults + 1 /\ CheckInterval = CheckInterval)
          /\ \A l \in locked : Owed(l) => ~Coming(p, ts, l) \/ CheckInterval = CheckInterval
      BY <2>5, RecoveryAssumption
    <3>2. QED BY <1>2, <2>2, <2>3, <3>1, SleepKeeps
  <2>6. Keeps(q, ts)'
    BY <2>1, <2>4, <2>5
  <2>7. ts = task'[k]
    BY <2>1
  <2>8. QED BY <2>6, <2>7 DEF Keeps, OnTime
<1>7. UNCHANGED faults \/ faults' = faults + 1
  OBVIOUS
<1>8. q.at # "connecting" /\ q.time <= blockTime
  BY <1>2, LoopTaken
<1>9. QED BY <1>2, <1>3, <1>4, <1>5, <1>6, <1>7, <1>8, IdleMoves

\* The round is over: nothing of it is to come.
LEMMA RoundEndsStep == ASSUME TimeInv, NEW k \in Loops, RoundEnds(k) PROVE TimeInv'
<1>1. loop[k].at = "cosmos" /\ loop[k].left = 0 /\ ~Busy(k) /\ loop[k].pending = {} /\ Sleep(k)
      /\ UNCHANGED <<lockVars, task, isRunning, upSince, client>> /\ UNCHANGED faults
  BY DEF RoundEnds, At
<1>2. \A u \in Ids : task[k][u] = Done
  BY <1>1, LoopTaken
<1>3. \A l \in locked : ~Coming(loop[k], task[k], l)
  <2>1. \A l \in locked : l.id \in Ids
    BY LoopTaken DEF LocksTyped
  <2>2. QED BY <1>1, <1>2, <2>1 DEF Coming
<1>4. loop[k].at \in InRound
  BY <1>1 DEF InRound
<1>5. QED BY <1>1, <1>3, <1>4, SleepStep

\* A listing that is left out, or finds what is open, expired and ours.
LEMMA ListCosmosStep == ASSUME TimeInv, NEW k \in Loops, ListCosmos(k) PROVE TimeInv'
<1>1. loop[k].at = "listing" /\ loop[k].left = 0 /\ ~Busy(k) /\ loop[k].at \in InRound
      /\ UNCHANGED <<lockVars, task, isRunning, upSince, client>>
  BY DEF ListCosmos, At, InRound
<1>2. \A u \in Ids : task[k][u] = Done
  BY <1>1, LoopTaken
<1>3. CASE client /\ CallFails /\ Sleep(k)
  <2>1. faults' = faults + 1
    BY <1>3 DEF CallFails
  <2>2. QED BY <1>1, <1>3, <2>1, SleepStep
<1>4. CASE ~client /\ Sleep(k) /\ UNCHANGED faults
  <2>1. ASSUME NEW l \in locked, Owed(l) PROVE ~Coming(loop[k], task[k], l)
    <3>1. l.id \in EthereumIds
      BY <1>4, <2>1, LoopTaken DEF Owed, Ids, LocksTyped
    <3>2. QED BY <1>1, <3>1 DEF Coming
  <2>2. QED BY <1>1, <1>4, <2>1, SleepStep
<1>5. PICK P : P = {u \in CosmosIds \cap Ours : IsOpen(u) /\ IsExpired(u, blockTime)}
  OBVIOUS
<1>6. ASSUME loop' = [loop EXCEPT ![k].at = "cosmos", ![k].pending = P], UNCHANGED faults
      PROVE  TimeInv'
  <2>1. PICK q : q = [loop[k] EXCEPT !.at = "cosmos", !.pending = P]
    OBVIOUS
  <2>2. loop' = [loop EXCEPT ![k] = q]
    BY <1>6, <2>1 DEF TimeInv, LoopsTyped
  <2>3. IsLoop(loop[k])
    BY LoopTaken
  <2>4. /\ DOMAIN q = {"at", "left", "time", "pending"} /\ q.at = "cosmos"
        /\ q.left = loop[k].left /\ q.time = loop[k].time /\ q.pending = P
    BY <2>1, <2>3 DEF IsLoop
  <2>5. P \in SUBSET Ids /\ \A u \in P : Used(u) /\ IsExpired(u, blockTime)
    BY <1>5 DEF Ids, Used, IsOpen
  <2>6. IsLoop(q)
    BY <1>1, <2>3, <2>4, <2>5 DEF IsLoop, InRound
  <2>7. ASSUME Keeps(loop[k], task[k]) PROVE Keeps(q, task[k])'
    <3>1. PICK p, ts : p = loop[k] /\ ts = task[k]
      OBVIOUS
    <3>2. Keeps(p, ts) /\ IsLoop(p) /\ p.left = 0 /\ p.at = "listing" /\ \A u \in Ids : ts[u] = Done
      BY <1>1, <1>2, <2>3, <2>7, <3>1
    <3>3. q.at \in InRound /\ q.left = p.left
      BY <2>4, <3>1 DEF InRound
    <3>4. LocksTyped /\ UNCHANGED <<lockVars, upSince, client>>
      BY <1>1, LoopTaken
    <3>5. ASSUME NEW l \in locked, Owed(l), Coming(p, ts, l)
          PROVE  blockTime <= Due(l) \/ Coming(q, ts, l)
      <4>1. l.deadline \in Nat /\ l.id \in Ids /\ blockTime \in Nat /\ Due(l) \in Nat /\ Due(l) >= l.deadline
        BY <3>4, DueTyped DEF LocksTyped
      <4>2. l.id \notin EthereumIds /\ l.id \in CosmosIds /\ l.id \in Ours
        BY <3>2, <3>5, <4>1 DEF Coming, Owed, Ids
      <4>3. CASE l.deadline <= blockTime
        <5>1. IsOpen(l.id)
          BY <3>5 DEF IsOpen
        <5>2. IsExpired(l.id, blockTime)
          BY <3>4, <3>5, <4>3 DEF IsExpired, LocksTyped
        <5>3. l.id \in P
          BY <1>5, <4>2, <5>1, <5>2
        <5>4. QED BY <2>4, <4>2, <5>3 DEF Coming
      <4>4. CASE ~(l.deadline <= blockTime)
        BY <4>1, <4>4
      <4>5. QED BY <4>3, <4>4
    <3>6. 0 \in Nat /\ (UNCHANGED faults /\ 0 = 0)
          /\ \A l \in locked : Owed(l) =>
               \/ blockTime <= Due(l)
               \/ Coming(p, ts, l) => Coming(q, ts, l)
               \/ CheckInterval <= 0
      BY <1>6, <3>5
    <3>7. Keeps(q, ts)'
      BY <2>6, <3>2, <3>3, <3>4, <3>6, IdleCharged
    <3>8. ts = task'[k]
      BY <1>1, <3>1
    <3>9. QED BY <3>7, <3>8 DEF Keeps, OnTime
  <2>8. q.at # "connecting" /\ q.at # "ethereum" /\ q.time <= blockTime
    BY <2>4, LoopTaken
  <2>9. QED BY <1>1, <1>2, <1>6, <2>2, <2>4, <2>5, <2>6, <2>7, <2>8, IdleMoves
<1>7. QED BY <1>3, <1>4, <1>5, <1>6 DEF ListCosmos

\* Looks begin: nothing lies ahead of them yet.
LEMMA FirstLook ==
    ASSUME NEW first \in {"read", "verify"}, NEW t, t = [at |-> first, attempt |-> 1, left |-> 0]
    PROVE  IsTask(t) /\ t # Done /\ t.at = first /\ WhileOpen(t) = 0 /\ OnceGone(t) = 0
<1>1. DOMAIN t = {"at", "attempt", "left"} /\ t.at = first /\ t.attempt = 1 /\ t.left = 0
  OBVIOUS
<1>2. 1 \in 1 .. MaxRetries
  BY RecoveryAssumption
<1>3. Reserve(1) = 0
  BY <1>2, WaitFits
<1>4. QED BY <1>1, <1>2, <1>3 DEF IsTask, Looking, WhileOpen, OnceGone, Done

\* What the batch takes off the list is looked at.
LEMMA NextBatchStep == ASSUME TimeInv, NEW k \in Loops, NextBatch(k) PROVE TimeInv'
<1>1. PICK first : first = IF loop[k].at = "ethereum" THEN "read" ELSE "verify"
  OBVIOUS
<1>2. PICK batch \in SUBSET loop[k].pending :
          /\ loop' = [loop EXCEPT ![k].pending = @ \ batch]
          /\ task' = [task EXCEPT ![k] = Looks(batch, first)]
  BY <1>1, Zenon DEF NextBatch
<1>3. /\ loop[k].at \in {"ethereum", "cosmos"} /\ ~Busy(k)
      /\ UNCHANGED <<lockVars, isRunning, client, upSince, faults>>
  BY DEF NextBatch
<1>4. PICK p, ts, us, t : /\ p = loop[k] /\ ts = task[k] /\ us = Looks(batch, first)
                          /\ t = [at |-> first, attempt |-> 1, left |-> 0]
  OBVIOUS
<1>5. first \in {"read", "verify"} /\ (first = "verify" => p.at = "cosmos")
      /\ (first = "read" => p.at = "ethereum")
  BY <1>1, <1>3, <1>4
<1>6. IsTask(t) /\ t # Done /\ t.at = first /\ WhileOpen(t) = 0 /\ OnceGone(t) = 0
  BY <1>4, <1>5, FirstLook
<1>7. LoopIs(p, ts) /\ IsLoop(p) /\ LocksTyped /\ \A u \in Ids : ts[u] = Done
  BY <1>3, <1>4, LoopTaken
<1>8. PICK q : q = [p EXCEPT !.pending = @ \ batch]
  OBVIOUS
<1>9. /\ DOMAIN q = {"at", "left", "time", "pending"} /\ q.at = p.at
      /\ q.left = p.left /\ q.time = p.time /\ q.pending = p.pending \ batch
  BY <1>7, <1>8 DEF IsLoop
<1>10. IsLoop(q)
  BY <1>3, <1>4, <1>7, <1>9 DEF IsLoop
<1>11. DOMAIN us = Ids /\ \A u \in Ids : us[u] = IF u \in batch THEN t ELSE Done
  BY <1>4 DEF Looks
<1>12. OneMoves(k, q, us)
  <2>1. loop' = [loop EXCEPT ![k] = q]
    BY <1>2, <1>4, <1>8 DEF TimeInv, LoopsTyped
  <2>2. QED BY <1>2, <1>4, <2>1 DEF OneMoves, TimeInv, LoopsTyped
<1>13. LocksTyped' /\ LocksGoOn /\ Rests /\ Debt' = Debt /\ UNCHANGED <<locked, blockTime, created>>
  BY <1>3, <1>7, NothingLocked DEF lockVars
<1>14. LoopIs(q, us)'
  <2>1. ASSUME NEW u \in Ids PROVE LookIs(q, us[u], u)'
    <3>1. LookIs(p, Done, u)
      BY <1>7 DEF LoopIs
    <3>2. u \in p.pending => /\ Used(u)'
                             /\ p.at = "cosmos" => IsExpired(u, blockTime)'
                             /\ p.at = "ethereum" => u \in EthereumIds
      BY <1>13, <3>1 DEF LookIs, LocksGoOn
    <3>3. CASE u \in batch
      <4>1. us[u] = t /\ u \in p.pending
        BY <1>2, <1>4, <1>11, <3>3
      <4>2. LookIs(q, t, u)'
        BY <1>5, <1>6, <1>9, <3>2, <4>1 DEF LookIs
      <4>3. QED BY <4>1, <4>2
    <3>4. CASE u \notin batch
      <4>1. us[u] = Done
        BY <1>11, <3>4
      <4>2. LookIs(q, Done, u)'
        BY <1>9, <3>2 DEF LookIs, IsTask, Done
      <4>3. QED BY <4>1, <4>2
    <3>5. QED BY <3>3, <3>4
  <2>2. q.time <= blockTime'
    BY <1>4, <1>9, <1>13, LoopTaken
  <2>3. QED BY <1>3, <1>4, <1>9, <1>10, <1>11, <2>1, <2>2 DEF LoopIs
<1>15. ASSUME Keeps(p, ts) PROVE Keeps(q, us)'
  <2>1. IsTask(Done) /\ WhileOpen(Done) = 0 /\ OnceGone(Done) = 0
    BY DEF IsTask, Done, WhileOpen, OnceGone
  <2>2. ASSUME NEW u \in Ids
        PROVE  IsTask(ts[u]) /\ IsTask(us[u]) /\ Ahead(us[u], u)' <= Ahead(ts[u], u) + 0
    <3>1. PICK v : v = us[u]
      OBVIOUS
    <3>2. IsTask(v) /\ WhileOpen(v) = 0 /\ OnceGone(v) = 0
      BY <1>6, <1>11, <2>1, <3>1
    <3>3. Ahead(v, u)' = 0 /\ Ahead(Done, u) = 0
      BY <2>1, <3>2 DEF Ahead
    <3>4. QED BY <1>7, <2>1, <3>1, <3>2, <3>3
  <2>3. ASSUME NEW l \in locked, Coming(p, ts, l) PROVE Coming(q, us, l)
    <3>1. l.id \in Ids
      BY <1>7 DEF LocksTyped
    <3>2. l.id \in p.pending => l.id \in q.pending \/ us[l.id] # Done
      BY <1>6, <1>9, <1>11, <3>1
    <3>3. QED BY <1>7, <1>9, <2>3, <3>1, <3>2 DEF Coming
  <2>4. ASSUME NEW l \in locked', Owed(l)' PROVE l \in locked /\ Owed(l)
    <3>1. l \in locked /\ l.deadline \in Nat /\ l.id \in Ids /\ Debt' = Debt + 0
      BY <1>7, <1>13, <2>4, DebtTyped DEF LocksTyped
    <3>2. QED BY <1>3, <1>7, <1>13, <2>4, <3>1, OwedBefore
  <2>5. \A l \in locked' : Owed(l)' =>
            \/ blockTime <= Due(l)
            \/ /\ l \in locked /\ Owed(l)
               /\ \/ Coming(p, ts, l) => Coming(q, us, l)
                  \/ CheckInterval <= 0 /\ \A u \in Ids : Ahead(us[u], u)' <= Ahead(ts[u], u)
    BY <2>3, <2>4
  <2>6. 0 \in Nat /\ Debt' = Debt + 0 /\ q.at \in InRound /\ UNCHANGED <<blockTime, upSince>>
    BY <1>3, <1>7, <1>9, <1>13, <1>15, DebtTyped DEF Keeps
  <2>7. QED BY <1>7, <1>9, <1>10, <1>13, <1>15, <2>2, <2>5, <2>6, Charged
<1>16. UNCHANGED <<isRunning, upSince, blockTime>>
  BY <1>3, <1>13
<1>17. isRunning /\ Keeps(loop[k], task[k]) => Keeps(q, us)'
  BY <1>4, <1>15
<1>18. QED BY <1>12, <1>13, <1>14, <1>16, <1>17, OneLoop

\* What a step of a look is to its loop.
LookMoves(k, u, t, us) ==
    /\ OneMoves(k, loop[k], us) /\ DOMAIN us = Ids /\ us[u] = t
    /\ \A v \in Ids \ {u} : us[v] = task[k][v]

\* The looks of the loop afterwards.
LEMMA LookSteps ==
    ASSUME TimeInv, NEW k \in Loops, NEW u \in Ids, NEW t, Step(k, u, t), UNCHANGED loop
    PROVE  \E us : LookMoves(k, u, t, us)
<1>1. PICK us : us = [task[k] EXCEPT ![u] = t]
  OBVIOUS
<1>2. DOMAIN task[k] = Ids
  BY LoopTaken DEF LoopIs
<1>3. task' = [task EXCEPT ![k] = us]
  BY <1>1 DEF Step, TimeInv, LoopsTyped
<1>4. OneMoves(k, loop[k], us)
  BY <1>3 DEF OneMoves, TimeInv, LoopsTyped
<1>5. LookMoves(k, u, t, us)
  BY <1>1, <1>2, <1>4 DEF LookMoves
<1>6. QED BY <1>5

\* The looks of a loop after a step of one of them.
LEMMA LooksAfter ==
    ASSUME TimeInv, NEW k \in Loops, NEW u \in Ids, NEW t, NEW us, LookMoves(k, u, t, us),
           NEW p, p = loop[k], LocksGoOn, task[k][u] # Done, IsTask(t), t.at # "read",
           t.at \in {"verify", "send", "delay"} => IsExpired(u, blockTime),
           t.at = "confirm" => ~IsOpen(u)',
           UNCHANGED <<isRunning, upSince, blockTime>>
    PROVE  LoopIs(p, us)'
<1>1. PICK ts : ts = task[k]
  OBVIOUS
<1>2. LoopIs(p, ts)
  BY <1>1, LoopTaken
<1>3. LoopIs(p, ts)'
  BY <1>2, LooksGoOn
<1>4. DOMAIN us = Ids /\ us[u] = t /\ \A v \in Ids \ {u} : us[v] = ts[v]
  BY <1>1 DEF LookMoves
<1>5. p.at \in {"ethereum", "cosmos"} /\ Used(u) /\ ts[u] # Done
  BY <1>1, LoopTaken
<1>6. ASSUME NEW v \in Ids PROVE LookIs(p, us[v], v)'
  <2>1. LookIs(p, ts[v], v)'
    BY <1>3 DEF LoopIs
  <2>2. CASE v = u
    <3>1. LookIs(p, t, u)'
      BY <1>5, <2>1, <2>2 DEF LookIs, LocksGoOn
    <3>2. QED BY <1>4, <2>2, <3>1
  <2>3. CASE v # u
    BY <1>4, <2>1, <2>3
  <2>4. QED BY <2>2, <2>3
<1>7. LoopIs(p, us)'
  BY <1>3, <1>4, <1>5, <1>6 DEF LoopIs
<1>8. QED BY <1>7

\* A look goes on: what it takes longer is paid for, and an HTLC that is owed
\* leaves the looks of this round only by an error.
LEMMA LookStep ==
    ASSUME TimeInv, NEW k \in Loops, NEW u \in Ids, NEW t, Step(k, u, t),
           UNCHANGED <<lockVars, isRunning, client, loop, upSince>>,
           task[k][u] # Done, IsTask(t), t.at # "read",
           t.at \in {"verify", "send", "delay"} => IsExpired(u, blockTime),
           t.at = "confirm" => ~IsOpen(u),
           NEW e \in Nat,
           (UNCHANGED faults /\ e = 0) \/ (faults' = faults + 1 /\ e = CheckInterval),
           Ahead(t, u) <= Ahead(task[k][u], u) + e,
           t = Done => \/ e = CheckInterval
                       \/ \A l \in locked : l.id = u /\ Owed(l) => ~Coming(loop[k], task[k], l)
    PROVE  TimeInv'
<1>1. PICK us : LookMoves(k, u, t, us)
  BY LookSteps
<1>2. PICK p, ts : p = loop[k] /\ ts = task[k]
  OBVIOUS
<1>3. LocksTyped /\ LoopIs(p, ts) /\ IsLoop(p) /\ \A v \in Ids : IsTask(ts[v])
  BY <1>2, LoopTaken
<1>4. /\ LocksTyped' /\ LocksGoOn /\ Rests /\ Debt' = Debt + e
      /\ UNCHANGED <<locked, blockTime, created>>
  <2>1. UNCHANGED faults \/ faults' = faults + 1
    OBVIOUS
  <2>2. LocksTyped' /\ LocksGoOn /\ Rests /\ (UNCHANGED faults => Debt' = Debt)
        /\ (faults' = faults + 1 => Debt' = Debt + CheckInterval)
    BY <1>3, <2>1, NothingLocked
  <2>3. Debt' = Debt + e
    BY <1>3, <2>2, DebtTyped
  <2>4. QED BY <2>2, <2>3 DEF lockVars
<1>5. \A v : IsOpen(v)' <=> IsOpen(v)
  BY <1>4 DEF IsOpen
<1>6. LoopIs(p, us)'
  <2>1. t.at = "confirm" => ~IsOpen(u)'
    BY <1>5
  <2>2. UNCHANGED <<isRunning, upSince, blockTime>>
    BY <1>4
  <2>3. QED BY <1>1, <1>2, <1>4, <2>1, <2>2, LooksAfter
<1>7. us[u] = t /\ \A v \in Ids \ {u} : us[v] = ts[v]
  BY <1>1, <1>2 DEF LookMoves
<1>8. ASSUME Keeps(p, ts) PROVE Keeps(p, us)'
  <2>1. ASSUME NEW v \in Ids
        PROVE  /\ IsTask(us[v]) /\ Ahead(us[v], v)' <= Ahead(ts[v], v) + e
               /\ t = Done => Ahead(us[v], v)' <= Ahead(ts[v], v)
    <3>1. CASE v = u
      <4>1. Ahead(t, u)' = Ahead(t, u) /\ (t = Done => Ahead(t, u) = 0)
        BY <1>5, AheadTyped
      <4>2. Ahead(ts[u], u) \in Nat /\ Ahead(t, u) <= Ahead(ts[u], u) + e
        BY <1>2, <1>3, AheadTyped
      <4>3. QED BY <1>7, <3>1, <4>1, <4>2
    <3>2. CASE v # u
      <4>1. us[v] = ts[v] /\ IsTask(ts[v])
        BY <1>3, <1>7, <3>2
      <4>2. Ahead(ts[v], v)' = Ahead(ts[v], v) /\ Ahead(ts[v], v) \in Nat
        BY <1>5, <4>1, AheadTyped
      <4>3. QED BY <4>1, <4>2
    <3>3. QED BY <3>1, <3>2
  <2>2. ASSUME NEW l \in locked, Owed(l)
        PROVE  \/ Coming(p, ts, l) => Coming(p, us, l)
               \/ CheckInterval <= e /\ \A v \in Ids : Ahead(us[v], v)' <= Ahead(ts[v], v)
    <3>1. l.id \in Ids /\ CheckInterval \in Nat
      BY <1>3, RecoveryAssumption DEF LocksTyped
    <3>2. CASE l.id # u
      <4>1. us[l.id] = ts[l.id]
        BY <1>7, <3>1, <3>2
      <4>2. QED BY <4>1 DEF Coming
    <3>3. CASE l.id = u /\ t # Done
      <4>1. us[l.id] # Done /\ ts[l.id] # Done
        BY <1>2, <1>7, <3>3
      <4>2. QED BY <4>1 DEF Coming
    <3>4. CASE l.id = u /\ t = Done /\ e = CheckInterval
      BY <2>1, <3>1, <3>4
    <3>5. CASE l.id = u /\ t = Done /\ e # CheckInterval
      BY <1>2, <2>2, <3>5
    <3>6. QED BY <3>2, <3>3, <3>4, <3>5
  <2>3. ASSUME NEW l \in locked', Owed(l)' PROVE l \in locked /\ Owed(l)
    <3>1. l \in locked /\ l.deadline \in Nat /\ l.id \in Ids
      BY <1>3, <1>4, <2>3 DEF LocksTyped
    <3>2. QED BY <1>3, <1>4, <2>3, <3>1, OwedBefore
  <2>4. \A l \in locked' : Owed(l)' =>
            \/ blockTime <= Due(l)
            \/ /\ l \in locked /\ Owed(l)
               /\ \/ Coming(p, ts, l) => Coming(p, us, l)
                  \/ CheckInterval <= e /\ \A v \in Ids : Ahead(us[v], v)' <= Ahead(ts[v], v)
    BY <2>2, <2>3
  <2>5. p.at \in InRound /\ UNCHANGED <<blockTime, upSince>>
    BY <1>4, <1>8 DEF Keeps
  <2>6. QED BY <1>3, <1>4, <1>8, <2>1, <2>4, <2>5, Charged
<1>9. OneMoves(k, p, us) /\ UNCHANGED <<isRunning, upSince, blockTime>>
  BY <1>1, <1>2, <1>4 DEF LookMoves
<1>10. isRunning /\ Keeps(loop[k], task[k]) => Keeps(p, us)'
  BY <1>2, <1>8
<1>11. QED BY <1>4, <1>6, <1>9, <1>10, OneLoop

\* The look at u that is under way in loop k.
LEMMA LookTaken ==
    ASSUME TimeInv, NEW k \in Loops, NEW u \in Ids, task[k][u] # Done
    PROVE  /\ IsTask(task[k][u]) /\ Ahead(task[k][u], u) \in Nat
           /\ loop[k].at \in {"ethereum", "cosmos"} /\ (loop[k].at = "ethereum" => u \in EthereumIds)
           /\ task[k][u].at = "read" => loop[k].at = "ethereum"
           /\ task[k][u].at \in {"verify", "send", "delay"} => IsExpired(u, blockTime)
           /\ task[k][u].at = "confirm" => ~IsOpen(u)
           /\ ~IsOpen(u) => IsExpired(u, blockTime)
<1>1. LookIs(loop[k], task[k][u], u) /\ IsTask(task[k][u])
      /\ loop[k].at \in {"ethereum", "cosmos"}
  BY LoopTaken
<1>2. Ahead(task[k][u], u) \in Nat
  BY <1>1, AheadTyped
<1>3. ~IsOpen(u) => IsExpired(u, blockTime)
  BY DEF IsOpen, IsExpired
<1>4. QED BY <1>1, <1>2, <1>3 DEF LookIs

\* A call of an attempt fails.
LEMMA FaultStep ==
    ASSUME TimeInv, NEW k \in Loops, NEW u \in Ids, AttemptFails(k, u), CallFails,
           task[k][u].at \in {"verify", "send", "confirm"},
           UNCHANGED <<lockVars, isRunning, client, loop, upSince>>
    PROVE  TimeInv'
<1>1. PICK v, t : v = task[k][u] /\ t = Fails(v)
  OBVIOUS
<1>2. v # Done /\ v.at \in {"verify", "send", "confirm"}
  BY <1>1 DEF Done
<1>3. IsTask(v) /\ IsExpired(u, blockTime)
  BY <1>1, <1>2, LookTaken
<1>4. /\ IsTask(t) /\ (t # Done => t.at = "delay")
      /\ WhileOpen(t) <= WhileOpen(v) + CheckInterval
      /\ OnceGone(t) <= OnceGone(v) + CheckInterval
  BY <1>1, <1>2, <1>3, AheadFails
<1>5. Ahead(t, u) <= Ahead(v, u) + CheckInterval
  BY <1>4 DEF Ahead
<1>6. Step(k, u, t)
  BY <1>1 DEF AttemptFails, Fails
<1>7. t.at \notin {"confirm", "read"}
  BY <1>4 DEF Done
<1>8. CheckInterval \in Nat /\ (faults' = faults + 1 /\ CheckInterval = CheckInterval)
  BY RecoveryAssumption DEF CallFails
<1>9. t.at # "confirm" /\ t.at # "read" /\ task[k][u] # Done /\ Ahead(t, u) <= Ahead(task[k][u], u) + CheckInterval
  BY <1>1, <1>2, <1>5, <1>7
<1>10. QED BY <1>3, <1>4, <1>6, <1>8, <1>9, LookStep

\* A step of a look that costs nothing.
LEMMA FreeStep ==
    ASSUME TimeInv, NEW k \in Loops, NEW u \in Ids, NEW t, Step(k, u, t), UNCHANGED faults,
           UNCHANGED <<lockVars, isRunning, client, loop, upSince>>,
           task[k][u] # Done, IsTask(t), t.at # "read", t.at # "confirm",
           t.at \in {"verify", "send", "delay"} => IsExpired(u, blockTime),
           Ahead(t, u) <= Ahead(task[k][u], u),
           t = Done => \A l \in locked : l.id = u /\ Owed(l) => ~Coming(loop[k], task[k], l)
    PROVE  TimeInv'
<1>1. Ahead(t, u) \in Nat /\ Ahead(task[k][u], u) \in Nat
  BY AheadTyped, LookTaken
<1>2. Ahead(t, u) <= Ahead(task[k][u], u) + 0
  BY <1>1
<1>3. 0 \in Nat /\ (UNCHANGED faults /\ 0 = 0)
  OBVIOUS
<1>4. t.at = "confirm" => ~IsOpen(u)
  OBVIOUS
<1>5. QED BY <1>2, <1>3, <1>4, LookStep

\* Nothing lies ahead of a look that is done.
LEMMA DoneIsTask == IsTask(Done) /\ Done.at = "done" /\ \A u : Ahead(Done, u) = 0
<1>1. IsTask(Done) /\ Done.at = "done"
  BY DEF IsTask, Done
<1>2. QED BY <1>1, AheadTyped

\* What is owed and is read is open, expired and ours: it is verified, unless the call fails.
LEMMA ReadStep == ASSUME TimeInv, NEW k \in Loops, NEW u \in Ids, Read(k, u) PROVE TimeInv'
<1>1. PICK v, p : v = task[k][u] /\ p = loop[k]
  OBVIOUS
<1>2. v.at = "read" /\ v # Done /\ UNCHANGED <<lockVars, isRunning, client, loop, upSince>>
  BY <1>1 DEF Read, Doing, Done
<1>3. IsTask(v) /\ p.at = "ethereum" /\ u \in EthereumIds /\ Ahead(v, u) \in Nat
  BY <1>1, <1>2, LookTaken
<1>4. CASE u \in Ours /\ IsOpen(u) /\ IsExpired(u, loop[k].time) /\ UNCHANGED faults
           /\ Step(k, u, [task[k][u] EXCEPT !.at = "verify"])
  <2>1. PICK t : t = [v EXCEPT !.at = "verify"]
    OBVIOUS
  <2>2. IsTask(t) /\ t.at = "verify" /\ t # Done /\ WhileOpen(t) = 0 /\ OnceGone(t) = 0
    BY <1>2, <1>3, <2>1, ReadGoesOn
  <2>3. Ahead(t, u) <= Ahead(v, u)
    BY <1>3, <2>2 DEF Ahead
  <2>4. IsExpired(u, blockTime)
    <3>1. p.time \in Nat /\ p.time <= blockTime /\ blockTime \in Nat /\ \A l \in locked : l.deadline \in Nat
      BY <1>1, LoopTaken DEF IsLoop, LocksTyped
    <3>2. QED BY <1>1, <1>4, <3>1 DEF IsExpired
  <2>5. Step(k, u, t) /\ t.at # "read" /\ t.at # "confirm" /\ task[k][u] # Done /\ UNCHANGED faults
        /\ Ahead(t, u) <= Ahead(task[k][u], u)
    BY <1>1, <1>2, <1>4, <2>1, <2>2, <2>3
  <2>6. QED BY <1>2, <2>2, <2>4, <2>5, FreeStep
<1>5. CASE ~(u \in Ours /\ IsOpen(u) /\ IsExpired(u, loop[k].time)) /\ UNCHANGED faults
           /\ Step(k, u, Done)
  <2>1. ASSUME NEW l \in locked, l.id = u, Owed(l) PROVE ~Coming(p, task[k], l)
    <3>1. SUFFICES ASSUME l.deadline <= p.time PROVE FALSE
      BY <1>3, <2>1 DEF Coming
    <3>2. u \in Ours /\ IsOpen(u)
      BY <2>1 DEF Owed, IsOpen
    <3>3. \A m \in locked : m.id = u => m = l
      BY <2>1, LoopTaken DEF LocksTyped
    <3>4. IsExpired(u, p.time)
      BY <3>1, <3>3 DEF IsExpired
    <3>5. QED BY <1>1, <1>5, <3>2, <3>4
  <2>2. IsTask(Done) /\ Done.at \notin {"verify", "send", "delay", "read", "confirm"}
        /\ Ahead(Done, u) <= Ahead(task[k][u], u)
    BY <1>1, <1>3, DoneIsTask
  <2>3. Step(k, u, Done) /\ UNCHANGED faults /\ task[k][u] # Done
    BY <1>1, <1>2, <1>5
  <2>4. QED BY <1>1, <1>2, <2>1, <2>2, <2>3, FreeStep
<1>6. CASE CallFails /\ Step(k, u, Done)
  <2>1. CheckInterval \in Nat /\ (faults' = faults + 1 /\ CheckInterval = CheckInterval)
    BY <1>6, RecoveryAssumption DEF CallFails
  <2>2. IsTask(Done) /\ Done.at \notin {"verify", "send", "delay", "read", "confirm"}
        /\ Ahead(Done, u) <= Ahead(task[k][u], u) + CheckInterval
    BY <1>1, <1>3, <2>1, DoneIsTask
  <2>3. Step(k, u, Done) /\ task[k][u] # Done
    BY <1>1, <1>2, <1>6
  <2>4. QED BY <1>2, <2>1, <2>2, <2>3, LookStep
<1>7. QED BY <1>4, <1>5, <1>6 DEF Read

\* Only an HTLC that is gone, or an error, ends the look here.
LEMMA VerifyStep == ASSUME TimeInv, NEW k \in Loops, NEW u \in Ids, Verify(k, u) PROVE TimeInv'
<1>1. PICK v : v = task[k][u]
  OBVIOUS
<1>2. v.at = "verify" /\ v # Done /\ UNCHANGED <<lockVars, isRunning, client, loop, upSince>>
  BY <1>1 DEF Verify, Doing, Done
<1>3. IsTask(v) /\ Ahead(v, u) \in Nat /\ IsExpired(u, blockTime)
  BY <1>1, <1>2, LookTaken
<1>4. CASE IsOpen(u) /\ UNCHANGED faults /\ Step(k, u, [task[k][u] EXCEPT !.at = "send"])
  <2>1. PICK t : t = [v EXCEPT !.at = "send"]
    OBVIOUS
  <2>2. IsTask(t) /\ t.at = "send" /\ t # Done /\ WhileOpen(t) = WhileOpen(v)
    BY <1>2, <1>3, <2>1, VerifyGoesOn
  <2>3. Ahead(t, u) = Ahead(v, u)
    BY <1>4, <2>2 DEF Ahead
  <2>4. Step(k, u, t) /\ t.at # "read" /\ t.at # "confirm" /\ task[k][u] # Done /\ UNCHANGED faults
        /\ Ahead(t, u) <= Ahead(task[k][u], u)
    BY <1>1, <1>2, <1>3, <1>4, <2>1, <2>2, <2>3
  <2>5. QED BY <1>2, <1>3, <2>2, <2>4, FreeStep
<1>5. CASE ~IsOpen(u) /\ UNCHANGED faults /\ Step(k, u, Done)
  <2>1. \A l \in locked : l.id # u
    BY <1>5 DEF IsOpen
  <2>2. IsTask(Done) /\ Done.at \notin {"verify", "send", "delay", "read", "confirm"}
        /\ Ahead(Done, u) <= Ahead(task[k][u], u)
    BY <1>1, <1>3, DoneIsTask
  <2>3. Step(k, u, Done) /\ UNCHANGED faults /\ task[k][u] # Done
    BY <1>1, <1>2, <1>5
  <2>4. QED BY <1>2, <2>1, <2>2, <2>3, FreeStep
<1>6. CASE CallFails /\ AttemptFails(k, u)
  BY <1>1, <1>2, <1>6, FaultStep
<1>7. QED BY <1>4, <1>5, <1>6 DEF Verify

\* The refund has taken place: the look owes nothing.
LEMMA ConfirmStep == ASSUME TimeInv, NEW k \in Loops, NEW u \in Ids, Confirm(k, u) PROVE TimeInv'
<1>1. PICK v : v = task[k][u]
  OBVIOUS
<1>2. v.at = "confirm" /\ v # Done /\ UNCHANGED <<lockVars, isRunning, client, loop, upSince>>
  BY <1>1 DEF Confirm, Doing, Done
<1>3. IsTask(v) /\ Ahead(v, u) \in Nat /\ ~IsOpen(u)
  BY <1>1, <1>2, LookTaken
<1>4. CASE UNCHANGED faults /\ Step(k, u, Done)
  <2>1. \A l \in locked : l.id # u
    BY <1>3 DEF IsOpen
  <2>2. IsTask(Done) /\ Done.at \notin {"verify", "send", "delay", "read", "confirm"}
        /\ Ahead(Done, u) <= Ahead(task[k][u], u)
    BY <1>1, <1>3, DoneIsTask
  <2>3. Step(k, u, Done) /\ UNCHANGED faults /\ task[k][u] # Done
    BY <1>1, <1>2, <1>4
  <2>4. QED BY <1>2, <2>1, <2>2, <2>3, FreeStep
<1>5. CASE CallFails /\ AttemptFails(k, u)
  BY <1>1, <1>2, <1>5, FaultStep
<1>6. QED BY <1>4, <1>5 DEF Confirm

\* The next attempt begins with what was in reserve for it.
LEMMA RetryStep == ASSUME TimeInv, NEW k \in Loops, NEW u \in Ids, Retry(k, u) PROVE TimeInv'
<1>1. PICK v, t : v = task[k][u] /\ t = [at |-> "verify", attempt |-> v.attempt + 1, left |-> 0]
  OBVIOUS
<1>2. v.at = "delay" /\ v.left = 0 /\ v # Done
      /\ UNCHANGED faults /\ UNCHANGED <<lockVars, isRunning, client, loop, upSince>>
  BY <1>1 DEF Retry, Doing, Done
<1>3. IsTask(v) /\ Ahead(v, u) \in Nat /\ IsExpired(u, blockTime)
  BY <1>1, <1>2, LookTaken
<1>4. /\ IsTask(t) /\ t.at = "verify" /\ t # Done
      /\ WhileOpen(t) = WhileOpen(v) /\ OnceGone(t) = OnceGone(v)
  BY <1>1, <1>2, <1>3, DelayGoesOn
<1>5. Ahead(t, u) <= Ahead(task[k][u], u)
  BY <1>1, <1>3, <1>4 DEF Ahead
<1>6. Step(k, u, t) /\ task[k][u] # Done /\ t.at # "read" /\ t.at # "confirm"
  BY <1>1, <1>2, <1>4 DEF Retry
<1>7. QED BY <1>2, <1>3, <1>4, <1>5, <1>6, FreeStep

\* A refund takes place: the HTLC is off the list, and other loops that look at
\* it have lost a race.
LEMMA RefundStep ==
    ASSUME TimeInv, NEW k \in Loops, NEW u \in Ids, NEW t,
           t = [task[k][u] EXCEPT !.at = "confirm"], task[k][u].at = "send", Step(k, u, t),
           NEW m \in locked, m.id = u, Contracts!TakeBack(m),
           UNCHANGED <<created, slow, isRunning, client, loop, upSince, faults>>
    PROVE  TimeInv'
<1>1. PICK us : LookMoves(k, u, t, us)
  BY LookSteps
<1>2. PICK p, ts, v : p = loop[k] /\ ts = task[k] /\ v = task[k][u]
  OBVIOUS
<1>3. LocksTyped /\ LoopIs(p, ts) /\ IsLoop(p) /\ \A w \in Ids : IsTask(ts[w])
  BY <1>2, LoopTaken
<1>4. v # Done /\ IsTask(v) /\ v.at = "send"
  BY <1>2, <1>3 DEF Done
<1>5. IsTask(t) /\ t.at = "confirm" /\ t # Done /\ OnceGone(t) = 0
  BY <1>2, <1>4, SendGoesOn
<1>6. /\ LocksTyped' /\ LocksGoOn /\ Rests /\ Debt' = Debt + RetryDelay /\ UNCHANGED blockTime
      /\ locked' = locked \ {m} /\ \A w : IsOpen(w)' <=> IsOpen(w) /\ w # u
  BY <1>3, OneResolved
<1>7. LoopIs(p, us)'
  <2>1. t.at = "confirm" => ~IsOpen(u)'
    BY <1>6
  <2>2. UNCHANGED <<isRunning, upSince, blockTime>> /\ task[k][u] # Done /\ t.at # "read"
        /\ (t.at \in {"verify", "send", "delay"} => IsExpired(u, blockTime))
    BY <1>2, <1>4, <1>5, <1>6
  <2>3. QED BY <1>1, <1>2, <1>5, <1>6, <2>1, <2>2, LooksAfter
<1>8. us[u] = t /\ \A w \in Ids \ {u} : us[w] = ts[w]
  BY <1>1, <1>2 DEF LookMoves
<1>9. ASSUME Keeps(p, ts) PROVE Keeps(p, us)'
  <2>1. RetryDelay \in Nat
    BY RecoveryAssumption
  <2>2. ASSUME NEW w \in Ids
        PROVE  IsTask(us[w]) /\ Ahead(us[w], w)' <= Ahead(ts[w], w) + RetryDelay
    <3>1. CASE w = u
      <4>1. Ahead(t, u)' = 0
        BY <1>5, <1>6 DEF Ahead
      <4>2. Ahead(ts[u], u) \in Nat
        BY <1>3, AheadTyped
      <4>3. QED BY <1>5, <1>8, <2>1, <3>1, <4>1, <4>2
    <3>2. CASE w # u
      <4>1. us[w] = ts[w] /\ IsTask(ts[w]) /\ (~IsOpen(w) => ~IsOpen(w)')
        BY <1>3, <1>6, <1>8, <3>2
      <4>2. Ahead(ts[w], w)' <= Ahead(ts[w], w) + RetryDelay
        BY <4>1, AheadTyped
      <4>3. QED BY <4>1, <4>2
    <3>3. QED BY <3>1, <3>2
  <2>3. ASSUME NEW l \in locked', Owed(l)'
        PROVE  l \in locked /\ Owed(l) /\ (Coming(p, ts, l) => Coming(p, us, l))
    <3>1. l \in locked /\ l.deadline \in Nat /\ l.id \in Ids /\ l # m
      BY <1>3, <1>6, <2>3 DEF LocksTyped
    <3>2. l.id # u
      BY <1>3, <3>1 DEF LocksTyped
    <3>3. Owed(l)
      BY <1>3, <1>6, <2>1, <2>3, <3>1, OwedBefore
    <3>4. us[l.id] = ts[l.id]
      BY <1>8, <3>1, <3>2
    <3>5. Coming(p, ts, l) => Coming(p, us, l)
      BY <3>4 DEF Coming
    <3>6. QED BY <3>1, <3>3, <3>5
  <2>4. \A l \in locked' : Owed(l)' =>
            \/ blockTime <= Due(l)
            \/ /\ l \in locked /\ Owed(l)
               /\ \/ Coming(p, ts, l) => Coming(p, us, l)
                  \/ CheckInterval <= RetryDelay /\ \A w \in Ids : Ahead(us[w], w)' <= Ahead(ts[w], w)
    BY <2>3
  <2>5. p.at \in InRound /\ UNCHANGED <<blockTime, upSince>>
    BY <1>6, <1>9 DEF Keeps
  <2>6. \A w \in Ids : IsTask(ts[w]) /\ IsTask(us[w])
    BY <1>3, <2>2
  <2>7. QED BY <1>3, <1>6, <1>9, <2>1, <2>2, <2>4, <2>5, <2>6, Charged
<1>10. OneMoves(k, p, us) /\ UNCHANGED <<isRunning, upSince, blockTime>>
  BY <1>1, <1>2, <1>6 DEF LookMoves
<1>11. isRunning /\ Keeps(loop[k], task[k]) => Keeps(p, us)'
  BY <1>2, <1>9
<1>12. QED BY <1>6, <1>7, <1>10, <1>11, OneLoop

\* The contract takes it, or it is gone, or the call fails.
LEMMA SendStep == ASSUME TimeInv, NEW k \in Loops, NEW u \in Ids, Send(k, u) PROVE TimeInv'
<1>1. PICK v : v = task[k][u]
  OBVIOUS
<1>2. v.at = "send" /\ v # Done /\ UNCHANGED <<created, slow, isRunning, client, loop, upSince>>
  BY <1>1 DEF Send, Doing, Done
<1>3. IsTask(v) /\ Ahead(v, u) \in Nat /\ IsExpired(u, blockTime)
  BY <1>1, <1>2, LookTaken
<1>4. ASSUME NEW m \in locked, m.id = u, Contracts!TakeBack(m), UNCHANGED faults,
             Step(k, u, [task[k][u] EXCEPT !.at = "confirm"])
      PROVE  TimeInv'
  <2>1. PICK t : t = [task[k][u] EXCEPT !.at = "confirm"]
    OBVIOUS
  <2>2. Step(k, u, t) /\ task[k][u].at = "send"
    BY <1>1, <1>2, <1>4, <2>1
  <2>3. QED BY <1>2, <1>4, <2>1, <2>2, RefundStep
<1>5. CASE ~(IsOpen(u) /\ IsExpired(u, blockTime)) /\ AttemptFails(k, u)
           /\ UNCHANGED <<locked, claimed, returned, blockTime, faults>>
  <2>1. PICK t : t = Fails(v)
    OBVIOUS
  <2>2. ~IsOpen(u)
    BY <1>3, <1>5
  <2>3. IsTask(t) /\ (t # Done => t.at = "delay") /\ OnceGone(t) <= OnceGone(v)
    BY <1>2, <1>3, <2>1, AheadFails
  <2>4. Ahead(t, u) <= Ahead(v, u)
    BY <2>2, <2>3 DEF Ahead
  <2>5. t.at \notin {"confirm", "read"}
    BY <2>3 DEF Done
  <2>6. Step(k, u, t)
    BY <1>1, <1>5, <2>1 DEF AttemptFails, Fails
  <2>7. \A l \in locked : l.id # u
    BY <2>2 DEF IsOpen
  <2>8. UNCHANGED faults /\ UNCHANGED <<lockVars, isRunning, client, loop, upSince>>
    BY <1>2, <1>5 DEF lockVars
  <2>9. t.at # "confirm" /\ t.at # "read" /\ task[k][u] # Done /\ Ahead(t, u) <= Ahead(task[k][u], u)
    BY <1>1, <1>2, <2>4, <2>5
  <2>10. QED BY <1>3, <2>3, <2>6, <2>7, <2>8, <2>9, FreeStep
<1>6. CASE CallFails /\ AttemptFails(k, u) /\ UNCHANGED <<locked, claimed, returned, blockTime>>
  <2>1. UNCHANGED <<lockVars, isRunning, client, loop, upSince>> /\ task[k][u].at \in {"verify", "send", "confirm"}
    BY <1>1, <1>2, <1>6 DEF lockVars
  <2>2. QED BY <1>6, <2>1, FaultStep
<1>7. QED BY <1>4, <1>5, <1>6 DEF Send

\* What users do to the HTLCs leaves the loops where they are.
LEMMA LoopsRest ==
    ASSUME TimeInv, LocksTyped', LocksGoOn, Rests,
           UNCHANGED <<loop, task, isRunning, upSince, blockTime>>
    PROVE  TimeInv'
<1>1. ASSUME NEW j \in Loops PROVE LoopIs(loop[j], task[j])' /\ (Keeps(loop[j], task[j]) => Keeps(loop[j], task[j])')
  <2>1. PICK p, ts : p = loop[j] /\ ts = task[j]
    OBVIOUS
  <2>2. LoopIs(p, ts)
    BY <2>1, LoopTaken
  <2>4. LoopIs(p, ts)'
    BY <2>2, LooksGoOn
  <2>5. Keeps(p, ts) => Keeps(p, ts)'
    BY <2>2 DEF Rests
  <2>6. loop'[j] = p /\ task'[j] = ts
    BY <2>1
  <2>7. LoopIs(loop[j], task[j])'
    BY <2>4, <2>6 DEF LoopIs
  <2>8. Keeps(p, ts)' => Keeps(loop[j], task[j])'
    BY <2>6 DEF Keeps, OnTime
  <2>9. Keeps(loop[j], task[j]) => Keeps(p, ts)
    BY <2>1
  <2>10. QED BY <2>5, <2>7, <2>8, <2>9
<1>2. LoopsTyped'
  BY <1>1 DEF LoopsTyped, TimeInv
<1>3. isRunning' => \E j \in Loops : Keeps(loop[j], task[j])'
  BY <1>1 DEF TimeInv
<1>4. QED BY <1>2, <1>3 DEF TimeInv

\* A claim is a race that looks may lose, and a new HTLC lies ahead of all.
LEMMA UsersStep == ASSUME TimeInv, LockClaimed \/ \E u \in Ids : LockCreated(u) PROVE TimeInv'
<1>1. LocksTyped
  BY DEF TimeInv
<1>2. CASE LockClaimed
  <2>1. PICK l \in locked : Contracts!Claim(l)
    BY <1>2 DEF LockClaimed
  <2>2. UNCHANGED <<created, slow, isRunning, client, loop, task, upSince, faults>>
    BY <1>2 DEF LockClaimed
  <2>3. LocksTyped' /\ LocksGoOn /\ Rests /\ UNCHANGED blockTime
    BY <1>1, <2>1, <2>2, OneResolved
  <2>4. QED BY <2>2, <2>3, LoopsRest
<1>3. ASSUME NEW u \in Ids, LockCreated(u) PROVE TimeInv'
  <2>1. LocksTyped' /\ LocksGoOn /\ Rests
    BY <1>1, <1>3, OneCreated
  <2>2. UNCHANGED <<loop, task, isRunning, upSince, blockTime>>
    BY <1>3 DEF LockCreated, Contracts!Lock
  <2>3. QED BY <2>1, <2>2, LoopsRest
<1>4. QED BY <1>2, <1>3

\* A look after a tick.
LEMMA TickLook ==
    ASSUME NEW t, IsTask(t), NEW f, f = [t EXCEPT !.left = Less(t.left)]
    PROVE  /\ IsTask(f) /\ f.at = t.at /\ (f = Done <=> t = Done)
           /\ t.left > 0 => /\ WhileOpen(f) = WhileOpen(t) - 1 /\ OnceGone(f) = OnceGone(t) - 1
                            /\ WhileOpen(t) > 0 /\ OnceGone(t) > 0
<1>1. DOMAIN t = {"at", "attempt", "left"} /\ t.left \in Nat
  BY DEF IsTask
<1>2. CASE t.left = 0
  <2>1. /\ DOMAIN f = {"at", "attempt", "left"} /\ f.at = t.at /\ f.attempt = t.attempt
        /\ f.left = 0 /\ t.left = 0
    BY <1>1, <1>2 DEF Less
  <2>2. CASE t = Done
    <3>1. f = [Done EXCEPT !.left = 0]
      BY <1>2, <2>2 DEF Less
    <3>2. f = Done
      BY <3>1 DEF Done
    <3>3. QED BY <2>1, <2>2, <3>2
  <2>3. CASE t # Done
    <3>1. f # Done /\ t.at \in Looking /\ t.attempt \in 1 .. MaxRetries
      BY <2>1, <2>3 DEF IsTask, Done, Looking
    <3>2. IsTask(f)
      BY <2>1, <3>1 DEF IsTask
    <3>3. QED BY <2>1, <2>3, <3>1, <3>2
  <2>4. QED BY <2>2, <2>3
<1>3. CASE t.left > 0
  <2>1. t.at = "delay" /\ t # Done
    BY <1>1, <1>3 DEF IsTask, Done
  <2>2. f = [t EXCEPT !.left = t.left - 1]
    BY <1>1, <1>3 DEF Less
  <2>3. /\ IsTask(f) /\ f.at = "delay" /\ f # Done
        /\ WhileOpen(f) = WhileOpen(t) - 1 /\ OnceGone(f) = OnceGone(t) - 1
        /\ WhileOpen(t) > 0 /\ OnceGone(t) > 0
    BY <1>3, <2>1, <2>2, DelayGoesOn
  <2>4. QED BY <1>3, <2>1, <2>3
<1>4. QED BY <1>1, <1>2, <1>3

\* A loop and its looks after a tick.
Ticked(p, ts, q, us) ==
    /\ q = [p EXCEPT !.left = Less(p.left)]
    /\ DOMAIN us = Ids /\ \A u \in Ids : us[u] = [ts[u] EXCEPT !.left = Less(ts[u].left)]

\* A tick leaves a loop where it is.
LEMMA TickLoop ==
    ASSUME LocksGoOn, NEW p, NEW ts, LoopIs(p, ts), NEW q, NEW us, Ticked(p, ts, q, us)
    PROVE  LoopIs(q, us)'
<1>1. LoopIs(p, ts)'
  BY LooksGoOn
<1>2. IsLoop(p) /\ DOMAIN ts = Ids /\ p.time <= blockTime' /\ \A u \in Ids : LookIs(p, ts[u], u)'
  BY <1>1 DEF LoopIs
<1>3. /\ DOMAIN q = {"at", "left", "time", "pending"} /\ q.at = p.at /\ q.time = p.time
      /\ q.pending = p.pending /\ q.left = Less(p.left)
      /\ DOMAIN us = Ids /\ \A u \in Ids : us[u] = [ts[u] EXCEPT !.left = Less(ts[u].left)]
  BY <1>2 DEF Ticked, IsLoop
<1>4. IsLoop(q)
  <2>1. p.left \in 0 .. CheckInterval /\ CheckInterval \in Nat
    BY <1>2, RecoveryAssumption DEF IsLoop
  <2>2. Less(p.left) \in 0 .. CheckInterval /\ (p.left = 0 => Less(p.left) = 0)
    BY <2>1 DEF Less
  <2>3. q.at = "none" => q = NoLoop
    <3>1. SUFFICES ASSUME q.at = "none" PROVE q = NoLoop
      OBVIOUS
    <3>2. p = NoLoop
      BY <1>2, <1>3, <3>1 DEF IsLoop
    <3>3. q = [NoLoop EXCEPT !.left = Less(0)]
      BY <3>2 DEF Ticked, NoLoop
    <3>4. Less(0) = 0
      BY DEF Less
    <3>5. QED BY <3>3, <3>4 DEF NoLoop
  <2>4. QED BY <1>2, <1>3, <2>2, <2>3 DEF IsLoop
<1>5. ASSUME NEW u \in Ids PROVE LookIs(q, us[u], u)' /\ (ts[u] = Done => us[u] = Done)
  <2>1. PICK t, f : t = ts[u] /\ f = us[u]
    OBVIOUS
  <2>2. LookIs(p, t, u)' /\ f = [t EXCEPT !.left = Less(t.left)]
    BY <1>2, <1>3, <2>1
  <2>3. IsTask(t)
    BY <2>2 DEF LookIs
  <2>4. IsTask(f) /\ f.at = t.at /\ (f = Done <=> t = Done)
    BY <2>2, <2>3, TickLook
  <2>5. LookIs(q, f, u)'
    BY <1>3, <2>2, <2>4 DEF LookIs
  <2>6. QED BY <2>1, <2>4, <2>5
<1>6. q.time <= blockTime' /\ DOMAIN us = Ids
  BY <1>2, <1>3
<1>7. q.at \notin {"ethereum", "cosmos"} => \A u \in Ids : us[u] = Done
  BY <1>1, <1>3, <1>5 DEF LoopIs
<1>8. QED BY <1>4, <1>5, <1>6, <1>7 DEF LoopIs

\* The loop that keeps its times has something under way that a tick brings
\* nearer to its end.
LEMMA TickKeeps ==
    ASSUME LocksTyped, LocksTyped', NEW p, NEW ts, LoopIs(p, ts), NEW q, NEW us, Ticked(p, ts, q, us),
           Keeps(p, ts), blockTime' = blockTime + 1,
           UNCHANGED <<locked, claimed, returned, slow, created, client, upSince, faults>>,
           \/ p.left > 0
           \/ /\ \E u \in Ids : ts[u] # Done
              /\ \A u \in Ids : ts[u] = Done \/ ts[u].left > 0
    PROVE  Keeps(q, us)'
<1>1. IsLoop(p) /\ DOMAIN ts = Ids /\ (p.at \notin {"ethereum", "cosmos"} => \A u \in Ids : ts[u] = Done)
      /\ \A u \in Ids : IsTask(ts[u])
  BY DEF LoopIs, LookIs
<1>2. /\ q.at = p.at /\ q.time = p.time /\ q.pending = p.pending /\ q.left = Less(p.left)
      /\ \A u \in Ids : us[u] = [ts[u] EXCEPT !.left = Less(ts[u].left)]
  BY <1>1 DEF Ticked, IsLoop
<1>3. \A u \in Ids : IsTask(us[u]) /\ (us[u] = Done <=> ts[u] = Done)
  BY <1>1, <1>2, TickLook
<1>4. \A u \in Ids : Ahead(ts[u], u) \in Nat /\ Ahead(us[u], u)' \in Nat
                     /\ (us[u] = Done => Ahead(us[u], u)' = 0)
  BY <1>1, <1>3, AheadTyped
<1>5. ASSUME NEW u \in Ids, ts[u].left > 0
      PROVE  Ahead(us[u], u)' = Ahead(ts[u], u) - 1 /\ Ahead(ts[u], u) > 0
  <2>1. PICK t, f : t = ts[u] /\ f = us[u]
    OBVIOUS
  <2>2. IsTask(t) /\ f = [t EXCEPT !.left = Less(t.left)] /\ t.left > 0
    BY <1>1, <1>2, <1>5, <2>1
  <2>3. /\ WhileOpen(f) = WhileOpen(t) - 1 /\ OnceGone(f) = OnceGone(t) - 1
        /\ WhileOpen(t) > 0 /\ OnceGone(t) > 0
    BY <2>2, TickLook
  <2>4. Ahead(f, u)' = Ahead(t, u) - 1 /\ Ahead(t, u) > 0
    <3>1. IsOpen(u)' <=> IsOpen(u)
      BY DEF IsOpen
    <3>2. QED BY <2>3, <3>1 DEF Ahead
  <2>5. QED BY <2>1, <2>4
<1>6. ASSUME NEW u \in Ids
      PROVE  /\ \E v \in Ids : /\ q.left + Ahead(us[u], u)' + 1 <= p.left + Ahead(ts[v], v)
                               /\ p.at = "top" \/ Ahead(us[u], u)' + 1 <= Ahead(ts[v], v)
             /\ Ahead(us[u], u)' <= Ahead(ts[u], u)
  <2>1. PICK a, b, g : a = Ahead(ts[u], u) /\ b = Ahead(us[u], u)' /\ g = p.left
    OBVIOUS
  <2>2. a \in Nat /\ b \in Nat /\ g \in Nat /\ CheckInterval \in Nat /\ (ts[u] = Done => b = 0)
    BY <1>1, <1>3, <1>4, <2>1, RecoveryAssumption DEF IsLoop
  <2>3. CASE p.left > 0
    <3>1. p.at = "top" /\ ts[u] = Done
      BY <1>1, <2>2, <2>3 DEF IsLoop
    <3>2. q.left = g - 1
      BY <1>2, <2>1, <2>2, <2>3 DEF Less
    <3>3. (g - 1) + b + 1 <= g + a /\ b <= a
      BY <2>2, <3>1
    <3>4. QED BY <2>1, <3>1, <3>2, <3>3
  <2>4. CASE p.left = 0
    <3>1. q.left = 0
      BY <1>2, <2>4 DEF Less
    <3>2. PICK w \in Ids : ts[w].left > 0
      BY <2>4
    <3>3. CASE ts[u].left > 0
      <4>1. b = a - 1
        BY <1>5, <2>1, <3>3
      <4>2. 0 + b + 1 <= 0 + a /\ b + 1 <= a /\ b <= a
        BY <2>2, <4>1
      <4>3. QED BY <2>1, <2>4, <3>1, <4>2
    <3>4. CASE ts[u] = Done
      <4>1. PICK x : x = Ahead(ts[w], w)
        OBVIOUS
      <4>2. x \in Nat /\ x > 0
        BY <1>4, <1>5, <3>2, <4>1
      <4>3. 0 + b + 1 <= 0 + x /\ b + 1 <= x /\ b <= a
        BY <2>2, <3>4, <4>2
      <4>4. QED BY <2>1, <2>4, <3>1, <4>1, <4>3
    <3>5. QED BY <2>4, <3>3, <3>4
  <2>5. QED BY <2>1, <2>2, <2>3, <2>4
<1>7. PICK d, n, c : d = Debt /\ n = blockTime /\ c = CheckInterval
  OBVIOUS
<1>8. d \in Nat /\ n \in Nat /\ c \in Nat /\ Debt' = d
  BY <1>7, DebtTyped, RecoveryAssumption DEF LocksTyped, Debt, Settled
<1>9. \A u \in Ids : Ahead(us[u], u)' <= Debt'
  <2> SUFFICES ASSUME NEW u \in Ids PROVE Ahead(us[u], u)' <= Debt'
    OBVIOUS
  <2>1. PICK a, b : a = Ahead(ts[u], u) /\ b = Ahead(us[u], u)'
    OBVIOUS
  <2>2. a \in Nat /\ b \in Nat /\ a <= d /\ b <= a
    BY <1>4, <1>6, <1>7, <2>1 DEF Keeps
  <2>3. b <= d
    BY <1>8, <2>2
  <2>4. QED BY <1>8, <2>1, <2>3
<1>10. ASSUME NEW l \in locked', Owed(l)', NEW u \in Ids
       PROVE  OnTime(q, us, l, u)'
  <2>1. l \in locked /\ l.deadline \in Nat /\ l.id \in Ids
    BY <1>10 DEF LocksTyped
  <2>2. Owed(l)
    <3>1. Debt' = Debt + 0 /\ 0 \in Nat
      BY <1>7, <1>8
    <3>2. QED BY <1>10, <2>1, <3>1, OwedBefore
  <2>3. PICK v \in Ids : /\ q.left + Ahead(us[u], u)' + 1 <= p.left + Ahead(ts[v], v)
                         /\ p.at = "top" \/ Ahead(us[u], u)' + 1 <= Ahead(ts[v], v)
    BY <1>6
  <2>4. OnTime(p, ts, l, v)
    BY <2>1, <2>2 DEF Keeps
  <2>5. PICK w, x, b, g, h : /\ w = Due(l) /\ x = Ahead(ts[v], v) /\ b = Ahead(us[u], u)'
                             /\ g = p.left /\ h = q.left
    OBVIOUS
  <2>6. w \in Nat /\ Due(l)' = w /\ x \in Nat /\ b \in Nat /\ g \in Nat /\ h \in Nat
    <3>1. w \in Nat /\ Due(l)' = w
      BY <2>1, <2>5, DueTyped DEF Due
    <3>2. g \in Nat /\ h \in Nat
      BY <1>1, <1>2, <1>7, <1>8, <2>5 DEF Less, IsLoop
    <3>3. QED BY <1>4, <2>5, <3>1, <3>2
  <2>7. n + g + x <= w + c + d /\ (Coming(p, ts, l) \/ n + x <= w + d)
    BY <1>7, <2>4, <2>5 DEF OnTime
  <2>8. h + b + 1 <= g + x /\ (p.at = "top" \/ b + 1 <= x)
    BY <2>3, <2>5
  <2>9. Coming(p, ts, l) => Coming(q, us, l)
    BY <1>2, <1>3, <2>1 DEF Coming
  <2>10. p.at = "top" => Coming(q, us, l)
    BY <1>2 DEF Coming
  <2>11. (n + 1) + h + b <= w + c + d /\ (Coming(q, us, l) \/ (n + 1) + b <= w + d)
    BY <1>8, <2>6, <2>7, <2>8, <2>9, <2>10
  <2>12. blockTime' = n + 1
    BY <1>7
  <2>13. QED BY <1>7, <1>8, <2>5, <2>6, <2>11, <2>12 DEF OnTime
<1>11. q.at \in InRound
  BY <1>2 DEF Keeps
<1>12. QED BY <1>9, <1>10, <1>11 DEF Keeps

\* A tick in which a call takes its time is paid for, whatever else it brings nearer.
LEMMA SlowTickKeeps ==
    ASSUME LocksTyped, LocksTyped', NEW p, NEW ts, LoopIs(p, ts), NEW q, NEW us, Ticked(p, ts, q, us),
           Keeps(p, ts), blockTime' = blockTime + 1, slow' = slow + 1,
           UNCHANGED <<locked, claimed, returned, created, client, upSince, faults>>
    PROVE  Keeps(q, us)'
<1>1. IsLoop(p) /\ \A u \in Ids : IsTask(ts[u])
  BY DEF LoopIs, LookIs
<1>2. /\ q.at = p.at /\ q.time = p.time /\ q.pending = p.pending /\ q.left = Less(p.left)
      /\ \A u \in Ids : us[u] = [ts[u] EXCEPT !.left = Less(ts[u].left)]
  BY <1>1 DEF Ticked, IsLoop
<1>3. \A u \in Ids : IsTask(us[u]) /\ (us[u] = Done <=> ts[u] = Done)
  BY <1>1, <1>2, TickLook
<1>4. ASSUME NEW u \in Ids
      PROVE  /\ Ahead(ts[u], u) \in Nat /\ Ahead(us[u], u)' \in Nat
             /\ Ahead(us[u], u)' <= Ahead(ts[u], u)
  <2>1. PICK t, f : t = ts[u] /\ f = us[u]
    OBVIOUS
  <2>2. IsTask(t) /\ IsTask(f) /\ f = [t EXCEPT !.left = Less(t.left)] /\ t.left \in Nat
    BY <1>1, <1>2, <1>3, <2>1 DEF IsTask
  <2>3. IsOpen(u)' <=> IsOpen(u)
    BY DEF IsOpen
  <2>4. Ahead(t, u) \in Nat /\ Ahead(f, u)' \in Nat
    BY <2>2, AheadTyped
  <2>5. CASE t.left > 0
    <3>1. /\ WhileOpen(f) = WhileOpen(t) - 1 /\ OnceGone(f) = OnceGone(t) - 1
      BY <2>2, <2>5, TickLook
    <3>2. WhileOpen(t) \in Nat /\ OnceGone(t) \in Nat
      BY <2>2, AheadIsNatural
    <3>3. Ahead(f, u)' <= Ahead(t, u)
      BY <2>3, <3>1, <3>2 DEF Ahead
    <3>4. QED BY <2>1, <2>4, <3>3
  <2>6. CASE t.left = 0
    <3>1. DOMAIN t = {"at", "attempt", "left"} /\ Less(t.left) = t.left
      BY <2>2, <2>6 DEF Less, IsTask
    <3>2. f.at = t.at /\ f.attempt = t.attempt /\ f.left = t.left
      BY <2>2, <3>1
    <3>3. WhileOpen(f) = WhileOpen(t) /\ OnceGone(f) = OnceGone(t)
      BY <3>2 DEF WhileOpen, OnceGone
    <3>4. Ahead(f, u)' = Ahead(t, u)
      BY <2>3, <3>3 DEF Ahead
    <3>5. QED BY <2>1, <2>4, <3>4
  <2>7. QED BY <2>2, <2>5, <2>6
<1>5. PICK d, n, c : d = Debt /\ n = blockTime /\ c = CheckInterval
  OBVIOUS
<1>6. d \in Nat /\ n \in Nat /\ c \in Nat /\ Debt' = d + 1
  <2>1. PICK x, s : x = CheckInterval * faults + RetryDelay * Cardinality(Settled) /\ s = slow
    OBVIOUS
  <2>2. s \in Nat /\ CheckInterval \in Nat /\ faults \in Nat /\ RetryDelay \in Nat
        /\ Cardinality(Settled) \in Nat
    BY <2>1, RecoveryAssumption, FS_CardinalityType DEF LocksTyped
  <2>3. x \in Nat
    BY <2>1, <2>2
  <2>4. Debt = x + s /\ Debt' = x + (s + 1)
    BY <2>1 DEF Debt, Settled
  <2>5. QED BY <1>5, <2>2, <2>3, <2>4 DEF LocksTyped
<1>7. \A u \in Ids : Ahead(us[u], u)' <= Debt'
  <2> SUFFICES ASSUME NEW u \in Ids PROVE Ahead(us[u], u)' <= Debt'
    OBVIOUS
  <2>1. PICK a, b : a = Ahead(ts[u], u) /\ b = Ahead(us[u], u)'
    OBVIOUS
  <2>2. a \in Nat /\ b \in Nat /\ a <= d /\ b <= a
    BY <1>4, <1>5, <2>1 DEF Keeps
  <2>3. b <= d + 1
    BY <1>6, <2>2
  <2>4. QED BY <1>6, <2>1, <2>3
<1>8. ASSUME NEW l \in locked', Owed(l)', NEW u \in Ids
      PROVE  OnTime(q, us, l, u)'
  <2>1. l \in locked /\ l.deadline \in Nat /\ l.id \in Ids
    BY <1>8 DEF LocksTyped
  <2>2. Owed(l)
    <3>1. Debt' = Debt + 1 /\ 1 \in Nat
      BY <1>5, <1>6
    <3>2. QED BY <1>8, <2>1, <3>1, OwedBefore
  <2>3. OnTime(p, ts, l, u)
    BY <1>8, <2>1, <2>2 DEF Keeps
  <2>4. PICK w, x, b, g, h : /\ w = Due(l) /\ x = Ahead(ts[u], u) /\ b = Ahead(us[u], u)'
                             /\ g = p.left /\ h = q.left
    OBVIOUS
  <2>5. w \in Nat /\ Due(l)' = w /\ x \in Nat /\ b \in Nat /\ b <= x /\ g \in Nat /\ h \in Nat /\ h <= g
    <3>1. w \in Nat /\ Due(l)' = w
      BY <2>1, <2>4, DueTyped DEF Due
    <3>2. g \in Nat /\ h \in Nat /\ h <= g
      BY <1>1, <1>2, <1>5, <1>6, <2>4 DEF Less, IsLoop
    <3>3. QED BY <1>4, <2>4, <3>1, <3>2
  <2>6. n + g + x <= w + c + d /\ (Coming(p, ts, l) \/ n + x <= w + d)
    BY <1>5, <2>3, <2>4 DEF OnTime
  <2>7. Coming(p, ts, l) => Coming(q, us, l)
    BY <1>2, <1>3, <2>1 DEF Coming
  <2>8. (n + 1) + h + b <= w + c + (d + 1) /\ (Coming(q, us, l) \/ (n + 1) + b <= w + (d + 1))
    BY <1>6, <2>5, <2>6, <2>7
  <2>9. blockTime' = n + 1
    BY <1>5
  <2>10. QED BY <1>5, <1>6, <2>4, <2>5, <2>8, <2>9 DEF OnTime
<1>9. q.at \in InRound
  BY <1>2 DEF Keeps
<1>10. QED BY <1>7, <1>8, <1>9 DEF Keeps

\* Time passes while every loop sleeps or waits in its looks, or while a call takes
\* its time.
LEMMA TickStep == ASSUME TimeInv, TimePasses PROVE TimeInv'
<1>1. /\ blockTime' = blockTime + 1
      /\ ((\A k \in Loops : Waiting(k)) /\ slow' = slow) \/ slow' = slow + 1
      /\ loop' = [k \in Loops |-> [loop[k] EXCEPT !.left = Less(@)]]
      /\ task' = [k \in Loops |-> [u \in Ids |-> [task[k][u] EXCEPT !.left = Less(@)]]]
      /\ UNCHANGED <<locked, claimed, returned, created, isRunning, client, refunded, upSince, faults>>
  BY DEF TimePasses
<1>2. LocksTyped /\ blockTime \in Nat /\ slow \in Nat /\ \A l \in locked : l.deadline \in Nat
  BY DEF TimeInv, LocksTyped
<1>3. LocksTyped'
  <2>1. Settled' = Settled
    BY <1>1 DEF Settled
  <2>2. blockTime' \in Nat /\ upSince' \in 0 .. blockTime' /\ slow' \in Nat
    BY <1>1, <1>2 DEF LocksTyped
  <2>3. QED BY <1>1, <1>2, <2>1, <2>2 DEF LocksTyped
<1>4. LocksGoOn
  <2>1. \A u : (Used(u)' <=> Used(u)) /\ (IsOpen(u)' <=> IsOpen(u))
    BY <1>1 DEF Used, IsOpen, Settled
  <2>2. \A u : IsExpired(u, blockTime) => IsExpired(u, blockTime)'
    BY <1>1, <1>2 DEF IsExpired
  <2>3. \A n \in Nat : n <= blockTime => n <= blockTime'
    BY <1>1, <1>2
  <2>4. QED BY <2>1, <2>2, <2>3 DEF LocksGoOn
<1>5. ASSUME NEW k \in Loops PROVE LoopIs(loop[k], task[k])' /\ (Keeps(loop[k], task[k]) => Keeps(loop[k], task[k])')
  <2>1. PICK p, ts, q, us : p = loop[k] /\ ts = task[k] /\ q = loop'[k] /\ us = task'[k]
    OBVIOUS
  <2>2. LoopIs(p, ts) /\ IsLoop(p)
    BY <2>1, LoopTaken
  <2>3. q = [p EXCEPT !.left = Less(p.left)] /\ us = [u \in Ids |-> [ts[u] EXCEPT !.left = Less(ts[u].left)]]
    BY <1>1, <2>1
  <2>4. Ticked(p, ts, q, us)
    BY <2>3 DEF Ticked
  <2>5. LoopIs(q, us)'
    BY <1>4, <2>2, <2>4, TickLoop
  <2>6. LoopIs(loop[k], task[k])'
    BY <2>1, <2>5 DEF LoopIs
  <2>7. ASSUME Keeps(p, ts) PROVE Keeps(q, us)'
    <3>1. UNCHANGED <<locked, claimed, returned, created, client, upSince, faults>>
      BY <1>1
    <3>2. CASE slow' = slow + 1
      BY <1>1, <1>2, <1>3, <2>2, <2>4, <2>7, <3>1, <3>2, SlowTickKeeps
    <3>3. CASE Waiting(k) /\ slow' = slow
      <4>1. p # NoLoop
        BY <2>7 DEF Keeps, InRound, NoLoop
      <4>2. p = NoLoop \/ p.left > 0 \/ ((\E u \in Ids : ts[u] # Done)
                                        /\ \A u \in Ids : ts[u] = Done \/ ts[u].left > 0)
        BY <2>1, <3>3 DEF Waiting, Busy
      <4>3. QED BY <1>1, <1>2, <1>3, <2>2, <2>4, <2>7, <3>1, <3>3, <4>1, <4>2, TickKeeps
    <3>4. QED BY <1>1, <3>2, <3>3
  <2>8. Keeps(q, us)' => Keeps(loop[k], task[k])'
    BY <2>1 DEF Keeps, OnTime
  <2>9. Keeps(loop[k], task[k]) => Keeps(p, ts)
    BY <2>1
  <2>10. QED BY <2>6, <2>7, <2>8, <2>9
<1>6. LoopsTyped'
  BY <1>1, <1>5 DEF LoopsTyped
<1>7. isRunning' => \E k \in Loops : Keeps(loop[k], task[k])'
  BY <1>1, <1>5 DEF TimeInv
<1>8. QED BY <1>3, <1>6, <1>7 DEF TimeInv

\* Nothing is locked and nothing runs at first.
LEMMA TimesStart == RecoveryInit => TimeInv
<1> SUFFICES ASSUME RecoveryInit PROVE TimeInv
  OBVIOUS
<1>1. /\ locked = {} /\ Settled = {} /\ blockTime = 0 /\ created = [u \in Ids |-> 0]
      /\ loop = [k \in Loops |-> NoLoop] /\ task = [k \in Loops |-> [u \in Ids |-> Done]]
      /\ ~isRunning /\ upSince = 0 /\ faults = 0 /\ slow = 0
  BY DEF RecoveryInit, Settled
<1>2. LocksTyped
  BY <1>1, FS_EmptySet DEF LocksTyped
<1>3. /\ NoLoop.at = "none" /\ NoLoop.pending = {} /\ NoLoop.left = 0 /\ NoLoop.time = 0
      /\ DOMAIN NoLoop = {"at", "left", "time", "pending"}
  BY DEF NoLoop
<1>4. IsLoop(NoLoop)
  BY <1>3, RecoveryAssumption DEF IsLoop
<1>5. \A u \in Ids : LookIs(NoLoop, Done, u)
  BY <1>3, DoneIsTask DEF LookIs
<1>6. PICK ts : ts = [u \in Ids |-> Done]
  OBVIOUS
<1>7. DOMAIN ts = Ids /\ \A u \in Ids : ts[u] = Done
  BY <1>6
<1>8. LoopIs(NoLoop, ts)
  BY <1>1, <1>3, <1>4, <1>5, <1>7 DEF LoopIs
<1>9. DOMAIN loop = Loops /\ DOMAIN task = Loops
      /\ \A k \in Loops : loop[k] = NoLoop /\ task[k] = ts
  BY <1>1, <1>6
<1>10. LoopsTyped
  BY <1>8, <1>9 DEF LoopsTyped
<1>11. QED BY <1>1, <1>2, <1>10 DEF TimeInv

\* Every step keeps the invariant.
LEMMA TimesKept == TimeInv /\ [RecoveryNext]_recoveryVars => TimeInv'
<1> SUFFICES ASSUME TimeInv, [RecoveryNext]_recoveryVars PROVE TimeInv'
  OBVIOUS
<1>1. ASSUME NEW k \in Loops,
             \/ Start(k) \/ Connected(k) \/ LoopEnds(k)
             \/ CheckEthereum(k) \/ CheckEthereumFails(k) \/ NextBatch(k) \/ EthereumDone(k)
             \/ ListCosmos(k) \/ RoundEnds(k)
      PROVE  TimeInv'
  BY <1>1, StartStep, ConnectedStep, LoopEndsStep, CheckStep, ListingStep, NextBatchStep,
     ListCosmosStep, RoundEndsStep
<1>2. ASSUME NEW k \in Loops, NEW u \in Ids,
             Read(k, u) \/ Verify(k, u) \/ Send(k, u) \/ Confirm(k, u) \/ Retry(k, u)
      PROVE  TimeInv'
  BY <1>2, ReadStep, VerifyStep, SendStep, ConfirmStep, RetryStep
<1>3. CASE UNCHANGED recoveryVars
  <2>1. UNCHANGED <<lockVars, isRunning, client, loop, task, upSince, faults>>
    BY <1>3 DEF recoveryVars
  <2>2. LocksTyped' /\ LocksGoOn /\ Rests
    BY <2>1, NothingLocked DEF TimeInv
  <2>3. UNCHANGED blockTime
    BY <2>1 DEF lockVars
  <2>4. QED BY <2>1, <2>2, <2>3, LoopsRest
<1>4. QED BY <1>1, <1>2, <1>3, StopStep, UsersStep, TickStep DEF RecoveryNext

\* The loop that keeps its times shows what the property says.
LEMMA TimesEnough == TimeInv => TakenBackInTime
<1> SUFFICES ASSUME TimeInv, NEW l \in locked, isRunning, l.id \in Ours,
                    ~(l.id \in CosmosIds /\ ~client),
                    ~(l.id \in EthereumIds /\ created[l.id] + Window < Due(l) + Delay)
             PROVE  blockTime <= Due(l) + Delay
  BY DEF TakenBackInTime
<1>1. PICK k \in Loops : Keeps(loop[k], task[k])
  BY DEF TimeInv
<1>2. PICK p, ts : p = loop[k] /\ ts = task[k]
  OBVIOUS
<1>3. LocksTyped /\ IsLoop(p) /\ l.id \in Ids /\ l.deadline \in Nat /\ IsTask(ts[l.id])
  <2>1. LocksTyped /\ l.id \in Ids /\ l.deadline \in Nat
    BY LoopTaken DEF LocksTyped
  <2>2. QED BY <1>2, <2>1, LoopTaken
<1>4. PICK n, b, y, w, c, d, a, g : /\ n = blockTime /\ b = created[l.id] /\ y = Window /\ w = Due(l)
                                    /\ c = CheckInterval /\ d = Debt /\ a = Ahead(ts[l.id], l.id)
                                    /\ g = p.left
  OBVIOUS
<1>5. /\ n \in Nat /\ b \in Nat /\ y \in Nat /\ w \in Nat /\ c \in Nat /\ d \in Nat /\ a \in Nat
      /\ g \in Nat /\ Delay = c + d
  <2>1. n \in Nat /\ b \in Nat /\ y \in Nat /\ c \in Nat
    BY <1>3, <1>4, RecoveryAssumption DEF LocksTyped
  <2>2. w \in Nat /\ d \in Nat /\ Delay = c + d
    BY <1>3, <1>4, DueTyped, DebtTyped
  <2>3. a \in Nat /\ g \in Nat
    BY <1>3, <1>4, <2>1, AheadTyped DEF IsLoop
  <2>4. QED BY <2>1, <2>2, <2>3
<1>6. l.id \in EthereumIds => b + y >= w + c + d
  <2>1. l.id \in EthereumIds => ~(b + y < w + (c + d))
    BY <1>4, <1>5
  <2>2. QED BY <1>5, <2>1
<1>7. Owed(l)
  BY <1>4, <1>6 DEF Owed
<1>8. OnTime(p, ts, l, l.id)
  BY <1>1, <1>2, <1>3, <1>7 DEF Keeps
<1>9. n + g + a <= w + c + d
  BY <1>4, <1>8 DEF OnTime
<1>10. n <= w + (c + d)
  BY <1>5, <1>9
<1>11. QED BY <1>4, <1>5, <1>10

\* While the service runs, an expired HTLC of the relayer is taken back within
\* a round, a round more for every failed call, a delay more for every lost race
\* and the time its calls have taken so far, for any number of HTLCs, loops and
\* retries; a call that never ends lets all of them wait.
THEOREM TakenBackWithinDelay == RecoverySpec => []TakenBackInTime
<1>1. RecoverySpec => []TimeInv
  BY TimesStart, TimesKept, PTL DEF RecoverySpec
<1>2. QED BY <1>1, TimesEnough, PTL
-----------------------------------------------------------------------------
(* The router keeps the minimum of a swap.                                  *)

\* The amounts x of a chain P of swaps, each priced where the one before ends.
Follows(x, P, a, n) ==
    x = [k \in 1 .. n |->
            IF k = 1 THEN a ELSE SwapOutput(Pool(P[k].pool), P[k].in, P[k].out, x[k - 1])]

LEMMA AmountsExist ==
    ASSUME NEW P, NEW a, NEW n \in Nat
    PROVE  \E x : Follows(x, P, a, n)
<1> DEFINE Next1(x, k) == IF k = 1 THEN a ELSE SwapOutput(Pool(P[k].pool), P[k].in, P[k].out, x[k - 1])
           Good == {m \in Nat : \E x : x = [k \in 1 .. m |-> Next1(x, k)]}
<1>1. 0 \in Good
  <2>1. << >> = [k \in 1 .. 0 |-> Next1(<< >>, k)]
    OBVIOUS
  <2>2. QED BY <2>1
<1>2. \A m \in Nat : m \in Good => m + 1 \in Good
  <2>1. SUFFICES ASSUME NEW m \in Nat, m \in Good PROVE m + 1 \in Good
    OBVIOUS
  <2>2. PICK x : x = [k \in 1 .. m |-> Next1(x, k)]
    BY <2>1
  <2> DEFINE y == [k \in 1 .. m + 1 |-> Next1(x, k)]
  <2>3. \A k \in 1 .. m : y[k] = x[k]
    <3>1. \A k \in 1 .. m : k \in 1 .. m + 1 /\ x[k] = Next1(x, k)
      BY <2>2
    <3>2. QED BY <3>1
  <2>4. \A k \in 1 .. m + 1 : Next1(x, k) = Next1(y, k)
    <3>1. \A k \in 1 .. m + 1 : k # 1 => k - 1 \in 1 .. m
      OBVIOUS
    <3> HIDE DEF y
    <3>2. QED BY <2>3, <3>1
  <2>5. y = [k \in 1 .. m + 1 |-> Next1(y, k)]
    BY <2>4
  <2> HIDE DEF y
  <2>6. m + 1 \in Nat /\ \E x2 : x2 = [k \in 1 .. m + 1 |-> Next1(x2, k)]
    BY <2>5
  <2>7. QED BY <2>6
<1> HIDE DEF Good
<1>3. n \in Good
  BY <1>1, <1>2, NaturalsAreGood
<1>4. PICK x : x = [k \in 1 .. n |-> Next1(x, k)]
  BY <1>3 DEF Good
<1>5. QED BY <1>4 DEF Follows

LEMMA EstimatesAre ==
    ASSUME NEW route, NEW amount, Len(route) \in Nat
    PROVE  /\ Estimates(route, amount)[1] = amount
           /\ \A k \in 2 .. Len(route) + 1 : Estimates(route, amount)[k] =
                SwapOutput(Pool(route[k - 1].pool), route[k - 1].in, route[k - 1].out,
                           Estimates(route, amount)[k - 1])
<1> DEFINE n == Len(route)
           P == [k \in 1 .. n + 1 |-> route[k - 1]]
           F(x, k) == IF k = 1 THEN amount
                      ELSE SwapOutput(Pool(route[k - 1].pool), route[k - 1].in, route[k - 1].out, x[k - 1])
<1>0. n + 1 \in Nat
  OBVIOUS
<1>1. PICK x : Follows(x, P, amount, n + 1)
  <2> HIDE DEF P, n
  <2>1. QED BY <1>0, AmountsExist
<1>2. x = [k \in 1 .. n + 1 |-> F(x, k)]
  <2>1. \A k \in 1 .. n + 1 : P[k] = route[k - 1]
    OBVIOUS
  <2>2. x = [k \in 1 .. n + 1 |->
                IF k = 1 THEN amount ELSE SwapOutput(Pool(P[k].pool), P[k].in, P[k].out, x[k - 1])]
    BY <1>1, Zenon DEF Follows
  <2> HIDE DEF P
  <2>3. QED BY <2>1, <2>2
<1>3. Estimates(route, amount) = (CHOOSE e : e = [k \in 1 .. n + 1 |-> F(e, k)])
  BY DEF Estimates
<1>4. PICK e : e = Estimates(route, amount) /\ e = [k \in 1 .. n + 1 |-> F(e, k)]
  BY <1>2, <1>3
<1>5. 1 \in 1 .. n + 1 /\ \A k \in 2 .. n + 1 : k \in 1 .. n + 1 /\ k # 1
  OBVIOUS
<1>6. \A k \in 1 .. n + 1 : e[k] = F(e, k)
  BY <1>4
<1>7. QED BY <1>4, <1>5, <1>6

LEMMA PacketsAre ==
    ASSUME NEW route, NEW denom, NEW amount, Len(route) \in Nat, Len(route) >= 1
    PROVE  /\ PacketAmounts(route, denom, amount)[1] = amount
           /\ \A k \in 2 .. Len(route) : PacketAmounts(route, denom, amount)[k] =
                SwapOutput(Pool(route[k - 1].pool), InHand(route, denom, k - 1),
                           route[k - 1].out, PacketAmounts(route, denom, amount)[k - 1])
<1> DEFINE n == Len(route)
           In(k) == InHand(route, denom, k - 1)
           P == [k \in 1 .. n |-> [pool |-> route[k - 1].pool, in |-> In(k), out |-> route[k - 1].out]]
           F(x, k) == IF k = 1 THEN amount
                      ELSE SwapOutput(Pool(route[k - 1].pool), In(k), route[k - 1].out, x[k - 1])
<1>1. PICK x : Follows(x, P, amount, n)
  <2> HIDE DEF P
  <2>1. QED BY AmountsExist
<1>2. x = [k \in 1 .. n |-> F(x, k)]
  <2> HIDE DEF In
  <2>1. \A k \in 1 .. n : P[k].pool = route[k - 1].pool /\ P[k].in = In(k) /\ P[k].out = route[k - 1].out
    OBVIOUS
  <2>2. x = [k \in 1 .. n |->
                IF k = 1 THEN amount ELSE SwapOutput(Pool(P[k].pool), P[k].in, P[k].out, x[k - 1])]
    BY <1>1, Zenon DEF Follows
  <2> HIDE DEF P
  <2>3. QED BY <2>1, <2>2
<1>3. PacketAmounts(route, denom, amount) = (CHOOSE e : e = [k \in 1 .. n |-> F(e, k)])
  BY DEF PacketAmounts
<1>4. PICK e : e = PacketAmounts(route, denom, amount) /\ e = [k \in 1 .. n |-> F(e, k)]
  BY <1>2, <1>3
<1>5. 1 \in 1 .. n /\ \A k \in 2 .. n : k \in 1 .. n /\ k # 1
  OBVIOUS
<1>6. \A k \in 1 .. n : e[k] = F(e, k)
  BY <1>4
<1>7. QED BY <1>4, <1>5, <1>6

\* Along a route whose hops follow each other the packets are worth what the
\* check estimates.
LEMMA PacketsAsEstimated ==
    ASSUME NEW route, NEW denom, NEW amount, Len(route) \in Nat, Len(route) >= 1,
           Chained(route, denom)
    PROVE  \A k \in 1 .. Len(route) :
               PacketAmounts(route, denom, amount)[k] = Estimates(route, amount)[k]
<1>1. Len(route) \in Nat /\ Len(route) >= 1
  OBVIOUS
<1>2. PICK p, e : p = PacketAmounts(route, denom, amount) /\ e = Estimates(route, amount)
  OBVIOUS
<1>3. /\ p[1] = amount
      /\ \A k \in 2 .. Len(route) : p[k] =
            SwapOutput(Pool(route[k - 1].pool), InHand(route, denom, k - 1), route[k - 1].out, p[k - 1])
  BY <1>1, <1>2, PacketsAre
<1>4. /\ e[1] = amount
      /\ \A k \in 2 .. Len(route) + 1 : e[k] =
            SwapOutput(Pool(route[k - 1].pool), route[k - 1].in, route[k - 1].out, e[k - 1])
  BY <1>1, <1>2, EstimatesAre
<1>5. \A k \in 2 .. Len(route) : route[k - 1].in = InHand(route, denom, k - 1)
  <2>1. \A k \in 2 .. Len(route) : k - 1 \in 1 .. Len(route)
    BY <1>1
  <2>2. QED BY <2>1 DEF Chained
<1> DEFINE Good == {m \in Nat : m + 1 <= Len(route) => p[m + 1] = e[m + 1]}
<1>6. 0 \in Good
  BY <1>3, <1>4
<1>7. \A m \in Nat : m \in Good => m + 1 \in Good
  <2>1. SUFFICES ASSUME NEW m \in Nat, m \in Good, (m + 1) + 1 <= Len(route)
                 PROVE  p[(m + 1) + 1] = e[(m + 1) + 1]
    OBVIOUS
  <2>2. p[m + 1] = e[m + 1]
    BY <1>1, <2>1
  <2>3. PICK k : k = (m + 1) + 1 /\ k \in 2 .. Len(route) /\ k \in 2 .. Len(route) + 1 /\ k - 1 = m + 1
    BY <1>1, <2>1
  <2>4. /\ p[k] = SwapOutput(Pool(route[k - 1].pool), route[k - 1].in, route[k - 1].out, p[k - 1])
        /\ e[k] = SwapOutput(Pool(route[k - 1].pool), route[k - 1].in, route[k - 1].out, e[k - 1])
    BY <1>3, <1>4, <1>5, <2>3
  <2>5. QED BY <2>2, <2>3, <2>4
<1> HIDE DEF Good
<1>8. \A m \in Nat : m \in Good
  BY <1>6, <1>7, NaturalsAreGood
<1>9. \A k \in 1 .. Len(route) : k - 1 \in Nat /\ (k - 1) + 1 = k
  BY <1>1
<1>10. \A k \in 1 .. Len(route) : p[k] = e[k]
  BY <1>1, <1>8, <1>9 DEF Good
<1>11. QED BY <1>2, <1>10

\* A swap that just left, as the pools are.
LEMMA SwapKeepsMinimum ==
    ASSUME NEW route, NEW denom, NEW amount, NEW minOutput, Len(route) \in Nat,
           ExecuteMultiHopSwap(route, denom, amount, minOutput)
    PROVE  MinimumKept'
<1>1. PICK n : n = Len(route) /\ n \in Nat /\ n >= 1
  <2>1. CASE Len(route) = 0
    <3>1. route # << >> /\ Estimate(route, amount) >= minOutput
      BY DEF ExecuteMultiHopSwap
    <3>2. QED BY <2>1, <3>1
  <2>2. QED BY <2>1
<1>2. /\ sent'.route = route /\ sent'.minOutput = minOutput
      /\ sent'.packets = [k \in 1 .. n |-> [denom |-> InHand(route, denom, k),
                                             amount |-> PacketAmounts(route, denom, amount)[k]]]
      /\ Estimate(route, amount) >= minOutput /\ pools' = pools
  BY <1>1 DEF ExecuteMultiHopSwap
<1>3. 1 \in 1 .. n /\ n \in 1 .. n
  BY <1>1
<1>4. sent'.packets[1].denom = denom
  BY <1>2, <1>3 DEF InHand
<1>5. ASSUME Chained(route, denom)
      PROVE  SwapOutput(Pool(route[n].pool), sent'.packets[n].denom, route[n].out,
                        sent'.packets[n].amount) >= minOutput
  <2>1. sent'.packets[n].amount = Estimates(route, amount)[n]
    <3>1. sent'.packets[n].amount = PacketAmounts(route, denom, amount)[n]
      BY <1>2, <1>3
    <3>2. PacketAmounts(route, denom, amount)[n] = Estimates(route, amount)[n]
      BY <1>1, <1>3, <1>5, PacketsAsEstimated
    <3>3. QED BY <3>1, <3>2
  <2>2. sent'.packets[n].denom = route[n].in
    BY <1>1, <1>2, <1>3, <1>5 DEF Chained
  <2>3. Estimates(route, amount)[n + 1] =
            SwapOutput(Pool(route[n].pool), route[n].in, route[n].out, Estimates(route, amount)[n])
    <3>1. n + 1 \in 2 .. Len(route) + 1 /\ (n + 1) - 1 = n
      BY <1>1
    <3>2. \A k \in 2 .. Len(route) + 1 : Estimates(route, amount)[k] =
                SwapOutput(Pool(route[k - 1].pool), route[k - 1].in, route[k - 1].out,
                           Estimates(route, amount)[k - 1])
      BY <1>1, EstimatesAre
    <3>3. QED BY <3>1, <3>2
  <2>4. Estimate(route, amount) = Estimates(route, amount)[n + 1]
    BY <1>1 DEF Estimate
  <2>5. QED BY <1>2, <2>1, <2>2, <2>3, <2>4
<1>6. \A u : Pool(u)' = Pool(u)
  BY <1>2 DEF Pool
<1>7. \A p, in, out, a : SwapOutput(p, in, out, a)' = SwapOutput(p, in, out, a)
  BY DEF SwapOutput, AfterFee
<1>8. MinimumKept' =
        (sent' # NoSwap /\ Chained(sent'.route, sent'.packets[1].denom) =>
            SwapOutput(Pool(sent'.route[Len(sent'.route)].pool),
                       sent'.packets[Len(sent'.route)].denom, sent'.route[Len(sent'.route)].out,
                       sent'.packets[Len(sent'.route)].amount) >= sent'.minOutput)
  BY <1>6, <1>7 DEF MinimumKept, Chained, InHand, NoSwap
<1>9. QED BY <1>1, <1>2, <1>4, <1>5, <1>8

\* Whatever the pools and the hops the caller names: along hops that chain from
\* the denomination sent, the last packet is worth the minimum the sender asked
\* for, though the check (estimate_multi_hop_swap) and the packets
\* (build_multi_hop_messages) are computed apart.
THEOREM PacketsKeepTheMinimum == RouterSpec => []MinimumKept
<1>1. RouterInit => MinimumKept
  BY DEF RouterInit, MinimumKept
<1>2. MinimumKept /\ [RouterNext]_routerVars => MinimumKept'
  <2>1. SUFFICES ASSUME MinimumKept, RouterNext \/ UNCHANGED routerVars PROVE MinimumKept'
    OBVIOUS
  <2>2. CASE \E r \in CallerRoutes, d \in Denoms, a \in Amounts, m \in MinOutputs :
                ExecuteMultiHopSwap(r, d, a, m)
    <3>1. PICK r \in CallerRoutes, d \in Denoms, a \in Amounts, m \in MinOutputs :
              ExecuteMultiHopSwap(r, d, a, m)
      BY <2>2
    <3>2. Len(r) \in Nat
      BY RouterAssumption
    <3>3. QED BY <3>1, <3>2, SwapKeepsMinimum
  <2>3. CASE \/ \E p \in PoolInfos : RegisterPool(p) \/ UpdatePoolInfo(p)
             \/ \E c \in Chains : UpdateChainConfig(c) \/ RegisterRouter(c) \/ RemoveRouter(c)
    <3>1. sent' = NoSwap
      BY <2>3 DEF Changes, RegisterPool, UpdatePoolInfo, UpdateChainConfig, RegisterRouter, RemoveRouter
    <3>2. QED BY <3>1 DEF MinimumKept
  <2>4. CASE \/ \E q \in Queries, a \in Amounts, h \in 1 .. MaxHops : FindBestRoute(q[1], q[2], a, h)
             \/ Dequeue \/ Answer \/ \E t \in PoolIds \X Denoms : Visit(t)
    <3>1. sent' = NoSwap
      BY <2>4 DEF FindBestRoute, Dequeue, Answer, Visit, Searching
    <3>2. QED BY <3>1 DEF MinimumKept
  <2>5. CASE UNCHANGED routerVars
    BY <2>1, <2>5 DEF routerVars, MinimumKept, NoSwap, Chained, InHand, Pool, SwapOutput, AfterFee
  <2>6. QED BY <2>1, <2>2, <2>3, <2>4, <2>5 DEF RouterNext
<1>3. QED BY <1>1, <1>2, PTL DEF RouterSpec
-----------------------------------------------------------------------------
(* What the search of the router contract finds.  It goes by distance: seen *)
(* are the denominations that have been in the queue, depth how many hops   *)
(* away each was when it came there first.  Those that wait are in order of *)
(* distance, and whatever lies next to a denomination that does not wait    *)
(* any more was found, or marked at most one hop further away.              *)

SearchFields == {"at", "from", "to", "amount", "hops", "queue", "visited", "node", "todo", "found",
                 "routes"}

\* Pools are told apart by their ids.
PoolsApart == \A p, q \in pools : p.id = q.id => p = q

LEMMA PoolIsTheOne ==
    ASSUME PoolsApart
    PROVE  /\ \A p \in pools : Registered(p.id) /\ Pool(p.id) = p
           /\ \A u : Registered(u) => Pool(u) \in pools /\ Pool(u).id = u
BY DEF PoolsApart, Registered, Pool

\* Some discovered pool joins a and b.
Joined(a, b) == \E p \in pools : p.id \in Discovered /\ {a, b} \subseteq p.denoms /\ a # b

LEMMA WalkBegins == ASSUME NEW a \in Denoms PROVE Walk(a, a, 0)
<1> DEFINE w == [u \in 0 .. 0 |-> a]
<1>1. w \in [0 .. 0 -> Denoms] /\ w[0] = a
  OBVIOUS
<1> HIDE DEF w
<1>2. \A j \in 1 .. 0 : FALSE
  OBVIOUS
<1>3. QED BY <1>1, <1>2 DEF Walk

LEMMA WalkExtends ==
    ASSUME NEW a, NEW b, NEW c \in Denoms, NEW k \in Nat, Walk(a, b, k), Joined(b, c)
    PROVE  Walk(a, c, k + 1)
<1>1. PICK w \in [0 .. k -> Denoms] :
          /\ w[0] = a /\ w[k] = b
          /\ \A j \in 1 .. k : Joined(w[j - 1], w[j])
  BY DEF Walk, Joined
<1> DEFINE v == [u \in 0 .. k + 1 |-> IF u = k + 1 THEN c ELSE w[u]]
<1>2. \A u \in 0 .. k + 1 : u = k + 1 \/ u \in 0 .. k
  OBVIOUS
<1>3. /\ v \in [0 .. k + 1 -> Denoms] /\ v[k + 1] = c
      /\ \A u \in 0 .. k : v[u] = w[u]
  BY <1>1, <1>2
<1> HIDE DEF v
<1>4. v[0] = a /\ v[k] = b
  BY <1>1, <1>3
<1>5. ASSUME NEW j \in 1 .. k + 1 PROVE Joined(v[j - 1], v[j])
  <2>1. CASE j = k + 1
    BY <1>3, <1>4, <2>1
  <2>2. CASE j # k + 1
    <3>1. j \in 1 .. k /\ j \in 0 .. k /\ j - 1 \in 0 .. k
      BY <2>2
    <3>2. QED BY <1>1, <1>3, <3>1
  <2>3. QED BY <2>1, <2>2
<1>6. QED BY <1>3, <1>4, <1>5 DEF Walk, Joined
-----------------------------------------------------------------------------
\* The nodes still to take out, the one whose denominations are looked at included.
Unsettled(s) == {s.queue[u] : u \in 1 .. Len(s.queue)} \cup {n \in {s.node} : s.todo # {}}

IsPath(x) == \E S : x \in Seq(S)

LEMMA PathLength == \A x : IsPath(x) => Len(x) \in Nat
BY DEF IsPath

LEMMA PathExtends ==
    ASSUME NEW x, IsPath(x), NEW h
    PROVE  IsPath(Append(x, h)) /\ Len(Append(x, h)) = Len(x) + 1
<1>1. PICK S : x \in Seq(S)
  BY DEF IsPath
<1>2. x \in Seq(S \cup {h}) /\ h \in S \cup {h}
  BY <1>1
<1>3. Append(x, h) \in Seq(S \cup {h}) /\ Len(Append(x, h)) = Len(x) + 1
  BY <1>2
<1>4. QED BY <1>3 DEF IsPath

Placed(s, n) == n.denom \in Denoms /\ IsPath(n.path) /\ Walk(s.from, n.denom, Len(n.path))

Good(s) ==
    /\ DOMAIN s = SearchFields /\ {s.from, s.to} \subseteq Denoms /\ s.hops \in Nat
    /\ s.from # s.to
    /\ IsPath(s.queue)
    /\ \A n \in Unsettled(s) : Placed(s, n)
    /\ s.todo # {} => Len(s.node.path) < s.hops
    /\ \A t \in s.todo : t[2] \in Denoms /\ Joined(s.node.denom, t[2])
    /\ \A r \in s.found : IsPath(r.path) /\ Len(r.path) \in 1 .. s.hops /\ Walk(s.from, s.to, Len(r.path))

\* What the search owes for b, first found at depth[b], and c next to it.
Followed(s, seen, depth, b, c) ==
    Joined(b, c) /\ depth[b] + 1 <= s.hops =>
        /\ c = s.to => \E r \in s.found : Len(r.path) <= depth[b] + 1
        /\ c # s.to => c \in seen /\ depth[c] <= depth[b] + 1

\* A denomination that is found again, unmarked, waits in nodes of its own.
Marked(s, seen, depth) ==
    /\ seen \subseteq Denoms /\ depth \in [Denoms -> Nat]
    /\ s.from \in seen /\ depth[s.from] = 0
    /\ s.visited \subseteq seen /\ s.to \notin s.visited
    /\ \A n \in Unsettled(s) : n.denom \in seen /\ depth[n.denom] <= Len(n.path)

ByLevels(s, seen, depth) ==
    /\ \A c \in seen, n \in Unsettled(s) : depth[c] <= Len(n.path) + 1
    /\ \A n, m \in Unsettled(s) : Len(n.path) <= Len(m.path) + 1
    /\ \A u, v \in 1 .. Len(s.queue) : u <= v => Len(s.queue[u].path) <= Len(s.queue[v].path)
    /\ s.todo # {} => \A u \in 1 .. Len(s.queue) : Len(s.node.path) <= Len(s.queue[u].path)

AllFollowed(s, seen, depth) ==
    \A b \in seen, c \in Denoms :
        \/ Followed(s, seen, depth, b, c)
        \/ \E u \in 1 .. Len(s.queue) : s.queue[u].denom = b /\ Len(s.queue[u].path) = depth[b]
        \/ b = s.node.denom /\ depth[b] = Len(s.node.path) /\ \E t \in s.todo : t[2] = c

ByDistance(s, seen, depth) ==
    Marked(s, seen, depth) /\ ByLevels(s, seen, depth) /\ AllFollowed(s, seen, depth)

DistanceInv ==
    /\ PoolsApart
    /\ search.at = "searching" =>
          /\ DOMAIN search = SearchFields
          /\ search.from # search.to =>
                Good(search) /\ \E seen, depth : ByDistance(search, seen, depth)

LEMMA SearchBegins ==
    ASSUME NEW s, DOMAIN s = SearchFields, {s.from, s.to} \subseteq Denoms, s.hops \in Nat,
           s.from # s.to, NEW n, n.denom = s.from, n.path = << >>, s.queue = <<n>>,
           s.visited = {s.from}, s.todo = {}, s.found = {}
    PROVE  Good(s) /\ \E seen, depth : ByDistance(s, seen, depth)
<1>1. /\ s.queue \in Seq({n}) /\ 1 .. Len(s.queue) = {1} /\ s.queue[1] = n
      /\ n.path \in Seq({}) /\ Len(n.path) = 0
  OBVIOUS
<1>2. Unsettled(s) = {n}
  BY <1>1 DEF Unsettled
<1>3. Placed(s, n)
  BY <1>1, WalkBegins DEF Placed, IsPath
<1>4. Good(s)
  BY <1>1, <1>2, <1>3 DEF Good, IsPath
<1>5. PICK depth : depth = [c \in Denoms |-> 0]
  OBVIOUS
<1>6. depth \in [Denoms -> Nat] /\ \A c \in Denoms : depth[c] = 0
  BY <1>5
<1>7. Marked(s, {s.from}, depth)
  BY <1>1, <1>2, <1>6 DEF Marked
<1>8. ByLevels(s, {s.from}, depth)
  BY <1>1, <1>2, <1>6 DEF ByLevels
<1>9. AllFollowed(s, {s.from}, depth)
  BY <1>1, <1>6 DEF AllFollowed
<1>10. QED BY <1>4, <1>7, <1>8, <1>9 DEF ByDistance

LEMMA PathHeads ==
    ASSUME NEW q, IsPath(q), q # << >>
    PROVE  /\ Len(q) \in Nat /\ Len(q) >= 1 /\ Head(q) = q[1]
           /\ IsPath(Tail(q)) /\ Len(Tail(q)) = Len(q) - 1
           /\ \A u \in 1 .. Len(q) - 1 : u + 1 \in 1 .. Len(q) /\ Tail(q)[u] = q[u + 1]
           /\ \A u \in 1 .. Len(q) : u = 1 \/ u - 1 \in 1 .. Len(q) - 1
<1>1. PICK S : q \in Seq(S)
  BY DEF IsPath
<1>2. Len(q) \in Nat /\ Len(q) >= 1 /\ Head(q) = q[1]
  BY <1>1
<1>3. Tail(q) \in Seq(S) /\ Len(Tail(q)) = Len(q) - 1
  BY <1>1, <1>2
<1>4. ASSUME NEW u \in 1 .. Len(q) - 1
      PROVE  u + 1 \in 1 .. Len(q) /\ Tail(q)[u] = q[u + 1]
  BY <1>1, <1>2, <1>4
<1>5. \A u \in 1 .. Len(q) : u = 1 \/ u - 1 \in 1 .. Len(q) - 1
  BY <1>2
<1>6. QED BY <1>2, <1>3, <1>4, <1>5 DEF IsPath

LEMMA PathAppends ==
    ASSUME NEW q, IsPath(q), NEW e
    PROVE  /\ Len(q) \in Nat /\ Len(Append(q, e)) = Len(q) + 1
           /\ \A u \in 1 .. Len(q) : Append(q, e)[u] = q[u]
           /\ Append(q, e)[Len(q) + 1] = e
           /\ \A u \in 1 .. Len(q) + 1 : u \in 1 .. Len(q) \/ u = Len(q) + 1
<1>1. PICK S : q \in Seq(S)
  BY DEF IsPath
<1>2. QED BY <1>1

LEMMA TakenOut ==
    ASSUME NEW s, NEW s2, Good(s), s.todo = {}, s.queue # << >>,
           NEW n, n = Head(s.queue),
           DOMAIN s2 = SearchFields,
           s2.from = s.from, s2.to = s.to, s2.hops = s.hops, s2.visited = s.visited,
           s2.found = s.found, s2.queue = Tail(s.queue), s2.node = n,
           \A t \in s2.todo : Len(n.path) < s.hops /\ t[2] \in Denoms /\ Joined(n.denom, t[2]),
           Len(n.path) < s.hops =>
               \A c \in Denoms : Joined(n.denom, c) => \E t \in s2.todo : t[2] = c
    PROVE  /\ Good(s2)
           /\ \A seen, depth : ByDistance(s, seen, depth) => ByDistance(s2, seen, depth)
<1>0. IsPath(s.queue) /\ s.hops \in Nat
  BY DEF Good
<1> DEFINE q == s.queue
           l == Len(s.queue)
<1>1. /\ l \in Nat /\ l >= 1 /\ n = q[1] /\ IsPath(s2.queue) /\ Len(s2.queue) = l - 1
      /\ \A u \in 1 .. l - 1 : u + 1 \in 1 .. l /\ s2.queue[u] = q[u + 1]
      /\ \A u \in 1 .. l : u = 1 \/ u - 1 \in 1 .. l - 1
  BY <1>0, PathHeads
<1>2. Unsettled(s2) \subseteq Unsettled(s) /\ n \in Unsettled(s)
  <2>1. 1 \in 1 .. l
    BY <1>1
  <2>2. QED BY <1>1, <2>1 DEF Unsettled
<1>3. \A m \in Unsettled(s2) : Placed(s2, m)
  BY <1>2 DEF Good, Placed
<1>4. Good(s2)
  BY <1>1, <1>3 DEF Good
<1>5. ASSUME NEW seen, NEW depth, ByDistance(s, seen, depth)
      PROVE  ByDistance(s2, seen, depth)
  <2>0. /\ seen \subseteq Denoms /\ depth \in [Denoms -> Nat]
        /\ IsPath(n.path) /\ Len(n.path) \in Nat /\ n.denom \in Denoms
    BY <1>2, <1>5, PathLength DEF ByDistance, Marked, Good, Placed
  <2>1. Marked(s2, seen, depth)
    BY <1>2, <1>5 DEF ByDistance, Marked
  <2>2. ByLevels(s2, seen, depth)
    <3>1. /\ \A c \in seen, m \in Unsettled(s2) : depth[c] <= Len(m.path) + 1
          /\ \A m, k \in Unsettled(s2) : Len(m.path) <= Len(k.path) + 1
      BY <1>2, <1>5 DEF ByDistance, ByLevels
    <3>2. \A u, v \in 1 .. l : u <= v => Len(q[u].path) <= Len(q[v].path)
      BY <1>5 DEF ByDistance, ByLevels
    <3>3. ASSUME NEW u \in 1 .. Len(s2.queue), NEW v \in 1 .. Len(s2.queue), u <= v
          PROVE  Len(s2.queue[u].path) <= Len(s2.queue[v].path)
      <4>1. u + 1 \in 1 .. l /\ v + 1 \in 1 .. l /\ u + 1 <= v + 1
        BY <1>1, <3>3
      <4>2. s2.queue[u] = q[u + 1] /\ s2.queue[v] = q[v + 1]
        BY <1>1
      <4>3. QED BY <3>2, <4>1, <4>2
    <3>4. ASSUME NEW u \in 1 .. Len(s2.queue)
          PROVE  Len(n.path) <= Len(s2.queue[u].path)
      <4>1. 1 \in 1 .. l /\ u + 1 \in 1 .. l /\ 1 <= u + 1
        BY <1>1
      <4>2. n = q[1] /\ s2.queue[u] = q[u + 1]
        BY <1>1
      <4>3. QED BY <3>2, <4>1, <4>2
    <3>5. QED BY <3>1, <3>3, <3>4 DEF ByLevels
  <2>3. ASSUME NEW b \in seen, NEW c \in Denoms
        PROVE  \/ Followed(s2, seen, depth, b, c)
               \/ \E u \in 1 .. Len(s2.queue) :
                    s2.queue[u].denom = b /\ Len(s2.queue[u].path) = depth[b]
               \/ b = s2.node.denom /\ depth[b] = Len(s2.node.path) /\ \E t \in s2.todo : t[2] = c
    <3>1. \/ Followed(s, seen, depth, b, c)
          \/ \E u \in 1 .. l : q[u].denom = b /\ Len(q[u].path) = depth[b]
      BY <1>5 DEF ByDistance, AllFollowed
    <3>2. CASE Followed(s, seen, depth, b, c)
      BY <3>2 DEF Followed
    <3>3. ASSUME NEW u \in 1 .. l, q[u].denom = b, Len(q[u].path) = depth[b]
          PROVE  \/ Followed(s2, seen, depth, b, c)
                 \/ \E v \in 1 .. Len(s2.queue) :
                      s2.queue[v].denom = b /\ Len(s2.queue[v].path) = depth[b]
                 \/ b = n.denom /\ depth[b] = Len(n.path) /\ \E t \in s2.todo : t[2] = c
      <4>1. CASE u = 1
        <5>1. b = n.denom /\ depth[b] = Len(n.path)
          BY <1>1, <3>3, <4>1
        <5>2. CASE Joined(b, c) /\ Len(n.path) < s.hops
          BY <5>1, <5>2
        <5>3. CASE ~(Joined(b, c) /\ Len(n.path) < s.hops)
          BY <1>0, <2>0, <5>1, <5>3 DEF Followed
        <5>4. QED BY <5>2, <5>3
      <4>2. CASE u # 1
        <5>1. u - 1 \in 1 .. l - 1 /\ (u - 1) + 1 = u
          BY <1>1, <4>2
        <5>2. s2.queue[u - 1] = q[u] /\ u - 1 \in 1 .. Len(s2.queue)
          BY <1>1, <5>1
        <5>3. QED BY <3>3, <5>2
      <4>3. QED BY <4>1, <4>2
    <3>4. QED BY <3>1, <3>2, <3>3
  <2>4. QED BY <2>1, <2>2, <2>3 DEF ByDistance, AllFollowed
<1>6. QED BY <1>4, <1>5
-----------------------------------------------------------------------------
\* A denomination was looked at, and the queue stays as it was.
LEMMA LookedAt ==
    ASSUME NEW s, NEW s2, Good(s), NEW t \in s.todo,
           DOMAIN s2 = SearchFields,
           s2.from = s.from, s2.to = s.to, s2.hops = s.hops, s2.visited = s.visited,
           s2.queue = s.queue, s2.node = s.node, s2.todo = s.todo \ {t},
           s.found \subseteq s2.found,
           \A r \in s2.found \ s.found : IsPath(r.path) /\ Len(r.path) = Len(s.node.path) + 1,
           t[2] # s.to => t[2] \in s.visited /\ s2.found = s.found,
           t[2] = s.to => \E r \in s2.found : Len(r.path) = Len(s.node.path) + 1
    PROVE  /\ Good(s2)
           /\ \A seen, depth : ByDistance(s, seen, depth) => ByDistance(s2, seen, depth)
<1>1. Unsettled(s2) \subseteq Unsettled(s) /\ s.node \in Unsettled(s)
  BY DEF Unsettled
<1>2. /\ Placed(s, s.node) /\ s.hops \in Nat /\ Len(s.node.path) < s.hops
      /\ t[2] \in Denoms /\ Joined(s.node.denom, t[2])
  BY <1>1 DEF Good
<1>3. Len(s.node.path) \in Nat /\ s.node.denom \in Denoms
  BY <1>2, PathLength DEF Placed
<1>4. Good(s2)
  <2>1. \A m \in Unsettled(s2) : Placed(s2, m)
    BY <1>1 DEF Good, Placed
  <2>2. ASSUME NEW r \in s2.found
        PROVE  IsPath(r.path) /\ Len(r.path) \in 1 .. s.hops /\ Walk(s.from, s.to, Len(r.path))
    <3>1. CASE r \in s.found
      BY <3>1 DEF Good
    <3>2. CASE r \notin s.found
      <4>1. t[2] = s.to /\ IsPath(r.path) /\ Len(r.path) = Len(s.node.path) + 1
        BY <2>2, <3>2
      <4>2. Walk(s.from, s.to, Len(s.node.path) + 1)
        BY <1>2, <1>3, <4>1, WalkExtends DEF Placed
      <4>3. Len(s.node.path) + 1 \in 1 .. s.hops
        BY <1>2, <1>3
      <4>4. QED BY <4>1, <4>2, <4>3
    <3>3. QED BY <3>1, <3>2
  <2>3. QED BY <2>1, <2>2 DEF Good
<1>5. ASSUME NEW seen, NEW depth, ByDistance(s, seen, depth)
      PROVE  ByDistance(s2, seen, depth)
  <2>1. Marked(s2, seen, depth) /\ Marked(s, seen, depth)
    BY <1>1, <1>5 DEF ByDistance, Marked
  <2>2. ByLevels(s2, seen, depth)
    BY <1>1, <1>5 DEF ByDistance, ByLevels
  <2>3. ASSUME NEW b \in seen, NEW c \in Denoms
        PROVE  \/ Followed(s2, seen, depth, b, c)
               \/ \E u \in 1 .. Len(s2.queue) :
                    s2.queue[u].denom = b /\ Len(s2.queue[u].path) = depth[b]
               \/ b = s2.node.denom /\ depth[b] = Len(s2.node.path) /\ \E v \in s2.todo : v[2] = c
    <3>1. \/ Followed(s, seen, depth, b, c)
          \/ \E u \in 1 .. Len(s.queue) : s.queue[u].denom = b /\ Len(s.queue[u].path) = depth[b]
          \/ b = s.node.denom /\ depth[b] = Len(s.node.path) /\ \E v \in s.todo : v[2] = c
      BY <1>5 DEF ByDistance, AllFollowed
    <3>2. CASE Followed(s, seen, depth, b, c)
      BY <3>2 DEF Followed
    <3>3. ASSUME b = s.node.denom, depth[b] = Len(s.node.path), c = t[2]
          PROVE  Followed(s2, seen, depth, b, c)
      <4>1. CASE c = s.to
        <5>1. PICK r \in s2.found : Len(r.path) = Len(s.node.path) + 1
          BY <3>3, <4>1
        <5>2. Len(r.path) <= depth[b] + 1
          BY <1>3, <3>3, <5>1
        <5>3. QED BY <4>1, <5>2 DEF Followed
      <4>2. CASE c # s.to
        <5>1. c \in seen
          BY <2>1, <3>3, <4>2 DEF Marked
        <5>2. depth[c] <= depth[b] + 1
          BY <1>1, <1>5, <3>3, <5>1 DEF ByDistance, ByLevels
        <5>3. QED BY <4>2, <5>1, <5>2 DEF Followed
      <4>3. QED BY <4>1, <4>2
    <3>4. QED BY <3>1, <3>2, <3>3
  <2>4. QED BY <2>1, <2>2, <2>3 DEF ByDistance, AllFollowed
<1>6. QED BY <1>4, <1>5
-----------------------------------------------------------------------------
\* A denomination is found, for the first time or again, and waits.
LEMMA Enqueued ==
    ASSUME NEW s, NEW s2, Good(s), NEW t \in s.todo, t[2] # s.to, NEW e,
           e.denom = t[2], IsPath(e.path), Len(e.path) = Len(s.node.path) + 1,
           DOMAIN s2 = SearchFields,
           s2.from = s.from, s2.to = s.to, s2.hops = s.hops, s2.found = s.found,
           s2.visited \subseteq s.visited \cup {t[2]},
           s2.queue = Append(s.queue, e), s2.node = s.node, s2.todo = s.todo \ {t},
           IsPath(s2.queue)
    PROVE  /\ Good(s2)
           /\ \A seen, depth : ByDistance(s, seen, depth) =>
                  \E wider, deeper : ByDistance(s2, wider, deeper)
<1>0. IsPath(s.queue)
  BY DEF Good
<1> DEFINE l == Len(s.queue)
           h == Len(s.node.path)
           c == t[2]
<1>1. /\ l \in Nat /\ Len(s2.queue) = l + 1 /\ s2.queue[l + 1] = e
      /\ \A u \in 1 .. l : s2.queue[u] = s.queue[u]
      /\ \A u \in 1 .. l + 1 : u \in 1 .. l \/ u = l + 1
      /\ l + 1 \in 1 .. l + 1 /\ \A u \in 1 .. l : u \in 1 .. l + 1
  BY <1>0, PathAppends
<1>2. Unsettled(s2) \subseteq Unsettled(s) \cup {e} /\ s.node \in Unsettled(s)
  BY <1>1 DEF Unsettled
<1>3. /\ Placed(s, s.node) /\ s.hops \in Nat /\ h < s.hops
      /\ c \in Denoms /\ Joined(s.node.denom, c)
  BY <1>2 DEF Good
<1>4. h \in Nat /\ s.node.denom \in Denoms
  BY <1>3, PathLength DEF Placed
<1>5. Good(s2)
  <2>1. Walk(s.from, c, h + 1)
    BY <1>3, <1>4, WalkExtends DEF Placed
  <2>2. Placed(s2, e)
    BY <1>3, <2>1 DEF Placed
  <2>3. \A m \in Unsettled(s2) : Placed(s2, m)
    BY <1>2, <2>2 DEF Good, Placed
  <2>4. QED BY <2>3 DEF Good
<1>6. ASSUME NEW seen, NEW depth, ByDistance(s, seen, depth)
      PROVE  \E wider, deeper : ByDistance(s2, wider, deeper)
  <2>0. /\ seen \subseteq Denoms /\ depth \in [Denoms -> Nat] /\ s.from \in seen
        /\ \A m \in Unsettled(s) : m.denom \in seen /\ depth[m.denom] <= Len(m.path)
    BY <1>6 DEF ByDistance, Marked
  <2>1. \A m \in Unsettled(s) : Len(m.path) \in Nat /\ m.denom \in Denoms
    BY PathLength DEF Good, Placed
  <2>2. \A m \in Unsettled(s) : Len(m.path) <= h + 1 /\ h <= Len(m.path)
    <3>1. \A m \in Unsettled(s) : Len(m.path) <= h + 1
      BY <1>2, <1>6 DEF ByDistance, ByLevels
    <3>2. \A u \in 1 .. l : h <= Len(s.queue[u].path)
      BY <1>6 DEF ByDistance, ByLevels
    <3>3. QED BY <1>4, <3>1, <3>2 DEF Unsettled
  <2>3. PICK wider : wider = seen \cup {c}
    OBVIOUS
  <2>4. PICK deeper \in [Denoms -> Nat] :
          /\ \A b \in seen : deeper[b] = depth[b]
          /\ c \notin seen => deeper[c] = h + 1
    <3>1. CASE c \in seen
      BY <2>0, <3>1
    <3>2. CASE c \notin seen
      <4> DEFINE f == [depth EXCEPT ![c] = h + 1]
      <4>1. f \in [Denoms -> Nat] /\ f[c] = h + 1 /\ \A b \in Denoms : b # c => f[b] = depth[b]
        BY <1>3, <1>4, <2>0
      <4>2. \A b \in seen : f[b] = depth[b]
        BY <2>0, <3>2, <4>1
      <4> HIDE DEF f
      <4>3. QED BY <4>1, <4>2
    <3>3. QED BY <3>1, <3>2
  <2>5. c \in wider /\ deeper[c] <= h + 1 /\ deeper[c] \in Nat
    <3>1. c \in seen => depth[c] <= h + 1
      BY <1>2, <1>6 DEF ByDistance, ByLevels
    <3>2. QED BY <1>3, <1>4, <2>3, <2>4, <3>1
  <2>6. Marked(s2, wider, deeper)
    <3>1. deeper[s.from] = 0
      BY <1>6, <2>0, <2>4 DEF ByDistance, Marked
    <3>2. s2.visited \subseteq wider /\ s.to \notin s2.visited
      BY <1>6, <2>3 DEF ByDistance, Marked
    <3>3. ASSUME NEW m \in Unsettled(s2) PROVE m.denom \in wider /\ deeper[m.denom] <= Len(m.path)
      <4>1. CASE m \in Unsettled(s)
        BY <2>0, <2>3, <2>4, <4>1
      <4>2. CASE m = e
        BY <2>5, <4>2
      <4>3. QED BY <1>2, <4>1, <4>2
    <3>4. QED BY <1>3, <2>0, <2>3, <2>4, <3>1, <3>2, <3>3 DEF Marked
  <2>7. ByLevels(s2, wider, deeper)
    <3>1. ASSUME NEW b \in wider, NEW m \in Unsettled(s2)
          PROVE  deeper[b] <= Len(m.path) + 1
      <4>1. ASSUME b \in seen, m \in Unsettled(s) PROVE deeper[b] <= Len(m.path) + 1
        BY <1>6, <2>4, <4>1 DEF ByDistance, ByLevels
      <4>2. ASSUME b \in seen, m = e PROVE deeper[b] <= Len(m.path) + 1
        <5>1. depth[b] <= h + 1 /\ depth[b] \in Nat
          BY <1>2, <1>6, <2>0, <4>2 DEF ByDistance, ByLevels
        <5>2. QED BY <1>4, <2>4, <4>2, <5>1
      <4>3. ASSUME b = c, m \in Unsettled(s) PROVE deeper[b] <= Len(m.path) + 1
        BY <1>4, <2>1, <2>2, <2>5, <4>3
      <4>4. ASSUME b = c, m = e PROVE deeper[b] <= Len(m.path) + 1
        BY <1>4, <2>5, <4>4
      <4>5. QED BY <1>2, <2>3, <4>1, <4>2, <4>3, <4>4
    <3>2. ASSUME NEW m \in Unsettled(s2), NEW k \in Unsettled(s2)
          PROVE  Len(m.path) <= Len(k.path) + 1
      <4>1. ASSUME m \in Unsettled(s), k \in Unsettled(s) PROVE Len(m.path) <= Len(k.path) + 1
        BY <1>6, <4>1 DEF ByDistance, ByLevels
      <4>2. ASSUME m \in Unsettled(s), k = e PROVE Len(m.path) <= Len(k.path) + 1
        BY <1>4, <2>1, <2>2, <4>2
      <4>3. ASSUME m = e, k \in Unsettled(s) PROVE Len(m.path) <= Len(k.path) + 1
        BY <1>4, <2>1, <2>2, <4>3
      <4>4. ASSUME m = e, k = e PROVE Len(m.path) <= Len(k.path) + 1
        BY <1>4, <4>4
      <4>5. QED BY <1>2, <4>1, <4>2, <4>3, <4>4
    <3>3. ASSUME NEW u \in 1 .. Len(s2.queue), NEW v \in 1 .. Len(s2.queue), u <= v
          PROVE  Len(s2.queue[u].path) <= Len(s2.queue[v].path)
      <4>0. u \in Nat /\ v \in Nat /\ l \in Nat
        BY <1>1
      <4>1. CASE u \in 1 .. l /\ v \in 1 .. l
        BY <1>1, <1>6, <3>3, <4>1 DEF ByDistance, ByLevels
      <4>2. CASE u \in 1 .. l /\ v = l + 1
        <5>1. s2.queue[u] \in Unsettled(s)
          BY <1>1, <4>2 DEF Unsettled
        <5>2. QED BY <1>1, <2>2, <4>2, <5>1
      <4>3. CASE u = l + 1
        <5>1. v = l + 1
          BY <1>1, <3>3, <4>0, <4>3
        <5>2. QED BY <1>1, <1>4, <4>3, <5>1
      <4>4. QED BY <1>1, <4>1, <4>2, <4>3
    <3>4. ASSUME NEW u \in 1 .. Len(s2.queue), s2.todo # {}
          PROVE  h <= Len(s2.queue[u].path)
      <4>1. CASE u \in 1 .. l
        BY <1>1, <1>6, <4>1 DEF ByDistance, ByLevels
      <4>2. CASE u = l + 1
        BY <1>1, <1>4, <4>2
      <4>3. QED BY <1>1, <4>1, <4>2
    <3>5. QED BY <3>1, <3>2, <3>3, <3>4 DEF ByLevels
  <2>8. ASSUME NEW b \in wider, NEW x \in Denoms
        PROVE  \/ Followed(s2, wider, deeper, b, x)
               \/ \E u \in 1 .. Len(s2.queue) :
                    s2.queue[u].denom = b /\ Len(s2.queue[u].path) = deeper[b]
               \/ b = s2.node.denom /\ deeper[b] = Len(s2.node.path) /\ \E v \in s2.todo : v[2] = x
    <3>1. CASE b \notin seen
      <4>1. b = c /\ deeper[b] = h + 1
        BY <2>3, <2>4, <3>1
      <4>2. l + 1 \in 1 .. Len(s2.queue) /\ s2.queue[l + 1] = e
        BY <1>1
      <4>3. QED BY <4>1, <4>2
    <3>2. CASE b \in seen
      <4>0. deeper[b] = depth[b]
        BY <2>4, <3>2
      <4>1. \/ Followed(s, seen, depth, b, x)
            \/ \E u \in 1 .. l : s.queue[u].denom = b /\ Len(s.queue[u].path) = depth[b]
            \/ b = s.node.denom /\ depth[b] = h /\ \E v \in s.todo : v[2] = x
        BY <1>6, <3>2 DEF ByDistance, AllFollowed
      <4>2. CASE Followed(s, seen, depth, b, x)
        <5>1. x \in seen => x \in wider /\ deeper[x] = depth[x]
          BY <2>3, <2>4
        <5>2. QED BY <4>0, <4>2, <5>1 DEF Followed
      <4>3. ASSUME NEW u \in 1 .. l, s.queue[u].denom = b, Len(s.queue[u].path) = depth[b]
            PROVE  \E v \in 1 .. Len(s2.queue) :
                       s2.queue[v].denom = b /\ Len(s2.queue[v].path) = deeper[b]
        BY <1>1, <4>0, <4>3
      <4>4. ASSUME b = s.node.denom, depth[b] = h, NEW v \in s.todo, v[2] = x
            PROVE  Followed(s2, wider, deeper, b, x) \/ v \in s2.todo
        <5>1. CASE v = t
          <6>1. x = c /\ x # s.to
            BY <4>4, <5>1
          <6>2. deeper[x] <= deeper[b] + 1
            BY <2>5, <4>0, <4>4, <6>1
          <6>3. QED BY <2>5, <6>1, <6>2 DEF Followed
        <5>2. QED BY <5>1
      <4>5. QED BY <4>0, <4>1, <4>2, <4>3, <4>4
    <3>3. QED BY <3>1, <3>2
  <2>9. QED BY <2>6, <2>7, <2>8 DEF ByDistance, AllFollowed
<1>7. QED BY <1>5, <1>6
-----------------------------------------------------------------------------
\* What a search has found when nothing waits any more.
LEMMA ShortestAreFound ==
    ASSUME NEW s, Good(s), NEW seen, NEW depth, ByDistance(s, seen, depth),
           s.todo = {}, s.queue = << >>,
           NEW k \in 1 .. s.hops, Walk(s.from, s.to, k)
    PROVE  \E r \in s.found : Len(r.path) <= k
<1>0. s.hops \in Nat /\ s.from # s.to /\ k \in Nat /\ k <= s.hops
      /\ seen \subseteq Denoms /\ depth \in [Denoms -> Nat]
      /\ s.from \in seen /\ depth[s.from] = 0
      /\ \A r \in s.found : Len(r.path) \in Nat
  BY DEF Good, ByDistance, Marked
<1>1. PICK w \in [0 .. k -> Denoms] :
          /\ w[0] = s.from /\ w[k] = s.to
          /\ \A j \in 1 .. k : Joined(w[j - 1], w[j])
  BY DEF Walk, Joined
<1>2. \A b \in seen, c \in Denoms : Followed(s, seen, depth, b, c)
  BY DEF ByDistance, AllFollowed
<1> DEFINE Reached(j) == \/ \E r \in s.found : Len(r.path) <= j
                         \/ w[j] \in seen /\ w[j] # s.to /\ depth[w[j]] <= j
           Steps == {j \in Nat : j <= k => Reached(j)}
<1>3. 0 \in Steps
  BY <1>0, <1>1
<1>4. ASSUME NEW j \in Nat, j \in Steps
      PROVE  j + 1 \in Steps
  <2>1. SUFFICES ASSUME j + 1 <= k PROVE Reached(j + 1)
    OBVIOUS
  <2>2. j <= k /\ j + 1 \in 1 .. k /\ j \in 0 .. k /\ j + 1 \in 0 .. k /\ (j + 1) - 1 = j
    BY <1>0, <2>1
  <2>3. Reached(j)
    BY <1>4, <2>2
  <2>4. ASSUME NEW r \in s.found, Len(r.path) <= j PROVE Len(r.path) <= j + 1
    BY <1>0, <2>4
  <2>5. ASSUME w[j] \in seen, w[j] # s.to, depth[w[j]] <= j
        PROVE  Reached(j + 1)
    <3>1. Joined(w[j], w[j + 1]) /\ w[j + 1] \in Denoms
      BY <1>1, <2>2
    <3>2. depth[w[j]] \in Nat /\ depth[w[j]] + 1 <= j + 1 /\ depth[w[j]] + 1 <= s.hops
      BY <1>0, <2>1, <2>5
    <3>3. /\ w[j + 1] = s.to => \E r \in s.found : Len(r.path) <= depth[w[j]] + 1
          /\ w[j + 1] # s.to => w[j + 1] \in seen /\ depth[w[j + 1]] <= depth[w[j]] + 1
      BY <1>2, <2>5, <3>1, <3>2 DEF Followed
    <3>4. CASE w[j + 1] = s.to
      <4>1. PICK r \in s.found : Len(r.path) <= depth[w[j]] + 1
        BY <3>3, <3>4
      <4>2. Len(r.path) <= j + 1
        BY <1>0, <3>2, <4>1
      <4>3. QED BY <4>2
    <3>5. CASE w[j + 1] # s.to
      <4>1. w[j + 1] \in seen /\ depth[w[j + 1]] <= depth[w[j]] + 1 /\ depth[w[j + 1]] \in Nat
        BY <1>0, <3>1, <3>3, <3>5
      <4>2. depth[w[j + 1]] <= j + 1
        BY <3>2, <4>1
      <4>3. QED BY <3>5, <4>1, <4>2
    <3>6. QED BY <3>4, <3>5
  <2>6. QED BY <2>3, <2>4, <2>5
<1>5. k \in Steps
  <2> HIDE DEF Steps
  <2>1. QED BY <1>0, <1>3, <1>4, NaturalsAreGood
<1>6. QED BY <1>0, <1>1, <1>5
-----------------------------------------------------------------------------
\* What holds of a search holds as long as the pools stay.
LEMMA PoolsStay ==
    ASSUME pools' = pools, NEW s, Good(s), NEW seen, NEW depth, ByDistance(s, seen, depth)
    PROVE  Good(s)' /\ ByDistance(s, seen, depth)'
<1>1. \A a, b, k : Walk(a, b, k)' <=> Walk(a, b, k)
  BY DEF Walk
<1>2. \A a, b : Joined(a, b)' <=> Joined(a, b)
  BY DEF Joined
<1>3. Good(s)'
  BY <1>1, <1>2 DEF Good, Placed, Unsettled
<1>4. ByDistance(s, seen, depth)'
  BY <1>1, <1>2 DEF ByDistance, Marked, ByLevels, AllFollowed, Followed, Unsettled
<1>5. QED BY <1>3, <1>4

LEMMA TakenOutOfQueue ==
    ASSUME DistanceInv, Dequeue
    PROVE  DistanceInv'
<1>1. PICK s : s = search
  OBVIOUS
<1>2. PICK s2 : s2 = search'
  OBVIOUS
<1>3. /\ s.at = "searching" /\ s.todo = {} /\ s.queue # << >> /\ pools' = pools
      /\ s2 = [s EXCEPT !.queue = Tail(@), !.node = Head(s.queue),
                        !.todo = {t \in Discovered \X Denoms :
                                    /\ Len(Head(s.queue).path) < s.hops
                                    /\ Registered(t[1]) /\ t[2] # Head(s.queue).denom
                                    /\ {Head(s.queue).denom, t[2]} \subseteq Pool(t[1]).denoms}]
  BY <1>1, <1>2 DEF Dequeue, Searching, GoesOn
<1>4. PoolsApart /\ PoolsApart'
  BY <1>3 DEF DistanceInv, PoolsApart
<1>5. CASE s.from = s.to
  <2>1. DOMAIN s = SearchFields
    BY <1>1, <1>3 DEF DistanceInv
  <2>2. s2.from = s2.to /\ DOMAIN s2 = SearchFields
    BY <1>3, <1>5, <2>1 DEF SearchFields
  <2>3. QED BY <1>2, <1>4, <2>2 DEF DistanceInv
<1>6. CASE s.from # s.to
  <2>1. Good(s) /\ \E seen, depth : ByDistance(s, seen, depth)
    BY <1>1, <1>3, <1>6 DEF DistanceInv
  <2>2. DOMAIN s = SearchFields
    BY <2>1 DEF Good
  <2>3. PICK n : n = Head(s.queue)
    OBVIOUS
  <2>4. /\ DOMAIN s2 = SearchFields
        /\ s2.from = s.from /\ s2.to = s.to /\ s2.hops = s.hops /\ s2.visited = s.visited
        /\ s2.found = s.found /\ s2.queue = Tail(s.queue) /\ s2.node = n
    BY <1>3, <2>2, <2>3 DEF SearchFields
  <2>10. s2.todo = {t \in Discovered \X Denoms :
                      /\ Len(n.path) < s.hops
                      /\ Registered(t[1]) /\ t[2] # n.denom
                      /\ {n.denom, t[2]} \subseteq Pool(t[1]).denoms}
    BY <1>3, <2>2, <2>3 DEF SearchFields
  <2>5. ASSUME NEW t \in s2.todo
        PROVE  Len(n.path) < s.hops /\ t[2] \in Denoms /\ Joined(n.denom, t[2])
    <3>1. /\ t \in Discovered \X Denoms /\ Registered(t[1]) /\ Len(n.path) < s.hops
          /\ t[2] # n.denom /\ {n.denom, t[2]} \subseteq Pool(t[1]).denoms
      BY <2>10
    <3>2. Pool(t[1]) \in pools /\ Pool(t[1]).id \in Discovered
      BY <1>4, <3>1, PoolIsTheOne
    <3>3. QED BY <3>1, <3>2 DEF Joined
  <2>6. ASSUME Len(n.path) < s.hops, NEW c \in Denoms, Joined(n.denom, c)
        PROVE  \E t \in s2.todo : t[2] = c
    <3>1. PICK p \in pools : p.id \in Discovered /\ {n.denom, c} \subseteq p.denoms /\ n.denom # c
      BY <2>6 DEF Joined
    <3>2. Registered(p.id) /\ Pool(p.id) = p
      BY <1>4, PoolIsTheOne
    <3>3. <<p.id, c>> \in s2.todo
      BY <2>10, <2>6, <3>1, <3>2
    <3>4. QED BY <3>3
  <2>7. Good(s2) /\ \E seen, depth : ByDistance(s2, seen, depth)
    <3>1. /\ \A t \in s2.todo : Len(n.path) < s.hops /\ t[2] \in Denoms /\ Joined(n.denom, t[2])
          /\ Len(n.path) < s.hops =>
                 \A c \in Denoms : Joined(n.denom, c) => \E t \in s2.todo : t[2] = c
      BY <2>5, <2>6
    <3>2. /\ Good(s2)
          /\ \A seen, depth : ByDistance(s, seen, depth) => ByDistance(s2, seen, depth)
      <4>1. Good(s) /\ s.todo = {} /\ s.queue # << >>
        BY <1>3, <2>1
      <4>2. QED BY <2>3, <2>4, <3>1, <4>1, TakenOut
    <3>3. QED BY <2>1, <3>2
  <2>8. (Good(s2) /\ \E seen, depth : ByDistance(s2, seen, depth))'
    BY <1>3, <2>7, PoolsStay
  <2>9. QED BY <1>2, <1>4, <2>4, <2>8 DEF DistanceInv
<1>7. QED BY <1>5, <1>6

LEMMA OneVisited ==
    ASSUME DistanceInv, NEW t, Visit(t)
    PROVE  DistanceInv'
<1>1. PICK s : s = search
  OBVIOUS
<1>2. PICK s2 : s2 = search'
  OBVIOUS
<1>3. PICK e : e = [denom |-> t[2],
                    amount |-> SwapOutput(Pool(t[1]), s.node.denom, t[2], s.node.amount),
                    path |-> Append(s.node.path, Hop(Pool(t[1]), s.node.denom, t[2]))]
  OBVIOUS
<1>4. PICK rest : rest = [s EXCEPT !.todo = @ \ {t}]
  OBVIOUS
<1>5. PICK v : v = IF Cardinality(s.found) < MaxRoutes THEN s.visited \cup {t[2]} ELSE s.visited
  OBVIOUS
<1>6. /\ s.at = "searching" /\ t \in s.todo /\ pools' = pools
      /\ \/ t[2] \in s.visited /\ s2 = rest
         \/ s2 = NoSearch
         \/ t[2] = s.to /\ s2 = [rest EXCEPT !.found = @ \cup {e}]
         \/ t[2] # s.to /\ s2 = [rest EXCEPT !.queue = Append(@, e), !.visited = v]
  BY <1>1, <1>2, <1>3, <1>4, <1>5 DEF Visit, Searching, Explored
<1>7. PoolsApart /\ PoolsApart' /\ v \subseteq s.visited \cup {t[2]}
  BY <1>5, <1>6 DEF DistanceInv, PoolsApart
<1>8. DOMAIN s = SearchFields
  BY <1>1, <1>6 DEF DistanceInv
<1>9. /\ DOMAIN rest = SearchFields
      /\ rest.from = s.from /\ rest.to = s.to /\ rest.hops = s.hops /\ rest.visited = s.visited
      /\ rest.queue = s.queue /\ rest.node = s.node /\ rest.todo = s.todo \ {t}
      /\ rest.found = s.found
  BY <1>4, <1>8 DEF SearchFields
<1>10. CASE s2 = NoSearch
  BY <1>2, <1>7, <1>10 DEF DistanceInv, NoSearch
<1>11. s2 # NoSearch => DOMAIN s2 = SearchFields /\ s2.from = s.from /\ s2.to = s.to
  BY <1>6, <1>9 DEF SearchFields
<1>12. CASE s.from = s.to /\ s2 # NoSearch
  BY <1>2, <1>7, <1>11, <1>12 DEF DistanceInv
<1>13. CASE s.from # s.to /\ s2 # NoSearch
  <2>1. Good(s) /\ \E seen, depth : ByDistance(s, seen, depth)
    BY <1>1, <1>6, <1>13 DEF DistanceInv
  <2>2. IsPath(s.queue)
    BY <2>1 DEF Good
  <2>3. e.denom = t[2] /\ IsPath(e.path) /\ Len(e.path) = Len(s.node.path) + 1
    <3>1. s.node \in Unsettled(s)
      BY <1>6 DEF Unsettled
    <3>2. IsPath(s.node.path)
      BY <2>1, <3>1 DEF Good, Placed
    <3>3. QED BY <1>3, <3>2, PathExtends
  <2>4. Good(s2) /\ \E seen, depth : ByDistance(s2, seen, depth)
    <3>1. CASE t[2] \in s.visited /\ s2 = rest
      <4>1. t[2] # s.to
        BY <2>1, <3>1 DEF ByDistance, Marked
      <4>2. QED BY <1>6, <1>9, <2>1, <3>1, <4>1, LookedAt
    <3>2. CASE t[2] = s.to /\ s2 = [rest EXCEPT !.found = @ \cup {e}]
      <4>1. /\ DOMAIN s2 = SearchFields
            /\ s2.from = s.from /\ s2.to = s.to /\ s2.hops = s.hops /\ s2.visited = s.visited
            /\ s2.queue = s.queue /\ s2.node = s.node /\ s2.todo = s.todo \ {t}
            /\ s2.found = s.found \cup {e}
        BY <1>9, <3>2 DEF SearchFields
      <4>2. /\ s.found \subseteq s2.found
            /\ \A r \in s2.found \ s.found : IsPath(r.path) /\ Len(r.path) = Len(s.node.path) + 1
            /\ \E r \in s2.found : Len(r.path) = Len(s.node.path) + 1
        BY <2>3, <4>1
      <4>3. QED BY <1>6, <2>1, <3>2, <4>1, <4>2, LookedAt
    <3>3. CASE t[2] # s.to /\ s2 = [rest EXCEPT !.queue = Append(@, e), !.visited = v]
      <4>1. /\ DOMAIN s2 = SearchFields
            /\ s2.from = s.from /\ s2.to = s.to /\ s2.hops = s.hops /\ s2.visited = v
            /\ s2.queue = Append(s.queue, e) /\ s2.node = s.node /\ s2.todo = s.todo \ {t}
            /\ s2.found = s.found
        BY <1>9, <3>3 DEF SearchFields
      <4>2. IsPath(s2.queue) /\ s2.visited \subseteq s.visited \cup {t[2]} /\ t[2] # s.to
        <5>1. IsPath(s2.queue)
          BY <2>2, <4>1, PathExtends
        <5>2. QED BY <1>7, <3>3, <4>1, <5>1
      <4>3. /\ Good(s2)
            /\ \A seen, depth : ByDistance(s, seen, depth) =>
                   \E wider, deeper : ByDistance(s2, wider, deeper)
        BY <1>6, <2>1, <2>3, <4>1, <4>2, Enqueued
      <4>4. QED BY <2>1, <4>3
    <3>4. QED BY <1>6, <1>13, <3>1, <3>2, <3>3
  <2>5. (Good(s2) /\ \E seen, depth : ByDistance(s2, seen, depth))'
    BY <1>6, <2>4, PoolsStay
  <2>6. QED BY <1>2, <1>7, <1>11, <1>13, <2>5 DEF DistanceInv
<1>14. QED BY <1>10, <1>12, <1>13

LEMMA SearchStarts ==
    ASSUME DistanceInv, NEW from \in Denoms, NEW to \in Denoms, NEW amount, NEW hops \in Nat,
           FindBestRoute(from, to, amount, hops)
    PROVE  DistanceInv'
<1>1. PICK s2 : s2 = search'
  OBVIOUS
<1>2. PICK n : n = [denom |-> from, amount |-> amount, path |-> << >>]
  OBVIOUS
<1>3. /\ DOMAIN s2 = SearchFields /\ s2.from = from /\ s2.to = to /\ s2.hops = hops
      /\ s2.queue = <<n>> /\ s2.visited = {from} /\ s2.todo = {} /\ s2.found = {}
      /\ pools' = pools /\ n.denom = from /\ n.path = << >>
  BY <1>1, <1>2 DEF FindBestRoute, SearchFields
<1>4. PoolsApart /\ PoolsApart'
  BY <1>3 DEF DistanceInv, PoolsApart
<1>5. CASE from = to
  BY <1>1, <1>3, <1>4, <1>5 DEF DistanceInv
<1>6. CASE from # to
  <2>1. Good(s2) /\ \E seen, depth : ByDistance(s2, seen, depth)
    BY <1>3, <1>6, SearchBegins
  <2>2. (Good(s2) /\ \E seen, depth : ByDistance(s2, seen, depth))'
    BY <1>3, <2>1, PoolsStay
  <2>3. QED BY <1>1, <1>3, <1>4, <2>2 DEF DistanceInv
<1>7. QED BY <1>5, <1>6

LEMMA DistancesStay ==
    ASSUME DistanceInv, search' = search, pools' = pools
    PROVE  DistanceInv'
<1>1. PICK s : s = search
  OBVIOUS
<1>2. PoolsApart'
  BY DEF DistanceInv, PoolsApart
<1>3. s.at = "searching" => DOMAIN s = SearchFields
  BY <1>1 DEF DistanceInv
<1>4. CASE s.at = "searching" /\ s.from # s.to
  <2>1. Good(s) /\ \E seen, depth : ByDistance(s, seen, depth)
    BY <1>1, <1>4 DEF DistanceInv
  <2>2. (Good(s) /\ \E seen, depth : ByDistance(s, seen, depth))'
    BY <2>1, PoolsStay
  <2>3. QED BY <1>1, <1>2, <1>3, <2>2 DEF DistanceInv
<1>5. CASE ~(s.at = "searching" /\ s.from # s.to)
  BY <1>1, <1>2, <1>3, <1>5 DEF DistanceInv
<1>6. QED BY <1>4, <1>5

LEMMA DistanceSteps == DistanceInv /\ [RouterNext]_routerVars => DistanceInv'
<1>1. SUFFICES ASSUME DistanceInv, RouterNext \/ UNCHANGED routerVars PROVE DistanceInv'
  OBVIOUS
<1>2. CASE UNCHANGED routerVars
  BY <1>1, <1>2, DistancesStay DEF routerVars
<1>3. ASSUME NEW p \in PoolInfos, RegisterPool(p) \/ UpdatePoolInfo(p) PROVE DistanceInv'
  <2>1. search' = search /\ search.at # "searching"
    BY <1>3 DEF RegisterPool, UpdatePoolInfo, Changes
  <2>2. PoolsApart'
    BY <1>1, <1>3 DEF DistanceInv, PoolsApart, RegisterPool, UpdatePoolInfo, Registered
  <2>3. QED BY <2>1, <2>2 DEF DistanceInv
<1>4. ASSUME NEW c \in Chains, UpdateChainConfig(c) \/ RegisterRouter(c) \/ RemoveRouter(c)
      PROVE  DistanceInv'
  BY <1>1, <1>4, DistancesStay DEF UpdateChainConfig, RegisterRouter, RemoveRouter, Changes
<1>5. ASSUME NEW u \in Queries, NEW a \in Amounts, NEW h \in 1 .. MaxHops,
             FindBestRoute(u[1], u[2], a, h)
      PROVE  DistanceInv'
  <2>1. u[1] \in Denoms /\ u[2] \in Denoms /\ h \in Nat
    BY RouterAssumption
  <2>2. QED BY <1>1, <1>5, <2>1, SearchStarts
<1>6. CASE Dequeue
  BY <1>1, <1>6, TakenOutOfQueue
<1>7. CASE Answer
  <2>1. search'.at # "searching" /\ pools' = pools
    <3>1. PICK s : s = search
      OBVIOUS
    <3>2. PICK s2 : s2 = search'
      OBVIOUS
    <3>3. /\ pools' = pools
          /\ \/ s2 = [s EXCEPT !.at = "answered"]
             \/ \E routes : s2 = [s EXCEPT !.at = "answered", !.routes = routes]
             \/ s2 = NoSearch
      BY <1>7, <3>1, <3>2 DEF Answer, Searching
    <3>4. DOMAIN s = SearchFields
      BY <1>1, <1>7, <3>1 DEF DistanceInv, Answer, Searching
    <3>5. s2.at # "searching"
      <4>1. ASSUME NEW routes, s2 = [s EXCEPT !.at = "answered", !.routes = routes]
            PROVE  s2.at = "answered"
        BY <3>4, <4>1 DEF SearchFields
      <4>2. ASSUME s2 = [s EXCEPT !.at = "answered"] PROVE s2.at = "answered"
        BY <3>4, <4>2 DEF SearchFields
      <4>3. s2 = NoSearch => s2.at = "none"
        BY DEF NoSearch
      <4>4. QED BY <3>3, <4>1, <4>2, <4>3
    <3>6. QED BY <3>2, <3>3, <3>5
  <2>2. QED BY <1>1, <2>1 DEF DistanceInv, PoolsApart
<1>8. ASSUME NEW t \in PoolIds \X Denoms, Visit(t) PROVE DistanceInv'
  BY <1>1, <1>8, OneVisited
<1>9. ASSUME NEW r \in CallerRoutes, NEW d \in Denoms, NEW a \in Amounts, NEW m \in MinOutputs,
             ExecuteMultiHopSwap(r, d, a, m)
      PROVE  DistanceInv'
  BY <1>1, <1>9, DistancesStay DEF ExecuteMultiHopSwap
<1>10. QED BY <1>1, <1>2, <1>3, <1>4, <1>5, <1>6, <1>7, <1>8, <1>9 DEF RouterNext

LEMMA DistancesAreShortest == DistanceInv => FindsShortest
<1> DEFINE apart == {k \in 1 .. search.hops : Walk(search.from, search.to, k)}
           lengths == {Len(r.path) : r \in search.found}
<1>1. SUFFICES ASSUME DistanceInv, search.at = "searching", search.queue = << >>,
                      search.todo = {}, search.from # search.to
               PROVE  /\ (apart = {}) <=> (lengths = {})
                      /\ \A k \in lengths :
                            \E m \in lengths : m <= k /\ m \in apart /\ \A j \in apart : m <= j
  BY DEF FindsShortest
<1>2. Good(search) /\ \E seen, depth : ByDistance(search, seen, depth)
  BY <1>1 DEF DistanceInv
<1>3. lengths \subseteq apart /\ apart \in SUBSET Nat
  BY <1>2 DEF Good
<1>4. \A k \in apart : \E r \in search.found : Len(r.path) <= k
  BY <1>1, <1>2, ShortestAreFound
<1> HIDE DEF apart
<1>5. (apart = {}) <=> (lengths = {})
  BY <1>3, <1>4
<1>6. ASSUME NEW k \in lengths
      PROVE  \E m \in lengths : m <= k /\ m \in apart /\ \A j \in apart : m <= j
  <2>1. PICK m \in apart : \A j \in apart : m <= j
    BY <1>3, <1>6, LeastNatural
  <2>2. PICK r \in search.found : Len(r.path) <= m
    BY <1>4
  <2>3. Len(r.path) \in lengths /\ Len(r.path) \in apart
    BY <1>3
  <2>4. Len(r.path) = m
    BY <1>3, <2>1, <2>2, <2>3
  <2>5. QED BY <1>3, <1>6, <2>1, <2>3, <2>4
<1>7. QED BY <1>5, <1>6

\* In whatever order the pools come, a search has, when nothing waits any more,
\* a route of as few hops as the pools allow, or none if they allow none.
THEOREM TheShortestIsFound == RouterSpec => []FindsShortest
<1>1. RouterInit => DistanceInv
  BY DEF RouterInit, DistanceInv, PoolsApart, NoSearch
<1>2. QED BY <1>1, DistanceSteps, DistancesAreShortest, PTL DEF RouterSpec
=============================================================================
