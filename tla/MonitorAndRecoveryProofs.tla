---------------------- MODULE MonitorAndRecoveryProofs ----------------------
(***************************************************************************)
(* The block monitor for chains, batches and buffers of any size and for    *)
(* any number of restarts and resets, and the breaker for all thresholds,    *)
(* timeouts and numbers of calls.                                           *)
(***************************************************************************)
EXTENDS RelayerLives, ErrorRecovery, TLAPS

-----------------------------------------------------------------------------
(* The block monitor: its bookkeeping, and delivery.                        *)

\* lastProcessedBlock is zero only before the first start has come through, and
\* nothing polls until then, nor while a start asks for the head.
Chosen ==
    /\ last = 0 => /\ batch = None /\ ~timer /\ orphans = 0
                   /\ isRunning => starting = "asking"
    /\ starting = "asking" => batch = None /\ ~timer /\ orphans = 0
    /\ starting # "no" => isRunning

\* A start under way is about to add its poller.
StartsCounted == Pollers + (IF starting = "no" THEN 0 ELSE 1) <= starts

\* What was delivered, and what the batch is about to deliver, stands in final
\* blocks.
Pipeline ==
    /\ Tip >= InitialHead
    /\ \A k \in 1 .. Len(log) : first + k <= SafeBlock /\ log[k] = Event(first + k)
    /\ RangeUnderWay => 1 <= batch.from /\ batch.from <= batch.to /\ batch.to <= SafeBlock
    /\ batch # None /\ batch.pc = "deliver" =>
          \A i \in 1 .. Len(batch.queue) : batch.queue[i] = Event(Delivered + i)

MonitorInv ==
    /\ MonitorTypeOK /\ Chosen /\ StartsCounted /\ PollingNeverDies
    /\ Pipeline /\ ExactlyOnceInOrder

LEMMA Constants ==
    /\ {StartBack, InitialHead} \subseteq Nat /\ InitialHead > StartBack
    /\ ReorgBuffer \in Nat \ {0} /\ MaxBlocksPerBatch \in Nat \ {0}
    /\ StartBlocks \subseteq Nat /\ ResetBlocks \subseteq Nat \ {0}
    /\ None \notin Batch
BY MonitorAssumption

LEMMA ReadingIsBatch == Reading \in Batch /\ Reading # None /\ Reading.pc = "head"
<1>1. << >> \in Seq([height: Nat, version: Versions])
  OBVIOUS
<1>2. Reading \in Batch
  BY <1>1 DEF Reading, Batch
<1>3. QED BY <1>2, Constants DEF Reading

LEMMA InitMonitorInv == MonitorInit => MonitorInv
<1> SUFFICES ASSUME MonitorInit PROVE MonitorInv
  OBVIOUS
<1>1. chain \in Seq(Versions) /\ Len(chain) = InitialHead
  BY Constants DEF MonitorInit
<1>2. last \in Nat
  BY Constants DEF MonitorInit
<1>3. MonitorTypeOK
  <2>1. log \in Seq([height: Nat, version: Versions])
    BY DEF MonitorInit
  <2>2. {isRunning, timer} \subseteq BOOLEAN
    BY DEF MonitorInit
  <2>3. {last, first, orphans, starts, resets} \subseteq Nat
    BY <1>2 DEF MonitorInit
  <2>4. starting \in {"no", "asking", "resuming"} /\ batch \in Batch \cup {None}
    BY DEF MonitorInit
  <2>5. QED BY <1>1, <2>1, <2>2, <2>3, <2>4 DEF MonitorTypeOK
<1>4. Chosen /\ PollingNeverDies
  BY DEF MonitorInit, Chosen, PollingNeverDies
<1>5. StartsCounted
  BY DEF MonitorInit, StartsCounted, Pollers
<1>6. Pipeline
  BY <1>1, Constants DEF MonitorInit, Pipeline, Tip, RangeUnderWay
<1>7. ExactlyOnceInOrder
  BY <1>2 DEF MonitorInit, ExactlyOnceInOrder, Delivered, RangeUnderWay
<1>8. QED BY <1>3, <1>4, <1>5, <1>6, <1>7 DEF MonitorInv
-----------------------------------------------------------------------------
\* One lemma for every action.

\* A step of the chain that leaves the final blocks alone.
LEMMA ChainStep ==
    ASSUME MonitorInv, chain' \in Seq(Versions), Len(chain') >= Tip,
           \A h \in 1 .. Tip - ReorgBuffer : chain'[h] = chain[h],
           UNCHANGED <<monitorVars, ghosts, starts, resets>>
    PROVE  MonitorInv'
<1> USE DEF monitorVars, ghosts
<1>1. MonitorTypeOK'
  BY DEF MonitorInv, MonitorTypeOK
<1>2. Chosen' /\ PollingNeverDies'
  <2>1. Chosen /\ PollingNeverDies
    BY DEF MonitorInv
  <2>2. /\ isRunning' = isRunning /\ starting' = starting /\ last' = last
        /\ timer' = timer /\ orphans' = orphans /\ batch' = batch
    OBVIOUS
  <2>3. Chosen'
    BY <2>1, <2>2 DEF Chosen
  <2>4. PollingNeverDies'
    BY <2>1, <2>2 DEF PollingNeverDies
  <2>5. QED BY <2>3, <2>4
<1>3. StartsCounted'
  BY DEF MonitorInv, StartsCounted, Pollers
<1>4. ExactlyOnceInOrder'
  BY DEF MonitorInv, ExactlyOnceInOrder, Delivered, RangeUnderWay
<1>5. /\ Tip \in Nat /\ Tip' \in Nat /\ Tip' >= Tip /\ SafeBlock' >= SafeBlock
      /\ first \in Nat /\ Len(log) \in Nat
  BY Constants DEF MonitorInv, MonitorTypeOK, Tip, SafeBlock
<1>6. ASSUME NEW h \in Nat, 1 <= h, h <= SafeBlock
      PROVE  h <= SafeBlock' /\ Event(h)' = Event(h)
  <2>1. h \in 1 .. Tip - ReorgBuffer
    BY <1>5, <1>6, Constants DEF SafeBlock
  <2>2. chain'[h] = chain[h]
    BY <2>1
  <2>3. SafeBlock \in Int /\ SafeBlock' \in Int
    BY <1>5, Constants DEF SafeBlock
  <2>4. h <= SafeBlock'
    BY <1>5, <1>6, <2>3
  <2>5. Event(h)' = Event(h)
    BY <2>2 DEF Event
  <2>6. QED BY <2>4, <2>5
<1>7. ASSUME NEW k \in 1 .. Len(log)
      PROVE  first + k <= SafeBlock' /\ log[k] = Event(first + k)'
  <2>1. first + k \in Nat /\ 1 <= first + k /\ first + k <= SafeBlock /\ log[k] = Event(first + k)
    BY <1>5 DEF MonitorInv, Pipeline
  <2>2. QED BY <1>6, <2>1
<1>8. ASSUME RangeUnderWay
      PROVE  1 <= batch.from /\ batch.from <= batch.to /\ batch.to <= SafeBlock'
  <2>1. batch.to \in Int
    BY <1>8 DEF MonitorInv, MonitorTypeOK, Batch, RangeUnderWay
  <2>2. /\ 1 <= batch.from /\ batch.from <= batch.to /\ batch.to <= SafeBlock
        /\ SafeBlock \in Int /\ SafeBlock' \in Int
    BY <1>8, <1>5, Constants DEF MonitorInv, Pipeline, SafeBlock
  <2>3. QED BY <1>5, <2>1, <2>2
<1>9. ASSUME batch # None, batch.pc = "deliver", NEW i \in 1 .. Len(batch.queue)
      PROVE  batch.queue[i] = Event(Delivered + i)'
  <2>1. /\ batch.to \in Int /\ Len(batch.queue) \in Nat /\ Delivered \in Nat
        /\ Delivered' = Delivered /\ SafeBlock \in Int
    BY <1>9, <1>5, Constants DEF MonitorInv, MonitorTypeOK, Batch, Delivered, SafeBlock
  <2>2. Delivered + Len(batch.queue) = batch.to /\ batch.to <= SafeBlock
    BY <1>9 DEF MonitorInv, Pipeline, ExactlyOnceInOrder, RangeUnderWay
  <2>3. batch.queue[i] = Event(Delivered + i)
    BY <1>9 DEF MonitorInv, Pipeline
  <2>4. Delivered + i \in Nat /\ 1 <= Delivered + i /\ Delivered + i <= SafeBlock
    BY <2>1, <2>2
  <2>5. Event(Delivered + i)' = Event(Delivered + i)
    BY <1>6, <2>1, <2>4 DEF Event
  <2>6. QED BY <2>3, <2>5
<1>10. Tip' >= InitialHead
  BY <1>5, Constants DEF MonitorInv, Pipeline
<1>11. Pipeline'
  BY <1>7, <1>8, <1>9, <1>10 DEF Pipeline, RangeUnderWay
<1>12. QED BY <1>1, <1>2, <1>3, <1>4, <1>11 DEF MonitorInv

LEMMA MineStep == MonitorInv /\ Mine => MonitorInv'
<1> SUFFICES ASSUME MonitorInv, Mine PROVE MonitorInv'
  OBVIOUS
<1>1. PICK v \in Versions : chain' = Append(chain, v)
  BY DEF Mine
<1>2. chain \in Seq(Versions) /\ Tip = Len(chain) /\ Tip \in Nat
  BY DEF MonitorInv, MonitorTypeOK, Tip
<1>3. /\ chain' \in Seq(Versions) /\ Len(chain') = Tip + 1
      /\ \A h \in 1 .. Tip : chain'[h] = chain[h]
  BY <1>1, <1>2
<1>4. QED BY <1>2, <1>3, ChainStep, Constants DEF Mine

LEMMA ReorgStep == MonitorInv /\ Reorg => MonitorInv'
<1> SUFFICES ASSUME MonitorInv, Reorg PROVE MonitorInv'
  OBVIOUS
<1>1. PICK other \in [1 .. Tip -> Versions] :
          /\ \A h \in 1 .. Tip - ReorgBuffer : other[h] = chain[h]
          /\ chain' = other
  BY DEF Reorg
<1>2. Tip \in Nat
  BY DEF MonitorInv, MonitorTypeOK, Tip
<1>3. chain' \in Seq(Versions) /\ Len(chain') = Tip
  BY <1>1, <1>2
<1>4. QED BY <1>1, <1>2, <1>3, ChainStep DEF Reorg

\* Delivery stands where it stood.
LEMMA SameData ==
    ASSUME MonitorInv, UNCHANGED <<chain, last, first, log, batch>>
    PROVE  Pipeline' /\ ExactlyOnceInOrder'
<1>1. Pipeline'
  BY DEF MonitorInv, Pipeline, Tip, SafeBlock, Event, Delivered, RangeUnderWay
<1>2. ExactlyOnceInOrder'
  BY DEF MonitorInv, ExactlyOnceInOrder, Delivered, RangeUnderWay
<1>3. QED BY <1>1, <1>2

LEMMA BetweenBatches ==
    ASSUME MonitorInv, UNCHANGED <<chain, first, log>>, last' = Delivered,
           batch' \in {None, Reading}
    PROVE  Pipeline' /\ ExactlyOnceInOrder'
<1>1. batch' # None => batch'.pc = "head"
  BY ReadingIsBatch
<1>2. Pipeline'
  BY <1>1 DEF MonitorInv, Pipeline, Tip, SafeBlock, Event, RangeUnderWay
<1>3. \A k \in DOMAIN log : log[k].height = first + k
  BY DEF MonitorInv, ExactlyOnceInOrder
<1>4. ExactlyOnceInOrder'
  BY <1>1, <1>3 DEF ExactlyOnceInOrder, Delivered, RangeUnderWay
<1>5. QED BY <1>2, <1>4

\* A cycle that is over leaves the poller it took to a new timer.
LEMMA CycleOver ==
    ASSUME MonitorInv, batch # None, EndCycle, last' \in Nat \ {0},
           UNCHANGED <<isRunning, starting, starts>>
    PROVE  /\ Chosen' /\ StartsCounted' /\ PollingNeverDies'
           /\ timer' \in BOOLEAN /\ orphans' \in Nat
<1>1. /\ last # 0 /\ starting # "asking"
      /\ starting # "no" => isRunning
      /\ isRunning \in BOOLEAN /\ timer \in BOOLEAN /\ orphans \in Nat /\ starts \in Nat
  BY DEF MonitorInv, Chosen, MonitorTypeOK
<1>2. batch' = None /\ isRunning' = isRunning /\ starting' = starting /\ starts' = starts
  BY DEF EndCycle
<1>3. CASE isRunning
  <2>1. timer' = TRUE /\ orphans' = IF timer THEN orphans + 1 ELSE orphans
    BY <1>3 DEF EndCycle, Schedule
  <2>2. Chosen' /\ PollingNeverDies'
    BY <1>1, <1>2, <2>1 DEF Chosen, PollingNeverDies
  <2>3. StartsCounted'
    BY <1>1, <1>2, <2>1 DEF MonitorInv, StartsCounted, Pollers
  <2>4. QED BY <1>1, <2>1, <2>2, <2>3
<1>4. CASE ~isRunning
  <2>1. timer' = timer /\ orphans' = orphans
    BY <1>4 DEF EndCycle, Schedule
  <2>2. Chosen' /\ PollingNeverDies'
    BY <1>1, <1>2, <1>4 DEF Chosen, PollingNeverDies
  <2>3. StartsCounted'
    BY <1>1, <1>2, <2>1 DEF MonitorInv, StartsCounted, Pollers
  <2>4. QED BY <1>1, <2>1, <2>2, <2>3
<1>5. QED BY <1>1, <1>3, <1>4

LEMMA StartStep == MonitorInv /\ Start => MonitorInv'
<1> SUFFICES ASSUME MonitorInv, Start PROVE MonitorInv'
  OBVIOUS
<1> USE DEF Start, ghosts
<1>1. starts \in Nat /\ last \in Nat /\ isRunning \in BOOLEAN /\ starting = "no"
  BY DEF MonitorInv, MonitorTypeOK, Chosen
<1>2. MonitorTypeOK'
  <2>1. starting' \in {"no", "asking", "resuming"} /\ starts' \in Nat
    BY <1>1
  <2>2. {isRunning', timer'} \subseteq BOOLEAN
    BY DEF MonitorInv, MonitorTypeOK
  <2>3. QED BY <2>1, <2>2 DEF MonitorInv, MonitorTypeOK
<1>3. Chosen' /\ PollingNeverDies'
  BY <1>1 DEF MonitorInv, Chosen, PollingNeverDies
<1>4. orphans \in Nat /\ timer \in BOOLEAN
  BY DEF MonitorInv, MonitorTypeOK
<1>5. StartsCounted'
  BY <1>1, <1>4 DEF MonitorInv, StartsCounted, Pollers
<1>6. QED BY <1>2, <1>3, <1>5, SameData DEF MonitorInv

LEMMA InitializeStep == MonitorInv /\ InitializeStartingBlock => MonitorInv'
<1> SUFFICES ASSUME MonitorInv, InitializeStartingBlock PROVE MonitorInv'
  OBVIOUS
<1> USE DEF InitializeStartingBlock, ghosts
<1>1. /\ isRunning /\ starting' = "no" /\ timer' = TRUE
      /\ orphans' = IF timer THEN orphans + 1 ELSE orphans
  BY DEF MonitorInv, Chosen, Schedule
<1>2. /\ orphans \in Nat /\ timer \in BOOLEAN /\ starts \in Nat /\ last \in Nat
      /\ Tip \in Nat /\ Tip >= InitialHead
  BY DEF MonitorInv, MonitorTypeOK, Pipeline, Tip
<1>3. StartBlock \in Nat \ {0}
  BY <1>2, Constants DEF StartBlock
<1>4. last' \in Nat \ {0}
  <2>1. starting # "asking" => last # 0
    BY <1>1 DEF MonitorInv, Chosen
  <2>2. QED BY <1>2, <1>3, <2>1
<1>5. Chosen' /\ PollingNeverDies'
  BY <1>1, <1>4 DEF Chosen, PollingNeverDies
<1>6. StartsCounted'
  BY <1>1, <1>2 DEF MonitorInv, StartsCounted, Pollers
<1>7. MonitorTypeOK'
  <2>1. orphans' \in Nat /\ {isRunning', timer'} \subseteq BOOLEAN /\ first' \in Nat
    BY <1>1, <1>2, <1>3 DEF MonitorInv, MonitorTypeOK
  <2>2. log' \in Seq([height: Nat, version: Versions])
    <3>1. << >> \in Seq([height: Nat, version: Versions])
      OBVIOUS
    <3>2. log' = << >> \/ log' = log
      OBVIOUS
    <3>3. QED BY <3>1, <3>2 DEF MonitorInv, MonitorTypeOK
  <2>3. QED BY <1>1, <1>4, <2>1, <2>2 DEF MonitorInv, MonitorTypeOK
<1>8. CASE starting = "asking"
  <2>1. batch = None /\ last' = first' /\ log' = << >>
    BY <1>8 DEF MonitorInv, Chosen
  <2>2. ExactlyOnceInOrder'
    BY <1>3, <1>8, <2>1 DEF ExactlyOnceInOrder, Delivered, RangeUnderWay
  <2>3. Pipeline'
    BY <1>2, <2>1 DEF Pipeline, Tip, RangeUnderWay
  <2>4. QED BY <1>5, <1>6, <1>7, <2>2, <2>3 DEF MonitorInv
<1>9. CASE starting # "asking"
  BY <1>5, <1>6, <1>7, <1>9, SameData DEF MonitorInv
<1>10. QED BY <1>8, <1>9

LEMMA FailToStartStep == MonitorInv /\ FailToStart => MonitorInv'
<1> SUFFICES ASSUME MonitorInv, FailToStart PROVE MonitorInv'
  OBVIOUS
<1> USE DEF FailToStart, ghosts
<1>1. MonitorTypeOK'
  <2>1. {isRunning', timer'} \subseteq BOOLEAN
    BY DEF MonitorInv, MonitorTypeOK
  <2>2. QED BY <2>1 DEF MonitorInv, MonitorTypeOK
<1>2. Chosen' /\ PollingNeverDies'
  BY DEF MonitorInv, Chosen, PollingNeverDies
<1>3. orphans \in Nat /\ timer \in BOOLEAN /\ starts \in Nat
  BY DEF MonitorInv, MonitorTypeOK
<1>4. StartsCounted'
  BY <1>3 DEF MonitorInv, StartsCounted, Pollers
<1>5. QED BY <1>1, <1>2, <1>4, SameData DEF MonitorInv

LEMMA StopStep == MonitorInv /\ Stop => MonitorInv'
<1> SUFFICES ASSUME MonitorInv, Stop PROVE MonitorInv'
  OBVIOUS
<1> USE DEF Stop, ghosts
<1>1. MonitorTypeOK'
  <2>1. {isRunning', timer'} \subseteq BOOLEAN
    OBVIOUS
  <2>2. QED BY <2>1 DEF MonitorInv, MonitorTypeOK
<1>2. Chosen' /\ PollingNeverDies'
  BY DEF MonitorInv, Chosen, PollingNeverDies
<1>3. orphans \in Nat /\ timer \in BOOLEAN /\ starts \in Nat
  BY DEF MonitorInv, MonitorTypeOK
<1>4. StartsCounted'
  BY <1>3 DEF MonitorInv, StartsCounted, Pollers
<1>5. QED BY <1>1, <1>2, <1>4, SameData DEF MonitorInv

LEMMA PollingCycleStep == MonitorInv /\ PollingCycle => MonitorInv'
<1> SUFFICES ASSUME MonitorInv, PollingCycle PROVE MonitorInv'
  OBVIOUS
<1> USE DEF PollingCycle, ghosts
<1>1. /\ orphans \in Nat /\ timer \in BOOLEAN /\ starts \in Nat /\ last \in Nat
      /\ isRunning \in BOOLEAN
  BY DEF MonitorInv, MonitorTypeOK
<1>2. /\ last # 0 /\ starting # "asking"
      /\ starting # "no" => isRunning
  BY DEF MonitorInv, Chosen, Fire
<1>3. /\ orphans' \in Nat /\ timer' \in BOOLEAN
      /\ \/ timer /\ ~timer' /\ orphans' = orphans
         \/ orphans' = orphans - 1 /\ timer' = timer
  <2>1. CASE timer /\ timer' = FALSE /\ orphans' = orphans
    BY <1>1, <2>1
  <2>2. CASE orphans > 0 /\ orphans' = orphans - 1 /\ timer' = timer
    <3>1. orphans' \in Nat
      BY <1>1, <2>2
    <3>2. timer' \in BOOLEAN
      BY <1>1, <2>2
    <3>3. QED BY <2>2, <3>1, <3>2
  <2>3. QED BY <2>1, <2>2 DEF Fire
<1>4. \/ batch' = batch
      \/ batch = None /\ batch' = Reading
  OBVIOUS
<1>5. MonitorTypeOK'
  <2>1. batch' \in Batch \cup {None}
    BY <1>4, ReadingIsBatch DEF MonitorInv, MonitorTypeOK
  <2>2. {isRunning', timer'} \subseteq BOOLEAN
    BY <1>1, <1>3
  <2>3. QED BY <1>3, <2>1, <2>2 DEF MonitorInv, MonitorTypeOK
<1>6. Chosen'
  BY <1>2 DEF Chosen
<1>7. PollingNeverDies'
  BY <1>4, ReadingIsBatch DEF PollingNeverDies
<1>8. StartsCounted'
  <2>1. Pollers' <= Pollers
    <3>1. CASE timer /\ ~timer' /\ orphans' = orphans
      BY <1>1, <1>4, <3>1 DEF Pollers
    <3>2. CASE orphans' = orphans - 1 /\ timer' = timer
      BY <1>1, <1>4, <3>2 DEF Pollers
    <3>3. QED BY <1>3, <3>1, <3>2
  <2>2. Pollers \in Int /\ Pollers' \in Int
    BY <1>1, <1>3 DEF Pollers
  <2>3. starting' = starting /\ starts' = starts
    OBVIOUS
  <2>4. Pollers + (IF starting = "no" THEN 0 ELSE 1) <= starts
    BY DEF MonitorInv, StartsCounted
  <2>5. Pollers' + (IF starting = "no" THEN 0 ELSE 1) <= starts
    <3>1. ASSUME NEW p \in Int, NEW q \in Int, NEW e \in {0, 1}, NEW s \in Nat,
                 q <= p, p + e <= s
          PROVE  q + e <= s
      BY <3>1
    <3>2. (IF starting = "no" THEN 0 ELSE 1) \in {0, 1}
      OBVIOUS
    <3>3. QED BY <1>1, <2>1, <2>2, <2>4, <3>1, <3>2
  <2>6. QED BY <2>3, <2>5 DEF StartsCounted
<1>9. CASE batch' = batch
  BY <1>5, <1>6, <1>7, <1>8, <1>9, SameData DEF MonitorInv
<1>10. CASE batch = None /\ batch' = Reading
  <2>1. last' = Delivered
    BY <1>10 DEF MonitorInv, ExactlyOnceInOrder, RangeUnderWay
  <2>2. QED BY <1>5, <1>6, <1>7, <1>8, <1>10, <2>1, BetweenBatches DEF MonitorInv
<1>11. QED BY <1>4, <1>9, <1>10

Events == [height: Nat, version: Versions]

LEMMA Prefix ==
    ASSUME NEW l \in Seq(Events), NEW n \in 0 .. Len(l)
    PROVE  /\ SubSeq(l, 1, n) \in Seq(Events) /\ Len(SubSeq(l, 1, n)) = n
           /\ DOMAIN SubSeq(l, 1, n) = 1 .. n
           /\ \A k \in 1 .. n : SubSeq(l, 1, n)[k] = l[k]
OBVIOUS

\* Delivery that starts again, with no range under way, is where it should be.
LEMMA DeliveryRestarts ==
    ASSUME MonitorInv, NEW b \in Nat, DeliverFrom(b), last' = b,
           UNCHANGED chain, ~RangeUnderWay'
    PROVE  /\ Pipeline' /\ ExactlyOnceInOrder'
           /\ log' \in Seq(Events) /\ first' \in Nat
<1>1. /\ first \in Nat /\ log \in Seq(Events)
      /\ Len(log) \in Nat /\ Delivered = first + Len(log)
  BY Constants DEF MonitorInv, MonitorTypeOK, Delivered, Events
<1>2. \/ /\ first <= b /\ b <= Delivered
         /\ log' = SubSeq(log, 1, b - first) /\ first' = first
      \/ log' = << >> /\ first' = b
  BY DEF DeliverFrom
<1>3. /\ log' \in Seq(Events) /\ first' \in Nat /\ b = first' + Len(log')
      /\ DOMAIN log' = 1 .. Len(log')
      /\ \A k \in 1 .. Len(log') :
            k \in 1 .. Len(log) /\ log'[k] = log[k] /\ first' = first
  <2>1. CASE /\ first <= b /\ b <= Delivered
             /\ log' = SubSeq(log, 1, b - first) /\ first' = first
    <3>1. PICK n : n = b - first
      OBVIOUS
    <3>2. n \in 0 .. Len(log) /\ b = first + n /\ log' = SubSeq(log, 1, n)
      BY <1>1, <2>1, <3>1
    <3>3. /\ log' \in Seq(Events) /\ Len(log') = n /\ DOMAIN log' = 1 .. n
          /\ \A k \in 1 .. n : log'[k] = log[k]
      BY <1>1, <3>2, Prefix
    <3>4. \A k \in 1 .. n : k \in 1 .. Len(log)
      BY <1>1, <3>2
    <3>5. QED BY <1>1, <2>1, <3>2, <3>3, <3>4
  <2>2. CASE log' = << >> /\ first' = b
    BY <1>1, <2>2
  <2>3. QED BY <1>2, <2>1, <2>2
<1>4. Pipeline'
  <2>1. \A k \in 1 .. Len(log') : first' + k <= SafeBlock /\ log'[k] = Event(first' + k)
    BY <1>3 DEF MonitorInv, Pipeline
  <2>2. SafeBlock' = SafeBlock /\ Tip' = Tip /\ \A h : Event(h)' = Event(h)
    BY DEF SafeBlock, Tip, Event
  <2>3. Tip >= InitialHead
    BY DEF MonitorInv, Pipeline
  <2>4. ~(batch' # None /\ batch'.pc = "deliver")
    BY DEF RangeUnderWay
  <2>5. QED BY <2>1, <2>2, <2>3, <2>4 DEF Pipeline
<1>5. ExactlyOnceInOrder'
  <2>1. \A k \in DOMAIN log' : log'[k].height = first' + k
    <3>1. \A k \in 1 .. Len(log) : log[k].height = first + k
      BY <1>1 DEF MonitorInv, ExactlyOnceInOrder
    <3>2. QED BY <1>3, <3>1
  <2>2. QED BY <1>3, <2>1 DEF ExactlyOnceInOrder, Delivered
<1>6. QED BY <1>3, <1>4, <1>5

\* A cycle that finds nothing new ends without an effect.
LEMMA CycleEndsEmpty ==
    ASSUME MonitorInv, batch # None, batch.pc = "head", EndCycle,
           UNCHANGED <<chain, isRunning, starting, last, ghosts, starts, resets>>
    PROVE  MonitorInv'
<1> USE DEF ghosts
<1>1. last' \in Nat \ {0}
  BY DEF MonitorInv, Chosen, MonitorTypeOK
<1>2. /\ Chosen' /\ StartsCounted' /\ PollingNeverDies'
      /\ timer' \in BOOLEAN /\ orphans' \in Nat
  BY <1>1, CycleOver
<1>3. last' = Delivered /\ batch' = None
  BY DEF MonitorInv, ExactlyOnceInOrder, RangeUnderWay, EndCycle
<1>4. MonitorTypeOK'
  <2>1. {isRunning', timer'} \subseteq BOOLEAN
    BY <1>2 DEF MonitorInv, MonitorTypeOK
  <2>2. QED BY <1>2, <1>3, <2>1 DEF MonitorInv, MonitorTypeOK
<1>5. QED BY <1>2, <1>3, <1>4, BetweenBatches DEF MonitorInv

LEMMA CycleFailsStep == MonitorInv /\ CycleFails => MonitorInv'
<1> SUFFICES ASSUME MonitorInv, CycleFails PROVE MonitorInv'
  OBVIOUS
<1>1. /\ batch # None /\ EndCycle /\ DeliverFrom(last)
      /\ UNCHANGED <<chain, isRunning, starting, last, starts, resets>>
  BY DEF CycleFails
<1>2. last \in Nat \ {0}
  BY <1>1 DEF MonitorInv, Chosen, MonitorTypeOK
<1>3. /\ Chosen' /\ StartsCounted' /\ PollingNeverDies'
      /\ timer' \in BOOLEAN /\ orphans' \in Nat
  BY <1>1, <1>2, CycleOver
<1>4. batch' = None
  BY <1>1 DEF EndCycle
<1>5. /\ Pipeline' /\ ExactlyOnceInOrder'
      /\ log' \in Seq(Events) /\ first' \in Nat
  <2>1. ~RangeUnderWay'
    BY <1>4 DEF RangeUnderWay
  <2>2. last \in Nat /\ last' = last /\ UNCHANGED chain
    BY <1>1, <1>2
  <2>3. QED BY <1>1, <2>1, <2>2, DeliveryRestarts
<1>6. MonitorTypeOK'
  <2>1. {isRunning', timer'} \subseteq BOOLEAN
    BY <1>1, <1>3 DEF MonitorInv, MonitorTypeOK
  <2>2. QED BY <1>1, <1>3, <1>4, <1>5, <2>1 DEF MonitorInv, MonitorTypeOK, Events
<1>7. QED BY <1>3, <1>5, <1>6 DEF MonitorInv

\* The batch moves on; the pollers and what was delivered stay.
LEMMA SamePollers ==
    ASSUME MonitorInv, batch # None, batch' \in Batch,
           UNCHANGED <<isRunning, starting, last, timer, orphans, starts>>
    PROVE  Chosen' /\ StartsCounted' /\ PollingNeverDies'
<1>1. batch' # None
  BY Constants
<1>2. Chosen'
  BY DEF MonitorInv, Chosen
<1>3. PollingNeverDies'
  BY <1>1 DEF PollingNeverDies
<1>4. StartsCounted'
  BY <1>1 DEF MonitorInv, StartsCounted, Pollers
<1>5. QED BY <1>2, <1>3, <1>4

LEMMA ReadHeadStep == MonitorInv /\ ReadHead => MonitorInv'
<1> SUFFICES ASSUME MonitorInv, ReadHead PROVE MonitorInv'
  OBVIOUS
<1> USE DEF ReadHead, ghosts
<1>1. batch # None /\ batch.pc = "head" /\ batch \in Batch
  BY DEF MonitorInv, MonitorTypeOK
<1>2. CASE last >= SafeBlock
  BY <1>1, <1>2, CycleEndsEmpty
<1>3. CASE ~(last >= SafeBlock)
  <2>1. /\ batch' = [batch EXCEPT !.pc = "fetch", !.from = last + 1, !.to = ToBlock]
        /\ UNCHANGED <<timer, orphans>>
    BY <1>3 DEF FromBlock
  <2>2. last \in Nat /\ SafeBlock \in Int
    BY Constants DEF MonitorInv, MonitorTypeOK, SafeBlock, Tip
  <2>3. ToBlock \in Int /\ 1 <= last + 1 /\ last + 1 <= ToBlock /\ ToBlock <= SafeBlock
    BY <1>3, <2>2, Constants DEF ToBlock, Smaller, FromBlock
  <2>4. /\ batch' \in Batch /\ batch' # None
        /\ batch'.pc = "fetch" /\ batch'.from = last + 1 /\ batch'.to = ToBlock
    <3>1. PICK b, r, f, t : b = batch /\ r = batch' /\ f = last + 1 /\ t = ToBlock
      OBVIOUS
    <3>2. b \in Batch /\ f \in Int /\ t \in Int
      BY <1>1, <2>2, <2>3, <3>1
    <3>3. r = [b EXCEPT !.pc = "fetch", !.from = f, !.to = t]
      BY <2>1, <3>1, Zenon
    <3>4. r \in Batch /\ r # None /\ r.pc = "fetch" /\ r.from = f /\ r.to = t
      BY ONLY <3>2, <3>3, Constants DEF Batch
    <3>5. QED BY <3>1, <3>4
  <2>5. MonitorTypeOK'
    <3>1. {isRunning', timer'} \subseteq BOOLEAN
      BY <2>1 DEF MonitorInv, MonitorTypeOK
    <3>2. QED BY <2>1, <2>4, <3>1 DEF MonitorInv, MonitorTypeOK
  <2>6. Chosen' /\ StartsCounted' /\ PollingNeverDies'
    BY <1>1, <2>1, <2>4, SamePollers
  <2>7. Pipeline'
    <3>1. \A k \in 1 .. Len(log) : first + k <= SafeBlock /\ log[k] = Event(first + k)
      BY DEF MonitorInv, Pipeline
    <3>2. Tip >= InitialHead
      BY DEF MonitorInv, Pipeline
    <3>3. SafeBlock' = SafeBlock /\ Tip' = Tip /\ \A h \in Nat : Event(h)' = Event(h)
      BY DEF SafeBlock, Tip, Event
    <3>4. ToBlock' = ToBlock
      BY DEF ToBlock, SafeBlock, Tip, FromBlock
    <3>5. QED BY <2>3, <2>4, <3>1, <3>2 DEF Pipeline, RangeUnderWay, SafeBlock, Tip, Event
  <2>8. ExactlyOnceInOrder'
    <3>1. last = Delivered /\ \A k \in DOMAIN log : log[k].height = first + k
      BY <1>1 DEF MonitorInv, ExactlyOnceInOrder, RangeUnderWay
    <3>2. QED BY <2>4, <3>1 DEF ExactlyOnceInOrder, RangeUnderWay, Delivered
  <2>9. QED BY <2>5, <2>6, <2>7, <2>8 DEF MonitorInv
<1>4. QED BY <1>2, <1>3

LEMMA Indexed ==
    ASSUME NEW n \in Nat, NEW R, NEW q \in [1 .. n -> R]
    PROVE  q \in Seq(R) /\ Len(q) = n
OBVIOUS

LEMMA Appended ==
    ASSUME NEW R, NEW l \in Seq(R), NEW e \in R
    PROVE  /\ Append(l, e) \in Seq(R) /\ Len(Append(l, e)) = Len(l) + 1
           /\ DOMAIN Append(l, e) = 1 .. Len(Append(l, e))
           /\ \A k \in 1 .. Len(l) : Append(l, e)[k] = l[k]
           /\ Append(l, e)[Len(l) + 1] = e
OBVIOUS

LEMMA FetchEventsStep == MonitorInv /\ FetchEvents => MonitorInv'
<1> SUFFICES ASSUME MonitorInv, FetchEvents PROVE MonitorInv'
  OBVIOUS
<1> USE DEF FetchEvents, ghosts
<1>0. PICK before : before = batch.from - 1
  OBVIOUS
<1> DEFINE n == batch.to - before
           q == [i \in 1 .. n |-> Event(before + i)]
<1>1. batch # None /\ batch.pc = "fetch" /\ batch \in Batch
  BY DEF MonitorInv, MonitorTypeOK
<1>2. /\ batch.from \in Int /\ batch.to \in Int /\ Tip \in Nat /\ chain \in Seq(Versions)
      /\ first \in Nat /\ Len(log) \in Nat
  BY <1>1 DEF MonitorInv, MonitorTypeOK, Tip, Batch
<1>3. /\ before \in Nat /\ batch.from = before + 1 /\ before < batch.to
      /\ batch.to <= SafeBlock /\ batch.to <= Tip
      /\ before = Delivered
  <2>1. 1 <= batch.from /\ batch.from <= batch.to /\ batch.to <= SafeBlock
    BY <1>1 DEF MonitorInv, Pipeline, RangeUnderWay
  <2>2. SafeBlock <= Tip /\ SafeBlock \in Int
    BY <1>2, Constants DEF SafeBlock
  <2>3. batch.from = Delivered + 1 /\ Delivered \in Nat
    BY <1>1, <1>2 DEF MonitorInv, ExactlyOnceInOrder, RangeUnderWay, Delivered
  <2>4. QED BY <1>0, <1>2, <2>1, <2>2, <2>3
<1>4. n \in Nat /\ batch.to = before + n
  BY <1>2, <1>3
<1>5. ASSUME NEW i \in 1 .. n PROVE Event(before + i) \in [height: Nat, version: Versions]
  <2>1. before + i \in 1 .. Tip
    BY <1>2, <1>3, <1>4
  <2>2. chain[before + i] \in Versions
    BY <1>2, <2>1 DEF Tip
  <2>3. QED BY <2>1, <2>2 DEF Event
<1>6. /\ q \in Seq(Events) /\ Len(q) = n
      /\ \A i \in 1 .. n : q[i] = Event(before + i)
  <2>1. q \in [1 .. n -> Events]
    BY <1>5 DEF Events
  <2>2. q \in Seq(Events) /\ Len(q) = n
    BY <1>4, <2>1, Indexed
  <2>3. QED BY <2>2
<1>7. batch' = [batch EXCEPT !.pc = "deliver", !.queue = q]
  <2>1. batch.to - batch.from + 1 = n /\ \A i \in 1 .. n : batch.from + i - 1 = before + i
    <3>1. ASSUME NEW l \in Nat, NEW t \in Int
          PROVE  /\ t - (l + 1) + 1 = t - l
                 /\ \A i \in Int : l + 1 + i - 1 = l + i
      OBVIOUS
    <3>2. batch.to - (before + 1) + 1 = n
      BY <1>2, <1>3, <3>1
    <3>3. \A i \in Int : before + 1 + i - 1 = before + i
      BY <1>3, <3>1
    <3>4. \A i \in 1 .. n : i \in Int
      BY <1>4
    <3>5. QED BY <1>3, <3>2, <3>3, <3>4
  <2>2. [i \in 1 .. batch.to - batch.from + 1 |-> Event(batch.from + i - 1)] = q
    BY <2>1
  <2>3. QED BY <2>2
<1> HIDE DEF n, q
<1>8. /\ batch' \in Batch /\ batch' # None
      /\ batch'.pc = "deliver" /\ batch'.queue = q
      /\ batch'.from = batch.from /\ batch'.to = batch.to
  <2>1. PICK b, r : b = batch /\ r = batch'
    OBVIOUS
  <2>2. b \in Batch /\ r = [b EXCEPT !.pc = "deliver", !.queue = q]
    <3>1. b \in Batch
      BY <1>1, <2>1
    <3>2. r = [b EXCEPT !.pc = "deliver", !.queue = q]
      BY <1>7, <2>1, Zenon
    <3>3. QED BY <3>1, <3>2
  <2>3. r \in Batch /\ r # None /\ r.pc = "deliver" /\ r.from = b.from /\ r.to = b.to /\ r.queue = q
    BY ONLY <1>6, <2>2, Constants DEF Batch, Events
  <2>4. QED BY <2>1, <2>3
<1>9. MonitorTypeOK'
  <2>1. {isRunning', timer'} \subseteq BOOLEAN
    BY DEF MonitorInv, MonitorTypeOK
  <2>2. QED BY <1>8, <2>1 DEF MonitorInv, MonitorTypeOK
<1>10. Chosen' /\ StartsCounted' /\ PollingNeverDies'
  BY <1>1, <1>8, SamePollers
<1>11. Pipeline'
  <2>1. \A i \in 1 .. Len(batch'.queue) : batch'.queue[i] = Event(Delivered + i)
    BY <1>3, <1>6, <1>8
  <2>2. 1 <= batch.from /\ batch.from <= batch.to
    BY <1>1 DEF MonitorInv, Pipeline, RangeUnderWay
  <2>3. QED BY <1>3, <1>8, <2>1, <2>2
           DEF MonitorInv, Pipeline, RangeUnderWay, SafeBlock, Tip, Event, Delivered
<1>12. ExactlyOnceInOrder'
  <2>1. \A k \in DOMAIN log : log[k].height = first + k
    BY DEF MonitorInv, ExactlyOnceInOrder
  <2>2. batch.to = Delivered + Len(q)
    BY <1>2, <1>3, <1>4, <1>6
  <2>3. QED BY <1>8, <2>1, <2>2 DEF ExactlyOnceInOrder, RangeUnderWay, Delivered
<1>13. QED BY <1>9, <1>10, <1>11, <1>12 DEF MonitorInv

LEMMA ProcessEventStep == MonitorInv /\ ProcessEvent => MonitorInv'
<1> SUFFICES ASSUME MonitorInv, ProcessEvent PROVE MonitorInv'
  OBVIOUS
<1> USE DEF ProcessEvent
<1>1. PICK q : q = batch.queue
  OBVIOUS
<1>2. batch # None /\ batch.pc = "deliver" /\ batch \in Batch
  BY DEF MonitorInv, MonitorTypeOK
<1>3. /\ q \in Seq(Events) /\ q # << >>
      /\ log \in Seq(Events)
      /\ first \in Nat /\ batch.from \in Int /\ batch.to \in Int
  BY <1>1, <1>2 DEF MonitorInv, MonitorTypeOK, Batch, Events
<1>4. /\ Len(q) \in Nat \ {0} /\ Head(q) = q[1] /\ Len(log) \in Nat
      /\ Tail(q) \in Seq(Events) /\ Len(Tail(q)) = Len(q) - 1
      /\ \A i \in 1 .. Len(q) - 1 : Tail(q)[i] = q[i + 1]
  BY <1>3
<1>5. /\ log' \in Seq(Events) /\ Len(log') = Len(log) + 1
      /\ \A k \in 1 .. Len(log) : log'[k] = log[k]
      /\ log'[Len(log) + 1] = q[1] /\ DOMAIN log' = 1 .. Len(log')
  <2>1. log' = Append(log, q[1]) /\ q[1] \in Events
    BY <1>1, <1>3, <1>4
  <2>2. QED BY <1>3, <2>1, Appended
<1>6. /\ batch' \in Batch /\ batch' # None /\ batch'.pc = "deliver"
      /\ batch'.from = batch.from /\ batch'.to = batch.to /\ batch'.queue = Tail(q)
  <2>1. PICK b, r : b = batch /\ r = batch'
    OBVIOUS
  <2>2. b \in Batch /\ b.pc = "deliver" /\ r = [b EXCEPT !.queue = Tail(q)]
    <3>1. b \in Batch /\ b.pc = "deliver"
      BY <1>2, <2>1
    <3>2. r = [b EXCEPT !.queue = Tail(q)]
      BY <1>1, <2>1, Zenon
    <3>3. QED BY <3>1, <3>2
  <2>3. Tail(q) \in Seq(Events)
    BY <1>4
  <2>4. /\ r \in Batch /\ r # None /\ r.pc = "deliver"
        /\ r.from = b.from /\ r.to = b.to /\ r.queue = Tail(q)
    BY ONLY <2>2, <2>3, Constants DEF Batch, Events
  <2>5. QED BY <2>1, <2>4
<1>7. /\ 1 <= batch.from /\ batch.from <= batch.to /\ batch.to <= SafeBlock
      /\ batch.to = Delivered + Len(q)
      /\ \A i \in 1 .. Len(q) : q[i] = Event(Delivered + i)
  BY <1>1, <1>2 DEF MonitorInv, Pipeline, ExactlyOnceInOrder, RangeUnderWay
<1>8. Delivered \in Nat /\ Delivered' = Delivered + 1 /\ SafeBlock \in Int
  <2>1. Delivered \in Nat /\ Delivered' = Delivered + 1
    BY <1>3, <1>4, <1>5 DEF Delivered
  <2>2. SafeBlock \in Int
    BY Constants DEF SafeBlock, MonitorInv, MonitorTypeOK, Tip
  <2>3. QED BY <2>1, <2>2
<1>9. UNCHANGED <<Tip, SafeBlock>> /\ \A h : Event(h)' = Event(h)
  BY DEF Tip, SafeBlock, Event
<1>10. MonitorTypeOK'
  <2>1. {isRunning', timer'} \subseteq BOOLEAN
    BY DEF MonitorInv, MonitorTypeOK
  <2>2. QED BY <1>5, <1>6, <2>1 DEF MonitorInv, MonitorTypeOK, Events
<1>11. Chosen' /\ StartsCounted' /\ PollingNeverDies'
  BY <1>2, <1>6, SamePollers
<1>12. log'[Len(log) + 1] = Event(first + (Len(log) + 1))
  <2>1. q[1] = Event(Delivered + 1)
    BY <1>4, <1>7
  <2>2. Delivered + 1 = first + (Len(log) + 1)
    BY <1>3, <1>4 DEF Delivered
  <2>3. QED BY <1>5, <2>1, <2>2
<1>13. Pipeline'
  <2>1. ASSUME NEW k \in 1 .. Len(log')
        PROVE  first + k <= SafeBlock /\ log'[k] = Event(first + k)
    <3>1. CASE k \in 1 .. Len(log)
      BY <1>5, <3>1 DEF MonitorInv, Pipeline
    <3>2. CASE k = Len(log) + 1
      <4>1. first + k = Delivered + 1 /\ Delivered + 1 <= batch.to
        BY <1>3, <1>4, <1>7, <1>8, <3>2 DEF Delivered
      <4>2. first + k <= SafeBlock
        BY <1>3, <1>4, <1>7, <1>8, <3>2, <4>1
      <4>3. QED BY <1>12, <3>2, <4>2
    <3>3. QED BY <1>4, <1>5, <3>1, <3>2
  <2>2. ASSUME NEW i \in 1 .. Len(batch'.queue)
        PROVE  batch'.queue[i] = Event(Delivered' + i)
    <3>1. i \in 1 .. Len(q) - 1 /\ i + 1 \in 1 .. Len(q)
      BY <1>4, <1>6
    <3>2. Delivered' + i = Delivered + (i + 1)
      BY <1>8, <3>1
    <3>3. QED BY <1>4, <1>6, <1>7, <3>1, <3>2
  <2>3. Tip >= InitialHead
    BY DEF MonitorInv, Pipeline
  <2>4. QED BY <1>6, <1>7, <1>9, <2>1, <2>2, <2>3 DEF Pipeline, RangeUnderWay
<1>14. ExactlyOnceInOrder'
  <2>1. ASSUME NEW k \in 1 .. Len(log') PROVE log'[k].height = first + k
    <3>1. CASE k \in 1 .. Len(log)
      BY <1>3, <1>5, <3>1 DEF MonitorInv, ExactlyOnceInOrder
    <3>2. CASE k = Len(log) + 1
      BY <1>12, <3>2 DEF Event
    <3>3. QED BY <1>4, <1>5, <3>1, <3>2
  <2>2. DOMAIN log' = 1 .. Len(log')
    BY <1>5
  <2>3. batch'.to = Delivered' + Len(batch'.queue)
    <3>1. Len(batch'.queue) = Len(q) - 1 /\ batch'.to = batch.to
      BY <1>4, <1>6
    <3>2. batch.to = Delivered + 1 + (Len(q) - 1)
      BY <1>3, <1>4, <1>7, <1>8
    <3>3. QED BY <1>8, <3>1, <3>2
  <2>4. QED BY <1>6, <2>1, <2>2, <2>3 DEF ExactlyOnceInOrder, RangeUnderWay
<1>15. QED BY <1>10, <1>11, <1>13, <1>14 DEF MonitorInv

LEMMA EndBatchStep == MonitorInv /\ EndBatch => MonitorInv'
<1> SUFFICES ASSUME MonitorInv, EndBatch PROVE MonitorInv'
  OBVIOUS
<1>1. /\ batch # None /\ batch.pc = "deliver" /\ batch.queue = << >>
      /\ last' = batch.to /\ EndCycle
      /\ UNCHANGED <<chain, isRunning, starting, first, log, starts, resets>>
  BY DEF EndBatch, ghosts
<1>2. batch \in Batch /\ {batch.from, batch.to} \subseteq Int /\ Len(batch.queue) = 0
  BY <1>1 DEF MonitorInv, MonitorTypeOK, Batch
<1>3. /\ 1 <= batch.from /\ batch.from <= batch.to
      /\ batch.to = Delivered + Len(batch.queue)
  BY <1>1 DEF MonitorInv, Pipeline, ExactlyOnceInOrder, RangeUnderWay
<1>4. Delivered \in Nat
  BY DEF MonitorInv, MonitorTypeOK, Delivered
<1>5. last' = Delivered /\ last' \in Nat \ {0}
  BY <1>1, <1>2, <1>3, <1>4
<1>6. /\ Chosen' /\ StartsCounted' /\ PollingNeverDies'
      /\ timer' \in BOOLEAN /\ orphans' \in Nat
  BY <1>1, <1>5, CycleOver
<1>7. batch' = None
  BY <1>1 DEF EndCycle
<1>8. MonitorTypeOK'
  <2>1. {isRunning', timer'} \subseteq BOOLEAN
    BY <1>1, <1>6 DEF MonitorInv, MonitorTypeOK
  <2>2. QED BY <1>1, <1>5, <1>6, <1>7, <2>1 DEF MonitorInv, MonitorTypeOK
<1>9. QED BY <1>1, <1>5, <1>6, <1>7, <1>8, BetweenBatches DEF MonitorInv

LEMMA ResetToBlockStep == ASSUME NEW b \in ResetBlocks PROVE MonitorInv /\ ResetToBlock(b) => MonitorInv'
<1> SUFFICES ASSUME MonitorInv, ResetToBlock(b) PROVE MonitorInv'
  OBVIOUS
<1>1. /\ last' = b /\ resets' = resets + 1
      /\ UNCHANGED <<chain, isRunning, starting, timer, orphans, batch, starts>>
      /\ IF RangeUnderWay THEN UNCHANGED <<first, log>> ELSE DeliverFrom(b)
  BY DEF ResetToBlock, ghosts
<1>2. b \in Nat \ {0} /\ resets \in Nat
  BY Constants DEF MonitorInv, MonitorTypeOK
<1>3. Chosen' /\ PollingNeverDies'
  BY <1>1, <1>2 DEF MonitorInv, Chosen, PollingNeverDies
<1>4. StartsCounted'
  BY <1>1 DEF MonitorInv, StartsCounted, Pollers
<1>5. RangeUnderWay' = RangeUnderWay
  BY <1>1 DEF RangeUnderWay
<1>6. /\ Pipeline' /\ ExactlyOnceInOrder'
      /\ log' \in Seq(Events) /\ first' \in Nat
  <2>1. CASE RangeUnderWay
    <3>1. UNCHANGED <<chain, batch, first, log>>
      BY <1>1, <2>1
    <3>2. Pipeline'
      BY <3>1 DEF MonitorInv, Pipeline, Tip, SafeBlock, Event, Delivered, RangeUnderWay
    <3>3. ExactlyOnceInOrder'
      BY <1>5, <2>1, <3>1 DEF MonitorInv, ExactlyOnceInOrder, Delivered
    <3>4. QED BY <3>1, <3>2, <3>3 DEF MonitorInv, MonitorTypeOK, Events
  <2>2. CASE ~RangeUnderWay
    <3>1. b \in Nat /\ DeliverFrom(b) /\ ~RangeUnderWay' /\ UNCHANGED chain
      BY <1>1, <1>2, <1>5, <2>2
    <3>2. QED BY <1>1, <3>1, DeliveryRestarts
  <2>3. QED BY <2>1, <2>2
<1>7. MonitorTypeOK'
  <2>1. {isRunning', timer'} \subseteq BOOLEAN
    BY <1>1 DEF MonitorInv, MonitorTypeOK
  <2>2. resets' \in Nat
    BY <1>1, <1>2
  <2>3. QED BY <1>1, <1>2, <1>6, <2>1, <2>2 DEF MonitorInv, MonitorTypeOK, Events
<1>8. QED BY <1>3, <1>4, <1>6, <1>7 DEF MonitorInv

LEMMA StutterStep == MonitorInv /\ UNCHANGED monitorAndChain => MonitorInv'
<1> SUFFICES ASSUME MonitorInv, UNCHANGED monitorAndChain PROVE MonitorInv'
  OBVIOUS
<1>1. /\ UNCHANGED <<chain, starts, resets>> /\ UNCHANGED <<monitorVars, ghosts, starts, resets>>
  BY DEF monitorAndChain
<1>2. chain \in Seq(Versions) /\ Tip \in Nat /\ Len(chain) >= Tip
  BY DEF MonitorInv, MonitorTypeOK, Tip
<1>3. QED BY <1>1, <1>2, ChainStep

LEMMA InductiveInvariant == MonitorSpec => []MonitorInv
<1>1. MonitorInv /\ [MonitorNext]_monitorAndChain => MonitorInv'
  BY MineStep, ReorgStep, StartStep, InitializeStep, FailToStartStep, StopStep,
     PollingCycleStep, ReadHeadStep, FetchEventsStep, CycleFailsStep,
     ProcessEventStep, EndBatchStep, ResetToBlockStep, StutterStep DEF MonitorNext
<1>2. QED BY InitMonitorInv, <1>1, PTL DEF MonitorSpec
-----------------------------------------------------------------------------
\* Heights, versions, batches and counters keep their types, for any chain.
THEOREM TypeCorrect == MonitorSpec => []MonitorTypeOK
<1>1. MonitorInv => MonitorTypeOK
  BY DEF MonitorInv
<1>2. QED BY InductiveInvariant, <1>1, PTL

\* A running monitor always has a batch or a timer to start the next, whatever
\* fails and however stops and starts meet the batches, and there are never more
\* polling chains than there were starts.
THEOREM PollingIsSound == MonitorSpec => []PollingSound
<1>1. MonitorInv => PollingNeverDies
  BY DEF MonitorInv
<1>2. MonitorInv => PollersBounded
  BY DEF MonitorInv, StartsCounted, PollersBounded, Pollers, MonitorTypeOK
<1>3. MonitorInv => PollingSound
  BY <1>1, <1>2 DEF PollingSound
<1>4. QED BY InductiveInvariant, <1>3, PTL

\* Events are delivered once each and in the order of their blocks, for every
\* batch size and any failures, restarts and resets.
THEOREM DeliveryIsExactlyOnce == MonitorSpec => []ExactlyOnceInOrder
<1>1. MonitorInv => ExactlyOnceInOrder
  BY DEF MonitorInv
<1>2. QED BY InductiveInvariant, <1>1, PTL

\* If no reorganisation is deeper than the buffer, no delivered event is taken
\* back, for every buffer and chain.
THEOREM DeliveryIsFinal == MonitorSpec => []DeliveredIsFinal
<1>1. MonitorInv => DeliveredIsFinal
  <2> SUFFICES ASSUME MonitorInv, NEW k \in DOMAIN log PROVE log[k] = Event(log[k].height)
    BY DEF DeliveredIsFinal
  <2>1. k \in 1 .. Len(log)
    BY DEF MonitorInv, MonitorTypeOK
  <2>2. log[k] = Event(first + k) /\ log[k].height = first + k
    BY <2>1 DEF MonitorInv, Pipeline, ExactlyOnceInOrder
  <2>3. QED BY <2>2
<1>2. QED BY InductiveInvariant, <1>1, PTL

-----------------------------------------------------------------------------
(* The lives of the relayer.                                                *)

\* Before its monitor has chosen a block, a life polls nothing and has nothing;
\* nothing resets the monitor while it asks for events.
Early == stage \in {"down", "relay", "ethereum"}

PhaseInv ==
    /\ Early => ~timer /\ orphans = 0 /\ batch = None /\ last = 0
    /\ stage = "ethereum" => starting = "asking"
    /\ Early => waited = 0
    /\ ~Early => first = began - StartBack /\ StartBack < began /\ began <= Tip
    /\ stage = "others" => life \in late \/ (batch = None /\ waited < PollingInterval)
    /\ batch # None /\ batch.pc = "fetch" => last = Delivered

\* What the relays of all lives have to do with the chain and with the present
\* life: its own are what it delivered, the others' were final when it began.
OfLife(r) ==
    /\ r.life <= life
    /\ 1 <= r.height /\ r.height <= SafeBlock /\ r.version = chain[r.height]
    /\ stage # "down" /\ r.life = life =>
          r.began = began /\ first < r.height /\ r.height <= Delivered
    /\ ~Early /\ r.life < life => r.height <= began - ReorgBuffer

OwnComplete ==
    stage # "down" =>
        \A h \in first + 1 .. Delivered :
            \E i \in DOMAIN handed : handed[i].life = life /\ handed[i].height = h

RecordInv ==
    /\ UnheardOnlyWhenLate
    /\ \A i \in DOMAIN handed : OfLife(handed[i])
    /\ OwnComplete
    /\ RepeatsAreRecent /\ NoGapAfterShortOutages

LivesInv == MonitorInv /\ RelayerTypeOK /\ PhaseInv /\ RecordInv

LEMMA LifeConstants ==
    PollingInterval \in Nat /\ PollingInterval > 0 /\ MaxLives \in Nat
BY RelayerAssumption

\* A process that has ended leaves the monitor as a new one finds it.
LEMMA VolatileStep == MonitorInv /\ Volatile /\ UNCHANGED <<chain, resets>> => MonitorInv'
<1> SUFFICES ASSUME MonitorInv, Volatile, UNCHANGED <<chain, resets>> PROVE MonitorInv'
  OBVIOUS
<1> USE DEF Volatile
<1>1. MonitorTypeOK'
  <2>1. {isRunning', timer'} \subseteq BOOLEAN
    OBVIOUS
  <2>2. {last', first', orphans', starts', resets'} \subseteq Nat
    BY DEF MonitorInv, MonitorTypeOK
  <2>3. log' \in Seq([height: Nat, version: Versions])
    OBVIOUS
  <2>4. QED BY <2>1, <2>2, <2>3 DEF MonitorInv, MonitorTypeOK
<1>2. Chosen' /\ PollingNeverDies'
  BY DEF Chosen, PollingNeverDies
<1>3. StartsCounted'
  BY DEF StartsCounted, Pollers
<1>4. Pipeline'
  BY DEF MonitorInv, Pipeline, Tip, RangeUnderWay
<1>5. ExactlyOnceInOrder'
  BY DEF ExactlyOnceInOrder, Delivered, RangeUnderWay
<1>6. QED BY <1>1, <1>2, <1>3, <1>4, <1>5 DEF MonitorInv

\* Numbers of the present state.
LEMMA LifeTypes ==
    ASSUME LivesInv
    PROVE  /\ Tip \in Nat /\ SafeBlock \in Int /\ SafeBlock < Tip /\ Tip >= InitialHead
           /\ first \in Nat /\ Delivered \in Nat /\ Delivered >= first /\ last \in Nat
           /\ life \in Nat /\ began \in Nat /\ waited \in Nat
           /\ handed \in Seq(Entry)
           /\ Len(handed) \in Nat /\ DOMAIN handed = 1 .. Len(handed)
           /\ \A i \in DOMAIN handed : handed[i] \in Entry /\ handed[i].height \in Nat
                 /\ handed[i].life \in Nat /\ handed[i].began \in Nat
           /\ Early => Delivered = 0 /\ first = 0
<1>1. /\ chain \in Seq(Versions) /\ first \in Nat /\ last \in Nat
      /\ log \in Seq([height: Nat, version: Versions])
  BY DEF LivesInv, MonitorInv, MonitorTypeOK
<1>2. Tip \in Nat /\ Delivered \in Nat /\ Delivered >= first /\ Delivered = first + Len(log) /\ Len(log) \in Nat
  BY <1>1 DEF Tip, Delivered
<1>3. SafeBlock \in Int /\ SafeBlock < Tip
  BY <1>2, Constants DEF SafeBlock
<1>4. /\ life \in Nat /\ began \in Nat /\ waited \in 0 .. PollingInterval
      /\ handed \in Seq(Entry)
  BY DEF LivesInv, RelayerTypeOK
<1>5. Len(handed) \in Nat /\ DOMAIN handed = 1 .. Len(handed)
      /\ \A i \in DOMAIN handed : handed[i] \in Entry
  BY <1>4
<1>6. \A i \in DOMAIN handed : handed[i] \in Entry /\ handed[i].height \in Nat
         /\ handed[i].life \in Nat /\ handed[i].began \in Nat
  BY <1>5 DEF Entry
<1>7. Early => Delivered = 0 /\ first = 0
  <2> SUFFICES ASSUME Early PROVE Delivered = 0 /\ first = 0
    OBVIOUS
  <2>1. last = 0 /\ batch = None
    BY DEF LivesInv, PhaseInv
  <2>2. last = Delivered
    BY <2>1 DEF LivesInv, MonitorInv, ExactlyOnceInOrder, RangeUnderWay
  <2>3. QED BY <1>1, <1>2, <2>1, <2>2
<1>8. Tip >= InitialHead
  BY DEF LivesInv, MonitorInv, Pipeline
<1>9. waited \in Nat
  BY <1>4, LifeConstants
<1>10. QED BY <1>1, <1>2, <1>3, <1>4, <1>5, <1>6, <1>7, <1>8, <1>9

\* A cycle that fails in a life without resets changes nothing that was delivered.
LEMMA FailureKeeps ==
    ASSUME LivesInv, CycleFails
    PROVE  UNCHANGED <<first, log>>
<1>1. /\ first \in Nat /\ log \in Seq(Events) /\ Len(log) \in Nat
      /\ Delivered = first + Len(log)
  BY DEF LivesInv, MonitorInv, MonitorTypeOK, Events, Delivered
<1>2. last = Delivered
  BY DEF CycleFails, LivesInv, PhaseInv, MonitorInv, ExactlyOnceInOrder, RangeUnderWay
<1>3. log' = SubSeq(log, 1, Len(log)) /\ first' = first
  BY <1>1, <1>2 DEF CycleFails, DeliverFrom
<1>4. SubSeq(log, 1, Len(log)) = log
  BY <1>1
<1>5. QED BY <1>3, <1>4

\* What a step of the chain leaves alone.
LEMMA ChainKeeps ==
    ASSUME MonitorInv, Mine \/ Reorg
    PROVE  /\ UNCHANGED <<monitorVars, ghosts, starts, resets>>
           /\ Tip' >= Tip /\ Tip' \in Nat
           /\ \A h \in 1 .. SafeBlock : chain'[h] = chain[h]
<1>1. chain \in Seq(Versions) /\ Tip = Len(chain) /\ Tip \in Nat /\ SafeBlock <= Tip
  BY Constants DEF MonitorInv, MonitorTypeOK, Tip, SafeBlock
<1>2. CASE Mine
  <2>1. PICK v \in Versions : chain' = Append(chain, v)
    BY <1>2 DEF Mine
  <2>2. Len(chain') = Tip + 1 /\ \A h \in 1 .. Tip : chain'[h] = chain[h]
    BY <1>1, <2>1
  <2>3. \A h \in 1 .. SafeBlock : h \in 1 .. Tip
    BY <1>1, Constants DEF SafeBlock
  <2>4. UNCHANGED <<monitorVars, ghosts, starts, resets>>
    BY <1>2 DEF Mine
  <2>5. Tip' = Tip + 1
    BY <2>2 DEF Tip
  <2>6. QED BY <1>1, <2>2, <2>3, <2>4, <2>5
<1>3. CASE Reorg
  <2>1. PICK other \in [1 .. Tip -> Versions] :
            /\ \A h \in 1 .. Tip - ReorgBuffer : other[h] = chain[h]
            /\ chain' = other
    BY <1>3 DEF Reorg
  <2>2. chain' \in Seq(Versions) /\ Len(chain') = Tip
    BY <1>1, <2>1
  <2>3. UNCHANGED <<monitorVars, ghosts, starts, resets>>
    BY <1>3 DEF Reorg
  <2>4. Tip' = Tip
    BY <2>2 DEF Tip
  <2>5. QED BY <1>1, <2>1, <2>3, <2>4 DEF SafeBlock
<1>4. QED BY <1>2, <1>3

\* A step that begins no relay and no life.
LEMMA RecordStays ==
    ASSUME LivesInv, UNCHANGED <<handed, life>>, late \subseteq late',
           Tip' \in Nat, Tip' >= Tip, \A h \in 1 .. SafeBlock : chain'[h] = chain[h],
           stage' # "down" => /\ stage # "down" /\ first' = first
                              /\ Delivered' = Delivered /\ began' = began,
           ~Early' => ~Early
    PROVE  RecordInv'
<1>1. UnheardOnlyWhenLate'
  BY DEF LivesInv, RecordInv, UnheardOnlyWhenLate
<1>2. ASSUME NEW i \in DOMAIN handed' PROVE OfLife(handed[i])'
  <2>1. i \in DOMAIN handed /\ handed'[i] = handed[i] /\ life' = life
    BY <1>2
  <2>2. OfLife(handed[i])
    BY <2>1 DEF LivesInv, RecordInv
  <2>3. handed[i].height \in Nat /\ SafeBlock \in Int /\ SafeBlock' >= SafeBlock /\ SafeBlock' \in Int
    BY <2>1, LifeTypes, Constants DEF SafeBlock
  <2>4. 1 <= handed[i].height /\ handed[i].height <= SafeBlock' /\ handed[i].life <= life
    BY <2>2, <2>3 DEF OfLife
  <2>5. handed[i].version = chain'[handed[i].height]
    <3>1. handed[i].height >= 1 /\ handed[i].height <= SafeBlock
      BY <2>2 DEF OfLife
    <3>2. handed[i].height \in 1 .. SafeBlock
      BY <2>3, <3>1
    <3>3. QED BY <2>2, <3>2 DEF OfLife
  <2>6. stage' # "down" /\ handed[i].life = life =>
            handed[i].began = began' /\ first' < handed[i].height /\ handed[i].height <= Delivered'
    BY <2>2 DEF OfLife
  <2>7. ~Early' /\ handed[i].life < life => handed[i].height <= began' - ReorgBuffer
    <3>1. ~Early' => stage' # "down"
      BY DEF Early
    <3>2. QED BY <2>2, <3>1 DEF OfLife
  <2>8. QED BY <2>1, <2>4, <2>5, <2>6, <2>7 DEF OfLife
<1>3. OwnComplete'
  <2> SUFFICES ASSUME stage' # "down", NEW h \in first' + 1 .. Delivered'
               PROVE  \E i \in DOMAIN handed' : handed'[i].life = life' /\ handed'[i].height = h
    BY DEF OwnComplete
  <2>1. stage # "down" /\ h \in first + 1 .. Delivered
    OBVIOUS
  <2>2. PICK i \in DOMAIN handed : handed[i].life = life /\ handed[i].height = h
    BY <2>1 DEF LivesInv, RecordInv, OwnComplete
  <2>3. QED BY <2>2
<1>4. RepeatsAreRecent' /\ NoGapAfterShortOutages'
  BY DEF LivesInv, RecordInv, RepeatsAreRecent, NoGapAfterShortOutages, ShortOutages, Before
<1>5. QED BY <1>1, <1>2, <1>3, <1>4 DEF RecordInv

\* The types of what a step leaves of the process.
LEMMA LifeTypesStay ==
    ASSUME LivesInv, UNCHANGED <<life, handed>>, began' \in {began, 0}, late' \subseteq Nat,
           stage' \in {"down", "relay", "ethereum", "others", "serving", "stopping"},
           waited' \in 0 .. PollingInterval
    PROVE  RelayerTypeOK'
BY DEF LivesInv, RelayerTypeOK

LEMMA InitLivesInv == RelayerInit => LivesInv
<1> SUFFICES ASSUME RelayerInit PROVE LivesInv
  OBVIOUS
<1> USE DEF RelayerInit
<1>1. MonitorInv
  BY InitMonitorInv
<1>2. RelayerTypeOK
  BY LifeConstants DEF RelayerTypeOK
<1>3. PhaseInv
  BY DEF MonitorInit, PhaseInv, Early
<1>4. RecordInv
  BY DEF RecordInv, UnheardOnlyWhenLate, OwnComplete, RepeatsAreRecent, NoGapAfterShortOutages
<1>5. QED BY <1>1, <1>2, <1>3, <1>4 DEF LivesInv

LEMMA ChainGoesOnStep == LivesInv /\ ChainGoesOn => LivesInv'
<1> SUFFICES ASSUME LivesInv, ChainGoesOn PROVE LivesInv'
  OBVIOUS
<1>1. MonitorInv /\ (Mine \/ Reorg) /\ UNCHANGED <<processVars, record>>
  BY DEF LivesInv, ChainGoesOn
<1>2. MonitorInv'
  BY <1>1, MineStep, ReorgStep
<1>3. /\ UNCHANGED <<monitorVars, ghosts, starts, resets>>
      /\ Tip' >= Tip /\ Tip' \in Nat
      /\ \A h \in 1 .. SafeBlock : chain'[h] = chain[h]
  BY <1>1, ChainKeeps
<1>4. /\ UNCHANGED <<stage, waited, life, began, handed, late>>
      /\ UNCHANGED <<timer, orphans, batch, last, first, log, starting>>
  BY <1>1, <1>3 DEF processVars, record, monitorVars, ghosts
<1>5. RelayerTypeOK'
  BY <1>4, LifeTypesStay DEF LivesInv, RelayerTypeOK
<1>6. PhaseInv'
  BY <1>3, <1>4, LifeTypes DEF LivesInv, PhaseInv, Early, Delivered
<1>7. RecordInv'
  BY <1>3, <1>4, RecordStays DEF Delivered, Early
<1>8. QED BY <1>2, <1>5, <1>6, <1>7 DEF LivesInv

\* The blocks are as they were.
LEMMA ChainSame ==
    ASSUME LivesInv, UNCHANGED chain
    PROVE  /\ Tip' = Tip /\ Tip' \in Nat /\ Tip' >= Tip
           /\ \A h \in 1 .. SafeBlock : chain'[h] = chain[h]
BY LifeTypes DEF Tip

LEMMA LaunchStep == LivesInv /\ Launch => LivesInv'
<1> SUFFICES ASSUME LivesInv, Launch PROVE LivesInv'
  OBVIOUS
<1>1. /\ stage = "down" /\ stage' = "relay" /\ life' = life + 1
      /\ UNCHANGED <<monitorAndChain, waited, began, record>>
  BY DEF Launch
<1>2. /\ UNCHANGED <<chain, timer, orphans, batch, last, first, log, starting>>
      /\ UNCHANGED <<handed, late>>
  BY <1>1 DEF monitorAndChain, monitorVars, ghosts, record
<1>3. MonitorInv'
  BY <1>1, StutterStep DEF LivesInv
<1>4. RelayerTypeOK'
  BY <1>1, <1>2, LifeTypes, LifeConstants DEF LivesInv, RelayerTypeOK
<1>5. PhaseInv'
  BY <1>1, <1>2 DEF LivesInv, PhaseInv, Early, Delivered
<1>6. ASSUME NEW i \in DOMAIN handed' PROVE OfLife(handed[i])'
  <2>1. i \in DOMAIN handed /\ handed'[i] = handed[i]
    BY <1>2
  <2>2. OfLife(handed[i]) /\ handed[i].life \in Nat /\ life \in Nat
    BY <2>1, LifeTypes DEF LivesInv, RecordInv
  <2>3. handed[i].life <= life' /\ handed[i].life # life'
    BY <1>1, <2>2 DEF OfLife
  <2>4. Early' /\ SafeBlock' = SafeBlock /\ chain' = chain
    BY <1>1, <1>2 DEF Early, SafeBlock, Tip
  <2>5. QED BY <2>1, <2>2, <2>3, <2>4 DEF OfLife
<1>7. OwnComplete'
  <2>1. Delivered = 0 /\ first = 0
    BY <1>1, LifeTypes DEF Early
  <2>2. Delivered' = 0 /\ first' = 0
    BY <1>2, <2>1 DEF Delivered
  <2>3. QED BY <2>2 DEF OwnComplete
<1>8. RepeatsAreRecent' /\ NoGapAfterShortOutages' /\ UnheardOnlyWhenLate'
  BY <1>2 DEF LivesInv, RecordInv, UnheardOnlyWhenLate, RepeatsAreRecent, NoGapAfterShortOutages, ShortOutages, Before
<1>9. RecordInv'
  BY <1>6, <1>7, <1>8 DEF RecordInv
<1>10. QED BY <1>3, <1>4, <1>5, <1>9 DEF LivesInv

LEMMA StartEthereumStep == LivesInv /\ StartEthereum => LivesInv'
<1> SUFFICES ASSUME LivesInv, StartEthereum PROVE LivesInv'
  OBVIOUS
<1>1. /\ stage = "relay" /\ stage' = "ethereum" /\ Start
      /\ UNCHANGED <<waited, life, began, handed, late>>
  BY DEF StartEthereum, record
<1>2. /\ UNCHANGED <<chain, last, timer, orphans, batch, first, log>>
      /\ starting' = IF last = 0 THEN "asking" ELSE "resuming"
  BY <1>1 DEF Start, ghosts
<1>3. MonitorInv'
  BY <1>1, StartStep DEF LivesInv
<1>4. RelayerTypeOK'
  BY <1>1, LifeTypesStay DEF LivesInv, RelayerTypeOK
<1>5. PhaseInv'
  BY <1>1, <1>2 DEF LivesInv, PhaseInv, Early, Delivered
<1>6. Tip' \in Nat /\ Tip' >= Tip /\ \A h \in 1 .. SafeBlock : chain'[h] = chain[h]
  BY <1>2, ChainSame
<1>7. RecordInv'
  BY <1>1, <1>2, <1>6, RecordStays DEF Delivered, Early
<1>8. QED BY <1>3, <1>4, <1>5, <1>7 DEF LivesInv

LEMMA EthereumStartedStep == LivesInv /\ EthereumStarted => LivesInv'
<1> SUFFICES ASSUME LivesInv, EthereumStarted PROVE LivesInv'
  OBVIOUS
<1>1. /\ stage = "ethereum" /\ stage' = "others" /\ began' = Tip
      /\ InitializeStartingBlock
      /\ UNCHANGED <<waited, life, handed, late>>
  BY DEF EthereumStarted, record
<1>2. starting = "asking" /\ batch = None /\ Delivered = 0 /\ first = 0
  BY <1>1, LifeTypes DEF LivesInv, PhaseInv, Early
<1>3. /\ first' = StartBlock /\ log' = << >> /\ batch' = None /\ chain' = chain
      /\ starting' = "no"
  BY <1>1, <1>2 DEF InitializeStartingBlock
<1>4. MonitorInv'
  BY <1>1, InitializeStep DEF LivesInv
<1>5. Tip \in Nat /\ Tip >= InitialHead /\ Tip' = Tip
  BY <1>3, LifeTypes DEF Tip
<1>6. first' = began' - StartBack /\ StartBack < began' /\ began' <= Tip'
  BY <1>1, <1>3, <1>5, Constants DEF StartBlock
<1>7. RelayerTypeOK'
  BY <1>1, <1>5 DEF LivesInv, RelayerTypeOK
<1>8. PhaseInv'
  <2>1. waited = 0
    BY <1>1 DEF LivesInv, PhaseInv, Early
  <2>2. QED BY <1>1, <1>3, <1>6, <2>1, LifeConstants DEF PhaseInv, Early
<1>9. ASSUME NEW i \in DOMAIN handed' PROVE OfLife(handed[i])'
  <2>1. i \in DOMAIN handed /\ handed'[i] = handed[i] /\ life' = life
    BY <1>1, <1>9
  <2>2. /\ OfLife(handed[i]) /\ handed[i].life \in Nat /\ life \in Nat
        /\ handed[i].height \in Nat
    BY <2>1, LifeTypes DEF LivesInv, RecordInv
  <2>3. handed[i].life # life
    BY <1>1, <1>2, <2>2 DEF OfLife
  <2>4. SafeBlock' = SafeBlock /\ chain' = chain /\ SafeBlock = began' - ReorgBuffer
    BY <1>1, <1>3, <1>5 DEF SafeBlock
  <2>5. QED BY <2>1, <2>2, <2>3, <2>4 DEF OfLife
<1>10. OwnComplete'
  <2>1. Delivered' = first' /\ first' \in Int
    BY <1>1, <1>3, <1>5, <1>6, Constants DEF Delivered
  <2>2. \A f \in Int : f + 1 .. f = {}
    OBVIOUS
  <2>3. first' + 1 .. Delivered' = {}
    BY <2>1, <2>2
  <2>4. QED BY <2>3 DEF OwnComplete
<1>11. RepeatsAreRecent' /\ NoGapAfterShortOutages' /\ UnheardOnlyWhenLate'
  BY <1>1 DEF LivesInv, RecordInv, UnheardOnlyWhenLate, RepeatsAreRecent, NoGapAfterShortOutages, ShortOutages, Before
<1>12. RecordInv'
  BY <1>9, <1>10, <1>11 DEF RecordInv
<1>13. QED BY <1>4, <1>7, <1>8, <1>12 DEF LivesInv

LEMMA RegisterHandlersStep == LivesInv /\ RegisterHandlers => LivesInv'
<1> SUFFICES ASSUME LivesInv, RegisterHandlers PROVE LivesInv'
  OBVIOUS
<1>1. /\ stage = "others" /\ stage' = "serving"
      /\ UNCHANGED <<monitorAndChain, waited, life, began, handed, late>>
  BY DEF RegisterHandlers, record
<1>2. UNCHANGED <<chain, last, timer, orphans, batch, first, log, starting>>
  BY <1>1 DEF monitorAndChain, monitorVars, ghosts
<1>3. MonitorInv'
  BY <1>1, StutterStep DEF LivesInv
<1>4. RelayerTypeOK'
  BY <1>1, LifeTypesStay DEF LivesInv, RelayerTypeOK
<1>5. Tip' = Tip /\ Tip' \in Nat /\ Tip' >= Tip /\ \A h \in 1 .. SafeBlock : chain'[h] = chain[h]
  BY <1>2, ChainSame
<1>6. PhaseInv'
  BY <1>1, <1>2, <1>5 DEF LivesInv, PhaseInv, Early, Delivered
<1>7. RecordInv'
  BY <1>1, <1>2, <1>5, RecordStays DEF Delivered, Early
<1>8. QED BY <1>3, <1>4, <1>6, <1>7 DEF LivesInv

LEMMA ElapseStep == LivesInv /\ Elapse => LivesInv'
<1> SUFFICES ASSUME LivesInv, Elapse PROVE LivesInv'
  OBVIOUS
<1>1. /\ stage \in {"others", "serving"} /\ waited < PollingInterval
      /\ waited' = waited + 1
      /\ late' = IF stage = "others" /\ waited' = PollingInterval THEN late \cup {life} ELSE late
      /\ UNCHANGED <<monitorAndChain, stage, life, began, handed>>
  BY DEF Elapse
<1>2. UNCHANGED <<chain, last, timer, orphans, batch, first, log, starting>>
  BY <1>1 DEF monitorAndChain, monitorVars, ghosts
<1>3. MonitorInv'
  BY <1>1, StutterStep DEF LivesInv
<1>4. waited \in Nat /\ waited' \in 0 .. PollingInterval
  BY <1>1, LifeTypes, LifeConstants
<1>5. RelayerTypeOK'
  BY <1>1, <1>4, LifeTypes, LifeTypesStay DEF LivesInv, RelayerTypeOK
<1>6. Tip' = Tip /\ Tip' \in Nat /\ Tip' >= Tip /\ \A h \in 1 .. SafeBlock : chain'[h] = chain[h]
  BY <1>2, ChainSame
<1>7. PhaseInv'
  <2>1. stage = "others" => life \in late' \/ (batch = None /\ waited' < PollingInterval)
    BY <1>1, <1>4, LifeConstants DEF LivesInv, PhaseInv
  <2>2. QED BY <1>1, <1>2, <1>6, <2>1 DEF LivesInv, PhaseInv, Early, Delivered
<1>8. RecordInv'
  BY <1>1, <1>2, <1>6, RecordStays DEF Delivered, Early
<1>9. QED BY <1>3, <1>5, <1>7, <1>8 DEF LivesInv

\* The monitor polls only in a life that serves, or is late.
Polling == stage \in {"serving", "stopping"} \/ (stage = "others" /\ life \in late)

LEMMA PollersServe ==
    ASSUME LivesInv, batch # None \/ (PollIsDue /\ Fire)
    PROVE  Polling
<1>1. ~Early
  BY DEF LivesInv, PhaseInv, Fire
<1>2. stage = "others" => life \in late
  BY LifeTypes, LifeConstants DEF LivesInv, PhaseInv, PollIsDue
<1>3. QED BY <1>1, <1>2 DEF LivesInv, RelayerTypeOK, Early, Polling

\* A step of the monitor in a life that polls, which delivers nothing.
LEMMA ServingStep ==
    ASSUME LivesInv, MonitorInv', Polling, Polling',
           UNCHANGED <<chain, first, log, waited, life, began, handed, late>>,
           batch' # None /\ batch'.pc = "fetch" => last' = Delivered
    PROVE  LivesInv'
<1>1. RelayerTypeOK'
  BY LifeTypesStay DEF LivesInv, RelayerTypeOK, Polling
<1>2. Tip' = Tip /\ Tip' \in Nat /\ Tip' >= Tip /\ \A h \in 1 .. SafeBlock : chain'[h] = chain[h]
  BY ChainSame
<1>3. PhaseInv'
  BY <1>2 DEF LivesInv, PhaseInv, Early, Delivered, Polling
<1>4. RecordInv'
  BY <1>2, RecordStays DEF Delivered, Early, Polling
<1>5. QED BY <1>1, <1>3, <1>4 DEF LivesInv

LEMMA PollStep == LivesInv /\ Poll => LivesInv'
<1> SUFFICES ASSUME LivesInv, Poll PROVE LivesInv'
  OBVIOUS
<1>1. PollIsDue /\ PollingCycle /\ UNCHANGED <<stage, waited, life, began, handed, late>>
  BY DEF Poll, processVars, record
<1>2. Fire /\ UNCHANGED <<chain, first, log>>
  BY <1>1 DEF PollingCycle, ghosts
<1>3. Polling /\ Polling'
  BY <1>1, <1>2, PollersServe DEF Polling
<1>4. MonitorInv'
  BY <1>1, PollingCycleStep DEF LivesInv
<1>5. batch' # None /\ batch'.pc = "fetch" => last' = Delivered
  <2>1. last' = last /\ (batch' = batch \/ batch' = Reading)
    BY <1>1 DEF PollingCycle
  <2>2. QED BY <2>1, ReadingIsBatch DEF LivesInv, PhaseInv
<1>6. QED BY <1>1, <1>2, <1>3, <1>4, <1>5, ServingStep

LEMMA WorkStep == LivesInv /\ Work => LivesInv'
<1> SUFFICES ASSUME LivesInv, Work PROVE LivesInv'
  OBVIOUS
<1>1. /\ ReadHead \/ FetchEvents \/ CycleFails \/ EndBatch
      /\ UNCHANGED <<stage, waited, life, began, handed, late>>
  BY DEF Work, processVars, record
<1>2. batch # None /\ UNCHANGED <<chain, first, log>>
  BY <1>1, FailureKeeps DEF ReadHead, FetchEvents, CycleFails, EndBatch, ghosts
<1>3. Polling /\ Polling'
  BY <1>1, <1>2, PollersServe DEF Polling
<1>4. MonitorInv'
  BY <1>1, ReadHeadStep, FetchEventsStep, CycleFailsStep, EndBatchStep DEF LivesInv
<1>5. batch' # None /\ batch'.pc = "fetch" => last' = Delivered
  <2>1. CASE ReadHead
    <3>1. batch.pc = "head" /\ last' = last
      BY <2>1 DEF ReadHead
    <3>2. QED BY <1>2, <3>1 DEF LivesInv, MonitorInv, ExactlyOnceInOrder, RangeUnderWay
  <2>2. CASE FetchEvents
    <3>1. batch \in Batch
      BY <1>2 DEF LivesInv, MonitorInv, MonitorTypeOK
    <3>2. batch'.pc = "deliver"
      BY <2>2, <3>1 DEF FetchEvents, Batch
    <3>3. QED BY <3>2
  <2>3. CASE CycleFails \/ EndBatch
    BY <2>3 DEF CycleFails, EndBatch, EndCycle
  <2>4. QED BY <1>1, <2>1, <2>2, <2>3
<1>6. QED BY <1>1, <1>2, <1>3, <1>4, <1>5, ServingStep

LEMMA ShutdownStep == LivesInv /\ Shutdown => LivesInv'
<1> SUFFICES ASSUME LivesInv, Shutdown PROVE LivesInv'
  OBVIOUS
<1>1. /\ stage = "serving" /\ stage' = "stopping" /\ Stop
      /\ UNCHANGED <<waited, life, began, handed, late>>
  BY DEF Shutdown, record
<1>2. UNCHANGED <<chain, first, log>>
  BY <1>1 DEF Stop, ghosts
<1>3. MonitorInv'
  BY <1>1, StopStep DEF LivesInv
<1>4. batch' # None /\ batch'.pc = "fetch" => last' = Delivered
  BY <1>1 DEF Stop, LivesInv, PhaseInv
<1>5. Polling /\ Polling'
  BY <1>1 DEF Polling
<1>6. QED BY <1>1, <1>2, <1>3, <1>4, <1>5, ServingStep

LEMMA ExitStep == LivesInv /\ Exit => LivesInv'
<1> SUFFICES ASSUME LivesInv, Exit PROVE LivesInv'
  OBVIOUS
<1>1. /\ stage' = "down" /\ Volatile /\ waited' = 0 /\ began' = 0
      /\ UNCHANGED <<chain, resets, life, handed, late>>
  BY DEF Exit, record
<1>2. MonitorInv'
  BY <1>1, VolatileStep DEF LivesInv
<1>3. RelayerTypeOK'
  BY <1>1, LifeTypesStay, LifeConstants DEF LivesInv, RelayerTypeOK
<1>4. PhaseInv'
  BY <1>1 DEF Volatile, PhaseInv, Early
<1>5. Tip' \in Nat /\ Tip' >= Tip /\ \A h \in 1 .. SafeBlock : chain'[h] = chain[h]
  BY <1>1, ChainSame
<1>6. RecordInv'
  BY <1>1, <1>5, RecordStays DEF Early
<1>7. QED BY <1>2, <1>3, <1>4, <1>6 DEF LivesInv

\* The event that is delivered next, and what is left when it was.
LEMMA NextEvent ==
    ASSUME MonitorInv, ProcessEvent
    PROVE  /\ batch # None /\ Head(batch.queue) = Event(Delivered + 1)
           /\ Delivered + 1 <= SafeBlock
           /\ UNCHANGED <<chain, first, last, timer, orphans, starting>>
           /\ Delivered' = Delivered + 1
           /\ batch'.pc = "deliver"
<1>1. /\ batch # None /\ batch.pc = "deliver" /\ batch.queue # << >>
      /\ log' = Append(log, Head(batch.queue))
      /\ UNCHANGED <<chain, first, last, timer, orphans, starting>>
  BY DEF ProcessEvent
<1>2. PICK q : q = batch.queue
  OBVIOUS
<1>3. q \in Seq(Events) /\ q # << >> /\ batch.to \in Int
  BY <1>1, <1>2 DEF MonitorInv, MonitorTypeOK, Batch, Events
<1>4. Len(q) \in Nat /\ Len(q) >= 1 /\ Head(q) = q[1]
  BY <1>3
<1>5. /\ \A i \in 1 .. Len(q) : q[i] = Event(Delivered + i)
      /\ Delivered + Len(q) = batch.to /\ batch.to <= SafeBlock
  BY <1>1, <1>2 DEF MonitorInv, Pipeline, ExactlyOnceInOrder, RangeUnderWay
<1>6. /\ first \in Nat /\ log \in Seq(Events) /\ Len(log) \in Nat /\ Delivered = first + Len(log)
      /\ Tip \in Nat /\ SafeBlock \in Int
  BY Constants DEF MonitorInv, MonitorTypeOK, Events, Delivered, Tip, SafeBlock
<1>7. Head(q) = Event(Delivered + 1) /\ Delivered + 1 <= SafeBlock
  BY <1>4, <1>5, <1>6
<1>8. Head(q) \in Events
  BY <1>3
<1>9. Len(log') = Len(log) + 1
  BY <1>1, <1>2, <1>6, <1>8
<1>10. Delivered' = Delivered + 1
  BY <1>1, <1>6, <1>9 DEF Delivered
<1>11. batch'.pc = "deliver"
  <2>1. batch \in Batch /\ batch' = [batch EXCEPT !.queue = Tail(batch.queue)]
    BY <1>1 DEF ProcessEvent, MonitorInv, MonitorTypeOK
  <2>2. QED BY <1>1, <2>1 DEF Batch
<1>12. QED BY <1>1, <1>2, <1>7, <1>10, <1>11

\* What a relay that is begun adds to the record.
LEMMA OneMore ==
    ASSUME NEW S, NEW l \in Seq(S), NEW e \in S
    PROVE  /\ Append(l, e) \in Seq(S) /\ DOMAIN Append(l, e) = 1 .. Len(l) + 1
           /\ DOMAIN l = 1 .. Len(l) /\ Len(l) \in Nat
           /\ Append(l, e)[Len(l) + 1] = e
           /\ \A i \in 1 .. Len(l) : Append(l, e)[i] = l[i]
OBVIOUS

LEMMA HandOverStep == LivesInv /\ HandOver => LivesInv'
<1> SUFFICES ASSUME LivesInv, HandOver PROVE LivesInv'
  OBVIOUS
<1>1. ProcessEvent /\ UNCHANGED <<stage, waited, life, began>> /\ MonitorInv
  BY DEF HandOver, processVars, LivesInv
<1>2. /\ batch # None /\ Head(batch.queue) = Event(Delivered + 1)
      /\ Delivered + 1 <= SafeBlock
      /\ UNCHANGED <<chain, first, last, timer, orphans, starting>>
      /\ Delivered' = Delivered + 1 /\ batch'.pc = "deliver"
  BY <1>1, NextEvent
<1>3. Polling
  BY <1>2, PollersServe
<1>4. PICK n, H, e, L, B, d :
          /\ n = Len(handed) /\ H = Delivered + 1 /\ L = life /\ B = began
          /\ d = (stage # "others")
          /\ e = [life |-> L, began |-> B, height |-> H, version |-> chain[H], heard |-> d]
  OBVIOUS
<1>5. /\ Tip \in Nat /\ SafeBlock \in Int /\ SafeBlock < Tip
      /\ first \in Nat /\ Delivered \in Nat /\ Delivered >= first
      /\ L \in Nat /\ B \in Nat /\ n \in Nat /\ H \in Nat
      /\ handed \in Seq(Entry) /\ DOMAIN handed = 1 .. n
      /\ \A i \in 1 .. n : handed[i] \in Entry /\ handed[i].height \in Nat
            /\ handed[i].life \in Nat /\ handed[i].began \in Nat
  <2>1. /\ Tip \in Nat /\ SafeBlock \in Int /\ SafeBlock < Tip
        /\ first \in Nat /\ Delivered \in Nat /\ Delivered >= first
        /\ life \in Nat /\ began \in Nat
    BY LifeTypes
  <2>2. /\ Len(handed) \in Nat /\ handed \in Seq(Entry) /\ DOMAIN handed = 1 .. Len(handed)
        /\ \A i \in DOMAIN handed : handed[i] \in Entry /\ handed[i].height \in Nat
              /\ handed[i].life \in Nat /\ handed[i].began \in Nat
    BY LifeTypes
  <2>3. H \in Nat
    BY <1>4, <2>1
  <2>4. QED BY <1>4, <2>1, <2>2, <2>3
<1>6. handed' = Append(handed, e) /\ late' = late
  BY <1>2, <1>4 DEF HandOver, Relay, Event
<1>7. e \in Entry
  <2>1. H \in 1 .. Tip
    BY <1>2, <1>4, <1>5
  <2>2. chain \in Seq(Versions) /\ Tip = Len(chain)
    BY <1>1 DEF MonitorInv, MonitorTypeOK, Tip
  <2>3. chain[H] \in Versions
    BY <2>1, <2>2
  <2>4. d \in BOOLEAN
    BY <1>4
  <2>5. QED BY <1>4, <1>5, <2>3, <2>4 DEF Entry
<1>8. /\ handed' \in Seq(Entry) /\ DOMAIN handed' = 1 .. n + 1
      /\ handed'[n + 1] = e /\ \A i \in 1 .. n : handed'[i] = handed[i]
  BY <1>4, <1>5, <1>6, <1>7, OneMore
<1>9. MonitorInv'
  BY <1>1, ProcessEventStep
<1>10. RelayerTypeOK'
  BY <1>1, <1>6, <1>8 DEF LivesInv, RelayerTypeOK
<1>11. Tip' = Tip
  BY <1>2 DEF Tip
<1>12. PhaseInv'
  BY <1>1, <1>2, <1>3, <1>6, <1>11 DEF LivesInv, PhaseInv, Early, Polling
<1>13. /\ e.life = L /\ e.began = B /\ e.height = H /\ e.version = chain[H]
       /\ first = B - StartBack
  BY <1>3, <1>4 DEF LivesInv, PhaseInv, Early, Polling
<1>14. /\ \A i \in 1 .. n : handed[i].life = L => first < handed[i].height /\ handed[i].height < H
       /\ \A i \in 1 .. n : handed[i].life < L => handed[i].height <= B - ReorgBuffer
       /\ \A i \in 1 .. n : handed[i].life <= L
  <2>1. ASSUME NEW i \in 1 .. n
        PROVE  /\ handed[i].life = L => first < handed[i].height /\ handed[i].height < H
               /\ handed[i].life < L => handed[i].height <= B - ReorgBuffer
               /\ handed[i].life <= L
    <3>1. OfLife(handed[i]) /\ handed[i].height \in Nat
      BY <1>5 DEF LivesInv, RecordInv
    <3>2. ~Early /\ stage # "down"
      BY <1>3 DEF Early, Polling
    <3>3. handed[i].height <= Delivered => handed[i].height < H
      BY <1>4, <1>5, <3>1
    <3>4. QED BY <1>4, <3>1, <3>2, <3>3 DEF OfLife
  <2>2. QED BY <2>1
<1>15. ASSUME NEW i \in DOMAIN handed' PROVE OfLife(handed[i])'
  <2>1. SafeBlock' = SafeBlock /\ chain' = chain /\ life' = L /\ began' = B /\ first' = first /\ Delivered' = H
    BY <1>1, <1>2, <1>4, <1>11 DEF SafeBlock
  <2>2. CASE i = n + 1
    <3>1. handed'[i] = e
      BY <1>8, <2>2
    <3>2. /\ e.life <= life' /\ 1 <= e.height /\ e.height <= SafeBlock'
          /\ e.version = chain'[e.height]
      BY <1>2, <1>4, <1>5, <1>13, <2>1
    <3>3. e.began = began' /\ first' < e.height /\ e.height <= Delivered' /\ ~(e.life < life')
      BY <1>4, <1>5, <1>13, <2>1
    <3>4. QED BY <3>1, <3>2, <3>3 DEF OfLife
  <2>3. CASE i \in 1 .. n
    <3>1. handed'[i] = handed[i] /\ OfLife(handed[i])
      BY <1>5, <1>8, <2>3 DEF LivesInv, RecordInv
    <3>2. handed[i].life = L => handed[i].height <= H /\ handed[i].began = B /\ first < handed[i].height
      BY <1>3, <1>4, <1>5, <1>14, <2>3, <3>1 DEF OfLife, Early, Polling
    <3>3. /\ handed[i].life <= life' /\ 1 <= handed[i].height /\ handed[i].height <= SafeBlock'
          /\ handed[i].version = chain'[handed[i].height]
          /\ (handed[i].life < life' => handed[i].height <= began' - ReorgBuffer)
      BY <1>4, <1>14, <2>1, <2>3, <3>1 DEF OfLife
    <3>4. QED BY <2>1, <3>1, <3>2, <3>3 DEF OfLife
  <2>4. QED BY <1>5, <1>8, <2>2, <2>3
<1>16. OwnComplete'
  <2> SUFFICES ASSUME NEW h \in first' + 1 .. Delivered'
               PROVE  \E i \in DOMAIN handed' : handed'[i].life = life' /\ handed'[i].height = h
    BY DEF OwnComplete
  <2>1. life' = L /\ h \in first + 1 .. H
    BY <1>1, <1>2, <1>4
  <2>2. CASE h = H
    BY <1>5, <1>8, <1>13, <2>1, <2>2
  <2>3. CASE h # H
    <3>1. h \in first + 1 .. Delivered
      BY <1>4, <1>5, <2>1, <2>3
    <3>2. PICK i \in 1 .. n : handed[i].life = life /\ handed[i].height = h
      BY <1>3, <1>5, <3>1 DEF LivesInv, RecordInv, OwnComplete, Polling
    <3>3. i \in DOMAIN handed' /\ handed'[i] = handed[i]
      BY <1>5, <1>8
    <3>4. QED BY <1>4, <2>1, <3>2, <3>3
  <2>4. QED BY <2>2, <2>3
<1>17. RepeatsAreRecent'
  <2> SUFFICES ASSUME NEW i \in DOMAIN handed', NEW j \in DOMAIN handed',
                      i < j, handed'[i].height = handed'[j].height
               PROVE  /\ handed'[i].life < handed'[j].life
                      /\ handed'[j].height > handed'[j].began - StartBack
                      /\ handed'[j].height <= handed'[j].began - ReorgBuffer
    BY DEF RepeatsAreRecent
  <2>1. i \in 1 .. n /\ handed'[i] = handed[i]
    BY <1>5, <1>8
  <2>2. CASE j = n + 1
    <3>1. handed'[j] = e /\ handed[i].height = H
      BY <1>8, <1>13, <2>1, <2>2
    <3>2. handed[i].life < L /\ H <= B - ReorgBuffer
      BY <1>5, <1>14, <2>1, <3>1
    <3>3. H > B - StartBack
      BY <1>4, <1>5, <1>13, Constants
    <3>4. QED BY <1>13, <2>1, <3>1, <3>2, <3>3
  <2>3. CASE j \in 1 .. n
    <3>1. handed'[j] = handed[j] /\ i \in DOMAIN handed /\ j \in DOMAIN handed
      BY <1>5, <1>8, <2>1, <2>3
    <3>2. QED BY <2>1, <3>1 DEF LivesInv, RecordInv, RepeatsAreRecent
  <2>4. QED BY <1>5, <1>8, <2>2, <2>3
<1>18. NoGapAfterShortOutages'
  <2> SUFFICES ASSUME ShortOutages', NEW i \in DOMAIN handed',
                      NEW h \in handed'[1].height .. handed'[i].height
               PROVE  \E j \in DOMAIN handed' : handed'[j].height = h
    BY DEF NoGapAfterShortOutages
  <2>1. /\ \A k \in 1 .. n : Before(k)' = Before(k)
        /\ Before(n + 1)' = {j \in 1 .. n : handed[j].life < L}
    <3>1. ASSUME NEW k \in 1 .. n PROVE Before(k)' = Before(k)
      <4>1. handed'[k] = handed[k] /\ ~(handed'[n + 1].life < handed[k].life)
        BY <1>5, <1>8, <1>13, <1>14
      <4>2. QED BY <1>5, <1>8, <4>1 DEF Before
    <3>2. ~(e.life < L)
      BY <1>5, <1>13
    <3>3. \A j \in 1 .. n : handed'[j].life = handed[j].life
      BY <1>8
    <3>4. Before(n + 1)' = {j \in 1 .. n + 1 : handed'[j].life < L}
      BY <1>8, <1>13 DEF Before
    <3>5. QED BY <1>5, <1>8, <3>1, <3>2, <3>3, <3>4
  <2>2. ShortOutages
    <3> SUFFICES ASSUME NEW k \in DOMAIN handed, Before(k) # {}
                 PROVE  \E j \in Before(k) : handed[j].height >= handed[k].began - StartBack
      BY DEF ShortOutages
    <3>1. k \in 1 .. n /\ k \in DOMAIN handed' /\ handed'[k] = handed[k] /\ Before(k)' # {}
      BY <1>5, <1>8, <2>1
    <3>2. PICK j \in Before(k)' : handed'[j].height >= handed'[k].began - StartBack
      BY <3>1 DEF ShortOutages
    <3>3. j \in Before(k) /\ handed'[j] = handed[j]
      BY <1>5, <1>8, <2>1, <3>1, <3>2 DEF Before
    <3>4. QED BY <3>1, <3>2, <3>3
  <2>3. \A k \in 1 .. n : \A g \in handed[1].height .. handed[k].height :
            \E j \in 1 .. n : handed[j].height = g
    BY <1>5, <2>2 DEF LivesInv, RecordInv, NoGapAfterShortOutages
  <2>4. CASE i \in 1 .. n
    <3>1. handed'[1] = handed[1] /\ handed'[i] = handed[i]
      BY <1>5, <1>8, <2>4
    <3>2. PICK j \in 1 .. n : handed[j].height = h
      BY <2>3, <2>4, <3>1
    <3>3. QED BY <1>5, <1>8, <3>2
  <2>5. CASE i = n + 1
    <3>1. handed'[i].height = H
      BY <1>8, <1>13, <2>5
    <3>2. CASE h = H
      BY <1>8, <2>5, <3>1, <3>2
    <3>3. CASE n = 0
      <4>1. handed'[1].height = H
        BY <1>8, <1>13, <3>3
      <4>2. h = H
        BY <1>5, <3>1, <4>1
      <4>3. QED BY <3>2, <4>2
    <3>4. CASE n # 0 /\ h # H
      <4>1. handed'[1] = handed[1] /\ handed[1].height \in Nat /\ h \in Nat /\ h < H /\ handed[1].height <= h
        BY <1>5, <1>8, <3>1, <3>4
      <4>2. \E k \in 1 .. n : handed[k].height >= H - 1
        <5>1. CASE Delivered > first
          <6>1. Delivered \in first + 1 .. Delivered /\ stage # "down"
            BY <1>3, <1>5, <5>1 DEF Polling
          <6>2. PICK k \in 1 .. n : handed[k].height = Delivered
            BY <1>5, <6>1 DEF LivesInv, RecordInv, OwnComplete
          <6>3. QED BY <1>4, <1>5, <6>2
        <5>2. CASE Delivered = first
          <6>0. H = first + 1
            BY <1>4, <5>2
          <6>1. ASSUME NEW k \in 1 .. n PROVE handed[k].life < L
            <7>1. /\ handed[k].life \in Nat /\ handed[k].height \in Nat
                  /\ first \in Nat /\ L \in Nat
              BY <1>5
            <7>2. /\ handed[k].life = L => first < handed[k].height /\ handed[k].height < H
                  /\ handed[k].life <= L
              BY <1>14
            <7>3. QED BY <6>0, <7>1, <7>2
          <6>2. 1 \in Before(n + 1)'
            BY <1>5, <2>1, <3>4, <6>1
          <6>3. PICK k \in Before(n + 1)' : handed'[k].height >= handed'[n + 1].began - StartBack
            <7>1. n + 1 \in DOMAIN handed'
              BY <1>5, <1>8
            <7>2. Before(n + 1)' # {}
              BY <6>2
            <7>3. QED BY <7>1, <7>2 DEF ShortOutages
          <6>4. k \in 1 .. n /\ handed'[k] = handed[k] /\ handed'[n + 1].began = B
            BY <1>8, <1>13, <2>1, <6>3
          <6>5. B - StartBack = H - 1
            BY <1>4, <1>5, <1>13, <5>2, Constants
          <6>6. QED BY <6>3, <6>4, <6>5
        <5>3. QED BY <1>5, <5>1, <5>2
      <4>3. PICK k \in 1 .. n : handed[k].height >= H - 1
        BY <4>2
      <4>4. h \in handed[1].height .. handed[k].height
        BY <1>5, <4>1, <4>3
      <4>5. PICK j \in 1 .. n : handed[j].height = h
        BY <2>3, <4>4
      <4>6. j \in DOMAIN handed' /\ handed'[j] = handed[j]
        BY <1>5, <1>8
      <4>7. QED BY <4>5, <4>6
    <3>5. QED BY <3>2, <3>3, <3>4
  <2>6. QED BY <1>5, <1>8, <2>4, <2>5
<1>19. UnheardOnlyWhenLate'
  <2> SUFFICES ASSUME NEW i \in 1 .. n + 1 PROVE handed'[i].heard \/ handed'[i].life \in late
    BY <1>6, <1>8 DEF UnheardOnlyWhenLate
  <2>1. CASE i = n + 1
    <3>1. handed'[i].heard = d /\ handed'[i].life = life
      BY <1>4, <1>8, <2>1
    <3>2. QED BY <1>3, <1>4, <3>1 DEF Polling
  <2>2. CASE i \in 1 .. n
    BY <1>5, <1>8, <2>2 DEF LivesInv, RecordInv, UnheardOnlyWhenLate
  <2>3. QED BY <1>5, <2>1, <2>2
<1>20. RecordInv'
  BY <1>15, <1>16, <1>17, <1>18, <1>19 DEF RecordInv
<1>21. QED BY <1>9, <1>10, <1>12, <1>20 DEF LivesInv

LEMMA LivesStutter == LivesInv /\ UNCHANGED relayerVars => LivesInv'
<1> SUFFICES ASSUME LivesInv, UNCHANGED relayerVars PROVE LivesInv'
  OBVIOUS
<1>1. UNCHANGED <<monitorAndChain, stage, waited, life, began, handed, late>>
  BY DEF relayerVars, processVars, record
<1>2. UNCHANGED <<chain, last, timer, orphans, batch, first, log, starting>>
  BY <1>1 DEF monitorAndChain, monitorVars, ghosts
<1>3. MonitorInv'
  BY <1>1, StutterStep DEF LivesInv
<1>4. RelayerTypeOK'
  BY <1>1, LifeTypesStay DEF LivesInv, RelayerTypeOK
<1>5. Tip' = Tip /\ Tip' \in Nat /\ Tip' >= Tip /\ \A h \in 1 .. SafeBlock : chain'[h] = chain[h]
  BY <1>2, ChainSame
<1>6. PhaseInv'
  BY <1>1, <1>2, <1>5 DEF LivesInv, PhaseInv, Early, Delivered
<1>7. RecordInv'
  BY <1>1, <1>2, <1>5, RecordStays DEF Delivered, Early
<1>8. QED BY <1>3, <1>4, <1>6, <1>7 DEF LivesInv

LEMMA LivesInvariance == RelayerSpec => []LivesInv
<1>1. LivesInv /\ [RelayerNext]_relayerVars => LivesInv'
  BY ChainGoesOnStep, LaunchStep, StartEthereumStep, EthereumStartedStep,
     RegisterHandlersStep, ElapseStep, PollStep, WorkStep, HandOverStep,
     ShutdownStep, ExitStep, LivesStutter DEF RelayerNext
<1>2. QED BY InitLivesInv, <1>1, PTL DEF RelayerSpec

\* A process that is started and ends again and again keeps its types.
THEOREM LivesTypeCorrect == RelayerSpec => []RelayerTypeOK
<1>1. LivesInv => RelayerTypeOK
  BY DEF LivesInv
<1>2. QED BY LivesInvariance, <1>1, PTL

\* For any length of the start and of the polling interval, an event that is
\* handed to nobody is one of a life whose services took the interval to start.
THEOREM OnlyLateStartsLoseEvents == RelayerSpec => []UnheardOnlyWhenLate
<1>1. LivesInv => UnheardOnlyWhenLate
  BY DEF LivesInv, RecordInv
<1>2. QED BY LivesInvariance, <1>1, PTL

\* No relay of any life was begun for an HTLC that is not in the chain.
THEOREM RelaysStayTrue == RelayerSpec => []RelaysAreFinal
<1>1. LivesInv => RelaysAreFinal
  <2> SUFFICES ASSUME LivesInv, NEW i \in DOMAIN handed
               PROVE  handed[i].height \in DOMAIN chain /\ handed[i].version = chain[handed[i].height]
    BY DEF RelaysAreFinal
  <2>1. OfLife(handed[i])
    BY DEF LivesInv, RecordInv
  <2>2. DOMAIN chain = 1 .. Tip
    BY DEF LivesInv, MonitorInv, MonitorTypeOK, Tip
  <2>3. QED BY <2>1, <2>2, LifeTypes DEF OfLife
<1>2. QED BY LivesInvariance, <1>1, PTL

\* Only another life begins a relay again, and only for blocks that were final
\* when this life started and lie no further back than it goes.
THEOREM OnlyRecentRepeats == RelayerSpec => []RepeatsAreRecent
<1>1. LivesInv => RepeatsAreRecent
  BY DEF LivesInv, RecordInv
<1>2. QED BY LivesInvariance, <1>1, PTL

\* As long as every life reaches back to what was handed over before it, no
\* block between the first and the last relay is left out, for any number of
\* lives that end at any moment.
THEOREM ShortOutagesLoseNothing == RelayerSpec => []NoGapAfterShortOutages
<1>1. LivesInv => NoGapAfterShortOutages
  BY DEF LivesInv, RecordInv
<1>2. QED BY LivesInvariance, <1>1, PTL

\* What RelayService begins in all lives of the process stays true, and is begun
\* again only by a life that starts before the end of an earlier one.
THEOREM RelaysStaySound == RelayerSpec => []RelaysAreSound
  BY RelaysStayTrue, OnlyRecentRepeats, PTL DEF RelaysAreSound

\* What the monitor delivers comes before the handlers only in a life that is late
\* with its other services, and short outages leave nothing out.
THEOREM NothingIsEverMissed == RelayerSpec => []NothingIsMissed
  BY OnlyLateStartsLoseEvents, ShortOutagesLoseNothing, PTL DEF NothingIsMissed

-----------------------------------------------------------------------------
(* The breaker: its timer, and that it closes afresh.                       *)

\* What the theorems say of one breaker.
Timed(b) == b.state = "closed" <=> b.timer = Off
Afresh(b) == b.state = "closed" => b.failures < FailureThreshold /\ b.successes = 0
Good(b) == b \in Breaker /\ Timed(b) /\ Afresh(b)

\* A breaker that has been reset is as good as new.
LEMMA ResetIsGood == Good(New)
  BY RecoveryAssumption DEF Good, New, Breaker, Timed, Afresh

\* Opening a breaker, from whatever state, leaves its timer pending.
LEMMA OpenedIsGood ==
  ASSUME NEW b \in Breaker
  PROVE  Good(Opened(b)) /\ Opened(b).state = "open"
  BY RecoveryAssumption DEF Good, Breaker, Timed, Afresh, Opened

\* Letting an operation pass moves an open breaker to its test, with its timer.
LEMMA AdmitIsGood ==
  ASSUME NEW b, Good(b)
  PROVE  Good(Admit(b))
  BY RecoveryAssumption DEF Good, Breaker, Timed, Afresh, Admit

\* A success resets the failures or counts towards closing the breaker.
LEMMA SuccessIsGood ==
  ASSUME NEW b, Good(b)
  PROVE  Good(OnSuccess(b))
  <1>1. CASE b.state # "half_open"
    BY <1>1, RecoveryAssumption DEF Good, Breaker, Timed, Afresh, OnSuccess
  <1>2. CASE b.state = "half_open" /\ b.successes + 1 >= SuccessThreshold
    BY <1>2, ResetIsGood DEF OnSuccess, Reset
  <1>3. CASE b.state = "half_open" /\ ~(b.successes + 1 >= SuccessThreshold)
    BY <1>3, RecoveryAssumption DEF Good, Breaker, Timed, Afresh, OnSuccess
  <1> QED BY <1>1, <1>2, <1>3

\* A failed test leaves the breaker open and forgets the tests that succeeded.
LEMMA UntestedIsGood ==
  ASSUME NEW b, Good(b), b.state = "open"
  PROVE  Good([b EXCEPT !.successes = 0])
  BY DEF Good, Breaker, Timed, Afresh

\* A failure opens the breaker, or leaves it closed below the threshold.
LEMMA FailureIsGood ==
  ASSUME NEW b, Good(b)
  PROVE  Good(OnFailure(b))
  <1> DEFINE f == [b EXCEPT !.failures = @ + 1]
  <1>1. f \in Breaker /\ f.state = b.state /\ f.failures = b.failures + 1
        /\ f.successes = b.successes /\ f.timer = b.timer
    BY DEF Good, Breaker
  <1>2. Good(Opened(f)) /\ Opened(f).state = "open"
    BY <1>1, OpenedIsGood
  <1>3. OnFailure(b) =
          IF b.state = "half_open" THEN [Opened(f) EXCEPT !.successes = 0]
          ELSE IF b.state = "closed" /\ f.failures >= FailureThreshold THEN Opened(f)
          ELSE f
    BY DEF OnFailure
  <1>4. Good([Opened(f) EXCEPT !.successes = 0])
    BY <1>2, UntestedIsGood
  <1>5. CASE b.state = "closed" /\ ~(f.failures >= FailureThreshold)
    <2>1. Good(f)
      BY <1>1, <1>5, RecoveryAssumption DEF Good, Breaker, Timed, Afresh
    <2> QED BY <1>3, <1>5, <2>1
  <1>6. CASE b.state = "open"
    <2>1. Good(f) BY <1>1, <1>6 DEF Good, Timed, Afresh
    <2> QED BY <1>3, <1>6, <2>1
  <1>7. b.state \in {"closed", "open", "half_open"} BY DEF Good, Breaker
  <1> HIDE DEF f
  <1> QED BY <1>2, <1>3, <1>4, <1>5, <1>6, <1>7

\* Time passing neither sets a timer nor loses one.
LEMMA TickIsGood ==
  ASSUME Good(breaker), Tick
  PROVE  Good(breaker')
  <1>1. /\ Less(breaker.wait) \in Nat \cup {Off}
        /\ Less(breaker.timer) \in Nat \cup {Off}
        /\ Less(breaker.timer) = Off <=> breaker.timer = Off
    BY RecoveryAssumption DEF Good, Breaker, Less
  <1>2. breaker' = [breaker EXCEPT !.wait = Less(breaker.wait), !.timer = Less(breaker.timer)]
    BY DEF Tick
  <1> QED BY <1>1, <1>2 DEF Good, Breaker, Timed, Afresh
-----------------------------------------------------------------------------
BreakerInv == ErrorRecoveryTypeOK /\ TimerWhileNotClosed /\ ClosedStartsAfresh

LEMMA InitBreakerInv == ErrorRecoveryInit => BreakerInv
  <1> SUFFICES ASSUME ErrorRecoveryInit PROVE BreakerInv
    OBVIOUS
  <1>1. Good(breaker)
    BY ResetIsGood DEF ErrorRecoveryInit
  <1>2. pc \in [Calls -> Places]
    BY DEF ErrorRecoveryInit, Places
  <1>3. emergencyStop \in BOOLEAN /\ outer \in [Calls -> Nat] /\ inner \in [Calls -> Nat]
    BY DEF ErrorRecoveryInit
  <1> QED
    BY <1>1, <1>2, <1>3 DEF BreakerInv, ErrorRecoveryTypeOK, TimerWhileNotClosed, ClosedStartsAfresh,
       Good, Timed, Afresh

\* Where the calls are, how often they were attempted and whether the system is
\* stopped have the right types after every step.
CallsOK ==
    /\ emergencyStop \in BOOLEAN
    /\ pc \in [Calls -> Places]
    /\ outer \in [Calls -> Nat] /\ inner \in [Calls -> Nat]

LEMMA AttemptIsGood ==
  ASSUME CallsOK, Good(breaker), NEW c \in Calls, Attempt(c)
  PROVE  CallsOK' /\ Good(breaker')
  <1>1. Good(breaker')
    BY AdmitIsGood DEF Attempt
  <1>2. pc' \in [Calls -> Places]
    BY DEF CallsOK, Attempt, Goto, Places
  <1>3. outer' \in [Calls -> Nat] /\ inner' \in [Calls -> Nat] /\ emergencyStop' = emergencyStop
    BY DEF CallsOK, Attempt
  <1> QED BY <1>1, <1>2, <1>3 DEF CallsOK

LEMMA ExecuteIsGood ==
  ASSUME CallsOK, Good(breaker), NEW c \in Calls, Execute(c)
  PROVE  CallsOK' /\ Good(breaker')
  <1>1. CASE ExecuteWithRecovery(c)
    <2>1. CASE emergencyStop
      BY <1>1, <2>1 DEF ExecuteWithRecovery, CallsOK, Goto, Places, Good, Timed, Afresh
    <2>2. CASE ~emergencyStop
      BY <1>1, <2>2, AttemptIsGood DEF ExecuteWithRecovery
    <2> QED BY <2>1, <2>2
  <1>2. CASE OuterRetry(c)
    BY <1>2, AttemptIsGood DEF OuterRetry
  <1>3. CASE InnerRetry(c)
    <2>1. Good(breaker') BY <1>3, AdmitIsGood DEF InnerRetry
    <2>2. CallsOK' BY <1>3 DEF InnerRetry, CallsOK, Goto, Places
    <2> QED BY <2>1, <2>2
  <1>4. CASE InnerSucceeds(c) \/ OuterSucceeds(c)
    <2>1. Good(breaker') BY <1>4, SuccessIsGood DEF InnerSucceeds, OuterSucceeds
    <2>2. CallsOK' BY <1>4 DEF InnerSucceeds, OuterSucceeds, CallsOK, Goto, Places
    <2> QED BY <2>1, <2>2
  <1>5. CASE InnerFails(c) \/ OuterFails(c)
    <2>1. Good(breaker') BY <1>5, FailureIsGood DEF InnerFails, OuterFails
    <2>2. CallsOK' BY <1>5 DEF InnerFails, OuterFails, CallsOK, Goto, Places
    <2> QED BY <2>1, <2>2
  <1> QED BY <1>1, <1>2, <1>3, <1>4, <1>5 DEF Execute

LEMMA NextBreakerInv == BreakerInv /\ [ErrorRecoveryNext]_breakerVars => BreakerInv'
  <1> SUFFICES ASSUME BreakerInv, [ErrorRecoveryNext]_breakerVars PROVE BreakerInv'
    OBVIOUS
  <1>1. CallsOK /\ Good(breaker)
    BY DEF BreakerInv, ErrorRecoveryTypeOK, TimerWhileNotClosed, ClosedStartsAfresh, CallsOK, Good, Timed, Afresh
  <1>2. CallsOK' /\ Good(breaker')
    <2>1. CASE \E c \in Calls : Execute(c)
      BY <1>1, <2>1, ExecuteIsGood
    <2>2. CASE Tick
      BY <1>1, <2>2, TickIsGood DEF Tick, calls, CallsOK
    <2>3. CASE AutoReset \/ ManualReset
      BY <1>1, <2>3, ResetIsGood DEF AutoReset, ManualReset, Reset, calls, CallsOK
    <2>4. CASE Trip
      BY <1>1, <2>4, OpenedIsGood DEF Trip, calls, CallsOK, Good
    <2>5. CASE EmergencyStopSystem \/ ResumeSystem
      BY <1>1, <2>5, ResetIsGood DEF EmergencyStopSystem, ResumeSystem, Reset, calls, CallsOK
    <2>6. CASE UNCHANGED breakerVars
      BY <1>1, <2>6 DEF breakerVars, CallsOK, Good, Timed, Afresh
    <2> QED BY <2>1, <2>2, <2>3, <2>4, <2>5, <2>6 DEF ErrorRecoveryNext
  <1> QED
    BY <1>2 DEF BreakerInv, ErrorRecoveryTypeOK, TimerWhileNotClosed, ClosedStartsAfresh, CallsOK, Good, Timed, Afresh

LEMMA Invariance == ErrorRecoverySpec => []BreakerInv
  BY InitBreakerInv, NextBreakerInv, PTL DEF ErrorRecoverySpec
-----------------------------------------------------------------------------
\* The breaker and the calls keep their types (CircuitBreaker's fields).
THEOREM BreakerTypeCorrect == ErrorRecoverySpec => []ErrorRecoveryTypeOK
  BY Invariance, PTL DEF BreakerInv

\* scheduleReset and reset keep the timer pending exactly while the breaker is
\* not closed, whatever tests, late results and manual trips come between.
THEOREM TimerIsExact == ErrorRecoverySpec => []TimerWhileNotClosed
  BY Invariance, PTL DEF BreakerInv

\* Whichever way the breaker was closed, it counts from nothing, and it opens at
\* the latest with the failure that reaches the threshold.
THEOREM ClosesAfresh == ErrorRecoverySpec => []ClosedStartsAfresh
  BY Invariance, PTL DEF BreakerInv

\* CircuitBreaker keeps timer and counts by hand, and both fit its state.
THEOREM BreakerIsSound == ErrorRecoverySpec => []BreakerSound
  BY TimerIsExact, ClosesAfresh, PTL DEF BreakerSound
=============================================================================
