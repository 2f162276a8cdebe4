---------------------------- MODULE BlockMonitor ----------------------------
(***************************************************************************)
(* The Ethereum monitor of libs/utils/src/monitors (BaseMonitor and          *)
(* EthereumHTLCMonitor), which feeds the relayer the HTLC events of final    *)
(* blocks.  JavaScript runs one callback at a time: an action is what runs   *)
(* between two awaits or timers.  The chain grows and its last blocks are    *)
(* replaced by others at any moment in between.                              *)
(*                                                                         *)
(* Every block carries one event, named by the block's height and the        *)
(* version of the block it was in.  The caller awaits start before it calls  *)
(* stop and the other way round: only batches and resets overlap them.  The  *)
(* handlers are registered before the first poll.  The chain is older than   *)
(* StartBack blocks and resets go to a real block: lastProcessedBlock, whose *)
(* zero means that no block was chosen yet, is not zero after the first      *)
(* start.  (On a younger chain, a restart during the first batch chooses     *)
(* again.)                                                                   *)
(***************************************************************************)
EXTENDS Integers, Sequences

CONSTANTS
    Versions,           \* the contents a block may have
    ReorgBuffer,        \* config.reorgBuffer
    MaxBlocksPerBatch,  \* config.maxBlocksPerBatch
    StartBack,          \* how far before the head a new monitor starts
    StartBlocks,        \* values of config.startBlock; 0 when it is not set
    InitialHead,
    ResetBlocks,        \* arguments of resetToBlock
    None,               \* no polling cycle is under way
    MaxHead, MaxStarts, MaxResets   \* bounds of the model

VARIABLES
    chain,       \* the version of every block, from height 1
    isRunning,
    starting,    \* start() awaits initializeStartingBlock: "asking" for the head,
                 \* or "resuming" where it stands
    last,        \* lastProcessedBlock
    timer,       \* whether the timer that pollingTimer names is pending
    orphans,     \* pending timers that pollingTimer no longer names
    batch,       \* the polling cycle under way: processingBatch is batch # None
    first,       \* the block delivery starts after
    log,         \* the events delivered since, as heights and versions
    starts, resets

monitorVars == <<isRunning, starting, last, timer, orphans, batch>>
ghosts == <<first, log>>
monitorAndChain == <<chain, monitorVars, ghosts, starts, resets>>

Batch == [pc: {"head", "fetch", "deliver"}, from: Int, to: Int,
          queue: Seq([height: Nat, version: Versions])]

ASSUME MonitorAssumption ==
    /\ {StartBack, InitialHead, MaxHead, MaxStarts, MaxResets} \subseteq Nat
    /\ {ReorgBuffer, MaxBlocksPerBatch} \subseteq Nat \ {0}
    /\ StartBlocks \subseteq Nat
    /\ ResetBlocks \subseteq Nat \ {0}
    /\ InitialHead > StartBack
    /\ None \notin Batch

Tip == Len(chain)
Event(h) == [height |-> h, version |-> chain[h]]
Delivered == first + Len(log)

Reading == [pc |-> "head", from |-> 0, to |-> 0, queue |-> << >>]

\* The range of the batch is fixed, whatever lastProcessedBlock is by now.
RangeUnderWay == batch # None /\ batch.pc # "head"

MonitorInit ==
    /\ chain \in [1 .. InitialHead -> Versions]
    /\ isRunning = FALSE /\ starting = "no"
    /\ last \in StartBlocks
    /\ timer = FALSE /\ orphans = 0
    /\ batch = None
    /\ first = last /\ log = << >>
    /\ starts = 0 /\ resets = 0
-----------------------------------------------------------------------------
\* The chain.

Mine ==
    /\ Tip < MaxHead
    /\ \E v \in Versions : chain' = Append(chain, v)
    /\ UNCHANGED <<monitorVars, ghosts, starts, resets>>

\* Blocks with fewer than ReorgBuffer blocks on top may be replaced.
Reorg ==
    /\ \E other \in [1 .. Tip -> Versions] :
          /\ \A h \in 1 .. Tip - ReorgBuffer : other[h] = chain[h]
          /\ chain' = other
    /\ UNCHANGED <<monitorVars, ghosts, starts, resets>>
-----------------------------------------------------------------------------
\* scheduleNextPoll
Schedule ==
    IF isRunning
    THEN /\ timer' = TRUE
         /\ orphans' = IF timer THEN orphans + 1 ELSE orphans
    ELSE UNCHANGED <<timer, orphans>>

Start ==
    /\ ~isRunning
    /\ starts < MaxStarts
    /\ starts' = starts + 1
    /\ isRunning' = TRUE
    /\ starting' = IF last = 0 THEN "asking" ELSE "resuming"
    /\ UNCHANGED <<chain, last, timer, orphans, batch, ghosts, resets>>

StartBlock == IF Tip > StartBack THEN Tip - StartBack ELSE 0

\* A monitor without a start block begins shortly before the head.
InitializeStartingBlock ==
    /\ starting # "no"
    /\ starting' = "no"
    /\ IF starting = "asking"
       THEN last' = StartBlock /\ first' = StartBlock /\ log' = << >>
       ELSE UNCHANGED <<last, ghosts>>
    /\ Schedule
    /\ UNCHANGED <<chain, isRunning, batch, starts, resets>>

FailToStart ==
    /\ starting = "asking"
    /\ starting' = "no" /\ isRunning' = FALSE
    /\ UNCHANGED <<chain, last, timer, orphans, batch, ghosts, starts, resets>>

\* A batch under way goes on.
Stop ==
    /\ isRunning /\ starting = "no"
    /\ isRunning' = FALSE
    /\ timer' = FALSE
    /\ UNCHANGED <<chain, starting, last, orphans, batch, ghosts, starts, resets>>

\* A timer fires.
Fire ==
    \/ timer /\ timer' = FALSE /\ UNCHANGED orphans
    \/ orphans > 0 /\ orphans' = orphans - 1 /\ UNCHANGED timer

\* Seeded fault: a poller that meets a batch polls again.
FaultPollingCycle ==
    /\ IF isRunning /\ batch # None
       THEN (timer \/ orphans > 0) /\ orphans' = orphans + 1 /\ UNCHANGED timer
       ELSE Fire
    /\ batch' = IF isRunning /\ batch = None THEN Reading ELSE batch
    /\ UNCHANGED <<chain, isRunning, starting, last, ghosts, starts, resets>>

\* handlePollingCycle
PollingCycle ==
    /\ Fire
    /\ batch' = IF isRunning /\ batch = None THEN Reading ELSE batch
    /\ UNCHANGED <<chain, isRunning, starting, last, ghosts, starts, resets>>

EndCycle == batch' = None /\ Schedule

\* Seeded fault: the next block is not counted from the last one.
FaultFromBlock == last
FromBlock == last + 1

\* Seeded fault: the head is taken for final.
FaultSafeBlock == Tip
SafeBlock == Tip - ReorgBuffer

Smaller(a, b) == IF a < b THEN a ELSE b
ToBlock == Smaller(SafeBlock, FromBlock + MaxBlocksPerBatch - 1)

\* processNewBlocks, up to the request for the range's events.
ReadHead ==
    /\ batch # None /\ batch.pc = "head"
    /\ IF last >= SafeBlock
       THEN EndCycle
       ELSE /\ batch' = [batch EXCEPT !.pc = "fetch", !.from = FromBlock, !.to = ToBlock]
            /\ UNCHANGED <<timer, orphans>>
    /\ UNCHANGED <<chain, isRunning, starting, last, ghosts, starts, resets>>

FetchEvents ==
    /\ batch # None /\ batch.pc = "fetch"
    /\ batch' = [batch EXCEPT
                   !.pc = "deliver",
                   !.queue = [i \in 1 .. batch.to - batch.from + 1 |-> Event(batch.from + i - 1)]]
    /\ UNCHANGED <<chain, isRunning, starting, last, timer, orphans, ghosts, starts, resets>>

\* The events after b are to be delivered, again if they were before.
DeliverFrom(b) ==
    IF first <= b /\ b <= Delivered
    THEN log' = SubSeq(log, 1, b - first) /\ UNCHANGED first
    ELSE log' = << >> /\ first' = b

\* Seeded fault: a cycle that failed is the last.
FaultCycleFails ==
    /\ batch # None /\ batch.pc \in {"head", "fetch"}
    /\ batch' = None
    /\ DeliverFrom(last)
    /\ UNCHANGED <<chain, isRunning, starting, last, timer, orphans, starts, resets>>

\* The retries of a request are exhausted; the next cycle begins after
\* lastProcessedBlock, which a reset may have moved since the range was chosen.
CycleFails ==
    /\ batch # None /\ batch.pc \in {"head", "fetch"}
    /\ EndCycle
    /\ DeliverFrom(last)
    /\ UNCHANGED <<chain, isRunning, starting, last, starts, resets>>

\* processEvent; a handler that throws is logged and the event is done.
ProcessEvent ==
    /\ batch # None /\ batch.pc = "deliver" /\ batch.queue # << >>
    /\ log' = Append(log, Head(batch.queue))
    /\ batch' = [batch EXCEPT !.queue = Tail(batch.queue)]
    /\ UNCHANGED <<chain, isRunning, starting, last, timer, orphans, first, starts, resets>>

EndBatch ==
    /\ batch # None /\ batch.pc = "deliver" /\ batch.queue = << >>
    /\ last' = batch.to
    /\ EndCycle
    /\ UNCHANGED <<chain, isRunning, starting, ghosts, starts, resets>>

\* At any moment.  A range under way is delivered all the same, and its end puts
\* its own last block in the place of b.
ResetToBlock(b) ==
    /\ resets < MaxResets
    /\ resets' = resets + 1
    /\ last' = b
    /\ IF RangeUnderWay THEN UNCHANGED ghosts ELSE DeliverFrom(b)
    /\ UNCHANGED <<chain, isRunning, starting, timer, orphans, batch, starts>>

MonitorNext ==
    \/ Mine \/ Reorg
    \/ Start \/ InitializeStartingBlock \/ FailToStart \/ Stop
    \/ PollingCycle \/ ReadHead \/ FetchEvents \/ CycleFails
    \/ ProcessEvent \/ EndBatch
    \/ \E b \in ResetBlocks : ResetToBlock(b)

\* Timers fire and callbacks run; a request that is repeated succeeds at last.
Fairness ==
    /\ WF_monitorAndChain(PollingCycle) /\ WF_monitorAndChain(ProcessEvent) /\ WF_monitorAndChain(EndBatch)
    /\ WF_monitorAndChain(InitializeStartingBlock)
    /\ SF_monitorAndChain(ReadHead) /\ SF_monitorAndChain(FetchEvents)

MonitorSpec == MonitorInit /\ [][MonitorNext]_monitorAndChain
FairSpec == MonitorSpec /\ Fairness
-----------------------------------------------------------------------------
MonitorTypeOK ==
    /\ chain \in Seq(Versions)
    /\ {isRunning, timer} \subseteq BOOLEAN
    /\ starting \in {"no", "asking", "resuming"}
    /\ {last, first, orphans, starts, resets} \subseteq Nat
    /\ batch \in Batch \cup {None}
    /\ log \in Seq([height: Nat, version: Versions])

\* A monitor that runs has a batch under way or a timer to start one: neither a
\* failed cycle, nor a timer that fires into a batch and returns without
\* scheduling another, nor a restart while a batch of the previous run is still
\* going on leaves it running and deaf.
PollingNeverDies ==
    isRunning /\ starting = "no" => batch # None \/ timer \/ orphans > 0

Pollers ==
    orphans + (IF timer THEN 1 ELSE 0) + (IF batch # None THEN 1 ELSE 0)

\* Pollers do not multiply.  stop() cannot reach the poller whose batch is under
\* way, and start() adds another: every start adds one at most, and neither a
\* failure nor a timer that meets a batch adds any.
PollersBounded == Pollers <= starts

\* A monitor that runs polls, and polls no more often than it was started.
PollingSound == PollingNeverDies /\ PollersBounded

\* Whatever failed and was tried again, and however many pollers a restart left
\* behind: the events of the blocks after the first are delivered in the order
\* of their blocks, none twice and none left out.  A range under way continues
\* what was delivered, and between two ranges lastProcessedBlock is where delivery
\* stands: a reset takes effect as a whole, or is lost to the range it met.
ExactlyOnceInOrder ==
    /\ \A k \in DOMAIN log : log[k].height = first + k
    /\ IF RangeUnderWay
       THEN IF batch.pc = "fetch" THEN batch.from = Delivered + 1
                                  ELSE batch.to = Delivered + Len(batch.queue)
       ELSE last = Delivered

\* No event is delivered that a reorganisation takes back, although the head is
\* read before the events are fetched and blocks are replaced in between.
DeliveredIsFinal ==
    \A k \in DOMAIN log : log[k] = Event(log[k].height)

\* The event of a final block is delivered at last, unless the monitor is
\* stopped or reset past it.
EventuallyDelivered ==
    \A h \in 1 .. MaxHead :
        (isRunning /\ starting = "no" /\ first < h /\ h <= SafeBlock)
            ~> (~isRunning \/ h <= Delivered)
=============================================================================
