--------------------------- MODULE CosmosMonitor ---------------------------
(***************************************************************************)
(* The Cosmos monitor of libs/utils/src/monitors (BaseMonitor and           *)
(* CosmosHTLCMonitor).  Blocks are final, so the chain only grows; every     *)
(* height is asked for by itself, and one that cannot be read is left out.   *)
(*                                                                         *)
(* Every height carries one event of the HTLC contract.  The node hands its  *)
(* attributes out as they are or in base64, the same for all.  As in module  *)
(* BlockMonitor, start and stop do not overlap, and an action is what runs   *)
(* between two awaits or polls.                                            *)
(***************************************************************************)
EXTENDS Integers, Sequences

CONSTANTS
    Encodings,             \* subset of {"plain", "base64"}: what nodes use
    Methods,               \* the method attributes of the contract
    StartBack,             \* how far before the head a new monitor starts
    StartHeights,          \* values of config.startHeight; 0 when it is not set
    MaxHeightsPerBatch,    \* config.maxBlocksPerBatch
    ResetHeights,          \* arguments of resetToHeight
    InitialHeight, MaxHeight, MaxMonitorStarts  \* bounds: heights, starts

ASSUME CosmosMonitorAssumption ==
    /\ StartBack \in Nat /\ MaxHeightsPerBatch \in Nat \ {0}
    /\ InitialHeight \in Nat
    /\ StartHeights \subseteq Nat
    /\ ResetHeights \subseteq Nat \ {0}

VARIABLES
    events,        \* per height: the method of its event
    encoding,
    monitoring,    \* isRunning
    choosing,      \* start() is under way: "asking" for the head, or "resuming"
    polls,        \* pending timers of polls: the one pollingTimer names, others
    lastHeight,    \* lastProcessedBlock
    range,         \* the batch under way: where it is, its last height, the
                   \* next one, and the heights whose events were found
    firstHeight,   \* where the monitor began
    fetched,       \* heights asked for since, in order, and whether they answered
    handled,       \* heights whose events reached the handlers
    begun          \* starts so far

cosmosMonitorVars == <<events, encoding, monitoring, choosing, polls, lastHeight, range,
                       firstHeight, fetched, handled, begun>>

Height == Len(events)
NoRange == [at |-> "none"]
Lower(a, b) == IF a < b THEN a ELSE b

CosmosMonitorInit ==
    /\ events \in [1 .. InitialHeight -> Methods]
    /\ encoding \in Encodings
    /\ monitoring = FALSE /\ choosing = "no"
    /\ polls = [named |-> FALSE, others |-> 0]
    /\ lastHeight \in StartHeights
    /\ range = NoRange
    /\ firstHeight = lastHeight /\ fetched = <<>> /\ handled = {} /\ begun = 0
-----------------------------------------------------------------------------
NewHeight ==
    /\ Height < MaxHeight
    /\ \E m \in Methods : events' = Append(events, m)
    /\ UNCHANGED <<encoding, monitoring, choosing, polls, lastHeight, range, firstHeight,
                   fetched, handled, begun>>

SchedulePoll ==
    polls' = IF ~monitoring THEN polls
              ELSE [named |-> TRUE, others |-> polls.others + IF polls.named THEN 1 ELSE 0]

StartMonitor ==
    /\ ~monitoring /\ begun < MaxMonitorStarts
    /\ begun' = begun + 1
    /\ monitoring' = TRUE
    /\ choosing' = IF lastHeight = 0 THEN "asking" ELSE "resuming"
    /\ UNCHANGED <<events, encoding, polls, lastHeight, range, firstHeight, fetched, handled>>

\* initializeStartingBlock, and the first poll.
InitializeStartingHeight ==
    /\ choosing # "no" /\ choosing' = "no"
    /\ IF choosing = "asking"
       THEN /\ lastHeight' = IF Height > StartBack THEN Height - StartBack ELSE 1
            /\ firstHeight' = lastHeight' /\ fetched' = <<>>
       ELSE UNCHANGED <<lastHeight, firstHeight, fetched>>
    /\ SchedulePoll
    /\ UNCHANGED <<events, encoding, monitoring, range, handled, begun>>

StartFails ==
    /\ choosing = "asking"
    /\ choosing' = "no" /\ monitoring' = FALSE
    /\ UNCHANGED <<events, encoding, polls, lastHeight, range, firstHeight, fetched, handled, begun>>

StopMonitor ==
    /\ monitoring /\ choosing = "no"
    /\ monitoring' = FALSE
    /\ polls' = [polls EXCEPT !.named = FALSE]
    /\ UNCHANGED <<events, encoding, choosing, lastHeight, range, firstHeight, fetched, handled, begun>>

\* Seeded fault: a poll does not mind the one under way.
FaultMayPoll == monitoring
MayPoll == monitoring /\ range = NoRange

Poll ==
    /\ \/ polls.named /\ polls' = [polls EXCEPT !.named = FALSE]
       \/ polls.others > 0 /\ polls' = [polls EXCEPT !.others = @ - 1]
    /\ range' = IF MayPoll THEN [at |-> "head"] ELSE range
    /\ UNCHANGED <<events, encoding, monitoring, choosing, lastHeight, firstHeight, fetched,
                   handled, begun>>

PollEnds == range' = NoRange /\ SchedulePoll

ReadHeight ==
    /\ range.at = "head"
    /\ IF lastHeight >= Height THEN PollEnds
       ELSE /\ range' = [at |-> "fetch", to |-> Lower(Height, lastHeight + MaxHeightsPerBatch),
                         next |-> lastHeight + 1, found |-> {}]
            /\ UNCHANGED polls
    /\ UNCHANGED <<events, encoding, monitoring, choosing, lastHeight, firstHeight, fetched,
                   handled, begun>>

\* Only the head's failure ends a cycle: the heights' failures are logged.
PollFails ==
    /\ range.at = "head"
    /\ PollEnds
    /\ UNCHANGED <<events, encoding, monitoring, choosing, lastHeight, firstHeight, fetched,
                   handled, begun>>

\* isHTLCEvent compares the keys as they are, parseEventAttributes decodes keys
\* and values from base64 (which no string refuses), and parseHTLCEvent knows
\* the names create_htlc, withdraw_htlc and refund_htlc.
IsHTLCEvent == encoding = "plain"
Decoded == encoding = "base64"
ParseHTLCEvent(method) ==
    IsHTLCEvent /\ Decoded /\ method \in {"create_htlc", "withdraw_htlc", "refund_htlc"}

\* fetchHTLCEventsAtHeight, from the transactions.  When their search fails the
\* block is asked for, which has events of no transaction.
FetchHeight ==
    /\ range.at = "fetch" /\ range.next <= range.to
    /\ \E answer \in {"events", "block", "error"} :
        /\ range' = [range EXCEPT
                !.next = @ + 1,
                !.found = @ \cup {h \in {range.next} : answer = "events" /\ ParseHTLCEvent(events[h])}]
        /\ fetched' = Append(fetched, [height |-> range.next, ok |-> answer = "events"])
    /\ UNCHANGED <<events, encoding, monitoring, choosing, polls, lastHeight, firstHeight,
                   handled, begun>>

\* The handlers are called one after the other, a failing one is logged.
RangeEnds ==
    /\ range.at = "fetch" /\ range.next > range.to
    /\ handled' = handled \cup range.found
    /\ lastHeight' = range.to
    /\ PollEnds
    /\ UNCHANGED <<events, encoding, monitoring, choosing, firstHeight, fetched, begun>>

\* resetToHeight: the end of a batch whose heights are being read overwrites it.
ResetToHeight(h) ==
    /\ lastHeight' = h
    /\ IF range.at = "fetch" THEN UNCHANGED <<firstHeight, fetched>>
       ELSE firstHeight' = h /\ fetched' = <<>>
    /\ UNCHANGED <<events, encoding, monitoring, choosing, polls, range, handled, begun>>

CosmosMonitorNext ==
    \/ NewHeight
    \/ StartMonitor \/ InitializeStartingHeight \/ StartFails \/ StopMonitor
    \/ Poll \/ ReadHeight \/ PollFails \/ FetchHeight \/ RangeEnds
    \/ \E h \in ResetHeights : ResetToHeight(h)

CosmosMonitorSpec == CosmosMonitorInit /\ [][CosmosMonitorNext]_cosmosMonitorVars
-----------------------------------------------------------------------------
\* Each height is asked for once and in order, none left out, since the monitor
\* began or was reset: through polls of several starts, a stop during a batch,
\* heights that fail, and a reset during a batch, which is lost.
EachHeightOnce ==
    \A n \in DOMAIN fetched : fetched[n].height = firstHeight + n

\* "Process events in order": once a range is done, the HTLC events of the
\* heights that answered have reached the handlers.
FetchedIsHandled ==
    \A n \in DOMAIN fetched :
        fetched[n].ok /\ fetched[n].height <= lastHeight => fetched[n].height \in handled
=============================================================================
