---------------------------- MODULE RelayerLives ----------------------------
(***************************************************************************)
(* The relayer's process around its Ethereum monitor: main() of              *)
(* relayer/src/index.ts starts the services one after the other, registers   *)
(* the handlers last, and ends when it fails, is killed or is asked to; the  *)
(* container starts it again.  Everything the monitor and the relay service  *)
(* know is in memory: a new life chooses its first block anew and has no     *)
(* relay.                                                                    *)
(*                                                                         *)
(* The events that a life hands over are recorded over all lives; one that a *)
(* handler hears is a relay that RelayService begins.  Time is that between   *)
(* the monitor's start and its first poll; later timers fire at any moment.   *)
(* The services that are started between the monitor and the handlers ask    *)
(* nodes and take as long as they like: main() does not bound it.            *)
(***************************************************************************)
EXTENDS BlockMonitor

CONSTANTS
    PollingInterval,    \* config.pollingInterval
    MaxLives            \* bound of the model

VARIABLES
    stage,      \* where main() is: "down", "relay" (initialize), "ethereum"
                \* (ethereumMonitor.start), "others", "serving", "stopping"
    waited,     \* time since the first timer of this life was set
    life,       \* how many times the process was started
    began,      \* the head at which this life chose its first block
    handed,     \* the events handed over in any life, in order
    late        \* lives with services that took a polling interval to start

processVars == <<stage, waited, life, began>>
record == <<handed, late>>
relayerVars == <<monitorAndChain, processVars, record>>

\* An event: whether a handler heard it, and the life that handed it over.
Entry == [life: Nat, began: Nat, height: Nat, version: Versions, heard: BOOLEAN]

ASSUME RelayerAssumption == PollingInterval \in Nat \ {0} /\ MaxLives \in Nat

RelayerInit ==
    /\ MonitorInit /\ last = 0
    /\ stage = "down" /\ waited = 0 /\ life = 0 /\ began = 0
    /\ handed = << >> /\ late = {}
-----------------------------------------------------------------------------
\* Blocks come, whether the relayer lives or not.
ChainGoesOn == (Mine \/ Reorg) /\ UNCHANGED <<processVars, record>>

Launch ==
    /\ stage = "down" /\ life < MaxLives
    /\ stage' = "relay" /\ life' = life + 1
    /\ UNCHANGED <<monitorAndChain, waited, began, record>>

\* relayService.initialize is done, ethereumMonitor.start is called.
StartEthereum ==
    /\ stage = "relay"
    /\ stage' = "ethereum"
    /\ Start
    /\ UNCHANGED <<waited, life, began, record>>

\* ethereumMonitor.start returns.
EthereumStarted ==
    /\ stage = "ethereum"
    /\ InitializeStartingBlock
    /\ stage' = "others" /\ began' = Tip
    /\ UNCHANGED <<waited, life, record>>

\* Once the other services are started, the handlers are registered at once.
RegisterHandlers ==
    /\ stage = "others"
    /\ stage' = "serving"
    /\ UNCHANGED <<monitorAndChain, waited, life, began, record>>

Elapse ==
    /\ stage \in {"others", "serving"}
    /\ waited < PollingInterval
    /\ waited' = waited + 1
    /\ late' = IF stage = "others" /\ waited' = PollingInterval THEN late \cup {life} ELSE late
    /\ UNCHANGED <<monitorAndChain, stage, life, began, handed>>

\* Seeded fault: the first poll does not wait.
FaultPollIsDue == TRUE
PollIsDue == waited >= PollingInterval

Poll == PollIsDue /\ PollingCycle /\ UNCHANGED <<processVars, record>>

Work ==
    /\ ReadHead \/ FetchEvents \/ CycleFails \/ EndBatch
    /\ UNCHANGED <<processVars, record>>

Relay(event) ==
    [life |-> life, began |-> began, height |-> event.height, version |-> event.version,
     heard |-> stage # "others"]

\* The event is given to the handler, if there is one already.
HandOver ==
    /\ ProcessEvent
    /\ handed' = Append(handed, Relay(Head(batch.queue)))
    /\ UNCHANGED <<processVars, late>>

\* SIGTERM: the monitor is stopped, a batch under way goes on until the exit.
Shutdown ==
    /\ stage = "serving"
    /\ stage' = "stopping"
    /\ Stop
    /\ UNCHANGED <<waited, life, began, record>>

Volatile ==
    /\ isRunning' = FALSE /\ starting' = "no" /\ last' = 0
    /\ timer' = FALSE /\ orphans' = 0 /\ batch' = None
    /\ first' = 0 /\ log' = << >> /\ starts' = 0

\* The process ends at any moment: killed, by an exit after a service that
\* failed to start, or by the exit after the shutdown.
Exit ==
    /\ stage # "down"
    /\ stage' = "down" /\ waited' = 0 /\ began' = 0
    /\ Volatile
    /\ UNCHANGED <<chain, resets, life, record>>

RelayerNext ==
    \/ ChainGoesOn
    \/ Launch \/ StartEthereum \/ EthereumStarted \/ RegisterHandlers \/ Elapse
    \/ Poll \/ Work \/ HandOver
    \/ Shutdown \/ Exit

RelayerSpec == RelayerInit /\ [][RelayerNext]_relayerVars
-----------------------------------------------------------------------------
RelayerTypeOK ==
    /\ stage \in {"down", "relay", "ethereum", "others", "serving", "stopping"}
    /\ waited \in 0 .. PollingInterval
    /\ {life, began} \subseteq Nat
    /\ handed \in Seq(Entry)
    /\ late \subseteq Nat

\* An event that nobody hears has one cause: a life in which the services that
\* main() waits for took the first polling interval or longer.
UnheardOnlyWhenLate ==
    \A i \in DOMAIN handed : handed[i].heard \/ handed[i].life \in late

\* No event is handed over for an HTLC that a reorganisation takes back, not even one
\* that happens when the life that handed it over is ended.
RelaysAreFinal ==
    \A i \in DOMAIN handed :
        /\ handed[i].height \in DOMAIN chain
        /\ handed[i].version = chain[handed[i].height]

\* An event is handed over again only by another life, and only for the blocks between
\* the one this life starts at and the last that was final when it did: at most
\* StartBack - ReorgBuffer of them.
RepeatsAreRecent ==
    \A i, j \in DOMAIN handed :
        (i < j /\ handed[i].height = handed[j].height) =>
            /\ handed[i].life < handed[j].life
            /\ handed[j].height > handed[j].began - StartBack
            /\ handed[j].height <= handed[j].began - ReorgBuffer

\* The relays of all lives together are true, and repeat one another only where
\* a life has to begin before the end of its predecessor.
RelaysAreSound == RelaysAreFinal /\ RepeatsAreRecent

\* Every life began no further than StartBack blocks after what was handed over
\* before it.
Before(i) == {j \in DOMAIN handed : handed[j].life < handed[i].life}
ShortOutages ==
    \A i \in DOMAIN handed :
        Before(i) # {} => \E j \in Before(i) : handed[j].height >= handed[i].began - StartBack

\* As long as no outage is longer than the blocks a new life goes back, no event
\* between the first that was handed over and any later one is left out, were
\* the lives before late or not.
NoGapAfterShortOutages ==
    ShortOutages =>
        \A i \in DOMAIN handed : \A h \in handed[1].height .. handed[i].height :
            \E j \in DOMAIN handed : handed[j].height = h

\* A relay is missed for no other reason than a long outage or a late start.
NothingIsMissed == UnheardOnlyWhenLate /\ NoGapAfterShortOutages
=============================================================================
