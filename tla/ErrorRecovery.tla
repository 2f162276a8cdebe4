--------------------------- MODULE ErrorRecovery ---------------------------
(***************************************************************************)
(* ErrorRecoveryManager and CircuitBreaker of relayer/src/security: calls    *)
(* that fail are repeated, behind a breaker that blocks them for a while     *)
(* after too many failures, and an emergency stop.                           *)
(*                                                                         *)
(* As in RelayService.processRelayWithRecovery a call is two executions, the *)
(* relay and within it the creation of the HTLC, each with attempts of its   *)
(* own and both behind the same breaker ("ethereum").  An action is what     *)
(* runs between two awaits: a result passes the inner execution and, in a    *)
(* step of its own, the outer one.  What is executed succeeds or fails by    *)
(* chance, and the delay before a retry is any.                              *)
(***************************************************************************)
EXTENDS Integers

CONSTANTS
    Calls,
    MaxAttempts,        \* retryConfigs[HTLC_CREATION].maxAttempts
    FailureThreshold, SuccessThreshold,
    Timeout,            \* ticks until an open breaker may be tested
    ResetTimeout,       \* ticks until a breaker resets itself
    Off                 \* no timer, no time set

VARIABLES
    breaker,    \* wait is what is left until nextAttempt, timer of resetTimer
    emergencyStop,
    pc,         \* where the call is
    outer,      \* attempts of the relay
    inner       \* attempts of the creation in this attempt of the relay

breakerVars == <<breaker, emergencyStop, pc, outer, inner>>

ASSUME RecoveryAssumption ==
    /\ {MaxAttempts, FailureThreshold, SuccessThreshold} \subseteq Nat \ {0}
    /\ {Timeout, ResetTimeout} \subseteq Nat \ {0}
    /\ Off \notin Nat

Breaker == [state: {"closed", "open", "half_open"}, failures: Nat, successes: Nat,
            wait: Nat \cup {Off}, timer: Nat \cup {Off}]
Places == {"idle", "running", "returning", "throwing", "blocked",
           "innerSleep", "outerSleep", "done", "failed"}

New == [state |-> "closed", failures |-> 0, successes |-> 0, wait |-> Off, timer |-> Off]
-----------------------------------------------------------------------------
\* The breaker: what its methods make of it.

\* Seeded fault: the failures are still counted.
FaultResetCount(b) == [New EXCEPT !.failures = b.failures]
Reset(b) == New

\* Seeded fault: every opening starts the timer again.
FaultOpened(b) == [b EXCEPT !.state = "open", !.wait = Timeout, !.timer = ResetTimeout]

\* A timer that is pending already is left alone (scheduleReset).
Opened(b) == [b EXCEPT !.state = "open", !.wait = Timeout,
                       !.timer = IF @ = Off THEN ResetTimeout ELSE @]

Blocks(b) == b.state = "open" /\ b.wait # 0

\* execute, up to the operation, of a breaker that does not block
Admit(b) == [b EXCEPT !.state = IF @ = "open" THEN "half_open" ELSE @]

OnSuccess(b) ==
    IF b.state # "half_open" THEN [b EXCEPT !.failures = 0]
    ELSE IF b.successes + 1 >= SuccessThreshold THEN Reset(b)
    ELSE [b EXCEPT !.successes = @ + 1]

OnFailure(b) ==
    LET f == [b EXCEPT !.failures = @ + 1] IN
    IF b.state = "half_open" THEN [Opened(f) EXCEPT !.successes = 0]
    ELSE IF b.state = "closed" /\ f.failures >= FailureThreshold THEN Opened(f)
    ELSE f
-----------------------------------------------------------------------------
ErrorRecoveryInit ==
    /\ breaker = New
    /\ emergencyStop = FALSE
    /\ pc = [c \in Calls |-> "idle"]
    /\ outer = [c \in Calls |-> 0]
    /\ inner = [c \in Calls |-> 0]

Goto(c, place) == pc' = [pc EXCEPT ![c] = place]

\* An attempt of the relay, up to the operation that it comes to.  The creation
\* finds the breaker as the relay left it, which never blocks.
Attempt(c) ==
    /\ outer' = [outer EXCEPT ![c] = @ + 1]
    /\ \/ /\ Blocks(breaker)
          /\ Goto(c, "failed") /\ UNCHANGED <<breaker, inner>>
       \/ /\ ~Blocks(breaker) /\ emergencyStop
          /\ breaker' = Admit(breaker)
          /\ Goto(c, "throwing") /\ UNCHANGED inner
       \/ /\ ~Blocks(breaker) /\ ~emergencyStop
          /\ breaker' = Admit(Admit(breaker))
          /\ Goto(c, "running") /\ inner' = [inner EXCEPT ![c] = 1]
    /\ UNCHANGED emergencyStop

ExecuteWithRecovery(c) ==
    /\ pc[c] = "idle"
    /\ IF emergencyStop
       THEN Goto(c, "failed") /\ UNCHANGED <<breaker, emergencyStop, outer, inner>>
       ELSE Attempt(c)

OuterRetry(c) == pc[c] = "outerSleep" /\ Attempt(c)

\* Seeded fault: a retry is not counted.
FaultInnerRetry(c) ==
    /\ pc[c] = "innerSleep"
    /\ IF Blocks(breaker)
       THEN Goto(c, "blocked") /\ UNCHANGED breaker
       ELSE Goto(c, "running") /\ breaker' = Admit(breaker)
    /\ UNCHANGED <<emergencyStop, outer, inner>>

\* The next attempt of the creation: whether the system was stopped meanwhile is
\* asked only before the first.
InnerRetry(c) ==
    /\ pc[c] = "innerSleep"
    /\ inner' = [inner EXCEPT ![c] = @ + 1]
    /\ IF Blocks(breaker)
       THEN Goto(c, "blocked") /\ UNCHANGED breaker
       ELSE Goto(c, "running") /\ breaker' = Admit(breaker)
    /\ UNCHANGED <<emergencyStop, outer>>

InnerSucceeds(c) ==
    /\ pc[c] = "running"
    /\ breaker' = OnSuccess(breaker)
    /\ Goto(c, "returning")
    /\ UNCHANGED <<emergencyStop, outer, inner>>

InnerFails(c) ==
    /\ pc[c] = "running"
    /\ breaker' = OnFailure(breaker)
    /\ Goto(c, IF inner[c] < MaxAttempts THEN "innerSleep" ELSE "throwing")
    /\ UNCHANGED <<emergencyStop, outer, inner>>

OuterSucceeds(c) ==
    /\ pc[c] = "returning"
    /\ breaker' = OnSuccess(breaker)
    /\ Goto(c, "done")
    /\ UNCHANGED <<emergencyStop, outer, inner>>

\* An execution that the breaker blocked is not repeated, the relay neither.
OuterFails(c) ==
    /\ pc[c] \in {"throwing", "blocked"}
    /\ breaker' = OnFailure(breaker)
    /\ Goto(c, IF pc[c] = "throwing" /\ outer[c] < MaxAttempts THEN "outerSleep" ELSE "failed")
    /\ UNCHANGED <<emergencyStop, outer, inner>>
-----------------------------------------------------------------------------
calls == <<pc, outer, inner>>

Less(t) == IF t = Off \/ t = 0 THEN t ELSE t - 1

Tick ==
    /\ breaker' = [breaker EXCEPT !.wait = Less(@), !.timer = Less(@)]
    /\ UNCHANGED <<emergencyStop, calls>>

AutoReset ==
    /\ breaker.timer = 0
    /\ breaker' = Reset(breaker)
    /\ UNCHANGED <<emergencyStop, calls>>

\* The endpoints of index.ts.
Trip ==
    /\ breaker' = Opened(breaker)
    /\ UNCHANGED <<emergencyStop, calls>>

ManualReset ==
    /\ breaker' = Reset(breaker)
    /\ UNCHANGED <<emergencyStop, calls>>

EmergencyStopSystem ==
    /\ emergencyStop' = TRUE
    /\ breaker' = Reset(breaker)
    /\ UNCHANGED calls

ResumeSystem ==
    /\ emergencyStop' = FALSE
    /\ breaker' = Reset(breaker)
    /\ UNCHANGED calls

Execute(c) ==
    \/ ExecuteWithRecovery(c) \/ OuterRetry(c) \/ InnerRetry(c)
    \/ InnerSucceeds(c) \/ InnerFails(c) \/ OuterSucceeds(c) \/ OuterFails(c)

ErrorRecoveryNext ==
    \/ \E c \in Calls : Execute(c)
    \/ Tick \/ AutoReset
    \/ Trip \/ ManualReset \/ EmergencyStopSystem \/ ResumeSystem

\* Time passes, timers fire and every operation has a result.
ErrorRecoveryFairness ==
    /\ WF_breakerVars(Tick) /\ WF_breakerVars(AutoReset)
    /\ \A c \in Calls : WF_breakerVars(pc[c] # "idle" /\ Execute(c))

ErrorRecoverySpec == ErrorRecoveryInit /\ [][ErrorRecoveryNext]_breakerVars
ErrorRecoveryFairSpec == ErrorRecoverySpec /\ ErrorRecoveryFairness
-----------------------------------------------------------------------------
ErrorRecoveryTypeOK ==
    /\ breaker \in Breaker
    /\ emergencyStop \in BOOLEAN
    /\ pc \in [Calls -> Places]
    /\ outer \in [Calls -> Nat] /\ inner \in [Calls -> Nat]

\* The reset timer is pending exactly while the breaker is not closed: late
\* results, nested tests and manual trips neither lose it, which would leave the
\* breaker open for good, nor leave one behind that would reset a later opening.
TimerWhileNotClosed == breaker.state = "closed" <=> breaker.timer = Off

\* A closed breaker has failures left before it opens, and no successes of an
\* earlier test: whichever of five ways it was closed in, and whatever results
\* came in while it was open.
ClosedStartsAfresh ==
    breaker.state = "closed" =>
        breaker.failures < FailureThreshold /\ breaker.successes = 0

\* Timer and counts of the breaker fit its state, whatever comes late.
BreakerSound == TimerWhileNotClosed /\ ClosedStartsAfresh

\* An open breaker closes at last, however often it is tested and opened again
\* or tripped by hand, and even if nobody calls.
OpenEventuallyCloses == (breaker.state = "open") ~> (breaker.state = "closed")

\* Every call ends: the two retry loops are bounded together.
EveryCallEnds ==
    \A c \in Calls : (pc[c] = "running") ~> (pc[c] \in {"done", "failed"})

\* Nothing is executed after an emergency stop, which is to "Trip all circuit
\* breakers", until the system is resumed.
NothingStartsWhileStopped ==
    [][\A c \in Calls :
          emergencyStop /\ pc'[c] = "running" => pc[c] = "running"]_breakerVars
=============================================================================
