---------------------------- MODULE HashTimeLock ----------------------------
(***************************************************************************)
(* What both HTLC contracts promise a swap, whatever they do about limits,  *)
(* lists, configurations and balances: value is locked under a deadline     *)
(* that lies ahead, a lock is resolved at most once, and it goes back to    *)
(* the locker only at or after its deadline.  Neither contract forbids a    *)
(* claim after the deadline, so a claim is allowed as long as nobody took   *)
(* the lock back: the promise is no stronger than that.                     *)
(***************************************************************************)
EXTENDS Naturals

VARIABLES
    locked,     \* the locks open now, as records with an id and a deadline
    claimed,    \* the locks paid out against the secret
    returned,   \* the locks taken back by the locker
    clock

lockVars == <<locked, claimed, returned, clock>>

LockInit == locked = {} /\ claimed = {} /\ returned = {} /\ clock \in Nat

Lock(l) ==
    /\ l.deadline > clock
    /\ \A k \in locked \cup claimed \cup returned : k.id # l.id
    /\ locked' = locked \cup {l}
    /\ UNCHANGED <<claimed, returned, clock>>

Claim(l) ==
    /\ l \in locked
    /\ locked' = locked \ {l}
    /\ claimed' = claimed \cup {l}
    /\ UNCHANGED <<returned, clock>>

TakeBack(l) ==
    /\ l \in locked
    /\ clock >= l.deadline
    /\ locked' = locked \ {l}
    /\ returned' = returned \cup {l}
    /\ UNCHANGED <<claimed, clock>>

TimePasses == clock' > clock /\ UNCHANGED <<locked, claimed, returned>>

LockNext ==
    \/ \E l \in locked' \ locked : Lock(l)
    \/ \E l \in locked : Claim(l) \/ TakeBack(l)
    \/ TimePasses

LockSpec == LockInit /\ [][LockNext]_lockVars
=============================================================================
