----------------------------- MODULE SwapAndPop -----------------------------
(***************************************************************************)
(* The loops of CrossChainHTLC.sol that delete from a storage array by      *)
(* moving the last element into the hole and popping:                       *)
(*   "sweep"   _cleanupExpiredHtlcs and _cleanupOldTimestamps, which walk   *)
(*             the array backwards while it shrinks under them;             *)
(*   "remove"  _removeHtlcFromAddress, which walks forwards to the first    *)
(*             occurrence of one element and stops there.                   *)
(* Module EthereumHTLC takes each loop for one set difference.  This module *)
(* says why it may, and that the length the limits are compared with is the *)
(* number of elements.                                                      *)
(***************************************************************************)
EXTENDS Integers, Sequences, FiniteSets

CONSTANTS
    Elements,     \* what the array holds: HTLC ids, or the stamps of HTLCs
    MaxLength     \* bound of the array's length

VARIABLES
    given,        \* the array before the call
    list,         \* the array
    doomed,       \* the elements the loop's condition selects
    i,            \* the loop index: the next position to look at, from 1
    pc            \* the loop that runs, then "done"

vars == <<given, list, doomed, i, pc>>

ASSUME LengthAssumption == MaxLength \in Nat

Members(l) == {l[j] : j \in 1 .. Len(l)}
Distinct(l) == \A j, k \in 1 .. Len(l) : l[j] = l[k] => j = k
Arrays == UNION {[1 .. n -> Elements] : n \in 0 .. MaxLength}

\* An id is pushed once, when its HTLC is created, so arrays have no duplicates.
Init ==
    /\ given \in {l \in Arrays : Distinct(l)}
    /\ list = given
    /\ \/ pc = "sweep" /\ doomed \in SUBSET Elements /\ i = Len(given)
       \/ pc = "remove" /\ doomed \in {{e} : e \in Elements} /\ i = 1
-----------------------------------------------------------------------------
\* Seeded fault: pop without moving the last element into the hole.
FaultPopOnly(k) == list' = [j \in 1 .. Len(list) - 1 |-> list[j]]

\* list[k] = list[length - 1]; list.pop()
Drop(k) ==
    list' = [j \in 1 .. Len(list) - 1 |-> IF j = k THEN list[Len(list)] ELSE list[j]]

SweepDrop == i > 0 /\ list[i] \in doomed /\ Drop(i) /\ i' = i - 1
SweepKeep == i > 0 /\ list[i] \notin doomed /\ UNCHANGED list /\ i' = i - 1

Sweep == pc = "sweep" /\ (SweepDrop \/ SweepKeep) /\ UNCHANGED <<given, doomed, pc>>

SweepEnd == pc = "sweep" /\ i = 0 /\ pc' = "done" /\ UNCHANGED <<given, list, doomed, i>>

RemoveFound ==
    /\ pc = "remove" /\ i <= Len(list) /\ list[i] \in doomed
    /\ Drop(i)
    /\ pc' = "done"
    /\ UNCHANGED <<given, doomed, i>>

RemoveNext ==
    /\ pc = "remove" /\ i <= Len(list) /\ list[i] \notin doomed
    /\ i' = i + 1
    /\ UNCHANGED <<given, list, doomed, pc>>

RemoveEnd ==
    /\ pc = "remove" /\ i > Len(list)
    /\ pc' = "done"
    /\ UNCHANGED <<given, list, doomed, i>>

Next == Sweep \/ SweepEnd \/ RemoveFound \/ RemoveNext \/ RemoveEnd

Spec == Init /\ [][Next]_vars
-----------------------------------------------------------------------------
TypeOK ==
    /\ given \in Seq(Elements) /\ list \in Seq(Elements)
    /\ doomed \subseteq Elements
    /\ i \in Nat
    /\ pc \in {"sweep", "remove", "done"}

\* The loop removes exactly what its condition selects, whatever moves where
\* while it runs, and it leaves no element twice: the array's length is still
\* the number of elements it holds.
RemovesExactly ==
    pc = "done" => Members(list) = Members(given) \ doomed /\ Distinct(list)

\* The array shrinks under the sweep, and the sweep never reads past its end
\* (Solidity would revert, and every createHTLC of the account with it).
InBounds == pc = "sweep" => i <= Len(list)
=============================================================================
