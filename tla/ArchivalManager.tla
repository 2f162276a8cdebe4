-------------------------- MODULE ArchivalManager --------------------------
(***************************************************************************)
(* The archival jobs of one policy                                         *)
(* (relayer/src/persistence/archival-manager.ts): batches of rows that are   *)
(* selected, written to a file and deleted, while the rows change, other      *)
(* jobs run and statements fail.  A run may begin at any moment, by hand or   *)
(* by an interval, of which there may be several; cancelling one changes its  *)
(* status and nothing else.                                                  *)
(*                                                                         *)
(* What becomes of a batch depends on the policy's destination.  The stream   *)
(* that archives it takes the records out of the array whose ids are deleted  *)
(* afterwards, so that the rows are in the file and stay in the table; those  *)
(* to compress are written nowhere, and go.                                  *)
(*                                                                         *)
(* Rows are numbered in the order of the policy's date column.  A row is      *)
(* "ended" when it meets the policy's conditions and is older than the        *)
(* cutoff, "open" when it does not, and "gone" when it was deleted.           *)
(***************************************************************************)
EXTENDS Integers, FiniteSets

CONSTANTS
    Rows,             \* a set of numbers
    Jobs,             \* names of runs of the policy
    Destinations,     \* what policies are added with; "unplaced" is an archive
                      \* policy without a location, as the default one is
    MaxConcurrentJobs, RowsPerBatch, MaxRecordsPerRun,
    MaxRowChanges        \* bound: changes of rows by others

ASSUME ArchivalAssumption ==
    /\ IsFiniteSet(Rows) /\ Rows \subseteq Int
    /\ Destinations \subseteq {"archive", "unplaced", "compress", "delete"}
    /\ RowsPerBatch \in Nat \ {0} /\ MaxRecordsPerRun \in Nat \ {0}

VARIABLES
    table,       \* per row: "open", "ended", "gone"
    filed,       \* rows in a file, as they were when they were selected
    job,         \* per name: the run, and what it has done
    policy,      \* the destination of the policy, or "removed"
    touched      \* changes of rows so far

archivalVars == <<table, filed, job, policy, touched>>

NotRunning == [at |-> "idle"]
Running(j) == job[j] # NotRunning
Matching == {r \in Rows : table[r] = "ended"}
Least(a, b) == IF a < b THEN a ELSE b

\* LIMIT and OFFSET over the rows that match now.
Selected(limit, offset) ==
    {r \in Matching :
        Cardinality({s \in Matching : s < r}) \in offset .. offset + limit - 1}

\* The constructor adds a default policy of each kind.
ArchivalInit ==
    /\ table = [r \in Rows |-> "ended"] /\ filed = {}
    /\ job = [j \in Jobs |-> NotRunning]
    /\ policy \in Destinations \ {"archive"}
    /\ touched = 0
-----------------------------------------------------------------------------
\* addPolicy, removePolicy; runs under way keep their copy.
SetPolicy ==
    /\ policy' \in Destinations \cup {"removed"}
    /\ UNCHANGED <<table, filed, job, touched>>

\* executePolicy, by an interval or by hand: a run of the policy as it is now.
ExecutePolicy(j) ==
    /\ policy # "removed" /\ ~Running(j)
    /\ Cardinality({k \in Jobs : Running(k)}) < MaxConcurrentJobs
    /\ \E dry \in BOOLEAN :
        job' = [k \in Jobs |->
            IF k = j THEN [at |-> "count", to |-> policy, dry |-> dry, total |-> 0, offset |-> 0,
                           batch |-> {}, alone |-> \A l \in Jobs : ~Running(l)]
            ELSE IF Running(k) THEN [job[k] EXCEPT !.alone = FALSE] ELSE job[k]]
    /\ UNCHANGED <<table, filed, policy, touched>>

AtStep(j, place) == Running(j) /\ job[j].at = place

Count(j) ==
    /\ AtStep(j, "count")
    /\ job' = IF Matching = {} THEN [job EXCEPT ![j] = NotRunning]
              ELSE [job EXCEPT ![j].at = "select", ![j].total = Cardinality(Matching)]
    /\ UNCHANGED <<table, filed, policy, touched>>

Limit(j) == Least(job[j].total, MaxRecordsPerRun)

Select(j) ==
    /\ AtStep(j, "select")
    /\ LET size == Least(RowsPerBatch, Limit(j) - job[j].offset)
           batch == Selected(size, job[j].offset)
       IN job' = [job EXCEPT ![j].at = IF batch = {} THEN "done" ELSE "file", ![j].batch = batch]
    /\ UNCHANGED <<table, filed, policy, touched>>

\* archiveRecords leaves the array of the batch empty, compressRecords writes
\* nothing.
File(j) ==
    /\ AtStep(j, "file")
    /\ job[j].to # "unplaced"      \* throws
    /\ filed' = IF job[j].to = "archive" THEN filed \cup job[j].batch ELSE filed
    /\ job' = [job EXCEPT ![j].batch = IF job[j].to = "archive" THEN {} ELSE @,
                          ![j].at = IF job[j].dry THEN "next" ELSE "delete"]
    /\ UNCHANGED <<table, policy, touched>>

\* By id, whatever has become of the rows since they were selected.
Delete(j) ==
    /\ AtStep(j, "delete")
    /\ table' = [r \in Rows |-> IF r \in job[j].batch THEN "gone" ELSE table[r]]
    /\ job' = [job EXCEPT ![j].at = "next"]
    /\ UNCHANGED <<filed, policy, touched>>

\* Seeded fault: a batch that was deleted counts twice.
FaultNextRows(j) ==
    /\ AtStep(j, "next")
    /\ LET offset == job[j].offset + 2 * RowsPerBatch IN
       job' = [job EXCEPT ![j].offset = offset,
                          ![j].at = IF offset < Limit(j) THEN "select" ELSE "done"]
    /\ UNCHANGED <<table, filed, policy, touched>>

\* The offset moves on by the size of the batch, deleted or not.
NextRows(j) ==
    /\ AtStep(j, "next")
    /\ LET offset == job[j].offset + Least(RowsPerBatch, Limit(j) - job[j].offset) IN
       job' = [job EXCEPT ![j].offset = offset,
                          ![j].at = IF offset < Limit(j) THEN "select" ELSE "done"]
    /\ UNCHANGED <<table, filed, policy, touched>>

\* What the stream may have written of a file that is not complete.
Writing(j) == IF AtStep(j, "file") /\ job[j].to = "archive" THEN job[j].batch ELSE {}

\* The run completes, or one of its statements, or the file, fails.
Ends(j) ==
    /\ Running(j)
    /\ \E written \in SUBSET Writing(j) : filed' = filed \cup written
    /\ job' = [job EXCEPT ![j] = NotRunning]
    /\ UNCHANGED <<table, policy, touched>>

\* The relayer ends a relay, or updates one that had ended.
RowChanges(r) ==
    /\ touched < MaxRowChanges /\ touched' = touched + 1
    /\ table[r] # "gone"
    /\ table' = [table EXCEPT ![r] = IF @ = "ended" THEN "open" ELSE "ended"]
    /\ job' = [j \in Jobs |-> IF Running(j) THEN [job[j] EXCEPT !.alone = FALSE] ELSE job[j]]
    /\ UNCHANGED <<filed, policy>>

ArchivalNext ==
    \/ SetPolicy
    \/ \E j \in Jobs :
        \/ ExecutePolicy(j) \/ Count(j) \/ Select(j) \/ File(j) \/ Delete(j) \/ NextRows(j) \/ Ends(j)
    \/ \E r \in Rows : RowChanges(r)

ArchivalSpec == ArchivalInit /\ [][ArchivalNext]_archivalVars
-----------------------------------------------------------------------------
\* A run that deletes passes over rows, because the offset grows while the rows
\* before it go, but when nobody disturbs it, it takes half of what it counted,
\* or all it may: the hourly runs get through any backlog.
TakesHalf(j) ==
    LET left == Cardinality(Matching) IN
    2 * left <= job[j].total \/ job[j].total - left >= Limit(j)

\* A run that archives deletes nothing, so it passes over nothing either: every
\* row of the first it may take is in a file.
FilesAll(j) == Selected(Limit(j), 0) \subseteq filed

\* What a run has done when it is through, if no other run and no change of the
\* rows came between.
RunsDoTheirShare ==
    \A j \in Jobs :
        AtStep(j, "done") /\ job[j].alone =>
            /\ job[j].to = "archive" => FilesAll(j)
            /\ job[j].to \in {"compress", "delete"} /\ ~job[j].dry => TakesHalf(j)

\* "Delete records if not dry run" (archival-manager.ts:580): fewer rows are left
\* after a batch than the run counted.
RunsDelete ==
    \A j \in Jobs :
        AtStep(j, "next") /\ job[j].alone /\ ~job[j].dry =>
            Cardinality(Matching) < job[j].total
=============================================================================
