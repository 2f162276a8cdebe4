----------------------------- MODULE Migrations -----------------------------
(***************************************************************************)
(* DatabaseMigrator: processes that migrate or roll back one database, with  *)
(* a row of migration_lock to keep them apart.  Every helper takes a client  *)
(* of the process's own pool and releases it at its end; an action is what   *)
(* one statement does, or the wait for a client.                            *)
(*                                                                         *)
(* A migration is its version.  What its SQL does is left out: it succeeds   *)
(* or fails, and COMMIT makes it and its record visible together.           *)
(***************************************************************************)
EXTENDS Integers, FiniteSets

CONSTANTS
    Migrators,      \* processes
    LastVersion,    \* the migrations are 1 .. LastVersion
    MigrationPool,  \* clients of each one's pool: one in the persistence manager
    LockAge,        \* a lock of this age is stale
    LastHour, MaxRuns  \* bounds of the model

VARIABLES
    migrator,       \* the command each process runs
    migrationLock,  \* the row of migration_lock, if any
    recorded,       \* schema_migrations
    hour

migrationVars == <<migrator, migrationLock, recorded, hour>>

ASSUME MigrationAssumption ==
    /\ {LastVersion, LockAge} \subseteq Nat \ {0}
    /\ MigrationPool \in [Migrators -> Nat \ {0}]
    /\ {LastHour, MaxRuns} \subseteq Nat

Resting == [pc |-> "ended", command |-> "migrate", plan |-> {}, clients |-> 0, run |-> 0]

MigrationInit ==
    /\ migrator = [p \in Migrators |-> Resting]
    /\ migrationLock = {}
    /\ recorded = {}
    /\ hour = 0
-----------------------------------------------------------------------------
\* lockId: a fresh one for every command.
LockId(p) == <<p, migrator[p].run>>
\* The oldest migration is applied first, the newest rolled back first.
Version(p) ==
    CHOOSE v \in migrator[p].plan : \A w \in migrator[p].plan :
        IF migrator[p].command = "migrate" THEN v <= w ELSE v >= w

\* The pool.connect() that each helper awaits first, and where it goes on.
Waits == [lock |-> "insert", list |-> "read", apply |-> "sql", unlock |-> "delete",
          check |-> "checking", version |-> "reading"]

Steps(p, pc) == migrator' = [migrator EXCEPT ![p].pc = pc]
\* The finally clause of a helper.
Releases(p, pc) == migrator' = [migrator EXCEPT ![p].pc = pc, ![p].clients = @ - 1]

Command(p, command) ==
    /\ migrator[p].pc = "ended" /\ migrator[p].run < MaxRuns
    /\ migrator' = [migrator EXCEPT ![p] =
                        [Resting EXCEPT !.pc = IF command = "check" THEN "check" ELSE "lock",
                                        !.command = command, !.run = migrator[p].run + 1]]
    /\ UNCHANGED <<migrationLock, recorded, hour>>

Connect(p) ==
    /\ migrator[p].pc \in DOMAIN Waits
    /\ migrator[p].clients < MigrationPool[p]
    /\ migrator' = [migrator EXCEPT ![p].pc = Waits[migrator[p].pc], ![p].clients = @ + 1]
    /\ UNCHANGED <<migrationLock, recorded, hour>>

\* The server refuses: no helper has started, and the lock is left if releaseLock is
\* the one.
NoClient(p) ==
    /\ migrator[p].clients < MigrationPool[p]
    /\ \/ migrator[p].pc \in {"lock", "unlock", "check"} /\ Steps(p, "ended")
       \/ migrator[p].pc \in {"list", "apply"} /\ Steps(p, "unlock")
    /\ UNCHANGED <<migrationLock, recorded, hour>>
-----------------------------------------------------------------------------
(* acquireLock and releaseLock *)

InsertLock(p) ==
    /\ migrator[p].pc = "insert"
    /\ IF migrationLock = {}
       THEN /\ migrationLock' = {[id |-> LockId(p), since |-> hour]}
            /\ Releases(p, "list")
       ELSE /\ Steps(p, "look")
            /\ UNCHANGED migrationLock
    /\ UNCHANGED <<recorded, hour>>

Stale(lock) == hour - lock.since >= LockAge

\* A row that is gone by now is taken for a lock of one's own.
LookAtLock(p) ==
    /\ migrator[p].pc = "look"
    /\ \/ migrationLock = {} /\ Releases(p, "list")
       \/ \E lock \in migrationLock : Stale(lock) /\ Steps(p, "force")
       \/ \E lock \in migrationLock : ~Stale(lock) /\ Releases(p, "ended")
    /\ UNCHANGED <<migrationLock, recorded, hour>>

\* Seeded fault: the retry is awaited inside the try, before its finally clause.
FaultForceRelease(p) ==
    /\ migrator[p].pc = "force"
    /\ migrationLock' = {}
    /\ Steps(p, "lock")
    /\ UNCHANGED <<recorded, hour>>

\* Whichever lock is there by now is deleted.  The promise of the retry is
\* returned, not awaited, so that the client is released at once.
ForceRelease(p) ==
    /\ migrator[p].pc = "force"
    /\ migrationLock' = {}
    /\ Releases(p, "lock")
    /\ UNCHANGED <<recorded, hour>>

ReleaseLock(p) ==
    /\ migrator[p].pc = "delete"
    /\ migrationLock' = {lock \in migrationLock : lock.id # LockId(p)}
    /\ Releases(p, "ended")
    /\ UNCHANGED <<recorded, hour>>
-----------------------------------------------------------------------------
(* migrate and rollback *)

GetAppliedMigrations(p) ==
    /\ migrator[p].pc = "read"
    /\ \E plan \in IF migrator[p].command = "migrate"
                   THEN {1 .. LastVersion \ recorded}
                   ELSE {{v \in recorded : v > target} : target \in 0 .. LastVersion - 1} :
          migrator' = [migrator EXCEPT ![p].plan = plan, ![p].clients = @ - 1,
                                       ![p].pc = IF plan = {} THEN "unlock" ELSE "apply"]
    /\ UNCHANGED <<migrationLock, recorded, hour>>

MigrationSql(p) ==
    /\ migrator[p].pc = "sql"
    /\ Steps(p, "record")
    /\ UNCHANGED <<migrationLock, recorded, hour>>

\* The primary key: an INSERT waits for the transaction that has inserted or deleted
\* the same version, and a DELETE for another DELETE.
RowIsFree(p) ==
    \A q \in Migrators \ {p} :
        migrator[q].pc = "commit" /\ Version(q) = Version(p) =>
            migrator[p].command = "rollback" /\ migrator[q].command = "migrate"

RecordMigration(p) ==
    /\ migrator[p].pc = "record" /\ RowIsFree(p)
    /\ IF migrator[p].command = "migrate" /\ Version(p) \in recorded
       THEN Releases(p, "unlock")
       ELSE Steps(p, "commit")
    /\ UNCHANGED <<migrationLock, recorded, hour>>

CommitMigration(p) ==
    /\ migrator[p].pc = "commit"
    /\ recorded' = IF migrator[p].command = "migrate" THEN recorded \cup {Version(p)}
                   ELSE recorded \ {Version(p)}
    /\ migrator' = [migrator EXCEPT ![p].plan = @ \ {Version(p)}, ![p].clients = @ - 1,
                                    ![p].pc = IF migrator[p].plan = {Version(p)} THEN "unlock"
                                              ELSE "apply"]
    /\ UNCHANGED <<migrationLock, hour>>

\* A statement fails: nothing in acquireLock or releaseLock asks for the lock back.
StatementFails(p) ==
    /\ \/ migrator[p].pc \in {"insert", "look", "force", "delete"} /\ Releases(p, "ended")
       \/ migrator[p].pc \in {"read", "sql", "record", "commit"} /\ Releases(p, "unlock")
    /\ UNCHANGED <<migrationLock, recorded, hour>>

\* The server rolls back what the process had begun; its lock stays.
ProcessDies(p) ==
    /\ migrator[p].pc # "ended"
    /\ migrator' = [migrator EXCEPT ![p] = [Resting EXCEPT !.run = migrator[p].run]]
    /\ UNCHANGED <<migrationLock, recorded, hour>>
-----------------------------------------------------------------------------
\* checkIntegrity asks getCurrentVersion and getAppliedMigrations, each of which
\* takes a client next to the one that checkIntegrity holds.
CheckIntegrity(p) ==
    /\ migrator[p].pc = "checking" /\ Steps(p, "version")
    /\ UNCHANGED <<migrationLock, recorded, hour>>

\* Or one of the two was refused its client, or had no answer.
CheckEnds(p) ==
    /\ \/ migrator[p].pc = "reading"
       \/ migrator[p].pc = "version" /\ migrator[p].clients < MigrationPool[p]
    /\ migrator' = [migrator EXCEPT ![p].pc = "ended", ![p].clients = 0]
    /\ UNCHANGED <<migrationLock, recorded, hour>>

HourPasses ==
    /\ hour < LastHour
    /\ hour' = hour + 1
    /\ UNCHANGED <<migrator, migrationLock, recorded>>

MigrationNext ==
    \/ \E p \in Migrators :
          \/ \E command \in {"migrate", "rollback", "check"} : Command(p, command)
          \/ Connect(p) \/ NoClient(p) \/ InsertLock(p) \/ LookAtLock(p) \/ ForceRelease(p)
          \/ ReleaseLock(p) \/ GetAppliedMigrations(p) \/ MigrationSql(p) \/ RecordMigration(p)
          \/ CommitMigration(p) \/ StatementFails(p) \/ ProcessDies(p)
          \/ CheckIntegrity(p) \/ CheckEnds(p)
    \/ HourPasses

MigrationSpec == MigrationInit /\ [][MigrationNext]_migrationVars
-----------------------------------------------------------------------------
\* One connection is enough to migrate and to roll back: no helper waits for a
\* client while the process holds its pool's last one, not even when a stale lock
\* makes acquireLock call itself.  (checkIntegrity does.)
NeverWaitsForItself ==
    \A p \in Migrators :
        migrator[p].pc \in DOMAIN Waits /\ migrator[p].command # "check" =>
            migrator[p].clients < MigrationPool[p]

\* The lock table is there "for concurrent safety": between acquireLock and
\* releaseLock there is one migrator at most.
AtWork(p) == migrator[p].pc \in {"list", "read", "apply", "sql", "record", "commit"}
OneMigratorAtATime == Cardinality({p \in Migrators : AtWork(p)}) <= 1
=============================================================================
