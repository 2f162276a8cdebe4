SPECIFICATION MigrationSpec
CONSTANTS
    Migrators = {"manager", "cli"}
    LastVersion = 2
    MigrationPool <- MCMigrationPool
    LockAge = 1
    LastHour = 0
    MaxRuns = 2
INVARIANT OneMigratorAtATime
CHECK_DEADLOCK FALSE
