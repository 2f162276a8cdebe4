SPECIFICATION ArchivalSpec
CONSTANTS
    Rows = {1, 2, 3}
    Jobs = {j1}
    Destinations = {"archive", "unplaced", "compress", "delete"}
    MaxConcurrentJobs = 2
    RowsPerBatch = 2
    MaxRecordsPerRun = 3
    MaxRowChanges = 1
INVARIANT RunsDelete
CHECK_DEADLOCK FALSE
