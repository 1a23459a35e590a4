SPECIFICATION SyncSpec
CONSTANTS
    RowCode = {r1, r2}
    SyncWorker = {w1, w2}
    Incremental = TRUE
    BatchSize = 2
    NoRow = NoRow
    MaxTime = 2
    MaxJobs = 2
SYMMETRY SyncSym
INVARIANT IncrementalCatchesUp
CHECK_DEADLOCK FALSE
