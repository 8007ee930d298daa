\* Batches of up to three entries in records of at most two, a buffer of three units.
SPECIFICATION Spec
CONSTANTS
    Tier = 3
    MaxPerRecord = 2
    BufUnits = 3
    MaxBatch = 3
    MaxFlushes = 2
    MaxFailures = 1
INVARIANTS
    CrashLeavesPrefix
    FlushedStaysReadable
    RoundTrip
CHECK_DEADLOCK FALSE
