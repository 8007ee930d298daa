\* Two vCPUs; a table of two edges is full and is written as two records.
SPECIFICATION Spec
CONSTANTS
    Vcpus = {v1, v2}
    Edges <- MCEdges
    TopN = 2
    MAX_EDGES_PER_RECORD = 1
    MaxRecords = 4
INVARIANTS
    TypeOK
    OpenedOnce
    EdgesConserved
    EntriesExact
PROPERTIES
    LedgerSpec
    FlushEnds
CHECK_DEADLOCK FALSE
