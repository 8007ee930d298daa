\* All small symbol tables; guest runs of up to five blocks, flushed once.
SPECIFICATION Spec
CONSTANTS
    AddrSpace = 16
    SizeCap = 3
    LastSize = 2
    NameLen <- MCNameLen
    NoName = ""
    Workloads <- MCWorkloads
    MaxBatches = 2
INVARIANTS
    IndexBest
    LookupExact
    CallGraphWeights
    TemporalTrace
    FlowConserved
    OutputIntact
CHECK_DEADLOCK FALSE
