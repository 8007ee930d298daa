\* Two vCPUs, two blocks, each run up to three times by each vCPU.
SPECIFICATION Spec
CONSTANTS
    Vcpus = {v1, v2}
    TbKeys = {k1, k2}
    NoKey = NoKey
    MaxExec = 3
SYMMETRY HotnessSymmetry
INVARIANTS
    TypeOK
    ExecCountsExact
    SeqsUnique
    NeverTooEarly
    SameVcpuOrder
CHECK_DEADLOCK FALSE
