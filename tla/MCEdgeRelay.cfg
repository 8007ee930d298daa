\* Two vCPUs, three blocks, at most two slots stored late.
SPECIFICATION Spec
CONSTANTS
    Vcpus = {v1, v2}
    Tbs <- MCTbs
    Tier = 2
    Configs <- MCConfigs
    MaxEntries = 4
    MaxLate = 2
SYMMETRY VcpuSymmetry
INVARIANTS
    TypeOK
    CallsExact
    EdgesExact
    FallThroughDerived
    DirectCallWeights
CHECK_DEADLOCK FALSE
