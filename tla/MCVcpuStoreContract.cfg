\* The safety contract of PerVcpuStore, two vCPUs.
SPECIFICATION Spec
CONSTANTS
    NVcpus = 2
    MAX_VCPUS = 4
    Tier = 1
    NoVcpu = NoVcpu
INVARIANTS
    InitializedBeforeGetMut
