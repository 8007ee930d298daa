\* Three vCPUs and a table that is just large enough: 2*3 - 1 slots.
SPECIFICATION Spec
CONSTANTS
    NVcpus = 3
    MAX_VCPUS = 5
    Tier = 2
    NoVcpu = NoVcpu
INVARIANTS
    TypeOK
    BoundedOvershoot
    NoPanicWithRoom
    QuiescentComplete
PROPERTIES
    SlotsWrittenOnce
    EventuallyInitialised
