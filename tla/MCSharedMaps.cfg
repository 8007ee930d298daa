\* Two vCPUs with two operations each and plugin_exit; one symbol id.
SPECIFICATION Spec
CONSTANTS
    Vcpus = {v1, v2}
    Exit = Exit
    Free = Free
    NoName = NoName
    f = f
    g = g
    b1 = b1
    b2 = b2
    b3 = b3
    Tbs = {b1, b2, b3}
    SymbolOf <- MCSymbolOf
    FlagsOf <- MCFlagsOf
    Devices = {d1}
    Events = {e1}
    MaxSymId = 1
    MaxOps = 2
INVARIANTS
    NamesStable
    NoWaitCycle
    ExitSnapshot
PROPERTIES
    EverybodyProceeds
CHECK_DEADLOCK FALSE
