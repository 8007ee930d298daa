\* Two vCPUs and one block.
SPECIFICATION Spec
CONSTANTS
    Vcpus = {v1, v2}
    TbKeys = {k1}
    NoKey = NoKey
    MaxExec = 2
INVARIANTS
    ExecutedHasSeq
CHECK_DEADLOCK FALSE
