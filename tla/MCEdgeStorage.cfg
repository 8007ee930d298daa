\* Five edges are just enough for a table of capacity 2 to prune.
SPECIFICATION StorageSpec
CONSTANTS
    Edges = {e1, e2, e3, e4, e5}
    TopNs = {0, 1, 2}
    MaxRecords = 16
SYMMETRY EdgeSymmetry
INVARIANTS
    CountsConserved
    TableBounded
    TopNFloor
CHECK_DEADLOCK FALSE
