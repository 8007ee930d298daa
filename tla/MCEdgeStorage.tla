--------------------------- MODULE MCEdgeStorage ---------------------------
(* EdgeStorage for TLC: edges are interchangeable. *)
EXTENDS EdgeStorage, TLC

EdgeSymmetry == Permutations(Edges)
=============================================================================
