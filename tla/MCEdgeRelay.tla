---------------------------- MODULE MCEdgeRelay ----------------------------
(***************************************************************************)
(* EdgeRelay for TLC.  Code at 10 to 14: A ends in a conditional indirect  *)
(* call and continues at B, which ends in a direct call back to A; B2 is   *)
(* the start of B translated at a smaller size.                            *)
(***************************************************************************)
EXTENDS EdgeRelay, TLC

Tb(s, e, next, ind, sites) ==
    [start |-> s, end |-> e, fall_through_addr |-> next, indirect |-> ind, direct |-> sites]

A == Tb(10, 11, 12, TRUE, {})
B == Tb(12, 13, 14, FALSE, {<<13, 10>>})
B2 == Tb(12, 12, 13, FALSE, {})
MCTbs == {A, B, B2}

(* A table that prunes, and a map that is flushed and then used again. *)
MCConfigs == {[streaming |-> FALSE, top_n |-> 1], [streaming |-> TRUE, top_n |-> 2]}

VcpuSymmetry == Permutations(Vcpus)
=============================================================================
