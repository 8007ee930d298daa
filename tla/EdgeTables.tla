----------------------------- MODULE EdgeTables -----------------------------
(***************************************************************************)
(* The two edge tables of plugin/src/edge_storage.rs as operators.         *)
(*                                                                         *)
(* A table is a total function from edges to counts in which 0 stands for  *)
(* an absent key: `entry(edge).or_insert(0) += 1` never leaves a zero in   *)
(* the HashMap.  sort_unstable leaves the order of equal counts open, so   *)
(* pruning returns the set of possible results.                            *)
(***************************************************************************)
EXTENDS Naturals, FiniteSets, Functions

(* The keys of the map. *)
Keys(t) == {e \in DOMAIN t : t[e] > 0}

EmptyTable(E) == [e \in E |-> 0]

(* Mutant: the counter goes the wrong way. *)
Bump_Decrement(t, e) == [t EXCEPT ![e] = @ - 1]

(* entry(edge).or_insert(0) += 1 *)
Bump(t, e) == [t EXCEPT ![e] = @ + 1]

(* The table reduced to the keys in K. *)
Keep(t, K) == [e \in DOMAIN t |-> IF e \in K THEN t[e] ELSE 0]

(* Pointwise sum: how drained batches are merged. *)
Merge(t, u) == [e \in DOMAIN t |-> t[e] + u[e]]

(* Sum of the counts of t into target a: the branch entries of compute_fall_throughs. *)
EntriesInto(t, a) == SumFunctionOnSet(t, {e \in DOMAIN t : e[2] = a})

(* Mutant: the sort is ascending. *)
Prune_Ascending(t, capacity) ==
    IF Cardinality(Keys(t)) <= capacity
    THEN {t}
    ELSE {Keep(t, K) : K \in {K \in SUBSET Keys(t) :
                                /\ Cardinality(K) = capacity
                                /\ \A a \in K, b \in Keys(t) \ K : t[a] <= t[b]}}

(* TopNTable::prune: sort by count, descending, and truncate. *)
Prune(t, capacity) ==
    IF Cardinality(Keys(t)) <= capacity
    THEN {t}
    ELSE {Keep(t, K) : K \in {K \in SUBSET Keys(t) :
                                /\ Cardinality(K) = capacity
                                /\ \A a \in K, b \in Keys(t) \ K : t[a] >= t[b]}}

(* Mutant: pruning is tested before the insertion. *)
TopNRecord_TestFirst(t, e, capacity) ==
    IF Cardinality(Keys(t)) > capacity * 2
    THEN {Bump(u, e) : u \in Prune(t, capacity)}
    ELSE {Bump(t, e)}

(* TopNTable::record: prune only when the map exceeds twice the capacity. *)
TopNRecord(t, e, capacity) ==
    LET u == Bump(t, e)
    IN  IF Cardinality(Keys(u)) > capacity * 2 THEN Prune(u, capacity) ELSE {u}

(* EdgeAccumulator::record *)
AccRecord(t, e, streaming, capacity) ==
    IF streaming THEN {Bump(t, e)} ELSE TopNRecord(t, e, capacity)

(* EdgeAccumulator::should_flush *)
ShouldFlush(t, streaming, threshold) ==
    streaming /\ Cardinality(Keys(t)) >= threshold
=============================================================================
