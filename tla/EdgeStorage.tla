---------------------------- MODULE EdgeStorage ----------------------------
(***************************************************************************)
(* One vCPU's EdgeAccumulator (plugin/src/edge_storage.rs) under           *)
(* PluginState::record_edge (plugin/src/state.rs) until plugin_exit drains *)
(* it.  The configuration (mode and top_n) is chosen at install.           *)
(***************************************************************************)
EXTENDS EdgeTables, FiniteSetsExt

CONSTANTS
    Edges,        \* the edges the guest can take
    TopNs,        \* values of the top_n option
    MaxRecords    \* bound: edges recorded in a behaviour

ASSUME TopNsAssumption == TopNs \subseteq Nat
ASSUME MaxRecordsAssumption == MaxRecords \in Nat
ASSUME EdgesAssumption == IsFiniteSet(Edges)

VARIABLES
    config,      \* streaming flag and top_n of the plugin's options
    stored,      \* the accumulator's table
    out,         \* counts handed to flush_edges or drained at exit
    exited,      \* plugin_exit has drained the accumulator
    truth,       \* history: how often each edge was recorded
    evictedMax   \* history: the largest count pruning has thrown away

storageVars == <<config, stored, out, exited, truth, evictedMax>>

StorageInit ==
    /\ config \in [streaming : BOOLEAN, top_n : TopNs]
    /\ stored = EmptyTable(Edges)
    /\ out = EmptyTable(Edges)
    /\ exited = FALSE
    /\ truth = EmptyTable(Edges)
    /\ evictedMax = 0

Recorded == MapThenSumSet(LAMBDA e : truth[e], Edges)

(* The largest count among the keys that t has and u has not. *)
LargestDropped(t, u) == Max({0} \cup {t[e] : e \in Keys(t) \ Keys(u)})

(* Mutant: the flush forgets to empty the table. *)
RecordEdge_NoDrain(e) ==
    /\ ~exited
    /\ Recorded < MaxRecords
    /\ truth' = Bump(truth, e)
    /\ \E t \in AccRecord(stored, e, config.streaming, config.top_n) :
          /\ out' = IF ShouldFlush(t, config.streaming, config.top_n)
                    THEN Merge(out, t) ELSE out
          /\ stored' = t
    /\ UNCHANGED <<config, exited, evictedMax>>

(* record_edge: count the edge; a full streaming table is drained at once. *)
RecordEdge(e) ==
    /\ ~exited
    /\ Recorded < MaxRecords
    /\ truth' = Bump(truth, e)
    /\ \E t \in AccRecord(stored, e, config.streaming, config.top_n) :
          /\ IF ShouldFlush(t, config.streaming, config.top_n)
             THEN stored' = EmptyTable(Edges) /\ out' = Merge(out, t)
             ELSE stored' = t /\ UNCHANGED out
          /\ evictedMax' = Max({evictedMax, LargestDropped(Bump(stored, e), t)})
    /\ UNCHANGED <<config, exited>>

(* plugin_exit drains what is left; drain does not prune. *)
ExitDrain ==
    /\ ~exited
    /\ exited' = TRUE
    /\ out' = Merge(out, stored)
    /\ stored' = EmptyTable(Edges)
    /\ UNCHANGED <<config, truth, evictedMax>>

StorageNext == (\E e \in Edges : RecordEdge(e)) \/ ExitDrain

StorageSpec == StorageInit /\ [][StorageNext]_storageVars
-----------------------------------------------------------------------------
(***************************************************************************)
(* An edge count is never invented, by pruning or re-insertion, and in     *)
(* streaming mode none is lost either: what is stored and what was drained *)
(* add up to what happened.                                                *)
(***************************************************************************)
CountsConserved ==
    \A e \in Edges :
        /\ stored[e] + out[e] <= truth[e]
        /\ config.streaming => stored[e] + out[e] = truth[e]

(***************************************************************************)
(* The memory bound of each mode between two callbacks: at most 2*top_n    *)
(* keys in the top-N table (none when top_n = 0), fewer than top_n keys in *)
(* the streaming map (none when top_n is 0 or 1).                          *)
(***************************************************************************)
TableBounded ==
    LET n == Cardinality(Keys(stored))
    IN  IF config.streaming
        THEN n = 0 \/ n < config.top_n
        ELSE n <= 2 * config.top_n

(***************************************************************************)
(* What top-N pruning does guarantee: until exit, top_n of the stored      *)
(* edges have counts at least as large as anything ever thrown away, over  *)
(* any number of prunings.                                                 *)
(***************************************************************************)
TopNFloor ==
    ~exited /\ evictedMax > 0 =>
        Cardinality({e \in Edges : stored[e] >= evictedMax}) >= config.top_n
=============================================================================
