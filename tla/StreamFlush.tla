---------------------------- MODULE StreamFlush ----------------------------
(***************************************************************************)
(* Streaming mode and the lazily opened profile: init_writer_if_needed and *)
(* plugin_exit (plugin/src/lib.rs), record_edge and flush_edges            *)
(* (plugin/src/state.rs), over several vCPU threads.                       *)
(*                                                                         *)
(* One action per atomic access or critical section: the relaxed load and  *)
(* the compare-exchange of writer_initialized, opening the file, its       *)
(* publication under the writer lock; recording into the vCPU's own table  *)
(* with the drain; the section of flushed_branch_entries; the section of   *)
(* the writer.  A write that fails (the error is printed or ignored) may   *)
(* have put whole records of the batch into the profile before; the rest   *)
(* of the batch is lost.  An edge is in the profile when the writer has    *)
(* accepted its record: what a reader makes of the file after a failure is *)
(* the subject of ProfileLog.  Every vCPU that records has its slot (the   *)
(* subject of VcpuStore).                                                  *)
(***************************************************************************)
EXTENDS EdgeTables

CONSTANTS
    Vcpus,        \* vCPU threads
    Edges,        \* pairs <<from, to>>
    TopN,         \* the top_n option: flush threshold
    MAX_EDGES_PER_RECORD,   \* edges of one record of a batch
    MaxRecords    \* bound: edges recorded by one vCPU

ASSUME FiniteAssumption == IsFiniteSet(Vcpus) /\ IsFiniteSet(Edges)
ASSUME TopNAssumption == TopN \in Nat
ASSUME ChunkAssumption == MAX_EDGES_PER_RECORD \in Nat \ {0}
ASSUME MaxRecordsAssumption == MaxRecords \in Nat

Targets == {e[2] : e \in Edges}

VARIABLES
    initialized,  \* writer_initialized
    writer,       \* the profile writer: none, open
    opens,        \* history: how often the output file was created
    translated,   \* some vcpu_tb_trans got past init_writer_if_needed
    pc,           \* where each vCPU is
    acc,          \* acc[v]: streaming map of vCPU v
    batch,        \* batch[v]: edges drained and not yet written
    flushed,      \* flushed_branch_entries
    written,      \* written[v]: edges of v's batches in the profile
    exited,       \* plugin_exit has run
    final,        \* final[v]: edges of v merged into the exit batch
    entries,      \* branch entries used by compute_fall_throughs
    truth,        \* history: edges recorded on v
    lost          \* history: edges drained and not written

store == <<acc, batch, flushed, written, truth, lost>>
atexit == <<exited, final, entries>>
vars == <<initialized, writer, opens, translated, pc, store, atexit>>

Zero == [v \in Vcpus |-> EmptyTable(Edges)]

Init ==
    /\ initialized = FALSE
    /\ writer = "none"
    /\ opens = 0
    /\ translated = FALSE
    /\ pc = [v \in Vcpus |-> "idle"]
    /\ acc = Zero
    /\ batch = Zero
    /\ flushed = EmptyTable(Targets)
    /\ written = Zero
    /\ exited = FALSE
    /\ final = Zero
    /\ entries = EmptyTable(Targets)
    /\ truth = Zero
    /\ lost = Zero

(* init_writer_if_needed, first load: the flag is up, go on translating, *)
(* whether or not the writer is there yet.                               *)
AlreadyInitialized(v) ==
    /\ ~exited
    /\ pc[v] = "idle"
    /\ initialized
    /\ translated' = TRUE
    /\ UNCHANGED <<initialized, writer, opens, pc, store, atexit>>

(* The flag is down: try to be the one. *)
NotInitialized(v) ==
    /\ ~exited
    /\ pc[v] = "idle"
    /\ ~initialized
    /\ pc' = [pc EXCEPT ![v] = "exchange"]
    /\ UNCHANGED <<initialized, writer, opens, translated, store, atexit>>

(* Mutant: a plain store of the flag instead of the compare-exchange. *)
CompareExchange_Store(v) ==
    /\ pc[v] = "exchange"
    /\ initialized' = TRUE
    /\ pc' = [pc EXCEPT ![v] = "open"]
    /\ UNCHANGED <<writer, opens, translated, store, atexit>>

(* compare_exchange(false, true): the loser returns at once. *)
CompareExchange(v) ==
    /\ pc[v] = "exchange"
    /\ IF initialized
       THEN /\ pc' = [pc EXCEPT ![v] = "idle"]
            /\ translated' = TRUE
            /\ UNCHANGED initialized
       ELSE /\ pc' = [pc EXCEPT ![v] = "open"]
            /\ initialized' = TRUE
            /\ UNCHANGED translated
    /\ UNCHANGED <<writer, opens, store, atexit>>

(* ProfileWriter::new creates (truncates) the file; header and metadata. *)
OpenFile(v) ==
    /\ pc[v] = "open"
    /\ opens' = opens + 1
    /\ pc' = [pc EXCEPT ![v] = "publish"]
    /\ UNCHANGED <<initialized, writer, translated, store, atexit>>

(* ProfileWriter::new fails: a message, and the flag stays up. *)
OpenFails(v) ==
    /\ pc[v] = "open"
    /\ pc' = [pc EXCEPT ![v] = "idle"]
    /\ translated' = TRUE
    /\ UNCHANGED <<initialized, writer, opens, store, atexit>>

(* *state.writer.lock() = Some(writer) *)
PublishWriter(v) ==
    /\ pc[v] = "publish"
    /\ writer' = "open"
    /\ pc' = [pc EXCEPT ![v] = "idle"]
    /\ translated' = TRUE
    /\ UNCHANGED <<initialized, opens, store, atexit>>

RecordedBy(v) == SumFunction(truth[v])

(* Mutant: the table is copied, not drained. *)
RecordEdge_Copy(v, e) ==
    /\ ~exited
    /\ translated
    /\ pc[v] = "idle"
    /\ RecordedBy(v) < MaxRecords
    /\ truth' = [truth EXCEPT ![v] = Bump(@, e)]
    /\ LET t == Bump(acc[v], e)
       IN  /\ acc' = [acc EXCEPT ![v] = t]
           /\ IF ShouldFlush(t, TRUE, TopN)
              THEN /\ batch' = [batch EXCEPT ![v] = t]
                   /\ pc' = [pc EXCEPT ![v] = "count"]
              ELSE UNCHANGED <<batch, pc>>
    /\ UNCHANGED <<initialized, writer, opens, translated, flushed, written, lost, atexit>>

(* record_edge in the vCPU's own table; a full table is drained into a batch. *)
RecordEdge(v, e) ==
    /\ ~exited
    /\ translated
    /\ pc[v] = "idle"
    /\ RecordedBy(v) < MaxRecords
    /\ truth' = [truth EXCEPT ![v] = Bump(@, e)]
    /\ LET t == Bump(acc[v], e)
       IN  IF ShouldFlush(t, TRUE, TopN)
           THEN /\ acc' = [acc EXCEPT ![v] = EmptyTable(Edges)]
                /\ batch' = [batch EXCEPT ![v] = t]
                /\ pc' = [pc EXCEPT ![v] = "count"]
           ELSE /\ acc' = [acc EXCEPT ![v] = t]
                /\ UNCHANGED <<batch, pc>>
    /\ UNCHANGED <<initialized, writer, opens, translated, flushed, written, lost, atexit>>

(* Mutant: the entries are counted only once there is a writer. *)
CountEntries_IfOpen(v) ==
    /\ pc[v] = "count"
    /\ flushed' = [a \in Targets |->
                     flushed[a] + (IF writer = "open" THEN EntriesInto(batch[v], a) ELSE 0)]
    /\ pc' = [pc EXCEPT ![v] = "write"]
    /\ UNCHANGED <<initialized, writer, opens, translated, acc, batch, written, truth, lost, atexit>>

(* flush_edges: the batch's branch entries, under the lock of the map. *)
CountEntries(v) ==
    /\ pc[v] = "count"
    /\ flushed' = [a \in Targets |-> flushed[a] + EntriesInto(batch[v], a)]
    /\ pc' = [pc EXCEPT ![v] = "write"]
    /\ UNCHANGED <<initialized, writer, opens, translated, acc, batch, written, truth, lost, atexit>>

(* Mutant: what was not written goes back into the table, to be flushed again. *)
FinishFlush_Retry(v, K) ==
    /\ pc[v] = "write"
    /\ written' = [written EXCEPT ![v] = Merge(@, Keep(batch[v], K))]
    /\ acc' = [acc EXCEPT ![v] = Keep(batch[v], Edges \ K)]
    /\ batch' = [batch EXCEPT ![v] = EmptyTable(Edges)]
    /\ pc' = [pc EXCEPT ![v] = "idle"]
    /\ UNCHANGED <<initialized, writer, opens, translated, flushed, truth, lost, atexit>>

(* The batch leaves flush_edges: the edges in K to the profile, the rest nowhere. *)
FinishFlush(v, K) ==
    /\ pc[v] = "write"
    /\ written' = [written EXCEPT ![v] = Merge(@, Keep(batch[v], K))]
    /\ lost' = [lost EXCEPT ![v] = Merge(@, Keep(batch[v], Edges \ K))]
    /\ batch' = [batch EXCEPT ![v] = EmptyTable(Edges)]
    /\ pc' = [pc EXCEPT ![v] = "idle"]
    /\ UNCHANGED <<initialized, writer, opens, translated, acc, flushed, truth, atexit>>

(* What a write of the edges in `keys` that fails may have accepted: the full *)
(* records before the one it failed in; drain and merge leave the order open. *)
FullRecords(keys) ==
    {K \in SUBSET keys : K # keys /\ Cardinality(K) % MAX_EDGES_PER_RECORD = 0}

(* flush_edges, writer lock: the batch is written, whether or not the flush *)
(* marker behind it is ...                                                  *)
WriteBatch(v) == writer = "open" /\ FinishFlush(v, Edges)
(* ... or the write fails half-way and the error is only printed ... *)
WriteFails(v) ==
    /\ writer = "open"
    /\ \E K \in FullRecords(Keys(batch[v])) : FinishFlush(v, K)
(* Mutant: the flush waits until there is a writer. *)
NoWriter_Waits(v) == writer = "none" /\ pc[v] = "write" /\ UNCHANGED vars
(* ... or there is no writer (not yet, or opening it failed). *)
NoWriter(v) == writer = "none" /\ FinishFlush(v, {})

Quiescent == \A v \in Vcpus : pc[v] = "idle"

(* plugin_exit without a writer returns at once. *)
ExitWithoutWriter ==
    /\ ~exited /\ Quiescent /\ translated
    /\ writer = "none"
    /\ exited' = TRUE
    /\ UNCHANGED <<initialized, writer, opens, translated, pc, store, final, entries>>

(* plugin_exit: drain every table, merge, write (the edges in K are accepted), *)
(* derive the branch entries from all of them.                                 *)
ExitWrite(K) ==
    /\ ~exited /\ Quiescent /\ translated
    /\ writer = "open"
    /\ exited' = TRUE
    /\ final' = [v \in Vcpus |-> Keep(acc[v], K)]
    /\ lost' = [v \in Vcpus |-> Merge(lost[v], Keep(acc[v], Edges \ K))]
    /\ acc' = Zero
    /\ entries' = [a \in Targets |->
                     flushed[a] + SumFunction([v \in Vcpus |-> EntriesInto(acc[v], a)])]
    /\ UNCHANGED <<initialized, writer, opens, translated, pc, batch, flushed, written, truth>>

PluginExit == ExitWrite(Edges)
(* The write of the merged batch fails half-way; its result is ignored. *)
ExitWriteFails == \E K \in FullRecords(UNION {Keys(acc[v]) : v \in Vcpus}) : ExitWrite(K)

InitWriter(v) ==
    \/ AlreadyInitialized(v)
    \/ NotInitialized(v)
    \/ CompareExchange(v)
    \/ OpenFile(v)
    \/ OpenFails(v)
    \/ PublishWriter(v)

FlushEdges(v) ==
    \/ CountEntries(v)
    \/ WriteBatch(v)
    \/ WriteFails(v)
    \/ NoWriter(v)

Next ==
    \/ \E v \in Vcpus : InitWriter(v) \/ FlushEdges(v)
    \/ \E v \in Vcpus, e \in Edges : RecordEdge(v, e)
    \/ ExitWithoutWriter
    \/ PluginExit
    \/ ExitWriteFails

(* A flush that has begun runs to its end: its critical sections are short *)
(* and never nested in each other.                                         *)
Fairness == \A v \in Vcpus : WF_vars(FlushEdges(v))

Spec == Init /\ [][Next]_vars /\ Fairness
-----------------------------------------------------------------------------
TypeOK ==
    /\ initialized \in BOOLEAN
    /\ writer \in {"none", "open"}
    /\ opens \in Nat
    /\ translated \in BOOLEAN
    /\ pc \in [Vcpus -> {"idle", "exchange", "open", "publish", "count", "write"}]
    /\ acc \in [Vcpus -> [Edges -> Nat]]
    /\ batch \in [Vcpus -> [Edges -> Nat]]
    /\ flushed \in [Targets -> Nat]
    /\ written \in [Vcpus -> [Edges -> Nat]]
    /\ exited \in BOOLEAN
    /\ final \in [Vcpus -> [Edges -> Nat]]
    /\ entries \in [Targets -> Nat]
    /\ truth \in [Vcpus -> [Edges -> Nat]]
    /\ lost \in [Vcpus -> [Edges -> Nat]]

(***************************************************************************)
(* The output file is created at most once, however many vCPUs reach their *)
(* first translation together: a second File::create would truncate what   *)
(* was written.                                                            *)
(***************************************************************************)
OpenedOnce == opens <= 1

(***************************************************************************)
(* Nothing is counted twice or forgotten on the way: every recorded edge   *)
(* is in the table, in the batch being flushed, in the profile, in the     *)
(* exit batch, or in the part of a batch that was not written.             *)
(***************************************************************************)
EdgesConserved ==
    \A v \in Vcpus, e \in Edges :
        truth[v][e] = acc[v][e] + batch[v][e] + written[v][e] + final[v][e] + lost[v][e]

(***************************************************************************)
(* The branch entries from which plugin_exit derives the fall-through      *)
(* counts are exact even if batches were lost on their way to the file:    *)
(* flush_edges counts them first, and exit adds only what is left.         *)
(***************************************************************************)
EntriesExact ==
    exited /\ writer = "open" =>
        \A a \in Targets :
            entries[a] = SumFunction([v \in Vcpus |-> EntriesInto(truth[v], a)])

(* An edge is pending in the table or in the batch under way, and delivered *)
(* in a written batch or in the exit batch.                                 *)
Ledger == INSTANCE EdgeLedger WITH
    pending <- [v \in Vcpus |-> Merge(acc[v], batch[v])],
    delivered <- [v \in Vcpus |-> Merge(written[v], final[v])],
    closed <- exited

(***************************************************************************)
(* The tables, the batches, the shared writer and its failures implement   *)
(* the ledger of edges: each edge is entered once and leaves once, with    *)
(* its whole count; a flush, whatever becomes of its write, leaves nothing *)
(* of its vCPU pending (no edge is kept to be sent a second time), and the *)
(* exit settles all vCPUs with one write or, without a writer, nothing.    *)
(***************************************************************************)
LedgerSpec == Ledger!Spec

(***************************************************************************)
(* A batch does not stay in flight: a vCPU that began a flush gets rid of  *)
(* the batch whatever state the writer is in.                              *)
(***************************************************************************)
FlushEnds ==
    \A v \in Vcpus :
        (pc[v] = "count") ~> (pc[v] = "idle" /\ batch[v] = EmptyTable(Edges))
=============================================================================
