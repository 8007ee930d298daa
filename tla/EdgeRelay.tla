----------------------------- MODULE EdgeRelay -----------------------------
(***************************************************************************)
(* Tiers 1 and 2 (plugin/src/tier1.rs, tier2.rs): how the instrumentation  *)
(* of consecutive blocks hands over, through the per-vCPU scoreboard, what *)
(* the previous block was, and what plugin_exit derives from it: branch    *)
(* edges, fall-through edges, direct and indirect calls.                   *)
(*                                                                         *)
(* QEMU is external: it runs a block's TB-level instrumentation in the     *)
(* order it was registered (tier 0's ADD, tier 1's conditional callback,   *)
(* tier 2's clearing store) and the last instruction's stores just before  *)
(* that instruction.  A block may be left before its last instruction (a   *)
(* fault, an interrupt): Abort.  What the next block is, is up to the      *)
(* guest; an exception taken at the last instruction is, for the plugin, a *)
(* transfer from that block.                                               *)
(*                                                                         *)
(* A callback touches only its own vCPU's state, except for the flush of a *)
(* full streaming table, whose interleaving is the subject of StreamFlush  *)
(* and which is one step here: of a batch, drained in a flush or at exit,  *)
(* any part may reach the profile (no writer, or a write that fails), the  *)
(* rest is lost.  The report is what plugin_exit hands to the writer.      *)
(* A vCPU's slot in a table of accumulators may be stored only after its   *)
(* first callbacks (VcpuStore); until then get_mut returns None and what   *)
(* they record is missed.                                                  *)
(***************************************************************************)
EXTENDS EdgeTables, DirectCalls, Sequences

CONSTANTS
    Vcpus,        \* vCPU threads
    Tbs,          \* blocks: addresses, direct calls, does it end in an indirect one
    Tier,         \* 1 .. 3
    Configs,      \* values of the stream and top_n options
    MaxEntries,   \* bound: block entries in a behaviour
    MaxLate       \* bound: slots that are stored late

ASSUME TbsAssumption ==
    Tbs \subseteq [start : Nat, end : Nat, fall_through_addr : Nat,
                   indirect : BOOLEAN, direct : SUBSET (Nat \X Nat)]
ASSUME FiniteAssumption == IsFiniteSet(Vcpus) /\ IsFiniteSet(Tbs)
ASSUME TierAssumption == Tier \in 1 .. 3
ASSUME ConfigsAssumption == Configs \subseteq [streaming : BOOLEAN, top_n : Nat]
ASSUME MaxEntriesAssumption == MaxEntries \in Nat /\ MaxLate \in Nat

Starts == {b.start : b \in Tbs}
(* A branch edge or an indirect call: from a block's end to a block's start. *)
Edges == {b.end : b \in Tbs} \X Starts

(* The initial scoreboard: all zero. *)
ZeroState == [last_tb_end |-> 0, fall_through_addr |-> 0, pending |-> 0]

VARIABLES
    config,     \* streaming flag and top_n
    known,      \* blocks in tb_map
    direct,     \* direct_calls: pairs of call site and target
    exec,       \* exec_count of each block
    sb,         \* sb[v]: VcpuState of the scoreboard
    cur,        \* cur[v]: the block v is in (a sequence of at most one)
    late,       \* slots <<v, s>> in whose place get_mut(v) still finds null
    acc,        \* acc[v]: edge accumulator
    calls,      \* calls[v]: indirect_calls map
    flushed,    \* flushed_branch_entries
    written,    \* branch edges in the profile
    report,     \* fall-throughs, direct and indirect calls written at exit
    lost,       \* history: edges drained and not written
    missed,     \* history: edges for which there was no accumulator
    missedCalls, \* history: indirect calls for which there was no map
    prev,       \* history: prev[v], the last block v left and whether it finished
    strays,     \* history: entries from an abandoned block, by start address
    trueEdges,  \* history: taken transfers that are not fall-throughs
    trueFt,     \* history: entries by fall-through, by start address
    firsts,     \* history: entries of a vCPU's first block
    trueCalls   \* history: transfers out of a finished indirect block

tables == <<acc, calls, flushed, written, lost, missed, missedCalls>>
plugin == <<known, direct, exec, sb, late, tables>>
observed == <<strays, trueEdges, trueFt, firsts, trueCalls>>
vars == <<config, plugin, cur, report, prev, observed>>

(* edge_accumulators and indirect_calls have a slot for each vCPU. *)
AllSlots == Vcpus \X {"edges", "calls"}

Init ==
    /\ config \in Configs
    /\ known = {}
    /\ direct = {}
    /\ exec = [b \in Tbs |-> 0]
    /\ sb = [v \in Vcpus |-> ZeroState]
    /\ cur = [v \in Vcpus |-> <<>>]
    /\ late \in {L \in SUBSET AllSlots : Cardinality(L) <= MaxLate}
    /\ acc = [v \in Vcpus |-> EmptyTable(Edges)]
    /\ calls = [v \in Vcpus |-> EmptyTable(Edges)]
    /\ flushed = EmptyTable(Starts)
    /\ written = EmptyTable(Edges)
    /\ report = <<>>
    /\ lost = EmptyTable(Edges)
    /\ missed = EmptyTable(Edges)
    /\ missedCalls = EmptyTable(Edges)
    /\ prev = [v \in Vcpus |-> <<>>]
    /\ strays = EmptyTable(Starts)
    /\ trueEdges = EmptyTable(Edges)
    /\ trueFt = EmptyTable(Starts)
    /\ firsts = EmptyTable(Starts)
    /\ trueCalls = EmptyTable(Edges)

Running == report = <<>>

(* vcpu_tb_trans: the block enters tb_map and gets its instrumentation; *)
(* tier 2 notes its direct calls.                                       *)
Translate(b) ==
    /\ Running
    /\ b \notin known
    /\ known' = known \cup {b}
    /\ direct' = IF Tier >= 2 THEN direct \cup b.direct ELSE direct
    /\ UNCHANGED <<config, exec, sb, cur, late, tables, report, prev, observed>>

(* Another thread's push stores the pointer of v's slot in table s. *)
StoreSlot(v, s) ==
    /\ Running
    /\ <<v, s>> \in late
    /\ late' = late \ {<<v, s>>}
    /\ UNCHANGED <<config, known, direct, exec, sb, cur, tables, report, prev, observed>>

(* A drained batch: the edges in K reach the profile, the others do not. *)
Deliver(t, K) ==
    /\ written' = Merge(written, Keep(t, K))
    /\ lost' = Merge(lost, Keep(t, Edges \ K))

(* record_edge, with the flush of a full streaming table. *)
RecordEdge(v, e) ==
    IF <<v, "edges">> \in late
    THEN missed' = Bump(missed, e) /\ UNCHANGED <<acc, flushed, written, lost>>
    ELSE /\ \E t \in AccRecord(acc[v], e, config.streaming, config.top_n) :
              IF ShouldFlush(t, config.streaming, config.top_n)
              THEN /\ acc' = [acc EXCEPT ![v] = EmptyTable(Edges)]
                   /\ flushed' = [a \in Starts |-> flushed[a] + EntriesInto(t, a)]
                   /\ \E K \in SUBSET Keys(t) : Deliver(t, K)
              ELSE /\ acc' = [acc EXCEPT ![v] = t]
                   /\ UNCHANGED <<flushed, written, lost>>
         /\ UNCHANGED missed

(* record_indirect_call *)
RecordIndirectCall(v, c) ==
    IF <<v, "calls">> \in late
    THEN missedCalls' = Bump(missedCalls, c) /\ UNCHANGED calls
    ELSE calls' = [calls EXCEPT ![v] = Bump(@, c)] /\ UNCHANGED missedCalls

(* branch_taken_cb *)
BranchTakenCb(v, to) ==
    LET from == sb[v].last_tb_end
        callsite == sb[v].pending
    IN  IF from = 0
        THEN UNCHANGED tables
        ELSE /\ RecordEdge(v, <<from, to>>)
             /\ IF Tier >= 2 /\ callsite # 0
                THEN RecordIndirectCall(v, <<callsite, to>>)
                ELSE UNCHANGED <<calls, missedCalls>>

(* What really happens when v enters a block at `to`. *)
ObserveEntry(v, to) ==
    IF prev[v] = <<>>
    THEN firsts' = Bump(firsts, to) /\ UNCHANGED <<strays, trueEdges, trueFt, trueCalls>>
    ELSE LET p == prev[v][1].tb
             taken == p.fall_through_addr # to
         IN  IF prev[v][1].finished
             THEN /\ trueFt' = IF taken THEN trueFt ELSE Bump(trueFt, to)
                  /\ trueEdges' = IF taken THEN Bump(trueEdges, <<p.end, to>>) ELSE trueEdges
                  /\ trueCalls' = IF taken /\ p.indirect
                                  THEN Bump(trueCalls, <<p.end, to>>) ELSE trueCalls
                  /\ UNCHANGED <<strays, firsts>>
             ELSE /\ strays' = Bump(strays, to)
                  /\ UNCHANGED <<trueEdges, trueFt, firsts, trueCalls>>

(* Mutant: tier 2 registers no clearing store. *)
EnterTb_NoClear(v, b) ==
    /\ Running
    /\ cur[v] = <<>>
    /\ b \in known
    /\ SumFunction(exec) < MaxEntries
    /\ exec' = [exec EXCEPT ![b] = @ + 1]
    /\ IF sb[v].fall_through_addr # b.start
       THEN BranchTakenCb(v, b.start)
       ELSE UNCHANGED tables
    /\ cur' = [cur EXCEPT ![v] = <<b>>]
    /\ ObserveEntry(v, b.start)
    /\ UNCHANGED <<config, known, direct, sb, late, report, prev>>

(* Mutant: tier 1's stores are made at the start of the block, before the test. *)
EnterTb_StoreFirst(v, b) ==
    /\ Running
    /\ cur[v] = <<>>
    /\ b \in known
    /\ SumFunction(exec) < MaxEntries
    /\ exec' = [exec EXCEPT ![b] = @ + 1]
    /\ IF b.fall_through_addr # b.start
       THEN BranchTakenCb(v, b.start)
       ELSE UNCHANGED tables
    /\ sb' = [sb EXCEPT ![v].pending = IF Tier >= 2 THEN 0 ELSE @]
    /\ cur' = [cur EXCEPT ![v] = <<b>>]
    /\ ObserveEntry(v, b.start)
    /\ UNCHANGED <<config, known, direct, late, report, prev>>

(***************************************************************************)
(* A vCPU enters a block: tier 0's ADD, tier 1's callback when the stored  *)
(* fall-through address is not this block's, tier 2's clearing store.      *)
(***************************************************************************)
EnterTb(v, b) ==
    /\ Running
    /\ cur[v] = <<>>
    /\ b \in known
    /\ SumFunction(exec) < MaxEntries
    /\ exec' = [exec EXCEPT ![b] = @ + 1]
    /\ IF sb[v].fall_through_addr # b.start
       THEN BranchTakenCb(v, b.start)
       ELSE UNCHANGED tables
    /\ sb' = [sb EXCEPT ![v].pending = IF Tier >= 2 THEN 0 ELSE @]
    /\ cur' = [cur EXCEPT ![v] = <<b>>]
    /\ ObserveEntry(v, b.start)
    /\ UNCHANGED <<config, known, direct, late, report, prev>>

(* The last instruction: tier 1's two stores, tier 2's if it is indirect. *)
FinishTb(v) ==
    /\ Running
    /\ cur[v] # <<>>
    /\ LET b == cur[v][1]
       IN  /\ sb' = [sb EXCEPT ![v] =
                        [last_tb_end |-> b.end,
                         fall_through_addr |-> b.fall_through_addr,
                         pending |-> IF Tier >= 2 /\ b.indirect THEN b.end ELSE @.pending]]
           /\ prev' = [prev EXCEPT ![v] = <<[tb |-> b, finished |-> TRUE]>>]
    /\ cur' = [cur EXCEPT ![v] = <<>>]
    /\ UNCHANGED <<config, known, direct, exec, late, tables, report, observed>>

(* The block is left before its last instruction: none of the stores is made. *)
Abort(v) ==
    /\ Running
    /\ cur[v] # <<>>
    /\ prev' = [prev EXCEPT ![v] = <<[tb |-> cur[v][1], finished |-> FALSE]>>]
    /\ cur' = [cur EXCEPT ![v] = <<>>]
    /\ UNCHANGED <<config, plugin, report, observed>>

(* The tables of all vCPUs, merged as plugin_exit does. *)
MergeAll(ts) == [e \in Edges |-> SumFunction([v \in Vcpus |-> ts[v][e]])]

(* Mutant: compute_fall_throughs ignores what was flushed earlier. *)
FallThroughCount_NoFlushed(b, edges) ==
    LET branch == EntriesInto(edges, b.start)
    IN  IF exec[b] > branch THEN exec[b] - branch ELSE 0

(* compute_fall_throughs: total_exec.saturating_sub(branch_count) *)
FallThroughCount(b, edges) ==
    LET branch == flushed[b.start] + EntriesInto(edges, b.start)
    IN  IF exec[b] > branch THEN exec[b] - branch ELSE 0

(* compute_fall_throughs: the blocks that get a record, with their counts.   *)
(* Any block that ends just before one of them may be named its predecessor. *)
FallThroughs(edges) ==
    LET emitted == {b \in known :
                      /\ FallThroughCount(b, edges) > 0
                      /\ \E p \in known : p.fall_through_addr = b.start}
    IN  [b \in emitted |-> FallThroughCount(b, edges)]

(* The direct calls with the counts of the blocks the index finds for them. *)
DirectWeights(last) == [c \in direct |-> CallCount(last, exec, c[1])]

(* plugin_exit, tiers 1 and 2: drain, merge, derive, write (what the write of *)
(* the edges returns is ignored).                                             *)
PluginExit ==
    /\ Running
    /\ known # {}
    /\ LET edges == MergeAll(acc)
       IN  /\ \E K \in SUBSET Keys(edges) : Deliver(edges, K)
           /\ \E last \in LastAtStart(known) :
                 report' = <<[ft |-> FallThroughs(edges),
                              direct |-> DirectWeights(last),
                              calls |-> MergeAll(calls)]>>
    /\ acc' = [v \in Vcpus |-> EmptyTable(Edges)]
    /\ UNCHANGED <<config, known, direct, exec, sb, cur, late, calls, flushed, missed, missedCalls,
                   prev, observed>>

Next ==
    \/ \E b \in Tbs : Translate(b)
    \/ \E v \in Vcpus, b \in Tbs : EnterTb(v, b)
    \/ \E v \in Vcpus : FinishTb(v) \/ Abort(v)
    \/ \E v \in Vcpus, s \in {"edges", "calls"} : StoreSlot(v, s)
    \/ PluginExit

Spec == Init /\ [][Next]_vars
-----------------------------------------------------------------------------
TypeOK ==
    /\ config \in Configs
    /\ known \subseteq Tbs
    /\ direct = IF Tier >= 2 THEN UNION {b.direct : b \in known} ELSE {}
    /\ exec \in [Tbs -> Nat]
    /\ sb \in [Vcpus -> [last_tb_end : Nat, fall_through_addr : Nat, pending : Nat]]
    /\ acc \in [Vcpus -> [Edges -> Nat]]
    /\ calls \in [Vcpus -> [Edges -> Nat]]
    /\ flushed \in [Starts -> Nat]
    /\ written \in [Edges -> Nat]
    /\ lost \in [Edges -> Nat]
    /\ missed \in [Edges -> Nat]
    /\ missedCalls \in [Edges -> Nat]
    /\ late \subseteq AllSlots
    /\ \A v \in Vcpus : cur[v] = <<>> \/ cur[v][1] \in known

Exited == report # <<>>

(***************************************************************************)
(* The indirect calls in the profile are the transfers that really left a  *)
(* block through its indirect call, on whichever vCPU and although blocks  *)
(* are abandoned half-way: the callback reads the pending callsite before  *)
(* tier 2's store clears it, and the store keeps it from a later block.    *)
(* Only calls made while the vCPU had no map yet are missing.              *)
(***************************************************************************)
CallsExact ==
    Exited /\ Tier >= 2 =>
        \A c \in Edges : report[1].calls[c] + missedCalls[c] = trueCalls[c]

(* What the plugin made of the edge e: in the profile, lost on the way to it, *)
(* or never accumulated.                                                      *)
Seen(e) == written[e] + lost[e] + missed[e]

(***************************************************************************)
(* The branch edges: no edge is seen more often than it was taken, except  *)
(* that each entry from an abandoned block may be taken for one edge to    *)
(* the same target; and in streaming mode none is seen less often, so that *)
(* an edge is short in the profile by what its failed writes and its       *)
(* vCPU's late slot account for, and by nothing else.                      *)
(***************************************************************************)
EdgesExact ==
    Exited =>
        \A e \in Edges :
            /\ Seen(e) <= trueEdges[e] + strays[e[2]]
            /\ config.streaming => trueEdges[e] <= Seen(e)

OnlyBlockAt(b) == \A c \in known : c.start = b.start => c = b
ReportedFt(b) == IF b \in DOMAIN report[1].ft THEN report[1].ft[b] ELSE 0

(***************************************************************************)
(* "fall_through = total_exec - branch_entries": in streaming mode, for a  *)
(* block that shares its start with no other, the difference is the number *)
(* of entries by fall-through plus those where the block was the first of  *)
(* its vCPU plus those whose edge was missed; and the blocks that share a  *)
(* start never report more than that together, entries from abandoned      *)
(* blocks added.                                                           *)
(***************************************************************************)
FallThroughDerived ==
    Exited /\ config.streaming =>
        \A b \in known :
            LET actual == trueFt[b.start] + firsts[b.start] + EntriesInto(missed, b.start)
                peers == {c \in known : c.start = b.start}
            IN  /\ OnlyBlockAt(b) /\ trueFt[b.start] > 0 /\ strays[b.start] = 0
                      => ReportedFt(b) = actual
                /\ SumFunction([c \in peers |-> ReportedFt(c)]) <= actual + strays[b.start]

(***************************************************************************)
(* "looking up the containing TB's exec_count for each callsite": a direct *)
(* call is weighted with a block that contains it or with 0, and with the  *)
(* containing block itself unless another block starts between that        *)
(* block's start and the call, in which case the call may even be weighted *)
(* 0 (a shorter translation with the same start hides the longer one).     *)
(***************************************************************************)
DirectCallWeights ==
    Exited => \A c \in direct :
        LET w == report[1].direct[c]
            tbs == Containing(known, c[1])
        IN  /\ w = 0 \/ \E b \in tbs : w = exec[b]
            /\ \A b \in tbs : Unshadowed(known, b, c[1]) => w = exec[b]
=============================================================================
